\* Texts with characters that are not in the alphabet.
SPECIFICATION Spec
CONSTANTS
    MaxContextFieldLen = 3
    WordBits = 10
    Secrets = {}
    Texts <- MCTexts
    ContextCalls = {}
    Origins = {}
    ReplayPairs = {}
    Strings = {}
    URIs = {}
    MaxUint64 = 4194303
    MaxInt = 2097151
    MaxInt32 = 1023
    MaxVarintBytes = 4
    Exports = {}
    NewNumbers = {}
    NewStrings = {}
    NoJob = NoJob
INVARIANT InvalidCharactersRefused
