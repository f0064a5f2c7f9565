\* The encodings, on small inputs.
SPECIFICATION Spec
CONSTANTS
    MaxContextFieldLen = 3
    WordBits = 10
    Secrets <- MCSecrets
    Texts <- MCTexts
    ContextCalls <- MCContextCalls
    Origins <- MCOrigins
    ReplayPairs <- MCReplayPairs
    Strings <- MCStrings
    URIs <- MCURIs
    MaxUint64 = 4194303
    MaxInt = 2097151
    MaxInt32 = 1023
    MaxVarintBytes = 4
    Exports <- MCExports
    NewNumbers <- MCNewNumbers
    NewStrings <- MCNewStrings
    NoJob = NoJob
INVARIANTS
    SecretReadsBack
    ContextsEncodeApart
    OriginIsSchemeAndHost
    ReplayKeysApart
    ComparisonsAreEquality
    URIReadsBack
    ImportsWhatWasExported
    CutPayloadYieldsPrefix
    OtherExportersAreRead
