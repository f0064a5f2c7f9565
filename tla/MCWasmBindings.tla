--------------------------- MODULE MCWasmBindings ---------------------------
(* A small instance of WasmBindings for TLC. *)
EXTENDS WasmBindings, ConstantTime

CONSTANT MCHost

Text64(kind, bytes) == [kind |-> kind, bytes |-> bytes]

NoText == Text64("none", <<>>)
Bad    == Text64("bad", <<>>)
Blank  == Text64("blank", <<>>)
CtxA   == Text64("text", Build(Fields(<<[setter |-> "ip", key |-> <<>>, value |-> <<97>>]>>)))
CtxB   == Text64("text", Build(Fields(<<[setter |-> "ip", key |-> <<>>, value |-> <<98>>]>>)))

Base ==
    [op |-> "generate", len |-> 2, secret |-> Text64("text", <<1>>), algorithm |-> "SHA1",
     digits |-> 6, period |-> 2, time |-> None, context |-> NoText,
     code |-> NoCode, issued |-> NoText, request |-> NoText, window |-> 0, fields |-> <<>>]

GenerateReqs ==
    {Base, [Base EXCEPT !.context = CtxA],
     [Base EXCEPT !.context = Blank, !.algorithm = "sha256", !.time = MaxUint]}

VerifyReqs ==
    LET base == [Base EXCEPT !.op = "verify"]
    IN  {[base EXCEPT !.window = 1], [base EXCEPT !.issued = Blank],
         [base EXCEPT !.secret = Text64("text", <<2>>), !.window = 1],
         [base EXCEPT !.issued = CtxA, !.request = CtxA, !.window = 1],
         [base EXCEPT !.issued = CtxA, !.request = CtxB],
         [base EXCEPT !.request = CtxA]}

Refused ==
    {[Base EXCEPT !.secret = Bad], [Base EXCEPT !.period = 0], [Base EXCEPT !.context = Bad],
     [Base EXCEPT !.op = "verify", !.request = Bad],
     [Base EXCEPT !.op = "verify", !.window = MaxWindow + 1]}

Others ==
    {[Base EXCEPT !.op = "new_secret"],
     [Base EXCEPT !.op = "build_context",
                  !.fields = <<[setter |-> "ip", key |-> <<>>, value |-> <<97>>],
                               [setter |-> "region", key |-> <<>>, value |-> <<>>]>>]}

Exact(S) == {[req |-> r, size |-> 2, inputLen |-> 2] : r \in S}

(* One host asks everything, and has lengths wrong in every way; the other  *)
(* builds a context, or asks for a buffer that is smaller.                  *)
MCAsks ==
    [h \in Hosts |->
        IF h = MCHost
        THEN Exact(GenerateReqs \cup VerifyReqs \cup Others \cup Refused)
             \cup {[req |-> Base, size |-> 3, inputLen |-> 3], [req |-> Base, size |-> 1, inputLen |-> 1],
                   [req |-> Base, size |-> 2, inputLen |-> 3]}
        ELSE Exact({r \in Others : r.op = "build_context"})
             \cup {[req |-> [Base EXCEPT !.op = "new_secret"], size |-> 1, inputLen |-> 1]}]
=============================================================================
