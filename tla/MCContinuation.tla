---------------------------- MODULE MCContinuation ----------------------------
(* Small instances of Continuation.                                         *)
EXTENDS Continuation, TLC

CONSTANTS s1, s2                \* a tool call and another method

ToolAndOther == s1 :> "tool" @@ s2 :> "other"
=============================================================================
