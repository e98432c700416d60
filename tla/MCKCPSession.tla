------------------------------ MODULE MCKCPSession ------------------------------
(* An instance of KCPSession for TLC: one end writes, the other may answer. *)
EXTENDS KCPSession, TLC

CONSTANTS a, b, BytesOfA, BytesOfB

MCEnds == {a, b}
MCMaxBytes == (a :> BytesOfA) @@ (b :> BytesOfB)
===============================================================================
