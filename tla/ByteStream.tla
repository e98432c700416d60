------------------------------ MODULE ByteStream ------------------------------
(***************************************************************************)
(* What a KCP session promises: each end writes a stream of bytes, and the *)
(* other end reads them in the order in which they were written, without   *)
(* gaps or repetitions, as far as they arrive.                             *)
(***************************************************************************)
EXTENDS Naturals, Sequences, SequencesExt

CONSTANTS
    Ends,              \* the writers
    MaxLength          \* bound: the length of each writer's stream

VARIABLES
    sent,              \* the bytes that each end has written
    received           \* the bytes of each end's stream that were read

streamVars == <<sent, received>>

Init == sent = [e \in Ends |-> <<>>] /\ received = [e \in Ends |-> <<>>]

\* The writer e appends bytes.
Write(e) ==
    \E n \in 1..(MaxLength[e] - Len(sent[e])) :
        /\ sent' = [sent EXCEPT ![e] = @ \o [i \in 1..n |-> Len(@) + i]]
        /\ UNCHANGED received

\* The reader of e's stream gets the next bytes.
Read(e) ==
    \E n \in (Len(received[e]) + 1)..Len(sent[e]) :
        /\ received' = [received EXCEPT ![e] = SubSeq(sent[e], 1, n)]
        /\ UNCHANGED sent

Next == \E e \in Ends : Write(e) \/ Read(e)

Spec == Init /\ [][Next]_streamVars
===============================================================================
