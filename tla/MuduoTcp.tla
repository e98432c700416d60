------------------------------- MODULE MuduoTcp -------------------------------
(***************************************************************************)
(* The TCP connections of the muduo library, as src/tcprelay uses them.    *)
(* muduo is not part of the repository: this module is written from the    *)
(* calls src/ makes (send, shutdown, the connection, message and           *)
(* high-water callbacks).                                                  *)
(*                                                                         *)
(* A connection is a record: its state, `in`, the bytes read and not yet   *)
(* retrieved by the message callback, `out`, the bytes sent that the       *)
(* socket has not taken, `got`, the bytes the peer has, and `high`, a      *)
(* high-water callback queued in the loop and not yet run.                 *)
(***************************************************************************)
EXTENDS Naturals, Sequences

ConnStates == {"idle", "connecting", "connected", "disconnecting", "down"}

NewConn(s) == [state |-> s, in |-> <<>>, out |-> <<>>, got |-> <<>>, high |-> FALSE]

\* Callbacks still run in both states: shutdown() only closes the write side.
Readable(k) == k.state \in {"connected", "disconnecting"}

\* How many of n bytes the socket may take at once: none if a backlog waits.
Accepts(k, n) == IF k.out = <<>> /\ k.state = "connected" THEN 0..n ELSE {0}

\* conn->send(buf): refused unless connected. The socket takes the first n
\* bytes, the rest is queued, and reaching mark queues the callback.
Send(k, bytes, n, mark) ==
  IF k.state # "connected" THEN k
  ELSE LET queued == k.out \o SubSeq(bytes, n + 1, Len(bytes)) IN
       [k EXCEPT !.got = @ \o SubSeq(bytes, 1, n),
                 !.out = queued,
                 !.high = @ \/ (Len(k.out) < mark /\ Len(queued) >= mark)]

\* send() empties the caller's buffer only when it took the bytes.
Unsent(k, bytes) == IF k.state = "connected" THEN <<>> ELSE bytes

Shutdown(k) == IF k.state = "connected" THEN [k EXCEPT !.state = "disconnecting"] ELSE k

\* handleWrite: the socket takes the backlog.
Drain(k) == [k EXCEPT !.got = @ \o k.out, !.out = <<>>]

\* The connection is gone, and with it what was queued.
Down(k) == [k EXCEPT !.state = "down", !.in = <<>>, !.out = <<>>]
===============================================================================
