------------------------------ MODULE KCPSession ------------------------------
(***************************************************************************)
(* kcp/kcp_session.cc: the two KCPSession objects of one conversation, one *)
(* at each end, over the UDP network.  All the handlers of a session run   *)
(* on its event loop.  The loop of ProcessPacketInLoopThread is unrolled   *)
(* into one step per message, since the message callback may Write or      *)
(* Close between two of them: `phase` says where the handler stands.       *)
(*                                                                         *)
(* Where an assert of WriteInLoopThread fails, the model goes on as a      *)
(* build with NDEBUG does.                                                 *)
(***************************************************************************)
EXTENDS Ikcp, UDPNetwork

CONSTANTS
    Ends,        \* the two ends
    Closers,     \* the ends whose user calls Close
    Notified,    \* the ends whose user set the callbacks for write complete and
                 \* high water mark
    MaxBytes,    \* bound: how many bytes each end writes
    MaxAckList   \* bound: the length of acklist

VARIABLES
    kcp,                \* kcp_: the control block of each end
    closed,             \* closed_
    phase,              \* "idle", "read": in ProcessPacketInLoopThread, "callback": in
                        \* the message callback that it called
    need_drain_before,  \* need_drain_before_process, a local of the handler
    callbacks,          \* the user callbacks queued in the loop
    written,            \* how many bytes the user of each end has written
    delivered           \* the bytes that the user of each end has read

sessionVars == <<kcp, closed, phase, need_drain_before, callbacks, written, delivered>>
vars == <<net, sessionVars>>

ASSUME SessionAssumption ==
    /\ IsFiniteSet(Ends) /\ Cardinality(Ends) = 2
    /\ Closers \subseteq Ends /\ Notified \subseteq Ends
    /\ MaxBytes \in [Ends -> Nat]
    /\ MaxAckList \in Nat \ {0}

\* The bound on what is written keeps all the numbers of one conversation, and a
\* window behind them, within half of the number space, wherever they start in it.
\* The network may hold a packet for ever: beyond that, ikcp.c could take an old
\* segment for a new one.
ASSUME NumberingAssumption == \A e \in Ends : 2 * (MaxBytes[e] + rcv_wnd) < SeqSpace

Peer(e) == CHOOSE d \in Ends : d # e

SeqNumbers == 0..(SeqSpace - 1)

\* The control blocks, up to what the queues hold.
ControlBlockOK(k) ==
    /\ {k.snd_una, k.snd_nxt, k.rcv_nxt} \subseteq SeqNumbers
    /\ k.rmt_wnd \in 0..rcv_wnd
    /\ \A i \in DOMAIN k.snd_buf : k.snd_buf[i].xmit \in 1..dead_link
    /\ {k.ask_tell, k.probe_wait, k.dead} \subseteq BOOLEAN

TypeOK ==
    /\ \A p \in net : p.to \in Ends /\ p.segs # <<>>
    /\ \A e \in Ends : ControlBlockOK(kcp[e])
    /\ closed \in [Ends -> BOOLEAN]
    /\ phase \in [Ends -> {"idle", "read", "callback"}]
    /\ need_drain_before \in [Ends -> BOOLEAN]
    /\ callbacks \in [Ends -> SUBSET {"write_complete", "high_water_mark"}]
    /\ \A e \in Ends : written[e] \in 0..MaxBytes[e]
    /\ \A e \in Ends : Len(delivered[e]) <= MaxBytes[Peer(e)]

\* Both sessions after Initialize.
Init ==
    /\ net = {}
    /\ kcp = [e \in Ends |-> ikcp_create]
    /\ closed = [e \in Ends |-> FALSE]
    /\ phase = [e \in Ends |-> "idle"]
    /\ need_drain_before = [e \in Ends |-> FALSE]
    /\ callbacks = [e \in Ends |-> {}]
    /\ written = [e \in Ends |-> 0]
    /\ delivered = [e \in Ends |-> <<>>]

-------------------------------------------------------------------------------
(* What the user of a session may call, when the loop runs user code.      *)

UserCode(e) == phase[e] \in {"idle", "callback"} /\ ~closed[e]

\* OnKCPOutput for every datagram of a flush of e.
Output(e, datagrams) == {[to |-> Peer(e), segs |-> d] : d \in datagrams}

\* queueInLoop for the callbacks cbs that the user has set.
Queue(e, cbs) == IF e \in Notified THEN [callbacks EXCEPT ![e] = @ \cup cbs] ELSE callbacks

\* ikcp_reach_snd_hghwat: Initialize sets snd_hghwat to snd_wnd.
ikcp_reach_snd_hghwat(k) == ikcp_waitsnd(k) >= snd_wnd + snd_wnd

\* How many of len bytes WriteInLoopThread passes to ikcp_send.
BytesCanWrite(k, len) ==
    IF ikcp_need_drain(k) THEN 0 ELSE Min({ikcp_available_wnd(k), len})

\* ikcp_send returns -2, and the assertion behind it fails.
SendRefused(k, len) ==
    LET n == BytesCanWrite(k, len) IN n > 0 /\ ~ikcp_send_accepts(n)

\* A faulty Write that appends all its data, and not only the rest.
WriteAgain(e, len) ==
    LET k == kcp[e]
        bytes == [i \in 1..len |-> written[e] + i]
        now == IF SendRefused(k, len) THEN 0 ELSE BytesCanWrite(k, len)
        sent == ikcp_send(k, SubSeq(bytes, 1, now))
    IN
    /\ UserCode(e)
    /\ written[e] + len <= MaxBytes[e]
    /\ written' = [written EXCEPT ![e] = @ + len]
    /\ kcp' = [kcp EXCEPT ![e] =
           ikcp_append(IF now > 0 THEN ikcp_flush(sent, {}) ELSE k, bytes)]
    /\ Transmit(IF now > 0 THEN Output(e, ikcp_flush_output(sent, {})) ELSE {})
    /\ UNCHANGED <<closed, phase, need_drain_before, callbacks, delivered>>

\* WriteInLoopThread: send and flush what the window takes, append the rest.
Write(e, len) ==
    LET k == kcp[e]
        bytes == [i \in 1..len |-> written[e] + i]
        now == IF SendRefused(k, len) THEN 0 ELSE BytesCanWrite(k, len)
        sent == ikcp_send(k, SubSeq(bytes, 1, now))
    IN
    /\ UserCode(e)
    /\ written[e] + len <= MaxBytes[e]
    /\ written' = [written EXCEPT ![e] = @ + len]
    /\ \E expired \in IF now > 0 THEN SUBSET Timers(k) ELSE {{}} :
           LET flushed == IF now > 0 THEN ikcp_flush(sent, expired) ELSE k
               after == IF now < len THEN ikcp_append(flushed, Drop(bytes, now)) ELSE flushed
           IN
           /\ kcp' = [kcp EXCEPT ![e] = after]
           /\ Transmit(IF now > 0 THEN Output(e, ikcp_flush_output(sent, expired)) ELSE {})
           /\ callbacks' = Queue(e,
                  (IF now = len THEN {"write_complete"} ELSE {})
                  \cup (IF /\ now < len
                           /\ ~ikcp_reach_snd_hghwat(k) /\ ikcp_reach_snd_hghwat(after)
                        THEN {"high_water_mark"} ELSE {}))
    /\ UNCHANGED <<closed, phase, need_drain_before, delivered>>

\* Close, with or without a last flush; the loop of a handler that it interrupts
\* ends there.
Close(e, last_flush) ==
    /\ UserCode(e)
    /\ closed' = [closed EXCEPT ![e] = TRUE]
    /\ phase' = [phase EXCEPT ![e] = "idle"]
    /\ need_drain_before' = [need_drain_before EXCEPT ![e] = FALSE]
    /\ \E expired \in IF last_flush THEN SUBSET Timers(kcp[e]) ELSE {{}} :
           /\ kcp' = [kcp EXCEPT ![e] = IF last_flush THEN ikcp_flush(@, expired) ELSE @]
           /\ Transmit(IF last_flush THEN Output(e, ikcp_flush_output(kcp[e], expired))
                       ELSE {})
    /\ UNCHANGED <<callbacks, written, delivered>>

\* The loop runs a callback that was queued; what it calls is a step of its own.
CallbackRuns(e) ==
    /\ phase[e] = "idle"
    /\ callbacks[e] # {}
    /\ \E cb \in callbacks[e] : callbacks' = [callbacks EXCEPT ![e] = @ \ {cb}]
    /\ UNCHANGED <<net, kcp, closed, phase, need_drain_before, written, delivered>>

-------------------------------------------------------------------------------
(* ProcessPacketInLoopThread.                                              *)

ProcessPacket(p) ==
    LET e == p.to IN
    /\ phase[e] = "idle"
    /\ ~closed[e]
    /\ Len(kcp[e].acklist) + Len(p.segs) <= MaxAckList
    /\ Receive(p, {})
    /\ need_drain_before' = [need_drain_before EXCEPT ![e] = ikcp_need_drain(kcp[e])]
    /\ kcp' = [kcp EXCEPT ![e] = ikcp_input(@, p.segs)]
    /\ phase' = [phase EXCEPT ![e] = "read"]
    /\ UNCHANGED <<closed, callbacks, written, delivered>>

\* OnReadEvent: one message goes to the message callback.
OnReadEvent(e) ==
    /\ phase[e] # "idle"
    /\ ikcp_readable(kcp[e])
    /\ delivered' = [delivered EXCEPT ![e] = @ \o ikcp_recv_data(kcp[e])]
    /\ kcp' = [kcp EXCEPT ![e] = ikcp_recv(@)]
    /\ phase' = [phase EXCEPT ![e] = "callback"]
    /\ UNCHANGED <<net, closed, need_drain_before, callbacks, written>>

\* A faulty end of the handler that does not report a drained backlog.
ProcessPacketEndsMute(e) ==
    /\ phase[e] # "idle"
    /\ ~ikcp_readable(kcp[e])
    /\ phase' = [phase EXCEPT ![e] = "idle"]
    /\ need_drain_before' = [need_drain_before EXCEPT ![e] = FALSE]
    /\ UNCHANGED <<net, kcp, closed, callbacks, written, delivered>>

\* A faulty end of the handler that may leave messages unread.
ProcessPacketEndsUnread(e) ==
    /\ phase[e] # "idle"
    /\ phase' = [phase EXCEPT ![e] = "idle"]
    /\ need_drain_before' = [need_drain_before EXCEPT ![e] = FALSE]
    /\ callbacks' = Queue(e, IF need_drain_before[e] /\ ~ikcp_need_drain(kcp[e])
                             THEN {"write_complete"} ELSE {})
    /\ UNCHANGED <<net, kcp, closed, written, delivered>>

\* No message is left: the handler ends, and reports that the backlog has drained.
ProcessPacketEnds(e) ==
    /\ phase[e] # "idle"
    /\ ~ikcp_readable(kcp[e])
    /\ phase' = [phase EXCEPT ![e] = "idle"]
    /\ need_drain_before' = [need_drain_before EXCEPT ![e] = FALSE]
    /\ callbacks' = Queue(e, IF need_drain_before[e] /\ ~ikcp_need_drain(kcp[e])
                             THEN {"write_complete"} ELSE {})
    /\ UNCHANGED <<net, kcp, closed, written, delivered>>

-------------------------------------------------------------------------------
(* UpdateConnectionState, which its timer runs again and again.            *)

\* The link is dead: Close without a flush.
CloseDeadLink(e) ==
    /\ phase[e] = "idle"
    /\ kcp[e].dead
    /\ Close(e, FALSE)

\* Flush, with the given resend timers expired.
FlushState(e, expired) ==
    /\ phase[e] = "idle"
    /\ ~closed[e]
    /\ ~kcp[e].dead
    /\ expired \subseteq Timers(kcp[e])
    /\ kcp' = [kcp EXCEPT ![e] = ikcp_flush(@, expired)]
    /\ Transmit(Output(e, ikcp_flush_output(kcp[e], expired)))
    /\ UNCHANGED <<closed, phase, need_drain_before, callbacks, written, delivered>>

UpdateConnectionState(e) ==
    \/ CloseDeadLink(e)
    \/ \E expired \in SUBSET Timers(kcp[e]) : FlushState(e, expired)

-------------------------------------------------------------------------------

NetworkLoses(p) == LosePacket(p) /\ UNCHANGED sessionVars

UserStep(e) ==
    \/ \E len \in 1..MaxBytes[e] : Write(e, len)
    \/ e \in Closers /\ \E last_flush \in BOOLEAN : Close(e, last_flush)

LoopStep(e) ==
    \/ OnReadEvent(e)
    \/ ProcessPacketEnds(e)
    \/ UpdateConnectionState(e)
    \/ CallbackRuns(e)

Next ==
    \/ \E p \in net : ProcessPacket(p) \/ NetworkLoses(p)
    \/ \E e \in Ends : UserStep(e) \/ LoopStep(e)

Spec == Init /\ [][Next]_vars

-------------------------------------------------------------------------------
(* Fairness.  The loop goes on with its handlers and the state timer, and   *)
(* the resend timer of a segment that stays unacknowledged expires.  The    *)
(* handlers take turns on the loop, hence SF.  Nothing is assumed of the    *)
(* network.                                                                 *)

\* A flush at which the oldest segment in flight, if any, has timed out.
OldestTimer(e) ==
    \E expired \in SUBSET Timers(kcp[e]) :
        /\ kcp[e].snd_buf # <<>> => Head(kcp[e].snd_buf).sn \in expired
        /\ FlushState(e, expired)

\* When such a flush can change the session's state.
FlushDue(e) ==
    /\ phase[e] = "idle" /\ ~closed[e] /\ ~kcp[e].dead
    /\ ikcp_flush(kcp[e], Timers(kcp[e])) # kcp[e]

\* The last conjunct is SF_vars(OldestTimer(e)) with its ENABLED written out.
TimerFairness ==
    \A e \in Ends : /\ WF_vars(OnReadEvent(e) \/ ProcessPacketEnds(e))
                    /\ SF_vars(CloseDeadLink(e))
                    /\ []<>FlushDue(e) => []<><<OldestTimer(e)>>_vars

FairSpec == Spec /\ TimerFairness

-------------------------------------------------------------------------------
(* Safety.                                                                 *)

Streams == INSTANCE ByteStream
           WITH sent <- [e \in Ends |-> [i \in 1..written[e] |-> i]],
                received <- [e \in Ends |-> delivered[Peer(e)]],
                MaxLength <- MaxBytes

\* Each direction is a byte stream: whatever is lost, repeated or reordered on the
\* way, and however Write splits its data over ikcp_send and ikcp_append, the
\* message callback sees the bytes once and in order.
StreamsAreImplemented == Streams!Spec

\* The sender keeps every numbered segment that the receiver has not got, and the
\* receiver is never ahead of the sender: ikcp_parse_una and ikcp_parse_ack drop
\* nothing that a later loss could still require.
NoSegmentForgotten ==
    \A e \in Ends :
        LET s == kcp[e]
            r == kcp[Peer(e)]
            missing == _itimediff(s.snd_nxt, r.rcv_nxt)
        IN
        /\ _itimediff(r.rcv_nxt, s.snd_una) >= 0 /\ missing >= 0
        /\ \A n \in 0..(missing - 1) :
               \/ \E i \in DOMAIN r.rcv_buf : r.rcv_buf[i].sn = Plus(r.rcv_nxt, n)
               \/ \E i \in DOMAIN s.snd_buf : s.snd_buf[i].sn = Plus(r.rcv_nxt, n)

\* The receive window that a session advertises is never zero, even from within
\* the message callback: the probes of ikcp_flush are never needed.
WindowNeverCloses ==
    /\ \A e \in Ends : kcp[e].rmt_wnd > 0
    /\ \A p \in net : \A i \in DOMAIN p.segs : p.segs[i].wnd > 0

\* The windows bound what the queues hold: snd_buf by the send window, rcv_queue
\* and rcv_buf each by the receive window.
QueuesWithinWindows ==
    \A e \in Ends : /\ Len(kcp[e].snd_buf) <= snd_wnd
                    /\ Len(kcp[e].rcv_queue) <= rcv_wnd
                    /\ Len(kcp[e].rcv_buf) <= rcv_wnd

-------------------------------------------------------------------------------
(* Liveness.                                                               *)

\* No silent stall: a byte that was written is delivered, or one of the sessions
\* closes (in the end because the link is dead), whatever the network does.
BytesAreSettled ==
    \A e \in Ends : \A n \in 1..MaxBytes[e] :
        written[e] >= n ~> \/ Len(delivered[Peer(e)]) >= n
                           \/ closed[e] \/ closed[Peer(e)]

\* A writer that has filled more than the send window is told when its backlog
\* has drained, unless the session closes.
DrainIsReported ==
    \A e \in Notified :
        ikcp_need_drain(kcp[e]) ~> "write_complete" \in callbacks[e] \/ closed[e]

-------------------------------------------------------------------------------
(* What an assertion of the code says and the code does not do.            *)

\* kcp_session.cc, WriteInLoopThread: assert(result == 0) behind ikcp_send.  What
\* the window takes can be more fragments than ikcp_send accepts.
SendIsNeverRefused ==
    [][\A e \in Ends : \A len \in 1..MaxBytes[e] :
           Write(e, len) => ~SendRefused(kcp[e], len)]_vars
===============================================================================
