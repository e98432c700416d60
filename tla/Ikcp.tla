--------------------------------- MODULE Ikcp ---------------------------------
(***************************************************************************)
(* kcp/ikcp.c: the ARQ control block (ikcpcb) and the functions on it that *)
(* KCPSession calls, each as an operator from control blocks to control    *)
(* blocks.  The intrusive queues are sequences.  Sequence numbers have the *)
(* width of IUINT32: they live in 0..SeqSpace-1 and are compared with      *)
(* _itimediff.                                                             *)
(*                                                                         *)
(* A byte is its position in the stream of its writer.  Time is abstracted *)
(* to the timers that have expired when ikcp_flush runs: the resend timers *)
(* of segments, and the window probe.  The congestion window is left out:  *)
(* KCPServer and KCPClient run every session with nocongestion = 1, under  *)
(* which ikcp.c computes cwnd and never reads it.                          *)
(***************************************************************************)
EXTENDS Integers, Sequences, FiniteSets, SequencesExt, FiniteSetsExt

CONSTANTS
    SeqSpace,      \* 2^32 in the code
    FirstSn,       \* where the numbering starts: 0, or later in a long session
    IKCP_WND_RCV,  \* the largest message, in fragments, plus one
    IKCP_OVERHEAD, \* length of a segment's header
    mss,           \* the most bytes of data in a segment
    snd_wnd,       \* the send window, in segments
    rcv_wnd,       \* the receive window, in segments
    fastresend,    \* skipped acks that resend a segment at once; 0: never
    fastlimit,     \* how often a segment may be resent that way
    dead_link      \* transmissions of one segment after which the link is dead

ASSUME IkcpAssumption ==
    /\ SeqSpace \in Nat \ {0} /\ FirstSn \in 0..(SeqSpace - 1)
    /\ IKCP_WND_RCV \in Nat \ {0}
    /\ IKCP_OVERHEAD \in Nat \ {0}
    /\ mss \in Nat \ {0}
    /\ snd_wnd \in Nat \ {0}
    /\ rcv_wnd \in Nat /\ rcv_wnd >= IKCP_WND_RCV
    /\ fastresend \in Nat
    /\ dead_link \in Nat \ {0}
    /\ fastlimit \in 0..(dead_link - 1)

-------------------------------------------------------------------------------
(* 32-bit arithmetic.                                                      *)

\* (IINT32)(later - earlier)
_itimediff(later, earlier) ==
    LET d == (later - earlier) % SeqSpace IN
    IF 2 * d < SeqSpace THEN d ELSE d - SeqSpace

Plus(sn, n) == (sn + n) % SeqSpace

\* The length of the longest prefix of s whose elements all pass Test.
PrefixLen(s, Test(_)) ==
    Cardinality({i \in DOMAIN s : \A j \in 1..i : Test(s[j])})

Drop(s, n) == SubSeq(s, n + 1, Len(s))

-------------------------------------------------------------------------------
(* The control block.                                                      *)

ikcp_create ==
    [snd_una |-> FirstSn, snd_nxt |-> FirstSn, rcv_nxt |-> FirstSn,
     rmt_wnd |-> IKCP_WND_RCV,
     snd_queue |-> <<>>,   \* [frg, data]: written, not yet numbered
     snd_buf |-> <<>>,     \* [sn, frg, data, xmit, fastack]: sent, not acknowledged
     rcv_buf |-> <<>>,     \* [sn, frg, data]: received, with a gap before them
     rcv_queue |-> <<>>,   \* [frg, data]: in order, for ikcp_recv
     acklist |-> <<>>,     \* the numbers to acknowledge at the next flush
     ask_tell |-> FALSE,   \* IKCP_ASK_TELL: tell the peer the window
     probe_wait |-> FALSE, \* the probe timer runs: the peer's window is zero
     dead |-> FALSE]       \* state = -1

ikcp_waitsnd(k) == Len(k.snd_buf) + Len(k.snd_queue)

ikcp_need_drain(k) == ikcp_waitsnd(k) > snd_wnd

ikcp_wnd_unused(k) ==
    IF Len(k.rcv_queue) < rcv_wnd THEN rcv_wnd - Len(k.rcv_queue) ELSE 0

ikcp_calc_wnd(k) == Min({snd_wnd, k.rmt_wnd})

\* In bytes.
ikcp_available_wnd(k) ==
    IF ikcp_calc_wnd(k) > ikcp_waitsnd(k)
    THEN (ikcp_calc_wnd(k) - ikcp_waitsnd(k)) * mss ELSE 0

-------------------------------------------------------------------------------
(* Writing.                                                                *)

\* How many segments hold len bytes.
FragmentCount(len) == IF len <= mss THEN 1 ELSE (len + mss - 1) \div mss

\* `bytes` cut into segments; in message mode frg counts down to 0.
Fragments(bytes, stream_mode) ==
    LET count == FragmentCount(Len(bytes)) IN
    [i \in 1..count |->
        [frg |-> IF stream_mode THEN 0 ELSE count - i,
         data |-> SubSeq(bytes, (i - 1) * mss + 1, Min({i * mss, Len(bytes)}))]]

\* ikcp_send returns 0, and not -2.
ikcp_send_accepts(len) == FragmentCount(len) < IKCP_WND_RCV

ikcp_send(k, bytes) == [k EXCEPT !.snd_queue = @ \o Fragments(bytes, FALSE)]

\* ikcp_append: fill up the last segment in snd_queue, then go on behind it.
ikcp_append(k, bytes) ==
    LET room == IF k.snd_queue = <<>> THEN 0 ELSE mss - Len(Last(k.snd_queue).data)
        extend == Min({room, Len(bytes)})
        extended == IF room = 0 THEN k.snd_queue
                    ELSE Front(k.snd_queue) \o
                         <<[frg |-> 0,
                            data |-> Last(k.snd_queue).data \o SubSeq(bytes, 1, extend)]>>
    IN  [k EXCEPT !.snd_queue =
            IF extend = Len(bytes) THEN extended
            ELSE extended \o Fragments(Drop(bytes, extend), TRUE)]

-------------------------------------------------------------------------------
(* Input: the acknowledgements.                                            *)

ikcp_shrink_buf(k) ==
    [k EXCEPT !.snd_una = IF k.snd_buf = <<>> THEN k.snd_nxt ELSE Head(k.snd_buf).sn]

\* A faulty ikcp_parse_una that takes una for the last number received.
ikcp_parse_una_inclusive(k, una) ==
    LET Acked(s) == _itimediff(una, s.sn) >= 0 IN
    [k EXCEPT !.snd_buf = Drop(@, PrefixLen(@, Acked))]

\* Everything before una has arrived.
ikcp_parse_una(k, una) ==
    LET Acked(s) == _itimediff(una, s.sn) > 0 IN
    [k EXCEPT !.snd_buf = Drop(@, PrefixLen(@, Acked))]

SentAndUnacked(k, sn) == _itimediff(sn, k.snd_una) >= 0 /\ _itimediff(sn, k.snd_nxt) < 0

\* The segment with the number sn has arrived.
ikcp_parse_ack(k, sn) ==
    LET acked == {i \in DOMAIN k.snd_buf : k.snd_buf[i].sn = sn} IN
    IF SentAndUnacked(k, sn) /\ acked # {}
    THEN [k EXCEPT !.snd_buf = RemoveAt(@, Min(acked))]
    ELSE k

\* An ack for sn passed over the segments before it.  Only whether fastack has
\* reached fastresend matters, so it stops there.
ikcp_parse_fastack(k, sn) ==
    LET Before(s) == _itimediff(sn, s.sn) >= 0
        skipped == {i \in 1..PrefixLen(k.snd_buf, Before) : k.snd_buf[i].sn # sn}
        Skip(s) == [s EXCEPT !.fastack = Min({@ + 1, fastresend})]
    IN  IF SentAndUnacked(k, sn)
        THEN [k EXCEPT !.snd_buf = [i \in DOMAIN k.snd_buf |->
                 IF i \in skipped THEN Skip(k.snd_buf[i]) ELSE k.snd_buf[i]]]
        ELSE k

-------------------------------------------------------------------------------
(* Input: the data.                                                        *)

\* Move what has become consecutive, and fits, from rcv_buf to rcv_queue.
MoveToRcvQueue(k) ==
    LET ready == {i \in DOMAIN k.rcv_buf :
                     \A j \in 1..i : /\ k.rcv_buf[j].sn = Plus(k.rcv_nxt, j - 1)
                                     /\ Len(k.rcv_queue) + j - 1 < rcv_wnd}
        n == Cardinality(ready)
    IN  [k EXCEPT !.rcv_buf = Drop(@, n),
                  !.rcv_queue = @ \o [i \in 1..n |-> [frg |-> k.rcv_buf[i].frg,
                                                      data |-> k.rcv_buf[i].data]],
                  !.rcv_nxt = Plus(@, n)]

\* A faulty ikcp_parse_data that does not look for a repeated segment.
ikcp_parse_data_repeated(k, s) ==
    LET earlier == {i \in DOMAIN k.rcv_buf : _itimediff(s.sn, k.rcv_buf[i].sn) > 0}
    IN  MoveToRcvQueue([k EXCEPT !.rcv_buf =
            InsertAt(@, Cardinality(earlier) + 1,
                     [sn |-> s.sn, frg |-> s.frg, data |-> s.data])])

\* Insert a segment of the receive window in order, unless it is there already.
ikcp_parse_data(k, s) ==
    LET earlier == {i \in DOMAIN k.rcv_buf : _itimediff(s.sn, k.rcv_buf[i].sn) > 0}
        repeat == \E i \in DOMAIN k.rcv_buf : k.rcv_buf[i].sn = s.sn
    IN  MoveToRcvQueue(
            IF repeat THEN k
            ELSE [k EXCEPT !.rcv_buf =
                     InsertAt(@, Cardinality(earlier) + 1,
                              [sn |-> s.sn, frg |-> s.frg, data |-> s.data])])

\* A PUSH below the window is acknowledged again, one above it is not.
InputPush(k, s) ==
    LET acked == [k EXCEPT !.acklist = Append(@, s.sn)] IN
    IF _itimediff(s.sn, Plus(k.rcv_nxt, rcv_wnd)) >= 0 THEN k
    ELSE IF _itimediff(s.sn, k.rcv_nxt) < 0 THEN acked
    ELSE ikcp_parse_data(acked, s)

\* One turn of the loop of ikcp_input.
InputSegment(k, s) ==
    LET una == ikcp_shrink_buf(ikcp_parse_una([k EXCEPT !.rmt_wnd = s.wnd], s.una)) IN
    CASE s.cmd = "ACK"  -> ikcp_shrink_buf(ikcp_parse_ack(una, s.sn))
      [] s.cmd = "PUSH" -> InputPush(una, s)
      [] s.cmd = "WASK" -> [una EXCEPT !.ask_tell = TRUE]
      [] s.cmd = "WINS" -> una

\* The segments of one packet, in turn.
InputSegments(k, segs) ==
    LET done[i \in 0..Len(segs)] ==
            IF i = 0 THEN k ELSE InputSegment(done[i - 1], segs[i])
    IN  done[Len(segs)]

\* maxack: the latest number that the packet acknowledges.
MaxAck(segs) ==
    LET acks == SelectSeq(segs, LAMBDA s : s.cmd = "ACK")
        Later(a, s) == IF _itimediff(s.sn, a.sn) > 0 THEN s ELSE a
    IN  FoldLeft(Later, Head(acks), acks).sn

\* A packet: its segments, then the latest ack counts for the fast resend.
ikcp_input(k, segs) ==
    IF \E i \in DOMAIN segs : segs[i].cmd = "ACK"
    THEN ikcp_parse_fastack(InputSegments(k, segs), MaxAck(segs))
    ELSE InputSegments(k, segs)

-------------------------------------------------------------------------------
(* Reading.                                                                *)

\* ikcp_peeksize: the first message in rcv_queue is complete.
ikcp_readable(k) ==
    /\ k.rcv_queue # <<>>
    /\ Len(k.rcv_queue) >= Head(k.rcv_queue).frg + 1

\* The segments of the first message.
FirstMessage(k) ==
    SubSeq(k.rcv_queue, 1,
           Min({i \in DOMAIN k.rcv_queue : k.rcv_queue[i].frg = 0} \cup {Len(k.rcv_queue)}))

\* The bytes that ikcp_recv copies out.
ikcp_recv_data(k) ==
    FlattenSeq([i \in DOMAIN FirstMessage(k) |-> FirstMessage(k)[i].data])

\* Merge the first message; if the window was full, tell the peer that it opens.
ikcp_recv(k) ==
    LET moved == MoveToRcvQueue(
                     [k EXCEPT !.rcv_queue = Drop(@, Len(FirstMessage(k)))])
    IN  [moved EXCEPT !.ask_tell =
            @ \/ (Len(k.rcv_queue) >= rcv_wnd /\ Len(moved.rcv_queue) < rcv_wnd)]

-------------------------------------------------------------------------------
(* ikcp_flush.                                                             *)

ProbeTimer == -1

\* The timers that may have expired when the control block is flushed.
Timers(k) ==
    {k.snd_buf[i].sn : i \in {j \in DOMAIN k.snd_buf : k.snd_buf[j].xmit > 0}}
    \cup IF k.rmt_wnd = 0 /\ k.probe_wait THEN {ProbeTimer} ELSE {}

\* Number the segments that the window admits.
AdmitToSndBuf(k) ==
    LET limit == Plus(k.snd_una, ikcp_calc_wnd(k))
        n == Cardinality({i \in DOMAIN k.snd_queue :
                 \A j \in 1..i : _itimediff(Plus(k.snd_nxt, j - 1), limit) < 0})
    IN  [k EXCEPT !.snd_queue = Drop(@, n),
                  !.snd_buf = @ \o [i \in 1..n |->
                      [sn |-> Plus(k.snd_nxt, i - 1), frg |-> k.snd_queue[i].frg,
                       data |-> k.snd_queue[i].data, xmit |-> 0, fastack |-> 0]],
                  !.snd_nxt = Plus(@, n)]

TimedOut(s, expired) == s.xmit > 0 /\ s.sn \in expired

FastResent(s, expired) ==
    /\ s.xmit > 0 /\ s.sn \notin expired
    /\ fastresend > 0 /\ s.fastack >= fastresend
    /\ s.xmit <= fastlimit \/ fastlimit = 0

\* A faulty NeedSend that forgets the resend timers.
NeedSendUntimed(s, expired) == s.xmit = 0 \/ FastResent(s, {})

NeedSend(s, expired) == s.xmit = 0 \/ TimedOut(s, expired) \/ FastResent(s, expired)

\* A segment after the flush; xmit stops at dead_link.
Transmitted(s, expired) ==
    IF NeedSend(s, expired)
    THEN [s EXCEPT !.xmit = Min({@ + 1, dead_link}),
                   !.fastack = IF FastResent(s, expired) THEN 0 ELSE @]
    ELSE s

Segment(k, cmd, sn, frg, data) ==
    [cmd |-> cmd, sn |-> sn, frg |-> frg, data |-> data,
     wnd |-> ikcp_wnd_unused(k), una |-> k.rcv_nxt]

\* The control block after ikcp_flush.
ikcp_flush(k, expired) ==
    LET admitted == AdmitToSndBuf(k) IN
    [admitted EXCEPT
        !.acklist = <<>>,
        !.ask_tell = FALSE,
        !.probe_wait = (k.rmt_wnd = 0),
        !.snd_buf = [i \in DOMAIN @ |-> Transmitted(@[i], expired)],
        !.dead = @ \/ \E i \in DOMAIN admitted.snd_buf :
            LET s == admitted.snd_buf[i] IN
            NeedSend(s, expired) /\ s.xmit + 1 >= dead_link]

\* The segments ikcp_flush writes, in order.
FlushedSegments(k, expired) ==
    LET buf == AdmitToSndBuf(k).snd_buf IN
    [i \in DOMAIN k.acklist |-> Segment(k, "ACK", k.acklist[i], 0, <<>>)]
    \o (IF ProbeTimer \in expired THEN <<Segment(k, "WASK", FirstSn, 0, <<>>)>> ELSE <<>>)
    \o (IF k.ask_tell THEN <<Segment(k, "WINS", FirstSn, 0, <<>>)>> ELSE <<>>)
    \o FlattenSeq([i \in DOMAIN buf |->
           IF NeedSend(buf[i], expired)
           THEN <<Segment(k, "PUSH", buf[i].sn, buf[i].frg, buf[i].data)>> ELSE <<>>])

\* The segments packed into datagrams of at most one full segment's length:
\* first[i] is the segment that opens the datagram of segment i.
Datagrams(segs) ==
    LET Size(i, j) == MapThenSumSet(LAMBDA n : IKCP_OVERHEAD + Len(segs[n].data), i..j)
        first[i \in DOMAIN segs] ==
            IF i = 1 \/ Size(first[i - 1], i) > mss + IKCP_OVERHEAD THEN i ELSE first[i - 1]
    IN  {SubSeq(segs, i, Max({j \in DOMAIN segs : first[j] = i})) :
            i \in {j \in DOMAIN segs : first[j] = j}}

\* The datagrams ikcp_flush hands to the output callback.
ikcp_flush_output(k, expired) == Datagrams(FlushedSegments(k, expired))
===============================================================================
