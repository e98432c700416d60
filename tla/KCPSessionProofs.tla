--------------------------- MODULE KCPSessionProofs ---------------------------
(***************************************************************************)
(* Theorems about KCPSession, for any two ends and any bounds: the types,  *)
(* the windows, that no segment is forgotten, and that each direction is a *)
(* byte stream.                                                            *)
(*                                                                         *)
(* All of them follow from one invariant, SessionInv, which says of each   *)
(* direction how the sender's and the receiver's control blocks and the    *)
(* packets on their way fit one history of the writer.                     *)
(***************************************************************************)
EXTENDS KCPSession, IkcpProofs

\* What the other end of the conversation depends on.
View(e) == [kcp |-> kcp[e], written |-> written[e], delivered |-> delivered[e],
            phase |-> phase[e], closed |-> closed[e]]

EndOK(x) ==
    /\ x.kcp \in Block /\ \A i \in 1..Len(x.kcp.snd_buf) : x.kcp.snd_buf[i].xmit > 0
    /\ x.written \in Nat /\ 2 * (x.written + rcv_wnd) < SeqSpace

\* The numbered segments, by their offsets, that the receiver r may still need of the
\* sender s: those it has not got, and the one at z, the latest una that it has announced.
Needed(s, r, z) ==
    {o \in 0..(Off(s.snd_nxt) - 1) : o = z \/ (o >= Off(r.rcv_nxt) /\ o \notin Offsets(r.rcv_buf))}

\* Where the handler of a receiver stands: outside of ProcessPacketInLoopThread and in
\* the message callback its announcements are up to date and rcv_queue has room; before
\* it has read a message, the segments up to z are those of an incomplete one.
Handles(y, h, z) ==
    /\ y.phase # "read" => z = Off(y.kcp.rcv_nxt) /\ Len(y.kcp.rcv_queue) < rcv_wnd
    /\ y.phase = "read" => /\ Read(y.kcp) <= z
                           /\ Read(y.kcp) < z => z - Read(y.kcp) <= h.frg[Read(y.kcp) + 1]
    /\ y.phase = "idle" /\ ~y.closed => ~ikcp_readable(y.kcp)

\* The sender x, the receiver y and what was delivered fit the history h.
Stream(x, y, h, z) ==
    /\ Cuts(h, x.written)
    /\ Sends(x.kcp, h)
    /\ Receives(y.kcp, h, Off(x.kcp.snd_nxt))
    /\ y.delivered = Run(0, h.cut[Read(y.kcp)])
    /\ z \in Nat /\ z <= Off(y.kcp.rcv_nxt)
    /\ Needed(x.kcp, y.kcp, z) \subseteq Offsets(x.kcp.snd_buf)
    /\ Handles(y, h, z)

\* A segment on its way to the sender, from the receiver r.
AckOK(s, r, z) ==
    /\ Off(s.una) <= z
    /\ s.cmd = "ACK" => Got(r, Off(s.sn)) /\ Off(s.sn) # z

\* The packets P fit the direction from the sender s, the end e, to the receiver r.
Carried(P, e, s, r, h, z) ==
    \A p \in P : \A i \in 1..Len(p.segs) :
        /\ p.to # e => PushOK(p.segs[i], h, Off(s.snd_nxt))
        /\ p.to = e => AckOK(p.segs[i], r, z)

PacketsOK(P, e, d) ==
    \A p \in P : p.to \in {e, d} /\ p.segs \in Seq(SegmentRec) /\ p.segs # <<>>

\* One direction.
Linked(P, e, x, y) == \E h, z : Stream(x, y, h, z) /\ Carried(P, e, x.kcp, y.kcp, h, z)

\* The whole conversation between the end e, in the state x, and d, in y.
Joined(P, e, d, x, y) ==
    /\ EndOK(x) /\ EndOK(y) /\ PacketsOK(P, e, d)
    /\ Linked(P, e, x, y) /\ Linked(P, d, y, x)

Shapes ==
    /\ kcp \in [Ends -> Block]
    /\ closed \in [Ends -> BOOLEAN]
    /\ phase \in [Ends -> {"idle", "read", "callback"}]
    /\ need_drain_before \in [Ends -> BOOLEAN]
    /\ callbacks \in [Ends -> SUBSET {"write_complete", "high_water_mark"}]
    /\ written \in [Ends -> Nat] /\ \A e \in Ends : written[e] <= MaxBytes[e]
    /\ DOMAIN delivered = Ends

SessionInv == Shapes /\ \A e \in Ends : Joined(net, e, Peer(e), View(e), View(Peer(e)))

-------------------------------------------------------------------------------
(* One direction.                                                          *)

\* The numbers of a direction.
LEMMA StreamFacts ==
    ASSUME NEW x, NEW y, EndOK(x), EndOK(y), NEW h, NEW z, Stream(x, y, h, z)
    PROVE  LET N == Off(x.kcp.snd_nxt)
               U == Off(x.kcp.snd_una)
               R == Off(y.kcp.rcv_nxt)
               D == Read(y.kcp)
           IN  /\ h.len \in Nat /\ 2 * (h.len + rcv_wnd) < SeqSpace /\ 2 * h.len < SeqSpace
               /\ h.len <= x.written
               /\ N \in Nat /\ N <= h.len /\ U \in Nat /\ R \in Nat /\ R <= N
               /\ z \in Nat /\ U <= z /\ z <= R
               /\ N <= U + snd_wnd /\ N <= U + rcv_wnd
               /\ D \in Nat /\ D <= R /\ D + Len(y.kcp.rcv_queue) = R /\ Len(y.kcp.rcv_queue) \in Nat
               /\ Keeps(x.kcp, h, Offsets(x.kcp.snd_buf))
               /\ Keeps(x.kcp, h, Needed(x.kcp, y.kcp, z))
<1> DEFINE s == x.kcp
           r == y.kcp
           N == Off(s.snd_nxt)
           U == Off(s.snd_una)
           R == Off(r.rcv_nxt)
           D == Read(r)
           b == s.snd_buf
<1>1. s \in Block /\ r \in Block /\ x.written \in Nat /\ 2 * (x.written + rcv_wnd) < SeqSpace
  BY DEF EndOK
<1>2. h.len \in Nat /\ h.len <= x.written
  <2>1. Cuts(h, x.written)
    BY DEF Stream
  <2> QED BY <2>1, CutsGrow
<1>3. 2 * (h.len + rcv_wnd) < SeqSpace /\ 2 * h.len < SeqSpace
  BY <1>1, <1>2, Widths
<1>4. N \in Nat /\ U \in Nat /\ R \in Nat /\ Len(r.rcv_queue) \in Nat /\ Len(s.snd_queue) \in Nat
  <2>1. /\ s.snd_nxt \in Numbers /\ s.snd_una \in Numbers /\ r.rcv_nxt \in Numbers
        /\ r.rcv_queue \in Seq(QueuedRec) /\ s.snd_queue \in Seq(QueuedRec)
    BY <1>1, BlockFields
  <2>2. Len(r.rcv_queue) \in Nat /\ Len(s.snd_queue) \in Nat
    <3> HIDE DEF r, s
    <3> QED BY <2>1
  <2> QED BY <2>1, <2>2, OffType
<1>5. Sends(s, h) /\ Receives(r, h, N) /\ z \in Nat /\ z <= R /\ Needed(s, r, z) \subseteq Offsets(b)
  BY DEF Stream
<1>6. /\ N + Len(s.snd_queue) = h.len /\ U <= N /\ N - U <= snd_wnd /\ N - U <= rcv_wnd
      /\ Holds(b, h, U, N)
  <2> HIDE DEF s
  <2> QED BY <1>5 DEF Sends
<1>7. R <= N /\ Len(r.rcv_queue) <= R /\ D = R - Len(r.rcv_queue)
  <2> HIDE DEF r
  <2> QED BY <1>5 DEF Receives, Collects, Read
<1>8. U <= z
  <2>1. CASE z < N
    <3>1. z \in Needed(s, r, z)
      <4> HIDE DEF s, r
      <4> QED BY <1>4, <1>5, <2>1 DEF Needed
    <3>2. PICK i \in 1..Len(b) : z = Off(b[i].sn)
      <4> HIDE DEF s, r, b
      <4> QED BY <1>5, <3>1 DEF Offsets
    <3>3. Off(b[i].sn) >= U
      <4> HIDE DEF b, U, N
      <4> QED BY <1>6, <3>2 DEF Holds
    <3> HIDE DEF b, U
    <3> QED BY <1>4, <1>5, <3>2, <3>3
  <2>2. CASE ~(z < N)
    <3> HIDE DEF N, U
    <3> QED BY <1>4, <1>5, <1>6, <2>2
  <2> QED BY <2>1, <2>2
<1>9. \A i \in 1..Len(b) : b[i].xmit > 0
  BY DEF EndOK
<1>10. Keeps(s, h, Offsets(b)) /\ Keeps(s, h, Needed(s, r, z))
  <2> HIDE DEF s, r
  <2> QED BY <1>5, <1>9 DEF Keeps
<1>11. /\ N <= h.len /\ N <= U + snd_wnd /\ N <= U + rcv_wnd
       /\ D \in Nat /\ D <= R /\ D + Len(r.rcv_queue) = R
  <2>1. N <= h.len /\ N <= U + snd_wnd /\ N <= U + rcv_wnd
    <3> HIDE DEF N, U, s
    <3> QED BY <1>2, <1>4, <1>6, Widths
  <2>2. D \in Nat /\ D <= R /\ D + Len(r.rcv_queue) = R
    <3> HIDE DEF D, R, r
    <3> QED BY <1>4, <1>7
  <2> QED BY <2>1, <2>2
<1> QED BY <1>2, <1>3, <1>4, <1>5, <1>7, <1>8, <1>10, <1>11

\* A receiver stays one when its sender numbers more segments.
LEMMA ReceivesMore ==
    ASSUME NEW k \in Block, NEW h, NEW n \in Nat, NEW m \in Nat, n <= m, Receives(k, h, n)
    PROVE  Receives(k, h, m)
<1>1. Off(k.rcv_nxt) \in Nat /\ \A i \in 1..Len(k.rcv_buf) : Off(k.rcv_buf[i].sn) \in Nat
  BY BlockFields, OffType, Numbered
<1>2. Off(k.rcv_nxt) <= n /\ Holds(k.rcv_buf, h, Off(k.rcv_nxt), n)
  BY DEF Receives, Collects
<1>3. Off(k.rcv_nxt) <= m
  BY <1>1, <1>2
<1>4. Holds(k.rcv_buf, h, Off(k.rcv_nxt), m)
  <2> DEFINE b == k.rcv_buf
             R == Off(k.rcv_nxt)
  <2>1. Holds(b, h, R, n) /\ \A i \in 1..Len(b) : Off(b[i].sn) \in Nat
    BY <1>1, <1>2
  <2> HIDE DEF b, R
  <2>2. \A i \in 1..Len(b) : Off(b[i].sn) < n => Off(b[i].sn) < m
    BY <2>1
  <2>3. Holds(b, h, R, m)
    BY <2>1, <2>2 DEF Holds
  <2> QED BY <2>3 DEF b, R
<1> QED BY <1>3, <1>4 DEF Receives, Collects

\* The segments of a packet.
LEMMA PacketSegments ==
    ASSUME NEW P, NEW e, NEW d, PacketsOK(P, e, d), NEW p \in P, NEW i \in 1..Len(p.segs)
    PROVE  /\ p.segs[i] \in SegmentRec /\ Off(p.segs[i].sn) \in Nat /\ Off(p.segs[i].una) \in Nat
           /\ p.to = e \/ p.to = d
<1>1. p.segs \in Seq(SegmentRec) /\ (p.to = e \/ p.to = d)
  BY DEF PacketsOK
<1>2. p.segs[i] \in SegmentRec
  BY <1>1
<1>3. p.segs[i].sn \in Numbers /\ p.segs[i].una \in Numbers
  BY <1>2 DEF SegmentRec
<1> QED BY <1>1, <1>2, <1>3, OffType

\* A sender may go on to another history that agrees on what is numbered, may number
\* more, and may forget what the receiver does not need.
LEMMA SenderGoes ==
    ASSUME NEW x, NEW y, EndOK(x), EndOK(y), NEW h, NEW z, Stream(x, y, h, z),
           NEW x2, x2.kcp \in Block, NEW g, Cuts(g, x2.written), Agree(h, g, Off(x.kcp.snd_nxt)),
           NEW K, Keeps(x2.kcp, g, K), Needed(x.kcp, y.kcp, z) \subseteq K,
           Off(x.kcp.snd_nxt) <= Off(x2.kcp.snd_nxt),
           Off(x.kcp.snd_nxt)..(Off(x2.kcp.snd_nxt) - 1) \subseteq K
    PROVE  /\ Stream(x2, y, g, z)
           /\ \A P, e, d : PacketsOK(P, e, d) /\ Carried(P, e, x.kcp, y.kcp, h, z)
                               => Carried(P, e, x2.kcp, y.kcp, g, z)
<1> DEFINE s == x.kcp
           t == x2.kcp
           r == y.kcp
           N == Off(s.snd_nxt)
           M == Off(t.snd_nxt)
           R == Off(r.rcv_nxt)
           D == Read(r)
<1>1. N \in Nat /\ N <= h.len /\ R \in Nat /\ R <= N /\ z \in Nat /\ z <= R /\ D \in Nat /\ D <= R
  BY StreamFacts
<1>2. M \in Nat /\ N <= M /\ r \in Block
  <2>1. t.snd_nxt \in Numbers
    BY BlockFields
  <2> QED BY <2>1, OffType DEF EndOK
<1>3. /\ Receives(r, h, N) /\ y.delivered = Run(0, h.cut[D])
      /\ Handles(y, h, z)
  BY DEF Stream
<1>4. Receives(r, g, M)
  <2>1. Receives(r, g, N)
    <3> HIDE DEF r, N
    <3> QED BY <1>1, <1>2, <1>3, AgreeReceives DEF N
  <2> HIDE DEF r, N, M
  <2> QED BY <1>1, <1>2, <2>1, ReceivesMore
<1>5. y.delivered = Run(0, g.cut[D])
  <2>1. D \in 0..N
    <3> HIDE DEF D, N, R
    <3> QED BY <1>1
  <2>2. g.cut[D] = h.cut[D]
    <3> HIDE DEF D
    <3> QED BY <2>1 DEF Agree
  <2> QED BY <1>3, <2>2
<1>6. Handles(y, g, z)
  <2>1. D < z => g.frg[D + 1] = h.frg[D + 1]
    <3> SUFFICES ASSUME D < z PROVE g.frg[D + 1] = h.frg[D + 1]
      OBVIOUS
    <3>1. D + 1 \in 1..N
      <4> HIDE DEF D, N, R
      <4> QED BY <1>1
    <3> HIDE DEF D
    <3> QED BY <3>1 DEF Agree
  <2> QED BY <1>3, <2>1 DEF Handles
<1>7. Needed(t, r, z) \subseteq Offsets(t.snd_buf)
  <2> SUFFICES ASSUME NEW o \in Needed(t, r, z) PROVE o \in K
    <3>1. K \subseteq Offsets(t.snd_buf)
      BY DEF Keeps
    <3> QED BY <3>1
  <2>1. o \in 0..(M - 1) /\ (o = z \/ (o >= R /\ o \notin Offsets(r.rcv_buf)))
    BY DEF Needed
  <2>2. CASE o < N
    <3>1. o \in 0..(N - 1)
      <4> HIDE DEF N, M
      <4> QED BY <1>1, <1>2, <2>1, <2>2
    <3>2. o \in Needed(s, r, z)
      <4> HIDE DEF r
      <4> QED BY <2>1, <3>1 DEF Needed
    <3> QED BY <3>2
  <2>3. CASE ~(o < N)
    <3>1. o \in N..(M - 1)
      <4> HIDE DEF N, M
      <4> QED BY <1>1, <1>2, <2>1, <2>3
    <3> QED BY <3>1
  <2> QED BY <2>2, <2>3
<1>8. Stream(x2, y, g, z)
  <2>1. Sends(t, g)
    BY DEF Keeps
  <2> QED BY <1>1, <1>4, <1>5, <1>6, <1>7, <2>1 DEF Stream
<1>9. ASSUME NEW P, NEW e, NEW d, PacketsOK(P, e, d), Carried(P, e, s, r, h, z)
      PROVE  Carried(P, e, t, r, g, z)
  <2> SUFFICES ASSUME NEW p \in P, NEW i \in 1..Len(p.segs)
               PROVE  /\ p.to # e => PushOK(p.segs[i], g, M)
                      /\ p.to = e => AckOK(p.segs[i], r, z)
    BY DEF Carried
  <2> DEFINE a == p.segs[i]
  <2>1. (p.to # e => PushOK(a, h, N)) /\ (p.to = e => AckOK(a, r, z))
    BY <1>9 DEF Carried
  <2>2. ASSUME PushOK(a, h, N) PROVE PushOK(a, g, M)
    <3> SUFFICES ASSUME a.cmd = "PUSH" PROVE Off(a.sn) < M /\ IsSegment(a, g, Off(a.sn) + 1)
      BY DEF PushOK
    <3>1. Off(a.sn) \in Nat
      BY <1>9, PacketSegments
    <3>2. Off(a.sn) < N /\ IsSegment(a, h, Off(a.sn) + 1)
      <4> HIDE DEF a
      <4> QED BY <2>2 DEF PushOK
    <3>3. Off(a.sn) < M /\ Off(a.sn) + 1 \in 1..N
      <4> HIDE DEF a, M, N
      <4> QED BY <1>1, <1>2, <3>1, <3>2
    <3>4. IsSegment(a, g, Off(a.sn) + 1)
      <4> HIDE DEF a, N
      <4> QED BY <1>1, <3>2, <3>3, Agreement DEF N
    <3> QED BY <3>3, <3>4
  <2> QED BY <2>1, <2>2
<1> QED BY <1>8, <1>9

\* A receiver may get more and read, and announce what it has got once rcv_queue has room.
LEMMA ReceiverGoes ==
    ASSUME NEW x, NEW y, EndOK(x), EndOK(y), NEW h, NEW z, Stream(x, y, h, z),
           NEW y2, y2.kcp \in Block, Receives(y2.kcp, h, Off(x.kcp.snd_nxt)),
           Off(y.kcp.rcv_nxt) <= Off(y2.kcp.rcv_nxt), \A o \in Nat : Got(y.kcp, o) => Got(y2.kcp, o),
           y2.delivered = Run(0, h.cut[Read(y2.kcp)]),
           NEW z2, z2 = z \/ (z2 = Off(y2.kcp.rcv_nxt) /\ Len(y2.kcp.rcv_queue) < rcv_wnd),
           Handles(y2, h, z2)
    PROVE  /\ Stream(x, y2, h, z2)
           /\ \A P, e, d : PacketsOK(P, e, d) /\ Carried(P, e, x.kcp, y.kcp, h, z)
                               => Carried(P, e, x.kcp, y2.kcp, h, z2)
<1> DEFINE s == x.kcp
           r == y.kcp
           t == y2.kcp
           N == Off(s.snd_nxt)
           R == Off(r.rcv_nxt)
           R2 == Off(t.rcv_nxt)
<1>1. N \in Nat /\ R \in Nat /\ z \in Nat /\ z <= R
  BY StreamFacts
<1>2. R2 \in Nat /\ R <= R2
  <2>1. t.rcv_nxt \in Numbers
    BY BlockFields
  <2> QED BY <2>1, OffType
<1>3. z2 \in Nat /\ z <= z2 /\ z2 <= R2
  <2> HIDE DEF R, R2
  <2> QED BY <1>1, <1>2 DEF R2
<1>4. z2 = z \/ ~Got(t, z2)
  <2> SUFFICES ASSUME z2 = R2, Len(t.rcv_queue) < rcv_wnd PROVE ~Got(t, z2)
    OBVIOUS
  <2>1. R2 \notin Offsets(t.rcv_buf)
    BY DEF Receives
  <2>2. ~(R2 < R2)
    <3> HIDE DEF R2
    <3> QED BY <1>2
  <2> QED BY <2>1, <2>2 DEF Got
<1>5. Needed(s, t, z2) \subseteq Needed(s, r, z)
  <2> SUFFICES ASSUME NEW o \in Needed(s, t, z2) PROVE o \in Needed(s, r, z)
    OBVIOUS
  <2>1. o \in 0..(N - 1) /\ (o = z2 \/ (o >= R2 /\ o \notin Offsets(t.rcv_buf)))
    BY DEF Needed
  <2>2. o \in Nat
    <3> HIDE DEF N
    <3> QED BY <1>1, <2>1
  <2>3. CASE o = z
    <3> HIDE DEF r
    <3> QED BY <2>1, <2>3 DEF Needed
  <2>4. CASE o # z
    <3>1. ~Got(t, o)
      <4>1. CASE o = z2
        BY <1>4, <2>4, <4>1
      <4>2. CASE o >= R2 /\ o \notin Offsets(t.rcv_buf)
        <5>1. ~(o < R2)
          <6> HIDE DEF R2
          <6> QED BY <1>2, <2>2, <4>2
        <5> QED BY <4>2, <5>1 DEF Got
      <4> QED BY <2>1, <4>1, <4>2
    <3>2. ~Got(r, o)
      BY <2>2, <3>1
    <3>3. ~(o < R) /\ o \notin Offsets(r.rcv_buf)
      BY <3>2 DEF Got
    <3>4. o >= R
      <4> HIDE DEF R
      <4> QED BY <1>1, <2>2, <3>3
    <3> QED BY <2>1, <3>3, <3>4 DEF Needed
  <2> QED BY <2>3, <2>4
<1>6. Stream(x, y2, h, z2)
  <2>1. Cuts(h, x.written) /\ Sends(s, h) /\ Needed(s, r, z) \subseteq Offsets(s.snd_buf)
    BY DEF Stream
  <2>2. Needed(s, t, z2) \subseteq Offsets(s.snd_buf)
    BY <1>5, <2>1
  <2> QED BY <1>3, <2>1, <2>2 DEF Stream
<1>7. ASSUME NEW P, NEW e, NEW d, PacketsOK(P, e, d), Carried(P, e, s, r, h, z)
      PROVE  Carried(P, e, s, t, h, z2)
  <2> SUFFICES ASSUME NEW p \in P, NEW i \in 1..Len(p.segs)
               PROVE  /\ p.to # e => PushOK(p.segs[i], h, N)
                      /\ p.to = e => AckOK(p.segs[i], t, z2)
    BY DEF Carried
  <2> DEFINE a == p.segs[i]
  <2>1. (p.to # e => PushOK(a, h, N)) /\ (p.to = e => AckOK(a, r, z))
    BY <1>7 DEF Carried
  <2>2. ASSUME AckOK(a, r, z) PROVE AckOK(a, t, z2)
    <3>1. Off(a.sn) \in Nat /\ Off(a.una) \in Nat
      BY <1>7, PacketSegments
    <3>2. Off(a.una) <= z /\ (a.cmd = "ACK" => Got(r, Off(a.sn)) /\ Off(a.sn) # z)
      <4> HIDE DEF a
      <4> QED BY <2>2 DEF AckOK
    <3>3. Off(a.una) <= z2
      <4> HIDE DEF a
      <4> QED BY <1>1, <1>3, <3>1, <3>2
    <3>4. ASSUME a.cmd = "ACK" PROVE Got(t, Off(a.sn)) /\ Off(a.sn) # z2
      <4>1. Got(t, Off(a.sn)) /\ Off(a.sn) # z
        BY <3>1, <3>2, <3>4
      <4> QED BY <1>4, <4>1
    <3> QED BY <3>3, <3>4 DEF AckOK
  <2> QED BY <2>1, <2>2
<1> QED BY <1>6, <1>7

\* The half of an end that a step leaves alone keeps its direction.
LEMMA ReceiverStays ==
    ASSUME NEW x, NEW y, EndOK(x), EndOK(y), NEW h, NEW z, Stream(x, y, h, z),
           NEW y2, y2.kcp \in Block, SameReceiver(y.kcp, y2.kcp),
           Receives(y2.kcp, h, Off(x.kcp.snd_nxt)),
           y2.delivered = y.delivered, y2.phase = y.phase, y2.closed = y.closed
    PROVE  /\ Stream(x, y2, h, z)
           /\ \A P, e, d : PacketsOK(P, e, d) /\ Carried(P, e, x.kcp, y.kcp, h, z)
                               => Carried(P, e, x.kcp, y2.kcp, h, z)
<1>1. y.kcp \in Block
  BY DEF EndOK
<1>2. /\ Read(y2.kcp) = Read(y.kcp) /\ Off(y.kcp.rcv_nxt) <= Off(y2.kcp.rcv_nxt)
      /\ \A o \in Nat : Got(y.kcp, o) => Got(y2.kcp, o)
  BY <1>1, HalvesApart
<1>3. y2.delivered = Run(0, h.cut[Read(y2.kcp)])
  BY <1>2 DEF Stream
<1>4. Handles(y2, h, z)
  <2>1. Handles(y, h, z)
    BY DEF Stream
  <2>2. y2.kcp.rcv_nxt = y.kcp.rcv_nxt /\ y2.kcp.rcv_queue = y.kcp.rcv_queue
    BY DEF SameReceiver
  <2>3. ikcp_readable(y2.kcp) <=> ikcp_readable(y.kcp)
    BY <2>2 DEF ikcp_readable
  <2> QED BY <1>2, <2>1, <2>2, <2>3 DEF Handles
<1> QED BY <1>2, <1>3, <1>4, ReceiverGoes

LEMMA SenderStays ==
    ASSUME NEW x, NEW y, EndOK(x), EndOK(y), NEW h, NEW z, Stream(x, y, h, z),
           NEW x2, x2.kcp \in Block, SameSender(x.kcp, x2.kcp), x2.written = x.written
    PROVE  /\ EndOK(x2) /\ Stream(x2, y, h, z)
           /\ \A P, e, d : PacketsOK(P, e, d) /\ Carried(P, e, x.kcp, y.kcp, h, z)
                               => Carried(P, e, x2.kcp, y.kcp, h, z)
<1> DEFINE K == Needed(x.kcp, y.kcp, z)
           N == Off(x.kcp.snd_nxt)
<1>1. x.kcp \in Block /\ x2.kcp.snd_nxt = x.kcp.snd_nxt /\ x2.kcp.snd_buf = x.kcp.snd_buf
  BY DEF EndOK, SameSender
<1>2. Keeps(x.kcp, h, K) /\ N \in Nat
  BY StreamFacts
<1>3. Keeps(x2.kcp, h, K)
  BY <1>1, <1>2, HalvesApart
<1>4. Cuts(h, x2.written) /\ Agree(h, h, N)
  BY DEF Stream, Agree
<1>5. Off(x2.kcp.snd_nxt) = N /\ N <= N /\ N..(N - 1) = {}
  <2>1. Off(x2.kcp.snd_nxt) = N
    BY <1>1
  <2> HIDE DEF N
  <2> QED BY <1>2, <2>1
<1>6. EndOK(x2)
  BY <1>1 DEF EndOK
<1>7. Off(x2.kcp.snd_nxt) = N /\ N <= Off(x2.kcp.snd_nxt) /\ N..(Off(x2.kcp.snd_nxt) - 1) \subseteq K
  BY <1>5
<1> HIDE DEF K
<1> QED BY <1>3, <1>4, <1>6, <1>7, SenderGoes DEF K

-------------------------------------------------------------------------------
(* The steps of one end.                                                   *)

\* A conversation seen from its other end, and with fewer packets.
LEMMA JoinedBack ==
    ASSUME NEW P, NEW e, NEW d, NEW x, NEW y, Joined(P, e, d, x, y)
    PROVE  Joined(P, d, e, y, x)
<1>1. PacketsOK(P, d, e)
  BY DEF Joined, PacketsOK
<1> QED BY <1>1 DEF Joined

LEMMA FewerPackets ==
    ASSUME NEW P, NEW e, NEW d, NEW x, NEW y, Joined(P, e, d, x, y), NEW Q, Q \subseteq P
    PROVE  Joined(Q, e, d, x, y)
<1>1. PacketsOK(Q, e, d)
  BY DEF Joined, PacketsOK
<1>2. \A f, s, r, h, z : Carried(P, f, s, r, h, z) => Carried(Q, f, s, r, h, z)
  BY DEF Carried
<1>3. Linked(Q, e, x, y)
  <2>1. Linked(P, e, x, y)
    BY DEF Joined
  <2> QED BY <1>2, <2>1, Zenon DEF Linked
<1>4. Linked(Q, d, y, x)
  <2>1. Linked(P, d, y, x)
    BY DEF Joined
  <2> QED BY <1>2, <2>1, Zenon DEF Linked
<1> QED BY <1>1, <1>3, <1>4 DEF Joined

\* The halves of both ends.
LEMMA JoinedParts ==
    ASSUME NEW P, NEW e, NEW d, NEW x, NEW y, Joined(P, e, d, x, y)
    PROVE  /\ EndOK(x) /\ EndOK(y) /\ PacketsOK(P, e, d) /\ PacketsOK(P, d, e)
           /\ x.kcp \in Block /\ y.kcp \in Block
           /\ \E h, z : Stream(x, y, h, z) /\ Carried(P, e, x.kcp, y.kcp, h, z)
           /\ \E g, v : Stream(y, x, g, v) /\ Carried(P, d, y.kcp, x.kcp, g, v)
<1>1. EndOK(x) /\ EndOK(y) /\ PacketsOK(P, e, d) /\ PacketsOK(P, d, e)
  BY JoinedBack DEF Joined
<1>2. x.kcp \in Block /\ y.kcp \in Block
  BY <1>1 DEF EndOK
<1> QED BY <1>1, <1>2, Zenon DEF Joined, Linked

\* A flush, with its datagrams on their way.
LEMMA FlushStep ==
    ASSUME NEW P, NEW e, NEW d, e # d, NEW x, NEW y, Joined(P, e, d, x, y), x.phase # "read",
           NEW expired, NEW x2, x2.kcp = ikcp_flush(x.kcp, expired), x2.written = x.written,
           x2.delivered = x.delivered, x2.phase = x.phase, x2.closed = x.closed,
           NEW Q, Q = {[to |-> d, segs |-> c] : c \in ikcp_flush_output(x.kcp, expired)}
    PROVE  Joined(P \cup Q, e, d, x2, y)
<1> DEFINE k == x.kcp
           j == x2.kcp
           o == y.kcp
           N == Off(k.snd_nxt)
           M == Off(j.snd_nxt)
<1>1. EndOK(x) /\ EndOK(y) /\ PacketsOK(P, e, d) /\ PacketsOK(P, d, e) /\ k \in Block /\ o \in Block
  BY JoinedParts
<1>2. PICK h, z : Stream(x, y, h, z) /\ Carried(P, e, k, o, h, z)
  BY JoinedParts, Zenon
<1>3. PICK g, v : Stream(y, x, g, v) /\ Carried(P, d, o, k, g, v)
  BY JoinedParts, Zenon
<1>4. h.len \in Nat /\ 2 * (h.len + rcv_wnd) < SeqSpace /\ Keeps(k, h, Offsets(k.snd_buf))
  BY <1>1, <1>2, StreamFacts
<1>5. /\ j \in Block /\ SameReceiver(k, j) /\ j.acklist = <<>>
      /\ N \in Nat /\ M \in Nat /\ N <= M
      /\ Offsets(j.snd_buf) = Offsets(k.snd_buf) \cup N..(M - 1)
      /\ Keeps(j, h, Offsets(j.snd_buf))
  <2> HIDE DEF k
  <2> QED BY <1>1, <1>4, Flushes DEF k
<1>6. EndOK(x2)
  BY <1>1, <1>5 DEF EndOK, Keeps
<1>7. Stream(x2, y, h, z) /\ Carried(P, e, j, o, h, z)
  <2>1. Cuts(h, x2.written) /\ Agree(h, h, N) /\ Needed(k, o, z) \subseteq Offsets(k.snd_buf)
    BY <1>2 DEF Stream, Agree
  <2>2. Needed(k, o, z) \subseteq Offsets(j.snd_buf) /\ N..(M - 1) \subseteq Offsets(j.snd_buf)
    BY <1>5, <2>1
  <2> DEFINE K == Offsets(j.snd_buf)
  <2>3. Keeps(j, h, K) /\ Needed(k, o, z) \subseteq K /\ N..(M - 1) \subseteq K
    BY <1>5, <2>2
  <2> HIDE DEF K
  <2> QED BY <1>1, <1>2, <1>5, <2>1, <2>3, SenderGoes
<1>8. Receives(k, g, Off(o.snd_nxt)) /\ Handles(x, g, v)
  BY <1>3 DEF Stream
<1>9. Receives(j, g, Off(o.snd_nxt))
  <2>1. j.rcv_nxt = k.rcv_nxt /\ j.rcv_buf = k.rcv_buf /\ j.rcv_queue = k.rcv_queue /\ Len(j.acklist) = 0
    BY <1>5 DEF SameReceiver
  <2> HIDE DEF j, k
  <2> QED BY <1>8, <2>1 DEF Receives, Collects, Read
<1>10. Stream(y, x2, g, v) /\ Carried(P, d, o, j, g, v)
  BY <1>1, <1>3, <1>5, <1>9, ReceiverStays
<1>11. Len(k.rcv_queue) < rcv_wnd /\ v = Off(k.rcv_nxt)
  BY <1>8 DEF Handles
<1>12. ~Got(k, v)
  <2>1. v \in Nat
    BY <1>1, <1>3, StreamFacts
  <2>2. v \notin Offsets(k.rcv_buf)
    BY <1>8, <1>11 DEF Receives
  <2>3. ~(v < v)
    BY <2>1
  <2> QED BY <1>11, <2>2, <2>3 DEF Got
<1>13. ASSUME NEW p \in Q
       PROVE  /\ p.to = d /\ p.segs \in Seq(SegmentRec) /\ p.segs # <<>>
              /\ \A i \in 1..Len(p.segs) : Flushed(p.segs[i], k, h, M)
  <2>1. PICK c \in ikcp_flush_output(k, expired) : p = [to |-> d, segs |-> c]
    OBVIOUS
  <2>2. p.to = d /\ p.segs = c
    BY <2>1
  <2>3. /\ c \in Seq(SegmentRec) /\ c # <<>>
        /\ \A i \in 1..Len(c) : Flushed(c[i], k, h, Off(ikcp_flush(k, expired).snd_nxt))
    <3> DEFINE n == Off(o.snd_nxt)
    <3>1. Receives(k, g, n)
      BY <1>8
    <3> HIDE DEF k, n
    <3> QED BY <1>1, <1>4, <1>11, <3>1, FlushSends DEF k
  <2> QED BY <2>2, <2>3
<1>14. PacketsOK(P \cup Q, e, d)
  BY <1>1, <1>13 DEF PacketsOK
<1>15. Carried(P \cup Q, e, j, o, h, z)
  <2>1. Carried(Q, e, j, o, h, z)
    BY <1>13 DEF Carried, Flushed
  <2> QED BY <1>7, <2>1 DEF Carried
<1>16. Carried(P \cup Q, d, o, j, g, v)
  <2>1. ASSUME NEW p \in Q, NEW i \in 1..Len(p.segs) PROVE AckOK(p.segs[i], j, v)
    <3> DEFINE a == p.segs[i]
    <3>1. Flushed(a, k, h, M) /\ a \in SegmentRec
      <4>1. p.segs \in Seq(SegmentRec)
        BY <1>13
      <4>2. a \in SegmentRec
        BY <4>1
      <4> QED BY <1>13, <4>2
    <3>2. a.una = k.rcv_nxt /\ (a.cmd = "ACK" => Got(k, Off(a.sn)))
      <4> HIDE DEF a
      <4> QED BY <3>1 DEF Flushed
    <3>3. Off(a.una) <= v
      <4>1. Off(a.una) = v /\ v \in Nat
        BY <1>1, <1>3, <1>11, <3>2, StreamFacts
      <4> QED BY <4>1
    <3>4. a.cmd = "ACK" => Got(j, Off(a.sn)) /\ Off(a.sn) # v
      <4>1. \A l : Got(j, l) <=> Got(k, l)
        BY <1>5 DEF SameReceiver, Got
      <4> QED BY <1>12, <3>2, <4>1
    <3> QED BY <3>3, <3>4 DEF AckOK
  <2>2. Carried(Q, d, o, j, g, v)
    BY <1>13, <2>1 DEF Carried
  <2> QED BY <1>10, <2>2 DEF Carried
<1>17. Linked(P \cup Q, e, x2, y) /\ Linked(P \cup Q, d, y, x2)
  BY <1>7, <1>10, <1>15, <1>16, Zenon DEF Linked
<1> QED BY <1>1, <1>6, <1>14, <1>17 DEF Joined

\* More bytes in snd_queue.
LEMMA QueueStep ==
    ASSUME NEW P, NEW e, NEW d, NEW x, NEW y, Joined(P, e, d, x, y),
           NEW x2, x2.kcp \in Block, SameReceiver(x.kcp, x2.kcp), x2.kcp.acklist = x.kcp.acklist,
           x2.kcp.snd_nxt = x.kcp.snd_nxt,
           \A h, K : Cuts(h, x.written) /\ Keeps(x.kcp, h, K)
                         => \E g : /\ Cuts(g, x2.written) /\ Agree(h, g, Off(x.kcp.snd_nxt))
                                   /\ Keeps(x2.kcp, g, K),
           x2.written \in Nat, 2 * (x2.written + rcv_wnd) < SeqSpace,
           x2.delivered = x.delivered, x2.phase = x.phase, x2.closed = x.closed
    PROVE  Joined(P, e, d, x2, y)
<1> DEFINE k == x.kcp
           j == x2.kcp
           o == y.kcp
           N == Off(k.snd_nxt)
<1>1. EndOK(x) /\ EndOK(y) /\ PacketsOK(P, e, d) /\ PacketsOK(P, d, e) /\ k \in Block /\ o \in Block
  BY JoinedParts
<1>2. PICK h, z : Stream(x, y, h, z) /\ Carried(P, e, k, o, h, z)
  BY JoinedParts, Zenon
<1>3. PICK g, v : Stream(y, x, g, v) /\ Carried(P, d, o, k, g, v)
  BY JoinedParts, Zenon
<1> DEFINE K == Offsets(k.snd_buf)
<1>4. Keeps(k, h, K) /\ Cuts(h, x.written) /\ Needed(k, o, z) \subseteq K /\ N \in Nat
  BY <1>1, <1>2, StreamFacts DEF Stream
<1> HIDE DEF K
<1>5. PICK l : Cuts(l, x2.written) /\ Agree(h, l, N) /\ Keeps(j, l, K)
  BY <1>4, Zenon
<1>6. Off(j.snd_nxt) = N /\ N <= Off(j.snd_nxt) /\ N..(Off(j.snd_nxt) - 1) \subseteq K
  <2>1. Off(j.snd_nxt) = N
    OBVIOUS
  <2> HIDE DEF N, j
  <2> QED BY <1>4, <2>1
<1>7. Stream(x2, y, l, z) /\ Carried(P, e, j, o, l, z)
  BY <1>1, <1>2, <1>4, <1>5, <1>6, SenderGoes
<1>8. EndOK(x2)
  BY <1>5 DEF EndOK, Keeps
<1>9. Receives(j, g, Off(o.snd_nxt))
  <2>1. Receives(k, g, Off(o.snd_nxt))
    BY <1>3 DEF Stream
  <2> QED BY <1>1, <2>1, HalvesApart
<1>10. Stream(y, x2, g, v) /\ Carried(P, d, o, j, g, v)
  BY <1>1, <1>3, <1>9, ReceiverStays
<1>11. Linked(P, e, x2, y) /\ Linked(P, d, y, x2)
  BY <1>7, <1>10, Zenon DEF Linked
<1> QED BY <1>1, <1>8, <1>11 DEF Joined

\* ikcp_send.
LEMMA SendStep ==
    ASSUME NEW P, NEW e, NEW d, NEW x, NEW y, Joined(P, e, d, x, y),
           NEW hi \in Nat, x.written < hi, ikcp_send_accepts(hi - x.written),
           NEW x2, x2.kcp = ikcp_send(x.kcp, Run(x.written, hi)), x2.written = hi,
           2 * (hi + rcv_wnd) < SeqSpace,
           x2.delivered = x.delivered, x2.phase = x.phase, x2.closed = x.closed
    PROVE  Joined(P, e, d, x2, y)
<1> DEFINE k == x.kcp
           w == x.written
<1>1. EndOK(x) /\ EndOK(y) /\ k \in Block /\ w \in Nat
  BY JoinedParts DEF EndOK
<1>2. ASSUME NEW h, NEW K, Cuts(h, w), Keeps(k, h, K)
      PROVE  /\ x2.kcp \in Block /\ SameReceiver(k, x2.kcp) /\ x2.kcp.acklist = k.acklist
             /\ x2.kcp.snd_nxt = k.snd_nxt
             /\ \E g : Cuts(g, hi) /\ Agree(h, g, Off(k.snd_nxt)) /\ Keeps(x2.kcp, g, K)
  <2> HIDE DEF k, w
  <2> QED BY <1>1, <1>2, SendsBytes DEF k, w
<1>3. PICK h, z : Stream(x, y, h, z)
  BY JoinedParts, Zenon
<1>4. Cuts(h, w) /\ Keeps(k, h, Offsets(k.snd_buf))
  BY <1>1, <1>3, StreamFacts DEF Stream
<1>5. /\ x2.kcp \in Block /\ SameReceiver(k, x2.kcp) /\ x2.kcp.acklist = k.acklist
      /\ x2.kcp.snd_nxt = k.snd_nxt
  BY <1>2, <1>4
<1>6. \A l, K : Cuts(l, w) /\ Keeps(k, l, K)
          => \E g : Cuts(g, x2.written) /\ Agree(l, g, Off(k.snd_nxt)) /\ Keeps(x2.kcp, g, K)
  BY <1>2, Zenon
<1> QED BY <1>5, <1>6, QueueStep

\* ikcp_append.
LEMMA AppendStep ==
    ASSUME NEW P, NEW e, NEW d, NEW x, NEW y, Joined(P, e, d, x, y),
           NEW hi \in Nat, x.written < hi,
           NEW x2, x2.kcp = ikcp_append(x.kcp, Run(x.written, hi)), x2.written = hi,
           2 * (hi + rcv_wnd) < SeqSpace,
           x2.delivered = x.delivered, x2.phase = x.phase, x2.closed = x.closed
    PROVE  Joined(P, e, d, x2, y)
<1> DEFINE k == x.kcp
           w == x.written
<1>1. EndOK(x) /\ EndOK(y) /\ k \in Block /\ w \in Nat
  BY JoinedParts DEF EndOK
<1>2. ASSUME NEW h, NEW K, Cuts(h, w), Keeps(k, h, K)
      PROVE  /\ x2.kcp \in Block /\ SameReceiver(k, x2.kcp) /\ x2.kcp.acklist = k.acklist
             /\ x2.kcp.snd_nxt = k.snd_nxt
             /\ \E g : Cuts(g, hi) /\ Agree(h, g, Off(k.snd_nxt)) /\ Keeps(x2.kcp, g, K)
  <2> HIDE DEF k, w
  <2> QED BY <1>1, <1>2, AppendsBytes DEF k, w
<1>3. PICK h, z : Stream(x, y, h, z)
  BY JoinedParts, Zenon
<1>4. Cuts(h, w) /\ Keeps(k, h, Offsets(k.snd_buf))
  BY <1>1, <1>3, StreamFacts DEF Stream
<1>5. /\ x2.kcp \in Block /\ SameReceiver(k, x2.kcp) /\ x2.kcp.acklist = k.acklist
      /\ x2.kcp.snd_nxt = k.snd_nxt
  BY <1>2, <1>4
<1>6. \A l, K : Cuts(l, w) /\ Keeps(k, l, K)
          => \E g : Cuts(g, x2.written) /\ Agree(l, g, Off(k.snd_nxt)) /\ Keeps(x2.kcp, g, K)
  BY <1>2, Zenon
<1> QED BY <1>5, <1>6, QueueStep

\* The first segment in rcv_queue is the one behind those read, and if its message is
\* incomplete, the queue is shorter than it.
LEMMA Unreadable ==
    ASSUME NEW k \in Block, NEW h, NEW w, Cuts(h, w), NEW n \in Nat, n <= h.len,
           Collects(k, h, n), ~ikcp_readable(k), Len(k.rcv_queue) > 0
    PROVE  /\ Read(k) + 1 \in 1..h.len /\ h.frg[Read(k) + 1] \in Nat
           /\ Len(k.rcv_queue) <= h.frg[Read(k) + 1] /\ h.frg[Read(k) + 1] < IKCP_WND_RCV
<1> DEFINE q == k.rcv_queue
           D == Read(k)
           R == Off(k.rcv_nxt)
<1>1. /\ q \in Seq(QueuedRec) /\ Len(q) \in Nat /\ R \in Nat /\ R <= n /\ Len(q) <= R
      /\ D = R - Len(q) /\ Continues(q, h, D)
  BY BlockFields, OffType DEF Collects, Read
<1>2. D + 1 \in 1..h.len
  <2>1. h.len \in Nat
    BY DEF Cuts
  <2>2. Len(q) > 0
    OBVIOUS
  <2> HIDE DEF D, R, q
  <2> QED BY <1>1, <2>1, <2>2
<1>3. q # <<>> /\ Head(q) = q[1] /\ 1 \in 1..Len(q)
  <2>1. Len(q) > 0
    OBVIOUS
  <2> HIDE DEF q
  <2> QED BY <1>1, <2>1
<1>4. Head(q).frg = h.frg[D + 1]
  <2> HIDE DEF D, q
  <2> QED BY <1>1, <1>3 DEF Continues, IsSegment
<1>5. ~(Len(q) >= h.frg[D + 1] + 1)
  BY <1>3, <1>4 DEF ikcp_readable
<1>6. h.frg[D + 1] \in Nat /\ h.frg[D + 1] < IKCP_WND_RCV
  <2> HIDE DEF D
  <2> QED BY <1>2 DEF Cuts
<1>7. Len(q) <= h.frg[D + 1]
  <2> HIDE DEF D, q
  <2> QED BY <1>1, <1>5, <1>6
<1> QED BY <1>2, <1>6, <1>7

\* ProcessPacketInLoopThread takes a packet.
LEMMA InputStep ==
    ASSUME NEW P, NEW e, NEW d, e # d, NEW x, NEW y, Joined(P, e, d, x, y),
           x.phase = "idle", ~x.closed, NEW p \in P, p.to = e,
           NEW x2, x2.kcp = ikcp_input(x.kcp, p.segs), x2.written = x.written,
           x2.delivered = x.delivered, x2.phase = "read", x2.closed = x.closed
    PROVE  Joined(P, e, d, x2, y)
<1> DEFINE k == x.kcp
           j == x2.kcp
           o == y.kcp
           N == Off(k.snd_nxt)
           n == Off(o.snd_nxt)
           R == Off(o.rcv_nxt)
<1>1. EndOK(x) /\ EndOK(y) /\ PacketsOK(P, e, d) /\ PacketsOK(P, d, e) /\ k \in Block /\ o \in Block
  BY JoinedParts
<1>2. PICK h, z : Stream(x, y, h, z) /\ Carried(P, e, k, o, h, z)
  BY JoinedParts, Zenon
<1>3. PICK g, v : Stream(y, x, g, v) /\ Carried(P, d, o, k, g, v)
  BY JoinedParts, Zenon
<1> DEFINE K == Needed(k, o, z)
<1>4. /\ h.len \in Nat /\ 2 * h.len < SeqSpace /\ Keeps(k, h, K) /\ z \in Nat /\ z <= R /\ R \in Nat
      /\ N \in Nat /\ R <= N /\ N <= h.len
  BY <1>1, <1>2, StreamFacts
<1>5. /\ n \in Nat /\ 2 * (n + rcv_wnd) < SeqSpace /\ n <= g.len
      /\ v \in Nat /\ v <= Off(k.rcv_nxt) /\ Read(k) \in Nat
      /\ Read(k) + Len(k.rcv_queue) = Off(k.rcv_nxt) /\ Len(k.rcv_queue) \in Nat
      /\ Read(k) <= Off(k.rcv_nxt)
  <2>1. /\ n \in Nat /\ 2 * (g.len + rcv_wnd) < SeqSpace /\ n <= g.len /\ g.len \in Nat
        /\ v \in Nat /\ v <= Off(k.rcv_nxt) /\ Read(k) \in Nat
        /\ Read(k) + Len(k.rcv_queue) = Off(k.rcv_nxt) /\ Len(k.rcv_queue) \in Nat
        /\ Read(k) <= Off(k.rcv_nxt)
    BY <1>1, <1>3, StreamFacts
  <2>2. 2 * (n + rcv_wnd) < SeqSpace
    <3> HIDE DEF n
    <3> QED BY <2>1, Widths, SMTT(20)
  <2> QED BY <2>1, <2>2
<1>6. Receives(k, g, n) /\ Handles(x, g, v) /\ Cuts(g, y.written)
      /\ x.delivered = Run(0, g.cut[Read(k)])
  BY <1>3 DEF Stream
<1>7. ASSUME NEW i \in 1..Len(p.segs) PROVE Expected(p.segs[i], g, n, K)
  <2> DEFINE a == p.segs[i]
  <2>1. a \in SegmentRec /\ Off(a.sn) \in Nat /\ Off(a.una) \in Nat
    BY <1>1, PacketSegments
  <2>2. PushOK(a, g, n)
    BY <1>3 DEF Carried
  <2>3. AckOK(a, o, z)
    BY <1>2 DEF Carried
  <2> HIDE DEF a, n
  <2>4. Off(a.una) <= z /\ (a.cmd = "ACK" => Got(o, Off(a.sn)) /\ Off(a.sn) # z)
    BY <2>3 DEF AckOK
  <2>5. 2 * Off(a.una) < SeqSpace
    <3> HIDE DEF R, N
    <3> QED BY <1>4, <2>1, <2>4, Widths
  <2>6. ASSUME NEW c \in K PROVE Off(a.una) <= c /\ (c = z \/ ~Got(o, c))
    <3>1. c \in 0..(N - 1) /\ (c = z \/ (c >= R /\ c \notin Offsets(o.rcv_buf)))
      BY DEF Needed
    <3>2. c \in Nat
      <4> HIDE DEF N
      <4> QED BY <1>4, <3>1
    <3>3. Off(a.una) <= c
      <4> HIDE DEF R, N
      <4> QED BY <1>4, <2>1, <2>4, <3>1, <3>2
    <3>4. c >= R => ~(c < R)
      <4> HIDE DEF R
      <4> QED BY <1>4, <3>2
    <3> QED BY <3>1, <3>3, <3>4 DEF Got
  <2>7. a.cmd = "ACK" => Off(a.sn) \notin K
    <3> HIDE DEF K
    <3> QED BY <2>4, <2>6
  <2>8. \A c \in K : Off(a.una) <= c
    <3> HIDE DEF K
    <3> QED BY <2>6
  <2> HIDE DEF K
  <2>9. Expected(a, g, n, K)
    BY <2>1, <2>2, <2>5, <2>7, <2>8 DEF Expected
  <2> QED BY <2>9 DEF a
<1>8. Works(k, h, K, g, n)
  <2> HIDE DEF K, k, n
  <2> QED BY <1>1, <1>4, <1>6 DEF Works, k
<1>9. p.segs \in Seq(SegmentRec)
  BY <1>1 DEF PacketsOK
<1>10. Works(j, h, K, g, n) /\ Later(k, j)
  <2>1. j = ikcp_input(k, p.segs)
    OBVIOUS
  <2> HIDE DEF K, k, n, j
  <2> QED BY <1>4, <1>5, <1>7, <1>8, <1>9, <2>1, Inputs
<1>11. /\ j \in Block /\ Keeps(j, h, K) /\ Receives(j, g, n)
       /\ j.snd_nxt = k.snd_nxt /\ Read(j) = Read(k) /\ Off(k.rcv_nxt) <= Off(j.rcv_nxt)
       /\ \A c \in Nat : Got(k, c) => Got(j, c)
  <2> HIDE DEF K, k, n, j
  <2> QED BY <1>10 DEF Works, Later
<1>12. Stream(x2, y, h, z) /\ Carried(P, e, j, o, h, z)
  <2>1. Cuts(h, x2.written) /\ Agree(h, h, N)
    BY <1>2 DEF Stream, Agree
  <2>2. Off(j.snd_nxt) = N
    BY <1>11
  <2>3. N <= Off(j.snd_nxt) /\ N..(Off(j.snd_nxt) - 1) \subseteq K
    <3> HIDE DEF N, K, j
    <3> QED BY <1>4, <2>2
  <2>4. Needed(k, o, z) \subseteq K
    OBVIOUS
  <2> HIDE DEF K
  <2> QED BY <1>1, <1>2, <1>11, <2>1, <2>3, <2>4, SenderGoes
<1>13. Handles(x2, g, v)
  <2>1. v = Off(k.rcv_nxt) /\ ~ikcp_readable(k)
    BY <1>6 DEF Handles
  <2>2. Read(j) <= v
    BY <1>5, <1>11, <2>1
  <2>3. ASSUME Read(j) < v PROVE v - Read(j) <= g.frg[Read(j) + 1]
    <3>1. Len(k.rcv_queue) > 0 /\ v - Read(k) = Len(k.rcv_queue)
      <4>1. Read(k) < v
        BY <1>11, <2>3
      <4>2. Read(k) + Len(k.rcv_queue) = v
        BY <1>5, <2>1
      <4> HIDE DEF k
      <4> QED BY <1>5, <4>1, <4>2
    <3>2. Collects(k, g, n)
      BY <1>6 DEF Receives
    <3>3. Len(k.rcv_queue) <= g.frg[Read(k) + 1]
      <4> HIDE DEF k, n
      <4> QED BY <1>1, <1>5, <1>6, <2>1, <3>1, <3>2, Unreadable DEF k
    <3> QED BY <1>11, <3>1, <3>3
  <2> QED BY <2>2, <2>3 DEF Handles
<1>14. Stream(y, x2, g, v) /\ Carried(P, d, o, j, g, v)
  <2>1. x2.delivered = Run(0, g.cut[Read(j)])
    BY <1>6, <1>11
  <2> QED BY <1>1, <1>3, <1>11, <1>13, <2>1, ReceiverGoes
<1>15. EndOK(x2)
  BY <1>1, <1>11 DEF EndOK, Keeps
<1>16. Linked(P, e, x2, y) /\ Linked(P, d, y, x2)
  BY <1>12, <1>14, Zenon DEF Linked
<1> QED BY <1>1, <1>15, <1>16 DEF Joined

\* One message more was read: c bytes were, and c2 are.
ReadsOn(x, y, c, c2) ==
    /\ c \in Nat /\ c2 \in Nat /\ c < c2 /\ c2 <= y.written
    /\ x.delivered = Run(0, c) /\ x.delivered \o ikcp_recv_data(x.kcp) = Run(0, c2)

LEMMA ReadsMessage ==
    ASSUME NEW x, NEW y, EndOK(x), EndOK(y), NEW g, NEW v, Stream(y, x, g, v), ikcp_readable(x.kcp)
    PROVE  LET j == ikcp_recv(x.kcp)
               D == Read(x.kcp)
               m == g.frg[D + 1] + 1
           IN  /\ j \in Block /\ SameSender(x.kcp, j) /\ Receives(j, g, Off(y.kcp.snd_nxt))
               /\ m \in Nat /\ m > 0 /\ Read(j) = D + m
               /\ Off(x.kcp.rcv_nxt) <= Off(j.rcv_nxt)
               /\ \A o \in Nat : Got(j, o) <=> Got(x.kcp, o)
               /\ Len(x.kcp.rcv_queue) < rcv_wnd => Off(j.rcv_nxt) = Off(x.kcp.rcv_nxt)
               /\ ReadsOn(x, y, g.cut[D], g.cut[D + m])
<1> DEFINE k == x.kcp
           j == ikcp_recv(k)
           D == Read(k)
           m == g.frg[D + 1] + 1
           n == Off(y.kcp.snd_nxt)
<1>1. k \in Block /\ Cuts(g, y.written) /\ Receives(k, g, n) /\ x.delivered = Run(0, g.cut[D])
  BY DEF EndOK, Stream
<1>2. n \in Nat /\ n <= g.len /\ g.len \in Nat /\ 2 * g.len < SeqSpace
  BY StreamFacts
<1>3. 2 * n < SeqSpace
  <2> HIDE DEF n
  <2> QED BY <1>2, Widths
<1>4. /\ j \in Block /\ SameSender(k, j) /\ j.acklist = k.acklist /\ Receives(j, g, n)
      /\ m \in Nat /\ m > 0 /\ D \in Nat /\ D + m <= g.len
      /\ Read(j) = D + m
      /\ ikcp_recv_data(k) = Run(g.cut[D], g.cut[D + m])
      /\ Off(k.rcv_nxt) <= Off(j.rcv_nxt)
      /\ \A o \in Nat : Got(j, o) <=> Got(k, o)
      /\ Len(k.rcv_queue) < rcv_wnd => Off(j.rcv_nxt) = Off(k.rcv_nxt)
  <2> HIDE DEF k, n
  <2> QED BY <1>1, <1>2, <1>3, Receiving DEF k
<1>5. /\ g.cut \in [0..g.len -> Nat] /\ g.cut[g.len] = y.written
      /\ \A a \in 0..g.len : \A b \in a..g.len : g.cut[a] + (b - a) <= g.cut[b]
  BY <1>1, CutsGrow DEF Cuts
<1> DEFINE a == D + m
<1>6. D \in 0..g.len /\ a \in D..g.len /\ a \in 0..g.len /\ g.len \in a..g.len /\ a - D = m /\ g.len - a \in Nat
  <2>1. D \in Nat /\ m \in Nat /\ D + m <= g.len
    BY <1>4
  <2> HIDE DEF D, m
  <2> QED BY <1>2, <2>1
<1>7. g.cut[D] \in Nat /\ g.cut[a] \in Nat /\ g.cut[D] + m <= g.cut[a] /\ g.cut[a] + (g.len - a) <= y.written
  <2> HIDE DEF D, a, m
  <2> QED BY <1>5, <1>6
<1>8. g.cut[D] < g.cut[a] /\ g.cut[a] <= y.written /\ g.cut[D] <= g.cut[a]
  <2>1. y.written \in Nat
    BY DEF EndOK
  <2>2. m \in Nat /\ m > 0
    BY <1>4, Zenon
  <2> HIDE DEF D, a, m
  <2> QED BY <1>6, <1>7, <2>1, <2>2
<1>9. x.delivered \o ikcp_recv_data(k) = Run(0, g.cut[a])
  <2>1. Run(0, g.cut[D]) \o Run(g.cut[D], g.cut[a]) = Run(0, g.cut[a])
    <3> DEFINE c == g.cut[D]
               c2 == g.cut[a]
    <3>1. 0 \in Nat /\ c \in Nat /\ c2 \in Nat /\ 0 <= c /\ c <= c2
      BY <1>7, <1>8
    <3> HIDE DEF c, c2
    <3>2. Run(0, c) \o Run(c, c2) = Run(0, c2)
      BY <3>1, RunsInARow
    <3> QED BY <3>2 DEF c, c2
  <2> QED BY <1>1, <1>4, <2>1, Zenon
<1>10. ReadsOn(x, y, g.cut[D], g.cut[a])
  BY <1>1, <1>7, <1>8, <1>9 DEF ReadsOn
<1> HIDE DEF j, m
<1> QED BY <1>4, <1>10 DEF j, m

\* OnReadEvent.
LEMMA RecvStep ==
    ASSUME NEW P, NEW e, NEW d, NEW x, NEW y, Joined(P, e, d, x, y),
           x.phase \in {"read", "callback"}, ikcp_readable(x.kcp),
           NEW x2, x2.kcp = ikcp_recv(x.kcp), x2.written = x.written,
           x2.delivered = x.delivered \o ikcp_recv_data(x.kcp), x2.phase = "callback",
           x2.closed = x.closed
    PROVE  Joined(P, e, d, x2, y) /\ \E c, c2 : ReadsOn(x, y, c, c2)
<1> DEFINE k == x.kcp
           j == x2.kcp
           o == y.kcp
           n == Off(o.snd_nxt)
           R2 == Off(j.rcv_nxt)
           D == Read(k)
<1>1. EndOK(x) /\ EndOK(y) /\ PacketsOK(P, e, d) /\ PacketsOK(P, d, e) /\ k \in Block /\ o \in Block
  BY JoinedParts
<1>2. PICK h, z : Stream(x, y, h, z) /\ Carried(P, e, k, o, h, z)
  BY JoinedParts, Zenon
<1>3. PICK g, v : Stream(y, x, g, v) /\ Carried(P, d, o, k, g, v)
  BY JoinedParts, Zenon
<1> DEFINE m == g.frg[D + 1] + 1
<1>4. /\ j \in Block /\ SameSender(k, j) /\ Receives(j, g, n)
      /\ m \in Nat /\ m > 0 /\ Read(j) = D + m
      /\ Off(k.rcv_nxt) <= R2
      /\ \A c \in Nat : Got(j, c) <=> Got(k, c)
      /\ Len(k.rcv_queue) < rcv_wnd => R2 = Off(k.rcv_nxt)
      /\ ReadsOn(x, y, g.cut[D], g.cut[D + m])
  BY <1>1, <1>3, ReadsMessage
<1>5. /\ D \in Nat /\ D + Len(k.rcv_queue) = Off(k.rcv_nxt) /\ Len(k.rcv_queue) \in Nat
      /\ v \in Nat /\ n \in Nat /\ n <= Off(o.snd_una) + rcv_wnd /\ Off(o.snd_una) <= v
      /\ Off(o.snd_una) \in Nat /\ Off(k.rcv_nxt) \in Nat
  BY <1>1, <1>3, StreamFacts
<1>6. Handles(x, g, v)
  BY <1>3 DEF Stream
<1>7. R2 \in Nat /\ R2 <= n /\ Len(j.rcv_queue) \in Nat /\ Len(j.rcv_queue) = R2 - (D + m)
  <2>1. j.rcv_nxt \in Numbers /\ j.rcv_queue \in Seq(QueuedRec)
    BY <1>4, BlockFields
  <2>2. R2 \in Nat /\ R2 <= n
    BY <1>4, <2>1, OffType DEF Receives, Collects
  <2>3. Len(j.rcv_queue) \in Nat /\ R2 - Len(j.rcv_queue) = D + m
    <3>1. R2 - Len(j.rcv_queue) = Read(j)
      BY DEF Read
    <3>2. Len(j.rcv_queue) \in Nat
      <4> HIDE DEF j
      <4> QED BY <2>1
    <3> QED BY <1>4, <3>1, <3>2
  <2>4. D \in Nat /\ m \in Nat
    BY <1>4, <1>5
  <2> DEFINE l == Len(j.rcv_queue)
  <2>5. l \in Nat /\ R2 - l = D + m
    BY <2>3, Zenon
  <2> HIDE DEF R2, D, m, j, n, l
  <2>6. l = R2 - (D + m)
    BY <2>2, <2>4, <2>5
  <2> QED BY <2>2, <2>5, <2>6, Zenon DEF l
<1>8. Len(j.rcv_queue) < rcv_wnd
  <2>1. CASE x.phase = "callback"
    <3>1. Len(k.rcv_queue) < rcv_wnd
      BY <1>6, <2>1 DEF Handles
    <3>2. R2 = Off(k.rcv_nxt) /\ m \in Nat
      BY <1>4, <3>1
    <3> HIDE DEF R2, D, m, j, k
    <3> QED BY <1>5, <1>7, <3>1, <3>2, Widths, SMTT(20)
  <2>2. CASE x.phase = "read"
    <3>1. D <= v /\ (D < v => v - D <= g.frg[D + 1])
      BY <1>6, <2>2 DEF Handles
    <3>2. m \in Nat /\ m > 0
      BY <1>4
    <3>3. v < D + m
      <4>1. D < v => v - D <= m - 1
        <5>1. g.frg[D + 1] = m - 1
          <6>1. g.frg[D + 1] \in Nat
            <7>1. Cuts(g, y.written) /\ n <= g.len /\ Receives(k, g, n)
              BY <1>1, <1>3, StreamFacts DEF Stream
            <7>2. Collects(k, g, n)
              BY <7>1 DEF Receives
            <7>3. D + m <= g.len
              <8> HIDE DEF k, n
              <8> QED BY <1>1, <1>5, <7>1, <7>2, FirstMessageIs DEF k
            <7>4. D + 1 \in 1..g.len /\ g.frg \in [1..g.len -> Nat]
              <8>1. g.len \in Nat /\ g.frg \in [1..g.len -> Nat]
                BY <7>1 DEF Cuts
              <8> HIDE DEF D, m
              <8> QED BY <1>5, <3>2, <7>3, <8>1
            <7> HIDE DEF D
            <7> QED BY <7>4
          <6> HIDE DEF D
          <6> QED BY <6>1
        <5> QED BY <3>1, <5>1
      <4> HIDE DEF D, m
      <4> QED BY <1>5, <3>1, <3>2, <4>1
    <3> HIDE DEF R2, D, m, j, n
    <3> QED BY <1>5, <1>7, <3>2, <3>3, Widths
  <2> QED BY <2>1, <2>2
<1>9. Handles(x2, g, R2)
  BY <1>8 DEF Handles
<1>10. Stream(y, x2, g, R2) /\ Carried(P, d, o, j, g, R2)
  <2>1. x2.delivered = Run(0, g.cut[Read(j)])
    BY <1>4 DEF ReadsOn
  <2> DEFINE q == R2
  <2>2. q = R2 /\ Handles(x2, g, q)
    BY <1>9
  <2> HIDE DEF q
  <2>3. Stream(y, x2, g, q) /\ Carried(P, d, o, j, g, q)
    BY <1>1, <1>3, <1>4, <1>8, <2>1, <2>2, ReceiverGoes
  <2> QED BY <2>2, <2>3, Zenon
<1>11. EndOK(x2) /\ Stream(x2, y, h, z) /\ Carried(P, e, j, o, h, z)
  BY <1>1, <1>2, <1>4, SenderStays
<1>12. Linked(P, e, x2, y) /\ Linked(P, d, y, x2)
  BY <1>10, <1>11, Zenon DEF Linked
<1>13. \E c, c2 : ReadsOn(x, y, c, c2)
  BY <1>4, Zenon
<1> QED BY <1>1, <1>11, <1>12, <1>13 DEF Joined

\* The handler ends, or the session closes.
LEMMA PhaseStep ==
    ASSUME NEW P, NEW e, NEW d, NEW x, NEW y, Joined(P, e, d, x, y),
           NEW x2, x2.kcp = x.kcp, x2.written = x.written, x2.delivered = x.delivered,
           x2.phase = "idle",
           x2.closed \/ ~ikcp_readable(x.kcp), x.phase # "read" \/ ~ikcp_readable(x.kcp)
    PROVE  Joined(P, e, d, x2, y)
<1> DEFINE k == x.kcp
           o == y.kcp
           n == Off(o.snd_nxt)
           R == Off(k.rcv_nxt)
<1>1. EndOK(x) /\ EndOK(y) /\ PacketsOK(P, e, d) /\ PacketsOK(P, d, e) /\ k \in Block /\ o \in Block
  BY JoinedParts
<1>2. PICK h, z : Stream(x, y, h, z) /\ Carried(P, e, k, o, h, z)
  BY JoinedParts, Zenon
<1>3. PICK g, v : Stream(y, x, g, v) /\ Carried(P, d, o, k, g, v)
  BY JoinedParts, Zenon
<1>4. /\ Receives(k, g, n) /\ Handles(x, g, v) /\ Cuts(g, y.written)
      /\ x2.delivered = Run(0, g.cut[Read(k)])
  BY <1>3 DEF Stream
<1>5. n \in Nat /\ n <= g.len /\ R \in Nat /\ Len(k.rcv_queue) \in Nat
  BY <1>1, <1>3, StreamFacts
<1>6. Len(k.rcv_queue) < rcv_wnd
  <2>1. CASE x.phase # "read"
    BY <1>4, <2>1 DEF Handles
  <2>2. CASE ~ikcp_readable(k) /\ Len(k.rcv_queue) > 0
    <3>1. Collects(k, g, n)
      BY <1>4 DEF Receives
    <3> DEFINE f == g.frg[Read(k) + 1]
    <3>2. f \in Nat /\ Len(k.rcv_queue) <= f /\ f < IKCP_WND_RCV
      <4> HIDE DEF k, n
      <4> QED BY <1>1, <1>4, <1>5, <2>2, <3>1, Unreadable DEF k
    <3> HIDE DEF k, f
    <3> QED BY <1>5, <3>2, Widths
  <2>3. CASE ~(Len(k.rcv_queue) > 0)
    <3> HIDE DEF k
    <3> QED BY <1>5, <2>3, Widths
  <2> QED BY <2>1, <2>2, <2>3
<1>7. Handles(x2, g, R)
  BY <1>6 DEF Handles
<1>8. Stream(y, x2, g, R) /\ Carried(P, d, o, k, g, R)
  <2>1. R <= R
    <3> HIDE DEF R
    <3> QED BY <1>5
  <2> DEFINE q == R
  <2>2. q = R /\ Handles(x2, g, q)
    BY <1>7
  <2> HIDE DEF q
  <2>3. Stream(y, x2, g, q) /\ Carried(P, d, o, k, g, q)
    BY <1>1, <1>3, <1>4, <1>6, <2>1, <2>2, ReceiverGoes
  <2> QED BY <2>2, <2>3
<1>9. SameSender(k, x2.kcp)
  BY DEF SameSender
<1>10. EndOK(x2) /\ Stream(x2, y, h, z) /\ Carried(P, e, x2.kcp, o, h, z)
  BY <1>1, <1>2, <1>9, SenderStays
<1>11. Linked(P, e, x2, y) /\ Linked(P, d, y, x2)
  BY <1>8, <1>10, Zenon DEF Linked
<1> QED BY <1>1, <1>10, <1>11 DEF Joined

\* Only the named parts of an end matter.
LEMMA SameView ==
    ASSUME NEW P, NEW e, NEW d, NEW x, NEW y, Joined(P, e, d, x, y),
           NEW x2, x2.kcp = x.kcp, x2.written = x.written, x2.delivered = x.delivered,
           x2.phase = x.phase, x2.closed = x.closed
    PROVE  Joined(P, e, d, x2, y)
<1>1. EndOK(x2) <=> EndOK(x)
  BY DEF EndOK
<1>2. \A h, z : Stream(x2, y, h, z) <=> Stream(x, y, h, z)
  BY DEF Stream
<1>3. \A h, z : Stream(y, x2, h, z) <=> Stream(y, x, h, z)
  BY DEF Stream, Handles
<1>4. Linked(P, e, x2, y) /\ Linked(P, d, y, x2)
  <2>1. Linked(P, e, x, y) /\ Linked(P, d, y, x)
    BY DEF Joined
  <2> QED BY <1>2, <1>3, <2>1, Zenon DEF Linked
<1> QED BY <1>1, <1>4 DEF Joined

\* WriteInLoopThread: ikcp_send and a flush for what the window takes, ikcp_append for
\* the rest.
LEMMA WriteStep ==
    ASSUME NEW P, NEW e, NEW d, e # d, NEW x, NEW y, Joined(P, e, d, x, y), x.phase # "read",
           NEW len \in Nat, len > 0, NEW now \in 0..len, now > 0 => ikcp_send_accepts(now),
           2 * (x.written + len + rcv_wnd) < SeqSpace, NEW expired,
           NEW bytes, bytes = Run(x.written, x.written + len),
           NEW sent, sent = ikcp_send(x.kcp, SubSeq(bytes, 1, now)),
           NEW flushed, flushed = IF now > 0 THEN ikcp_flush(sent, expired) ELSE x.kcp,
           NEW after, after = IF now < len THEN ikcp_append(flushed, Drop(bytes, now)) ELSE flushed,
           NEW Q, Q = IF now > 0
                      THEN {[to |-> d, segs |-> c] : c \in ikcp_flush_output(sent, expired)} ELSE {},
           NEW x2, x2.kcp = after, x2.written = x.written + len,
           x2.delivered = x.delivered, x2.phase = x.phase, x2.closed = x.closed
    PROVE  Joined(P \cup Q, e, d, x2, y)
<1> DEFINE w == x.written
           m == w + now
           hi == w + len
           With(k, n) == [kcp |-> k, written |-> n, delivered |-> x.delivered, phase |-> x.phase,
                          closed |-> x.closed]
<1>1. EndOK(x) /\ w \in Nat
  BY JoinedParts DEF EndOK
<1>2. /\ m \in Nat /\ hi \in Nat /\ w <= m /\ m <= hi /\ w < hi /\ (now > 0 => w < m)
      /\ (now < len => m < hi) /\ m - w = now /\ now \in Nat /\ now \in 0..(hi - w) /\ w <= hi
      /\ (~(now < len) => m = hi) /\ (~(now > 0) => m = w)
      /\ 2 * (m + rcv_wnd) < SeqSpace /\ 2 * (hi + rcv_wnd) < SeqSpace
  <2> HIDE DEF w
  <2> QED BY <1>1, Widths DEF w
<1>3. SubSeq(bytes, 1, now) = Run(w, m) /\ Drop(bytes, now) = Run(m, hi)
  <2> DEFINE n == now
  <2> HIDE DEF w, hi
  <2> QED BY <1>1, <1>2, RunCut, ZenonT(40) DEF w, hi
<1> HIDE DEF m, hi
<1> DEFINE x1 == With(flushed, m)
<1>4. Joined(P \cup Q, e, d, x1, y)
  <2>1. CASE now > 0
    <3> DEFINE x0 == With(sent, m)
    <3>1. Joined(P, e, d, x0, y)
      <4>1. /\ x0.kcp = sent /\ x0.written = m /\ x0.delivered = x.delivered /\ x0.phase = x.phase
            /\ x0.closed = x.closed
        OBVIOUS
      <4>2. x0.kcp = ikcp_send(x.kcp, Run(x.written, m))
        BY <1>3, <4>1
      <4>3. x.written < m /\ ikcp_send_accepts(m - x.written)
        BY <1>2, <2>1
      <4> HIDE DEF x0
      <4> QED BY <1>2, <4>1, <4>2, <4>3, SendStep
    <3>2. x0.kcp = sent /\ x1.kcp = ikcp_flush(x0.kcp, expired) /\ x0.phase # "read"
      BY <2>1
    <3>3. Q = {[to |-> d, segs |-> c] : c \in ikcp_flush_output(x0.kcp, expired)}
      BY <2>1, <3>2
    <3>4. /\ x1.written = x0.written /\ x1.delivered = x0.delivered /\ x1.phase = x0.phase
          /\ x1.closed = x0.closed
      OBVIOUS
    <3> HIDE DEF x0, x1
    <3> QED BY <3>1, <3>2, <3>3, <3>4, FlushStep
  <2>2. CASE ~(now > 0)
    <3>1. P \cup Q = P /\ flushed = x.kcp /\ m = x.written
      BY <1>2, <2>2
    <3>2. /\ x1.kcp = x.kcp /\ x1.written = x.written /\ x1.delivered = x.delivered
          /\ x1.phase = x.phase /\ x1.closed = x.closed
      BY <3>1
    <3> HIDE DEF x1
    <3>3. Joined(P, e, d, x1, y)
      BY <3>2, SameView
    <3> QED BY <3>1, <3>3
  <2> QED BY <2>1, <2>2
<1>5. /\ x1.kcp = flushed /\ x1.written = m /\ x1.delivered = x.delivered /\ x1.phase = x.phase
      /\ x1.closed = x.closed
  OBVIOUS
<1> HIDE DEF x1
<1>6. CASE now < len
  <2>1. x2.kcp = ikcp_append(x1.kcp, Run(x1.written, hi)) /\ x2.written = hi
    BY <1>3, <1>5, <1>6 DEF hi
  <2>2. x1.written < hi
    BY <1>2, <1>5, <1>6
  <2> QED BY <1>2, <1>4, <1>5, <2>1, <2>2, AppendStep
<1>7. CASE ~(now < len)
  <2>1. /\ x2.kcp = x1.kcp /\ x2.written = x1.written /\ x2.delivered = x1.delivered
        /\ x2.phase = x1.phase /\ x2.closed = x1.closed
    <3>1. x2.written = hi /\ m = hi
      BY <1>2, <1>7 DEF hi
    <3> QED BY <1>5, <1>7, <3>1
  <2> QED BY <1>4, <2>1, SameView
<1> QED BY <1>6, <1>7

-------------------------------------------------------------------------------
(* The steps of the specification.                                         *)

\* Each end has one peer.
LEMMA Peers ==
    ASSUME NEW e \in Ends
    PROVE  /\ Peer(e) \in Ends /\ Peer(e) # e /\ Peer(Peer(e)) = e
           /\ \A f \in Ends : f = e \/ f = Peer(e)
<1>1. IsFiniteSet(Ends) /\ Cardinality(Ends) = 2
  BY SessionAssumption
<1>2. IsFiniteSet(Ends \ {e}) /\ Cardinality(Ends \ {e}) = 2 - 1
  BY <1>1, FS_RemoveElement
<1>3. Cardinality(Ends \ {e}) = 1
  BY <1>2
<1>4. PICK a : Ends \ {e} = {a}
  BY <1>2, <1>3, FS_Singleton
<1>5. a \in Ends /\ a # e /\ \A f \in Ends : f = e \/ f = a
  BY <1>4
<1>6. Peer(e) \in Ends /\ Peer(e) # e
  BY <1>5 DEF Peer
<1>7. Peer(e) = a
  BY <1>5, <1>6
<1>8. Peer(a) \in Ends /\ Peer(a) # a
  BY <1>5 DEF Peer
<1>9. Peer(a) = e
  BY <1>5, <1>8
<1> QED BY <1>5, <1>7, <1>9

\* The bound on an end's bytes keeps its numbers apart.
LEMMA Bounded ==
    ASSUME NEW e \in Ends, NEW n \in Nat, n <= MaxBytes[e]
    PROVE  2 * (n + rcv_wnd) < SeqSpace
<1>1. MaxBytes[e] \in Nat /\ 2 * (MaxBytes[e] + rcv_wnd) < SeqSpace
  BY SessionAssumption, NumberingAssumption
<1> QED BY <1>1, Widths

\* A step of the end e leaves the other end alone.
LEMMA EndActs ==
    ASSUME SessionInv, NEW e \in Ends, Shapes',
           Joined(net', e, Peer(e), [kcp |-> kcp'[e], written |-> written'[e],
                                     delivered |-> delivered'[e], phase |-> phase'[e],
                                     closed |-> closed'[e]], View(Peer(e))),
           LET d == Peer(e) IN
               /\ kcp'[d] = kcp[d] /\ written'[d] = written[d] /\ delivered'[d] = delivered[d]
               /\ phase'[d] = phase[d] /\ closed'[d] = closed[d]
    PROVE  SessionInv'
<1> DEFINE d == Peer(e)
           V(f) == [kcp |-> kcp'[f], written |-> written'[f], delivered |-> delivered'[f],
                    phase |-> phase'[f], closed |-> closed'[f]]
<1>1. d \in Ends /\ Peer(d) = e /\ \A f \in Ends : f = e \/ f = d
  BY Peers
<1>2. V(d) = View(d)
  BY DEF View
<1>3. Joined(net', e, d, V(e), V(d))
  BY <1>2
<1>4. Joined(net', d, e, V(d), V(e))
  <2> HIDE DEF V
  <2> QED BY <1>3, JoinedBack
<1>5. \A f \in Ends : Joined(net', f, Peer(f), V(f), V(Peer(f)))
  <2> HIDE DEF V
  <2> QED BY <1>1, <1>3, <1>4
<1> QED BY <1>5 DEF SessionInv, View

\* The invariant of the conversation, at one of its ends.
LEMMA AtEnd ==
    ASSUME SessionInv, NEW e \in Ends
    PROVE  /\ Joined(net, e, Peer(e), View(e), View(Peer(e)))
           /\ View(e).kcp = kcp[e] /\ View(e).written = written[e]
           /\ View(e).delivered = delivered[e] /\ View(e).phase = phase[e]
           /\ View(e).closed = closed[e]
           /\ kcp[e] \in Block /\ phase[e] \in {"idle", "read", "callback"}
           /\ written[e] \in Nat /\ written[e] <= MaxBytes[e] /\ MaxBytes[e] \in Nat
BY SessionAssumption DEF SessionInv, Shapes, View

\* Both sessions after Initialize.
LEMMA CreatedJoins ==
    ASSUME NEW e, NEW d, NEW x, NEW y, x.kcp = ikcp_create, x.written = 0, x.delivered = <<>>,
           x.phase = "idle", ~x.closed, y.kcp = ikcp_create, y.written = 0, y.delivered = <<>>,
           y.phase = "idle", ~y.closed, 2 * rcv_wnd < SeqSpace
    PROVE  Joined({}, e, d, x, y)
<1> DEFINE k == ikcp_create
           h == [len |-> 0, cut |-> [a \in 0..0 |-> 0], frg |-> [a \in 1..0 |-> 0]]
<1>1. /\ k.snd_una = FirstSn /\ k.snd_nxt = FirstSn /\ k.rcv_nxt = FirstSn
      /\ k.snd_queue = <<>> /\ k.snd_buf = <<>> /\ k.rcv_buf = <<>> /\ k.rcv_queue = <<>>
      /\ k.acklist = <<>>
  BY DEF ikcp_create
<1>2. k \in Block
  <2>1. /\ <<>> \in Seq(QueuedRec) /\ <<>> \in Seq(SentRec) /\ <<>> \in Seq(NumberedRec)
        /\ <<>> \in Seq(Numbers) /\ IKCP_WND_RCV \in 1..rcv_wnd /\ FirstSn \in Numbers
    BY Widths
  <2> QED BY <2>1 DEF ikcp_create, Block
<1> HIDE DEF k
<1>3. Cuts(h, 0)
  BY DEF Cuts
<1>4. Off(FirstSn) = 0 /\ Len(<<>>) = 0
  BY OffType
<1>5. h.len = 0 /\ h.cut[0] = 0
  OBVIOUS
<1> HIDE DEF h
<1>6. Sends(k, h)
  <2>1. Holds(k.snd_buf, h, 0, 0) /\ Continues(k.snd_queue, h, 0)
    BY <1>1, <1>4 DEF Holds, Continues
  <2> QED BY <1>1, <1>4, <1>5, <2>1, Widths DEF Sends
<1>7. Read(k) = 0
  <2>1. Off(k.rcv_nxt) = 0 /\ Len(k.rcv_queue) = 0
    BY <1>1, <1>4, Zenon
  <2>2. Read(k) = 0 - 0
    BY <2>1, Zenon DEF Read
  <2> QED BY <2>2
<1>8. Receives(k, h, 0)
  <2>1. Holds(k.rcv_buf, h, 0, 0) /\ Continues(k.rcv_queue, h, 0)
    BY <1>1, <1>4 DEF Holds, Continues
  <2>2. Collects(k, h, 0)
    BY <1>1, <1>4, <1>7, <2>1, Widths DEF Collects
  <2>3. Offsets(k.rcv_buf) = {}
    BY <1>1, <1>4 DEF Offsets
  <2> QED BY <1>1, <1>4, <2>2, <2>3 DEF Receives
<1>9. ~ikcp_readable(k) /\ Len(k.rcv_queue) < rcv_wnd /\ Off(k.rcv_nxt) = 0 /\ Off(k.snd_nxt) = 0
  BY <1>1, <1>4, Widths DEF ikcp_readable
<1>10. Needed(k, k, 0) = {}
  BY <1>9 DEF Needed
<1>11. Run(0, 0) = <<>>
  BY DEF Run
<1>12. ASSUME NEW a, NEW b, a.kcp = k, a.written = 0, b.kcp = k, b.delivered = <<>>, b.phase = "idle"
       PROVE  Stream(a, b, h, 0)
  <2>1. Handles(b, h, 0)
    BY <1>9, <1>12 DEF Handles
  <2>2. b.delivered = Run(0, h.cut[Read(b.kcp)])
    BY <1>5, <1>7, <1>11, <1>12
  <2>3. Receives(b.kcp, h, Off(a.kcp.snd_nxt)) /\ 0 <= Off(b.kcp.rcv_nxt)
    BY <1>8, <1>9, <1>12
  <2>4. Needed(a.kcp, b.kcp, 0) \subseteq Offsets(a.kcp.snd_buf) /\ 0 \in Nat
    BY <1>10, <1>12
  <2> QED BY <1>3, <1>6, <1>12, <2>1, <2>2, <2>3, <2>4 DEF Stream
<1>13. Stream(x, y, h, 0) /\ Stream(y, x, h, 0)
  BY <1>12 DEF k
<1>14. EndOK(x) /\ EndOK(y)
  <2>1. x.kcp = k /\ y.kcp = k
    BY DEF k
  <2>2. 2 * (0 + rcv_wnd) < SeqSpace
    BY Widths
  <2> QED BY <1>1, <1>2, <1>4, <2>1, <2>2 DEF EndOK
<1>15. \A f, s, r, g, z : Carried({}, f, s, r, g, z)
  BY DEF Carried
<1>16. Linked({}, e, x, y) /\ Linked({}, d, y, x)
  BY <1>13, <1>15, Zenon DEF Linked
<1>17. PacketsOK({}, e, d)
  BY DEF PacketsOK
<1> QED BY <1>14, <1>16, <1>17 DEF Joined

LEMMA InitJoins ==
    ASSUME Init
    PROVE  SessionInv
<1>1. /\ net = {} /\ kcp = [e \in Ends |-> ikcp_create] /\ closed = [e \in Ends |-> FALSE]
      /\ phase = [e \in Ends |-> "idle"] /\ need_drain_before = [e \in Ends |-> FALSE]
      /\ callbacks = [e \in Ends |-> {}] /\ written = [e \in Ends |-> 0]
      /\ delivered = [e \in Ends |-> <<>>]
  BY DEF Init
<1>2. ASSUME NEW e \in Ends
      PROVE  Joined(net, e, Peer(e), View(e), View(Peer(e))) /\ kcp[e] \in Block /\ MaxBytes[e] \in Nat
  <2>1. Peer(e) \in Ends /\ MaxBytes[e] \in Nat
    BY Peers, SessionAssumption
  <2>2. \A f \in Ends : /\ View(f).kcp = ikcp_create /\ View(f).written = 0
                        /\ View(f).delivered = <<>> /\ View(f).phase = "idle" /\ ~View(f).closed
    BY <1>1 DEF View
  <2>3. 2 * (0 + rcv_wnd) < SeqSpace
    BY <2>1, Bounded
  <2>4. 2 * rcv_wnd < SeqSpace
    BY <2>3, Widths
  <2>5. Joined({}, e, Peer(e), View(e), View(Peer(e)))
    BY <2>1, <2>2, <2>4, CreatedJoins
  <2>6. EndOK(View(e))
    BY <2>5 DEF Joined
  <2>7. kcp[e] \in Block
    BY <2>6 DEF EndOK, View
  <2> QED BY <1>1, <2>1, <2>5, <2>7
<1>3. Shapes
  <2>1. kcp \in [Ends -> Block]
    BY <1>1, <1>2
  <2>2. written \in [Ends -> Nat] /\ \A e \in Ends : written[e] <= MaxBytes[e]
    BY <1>1, <1>2
  <2> QED BY <1>1, <2>1, <2>2 DEF Shapes
<1> QED BY <1>2, <1>3 DEF SessionInv

\* A step that no end sees.
LEMMA NothingMoves ==
    ASSUME SessionInv, net' \subseteq net, UNCHANGED <<kcp, closed, phase, need_drain_before, written, delivered>>,
           callbacks' \in [Ends -> SUBSET {"write_complete", "high_water_mark"}]
    PROVE  SessionInv'
<1>1. ASSUME NEW e \in Ends PROVE Joined(net', e, Peer(e), View(e), View(Peer(e)))
  <2>1. Joined(net, e, Peer(e), View(e), View(Peer(e)))
    BY DEF SessionInv
  <2> QED BY <2>1, FewerPackets
<1>2. \A e \in Ends : Joined(net', e, Peer(e), View(e)', View(Peer(e))')
  BY <1>1 DEF View
<1>3. Shapes'
  BY DEF SessionInv, Shapes
<1> QED BY <1>2, <1>3 DEF SessionInv

\* What the network holds after a step.
LEMMA Carries ==
    ASSUME NEW held, NEW sent, NEW kept \in Carry(held, sent)
    PROVE  kept \subseteq held \cup sent
BY DEF Carry

\* The callbacks that a step queues.
LEMMA Queues ==
    ASSUME NEW e \in Ends, callbacks \in [Ends -> SUBSET {"write_complete", "high_water_mark"}],
           NEW cbs \in SUBSET {"write_complete", "high_water_mark"}
    PROVE  Queue(e, cbs) \in [Ends -> SUBSET {"write_complete", "high_water_mark"}]
BY DEF Queue

LEMMA ProcessPacketJoins ==
    ASSUME SessionInv, NEW p \in net, ProcessPacket(p)
    PROVE  SessionInv'
<1> DEFINE e == p.to
           d == Peer(e)
           x2 == [kcp |-> kcp'[e], written |-> written'[e], delivered |-> delivered'[e],
                  phase |-> phase'[e], closed |-> closed'[e]]
<1>1. /\ phase[e] = "idle" /\ ~closed[e] /\ Receive(p, {})
      /\ need_drain_before' = [need_drain_before EXCEPT ![e] = ikcp_need_drain(kcp[e])]
      /\ kcp' = [kcp EXCEPT ![e] = ikcp_input(@, p.segs)]
      /\ phase' = [phase EXCEPT ![e] = "read"]
      /\ UNCHANGED <<closed, callbacks, written, delivered>>
  BY DEF ProcessPacket
<1>2. e \in Ends
  <2>1. \A f \in Ends : PacketsOK(net, f, Peer(f)) /\ Peer(f) \in Ends
    BY Peers DEF SessionInv, Joined
  <2>2. PICK f \in Ends : TRUE
    <3>1. Ends # {}
      BY SessionAssumption, FS_EmptySet
    <3> QED BY <3>1
  <2>3. e = f \/ e = Peer(f)
    BY <2>1 DEF PacketsOK
  <2> QED BY <2>1, <2>3
<1> HIDE DEF e
<1>3. d \in Ends /\ d # e
  BY <1>2, Peers
<1>4. Shapes
  BY DEF SessionInv
<1>5. net' \subseteq net
  <2>1. PICK held \in {net, net \ {p}} : net' \in Carry(held, {})
    BY <1>1 DEF Receive
  <2>2. net' \subseteq held \cup {}
    BY <2>1, Carries
  <2> QED BY <2>1, <2>2
<1>6. Joined(net, e, d, x2, View(d))
  <2>1. /\ x2.kcp = ikcp_input(kcp[e], p.segs) /\ x2.written = written[e] /\ x2.delivered = delivered[e]
        /\ x2.phase = "read" /\ x2.closed = closed[e]
    <3>1. kcp'[e] = ikcp_input(kcp[e], p.segs) /\ phase'[e] = "read"
      BY <1>1, <1>2, <1>4 DEF Shapes
    <3> QED BY <1>1, <3>1
  <2> HIDE DEF x2
  <2>2. /\ View(e).kcp = kcp[e] /\ View(e).written = written[e] /\ View(e).delivered = delivered[e]
        /\ View(e).phase = phase[e] /\ View(e).closed = closed[e]
        /\ Joined(net, e, d, View(e), View(d))
    BY <1>2, AtEnd
  <2>3. p.to = e
    BY DEF e
  <2> QED BY <1>1, <1>3, <2>1, <2>2, <2>3, InputStep
<1>7. Joined(net', e, d, x2, View(d))
  <2> HIDE DEF x2
  <2> QED BY <1>5, <1>6, FewerPackets
<1>8. Shapes'
  <2>1. x2.kcp \in Block
    BY <1>7, JoinedParts
  <2>2. kcp'[e] \in Block /\ kcp' = [kcp EXCEPT ![e] = kcp'[e]]
    <3>1. x2.kcp = kcp'[e]
      OBVIOUS
    <3>2. kcp' = [kcp EXCEPT ![e] = kcp'[e]]
      BY <1>1, <1>2, <1>4 DEF Shapes
    <3> QED BY <2>1, <3>1, <3>2
  <2>3. kcp' \in [Ends -> Block]
    BY <1>4, <2>2 DEF Shapes
  <2>4. need_drain_before' \in [Ends -> BOOLEAN] /\ phase' \in [Ends -> {"idle", "read", "callback"}]
    <3>1. ikcp_need_drain(kcp[e]) \in BOOLEAN
      BY DEF ikcp_need_drain
    <3> QED BY <1>1, <1>4, <3>1 DEF Shapes
  <2> QED BY <1>1, <1>4, <2>3, <2>4 DEF Shapes
<1>9. /\ kcp'[d] = kcp[d] /\ written'[d] = written[d] /\ delivered'[d] = delivered[d]
      /\ phase'[d] = phase[d] /\ closed'[d] = closed[d]
  BY <1>1, <1>3, <1>4 DEF Shapes
<1> QED BY <1>2, <1>7, <1>8, <1>9, EndActs

\* The shapes after a step of e that leaves a block behind.
LEMMA ShapesKept ==
    ASSUME SessionInv, NEW e \in Ends, NEW k \in Block, kcp' = [kcp EXCEPT ![e] = k],
           closed' \in [Ends -> BOOLEAN], phase' \in [Ends -> {"idle", "read", "callback"}],
           need_drain_before' \in [Ends -> BOOLEAN],
           callbacks' \in [Ends -> SUBSET {"write_complete", "high_water_mark"}],
           written' \in [Ends -> Nat], \A f \in Ends : written'[f] <= MaxBytes[f],
           DOMAIN delivered' = Ends
    PROVE  Shapes'
<1>1. kcp' \in [Ends -> Block]
  BY DEF SessionInv, Shapes
<1> QED BY <1>1 DEF Shapes

LEMMA OnReadEventJoins ==
    ASSUME SessionInv, NEW e \in Ends, OnReadEvent(e)
    PROVE  SessionInv' /\ \E c, c2 : ReadsOn(View(e), View(Peer(e)), c, c2)
<1> DEFINE d == Peer(e)
           k == ikcp_recv(kcp[e])
           x2 == [kcp |-> kcp'[e], written |-> written'[e], delivered |-> delivered'[e],
                  phase |-> phase'[e], closed |-> closed'[e]]
<1>1. /\ phase[e] # "idle" /\ ikcp_readable(kcp[e])
      /\ delivered' = [delivered EXCEPT ![e] = @ \o ikcp_recv_data(kcp[e])]
      /\ kcp' = [kcp EXCEPT ![e] = k] /\ phase' = [phase EXCEPT ![e] = "callback"]
      /\ UNCHANGED <<net, closed, need_drain_before, callbacks, written>>
  BY DEF OnReadEvent
<1>2. d \in Ends /\ d # e
  BY Peers
<1>3. Shapes
  BY DEF SessionInv
<1>4. Joined(net, e, d, x2, View(d)) /\ \E c, c2 : ReadsOn(View(e), View(d), c, c2)
  <2>1. /\ x2.kcp = k /\ x2.written = written[e] /\ x2.delivered = delivered[e] \o ikcp_recv_data(kcp[e])
        /\ x2.phase = "callback" /\ x2.closed = closed[e]
    <3>1. kcp'[e] = k /\ phase'[e] = "callback" /\ delivered'[e] = delivered[e] \o ikcp_recv_data(kcp[e])
      BY <1>1, <1>3 DEF Shapes
    <3> QED BY <1>1, <3>1
  <2> HIDE DEF x2
  <2>2. /\ View(e).kcp = kcp[e] /\ View(e).written = written[e] /\ View(e).delivered = delivered[e]
        /\ View(e).phase = phase[e] /\ View(e).closed = closed[e]
        /\ Joined(net, e, d, View(e), View(d)) /\ phase[e] \in {"idle", "read", "callback"}
    BY AtEnd
  <2>3. View(e).phase \in {"read", "callback"} /\ ikcp_readable(View(e).kcp)
    BY <1>1, <2>2
  <2> QED BY <2>1, <2>2, <2>3, RecvStep
<1>5. Shapes'
  <2>1. x2.kcp \in Block /\ x2.kcp = k
    <3>1. x2.kcp \in Block
      BY <1>4, JoinedParts
    <3>2. kcp'[e] = k
      BY <1>1, <1>3 DEF Shapes
    <3> QED BY <3>1, <3>2
  <2>2. k \in Block
    BY <2>1
  <2>3. /\ closed' \in [Ends -> BOOLEAN] /\ phase' \in [Ends -> {"idle", "read", "callback"}]
        /\ need_drain_before' \in [Ends -> BOOLEAN]
        /\ callbacks' \in [Ends -> SUBSET {"write_complete", "high_water_mark"}]
        /\ written' \in [Ends -> Nat] /\ \A f \in Ends : written'[f] <= MaxBytes[f]
        /\ DOMAIN delivered' = Ends
    BY <1>1, <1>3 DEF Shapes
  <2> HIDE DEF k
  <2> QED BY <1>1, <2>2, <2>3, ShapesKept
<1>6. /\ kcp'[d] = kcp[d] /\ written'[d] = written[d] /\ delivered'[d] = delivered[d]
      /\ phase'[d] = phase[d] /\ closed'[d] = closed[d]
  BY <1>1, <1>2, <1>3 DEF Shapes
<1>7. SessionInv'
  <2>1. Joined(net', e, d, x2, View(d))
    BY <1>1, <1>4
  <2> QED BY <1>5, <1>6, <2>1, EndActs
<1> QED BY <1>4, <1>7

LEMMA ProcessPacketEndsJoins ==
    ASSUME SessionInv, NEW e \in Ends, ProcessPacketEnds(e)
    PROVE  SessionInv'
<1> DEFINE d == Peer(e)
           x2 == [kcp |-> kcp'[e], written |-> written'[e], delivered |-> delivered'[e],
                  phase |-> phase'[e], closed |-> closed'[e]]
           cbs == IF need_drain_before[e] /\ ~ikcp_need_drain(kcp[e]) THEN {"write_complete"} ELSE {}
<1>1. /\ ~ikcp_readable(kcp[e]) /\ phase' = [phase EXCEPT ![e] = "idle"]
      /\ need_drain_before' = [need_drain_before EXCEPT ![e] = FALSE]
      /\ callbacks' = Queue(e, cbs)
      /\ UNCHANGED <<net, kcp, closed, written, delivered>>
  BY DEF ProcessPacketEnds
<1>2. d \in Ends /\ d # e
  BY Peers
<1>3. Shapes
  BY DEF SessionInv
<1>4. Joined(net, e, d, x2, View(d))
  <2>1. /\ x2.kcp = kcp[e] /\ x2.written = written[e] /\ x2.delivered = delivered[e]
        /\ x2.phase = "idle" /\ x2.closed = closed[e]
    <3>1. phase'[e] = "idle"
      BY <1>1, <1>3 DEF Shapes
    <3> QED BY <1>1, <3>1
  <2> HIDE DEF x2
  <2>2. /\ View(e).kcp = kcp[e] /\ View(e).written = written[e] /\ View(e).delivered = delivered[e]
        /\ Joined(net, e, d, View(e), View(d))
    BY AtEnd
  <2> QED BY <1>1, <2>1, <2>2, PhaseStep
<1>5. Shapes'
  <2>1. callbacks' \in [Ends -> SUBSET {"write_complete", "high_water_mark"}]
    <3>1. cbs \in SUBSET {"write_complete", "high_water_mark"}
      OBVIOUS
    <3>2. callbacks \in [Ends -> SUBSET {"write_complete", "high_water_mark"}]
      BY <1>3 DEF Shapes
    <3> HIDE DEF cbs
    <3> QED BY <1>1, <3>1, <3>2, Queues
  <2> QED BY <1>1, <1>3, <2>1 DEF Shapes
<1>6. /\ kcp'[d] = kcp[d] /\ written'[d] = written[d] /\ delivered'[d] = delivered[d]
      /\ phase'[d] = phase[d] /\ closed'[d] = closed[d]
  BY <1>1, <1>2, <1>3 DEF Shapes
<1>7. Joined(net', e, d, x2, View(d))
  BY <1>1, <1>4
<1> QED BY <1>5, <1>6, <1>7, EndActs

LEMMA FlushStateJoins ==
    ASSUME SessionInv, NEW e \in Ends, NEW expired, FlushState(e, expired)
    PROVE  SessionInv'
<1> DEFINE d == Peer(e)
           k == ikcp_flush(kcp[e], expired)
           Q == {[to |-> d, segs |-> c] : c \in ikcp_flush_output(kcp[e], expired)}
           x2 == [kcp |-> kcp'[e], written |-> written'[e], delivered |-> delivered'[e],
                  phase |-> phase'[e], closed |-> closed'[e]]
<1>1. /\ phase[e] = "idle" /\ kcp' = [kcp EXCEPT ![e] = k] /\ net' \in Carry(net, Q)
      /\ UNCHANGED <<closed, phase, need_drain_before, callbacks, written, delivered>>
  BY DEF FlushState, Transmit, Output
<1>2. d \in Ends /\ d # e
  BY Peers
<1>3. Shapes
  BY DEF SessionInv
<1>4. Joined(net \cup Q, e, d, x2, View(d)) /\ x2.kcp = k
  <2>1. /\ x2.kcp = k /\ x2.written = written[e] /\ x2.delivered = delivered[e]
        /\ x2.phase = phase[e] /\ x2.closed = closed[e]
    <3>1. kcp'[e] = k
      BY <1>1, <1>3 DEF Shapes
    <3> QED BY <1>1, <3>1
  <2> HIDE DEF x2
  <2>2. /\ View(e).kcp = kcp[e] /\ View(e).written = written[e] /\ View(e).delivered = delivered[e]
        /\ View(e).phase = phase[e] /\ View(e).closed = closed[e]
        /\ Joined(net, e, d, View(e), View(d))
    BY AtEnd
  <2> DEFINE x == View(e)
  <2>3. /\ x2.kcp = ikcp_flush(x.kcp, expired) /\ x2.written = x.written /\ x2.delivered = x.delivered
        /\ x2.phase = x.phase /\ x2.closed = x.closed /\ x.phase # "read"
        /\ Q = {[to |-> d, segs |-> c] : c \in ikcp_flush_output(x.kcp, expired)}
        /\ Joined(net, e, d, x, View(d))
    BY <1>1, <2>1, <2>2
  <2> HIDE DEF x, Q
  <2> QED BY <1>2, <2>1, <2>3, FlushStep
<1>5. Joined(net', e, d, x2, View(d))
  <2>1. net' \subseteq net \cup Q
    <3> HIDE DEF Q
    <3> QED BY <1>1, Carries
  <2> HIDE DEF x2, Q
  <2> QED BY <1>4, <2>1, FewerPackets
<1>6. Shapes'
  <2>1. k \in Block
    BY <1>4, JoinedParts
  <2>2. /\ closed' \in [Ends -> BOOLEAN] /\ phase' \in [Ends -> {"idle", "read", "callback"}]
        /\ need_drain_before' \in [Ends -> BOOLEAN]
        /\ callbacks' \in [Ends -> SUBSET {"write_complete", "high_water_mark"}]
        /\ written' \in [Ends -> Nat] /\ \A f \in Ends : written'[f] <= MaxBytes[f]
        /\ DOMAIN delivered' = Ends
    BY <1>1, <1>3 DEF Shapes
  <2> HIDE DEF k
  <2> QED BY <1>1, <2>1, <2>2, ShapesKept
<1>7. /\ kcp'[d] = kcp[d] /\ written'[d] = written[d] /\ delivered'[d] = delivered[d]
      /\ phase'[d] = phase[d] /\ closed'[d] = closed[d]
  BY <1>1, <1>2, <1>3 DEF Shapes
<1> QED BY <1>5, <1>6, <1>7, EndActs

LEMMA CloseJoins ==
    ASSUME SessionInv, NEW e \in Ends, NEW last_flush, Close(e, last_flush)
    PROVE  SessionInv'
<1> DEFINE d == Peer(e)
<1>1. /\ phase[e] \in {"idle", "callback"}
      /\ closed' = [closed EXCEPT ![e] = TRUE] /\ phase' = [phase EXCEPT ![e] = "idle"]
      /\ need_drain_before' = [need_drain_before EXCEPT ![e] = FALSE]
      /\ UNCHANGED <<callbacks, written, delivered>>
  BY DEF Close, UserCode
<1>2. PICK expired :
          /\ kcp' = [kcp EXCEPT ![e] = IF last_flush THEN ikcp_flush(@, expired) ELSE @]
          /\ Transmit(IF last_flush THEN Output(e, ikcp_flush_output(kcp[e], expired)) ELSE {})
  BY Zenon DEF Close
<1> DEFINE k == IF last_flush THEN ikcp_flush(kcp[e], expired) ELSE kcp[e]
           F == {[to |-> d, segs |-> c] : c \in ikcp_flush_output(kcp[e], expired)}
           Q == IF last_flush THEN F ELSE {}
           x1 == [kcp |-> k, written |-> written[e], delivered |-> delivered[e],
                  phase |-> phase[e], closed |-> closed[e]]
           x2 == [kcp |-> kcp'[e], written |-> written'[e], delivered |-> delivered'[e],
                  phase |-> phase'[e], closed |-> closed'[e]]
<1>3. kcp' = [kcp EXCEPT ![e] = k] /\ net' \in Carry(net, Q)
  <2>1. kcp' = [kcp EXCEPT ![e] = k]
    BY <1>2
  <2>2. net' \in Carry(net, Q)
    BY <1>2 DEF Transmit, Output
  <2> QED BY <2>1, <2>2
<1>4. d \in Ends /\ d # e
  BY Peers
<1>5. Shapes
  BY DEF SessionInv
<1>6. /\ View(e).kcp = kcp[e] /\ View(e).written = written[e] /\ View(e).delivered = delivered[e]
      /\ View(e).phase = phase[e] /\ View(e).closed = closed[e]
      /\ Joined(net, e, d, View(e), View(d))
  BY AtEnd
<1>7. Joined(net \cup Q, e, d, x1, View(d))
  <2> DEFINE x == View(e)
  <2>1. /\ x1.kcp = k /\ x1.written = x.written /\ x1.delivered = x.delivered
        /\ x1.phase = x.phase /\ x1.closed = x.closed /\ x.phase # "read" /\ x.kcp = kcp[e]
        /\ Joined(net, e, d, x, View(d))
    <3>1. phase[e] # "read"
      BY <1>1
    <3> QED BY <1>6, <3>1
  <2> HIDE DEF x, x1
  <2>2. CASE last_flush
    <3>1. x1.kcp = ikcp_flush(x.kcp, expired) /\ Q = F
      BY <2>1, <2>2
    <3>2. Q = {[to |-> d, segs |-> c] : c \in ikcp_flush_output(x.kcp, expired)}
      BY <2>1, <3>1
    <3> HIDE DEF Q, k, F
    <3> QED BY <1>4, <2>1, <3>1, <3>2, FlushStep
  <2>3. CASE ~last_flush
    <3>1. x1.kcp = x.kcp /\ net \cup Q = net
      BY <2>1, <2>3
    <3>2. Joined(net, e, d, x1, View(d))
      BY <2>1, <3>1, SameView
    <3> QED BY <3>1, <3>2
  <2> QED BY <2>2, <2>3
<1>8. Joined(net \cup Q, e, d, x2, View(d)) /\ x2.kcp = k
  <2>1. /\ x2.kcp = x1.kcp /\ x2.written = x1.written /\ x2.delivered = x1.delivered
        /\ x2.phase = "idle" /\ x2.closed /\ x1.phase # "read" /\ x1.kcp = k
    <3>1. kcp'[e] = k /\ closed'[e] = TRUE /\ phase'[e] = "idle"
      <4> HIDE DEF k
      <4> QED BY <1>1, <1>3, <1>5 DEF Shapes
    <3> HIDE DEF k
    <3> QED BY <1>1, <3>1
  <2> HIDE DEF x1, x2, Q, k
  <2> QED BY <1>7, <2>1, PhaseStep
<1>9. Joined(net', e, d, x2, View(d))
  <2>1. net' \subseteq net \cup Q
    <3> HIDE DEF Q
    <3> QED BY <1>3, Carries
  <2> HIDE DEF x2, Q
  <2> QED BY <1>8, <2>1, FewerPackets
<1>10. Shapes'
  <2>1. k \in Block
    BY <1>8, JoinedParts
  <2>2. /\ closed' \in [Ends -> BOOLEAN] /\ phase' \in [Ends -> {"idle", "read", "callback"}]
        /\ need_drain_before' \in [Ends -> BOOLEAN]
        /\ callbacks' \in [Ends -> SUBSET {"write_complete", "high_water_mark"}]
        /\ written' \in [Ends -> Nat] /\ \A f \in Ends : written'[f] <= MaxBytes[f]
        /\ DOMAIN delivered' = Ends
    BY <1>1, <1>5 DEF Shapes
  <2> HIDE DEF k
  <2> QED BY <1>3, <2>1, <2>2, ShapesKept
<1>11. /\ kcp'[d] = kcp[d] /\ written'[d] = written[d] /\ delivered'[d] = delivered[d]
       /\ phase'[d] = phase[d] /\ closed'[d] = closed[d]
  <2> HIDE DEF k
  <2> QED BY <1>1, <1>3, <1>4, <1>5 DEF Shapes
<1> QED BY <1>9, <1>10, <1>11, EndActs

\* What WriteInLoopThread passes to ikcp_send is part of the data, and no more than
\* ikcp_send accepts.
LEMMA WritesNow ==
    ASSUME NEW k \in Block, NEW len \in Nat,
           NEW now, now = IF SendRefused(k, len) THEN 0 ELSE BytesCanWrite(k, len)
    PROVE  now \in 0..len /\ (now > 0 => ikcp_send_accepts(now))
<1> DEFINE a == ikcp_available_wnd(k)
           n == BytesCanWrite(k, len)
<1>1. a \in Nat
  <2> DEFINE u == ikcp_calc_wnd(k)
             w == ikcp_waitsnd(k)
  <2>1. snd_wnd \in Nat /\ k.rmt_wnd \in Nat /\ mss \in Nat /\ Len(k.snd_buf) \in Nat
        /\ Len(k.snd_queue) \in Nat
    <3>1. k.snd_buf \in Seq(SentRec) /\ k.snd_queue \in Seq(QueuedRec) /\ k.rmt_wnd \in 1..rcv_wnd
      BY BlockFields
    <3>2. Len(k.snd_buf) \in Nat /\ Len(k.snd_queue) \in Nat
      BY <3>1
    <3> QED BY <3>1, <3>2, IkcpAssumption
  <2>2. u \in Nat
    <3> DEFINE r == k.rmt_wnd
    <3>1. u = Min({snd_wnd, r}) /\ r \in Nat
      BY <2>1 DEF ikcp_calc_wnd
    <3> HIDE DEF r, u
    <3>2. Min({snd_wnd, r}) = IF snd_wnd <= r THEN snd_wnd ELSE r
      BY <2>1, <3>1, MinOfTwo
    <3> QED BY <2>1, <3>1, <3>2
  <2>3. w \in Nat
    <3> DEFINE b == Len(k.snd_buf)
               q == Len(k.snd_queue)
    <3>1. w = b + q /\ b \in Nat /\ q \in Nat
      BY <2>1, Zenon DEF ikcp_waitsnd
    <3> HIDE DEF b, q, w
    <3> QED BY <3>1
  <2> HIDE DEF u, w
  <2>4. u > w => (u - w) \in Nat
    BY <2>2, <2>3
  <2> DEFINE g == u - w
  <2>5. u > w => g * mss \in Nat
    <3> HIDE DEF g
    <3> QED BY <2>1, <2>4 DEF g
  <2>6. a = IF u > w THEN g * mss ELSE 0
    BY DEF ikcp_available_wnd, u, w
  <2> QED BY <2>5, <2>6
<1>2. n \in 0..len
  <2> HIDE DEF a
  <2>1. Min({a, len}) = IF a <= len THEN a ELSE len
    BY <1>1, MinOfTwo
  <2>2. n = IF ikcp_need_drain(k) THEN 0 ELSE Min({a, len})
    BY DEF BytesCanWrite, a
  <2> HIDE DEF n
  <2> QED BY <1>1, <2>1, <2>2
<1>3. SendRefused(k, len) <=> (n > 0 /\ ~ikcp_send_accepts(n))
  BY DEF SendRefused
<1> HIDE DEF n
<1> QED BY <1>2, <1>3 DEF n

LEMMA WriteJoins ==
    ASSUME SessionInv, NEW e \in Ends, NEW len \in 1..MaxBytes[e], Write(e, len)
    PROVE  SessionInv'
<1> DEFINE d == Peer(e)
           k == kcp[e]
           bytes == [i \in 1..len |-> written[e] + i]
           now == IF SendRefused(k, len) THEN 0 ELSE BytesCanWrite(k, len)
           sent == ikcp_send(k, SubSeq(bytes, 1, now))
           FlushedBy(expired) == IF now > 0 THEN ikcp_flush(sent, expired) ELSE k
           After(expired) == IF now < len THEN ikcp_append(FlushedBy(expired), Drop(bytes, now))
                             ELSE FlushedBy(expired)
           cbs(k2) == (IF now = len THEN {"write_complete"} ELSE {})
                      \cup (IF now < len /\ ~ikcp_reach_snd_hghwat(k) /\ ikcp_reach_snd_hghwat(k2)
                            THEN {"high_water_mark"} ELSE {})
<1>1. /\ phase[e] \in {"idle", "callback"} /\ written[e] + len <= MaxBytes[e]
      /\ written' = [written EXCEPT ![e] = @ + len]
      /\ UNCHANGED <<closed, phase, need_drain_before, delivered>>
  BY DEF Write, UserCode
<1>2. PICK expired :
          /\ kcp' = [kcp EXCEPT ![e] = After(expired)]
          /\ Transmit(IF now > 0 THEN Output(e, ikcp_flush_output(sent, expired)) ELSE {})
          /\ callbacks' = Queue(e, cbs(After(expired)))
  BY Zenon DEF Write
<1> DEFINE flushed == FlushedBy(expired)
           after == After(expired)
           Q == IF now > 0 THEN {[to |-> d, segs |-> c] : c \in ikcp_flush_output(sent, expired)}
                ELSE {}
           x2 == [kcp |-> kcp'[e], written |-> written'[e], delivered |-> delivered'[e],
                  phase |-> phase'[e], closed |-> closed'[e]]
<1>3. kcp' = [kcp EXCEPT ![e] = after] /\ net' \in Carry(net, Q) /\ callbacks' = Queue(e, cbs(after))
  <2>1. kcp' = [kcp EXCEPT ![e] = after] /\ callbacks' = Queue(e, cbs(after))
    BY <1>2
  <2>2. net' \in Carry(net, Q)
    <3> HIDE DEF now, sent
    <3> QED BY <1>2 DEF Transmit, Output
  <2> QED BY <2>1, <2>2
<1>4. d \in Ends /\ d # e
  BY Peers
<1>5. Shapes
  BY DEF SessionInv
<1>6. /\ View(e).kcp = kcp[e] /\ View(e).written = written[e] /\ View(e).delivered = delivered[e]
      /\ View(e).phase = phase[e] /\ View(e).closed = closed[e] /\ kcp[e] \in Block
      /\ Joined(net, e, d, View(e), View(d)) /\ written[e] \in Nat /\ MaxBytes[e] \in Nat
  BY AtEnd
<1>7. len \in Nat /\ len > 0 /\ written[e] + len \in Nat /\ len >= 0
  BY <1>6
<1>8. now \in 0..len /\ (now > 0 => ikcp_send_accepts(now))
  <2>1. k \in Block
    BY <1>6
  <2> HIDE DEF k
  <2> QED BY <1>7, <2>1, WritesNow
<1>9. 2 * (written[e] + len + rcv_wnd) < SeqSpace
  <2> DEFINE n == written[e] + len
  <2>1. n \in Nat /\ n <= MaxBytes[e]
    BY <1>1, <1>7
  <2>2. 2 * (n + rcv_wnd) < SeqSpace
    <3> HIDE DEF n
    <3> QED BY <2>1, Bounded
  <2> QED BY <1>6, <1>7, <2>2, Widths
<1>10. bytes = Run(written[e], written[e] + len)
  BY <1>6, <1>7 DEF Run
<1>11. Joined(net \cup Q, e, d, x2, View(d)) /\ x2.kcp = after
  <2> DEFINE x == View(e)
  <2>1. /\ x2.kcp = after /\ x2.written = written[e] + len /\ x2.delivered = delivered[e]
        /\ x2.phase = phase[e] /\ x2.closed = closed[e]
    <3>1. kcp'[e] = after
      <4> HIDE DEF after
      <4> QED BY <1>3, <1>5 DEF Shapes
    <3>2. written'[e] = written[e] + len
      BY <1>1, <1>5 DEF Shapes
    <3> HIDE DEF after
    <3> QED BY <1>1, <3>1, <3>2
  <2> HIDE DEF x2
  <2>2. /\ x.kcp = k /\ x.written = written[e] /\ x2.written = x.written + len
        /\ x2.delivered = x.delivered /\ x2.phase = x.phase /\ x2.closed = x.closed
        /\ x.phase # "read" /\ Joined(net, e, d, x, View(d))
    <3>1. phase[e] # "read"
      BY <1>1
    <3> QED BY <1>6, <2>1, <3>1
  <2> HIDE DEF x
  <2>3. sent = ikcp_send(x.kcp, SubSeq(bytes, 1, now))
    <3> HIDE DEF now, bytes, k
    <3> QED BY <2>2 DEF sent
  <2>4. flushed = IF now > 0 THEN ikcp_flush(sent, expired) ELSE x.kcp
    <3> HIDE DEF now, bytes, k, sent
    <3> QED BY <2>2 DEF flushed
  <2>5. after = IF now < len THEN ikcp_append(flushed, Drop(bytes, now)) ELSE flushed
    <3> HIDE DEF now, bytes, k, sent
    <3> QED OBVIOUS
  <2>6. Q = IF now > 0 THEN {[to |-> d, segs |-> c] : c \in ikcp_flush_output(sent, expired)} ELSE {}
    <3> HIDE DEF now, bytes, k, sent
    <3> QED OBVIOUS
  <2>7. bytes = Run(x.written, x.written + len) /\ 2 * (x.written + len + rcv_wnd) < SeqSpace
    BY <1>9, <1>10, <2>2
  <2> HIDE DEF now, bytes, k, sent, flushed, after, Q
  <2> QED BY <1>4, <1>7, <1>8, <2>1, <2>2, <2>3, <2>4, <2>5, <2>6, <2>7, WriteStep
<1> HIDE DEF FlushedBy, After, Q, now, sent, bytes, k
<1>12. Joined(net', e, d, x2, View(d))
  <2>1. net' \subseteq net \cup Q
    BY <1>3, Carries
  <2> HIDE DEF x2
  <2> QED BY <1>11, <2>1, FewerPackets
<1>13. Shapes'
  <2>1. after \in Block
    BY <1>11, JoinedParts
  <2> HIDE DEF after
  <2>2. cbs(after) \in SUBSET {"write_complete", "high_water_mark"}
    OBVIOUS
  <2> HIDE DEF cbs
  <2>3. callbacks' \in [Ends -> SUBSET {"write_complete", "high_water_mark"}]
    <3>1. callbacks \in [Ends -> SUBSET {"write_complete", "high_water_mark"}]
      BY <1>5 DEF Shapes
    <3> QED BY <1>3, <2>2, <3>1, Queues
  <2>4. /\ closed' \in [Ends -> BOOLEAN] /\ phase' \in [Ends -> {"idle", "read", "callback"}]
        /\ need_drain_before' \in [Ends -> BOOLEAN]
        /\ DOMAIN delivered' = Ends
    BY <1>1, <1>5 DEF Shapes
  <2>5. written' \in [Ends -> Nat] /\ \A f \in Ends : written'[f] <= MaxBytes[f]
    BY <1>1, <1>5, <1>7 DEF Shapes
  <2> QED BY <1>3, <2>1, <2>3, <2>4, <2>5, ShapesKept
<1>14. /\ kcp'[d] = kcp[d] /\ written'[d] = written[d] /\ delivered'[d] = delivered[d]
       /\ phase'[d] = phase[d] /\ closed'[d] = closed[d]
  <2> HIDE DEF after
  <2> QED BY <1>1, <1>3, <1>4, <1>5 DEF Shapes
<1> QED BY <1>12, <1>13, <1>14, EndActs

-------------------------------------------------------------------------------
(* The invariant.                                                          *)

LEMMA StepJoins ==
    ASSUME SessionInv, [Next]_vars
    PROVE  SessionInv'
<1>1. callbacks \in [Ends -> SUBSET {"write_complete", "high_water_mark"}]
  BY DEF SessionInv, Shapes
<1>2. ASSUME NEW p \in net, ProcessPacket(p) PROVE SessionInv'
  BY <1>2, ProcessPacketJoins
<1>3. ASSUME NEW p \in net, NetworkLoses(p) PROVE SessionInv'
  <2>1. net' \subseteq net /\ UNCHANGED <<kcp, closed, phase, need_drain_before, written, delivered>>
        /\ UNCHANGED callbacks
    BY <1>3 DEF NetworkLoses, LosePacket, sessionVars
  <2> QED BY <1>1, <2>1, NothingMoves
<1>4. ASSUME NEW e \in Ends, UserStep(e) PROVE SessionInv'
  <2>1. ASSUME NEW len \in 1..MaxBytes[e], Write(e, len) PROVE SessionInv'
    BY <2>1, WriteJoins
  <2>2. ASSUME NEW last_flush \in BOOLEAN, Close(e, last_flush) PROVE SessionInv'
    BY <2>2, CloseJoins
  <2> QED BY <1>4, <2>1, <2>2, Zenon DEF UserStep
<1>5. ASSUME NEW e \in Ends, LoopStep(e) PROVE SessionInv'
  <2>1. CASE OnReadEvent(e)
    BY <2>1, OnReadEventJoins
  <2>2. CASE ProcessPacketEnds(e)
    BY <2>2, ProcessPacketEndsJoins
  <2>3. CASE CloseDeadLink(e)
    <3>1. Close(e, FALSE)
      BY <2>3 DEF CloseDeadLink
    <3> QED BY <3>1, CloseJoins
  <2>4. ASSUME NEW expired, FlushState(e, expired) PROVE SessionInv'
    BY <2>4, FlushStateJoins
  <2>5. CASE CallbackRuns(e)
    <3>1. UNCHANGED <<net, kcp, closed, phase, need_drain_before, written, delivered>>
      BY <2>5 DEF CallbackRuns
    <3>2. callbacks' \in [Ends -> SUBSET {"write_complete", "high_water_mark"}]
      BY <1>1, <2>5 DEF CallbackRuns
    <3> QED BY <3>1, <3>2, NothingMoves
  <2> QED BY <1>5, <2>1, <2>2, <2>3, <2>4, <2>5, Zenon DEF LoopStep, UpdateConnectionState
<1>6. CASE UNCHANGED vars
  <2>1. net' \subseteq net /\ UNCHANGED <<kcp, closed, phase, need_drain_before, written, delivered>>
        /\ UNCHANGED callbacks
    BY <1>6 DEF vars, sessionVars
  <2> QED BY <1>1, <2>1, NothingMoves
<1> QED BY <1>2, <1>3, <1>4, <1>5, <1>6, Zenon DEF Next

\* The two control blocks of a conversation and the packets between them always fit the
\* histories of its two writers.
THEOREM ConversationsFit == Spec => []SessionInv
<1>1. Init => SessionInv
  BY InitJoins
<1>2. SessionInv /\ [Next]_vars => SessionInv'
  BY StepJoins
<1> QED BY <1>1, <1>2, PTL DEF Spec

-------------------------------------------------------------------------------
(* What the invariant says of one direction.                               *)

\* The queues fit the windows, and no more was delivered than was written.
LEMMA LinkedFits ==
    ASSUME NEW P, NEW e, NEW x, NEW y, EndOK(x), EndOK(y), Linked(P, e, x, y)
    PROVE  /\ Len(x.kcp.snd_buf) <= snd_wnd /\ Len(y.kcp.rcv_queue) <= rcv_wnd
           /\ Len(y.kcp.rcv_buf) <= rcv_wnd
           /\ Len(y.delivered) \in Nat /\ Len(y.delivered) <= x.written
<1>1. PICK h, z : Stream(x, y, h, z)
  BY Zenon DEF Linked
<1> DEFINE b == x.kcp.snd_buf
           q == y.kcp.rcv_buf
           N == Off(x.kcp.snd_nxt)
           U == Off(x.kcp.snd_una)
           R == Off(y.kcp.rcv_nxt)
           D == Read(y.kcp)
<1>2. /\ N \in Nat /\ U \in Nat /\ R \in Nat /\ R <= N /\ U <= z /\ z <= R /\ z \in Nat
      /\ N <= U + snd_wnd /\ N <= U + rcv_wnd /\ D \in Nat /\ D <= R /\ N <= h.len
  BY <1>1, StreamFacts
<1>3. x.kcp \in Block /\ y.kcp \in Block /\ x.written \in Nat
  BY DEF EndOK
<1>4. b \in Seq(SentRec) /\ q \in Seq(NumberedRec)
  BY <1>3, BlockFields
<1>5. /\ Len(b) \in Nat /\ \A i \in 1..Len(b) : Off(b[i].sn) \in Nat
      /\ Len(q) \in Nat /\ \A i \in 1..Len(q) : Off(q[i].sn) \in Nat
  <2> HIDE DEF b, q
  <2> QED BY <1>4, Numbered
<1>6. Holds(b, h, U, N) /\ Holds(q, h, R, N) /\ Len(y.kcp.rcv_queue) <= rcv_wnd /\ U <= N
  BY <1>1 DEF Stream, Sends, Receives, Collects
<1>7. Len(b) <= N - U /\ Len(q) <= N - R
  <2> HIDE DEF b, q, N, U, R
  <2> QED BY <1>2, <1>5, <1>6, HoldsFrom
<1>8. Len(b) <= snd_wnd /\ Len(q) <= rcv_wnd
  <2> HIDE DEF b, q, N, U, R
  <2> QED BY <1>2, <1>5, <1>7, Widths
<1>9. Len(y.delivered) \in Nat /\ Len(y.delivered) <= x.written
  <2>1. Cuts(h, x.written) /\ y.delivered = Run(0, h.cut[D])
    BY <1>1 DEF Stream
  <2>2. /\ h.len \in Nat /\ h.cut \in [0..h.len -> Nat] /\ h.cut[h.len] = x.written
        /\ \A a \in 0..h.len : \A c \in a..h.len : h.cut[a] + (c - a) <= h.cut[c]
    <3>1. \A a \in 0..h.len : \A c \in a..h.len : h.cut[a] + (c - a) <= h.cut[c]
      BY <2>1, CutsGrow
    <3> QED BY <2>1, <3>1 DEF Cuts
  <2> HIDE DEF D, N, R
  <2>3. D \in 0..h.len /\ h.len \in D..h.len
    BY <1>2, <2>2
  <2>4. h.cut[D] \in Nat /\ h.cut[D] <= x.written
    <3> DEFINE c == h.cut
               m == h.len
    <3>1. c[D] \in Nat /\ c[m] = x.written
      BY <2>2, <2>3
    <3>2. c[D] + (m - D) <= c[m]
      BY <2>2, <2>3
    <3>3. m \in Nat /\ D <= m
      BY <2>2, <2>3
    <3> DEFINE v == c[D]
    <3> HIDE DEF c, m, v
    <3> QED BY <1>2, <1>3, <3>1, <3>2, <3>3 DEF v, c
  <2>5. Len(Run(0, h.cut[D])) = h.cut[D]
    <3> DEFINE c == h.cut[D]
    <3>1. c \in Nat
      BY <2>4
    <3>2. 0 \in Nat /\ 0 <= c /\ c - 0 = c
      BY <3>1
    <3> HIDE DEF c
    <3>3. Len(Run(0, c)) = c - 0
      BY <3>1, <3>2, RunIs, Zenon
    <3> QED BY <3>2, <3>3, Zenon DEF c
  <2> QED BY <2>1, <2>4, <2>5
<1> QED BY <1>6, <1>8, <1>9

\* A number that the receiver r has not got is in its buffer or in that of the sender s.
Remembered(s, r, n) ==
    \/ \E i \in DOMAIN r.rcv_buf : r.rcv_buf[i].sn = Plus(r.rcv_nxt, n)
    \/ \E i \in DOMAIN s.snd_buf : s.snd_buf[i].sn = Plus(r.rcv_nxt, n)

LEMMA LinkedRemembers ==
    ASSUME NEW P, NEW e, NEW x, NEW y, EndOK(x), EndOK(y), Linked(P, e, x, y)
    PROVE  LET s == x.kcp
               r == y.kcp
               missing == _itimediff(s.snd_nxt, r.rcv_nxt)
           IN  /\ _itimediff(r.rcv_nxt, s.snd_una) >= 0 /\ missing >= 0
               /\ \A n \in 0..(missing - 1) : Remembered(s, r, n)
<1> DEFINE s == x.kcp
           r == y.kcp
           N == Off(s.snd_nxt)
           U == Off(s.snd_una)
           R == Off(r.rcv_nxt)
           missing == _itimediff(s.snd_nxt, r.rcv_nxt)
           b == s.snd_buf
           q == r.rcv_buf
<1>1. PICK h, z : Stream(x, y, h, z)
  BY Zenon DEF Linked
<1>2. /\ N \in Nat /\ U \in Nat /\ R \in Nat /\ R <= N /\ U <= z /\ z <= R /\ z \in Nat
      /\ N <= h.len /\ h.len \in Nat /\ 2 * h.len < SeqSpace
  BY <1>1, StreamFacts
<1>3. /\ s.snd_nxt \in Numbers /\ s.snd_una \in Numbers /\ r.rcv_nxt \in Numbers
      /\ b \in Seq(SentRec) /\ q \in Seq(NumberedRec)
  <2>1. s \in Block /\ r \in Block
    BY DEF EndOK
  <2> HIDE DEF s, r
  <2> QED BY <2>1, BlockFields
<1>4. Needed(s, r, z) \subseteq Offsets(b)
  BY <1>1 DEF Stream
<1>5. 2 * N < SeqSpace /\ 2 * U < SeqSpace /\ 2 * R < SeqSpace
  <2> HIDE DEF N, U, R
  <2> QED BY <1>2, Widths
<1>6. missing = N - R /\ _itimediff(r.rcv_nxt, s.snd_una) = R - U
  <2> HIDE DEF s, r
  <2> QED BY <1>3, <1>5, DiffIs
<1>7. _itimediff(r.rcv_nxt, s.snd_una) >= 0 /\ missing >= 0
  <2> HIDE DEF N, U, R, missing, s, r
  <2> QED BY <1>2, <1>6
<1>8. ASSUME NEW n \in 0..(missing - 1) PROVE Remembered(s, r, n)
  <2> DEFINE o == R + n
             sn == Plus(r.rcv_nxt, n)
  <2>1. n \in Nat /\ o \in Nat /\ o < N /\ o >= R /\ R + n < SeqSpace /\ o \in 0..(N - 1)
    <3> HIDE DEF N, R, missing
    <3> QED BY <1>2, <1>5, <1>6, <1>8, Widths
  <2>2. sn \in Numbers /\ Off(sn) = o
    <3> HIDE DEF s, r
    <3> QED BY <1>3, <2>1, OffPlus
  <2> HIDE DEF o, sn
  <2>3. CASE o \in Offsets(q)
    <3>1. PICK i \in 1..Len(q) : o = Off(q[i].sn)
      <4> HIDE DEF q
      <4> QED BY <2>3, Zenon DEF Offsets
    <3>2. q[i].sn \in Numbers
      <4> HIDE DEF q
      <4> QED BY <1>3, <3>1, Numbered
    <3>3. q[i].sn = sn
      BY <2>2, <3>1, <3>2, OffInjective
    <3>4. i \in DOMAIN q
      <4> HIDE DEF q
      <4> QED BY <1>3, <3>1
    <3> QED BY <3>3, <3>4, Zenon DEF Remembered, sn
  <2>4. CASE o \notin Offsets(q)
    <3>1. o \in Needed(s, r, z)
      <4> HIDE DEF s
      <4> QED BY <2>1, <2>4 DEF Needed
    <3>2. PICK i \in 1..Len(b) : o = Off(b[i].sn)
      <4>1. o \in Offsets(b)
        BY <1>4, <3>1
      <4> HIDE DEF b
      <4> QED BY <4>1, Zenon DEF Offsets
    <3>3. b[i].sn \in Numbers
      <4> HIDE DEF b
      <4> QED BY <1>3, <3>2, Numbered
    <3>4. b[i].sn = sn
      BY <2>2, <3>2, <3>3, OffInjective
    <3>5. i \in DOMAIN b
      <4> HIDE DEF b
      <4> QED BY <1>3, <3>2
    <3> QED BY <3>4, <3>5, Zenon DEF Remembered, sn
  <2> QED BY <2>3, <2>4
<1> QED BY <1>7, <1>8

-------------------------------------------------------------------------------
(* What the invariant says of the conversation.                            *)

LEMMA BothLinked ==
    ASSUME SessionInv, NEW e \in Ends
    PROVE  LET d == Peer(e) IN
           /\ d \in Ends /\ EndOK(View(e)) /\ EndOK(View(d)) /\ PacketsOK(net, e, d)
           /\ Linked(net, e, View(e), View(d)) /\ Linked(net, d, View(d), View(e))
           /\ View(e).kcp = kcp[e] /\ View(d).kcp = kcp[d] /\ View(d).written = written[d]
           /\ View(e).delivered = delivered[e] /\ kcp[e] \in Block
           /\ written[d] \in Nat /\ written[d] <= MaxBytes[d] /\ MaxBytes[d] \in Nat
<1>1. Peer(e) \in Ends
  BY Peers
<1>2. Joined(net, e, Peer(e), View(e), View(Peer(e)))
  BY AtEnd
<1>3. /\ View(e).kcp = kcp[e] /\ View(e).delivered = delivered[e] /\ kcp[e] \in Block
  BY AtEnd
<1>4. /\ View(Peer(e)).kcp = kcp[Peer(e)] /\ View(Peer(e)).written = written[Peer(e)]
      /\ written[Peer(e)] \in Nat /\ written[Peer(e)] <= MaxBytes[Peer(e)] /\ MaxBytes[Peer(e)] \in Nat
  BY <1>1, AtEnd
<1> QED BY <1>1, <1>2, <1>3, <1>4 DEF Joined

\* There is an end.
LEMMA SomeEnd == \E e : e \in Ends
<1>1. Cardinality({}) = 0
  BY FS_EmptySet
<1>2. Ends # {}
  BY <1>1, SessionAssumption
<1> QED BY <1>2

LEMMA TypesFollow ==
    ASSUME SessionInv
    PROVE  TypeOK
<1>1. \A p \in net : p.to \in Ends /\ p.segs # <<>>
  <2>1. PICK e : e \in Ends
    BY SomeEnd
  <2>2. PacketsOK(net, e, Peer(e)) /\ Peer(e) \in Ends
    BY <2>1, BothLinked
  <2> QED BY <2>1, <2>2 DEF PacketsOK
<1>2. ASSUME NEW e \in Ends PROVE ControlBlockOK(kcp[e])
  <2> DEFINE k == kcp[e]
             b == k.snd_buf
  <2>1. k \in Block /\ EndOK(View(e)) /\ View(e).kcp = k
    BY BothLinked
  <2>2. \A i \in 1..Len(b) : b[i].xmit > 0
    BY <2>1 DEF EndOK
  <2> HIDE DEF k
  <2>3. /\ k.snd_una \in Numbers /\ k.snd_nxt \in Numbers /\ k.rcv_nxt \in Numbers
        /\ k.rmt_wnd \in 1..rcv_wnd /\ b \in Seq(SentRec)
        /\ k.ask_tell \in BOOLEAN /\ k.probe_wait \in BOOLEAN /\ k.dead \in BOOLEAN
    BY <2>1, BlockFields
  <2>4. \A i \in DOMAIN b : b[i].xmit \in 1..dead_link
    <3> HIDE DEF b
    <3>1. DOMAIN b = 1..Len(b) /\ \A i \in 1..Len(b) : b[i] \in SentRec
      BY <2>3
    <3>2. \A i \in 1..Len(b) : b[i].xmit \in 0..dead_link
      BY <3>1 DEF SentRec
    <3> QED BY <2>2, <3>1, <3>2, Widths
  <2>5. k.rmt_wnd \in 0..rcv_wnd
    BY <2>3, Widths
  <2>6. {k.snd_una, k.snd_nxt, k.rcv_nxt} \subseteq SeqNumbers
    BY <2>3 DEF SeqNumbers, Numbers
  <2>7. {k.ask_tell, k.probe_wait, k.dead} \subseteq BOOLEAN
    BY <2>3
  <2>8. ControlBlockOK(k)
    BY <2>4, <2>5, <2>6, <2>7 DEF ControlBlockOK
  <2> QED BY <2>8 DEF k
<1>3. ASSUME NEW e \in Ends PROVE Len(delivered[e]) <= MaxBytes[Peer(e)]
  <2> DEFINE d == Peer(e)
  <2>1. /\ EndOK(View(e)) /\ EndOK(View(d)) /\ Linked(net, d, View(d), View(e))
        /\ View(e).delivered = delivered[e] /\ View(d).written = written[d]
        /\ written[d] <= MaxBytes[d] /\ written[d] \in Nat /\ MaxBytes[d] \in Nat
    BY BothLinked
  <2>2. Len(View(e).delivered) <= View(d).written /\ Len(View(e).delivered) \in Nat
    BY <2>1, LinkedFits
  <2> DEFINE m == Len(delivered[e])
  <2>3. m <= written[d] /\ m \in Nat
    BY <2>1, <2>2
  <2> HIDE DEF m, d
  <2>4. m <= MaxBytes[d]
    BY <2>1, <2>3
  <2> QED BY <2>4 DEF m, d
<1>4. /\ closed \in [Ends -> BOOLEAN] /\ phase \in [Ends -> {"idle", "read", "callback"}]
      /\ need_drain_before \in [Ends -> BOOLEAN]
      /\ callbacks \in [Ends -> SUBSET {"write_complete", "high_water_mark"}]
      /\ \A e \in Ends : written[e] \in 0..MaxBytes[e]
  BY SessionAssumption DEF SessionInv, Shapes
<1> QED BY <1>1, <1>2, <1>3, <1>4 DEF TypeOK

LEMMA QueuesFit ==
    ASSUME SessionInv
    PROVE  QueuesWithinWindows
<1>1. ASSUME NEW e \in Ends
      PROVE  /\ Len(kcp[e].snd_buf) <= snd_wnd /\ Len(kcp[e].rcv_queue) <= rcv_wnd
             /\ Len(kcp[e].rcv_buf) <= rcv_wnd
  <2> DEFINE d == Peer(e)
             x == View(e)
             y == View(d)
  <2>1. /\ EndOK(x) /\ EndOK(y) /\ Linked(net, e, x, y) /\ Linked(net, d, y, x) /\ x.kcp = kcp[e]
    BY BothLinked
  <2> HIDE DEF x, y, d
  <2>2. Len(x.kcp.snd_buf) <= snd_wnd
    BY <2>1, LinkedFits
  <2>3. Len(x.kcp.rcv_queue) <= rcv_wnd /\ Len(x.kcp.rcv_buf) <= rcv_wnd
    BY <2>1, LinkedFits
  <2> QED BY <2>1, <2>2, <2>3
<1> QED BY <1>1 DEF QueuesWithinWindows

LEMMA WindowsOpen ==
    ASSUME SessionInv
    PROVE  WindowNeverCloses
<1>1. ASSUME NEW e \in Ends PROVE kcp[e].rmt_wnd > 0
  <2>1. kcp[e] \in Block
    BY BothLinked
  <2>2. kcp[e].rmt_wnd \in 1..rcv_wnd
    BY <2>1, BlockFields
  <2> QED BY <2>2, Widths
<1>2. ASSUME NEW p \in net, NEW i \in DOMAIN p.segs PROVE p.segs[i].wnd > 0
  <2>1. PICK e : e \in Ends
    BY SomeEnd
  <2>2. PacketsOK(net, e, Peer(e))
    BY <2>1, BothLinked
  <2>3. p.segs \in Seq(SegmentRec)
    BY <2>2 DEF PacketsOK
  <2>4. p.segs[i] \in SegmentRec
    BY <2>3
  <2>5. p.segs[i].wnd \in 1..rcv_wnd
    BY <2>4 DEF SegmentRec
  <2> QED BY <2>5, Widths
<1> QED BY <1>1, <1>2 DEF WindowNeverCloses

LEMMA AllRemembered ==
    ASSUME SessionInv
    PROVE  NoSegmentForgotten
<1>1. ASSUME NEW e \in Ends
      PROVE  LET s == kcp[e]
                 r == kcp[Peer(e)]
                 missing == _itimediff(s.snd_nxt, r.rcv_nxt)
             IN  /\ _itimediff(r.rcv_nxt, s.snd_una) >= 0 /\ missing >= 0
                 /\ \A n \in 0..(missing - 1) : Remembered(s, r, n)
  <2> DEFINE x == View(e)
             y == View(Peer(e))
  <2>1. /\ EndOK(x) /\ EndOK(y) /\ Linked(net, e, x, y) /\ x.kcp = kcp[e] /\ y.kcp = kcp[Peer(e)]
    BY BothLinked
  <2> HIDE DEF x, y
  <2> QED BY <2>1, LinkedRemembers
<1> QED BY <1>1, Zenon DEF NoSegmentForgotten, Remembered

\* The types of both sessions and of the packets between them: the numbers stay in
\* 0..SeqSpace-1, xmit in 1..dead_link, and no end has read more than the bound of its
\* peer.
THEOREM SessionTypes == Spec => []TypeOK
BY ConversationsFit, TypesFollow, PTL

\* For every window size: snd_buf stays within the send window, rcv_queue and rcv_buf
\* within the receive window, whatever the network does to the packets.
THEOREM QueuesStayWithinWindows == Spec => []QueuesWithinWindows
BY ConversationsFit, QueuesFit, PTL

\* No session ever advertises a receive window of zero: ikcp_recv empties rcv_queue before
\* the next ikcp_flush, and an incomplete message is shorter than IKCP_WND_RCV.
THEOREM WindowsStayOpen == Spec => []WindowNeverCloses
BY ConversationsFit, WindowsOpen, PTL

\* ikcp_parse_una and ikcp_parse_ack never drop a segment that the receiver has not got:
\* the acks and una that the packets in flight carry, however old, stand for segments that
\* have arrived.
THEOREM NoneForgotten == Spec => []NoSegmentForgotten
BY ConversationsFit, AllRemembered, PTL

-------------------------------------------------------------------------------
(* The refinement of ByteStream.                                           *)

\* The stream of the bytes 1..n.
LEMMA Whole ==
    ASSUME NEW n \in Nat
    PROVE  /\ Run(0, n) = [i \in 1..n |-> i] /\ Len([i \in 1..n |-> i]) = n
           /\ Run(0, n) \in Seq(Nat)
<1>1. Run(0, n) = [i \in 1..n |-> i]
  BY DEF Run
<1>2. Run(0, n) \in Seq(Nat) /\ Len(Run(0, n)) = n
  BY RunIs
<1> QED BY <1>1, <1>2

\* WriteInLoopThread appends its bytes to the stream of its end.
LEMMA WriteAppends ==
    ASSUME SessionInv, NEW e \in Ends, NEW len \in 1..MaxBytes[e], Write(e, len)
    PROVE  Streams!Write(e)
<1>1. /\ written[e] + len <= MaxBytes[e] /\ written' = [written EXCEPT ![e] = @ + len]
      /\ UNCHANGED delivered
  BY DEF Write
<1>2. written \in [Ends -> Nat] /\ MaxBytes[e] \in Nat
  BY SessionAssumption DEF SessionInv, Shapes
<1> DEFINE Sent(n) == [i \in 1..n |-> i]
           more == [i \in 1..len |-> Len(Sent(written[e])) + i]
           sent == [f \in Ends |-> Sent(written[f])]
           sent2 == [f \in Ends |-> Sent(written'[f])]
<1>3. written[e] \in Nat /\ len \in Nat /\ written[e] + len \in Nat
  BY <1>2
<1>4. Len(Sent(written[e])) = written[e]
  <2> DEFINE w == written[e]
  <2>1. w \in Nat
    BY <1>3
  <2> HIDE DEF w
  <2>2. Len(Sent(w)) = w
    BY <2>1, Whole
  <2> QED BY <2>2 DEF w
<1>5. len \in 1..(MaxBytes[e] - Len(sent[e]))
  <2>1. sent[e] = Sent(written[e])
    OBVIOUS
  <2> HIDE DEF sent, Sent
  <2> QED BY <1>1, <1>2, <1>3, <1>4, <2>1
<1>6. Sent(written[e]) \o more = Sent(written[e] + len)
  <2> DEFINE w == written[e]
             m == w + len
  <2>1. w \in Nat /\ len \in Nat /\ m \in Nat /\ w <= m
    BY <1>3
  <2>2. more = Run(w, m)
    <3>1. m - w = len
      BY <2>1
    <3> HIDE DEF Sent, m
    <3> QED BY <1>4, <3>1 DEF Run
  <2> HIDE DEF w, m
  <2>3. Run(0, w) \o Run(w, m) = Run(0, m)
    <3>1. 0 \in Nat /\ 0 <= w
      BY <2>1
    <3> HIDE DEF more, Sent
    <3> QED BY <2>1, <3>1, RunsInARow
  <2>4. Run(0, w) = Sent(w) /\ Run(0, m) = Sent(m)
    BY <2>1, Whole
  <2> HIDE DEF more, Sent
  <2>5. Sent(w) \o more = Sent(m)
    BY <2>2, <2>3, <2>4
  <2> QED BY <2>5 DEF w, m
<1>7. sent2 = [sent EXCEPT ![e] = @ \o more]
  <2>1. \A f \in Ends : sent2[f] = IF f = e THEN Sent(written[e] + len) ELSE Sent(written[f])
    <3> HIDE DEF Sent
    <3> QED BY <1>1, <1>2
  <2>2. sent[e] = Sent(written[e]) /\ \A f \in Ends : sent[f] = Sent(written[f])
    OBVIOUS
  <2>3. DOMAIN sent = Ends /\ DOMAIN sent2 = Ends
    OBVIOUS
  <2> HIDE DEF Sent, more
  <2> QED BY <1>6, <2>1, <2>2, <2>3
<1>8. sent[e] = Sent(written[e])
  OBVIOUS
<1>9. \E n \in 1..(MaxBytes[e] - Len(sent[e])) :
         /\ sent2 = [sent EXCEPT ![e] = @ \o [i \in 1..n |-> Len(@) + i]]
         /\ UNCHANGED [f \in Ends |-> delivered[Peer(f)]]
  <2>1. UNCHANGED [f \in Ends |-> delivered[Peer(f)]]
    BY <1>1
  <2>2. [sent EXCEPT ![e] = @ \o more] = [sent EXCEPT ![e] = @ \o [i \in 1..len |-> Len(@) + i]]
    <3> HIDE DEF sent, Sent
    <3> QED BY <1>8 DEF more
  <2> HIDE DEF sent, sent2, more
  <2> QED BY <1>5, <1>7, <2>1, <2>2
<1> QED BY <1>9 DEF Streams!Write

\* A message callback gets the next bytes of the peer's stream.
LEMMA ReadEventReads ==
    ASSUME SessionInv, NEW e \in Ends, OnReadEvent(e)
    PROVE  Streams!Read(Peer(e))
<1> DEFINE d == Peer(e)
           Sent(n) == [i \in 1..n |-> i]
           sent == [f \in Ends |-> Sent(written[f])]
           received == [f \in Ends |-> delivered[Peer(f)]]
           received2 == [f \in Ends |-> delivered'[Peer(f)]]
<1>1. /\ delivered' = [delivered EXCEPT ![e] = @ \o ikcp_recv_data(kcp[e])] /\ UNCHANGED written
  BY DEF OnReadEvent
<1>2. d \in Ends /\ Peer(d) = e /\ \A f \in Ends : f = e \/ f = d
  BY Peers
<1>3. PICK c, c2 : ReadsOn(View(e), View(d), c, c2)
  BY OnReadEventJoins
<1>4. /\ c \in Nat /\ c2 \in Nat /\ c < c2 /\ c2 <= written[d]
      /\ delivered[e] = Run(0, c) /\ delivered[e] \o ikcp_recv_data(kcp[e]) = Run(0, c2)
  BY <1>3 DEF ReadsOn, View
<1>5. DOMAIN delivered = Ends /\ written[d] \in Nat
  BY <1>2 DEF SessionInv, Shapes
<1>6. received[d] = Run(0, c) /\ Len(received[d]) = c
  <2>1. received[d] = Run(0, c)
    BY <1>2, <1>4
  <2> HIDE DEF received
  <2> QED BY <1>4, <2>1, Whole
<1>7. sent[d] = Run(0, written[d]) /\ Len(sent[d]) = written[d]
  <2> DEFINE w == written[d]
  <2>1. w \in Nat /\ sent[d] = Sent(w)
    BY <1>2, <1>5
  <2> HIDE DEF w, sent
  <2>2. sent[d] = Run(0, w) /\ Len(sent[d]) = w
    BY <2>1, Whole
  <2> QED BY <2>2 DEF w
<1>8. SubSeq(sent[d], 1, c2) = Run(0, c2)
  <2> DEFINE w == written[d]
  <2>1. w \in Nat /\ c2 \in 0..(w - 0) /\ 0 + c2 = c2 /\ sent[d] = Run(0, w)
    BY <1>4, <1>5, <1>7
  <2> HIDE DEF w, sent
  <2> QED BY <2>1, RunCut
<1>9. received2 = [received EXCEPT ![d] = SubSeq(sent[d], 1, c2)]
  <2> HIDE DEF sent, d
  <2>1. received2[d] = Run(0, c2)
    BY <1>1, <1>2, <1>4, <1>5
  <2>2. \A f \in Ends : f # d => received2[f] = received[f]
    <3>1. \A f \in Ends : f # d => Peer(f) # e
      BY <1>2, Peers
    <3> QED BY <1>1, <1>5, <3>1
  <2>3. DOMAIN received2 = Ends /\ DOMAIN received = Ends
    OBVIOUS
  <2>4. received2 = [f \in Ends |-> received2[f]]
    OBVIOUS
  <2> HIDE DEF received, received2
  <2> QED BY <1>2, <1>8, <2>1, <2>2, <2>3, <2>4
<1>10. c2 \in (Len(received[d]) + 1)..Len(sent[d])
  <2> HIDE DEF received, sent
  <2> QED BY <1>4, <1>5, <1>6, <1>7
<1>11. \E n \in (Len(received[d]) + 1)..Len(sent[d]) :
          /\ received2 = [received EXCEPT ![d] = SubSeq(sent[d], 1, n)]
          /\ UNCHANGED [f \in Ends |-> Sent(written[f])]
  <2>1. UNCHANGED [f \in Ends |-> Sent(written[f])]
    BY <1>1
  <2> HIDE DEF received, received2, sent
  <2> QED BY <1>9, <1>10, <2>1
<1> QED BY <1>11 DEF Streams!Read

\* Each direction of a conversation implements a byte stream, for any windows, segment
\* size and point where the numbering wraps, and whatever packets are lost, repeated,
\* delayed or reordered: what the message callback gets are the next bytes that the other
\* end has written.
THEOREM StreamsImplemented == Spec => StreamsAreImplemented
<1>1. Init => Streams!Init
  <2> SUFFICES ASSUME Init PROVE Streams!Init
    OBVIOUS
  <2>1. written = [e \in Ends |-> 0] /\ delivered = [e \in Ends |-> <<>>]
    BY DEF Init
  <2>2. [e \in Ends |-> [i \in 1..written[e] |-> i]] = [e \in Ends |-> <<>>]
    <3>1. ASSUME NEW e \in Ends PROVE [i \in 1..written[e] |-> i] = <<>>
      <4>1. written[e] = 0
        BY <2>1
      <4>2. Run(0, 0) = [i \in 1..0 |-> i] /\ Len([i \in 1..0 |-> i]) = 0 /\ Run(0, 0) \in Seq(Nat)
        BY Whole
      <4> QED BY <4>1, <4>2, EmptySeq
    <3> QED BY <3>1
  <2>3. [e \in Ends |-> delivered[Peer(e)]] = [e \in Ends |-> <<>>]
    BY <2>1, Peers
  <2> QED BY <2>2, <2>3 DEF Streams!Init
<1>2. SessionInv /\ [Next]_vars => [Streams!Next]_(Streams!streamVars)
  <2> SUFFICES ASSUME SessionInv, [Next]_vars PROVE [Streams!Next]_(Streams!streamVars)
    OBVIOUS
  <2>1. ASSUME NEW e \in Ends, Streams!Write(e) \/ Streams!Read(e)
        PROVE  [Streams!Next]_(Streams!streamVars)
    BY <2>1 DEF Streams!Next
  <2>2. ASSUME UNCHANGED <<written, delivered>> PROVE [Streams!Next]_(Streams!streamVars)
    BY <2>2 DEF Streams!streamVars
  <2>3. ASSUME NEW p \in net, ProcessPacket(p) \/ NetworkLoses(p) PROVE UNCHANGED <<written, delivered>>
    BY <2>3 DEF ProcessPacket, NetworkLoses, sessionVars
  <2>4. ASSUME NEW e \in Ends, UserStep(e) PROVE [Streams!Next]_(Streams!streamVars)
    <3>1. ASSUME NEW len \in 1..MaxBytes[e], Write(e, len) PROVE [Streams!Next]_(Streams!streamVars)
      BY <2>1, <3>1, WriteAppends
    <3>2. ASSUME NEW last_flush \in BOOLEAN, Close(e, last_flush) PROVE UNCHANGED <<written, delivered>>
      BY <3>2 DEF Close
    <3> QED BY <2>2, <2>4, <3>1, <3>2, Zenon DEF UserStep
  <2>5. ASSUME NEW e \in Ends, LoopStep(e) PROVE [Streams!Next]_(Streams!streamVars)
    <3>1. CASE OnReadEvent(e)
      <4>1. Streams!Read(Peer(e)) /\ Peer(e) \in Ends
        BY <3>1, ReadEventReads, Peers
      <4> QED BY <2>1, <4>1
    <3>2. CASE ProcessPacketEnds(e)
      BY <2>2, <3>2 DEF ProcessPacketEnds
    <3>3. CASE UpdateConnectionState(e)
      <4>1. UNCHANGED <<written, delivered>>
        BY <3>3 DEF UpdateConnectionState, CloseDeadLink, Close, FlushState
      <4> QED BY <2>2, <4>1
    <3>4. CASE CallbackRuns(e)
      BY <2>2, <3>4 DEF CallbackRuns
    <3> QED BY <2>5, <3>1, <3>2, <3>3, <3>4 DEF LoopStep
  <2>6. CASE UNCHANGED vars
    BY <2>2, <2>6 DEF vars, sessionVars
  <2> QED BY <2>2, <2>3, <2>4, <2>5, <2>6, Zenon DEF Next
<1> QED BY <1>1, <1>2, ConversationsFit, PTL DEF Spec, StreamsAreImplemented, Streams!Spec
===============================================================================
