------------------------------ MODULE IkcpProofs ------------------------------
(***************************************************************************)
(* Facts about kcp/ikcp.c, one control block at a time: what each function *)
(* does to the half of the block that sends and to the half that receives. *)
(*                                                                         *)
(* The history h of a writer says how its stream was cut into segments:    *)
(* h.cut[a] bytes are in the first a segments, and the a-th has the        *)
(* fragment number h.frg[a].  A number is compared by its offset, how far  *)
(* it is from FirstSn.                                                     *)
(***************************************************************************)
EXTENDS Ikcp, InductionFacts, FiniteSetTheorems, SequenceTheorems

Numbers == 0..(SeqSpace - 1)

\* How far a number is from the first one.
Off(sn) == (sn - FirstSn) % SeqSpace

\* The bytes behind lo, up to hi.
Run(lo, hi) == [i \in 1..(hi - lo) |-> lo + i]

QueuedRec == [frg : Nat, data : Seq(Nat)]
NumberedRec == [sn : Numbers, frg : Nat, data : Seq(Nat)]
SentRec == [sn : Numbers, frg : Nat, data : Seq(Nat), xmit : 0..dead_link, fastack : Nat]
SegmentRec == [cmd : {"ACK", "PUSH", "WASK", "WINS"}, sn : Numbers, frg : Nat,
               data : Seq(Nat), wnd : 1..rcv_wnd, una : Numbers]
Block == [snd_una : Numbers, snd_nxt : Numbers, rcv_nxt : Numbers, rmt_wnd : 1..rcv_wnd,
          snd_queue : Seq(QueuedRec), snd_buf : Seq(SentRec), rcv_buf : Seq(NumberedRec),
          rcv_queue : Seq(QueuedRec), acklist : Seq(Numbers),
          ask_tell : BOOLEAN, probe_wait : BOOLEAN, dead : BOOLEAN]

\* h cuts the first n bytes into segments of 1..mss bytes; the fragments of a message
\* count down to 0, and fewer than IKCP_WND_RCV.
Cuts(h, n) ==
    /\ h.len \in Nat /\ h.cut \in [0..h.len -> Nat] /\ h.frg \in [1..h.len -> Nat]
    /\ h.cut[0] = 0 /\ h.cut[h.len] = n
    /\ \A a \in 1..h.len : h.cut[a] - h.cut[a - 1] \in 1..mss
    /\ \A a \in 1..h.len : h.frg[a] < IKCP_WND_RCV
    /\ \A a \in 1..h.len : h.frg[a] > 0 => a < h.len /\ h.frg[a + 1] = h.frg[a] - 1

\* Two histories with the same first m segments.
Agree(h, g, m) ==
    /\ \A a \in 0..m : g.cut[a] = h.cut[a]
    /\ \A a \in 1..m : g.frg[a] = h.frg[a]

\* s is the a-th segment of h.
IsSegment(s, h, a) == s.frg = h.frg[a] /\ s.data = Run(h.cut[a - 1], h.cut[a])

\* The offsets of the numbers in a buffer.
Offsets(buf) == {Off(buf[i].sn) : i \in 1..Len(buf)}

\* buf holds segments of h, with offsets from lo up to hi - 1, in order.
Holds(buf, h, lo, hi) ==
    /\ \A i \in 1..Len(buf) : /\ Off(buf[i].sn) >= lo /\ Off(buf[i].sn) < hi
                              /\ IsSegment(buf[i], h, Off(buf[i].sn) + 1)
    /\ \A i, j \in 1..Len(buf) : i < j => Off(buf[i].sn) < Off(buf[j].sn)

\* queue holds the segments behind the a-th.
Continues(queue, h, a) == \A i \in 1..Len(queue) : IsSegment(queue[i], h, a + i)

\* The half of a block that sends the stream of h.
Sends(k, h) ==
    /\ Off(k.snd_nxt) + Len(k.snd_queue) = h.len
    /\ Continues(k.snd_queue, h, Off(k.snd_nxt))
    /\ Holds(k.snd_buf, h, Off(k.snd_una), Off(k.snd_nxt))
    /\ Off(k.snd_una) <= Off(k.snd_nxt)
    /\ Off(k.snd_nxt) - Off(k.snd_una) <= snd_wnd
    /\ Off(k.snd_nxt) - Off(k.snd_una) <= rcv_wnd
    /\ k.snd_una = IF k.snd_buf = <<>> THEN k.snd_nxt ELSE k.snd_buf[1].sn

\* Such a half, between two flushes, that still holds the segments with the offsets in K.
Keeps(k, h, K) ==
    /\ Sends(k, h) /\ K \subseteq Offsets(k.snd_buf)
    /\ \A i \in 1..Len(k.snd_buf) : k.snd_buf[i].xmit > 0

\* b2 is b with some of its elements left out.
Thinned(b, b2) ==
    \E g \in [1..Len(b2) -> 1..Len(b)] :
        /\ \A i \in 1..Len(b2) : b2[i] = b[g[i]]
        /\ \A i, l \in 1..Len(b2) : i < l => g[i] < g[l]

\* The segment with the offset o was received.
Got(k, o) == o < Off(k.rcv_nxt) \/ o \in Offsets(k.rcv_buf)

\* How many segments were read.
Read(k) == Off(k.rcv_nxt) - Len(k.rcv_queue)

\* What a block holds of the stream of h, of which n segments are numbered.
Collects(k, h, n) ==
    /\ Off(k.rcv_nxt) <= n
    /\ Len(k.rcv_queue) <= Off(k.rcv_nxt) /\ Len(k.rcv_queue) <= rcv_wnd
    /\ Continues(k.rcv_queue, h, Read(k))
    /\ Holds(k.rcv_buf, h, Off(k.rcv_nxt), n)

\* The half of a block that receives: only a full rcv_queue keeps back what is in order.
Receives(k, h, n) ==
    /\ Collects(k, h, n)
    /\ Len(k.rcv_queue) < rcv_wnd => Off(k.rcv_nxt) \notin Offsets(k.rcv_buf)
    /\ \A i \in 1..Len(k.acklist) : Got(k, Off(k.acklist[i]))

SameSender(k, j) ==
    /\ j.snd_una = k.snd_una /\ j.snd_nxt = k.snd_nxt
    /\ j.snd_queue = k.snd_queue /\ j.snd_buf = k.snd_buf

SameReceiver(k, j) ==
    j.rcv_nxt = k.rcv_nxt /\ j.rcv_buf = k.rcv_buf /\ j.rcv_queue = k.rcv_queue

\* A segment that, if it carries data, is one of the n numbered ones of h.
PushOK(s, h, n) ==
    s.cmd = "PUSH" => Off(s.sn) < n /\ IsSegment(s, h, Off(s.sn) + 1)

\* What a block may get that sends the stream of another history, and keeps K of it.
Expected(s, h, n, K) ==
    /\ s \in SegmentRec /\ PushOK(s, h, n)
    /\ 2 * Off(s.una) < SeqSpace /\ \A o \in K : Off(s.una) <= o
    /\ s.cmd = "ACK" => Off(s.sn) \notin K

\* A block at work: it sends the stream of out and receives that of in.
Works(k, out, K, in, n) == k \in Block /\ Keeps(k, out, K) /\ Receives(k, in, n)

\* j is k after some input.
Later(k, j) ==
    /\ j.snd_nxt = k.snd_nxt /\ Read(j) = Read(k) /\ Off(k.rcv_nxt) <= Off(j.rcv_nxt)
    /\ \A o \in Nat : Got(k, o) => Got(j, o)

-------------------------------------------------------------------------------
(* 32-bit arithmetic.                                                      *)

\* A remainder, for numbers within one modulus of zero or above.
LEMMA Wrapped ==
    ASSUME NEW m \in Nat \ {0}, NEW n \in Int, n > -m, n < 2 * m
    PROVE  n % m = IF n < 0 THEN n + m ELSE IF n < m THEN n ELSE n - m
<1> DEFINE q == n \div m
           r == n % m
<1>1. q \in Int /\ r \in 0..(m - 1) /\ n = m * q + r
  OBVIOUS
<1> HIDE DEF q, r
<1>2. CASE n < 0
  <2>1. m * q + r = m * (-1) + (n + m) /\ n + m \in 0..(m - 1) /\ -1 \in Int
    BY <1>1, <1>2
  <2>2. r = n + m
    BY <1>1, <2>1, DigitsUnique
  <2> QED BY <1>2, <2>2 DEF r
<1>3. CASE ~(n < 0)
  <2>1. n \in 0..(2 * m - 1)
    BY <1>3
  <2> QED BY <1>3, <2>1, Remainder
<1> QED BY <1>2, <1>3

\* The parameters are numbers.
LEMMA Widths ==
    /\ SeqSpace \in Nat \ {0} /\ SeqSpace \in Int /\ SeqSpace > 0
    /\ FirstSn \in Numbers /\ FirstSn \in Nat /\ FirstSn < SeqSpace
    /\ mss \in Nat /\ mss > 0 /\ snd_wnd \in Nat /\ snd_wnd > 0 /\ rcv_wnd \in Nat /\ rcv_wnd > 0
    /\ IKCP_WND_RCV \in Nat /\ IKCP_WND_RCV > 0 /\ IKCP_WND_RCV <= rcv_wnd
    /\ dead_link \in Nat /\ dead_link > 0 /\ fastresend \in Nat /\ fastlimit \in Nat
BY IkcpAssumption DEF Numbers

\* The offset without the remainder.
LEMMA OffIs ==
    ASSUME NEW sn \in Numbers
    PROVE  /\ Off(sn) = IF sn < FirstSn THEN sn - FirstSn + SeqSpace ELSE sn - FirstSn
           /\ Off(sn) \in Nat /\ Off(sn) < SeqSpace
<1> DEFINE n == sn - FirstSn
<1>1. n \in Int /\ n > -SeqSpace /\ n < SeqSpace /\ (n < 0 <=> sn < FirstSn) /\ n < 2 * SeqSpace
  BY Widths DEF Numbers
<1>2. n % SeqSpace = IF n < 0 THEN n + SeqSpace ELSE IF n < SeqSpace THEN n ELSE n - SeqSpace
  <2> HIDE DEF n
  <2> QED BY <1>1, Widths, Wrapped
<1>3. Off(sn) = n % SeqSpace
  BY DEF Off
<1>4. Off(sn) = IF n < 0 THEN n + SeqSpace ELSE n
  <2> HIDE DEF n
  <2> QED BY <1>1, <1>2, <1>3
<1> QED BY <1>1, <1>4, Widths

\* An offset is a number, and the first number has the offset 0.
LEMMA OffType ==
    /\ \A sn \in Numbers : Off(sn) \in Nat /\ Off(sn) < SeqSpace
    /\ FirstSn \in Numbers /\ Off(FirstSn) = 0
<1>1. FirstSn \in Numbers
  BY Widths
<1>2. Off(FirstSn) = 0
  BY <1>1, OffIs, Widths
<1> QED BY <1>1, <1>2, OffIs

\* Numbers with one offset are one.
LEMMA OffInjective ==
    ASSUME NEW x \in Numbers, NEW y \in Numbers, Off(x) = Off(y)
    PROVE  x = y
<1> DEFINE p == Off(x)
           r == Off(y)
<1>1. /\ p = IF x < FirstSn THEN x - FirstSn + SeqSpace ELSE x - FirstSn
      /\ r = IF y < FirstSn THEN y - FirstSn + SeqSpace ELSE y - FirstSn
      /\ p \in Int /\ r \in Int
  BY OffIs
<1>2. p = r
  OBVIOUS
<1>3. x \in Int /\ y \in Int /\ 0 <= x /\ x < SeqSpace /\ 0 <= y /\ y < SeqSpace
  BY Widths DEF Numbers
<1> HIDE DEF p, r
<1> QED BY <1>1, <1>2, <1>3, Widths

\* Counting on from a number moves its offset.
LEMMA OffPlus ==
    ASSUME NEW sn \in Numbers, NEW n \in Nat, Off(sn) + n < SeqSpace
    PROVE  Plus(sn, n) \in Numbers /\ Off(Plus(sn, n)) = Off(sn) + n
<1> DEFINE t == sn + n
           p == t % SeqSpace
<1>1. Off(sn) = IF sn < FirstSn THEN sn - FirstSn + SeqSpace ELSE sn - FirstSn
  BY OffIs
<1>2. sn \in Nat /\ sn < SeqSpace /\ t \in Int /\ t > -SeqSpace /\ t < 2 * SeqSpace
  BY <1>1, Widths DEF Numbers
<1>3. p = IF t < 0 THEN t + SeqSpace ELSE IF t < SeqSpace THEN t ELSE t - SeqSpace
  <2> HIDE DEF t
  <2> QED BY <1>2, Widths, Wrapped
<1>4. Plus(sn, n) = p
  BY DEF Plus
<1>5. p \in Numbers
  <2> HIDE DEF p
  <2> QED BY <1>2, <1>3, Widths DEF Numbers
<1>6. Off(p) = IF p < FirstSn THEN p - FirstSn + SeqSpace ELSE p - FirstSn
  BY <1>5, OffIs
<1> HIDE DEF p
<1>7. Off(p) = Off(sn) + n
  BY <1>1, <1>2, <1>3, <1>6, Widths
<1> QED BY <1>4, <1>5, <1>7

\* The signed difference of two numbers in the first half of the space is that of their
\* offsets, wherever the numbers wrap.
LEMMA DiffIs ==
    ASSUME NEW x \in Numbers, NEW y \in Numbers, 2 * Off(x) < SeqSpace, 2 * Off(y) < SeqSpace
    PROVE  _itimediff(x, y) = Off(x) - Off(y)
<1> DEFINE n == x - y
           d == n % SeqSpace
<1>1. /\ Off(x) = IF x < FirstSn THEN x - FirstSn + SeqSpace ELSE x - FirstSn
      /\ Off(y) = IF y < FirstSn THEN y - FirstSn + SeqSpace ELSE y - FirstSn
  BY OffIs
<1>2. n \in Int /\ n > -SeqSpace /\ n < 2 * SeqSpace
  BY Widths DEF Numbers
<1>3. d = IF n < 0 THEN n + SeqSpace ELSE IF n < SeqSpace THEN n ELSE n - SeqSpace
  <2> HIDE DEF n
  <2> QED BY <1>2, Widths, Wrapped
<1>4. _itimediff(x, y) = IF 2 * d < SeqSpace THEN d ELSE d - SeqSpace
  BY DEF _itimediff
<1> HIDE DEF d
<1> QED BY <1>1, <1>3, <1>4, Widths DEF Numbers

-------------------------------------------------------------------------------
(* Sets and sequences.                                                     *)

\* A set of positive numbers that has every smaller one is an interval.
LEMMA FirstOnes ==
    ASSUME NEW m \in Nat, NEW S \in SUBSET (1..m), \A i \in S : \A j \in 1..i : j \in S
    PROVE  /\ Cardinality(S) \in 0..m
           /\ \A i \in 1..m : i \in S <=> i <= Cardinality(S)
<1> DEFINE T == {n \in Nat : n > 0 /\ n \notin S}
<1>1. T \in SUBSET Nat /\ m + 1 \in T
  OBVIOUS
<1>2. PICK x \in T : \A y \in T : x <= y
  <2> HIDE DEF T
  <2> QED BY <1>1, LeastNumber
<1>3. x \in Nat /\ x > 0 /\ x <= m + 1 /\ x \notin S
  BY <1>1, <1>2
<1>4. S = 1..(x - 1)
  <2>1. \A i \in S : i \in 1..(x - 1)
    BY <1>3
  <2>2. \A i \in 1..(x - 1) : i \in S
    BY <1>2, <1>3
  <2> QED BY <2>1, <2>2
<1>5. Cardinality(1..(x - 1)) = x - 1
  <2>1. 1 \in Int /\ x - 1 \in Int /\ x - 1 >= 0
    BY <1>3
  <2>2. Cardinality(1..(x - 1)) = IF 1 > x - 1 THEN 0 ELSE x - 1 - 1 + 1
    BY <2>1, FS_Interval, Zenon
  <2> QED BY <1>3, <2>2
<1> QED BY <1>3, <1>4, <1>5

\* The least of a set of numbers, and of two.
LEMMA MinIs ==
    ASSUME NEW S \in SUBSET Nat, S # {}
    PROVE  Min(S) \in S /\ \A y \in S : Min(S) <= y
<1>1. \E x \in S : \A y \in S : x <= y
  BY LeastNumber
<1> QED BY <1>1 DEF Min

LEMMA MinOfTwo ==
    ASSUME NEW a \in Int, NEW b \in Int
    PROVE  Min({a, b}) = IF a <= b THEN a ELSE b
<1>1. \E x \in {a, b} : \A y \in {a, b} : x <= y
  OBVIOUS
<1>2. Min({a, b}) \in {a, b} /\ \A y \in {a, b} : Min({a, b}) <= y
  BY <1>1 DEF Min
<1> QED BY <1>2

\* The greatest of a set of bounded numbers.
LEMMA MaxIs ==
    ASSUME NEW m \in Nat, NEW S \in SUBSET (1..m), S # {}
    PROVE  Max(S) \in S /\ \A y \in S : Max(S) >= y
<1> DEFINE T == {n \in Nat : n <= m /\ m - n \in S}
<1>1. T \in SUBSET Nat
  OBVIOUS
<1>2. T # {}
  <2>1. PICK s \in S : TRUE
    OBVIOUS
  <2>2. m - s \in Nat /\ m - s <= m /\ m - (m - s) = s
    BY <2>1
  <2>3. m - s \in T
    BY <2>1, <2>2
  <2> QED BY <2>3
<1>3. PICK x \in T : \A y \in T : x <= y
  <2> HIDE DEF T
  <2> QED BY <1>1, <1>2, LeastNumber
<1>4. m - x \in S
  OBVIOUS
<1>5. ASSUME NEW y \in S PROVE m - x >= y
  <2>1. m - y \in Nat /\ m - y <= m /\ m - (m - y) = y
    OBVIOUS
  <2>2. m - y \in T
    BY <2>1
  <2> QED BY <1>3, <2>1, <2>2
<1>6. \E z \in S : \A y \in S : z >= y
  BY <1>4, <1>5
<1> QED BY <1>6 DEF Max

\* What is left behind the first n elements.
LEMMA DropIs ==
    ASSUME NEW S, NEW s \in Seq(S), NEW n \in 0..Len(s)
    PROVE  /\ Drop(s, n) \in Seq(S) /\ Len(Drop(s, n)) = Len(s) - n
           /\ \A i \in 1..(Len(s) - n) : Drop(s, n)[i] = s[n + i]
BY DEF Drop

\* A sequence without its i-th element.
LEMMA RemoveIs ==
    ASSUME NEW S, NEW s \in Seq(S), NEW n \in 1..Len(s)
    PROVE  /\ RemoveAt(s, n) \in Seq(S) /\ Len(RemoveAt(s, n)) = Len(s) - 1
           /\ \A i \in 1..(Len(s) - 1) : RemoveAt(s, n)[i] = IF i < n THEN s[i] ELSE s[i + 1]
<1> DEFINE x == SubSeq(s, 1, n - 1)
           y == SubSeq(s, n + 1, Len(s))
<1>1. /\ x \in Seq(S) /\ Len(x) = n - 1 /\ \A i \in 1..(n - 1) : x[i] = s[i]
      /\ y \in Seq(S) /\ Len(y) = Len(s) - n /\ \A i \in 1..(Len(s) - n) : y[i] = s[n + i]
  OBVIOUS
<1>2. RemoveAt(s, n) = x \o y
  BY DEF RemoveAt
<1> HIDE DEF x, y
<1>3. /\ x \o y \in Seq(S) /\ Len(x \o y) = Len(s) - 1
  BY <1>1
<1>4. ASSUME NEW i \in 1..(Len(s) - 1) PROVE (x \o y)[i] = IF i < n THEN s[i] ELSE s[i + 1]
  <2>1. CASE i < n
    BY <1>1, <2>1
  <2>2. CASE ~(i < n)
    <3>1. (x \o y)[i] = y[i - (n - 1)]
      BY <1>1, <2>2
    <3>2. i - (n - 1) \in 1..(Len(s) - n) /\ n + (i - (n - 1)) = i + 1
      BY <2>2
    <3> QED BY <1>1, <2>2, <3>1, <3>2
  <2> QED BY <2>1, <2>2
<1> QED BY <1>2, <1>3, <1>4

\* A sequence with an element put in as its n-th.
LEMMA InsertIs ==
    ASSUME NEW S, NEW s \in Seq(S), NEW n \in 1..(Len(s) + 1), NEW e \in S
    PROVE  /\ InsertAt(s, n, e) \in Seq(S) /\ Len(InsertAt(s, n, e)) = Len(s) + 1
           /\ \A i \in 1..(Len(s) + 1) :
                  InsertAt(s, n, e)[i] = IF i < n THEN s[i] ELSE IF i = n THEN e ELSE s[i - 1]
<1> DEFINE x == SubSeq(s, 1, n - 1)
           y == SubSeq(s, n, Len(s))
           u == x \o <<e>>
<1>1. /\ x \in Seq(S) /\ Len(x) = n - 1 /\ \A i \in 1..(n - 1) : x[i] = s[i]
      /\ y \in Seq(S) /\ Len(y) = Len(s) - n + 1 /\ \A i \in 1..(Len(s) - n + 1) : y[i] = s[n + i - 1]
  <2>1. x \in Seq(S) /\ Len(x) = n - 1 /\ \A i \in 1..(n - 1) : x[i] = s[i]
    OBVIOUS
  <2>2. y \in Seq(S) /\ Len(y) = Len(s) - n + 1 /\ \A i \in 1..(Len(s) - n + 1) : y[i] = s[n + i - 1]
    OBVIOUS
  <2> QED BY <2>1, <2>2
<1>2. InsertAt(s, n, e) = u \o y
  BY DEF InsertAt
<1>3. u \in Seq(S) /\ Len(u) = n /\ u[n] = e /\ \A i \in 1..(n - 1) : u[i] = s[i]
  <2> HIDE DEF x
  <2> QED BY <1>1
<1> HIDE DEF x, y, u
<1>4. /\ u \o y \in Seq(S) /\ Len(u \o y) = Len(s) + 1
  <2>0. u \in Seq(S) /\ y \in Seq(S)
    BY <1>1, <1>3
  <2>1. u \o y \in Seq(S) /\ Len(u \o y) = Len(u) + Len(y)
    BY <2>0
  <2>2. n + (Len(s) - n + 1) = Len(s) + 1
    OBVIOUS
  <2> QED BY <1>1, <1>3, <2>1, <2>2
<1>5. ASSUME NEW i \in 1..(Len(s) + 1)
      PROVE  (u \o y)[i] = IF i < n THEN s[i] ELSE IF i = n THEN e ELSE s[i - 1]
  <2>1. CASE i <= n
    <3>1. (u \o y)[i] = u[i]
      BY <1>1, <1>3, <2>1
    <3> QED BY <1>3, <2>1, <3>1
  <2>2. CASE ~(i <= n)
    <3>1. (u \o y)[i] = y[i - n]
      BY <1>1, <1>3, <2>2, SMTT(20)
    <3>2. i - n \in 1..(Len(s) - n + 1) /\ n + (i - n) - 1 = i - 1
      BY <2>2
    <3> QED BY <1>1, <2>2, <3>1, <3>2, SMTT(20)
  <2> QED BY <2>1, <2>2
<1> QED BY <1>2, <1>4, <1>5

\* The recursion in FlattenSeq: f[n] is the first n sequences put together.
LEMMA Flattens ==
    ASSUME NEW S, NEW q \in Seq(Seq(S)), Len(q) > 0
    PROVE  \E f \in [1..Len(q) -> Seq(S)] :
               /\ f[1] = q[1] /\ \A n \in 2..Len(q) : f[n] = f[n - 1] \o q[n]
               /\ FlattenSeq(q) = f[Len(q)]
<1> DEFINE m == Len(q)
           F == [n \in 1..m |-> [x \in Seq(S) |-> x \o q[n]]]
           Def(f) == [i \in 1..m |-> IF i = 1 THEN q[i] ELSE f[i - 1] \o q[i]]
<1>1. m \in Nat /\ m > 0 /\ \A n \in 1..m : q[n] \in Seq(S)
  OBVIOUS
<1>2. F \in [1..m -> [Seq(S) -> Seq(S)]] /\ <<>> \in Seq(S)
  BY <1>1
<1>3. PICK g \in [0..m -> Seq(S)] : g[0] = <<>> /\ \A n \in 1..m : g[n] = F[n][g[n - 1]]
  <2> HIDE DEF m, F
  <2>1. Solvable(m, Seq(S), <<>>, F)
    BY <1>1, <1>2, RecursionExists
  <2> QED BY <2>1, Zenon DEF Solvable
<1>4. \A n \in 1..m : g[n] = g[n - 1] \o q[n]
  <2>1. ASSUME NEW n \in 1..m PROVE g[n - 1] \in Seq(S)
    <3> HIDE DEF m, F
    <3>1. n - 1 \in 0..m
      BY <1>1
    <3> QED BY <3>1
  <2>2. \A n \in 1..m, x \in Seq(S) : F[n][x] = x \o q[n]
    OBVIOUS
  <2> HIDE DEF F
  <2> QED BY <1>3, <2>1, <2>2
<1>5. g[1] = q[1]
  <2> HIDE DEF m, F
  <2>0. 1 \in 1..m /\ 1 - 1 = 0
    BY <1>1
  <2>1. g[1] = g[0] \o q[1] /\ q[1] \in Seq(S)
    BY <1>1, <1>4, <2>0
  <2> QED BY <1>3, <2>1
<1> DEFINE f == [n \in 1..m |-> g[n]]
<1>6. f = Def(f)
  <2>1. \A i \in 1..m : f[i] = IF i = 1 THEN q[i] ELSE f[i - 1] \o q[i]
    <3> SUFFICES ASSUME NEW i \in 1..m PROVE f[i] = IF i = 1 THEN q[i] ELSE f[i - 1] \o q[i]
      OBVIOUS
    <3>1. CASE i = 1
      BY <1>5, <3>1
    <3>2. CASE i # 1
      <4>1. i - 1 \in 1..m
        BY <1>1, <3>2
      <4>2. f[i - 1] = g[i - 1] /\ f[i] = g[i]
        BY <4>1
      <4> QED BY <1>4, <3>2, <4>2
    <3> QED BY <3>1, <3>2
  <2> HIDE DEF m
  <2> QED BY <2>1
<1> HIDE DEF F
<1> DEFINE h == CHOOSE d : d = Def(d)
<1>7. h = Def(h)
  <2> HIDE DEF Def
  <2> QED BY <1>6, Zenon
<1>8. FlattenSeq(q) = h[m]
  <2>1. ~(Len(q) = 0)
    OBVIOUS
  <2> QED BY <2>1, Zenon DEF FlattenSeq
<1> HIDE DEF h, f
<1>9. \A n \in 1..m : h[n] = IF n = 1 THEN q[n] ELSE h[n - 1] \o q[n]
  <2> HIDE DEF m
  <2> QED BY <1>7
<1>10. \A n \in 1..m : h[n] \in Seq(S)
  <2> DEFINE A == {n \in Nat : n + 1 <= m => h[n + 1] \in Seq(S)}
  <2>1. 0 \in A
    BY <1>1, <1>9, SMTT(20)
  <2>2. ASSUME NEW n \in Nat, n \in A PROVE n + 1 \in A
    <3> SUFFICES ASSUME n + 1 + 1 <= m PROVE h[n + 1 + 1] \in Seq(S)
      OBVIOUS
    <3>1. n + 1 \in 1..m /\ n + 1 + 1 \in 1..m /\ n + 1 + 1 # 1 /\ n + 1 + 1 - 1 = n + 1
      BY <1>1
    <3>2. h[n + 1] \in Seq(S) /\ q[n + 1 + 1] \in Seq(S)
      BY <1>1, <2>2, <3>1
    <3>3. h[n + 1 + 1] = h[n + 1] \o q[n + 1 + 1]
      <4> DEFINE k == n + 1 + 1
      <4>1. k \in 1..m /\ k # 1 /\ k - 1 = n + 1
        BY <3>1
      <4> HIDE DEF k
      <4>2. h[k] = h[k - 1] \o q[k]
        BY <1>9, <4>1
      <4> QED BY <4>1, <4>2 DEF k
    <3> QED BY <3>2, <3>3
  <2>3. \A n \in Nat : n \in A
    <3> HIDE DEF A
    <3> QED BY <2>1, <2>2, SetInduction
  <2>4. ASSUME NEW n \in 1..m PROVE h[n] \in Seq(S)
    <3>1. n - 1 \in Nat /\ n - 1 + 1 = n /\ n <= m
      BY <1>1
    <3>2. n - 1 \in A
      BY <2>3, <3>1
    <3> QED BY <3>1, <3>2
  <2> QED BY <2>4
<1> DEFINE e == [n \in 1..m |-> h[n]]
<1>11. e \in [1..m -> Seq(S)]
  BY <1>10
<1>12. e[1] = q[1] /\ \A n \in 2..m : e[n] = e[n - 1] \o q[n]
  <2>1. e[1] = q[1]
    <3>1. 1 \in 1..m
      BY <1>1
    <3> HIDE DEF m
    <3> QED BY <1>9, <3>1
  <2>2. ASSUME NEW n \in 2..m PROVE e[n] = e[n - 1] \o q[n]
    <3>1. n \in 1..m /\ n - 1 \in 1..m /\ n # 1
      BY <1>1
    <3> QED BY <1>9, <3>1
  <2> QED BY <2>1, <2>2
<1>13. FlattenSeq(q) = e[m]
  BY <1>1, <1>8
<1> HIDE DEF e
<1> QED BY <1>11, <1>12, <1>13

\* Sequences over S put together are a sequence over S.
LEMMA FlattenType ==
    ASSUME NEW S, NEW q \in Seq(Seq(S))
    PROVE  FlattenSeq(q) \in Seq(S)
<1>1. CASE Len(q) = 0
  <2>1. FlattenSeq(q) = q
    BY <1>1, Zenon DEF FlattenSeq
  <2>2. q = <<>>
    BY <1>1
  <2> QED BY <2>1, <2>2
<1>2. CASE Len(q) # 0
  <2>1. Len(q) > 0 /\ Len(q) \in 1..Len(q)
    BY <1>2
  <2>2. PICK f \in [1..Len(q) -> Seq(S)] : FlattenSeq(q) = f[Len(q)]
    BY <2>1, Flattens
  <2> QED BY <2>1, <2>2
<1> QED BY <1>1, <1>2

-------------------------------------------------------------------------------
(* Histories.                                                              *)

\* A run of bytes.
LEMMA RunIs ==
    ASSUME NEW lo \in Nat, NEW hi \in Nat, lo <= hi
    PROVE  /\ Run(lo, hi) \in Seq(Nat) /\ Len(Run(lo, hi)) = hi - lo
           /\ \A i \in 1..(hi - lo) : Run(lo, hi)[i] = lo + i
<1>1. hi - lo \in Nat
  OBVIOUS
<1>2. \A i \in 1..(hi - lo) : lo + i \in Nat
  OBVIOUS
<1> QED BY <1>1, <1>2 DEF Run

\* What has the length and the elements of a run is the run.
LEMMA IsRun ==
    ASSUME NEW lo \in Nat, NEW hi \in Nat, lo <= hi, NEW s \in Seq(Nat), Len(s) = hi - lo,
           \A i \in 1..(hi - lo) : s[i] = lo + i
    PROVE  s = Run(lo, hi)
<1> DEFINE r == Run(lo, hi)
           m == hi - lo
<1>1. r \in Seq(Nat) /\ Len(r) = m /\ \A i \in 1..m : r[i] = lo + i
  BY RunIs
<1>2. \A i \in 1..m : s[i] = r[i]
  BY <1>1
<1> HIDE DEF r
<1> QED BY <1>1, <1>2, SeqEqual DEF r

\* Runs in a row.
LEMMA RunsInARow ==
    ASSUME NEW a \in Nat, NEW b \in Nat, NEW c \in Nat, a <= b, b <= c
    PROVE  Run(a, b) \o Run(b, c) = Run(a, c)
<1> DEFINE x == Run(a, b)
           y == Run(b, c)
<1>1. /\ x \in Seq(Nat) /\ Len(x) = b - a /\ \A i \in 1..(b - a) : x[i] = a + i
      /\ y \in Seq(Nat) /\ Len(y) = c - b /\ \A i \in 1..(c - b) : y[i] = b + i
  BY RunIs
<1> HIDE DEF x, y
<1>2. x \o y \in Seq(Nat) /\ Len(x \o y) = c - a
  BY <1>1, SMTT(20)
<1>3. ASSUME NEW i \in 1..(c - a) PROVE (x \o y)[i] = a + i
  <2>1. CASE i <= b - a
    BY <1>1, <2>1
  <2>2. CASE ~(i <= b - a)
    <3>1. (x \o y)[i] = y[i - (b - a)]
      BY <1>1, <2>2, SMTT(20)
    <3>2. i - (b - a) \in 1..(c - b) /\ b + (i - (b - a)) = a + i
      BY <2>2
    <3> QED BY <1>1, <3>1, <3>2
  <2> QED BY <2>1, <2>2
<1>4. a <= c
  OBVIOUS
<1>5. x \o y = Run(a, c)
  BY <1>2, <1>3, <1>4, IsRun
<1> QED BY <1>5 DEF x, y

\* A run cut in two.
LEMMA RunCut ==
    ASSUME NEW a \in Nat, NEW c \in Nat, a <= c, NEW m \in 0..(c - a)
    PROVE  /\ SubSeq(Run(a, c), 1, m) = Run(a, a + m)
           /\ Drop(Run(a, c), m) = Run(a + m, c)
<1> DEFINE r == Run(a, c)
           x == SubSeq(r, 1, m)
           y == Drop(r, m)
<1>1. r \in Seq(Nat) /\ Len(r) = c - a /\ \A i \in 1..(c - a) : r[i] = a + i
  BY RunIs
<1> HIDE DEF r
<1>2. /\ x \in Seq(Nat) /\ Len(x) = (a + m) - a /\ \A i \in 1..m : x[i] = a + i
  BY <1>1
<1>3. y \in Seq(Nat) /\ Len(y) = c - (a + m) /\ \A i \in 1..(c - (a + m)) : y[i] = (a + m) + i
  <2>1. m \in 0..Len(r)
    BY <1>1
  <2>2. y \in Seq(Nat) /\ Len(y) = Len(r) - m /\ \A i \in 1..(Len(r) - m) : y[i] = r[m + i]
    BY <1>1, <2>1, DropIs
  <2> HIDE DEF y
  <2>3. ASSUME NEW i \in 1..(c - (a + m)) PROVE y[i] = (a + m) + i
    <3>1. i \in 1..(Len(r) - m) /\ m + i \in 1..(c - a) /\ a + (m + i) = (a + m) + i
      BY <1>1
    <3> QED BY <1>1, <2>2, <3>1
  <2> QED BY <1>1, <2>2, <2>3
<1> HIDE DEF x, y
<1>4. a + m \in Nat /\ a <= a + m /\ a + m <= c /\ (a + m) - a = m
  OBVIOUS
<1>5. x = Run(a, a + m)
  BY <1>2, <1>4, IsRun
<1>6. y = Run(a + m, c)
  BY <1>3, <1>4, IsRun
<1> QED BY <1>5, <1>6 DEF x, y, r

\* Adjacent runs put together.
LEMMA FlattenRuns ==
    ASSUME NEW m \in Nat, m > 0, NEW c \in [0..m -> Nat], \A i \in 1..m : c[i - 1] <= c[i],
           NEW q \in Seq(Seq(Nat)), Len(q) = m, \A i \in 1..m : q[i] = Run(c[i - 1], c[i])
    PROVE  FlattenSeq(q) = Run(c[0], c[m])
<1>1. PICK f \in [1..m -> Seq(Nat)] :
          /\ f[1] = q[1] /\ \A n \in 2..m : f[n] = f[n - 1] \o q[n]
          /\ FlattenSeq(q) = f[m]
  <2>1. Len(q) > 0
    OBVIOUS
  <2>2. \E f \in [1..Len(q) -> Seq(Nat)] :
            /\ f[1] = q[1] /\ \A n \in 2..Len(q) : f[n] = f[n - 1] \o q[n]
            /\ FlattenSeq(q) = f[Len(q)]
    BY <2>1, Flattens
  <2> QED BY <2>2
<1> DEFINE A == {n \in Nat : n + 1 <= m => c[0] <= c[n + 1] /\ f[n + 1] = Run(c[0], c[n + 1])}
<1>2. 0 \in A
  BY <1>1
<1>3. ASSUME NEW n \in Nat, n \in A PROVE n + 1 \in A
  <2> DEFINE k == n + 1
             l == k + 1
  <2> SUFFICES ASSUME l <= m PROVE c[0] <= c[l] /\ f[l] = Run(c[0], c[l])
    OBVIOUS
  <2>1. l \in 2..m /\ k \in 1..m /\ l - 1 = k /\ l \in 1..m /\ k <= m /\ k \in 0..m /\ l \in 0..m
    OBVIOUS
  <2>2. c[0] <= c[k] /\ f[k] = Run(c[0], c[k])
    BY <1>3, <2>1
  <2> HIDE DEF k, l
  <2>3. f[l] = f[k] \o q[l] /\ q[l] = Run(c[k], c[l]) /\ c[k] <= c[l]
    BY <1>1, <2>1
  <2>4. c[0] \in Nat /\ c[k] \in Nat /\ c[l] \in Nat
    BY <2>1
  <2>5. c[0] <= c[l]
    BY <2>2, <2>3, <2>4, SMTT(20)
  <2>6. Run(c[0], c[k]) \o Run(c[k], c[l]) = Run(c[0], c[l])
    BY <2>2, <2>3, <2>4, RunsInARow
  <2> QED BY <2>2, <2>3, <2>5, <2>6
<1>4. \A n \in Nat : n \in A
  <2> HIDE DEF A
  <2> QED BY <1>2, <1>3, SetInduction
<1>5. m - 1 \in Nat /\ m - 1 + 1 = m
  OBVIOUS
<1>6. f[m] = Run(c[0], c[m])
  <2>1. m - 1 \in A
    BY <1>4, <1>5
  <2> QED BY <1>5, <2>1
<1> QED BY <1>1, <1>6

\* Every segment has a byte.
LEMMA CutsGrow ==
    ASSUME NEW h, NEW n, Cuts(h, n)
    PROVE  /\ \A a \in 0..h.len : \A b \in a..h.len : h.cut[a] + (b - a) <= h.cut[b]
           /\ h.len \in Nat /\ n \in Nat /\ h.len <= n
<1>1. /\ h.len \in Nat /\ h.cut \in [0..h.len -> Nat] /\ h.cut[0] = 0 /\ h.cut[h.len] = n
      /\ \A a \in 1..h.len : h.cut[a] - h.cut[a - 1] \in 1..mss
  BY DEF Cuts
<1> DEFINE c == h.cut
           m == h.len
<1>2. \A a \in 0..(m - 1) : c[a] + 1 <= c[a + 1] /\ c[a] \in Nat /\ c[a + 1] \in Nat
  <2> SUFFICES ASSUME NEW a \in 0..(m - 1)
               PROVE  c[a] + 1 <= c[a + 1] /\ c[a] \in Nat /\ c[a + 1] \in Nat
    OBVIOUS
  <2> DEFINE b == a + 1
  <2>1. b \in 1..m /\ b - 1 = a /\ a \in 0..m /\ b \in 0..m
    BY <1>1
  <2> HIDE DEF b
  <2>2. c[b] - c[a] \in 1..mss /\ c[a] \in Nat /\ c[b] \in Nat
    BY <1>1, <2>1
  <2>3. c[a] + 1 <= c[b]
    <3> HIDE DEF c
    <3> QED BY <2>2, Widths
  <2> QED BY <2>2, <2>3 DEF b
<1>3. ASSUME NEW a \in 0..m PROVE \A b \in a..m : c[a] + (b - a) <= c[b]
  <2> DEFINE A == {d \in Nat : a + d <= m => c[a] + d <= c[a + d]}
  <2>1. 0 \in A
    <3>1. c[a] \in Nat
      BY <1>1
    <3>2. a \in Nat /\ a + 0 = a
      BY <1>1
    <3> HIDE DEF c, m
    <3> QED BY <3>1, <3>2
  <2>2. ASSUME NEW d \in Nat, d \in A PROVE d + 1 \in A
    <3> SUFFICES ASSUME a + (d + 1) <= m PROVE c[a] + (d + 1) <= c[a + (d + 1)]
      OBVIOUS
    <3> HIDE DEF c
    <3> DEFINE x == a + d
    <3>1. x \in 0..(m - 1) /\ x + 1 = a + (d + 1) /\ x <= m /\ a \in Nat
      BY <1>1
    <3>2. c[a] + d <= c[x]
      BY <2>2, <3>1
    <3> HIDE DEF x
    <3>3. c[x] + 1 <= c[x + 1] /\ c[x] \in Nat /\ c[x + 1] \in Nat /\ c[a] \in Nat
      BY <1>1, <1>2, <3>1
    <3>4. c[a] + (d + 1) <= c[x + 1]
      BY <3>2, <3>3
    <3> QED BY <3>1, <3>4
  <2>3. \A d \in Nat : d \in A
    <3> HIDE DEF A
    <3> QED BY <2>1, <2>2, SetInduction
  <2> SUFFICES ASSUME NEW b \in a..m PROVE c[a] + (b - a) <= c[b]
    OBVIOUS
  <2>4. b - a \in Nat /\ a + (b - a) = b /\ b <= m
    BY <1>1
  <2>5. b - a \in A
    BY <2>3, <2>4
  <2> QED BY <2>4, <2>5
<1>4. n \in Nat /\ m <= n
  <2>1. 0 \in 0..m /\ m \in 0..m /\ c[m] \in Nat /\ m - 0 = m
    BY <1>1
  <2>2. c[0] + (m - 0) <= c[m]
    BY <1>3, <2>1
  <2> QED BY <1>1, <2>1, <2>2
<1> QED BY <1>1, <1>3, <1>4

\* The middle of a run.
LEMMA RunMiddle ==
    ASSUME NEW lo \in Nat, NEW hi \in Nat, NEW p \in Nat, NEW r \in Nat, p <= r, lo + r <= hi
    PROVE  SubSeq(Run(lo, hi), p + 1, r) = Run(lo + p, lo + r)
<1> DEFINE s == Run(lo, hi)
           x == SubSeq(s, p + 1, r)
<1>1. s \in Seq(Nat) /\ Len(s) = hi - lo /\ \A i \in 1..(hi - lo) : s[i] = lo + i
  BY RunIs
<1> HIDE DEF s
<1>2. x \in Seq(Nat) /\ Len(x) = r - p /\ \A i \in 1..(r - p) : x[i] = s[p + i]
  BY <1>1
<1> HIDE DEF x
<1>3. ASSUME NEW i \in 1..(r - p) PROVE x[i] = (lo + p) + i
  <2>1. p + i \in 1..(hi - lo) /\ lo + (p + i) = (lo + p) + i
    OBVIOUS
  <2> QED BY <1>1, <1>2, <2>1
<1>4. lo + p \in Nat /\ lo + r \in Nat /\ lo + p <= lo + r /\ (lo + r) - (lo + p) = r - p
  OBVIOUS
<1>5. x = Run(lo + p, lo + r)
  BY <1>2, <1>3, <1>4, IsRun
<1> QED BY <1>5 DEF x, s

\* FragmentCount is the number of segments that n bytes fill.
LEMMA FragmentCountIs ==
    ASSUME NEW n \in Nat, n > 0
    PROVE  LET c == FragmentCount(n) IN
           c \in Nat /\ c > 0 /\ (c - 1) * mss < n /\ n <= c * mss
<1>1. CASE n <= mss
  BY <1>1, Widths DEF FragmentCount
<1>2. CASE ~(n <= mss)
  <2> DEFINE d == n + mss - 1
             q == d \div mss
             r == d % mss
  <2>1. d \in Int /\ mss \in Nat \ {0} /\ d >= mss
    BY <1>2, Widths
  <2>2. q \in Int /\ r \in 0..(mss - 1) /\ d = mss * q + r
    <3> HIDE DEF d
    <3> QED BY <2>1
  <2>3. FragmentCount(n) = q
    BY <1>2 DEF FragmentCount
  <2> HIDE DEF q, r
  <2>4. mss * q <= n + mss - 1 /\ mss * q >= n
    BY <2>1, <2>2
  <2>5. q > 0
    BY <2>1, <2>2, <2>4
  <2>6. (q - 1) * mss = mss * q - mss /\ q * mss = mss * q
    BY <2>1, <2>2
  <2> QED BY <2>1, <2>2, <2>3, <2>4, <2>5, <2>6
<1> QED BY <1>1, <1>2

\* The number of the i-th of m fragments.
FragmentNumber(i, m, mode) == IF mode THEN 0 ELSE m - i

\* f is m adjacent runs, cut at some c.
Fragmented(f, m, lo, hi, mode) ==
    \E c \in [0..m -> Nat] :
        /\ c[0] = lo /\ c[m] = hi
        /\ \A i \in 1..m : /\ c[i] - c[i - 1] \in 1..mss
                           /\ f[i].data = Run(c[i - 1], c[i])
                           /\ f[i].frg = FragmentNumber(i, m, mode)

\* The fragments of a run.
LEMMA FragmentsAre ==
    ASSUME NEW lo \in Nat, NEW hi \in Nat, lo < hi, NEW mode
    PROVE  LET m == FragmentCount(hi - lo)
               f == Fragments(Run(lo, hi), mode)
           IN  /\ m \in Nat /\ m > 0 /\ f \in Seq(QueuedRec) /\ Len(f) = m
               /\ Fragmented(f, m, lo, hi, mode)
<1> DEFINE n == hi - lo
           m == FragmentCount(n)
           s == Run(lo, hi)
           f == Fragments(s, mode)
           c == [i \in 0..m |-> IF i < m THEN lo + i * mss ELSE hi]
<1>1. n \in Nat /\ n > 0 /\ lo + n = hi
  OBVIOUS
<1>2. m \in Nat /\ m > 0 /\ (m - 1) * mss < n /\ n <= m * mss
  <2> HIDE DEF n
  <2> QED BY <1>1, FragmentCountIs
<1>3. s \in Seq(Nat) /\ Len(s) = n
  BY RunIs
<1> HIDE DEF m
<1>4. ASSUME NEW i \in 0..(m - 1) PROVE i * mss \in Nat /\ i * mss < n
  <2>1. m - 1 - i \in Nat /\ (m - 1 - i) * mss \in Nat
    BY <1>2, Widths
  <2>2. (m - 1 - i) * mss = (m - 1) * mss - i * mss
    BY <1>2, Widths
  <2>3. i * mss \in Nat /\ (m - 1) * mss \in Nat
    BY <1>2, Widths
  <2> QED BY <1>1, <1>2, <2>1, <2>2, <2>3
<1>5. c \in [0..m -> Nat] /\ c[0] = lo /\ c[m] = hi
  <2>1. 0 * mss = 0
    BY Widths
  <2>2. \A i \in 0..m : (IF i < m THEN lo + i * mss ELSE hi) \in Nat
    BY <1>2, <1>4
  <2> HIDE DEF n
  <2> QED BY <1>2, <2>1, <2>2
<1>6. ASSUME NEW i \in 1..m
      PROVE  /\ c[i] - c[i - 1] \in 1..mss
             /\ Min({i * mss, n}) = c[i] - lo /\ (i - 1) * mss = c[i - 1] - lo
  <2> DEFINE p == (i - 1) * mss
             r == i * mss
  <2>1. i - 1 \in 0..(m - 1) /\ i \in Nat /\ i - 1 \in 0..m /\ i \in 0..m
    BY <1>2
  <2>2. p \in Nat /\ p < n /\ r = p + mss /\ r \in Nat /\ c[i - 1] = lo + p
    <3>1. p \in Nat /\ p < n
      BY <1>4, <2>1
    <3>2. r = p + mss
      BY <2>1, Widths
    <3>3. i - 1 < m
      BY <2>1, <1>2
    <3> QED BY <2>1, <3>1, <3>2, <3>3, Widths
  <2>3. Min({r, n}) = IF r <= n THEN r ELSE n
    <3> HIDE DEF r, n
    <3> QED BY <1>1, <2>2, MinOfTwo
  <2>4. CASE i < m
    <3>1. r < n /\ c[i] = lo + r
      <4>1. i \in 0..(m - 1)
        BY <1>2, <2>1, <2>4
      <4>2. i * mss < n
        BY <1>4, <4>1
      <4>3. c[i] = lo + i * mss
        BY <2>1, <2>4
      <4> QED BY <4>2, <4>3
    <3> HIDE DEF p, r, c, n
    <3> QED BY <1>1, <2>2, <2>3, <3>1, Widths DEF p, r
  <2>5. CASE i = m
    <3>1. n <= r /\ c[i] = hi
      BY <1>2, <2>1, <2>5
    <3>2. p < n
      BY <2>2
    <3> HIDE DEF p, r, c, n
    <3> QED BY <1>1, <2>2, <2>3, <3>1, <3>2, Widths DEF p, r
  <2> QED BY <1>2, <2>4, <2>5
<1> DEFINE Frag(i) == [frg |-> IF mode THEN 0 ELSE m - i,
                       data |-> SubSeq(s, (i - 1) * mss + 1, Min({i * mss, n}))]
<1>7. f = [i \in 1..m |-> Frag(i)]
  BY <1>3 DEF Fragments, m
<1>8. ASSUME NEW i \in 1..m PROVE Frag(i).data = Run(c[i - 1], c[i]) /\ Frag(i) \in QueuedRec
  <2> DEFINE p == c[i - 1] - lo
             r == c[i] - lo
  <2>1. c[i - 1] \in Nat /\ c[i] \in Nat /\ i - 1 \in 0..m
    BY <1>2, <1>5
  <2>2. c[i - 1] <= c[i]
    <3>1. c[i] - c[i - 1] \in 1..mss
      BY <1>6
    <3> HIDE DEF c
    <3> QED BY <2>1, <3>1, Widths
  <2>3. p \in Nat /\ r \in Nat /\ p <= r /\ lo + r <= hi
    <3>1. (i - 1) * mss \in Nat /\ Min({i * mss, n}) <= n
      <4>1. i - 1 \in 0..(m - 1) /\ i * mss \in Int
        BY <1>2, Widths
      <4>2. (i - 1) * mss \in Nat
        BY <1>4, <4>1
      <4>3. Min({i * mss, n}) = IF i * mss <= n THEN i * mss ELSE n
        <5> HIDE DEF n
        <5> QED BY <1>1, <4>1, MinOfTwo
      <4> QED BY <1>1, <4>1, <4>2, <4>3
    <3>2. p = (i - 1) * mss /\ r = Min({i * mss, n})
      BY <1>6
    <3> HIDE DEF c
    <3> QED BY <1>1, <2>1, <2>2, <3>1, <3>2
  <2>4. SubSeq(s, p + 1, r) = Run(lo + p, lo + r)
    <3> HIDE DEF p, r
    <3> QED BY <2>3, RunMiddle, ZenonT(40)
  <2>5. lo + p = c[i - 1] /\ lo + r = c[i]
    <3> HIDE DEF c
    <3> QED BY <2>1
  <2>6. Frag(i).data = Run(c[i - 1], c[i])
    BY <1>6, <2>4, <2>5
  <2>7. Run(c[i - 1], c[i]) \in Seq(Nat)
    BY <2>1, <2>2, RunIs
  <2>8. (IF mode THEN 0 ELSE m - i) \in Nat
    BY <1>2
  <2> HIDE DEF c
  <2> QED BY <2>6, <2>7, <2>8 DEF QueuedRec
<1> HIDE DEF n, c
<1>9. f \in Seq(QueuedRec) /\ Len(f) = m /\ \A i \in 1..m : f[i] = Frag(i)
  <2> HIDE DEF Frag, f
  <2> QED BY <1>2, <1>7, <1>8
<1>10. \A i \in 1..m : /\ c[i] - c[i - 1] \in 1..mss
                       /\ f[i].data = Run(c[i - 1], c[i])
                       /\ f[i].frg = IF mode THEN 0 ELSE m - i
  <2> SUFFICES ASSUME NEW i \in 1..m
               PROVE  /\ c[i] - c[i - 1] \in 1..mss
                      /\ f[i].data = Run(c[i - 1], c[i])
                      /\ f[i].frg = IF mode THEN 0 ELSE m - i
    OBVIOUS
  <2>1. c[i] - c[i - 1] \in 1..mss
    BY <1>6
  <2>2. f[i] = Frag(i)
    <3> HIDE DEF f, Frag
    <3> QED BY <1>9
  <2>3. Frag(i).data = Run(c[i - 1], c[i])
    BY <1>8
  <2>4. Frag(i).frg = IF mode THEN 0 ELSE m - i
    OBVIOUS
  <2> HIDE DEF f, Frag
  <2> QED BY <2>1, <2>2, <2>3, <2>4
<1>11. \A i \in 1..m : /\ c[i] - c[i - 1] \in 1..mss
                       /\ f[i].data = Run(c[i - 1], c[i])
                       /\ f[i].frg = FragmentNumber(i, m, mode)
  <2> HIDE DEF f, Frag
  <2> QED BY <1>10 DEF FragmentNumber
<1> HIDE DEF f, Frag
<1>12. Fragmented(f, m, lo, hi, mode)
  BY <1>5, <1>11, Zenon DEF Fragmented
<1> QED BY <1>2, <1>9, <1>12 DEF m, n, f, s

-------------------------------------------------------------------------------
(* The half that receives.                                                 *)

\* The types of a block's fields.
LEMMA BlockFields ==
    ASSUME NEW k \in Block
    PROVE  /\ k.snd_una \in Numbers /\ k.snd_nxt \in Numbers /\ k.rcv_nxt \in Numbers
           /\ k.rmt_wnd \in 1..rcv_wnd
           /\ k.snd_queue \in Seq(QueuedRec) /\ k.snd_buf \in Seq(SentRec)
           /\ k.rcv_buf \in Seq(NumberedRec) /\ k.rcv_queue \in Seq(QueuedRec)
           /\ k.acklist \in Seq(Numbers)
           /\ k.ask_tell \in BOOLEAN /\ k.probe_wait \in BOOLEAN /\ k.dead \in BOOLEAN
BY DEF Block

\* The numbers in a buffer.
LEMMA Numbered ==
    /\ \A b \in Seq(NumberedRec) : \A i \in 1..Len(b) :
           b[i] \in NumberedRec /\ b[i].sn \in Numbers /\ Off(b[i].sn) \in Nat
    /\ \A b \in Seq(SentRec) : \A i \in 1..Len(b) :
           b[i] \in SentRec /\ b[i].sn \in Numbers /\ Off(b[i].sn) \in Nat
<1>1. /\ \A b \in Seq(NumberedRec) : \A i \in 1..Len(b) : b[i] \in NumberedRec
      /\ \A b \in Seq(SentRec) : \A i \in 1..Len(b) : b[i] \in SentRec
  OBVIOUS
<1>2. /\ \A x \in NumberedRec : x.sn \in Numbers
      /\ \A x \in SentRec : x.sn \in Numbers
  BY DEF NumberedRec, SentRec
<1> QED BY <1>1, <1>2, OffType

\* The offsets in a buffer increase at least by one.
LEMMA HoldsFrom ==
    ASSUME NEW b, Len(b) \in Nat, NEW h, NEW lo \in Nat, NEW hi \in Nat, Holds(b, h, lo, hi),
           \A i \in 1..Len(b) : Off(b[i].sn) \in Nat
    PROVE  /\ \A i \in 1..Len(b) : lo + i - 1 <= Off(b[i].sn) /\ Off(b[i].sn) < hi
           /\ lo <= hi => Len(b) <= hi - lo
<1> DEFINE o == [i \in 1..Len(b) |-> Off(b[i].sn)]
           m == Len(b)
<1>1. /\ \A i \in 1..m : o[i] \in Nat /\ o[i] >= lo /\ o[i] < hi
      /\ \A i, j \in 1..m : i < j => o[i] < o[j]
      /\ \A i \in 1..m : o[i] = Off(b[i].sn)
  BY DEF Holds
<1> DEFINE A == {n \in Nat : n + 1 <= m => lo + n <= o[n + 1]}
<1> HIDE DEF o
<1>2. 0 \in A
  BY <1>1
<1>3. ASSUME NEW n \in Nat, n \in A PROVE n + 1 \in A
  <2> SUFFICES ASSUME n + 1 + 1 <= m PROVE lo + (n + 1) <= o[n + 1 + 1]
    OBVIOUS
  <2>1. n + 1 \in 1..m /\ n + 1 + 1 \in 1..m /\ n + 1 < n + 1 + 1
    OBVIOUS
  <2>2. o[n + 1] < o[n + 1 + 1] /\ o[n + 1] \in Nat /\ o[n + 1 + 1] \in Nat
    BY <1>1, <2>1
  <2>3. lo + n <= o[n + 1]
    BY <1>3, <2>1
  <2> QED BY <2>2, <2>3
<1>4. \A n \in Nat : n \in A
  <2> HIDE DEF A
  <2> QED BY <1>2, <1>3, SetInduction
<1>5. ASSUME NEW i \in 1..m PROVE lo + i - 1 <= o[i] /\ o[i] < hi
  <2>1. i - 1 \in Nat /\ i - 1 + 1 = i
    OBVIOUS
  <2>2. i - 1 \in A
    BY <1>4, <2>1
  <2> QED BY <1>1, <2>1, <2>2
<1>6. ASSUME lo <= hi PROVE m <= hi - lo
  <2>1. CASE m = 0
    BY <1>6, <2>1
  <2>2. CASE m # 0
    <3>1. m \in 1..m
      BY <2>2
    <3>2. lo + m - 1 <= o[m] /\ o[m] < hi /\ o[m] \in Nat
      BY <1>1, <1>5, <3>1, Zenon
    <3> QED BY <3>2
  <2> QED BY <2>1, <2>2
<1> QED BY <1>1, <1>5, <1>6

\* MoveToRcvQueue moves the c segments that follow rcv_nxt without a gap, as far as
\* rcv_queue has room for them.
LEMMA Ready ==
    ASSUME NEW k \in Block, NEW h, NEW n \in Nat, 2 * n < SeqSpace, Collects(k, h, n)
    PROVE  \E c \in 0..Len(k.rcv_buf) :
               /\ MoveToRcvQueue(k) =
                      [k EXCEPT !.rcv_buf = Drop(@, c),
                                !.rcv_queue = @ \o [i \in 1..c |-> [frg |-> k.rcv_buf[i].frg,
                                                                    data |-> k.rcv_buf[i].data]],
                                !.rcv_nxt = Plus(@, c)]
               /\ \A i \in 1..c : Off(k.rcv_buf[i].sn) = Off(k.rcv_nxt) + i - 1
               /\ Off(k.rcv_nxt) + c <= n /\ Len(k.rcv_queue) + c <= rcv_wnd
               /\ c < Len(k.rcv_buf) /\ Len(k.rcv_queue) + c < rcv_wnd
                      => Off(k.rcv_buf[c + 1].sn) > Off(k.rcv_nxt) + c
<1> DEFINE b == k.rcv_buf
           q == k.rcv_queue
           R == Off(k.rcv_nxt)
           S == {i \in DOMAIN b : \A j \in 1..i : /\ b[j].sn = Plus(k.rcv_nxt, j - 1)
                                                  /\ Len(q) + j - 1 < rcv_wnd}
           c == Cardinality(S)
<1>1. /\ b \in Seq(NumberedRec) /\ Len(b) \in Nat /\ DOMAIN b = 1..Len(b)
      /\ q \in Seq(QueuedRec) /\ Len(q) \in Nat
      /\ k.rcv_nxt \in Numbers /\ R \in Nat /\ R <= n /\ Len(q) <= rcv_wnd
  BY BlockFields, OffType DEF Collects
<1>2. \A i \in 1..Len(b) : b[i].sn \in Numbers /\ Off(b[i].sn) \in Nat
  <2> HIDE DEF b
  <2> QED BY <1>1, Numbered
<1>3. /\ \A i \in 1..Len(b) : R + i - 1 <= Off(b[i].sn) /\ Off(b[i].sn) < n
      /\ Len(b) <= n - R
  <2>1. Holds(b, h, R, n)
    BY DEF Collects
  <2> HIDE DEF b, R
  <2> QED BY <1>1, <1>2, <2>1, HoldsFrom
<1>4. S \in SUBSET (1..Len(b)) /\ \A i \in S : \A j \in 1..i : j \in S
  <2>1. S \in SUBSET (1..Len(b))
    BY <1>1
  <2>2. ASSUME NEW i \in S, NEW j \in 1..i PROVE j \in S
    <3>1. i \in 1..Len(b)
      BY <2>1
    <3>2. j \in DOMAIN b /\ \A l \in 1..j : l \in 1..i
      <4> HIDE DEF b, S
      <4> QED BY <1>1, <3>1
    <3>3. \A l \in 1..i : b[l].sn = Plus(k.rcv_nxt, l - 1) /\ Len(q) + l - 1 < rcv_wnd
      OBVIOUS
    <3>4. \A l \in 1..j : b[l].sn = Plus(k.rcv_nxt, l - 1) /\ Len(q) + l - 1 < rcv_wnd
      BY <3>2, <3>3
    <3> QED BY <3>2, <3>4
  <2> QED BY <2>1, <2>2
<1>5. c \in 0..Len(b) /\ \A i \in 1..Len(b) : i \in S <=> i <= c
  <2> HIDE DEF S, b
  <2> QED BY <1>1, <1>4, FirstOnes
<1>6. \A i \in 1..Len(b) : /\ Plus(k.rcv_nxt, i - 1) \in Numbers
                           /\ Off(Plus(k.rcv_nxt, i - 1)) = R + i - 1
  <2> SUFFICES ASSUME NEW i \in 1..Len(b)
               PROVE  /\ Plus(k.rcv_nxt, i - 1) \in Numbers
                      /\ Off(Plus(k.rcv_nxt, i - 1)) = R + i - 1
    OBVIOUS
  <2>1. i - 1 \in Nat /\ R + (i - 1) < SeqSpace /\ R + (i - 1) = R + i - 1
    <3>1. R + i - 1 <= Off(b[i].sn) /\ Off(b[i].sn) < n /\ Off(b[i].sn) \in Nat
      BY <1>2, <1>3
    <3> HIDE DEF b, R
    <3> QED BY <1>1, <3>1, Widths
  <2>2. Plus(k.rcv_nxt, i - 1) \in Numbers /\ Off(Plus(k.rcv_nxt, i - 1)) = R + (i - 1)
    BY <1>1, <2>1, OffPlus
  <2> QED BY <2>1, <2>2
<1>7. MoveToRcvQueue(k) =
          [k EXCEPT !.rcv_buf = Drop(@, c),
                    !.rcv_queue = @ \o [i \in 1..c |-> [frg |-> b[i].frg, data |-> b[i].data]],
                    !.rcv_nxt = Plus(@, c)]
  BY DEF MoveToRcvQueue
<1>8. \A i \in 1..c : Off(b[i].sn) = R + i - 1
  <2> SUFFICES ASSUME NEW i \in 1..c PROVE Off(b[i].sn) = R + i - 1
    OBVIOUS
  <2>1. i \in 1..Len(b) /\ i <= c /\ i \in 1..i
    <3> HIDE DEF b, c
    <3> QED BY <1>1, <1>5
  <2>2. i \in S
    BY <1>5, <2>1
  <2>3. b[i].sn = Plus(k.rcv_nxt, i - 1)
    BY <2>1, <2>2
  <2> QED BY <1>6, <2>1, <2>3
<1>9. R + c <= n /\ Len(q) + c <= rcv_wnd
  <2>1. R + c <= n
    <3> HIDE DEF b, c, R
    <3> QED BY <1>1, <1>3, <1>5
  <2>2. CASE c = 0
    BY <1>1, <2>1, <2>2
  <2>3. CASE c # 0
    <3>1. c \in 1..Len(b) /\ c <= c /\ c \in 1..c /\ c \in Nat
      <4> HIDE DEF b, c
      <4> QED BY <1>1, <1>5, <2>3
    <3>2. c \in S
      BY <1>5, <3>1
    <3>3. Len(q) + c - 1 < rcv_wnd
      BY <3>1, <3>2
    <3> HIDE DEF c, q
    <3> QED BY <1>1, <2>1, <3>1, <3>3, Widths
  <2> QED BY <2>2, <2>3
<1>10. ASSUME c < Len(b), Len(q) + c < rcv_wnd PROVE Off(b[c + 1].sn) > R + c
  <2> DEFINE d == c + 1
  <2>1. d \in 1..Len(b) /\ ~(d <= c) /\ d - 1 = c /\ c \in Nat /\ d \in Nat
    <3> HIDE DEF b, c
    <3> QED BY <1>1, <1>5, <1>10
  <2>2. d \notin S
    BY <1>5, <2>1
  <2>3. PICK j \in 1..d : ~(b[j].sn = Plus(k.rcv_nxt, j - 1) /\ Len(q) + j - 1 < rcv_wnd)
    <3>1. d \in DOMAIN b
      BY <1>1, <2>1
    <3> QED BY <2>2, <3>1
  <2>4. j = d
    <3>1. CASE j <= c
      <4>1. j \in 1..Len(b) /\ j \in 1..j
        <5> HIDE DEF b, d, c
        <5> QED BY <1>1, <2>1, <2>3
      <4>2. j \in S
        BY <1>5, <3>1, <4>1
      <4> QED BY <2>3, <4>1, <4>2
    <3>2. CASE ~(j <= c)
      <4> HIDE DEF d, c
      <4> QED BY <2>1, <2>3, <3>2
    <3> QED BY <3>1, <3>2
  <2>5. b[d].sn # Plus(k.rcv_nxt, d - 1)
    <3> HIDE DEF d, c, b, q
    <3> QED BY <1>10, <2>1, <2>3, <2>4
  <2>6. Off(b[d].sn) # R + d - 1
    <3> HIDE DEF d, c, b, R
    <3> QED BY <1>2, <1>6, <2>1, <2>5, OffInjective
  <2>7. Off(b[d].sn) > R + d - 1
    <3>1. R + d - 1 <= Off(b[d].sn) /\ Off(b[d].sn) \in Nat
      BY <1>2, <1>3, <2>1
    <3> HIDE DEF d, c, b, R
    <3> QED BY <1>1, <2>1, <2>6, <3>1
  <2>8. R + d - 1 = R + c
    <3> HIDE DEF d, c, R
    <3> QED BY <1>1, <2>1
  <2> QED BY <2>7, <2>8
<1> HIDE DEF c, S
<1> QED BY <1>5, <1>7, <1>8, <1>9, <1>10

\* MoveToRcvQueue keeps what was received and what was read.
LEMMA Moves ==
    ASSUME NEW k \in Block, NEW h, NEW n \in Nat, 2 * n < SeqSpace, Collects(k, h, n)
    PROVE  LET j == MoveToRcvQueue(k) IN
           /\ j \in Block /\ SameSender(k, j) /\ j.acklist = k.acklist
           /\ Collects(j, h, n)
           /\ Len(j.rcv_queue) < rcv_wnd => Off(j.rcv_nxt) \notin Offsets(j.rcv_buf)
           /\ Read(j) = Read(k) /\ Off(k.rcv_nxt) <= Off(j.rcv_nxt)
           /\ \A o \in Nat : Got(j, o) <=> Got(k, o)
           /\ Len(k.rcv_queue) < rcv_wnd /\ Off(k.rcv_nxt) \notin Offsets(k.rcv_buf)
                  => Off(j.rcv_nxt) = Off(k.rcv_nxt)
<1> DEFINE b == k.rcv_buf
           q == k.rcv_queue
           R == Off(k.rcv_nxt)
           j == MoveToRcvQueue(k)
<1>1. PICK c \in 0..Len(b) :
          /\ j = [k EXCEPT !.rcv_buf = Drop(@, c),
                           !.rcv_queue = @ \o [i \in 1..c |-> [frg |-> b[i].frg, data |-> b[i].data]],
                           !.rcv_nxt = Plus(@, c)]
          /\ \A i \in 1..c : Off(b[i].sn) = R + i - 1
          /\ R + c <= n /\ Len(q) + c <= rcv_wnd
          /\ c < Len(b) /\ Len(q) + c < rcv_wnd => Off(b[c + 1].sn) > R + c
  BY Ready
<1> DEFINE m == [i \in 1..c |-> [frg |-> b[i].frg, data |-> b[i].data]]
           q2 == q \o m
           b2 == Drop(b, c)
<1>2. /\ b \in Seq(NumberedRec) /\ Len(b) \in Nat /\ c \in Nat /\ c <= Len(b)
      /\ q \in Seq(QueuedRec) /\ Len(q) \in Nat
      /\ k.rcv_nxt \in Numbers /\ R \in Nat /\ R <= n /\ Len(q) <= rcv_wnd /\ Len(q) <= R
      /\ Continues(q, h, Read(k)) /\ Holds(b, h, R, n) /\ Read(k) = R - Len(q)
  BY BlockFields, OffType DEF Collects, Read
<1>3. \A i \in 1..Len(b) : /\ b[i] \in NumberedRec /\ Off(b[i].sn) \in Nat
                           /\ R + i - 1 <= Off(b[i].sn) /\ Off(b[i].sn) < n
                           /\ IsSegment(b[i], h, Off(b[i].sn) + 1)
  <2> HIDE DEF b, R
  <2>1. \A i \in 1..Len(b) : b[i] \in NumberedRec /\ Off(b[i].sn) \in Nat
    BY <1>2, Numbered
  <2>2. \A i \in 1..Len(b) : R + i - 1 <= Off(b[i].sn) /\ Off(b[i].sn) < n
    BY <1>2, <2>1, HoldsFrom
  <2> QED BY <1>2, <2>1, <2>2 DEF Holds
<1>4. m \in Seq(QueuedRec) /\ Len(m) = c /\ \A i \in 1..c : m[i] = [frg |-> b[i].frg, data |-> b[i].data]
  <2>1. ASSUME NEW i \in 1..c PROVE [frg |-> b[i].frg, data |-> b[i].data] \in QueuedRec
    <3>1. b[i] \in NumberedRec
      <4> HIDE DEF b
      <4> QED BY <1>2, <1>3
    <3> QED BY <3>1 DEF QueuedRec, NumberedRec
  <2> HIDE DEF b
  <2> QED BY <1>2, <2>1
<1>5. /\ b2 \in Seq(NumberedRec) /\ Len(b2) = Len(b) - c
      /\ \A i \in 1..(Len(b) - c) : b2[i] = b[c + i]
  <2> HIDE DEF b
  <2> QED BY <1>1, <1>2, DropIs, SMTT(20)
<1>6. Plus(k.rcv_nxt, c) \in Numbers /\ Off(Plus(k.rcv_nxt, c)) = R + c
  <2>1. R + c < SeqSpace
    <3> HIDE DEF R
    <3> QED BY <1>1, <1>2, Widths
  <2> QED BY <1>2, <2>1, OffPlus
<1>7. q2 \in Seq(QueuedRec) /\ Len(q2) = Len(q) + c
  <2>1. q \in Seq(QueuedRec) /\ m \in Seq(QueuedRec) /\ Len(m) = c
    BY <1>2, <1>4
  <2> HIDE DEF q, m
  <2> QED BY <2>1
<1>8. /\ j.rcv_buf = b2 /\ j.rcv_queue = q2 /\ j.rcv_nxt = Plus(k.rcv_nxt, c)
      /\ SameSender(k, j) /\ j.acklist = k.acklist /\ j \in Block
  <2>1. j = [k EXCEPT !.rcv_buf = b2, !.rcv_queue = q2, !.rcv_nxt = Plus(k.rcv_nxt, c)]
    BY <1>1
  <2>2. b2 \in Seq(NumberedRec) /\ q2 \in Seq(QueuedRec) /\ Plus(k.rcv_nxt, c) \in Numbers
    BY <1>5, <1>6, <1>7
  <2> HIDE DEF j, b2, q2
  <2> QED BY <2>1, <2>2 DEF Block, SameSender
<1>9. Off(j.rcv_nxt) = R + c /\ Read(j) = Read(k) /\ R <= Off(j.rcv_nxt)
  <2>1. Off(j.rcv_nxt) = R + c /\ Len(j.rcv_queue) = Len(q) + c
    BY <1>6, <1>7, <1>8
  <2>2. Read(j) = (R + c) - (Len(q) + c)
    BY <2>1 DEF Read
  <2> HIDE DEF j, q, R
  <2> QED BY <1>2, <2>1, <2>2
<1>10. Continues(q2, h, Read(k))
  <2> SUFFICES ASSUME NEW i \in 1..(Len(q) + c) PROVE IsSegment(q2[i], h, Read(k) + i)
    BY <1>7 DEF Continues
  <2>1. CASE i <= Len(q)
    <3>1. q2[i] = q[i] /\ i \in 1..Len(q)
      <4> HIDE DEF q, m
      <4> QED BY <1>2, <1>4, <2>1
    <3> QED BY <1>2, <3>1 DEF Continues
  <2>2. CASE ~(i <= Len(q))
    <3> DEFINE d == i - Len(q)
    <3>1. d \in 1..c /\ d \in 1..Len(b) /\ q2[i] = m[d]
      <4> HIDE DEF q, m, b
      <4> QED BY <1>2, <1>4, <2>2
    <3>2. Read(k) + i = R + d
      <4> HIDE DEF R, q
      <4> QED BY <1>2
    <3>3. IsSegment(b[d], h, R + d)
      <4>1. Off(b[d].sn) = R + d - 1 /\ IsSegment(b[d], h, Off(b[d].sn) + 1) /\ d \in Nat
        <5> HIDE DEF b, d, R
        <5> QED BY <1>1, <1>3, <3>1
      <4>2. R + d - 1 + 1 = R + d
        <5> HIDE DEF R, d
        <5> QED BY <1>2, <4>1
      <4> QED BY <4>1, <4>2
    <3>4. IsSegment(m[d], h, R + d)
      <4> HIDE DEF d, b, m, R
      <4> QED BY <1>4, <3>1, <3>3 DEF IsSegment
    <3> QED BY <3>1, <3>2, <3>4
  <2> QED BY <2>1, <2>2
<1>11. \A i \in 1..(Len(b) - c) : c + i \in 1..Len(b) /\ R + (c + i) - 1 >= R + c
  <2> HIDE DEF b, R
  <2> QED BY <1>2
<1>12. Holds(b2, h, R + c, n)
  <2>1. ASSUME NEW i \in 1..Len(b2)
        PROVE  /\ Off(b2[i].sn) >= R + c /\ Off(b2[i].sn) < n
               /\ IsSegment(b2[i], h, Off(b2[i].sn) + 1)
    <3> DEFINE d == c + i
    <3>1. i \in 1..(Len(b) - c) /\ b2[i] = b[d] /\ d \in 1..Len(b) /\ R + d - 1 >= R + c /\ d \in Nat
      BY <1>5, <1>11, <1>2
    <3>2. /\ R + d - 1 <= Off(b[d].sn) /\ Off(b[d].sn) < n /\ Off(b[d].sn) \in Nat
          /\ IsSegment(b[d], h, Off(b[d].sn) + 1)
      BY <1>3, <3>1
    <3>3. Off(b[d].sn) >= R + c
      <4> HIDE DEF b, d, R
      <4> QED BY <1>2, <3>1, <3>2
    <3> QED BY <3>1, <3>2, <3>3
  <2>2. ASSUME NEW i \in 1..Len(b2), NEW l \in 1..Len(b2), i < l PROVE Off(b2[i].sn) < Off(b2[l].sn)
    <3>1. i \in 1..(Len(b) - c) /\ l \in 1..(Len(b) - c) /\ c + i < c + l
      <4>1. i \in 1..(Len(b) - c) /\ l \in 1..(Len(b) - c)
        BY <1>5
      <4> HIDE DEF b, b2
      <4> QED BY <1>2, <2>2, <4>1
    <3>2. c + i \in 1..Len(b) /\ c + l \in 1..Len(b) /\ b2[i] = b[c + i] /\ b2[l] = b[c + l]
      BY <1>5, <1>11, <3>1
    <3> HIDE DEF b, b2, R
    <3> QED BY <1>2, <3>1, <3>2 DEF Holds
  <2> QED BY <2>1, <2>2 DEF Holds
<1>13. Collects(j, h, n)
  <2>1. R + c <= n /\ Len(q) + c <= R + c /\ Len(q) + c <= rcv_wnd
    <3> HIDE DEF R, q
    <3> QED BY <1>1, <1>2
  <2>2. Off(j.rcv_nxt) = R + c /\ Len(j.rcv_queue) = Len(q) + c
    BY <1>7, <1>8, <1>9
  <2>3. Continues(j.rcv_queue, h, Read(j)) /\ Holds(j.rcv_buf, h, R + c, n)
    BY <1>8, <1>9, <1>10, <1>12
  <2> HIDE DEF j, R, q
  <2> QED BY <2>1, <2>2, <2>3 DEF Collects
<1>14. ASSUME Len(q2) < rcv_wnd PROVE R + c \notin Offsets(b2)
  <2> SUFFICES ASSUME NEW i \in 1..Len(b2), Off(b2[i].sn) = R + c PROVE FALSE
    BY DEF Offsets
  <2> DEFINE d == c + i
  <2>1. i \in 1..(Len(b) - c) /\ b2[i] = b[d] /\ d \in 1..Len(b) /\ d \in Nat
    BY <1>5, <1>11, <1>2
  <2>2. R + d - 1 <= Off(b[d].sn) /\ Off(b[d].sn) = R + c
    BY <1>3, <2>1
  <2>3. d = c + 1
    <3>1. R + d - 1 <= R + c /\ d >= c + 1
      <4>1. d >= c + 1
        BY <1>2, <2>1
      <4> QED BY <2>2, <4>1
    <3> HIDE DEF R, d
    <3> QED BY <1>2, <2>1, <3>1
  <2>4. c < Len(b) /\ Len(q) + c < rcv_wnd
    <3>1. Len(q) + c < rcv_wnd
      BY <1>7, <1>14
    <3> HIDE DEF b, q, d
    <3> QED BY <1>2, <2>1, <2>3, <3>1
  <2>5. Off(b[c + 1].sn) > R + c /\ Off(b[c + 1].sn) = R + c
    BY <1>1, <2>2, <2>3, <2>4
  <2> HIDE DEF R
  <2> QED BY <1>2, <2>5
<1>15. ASSUME NEW o \in Nat
       PROVE  (o < R + c \/ o \in Offsets(b2)) <=> (o < R \/ o \in Offsets(b))
  <2>1. ASSUME o < R + c PROVE o < R \/ o \in Offsets(b)
    <3>1. CASE o < R
      BY <3>1
    <3>2. CASE ~(o < R)
      <4> DEFINE i == o - R + 1
      <4>1. i \in 1..c /\ i \in 1..Len(b) /\ R + i - 1 = o
        <5> HIDE DEF R, b
        <5> QED BY <1>2, <2>1, <3>2
      <4>2. Off(b[i].sn) = o
        BY <1>1, <4>1
      <4> HIDE DEF i
      <4> QED BY <4>1, <4>2 DEF Offsets
    <3> QED BY <3>1, <3>2
  <2>2. ASSUME o \in Offsets(b2) PROVE o \in Offsets(b)
    <3>1. PICK i \in 1..Len(b2) : o = Off(b2[i].sn)
      BY <2>2 DEF Offsets
    <3>2. b2[i] = b[c + i] /\ c + i \in 1..Len(b)
      BY <1>5, <1>11
    <3> QED BY <3>1, <3>2 DEF Offsets
  <2>3. ASSUME o < R PROVE o < R + c
    <3> HIDE DEF R
    <3> QED BY <1>2, <2>3
  <2>4. ASSUME o \in Offsets(b) PROVE o < R + c \/ o \in Offsets(b2)
    <3>1. PICK i \in 1..Len(b) : o = Off(b[i].sn)
      BY <2>4 DEF Offsets
    <3>2. CASE i <= c
      <4>1. i \in 1..c /\ i \in Nat
        BY <3>2
      <4>2. o = R + i - 1
        BY <1>1, <3>1, <4>1
      <4> HIDE DEF R
      <4> QED BY <1>2, <4>1, <4>2
    <3>3. CASE ~(i <= c)
      <4> DEFINE d == i - c
      <4>1. d \in 1..(Len(b) - c) /\ c + d = i
        <5> HIDE DEF b
        <5> QED BY <1>2, <3>3
      <4>2. d \in 1..Len(b2) /\ b2[d] = b[i]
        BY <1>5, <4>1
      <4> HIDE DEF d, b, b2
      <4> QED BY <3>1, <4>2 DEF Offsets
    <3> QED BY <3>2, <3>3
  <2> QED BY <2>1, <2>2, <2>3, <2>4
<1>16. \A o \in Nat : Got(j, o) <=> Got(k, o)
  <2> SUFFICES ASSUME NEW o \in Nat PROVE Got(j, o) <=> Got(k, o)
    OBVIOUS
  <2>1. Got(j, o) <=> o < R + c \/ o \in Offsets(b2)
    BY <1>8, <1>9 DEF Got
  <2>2. Got(k, o) <=> o < R \/ o \in Offsets(b)
    BY DEF Got
  <2> QED BY <1>15, <2>1, <2>2
<1>17. ASSUME Len(q) < rcv_wnd, R \notin Offsets(b) PROVE c = 0
  <2> SUFFICES ASSUME c # 0 PROVE FALSE
    OBVIOUS
  <2>1. 1 \in 1..c /\ 1 \in 1..Len(b) /\ R + 1 - 1 = R
    <3> HIDE DEF b, R
    <3> QED BY <1>2
  <2>2. Off(b[1].sn) = R
    BY <1>1, <2>1
  <2> HIDE DEF b, R
  <2> QED BY <1>17, <2>1, <2>2 DEF Offsets
<1>18. Len(j.rcv_queue) < rcv_wnd => Off(j.rcv_nxt) \notin Offsets(j.rcv_buf)
  BY <1>8, <1>9, <1>14
<1>19. Len(q) < rcv_wnd /\ R \notin Offsets(b) => Off(j.rcv_nxt) = R
  <2> HIDE DEF j, R, b, q
  <2> QED BY <1>2, <1>9, <1>17
<1> HIDE DEF j
<1> QED BY <1>8, <1>9, <1>13, <1>16, <1>18, <1>19 DEF j

\* ikcp_parse_data finds the place of a new segment in rcv_buf.
LEMMA Inserts ==
    ASSUME NEW b \in Seq(NumberedRec), NEW h, NEW lo \in Nat, NEW n \in Nat, 2 * n < SeqSpace,
           Holds(b, h, lo, n), NEW r \in NumberedRec, lo <= Off(r.sn), Off(r.sn) < n,
           IsSegment(r, h, Off(r.sn) + 1), \A i \in 1..Len(b) : b[i].sn # r.sn
    PROVE  LET p == Cardinality({i \in DOMAIN b : _itimediff(r.sn, b[i].sn) > 0}) + 1
               b2 == InsertAt(b, p, r)
           IN  b2 \in Seq(NumberedRec) /\ Holds(b2, h, lo, n) /\ Offsets(b2) = Offsets(b) \cup {Off(r.sn)}
<1> DEFINE S == {i \in DOMAIN b : _itimediff(r.sn, b[i].sn) > 0}
           c == Cardinality(S)
           p == c + 1
           b2 == InsertAt(b, p, r)
           x == Off(r.sn)
           m == Len(b)
           o == [i \in 1..m |-> Off(b[i].sn)]
<1>1. m \in Nat /\ DOMAIN b = 1..m /\ r.sn \in Numbers /\ x \in Nat
  BY OffType DEF NumberedRec
<1>2. \A i \in 1..m : /\ b[i].sn \in Numbers /\ Off(b[i].sn) \in Nat
                      /\ Off(b[i].sn) >= lo /\ Off(b[i].sn) < n
                      /\ IsSegment(b[i], h, Off(b[i].sn) + 1)
  BY Numbered DEF Holds
<1>3. \A i \in 1..m : o[i] = Off(b[i].sn) /\ o[i] \in Nat /\ o[i] # x /\ (i \in S <=> o[i] < x)
  <2> SUFFICES ASSUME NEW i \in 1..m
               PROVE  o[i] = Off(b[i].sn) /\ o[i] \in Nat /\ o[i] # x /\ (i \in S <=> o[i] < x)
    OBVIOUS
  <2>1. o[i] = Off(b[i].sn) /\ o[i] \in Nat
    BY <1>2
  <2>2. o[i] # x
    BY <1>1, <1>2, <2>1, OffInjective
  <2>3. 2 * x < SeqSpace /\ 2 * Off(b[i].sn) < SeqSpace
    <3>1. x \in Nat /\ x < n /\ Off(b[i].sn) \in Nat /\ Off(b[i].sn) < n
      BY <1>1, <1>2
    <3> HIDE DEF x
    <3> QED BY <3>1, Widths
  <2>4. _itimediff(r.sn, b[i].sn) = x - Off(b[i].sn)
    BY <1>1, <1>2, <2>3, DiffIs
  <2>5. i \in S <=> x - o[i] > 0
    BY <1>1, <2>1, <2>4
  <2> HIDE DEF o, x, S
  <2> QED BY <1>1, <2>1, <2>2, <2>5
<1>4. \A i, l \in 1..m : i < l => o[i] < o[l]
  BY <1>3 DEF Holds
<1>5. S \in SUBSET (1..m) /\ \A i \in S : \A j \in 1..i : j \in S
  <2>1. S \in SUBSET (1..m)
    BY <1>1
  <2>2. ASSUME NEW i \in S, NEW j \in 1..i PROVE j \in S
    <3> HIDE DEF S, o, x
    <3>1. i \in 1..m /\ j \in 1..m /\ (j = i \/ j < i)
      BY <1>1, <2>1
    <3>2. o[i] < x /\ o[i] \in Nat /\ o[j] \in Nat
      BY <1>3, <3>1
    <3>3. o[j] < x
      BY <1>1, <1>4, <3>1, <3>2
    <3> QED BY <1>3, <3>1, <3>3
  <2> QED BY <2>1, <2>2
<1>6. c \in 0..m /\ \A i \in 1..m : i \in S <=> i <= c
  <2> HIDE DEF S
  <2> QED BY <1>1, <1>5, FirstOnes
<1>7. c \in Nat /\ c <= m /\ p \in 1..(m + 1)
  <2> HIDE DEF c
  <2> QED BY <1>1, <1>6
<1> HIDE DEF c
<1>8. /\ b2 \in Seq(NumberedRec) /\ Len(b2) = m + 1
      /\ \A i \in 1..(m + 1) : b2[i] = IF i < p THEN b[i] ELSE IF i = p THEN r ELSE b[i - 1]
  <2> HIDE DEF p
  <2> QED BY <1>7, InsertIs
<1> HIDE DEF S, o, b2
<1> DEFINE o2 == [i \in 1..(m + 1) |-> Off(b2[i].sn)]
<1>9. \A i \in 1..(m + 1) : /\ i < p => i \in 1..m /\ b2[i] = b[i] /\ o[i] < x
                            /\ i = p => b2[i] = r
                            /\ i > p => i - 1 \in 1..m /\ b2[i] = b[i - 1] /\ o[i - 1] > x
  <2> SUFFICES ASSUME NEW i \in 1..(m + 1)
               PROVE  /\ i < p => i \in 1..m /\ b2[i] = b[i] /\ o[i] < x
                      /\ i = p => b2[i] = r
                      /\ i > p => i - 1 \in 1..m /\ b2[i] = b[i - 1] /\ o[i - 1] > x
    OBVIOUS
  <2> HIDE DEF x, m
  <2>1. CASE i < p
    <3>1. i \in 1..m /\ i <= c
      BY <1>1, <1>7, <2>1
    <3> QED BY <1>3, <1>6, <1>7, <1>8, <2>1, <3>1
  <2>2. CASE i = p
    BY <1>7, <1>8, <2>2
  <2>3. CASE i > p
    <3>1. i - 1 \in 1..m /\ ~(i - 1 <= c) /\ ~(i < p) /\ i # p
      BY <1>1, <1>7, <2>3
    <3>2. o[i - 1] \in Nat /\ o[i - 1] # x /\ ~(o[i - 1] < x)
      BY <1>3, <1>6, <3>1
    <3>3. o[i - 1] > x
      BY <1>1, <3>2
    <3>4. b2[i] = b[i - 1]
      BY <1>8, <3>1
    <3> QED BY <2>3, <3>1, <3>3, <3>4, <1>7
  <2> QED BY <1>7, <2>1, <2>2, <2>3
<1>10. ASSUME NEW i \in 1..(m + 1)
       PROVE  /\ o2[i] = IF i < p THEN o[i] ELSE IF i = p THEN x ELSE o[i - 1]
              /\ o2[i] = Off(b2[i].sn)
              /\ Off(b2[i].sn) >= lo /\ Off(b2[i].sn) < n
              /\ IsSegment(b2[i], h, Off(b2[i].sn) + 1)
  <2>0. o2[i] = Off(b2[i].sn)
    OBVIOUS
  <2>1. CASE i < p
    <3>1. i \in 1..m /\ b2[i] = b[i]
      BY <1>9, <2>1
    <3> HIDE DEF o2
    <3> QED BY <1>2, <1>3, <2>0, <2>1, <3>1
  <2>2. CASE i = p
    <3>1. b2[i] = r
      BY <1>9, <2>2
    <3> HIDE DEF o2
    <3> QED BY <2>0, <2>2, <3>1, <1>7
  <2>3. CASE i > p
    <3>1. i - 1 \in 1..m /\ b2[i] = b[i - 1] /\ ~(i < p) /\ i # p
      BY <1>7, <1>9, <2>3
    <3> HIDE DEF o2
    <3> QED BY <1>2, <1>3, <2>0, <3>1
  <2> QED BY <1>7, <2>1, <2>2, <2>3
<1>11. ASSUME NEW i \in 1..(m + 1), NEW l \in 1..(m + 1), i < l PROVE o2[i] < o2[l]
  <2> HIDE DEF o2, x
  <2>1. /\ o2[i] = IF i < p THEN o[i] ELSE IF i = p THEN x ELSE o[i - 1]
        /\ o2[l] = IF l < p THEN o[l] ELSE IF l = p THEN x ELSE o[l - 1]
    BY <1>10
  <2>2. CASE i < p
    <3>1. i \in 1..m /\ o[i] < x /\ o[i] \in Nat
      BY <1>3, <1>9, <2>2
    <3>2. CASE l < p
      <4>1. l \in 1..m
        BY <1>9, <3>2
      <4> QED BY <1>4, <1>11, <2>1, <2>2, <3>1, <3>2, <4>1
    <3>3. CASE l = p
      BY <2>1, <2>2, <3>1, <3>3, <1>7
    <3>4. CASE l > p
      <4>1. l - 1 \in 1..m /\ o[l - 1] > x /\ o[l - 1] \in Nat /\ ~(l < p) /\ l # p
        BY <1>3, <1>7, <1>9, <3>4
      <4> QED BY <1>1, <2>1, <2>2, <3>1, <4>1
    <3> QED BY <1>7, <3>2, <3>3, <3>4
  <2>3. CASE i = p
    <3>1. l > p
      BY <1>7, <1>11, <2>3
    <3>2. l - 1 \in 1..m /\ o[l - 1] > x /\ o[l - 1] \in Nat /\ ~(l < p) /\ l # p
      BY <1>3, <1>7, <1>9, <3>1
    <3>3. ~(i < p)
      BY <1>7, <2>3
    <3> QED BY <1>1, <2>1, <2>3, <3>2, <3>3
  <2>4. CASE i > p
    <3>1. l > p /\ i - 1 < l - 1 /\ ~(i < p) /\ i # p
      BY <1>7, <1>11, <2>4
    <3>2. l - 1 \in 1..m /\ i - 1 \in 1..m /\ ~(l < p) /\ l # p
      BY <1>7, <1>9, <2>4, <3>1
    <3> QED BY <1>4, <2>1, <3>1, <3>2
  <2> QED BY <1>7, <2>2, <2>3, <2>4
<1>12. Holds(b2, h, lo, n)
  <2>1. \A i \in 1..Len(b2) : /\ Off(b2[i].sn) >= lo /\ Off(b2[i].sn) < n
                              /\ IsSegment(b2[i], h, Off(b2[i].sn) + 1)
    BY <1>8, <1>10
  <2>2. \A i, l \in 1..Len(b2) : i < l => Off(b2[i].sn) < Off(b2[l].sn)
    BY <1>8, <1>10, <1>11
  <2> QED BY <2>1, <2>2 DEF Holds
<1>13. ASSUME NEW y PROVE y \in Offsets(b2) <=> y \in Offsets(b) \/ y = x
  <2>1. ASSUME y \in Offsets(b2) PROVE y \in Offsets(b) \/ y = x
    <3>1. PICK i \in 1..(m + 1) : y = Off(b2[i].sn)
      BY <1>8, <2>1 DEF Offsets
    <3>2. (\E l \in 1..m : b2[i] = b[l]) \/ b2[i] = r
      <4>1. i < p \/ i = p \/ i > p
        BY <1>7
      <4> QED BY <1>9, <4>1
    <3> QED BY <3>1, <3>2 DEF Offsets
  <2>2. ASSUME y \in Offsets(b) PROVE y \in Offsets(b2)
    <3>1. PICK l \in 1..m : y = Off(b[l].sn)
      BY <2>2 DEF Offsets
    <3>2. \E i \in 1..(m + 1) : b2[i] = b[l]
      <4>1. CASE l < p
        <5>1. l \in 1..(m + 1)
          BY <1>1
        <5> QED BY <1>9, <4>1, <5>1
      <4>2. CASE ~(l < p)
        <5>1. l + 1 \in 1..(m + 1) /\ l + 1 > p /\ l + 1 - 1 = l
          BY <1>1, <1>7, <4>2
        <5>2. b2[l + 1] = b[l + 1 - 1]
          BY <1>9, <5>1
        <5> QED BY <5>1, <5>2
      <4> QED BY <4>1, <4>2
    <3> QED BY <1>8, <3>1, <3>2 DEF Offsets
  <2>3. ASSUME y = x PROVE y \in Offsets(b2)
    <3>1. p \in 1..(m + 1) /\ b2[p] = r
      BY <1>7, <1>9
    <3> HIDE DEF p
    <3> QED BY <1>8, <2>3, <3>1 DEF Offsets
  <2> QED BY <2>1, <2>2, <2>3
<1>14. Offsets(b2) = Offsets(b) \cup {x}
  BY <1>13
<1> QED BY <1>8, <1>12, <1>14 DEF b2, c, S

\* ikcp_parse_data receives a segment of the window, once.
LEMMA ParsesData ==
    ASSUME NEW k \in Block, NEW h, NEW n \in Nat, 2 * n < SeqSpace, Collects(k, h, n),
           NEW s \in SegmentRec, Off(k.rcv_nxt) <= Off(s.sn), Off(s.sn) < n,
           IsSegment(s, h, Off(s.sn) + 1)
    PROVE  LET j == ikcp_parse_data(k, s) IN
           /\ j \in Block /\ SameSender(k, j) /\ j.acklist = k.acklist
           /\ Collects(j, h, n)
           /\ Len(j.rcv_queue) < rcv_wnd => Off(j.rcv_nxt) \notin Offsets(j.rcv_buf)
           /\ Read(j) = Read(k) /\ Off(k.rcv_nxt) <= Off(j.rcv_nxt)
           /\ \A o \in Nat : Got(j, o) <=> Got(k, o) \/ o = Off(s.sn)
<1> DEFINE b == k.rcv_buf
           r == [sn |-> s.sn, frg |-> s.frg, data |-> s.data]
           S == {i \in DOMAIN b : _itimediff(s.sn, b[i].sn) > 0}
           repeat == \E i \in DOMAIN b : b[i].sn = s.sn
           b2 == InsertAt(b, Cardinality(S) + 1, r)
           k2 == IF repeat THEN k ELSE [k EXCEPT !.rcv_buf = b2]
           j == MoveToRcvQueue(k2)
<1>1. ikcp_parse_data(k, s) = j
  BY DEF ikcp_parse_data
<1>2. /\ b \in Seq(NumberedRec) /\ DOMAIN b = 1..Len(b) /\ k.rcv_nxt \in Numbers
      /\ Off(k.rcv_nxt) \in Nat /\ r \in NumberedRec /\ Off(s.sn) \in Nat
      /\ Holds(b, h, Off(k.rcv_nxt), n)
  <2>1. /\ b \in Seq(NumberedRec) /\ DOMAIN b = 1..Len(b) /\ k.rcv_nxt \in Numbers
    BY BlockFields
  <2>2. r \in NumberedRec /\ s.sn \in Numbers
    BY DEF SegmentRec, NumberedRec
  <2>3. Holds(b, h, Off(k.rcv_nxt), n)
    BY DEF Collects
  <2> QED BY <2>1, <2>2, <2>3, OffType
<1>3. k2 \in Block /\ SameSender(k, k2) /\ k2.acklist = k.acklist
      /\ k2.rcv_nxt = k.rcv_nxt /\ k2.rcv_queue = k.rcv_queue
      /\ Holds(k2.rcv_buf, h, Off(k.rcv_nxt), n)
      /\ Offsets(k2.rcv_buf) = Offsets(b) \cup {Off(s.sn)}
  <2>1. CASE repeat
    <3>1. PICK i \in 1..Len(b) : b[i].sn = s.sn
      BY <1>2, <2>1
    <3>2. Off(s.sn) \in Offsets(b)
      BY <3>1 DEF Offsets
    <3>3. k2 = k
      BY <2>1
    <3> HIDE DEF k2, repeat
    <3> QED BY <1>2, <3>2, <3>3 DEF SameSender
  <2>2. CASE ~repeat
    <3>1. IsSegment(r, h, Off(r.sn) + 1) /\ r.sn = s.sn
      BY DEF IsSegment
    <3>2. \A i \in 1..Len(b) : b[i].sn # r.sn
      BY <1>2, <2>2, <3>1
    <3>3. S = {i \in DOMAIN b : _itimediff(r.sn, b[i].sn) > 0}
      BY <3>1
    <3> HIDE DEF r, S, repeat
    <3>4. /\ b2 \in Seq(NumberedRec) /\ Holds(b2, h, Off(k.rcv_nxt), n)
          /\ Offsets(b2) = Offsets(b) \cup {Off(r.sn)}
      <4> HIDE DEF b
      <4> QED BY <1>2, <3>1, <3>2, <3>3, Inserts, ZenonT(40)
    <3>5. k2 = [k EXCEPT !.rcv_buf = b2]
      BY <2>2
    <3> HIDE DEF b2, k2
    <3>6. k2 \in Block /\ k2.rcv_buf = b2 /\ k2.rcv_nxt = k.rcv_nxt /\ k2.rcv_queue = k.rcv_queue
          /\ SameSender(k, k2) /\ k2.acklist = k.acklist
      BY <3>4, <3>5 DEF Block, SameSender
    <3> QED BY <3>1, <3>4, <3>6
  <2> QED BY <2>1, <2>2
<1> HIDE DEF k2, r, b2, S, repeat
<1>4. Collects(k2, h, n) /\ Read(k2) = Read(k)
  BY <1>3 DEF Collects, Read
<1>5. /\ j \in Block /\ SameSender(k2, j) /\ j.acklist = k2.acklist
      /\ Collects(j, h, n)
      /\ Len(j.rcv_queue) < rcv_wnd => Off(j.rcv_nxt) \notin Offsets(j.rcv_buf)
      /\ Read(j) = Read(k2) /\ Off(k2.rcv_nxt) <= Off(j.rcv_nxt)
      /\ \A o \in Nat : Got(j, o) <=> Got(k2, o)
  BY <1>3, <1>4, Moves
<1>6. \A o \in Nat : Got(k2, o) <=> Got(k, o) \/ o = Off(s.sn)
  BY <1>3 DEF Got
<1> HIDE DEF j
<1>7. SameSender(k, j)
  BY <1>3, <1>5 DEF SameSender
<1> QED BY <1>1, <1>3, <1>4, <1>5, <1>6, <1>7

\* The block that a packet of the peer's numbered segments changes stays a block that
\* receives: InputPush keeps what was received and what was read.
LEMMA InputsPush ==
    ASSUME NEW k \in Block, NEW h, NEW n \in Nat, 2 * (n + rcv_wnd) < SeqSpace, Receives(k, h, n),
           NEW s \in SegmentRec, Off(s.sn) < n, IsSegment(s, h, Off(s.sn) + 1)
    PROVE  LET j == InputPush(k, s) IN
           /\ j \in Block /\ SameSender(k, j) /\ Receives(j, h, n)
           /\ Read(j) = Read(k) /\ Off(k.rcv_nxt) <= Off(j.rcv_nxt)
           /\ \A o \in Nat : Got(k, o) => Got(j, o)
<1> DEFINE R == Off(k.rcv_nxt)
           x == Off(s.sn)
           w == Plus(k.rcv_nxt, rcv_wnd)
           k2 == [k EXCEPT !.acklist = Append(@, s.sn)]
           j == InputPush(k, s)
<1>1. /\ k.rcv_nxt \in Numbers /\ R \in Nat /\ R <= n /\ s.sn \in Numbers /\ x \in Nat /\ x < n
      /\ k.acklist \in Seq(Numbers) /\ Collects(k, h, n)
  BY BlockFields, OffType DEF Receives, Collects, SegmentRec
<1>2. 2 * x < SeqSpace /\ 2 * R < SeqSpace /\ R + rcv_wnd < SeqSpace /\ 2 * (R + rcv_wnd) < SeqSpace
      /\ 2 * n < SeqSpace
  <2> HIDE DEF x, R
  <2> QED BY <1>1, Widths
<1>3. w \in Numbers /\ Off(w) = R + rcv_wnd
  BY <1>1, <1>2, OffPlus, Widths
<1>4. _itimediff(s.sn, k.rcv_nxt) = x - R /\ _itimediff(s.sn, w) = x - (R + rcv_wnd)
  BY <1>1, <1>2, <1>3, DiffIs
<1>5. /\ k2 \in Block /\ SameSender(k, k2) /\ SameReceiver(k, k2)
      /\ k2.acklist = Append(k.acklist, s.sn) /\ k2.acklist \in Seq(Numbers)
      /\ Len(k2.acklist) = Len(k.acklist) + 1
      /\ \A i \in 1..(Len(k.acklist) + 1) :
             k2.acklist[i] = IF i <= Len(k.acklist) THEN k.acklist[i] ELSE s.sn
  <2> DEFINE a == Append(k.acklist, s.sn)
  <2>1. /\ a \in Seq(Numbers) /\ Len(a) = Len(k.acklist) + 1
        /\ \A i \in 1..(Len(k.acklist) + 1) : a[i] = IF i <= Len(k.acklist) THEN k.acklist[i] ELSE s.sn
    BY <1>1
  <2>2. k2 = [k EXCEPT !.acklist = a]
    OBVIOUS
  <2> HIDE DEF a, k2
  <2>3. /\ k2 \in Block /\ SameSender(k, k2) /\ SameReceiver(k, k2) /\ k2.acklist = a
    BY <2>1, <2>2 DEF Block, SameSender, SameReceiver
  <2> QED BY <2>1, <2>3 DEF a
<1>6. /\ Collects(k2, h, n) /\ Read(k2) = Read(k)
      /\ Len(k2.rcv_queue) < rcv_wnd => Off(k2.rcv_nxt) \notin Offsets(k2.rcv_buf)
      /\ \A o \in Nat : Got(k2, o) <=> Got(k, o)
  <2> HIDE DEF k2
  <2> QED BY <1>5 DEF SameReceiver, Receives, Collects, Read, Got
\* A number in the longer acklist was got, once s is.
<1>7. ASSUME NEW i \in 1..Len(k2.acklist)
      PROVE  Off(k2.acklist[i]) \in Nat /\ (Got(k, Off(k2.acklist[i])) \/ Off(k2.acklist[i]) = x)
  <2> HIDE DEF k2, x
  <2>1. k2.acklist[i] \in Numbers
    BY <1>5
  <2>2. CASE i <= Len(k.acklist)
    <3>1. i \in 1..Len(k.acklist) /\ i \in 1..(Len(k.acklist) + 1)
      BY <1>1, <2>2
    <3>2. k2.acklist[i] = k.acklist[i]
      BY <1>5, <2>2, <3>1
    <3>3. Got(k, Off(k.acklist[i]))
      BY <3>1 DEF Receives
    <3> QED BY <2>1, <3>2, <3>3, OffType
  <2>3. CASE ~(i <= Len(k.acklist))
    <3>1. k2.acklist[i] = s.sn
      BY <1>5, <2>3
    <3> QED BY <2>1, <3>1, OffType DEF x
  <2> QED BY <2>2, <2>3
<1>8. CASE _itimediff(s.sn, w) >= 0
  <2>1. j = k
    BY <1>8, Zenon DEF InputPush
  <2> QED BY <1>1, <2>1 DEF SameSender
<1>9. CASE ~(_itimediff(s.sn, w) >= 0) /\ _itimediff(s.sn, k.rcv_nxt) < 0
  <2>1. j = k2
    BY <1>9, Zenon DEF InputPush
  <2>2. Got(k, x)
    <3>1. x < R
      <4> HIDE DEF x, R
      <4> QED BY <1>1, <1>4, <1>9
    <3> QED BY <3>1 DEF Got
  <2>3. \A i \in 1..Len(k2.acklist) : Got(k2, Off(k2.acklist[i]))
    <3> HIDE DEF k2, x
    <3> QED BY <1>6, <1>7, <2>2
  <2>4. k2.rcv_nxt = k.rcv_nxt
    BY <1>5 DEF SameReceiver
  <2> HIDE DEF k2, j
  <2>5. Receives(k2, h, n)
    BY <1>6, <2>3 DEF Receives
  <2>6. R <= R
    BY <1>1
  <2> QED BY <1>5, <1>6, <2>1, <2>4, <2>5, <2>6 DEF j
<1>10. CASE ~(_itimediff(s.sn, w) >= 0) /\ ~(_itimediff(s.sn, k.rcv_nxt) < 0)
  <2>1. j = ikcp_parse_data(k2, s)
    BY <1>10, Zenon DEF InputPush
  <2>2. k2.rcv_nxt = k.rcv_nxt /\ R <= x
    <3>1. k2.rcv_nxt = k.rcv_nxt
      BY <1>5 DEF SameReceiver
    <3> HIDE DEF x, R
    <3> QED BY <1>1, <1>4, <1>10, <3>1
  <2> HIDE DEF k2, j
  <2>3. /\ j \in Block /\ SameSender(k2, j) /\ j.acklist = k2.acklist
        /\ Collects(j, h, n)
        /\ Len(j.rcv_queue) < rcv_wnd => Off(j.rcv_nxt) \notin Offsets(j.rcv_buf)
        /\ Read(j) = Read(k2) /\ Off(k2.rcv_nxt) <= Off(j.rcv_nxt)
        /\ \A o \in Nat : Got(j, o) <=> Got(k2, o) \/ o = Off(s.sn)
    BY <1>2, <1>5, <1>6, <2>1, <2>2, ParsesData
  <2>4. \A i \in 1..Len(j.acklist) : Got(j, Off(j.acklist[i]))
    <3> HIDE DEF x
    <3> QED BY <1>6, <1>7, <2>3 DEF x
  <2>5. Receives(j, h, n) /\ SameSender(k, j)
    BY <1>5, <2>3, <2>4 DEF Receives, SameSender
  <2> QED BY <1>6, <2>2, <2>3, <2>5 DEF j
<1> QED BY <1>8, <1>9, <1>10

-------------------------------------------------------------------------------
(* The half that sends: acknowledgements.                                  *)

\* A buffer without its first elements, and without one of them.
LEMMA DropThins ==
    ASSUME NEW b \in Seq(SentRec), NEW c \in 0..Len(b)
    PROVE  /\ Drop(b, c) \in Seq(SentRec) /\ Thinned(b, Drop(b, c))
           /\ \A i \in 1..Len(b) : i > c => Off(b[i].sn) \in Offsets(Drop(b, c))
<1> DEFINE b2 == Drop(b, c)
           g == [i \in 1..Len(b2) |-> c + i]
<1>1. b2 \in Seq(SentRec) /\ Len(b2) = Len(b) - c /\ \A i \in 1..(Len(b) - c) : b2[i] = b[c + i]
  BY DropIs
<1> HIDE DEF b2
<1>2. g \in [1..Len(b2) -> 1..Len(b)]
  BY <1>1
<1>3. (\A i \in 1..Len(b2) : b2[i] = b[g[i]]) /\ \A i, l \in 1..Len(b2) : i < l => g[i] < g[l]
  BY <1>1
<1>4. Thinned(b, b2)
  <2> HIDE DEF g
  <2> QED BY <1>2, <1>3 DEF Thinned
<1>5. ASSUME NEW i \in 1..Len(b), i > c PROVE Off(b[i].sn) \in Offsets(b2)
  <2> DEFINE d == i - c
  <2>1. d \in 1..Len(b2) /\ d \in 1..(Len(b) - c) /\ c + d = i
    BY <1>1, <1>5
  <2>2. b2[d] = b[i]
    BY <1>1, <2>1
  <2> HIDE DEF d
  <2> QED BY <2>1, <2>2 DEF Offsets
<1> QED BY <1>1, <1>4, <1>5 DEF b2

LEMMA RemoveThins ==
    ASSUME NEW b \in Seq(SentRec), NEW p \in 1..Len(b)
    PROVE  /\ RemoveAt(b, p) \in Seq(SentRec) /\ Thinned(b, RemoveAt(b, p))
           /\ \A i \in 1..Len(b) : i # p => Off(b[i].sn) \in Offsets(RemoveAt(b, p))
<1> DEFINE b2 == RemoveAt(b, p)
           g == [i \in 1..Len(b2) |-> IF i < p THEN i ELSE i + 1]
<1>1. /\ b2 \in Seq(SentRec) /\ Len(b2) = Len(b) - 1
      /\ \A i \in 1..(Len(b) - 1) : b2[i] = IF i < p THEN b[i] ELSE b[i + 1]
  BY RemoveIs
<1> HIDE DEF b2
<1>2. g \in [1..Len(b2) -> 1..Len(b)]
  BY <1>1
<1>3. (\A i \in 1..Len(b2) : b2[i] = b[g[i]]) /\ \A i, l \in 1..Len(b2) : i < l => g[i] < g[l]
  BY <1>1
<1>4. Thinned(b, b2)
  <2> HIDE DEF g
  <2> QED BY <1>2, <1>3 DEF Thinned
<1>5. ASSUME NEW i \in 1..Len(b), i # p PROVE Off(b[i].sn) \in Offsets(b2)
  <2> DEFINE d == IF i < p THEN i ELSE i - 1
  <2>1. d \in 1..Len(b2) /\ d \in 1..(Len(b) - 1)
    BY <1>1, <1>5
  <2>2. b2[d] = b[i]
    <3>1. CASE i < p
      BY <1>1, <2>1, <3>1
    <3>2. CASE ~(i < p)
      <4>1. d = i - 1 /\ ~(d < p) /\ d + 1 = i
        BY <1>5, <3>2
      <4> HIDE DEF d
      <4> QED BY <1>1, <2>1, <4>1
    <3> QED BY <3>1, <3>2
  <2> HIDE DEF d
  <2> QED BY <2>1, <2>2 DEF Offsets
<1> QED BY <1>1, <1>4, <1>5 DEF b2

\* ikcp_shrink_buf behind a removal from snd_buf.
LEMMA Shrinks ==
    ASSUME NEW k \in Block, NEW h, h.len \in Nat, NEW K, Keeps(k, h, K),
           NEW b2 \in Seq(SentRec), Thinned(k.snd_buf, b2), K \subseteq Offsets(b2)
    PROVE  LET j == ikcp_shrink_buf([k EXCEPT !.snd_buf = b2]) IN
           /\ j \in Block /\ Keeps(j, h, K) /\ SameReceiver(k, j) /\ j.acklist = k.acklist
           /\ j.snd_nxt = k.snd_nxt /\ j.rmt_wnd = k.rmt_wnd
<1> DEFINE t == [k EXCEPT !.snd_buf = b2]
           j == ikcp_shrink_buf(t)
           u == IF b2 = <<>> THEN k.snd_nxt ELSE b2[1].sn
           b == k.snd_buf
           U == Off(k.snd_una)
           N == Off(k.snd_nxt)
<1>1. /\ k.snd_una \in Numbers /\ k.snd_nxt \in Numbers /\ U \in Nat /\ N \in Nat
      /\ b \in Seq(SentRec) /\ Len(b) \in Nat
  BY BlockFields, OffType
<1>2. /\ N + Len(k.snd_queue) = h.len /\ Continues(k.snd_queue, h, N)
      /\ Holds(b, h, U, N) /\ U <= N /\ N - U <= snd_wnd /\ N - U <= rcv_wnd
      /\ \A i \in 1..Len(b) : b[i].xmit > 0
  BY DEF Keeps, Sends
<1>3. PICK g \in [1..Len(b2) -> 1..Len(b)] :
          /\ \A i \in 1..Len(b2) : b2[i] = b[g[i]]
          /\ \A i, l \in 1..Len(b2) : i < l => g[i] < g[l]
  BY DEF Thinned
<1>4. \A i \in 1..Len(b2) : b2[i] \in SentRec /\ b2[i].sn \in Numbers /\ Off(b2[i].sn) \in Nat
  BY Numbered
<1> HIDE DEF b
<1>5. /\ \A i \in 1..Len(b2) : /\ Off(b2[i].sn) >= U /\ Off(b2[i].sn) < N /\ b2[i].xmit > 0
                               /\ IsSegment(b2[i], h, Off(b2[i].sn) + 1)
      /\ \A i, l \in 1..Len(b2) : i < l => Off(b2[i].sn) < Off(b2[l].sn)
  <2> HIDE DEF U, N
  <2>1. \A i \in 1..Len(b2) : g[i] \in 1..Len(b) /\ b2[i] = b[g[i]]
    BY <1>3
  <2>2. \A i \in 1..Len(b2) : /\ Off(b2[i].sn) >= U /\ Off(b2[i].sn) < N /\ b2[i].xmit > 0
                              /\ IsSegment(b2[i], h, Off(b2[i].sn) + 1)
    BY <1>2, <2>1 DEF Holds
  <2>3. \A i, l \in 1..Len(b2) : i < l => Off(b2[i].sn) < Off(b2[l].sn)
    BY <1>2, <1>3, <2>1 DEF Holds
  <2> QED BY <2>2, <2>3
<1>6. b2 # <<>> => 1 \in 1..Len(b2) /\ Head(b2) = b2[1]
  OBVIOUS
<1>7. u \in Numbers /\ Off(u) >= U /\ Off(u) <= N /\ Off(u) \in Nat
  <2>1. CASE b2 = <<>>
    <3> HIDE DEF U, N
    <3> QED BY <1>1, <1>2, <2>1 DEF N
  <2>2. CASE b2 # <<>>
    <3>1. 1 \in 1..Len(b2) /\ u = b2[1].sn
      BY <1>6, <2>2
    <3>2. u \in Numbers /\ Off(u) \in Nat /\ Off(u) >= U /\ Off(u) < N
      BY <1>4, <1>5, <3>1
    <3> HIDE DEF u, U, N
    <3> QED BY <1>1, <3>2
  <2> QED BY <2>1, <2>2
<1>8. t.snd_buf = b2 /\ t.snd_nxt = k.snd_nxt
  BY DEF Block
<1>9. j = [k EXCEPT !.snd_buf = b2, !.snd_una = u]
  <2>1. u = IF t.snd_buf = <<>> THEN t.snd_nxt ELSE Head(t.snd_buf).sn
    BY <1>6, <1>8
  <2>2. j = [t EXCEPT !.snd_una = IF t.snd_buf = <<>> THEN t.snd_nxt ELSE Head(t.snd_buf).sn]
    BY DEF ikcp_shrink_buf
  <2>3. j = [t EXCEPT !.snd_una = u]
    BY <2>1, <2>2
  <2> HIDE DEF j, u
  <2> QED BY <2>3
<1> HIDE DEF j, u
<1>10. /\ j \in Block /\ j.snd_buf = b2 /\ j.snd_una = u /\ j.snd_nxt = k.snd_nxt
       /\ j.snd_queue = k.snd_queue /\ SameReceiver(k, j) /\ j.acklist = k.acklist
       /\ j.rmt_wnd = k.rmt_wnd
  BY <1>7, <1>9 DEF Block, SameReceiver
<1>11. Holds(b2, h, Off(u), N)
  <2>1. ASSUME NEW i \in 1..Len(b2) PROVE Off(b2[i].sn) >= Off(u)
    <3>1. b2 # <<>> /\ 1 \in 1..Len(b2)
      OBVIOUS
    <3>2. u = b2[1].sn
      BY <3>1 DEF u
    <3>3. Off(b2[1].sn) \in Nat /\ Off(b2[i].sn) \in Nat /\ (i = 1 \/ 1 < i)
      BY <1>4, <3>1
    <3>4. 1 < i => Off(b2[1].sn) < Off(b2[i].sn)
      BY <1>5, <3>1
    <3> QED BY <3>2, <3>3, <3>4
  <2> QED BY <1>5, <2>1 DEF Holds
<1>12. N - Off(u) <= snd_wnd /\ N - Off(u) <= rcv_wnd
  <2> HIDE DEF U, N
  <2> QED BY <1>1, <1>2, <1>7, Widths
<1>13. Sends(j, h)
  BY <1>2, <1>7, <1>10, <1>11, <1>12 DEF Sends, u
<1>14. Keeps(j, h, K)
  BY <1>5, <1>10, <1>13 DEF Keeps
<1> QED BY <1>10, <1>14 DEF j

\* What is acknowledged by una leaves snd_buf, and nothing behind it.
LEMMA UnaKeeps ==
    ASSUME NEW k \in Block, NEW h, h.len \in Nat, 2 * h.len < SeqSpace, NEW K, Keeps(k, h, K),
           NEW una \in Numbers, 2 * Off(una) < SeqSpace, \A o \in K : Off(una) <= o
    PROVE  LET j == ikcp_shrink_buf(ikcp_parse_una(k, una)) IN
           /\ j \in Block /\ Keeps(j, h, K) /\ SameReceiver(k, j) /\ j.acklist = k.acklist
           /\ j.snd_nxt = k.snd_nxt /\ j.rmt_wnd = k.rmt_wnd
<1> DEFINE b == k.snd_buf
           S == {i \in DOMAIN b : \A l \in 1..i : _itimediff(una, b[l].sn) > 0}
           c == Cardinality(S)
           b2 == Drop(b, c)
<1>1. ikcp_parse_una(k, una) = [k EXCEPT !.snd_buf = b2]
  BY DEF ikcp_parse_una, PrefixLen
<1>2. b \in Seq(SentRec) /\ Len(b) \in Nat /\ DOMAIN b = 1..Len(b)
  BY BlockFields
<1>3. S \in SUBSET (1..Len(b)) /\ \A i \in S : \A l \in 1..i : l \in S
  <2>1. S \in SUBSET (1..Len(b))
    BY <1>2
  <2>2. ASSUME NEW i \in S, NEW l \in 1..i PROVE l \in S
    <3>1. l \in DOMAIN b /\ \A m \in 1..l : m \in 1..i
      <4>1. i \in 1..Len(b)
        BY <2>1
      <4> HIDE DEF S, b
      <4> QED BY <1>2, <4>1
    <3>2. \A m \in 1..i : _itimediff(una, b[m].sn) > 0
      OBVIOUS
    <3> QED BY <3>1, <3>2
  <2> QED BY <2>1, <2>2
<1>4. c \in 0..Len(b) /\ \A i \in 1..Len(b) : i \in S <=> i <= c
  <2> HIDE DEF S, b
  <2> QED BY <1>2, <1>3, FirstOnes
<1>5. /\ b2 \in Seq(SentRec) /\ Thinned(b, b2)
      /\ \A i \in 1..Len(b) : i > c => Off(b[i].sn) \in Offsets(b2)
  <2> HIDE DEF b, c
  <2> QED BY <1>2, <1>4, DropThins
<1>6. ASSUME NEW i \in 1..Len(b), i <= c PROVE Off(b[i].sn) < Off(una)
  <2>1. _itimediff(una, b[i].sn) > 0
    <3>1. i \in S /\ i \in 1..i
      <4> HIDE DEF S, b, c
      <4> QED BY <1>2, <1>4, <1>6
    <3> QED BY <3>1
  <2>2. b[i].sn \in Numbers /\ Off(b[i].sn) \in Nat /\ Off(una) \in Nat
    <3> HIDE DEF b
    <3> QED BY <1>2, Numbered, OffType
  <2>3. Off(b[i].sn) < Off(k.snd_nxt) /\ Off(k.snd_nxt) <= h.len /\ Off(k.snd_nxt) \in Nat
    <3>1. Off(b[i].sn) < Off(k.snd_nxt)
      BY DEF Keeps, Sends, Holds
    <3>2. Off(k.snd_nxt) + Len(k.snd_queue) = h.len /\ Len(k.snd_queue) \in Nat /\ Off(k.snd_nxt) \in Nat
      BY BlockFields, OffType DEF Keeps, Sends
    <3> QED BY <3>1, <3>2
  <2>4. 2 * Off(b[i].sn) < SeqSpace
    <3> DEFINE x == Off(b[i].sn)
               y == Off(k.snd_nxt)
    <3>1. x \in Nat /\ y \in Nat /\ x < y /\ y <= h.len
      BY <2>2, <2>3
    <3> HIDE DEF x, y
    <3>2. 2 * x < SeqSpace
      BY <3>1, Widths
    <3> QED BY <3>2 DEF x
  <2>5. _itimediff(una, b[i].sn) = Off(una) - Off(b[i].sn)
    BY <2>2, <2>4, DiffIs
  <2> HIDE DEF b
  <2> QED BY <2>1, <2>2, <2>5
<1>7. K \subseteq Offsets(b2)
  <2> SUFFICES ASSUME NEW o \in K PROVE o \in Offsets(b2)
    OBVIOUS
  <2>1. PICK i \in 1..Len(b) : o = Off(b[i].sn)
    BY DEF Keeps, Offsets
  <2>2. Off(una) <= o /\ o \in Nat /\ Off(una) \in Nat
    <3>1. o \in Nat
      <4> HIDE DEF b
      <4> QED BY <1>2, <2>1, Numbered
    <3> QED BY <3>1, OffType
  <2>3. ~(i <= c)
    <3> HIDE DEF b, c
    <3> QED BY <1>6, <2>1, <2>2
  <2>4. i > c
    <3> HIDE DEF b, c
    <3> QED BY <1>2, <1>4, <2>3
  <2> QED BY <1>5, <2>1, <2>4
<1> HIDE DEF b2
<1> DEFINE j == ikcp_shrink_buf([k EXCEPT !.snd_buf = b2])
<1>8. /\ j \in Block /\ Keeps(j, h, K) /\ SameReceiver(k, j) /\ j.acklist = k.acklist
      /\ j.snd_nxt = k.snd_nxt /\ j.rmt_wnd = k.rmt_wnd
  BY <1>5, <1>7, Shrinks
<1>9. ikcp_shrink_buf(ikcp_parse_una(k, una)) = j
  BY <1>1
<1> HIDE DEF j
<1> QED BY <1>8, <1>9

\* A segment that is acknowledged leaves snd_buf, and no other does.
LEMMA AckKeeps ==
    ASSUME NEW k \in Block, NEW h, h.len \in Nat, NEW K, Keeps(k, h, K),
           NEW sn \in Numbers, Off(sn) \notin K
    PROVE  LET j == ikcp_shrink_buf(ikcp_parse_ack(k, sn)) IN
           /\ j \in Block /\ Keeps(j, h, K) /\ SameReceiver(k, j) /\ j.acklist = k.acklist
           /\ j.snd_nxt = k.snd_nxt /\ j.rmt_wnd = k.rmt_wnd
<1> DEFINE b == k.snd_buf
           acked == {i \in DOMAIN b : b[i].sn = sn}
           p == Min(acked)
           j == ikcp_shrink_buf(ikcp_parse_ack(k, sn))
<1>1. b \in Seq(SentRec) /\ Len(b) \in Nat /\ DOMAIN b = 1..Len(b)
  BY BlockFields
<1>2. CASE SentAndUnacked(k, sn) /\ acked # {}
  <2>1. ikcp_parse_ack(k, sn) = [k EXCEPT !.snd_buf = RemoveAt(b, p)]
    BY <1>2 DEF ikcp_parse_ack
  <2>2. p \in acked
    <3>1. acked \in SUBSET Nat /\ acked # {}
      BY <1>1, <1>2
    <3> HIDE DEF acked
    <3> QED BY <3>1, MinIs
  <2>3. p \in 1..Len(b) /\ b[p].sn = sn
    <3> HIDE DEF p
    <3> QED BY <1>1, <2>2
  <2> DEFINE b2 == RemoveAt(b, p)
  <2>4. /\ b2 \in Seq(SentRec) /\ Thinned(b, b2)
        /\ \A i \in 1..Len(b) : i # p => Off(b[i].sn) \in Offsets(b2)
    <3> HIDE DEF b, p
    <3> QED BY <1>1, <2>3, RemoveThins
  <2>5. K \subseteq Offsets(b2)
    <3> SUFFICES ASSUME NEW o \in K PROVE o \in Offsets(b2)
      OBVIOUS
    <3>1. PICK i \in 1..Len(b) : o = Off(b[i].sn)
      BY DEF Keeps, Offsets
    <3>2. i # p
      <4> HIDE DEF b, p
      <4> QED BY <2>3, <3>1
    <3> QED BY <2>4, <3>1, <3>2
  <2> HIDE DEF b2
  <2> QED BY <2>1, <2>4, <2>5, Shrinks, ZenonT(40) DEF b2
<1>3. CASE ~(SentAndUnacked(k, sn) /\ acked # {})
  <2>1. ikcp_parse_ack(k, sn) = k
    BY <1>3 DEF ikcp_parse_ack
  <2> DEFINE b2 == Drop(b, 0)
  <2>2. 0 \in 0..Len(b)
    BY <1>1
  <2>3. /\ b2 \in Seq(SentRec) /\ Len(b2) = Len(b) /\ \A i \in 1..Len(b) : b2[i] = b[i]
    <3> HIDE DEF b
    <3>1. /\ b2 \in Seq(SentRec) /\ Len(b2) = Len(b) - 0 /\ \A i \in 1..(Len(b) - 0) : b2[i] = b[0 + i]
      BY <1>1, <2>2, DropIs
    <3>2. Len(b) - 0 = Len(b) /\ \A i \in 1..Len(b) : 0 + i = i
      BY <1>1
    <3> QED BY <3>1, <3>2
  <2>4. Thinned(b, b2)
    <3> HIDE DEF b
    <3> QED BY <1>1, <2>2, DropThins
  <2>5. b2 = b
    <3> HIDE DEF b, b2
    <3> QED BY <1>1, <2>3, SeqEqual
  <2>6. k = [k EXCEPT !.snd_buf = b]
    BY DEF Block
  <2>7. K \subseteq Offsets(b)
    BY DEF Keeps
  <2> HIDE DEF b2
  <2>8. Thinned(k.snd_buf, b)
    BY <2>4, <2>5
  <2>9. ikcp_shrink_buf(ikcp_parse_ack(k, sn)) = ikcp_shrink_buf([k EXCEPT !.snd_buf = b])
    BY <2>1, <2>6
  <2> HIDE DEF b
  <2> QED BY <1>1, <2>7, <2>8, <2>9, Shrinks, ZenonT(40)
<1> QED BY <1>2, <1>3

\* ikcp_parse_fastack only counts.
LEMMA FastackKeeps ==
    ASSUME NEW k \in Block, NEW h, NEW K, Keeps(k, h, K), NEW sn
    PROVE  LET j == ikcp_parse_fastack(k, sn) IN
           /\ j \in Block /\ Keeps(j, h, K) /\ SameReceiver(k, j) /\ j.acklist = k.acklist
           /\ j.snd_nxt = k.snd_nxt /\ j.rmt_wnd = k.rmt_wnd
<1> DEFINE b == k.snd_buf
           m == Cardinality({i \in DOMAIN b : \A l \in 1..i : _itimediff(sn, b[l].sn) >= 0})
           skipped == {i \in 1..m : b[i].sn # sn}
           b2 == [i \in DOMAIN b |-> IF i \in skipped
                                     THEN [b[i] EXCEPT !.fastack = Min({@ + 1, fastresend})] ELSE b[i]]
           j == ikcp_parse_fastack(k, sn)
<1>1. b \in Seq(SentRec) /\ Len(b) \in Nat /\ DOMAIN b = 1..Len(b)
  BY BlockFields
<1>2. CASE SentAndUnacked(k, sn)
  <2>1. j = [k EXCEPT !.snd_buf = b2]
    BY <1>2 DEF ikcp_parse_fastack, PrefixLen
  <2> HIDE DEF skipped
  <2>2. ASSUME NEW i \in 1..Len(b)
        PROVE  /\ b2[i] \in SentRec /\ b2[i].sn = b[i].sn /\ b2[i].frg = b[i].frg
               /\ b2[i].data = b[i].data /\ b2[i].xmit = b[i].xmit
    <3>1. b[i] \in SentRec
      <4> HIDE DEF b
      <4> QED BY <1>1, Numbered
    <3>2. b[i].fastack \in Nat
      BY <3>1 DEF SentRec
    <3> DEFINE f == Min({b[i].fastack + 1, fastresend})
    <3>3. f \in Nat
      <4>1. b[i].fastack + 1 \in Int /\ fastresend \in Int /\ b[i].fastack + 1 >= 0 /\ fastresend >= 0
        BY <3>2, Widths
      <4>2. f = IF b[i].fastack + 1 <= fastresend THEN b[i].fastack + 1 ELSE fastresend
        BY <4>1, MinOfTwo
      <4> HIDE DEF f, b
      <4> QED BY <4>1, <4>2
    <3>4. b2[i] = IF i \in skipped THEN [b[i] EXCEPT !.fastack = f] ELSE b[i]
      BY <1>1
    <3> HIDE DEF b, b2, f
    <3> QED BY <3>1, <3>3, <3>4 DEF SentRec
  <2>3. b2 \in Seq(SentRec) /\ Len(b2) = Len(b)
    <3>1. DOMAIN b2 = 1..Len(b) /\ b2 = [i \in 1..Len(b) |-> b2[i]]
      BY <1>1
    <3> HIDE DEF b, b2
    <3> QED BY <1>1, <2>2, <3>1
  <2> HIDE DEF b2, j
  <2>4. /\ j \in Block /\ j.snd_buf = b2 /\ j.snd_una = k.snd_una /\ j.snd_nxt = k.snd_nxt
        /\ j.snd_queue = k.snd_queue /\ SameReceiver(k, j) /\ j.acklist = k.acklist /\ j.rmt_wnd = k.rmt_wnd
    BY <2>1, <2>3 DEF Block, SameReceiver
  <2>5. Holds(b2, h, Off(k.snd_una), Off(k.snd_nxt))
    <3>1. Holds(b, h, Off(k.snd_una), Off(k.snd_nxt))
      BY DEF Keeps, Sends
    <3> HIDE DEF b
    <3> QED BY <2>2, <2>3, <3>1 DEF Holds, IsSegment
  <2>6. Offsets(b2) = Offsets(b)
    <3> HIDE DEF b
    <3>1. \A i \in 1..Len(b) : Off(b2[i].sn) = Off(b[i].sn)
      BY <2>2
    <3> QED BY <2>3, <3>1 DEF Offsets
  <2>7. k.snd_una = IF b2 = <<>> THEN k.snd_nxt ELSE b2[1].sn
    <3>1. k.snd_una = IF b = <<>> THEN k.snd_nxt ELSE b[1].sn
      BY DEF Keeps, Sends
    <3> HIDE DEF b
    <3>2. CASE b = <<>>
      <4>1. b2 = <<>>
        BY <2>3, <3>2
      <4> QED BY <3>1, <3>2, <4>1
    <3>3. CASE b # <<>>
      <4>1. 1 \in 1..Len(b) /\ b2 # <<>>
        BY <1>1, <2>3, <3>3
      <4> QED BY <2>2, <3>1, <3>3, <4>1
    <3> QED BY <3>2, <3>3
  <2>8. Sends(j, h)
    BY <2>4, <2>5, <2>7 DEF Sends, Keeps
  <2>9. Keeps(j, h, K)
    <3>1. \A i \in 1..Len(b2) : b2[i].xmit > 0
      BY <2>2, <2>3 DEF Keeps
    <3> QED BY <2>4, <2>6, <2>8, <3>1 DEF Keeps
  <2> QED BY <2>4, <2>9 DEF j
<1>3. CASE ~SentAndUnacked(k, sn)
  <2>1. j = k
    BY <1>3 DEF ikcp_parse_fastack
  <2> QED BY <2>1 DEF SameReceiver
<1> QED BY <1>2, <1>3

-------------------------------------------------------------------------------
(* ikcp_input.                                                             *)

\* Each half depends on its own fields only.
LEMMA HalvesApart ==
    ASSUME NEW k \in Block, NEW j \in Block
    PROVE  /\ \A h, K : SameSender(k, j) /\ Keeps(k, h, K) => Keeps(j, h, K)
           /\ \A h, n : SameReceiver(k, j) /\ j.acklist = k.acklist /\ Receives(k, h, n)
                            => Receives(j, h, n)
           /\ SameReceiver(k, j) => /\ Read(j) = Read(k) /\ Off(k.rcv_nxt) <= Off(j.rcv_nxt)
                                    /\ \A o \in Nat : Got(k, o) <=> Got(j, o)
<1>1. \A h, K : SameSender(k, j) /\ Keeps(k, h, K) => Keeps(j, h, K)
  BY DEF SameSender, Keeps, Sends
<1>2. \A h, n : SameReceiver(k, j) /\ j.acklist = k.acklist /\ Receives(k, h, n) => Receives(j, h, n)
  BY DEF SameReceiver, Receives, Collects, Got, Read
<1>3. ASSUME SameReceiver(k, j)
      PROVE  /\ Read(j) = Read(k) /\ Off(k.rcv_nxt) <= Off(j.rcv_nxt)
             /\ \A o \in Nat : Got(k, o) <=> Got(j, o)
  <2>1. Off(k.rcv_nxt) \in Nat
    BY BlockFields, OffType
  <2>2. j.rcv_nxt = k.rcv_nxt /\ j.rcv_buf = k.rcv_buf /\ j.rcv_queue = k.rcv_queue
    BY <1>3 DEF SameReceiver
  <2>3. Off(k.rcv_nxt) <= Off(j.rcv_nxt)
    BY <2>1, <2>2
  <2> QED BY <2>2, <2>3 DEF Read, Got
<1> QED BY <1>1, <1>2, <1>3

\* One turn of the loop of ikcp_input.
LEMMA InputsSegment ==
    ASSUME NEW out, out.len \in Nat, 2 * out.len < SeqSpace, NEW K,
           NEW in, NEW n \in Nat, 2 * (n + rcv_wnd) < SeqSpace,
           NEW k, Works(k, out, K, in, n), NEW s, Expected(s, in, n, K)
    PROVE  LET j == InputSegment(k, s) IN Works(j, out, K, in, n) /\ Later(k, j)
<1> DEFINE k1 == [k EXCEPT !.rmt_wnd = s.wnd]
           u == ikcp_shrink_buf(ikcp_parse_una(k1, s.una))
           a == ikcp_shrink_buf(ikcp_parse_ack(u, s.sn))
           p == InputPush(u, s)
           t == [u EXCEPT !.ask_tell = TRUE]
           j == InputSegment(k, s)
<1>1. /\ k \in Block /\ Keeps(k, out, K) /\ Receives(k, in, n)
      /\ s \in SegmentRec /\ s.cmd \in {"ACK", "PUSH", "WASK", "WINS"} /\ s.sn \in Numbers
      /\ s.una \in Numbers /\ s.wnd \in 1..rcv_wnd
  BY DEF Works, Expected, SegmentRec
<1>2. k1 \in Block /\ SameSender(k, k1) /\ SameReceiver(k, k1) /\ k1.acklist = k.acklist
  BY <1>1 DEF Block, SameSender, SameReceiver
<1> HIDE DEF k1
<1>3. Keeps(k1, out, K)
  BY <1>1, <1>2, HalvesApart
<1>4. /\ u \in Block /\ Keeps(u, out, K) /\ SameReceiver(k1, u) /\ u.acklist = k1.acklist
      /\ u.snd_nxt = k1.snd_nxt
  BY <1>1, <1>2, <1>3, UnaKeeps DEF Expected
<1> HIDE DEF u
<1>5. SameReceiver(k, u) /\ u.acklist = k.acklist /\ u.snd_nxt = k.snd_nxt
  BY <1>2, <1>4 DEF SameReceiver, SameSender
<1>6. Works(u, out, K, in, n) /\ Later(k, u)
  BY <1>1, <1>4, <1>5, HalvesApart DEF Works, Later
<1>7. j = CASE s.cmd = "ACK"  -> a
            [] s.cmd = "PUSH" -> p
            [] s.cmd = "WASK" -> t
            [] s.cmd = "WINS" -> u
  BY DEF InputSegment, u, k1
<1>8. CASE s.cmd = "ACK"
  <2>1. Off(s.sn) \notin K
    BY <1>8 DEF Expected
  <2>2. /\ a \in Block /\ Keeps(a, out, K) /\ SameReceiver(u, a) /\ a.acklist = u.acklist
        /\ a.snd_nxt = u.snd_nxt
    BY <1>1, <1>4, <2>1, AckKeeps
  <2>3. j = a
    BY <1>7, <1>8
  <2> HIDE DEF a, j
  <2>4. SameReceiver(k, a) /\ a.acklist = k.acklist /\ a.snd_nxt = k.snd_nxt
    BY <1>5, <2>2 DEF SameReceiver
  <2> QED BY <1>1, <2>2, <2>3, <2>4, HalvesApart DEF Works, Later, j
<1>9. CASE s.cmd = "PUSH"
  <2>1. Off(s.sn) < n /\ IsSegment(s, in, Off(s.sn) + 1)
    BY <1>9 DEF Expected, PushOK
  <2>2. Receives(u, in, n)
    BY <1>6 DEF Works
  <2>3. /\ p \in Block /\ SameSender(u, p) /\ Receives(p, in, n)
        /\ Read(p) = Read(u) /\ Off(u.rcv_nxt) <= Off(p.rcv_nxt)
        /\ \A o \in Nat : Got(u, o) => Got(p, o)
    BY <1>1, <1>4, <2>1, <2>2, InputsPush
  <2>4. j = p
    BY <1>7, <1>9
  <2> HIDE DEF p, j
  <2>5. Keeps(p, out, K) /\ p.snd_nxt = k.snd_nxt
    <3>1. Keeps(p, out, K)
      BY <1>4, <2>3, HalvesApart
    <3> QED BY <1>5, <2>3, <3>1 DEF SameSender
  <2>6. Off(k.rcv_nxt) <= Off(p.rcv_nxt)
    BY <1>5, <2>3 DEF SameReceiver
  <2> QED BY <1>6, <2>3, <2>4, <2>5, <2>6 DEF Works, Later, j
<1>10. CASE s.cmd = "WASK"
  <2>1. t \in Block /\ SameSender(u, t) /\ SameReceiver(u, t) /\ t.acklist = u.acklist
    BY <1>4 DEF Block, SameSender, SameReceiver
  <2>2. j = t
    BY <1>7, <1>10
  <2> HIDE DEF t, j
  <2>3. SameReceiver(k, t) /\ t.acklist = k.acklist /\ t.snd_nxt = k.snd_nxt
    BY <1>5, <2>1 DEF SameReceiver, SameSender
  <2>4. Keeps(t, out, K)
    BY <1>4, <2>1, HalvesApart
  <2> QED BY <1>1, <2>1, <2>2, <2>3, <2>4, HalvesApart DEF Works, Later, j
<1>11. CASE s.cmd = "WINS"
  <2>1. j = u
    BY <1>7, <1>11
  <2> QED BY <1>6, <2>1
<1> QED BY <1>1, <1>8, <1>9, <1>10, <1>11

\* The loop of ikcp_input: a block at work stays one.
LEMMA InputsSegments ==
    ASSUME NEW out, out.len \in Nat, 2 * out.len < SeqSpace, NEW K,
           NEW in, NEW n \in Nat, 2 * (n + rcv_wnd) < SeqSpace,
           NEW k, Works(k, out, K, in, n),
           NEW segs \in Seq(SegmentRec), \A i \in 1..Len(segs) : Expected(segs[i], in, n, K)
    PROVE  LET j == InputSegments(k, segs) IN Works(j, out, K, in, n) /\ Later(k, j)
<1> DEFINE m == Len(segs)
           X == {j \in Block : Works(j, out, K, in, n) /\ Later(k, j)}
           F == [i \in 1..m |-> [x \in X |-> InputSegment(x, segs[i])]]
           Def(f) == [i \in 0..m |-> IF i = 0 THEN k ELSE InputSegment(f[i - 1], segs[i])]
<1>1. m \in Nat
  OBVIOUS
<1>2. k \in X
  <2>1. k \in Block
    BY DEF Works
  <2>2. Off(k.rcv_nxt) \in Nat
    BY <2>1, BlockFields, OffType
  <2>3. Later(k, k)
    BY <2>2 DEF Later
  <2> QED BY <2>1, <2>3
<1>3. ASSUME NEW x \in X, NEW i \in 1..m PROVE InputSegment(x, segs[i]) \in X
  <2> DEFINE y == InputSegment(x, segs[i])
  <2>1. x \in Block /\ Works(x, out, K, in, n) /\ Later(k, x) /\ Expected(segs[i], in, n, K)
    OBVIOUS
  <2>2. Works(y, out, K, in, n) /\ Later(x, y)
    BY <2>1, InputsSegment
  <2> HIDE DEF y
  <2>3. y \in Block /\ k \in Block
    BY <2>2 DEF Works
  <2>4. Off(k.rcv_nxt) \in Nat /\ Off(x.rcv_nxt) \in Nat /\ Off(y.rcv_nxt) \in Nat
    BY <2>1, <2>3, BlockFields, OffType
  <2>5. Off(k.rcv_nxt) <= Off(y.rcv_nxt)
    BY <2>1, <2>2, <2>4 DEF Later
  <2>6. Later(k, y)
    BY <2>1, <2>2, <2>5 DEF Later
  <2> QED BY <2>2, <2>3, <2>6 DEF y
<1> HIDE DEF X
<1>4. F \in [1..m -> [X -> X]]
  BY <1>3
<1>5. PICK g \in [0..m -> X] : g[0] = k /\ \A i \in 1..m : g[i] = F[i][g[i - 1]]
  <2> HIDE DEF m, F
  <2>1. Solvable(m, X, k, F)
    BY <1>1, <1>2, <1>4, RecursionExists
  <2> QED BY <2>1, Zenon DEF Solvable
<1>6. \A i \in 1..m : g[i] = InputSegment(g[i - 1], segs[i])
  <2>1. \A i \in 1..m : g[i - 1] \in X
    BY <1>1
  <2>2. \A i \in 1..m, x \in X : F[i][x] = InputSegment(x, segs[i])
    OBVIOUS
  <2> HIDE DEF F
  <2> QED BY <1>5, <2>1, <2>2
<1>7. g = Def(g)
  <2> HIDE DEF m
  <2> QED BY <1>1, <1>5, <1>6
<1> HIDE DEF F
<1> DEFINE h == CHOOSE f : f = Def(f)
<1>8. h = Def(h)
  <2> HIDE DEF Def
  <2> QED BY <1>7, Zenon
<1>9. InputSegments(k, segs) = h[m]
  BY Zenon DEF InputSegments
<1> HIDE DEF h
<1>10. h[0] = k /\ \A i \in 1..m : h[i] = InputSegment(h[i - 1], segs[i])
  BY <1>1, <1>8
<1>11. \A i \in 0..m : h[i] \in X
  <2> DEFINE S == {i \in Nat : i <= m => h[i] \in X}
  <2>1. 0 \in S
    BY <1>2, <1>10
  <2>2. \A i \in 0..(m - 1) : i \in S => i + 1 \in S
    <3> SUFFICES ASSUME NEW i \in 0..(m - 1), i \in S, i + 1 <= m PROVE h[i + 1] \in X
      OBVIOUS
    <3>1. h[i] \in X /\ i + 1 \in 1..m /\ i + 1 - 1 = i
      BY <1>1
    <3>2. h[i + 1] = InputSegment(h[i], segs[i + 1])
      BY <1>10, <3>1
    <3> QED BY <1>3, <3>1, <3>2
  <2>3. \A i \in 0..m : i \in S
    <3> HIDE DEF S, m
    <3> QED BY <1>1, <2>1, <2>2, BoundedInduction
  <2> QED BY <1>1, <2>3
<1>12. h[m] \in X
  BY <1>1, <1>11
<1> QED BY <1>9, <1>12 DEF X

\* ikcp_input: whatever comes in, a block at work stays one.
LEMMA Inputs ==
    ASSUME NEW out, out.len \in Nat, 2 * out.len < SeqSpace, NEW K,
           NEW in, NEW n \in Nat, 2 * (n + rcv_wnd) < SeqSpace,
           NEW k, Works(k, out, K, in, n),
           NEW segs \in Seq(SegmentRec), \A i \in 1..Len(segs) : Expected(segs[i], in, n, K)
    PROVE  LET j == ikcp_input(k, segs) IN Works(j, out, K, in, n) /\ Later(k, j)
<1> DEFINE t == InputSegments(k, segs)
           j == ikcp_parse_fastack(t, MaxAck(segs))
<1>1. Works(t, out, K, in, n) /\ Later(k, t)
  BY InputsSegments
<1>2. ikcp_input(k, segs) = t \/ ikcp_input(k, segs) = j
  BY DEF ikcp_input
<1> HIDE DEF t
<1>3. t \in Block /\ Keeps(t, out, K) /\ Receives(t, in, n)
  BY <1>1 DEF Works
<1>4. /\ j \in Block /\ Keeps(j, out, K) /\ SameReceiver(t, j) /\ j.acklist = t.acklist
      /\ j.snd_nxt = t.snd_nxt
  BY <1>3, FastackKeeps
<1> HIDE DEF j
<1>5. Works(j, out, K, in, n)
  BY <1>3, <1>4, HalvesApart DEF Works
<1>6. Later(k, j)
  <2>1. j.rcv_nxt = t.rcv_nxt
    BY <1>4 DEF SameReceiver
  <2>2. Read(j) = Read(t) /\ \A o \in Nat : Got(t, o) <=> Got(j, o)
    BY <1>3, <1>4, HalvesApart
  <2> QED BY <1>1, <1>4, <2>1, <2>2 DEF Later
<1> QED BY <1>1, <1>2, <1>5, <1>6

-------------------------------------------------------------------------------
(* Writing.                                                                *)

\* A history with m segments more, cut at c, with the fragment numbers f.
LEMMA HistoryGrows ==
    ASSUME NEW h, NEW n, Cuts(h, n), NEW m \in Nat, m > 0, NEW c \in [0..m -> Nat], c[0] = n,
           NEW f \in [1..m -> Nat], \A i \in 1..m : c[i] - c[i - 1] \in 1..mss,
           \A i \in 1..m : f[i] < IKCP_WND_RCV,
           \A i \in 1..m : f[i] > 0 => i < m /\ f[i + 1] = f[i] - 1
    PROVE  \E g : /\ Cuts(g, c[m]) /\ g.len = h.len + m /\ Agree(h, g, h.len)
                  /\ \A i \in 1..m : /\ g.cut[h.len + i - 1] = c[i - 1] /\ g.cut[h.len + i] = c[i]
                                     /\ g.frg[h.len + i] = f[i]
<1> DEFINE l == h.len
           C == [a \in 0..(l + m) |-> IF a <= l THEN h.cut[a] ELSE c[a - l]]
           G == [a \in 1..(l + m) |-> IF a <= l THEN h.frg[a] ELSE f[a - l]]
           g == [len |-> l + m, cut |-> C, frg |-> G]
<1>1. /\ l \in Nat /\ h.cut \in [0..l -> Nat] /\ h.frg \in [1..l -> Nat]
      /\ h.cut[0] = 0 /\ h.cut[l] = n
      /\ \A a \in 1..l : h.cut[a] - h.cut[a - 1] \in 1..mss
      /\ \A a \in 1..l : h.frg[a] < IKCP_WND_RCV
      /\ \A a \in 1..l : h.frg[a] > 0 => a < l /\ h.frg[a + 1] = h.frg[a] - 1
  BY DEF Cuts
<1>2. g.len = l + m /\ g.cut = C /\ g.frg = G
  OBVIOUS
<1> HIDE DEF l, g
<1>0. l \in Nat
  BY <1>1
<1>3. \A a \in 0..l : a \in 0..(l + m) /\ C[a] = h.cut[a] /\ C[a] \in Nat
  BY <1>1, SMTT(20)
<1>4. \A i \in 0..m : l + i \in 0..(l + m) /\ C[l + i] = c[i] /\ C[l + i] \in Nat
  <2> SUFFICES ASSUME NEW i \in 0..m PROVE l + i \in 0..(l + m) /\ C[l + i] = c[i] /\ C[l + i] \in Nat
    OBVIOUS
  <2>1. l + i \in 0..(l + m)
    BY <1>1
  <2>2. CASE i = 0
    BY <1>1, <2>1, <2>2
  <2>3. CASE i # 0
    <3>1. ~(l + i <= l) /\ (l + i) - l = i
      BY <1>1, <2>3
    <3> QED BY <2>1, <3>1
  <2> QED BY <2>2, <2>3
<1>5. \A a \in 1..l : a \in 1..(l + m) /\ G[a] = h.frg[a] /\ G[a] \in Nat
  <2> SUFFICES ASSUME NEW a \in 1..l PROVE a \in 1..(l + m) /\ G[a] = h.frg[a] /\ G[a] \in Nat
    OBVIOUS
  <2>1. a \in 1..(l + m) /\ a <= l
    BY <1>0
  <2>2. h.frg[a] \in Nat
    BY <1>1
  <2> QED BY <2>1, <2>2
<1>6. \A i \in 1..m : l + i \in 1..(l + m) /\ G[l + i] = f[i] /\ G[l + i] \in Nat
  <2> SUFFICES ASSUME NEW i \in 1..m PROVE l + i \in 1..(l + m) /\ G[l + i] = f[i] /\ G[l + i] \in Nat
    OBVIOUS
  <2>1. l + i \in 1..(l + m) /\ ~(l + i <= l) /\ (l + i) - l = i
    BY <1>1
  <2> QED BY <2>1
<1>7. \A a \in 1..(l + m) : a \in 1..l \/ \E i \in 1..m : a = l + i
  <2> SUFFICES ASSUME NEW a \in 1..(l + m), ~(a \in 1..l) PROVE \E i \in 1..m : a = l + i
    OBVIOUS
  <2>1. a - l \in 1..m /\ a = l + (a - l)
    BY <1>1
  <2> QED BY <2>1
<1>8. C \in [0..(l + m) -> Nat] /\ G \in [1..(l + m) -> Nat]
  <2>1. \A a \in 0..(l + m) : C[a] \in Nat
    <3> SUFFICES ASSUME NEW a \in 0..(l + m) PROVE C[a] \in Nat
      OBVIOUS
    <3> HIDE DEF C
    <3>1. CASE a = 0
      BY <1>1, <1>3, <3>1
    <3>2. CASE a # 0
      <4>1. a \in 1..(l + m)
        BY <1>1, <3>2
      <4>2. a \in 1..l \/ \E i \in 1..m : a = l + i
        BY <1>7, <4>1
      <4>3. \A b \in 1..l : b \in 0..l
        BY <1>1
      <4>4. \A i \in 1..m : i \in 0..m
        OBVIOUS
      <4> QED BY <1>3, <1>4, <4>2, <4>3, <4>4
    <3> QED BY <3>1, <3>2
  <2>2. \A a \in 1..(l + m) : G[a] \in Nat
    <3> HIDE DEF G
    <3> QED BY <1>5, <1>6, <1>7
  <2> QED BY <2>1, <2>2
<1> HIDE DEF C, G
<1>9. \A a \in 1..(l + m) : C[a] - C[a - 1] \in 1..mss
  <2> SUFFICES ASSUME NEW a \in 1..(l + m) PROVE C[a] - C[a - 1] \in 1..mss
    OBVIOUS
  <2>1. CASE a \in 1..l
    <3>1. a \in 0..l /\ a - 1 \in 0..l
      BY <1>0, <2>1
    <3> QED BY <1>1, <1>3, <2>1, <3>1
  <2>2. ASSUME NEW i \in 1..m, a = l + i PROVE C[a] - C[a - 1] \in 1..mss
    <3>1. i \in 0..m /\ i - 1 \in 0..m /\ a - 1 = l + (i - 1)
      BY <1>1, <2>2
    <3>2. C[a] = c[i] /\ C[a - 1] = c[i - 1]
      BY <1>4, <2>2, <3>1
    <3> QED BY <3>2
  <2> QED BY <1>7, <2>1, <2>2
<1>10. \A a \in 1..(l + m) : /\ G[a] < IKCP_WND_RCV
                             /\ G[a] > 0 => a < l + m /\ G[a + 1] = G[a] - 1
  <2> SUFFICES ASSUME NEW a \in 1..(l + m)
               PROVE  /\ G[a] < IKCP_WND_RCV
                      /\ G[a] > 0 => a < l + m /\ G[a + 1] = G[a] - 1
    OBVIOUS
  <2>1. CASE a \in 1..l
    <3>1. G[a] = h.frg[a] /\ G[a] < IKCP_WND_RCV
      BY <1>1, <1>5, <2>1
    <3>2. ASSUME G[a] > 0 PROVE a < l + m /\ G[a + 1] = G[a] - 1
      <4>1. a < l /\ h.frg[a + 1] = h.frg[a] - 1
        BY <1>1, <2>1, <3>1, <3>2
      <4>2. a + 1 \in 1..l /\ a < l + m
        BY <1>1, <2>1, <4>1
      <4>3. G[a + 1] = h.frg[a + 1]
        BY <1>5, <4>2
      <4> QED BY <3>1, <4>1, <4>2, <4>3
    <3> QED BY <3>1, <3>2
  <2>2. ASSUME NEW i \in 1..m, a = l + i
        PROVE  /\ G[a] < IKCP_WND_RCV
               /\ G[a] > 0 => a < l + m /\ G[a + 1] = G[a] - 1
    <3>1. G[a] = f[i] /\ G[a] < IKCP_WND_RCV
      BY <1>6, <2>2
    <3>2. ASSUME G[a] > 0 PROVE a < l + m /\ G[a + 1] = G[a] - 1
      <4>1. i < m /\ f[i + 1] = f[i] - 1
        BY <3>1, <3>2
      <4> DEFINE e == i + 1
      <4>2. e \in 1..m /\ a + 1 = l + e /\ a < l + m
        BY <1>0, <2>2, <4>1
      <4>3. G[a + 1] = f[i + 1]
        <5> HIDE DEF e
        <5>1. G[l + e] = f[e]
          BY <1>6, <4>2
        <5> QED BY <4>2, <5>1 DEF e
      <4> QED BY <3>1, <4>1, <4>2, <4>3
    <3> QED BY <3>1, <3>2
  <2> QED BY <1>7, <2>1, <2>2
<1>11. C[0] = 0 /\ C[l + m] = c[m] /\ l + m \in Nat
  <2>1. 0 \in 0..l /\ m \in 0..m /\ l + m \in Nat
    BY <1>0
  <2>2. C[0] = h.cut[0]
    BY <1>3, <2>1
  <2>3. C[l + m] = c[m]
    BY <1>4, <2>1
  <2> QED BY <1>1, <2>1, <2>2, <2>3
<1>12. Cuts(g, c[m])
  BY <1>2, <1>8, <1>9, <1>10, <1>11 DEF Cuts
<1>13. Agree(h, g, l)
  BY <1>2, <1>3, <1>5 DEF Agree
<1>14. \A i \in 1..m : /\ g.cut[l + i - 1] = c[i - 1] /\ g.cut[l + i] = c[i]
                       /\ g.frg[l + i] = f[i]
  <2> SUFFICES ASSUME NEW i \in 1..m
               PROVE  /\ g.cut[l + i - 1] = c[i - 1] /\ g.cut[l + i] = c[i]
                      /\ g.frg[l + i] = f[i]
    OBVIOUS
  <2>1. i \in 0..m /\ i - 1 \in 0..m /\ l + i - 1 = l + (i - 1)
    BY <1>1
  <2> QED BY <1>2, <1>4, <1>6, <2>1
<1> QED BY <1>2, <1>12, <1>13, <1>14 DEF l

\* A history whose last segment has e bytes more.
LEMMA LastGrows ==
    ASSUME NEW h, NEW n, Cuts(h, n), h.len > 0, NEW e \in Nat, (n - h.cut[h.len - 1]) + e <= mss
    PROVE  \E g : /\ Cuts(g, n + e) /\ g.len = h.len /\ Agree(h, g, h.len - 1)
                  /\ g.cut[h.len] = n + e /\ g.frg = h.frg /\ g.frg[h.len] = 0
<1> DEFINE l == h.len
           C == [h.cut EXCEPT ![l] = n + e]
           g == [len |-> l, cut |-> C, frg |-> h.frg]
<1>1. /\ l \in Nat /\ h.cut \in [0..l -> Nat] /\ h.frg \in [1..l -> Nat]
      /\ h.cut[0] = 0 /\ h.cut[l] = n
      /\ \A a \in 1..l : h.cut[a] - h.cut[a - 1] \in 1..mss
      /\ \A a \in 1..l : h.frg[a] < IKCP_WND_RCV
      /\ \A a \in 1..l : h.frg[a] > 0 => a < l /\ h.frg[a + 1] = h.frg[a] - 1
  BY DEF Cuts
<1>2. g.len = l /\ g.cut = C /\ g.frg = h.frg
  OBVIOUS
<1>3. l \in Nat /\ l > 0 /\ l \in 1..l /\ l \in 0..l /\ l - 1 \in 0..l /\ 0 \in 0..l /\ l # 0 /\ n \in Nat
  <2>1. l \in Nat /\ l > 0
    BY <1>1
  <2>2. n \in Nat
    BY <1>1, <2>1
  <2> HIDE DEF l
  <2> QED BY <2>1, <2>2
<1>10. (n - h.cut[l - 1]) + e <= mss
  OBVIOUS
<1> HIDE DEF l, g
<1>4. C \in [0..l -> Nat] /\ C[l] = n + e /\ \A a \in 0..l : a # l => C[a] = h.cut[a]
  <2>1. h.cut \in [0..l -> Nat] /\ n + e \in Nat /\ l \in 0..l
    BY <1>1, <1>3, SMTT(20)
  <2> QED BY <2>1
<1> HIDE DEF C
<1>5. \A a \in 1..l : C[a] - C[a - 1] \in 1..mss
  <2> SUFFICES ASSUME NEW a \in 1..l PROVE C[a] - C[a - 1] \in 1..mss
    OBVIOUS
  <2>1. a \in 0..l /\ a - 1 \in 0..l /\ a - 1 # l
    BY <1>3
  <2>2. C[a - 1] = h.cut[a - 1] /\ h.cut[a - 1] \in Nat
    BY <1>1, <1>4, <2>1
  <2>3. CASE a # l
    BY <1>1, <1>4, <2>1, <2>2, <2>3
  <2>4. CASE a = l
    <3> DEFINE x == h.cut[l - 1]
    <3>1. n - x \in 1..mss /\ x \in Nat /\ n - x + e <= mss
      <4>1. h.cut[l] - h.cut[l - 1] \in 1..mss
        BY <1>1, <1>3
      <4>2. h.cut[l] = n
        BY <1>1
      <4>3. h.cut[l - 1] \in Nat
        BY <2>2, <2>4
      <4>4. (n - h.cut[l - 1]) + e <= mss
        BY <1>10
      <4> QED BY <4>1, <4>2, <4>3, <4>4
    <3>2. C[a] - C[a - 1] = n + e - x
      <4>1. C[a] = n + e
        BY <1>4, <2>4
      <4>2. C[a - 1] = x
        BY <2>2, <2>4
      <4> QED BY <1>3, <2>2, <2>4, <4>1, <4>2
    <3> HIDE DEF x
    <3> QED BY <1>3, <3>1, <3>2, Widths
  <2> QED BY <2>3, <2>4
<1>6. C[0] = 0
  BY <1>1, <1>3, <1>4
<1>7. Cuts(g, n + e)
  BY <1>1, <1>2, <1>4, <1>5, <1>6 DEF Cuts
<1>8. Agree(h, g, l - 1)
  <2>1. \A a \in 0..(l - 1) : a \in 0..l /\ a # l
    BY <1>3
  <2> QED BY <1>2, <1>4, <2>1 DEF Agree
<1>9. h.frg[l] = 0
  <2>1. h.frg[l] \in Nat /\ ~(h.frg[l] > 0)
    BY <1>1, <1>3, SMTT(20)
  <2> QED BY <2>1
<1> QED BY <1>2, <1>4, <1>7, <1>8, <1>9 DEF l

\* What agrees with a history up to m holds the same segments up to m.
LEMMA Agreement ==
    ASSUME NEW h, NEW g, NEW m \in Nat, Agree(h, g, m)
    PROVE  /\ \A a \in 1..m : \A s : IsSegment(s, h, a) => IsSegment(s, g, a)
           /\ \A l \in 0..m : Agree(h, g, l)
           /\ \A f : Agree(g, f, m) => Agree(h, f, m)
<1>1. \A a \in 1..m : \A s : IsSegment(s, h, a) => IsSegment(s, g, a)
  <2>1. \A a \in 1..m : a \in 0..m /\ a - 1 \in 0..m
    OBVIOUS
  <2> QED BY <2>1 DEF Agree, IsSegment
<1>2. \A l \in 0..m : Agree(h, g, l)
  <2>1. \A l \in 0..m : (\A a \in 0..l : a \in 0..m) /\ \A a \in 1..l : a \in 1..m
    OBVIOUS
  <2> QED BY <2>1 DEF Agree
<1>3. \A f : Agree(g, f, m) => Agree(h, f, m)
  BY DEF Agree
<1> QED BY <1>1, <1>2, <1>3

LEMMA AgreeHolds ==
    ASSUME NEW h, NEW g, NEW m \in Nat, Agree(h, g, m), NEW b, Len(b) \in Nat, NEW lo \in Nat, Holds(b, h, lo, m),
           \A i \in 1..Len(b) : Off(b[i].sn) \in Nat
    PROVE  Holds(b, g, lo, m)
<1>1. ASSUME NEW i \in 1..Len(b) PROVE IsSegment(b[i], g, Off(b[i].sn) + 1)
  <2> DEFINE x == Off(b[i].sn) + 1
  <2>1. IsSegment(b[i], h, x) /\ x \in 1..m
    BY DEF Holds
  <2> HIDE DEF x
  <2>2. IsSegment(b[i], g, x)
    BY <2>1, Agreement
  <2> QED BY <2>2 DEF x
<1> QED BY <1>1 DEF Holds

LEMMA AgreeContinues ==
    ASSUME NEW h, NEW g, NEW m \in Nat, Agree(h, g, m), NEW q, Len(q) \in Nat, NEW a \in Nat, a + Len(q) <= m,
           Continues(q, h, a)
    PROVE  Continues(q, g, a)
<1> SUFFICES ASSUME NEW i \in 1..Len(q) PROVE IsSegment(q[i], g, a + i)
  BY DEF Continues
<1> DEFINE x == a + i
<1>1. x \in 1..m /\ IsSegment(q[i], h, x)
  BY DEF Continues
<1> HIDE DEF x
<1>2. IsSegment(q[i], g, x)
  BY <1>1, Agreement
<1> QED BY <1>2 DEF x

\* A writer's history may grow behind the numbered segments.
LEMMA AgreeReceives ==
    ASSUME NEW k \in Block, NEW h, NEW g, NEW n \in Nat, Agree(h, g, n), Receives(k, h, n)
    PROVE  Receives(k, g, n)
<1>1. /\ k.rcv_buf \in Seq(NumberedRec) /\ k.rcv_queue \in Seq(QueuedRec) /\ Off(k.rcv_nxt) \in Nat
      /\ \A i \in 1..Len(k.rcv_buf) : Off(k.rcv_buf[i].sn) \in Nat
      /\ Len(k.rcv_buf) \in Nat /\ Len(k.rcv_queue) \in Nat
  BY BlockFields, OffType, Numbered
<1>2. /\ Off(k.rcv_nxt) <= n /\ Len(k.rcv_queue) <= Off(k.rcv_nxt)
      /\ Continues(k.rcv_queue, h, Read(k)) /\ Holds(k.rcv_buf, h, Off(k.rcv_nxt), n)
  BY DEF Receives, Collects
<1>3. Read(k) \in Nat /\ Read(k) + Len(k.rcv_queue) <= n
  BY <1>1, <1>2 DEF Read
<1>4. Continues(k.rcv_queue, g, Read(k))
  BY <1>1, <1>2, <1>3, AgreeContinues
<1>5. Holds(k.rcv_buf, g, Off(k.rcv_nxt), n)
  BY <1>1, <1>2, AgreeHolds
<1> QED BY <1>4, <1>5 DEF Receives, Collects

\* A sequence without its last element, and with another one behind it.
LEMMA FrontIs ==
    ASSUME NEW S, NEW q \in Seq(S), q # <<>>
    PROVE  /\ Front(q) \in Seq(S) /\ Len(Front(q)) = Len(q) - 1
           /\ \A i \in 1..(Len(q) - 1) : Front(q)[i] = q[i]
BY DEF Front

LEMMA LastIs ==
    ASSUME NEW S, NEW p \in Seq(S), NEW e \in S
    PROVE  /\ p \o <<e>> \in Seq(S) /\ Len(p \o <<e>>) = Len(p) + 1
           /\ (p \o <<e>>)[Len(p) + 1] = e
           /\ \A i \in 1..Len(p) : (p \o <<e>>)[i] = p[i]
OBVIOUS

\* The fragments of the next bytes go behind a queue.
LEMMA QueueGrows ==
    ASSUME NEW h, NEW w \in Nat, Cuts(h, w), NEW N \in Nat, NEW q \in Seq(QueuedRec),
           N + Len(q) = h.len, Continues(q, h, N), NEW hi \in Nat, w < hi, NEW mode,
           mode \/ FragmentCount(hi - w) < IKCP_WND_RCV
    PROVE  LET q2 == q \o Fragments(Run(w, hi), mode) IN
           /\ q2 \in Seq(QueuedRec)
           /\ \E g : /\ Cuts(g, hi) /\ Agree(h, g, h.len)
                     /\ N + Len(q2) = g.len /\ Continues(q2, g, N)
<1> DEFINE m == FragmentCount(hi - w)
           f == Fragments(Run(w, hi), mode)
           q2 == q \o f
<1>1. /\ m \in Nat /\ m > 0 /\ f \in Seq(QueuedRec) /\ Len(f) = m
      /\ Fragmented(f, m, w, hi, mode)
  BY FragmentsAre
<1>2. mode \/ m < IKCP_WND_RCV
  OBVIOUS
<1> HIDE DEF m, f
<1>0. m \in Nat /\ m > 0
  BY <1>1
<1>3. PICK c \in [0..m -> Nat] :
          /\ c[0] = w /\ c[m] = hi
          /\ \A i \in 1..m : /\ c[i] - c[i - 1] \in 1..mss
                             /\ f[i].data = Run(c[i - 1], c[i])
                             /\ f[i].frg = FragmentNumber(i, m, mode)
  BY <1>1, Zenon DEF Fragmented
<1> DEFINE F == [i \in 1..m |-> IF mode THEN 0 ELSE m - i]
<1>4. F \in [1..m -> Nat] /\ \A i \in 1..m : F[i] = f[i].frg /\ F[i] = IF mode THEN 0 ELSE m - i
  <2>1. \A i \in 1..m : (IF mode THEN 0 ELSE m - i) \in Nat
    BY <1>0
  <2>2. F \in [1..m -> Nat]
    BY <2>1
  <2>3. \A i \in 1..m : F[i] = FragmentNumber(i, m, mode) /\ F[i] = IF mode THEN 0 ELSE m - i
    BY DEF FragmentNumber
  <2> HIDE DEF F
  <2> QED BY <1>3, <2>2, <2>3
<1> HIDE DEF F
<1>5. \A i \in 1..m : /\ F[i] < IKCP_WND_RCV
                      /\ F[i] > 0 => i < m /\ F[i + 1] = F[i] - 1
  <2> SUFFICES ASSUME NEW i \in 1..m
               PROVE  /\ F[i] < IKCP_WND_RCV
                      /\ F[i] > 0 => i < m /\ F[i + 1] = F[i] - 1
    OBVIOUS
  <2>1. CASE mode
    <3>1. F[i] = 0
      BY <1>4, <2>1
    <3> QED BY <3>1, Widths
  <2>2. CASE ~mode
    <3>1. F[i] = m - i /\ m < IKCP_WND_RCV
      BY <1>2, <1>4, <2>2
    <3>2. F[i] < IKCP_WND_RCV
      BY <1>0, <3>1, Widths
    <3>3. ASSUME F[i] > 0 PROVE i < m /\ F[i + 1] = F[i] - 1
      <4> DEFINE e == i + 1
      <4>1. i < m /\ e \in 1..m
        BY <1>0, <3>1, <3>3
      <4> HIDE DEF e
      <4>2. F[e] = m - e
        BY <1>4, <2>2, <4>1
      <4> QED BY <1>0, <3>1, <4>1, <4>2 DEF e
    <3> QED BY <3>2, <3>3
  <2> QED BY <2>1, <2>2
<1>6. PICK g : /\ Cuts(g, c[m]) /\ g.len = h.len + m /\ Agree(h, g, h.len)
               /\ \A i \in 1..m : /\ g.cut[h.len + i - 1] = c[i - 1] /\ g.cut[h.len + i] = c[i]
                                  /\ g.frg[h.len + i] = F[i]
  <2>1. \A i \in 1..m : c[i] - c[i - 1] \in 1..mss
    BY <1>3
  <2>2. \A i \in 1..m : F[i] < IKCP_WND_RCV
    BY <1>5
  <2>3. \A i \in 1..m : F[i] > 0 => i < m /\ F[i + 1] = F[i] - 1
    BY <1>5
  <2>4. F \in [1..m -> Nat] /\ c[0] = w
    BY <1>3, <1>4
  <2> QED BY <1>0, <2>1, <2>2, <2>3, <2>4, HistoryGrows
<1>7. h.len \in Nat
  BY DEF Cuts
<1>8. q2 \in Seq(QueuedRec) /\ Len(q2) = Len(q) + m
  <2>1. q \in Seq(QueuedRec) /\ f \in Seq(QueuedRec) /\ Len(f) = m
    BY <1>1
  <2> QED BY <2>1
<1>9. Continues(q, g, N)
  <2>1. Len(q) \in Nat /\ N + Len(q) <= h.len
    BY <1>7
  <2> QED BY <1>6, <1>7, <2>1, AgreeContinues
<1>10. Continues(q2, g, N)
  <2> SUFFICES ASSUME NEW i \in 1..(Len(q) + m) PROVE IsSegment(q2[i], g, N + i)
    BY <1>8 DEF Continues
  <2>1. CASE i <= Len(q)
    <3>1. q2[i] = q[i] /\ i \in 1..Len(q)
      BY <1>1, <2>1
    <3> QED BY <1>9, <3>1 DEF Continues
  <2>2. CASE ~(i <= Len(q))
    <3> DEFINE d == i - Len(q)
    <3>1. d \in 1..m /\ q2[i] = f[d]
      <4>1. f \in Seq(QueuedRec) /\ Len(f) = m /\ Len(q) \in Nat
        BY <1>1
      <4> QED BY <1>0, <2>2, <4>1
    <3>2. N + i = h.len + d
      BY <1>7
    <3>3. IsSegment(f[d], g, h.len + d)
      <4> HIDE DEF d
      <4>1. /\ f[d].data = Run(c[d - 1], c[d]) /\ f[d].frg = F[d]
        BY <1>3, <1>4, <3>1
      <4>2. /\ g.cut[h.len + d - 1] = c[d - 1] /\ g.cut[h.len + d] = c[d]
            /\ g.frg[h.len + d] = F[d]
        BY <1>6, <3>1
      <4>3. (h.len + d) - 1 = h.len + d - 1
        BY <1>7, <3>1
      <4> QED BY <4>1, <4>2, <4>3, Zenon DEF IsSegment
    <3> HIDE DEF d
    <3> QED BY <3>1, <3>2, <3>3
  <2> QED BY <2>1, <2>2
<1>11. N + Len(q2) = g.len
  <2>1. Len(q) \in Nat /\ Len(q2) = Len(q) + m /\ g.len = h.len + m
    BY <1>6, <1>8
  <2> HIDE DEF q2
  <2> QED BY <1>0, <1>7, <2>1
<1>12. Cuts(g, hi)
  BY <1>3, <1>6
<1> HIDE DEF q2
<1> QED BY <1>6, <1>8, <1>10, <1>11, <1>12 DEF q2, f

\* The next bytes fill up the last segment in a queue.
LEMMA QueueFills ==
    ASSUME NEW h, NEW w \in Nat, Cuts(h, w), NEW N \in Nat, NEW q \in Seq(QueuedRec),
           N + Len(q) = h.len, Continues(q, h, N), q # <<>>,
           NEW e \in Nat, e <= mss - Len(Last(q).data)
    PROVE  LET q2 == Front(q) \o <<[frg |-> 0, data |-> Last(q).data \o Run(w, w + e)]>> IN
           /\ q2 \in Seq(QueuedRec)
           /\ \E g : /\ Cuts(g, w + e) /\ Agree(h, g, N)
                     /\ N + Len(q2) = g.len /\ Continues(q2, g, N)
<1> DEFINE m == Len(q)
           l == h.len
           last == [frg |-> 0, data |-> Last(q).data \o Run(w, w + e)]
           q2 == Front(q) \o <<last>>
<1>1. m \in Nat /\ m > 0 /\ m \in 1..m /\ l = N + m /\ l \in Nat /\ l > 0 /\ N <= l - 1
  <2>1. m \in Nat /\ m > 0 /\ l = N + m
    OBVIOUS
  <2> HIDE DEF m, l
  <2> QED BY <2>1
<1>2. Last(q) = q[m] /\ q[m] \in QueuedRec
  BY <1>1 DEF Last
<1>3. /\ h.cut[l] = w /\ h.cut[l - 1] \in Nat /\ h.cut[l] - h.cut[l - 1] \in 1..mss
  <2>1. /\ h.cut \in [0..l -> Nat] /\ h.cut[l] = w
        /\ \A a \in 1..l : h.cut[a] - h.cut[a - 1] \in 1..mss
    BY DEF Cuts
  <2> HIDE DEF l
  <2>2. l \in 1..l /\ l - 1 \in 0..l
    BY <1>1
  <2> QED BY <2>1, <2>2
<1> DEFINE lo == h.cut[l - 1]
<1>4. lo \in Nat /\ w - lo \in 1..mss /\ lo <= w
  <2>1. lo \in Nat /\ w - lo \in 1..mss
    BY <1>3
  <2> HIDE DEF lo
  <2> QED BY <2>1, Widths
<1>5. q[m].data = Run(lo, w)
  <2>1. IsSegment(q[m], h, N + m)
    BY <1>1 DEF Continues
  <2> QED BY <1>1, <1>3, <2>1 DEF IsSegment
<1>6. Len(q[m].data) = w - lo
  <2> HIDE DEF lo
  <2> QED BY <1>4, <1>5, RunIs
<1>7. (w - lo) + e <= mss
  <2>1. e <= mss - (w - lo)
    BY <1>2, <1>6
  <2> HIDE DEF lo
  <2> QED BY <1>4, <2>1, Widths
<1>8. PICK g : /\ Cuts(g, w + e) /\ g.len = l /\ Agree(h, g, l - 1)
               /\ g.cut[l] = w + e /\ g.frg = h.frg /\ g.frg[l] = 0
  BY <1>1, <1>7, LastGrows
<1>9. Agree(h, g, N) /\ l - 1 \in Nat
  <2>1. l - 1 \in Nat /\ N \in 0..(l - 1)
    <3> HIDE DEF l
    <3> QED BY <1>1
  <2> HIDE DEF l
  <2> QED BY <1>8, <2>1, Agreement
<1>10. last.data = Run(lo, w + e) /\ last \in QueuedRec
  <2>1. w + e \in Nat /\ w <= w + e
    OBVIOUS
  <2>2. Run(lo, w) \o Run(w, w + e) = Run(lo, w + e)
    <3> HIDE DEF lo
    <3> QED BY <1>4, <2>1, RunsInARow
  <2>3. last.data = Run(lo, w + e)
    BY <1>2, <1>5, <2>2
  <2>4. lo <= w + e
    <3> HIDE DEF lo
    <3> QED BY <1>4
  <2>5. Run(lo, w + e) \in Seq(Nat)
    <3> HIDE DEF lo
    <3> QED BY <1>4, <2>1, <2>4, RunIs
  <2> QED BY <2>3, <2>5 DEF QueuedRec
<1>11. last.frg = 0
  OBVIOUS
<1> HIDE DEF last
<1> DEFINE p == Front(q)
<1>12. p \in Seq(QueuedRec) /\ Len(p) = m - 1 /\ \A i \in 1..(m - 1) : p[i] = q[i]
  <2>1. q \in Seq(QueuedRec) /\ q # <<>>
    OBVIOUS
  <2> QED BY <2>1, FrontIs
<1> HIDE DEF p, m
<1>13. q2 \in Seq(QueuedRec) /\ Len(q2) = m /\ q2[m] = last /\ \A i \in 1..(m - 1) : q2[i] = q[i]
  <2>1. /\ q2 \in Seq(QueuedRec) /\ Len(q2) = Len(p) + 1 /\ q2[Len(p) + 1] = last
        /\ \A i \in 1..Len(p) : q2[i] = p[i]
    <3>1. p \in Seq(QueuedRec) /\ last \in QueuedRec
      BY <1>10, <1>12
    <3>2. q2 = p \o <<last>>
      BY DEF p
    <3> HIDE DEF q2
    <3> QED BY <3>1, <3>2, LastIs
  <2>2. Len(p) + 1 = m /\ Len(p) = m - 1
    BY <1>1, <1>12
  <2> HIDE DEF q2
  <2> QED BY <1>12, <2>1, <2>2
<1> HIDE DEF q2
<1>14. Continues(q2, g, N)
  <2> SUFFICES ASSUME NEW i \in 1..m PROVE IsSegment(q2[i], g, N + i)
    BY <1>13 DEF Continues
  <2>1. CASE i = m
    <3>1. N + i = l /\ q2[i] = last
      BY <1>1, <1>13, <2>1
    <3>2. g.cut[l - 1] = lo
      <4>1. l - 1 \in 0..(l - 1)
        <5> HIDE DEF l
        <5> QED BY <1>9
      <4> QED BY <1>8, <4>1 DEF Agree
    <3> HIDE DEF l, lo
    <3> QED BY <1>8, <1>10, <1>11, <3>1, <3>2 DEF IsSegment
  <2>2. CASE i # m
    <3>1. i \in 1..(m - 1) /\ i \in 1..m /\ N + i \in 1..(l - 1)
      <4> HIDE DEF l
      <4> QED BY <1>1, <2>2
    <3>2. q2[i] = q[i] /\ IsSegment(q[i], h, N + i)
      BY <1>13, <3>1 DEF Continues, m
    <3> HIDE DEF l
    <3> QED BY <1>8, <1>9, <3>1, <3>2, Agreement
  <2> QED BY <2>1, <2>2
<1>15. N + Len(q2) = g.len
  <2> HIDE DEF l
  <2> QED BY <1>1, <1>8, <1>13
<1> QED BY <1>8, <1>9, <1>13, <1>14, <1>15 DEF q2, last, p

\* A block with another snd_queue.
LEMMA Requeues ==
    ASSUME NEW k \in Block, NEW h, NEW K, Keeps(k, h, K), NEW q2 \in Seq(QueuedRec), NEW g,
           Agree(h, g, Off(k.snd_nxt)), Off(k.snd_nxt) + Len(q2) = g.len,
           Continues(q2, g, Off(k.snd_nxt))
    PROVE  LET j == [k EXCEPT !.snd_queue = q2] IN
           /\ j \in Block /\ SameReceiver(k, j) /\ j.acklist = k.acklist /\ j.snd_nxt = k.snd_nxt
           /\ Keeps(j, g, K)
<1> DEFINE j == [k EXCEPT !.snd_queue = q2]
           N == Off(k.snd_nxt)
<1>1. /\ j \in Block /\ SameReceiver(k, j) /\ j.acklist = k.acklist /\ j.snd_nxt = k.snd_nxt
      /\ j.snd_una = k.snd_una /\ j.snd_buf = k.snd_buf /\ j.snd_queue = q2
  BY DEF Block, SameReceiver
<1> HIDE DEF j
<1>2. /\ Holds(k.snd_buf, h, Off(k.snd_una), N) /\ Off(k.snd_una) <= N
      /\ N - Off(k.snd_una) <= snd_wnd /\ N - Off(k.snd_una) <= rcv_wnd
      /\ k.snd_una = IF k.snd_buf = <<>> THEN k.snd_nxt ELSE k.snd_buf[1].sn
      /\ K \subseteq Offsets(k.snd_buf) /\ \A i \in 1..Len(k.snd_buf) : k.snd_buf[i].xmit > 0
  BY DEF Keeps, Sends
<1>3. /\ N \in Nat /\ Off(k.snd_una) \in Nat /\ Len(k.snd_buf) \in Nat
      /\ \A i \in 1..Len(k.snd_buf) : Off(k.snd_buf[i].sn) \in Nat
  BY BlockFields, OffType, Numbered
<1>4. Holds(k.snd_buf, g, Off(k.snd_una), N)
  BY <1>2, <1>3, AgreeHolds
<1>5. Sends(j, g)
  BY <1>1, <1>2, <1>4 DEF Sends
<1>6. Keeps(j, g, K)
  BY <1>1, <1>2, <1>5 DEF Keeps
<1> QED BY <1>1, <1>6 DEF j

\* A block that keeps, seen from its snd_queue.
LEMMA QueueOf ==
    ASSUME NEW k \in Block, NEW h, NEW K, Keeps(k, h, K)
    PROVE  /\ Off(k.snd_nxt) \in Nat /\ k.snd_queue \in Seq(QueuedRec) /\ Len(k.snd_queue) \in Nat
           /\ Off(k.snd_nxt) + Len(k.snd_queue) = h.len
           /\ Continues(k.snd_queue, h, Off(k.snd_nxt))
BY BlockFields, OffType DEF Keeps, Sends

\* ikcp_send.
LEMMA SendsBytes ==
    ASSUME NEW k \in Block, NEW h, NEW w \in Nat, Cuts(h, w), NEW K, Keeps(k, h, K),
           NEW hi \in Nat, w < hi, ikcp_send_accepts(hi - w)
    PROVE  LET j == ikcp_send(k, Run(w, hi)) IN
           /\ j \in Block /\ SameReceiver(k, j) /\ j.acklist = k.acklist /\ j.snd_nxt = k.snd_nxt
           /\ \E g : Cuts(g, hi) /\ Agree(h, g, Off(k.snd_nxt)) /\ Keeps(j, g, K)
<1> DEFINE q == k.snd_queue
           N == Off(k.snd_nxt)
           q2 == q \o Fragments(Run(w, hi), FALSE)
           j == [k EXCEPT !.snd_queue = q2]
<1>1. /\ N \in Nat /\ q \in Seq(QueuedRec) /\ N + Len(q) = h.len /\ Continues(q, h, N) /\ Len(q) \in Nat
  BY QueueOf
<1>2. FragmentCount(hi - w) < IKCP_WND_RCV
  BY DEF ikcp_send_accepts
<1>3. /\ q2 \in Seq(QueuedRec)
      /\ \E g : /\ Cuts(g, hi) /\ Agree(h, g, h.len)
                /\ N + Len(q2) = g.len /\ Continues(q2, g, N)
  <2> HIDE DEF q, N
  <2> QED BY <1>1, <1>2, QueueGrows
<1>4. PICK g : /\ Cuts(g, hi) /\ Agree(h, g, h.len)
               /\ N + Len(q2) = g.len /\ Continues(q2, g, N)
  BY <1>3
<1> HIDE DEF q2
<1>5. Agree(h, g, N)
  <2>1. h.len \in Nat /\ N \in 0..h.len
    <3> HIDE DEF N, q
    <3> QED BY <1>1
  <2> HIDE DEF N
  <2> QED BY <1>4, <2>1, Agreement
<1>6. ikcp_send(k, Run(w, hi)) = j
  BY DEF ikcp_send, q2
<1>7. /\ j \in Block /\ SameReceiver(k, j) /\ j.acklist = k.acklist /\ j.snd_nxt = k.snd_nxt
      /\ Keeps(j, g, K)
  BY <1>3, <1>4, <1>5, Requeues
<1> HIDE DEF j
<1> QED BY <1>4, <1>5, <1>6, <1>7

\* ikcp_append.
LEMMA AppendsBytes ==
    ASSUME NEW k \in Block, NEW h, NEW w \in Nat, Cuts(h, w), NEW K, Keeps(k, h, K),
           NEW hi \in Nat, w < hi
    PROVE  LET j == ikcp_append(k, Run(w, hi)) IN
           /\ j \in Block /\ SameReceiver(k, j) /\ j.acklist = k.acklist /\ j.snd_nxt = k.snd_nxt
           /\ \E g : Cuts(g, hi) /\ Agree(h, g, Off(k.snd_nxt)) /\ Keeps(j, g, K)
<1> DEFINE q == k.snd_queue
           N == Off(k.snd_nxt)
           bytes == Run(w, hi)
           room == IF q = <<>> THEN 0 ELSE mss - Len(Last(q).data)
           extend == Min({room, Len(bytes)})
           filled == Front(q) \o <<[frg |-> 0, data |-> Last(q).data \o SubSeq(bytes, 1, extend)]>>
           extended == IF room = 0 THEN q ELSE filled
           q2 == IF extend = Len(bytes) THEN extended
                 ELSE extended \o Fragments(Drop(bytes, extend), TRUE)
           j == [k EXCEPT !.snd_queue = q2]
<1>1. ikcp_append(k, Run(w, hi)) = j
  BY DEF ikcp_append
<1>2. /\ N \in Nat /\ q \in Seq(QueuedRec) /\ N + Len(q) = h.len /\ Continues(q, h, N) /\ Len(q) \in Nat
  BY QueueOf
<1>3. Len(bytes) = hi - w /\ hi - w \in Nat /\ hi - w > 0
  <2>1. Len(bytes) = hi - w
    BY RunIs
  <2> QED BY <2>1
<1>4. room \in Nat
  <2>1. CASE q = <<>>
    BY <2>1
  <2>2. CASE q # <<>>
    <3> DEFINE m == Len(q)
               a == N + m
    <3>1. m \in 1..m /\ Last(q) = q[m] /\ IsSegment(q[m], h, a) /\ a = h.len
      <4>1. m \in 1..m
        BY <1>2, <2>2
      <4> QED BY <1>2, <4>1 DEF Last, Continues
    <3>2. a \in 1..a /\ a - 1 \in 0..a /\ a \in 0..a /\ a \in Nat
      <4>1. m \in Nat /\ m > 0
        BY <3>1
      <4> HIDE DEF N, m
      <4> QED BY <1>2, <4>1
    <3> HIDE DEF m, a
    <3>3. h.cut[a] \in Nat /\ h.cut[a - 1] \in Nat /\ h.cut[a] - h.cut[a - 1] \in 1..mss
      BY <3>1, <3>2 DEF Cuts
    <3> DEFINE x == h.cut[a - 1]
               y == h.cut[a]
    <3>4. q[m].data = Run(x, y)
      BY <3>1 DEF IsSegment
    <3>5. x \in Nat /\ y \in Nat /\ y - x \in 1..mss
      BY <3>3
    <3> HIDE DEF x, y, q
    <3>6. Len(q[m].data) = y - x
      <4>1. x <= y
        BY <3>5, Widths
      <4> QED BY <3>4, <3>5, <4>1, RunIs
    <3>7. room = mss - (y - x)
      BY <2>2, <3>1, <3>6
    <3> HIDE DEF room
    <3> QED BY <3>5, <3>7, Widths
  <2> QED BY <2>1, <2>2
<1>5. extend = (IF room <= hi - w THEN room ELSE hi - w) /\ extend \in Nat /\ extend <= hi - w /\ extend <= room
  <2>1. Min({room, hi - w}) = IF room <= hi - w THEN room ELSE hi - w
    <3> HIDE DEF room
    <3> QED BY <1>3, <1>4, MinOfTwo
  <2>2. extend = Min({room, hi - w})
    BY <1>3
  <2> HIDE DEF room, extend
  <2> QED BY <1>3, <1>4, <2>1, <2>2
<1>6. /\ SubSeq(bytes, 1, extend) = Run(w, w + extend) /\ Drop(bytes, extend) = Run(w + extend, hi)
  <2>1. extend \in 0..(hi - w) /\ w <= hi
    <3> HIDE DEF extend
    <3> QED BY <1>3, <1>5
  <2> HIDE DEF extend
  <2> QED BY <2>1, RunCut
\* First the last segment fills up.
<1>7. /\ extended \in Seq(QueuedRec)
      /\ \E f : /\ Cuts(f, w + extend) /\ Agree(h, f, N)
                /\ N + Len(extended) = f.len /\ Continues(extended, f, N)
  <2>1. CASE room = 0
    <3>1. extended = q
      BY <2>1
    <3>2. extend = 0
      <4> HIDE DEF extend, room
      <4> QED BY <1>5, <2>1
    <3>3. w + 0 = w
      OBVIOUS
    <3>4. Agree(h, h, N)
      BY DEF Agree
    <3> HIDE DEF extended, extend, q, N, room
    <3>5. Cuts(h, w + extend)
      BY <3>2, <3>3
    <3> QED BY <1>2, <3>1, <3>4, <3>5
  <2>2. CASE room # 0
    <3>1. extended = filled
      BY <2>2
    <3>2. q # <<>> /\ room = mss - Len(Last(q).data)
      BY <2>2
    <3>3. filled = Front(q) \o <<[frg |-> 0, data |-> Last(q).data \o Run(w, w + extend)]>>
      BY <1>6
    <3> HIDE DEF filled, extended, extend, q, N, room
    <3>4. extend <= mss - Len(Last(q).data) /\ extend \in Nat
      BY <1>5, <3>2
    <3> DEFINE p == Front(q) \o <<[frg |-> 0, data |-> Last(q).data \o Run(w, w + extend)]>>
    <3>5. /\ p \in Seq(QueuedRec)
          /\ \E f : /\ Cuts(f, w + extend) /\ Agree(h, f, N)
                    /\ N + Len(p) = f.len /\ Continues(p, f, N)
      BY <1>2, <3>2, <3>4, QueueFills
    <3>6. extended = p
      BY <3>1, <3>3
    <3> HIDE DEF p
    <3> QED BY <3>5, <3>6
  <2> QED BY <2>1, <2>2
<1>8. PICK f : /\ Cuts(f, w + extend) /\ Agree(h, f, N)
               /\ N + Len(extended) = f.len /\ Continues(extended, f, N)
  BY <1>7
\* Then the rest goes behind it.
<1>9. /\ q2 \in Seq(QueuedRec)
      /\ \E g : /\ Cuts(g, hi) /\ Agree(h, g, N)
                /\ N + Len(q2) = g.len /\ Continues(q2, g, N)
  <2>1. CASE extend = hi - w
    <3>1. q2 = extended
      BY <1>3, <2>1
    <3>2. w + extend = hi
      <4> HIDE DEF extend
      <4> QED BY <2>1
    <3> HIDE DEF q2, extended, N, extend
    <3> QED BY <1>7, <1>8, <3>1, <3>2
  <2>2. CASE extend # hi - w
    <3>1. q2 = extended \o Fragments(Drop(bytes, extend), TRUE)
      BY <1>3, <2>2
    <3>2. q2 = extended \o Fragments(Run(w + extend, hi), TRUE)
      BY <1>6, <3>1
    <3> HIDE DEF q2, extended, extend, N
    <3> DEFINE p == extended \o Fragments(Run(w + extend, hi), TRUE)
               v == w + extend
    <3>3. v \in Nat /\ v < hi
      BY <1>3, <1>5, <2>2
    <3>4. /\ p \in Seq(QueuedRec)
          /\ \E g : /\ Cuts(g, hi) /\ Agree(f, g, f.len)
                    /\ N + Len(p) = g.len /\ Continues(p, g, N)
      <4>1. N \in Nat /\ extended \in Seq(QueuedRec) /\ Cuts(f, v)
        BY <1>2, <1>7, <1>8
      <4> HIDE DEF v
      <4> QED BY <1>8, <3>3, <4>1, QueueGrows DEF v
    <3>5. PICK g : /\ Cuts(g, hi) /\ Agree(f, g, f.len)
                   /\ N + Len(p) = g.len /\ Continues(p, g, N)
      BY <3>4
    <3>6. N \in Nat /\ f.len \in Nat /\ N \in 0..f.len
      <4>1. N \in Nat /\ Len(extended) \in Nat
        BY <1>2, <1>7
      <4> QED BY <1>8, <4>1
    <3>7. Agree(h, g, N)
      <4>1. Agree(f, g, N)
        BY <3>5, <3>6, Agreement
      <4> QED BY <1>8, <3>6, <4>1, Agreement
    <3>8. q2 = p
      BY <3>2
    <3> HIDE DEF p
    <3> QED BY <3>4, <3>5, <3>7, <3>8
  <2> QED BY <2>1, <2>2
<1>10. PICK g : /\ Cuts(g, hi) /\ Agree(h, g, N)
                /\ N + Len(q2) = g.len /\ Continues(q2, g, N)
  BY <1>9
<1> HIDE DEF q2, extended, extend, room, filled, bytes
<1>11. /\ j \in Block /\ SameReceiver(k, j) /\ j.acklist = k.acklist /\ j.snd_nxt = k.snd_nxt
       /\ Keeps(j, g, K)
  BY <1>9, <1>10, Requeues
<1> HIDE DEF j
<1> QED BY <1>1, <1>10, <1>11

-------------------------------------------------------------------------------
(* ikcp_recv.                                                              *)

\* The fragment numbers of a message count down.
LEMMA CountsDown ==
    ASSUME NEW h, NEW w, Cuts(h, w), NEW a \in 1..h.len
    PROVE  /\ h.frg[a] \in Nat
           /\ \A i \in 0..h.frg[a] : a + i <= h.len /\ h.frg[a + i] = h.frg[a] - i
<1> DEFINE f == h.frg[a]
           S == {i \in Nat : a + i <= h.len /\ h.frg[a + i] = f - i}
<1>1. h.len \in Nat /\ h.frg \in [1..h.len -> Nat] /\ f \in Nat /\ a \in Nat /\ a > 0 /\ a <= h.len
  BY DEF Cuts
<1>2. \A b \in 1..h.len : h.frg[b] > 0 => b < h.len /\ h.frg[b + 1] = h.frg[b] - 1
  BY DEF Cuts
<1> HIDE DEF f
<1>3. 0 \in S
  <2>1. a + 0 = a /\ f - 0 = f
    BY <1>1
  <2> QED BY <1>1, <2>1 DEF f
<1>4. ASSUME NEW i \in 0..(f - 1), i \in S PROVE i + 1 \in S
  <2> DEFINE b == a + i
  <2>1. b \in 1..h.len /\ h.frg[b] = f - i /\ f - i > 0 /\ b \in Nat /\ i \in Nat
    BY <1>1, <1>4
  <2>2. b < h.len /\ h.frg[b + 1] = f - i - 1
    BY <1>2, <2>1
  <2>3. b + 1 = a + (i + 1) /\ f - i - 1 = f - (i + 1)
    BY <1>1, <2>1
  <2>4. b + 1 <= h.len
    <3> HIDE DEF b
    <3> QED BY <1>1, <2>1, <2>2
  <2>5. a + (i + 1) <= h.len /\ h.frg[a + (i + 1)] = f - (i + 1)
    BY <2>2, <2>3, <2>4
  <2> QED BY <2>1, <2>5
<1>5. \A i \in 0..f : i \in S
  <2> HIDE DEF S
  <2> QED BY <1>1, <1>3, <1>4, BoundedInduction
<1> QED BY <1>1, <1>5 DEF f

\* The segments of rcv_queue that ikcp_recv merges are those of one message, and their
\* bytes follow on those read before.
LEMMA FirstMessageIs ==
    ASSUME NEW k \in Block, NEW h, NEW w, Cuts(h, w), NEW n \in Nat, n <= h.len,
           Collects(k, h, n), ikcp_readable(k)
    PROVE  LET D == Read(k)
               m == h.frg[D + 1] + 1
           IN  /\ m \in Nat /\ m > 0 /\ m <= Len(k.rcv_queue) /\ D \in Nat /\ D + m <= h.len
               /\ Len(FirstMessage(k)) = m
               /\ ikcp_recv_data(k) = Run(h.cut[D], h.cut[D + m])
<1> DEFINE q == k.rcv_queue
           D == Read(k)
           f == h.frg[D + 1]
           m == f + 1
           R == Off(k.rcv_nxt)
<1>1. /\ q \in Seq(QueuedRec) /\ Len(q) \in Nat /\ R \in Nat /\ R <= n /\ Len(q) <= R
      /\ D = R - Len(q) /\ Continues(q, h, D)
  BY BlockFields, OffType DEF Collects, Read
<1>2. Len(q) > 0 /\ q # <<>> /\ Head(q) = q[1] /\ Len(q) >= Head(q).frg + 1
  <2>1. q # <<>> /\ Len(q) >= Head(q).frg + 1
    BY DEF ikcp_readable
  <2> HIDE DEF q
  <2> QED BY <1>1, <2>1
<1>3. D \in Nat /\ h.len \in Nat /\ D + Len(q) <= h.len /\ D + 1 \in 1..h.len
  <2>1. h.len \in Nat
    BY DEF Cuts
  <2> HIDE DEF q, R, D
  <2> QED BY <1>1, <1>2, <2>1
<1>4. \A i \in 1..Len(q) : q[i].frg = h.frg[D + i] /\ q[i].data = Run(h.cut[D + i - 1], h.cut[D + i])
  <2> HIDE DEF q, D
  <2> QED BY <1>1 DEF Continues, IsSegment
<1>5. f \in Nat /\ \A i \in 0..f : D + 1 + i <= h.len /\ h.frg[D + 1 + i] = f - i
  BY <1>3, CountsDown
<1>6. Head(q).frg = f
  <2>1. 1 \in 1..Len(q)
    BY <1>1, <1>2
  <2> HIDE DEF q, D
  <2> QED BY <1>2, <1>4, <2>1
<1>7. m \in Nat /\ m > 0 /\ m <= Len(q) /\ D + m <= h.len
  <2> HIDE DEF f, q, D
  <2> QED BY <1>1, <1>2, <1>3, <1>5, <1>6, SMTT(20)
<1> DEFINE Z == {i \in DOMAIN q : q[i].frg = 0} \cup {Len(q)}
<1>8. DOMAIN q = 1..Len(q)
  <2> HIDE DEF q
  <2> QED BY <1>1
<1>9. m \in Z
  <2>1. f \in 0..f /\ m \in 1..Len(q) /\ D + 1 + f = D + m /\ f - f = 0
    <3> HIDE DEF f, q, D
    <3> QED BY <1>3, <1>5, <1>7
  <2>2. h.frg[D + m] = 0
    <3> HIDE DEF f, m, D
    <3> QED BY <1>5, <2>1
  <2>3. q[m].frg = 0
    BY <1>4, <2>1, <2>2
  <2> HIDE DEF m, q
  <2> QED BY <1>8, <2>1, <2>3
<1>10. ASSUME NEW y \in Z PROVE y \in Nat /\ m <= y
  <2>1. CASE y = Len(q)
    BY <1>1, <1>7, <2>1
  <2>2. CASE y \in 1..Len(q) /\ q[y].frg = 0
    <3> DEFINE i == y - 1
    <3>1. y \in Nat /\ i \in Nat /\ D + 1 + i = D + y
      <4>1. D \in Nat
        BY <1>3
      <4>2. y \in Nat /\ y >= 1
        <5> HIDE DEF q
        <5> QED BY <1>1, <2>2
      <4> HIDE DEF D
      <4> QED BY <4>1, <4>2
    <3>2. h.frg[D + y] = 0
      BY <1>4, <2>2
    <3>3. i <= f => h.frg[D + 1 + i] = f - i
      <4> HIDE DEF f, D, i
      <4> QED BY <1>5, <3>1
    <3>4. h.frg[D + 1 + i] = 0
      BY <3>1, <3>2
    <3>5. i <= f => f - i = 0
      BY <3>3, <3>4
    <3>6. y = i + 1
      BY <3>1
    <3> HIDE DEF f, i
    <3> QED BY <1>5, <3>1, <3>5, <3>6
  <2> HIDE DEF q
  <2> QED BY <1>8, <2>1, <2>2
<1>11. Min(Z) = m
  <2>1. Z \in SUBSET Nat /\ Z # {}
    <3> HIDE DEF Z
    <3> QED BY <1>9, <1>10
  <2>2. Min(Z) \in Z /\ \A y \in Z : Min(Z) <= y
    <3> HIDE DEF Z
    <3> QED BY <2>1, MinIs
  <2>3. Min(Z) <= m /\ m <= Min(Z) /\ Min(Z) \in Nat
    <3> HIDE DEF Z, m
    <3> QED BY <1>9, <1>10, <2>2
  <2> HIDE DEF m, Z
  <2> QED BY <1>7, <2>3
<1> DEFINE p == FirstMessage(k)
<1>12. p = SubSeq(q, 1, m)
  <2>1. p = SubSeq(q, 1, Min(Z))
    BY DEF FirstMessage
  <2> QED BY <1>11, <2>1
<1>13. p \in Seq(QueuedRec) /\ Len(p) = m /\ \A i \in 1..m : p[i] = q[i]
  <2> HIDE DEF p, q, m
  <2> QED BY <1>1, <1>7, <1>12
<1> DEFINE d == [i \in DOMAIN p |-> p[i].data]
           c == [i \in 0..m |-> h.cut[D + i]]
<1>14. ikcp_recv_data(k) = FlattenSeq(d)
  BY DEF ikcp_recv_data
<1>15. DOMAIN p = 1..m
  <2> HIDE DEF p, m
  <2> QED BY <1>13
<1>16. d \in Seq(Seq(Nat)) /\ Len(d) = m /\ \A i \in 1..m : d[i] = p[i].data
  <2>1. ASSUME NEW i \in 1..m PROVE p[i].data \in Seq(Nat)
    <3>1. p[i] \in QueuedRec
      <4> HIDE DEF p, m
      <4> QED BY <1>13
    <3> QED BY <3>1 DEF QueuedRec
  <2> HIDE DEF p, m
  <2> QED BY <1>7, <1>15, <2>1
<1>17. c \in [0..m -> Nat] /\ \A i \in 1..m : c[i - 1] <= c[i] /\ c[i - 1] = h.cut[D + i - 1] /\ c[i] = h.cut[D + i]
  <2>1. h.cut \in [0..h.len -> Nat] /\ \A a \in 1..h.len : h.cut[a] - h.cut[a - 1] \in 1..mss
    BY DEF Cuts
  <2>2. \A i \in 0..m : D + i \in 0..h.len
    <3> HIDE DEF D, m
    <3> QED BY <1>3, <1>7
  <2>3. c \in [0..m -> Nat]
    <3> HIDE DEF D, m
    <3> QED BY <2>1, <2>2
  <2>4. ASSUME NEW i \in 1..m PROVE c[i - 1] <= c[i] /\ c[i - 1] = h.cut[D + i - 1] /\ c[i] = h.cut[D + i]
    <3>1. i \in 0..m /\ i - 1 \in 0..m /\ D + i \in 1..h.len /\ D + (i - 1) = D + i - 1
      <4> HIDE DEF D, m
      <4> QED BY <1>3, <1>7
    <3>2. c[i - 1] = h.cut[D + i - 1] /\ c[i] = h.cut[D + i]
      BY <3>1
    <3> DEFINE a == D + i
    <3>3. a - 1 = D + i - 1 /\ a \in 1..h.len /\ a \in 0..h.len /\ a - 1 \in 0..h.len
      <4> HIDE DEF D, m
      <4> QED BY <1>3, <3>1
    <3>4. h.cut[a] - h.cut[a - 1] \in 1..mss /\ h.cut[a] \in Nat /\ h.cut[a - 1] \in Nat
      <4> HIDE DEF a
      <4> QED BY <2>1, <3>3
    <3>5. h.cut[a - 1] <= h.cut[a]
      <4> HIDE DEF a
      <4> QED BY <3>4, Widths
    <3> QED BY <3>2, <3>3, <3>5
  <2> QED BY <2>3, <2>4
<1>18. \A i \in 1..m : d[i] = Run(c[i - 1], c[i])
  <2> SUFFICES ASSUME NEW i \in 1..m PROVE d[i] = Run(c[i - 1], c[i])
    OBVIOUS
  <2>1. i \in 1..Len(q)
    <3> HIDE DEF m, q
    <3> QED BY <1>1, <1>7
  <2>2. d[i] = q[i].data
    <3> HIDE DEF d, p, q, m
    <3> QED BY <1>13, <1>16
  <2>3. q[i].data = Run(h.cut[D + i - 1], h.cut[D + i])
    <3> HIDE DEF q, D
    <3> QED BY <1>4, <2>1
  <2>4. c[i - 1] = h.cut[D + i - 1] /\ c[i] = h.cut[D + i]
    <3> HIDE DEF c, D, m
    <3> QED BY <1>17
  <2> HIDE DEF c, d, q, D
  <2> QED BY <2>2, <2>3, <2>4, Zenon
<1>19. FlattenSeq(d) = Run(c[0], c[m])
  <2> HIDE DEF c, d, m
  <2> QED BY <1>7, <1>16, <1>17, <1>18, FlattenRuns
<1>20. c[0] = h.cut[D] /\ c[m] = h.cut[D + m]
  <2>1. 0 \in 0..m /\ m \in 0..m /\ D + 0 = D
    <3> HIDE DEF D, m
    <3> QED BY <1>3, <1>7
  <2> HIDE DEF m, D
  <2> QED BY <2>1
<1> HIDE DEF c, d, p
<1> QED BY <1>3, <1>7, <1>13, <1>14, <1>19, <1>20 DEF p

\* ikcp_recv takes one message out of rcv_queue, and refills it from rcv_buf.
LEMMA Receiving ==
    ASSUME NEW k \in Block, NEW h, NEW w, Cuts(h, w), NEW n \in Nat, n <= h.len, 2 * n < SeqSpace,
           Receives(k, h, n), ikcp_readable(k)
    PROVE  LET j == ikcp_recv(k)
               m == h.frg[Read(k) + 1] + 1
           IN  /\ j \in Block /\ SameSender(k, j) /\ j.acklist = k.acklist /\ Receives(j, h, n)
               /\ m \in Nat /\ m > 0 /\ Read(k) \in Nat /\ Read(k) + m <= h.len
               /\ Read(j) = Read(k) + m
               /\ ikcp_recv_data(k) = Run(h.cut[Read(k)], h.cut[Read(k) + m])
               /\ Off(k.rcv_nxt) <= Off(j.rcv_nxt)
               /\ \A o \in Nat : Got(j, o) <=> Got(k, o)
               /\ Len(k.rcv_queue) < rcv_wnd => Off(j.rcv_nxt) = Off(k.rcv_nxt)
<1> DEFINE D == Read(k)
           m == h.frg[D + 1] + 1
           q == k.rcv_queue
           R == Off(k.rcv_nxt)
           q2 == Drop(q, m)
           l == [k EXCEPT !.rcv_queue = q2]
           v == MoveToRcvQueue(l)
           t == v.ask_tell \/ (Len(q) >= rcv_wnd /\ Len(v.rcv_queue) < rcv_wnd)
           j == ikcp_recv(k)
<1>1. Collects(k, h, n) /\ \A i \in 1..Len(k.acklist) : Got(k, Off(k.acklist[i]))
  BY DEF Receives
<1>2. /\ m \in Nat /\ m > 0 /\ m <= Len(q) /\ D \in Nat /\ D + m <= h.len
      /\ Len(FirstMessage(k)) = m
      /\ ikcp_recv_data(k) = Run(h.cut[D], h.cut[D + m])
  BY <1>1, FirstMessageIs
<1>3. /\ q \in Seq(QueuedRec) /\ Len(q) \in Nat /\ R \in Nat /\ R <= n /\ Len(q) <= R
      /\ Len(q) <= rcv_wnd
      /\ D = R - Len(q) /\ Continues(q, h, D) /\ Holds(k.rcv_buf, h, R, n)
  BY <1>1, BlockFields, OffType DEF Collects, Read
<1>4. j = [v EXCEPT !.ask_tell = t]
  <2>1. Drop(q, Len(FirstMessage(k))) = q2
    BY <1>2
  <2> QED BY <2>1 DEF ikcp_recv
<1>5. q2 \in Seq(QueuedRec) /\ Len(q2) = Len(q) - m /\ \A i \in 1..(Len(q) - m) : q2[i] = q[m + i]
  <2>1. m \in 0..Len(q)
    <3> HIDE DEF m, q
    <3> QED BY <1>2, <1>3
  <2> HIDE DEF m, q
  <2> QED BY <1>3, <2>1, DropIs
<1>6. /\ l \in Block /\ SameSender(k, l) /\ l.acklist = k.acklist
      /\ l.rcv_nxt = k.rcv_nxt /\ l.rcv_buf = k.rcv_buf /\ l.rcv_queue = q2
  <2> HIDE DEF q2
  <2> QED BY <1>5 DEF Block, SameSender
<1>7. Read(l) = D + m /\ Len(q2) <= R /\ Len(q2) <= rcv_wnd /\ Len(q2) < rcv_wnd
  <2>1. Read(l) = R - Len(q2) /\ Len(q2) = Len(q) - m
    BY <1>5, <1>6 DEF Read
  <2> HIDE DEF D, m, q, R, l, q2
  <2> QED BY <1>2, <1>3, <2>1, Widths
<1>8. Continues(q2, h, D + m)
  <2> SUFFICES ASSUME NEW i \in 1..(Len(q) - m) PROVE IsSegment(q2[i], h, D + m + i)
    BY <1>5 DEF Continues
  <2>1. m + i \in 1..Len(q) /\ D + (m + i) = D + m + i
    <3> HIDE DEF D, m, q
    <3> QED BY <1>2, <1>3
  <2>2. IsSegment(q[m + i], h, D + (m + i))
    <3> HIDE DEF D, m, q
    <3> QED BY <1>3, <2>1 DEF Continues
  <2> QED BY <1>5, <2>1, <2>2
<1>9. Collects(l, h, n)
  <2>1. Continues(l.rcv_queue, h, Read(l)) /\ Off(l.rcv_nxt) = R /\ Holds(l.rcv_buf, h, R, n)
    BY <1>3, <1>6, <1>7, <1>8
  <2>2. Len(l.rcv_queue) <= R /\ Len(l.rcv_queue) <= rcv_wnd
    BY <1>6, <1>7
  <2> HIDE DEF l, R
  <2> QED BY <1>3, <2>1, <2>2 DEF Collects
<1>10. /\ v \in Block /\ SameSender(l, v) /\ v.acklist = l.acklist
       /\ Collects(v, h, n)
       /\ Len(v.rcv_queue) < rcv_wnd => Off(v.rcv_nxt) \notin Offsets(v.rcv_buf)
       /\ Read(v) = Read(l) /\ Off(l.rcv_nxt) <= Off(v.rcv_nxt)
       /\ \A o \in Nat : Got(v, o) <=> Got(l, o)
       /\ Len(l.rcv_queue) < rcv_wnd /\ Off(l.rcv_nxt) \notin Offsets(l.rcv_buf)
              => Off(v.rcv_nxt) = Off(l.rcv_nxt)
  <2> HIDE DEF l
  <2> QED BY <1>6, <1>9, Moves
<1>11. t \in BOOLEAN
  <2>1. v.ask_tell \in BOOLEAN
    BY <1>10, BlockFields
  <2> HIDE DEF v, q
  <2> QED BY <2>1
<1>12. j \in Block /\ SameSender(v, j) /\ SameReceiver(v, j) /\ j.acklist = v.acklist
  <2> HIDE DEF j, v, t
  <2> QED BY <1>4, <1>10, <1>11 DEF Block, SameSender, SameReceiver
<1>13. j.rcv_nxt = v.rcv_nxt /\ j.rcv_buf = v.rcv_buf /\ j.rcv_queue = v.rcv_queue /\ j.acklist = k.acklist
  <2> HIDE DEF j, v, l
  <2> QED BY <1>6, <1>10, <1>12 DEF SameReceiver
<1>14. SameSender(k, j)
  <2> HIDE DEF j, v, l
  <2> QED BY <1>6, <1>10, <1>12 DEF SameSender
<1>15. \A o \in Nat : (Got(j, o) <=> Got(v, o)) /\ (Got(l, o) <=> Got(k, o))
  <2> HIDE DEF j, v, l
  <2> QED BY <1>6, <1>13 DEF Got
<1>16. \A o \in Nat : Got(j, o) <=> Got(k, o)
  <2> HIDE DEF j, v, l
  <2> QED BY <1>10, <1>15
<1>17. Read(j) = D + m /\ Off(l.rcv_nxt) = R /\ Off(j.rcv_nxt) = Off(v.rcv_nxt) /\ R <= Off(j.rcv_nxt)
  <2>1. Read(j) = Read(v)
    <3> HIDE DEF j, v
    <3> QED BY <1>13 DEF Read
  <2>2. Off(l.rcv_nxt) = R /\ Off(j.rcv_nxt) = Off(v.rcv_nxt)
    BY <1>6, <1>13
  <2> HIDE DEF j, v, l, m, D, R
  <2> QED BY <1>7, <1>10, <2>1, <2>2
<1>18. Receives(j, h, n)
  <2>1. Collects(j, h, n)
    <3> HIDE DEF j, v
    <3> QED BY <1>10, <1>13 DEF Collects, Read
  <2>2. \A i \in 1..Len(j.acklist) : Got(j, Off(j.acklist[i]))
    <3> SUFFICES ASSUME NEW i \in 1..Len(k.acklist) PROVE Got(j, Off(k.acklist[i]))
      BY <1>13
    <3>1. Off(k.acklist[i]) \in Nat
      <4>1. k.acklist \in Seq(Numbers)
        BY BlockFields
      <4>2. k.acklist[i] \in Numbers
        BY <4>1
      <4> QED BY <4>2, OffType
    <3> HIDE DEF j
    <3> QED BY <1>1, <1>16, <3>1
  <2> HIDE DEF j, v
  <2> QED BY <1>10, <1>13, <2>1, <2>2 DEF Receives
<1>19. Len(q) < rcv_wnd => Off(j.rcv_nxt) = R
  <2> SUFFICES ASSUME Len(q) < rcv_wnd PROVE Off(j.rcv_nxt) = R
    OBVIOUS
  <2>1. R \notin Offsets(k.rcv_buf)
    BY DEF Receives
  <2>2. Len(l.rcv_queue) < rcv_wnd /\ Off(l.rcv_nxt) \notin Offsets(l.rcv_buf)
    BY <1>6, <1>7, <2>1
  <2> HIDE DEF l, v, j, R
  <2> QED BY <1>10, <1>17, <2>2
<1> HIDE DEF j, m
<1> QED BY <1>2, <1>12, <1>14, <1>13, <1>16, <1>17, <1>18, <1>19 DEF j, m

-------------------------------------------------------------------------------
(* ikcp_flush.                                                             *)

\* The segments that a flush numbers, n of them, as they enter snd_buf.
Entering(k, n) ==
    [i \in 1..n |-> [sn |-> Plus(k.snd_nxt, i - 1), frg |-> k.snd_queue[i].frg,
                     data |-> k.snd_queue[i].data, xmit |-> 0, fastack |-> 0]]

\* A flush admits n segments of snd_queue, within both windows.
Admission(k, n) ==
    /\ AdmitToSndBuf(k) = [k EXCEPT !.snd_queue = Drop(@, n), !.snd_buf = @ \o Entering(k, n),
                                    !.snd_nxt = Plus(@, n)]
    /\ n > 0 => /\ Off(k.snd_nxt) + n <= Off(k.snd_una) + snd_wnd
                /\ Off(k.snd_nxt) + n <= Off(k.snd_una) + rcv_wnd

LEMMA Admitting ==
    ASSUME NEW k \in Block, NEW h, h.len \in Nat, 2 * (h.len + rcv_wnd) < SeqSpace, NEW K, Keeps(k, h, K)
    PROVE  \E n \in 0..Len(k.snd_queue) : Admission(k, n)
<1> DEFINE q == k.snd_queue
           N == Off(k.snd_nxt)
           U == Off(k.snd_una)
           v == ikcp_calc_wnd(k)
           limit == Plus(k.snd_una, v)
           S == {i \in DOMAIN q : \A j \in 1..i : _itimediff(Plus(k.snd_nxt, j - 1), limit) < 0}
           n == Cardinality(S)
<1>1. /\ q \in Seq(QueuedRec) /\ Len(q) \in Nat /\ DOMAIN q = 1..Len(q)
      /\ k.snd_nxt \in Numbers /\ k.snd_una \in Numbers /\ k.rmt_wnd \in 1..rcv_wnd
      /\ N \in Nat /\ U \in Nat
  <2>1. q \in Seq(QueuedRec) /\ k.snd_nxt \in Numbers /\ k.snd_una \in Numbers /\ k.rmt_wnd \in 1..rcv_wnd
    BY BlockFields
  <2>2. Len(q) \in Nat /\ DOMAIN q = 1..Len(q)
    <3> HIDE DEF q
    <3> QED BY <2>1
  <2> QED BY <2>1, <2>2, OffType
<1>2. N + Len(q) = h.len /\ U <= N
  BY DEF Keeps, Sends
<1>3. v \in Nat /\ v <= snd_wnd /\ v <= rcv_wnd
  <2>1. v = IF snd_wnd <= k.rmt_wnd THEN snd_wnd ELSE k.rmt_wnd
    <3>1. snd_wnd \in Int /\ k.rmt_wnd \in Int
      BY <1>1, Widths
    <3> QED BY <3>1, MinOfTwo DEF ikcp_calc_wnd
  <2> HIDE DEF v
  <2> QED BY <1>1, <2>1, Widths
<1>4. limit \in Numbers /\ Off(limit) = U + v /\ 2 * (U + v) < SeqSpace
  <2>1. 2 * (U + v) < SeqSpace /\ U + v < SeqSpace
    <3> HIDE DEF U, v, N, q
    <3> QED BY <1>1, <1>2, <1>3, Widths
  <2> HIDE DEF v
  <2> QED BY <1>1, <1>3, <2>1, OffPlus
<1>5. ASSUME NEW i \in 1..Len(q)
      PROVE  _itimediff(Plus(k.snd_nxt, i - 1), limit) = (N + (i - 1)) - (U + v)
  <2> DEFINE x == Plus(k.snd_nxt, i - 1)
  <2>1. i - 1 \in Nat /\ N + (i - 1) < SeqSpace /\ 2 * (N + (i - 1)) < SeqSpace
    <3> HIDE DEF N, q
    <3> QED BY <1>1, <1>2, Widths
  <2>2. x \in Numbers /\ Off(x) = N + (i - 1)
    BY <1>1, <2>1, OffPlus
  <2> HIDE DEF x, limit, N, U, v
  <2>3. _itimediff(x, limit) = Off(x) - Off(limit)
    BY <1>4, <2>1, <2>2, DiffIs
  <2> QED BY <1>4, <2>2, <2>3 DEF x
<1>6. n \in 0..Len(q) /\ \A i \in 1..Len(q) : i \in S <=> i <= n
  <2> DEFINE P(j) == _itimediff(Plus(k.snd_nxt, j - 1), limit) < 0
  <2>1. S = {i \in 1..Len(q) : \A j \in 1..i : P(j)}
    BY <1>1
  <2> HIDE DEF P, S, q
  <2>2. S \in SUBSET (1..Len(q))
    BY <2>1
  <2>3. ASSUME NEW i \in S, NEW j \in 1..i PROVE j \in S
    <3>1. i \in 1..Len(q) /\ \A l \in 1..i : P(l)
      BY <2>1
    <3>2. j \in 1..Len(q) /\ \A l \in 1..j : l \in 1..i
      BY <1>1, <3>1
    <3> QED BY <2>1, <3>1, <3>2
  <2> QED BY <1>1, <2>2, <2>3, FirstOnes
<1>7. ASSUME n > 0 PROVE N + n <= U + v
  <2>1. n \in 1..Len(q) /\ n \in S /\ n \in Nat
    <3> HIDE DEF n, S, q
    <3> QED BY <1>1, <1>6, <1>7
  <2>2. _itimediff(Plus(k.snd_nxt, n - 1), limit) < 0
    <3>1. n \in 1..n
      <4> HIDE DEF n
      <4> QED BY <1>7, <2>1
    <3> HIDE DEF n, limit
    <3> QED BY <2>1, <3>1
  <2>3. (N + (n - 1)) - (U + v) < 0
    <3> HIDE DEF n, limit, N, U, v, q
    <3> QED BY <1>5, <2>1, <2>2
  <2> HIDE DEF n, N, U, v
  <2> QED BY <1>1, <1>3, <2>1, <2>3
<1>8. n > 0 => N + n <= U + snd_wnd /\ N + n <= U + rcv_wnd
  <2>1. n \in Nat
    <3> HIDE DEF n, q
    <3> QED BY <1>6, <1>1
  <2> HIDE DEF n, N, U, v
  <2> QED BY <1>1, <1>3, <1>7, <2>1, Widths
<1>9. AdmitToSndBuf(k) = [k EXCEPT !.snd_queue = Drop(@, n), !.snd_buf = @ \o Entering(k, n),
                                   !.snd_nxt = Plus(@, n)]
  BY DEF AdmitToSndBuf, Entering
<1>10. Admission(k, n)
  <2> HIDE DEF n
  <2> QED BY <1>8, <1>9 DEF Admission
<1> HIDE DEF n
<1> QED BY <1>6, <1>10

\* A flush numbers the first segments of snd_queue, one after the other.
LEMMA Admits ==
    ASSUME NEW k \in Block, NEW h, h.len \in Nat, 2 * (h.len + rcv_wnd) < SeqSpace, NEW K, Keeps(k, h, K)
    PROVE  LET j == AdmitToSndBuf(k)
               N == Off(k.snd_nxt)
               M == Off(j.snd_nxt)
           IN  /\ j \in Block /\ SameReceiver(k, j) /\ Sends(j, h)
               /\ N \in Nat /\ M \in Nat /\ N <= M /\ M <= h.len
               /\ Offsets(j.snd_buf) = Offsets(k.snd_buf) \cup N..(M - 1)
               /\ j.snd_una = k.snd_una
<1> DEFINE q == k.snd_queue
           b == k.snd_buf
           N == Off(k.snd_nxt)
           U == Off(k.snd_una)
           j == AdmitToSndBuf(k)
<1>1. PICK n \in 0..Len(k.snd_queue) : Admission(k, n)
  BY Admitting
<1> DEFINE e == Entering(k, n)
           q2 == Drop(q, n)
           b2 == b \o e
           M == N + n
<1>2. /\ q \in Seq(QueuedRec) /\ Len(q) \in Nat /\ b \in Seq(SentRec) /\ Len(b) \in Nat
      /\ k.snd_nxt \in Numbers /\ k.snd_una \in Numbers /\ N \in Nat /\ U \in Nat
      /\ n \in Nat /\ n <= Len(q)
  <2>1. q \in Seq(QueuedRec) /\ b \in Seq(SentRec) /\ k.snd_nxt \in Numbers /\ k.snd_una \in Numbers
    BY BlockFields
  <2>2. Len(q) \in Nat /\ Len(b) \in Nat
    <3> HIDE DEF q, b
    <3> QED BY <2>1
  <2> QED BY <1>1, <2>1, <2>2, OffType
<1>3. /\ N + Len(q) = h.len /\ U <= N /\ N - U <= snd_wnd /\ N - U <= rcv_wnd
      /\ Continues(q, h, N) /\ Holds(b, h, U, N)
      /\ k.snd_una = IF b = <<>> THEN k.snd_nxt ELSE b[1].sn
  BY DEF Keeps, Sends
<1>4. \A i \in 0..Len(q) : /\ Plus(k.snd_nxt, i) \in Numbers
                           /\ Off(Plus(k.snd_nxt, i)) = N + i
  <2> SUFFICES ASSUME NEW i \in 0..Len(q)
               PROVE  Plus(k.snd_nxt, i) \in Numbers /\ Off(Plus(k.snd_nxt, i)) = N + i
    OBVIOUS
  <2>1. i \in Nat /\ N + i < SeqSpace
    <3> HIDE DEF N, q
    <3> QED BY <1>2, <1>3, Widths, SMTT(20)
  <2> QED BY <1>2, <2>1, OffPlus
<1>5. ASSUME NEW i \in 1..n
      PROVE  /\ e[i] \in SentRec /\ Off(e[i].sn) = N + i - 1
             /\ IsSegment(e[i], h, N + i)
  <2>1. e[i] = [sn |-> Plus(k.snd_nxt, i - 1), frg |-> q[i].frg, data |-> q[i].data,
                xmit |-> 0, fastack |-> 0]
    BY DEF Entering
  <2>2. i \in 1..Len(q) /\ i - 1 \in 0..Len(q) /\ N + (i - 1) = N + i - 1
    <3> HIDE DEF q, N
    <3> QED BY <1>2
  <2>3. Plus(k.snd_nxt, i - 1) \in Numbers /\ Off(Plus(k.snd_nxt, i - 1)) = N + i - 1
    <3> HIDE DEF q, N
    <3> QED BY <1>4, <2>2
  <2>4. q[i] \in QueuedRec
    <3> HIDE DEF q
    <3> QED BY <1>2, <2>2
  <2>5. q[i].frg \in Nat /\ q[i].data \in Seq(Nat)
    BY <2>4 DEF QueuedRec
  <2>6. IsSegment(q[i], h, N + i)
    <3> HIDE DEF q, N
    <3> QED BY <1>3, <2>2 DEF Continues
  <2>7. e[i] \in SentRec
    <3> HIDE DEF e, q
    <3> QED BY <2>1, <2>3, <2>5, Widths DEF SentRec
  <2> HIDE DEF e, q
  <2> QED BY <2>1, <2>3, <2>6, <2>7 DEF IsSegment
<1>6. e \in Seq(SentRec) /\ Len(e) = n
  <2>1. e = [i \in 1..n |-> e[i]]
    BY DEF Entering
  <2>2. DOMAIN e = 1..n
    BY DEF Entering
  <2> HIDE DEF e
  <2>3. e \in [1..n -> SentRec]
    BY <1>5, <2>1
  <2>4. n \in Nat
    BY <1>2
  <2> QED BY <2>2, <2>3, <2>4
<1>7. /\ b2 \in Seq(SentRec) /\ Len(b2) = Len(b) + n
      /\ \A i \in 1..Len(b) : b2[i] = b[i]
      /\ \A i \in 1..n : b2[Len(b) + i] = e[i]
  <2>1. b \in Seq(SentRec) /\ e \in Seq(SentRec) /\ Len(e) = n
    BY <1>2, <1>6
  <2> HIDE DEF b, e
  <2> QED BY <2>1
<1>8. /\ q2 \in Seq(QueuedRec) /\ Len(q2) = Len(q) - n
      /\ \A i \in 1..(Len(q) - n) : q2[i] = q[n + i]
  <2>1. n \in 0..Len(q) /\ q \in Seq(QueuedRec)
    BY <1>2
  <2> HIDE DEF q
  <2> QED BY <2>1, DropIs
<1>9. Plus(k.snd_nxt, n) \in Numbers /\ Off(Plus(k.snd_nxt, n)) = M
  BY <1>1, <1>4
<1>10. /\ j \in Block /\ SameReceiver(k, j) /\ j.snd_una = k.snd_una
       /\ j.snd_queue = q2 /\ j.snd_buf = b2 /\ j.snd_nxt = Plus(k.snd_nxt, n)
  <2>1. j = [k EXCEPT !.snd_queue = q2, !.snd_buf = b2, !.snd_nxt = Plus(k.snd_nxt, n)]
    BY <1>1 DEF Admission
  <2>2. q2 \in Seq(QueuedRec) /\ b2 \in Seq(SentRec) /\ Plus(k.snd_nxt, n) \in Numbers
    BY <1>7, <1>8, <1>9
  <2> HIDE DEF j, q2, b2
  <2> QED BY <2>1, <2>2 DEF Block, SameReceiver
<1>11. /\ M \in Nat /\ N <= M /\ M + Len(q2) = h.len /\ M <= h.len
       /\ U <= M /\ M - U <= snd_wnd /\ M - U <= rcv_wnd
  <2>1. Len(q2) = Len(q) - n
    BY <1>8
  <2>2. n > 0 => N + n <= U + snd_wnd /\ N + n <= U + rcv_wnd
    BY <1>1 DEF Admission
  <2> HIDE DEF N, U, q, q2
  <2> QED BY <1>2, <1>3, <2>1, <2>2, Widths, SMTT(20)
<1>12. Continues(q2, h, M)
  <2> SUFFICES ASSUME NEW i \in 1..(Len(q) - n) PROVE IsSegment(q2[i], h, M + i)
    BY <1>8 DEF Continues
  <2>1. n + i \in 1..Len(q) /\ N + (n + i) = M + i
    <3> HIDE DEF N, q
    <3> QED BY <1>2
  <2>2. IsSegment(q[n + i], h, N + (n + i))
    <3> HIDE DEF N, q
    <3> QED BY <1>3, <2>1 DEF Continues
  <2> QED BY <1>8, <2>1, <2>2
<1>13. \A i \in 1..Len(b) : /\ Off(b[i].sn) \in Nat /\ Off(b[i].sn) >= U /\ Off(b[i].sn) < N
                            /\ IsSegment(b[i], h, Off(b[i].sn) + 1)
  <2>1. \A i \in 1..Len(b) : Off(b[i].sn) \in Nat
    <3> HIDE DEF b
    <3> QED BY <1>2, Numbered
  <2> HIDE DEF b, U, N
  <2> QED BY <1>3, <2>1 DEF Holds
<1>14. ASSUME NEW i \in 1..Len(b2)
       PROVE  \/ i \in 1..Len(b) /\ b2[i] = b[i]
              \/ \E d \in 1..n : i = Len(b) + d /\ b2[i] = e[d] /\ Off(b2[i].sn) = N + d - 1
  <2>1. CASE i <= Len(b)
    <3> HIDE DEF b, b2
    <3> QED BY <1>2, <1>7, <2>1
  <2>2. CASE ~(i <= Len(b))
    <3> DEFINE d == i - Len(b)
    <3>1. d \in 1..n /\ i = Len(b) + d
      <4>1. Len(b2) = Len(b) + n
        BY <1>7
      <4> HIDE DEF b, b2
      <4> QED BY <1>2, <2>2, <4>1
    <3>2. b2[i] = e[d] /\ Off(e[d].sn) = N + d - 1
      BY <1>5, <1>7, <3>1
    <3> HIDE DEF d
    <3> QED BY <3>1, <3>2
  <2> QED BY <2>1, <2>2
<1>15. Holds(b2, h, U, M)
  <2>1. ASSUME NEW i \in 1..Len(b2)
        PROVE  /\ Off(b2[i].sn) >= U /\ Off(b2[i].sn) < M
               /\ IsSegment(b2[i], h, Off(b2[i].sn) + 1)
    <3>1. CASE i \in 1..Len(b) /\ b2[i] = b[i]
      <4>1. /\ Off(b[i].sn) \in Nat /\ Off(b[i].sn) >= U /\ Off(b[i].sn) < N
            /\ IsSegment(b[i], h, Off(b[i].sn) + 1)
        BY <1>13, <3>1
      <4>2. Off(b[i].sn) < M
        <5> HIDE DEF b, N
        <5> QED BY <1>2, <4>1
      <4> QED BY <3>1, <4>1, <4>2
    <3>2. ASSUME NEW d \in 1..n, b2[i] = e[d] PROVE /\ Off(b2[i].sn) >= U /\ Off(b2[i].sn) < M
                                                   /\ IsSegment(b2[i], h, Off(b2[i].sn) + 1)
      <4>1. Off(e[d].sn) = N + d - 1 /\ IsSegment(e[d], h, N + d)
        BY <1>5
      <4>2. N + d - 1 >= U /\ N + d - 1 < M /\ N + d - 1 + 1 = N + d
        <5> HIDE DEF N, U
        <5> QED BY <1>2, <1>3, SMTT(20)
      <4> HIDE DEF M, N, U, e, b2
      <4> QED BY <3>2, <4>1, <4>2
    <3> QED BY <1>14, <3>1, <3>2
  <2>2. ASSUME NEW i \in 1..Len(b2), NEW l \in 1..Len(b2), i < l PROVE Off(b2[i].sn) < Off(b2[l].sn)
    <3>1. CASE l \in 1..Len(b) /\ b2[l] = b[l]
      <4>1. i \in 1..Len(b) /\ b2[i] = b[i]
        <5> HIDE DEF b, b2
        <5> QED BY <1>2, <1>7, <2>2, <3>1
      <4> HIDE DEF b, b2
      <4> QED BY <1>3, <2>2, <3>1, <4>1 DEF Holds
    <3>2. ASSUME NEW d \in 1..n, l = Len(b) + d, Off(b2[l].sn) = N + d - 1
          PROVE  Off(b2[i].sn) < Off(b2[l].sn)
      <4>1. CASE i \in 1..Len(b) /\ b2[i] = b[i]
        <5>1. Off(b[i].sn) \in Nat /\ Off(b[i].sn) < N
          BY <1>13, <4>1
        <5>2. Off(b[i].sn) < N + d - 1
          <6> HIDE DEF b, N
          <6> QED BY <1>2, <5>1
        <5> QED BY <3>2, <4>1, <5>2
      <4>2. ASSUME NEW c \in 1..n, i = Len(b) + c, Off(b2[i].sn) = N + c - 1
            PROVE  Off(b2[i].sn) < Off(b2[l].sn)
        <5>1. N + c - 1 < N + d - 1
          <6> HIDE DEF b, N
          <6> QED BY <1>2, <2>2, <3>2, <4>2
        <5> QED BY <3>2, <4>2, <5>1
      <4> QED BY <1>14, <4>1, <4>2
    <3> QED BY <1>14, <3>1, <3>2
  <2> QED BY <2>1, <2>2 DEF Holds
<1>16. k.snd_una = IF b2 = <<>> THEN Plus(k.snd_nxt, n) ELSE b2[1].sn
  <2>1. CASE b # <<>>
    <3>1. 1 \in 1..Len(b) /\ Len(b2) > 0
      <4>1. Len(b2) = Len(b) + n
        BY <1>7
      <4> HIDE DEF b, b2
      <4> QED BY <1>2, <2>1, <4>1
    <3>2. b2[1] = b[1] /\ b2 # <<>>
      <4> HIDE DEF b, b2
      <4> QED BY <1>7, <3>1
    <3> QED BY <1>3, <2>1, <3>2
  <2>2. CASE b = <<>>
    <3>1. k.snd_una = k.snd_nxt /\ Len(b) = 0
      BY <1>3, <2>2
    <3>2. Plus(k.snd_nxt, 0) = k.snd_nxt
      <4>1. 0 \in 0..Len(q) /\ N + 0 = N
        <5> HIDE DEF N, q
        <5> QED BY <1>2
      <4>2. Plus(k.snd_nxt, 0) \in Numbers /\ Off(Plus(k.snd_nxt, 0)) = N
        BY <1>4, <4>1
      <4> QED BY <1>2, <4>2, OffInjective
    <3>3. CASE n = 0
      <4>1. b2 = <<>>
        <5>1. Len(b2) = 0
          BY <1>7, <3>1, <3>3
        <5> HIDE DEF b2
        <5> QED BY <1>7, <5>1
      <4> QED BY <3>1, <3>2, <3>3, <4>1
    <3>4. CASE n # 0
      <4>1. 1 \in 1..n /\ 0 + 1 = 1
        BY <1>2, <3>4
      <4>2. b2[1] = e[1]
        <5>1. b2[Len(b) + 1] = e[1]
          BY <1>7, <4>1
        <5> QED BY <3>1, <4>1, <5>1
      <4>3. e[1].sn = Plus(k.snd_nxt, 1 - 1)
        BY <4>1 DEF Entering
      <4>4. b2 # <<>>
        <5>1. Len(b2) # 0
          <6>1. Len(b2) = 0 + n
            BY <1>7, <3>1
          <6> HIDE DEF b2
          <6> QED BY <1>2, <3>4, <6>1
        <5> HIDE DEF b2
        <5> QED BY <1>7, <5>1
      <4>5. 1 - 1 = 0
        OBVIOUS
      <4> QED BY <3>1, <3>2, <4>2, <4>3, <4>4, <4>5
    <3> QED BY <3>3, <3>4
  <2> QED BY <2>1, <2>2
<1>17. Off(j.snd_nxt) = M /\ Off(j.snd_una) = U
  BY <1>9, <1>10
<1>18. Sends(j, h)
  <2>1. /\ M + Len(j.snd_queue) = h.len /\ Continues(j.snd_queue, h, M) /\ Holds(j.snd_buf, h, U, M)
        /\ j.snd_una = IF j.snd_buf = <<>> THEN j.snd_nxt ELSE j.snd_buf[1].sn
    BY <1>10, <1>11, <1>12, <1>15, <1>16
  <2> HIDE DEF j, M, U
  <2> QED BY <1>11, <1>17, <2>1 DEF Sends
<1>19. Offsets(b2) = Offsets(b) \cup N..(M - 1)
  <2>1. ASSUME NEW o \in Offsets(b2) PROVE o \in Offsets(b) \/ o \in N..(M - 1)
    <3>1. PICK i \in 1..Len(b2) : o = Off(b2[i].sn)
      BY <2>1 DEF Offsets
    <3>2. CASE i \in 1..Len(b) /\ b2[i] = b[i]
      BY <3>1, <3>2 DEF Offsets
    <3>3. ASSUME NEW d \in 1..n, Off(b2[i].sn) = N + d - 1 PROVE o \in N..(M - 1)
      <4>1. o = N + d - 1
        BY <3>1, <3>3
      <4> HIDE DEF N
      <4> QED BY <1>2, <4>1
    <3> QED BY <1>14, <3>2, <3>3
  <2>2. ASSUME NEW o \in Offsets(b) PROVE o \in Offsets(b2)
    <3>1. PICK i \in 1..Len(b) : o = Off(b[i].sn)
      BY <2>2 DEF Offsets
    <3>2. i \in 1..Len(b2) /\ b2[i] = b[i]
      <4>1. Len(b2) = Len(b) + n /\ b2[i] = b[i]
        BY <1>7
      <4> HIDE DEF b, b2
      <4> QED BY <1>2, <4>1
    <3> HIDE DEF b, b2
    <3> QED BY <3>1, <3>2 DEF Offsets
  <2>3. ASSUME NEW o \in N..(M - 1) PROVE o \in Offsets(b2)
    <3> DEFINE d == o - N + 1
               i == Len(b) + d
    <3>1. d \in 1..n /\ N + d - 1 = o
      <4> HIDE DEF N
      <4> QED BY <1>2
    <3>2. i \in 1..Len(b2)
      <4>1. Len(b2) = Len(b) + n
        BY <1>7
      <4> HIDE DEF b, b2, d
      <4> QED BY <1>2, <3>1, <4>1
    <3>3. Off(b2[i].sn) = o
      BY <1>5, <1>7, <3>1
    <3> HIDE DEF i, b2
    <3> QED BY <3>2, <3>3 DEF Offsets
  <2> HIDE DEF b2, b, M
  <2> QED BY <2>1, <2>2, <2>3
<1>20. Offsets(j.snd_buf) = Offsets(b) \cup N..(Off(j.snd_nxt) - 1)
  BY <1>10, <1>17, <1>19
<1> HIDE DEF j
<1> QED BY <1>2, <1>10, <1>11, <1>17, <1>18, <1>20 DEF j

\* A segment stays what it is when it is transmitted, and is transmitted at least once.
LEMMA TransmittedIs ==
    ASSUME NEW s \in SentRec, NEW expired
    PROVE  LET t == Transmitted(s, expired) IN
           /\ t \in SentRec /\ t.xmit > 0
           /\ t.sn = s.sn /\ t.frg = s.frg /\ t.data = s.data
<1> DEFINE t == Transmitted(s, expired)
<1>1. s.xmit \in 0..dead_link /\ s.fastack \in Nat
  BY DEF SentRec
<1>2. CASE NeedSend(s, expired)
  <2> DEFINE x == Min({s.xmit + 1, dead_link})
             f == IF FastResent(s, expired) THEN 0 ELSE s.fastack
  <2>1. x = IF s.xmit + 1 <= dead_link THEN s.xmit + 1 ELSE dead_link
    <3>1. s.xmit + 1 \in Int /\ dead_link \in Int
      BY <1>1, Widths
    <3> QED BY <3>1, MinOfTwo
  <2>2. x \in 0..dead_link /\ x > 0
    <3> HIDE DEF x
    <3> QED BY <1>1, <2>1, Widths
  <2>3. f \in Nat
    BY <1>1
  <2>4. t = [s EXCEPT !.xmit = x, !.fastack = f]
    BY <1>2 DEF Transmitted
  <2> HIDE DEF t, x, f
  <2> QED BY <2>2, <2>3, <2>4 DEF SentRec, t
<1>3. CASE ~NeedSend(s, expired)
  <2>1. t = s
    BY <1>3 DEF Transmitted
  <2>2. s.xmit # 0
    BY <1>3 DEF NeedSend
  <2>3. s.xmit > 0
    BY <1>1, <2>2, Widths
  <2> QED BY <2>1, <2>3
<1> QED BY <1>2, <1>3

\* A flush admits what fits the window, transmits it, and forgets what it has acknowledged.
LEMMA Flushes ==
    ASSUME NEW k \in Block, NEW h, h.len \in Nat, 2 * (h.len + rcv_wnd) < SeqSpace,
           NEW K, Keeps(k, h, K), NEW expired
    PROVE  LET j == ikcp_flush(k, expired)
               N == Off(k.snd_nxt)
               M == Off(j.snd_nxt)
           IN  /\ j \in Block /\ SameReceiver(k, j) /\ j.acklist = <<>> /\ j.snd_una = k.snd_una
               /\ j.snd_nxt = AdmitToSndBuf(k).snd_nxt
               /\ N \in Nat /\ M \in Nat /\ N <= M /\ M <= h.len
               /\ Offsets(j.snd_buf) = Offsets(k.snd_buf) \cup N..(M - 1)
               /\ Keeps(j, h, Offsets(j.snd_buf))
<1> DEFINE a == AdmitToSndBuf(k)
           b == a.snd_buf
           b2 == [i \in DOMAIN b |-> Transmitted(b[i], expired)]
           dies == \E i \in DOMAIN b : LET s == b[i] IN NeedSend(s, expired) /\ s.xmit + 1 >= dead_link
           j == ikcp_flush(k, expired)
           N == Off(k.snd_nxt)
           M == Off(a.snd_nxt)
<1>1. /\ a \in Block /\ SameReceiver(k, a) /\ Sends(a, h)
      /\ N \in Nat /\ M \in Nat /\ N <= M /\ M <= h.len
      /\ Offsets(b) = Offsets(k.snd_buf) \cup N..(M - 1)
      /\ a.snd_una = k.snd_una
  BY Admits
<1> HIDE DEF a
<1>2. b \in Seq(SentRec) /\ Len(b) \in Nat /\ DOMAIN b = 1..Len(b)
  <2>1. b \in Seq(SentRec)
    BY <1>1, BlockFields
  <2> HIDE DEF b
  <2> QED BY <2>1
<1>3. \A i \in 1..Len(b) : LET t == Transmitted(b[i], expired) IN
          /\ t \in SentRec /\ t.xmit > 0
          /\ t.sn = b[i].sn /\ t.frg = b[i].frg /\ t.data = b[i].data
  <2> SUFFICES ASSUME NEW i \in 1..Len(b)
               PROVE  LET t == Transmitted(b[i], expired) IN
                      /\ t \in SentRec /\ t.xmit > 0
                      /\ t.sn = b[i].sn /\ t.frg = b[i].frg /\ t.data = b[i].data
    OBVIOUS
  <2>1. b[i] \in SentRec
    <3> HIDE DEF b
    <3> QED BY <1>2
  <2> HIDE DEF b
  <2> QED BY <2>1, TransmittedIs
<1>4. b2 \in Seq(SentRec) /\ Len(b2) = Len(b) /\ \A i \in 1..Len(b) : b2[i] = Transmitted(b[i], expired)
  <2>1. \A i \in 1..Len(b) : Transmitted(b[i], expired) \in SentRec
    BY <1>3
  <2> HIDE DEF b
  <2> QED BY <1>2, <2>1
<1>5. \A i \in 1..Len(b) : /\ b2[i].sn = b[i].sn /\ b2[i].frg = b[i].frg /\ b2[i].data = b[i].data
                           /\ b2[i].xmit > 0
  <2> HIDE DEF b2, b
  <2> QED BY <1>3, <1>4
<1>6. j = [a EXCEPT !.acklist = <<>>, !.ask_tell = FALSE, !.probe_wait = (k.rmt_wnd = 0),
                    !.snd_buf = b2, !.dead = a.dead \/ dies]
  BY DEF ikcp_flush, a
<1>7. /\ j \in Block /\ j.snd_buf = b2 /\ j.acklist = <<>> /\ j.snd_una = a.snd_una
      /\ j.snd_nxt = a.snd_nxt /\ j.snd_queue = a.snd_queue
      /\ j.rcv_nxt = a.rcv_nxt /\ j.rcv_buf = a.rcv_buf /\ j.rcv_queue = a.rcv_queue
  <2>1. (k.rmt_wnd = 0) \in BOOLEAN /\ <<>> \in Seq(Numbers)
    OBVIOUS
  <2> DEFINE x == (k.rmt_wnd = 0)
             y == a.dead \/ dies
  <2>3. y \in BOOLEAN /\ x \in BOOLEAN
    <3>1. a.dead \in BOOLEAN
      BY <1>1, BlockFields
    <3>2. dies \in BOOLEAN
      OBVIOUS
    <3> HIDE DEF dies
    <3> QED BY <3>1, <3>2
  <2>4. j = [a EXCEPT !.acklist = <<>>, !.ask_tell = FALSE, !.probe_wait = x, !.snd_buf = b2, !.dead = y]
    BY <1>6
  <2> HIDE DEF x, y, j, b2
  <2> QED BY <1>1, <1>4, <2>1, <2>3, <2>4 DEF Block
<1>8. Offsets(b2) = Offsets(b)
  <2> HIDE DEF b, b2
  <2> QED BY <1>4, <1>5 DEF Offsets
<1>9. SameReceiver(k, j)
  <2> HIDE DEF j
  <2> QED BY <1>1, <1>7 DEF SameReceiver
<1>10. Holds(b2, h, Off(a.snd_una), M)
  <2>1. Holds(b, h, Off(a.snd_una), M)
    BY <1>1 DEF Sends
  <2> HIDE DEF b, b2, M
  <2> QED BY <1>4, <1>5, <2>1 DEF Holds, IsSegment
<1>11. a.snd_una = IF b2 = <<>> THEN a.snd_nxt ELSE b2[1].sn
  <2>1. a.snd_una = IF b = <<>> THEN a.snd_nxt ELSE b[1].sn
    BY <1>1 DEF Sends
  <2>2. b2 = <<>> <=> b = <<>>
    <3> HIDE DEF b, b2
    <3> QED BY <1>2, <1>4
  <2>3. b # <<>> => b2[1].sn = b[1].sn
    <3>1. b # <<>> => 1 \in 1..Len(b)
      <4> HIDE DEF b
      <4> QED BY <1>2
    <3> HIDE DEF b, b2
    <3> QED BY <1>5, <3>1
  <2> HIDE DEF b, b2
  <2> QED BY <2>1, <2>2, <2>3
<1>12. Sends(j, h)
  <2>1. /\ Off(a.snd_nxt) + Len(a.snd_queue) = h.len
        /\ Continues(a.snd_queue, h, Off(a.snd_nxt))
        /\ Off(a.snd_una) <= Off(a.snd_nxt)
        /\ Off(a.snd_nxt) - Off(a.snd_una) <= snd_wnd
        /\ Off(a.snd_nxt) - Off(a.snd_una) <= rcv_wnd
    BY <1>1 DEF Sends
  <2> HIDE DEF j, b, b2
  <2> QED BY <1>7, <1>10, <1>11, <2>1 DEF Sends
<1>13. Keeps(j, h, Offsets(j.snd_buf))
  <2>1. \A i \in 1..Len(j.snd_buf) : j.snd_buf[i].xmit > 0
    <3> HIDE DEF j, b, b2
    <3> QED BY <1>4, <1>5, <1>7
  <2> HIDE DEF j
  <2> QED BY <1>12, <2>1 DEF Keeps
<1>14. Off(j.snd_nxt) = M /\ Offsets(j.snd_buf) = Offsets(b)
  BY <1>7, <1>8
<1> HIDE DEF j, M, b
<1> QED BY <1>1, <1>7, <1>9, <1>13, <1>14 DEF j, M, b, a

\* A flush packs its segments into datagrams: each has some of them, and none is empty.
LEMMA DatagramsAre ==
    ASSUME NEW S, NEW segs \in Seq(S), NEW d \in Datagrams(segs)
    PROVE  d \in Seq(S) /\ d # <<>>
<1> DEFINE Size(i, j) == MapThenSumSet(LAMBDA n : IKCP_OVERHEAD + Len(segs[n].data), i..j)
           first[i \in DOMAIN segs] ==
               IF i = 1 \/ Size(first[i - 1], i) > mss + IKCP_OVERHEAD THEN i ELSE first[i - 1]
           last(i) == Max({j \in DOMAIN segs : first[j] = i})
<1>1. d \in {SubSeq(segs, i, last(i)) : i \in {j \in DOMAIN segs : first[j] = j}}
  BY Zenon DEF Datagrams
<1> HIDE DEF first
<1>2. PICK i \in DOMAIN segs : first[i] = i /\ d = SubSeq(segs, i, last(i))
  <2> HIDE DEF last
  <2> QED BY <1>1
<1> DEFINE T == {j \in DOMAIN segs : first[j] = i}
<1>3. Len(segs) \in Nat /\ i \in 1..Len(segs) /\ T \in SUBSET (1..Len(segs)) /\ i \in T
  BY <1>2
<1>4. Max(T) \in T /\ \A y \in T : Max(T) >= y
  <2> HIDE DEF T
  <2> QED BY <1>3, MaxIs
<1>5. Max(T) \in 1..Len(segs) /\ Max(T) >= i
  <2> HIDE DEF T
  <2> QED BY <1>3, <1>4
<1>6. d = SubSeq(segs, i, Max(T))
  BY <1>2
<1> HIDE DEF T
<1> QED BY <1>3, <1>5, <1>6

\* What a flush of k may send: the data of the first n segments of h, and answers to
\* what k has received.
Flushed(s, k, h, n) ==
    /\ PushOK(s, h, n) /\ s.una = k.rcv_nxt
    /\ s.cmd = "ACK" => Got(k, Off(s.sn))

LEMMA FlushedAre ==
    ASSUME NEW k \in Block, NEW h, h.len \in Nat, 2 * (h.len + rcv_wnd) < SeqSpace,
           NEW K, Keeps(k, h, K), NEW in, NEW n, Receives(k, in, n), Len(k.rcv_queue) < rcv_wnd,
           NEW expired, NEW M, M = Off(ikcp_flush(k, expired).snd_nxt)
    PROVE  FlushedSegments(k, expired) \in Seq({s \in SegmentRec : Flushed(s, k, h, M)})
<1> DEFINE G == {s \in SegmentRec : Flushed(s, k, h, M)}
           a == AdmitToSndBuf(k)
           b == a.snd_buf
           u == ikcp_wnd_unused(k)
<1>1. a \in Block /\ Sends(a, h)
  BY Admits
<1>2. M = Off(a.snd_nxt) /\ M \in Nat
  BY Flushes
<1> HIDE DEF a
<1>3. b \in Seq(SentRec) /\ Len(b) \in Nat /\ DOMAIN b = 1..Len(b)
  <2>1. b \in Seq(SentRec)
    BY <1>1, BlockFields
  <2> HIDE DEF b
  <2> QED BY <2>1
<1>4. k.rcv_nxt \in Numbers /\ u \in 1..rcv_wnd
  <2>1. k.rcv_nxt \in Numbers /\ Len(k.rcv_queue) \in Nat
    BY BlockFields
  <2>2. u = rcv_wnd - Len(k.rcv_queue)
    BY DEF ikcp_wnd_unused
  <2> HIDE DEF u
  <2> QED BY <2>1, <2>2, Widths
<1>5. ASSUME NEW c \in {"ACK", "PUSH", "WASK", "WINS"}, NEW sn \in Numbers, NEW frg \in Nat,
             NEW data \in Seq(Nat)
      PROVE  LET s == Segment(k, c, sn, frg, data) IN
             /\ s \in SegmentRec /\ s.una = k.rcv_nxt
             /\ s.cmd = c /\ s.sn = sn /\ s.frg = frg /\ s.data = data
  <2> HIDE DEF u
  <2> QED BY <1>4 DEF Segment, SegmentRec, u
<1>6. <<>> \in Seq(Nat) /\ FirstSn \in Numbers /\ 0 \in Nat
  BY Widths
<1> DEFINE nil == <<>>
<1>7. ASSUME NEW c \in {"ACK", "PUSH", "WASK", "WINS"}, NEW sn \in Numbers
       PROVE  LET s == Segment(k, c, sn, 0, nil) IN
              s \in SegmentRec /\ s.una = k.rcv_nxt /\ s.cmd = c /\ s.sn = sn
  <2>1. nil \in Seq(Nat) /\ 0 \in Nat
    BY <1>6
  <2> HIDE DEF nil
  <2> QED BY <1>5, <2>1
<1> DEFINE p1 == [i \in DOMAIN k.acklist |-> Segment(k, "ACK", k.acklist[i], 0, <<>>)]
           p2 == IF ProbeTimer \in expired THEN <<Segment(k, "WASK", FirstSn, 0, <<>>)>> ELSE <<>>
           p3 == IF k.ask_tell THEN <<Segment(k, "WINS", FirstSn, 0, <<>>)>> ELSE <<>>
           g == [i \in DOMAIN b |->
                    IF NeedSend(b[i], expired)
                    THEN <<Segment(k, "PUSH", b[i].sn, b[i].frg, b[i].data)>> ELSE <<>>]
<1>8. FlushedSegments(k, expired) = p1 \o p2 \o p3 \o FlattenSeq(g)
  BY Zenon DEF FlushedSegments, a
<1>9. p1 \in Seq(G)
  <2>1. k.acklist \in Seq(Numbers) /\ \A i \in 1..Len(k.acklist) : Got(k, Off(k.acklist[i]))
    BY BlockFields DEF Receives
  <2>2. ASSUME NEW i \in 1..Len(k.acklist) PROVE Segment(k, "ACK", k.acklist[i], 0, <<>>) \in G
    <3> DEFINE s == Segment(k, "ACK", k.acklist[i], 0, <<>>)
    <3>1. k.acklist[i] \in Numbers
      BY <2>1
    <3>2. s \in SegmentRec /\ s.una = k.rcv_nxt /\ s.cmd = "ACK" /\ s.sn = k.acklist[i]
      <4>1. "ACK" \in {"ACK", "PUSH", "WASK", "WINS"}
        OBVIOUS
      <4> QED BY <1>7, <3>1, <4>1, Zenon
    <3>3. Got(k, Off(k.acklist[i]))
      BY <2>1
    <3> HIDE DEF s
    <3> QED BY <3>2, <3>3 DEF Flushed, PushOK, s
  <2>3. DOMAIN k.acklist = 1..Len(k.acklist) /\ Len(k.acklist) \in Nat
    BY <2>1
  <2>4. DOMAIN p1 = 1..Len(k.acklist) /\ p1 \in [1..Len(k.acklist) -> G]
    <3> HIDE DEF G
    <3> QED BY <2>2, <2>3
  <2> HIDE DEF G, p1
  <2> QED BY <2>3, <2>4
<1>10. p2 \in Seq(G) /\ p3 \in Seq(G)
  <2> DEFINE s == Segment(k, "WASK", FirstSn, 0, <<>>)
             t == Segment(k, "WINS", FirstSn, 0, <<>>)
  <2>1. FirstSn \in Numbers
    BY <1>6
  <2>2. s \in G /\ t \in G
    <3>1. s \in SegmentRec /\ s.una = k.rcv_nxt /\ s.cmd = "WASK"
      <4>1. "WASK" \in {"ACK", "PUSH", "WASK", "WINS"}
        OBVIOUS
      <4> QED BY <1>7, <2>1, <4>1, Zenon
    <3>2. t \in SegmentRec /\ t.una = k.rcv_nxt /\ t.cmd = "WINS"
      <4>1. "WINS" \in {"ACK", "PUSH", "WASK", "WINS"}
        OBVIOUS
      <4> QED BY <1>7, <2>1, <4>1, Zenon
    <3> HIDE DEF s, t
    <3> QED BY <3>1, <3>2 DEF Flushed, PushOK
  <2> HIDE DEF G, s, t
  <2>3. <<s>> \in Seq(G) /\ <<t>> \in Seq(G) /\ <<>> \in Seq(G)
    BY <2>2
  <2>4. (p2 = <<s>> \/ p2 = <<>>) /\ (p3 = <<t>> \/ p3 = <<>>)
    BY DEF s, t
  <2> HIDE DEF p2, p3
  <2> QED BY <2>3, <2>4
<1>11. g \in Seq(Seq(G))
  <2>1. ASSUME NEW i \in 1..Len(b) PROVE Segment(k, "PUSH", b[i].sn, b[i].frg, b[i].data) \in G
    <3> DEFINE s == Segment(k, "PUSH", b[i].sn, b[i].frg, b[i].data)
    <3>1. b[i] \in SentRec
      <4> HIDE DEF b
      <4> QED BY <1>3
    <3>2. b[i].sn \in Numbers /\ b[i].frg \in Nat /\ b[i].data \in Seq(Nat)
      <4> HIDE DEF b
      <4> QED BY <3>1 DEF SentRec
    <3>3. /\ s \in SegmentRec /\ s.una = k.rcv_nxt /\ s.cmd = "PUSH" /\ s.sn = b[i].sn
          /\ s.frg = b[i].frg /\ s.data = b[i].data
      <4> HIDE DEF b
      <4> QED BY <1>5, <3>2
    <3>4. Off(b[i].sn) < M /\ IsSegment(b[i], h, Off(b[i].sn) + 1)
      <4>1. Holds(b, h, Off(a.snd_una), Off(a.snd_nxt))
        BY <1>1 DEF Sends
      <4> HIDE DEF b
      <4> QED BY <1>2, <4>1 DEF Holds
    <3>5. PushOK(s, h, M)
      <4> HIDE DEF s, b
      <4> QED BY <3>3, <3>4 DEF PushOK, IsSegment
    <3> HIDE DEF s, b
    <3> QED BY <3>3, <3>5 DEF Flushed, s
  <2> HIDE DEF G, b
  <2> QED BY <1>3, <2>1
<1>12. FlattenSeq(g) \in Seq(G)
  <2> HIDE DEF g, G
  <2> QED BY <1>11, FlattenType
<1>13. p1 \o p2 \o p3 \o FlattenSeq(g) \in Seq(G)
  <2> DEFINE p4 == FlattenSeq(g)
  <2> HIDE DEF p1, p2, p3, p4, G
  <2>1. p1 \o p2 \in Seq(G)
    BY <1>9, <1>10
  <2>2. p1 \o p2 \o p3 \in Seq(G)
    BY <1>10, <2>1
  <2>3. p1 \o p2 \o p3 \o p4 \in Seq(G)
    BY <1>12, <2>2 DEF p4
  <2> QED BY <2>3 DEF p4
<1> QED BY <1>8, <1>13

\* The datagrams of a flush.
LEMMA FlushSends ==
    ASSUME NEW k \in Block, NEW h, h.len \in Nat, 2 * (h.len + rcv_wnd) < SeqSpace,
           NEW K, Keeps(k, h, K), NEW in, NEW n, Receives(k, in, n), Len(k.rcv_queue) < rcv_wnd,
           NEW expired, NEW d \in ikcp_flush_output(k, expired)
    PROVE  /\ d \in Seq(SegmentRec) /\ d # <<>>
           /\ \A i \in 1..Len(d) : Flushed(d[i], k, h, Off(ikcp_flush(k, expired).snd_nxt))
<1> DEFINE M == Off(ikcp_flush(k, expired).snd_nxt)
           G == {s \in SegmentRec : Flushed(s, k, h, M)}
<1>1. FlushedSegments(k, expired) \in Seq(G)
  BY FlushedAre
<1>2. d \in Datagrams(FlushedSegments(k, expired))
  BY DEF ikcp_flush_output
<1>3. d \in Seq(G) /\ d # <<>>
  <2> HIDE DEF G
  <2> QED BY <1>1, <1>2, DatagramsAre
<1>4. \A i \in 1..Len(d) : d[i] \in G
  <2> HIDE DEF G
  <2> QED BY <1>3
<1>5. d \in Seq(SegmentRec)
  <2>1. \A i \in 1..Len(d) : d[i] \in SegmentRec
    BY <1>4
  <2> HIDE DEF G
  <2> QED BY <1>3, <2>1
<1> HIDE DEF M
<1> QED BY <1>3, <1>4, <1>5 DEF M
===============================================================================
