---------------------------- MODULE TCPRelayProofs ----------------------------
(***************************************************************************)
(* Theorems about TCPRelay, for any connections, requests and responses.   *)
(***************************************************************************)
EXTENDS TCPRelay, InductionFacts

-------------------------------------------------------------------------------
(* The resolver.                                                           *)

\* LookupIsDriven is inductive on top of the types.
DrivenInv == ResolverTypeOK /\ LookupIsDriven

\* A new resolver has no lookup and no timer.
LEMMA DrivenInit == ResolverInit => DrivenInv
<1> SUFFICES ASSUME ResolverInit PROVE DrivenInv
  OBVIOUS
<1>1. timerActive_ \in BOOLEAN /\ ~timerActive_
  BY Zenon DEF ResolverInit
<1> QED
  BY <1>1 DEF ResolverInit, DrivenInv, ResolverTypeOK, LookupIsDriven, Pending

\* resolve() opens a socket for a lookup that is not answered at once and starts the timer.
LEMMA DrivenResolve ==
  ASSUME DrivenInv, NEW c \in Conns, NEW atOnce \in BOOLEAN, resolve(c, atOnce)
  PROVE  DrivenInv'
BY DEF DrivenInv, ResolverTypeOK, LookupIsDriven, Pending, resolve, onSockCreate

\* onRead removes a socket only for another, or when nothing waits on it.
LEMMA DrivenRead ==
  ASSUME DrivenInv, NEW s \in Sockets, NEW done \in SUBSET Pending, NEW fails \in BOOLEAN,
         onRead(s, done, fails)
  PROVE  DrivenInv'
BY DEF DrivenInv, ResolverTypeOK, LookupIsDriven, Pending, onRead, onQueryResult, onSockStateChange

\* onTimer gives the timer up only with the last lookup.
LEMMA DrivenTimer ==
  ASSUME DrivenInv, NEW done \in SUBSET Pending, onTimer(done)
  PROVE  DrivenInv'
<1>1. query' \in [Conns -> {"none", "pending", "done"}] /\ Pending' = Pending \ done
  BY DEF DrivenInv, ResolverTypeOK, Pending, onTimer, onQueryResult
<1>2. CASE Pending = done
  <2>1. timerActive_' \in BOOLEAN /\ ~timerActive_'
    BY <1>2, Zenon DEF onTimer
  <2>2. timers = 1 /\ timers' = 0
    BY <1>2 DEF DrivenInv, ResolverTypeOK, LookupIsDriven, onTimer
  <2> QED
    BY <1>1, <1>2, <2>1, <2>2 DEF DrivenInv, ResolverTypeOK, LookupIsDriven, onTimer
<1>3. CASE Pending # done
  BY <1>1, <1>3 DEF DrivenInv, ResolverTypeOK, LookupIsDriven, onTimer
<1> QED BY <1>2, <1>3

\* Steps of the relay that do not touch the resolver.
LEMMA DrivenUnchanged ==
  ASSUME DrivenInv, UNCHANGED resolverVars
  PROVE  DrivenInv'
BY DEF DrivenInv, ResolverTypeOK, LookupIsDriven, Pending, resolverVars

\* Of a connection's events only onServerMessage reaches the resolver.
LEMMA DrivenEvent ==
  ASSUME DrivenInv, NEW c \in Conns, Event(c)
  PROVE  DrivenInv'
<1>1. CASE \E n \in ReadSizes(c) : onServerMessage(c, n)
  <2>1. UNCHANGED resolverVars \/ \E atOnce \in BOOLEAN : resolve(c, atOnce)
    BY <1>1 DEF onServerMessage, FirstMessage
  <2> QED BY <2>1, DrivenResolve, DrivenUnchanged
<1>2. CASE ~ \E n \in ReadSizes(c) : onServerMessage(c, n)
  BY <1>2, DrivenUnchanged DEF Event, onServerConnectionUp, onServerConnectionDown,
     onClientConnectionUp, onClientConnectionDown, onClientMessage, onHighWaterMark, handleWrite
<1> QED BY <1>1, <1>2

\* DrivenInv holds whatever happens.
LEMMA DrivenAlways == Spec => []DrivenInv
<1>1. Init => DrivenInv
  BY DrivenInit DEF Init
<1>2. DrivenInv /\ [Next]_vars => DrivenInv'
  <2> SUFFICES ASSUME DrivenInv, [Next]_vars PROVE DrivenInv'
    OBVIOUS
  <2>1. CASE \E c \in Conns : Event(c)
    BY <2>1, DrivenEvent
  <2>2. CASE \E s \in Sockets, done \in SUBSET Pending, fails \in BOOLEAN :
               LookupAnswered(s, done, fails)
    BY <2>2, DrivenRead DEF LookupAnswered
  <2>3. CASE \E done \in SUBSET Pending : LookupTimer(done)
    BY <2>3, DrivenTimer DEF LookupTimer
  <2>4. CASE UNCHANGED vars
    BY <2>4, DrivenUnchanged DEF vars
  <2> QED BY <2>1, <2>2, <2>3, <2>4 DEF Next
<1> QED BY <1>1, <1>2, PTL DEF Spec

\* However lookups overlap, fail and are given up, each one in flight has one timer and a
\* socket behind it, and timerActive_ tells the truth about the loop (resolver.cc).
THEOREM LookupsDriven == Spec => []LookupIsDriven
<1>1. DrivenInv => LookupIsDriven
  BY DEF DrivenInv
<1> QED BY <1>1, DrivenAlways, PTL

-------------------------------------------------------------------------------
(* Orphans: upstream connections without a client.                         *)

\* A connection is a record with a state.
Connections ==
  /\ DOMAIN server = Conns /\ DOMAIN upstream = Conns
  /\ query \in [Conns -> {"none", "pending", "done"}]
  /\ \A c \in Conns : "state" \in DOMAIN server[c] /\ "state" \in DOMAIN upstream[c]

\* What the lists, the lookup and the two connections of c know of each other.
RaceOf(c) ==
  /\ server[c].state \in {"idle", "connected", "disconnecting", "down"}
  /\ server[c].state = "idle" => query[c] = "none"
  /\ upstream[c].state # "idle" => query[c] = "done"
  /\ Readable(server[c]) /\ query[c] # "none" => c \in MetaList
  /\ Readable(server[c]) /\ upstream[c].state # "idle" => c \in TunnelList
  /\ server[c].state = "down" /\ query[c] = "pending" => c \in leftEarly
  /\ server[c].state = "down" /\ upstream[c].state \in {"connecting", "connected"} =>
       c \in leftEarly

RaceInv == Connections /\ \A c \in Conns : RaceOf(c)

\* What the calls on a connection do to its state.
LEMMA SendState ==
  ASSUME NEW k, NEW bytes, NEW n, NEW mark, "state" \in DOMAIN k
  PROVE  /\ "state" \in DOMAIN Send(k, bytes, n, mark)
         /\ Send(k, bytes, n, mark).state = k.state
BY DEF Send

\* shutdown, handleWrite and the end of a connection.
LEMMA ConnState ==
  ASSUME NEW k, "state" \in DOMAIN k
  PROVE  /\ "state" \in DOMAIN Shutdown(k)
         /\ Shutdown(k).state = IF k.state = "connected" THEN "disconnecting" ELSE k.state
         /\ "state" \in DOMAIN Drain(k) /\ Drain(k).state = k.state
         /\ "state" \in DOMAIN Down(k) /\ Down(k).state = "down"
BY DEF Shutdown, Drain, Down

\* A new connection has the state it is given.
LEMMA NewConnState == \A s : "state" \in DOMAIN NewConn(s) /\ NewConn(s).state = s
BY DEF NewConn

\* A step in which nobody comes or goes: clients are at most shut down, and upstream
\* connections that are being made are up, shut down or down.
LEMMA RaceQuiet ==
  ASSUME RaceInv, UNCHANGED <<MetaList, TunnelList, leftEarly, query>>,
         DOMAIN server' = Conns, DOMAIN upstream' = Conns,
         \A c \in Conns :
           /\ "state" \in DOMAIN server'[c] /\ "state" \in DOMAIN upstream'[c]
           /\ server'[c].state \in {server[c].state, Shutdown(server[c]).state}
           /\ \/ upstream'[c].state \in {upstream[c].state, Shutdown(upstream[c]).state}
              \/ upstream[c].state # "idle" /\ upstream'[c].state = "down"
              \/ upstream[c].state = "connecting" /\ upstream'[c].state = "connected"
  PROVE  RaceInv'
BY ConnState DEF RaceInv, Connections, RaceOf, Readable

\* Lookups end, and their tunnels connect: a client that is gone left while its lookup was
\* pending.
LEMMA RaceResolved ==
  ASSUME RaceInv, NEW done \in SUBSET Pending, NEW addr, resolveCallback(done, addr),
         onQueryResult(done), UNCHANGED <<server, MetaList, leftEarly>>
  PROVE  RaceInv'
<1>1. Connections'
  BY NewConnState DEF RaceInv, Connections, resolveCallback, onQueryResult
<1>2. ASSUME NEW d \in Conns PROVE RaceOf(d)'
  <2>1. CASE d \in done
    BY <2>1, NewConnState
    DEF RaceInv, RaceOf, Readable, Pending, resolveCallback, onQueryResult
  <2>2. CASE d \notin done
    BY <2>2 DEF RaceInv, RaceOf, Readable, resolveCallback, onQueryResult
  <2> QED BY <2>1, <2>2
<1> QED BY <1>1, <1>2 DEF RaceInv

\* A client comes or goes.
LEMMA RaceServer ==
  ASSUME RaceInv, NEW c \in Conns, onServerConnectionUp(c) \/ onServerConnectionDown(c)
  PROVE  RaceInv'
<1>1. CASE onServerConnectionUp(c)
  BY <1>1 DEF RaceInv, Connections, RaceOf, Readable, onServerConnectionUp, resolverVars
<1>2. CASE onServerConnectionDown(c)
  <2>1. /\ DOMAIN server' = Conns /\ DOMAIN upstream' = Conns
        /\ \A d \in Conns \ {c} : server'[d] = server[d] /\ upstream'[d] = upstream[d]
        /\ server'[c] = Down(server[c])
        /\ upstream'[c] = IF c \in MetaList \cap TunnelList THEN Shutdown(upstream[c])
                          ELSE upstream[c]
        /\ query' = query
    BY <1>2 DEF RaceInv, Connections, onServerConnectionDown, disconnect, resolverVars
  <2>2. Connections'
    BY <2>1, ConnState DEF RaceInv, Connections
  <2>3. RaceOf(c)'
    BY <1>2, <2>1, ConnState DEF RaceInv, Connections, RaceOf, Readable, onServerConnectionDown
  <2>4. ASSUME NEW d \in Conns \ {c} PROVE RaceOf(d)'
    BY <1>2, <2>1, <2>4 DEF RaceInv, RaceOf, Readable, onServerConnectionDown
  <2> QED BY <2>2, <2>3, <2>4 DEF RaceInv
<1> QED BY <1>1, <1>2

\* The first message makes the request's entry in the list before its lookup begins.
LEMMA RaceFirst ==
  ASSUME RaceInv, NEW c \in Conns, Readable(server[c]), NEW in, FirstMessage(c, in),
         UNCHANGED leftEarly
  PROVE  RaceInv'
<1> DEFINE Stays == /\ UNCHANGED <<MetaList, TunnelList, upstream, query>>
                    /\ \/ server' = server
                       \/ server' = [server EXCEPT ![c].in = in]
                       \/ server' = [server EXCEPT ![c] = [Shutdown(@) EXCEPT !.in = in]]
           Begins(atOnce) == /\ MetaList' = MetaList \cup {c}
                           /\ server' = [server EXCEPT ![c].in = <<>>]
                           /\ resolve(c, atOnce)
<1>1. \/ Stays
      \/ Begins(FALSE) /\ UNCHANGED <<TunnelList, upstream>>
      \/ Begins(TRUE) /\ \E addr : resolveCallback({c}, addr)
  BY Zenon DEF FirstMessage, resolverVars
<1>2. CASE Stays
  <2>1. /\ DOMAIN server' = Conns
        /\ \A d \in Conns : /\ "state" \in DOMAIN server'[d]
                            /\ server'[d].state \in {server[d].state, Shutdown(server[d]).state}
    BY <1>2, ConnState DEF RaceInv, Connections
  <2> QED BY <1>2, <2>1, RaceQuiet DEF RaceInv, Connections
<1>3. CASE ~Stays
  <2>1. /\ MetaList' = MetaList \cup {c} /\ query[c] = "none"
        /\ DOMAIN server' = Conns
        /\ \A d \in Conns : /\ "state" \in DOMAIN server'[d]
                            /\ server'[d].state = server[d].state
    BY <1>1, <1>3 DEF RaceInv, Connections, resolve
  <2>2. \/ /\ query' = [query EXCEPT ![c] = "pending"]
           /\ UNCHANGED <<TunnelList, upstream>>
        \/ /\ query' = [query EXCEPT ![c] = "done"]
           /\ TunnelList' = TunnelList \cup {c}
           /\ upstream' = [d \in Conns |-> IF d \in {c} THEN NewConn("connecting")
                                                         ELSE upstream[d]]
    BY <1>1, <1>3 DEF resolve, resolveCallback
  <2>3. Connections'
    BY <2>1, <2>2, NewConnState DEF RaceInv, Connections
  <2>4. RaceOf(c)'
    BY <2>1, <2>2, NewConnState DEF RaceInv, Connections, RaceOf, Readable
  <2>5. ASSUME NEW d \in Conns, d # c PROVE RaceOf(d)'
    BY <2>1, <2>2, <2>5 DEF RaceInv, Connections, RaceOf, Readable
  <2> QED BY <2>3, <2>4, <2>5 DEF RaceInv
<1> QED BY <1>2, <1>3

\* The other events are quiet in the sense of RaceQuiet.
LEMMA RaceMessages ==
  ASSUME RaceInv, NEW c \in Conns,
         \/ onClientConnectionUp(c) \/ onClientConnectionDown(c)
         \/ \E n \in 1..Len(Response(c)) : onClientMessage(c, n)
         \/ onHighWaterMark(c) \/ handleWrite(c)
  PROVE  RaceInv'
<1> USE DEF RaceInv, Connections
<1>1. CASE onClientConnectionUp(c)
  <2> DEFINE up == [upstream[c] EXCEPT !.state = "connected"]
  <2>1. "state" \in DOMAIN up /\ up.state = "connected"
    OBVIOUS
  <2>2. /\ upstream[c].state = "connecting"
        /\ \E bytes, n : upstream' = [upstream EXCEPT ![c] = Send(up, bytes, n, UpstreamMark)]
        /\ UNCHANGED <<server, MetaList, TunnelList, leftEarly, query>>
    BY <1>1, Zenon DEF onClientConnectionUp, resolverVars
  <2> HIDE DEF up
  <2>3. /\ DOMAIN upstream' = Conns
        /\ "state" \in DOMAIN upstream'[c] /\ upstream'[c].state = "connected"
        /\ \A d \in Conns \ {c} : upstream'[d] = upstream[d]
    <3>1. PICK bytes, n : upstream' = [upstream EXCEPT ![c] = Send(up, bytes, n, UpstreamMark)]
      BY <2>2
    <3>2. /\ "state" \in DOMAIN Send(up, bytes, n, UpstreamMark)
          /\ Send(up, bytes, n, UpstreamMark).state = "connected"
      BY <2>1, SendState
    <3> QED BY <3>1, <3>2
  <2> QED BY <2>2, <2>3, RaceQuiet
<1>2. CASE onClientConnectionDown(c)
  BY <1>2, ConnState, RaceQuiet DEF onClientConnectionDown, teardown, Readable, resolverVars
<1>3. CASE \E n \in 1..Len(Response(c)) : onClientMessage(c, n)
  <2>1. /\ \/ \E bytes, k : server' = [server EXCEPT ![c] = Send(@, bytes, k, ServerMark)]
           \/ server' = [server EXCEPT ![c] = Shutdown(@)]
        /\ UNCHANGED <<upstream, MetaList, TunnelList, leftEarly, query>>
    BY <1>3, Zenon DEF onClientMessage, teardown, resolverVars
  <2>2. /\ DOMAIN server' = Conns /\ "state" \in DOMAIN server'[c]
        /\ server'[c].state \in {server[c].state, Shutdown(server[c]).state}
        /\ \A d \in Conns \ {c} : server'[d] = server[d]
    BY <2>1, ConnState, SendState
  <2> QED BY <2>1, <2>2, RaceQuiet
<1>4. CASE onHighWaterMark(c)
  BY <1>4, ConnState, RaceQuiet DEF onHighWaterMark, resolverVars
<1>5. CASE handleWrite(c)
  BY <1>5, ConnState, RaceQuiet DEF handleWrite, resolverVars
<1> QED BY <1>1, <1>2, <1>3, <1>4, <1>5

\* onServerMessage is the first message, or payload and quiet.
LEMMA RaceRead ==
  ASSUME RaceInv, NEW c \in Conns, NEW n \in ReadSizes(c), onServerMessage(c, n)
  PROVE  RaceInv'
<1> DEFINE in == server[c].in \o SubSeq(Stream(c), arrived[c] + 1, arrived[c] + n)
<1>1. CASE c \in MetaList
  <2>1. LaterMessage(c, in) /\ UNCHANGED <<MetaList, TunnelList, leftEarly, query>>
    BY <1>1 DEF onServerMessage, resolverVars
  <2> HIDE DEF in
  <2>2. /\ \/ server' = [server EXCEPT ![c].in = <<>>]
           \/ server' = [server EXCEPT ![c] = [Shutdown(@) EXCEPT !.in = in]]
        /\ \/ upstream' = upstream
           \/ \E bytes, k : upstream' = [upstream EXCEPT ![c] = Send(@, bytes, k, UpstreamMark)]
    BY <2>1, Zenon DEF LaterMessage
  <2> QED BY <2>1, <2>2, ConnState, SendState, RaceQuiet DEF RaceInv, Connections
<1>2. CASE c \notin MetaList
  <2>1. FirstMessage(c, in) /\ Readable(server[c]) /\ UNCHANGED leftEarly
    BY <1>2 DEF onServerMessage
  <2> HIDE DEF in
  <2> QED BY <2>1, RaceFirst
<1> QED BY <1>1, <1>2

\* Every step of the relay preserves RaceInv.
LEMMA RaceNext == RaceInv /\ [Next]_vars => RaceInv'
<1> SUFFICES ASSUME RaceInv, [Next]_vars PROVE RaceInv'
  OBVIOUS
<1>1. CASE \E c \in Conns : Event(c)
  BY <1>1, RaceServer, RaceMessages, RaceRead DEF Event
<1>2. CASE \E s \in Sockets, done \in SUBSET Pending, fails \in BOOLEAN :
             LookupAnswered(s, done, fails)
  BY <1>2, RaceResolved DEF LookupAnswered, onRead
<1>3. CASE \E done \in SUBSET Pending : LookupTimer(done)
  BY <1>3, RaceResolved DEF LookupTimer, onTimer
<1>4. CASE UNCHANGED vars
  BY <1>4 DEF vars, relayVars, resolverVars, RaceInv, Connections, RaceOf, Readable
<1> QED BY <1>1, <1>2, <1>3, <1>4 DEF Next

\* An upstream connection that outlives its client was not there when the client left: the
\* disconnect of onServerConnection catches every other one (tcprelay.cc).
THEOREM OrphansFromRaces == Spec => []OrphansOnlyFromRaces
<1>1. Init => RaceInv
  BY NewConnState DEF Init, ResolverInit, RaceInv, Connections, RaceOf, Readable
<1>2. RaceInv => OrphansOnlyFromRaces
  BY DEF RaceInv, RaceOf, OrphansOnlyFromRaces
<1> QED BY <1>1, <1>2, RaceNext, PTL DEF Spec

-------------------------------------------------------------------------------
(* The two streams of a connection.                                        *)

\* x is the part of s behind place i and up to place j.
IsPiece(x, s, i, j) ==
  /\ i \in 0..j /\ j \in 0..Len(s)
  /\ x \in Seq(Byte) /\ Len(x) = j - i
  /\ \A k \in 1..(j - i) : x[k] = s[i + k]

\* An empty piece, and a piece that is cut out.
LEMMA PieceEmpty ==
  ASSUME NEW s, Len(s) \in Nat, NEW i \in 0..Len(s)
  PROVE  IsPiece(<<>>, s, i, i)
BY DEF IsPiece

\* SubSeq cuts out a piece.
LEMMA PieceCut ==
  ASSUME NEW s \in Seq(Byte), NEW j \in 0..Len(s), NEW i \in 0..j
  PROVE  IsPiece(SubSeq(s, i + 1, j), s, i, j)
<1> DEFINE x == SubSeq(s, i + 1, j)
           l == Len(s)
<1>1. l \in Nat /\ DOMAIN s = 1..l
  OBVIOUS
<1>2. x = [k \in 1..(j - i) |-> s[i + k]] /\ Len(x) = j - i
  OBVIOUS
<1>3. \A k \in 1..(j - i) : s[i + k] \in Byte
  OBVIOUS
<1>4. x \in Seq(Byte)
  BY <1>2, <1>3
<1> HIDE DEF x
<1> QED BY <1>1, <1>2, <1>4 DEF IsPiece, l, x

\* Two adjacent pieces make one.
LEMMA PieceJoin ==
  ASSUME NEW s, NEW x, NEW y, NEW i, NEW j, NEW k, Len(s) \in Nat, IsPiece(x, s, i, j), IsPiece(y, s, j, k)
  PROVE  IsPiece(x \o y, s, i, k)
<1>1. /\ i \in Nat /\ j \in Nat /\ k \in Nat /\ i <= j /\ j <= k /\ k \in 0..Len(s) /\ i \in 0..k
  BY DEF IsPiece
<1>2. /\ x \in Seq(Byte) /\ y \in Seq(Byte) /\ Len(x) = j - i /\ Len(y) = k - j
      /\ \A n \in 1..(j - i) : x[n] = s[i + n]
      /\ \A n \in 1..(k - j) : y[n] = s[j + n]
  BY DEF IsPiece
<1>3. x \o y \in Seq(Byte) /\ Len(x \o y) = k - i
  <2>1. x \o y \in Seq(Byte) /\ Len(x \o y) = Len(x) + Len(y)
    BY <1>2
  <2>2. (j - i) + (k - j) = k - i
    BY <1>1
  <2> QED BY <1>2, <2>1, <2>2
<1>4. ASSUME NEW n \in 1..(k - i) PROVE (x \o y)[n] = s[i + n]
  <2>0. n \in 1..(Len(x) + Len(y)) /\ n \in Nat
    BY <1>1, <1>2
  <2>1. CASE n <= j - i
    <3>1. (x \o y)[n] = x[n]
      BY <1>2, <2>0, <2>1
    <3> QED BY <1>1, <1>2, <2>1, <3>1
  <2>2. CASE n > j - i
    <3>1. (x \o y)[n] = y[n - Len(x)]
      BY <1>2, <2>0, <2>2
    <3>2. n - (j - i) \in 1..(k - j) /\ j + (n - (j - i)) = i + n
      BY <1>1, <2>2
    <3>3. y[n - (j - i)] = s[j + (n - (j - i))]
      BY <1>2, <3>2
    <3> QED BY <1>2, <3>1, <3>2, <3>3
  <2>3. n <= j - i \/ n > j - i
    BY <1>1
  <2> QED BY <2>1, <2>2, <2>3, Zenon
<1> QED BY <1>1, <1>3, <1>4 DEF IsPiece

\* The front of a piece is a piece.
LEMMA PieceFront ==
  ASSUME NEW s, NEW x \in Seq(Byte), NEW y \in Seq(Byte), NEW i, NEW j, Len(s) \in Nat, IsPiece(x \o y, s, i, j)
  PROVE  i + Len(x) \in 0..Len(s) /\ IsPiece(x, s, i, i + Len(x))
<1> DEFINE m == Len(x)
<1>1. /\ i \in Nat /\ j \in Nat /\ i <= j /\ j <= Len(s) /\ m \in Nat /\ m <= j - i
      /\ \A n \in 1..(j - i) : (x \o y)[n] = s[i + n]
  BY DEF IsPiece
<1>2. \A n \in 1..m : (x \o y)[n] = x[n]
  OBVIOUS
<1> HIDE DEF m
<1>3. ASSUME NEW n \in 1..m PROVE x[n] = s[i + n]
  <2>1. n \in 1..(j - i)
    BY <1>1
  <2> QED BY <1>1, <1>2, <2>1
<1>4. i \in 0..(i + m) /\ i + m \in 0..Len(s) /\ (i + m) - i = m
  BY <1>1
<1>5. Len(x) = m
  BY DEF m
<1> QED BY <1>3, <1>4, <1>5 DEF IsPiece

\* Sequences with the same bytes are equal.
LEMMA SameBytes ==
  ASSUME NEW x \in Seq(Byte), NEW y \in Seq(Byte), Len(x) = Len(y),
         \A k \in 1..Len(x) : x[k] = y[k]
  PROVE  x = y
<1>1. DOMAIN x = 1..Len(x) /\ DOMAIN y = 1..Len(y)
  OBVIOUS
<1> QED BY <1>1

\* There is one piece between two places.
LEMMA PieceUnique ==
  ASSUME NEW s, NEW x, NEW y, NEW i, NEW j, IsPiece(x, s, i, j), IsPiece(y, s, i, j)
  PROVE  x = y
<1> DEFINE l == j - i
<1> HIDE DEF l
<1>1. x \in Seq(Byte) /\ y \in Seq(Byte) /\ Len(x) = l /\ Len(y) = l
  BY DEF IsPiece, l
<1>2. \A k \in 1..l : x[k] = s[i + k]
  BY DEF IsPiece, l
<1>3. \A k \in 1..l : y[k] = s[i + k]
  BY DEF IsPiece, l
<1>4. \A k \in 1..Len(x) : x[k] = y[k]
  BY <1>1, <1>2, <1>3, Zenon
<1> QED BY <1>1, <1>4, SameBytes

\* A piece from the start is a prefix.
LEMMA PiecePrefix ==
  ASSUME NEW s \in Seq(Byte), NEW x, NEW j, IsPiece(x, s, 0, j)
  PROVE  IsPrefix(x, s)
<1>1. /\ j \in Nat /\ j <= Len(s) /\ x \in Seq(Byte) /\ Len(x) = j
      /\ \A k \in 1..j : x[k] = s[k]
  BY DEF IsPiece
<1>2. IsPiece(SubSeq(s, 1, j), s, 0, j)
  <2>1. j \in 0..Len(s) /\ 0 \in 0..j
    BY <1>1
  <2> QED BY <2>1, PieceCut
<1>3. SubSeq(s, 1, j) = x
  BY <1>2, PieceUnique
<1>4. SubSeq(x, 1, j) = x
  BY <1>1
<1> QED BY <1>1, <1>3, <1>4 DEF IsPrefix

\* What the client is to see.
Answer(c) == Iv(c) \o Crypt(NewEncryptor(Iv(c), TRUE), Response(c))

\* The contexts of c, moved on by p bytes.
Decryptor(c, p) == [iv |-> Iv(c), do_encrypt |-> FALSE, pos |-> p]
Encrypts(c, p) == [iv |-> Iv(c), do_encrypt |-> TRUE, pos |-> p]

\* What byte i of both directions is masked with.
Mask(c, i) == KeyStream(Iv(c), i) % Base

\* The constants.
LEMMA Streams ==
  ASSUME NEW c \in Conns
  PROVE  /\ Request(c) \in Seq(Byte) /\ Response(c) \in Seq(Byte)
         /\ Len(Request(c)) \in Nat /\ Len(Response(c)) \in Nat
         /\ IvLen \in Nat /\ IvLen > 0 /\ Iv(c) \in Seq(Byte) /\ Len(Iv(c)) = IvLen
<1>1. /\ Request(c) \in Seq(Byte) /\ Response(c) \in Seq(Byte) /\ IvLen \in Nat /\ IvLen > 0
      /\ Base \in Nat /\ Base > 0
  BY StreamAssumption, RelayAssumption, BaseAssumption
<1>2. Len(Request(c)) \in Nat /\ Len(Response(c)) \in Nat
  BY <1>1
<1> DEFINE l == Len(Request(c))
<1> HIDE DEF l
<1>3. \A i \in 1..IvLen : (i + l) % Base \in Byte
  BY <1>1, <1>2 DEF Byte, l
<1>4. Iv(c) = [i \in 1..IvLen |-> (i + l) % Base]
  BY DEF Iv, l
<1>5. Iv(c) \in Seq(Byte) /\ Len(Iv(c)) = IvLen
  BY <1>1, <1>3, <1>4
<1> QED BY <1>1, <1>2, <1>5

\* Every place of the streams has a mask.
LEMMA MaskIsByte ==
  ASSUME NEW c \in Conns, NEW i \in Nat, i > 0, i <= Len(Request(c)) \/ i <= Len(Response(c))
  PROVE  Mask(c, i) \in Byte
<1> DEFINE k == KeyStream(Iv(c), i)
           l == Len(Request(c))
           m == Len(Response(c))
<1>1. l \in Nat /\ m \in Nat /\ Base \in Nat /\ Base > 0
  BY Streams, BaseAssumption
<1>2. i \in 1..(l + m)
  <2> HIDE DEF l, m
  <2>1. i <= l \/ i <= m
    BY DEF l, m
  <2> QED BY <1>1, <2>1
<1>3. k \in Nat
  BY <1>2, StreamAssumption
<1> HIDE DEF k
<1>4. k % Base \in Byte
  BY <1>1, <1>3 DEF Byte
<1> QED BY <1>4 DEF Mask, k

\* Masking is undone.
LEMMA Unmask ==
  ASSUME NEW b \in Byte, NEW k \in Byte
  PROVE  (b + k) % Base \in Byte /\ (((b + k) % Base) + (Base - k)) % Base = b
<1>1. Base \in Nat \ {0} /\ b \in 0..(Base - 1) /\ k \in 0..(Base - 1)
  BY BaseAssumption DEF Byte
<1> DEFINE s == b + k
           e == s % Base
           f == e + (Base - k)
<1>2. s \in 0..(2 * Base - 1) /\ s = b + k
  BY <1>1
<1> HIDE DEF s
<1>3. e = IF s < Base THEN s ELSE s - Base
  BY <1>1, <1>2, Remainder
<1> HIDE DEF e
<1>4. e \in 0..(Base - 1) /\ (e = b + k \/ e = b + k - Base) /\ (e = b + k => b + k < Base)
  BY <1>1, <1>2, <1>3
<1>5. f \in 0..(2 * Base - 1) /\ f = e + (Base - k)
  BY <1>1, <1>4
<1> HIDE DEF f
<1>6. f % Base = IF f < Base THEN f ELSE f - Base
  BY <1>1, <1>5, Remainder
<1>7. f % Base = b
  BY <1>1, <1>4, <1>5, <1>6
<1> QED BY <1>4, <1>7 DEF s, e, f, Byte

\* What Crypt gives, byte by byte.
LEMMA CryptBytes ==
  ASSUME NEW c \in Conns, NEW p \in Nat, NEW x \in Seq(Byte),
         p + Len(x) <= Len(Request(c)) \/ p + Len(x) <= Len(Response(c))
  PROVE  /\ Crypt(Encrypts(c, p), x) \in Seq(Byte) /\ Len(Crypt(Encrypts(c, p), x)) = Len(x)
         /\ \A i \in 1..Len(x) : Crypt(Encrypts(c, p), x)[i] = (x[i] + Mask(c, p + i)) % Base
         /\ Crypt(Decryptor(c, p), x) \in Seq(Byte) /\ Len(Crypt(Decryptor(c, p), x)) = Len(x)
         /\ \A i \in 1..Len(x) : Crypt(Decryptor(c, p), x)[i] = (x[i] + (Base - Mask(c, p + i))) % Base
<1> DEFINE l == Len(x)
<1>1. /\ Base \in Nat /\ Base > 0 /\ l \in Nat /\ Len(Request(c)) \in Nat /\ Len(Response(c)) \in Nat
      /\ \A i \in 1..l : x[i] \in Byte
  BY Streams, BaseAssumption
<1>2. ASSUME NEW i \in 1..l PROVE Mask(c, p + i) \in Byte
  <2>1. p + i \in Nat /\ p + i > 0 /\ p + i <= p + l
    BY <1>1
  <2>2. p + i <= Len(Request(c)) \/ p + i <= Len(Response(c))
    BY <1>1, <2>1
  <2> QED BY <2>1, <2>2, MaskIsByte
<1> HIDE DEF l
<1>3. \A i \in 1..l : /\ (x[i] + Mask(c, p + i)) % Base \in Byte
                      /\ (x[i] + (Base - Mask(c, p + i))) % Base \in Byte
  <2> SUFFICES ASSUME NEW i \in 1..l
               PROVE  /\ (x[i] + Mask(c, p + i)) % Base \in Byte
                      /\ (x[i] + (Base - Mask(c, p + i))) % Base \in Byte
    OBVIOUS
  <2> DEFINE v == x[i]
             k == Mask(c, p + i)
  <2>1. v \in Byte /\ k \in Byte
    BY <1>1, <1>2
  <2> HIDE DEF v, k
  <2>2. (v + k) % Base \in Byte /\ (v + (Base - k)) % Base \in Byte
    BY <1>1, <2>1 DEF Byte
  <2> QED BY <2>2 DEF v, k
<1> DEFINE e == [i \in 1..l |-> (x[i] + Mask(c, p + i)) % Base]
           d == [i \in 1..l |-> (x[i] + (Base - Mask(c, p + i))) % Base]
<1>4. Crypt(Encrypts(c, p), x) = e
  BY DEF Crypt, Encrypts, Mask, l
<1>5. Crypt(Decryptor(c, p), x) = d
  BY DEF Crypt, Decryptor, Mask, l
<1>6. e \in Seq(Byte) /\ Len(e) = l /\ d \in Seq(Byte) /\ Len(d) = l
  BY <1>1, <1>3
<1> QED BY <1>4, <1>5, <1>6 DEF l

\* The bytes of two sequences in a row.
LEMMA Joined ==
  ASSUME NEW x \in Seq(Byte), NEW y \in Seq(Byte), NEW m, NEW l, Len(x) = m, Len(y) = l
  PROVE  /\ x \o y \in Seq(Byte) /\ Len(x \o y) = m + l
         /\ \A i \in 1..m : (x \o y)[i] = x[i]
         /\ \A i \in 1..l : (x \o y)[m + i] = y[i]
OBVIOUS

\* What goes over the wire in either direction: the vector, and behind it the masked bytes.
LEMMA Wire ==
  ASSUME NEW c \in Conns, NEW s \in {Request(c), Response(c)}, NEW w,
         w = Iv(c) \o Crypt(NewEncryptor(Iv(c), TRUE), s)
  PROVE  /\ w \in Seq(Byte) /\ Len(w) = IvLen + Len(s) /\ Len(s) \in Nat /\ Len(w) \in Nat
         /\ \A i \in 1..IvLen : w[i] = Iv(c)[i]
         /\ \A i \in 1..Len(s) : w[IvLen + i] = (s[i] + Mask(c, i)) % Base
<1> DEFINE y == Crypt(Encrypts(c, 0), s)
           l == Len(s)
<1>1. /\ s \in Seq(Byte) /\ l \in Nat /\ Iv(c) \in Seq(Byte) /\ Len(Iv(c)) = IvLen /\ IvLen \in Nat
  BY Streams
<1>2. w = Iv(c) \o y
  BY DEF NewEncryptor, Encrypts
<1>3. 0 + l <= Len(Request(c)) \/ 0 + l <= Len(Response(c))
  BY <1>1
<1>4. /\ y \in Seq(Byte) /\ Len(y) = l
      /\ \A i \in 1..l : y[i] = (s[i] + Mask(c, 0 + i)) % Base
  BY <1>1, <1>3, CryptBytes
<1> HIDE DEF y, l
<1>5. /\ w \in Seq(Byte) /\ Len(w) = IvLen + l
      /\ \A i \in 1..IvLen : w[i] = Iv(c)[i]
      /\ \A i \in 1..l : w[IvLen + i] = y[i]
  <2> DEFINE v == Iv(c)
  <2>1. v \in Seq(Byte) /\ Len(v) = IvLen /\ y \in Seq(Byte) /\ Len(y) = l
    BY <1>1, <1>4
  <2> HIDE DEF v
  <2>2. /\ v \o y \in Seq(Byte) /\ Len(v \o y) = IvLen + l
        /\ \A i \in 1..IvLen : (v \o y)[i] = v[i]
        /\ \A i \in 1..l : (v \o y)[IvLen + i] = y[i]
    BY <2>1, Joined
  <2> QED BY <1>2, <2>2, Zenon DEF v
<1>6. \A i \in 1..l : 0 + i = i
  BY <1>1
<1>7. \A i \in 1..l : w[IvLen + i] = (s[i] + Mask(c, i)) % Base
  BY <1>4, <1>5, <1>6
<1>8. IvLen + l \in Nat
  BY <1>1
<1> QED BY <1>1, <1>5, <1>7, <1>8 DEF l

\* The decryptor recovers the request from the stream, wherever it is.
LEMMA DecryptPiece ==
  ASSUME NEW c \in Conns, NEW p \in Nat, NEW a, NEW x, IsPiece(x, Stream(c), IvLen + p, a)
  PROVE  IsPiece(Crypt(Decryptor(c, p), x), Request(c), p, a - IvLen)
<1> DEFINE R == Request(c)
           S == Stream(c)
           l == Len(R)
           y == Crypt(Decryptor(c, p), x)
<1>1. /\ R \in Seq(Byte) /\ l \in Nat /\ IvLen \in Nat
  BY Streams
<1>2. /\ S \in Seq(Byte) /\ Len(S) = IvLen + l
      /\ \A i \in 1..l : S[IvLen + i] = (R[i] + Mask(c, i)) % Base
  BY Wire DEF Stream
<1>3. /\ a \in Nat /\ IvLen + p <= a /\ a <= Len(S) /\ x \in Seq(Byte) /\ Len(x) = a - (IvLen + p)
      /\ \A k \in 1..(a - (IvLen + p)) : x[k] = S[(IvLen + p) + k]
  BY <1>1, <1>2 DEF IsPiece
<1> DEFINE b == a - IvLen
           n == Len(x)
<1> HIDE DEF l, S, R
<1>4. /\ b \in Nat /\ p <= b /\ b <= l /\ n = b - p /\ n \in Nat
      /\ \A k \in 1..n : x[k] = S[(IvLen + p) + k]
  BY <1>1, <1>2, <1>3
<1>5. /\ y \in Seq(Byte) /\ Len(y) = n
      /\ \A i \in 1..n : y[i] = (x[i] + (Base - Mask(c, p + i))) % Base
  <2>1. p + n <= l
    BY <1>1, <1>4
  <2>2. p + Len(x) <= Len(Request(c)) /\ x \in Seq(Byte)
    BY <1>3, <2>1 DEF l, R
  <2> QED BY <2>2, CryptBytes
<1> HIDE DEF y, b, n
<1>6. ASSUME NEW k \in 1..n PROVE y[k] = R[p + k]
  <2>1. p + k \in 1..l /\ IvLen + (p + k) = (IvLen + p) + k
    BY <1>1, <1>4
  <2>2. x[k] = S[IvLen + (p + k)]
    BY <1>4, <2>1
  <2> DEFINE j == p + k
  <2> HIDE DEF j
  <2>3. x[k] = (R[j] + Mask(c, j)) % Base
    BY <1>2, <2>1, <2>2 DEF j
  <2>4. R[j] \in Byte
    BY <1>1, <2>1 DEF j, l
  <2>5. Mask(c, j) \in Byte
    <3>1. j \in Nat /\ j > 0 /\ j <= Len(Request(c))
      BY <2>1, <1>1 DEF j, l, R
    <3> QED BY <3>1, MaskIsByte
  <2>6. y[k] = (x[k] + (Base - Mask(c, j))) % Base
    BY <1>5 DEF j
  <2>7. y[k] = R[j]
    BY <2>3, <2>4, <2>5, <2>6, Unmask
  <2> QED BY <2>7 DEF j
<1>7. p \in 0..b /\ b \in 0..l /\ Len(y) = b - p /\ \A k \in 1..(b - p) : y[k] = R[p + k]
  BY <1>1, <1>4, <1>5, <1>6
<1>8. IsPiece(y, R, p, b)
  BY <1>5, <1>7 DEF IsPiece, l
<1> QED BY <1>8 DEF y, R, b

\* The encryptor gives the answer's bytes, wherever it is.
LEMMA EncryptPiece ==
  ASSUME NEW c \in Conns, NEW p, NEW q, NEW x, IsPiece(x, Response(c), p, q)
  PROVE  IsPiece(Crypt(Encrypts(c, p), x), Answer(c), IvLen + p, IvLen + q)
<1> DEFINE R == Response(c)
           S == Answer(c)
           l == Len(R)
           y == Crypt(Encrypts(c, p), x)
           n == Len(x)
<1>1. /\ R \in Seq(Byte) /\ l \in Nat /\ IvLen \in Nat
  BY Streams
<1>2. /\ S \in Seq(Byte) /\ Len(S) = IvLen + l
      /\ \A i \in 1..l : S[IvLen + i] = (R[i] + Mask(c, i)) % Base
  BY Wire DEF Answer
<1>3. /\ p \in Nat /\ q \in Nat /\ p <= q /\ q <= l /\ x \in Seq(Byte) /\ n = q - p /\ n \in Nat
      /\ \A k \in 1..(q - p) : x[k] = R[p + k]
  BY <1>1 DEF IsPiece
<1>4. p + n <= l
  <2> HIDE DEF n, l
  <2> QED BY <1>1, <1>3
<1>5. /\ y \in Seq(Byte) /\ Len(y) = n
      /\ \A i \in 1..n : y[i] = (x[i] + Mask(c, p + i)) % Base
  BY <1>3, <1>4, CryptBytes
<1> HIDE DEF y, n, l, S, R
<1>6. ASSUME NEW k \in 1..n PROVE y[k] = S[(IvLen + p) + k]
  <2>1. p + k \in 1..l /\ IvLen + (p + k) = (IvLen + p) + k
    BY <1>1, <1>3, <1>4
  <2>2. x[k] = R[p + k]
    BY <1>3
  <2> DEFINE j == p + k
  <2> HIDE DEF j
  <2>3. S[IvLen + j] = (R[j] + Mask(c, j)) % Base
    BY <1>2, <2>1 DEF j
  <2>4. y[k] = (x[k] + Mask(c, j)) % Base
    BY <1>5 DEF j
  <2> QED BY <2>1, <2>2, <2>3, <2>4 DEF j
<1>7. /\ IvLen + p \in 0..(IvLen + q) /\ IvLen + q \in 0..Len(S)
      /\ Len(y) = (IvLen + q) - (IvLen + p)
      /\ \A k \in 1..((IvLen + q) - (IvLen + p)) : y[k] = S[(IvLen + p) + k]
  BY <1>1, <1>2, <1>3, <1>5, <1>6
<1>8. IsPiece(y, S, IvLen + p, IvLen + q)
  BY <1>5, <1>7 DEF IsPiece
<1> QED BY <1>8 DEF y, S

-------------------------------------------------------------------------------
(* The parser.                                                             *)

\* A piece is split.
LEMMA PieceSplit ==
  ASSUME NEW s, Len(s) \in Nat, NEW x, NEW i, NEW j, IsPiece(x, s, i, j), NEW m \in 0..(j - i)
  PROVE  IsPiece(SubSeq(x, 1, m), s, i, i + m) /\ IsPiece(SubSeq(x, m + 1, Len(x)), s, i + m, j)
<1>1. /\ i \in Nat /\ j \in Nat /\ i <= j /\ j <= Len(s) /\ m \in Nat /\ m <= j - i
      /\ x \in Seq(Byte) /\ Len(x) = j - i
      /\ \A k \in 1..(j - i) : x[k] = s[i + k]
  BY DEF IsPiece
<1>2. 0 \in 0..m /\ m \in 0..Len(x) /\ Len(x) \in 0..Len(x)
  BY <1>1
<1> DEFINE y == SubSeq(x, 1, m)
           z == SubSeq(x, m + 1, Len(x))
<1>3. IsPiece(y, x, 0, m) /\ IsPiece(z, x, m, Len(x))
  <2>1. SubSeq(x, 0 + 1, m) = y
    OBVIOUS
  <2>2. m \in 0..Len(x)
    BY <1>2
  <2>3. IsPiece(SubSeq(x, 0 + 1, m), x, 0, m)
    BY <1>1, <1>2, PieceCut
  <2>4. IsPiece(z, x, m, Len(x))
    BY <1>1, <1>2, PieceCut
  <2> QED BY <2>1, <2>3, <2>4
<1> HIDE DEF y, z
<1> DEFINE l == Len(x)
<1>4. /\ y \in Seq(Byte) /\ Len(y) = m - 0 /\ \A k \in 1..(m - 0) : y[k] = x[0 + k]
      /\ z \in Seq(Byte) /\ Len(z) = l - m /\ \A k \in 1..(l - m) : z[k] = x[m + k]
  BY <1>3 DEF IsPiece
<1>5. l = j - i
  BY <1>1
<1> HIDE DEF l
<1>6. Len(y) = (i + m) - i /\ \A k \in 1..((i + m) - i) : y[k] = s[i + k]
  <2>1. m - 0 = m /\ (i + m) - i = m
    BY <1>1
  <2>2. ASSUME NEW k \in 1..m PROVE y[k] = s[i + k]
    <3>1. k \in 1..(j - i) /\ 0 + k = k /\ k \in 1..(m - 0)
      BY <1>1
    <3> QED BY <1>1, <1>4, <3>1
  <2> QED BY <1>4, <2>1, <2>2
<1>7. Len(z) = j - (i + m) /\ \A k \in 1..(j - (i + m)) : z[k] = s[(i + m) + k]
  <2>1. l - m = j - (i + m)
    BY <1>1, <1>5
  <2>2. ASSUME NEW k \in 1..(l - m) PROVE z[k] = s[(i + m) + k]
    <3>1. m + k \in 1..(j - i) /\ i + (m + k) = (i + m) + k
      BY <1>1, <1>5
    <3>2. x[m + k] = s[i + (m + k)]
      BY <1>1, <3>1
    <3> QED BY <1>4, <3>1, <3>2
  <2> QED BY <1>4, <2>1, <2>2
<1>8. i \in 0..(i + m) /\ i + m \in 0..Len(s) /\ i + m \in 0..j /\ j \in 0..Len(s)
  BY <1>1
<1> QED BY <1>4, <1>6, <1>7, <1>8 DEF IsPiece, y, z

\* The address types.
Kinds == {ADDR_TYPE_IPV4, ADDR_TYPE_HOST, ADDR_TYPE_IPV6}

\* There is no address type before place t of s, and a host's at it, with its length.
Clean(s, t) == \A i \in 1..t : s[i] \notin Kinds
Starts(s, t) == t \in 1..(Len(s) - 1) /\ s[t] = ADDR_TYPE_HOST /\ Clean(s, t - 1)

\* The ends of the host and of the port.
HostEnd(s, t) == t + 1 + s[t + 1]
PortEnd(s, t) == HostEnd(s, t) + PortLen

\* The request at t and a byte behind it are there: the parser acts on it.
Complete(s, t) == Starts(s, t) /\ PortEnd(s, t) < Len(s)

\* A stream has one place where a request may start.
LEMMA StartsOnce ==
  ASSUME NEW s \in Seq(Byte), NEW t, NEW u, Starts(s, t), Starts(s, u)
  PROVE  t = u
<1>1. /\ t \in Nat /\ u \in Nat /\ t > 0 /\ u > 0
      /\ s[t] \in Kinds /\ s[u] \in Kinds
      /\ Clean(s, t - 1) /\ Clean(s, u - 1)
  BY DEF Starts, Kinds
<1>2. ~(t < u)
  BY <1>1 DEF Clean
<1>3. ~(u < t)
  BY <1>1 DEF Clean
<1> QED BY <1>1, <1>2, <1>3

\* What the ends are.
LEMMA Ends ==
  ASSUME NEW s \in Seq(Byte), NEW t, Starts(s, t)
  PROVE  /\ t \in Nat /\ t > 0 /\ t + 1 \in 1..Len(s) /\ s[t + 1] \in Nat
         /\ HostEnd(s, t) \in Nat /\ PortEnd(s, t) \in Nat /\ PortLen \in Nat /\ PortLen > 0
         /\ t + 1 <= HostEnd(s, t) /\ HostEnd(s, t) < PortEnd(s, t)
<1>1. t \in Nat /\ t > 0 /\ t + 1 \in 1..Len(s) /\ PortLen \in Nat /\ PortLen > 0
  BY PortLenAssumption DEF Starts
<1>2. s[t + 1] \in Nat
  BY <1>1, BaseAssumption DEF Byte
<1> QED BY <1>1, <1>2 DEF HostEnd, PortEnd

\* The parser's local variables.
ParserRec ==
  [state : {"STATE_REQ_ADDR_TYPE", "STATE_REQ_DST_ADDR_VARLEN", "STATE_REQ_DST_ADDR",
            "STATE_REQ_DST_PORT", "STATE_REQ_DONE"},
   buf : Seq(Byte), need : Nat, len : Nat, host : Seq(Byte), port : Seq(Byte),
   result : {"none", "true", "false"}]

\* The parser p of s after n turns, in each of its states, and when it has returned.
AtType(s, p, n) ==
  /\ p.result = "none" /\ p.state = "STATE_REQ_ADDR_TYPE" /\ p.need = 0
  /\ n \in Nat /\ IsPiece(p.buf, s, n, Len(s)) /\ Clean(s, n)
AtLen(s, p, n) ==
  /\ p.result = "none" /\ p.state = "STATE_REQ_DST_ADDR_VARLEN" /\ p.need = 0
  /\ n \in Nat /\ n >= 1 /\ IsPiece(p.buf, s, n, Len(s))
  /\ s[n] = ADDR_TYPE_HOST /\ Clean(s, n - 1)
AtHost(s, p, n) ==
  /\ p.result = "none" /\ p.state = "STATE_REQ_DST_ADDR" /\ p.need = s[n] /\ p.len = s[n]
  /\ n \in Nat /\ n >= 2 /\ IsPiece(p.buf, s, n, Len(s)) /\ Starts(s, n - 1)
AtPort(s, p, n) ==
  /\ p.result = "none" /\ p.state = "STATE_REQ_DST_PORT" /\ p.need = PortLen
  /\ n \in Nat /\ n >= 2 /\ Starts(s, n - 2) /\ IsPiece(p.buf, s, HostEnd(s, n - 2), Len(s))
  /\ IsPiece(p.host, s, n - 1, HostEnd(s, n - 2))
Failed(s, p) == p.result = "false" /\ \A t : ~Complete(s, t)
Understood(s, p, t) ==
  /\ p.result = "true" /\ Complete(s, t)
  /\ IsPiece(p.host, s, t + 1, HostEnd(s, t))
  /\ IsPiece(p.port, s, HostEnd(s, t), PortEnd(s, t))
  /\ IsPiece(p.buf, s, PortEnd(s, t), Len(s))
ParserAt(s, p, n) ==
  /\ p \in ParserRec
  /\ \/ AtType(s, p, n) \/ AtLen(s, p, n) \/ AtHost(s, p, n) \/ AtPort(s, p, n)
     \/ Failed(s, p) \/ \E t : Understood(s, p, t)

\* Take(p, m) leaves the piece behind the m bytes it takes.
LEMMA TakePiece ==
  ASSUME NEW s \in Seq(Byte), NEW p \in ParserRec, NEW i, IsPiece(p.buf, s, i, Len(s)),
         NEW m \in Nat, m <= Len(p.buf)
  PROVE  /\ Take(p, m) \in ParserRec /\ IsPiece(Take(p, m).buf, s, i + m, Len(s))
         /\ Take(p, m) = [p EXCEPT !.buf = Take(p, m).buf]
         /\ IsPiece(SubSeq(p.buf, 1, m), s, i, i + m)
<1> DEFINE x == p.buf
           y == SubSeq(x, m + 1, Len(x))
           l == Len(s)
<1>1. l \in Nat /\ Len(x) = l - i /\ i \in Nat
  BY DEF IsPiece
<1>2. m \in 0..(l - i)
  BY <1>1
<1>3. IsPiece(SubSeq(x, 1, m), s, i, i + m) /\ IsPiece(y, s, i + m, l)
  <2> HIDE DEF x
  <2>1. IsPiece(x, s, i, l)
    BY DEF x
  <2>2. Len(s) \in Nat /\ m \in 0..(Len(s) - i)
    BY <1>1, <1>2
  <2> QED BY <2>1, <2>2, PieceSplit
<1>4. y \in Seq(Byte)
  BY <1>3 DEF IsPiece
<1>5. Take(p, m) = [p EXCEPT !.buf = y]
  BY DEF Take
<1> HIDE DEF y
<1>6. Take(p, m).buf = y /\ Take(p, m) \in ParserRec
  BY <1>4, <1>5 DEF ParserRec
<1> QED BY <1>3, <1>5, <1>6

\* The length of what is left to parse.
LEMMA LeftToParse ==
  ASSUME NEW s \in Seq(Byte), NEW p, NEW i, IsPiece(p.buf, s, i, Len(s))
  PROVE  /\ i \in Nat /\ Len(s) \in Nat /\ i <= Len(s) /\ Len(p.buf) = Len(s) - i
         /\ \A k \in 1..Len(p.buf) : p.buf[k] = s[i + k] /\ p.buf[k] \in Byte
<1> DEFINE x == p.buf
           l == Len(s)
<1>1. /\ i \in Nat /\ l \in Nat /\ i <= l /\ Len(x) = l - i /\ x \in Seq(Byte)
      /\ \A k \in 1..(l - i) : x[k] = s[i + k]
  BY DEF IsPiece
<1>2. \A k \in 1..Len(x) : x[k] \in Byte
  BY <1>1
<1> QED BY <1>1, <1>2

\* A turn of the loop that has not enough to read.
LEMMA TurnFails ==
  ASSUME NEW s \in Seq(Byte), NEW p \in ParserRec, NEW n,
         AtType(s, p, n) \/ AtLen(s, p, n) \/ AtHost(s, p, n) \/ AtPort(s, p, n),
         ~(Len(p.buf) > p.need)
  PROVE  \A t : ~Complete(s, t)
<1> SUFFICES ASSUME NEW t, Complete(s, t) PROVE FALSE
  OBVIOUS
<1> DEFINE l == Len(s)
           m == Len(p.buf)
<1>1. /\ Starts(s, t) /\ PortEnd(s, t) < l /\ l \in Nat
      /\ t \in 1..(l - 1) /\ s[t] \in Kinds
  BY DEF Complete, Starts, Kinds
<1>2. /\ s[t + 1] \in Nat /\ PortLen \in Nat /\ HostEnd(s, t) \in Nat /\ PortEnd(s, t) \in Nat
  BY <1>1, Ends
<1>3. CASE AtType(s, p, n)
  <2>1. n \in Nat /\ n <= l /\ m = l - n /\ p.need = 0 /\ Clean(s, n)
    BY <1>3, LeftToParse DEF AtType
  <2> HIDE DEF l, m
  <2>2. n = l
    <3>1. ~(m > 0)
      BY <2>1 DEF m
    <3> QED BY <1>1, <2>1, <3>1
  <2> QED BY <1>1, <2>1, <2>2 DEF Clean
<1>4. CASE AtLen(s, p, n)
  <2>1. n \in Nat /\ n <= l /\ m = l - n /\ p.need = 0 /\ Clean(s, n - 1)
    BY <1>4, LeftToParse DEF AtLen
  <2> HIDE DEF l, m
  <2>2. n = l
    <3>1. ~(m > 0)
      BY <2>1 DEF m
    <3> QED BY <1>1, <2>1, <3>1
  <2> QED BY <1>1, <2>1, <2>2 DEF Clean
<1>5. CASE AtHost(s, p, n)
  <2>1. n \in Nat /\ n >= 2 /\ n <= l /\ m = l - n /\ p.need = s[n] /\ Starts(s, n - 1)
    BY <1>5, LeftToParse DEF AtHost
  <2>2. t = n - 1 /\ t + 1 = n
    BY <1>1, <2>1, StartsOnce
  <2>3. ~(m > s[n])
    BY <2>1
  <2>4. HostEnd(s, t) = n + s[n] /\ PortEnd(s, t) = n + s[n] + PortLen /\ s[n] \in Nat
    BY <1>2, <2>2 DEF HostEnd, PortEnd
  <2> HIDE DEF l, m
  <2> QED BY <1>1, <1>2, <2>1, <2>3, <2>4
<1>6. CASE AtPort(s, p, n)
  <2>1. n \in Nat /\ n >= 2 /\ p.need = PortLen /\ Starts(s, n - 2) /\ IsPiece(p.buf, s, HostEnd(s, n - 2), l)
    BY <1>6 DEF AtPort
  <2>2. t = n - 2
    BY <1>1, <2>1, StartsOnce
  <2> DEFINE h == HostEnd(s, t)
  <2>3. h <= l /\ m = l - h
    BY <2>1, <2>2, LeftToParse
  <2>4. ~(m > PortLen) /\ PortEnd(s, t) = h + PortLen /\ h \in Nat
    BY <1>2, <2>1 DEF PortEnd
  <2> HIDE DEF l, m, h
  <2> QED BY <1>1, <1>2, <2>3, <2>4
<1> QED BY <1>3, <1>4, <1>5, <1>6

\* The parser takes one byte.
LEMMA TakeByte ==
  ASSUME NEW s \in Seq(Byte), NEW p \in ParserRec, NEW i, IsPiece(p.buf, s, i, Len(s)), Len(p.buf) > 0
  PROVE  /\ i \in Nat /\ Len(s) \in Nat /\ i < Len(s)
         /\ p.buf[1] = s[i + 1] /\ p.buf[1] \in Byte
         /\ Take(p, 1) \in ParserRec /\ IsPiece(Take(p, 1).buf, s, i + 1, Len(s))
         /\ Take(p, 1) = [p EXCEPT !.buf = Take(p, 1).buf]
<1> DEFINE l == Len(s)
           m == Len(p.buf)
           one == 1
<1>1. /\ i \in Nat /\ l \in Nat /\ i <= l /\ m = l - i
      /\ \A k \in 1..m : p.buf[k] = s[i + k] /\ p.buf[k] \in Byte
  BY LeftToParse
<1>2. m > 0
  OBVIOUS
<1> HIDE DEF l, m
<1>3. i < l /\ one \in 1..m /\ one \in Nat /\ one <= m
  BY <1>1, <1>2
<1> HIDE DEF one
<1>4. p.buf[one] = s[i + one] /\ p.buf[one] \in Byte
  BY <1>1, <1>3
<1>5. /\ Take(p, one) \in ParserRec /\ IsPiece(Take(p, one).buf, s, i + one, Len(s))
      /\ Take(p, one) = [p EXCEPT !.buf = Take(p, one).buf]
  BY <1>3, TakePiece DEF m
<1> QED BY <1>1, <1>3, <1>4, <1>5 DEF one, l

\* The address type is read.
LEMMA TypeTurn ==
  ASSUME NEW s \in Seq(Byte), NEW p \in ParserRec, NEW n, AtType(s, p, n), Len(p.buf) > p.need
  PROVE  ParserAt(s, ReadAddrType(p), n + 1)
<1> DEFINE q == Take(p, 1)
           l == Len(s)
           b == p.buf[1]
<1>1. /\ n \in Nat /\ IsPiece(p.buf, s, n, l) /\ Clean(s, n) /\ p.result = "none"
      /\ p.state = "STATE_REQ_ADDR_TYPE" /\ p.need = 0
  BY DEF AtType
<1>2. b = s[n + 1] /\ n < l /\ l \in Nat
  BY <1>1, TakeByte
<1>3. q \in ParserRec /\ IsPiece(q.buf, s, n + 1, l) /\ q = [p EXCEPT !.buf = q.buf]
  BY <1>1, TakeByte
<1>4. q.result = "none" /\ q.state = "STATE_REQ_ADDR_TYPE" /\ q.need = 0
  BY <1>1, <1>3 DEF ParserRec
<1>5. ReadAddrType(p) =
        CASE b = ADDR_TYPE_HOST -> [q EXCEPT !.state = "STATE_REQ_DST_ADDR_VARLEN"]
          [] b \in {ADDR_TYPE_IPV4, ADDR_TYPE_IPV6} -> [q EXCEPT !.result = "false"]
          [] OTHER -> q
  BY DEF ReadAddrType
<1> HIDE DEF q, b, l
<1>6. CASE b = ADDR_TYPE_HOST
  <2> DEFINE r == [q EXCEPT !.state = "STATE_REQ_DST_ADDR_VARLEN"]
  <2>1. ReadAddrType(p) = r
    BY <1>5, <1>6 DEF ADDR_TYPE_HOST, ADDR_TYPE_IPV4, ADDR_TYPE_IPV6
  <2>2. /\ r \in ParserRec /\ r.result = "none" /\ r.state = "STATE_REQ_DST_ADDR_VARLEN" /\ r.need = 0
        /\ r.buf = q.buf
    BY <1>3, <1>4 DEF ParserRec
  <2> HIDE DEF r
  <2>3. n + 1 \in Nat /\ n + 1 >= 1 /\ n + 1 - 1 = n
    BY <1>1
  <2>4. AtLen(s, r, n + 1)
    BY <1>1, <1>2, <1>3, <1>6, <2>2, <2>3 DEF AtLen, l
  <2> QED BY <2>1, <2>2, <2>4 DEF ParserAt
<1>7. CASE b \in {ADDR_TYPE_IPV4, ADDR_TYPE_IPV6}
  <2> DEFINE r == [q EXCEPT !.result = "false"]
  <2>1. ReadAddrType(p) = r
    BY <1>5, <1>7 DEF ADDR_TYPE_HOST, ADDR_TYPE_IPV4, ADDR_TYPE_IPV6
  <2>2. r \in ParserRec /\ r.result = "false"
    BY <1>3, <1>4 DEF ParserRec
  <2> HIDE DEF r
  <2>3. ASSUME NEW t, Complete(s, t) PROVE FALSE
    <3>1. t \in Nat /\ t > 0 /\ s[t] = ADDR_TYPE_HOST /\ s[t] \in Kinds /\ Clean(s, t - 1)
      BY <2>3 DEF Complete, Starts, Kinds
    <3>2. s[n + 1] \in Kinds /\ s[n + 1] # ADDR_TYPE_HOST
      BY <1>2, <1>7 DEF Kinds, ADDR_TYPE_HOST, ADDR_TYPE_IPV4, ADDR_TYPE_IPV6
    <3> QED BY <1>1, <3>1, <3>2 DEF Clean
  <2> QED BY <2>1, <2>2, <2>3 DEF ParserAt, Failed
<1>8. CASE b \notin Kinds
  <2>1. ReadAddrType(p) = q
    BY <1>5, <1>8 DEF Kinds
  <2>2. Clean(s, n + 1)
    BY <1>1, <1>2, <1>8 DEF Clean
  <2>3. AtType(s, q, n + 1)
    BY <1>1, <1>3, <1>4, <2>2 DEF AtType, l
  <2> QED BY <1>3, <2>1, <2>3 DEF ParserAt
<1> QED BY <1>6, <1>7, <1>8 DEF Kinds

\* The length of the host is read.
LEMMA LenTurn ==
  ASSUME NEW s \in Seq(Byte), NEW p \in ParserRec, NEW n, AtLen(s, p, n), Len(p.buf) > p.need
  PROVE  ParserAt(s, ReadAddrLen(p), n + 1)
<1> DEFINE q == Take(p, 1)
           l == Len(s)
           b == p.buf[1]
           r == [q EXCEPT !.len = b, !.need = b, !.state = "STATE_REQ_DST_ADDR"]
<1>1. /\ n \in Nat /\ n >= 1 /\ IsPiece(p.buf, s, n, l) /\ p.result = "none" /\ p.need = 0
      /\ s[n] = ADDR_TYPE_HOST /\ Clean(s, n - 1)
  BY DEF AtLen
<1>2. b = s[n + 1] /\ n < l /\ l \in Nat /\ b \in Byte
  BY <1>1, TakeByte
<1>3. q \in ParserRec /\ IsPiece(q.buf, s, n + 1, l) /\ q = [p EXCEPT !.buf = q.buf]
  BY <1>1, TakeByte
<1>4. q.result = "none"
  BY <1>1, <1>3 DEF ParserRec
<1>5. ReadAddrLen(p) = r
  BY DEF ReadAddrLen
<1>6. b \in Nat
  BY <1>2, BaseAssumption DEF Byte
<1> HIDE DEF q, b
<1>7. /\ r \in ParserRec /\ r.result = "none" /\ r.state = "STATE_REQ_DST_ADDR" /\ r.need = b /\ r.len = b
      /\ r.buf = q.buf
  BY <1>3, <1>4, <1>6 DEF ParserRec
<1> HIDE DEF r
<1>8. n + 1 \in Nat /\ n + 1 >= 2 /\ n + 1 - 1 = n /\ n \in 1..(l - 1)
  BY <1>1, <1>2
<1>9. Starts(s, n)
  BY <1>1, <1>8 DEF Starts
<1>10. AtHost(s, r, n + 1)
  <2> HIDE DEF l
  <2> QED BY <1>2, <1>3, <1>7, <1>8, <1>9 DEF AtHost, l
<1> QED BY <1>5, <1>7, <1>10 DEF ParserAt

\* The host is read.
LEMMA HostTurn ==
  ASSUME NEW s \in Seq(Byte), NEW p \in ParserRec, NEW n, AtHost(s, p, n), Len(p.buf) > p.need
  PROVE  ParserAt(s, ReadAddr(p), n + 1)
<1> DEFINE m == p.len
           q == Take(p, m)
           l == Len(s)
           x == SubSeq(p.buf, 1, m)
           r == [q EXCEPT !.host = x, !.need = PortLen, !.state = "STATE_REQ_DST_PORT"]
<1>1. /\ n \in Nat /\ n >= 2 /\ IsPiece(p.buf, s, n, l) /\ p.result = "none" /\ p.need = m /\ m = s[n]
      /\ Starts(s, n - 1)
  BY DEF AtHost
<1>2. Len(p.buf) \in Nat /\ m \in Nat /\ m <= Len(p.buf) /\ PortLen \in Nat
  BY <1>1, LeftToParse, PortLenAssumption DEF ParserRec
<1>3. /\ q \in ParserRec /\ IsPiece(q.buf, s, n + m, l) /\ q = [p EXCEPT !.buf = q.buf]
      /\ IsPiece(x, s, n, n + m)
  <2>1. IsPiece(p.buf, s, n, l) /\ m \in Nat /\ m <= Len(p.buf)
    BY <1>1, <1>2
  <2> HIDE DEF m
  <2> QED BY <2>1, TakePiece
<1>4. q.result = "none" /\ x \in Seq(Byte)
  BY <1>1, <1>3 DEF ParserRec, IsPiece
<1>5. ReadAddr(p) = r
  BY DEF ReadAddr
<1>6. HostEnd(s, n - 1) = n + m /\ n + 1 - 2 = n - 1 /\ n + 1 - 1 = n /\ n + 1 \in Nat /\ n + 1 >= 2
  <2>1. n - 1 + 1 = n
    BY <1>1
  <2> QED BY <1>1, <1>2, <2>1 DEF HostEnd
<1> HIDE DEF q, x, m
<1>7. /\ r \in ParserRec /\ r.result = "none" /\ r.state = "STATE_REQ_DST_PORT" /\ r.need = PortLen
      /\ r.buf = q.buf /\ r.host = x
  BY <1>2, <1>3, <1>4 DEF ParserRec
<1> HIDE DEF r, l
<1>8. AtPort(s, r, n + 1)
  BY <1>1, <1>3, <1>6, <1>7 DEF AtPort, l
<1> QED BY <1>5, <1>7, <1>8 DEF ParserAt

\* The port is read.
LEMMA PortTurn ==
  ASSUME NEW s \in Seq(Byte), NEW p \in ParserRec, NEW n, AtPort(s, p, n), Len(p.buf) > p.need
  PROVE  ParserAt(s, ReadPort(p), n + 1)
<1> DEFINE q == Take(p, PortLen)
           l == Len(s)
           t == n - 2
           h == HostEnd(s, t)
           x == SubSeq(p.buf, 1, PortLen)
           r == [q EXCEPT !.port = x, !.result = "true", !.state = "STATE_REQ_DONE"]
<1>1. /\ n \in Nat /\ n >= 2 /\ Starts(s, t) /\ IsPiece(p.buf, s, h, l) /\ p.need = PortLen
      /\ IsPiece(p.host, s, n - 1, h)
  BY DEF AtPort
<1>2. /\ Len(p.buf) \in Nat /\ PortLen \in Nat /\ PortLen <= Len(p.buf) /\ PortLen < Len(p.buf)
      /\ Len(p.buf) = l - h /\ l \in Nat /\ h \in Nat
  <2> HIDE DEF h
  <2>1. h \in Nat /\ l \in Nat /\ h <= l /\ Len(p.buf) = l - h
    BY <1>1, LeftToParse
  <2> DEFINE m == Len(p.buf)
  <2>2. m > PortLen
    BY <1>1
  <2> HIDE DEF m, l
  <2>3. m = l - h
    BY <2>1 DEF m
  <2>4. m \in Nat /\ PortLen \in Nat /\ PortLen <= m /\ PortLen < m
    BY <2>1, <2>2, <2>3, PortLenAssumption
  <2> QED BY <2>1, <2>4 DEF m
<1>3. /\ q \in ParserRec /\ IsPiece(q.buf, s, h + PortLen, l) /\ q = [p EXCEPT !.buf = q.buf]
      /\ IsPiece(x, s, h, h + PortLen)
  <2>1. IsPiece(p.buf, s, h, l) /\ PortLen \in Nat /\ PortLen <= Len(p.buf)
    BY <1>1, <1>2
  <2> HIDE DEF h
  <2> QED BY <2>1, TakePiece
<1>4. x \in Seq(Byte) /\ q.host = p.host
  BY <1>3 DEF ParserRec, IsPiece
<1>5. ReadPort(p) = r
  BY DEF ReadPort
<1>6. PortEnd(s, t) = h + PortLen /\ n - 1 = t + 1
  BY <1>1 DEF PortEnd
<1> HIDE DEF q, x, t, h
<1>7. /\ r \in ParserRec /\ r.result = "true" /\ r.buf = q.buf /\ r.host = p.host /\ r.port = x
  BY <1>3, <1>4 DEF ParserRec
<1> HIDE DEF r, l
<1>8. PortEnd(s, t) < l
  BY <1>2, <1>6
<1>9. Understood(s, r, t)
  BY <1>1, <1>3, <1>6, <1>7, <1>8 DEF Understood, Complete, l, h
<1> QED BY <1>5, <1>7, <1>9 DEF ParserAt

\* A turn of the loop.
LEMMA ParserTurn ==
  ASSUME NEW s \in Seq(Byte), NEW p, NEW n, ParserAt(s, p, n)
  PROVE  ParserAt(s, ParseStep(p), n + 1)
<1>1. p \in ParserRec
  BY DEF ParserAt
<1>2. CASE p.result # "none"
  <2>1. ParseStep(p) = p
    BY <1>2 DEF ParseStep
  <2>2. Failed(s, p) \/ \E t : Understood(s, p, t)
    BY <1>2 DEF ParserAt, AtType, AtLen, AtHost, AtPort
  <2> QED BY <1>1, <2>1, <2>2 DEF ParserAt
<1>3. CASE p.result = "none"
  <2>1. AtType(s, p, n) \/ AtLen(s, p, n) \/ AtHost(s, p, n) \/ AtPort(s, p, n)
    BY <1>3 DEF ParserAt, Failed, Understood
  <2>2. CASE ~(Len(p.buf) > p.need)
    <3>1. ParseStep(p) = [p EXCEPT !.result = "false"]
      BY <1>3, <2>2 DEF ParseStep
    <3>2. \A t : ~Complete(s, t)
      BY <1>1, <2>1, <2>2, TurnFails
    <3>3. ParseStep(p) \in ParserRec /\ ParseStep(p).result = "false"
      BY <1>1, <3>1 DEF ParserRec
    <3> QED BY <3>2, <3>3 DEF ParserAt, Failed
  <2>3. CASE Len(p.buf) > p.need
    <3>1. CASE AtType(s, p, n)
      <4>1. ParseStep(p) = ReadAddrType(p)
        BY <1>3, <2>3, <3>1 DEF ParseStep, AtType
      <4> QED BY <1>1, <2>3, <3>1, <4>1, TypeTurn
    <3>2. CASE AtLen(s, p, n)
      <4>1. ParseStep(p) = ReadAddrLen(p)
        BY <1>3, <2>3, <3>2 DEF ParseStep, AtLen
      <4> QED BY <1>1, <2>3, <3>2, <4>1, LenTurn
    <3>3. CASE AtHost(s, p, n)
      <4>1. ParseStep(p) = ReadAddr(p)
        BY <1>3, <2>3, <3>3 DEF ParseStep, AtHost
      <4> QED BY <1>1, <2>3, <3>3, <4>1, HostTurn
    <3>4. CASE AtPort(s, p, n)
      <4>1. ParseStep(p) = ReadPort(p)
        BY <1>3, <2>3, <3>4 DEF ParseStep, AtPort
      <4> QED BY <1>1, <2>3, <3>4, <4>1, PortTurn
    <3> QED BY <2>1, <3>1, <3>2, <3>3, <3>4
  <2> QED BY <2>2, <2>3
<1> QED BY <1>2, <1>3

\* ParseRequest returns, with the request if one is complete, and with false otherwise.
LEMMA Parsed ==
  ASSUME NEW s \in Seq(Byte)
  PROVE  /\ ParseRequest(s) \in ParserRec
         /\ Failed(s, ParseRequest(s)) \/ \E t : Understood(s, ParseRequest(s), t)
<1> DEFINE l == Len(s)
           k == l + 2
           start == ParserStart(s)
           X == {p \in ParserRec : \E j \in Nat : ParserAt(s, p, j)}
           F == [n \in 1..k |-> [p \in X |-> ParseStep(p)]]
           Def(g) == [n \in 0..k |-> IF n = 0 THEN start ELSE ParseStep(g[n - 1])]
<1>0. l \in Nat /\ k \in Nat
  OBVIOUS
<1>1. ParserAt(s, start, 0)
  <2>1. /\ start \in ParserRec /\ start.result = "none" /\ start.state = "STATE_REQ_ADDR_TYPE"
        /\ start.need = 0 /\ start.buf = s
    BY DEF ParserStart, ParserRec
  <2>2. IsPiece(s, s, 0, Len(s)) /\ Clean(s, 0)
    BY DEF IsPiece, Clean
  <2> HIDE DEF start
  <2>3. AtType(s, start, 0)
    BY <2>1, <2>2 DEF AtType
  <2> QED BY <2>1, <2>3 DEF ParserAt
<1>2. start \in X
  <2> HIDE DEF start
  <2> QED BY <1>1 DEF ParserAt
<1>3. ASSUME NEW p \in X PROVE ParseStep(p) \in X
  <2>1. PICK j \in Nat : ParserAt(s, p, j)
    OBVIOUS
  <2>2. ParserAt(s, ParseStep(p), j + 1) /\ j + 1 \in Nat
    BY <2>1, ParserTurn
  <2> QED BY <2>2 DEF ParserAt
<1> HIDE DEF X
<1>4. F \in [1..k -> [X -> X]]
  BY <1>3
<1>5. PICK g \in [0..k -> X] : g[0] = start /\ \A n \in 1..k : g[n] = F[n][g[n - 1]]
  <2> HIDE DEF start, F, k
  <2>1. Solvable(k, X, start, F)
    BY <1>0, <1>2, <1>4, RecursionExists
  <2> QED BY <2>1, Zenon DEF Solvable
<1>6. \A n \in 1..k : g[n] = ParseStep(g[n - 1])
  <2>1. \A n \in 1..k : g[n - 1] \in X
    <3> HIDE DEF k
    <3> QED BY <1>0
  <2>2. \A n \in 1..k, p \in X : F[n][p] = ParseStep(p)
    OBVIOUS
  <2> HIDE DEF F, k
  <2> QED BY <1>5, <2>1, <2>2
<1>7. g = Def(g)
  <2> HIDE DEF start, k
  <2> QED BY <1>5, <1>6
<1> HIDE DEF F
<1> DEFINE h == CHOOSE f : f = Def(f)
<1>8. h = Def(h)
  <2> HIDE DEF Def
  <2> QED BY <1>7, Zenon
<1>9. ParseRequest(s) = h[k]
  BY Zenon DEF ParseRequest
<1> HIDE DEF h, k
<1>10. h[0] = start /\ \A n \in 1..k : h[n] = ParseStep(h[n - 1])
  <2> HIDE DEF start
  <2> QED BY <1>0, <1>8
<1>11. ParserAt(s, h[k], k)
  <2> DEFINE S == {n \in Nat : n <= k => ParserAt(s, h[n], n)}
  <2>1. 0 \in S
    <3> HIDE DEF start
    <3> QED BY <1>1, <1>10
  <2>2. ASSUME NEW n \in 0..(k - 1), n \in S PROVE n + 1 \in S
    <3>1. n + 1 \in 1..k /\ n + 1 - 1 = n /\ ParserAt(s, h[n], n) /\ n + 1 \in Nat
      BY <1>0, <2>2
    <3>2. h[n + 1] = ParseStep(h[n])
      BY <1>10, <3>1
    <3>3. ParserAt(s, h[n + 1], n + 1)
      BY <3>1, <3>2, ParserTurn
    <3> QED BY <3>1, <3>3
  <2>3. \A n \in 0..k : n \in S
    <3> HIDE DEF S
    <3> QED BY <1>0, <2>1, <2>2, BoundedInduction
  <2> QED BY <1>0, <2>3
<1> DEFINE p == h[k]
<1> HIDE DEF p
<1>12. ParserAt(s, p, k)
  BY <1>11 DEF p
<1>13. ~AtType(s, p, k) /\ ~AtLen(s, p, k) /\ ~AtHost(s, p, k) /\ ~AtPort(s, p, k)
  <2>1. k > l
    BY <1>0 DEF k
  <2>2. ASSUME NEW x, IsPiece(x, s, k, Len(s)) PROVE FALSE
    <3>1. k <= l
      BY <1>0, <2>2 DEF IsPiece
    <3> HIDE DEF l
    <3> QED BY <1>0, <2>1, <3>1
  <2>3. ~Starts(s, k - 2)
    BY <1>0 DEF Starts, k
  <2> QED BY <2>2, <2>3 DEF AtType, AtLen, AtHost, AtPort
<1>14. p \in ParserRec /\ (Failed(s, p) \/ \E t : Understood(s, p, t))
  BY <1>12, <1>13 DEF ParserAt
<1> QED BY <1>9, <1>14 DEF p

\* Where the payload begins in what the client says.
RequestEnd(c) == Len(Request(c)) - Len(Payload(Request(c)))

\* A request, said with its ends.
LEMMA HasRequestEnds ==
  ASSUME NEW s \in Seq(Byte), NEW t
  PROVE  HasRequest(s, t) <=> Starts(s, t) /\ PortEnd(s, t) <= Len(s)
<1> DEFINE l == Len(s)
<1>1. l \in Nat /\ DOMAIN s = 1..l
  OBVIOUS
<1>2. (t \in 1..l /\ t + 1 \in 1..l) <=> t \in 1..(l - 1)
  <2> HIDE DEF l
  <2> QED BY <1>1
<1>3. t + 1 + s[t + 1] + PortLen = PortEnd(s, t)
  BY DEF PortEnd, HostEnd
<1>4. (\A i \in 1..(t - 1) : s[i] \notin {ADDR_TYPE_IPV4, ADDR_TYPE_HOST, ADDR_TYPE_IPV6})
      <=> Clean(s, t - 1)
  BY Zenon DEF Clean, Kinds
<1>5. HasRequest(s, t) <=>
        /\ t \in 1..l /\ s[t] = ADDR_TYPE_HOST
        /\ Clean(s, t - 1) /\ t + 1 \in 1..l /\ PortEnd(s, t) <= l
  BY <1>1, <1>3, <1>4, Zenon DEF HasRequest
<1> HIDE DEF l
<1>6. Starts(s, t) <=> t \in 1..(l - 1) /\ s[t] = ADDR_TYPE_HOST /\ Clean(s, t - 1)
  BY DEF Starts, l
<1>7. HasRequest(s, t) <=> Starts(s, t) /\ PortEnd(s, t) <= l
  BY <1>2, <1>5, <1>6, Zenon
<1> QED BY <1>7 DEF l

\* The request of c and its payload.
LEMMA RequestPlaces ==
  ASSUME NEW c \in Conns, NEW t, HasRequest(Request(c), t)
  PROVE  /\ Asks(c) /\ RequestStart(c) = t
         /\ RequestEnd(c) = PortEnd(Request(c), t)
         /\ IsPiece(Payload(Request(c)), Request(c), RequestEnd(c), Len(Request(c)))
<1> DEFINE R == Request(c)
           l == Len(R)
           e == PortEnd(R, t)
<1>1. R \in Seq(Byte) /\ l \in Nat
  BY Streams
<1>2. Starts(R, t) /\ e <= l
  BY <1>1, HasRequestEnds
<1>3. e \in Nat /\ t \in DOMAIN R
  BY <1>1, <1>2, Ends DEF HasRequest
<1>4. \A u : HasRequest(R, u) => u = t
  BY <1>1, <1>2, HasRequestEnds, StartsOnce
<1>5. Asks(c)
  BY <1>3 DEF Asks
<1> DEFINE u == CHOOSE x \in DOMAIN R : HasRequest(R, x)
<1>6. u = t
  <2>1. HasRequest(R, u)
    BY <1>3, Zenon
  <2> QED BY <1>4, <2>1
<1>7. RequestStart(c) = t
  BY <1>6 DEF RequestStart
<1>8. Payload(R) = RequestPayload(R, t)
  BY <1>3, <1>6 DEF Payload
<1>9. RequestPayload(R, t) = SubSeq(R, e + 1, l)
  <2>1. t + 2 + R[t + 1] + PortLen = e + 1
    <3>1. t \in Nat /\ R[t + 1] \in Nat /\ PortLen \in Nat
      BY <1>1, <1>2, Ends
    <3> QED BY <3>1 DEF PortEnd, HostEnd
  <2> QED BY <2>1 DEF RequestPayload
<1>10. IsPiece(Payload(R), R, e, l)
  <2> HIDE DEF e
  <2>1. e \in 0..l /\ l \in 0..l
    BY <1>1, <1>2, <1>3
  <2> QED BY <1>1, <1>8, <1>9, <2>1, PieceCut
<1>11. Len(Payload(R)) = l - e
  BY <1>10 DEF IsPiece
<1>12. RequestEnd(c) = e
  <2> HIDE DEF e, l
  <2>1. RequestEnd(c) = l - (l - e)
    BY <1>11 DEF RequestEnd, l
  <2> QED BY <1>1, <1>3, <2>1
<1> QED BY <1>5, <1>7, <1>10, <1>12

\* Also without a request: then there is no payload.
LEMMA PayloadPiece ==
  ASSUME NEW c \in Conns
  PROVE  /\ RequestEnd(c) \in 0..Len(Request(c)) /\ Len(Request(c)) \in Nat
         /\ Payload(Request(c)) \in Seq(Byte)
         /\ Len(Payload(Request(c))) = Len(Request(c)) - RequestEnd(c)
         /\ IsPiece(Payload(Request(c)), Request(c), RequestEnd(c), Len(Request(c)))
<1> DEFINE R == Request(c)
           l == Len(R)
<1>1. R \in Seq(Byte) /\ l \in Nat
  BY Streams
<1>2. IsPiece(Payload(R), R, RequestEnd(c), l)
  <2>1. CASE \E t \in DOMAIN R : HasRequest(R, t)
    BY <2>1, RequestPlaces
  <2>2. CASE ~ \E t \in DOMAIN R : HasRequest(R, t)
    <3>1. Payload(R) = <<>>
      BY <2>2, Zenon DEF Payload
    <3>2. Len(Payload(R)) = 0
      BY <3>1
    <3> HIDE DEF l
    <3>3. RequestEnd(c) = l
      BY <1>1, <3>2 DEF RequestEnd, l
    <3>4. IsPiece(<<>>, R, l, l)
      <4>1. Len(R) \in Nat /\ l \in 0..Len(R)
        BY <1>1 DEF l
      <4> QED BY <4>1, PieceEmpty
    <3> QED BY <3>1, <3>3, <3>4
  <2> QED BY <2>1, <2>2
<1> QED BY <1>1, <1>2 DEF IsPiece

\* A piece behind the request is a prefix of the payload.
LEMMA PayloadPrefix ==
  ASSUME NEW c \in Conns, NEW x, NEW j, IsPiece(x, Request(c), RequestEnd(c), j)
  PROVE  IsPrefix(x, Payload(Request(c)))
<1> DEFINE R == Request(c)
           P == Payload(R)
           e == RequestEnd(c)
           l == Len(R)
           m == j - e
<1>1. /\ e \in Nat /\ l \in Nat /\ e <= l /\ P \in Seq(Byte) /\ Len(P) = l - e
      /\ \A k \in 1..(l - e) : P[k] = R[e + k]
  BY PayloadPiece DEF IsPiece
<1>2. /\ j \in Nat /\ e <= j /\ j <= l /\ x \in Seq(Byte) /\ Len(x) = j - e
      /\ \A k \in 1..(j - e) : x[k] = R[e + k]
  BY <1>1 DEF IsPiece
<1> HIDE DEF e, l, R, P
<1>3. m \in Nat /\ m <= l - e /\ m - 0 = m /\ 0 \in 0..m /\ m \in 0..(l - e)
  BY <1>1, <1>2
<1>4. \A k \in 1..m : x[k] = P[0 + k]
  <2> SUFFICES ASSUME NEW k \in 1..m PROVE x[k] = P[0 + k]
    OBVIOUS
  <2>1. k \in 1..(j - e) /\ k \in 1..(l - e) /\ 0 + k = k
    BY <1>1, <1>2, <1>3
  <2> QED BY <1>1, <1>2, <2>1
<1>5. IsPiece(x, P, 0, m)
  BY <1>1, <1>2, <1>3, <1>4 DEF IsPiece
<1>6. IsPrefix(x, P)
  <2> HIDE DEF m
  <2> QED BY <1>1, <1>5, PiecePrefix
<1> QED BY <1>6 DEF P, R

\* The parser sees the start of a stream: what is complete in it is a request of the stream that
\* ends before its last byte.
LEMMA PrefixComplete ==
  ASSUME NEW s \in Seq(Byte), NEW b, NEW k, IsPiece(b, s, 0, k), NEW t
  PROVE  /\ Complete(b, t) <=> Starts(s, t) /\ PortEnd(s, t) < k
         /\ Complete(b, t) => HostEnd(b, t) = HostEnd(s, t) /\ PortEnd(b, t) = PortEnd(s, t)
<1> DEFINE l == Len(s)
<1>1. /\ k \in Nat /\ k <= l /\ l \in Nat /\ b \in Seq(Byte) /\ Len(b) = k
      /\ \A i \in 1..k : b[i] = s[i]
  BY DEF IsPiece
<1>2. ASSUME t \in 1..(k - 1)
      PROVE  /\ b[t] = s[t] /\ b[t + 1] = s[t + 1] /\ (Clean(b, t - 1) <=> Clean(s, t - 1))
             /\ HostEnd(b, t) = HostEnd(s, t) /\ PortEnd(b, t) = PortEnd(s, t)
             /\ t \in 1..(l - 1)
  <2>1. /\ t \in 1..k /\ t + 1 \in 1..k /\ t \in 1..(l - 1)
        /\ \A i \in 1..(t - 1) : i \in 1..k
    <3> HIDE DEF l
    <3> QED BY <1>1, <1>2
  <2>2. b[t] = s[t] /\ b[t + 1] = s[t + 1]
    BY <1>1, <2>1
  <2>3. Clean(b, t - 1) <=> Clean(s, t - 1)
    BY <1>1, <2>1 DEF Clean
  <2> QED BY <2>1, <2>2, <2>3 DEF HostEnd, PortEnd
<1>3. ASSUME Complete(b, t) PROVE t \in 1..(k - 1) /\ PortEnd(b, t) < k
  BY <1>1, <1>3 DEF Complete, Starts
<1>4. ASSUME Starts(s, t), PortEnd(s, t) < k PROVE t \in 1..(k - 1)
  <2>1. t \in Nat /\ t > 0 /\ HostEnd(s, t) \in Nat /\ PortEnd(s, t) \in Nat
        /\ t + 1 <= HostEnd(s, t) /\ HostEnd(s, t) < PortEnd(s, t)
    BY <1>4, Ends
  <2> QED BY <1>1, <1>4, <2>1
<1>5. ASSUME Complete(b, t) PROVE Starts(s, t) /\ PortEnd(s, t) < k
  BY <1>2, <1>3, <1>5 DEF Complete, Starts
<1>6. ASSUME Starts(s, t), PortEnd(s, t) < k PROVE Complete(b, t)
  BY <1>1, <1>2, <1>4, <1>6 DEF Complete, Starts
<1> QED BY <1>2, <1>3, <1>5, <1>6

\* A piece of the start of a stream is one of the stream.
LEMMA PieceOfPrefix ==
  ASSUME NEW s \in Seq(Byte), NEW b, NEW k, IsPiece(b, s, 0, k), NEW x, NEW i, NEW j, IsPiece(x, b, i, j)
  PROVE  IsPiece(x, s, i, j)
<1>1. /\ k \in Nat /\ k <= Len(s) /\ Len(b) = k
      /\ \A n \in 1..k : b[n] = s[n]
  BY DEF IsPiece
<1>2. /\ i \in Nat /\ j \in Nat /\ i <= j /\ j <= k /\ x \in Seq(Byte) /\ Len(x) = j - i
      /\ \A n \in 1..(j - i) : x[n] = b[i + n]
  BY <1>1 DEF IsPiece
<1>3. \A n \in 1..(j - i) : i + n \in 1..k
  BY <1>1, <1>2
<1>4. \A n \in 1..(j - i) : x[n] = s[i + n]
  BY <1>1, <1>2, <1>3
<1>5. i \in 0..j /\ j \in 0..Len(s)
  BY <1>1, <1>2
<1> QED BY <1>2, <1>4, <1>5 DEF IsPiece

\* What the relay makes of the first k bytes a client says: the request if k is behind its end.
LEMMA FirstParse ==
  ASSUME NEW c \in Conns, NEW b, NEW k, IsPiece(b, Request(c), 0, k)
  PROVE  LET p == ParseRequest(b) IN
         /\ p.result \in {"true", "false"}
         /\ p.result = "true" <=> Asks(c) /\ k > RequestEnd(c)
         /\ p.result = "true" => /\ p.host = RequestHost(Request(c), RequestStart(c))
                                 /\ p.port = RequestPort(Request(c), RequestStart(c))
                                 /\ IsPiece(p.buf, Request(c), RequestEnd(c), k)
<1> DEFINE R == Request(c)
           l == Len(R)
           p == ParseRequest(b)
<1>1. R \in Seq(Byte) /\ l \in Nat
  BY Streams
<1>2. b \in Seq(Byte) /\ Len(b) = k /\ k \in Nat /\ k <= l
  BY <1>1 DEF IsPiece
<1>3. p \in ParserRec /\ (Failed(b, p) \/ \E t : Understood(b, p, t))
  BY <1>2, Parsed
<1> HIDE DEF p
<1>4. ASSUME NEW t, HasRequest(R, t), k > PortEnd(R, t) PROVE Complete(b, t)
  <2>1. Starts(R, t) /\ PortEnd(R, t) \in Nat
    BY <1>1, <1>4, HasRequestEnds, Ends
  <2>2. PortEnd(R, t) < k
    BY <1>2, <1>4, <2>1
  <2> QED BY <1>1, <2>1, <2>2, PrefixComplete
<1>5. CASE Failed(b, p)
  <2>1. p.result = "false" /\ \A t : ~Complete(b, t)
    BY <1>5 DEF Failed
  <2>2. ASSUME Asks(c), k > RequestEnd(c) PROVE FALSE
    <3>1. PICK t \in DOMAIN R : HasRequest(R, t)
      BY <2>2 DEF Asks
    <3>2. RequestEnd(c) = PortEnd(R, t)
      BY <3>1, RequestPlaces
    <3> QED BY <1>4, <2>1, <2>2, <3>1, <3>2
  <2> QED BY <2>1, <2>2 DEF p
<1>6. ASSUME NEW t, Understood(b, p, t)
      PROVE  /\ p.result = "true" /\ Asks(c) /\ k > RequestEnd(c)
             /\ p.host = RequestHost(R, RequestStart(c))
             /\ p.port = RequestPort(R, RequestStart(c))
             /\ IsPiece(p.buf, R, RequestEnd(c), k)
  <2> DEFINE h == HostEnd(R, t)
             e == PortEnd(R, t)
  <2>1. p.result = "true" /\ Complete(b, t)
    BY <1>6 DEF Understood
  <2>2. Starts(R, t) /\ e < k /\ HostEnd(b, t) = h /\ PortEnd(b, t) = e
    BY <1>1, <2>1, PrefixComplete
  <2>3. IsPiece(p.host, b, t + 1, h) /\ IsPiece(p.port, b, h, e) /\ IsPiece(p.buf, b, e, k)
    BY <1>2, <1>6, <2>2 DEF Understood
  <2>4. IsPiece(p.host, R, t + 1, h) /\ IsPiece(p.port, R, h, e) /\ IsPiece(p.buf, R, e, k)
    <3> HIDE DEF h, e
    <3> QED BY <1>1, <2>3, PieceOfPrefix
  <2>5. /\ t \in Nat /\ R[t + 1] \in Nat /\ h \in Nat /\ e \in Nat /\ PortLen \in Nat
        /\ t + 1 <= h /\ h < e /\ e = h + PortLen /\ h = t + 1 + R[t + 1]
    BY <1>1, <2>2, Ends DEF PortEnd, HostEnd
  <2>6. HasRequest(R, t)
    <3>1. e <= l
      <4> HIDE DEF e, l
      <4> QED BY <1>1, <1>2, <2>2, <2>5
    <3> QED BY <1>1, <2>2, <3>1, HasRequestEnds
  <2>7. Asks(c) /\ RequestStart(c) = t /\ RequestEnd(c) = e
    BY <2>6, RequestPlaces
  <2>8. RequestHost(R, t) = SubSeq(R, (t + 1) + 1, h) /\ RequestPort(R, t) = SubSeq(R, h + 1, e)
    <3>1. t + 2 = (t + 1) + 1 /\ t + 2 + R[t + 1] = h + 1 /\ t + 1 + R[t + 1] + PortLen = e
      <4> HIDE DEF h, e
      <4> QED BY <2>5
    <3>2. t + 1 + R[t + 1] = h
      BY <2>5
    <3> HIDE DEF h, e
    <3> QED BY <3>1, <3>2 DEF RequestHost, RequestPort
  <2>9. t + 1 \in 0..h /\ h \in 0..l /\ h \in 0..e /\ e \in 0..l
    <3> HIDE DEF h, e, l
    <3> QED BY <1>1, <1>2, <2>2, <2>5
  <2>10. p.host = RequestHost(R, t) /\ p.port = RequestPort(R, t)
    <3> HIDE DEF h, e
    <3>1. IsPiece(SubSeq(R, (t + 1) + 1, h), R, t + 1, h) /\ IsPiece(SubSeq(R, h + 1, e), R, h, e)
      BY <1>1, <2>9, PieceCut
    <3> QED BY <2>4, <2>8, <3>1, PieceUnique
  <2>11. k > e
    <3> HIDE DEF e
    <3> QED BY <1>2, <2>2, <2>5
  <2> QED BY <2>1, <2>4, <2>7, <2>10, <2>11
<1>7. CASE \E t : Understood(b, p, t)
  BY <1>6, <1>7 DEF p
<1> QED BY <1>3, <1>5, <1>7

-------------------------------------------------------------------------------
(* What a connection, its upstream and its request know of each other.     *)

\* A connection as muduo keeps it, and what it was given to send.
ConnRec == [state : ConnStates, in : Seq(Byte), out : Seq(Byte), got : Seq(Byte), high : BOOLEAN]
Given(k) == k.got \o k.out

\* The ServerConnMeta of c: the decryptor is behind the request, which was understood.
MetaOK(c, m) ==
  /\ Asks(c)
  /\ m \in [decryptor : [iv : {Iv(c)}, do_encrypt : {FALSE},
                         pos : (RequestEnd(c) + 1)..Len(Request(c))],
            host : {RequestHost(Request(c), RequestStart(c))},
            port : {RequestPort(Request(c), RequestStart(c))},
            buf : Seq(Byte)]

\* The Tunnel of c: the encryptor has not run ahead of the n bytes the upstream said.
TunnelOK(c, t, n) ==
  t \in [encryptor : [iv : {Iv(c)}, do_encrypt : {TRUE}, pos : 0..n],
         sent_iv : BOOLEAN, data_buf : Seq(Byte), addr : Addresses]

\* What is read and not decrypted is the part of the stream behind what is decrypted.
InputOK(c, s, m, a, listed) ==
  IF listed THEN IsPiece(s.in, Stream(c), IvLen + m.decryptor.pos, a)
            ELSE IsPiece(s.in, Stream(c), 0, a)

\* The meta is listed from the first byte behind the request on.
UnderstoodOK(c, a, listed) == listed <=> Asks(c) /\ a - IvLen > RequestEnd(c)

\* The client's side of c, of which a bytes were read: s is the connection, m the meta and q the
\* lookup.
InputOf(c, s, m, a, q, listed, down) ==
  /\ a \in 0..Len(Stream(c))
  /\ s.state = "idle" => a = 0 /\ s.in = <<>>
  /\ Readable(s) /\ ~down => InputOK(c, s, m, a, listed)
  /\ s.state = "connected" /\ ~down => UnderstoodOK(c, a, listed)
  /\ listed => q # "none"
  /\ q = "none" => m = None
  /\ q # "none" => MetaOK(c, m)
  /\ q # "none" => a - IvLen > RequestEnd(c)

\* The upstream u was given a start of the payload; that and what waits in the buffer is all that was
\* decrypted, until the upstream is shut down.
ToUpstream(c, u, m, q) ==
  /\ u \in ConnRec
  /\ \E j \in 0..Len(Request(c)) : IsPiece(Given(u), Request(c), RequestEnd(c), j)
  /\ u.state \in {"idle", "connecting"} => Given(u) = <<>>
  /\ q # "none" /\ u.state \in {"idle", "connecting", "connected"} =>
       IsPiece(Given(u) \o m.buf, Request(c), RequestEnd(c), m.decryptor.pos)

\* The client was given a start of the answer; that is all that was encrypted of the n bytes the
\* upstream said, while the client is connected.
ToClient(c, s, t, n, q) ==
  /\ n \in 0..Len(Response(c))
  /\ s \in ConnRec
  /\ \E j \in 0..Len(Answer(c)) : IsPiece(Given(s), Answer(c), 0, j)
  /\ q # "done" => t = None /\ n = 0 /\ Given(s) = <<>>
  /\ q = "done" => TunnelOK(c, t, n)
  /\ q = "done" /\ s.state = "connected" =>
       /\ t.data_buf = <<>> /\ t.encryptor.pos = n
       /\ ~t.sent_iv => n = 0
       /\ IsPiece(Given(s), Answer(c), 0, IF t.sent_iv THEN IvLen + n ELSE 0)

StreamOf(c) ==
  /\ InputOf(c, server[c], meta[c], arrived[c], query[c], c \in MetaList, aborted)
  /\ ToUpstream(c, upstream[c], meta[c], query[c])
  /\ ToClient(c, server[c], tunnel[c], spoken[c], query[c])

Shapes ==
  /\ DOMAIN server = Conns /\ DOMAIN upstream = Conns /\ DOMAIN meta = Conns /\ DOMAIN tunnel = Conns
  /\ DOMAIN arrived = Conns /\ DOMAIN spoken = Conns
  /\ MetaList \cup TunnelList \cup context \cup leftEarly \subseteq Conns
  /\ aborted \in BOOLEAN

StreamInv == RaceInv /\ Shapes /\ \A c \in Conns : StreamOf(c)

\* Sequences in a row.
LEMMA InARow ==
  ASSUME NEW x \in Seq(Byte), NEW y \in Seq(Byte), NEW z \in Seq(Byte)
  PROVE  (x \o y) \o z = x \o (y \o z) /\ x \o <<>> = x /\ <<>> \o x = x
<1>1. x \o <<>> = x /\ <<>> \o x = x
  OBVIOUS
<1>2. (x \o y) \o z = x \o (y \o z)
  OBVIOUS
<1> QED BY <1>1, <1>2

\* A sequence cut in two.
LEMMA CutInTwo ==
  ASSUME NEW x \in Seq(Byte), NEW n \in 0..Len(x)
  PROVE  /\ SubSeq(x, 1, n) \in Seq(Byte) /\ SubSeq(x, n + 1, Len(x)) \in Seq(Byte)
         /\ SubSeq(x, 1, n) \o SubSeq(x, n + 1, Len(x)) = x
<1> DEFINE l == Len(x)
           y == SubSeq(x, 1, n)
           z == SubSeq(x, n + 1, l)
<1>1. l \in Nat /\ n \in Nat /\ n <= l /\ IsPiece(x, x, 0, l)
  BY DEF IsPiece
<1>2. n \in 0..(l - 0) /\ 0 + n = n
  BY <1>1
<1>3. IsPiece(y, x, 0, 0 + n) /\ IsPiece(z, x, 0 + n, l)
  BY <1>1, <1>2, PieceSplit
<1> HIDE DEF y, z
<1>4. IsPiece(y \o z, x, 0, l)
  BY <1>1, <1>3, PieceJoin
<1>5. y \o z = x
  BY <1>1, <1>4, PieceUnique
<1>6. y \in Seq(Byte) /\ z \in Seq(Byte)
  BY <1>3 DEF IsPiece
<1> QED BY <1>5, <1>6 DEF y, z

\* shutdown, handleWrite and the end of a connection leave what it was given, or a part of it.
LEMMA Calls ==
  ASSUME NEW k \in ConnRec
  PROVE  /\ Given(k) \in Seq(Byte)
         /\ Shutdown(k) \in ConnRec /\ Given(Shutdown(k)) = Given(k) /\ Shutdown(k).in = k.in
         /\ Shutdown(k).state = IF k.state = "connected" THEN "disconnecting" ELSE k.state
         /\ Drain(k) \in ConnRec /\ Given(Drain(k)) = Given(k) /\ Drain(k).in = k.in
         /\ Drain(k).state = k.state
         /\ Down(k) \in ConnRec /\ Given(Down(k)) = k.got /\ Down(k).in = <<>> /\ Down(k).state = "down"
<1> DEFINE g == k.got
           o == k.out
           e == <<>>
<1>1. /\ k.state \in ConnStates /\ k.in \in Seq(Byte) /\ o \in Seq(Byte) /\ g \in Seq(Byte)
      /\ k.high \in BOOLEAN
  BY DEF ConnRec
<1>2. e \in Seq(Byte) /\ g \o o \in Seq(Byte) /\ (g \o o) \o e = g \o o /\ g \o e = g
  BY <1>1
<1>3. /\ Shutdown(k) \in ConnRec /\ Shutdown(k).in = k.in
      /\ Shutdown(k).got = g /\ Shutdown(k).out = o
      /\ Shutdown(k).state = IF k.state = "connected" THEN "disconnecting" ELSE k.state
  BY DEF Shutdown, ConnRec, ConnStates
<1>4. Drain(k) = [k EXCEPT !.got = g \o o, !.out = e] /\ Down(k) = [k EXCEPT !.state = "down", !.in = e, !.out = e]
  BY DEF Drain, Down
<1> HIDE DEF e
<1>5. /\ Drain(k) \in ConnRec /\ Drain(k).in = k.in /\ Drain(k).state = k.state
      /\ Drain(k).got = g \o o /\ Drain(k).out = e
      /\ Down(k) \in ConnRec /\ Down(k).state = "down" /\ Down(k).in = e /\ Down(k).got = g /\ Down(k).out = e
  BY <1>1, <1>2, <1>4 DEF ConnRec, ConnStates
<1> QED BY <1>2, <1>3, <1>5 DEF Given, e

\* send() appends to what a connected socket was given.
LEMMA Sends ==
  ASSUME NEW k \in ConnRec, NEW b \in Seq(Byte), NEW n \in Accepts(k, Len(b)), NEW mark
  PROVE  /\ Send(k, b, n, mark) \in ConnRec
         /\ Send(k, b, n, mark).in = k.in /\ Send(k, b, n, mark).state = k.state
         /\ Given(Send(k, b, n, mark)) = IF k.state = "connected" THEN Given(k) \o b ELSE Given(k)
<1> DEFINE S == Send(k, b, n, mark)
           g == k.got
           o == k.out
           y == SubSeq(b, 1, n)
           z == SubSeq(b, n + 1, Len(b))
<1>1. CASE k.state # "connected"
  BY <1>1 DEF Send
<1>2. CASE k.state = "connected"
  <2>1. /\ k.in \in Seq(Byte) /\ o \in Seq(Byte) /\ g \in Seq(Byte) /\ k.high \in BOOLEAN
    BY DEF ConnRec
  <2>2. n \in 0..Len(b) /\ (o = <<>> \/ n = 0)
    BY DEF Accepts
  <2>3. y \in Seq(Byte) /\ z \in Seq(Byte) /\ y \o z = b
    BY <2>2, CutInTwo
  <2>4. S = [k EXCEPT !.got = g \o y, !.out = o \o z,
                      !.high = @ \/ (Len(o) < mark /\ Len(o \o z) >= mark)]
    BY <1>2 DEF Send
  <2>5. (g \o y) \o (o \o z) = (g \o o) \o b
    <3>1. y = <<>> \/ o = <<>>
      <4>1. SubSeq(b, 1, 0) = <<>>
        OBVIOUS
      <4> QED BY <2>2, <4>1
    <3>2. y \o (o \o z) = o \o (y \o z)
      <4> HIDE DEF y, o, z
      <4>0. o \o z \in Seq(Byte) /\ y \o z \in Seq(Byte)
        BY <2>1, <2>3
      <4>1. CASE y = <<>>
        BY <2>1, <2>3, <4>0, <4>1, InARow
      <4>2. CASE o = <<>>
        BY <2>1, <2>3, <4>0, <4>2, InARow
      <4> QED BY <3>1, <4>1, <4>2
    <3> HIDE DEF g, y, o, z
    <3> DEFINE w == o \o z
    <3>3. w \in Seq(Byte)
      BY <2>1, <2>3
    <3> HIDE DEF w
    <3>4. (g \o y) \o w = g \o (y \o w)
      <4>1. g \in Seq(Byte) /\ y \in Seq(Byte)
        BY <2>1, <2>3
      <4> QED BY <3>3, <4>1, InARow
    <3>5. (g \o o) \o b = g \o (o \o b)
      BY <2>1, InARow, SMTT(20)
    <3> QED BY <2>3, <3>2, <3>4, <3>5 DEF w
  <2>6. g \o y \in Seq(Byte) /\ o \o z \in Seq(Byte)
    BY <2>1, <2>3
  <2> DEFINE h == k.high \/ (Len(o) < mark /\ Len(o \o z) >= mark)
  <2>7. h \in BOOLEAN /\ S = [k EXCEPT !.got = g \o y, !.out = o \o z, !.high = h]
    BY <2>4
  <2> HIDE DEF S, h, y, z
  <2>8. S \in ConnRec /\ S.in = k.in /\ S.state = k.state /\ S.got = g \o y /\ S.out = o \o z
    BY <2>6, <2>7 DEF ConnRec
  <2>9. Given(S) = Given(k) \o b
    BY <2>5, <2>8 DEF Given
  <2> QED BY <1>2, <2>8, <2>9 DEF S
<1> QED BY <1>1, <1>2

\* Both streams begin with the vector.
LEMMA WireFacts ==
  ASSUME NEW c \in Conns
  PROVE  /\ Stream(c) \in Seq(Byte) /\ Len(Stream(c)) = IvLen + Len(Request(c)) /\ Len(Stream(c)) \in Nat
         /\ \A i \in 1..IvLen : Stream(c)[i] = Iv(c)[i]
         /\ Answer(c) \in Seq(Byte) /\ Len(Answer(c)) = IvLen + Len(Response(c)) /\ Len(Answer(c)) \in Nat
         /\ \A i \in 1..IvLen : Answer(c)[i] = Iv(c)[i]
<1> DEFINE v == Stream(c)
           w == Answer(c)
<1>1. /\ v = Iv(c) \o Crypt(NewEncryptor(Iv(c), TRUE), Request(c))
      /\ w = Iv(c) \o Crypt(NewEncryptor(Iv(c), TRUE), Response(c))
  BY DEF Stream, Answer
<1> HIDE DEF v, w
<1>2. /\ v \in Seq(Byte) /\ Len(v) = IvLen + Len(Request(c)) /\ Len(v) \in Nat
      /\ \A i \in 1..IvLen : v[i] = Iv(c)[i]
  BY <1>1, Wire
<1>3. /\ w \in Seq(Byte) /\ Len(w) = IvLen + Len(Response(c)) /\ Len(w) \in Nat
      /\ \A i \in 1..IvLen : w[i] = Iv(c)[i]
  BY <1>1, Wire
<1> QED BY <1>2, <1>3 DEF v, w

\* The state of a connection that is shut down.
Closes(state) == IF state = "connected" THEN "disconnecting" ELSE state

\* The input stays, also when the connection is shut down, the process ends or the buffer changes.
LEMMA InputKept ==
  ASSUME NEW c, NEW s, NEW m, NEW a, NEW q, NEW listed \in BOOLEAN, NEW gone \in BOOLEAN,
         InputOf(c, s, m, a, q, listed, gone),
         NEW s2, s2.in = s.in, s2.state \in {s.state, Closes(s.state)},
         NEW m2, q = "none" => m2 = m, q # "none" => MetaOK(c, m2) /\ m2.decryptor = m.decryptor,
         NEW gone2 \in BOOLEAN, gone => gone2
  PROVE  InputOf(c, s2, m2, a, q, listed, gone2)
<1>1. /\ a \in 0..Len(Stream(c)) /\ (listed => q # "none") /\ (q = "none" => m2 = None)
      /\ (q # "none" => MetaOK(c, m2))
  BY DEF InputOf
<1>2. s2.state = "idle" => a = 0 /\ s2.in = <<>>
  BY DEF InputOf, Closes
<1>3. Readable(s2) => Readable(s)
  BY DEF Readable, Closes
<1>4. ASSUME InputOK(c, s, m, a, listed) PROVE InputOK(c, s2, m2, a, listed)
  BY <1>1, <1>4 DEF InputOK
<1>5. Readable(s2) /\ ~gone2 => InputOK(c, s2, m2, a, listed)
  BY <1>3, <1>4 DEF InputOf
<1>6. s2.state = "connected" /\ ~gone2 => UnderstoodOK(c, a, listed)
  BY DEF InputOf, Closes
<1> QED BY <1>1, <1>2, <1>5, <1>6 DEF InputOf

\* The client's connection is up.
LEMMA InputUp ==
  ASSUME NEW c \in Conns, NEW s, NEW m, NEW a, NEW q, NEW listed \in BOOLEAN, NEW gone \in BOOLEAN,
         InputOf(c, s, m, a, q, listed, gone), s.state = "idle", q = "none",
         NEW s2, s2.state = "connected", s2.in = s.in
  PROVE  InputOf(c, s2, m, a, q, listed, gone)
<1>1. a = 0 /\ s2.in = <<>> /\ ~listed /\ a \in 0..Len(Stream(c)) /\ m = None
  BY DEF InputOf
<1>2. IsPiece(<<>>, Stream(c), 0, 0)
  <2>1. Len(Stream(c)) \in Nat /\ 0 \in 0..Len(Stream(c))
    BY WireFacts
  <2> QED BY <2>1, PieceEmpty
<1>3. InputOK(c, s2, m, a, listed)
  BY <1>1, <1>2 DEF InputOK
<1>4. ~(a - IvLen > RequestEnd(c))
  BY <1>1, PayloadPiece, Streams
<1>5. UnderstoodOK(c, a, listed)
  BY <1>1, <1>4 DEF UnderstoodOK
<1> QED BY <1>1, <1>3, <1>5 DEF InputOf

\* The upstream stays, also when it is shut down.
LEMMA UpKept ==
  ASSUME NEW c, NEW u, NEW m, NEW q, ToUpstream(c, u, m, q),
         NEW u2 \in ConnRec, Given(u2) = Given(u), u2.state \in {u.state, Closes(u.state)}
  PROVE  ToUpstream(c, u2, m, q)
BY DEF ToUpstream, Closes

\* The upstream is gone, and with it what was queued.
LEMMA UpDown ==
  ASSUME NEW c \in Conns, NEW u, NEW m, NEW q, ToUpstream(c, u, m, q)
  PROVE  ToUpstream(c, Down(u), m, q)
<1>1. u \in ConnRec
  BY DEF ToUpstream
<1>2. Down(u) \in ConnRec /\ Given(Down(u)) = u.got /\ Down(u).state = "down"
  BY <1>1, Calls
<1>3. PICK j \in 0..Len(Request(c)) : IsPiece(u.got \o u.out, Request(c), RequestEnd(c), j)
  BY DEF ToUpstream, Given
<1>4. u.got \in Seq(Byte) /\ u.out \in Seq(Byte) /\ Len(Request(c)) \in Nat
  BY <1>1, Streams DEF ConnRec
<1>5. \E i \in 0..Len(Request(c)) : IsPiece(u.got, Request(c), RequestEnd(c), i)
  BY <1>3, <1>4, PieceFront
<1> QED BY <1>2, <1>5 DEF ToUpstream

\* What waits in the buffer is given to an upstream that is connected now.
LEMMA UpSend ==
  ASSUME NEW c \in Conns, NEW u, NEW m, NEW q, ToUpstream(c, u, m, q), q # "none",
         u.state \in {"connecting", "connected"},
         NEW u2 \in ConnRec, u2.state = "connected", Given(u2) = Given(u) \o m.buf,
         NEW m2, m2.decryptor = m.decryptor, m2.buf = <<>>
  PROVE  ToUpstream(c, u2, m2, q)
<1> DEFINE p == m.decryptor.pos
           g == Given(u2)
           e == <<>>
<1>1. IsPiece(g, Request(c), RequestEnd(c), p)
  BY DEF ToUpstream
<1>2. g \in Seq(Byte) /\ p \in 0..Len(Request(c))
  BY <1>1 DEF IsPiece
<1>3. g \o e = g
  <2> HIDE DEF g
  <2> QED BY <1>2
<1> HIDE DEF g, e
<1>4. m2.buf = e /\ m2.decryptor.pos = p
  BY DEF e
<1>5. IsPiece(g \o m2.buf, Request(c), RequestEnd(c), m2.decryptor.pos)
  BY <1>1, <1>3, <1>4
<1> QED BY <1>1, <1>2, <1>5 DEF ToUpstream, g

\* More payload waits in the buffer.
LEMMA UpMore ==
  ASSUME NEW c \in Conns, NEW u, NEW m, NEW q, ToUpstream(c, u, m, q), q # "none", m.buf \in Seq(Byte),
         NEW x, NEW r, IsPiece(x, Request(c), m.decryptor.pos, r),
         NEW m2, m2.decryptor.pos = r, m2.buf = m.buf \o x
  PROVE  ToUpstream(c, u, m2, q)
<1>1. ASSUME u.state \in {"idle", "connecting", "connected"}
      PROVE  IsPiece(Given(u) \o m2.buf, Request(c), RequestEnd(c), m2.decryptor.pos)
  <2> DEFINE g == Given(u)
             b == m.buf
  <2>1. IsPiece(g \o b, Request(c), RequestEnd(c), m.decryptor.pos)
    BY <1>1 DEF ToUpstream
  <2>2. g \in Seq(Byte) /\ b \in Seq(Byte) /\ x \in Seq(Byte)
    BY Calls DEF ToUpstream, IsPiece
  <2>3. Len(Request(c)) \in Nat
    BY Streams
  <2> HIDE DEF g, b
  <2> DEFINE y == g \o b
  <2>4. IsPiece(y \o x, Request(c), RequestEnd(c), r)
    <3>1. IsPiece(y, Request(c), RequestEnd(c), m.decryptor.pos)
      BY <2>1
    <3> HIDE DEF y
    <3> QED BY <2>3, <3>1, PieceJoin
  <2>5. y \o x = g \o (b \o x)
    BY <2>2, InARow
  <2>6. IsPiece(g \o (b \o x), Request(c), RequestEnd(c), r)
    <3> HIDE DEF y
    <3> QED BY <2>4, <2>5
  <2> QED BY <2>6 DEF g, b
<1> QED BY <1>1 DEF ToUpstream

\* The client stays, also when it is shut down.
LEMMA ClientKept ==
  ASSUME NEW c, NEW s, NEW t, NEW n, NEW q, ToClient(c, s, t, n, q),
         NEW s2 \in ConnRec, Given(s2) = Given(s), s2.state \in {s.state, Closes(s.state)}
  PROVE  ToClient(c, s2, t, n, q)
BY DEF ToClient, Closes

\* The client comes.
LEMMA ClientUp ==
  ASSUME NEW c, NEW s, NEW t, NEW n, NEW q, ToClient(c, s, t, n, q), q # "done",
         NEW s2 \in ConnRec, Given(s2) = Given(s)
  PROVE  ToClient(c, s2, t, n, q)
BY DEF ToClient

\* The client is gone, and with it what was queued.
LEMMA ClientDown ==
  ASSUME NEW c \in Conns, NEW s, NEW t, NEW n, NEW q, ToClient(c, s, t, n, q)
  PROVE  ToClient(c, Down(s), t, n, q)
<1>1. s \in ConnRec /\ Given(s) = s.got \o s.out
  BY DEF ToClient, Given
<1>2. Down(s) \in ConnRec /\ Given(Down(s)) = s.got /\ Down(s).state = "down"
  BY <1>1, Calls
<1>3. PICK j \in 0..Len(Answer(c)) : IsPiece(s.got \o s.out, Answer(c), 0, j)
  BY DEF ToClient, Given
<1>4. s.got \in Seq(Byte) /\ s.out \in Seq(Byte) /\ Len(Answer(c)) \in Nat
  BY <1>1, WireFacts DEF ConnRec
<1>5. \E i \in 0..Len(Answer(c)) : IsPiece(s.got, Answer(c), 0, i)
  BY <1>3, <1>4, PieceFront
<1>6. s.got \o s.out = <<>> => s.got = <<>>
  BY <1>4
<1> QED BY <1>1, <1>2, <1>5, <1>6 DEF ToClient

\* The client's tunnel is made.
LEMMA ClientTunnel ==
  ASSUME NEW c \in Conns, NEW s, NEW t, NEW n, NEW q, ToClient(c, s, t, n, q), q # "done",
         NEW m, MetaOK(c, m), NEW addr \in Addresses
  PROVE  ToClient(c, s, NewTunnel(m, addr), n, "done")
<1> DEFINE t2 == NewTunnel(m, addr)
           e == <<>>
<1>1. m.decryptor.iv = Iv(c)
  BY DEF MetaOK
<1>2. e \in Seq(Byte) /\ t2 = [encryptor |-> [iv |-> Iv(c), do_encrypt |-> TRUE, pos |-> 0], sent_iv |-> FALSE,
                               data_buf |-> e, addr |-> addr]
  BY <1>1 DEF NewTunnel, NewEncryptor
<1>3. n = 0 /\ Given(s) = e /\ s \in ConnRec
  BY DEF ToClient
<1>4. IsPiece(e, Answer(c), 0, 0)
  BY WireFacts, PieceEmpty
<1>5. 0 \in 0..Len(Answer(c)) /\ 0 \in 0..Len(Response(c))
  BY WireFacts, Streams
<1> HIDE DEF t2, e
<1>6. 0 \in 0..0
  OBVIOUS
<1>7. TunnelOK(c, t2, n)
  BY <1>2, <1>3, <1>6 DEF TunnelOK
<1>8. t2.data_buf = e /\ t2.encryptor.pos = n /\ ~t2.sent_iv
  BY <1>2, <1>3
<1> QED BY <1>3, <1>4, <1>5, <1>7, <1>8 DEF ToClient, e, t2

\* What onClientMessage sends for the next k bytes of the upstream.
HeadOf(t) == t.data_buf \o (IF t.sent_iv THEN <<>> ELSE t.encryptor.iv)
Said(c, n, k) == SubSeq(Response(c), n + 1, n + k)
DataOf(c, t, n, k) == HeadOf(t) \o Crypt(t.encryptor, Said(c, n, k))

\* It consists of bytes.
LEMMA DataBytes ==
  ASSUME NEW c \in Conns, NEW n \in 0..Len(Response(c)), NEW t, TunnelOK(c, t, n),
         NEW k \in 1..(Len(Response(c)) - n)
  PROVE  /\ t.encryptor = Encrypts(c, t.encryptor.pos) /\ t.encryptor.pos \in 0..n
         /\ t.data_buf \in Seq(Byte) /\ t.sent_iv \in BOOLEAN
         /\ IsPiece(Said(c, n, k), Response(c), n, n + k) /\ n + k \in 0..Len(Response(c))
         /\ HeadOf(t) \in Seq(Byte) /\ DataOf(c, t, n, k) \in Seq(Byte)
         /\ Len(Said(c, n, k)) = k
<1> DEFINE R == Response(c)
           l == Len(R)
           x == Said(c, n, k)
           p == t.encryptor.pos
<1>1. /\ t.encryptor \in [iv : {Iv(c)}, do_encrypt : {TRUE}, pos : 0..n]
      /\ t.sent_iv \in BOOLEAN /\ t.data_buf \in Seq(Byte)
  BY DEF TunnelOK
<1>2. t.encryptor = Encrypts(c, p) /\ p \in 0..n
  BY <1>1 DEF Encrypts
<1>3. R \in Seq(Byte) /\ l \in Nat /\ Iv(c) \in Seq(Byte)
  BY Streams
<1>4. n + k \in 0..l /\ n \in 0..(n + k) /\ n \in Nat /\ k \in Nat
  <2> HIDE DEF l
  <2> QED BY <1>3 DEF l
<1>5. IsPiece(x, R, n, n + k)
  BY <1>3, <1>4, PieceCut DEF Said
<1>6. x \in Seq(Byte) /\ Len(x) = k
  <2>1. (n + k) - n = k
    BY <1>4
  <2> QED BY <1>5, <2>1 DEF IsPiece
<1>7. Crypt(t.encryptor, x) \in Seq(Byte)
  <2>1. p + Len(x) <= l /\ p \in Nat
    BY <1>2, <1>3, <1>4, <1>6
  <2> HIDE DEF x, p
  <2>2. Crypt(Encrypts(c, p), x) \in Seq(Byte)
    BY <1>6, <2>1, CryptBytes
  <2> QED BY <1>2, <2>2
<1>8. HeadOf(t) \in Seq(Byte)
  <2> DEFINE v == IF t.sent_iv THEN <<>> ELSE t.encryptor.iv
  <2>1. t.encryptor.iv = Iv(c)
    BY <1>1
  <2>2. v \in Seq(Byte)
    BY <1>3, <2>1
  <2> HIDE DEF v
  <2>3. t.data_buf \o v \in Seq(Byte)
    BY <1>1, <2>2
  <2> QED BY <2>3 DEF HeadOf, v
<1>9. DataOf(c, t, n, k) \in Seq(Byte)
  BY <1>7, <1>8 DEF DataOf
<1> QED BY <1>1, <1>2, <1>4, <1>5, <1>6, <1>8, <1>9

\* The bytes are encrypted and sent, behind the vector the first time.
LEMMA ClientSaid ==
  ASSUME NEW c \in Conns, NEW s, NEW t, NEW n, ToClient(c, s, t, n, "done"),
         NEW k \in 1..(Len(Response(c)) - n),
         NEW s2 \in ConnRec, s2.state = s.state,
         Given(s2) = IF s.state = "connected" THEN Given(s) \o DataOf(c, t, n, k) ELSE Given(s),
         NEW t2, t2 = [t EXCEPT !.sent_iv = TRUE, !.encryptor = Advance(@, Said(c, n, k)),
                                !.data_buf = Unsent(s, DataOf(c, t, n, k))]
  PROVE  ToClient(c, s2, t2, n + k, "done")
<1> DEFINE R == Response(c)
           A == Answer(c)
           l == Len(R)
           x == Said(c, n, k)
           d == DataOf(c, t, n, k)
           p == t.encryptor.pos
           b == Unsent(s, d)
<1>1. n \in 0..l /\ TunnelOK(c, t, n) /\ s \in ConnRec
  BY DEF ToClient
<1>2. /\ t.encryptor = Encrypts(c, p) /\ p \in 0..n
      /\ t.data_buf \in Seq(Byte) /\ t.sent_iv \in BOOLEAN
      /\ IsPiece(x, R, n, n + k) /\ n + k \in 0..l /\ d \in Seq(Byte) /\ Len(x) = k
  BY <1>1, DataBytes
<1>3. b \in Seq(Byte) /\ (s.state = "connected" => b = <<>>)
  <2> HIDE DEF d
  <2> QED BY <1>2 DEF Unsent
<1>4. Advance(t.encryptor, x) = Encrypts(c, p + k) /\ p + k \in 0..(n + k)
  <2>1. Advance(t.encryptor, x) = [t.encryptor EXCEPT !.pos = p + k]
    BY <1>2 DEF Advance
  <2>2. p + k \in 0..(n + k)
    BY <1>1, <1>2, Streams
  <2> HIDE DEF p, x
  <2>3. Advance(t.encryptor, x) = [Encrypts(c, p) EXCEPT !.pos = p + k]
    BY <1>2, <2>1
  <2> QED BY <2>2, <2>3 DEF Encrypts
<1> HIDE DEF p, x, d, b
<1>5. t2 = [t EXCEPT !.sent_iv = TRUE, !.encryptor = Encrypts(c, p + k), !.data_buf = b]
  BY <1>4 DEF x, d, b
<1>6. /\ TunnelOK(c, t2, n + k)
      /\ t2.sent_iv /\ t2.data_buf = b /\ t2.encryptor.pos = p + k
  <2>1. Encrypts(c, p + k) \in [iv : {Iv(c)}, do_encrypt : {TRUE}, pos : 0..(n + k)]
    BY <1>4 DEF Encrypts
  <2>2. Encrypts(c, p + k).pos = p + k
    BY DEF Encrypts
  <2> DEFINE e2 == Encrypts(c, p + k)
  <2> HIDE DEF e2
  <2>3. /\ t2 = [t EXCEPT !.sent_iv = TRUE, !.encryptor = e2, !.data_buf = b]
        /\ e2 \in [iv : {Iv(c)}, do_encrypt : {TRUE}, pos : 0..(n + k)] /\ e2.pos = p + k
    BY <1>5, <2>1, <2>2 DEF e2
  <2>4. t2.sent_iv = TRUE /\ t2.data_buf = b /\ t2.encryptor = e2 /\ t2.addr = t.addr
        /\ DOMAIN t2 = DOMAIN t
    BY <1>1, <2>3 DEF TunnelOK
  <2>5. TunnelOK(c, t2, n + k)
    BY <1>1, <1>3, <2>3 DEF TunnelOK
  <2> QED BY <2>3, <2>4, <2>5
<1>7. CASE s.state # "connected"
  <2>1. Given(s2) = Given(s) /\ s2.state # "connected"
    BY <1>7
  <2> QED BY <1>2, <1>6, <2>1 DEF ToClient
<1>8. CASE s.state = "connected"
  <2>1. /\ t.data_buf = <<>> /\ p = n /\ (~t.sent_iv => n = 0)
        /\ IsPiece(Given(s), A, 0, IF t.sent_iv THEN IvLen + n ELSE 0)
    BY <1>8 DEF ToClient, p
  <2> DEFINE v == IF t.sent_iv THEN <<>> ELSE Iv(c)
             y == Crypt(Encrypts(c, n), x)
             i == IF t.sent_iv THEN IvLen + n ELSE 0
             g == Given(s)
  <2>2. d = v \o y /\ v \in Seq(Byte) /\ y \in Seq(Byte)
    <3>1. t.encryptor.iv = Iv(c) /\ t.encryptor = Encrypts(c, n)
      BY <1>2, <2>1 DEF Encrypts
    <3>2. v \in Seq(Byte)
      BY Streams
    <3>3. <<>> \o v = v
      <4> HIDE DEF v
      <4> QED BY <3>2
    <3>4. HeadOf(t) = v
      BY <2>1, <3>1, <3>3 DEF HeadOf
    <3>5. y \in Seq(Byte)
      <4>1. IsPiece(y, A, IvLen + n, IvLen + (n + k))
        BY <1>2, EncryptPiece
      <4> QED BY <4>1 DEF IsPiece
    <3> QED BY <3>1, <3>2, <3>4, <3>5 DEF d, DataOf, x
  <2>3. IsPiece(y, A, IvLen + n, IvLen + (n + k))
    BY <1>2, EncryptPiece
  <2>4. Len(A) \in Nat /\ IvLen \in Nat /\ l \in Nat /\ n \in Nat /\ k \in Nat
    BY <1>1, WireFacts, Streams
  <2>5. IsPiece(v, A, i, IvLen + n)
    <3>1. CASE t.sent_iv
      <4>1. v = <<>> /\ i = IvLen + n
        BY <3>1
      <4>2. IvLen + n \in 0..Len(A)
        BY <2>3 DEF IsPiece
      <4> HIDE DEF v, i
      <4>3. IsPiece(<<>>, A, IvLen + n, IvLen + n)
        BY <2>4, <4>2, PieceEmpty
      <4> QED BY <4>1, <4>3
    <3>2. CASE ~t.sent_iv
      <4>1. v = Iv(c) /\ i = 0 /\ n = 0 /\ IvLen + n = IvLen
        BY <2>1, <2>4, <3>2
      <4> HIDE DEF v, i
      <4>2. /\ Iv(c) \in Seq(Byte) /\ Len(Iv(c)) = IvLen
            /\ \A j \in 1..IvLen : A[j] = Iv(c)[j]
        BY Streams, WireFacts
      <4>3. IvLen \in 0..Len(A) /\ 0 \in 0..IvLen
        BY <2>4, WireFacts, Streams
      <4>4. IsPiece(Iv(c), A, 0, IvLen)
        <5>1. IvLen - 0 = IvLen /\ \A j \in 1..IvLen : 0 + j = j
          BY <2>4
        <5> QED BY <4>2, <4>3, <5>1 DEF IsPiece
      <4> QED BY <4>1, <4>4
    <3> QED BY <3>1, <3>2
  <2> HIDE DEF v, y, i, g
  <2>6. IsPiece(d, A, i, IvLen + (n + k))
    BY <2>2, <2>3, <2>4, <2>5, PieceJoin
  <2>7. IsPiece(g \o d, A, 0, IvLen + (n + k))
    <3>1. IsPiece(g, A, 0, i)
      BY <2>1 DEF g, i
    <3> QED BY <2>4, <2>6, <3>1, PieceJoin
  <2>8. Given(s2) = g \o d /\ IvLen + (n + k) \in 0..Len(A)
    BY <1>8, <2>7 DEF g, d, IsPiece
  <2>9. /\ t2.data_buf = <<>> /\ t2.encryptor.pos = n + k
    BY <1>3, <1>6, <1>8, <2>1
  <2> QED BY <1>2, <1>6, <2>7, <2>8, <2>9 DEF ToClient
<1> QED BY <1>7, <1>8

\* The cipher fails: the bytes are lost and the client is shut down.
LEMMA ClientFails ==
  ASSUME NEW c \in Conns, NEW s, NEW t, NEW n, ToClient(c, s, t, n, "done"),
         NEW k \in 1..(Len(Response(c)) - n),
         NEW t2, t2 = [t EXCEPT !.sent_iv = TRUE, !.data_buf = HeadOf(t)]
  PROVE  ToClient(c, Shutdown(s), t2, n + k, "done")
<1> DEFINE h == HeadOf(t)
           l == Len(Response(c))
<1>1. n \in 0..l /\ TunnelOK(c, t, n) /\ s \in ConnRec /\ l \in Nat
  BY Streams DEF ToClient
<1>2. h \in Seq(Byte) /\ n + k \in 0..l
  BY <1>1, DataBytes
<1>3. /\ Shutdown(s) \in ConnRec /\ Given(Shutdown(s)) = Given(s) /\ Shutdown(s).state # "connected"
  <2>1. /\ Shutdown(s) \in ConnRec /\ Given(Shutdown(s)) = Given(s)
        /\ Shutdown(s).state = IF s.state = "connected" THEN "disconnecting" ELSE s.state
    BY <1>1, Calls
  <2> QED BY <2>1
<1>4. 0..n \subseteq 0..(n + k)
  BY <1>1
<1> HIDE DEF h
<1>5. t2 = [t EXCEPT !.sent_iv = TRUE, !.data_buf = h]
  BY DEF h
<1>6. TunnelOK(c, t2, n + k)
  <2>1. t.encryptor \in [iv : {Iv(c)}, do_encrypt : {TRUE}, pos : 0..n]
    BY <1>1 DEF TunnelOK
  <2>2. t.encryptor \in [iv : {Iv(c)}, do_encrypt : {TRUE}, pos : 0..(n + k)]
    BY <1>4, <2>1
  <2> QED BY <1>1, <1>2, <1>5, <2>2 DEF TunnelOK
<1> QED BY <1>2, <1>3, <1>6 DEF ToClient

\* A read appends to what was read.
LEMMA ReadsOn ==
  ASSUME NEW c \in Conns, NEW x, NEW i, NEW a, IsPiece(x, Stream(c), i, a), NEW n \in Nat,
         a + n <= Len(Stream(c))
  PROVE  /\ IsPiece(x \o SubSeq(Stream(c), a + 1, a + n), Stream(c), i, a + n)
         /\ a + n \in 0..Len(Stream(c)) /\ a \in Nat
<1> DEFINE S == Stream(c)
           y == SubSeq(S, a + 1, a + n)
<1>1. S \in Seq(Byte) /\ Len(S) \in Nat
  BY WireFacts
<1>2. a \in Nat
  BY <1>1 DEF IsPiece
<1>3. a + n \in 0..Len(S) /\ a \in 0..(a + n)
  BY <1>1, <1>2
<1> HIDE DEF S
<1>4. IsPiece(y, S, a, a + n)
  BY <1>1, <1>3, PieceCut
<1> HIDE DEF y
<1>5. IsPiece(x \o y, S, i, a + n)
  BY <1>1, <1>4, PieceJoin DEF S
<1> QED BY <1>2, <1>3, <1>5 DEF S, y

\* The vector is taken off the first bytes, and the rest decrypted.
LEMMA FirstBytes ==
  ASSUME NEW c \in Conns, NEW in, NEW a, IsPiece(in, Stream(c), 0, a), Len(in) > IvLen
  PROVE  LET e == NewEncryptor(SubSeq(in, 1, IvLen), FALSE)
             x == SubSeq(in, IvLen + 1, Len(in)) IN
         /\ a > IvLen /\ a - IvLen \in 0..Len(Request(c))
         /\ IsPiece(Crypt(e, x), Request(c), 0, a - IvLen)
         /\ Advance(e, x) = Decryptor(c, a - IvLen)
<1> DEFINE S == Stream(c)
           v == SubSeq(in, 1, IvLen)
           x == SubSeq(in, IvLen + 1, Len(in))
           e == NewEncryptor(v, FALSE)
<1>1. S \in Seq(Byte) /\ Len(S) \in Nat /\ Len(S) = IvLen + Len(Request(c)) /\ \A i \in 1..IvLen : S[i] = Iv(c)[i]
  BY WireFacts
<1>2. IvLen \in Nat /\ Iv(c) \in Seq(Byte) /\ Len(Iv(c)) = IvLen /\ Len(Request(c)) \in Nat
  BY Streams
<1>3. a \in Nat /\ a <= Len(S) /\ Len(in) = a - 0 /\ a - 0 = a
  <2>1. a \in Nat /\ a <= Len(S) /\ Len(in) = a - 0
    BY <1>1 DEF IsPiece
  <2> QED BY <2>1
<1>4. a > IvLen /\ IvLen \in 0..(a - 0) /\ 0 + IvLen = IvLen
  BY <1>2, <1>3
<1>5. IsPiece(v, S, 0, IvLen) /\ IsPiece(x, S, IvLen, a)
  <2> HIDE DEF S
  <2>1. IsPiece(in, S, 0, a)
    BY DEF S
  <2>2. IsPiece(v, S, 0, 0 + IvLen) /\ IsPiece(x, S, 0 + IvLen, a)
    BY <1>1, <1>4, <2>1, PieceSplit
  <2> QED BY <1>4, <2>2
<1>6. v = Iv(c)
  <2>1. IsPiece(Iv(c), S, 0, IvLen)
    <3>1. IvLen - 0 = IvLen /\ (\A j \in 1..IvLen : 0 + j = j) /\ IvLen \in 0..Len(S) /\ 0 \in 0..IvLen
      BY <1>1, <1>2
    <3> QED BY <1>1, <1>2, <3>1 DEF IsPiece
  <2> HIDE DEF v, S
  <2> QED BY <1>5, <2>1, PieceUnique
<1>7. e = Decryptor(c, 0)
  BY <1>6 DEF NewEncryptor, Decryptor
<1>8. IvLen + 0 = IvLen /\ a - IvLen \in 0..Len(Request(c))
  BY <1>1, <1>2, <1>3, <1>4
<1>9. IsPiece(Crypt(e, x), Request(c), 0, a - IvLen)
  <2> HIDE DEF x, e, S
  <2>1. IsPiece(x, Stream(c), IvLen + 0, a)
    BY <1>5, <1>8 DEF S
  <2>2. IsPiece(Crypt(Decryptor(c, 0), x), Request(c), 0, a - IvLen)
    BY <2>1, DecryptPiece
  <2> QED BY <1>7, <2>2
<1>10. Len(x) = a - IvLen
  BY <1>5 DEF IsPiece
<1>11. Advance(e, x) = Decryptor(c, a - IvLen)
  <2> HIDE DEF x, e
  <2> DEFINE n == a - IvLen
  <2>1. Len(x) = n /\ n \in Nat
    BY <1>2, <1>8, <1>10
  <2> HIDE DEF n
  <2>2. 0 + Len(x) = n
    BY <2>1
  <2>3. Advance(Decryptor(c, 0), x) = [Decryptor(c, 0) EXCEPT !.pos = 0 + Len(x)]
    BY DEF Advance, Decryptor
  <2>4. Advance(Decryptor(c, 0), x) = Decryptor(c, n)
    BY <2>2, <2>3 DEF Decryptor
  <2> QED BY <1>7, <2>4 DEF n
<1> QED BY <1>4, <1>8, <1>9, <1>11

\* Nothing is made of the first bytes yet.
LEMMA InputWaits ==
  ASSUME NEW c \in Conns, NEW in, NEW a, IsPiece(in, Stream(c), 0, a), ~(Asks(c) /\ a - IvLen > RequestEnd(c)),
         NEW s2, s2.in = in, s2.state \in {"connected", "disconnecting"}
  PROVE  InputOf(c, s2, None, a, "none", FALSE, FALSE)
<1>1. a \in 0..Len(Stream(c))
  BY DEF IsPiece
<1> QED BY <1>1 DEF InputOf, InputOK, UnderstoodOK, Readable

\* The client is shut down with its first bytes.
LEMMA InputShut ==
  ASSUME NEW c \in Conns, NEW in, NEW a, IsPiece(in, Stream(c), 0, a),
         NEW s2, s2.in = in, s2.state = "disconnecting"
  PROVE  InputOf(c, s2, None, a, "none", FALSE, FALSE)
<1>1. a \in 0..Len(Stream(c))
  BY DEF IsPiece
<1> QED BY <1>1 DEF InputOf, InputOK, Readable

\* The request is understood.
LEMMA InputAsks ==
  ASSUME NEW c \in Conns, NEW a \in 0..Len(Stream(c)), a > IvLen, Asks(c), a - IvLen > RequestEnd(c),
         NEW s2, s2.in = <<>>, NEW m2, m2.decryptor = Decryptor(c, a - IvLen),
         m2.host = RequestHost(Request(c), RequestStart(c)),
         m2.port = RequestPort(Request(c), RequestStart(c)),
         m2.buf \in Seq(Byte), m2 = [decryptor |-> m2.decryptor, host |-> m2.host, port |-> m2.port,
                                     buf |-> m2.buf],
         NEW q2 \in {"pending", "done"}, s2.state # "idle"
  PROVE  InputOf(c, s2, m2, a, q2, TRUE, FALSE)
<1> DEFINE p == a - IvLen
<1>1. Len(Stream(c)) = IvLen + Len(Request(c)) /\ Len(Request(c)) \in Nat /\ IvLen \in Nat
      /\ Len(Stream(c)) \in Nat
  BY WireFacts, Streams
<1>2. RequestEnd(c) \in Nat
  BY PayloadPiece
<1>3. p \in (RequestEnd(c) + 1)..Len(Request(c)) /\ IvLen + p = a
  BY <1>1, <1>2
<1> HIDE DEF p
<1>4. m2.decryptor \in [iv : {Iv(c)}, do_encrypt : {FALSE}, pos : (RequestEnd(c) + 1)..Len(Request(c))]
      /\ m2.decryptor.pos = p
  BY <1>3 DEF Decryptor, p
<1>5. MetaOK(c, m2)
  BY <1>4 DEF MetaOK
<1>6. IsPiece(<<>>, Stream(c), a, a)
  BY <1>1, PieceEmpty
<1>7. InputOK(c, s2, m2, a, TRUE)
  BY <1>3, <1>4, <1>6 DEF InputOK
<1>8. UnderstoodOK(c, a, TRUE)
  BY DEF UnderstoodOK
<1> QED BY <1>5, <1>7, <1>8 DEF InputOf

\* More bytes behind the request are decrypted.
LEMMA LaterBytes ==
  ASSUME NEW c \in Conns, NEW m, MetaOK(c, m), NEW in, NEW a,
         IsPiece(in, Stream(c), IvLen + m.decryptor.pos, a)
  PROVE  /\ IsPiece(Crypt(m.decryptor, in), Request(c), m.decryptor.pos, a - IvLen)
         /\ Advance(m.decryptor, in) = Decryptor(c, a - IvLen)
         /\ a - IvLen > RequestEnd(c) /\ a > IvLen /\ a \in 0..Len(Stream(c))
<1> DEFINE d == m.decryptor
           p == d.pos
<1>1. d \in [iv : {Iv(c)}, do_encrypt : {FALSE}, pos : (RequestEnd(c) + 1)..Len(Request(c))]
  BY DEF MetaOK
<1>2. RequestEnd(c) \in Nat /\ Len(Request(c)) \in Nat /\ IvLen \in Nat /\ Len(Stream(c)) \in Nat
  BY PayloadPiece, Streams, WireFacts
<1>3. d = Decryptor(c, p) /\ p \in (RequestEnd(c) + 1)..Len(Request(c))
  BY <1>1 DEF Decryptor
<1>4. p \in Nat /\ p > RequestEnd(c)
  BY <1>2, <1>3
<1> HIDE DEF p
<1>5. IsPiece(in, Stream(c), IvLen + p, a)
  BY DEF p
<1>6. IsPiece(Crypt(Decryptor(c, p), in), Request(c), p, a - IvLen)
  BY <1>4, <1>5, DecryptPiece
<1>7. a \in 0..Len(Stream(c)) /\ Len(in) = a - (IvLen + p) /\ IvLen + p \in 0..a
  BY <1>5 DEF IsPiece
<1>8. p + Len(in) = a - IvLen /\ a - IvLen > RequestEnd(c) /\ a > IvLen
  <2> DEFINE n == Len(in)
  <2> HIDE DEF n
  <2>1. n = a - (IvLen + p)
    BY <1>7 DEF n
  <2>2. p + n = a - IvLen /\ a - IvLen > RequestEnd(c) /\ a > IvLen
    BY <1>2, <1>4, <1>7, <2>1
  <2> QED BY <2>2 DEF n
<1>9. Advance(Decryptor(c, p), in) = Decryptor(c, a - IvLen)
  <2> DEFINE n == a - IvLen
  <2> HIDE DEF n
  <2>1. p + Len(in) = n
    BY <1>8 DEF n
  <2>2. Advance(Decryptor(c, p), in) = [Decryptor(c, p) EXCEPT !.pos = p + Len(in)]
    BY DEF Advance, Decryptor
  <2>3. Advance(Decryptor(c, p), in) = Decryptor(c, n)
    BY <2>1, <2>2 DEF Decryptor
  <2> QED BY <2>3 DEF n
<1> HIDE DEF d
<1>10. IsPiece(Crypt(d, in), Request(c), p, a - IvLen) /\ Advance(d, in) = Decryptor(c, a - IvLen)
  BY <1>3, <1>6, <1>9
<1> QED BY <1>7, <1>8, <1>10 DEF d, p

\* The client is shut down with bytes that are not decrypted.
LEMMA LaterShut ==
  ASSUME NEW c \in Conns, NEW m, MetaOK(c, m), NEW in, NEW a,
         IsPiece(in, Stream(c), IvLen + m.decryptor.pos, a), NEW q, q # "none",
         NEW s2, s2.in = in, s2.state = "disconnecting"
  PROVE  InputOf(c, s2, m, a, q, TRUE, FALSE)
<1>1. a \in 0..Len(Stream(c)) /\ a - IvLen > RequestEnd(c)
  BY LaterBytes
<1> QED BY <1>1 DEF InputOf, InputOK, Readable

-------------------------------------------------------------------------------
(* The steps of the relay.                                                 *)

\* Nothing of connection d changes.
Same(d) ==
  /\ server'[d] = server[d] /\ upstream'[d] = upstream[d] /\ meta'[d] = meta[d] /\ tunnel'[d] = tunnel[d]
  /\ arrived'[d] = arrived[d] /\ spoken'[d] = spoken[d] /\ query'[d] = query[d]
  /\ (d \in MetaList') = (d \in MetaList)

\* Then it is as good as before, also when the process ends.
LEMMA SameStream ==
  ASSUME NEW d, StreamOf(d), Same(d), aborted \in BOOLEAN, aborted' \in BOOLEAN, aborted => aborted'
  PROVE  StreamOf(d)'
<1> DEFINE s == server[d]
           m == meta[d]
           a == arrived[d]
           q == query[d]
           listed == d \in MetaList
<1>1. /\ InputOf(d, s, m, a, q, listed, aborted) /\ listed \in BOOLEAN
      /\ ToUpstream(d, upstream[d], m, q) /\ ToClient(d, s, tunnel[d], spoken[d], q)
  BY DEF StreamOf
<1>2. /\ server'[d] = s /\ meta'[d] = m /\ arrived'[d] = a /\ query'[d] = q /\ (d \in MetaList') = listed
      /\ upstream'[d] = upstream[d] /\ tunnel'[d] = tunnel[d] /\ spoken'[d] = spoken[d]
  BY DEF Same
<1> HIDE DEF s, m, a, q, listed
<1>3. q # "none" => MetaOK(d, m)
  BY <1>1 DEF InputOf
<1>4. InputOf(d, s, m, a, q, listed, aborted')
  <2>1. s.in = s.in /\ s.state \in {s.state, Closes(s.state)}
    OBVIOUS
  <2> QED BY <1>1, <1>3, <2>1, InputKept
<1> QED BY <1>1, <1>2, <1>4 DEF StreamOf

\* A step of connection c.
LEMMA OneStream ==
  ASSUME StreamInv, NEW c \in Conns, \A d \in Conns : d # c => Same(d), StreamOf(c)',
         aborted' \in BOOLEAN, aborted => aborted'
  PROVE  \A d \in Conns : StreamOf(d)'
<1> SUFFICES ASSUME NEW d \in Conns PROVE StreamOf(d)'
  OBVIOUS
<1>1. CASE d = c
  BY <1>1
<1>2. CASE d # c
  BY <1>2, SameStream DEF StreamInv, Shapes
<1> QED BY <1>1, <1>2

\* What the invariant says of c.
LEMMA StreamFacts ==
  ASSUME StreamInv, NEW c \in Conns
  PROVE  /\ InputOf(c, server[c], meta[c], arrived[c], query[c], c \in MetaList, aborted)
         /\ ToUpstream(c, upstream[c], meta[c], query[c])
         /\ ToClient(c, server[c], tunnel[c], spoken[c], query[c])
         /\ server[c] \in ConnRec /\ upstream[c] \in ConnRec /\ RaceOf(c)
         /\ query[c] \in {"none", "pending", "done"}
         /\ (c \in MetaList) \in BOOLEAN /\ aborted \in BOOLEAN
         /\ query[c] = "none" => meta[c] = None
         /\ query[c] # "none" => MetaOK(c, meta[c])
         /\ c \in MetaList => query[c] # "none"
BY DEF StreamInv, Shapes, StreamOf, InputOf, ToUpstream, ToClient, RaceInv, Connections

\* What a step must show of c.
LEMMA StreamShown ==
  ASSUME NEW c \in Conns, NEW s, NEW u, NEW m, NEW t, NEW a, NEW n, NEW q, NEW listed, NEW gone,
         server'[c] = s, upstream'[c] = u, meta'[c] = m, tunnel'[c] = t, arrived'[c] = a,
         spoken'[c] = n, query'[c] = q, (c \in MetaList') = listed, aborted' = gone,
         InputOf(c, s, m, a, q, listed, gone), ToUpstream(c, u, m, q), ToClient(c, s, t, n, q)
  PROVE  StreamOf(c)'
BY DEF StreamOf

\* A client comes.
LEMMA StreamUp ==
  ASSUME StreamInv, NEW c \in Conns, onServerConnectionUp(c)
  PROVE  Shapes' /\ \A d \in Conns : StreamOf(d)'
<1> DEFINE s == server[c]
           s2 == [s EXCEPT !.state = "connected"]
<1>1. /\ s.state = "idle" /\ server' = [server EXCEPT ![c].state = "connected"]
      /\ UNCHANGED <<arrived, meta, MetaList, tunnel, TunnelList, upstream, context, spoken,
                     leftEarly, aborted, query>>
  BY DEF onServerConnectionUp, resolverVars
<1>2. DOMAIN server = Conns
  BY DEF StreamInv, Shapes
<1>3. DOMAIN server' = Conns /\ server'[c] = s2 /\ \A d \in Conns : d # c => server'[d] = server[d]
  BY <1>1, <1>2
<1>4. Shapes'
  BY <1>1, <1>3 DEF StreamInv, Shapes
<1>5. \A d \in Conns : d # c => Same(d)
  BY <1>1, <1>3 DEF Same
<1>6. s \in ConnRec /\ query[c] = "none"
  BY <1>1, StreamFacts DEF RaceOf
<1>7. s2 \in ConnRec /\ s2.in = s.in /\ s2.state = "connected" /\ s2.got = s.got /\ s2.out = s.out
  BY <1>6 DEF ConnRec, ConnStates
<1>8. Given(s2) = Given(s)
  BY <1>7 DEF Given
<1> HIDE DEF s2
<1>9. InputOf(c, s2, meta[c], arrived[c], query[c], c \in MetaList, aborted)
  <2> DEFINE listed == c \in MetaList
  <2>1. /\ InputOf(c, s, meta[c], arrived[c], query[c], listed, aborted)
        /\ listed \in BOOLEAN /\ aborted \in BOOLEAN
    BY StreamFacts
  <2> HIDE DEF listed
  <2>2. InputOf(c, s2, meta[c], arrived[c], query[c], listed, aborted)
    BY <1>1, <1>6, <1>7, <2>1, InputUp
  <2> QED BY <2>2 DEF listed
<1>10. ToClient(c, s2, tunnel[c], spoken[c], query[c])
  BY <1>6, <1>7, <1>8, StreamFacts, ClientUp
<1>11. StreamOf(c)'
  BY <1>1, <1>3, <1>9, <1>10, StreamFacts DEF StreamOf
<1> QED BY <1>1, <1>4, <1>5, <1>11, OneStream DEF StreamInv, Shapes

\* A client goes.
LEMMA StreamDown ==
  ASSUME StreamInv, NEW c \in Conns, onServerConnectionDown(c)
  PROVE  Shapes' /\ \A d \in Conns : StreamOf(d)'
<1> DEFINE s == server[c]
           u == upstream[c]
<1>1. /\ server' = [server EXCEPT ![c] = Down(@)] /\ MetaList' = MetaList \ {c}
      /\ TunnelList' \subseteq TunnelList /\ leftEarly' \subseteq leftEarly \cup {c}
      /\ upstream' = upstream \/ upstream' = [upstream EXCEPT ![c] = Shutdown(@)]
      /\ UNCHANGED <<arrived, meta, tunnel, context, spoken, aborted, query>>
  BY DEF onServerConnectionDown, disconnect, resolverVars
<1>2. DOMAIN server = Conns /\ DOMAIN upstream = Conns
  BY DEF StreamInv, Shapes
<1>3. /\ DOMAIN server' = Conns /\ server'[c] = Down(s) /\ \A d \in Conns : d # c => server'[d] = server[d]
      /\ DOMAIN upstream' = Conns /\ upstream'[c] \in {u, Shutdown(u)}
      /\ \A d \in Conns : d # c => upstream'[d] = upstream[d]
  BY <1>1, <1>2
<1>4. Shapes'
  BY <1>1, <1>3 DEF StreamInv, Shapes
<1>5. \A d \in Conns : d # c => Same(d)
  BY <1>1, <1>3 DEF Same
<1>6. s \in ConnRec /\ u \in ConnRec
  BY StreamFacts
<1>7. Down(s).state = "down" /\ Shutdown(u) \in ConnRec /\ Given(Shutdown(u)) = Given(u)
      /\ Shutdown(u).state = Closes(u.state)
  BY <1>6, Calls DEF Closes
<1>8. InputOf(c, Down(s), meta[c], arrived[c], query[c], FALSE, aborted)
  <2> DEFINE listed == c \in MetaList
  <2>1. InputOf(c, s, meta[c], arrived[c], query[c], listed, aborted) /\ listed \in BOOLEAN
        /\ aborted \in BOOLEAN
    BY StreamFacts
  <2> HIDE DEF listed, s
  <2> QED BY <1>7, <2>1 DEF InputOf, Readable
<1>9. ToClient(c, Down(s), tunnel[c], spoken[c], query[c])
  BY StreamFacts, ClientDown
<1>10. ToUpstream(c, upstream'[c], meta[c], query[c])
  <2>1. ToUpstream(c, Shutdown(u), meta[c], query[c])
    BY <1>7, StreamFacts, UpKept
  <2> QED BY <1>3, <2>1, StreamFacts
<1>11. (c \in MetaList') = FALSE
  BY <1>1
<1>12. StreamOf(c)'
  BY <1>1, <1>3, <1>8, <1>9, <1>10, <1>11 DEF StreamOf
<1> QED BY <1>1, <1>4, <1>5, <1>12, OneStream DEF StreamInv, Shapes

\* The function g is f but for the value v at c.
Sets(f, g, c, v) == DOMAIN g = Conns /\ g[c] = v /\ \A d \in Conns : d # c => g[d] = f[d]

\* What EXCEPT and UNCHANGED do.
LEMMA SetsExcept ==
  ASSUME NEW f, DOMAIN f = Conns, NEW c \in Conns
  PROVE  /\ \A v : Sets(f, [f EXCEPT ![c] = v], c, v)
         /\ Sets(f, f, c, f[c])
BY DEF Sets

\* A step that changes nothing but connection c keeps the invariant if c is as it should be.
LEMMA StreamStep ==
  ASSUME StreamInv, NEW c \in Conns, NEW s, NEW u, NEW m, NEW t, NEW a, NEW n, NEW q,
         Sets(server, server', c, s), Sets(upstream, upstream', c, u), Sets(meta, meta', c, m),
         Sets(tunnel, tunnel', c, t), Sets(arrived, arrived', c, a), Sets(spoken, spoken', c, n),
         Sets(query, query', c, q),
         MetaList' \in {MetaList, MetaList \cup {c}}, TunnelList' \subseteq TunnelList \cup {c},
         context' \subseteq context \cup {c}, leftEarly' \subseteq leftEarly \cup {c},
         aborted' \in BOOLEAN, aborted => aborted',
         InputOf(c, s, m, a, q, c \in MetaList', aborted'), ToUpstream(c, u, m, q), ToClient(c, s, t, n, q)
  PROVE  Shapes' /\ \A d \in Conns : StreamOf(d)'
<1>1. Shapes'
  BY DEF StreamInv, Shapes, Sets
<1>2. \A d \in Conns : d # c => Same(d)
  BY DEF Sets, Same
<1>3. StreamOf(c)'
  BY DEF Sets, StreamOf
<1> QED BY <1>1, <1>2, <1>3, OneStream

\* What stays as it is.
LEMMA Stays ==
  ASSUME StreamInv, NEW c \in Conns
  PROVE  /\ \A v : /\ Sets(server, [server EXCEPT ![c] = v], c, v)
                   /\ Sets(upstream, [upstream EXCEPT ![c] = v], c, v)
                   /\ Sets(meta, [meta EXCEPT ![c] = v], c, v)
                   /\ Sets(tunnel, [tunnel EXCEPT ![c] = v], c, v)
                   /\ Sets(arrived, [arrived EXCEPT ![c] = v], c, v)
                   /\ Sets(spoken, [spoken EXCEPT ![c] = v], c, v)
                   /\ Sets(query, [query EXCEPT ![c] = v], c, v)
         /\ Sets(server, server, c, server[c]) /\ Sets(upstream, upstream, c, upstream[c])
         /\ Sets(meta, meta, c, meta[c]) /\ Sets(tunnel, tunnel, c, tunnel[c])
         /\ Sets(arrived, arrived, c, arrived[c]) /\ Sets(spoken, spoken, c, spoken[c])
         /\ Sets(query, query, c, query[c])
<1>1. /\ DOMAIN server = Conns /\ DOMAIN upstream = Conns /\ DOMAIN meta = Conns /\ DOMAIN tunnel = Conns
      /\ DOMAIN arrived = Conns /\ DOMAIN spoken = Conns /\ DOMAIN query = Conns
  BY DEF StreamInv, Shapes, RaceInv, Connections
<1> QED BY <1>1, SetsExcept, Zenon

\* Another buffer of the meta.
LEMMA MetaBuf ==
  ASSUME NEW c \in Conns, NEW m, MetaOK(c, m), NEW b \in Seq(Byte)
  PROVE  /\ MetaOK(c, [m EXCEPT !.buf = b]) /\ [m EXCEPT !.buf = b].decryptor = m.decryptor
         /\ [m EXCEPT !.buf = b].buf = b /\ m.buf \in Seq(Byte)
<1> DEFINE D == [iv : {Iv(c)}, do_encrypt : {FALSE}, pos : (RequestEnd(c) + 1)..Len(Request(c))]
           H == {RequestHost(Request(c), RequestStart(c))}
           P == {RequestPort(Request(c), RequestStart(c))}
<1>1. Asks(c) /\ m \in [decryptor : D, host : H, port : P, buf : Seq(Byte)]
  BY DEF MetaOK
<1> HIDE DEF D, H, P
<1>2. /\ [m EXCEPT !.buf = b] \in [decryptor : D, host : H, port : P, buf : Seq(Byte)]
      /\ [m EXCEPT !.buf = b].decryptor = m.decryptor
      /\ [m EXCEPT !.buf = b].buf = b /\ m.buf \in Seq(Byte)
  BY <1>1
<1> QED BY <1>1, <1>2 DEF MetaOK, D, H, P

\* The upstream is there: what waited for it goes first.
LEMMA StreamClientUp ==
  ASSUME StreamInv, NEW c \in Conns, onClientConnectionUp(c)
  PROVE  Shapes' /\ \A d \in Conns : StreamOf(d)'
<1> DEFINE s == server[c]
           u == upstream[c]
           m == meta[c]
           up == [u EXCEPT !.state = "connected"]
           m2 == [m EXCEPT !.buf = <<>>]
<1>1. PICK n \in Accepts(up, Len(m.buf)) :
             upstream' = [upstream EXCEPT ![c] = Send(up, m.buf, n, UpstreamMark)]
  BY DEF onClientConnectionUp
<1> DEFINE u2 == Send(up, m.buf, n, UpstreamMark)
<1>2. /\ u.state = "connecting" /\ context' = context \cup {c} /\ meta' = [meta EXCEPT ![c].buf = <<>>]
      /\ UNCHANGED <<server, arrived, MetaList, tunnel, TunnelList, spoken, leftEarly, aborted, query>>
  BY DEF onClientConnectionUp, resolverVars
<1>3. s \in ConnRec /\ u \in ConnRec /\ query[c] = "done" /\ MetaOK(c, m)
  BY <1>2, StreamFacts DEF RaceOf
<1>4. up \in ConnRec /\ up.state = "connected" /\ Given(up) = Given(u)
  BY <1>3 DEF ConnRec, ConnStates, Given
<1>5. m.buf \in Seq(Byte) /\ m2.decryptor = m.decryptor /\ m2.buf = <<>> /\ MetaOK(c, m2)
  <2>1. <<>> \in Seq(Byte)
    OBVIOUS
  <2> HIDE DEF m
  <2> QED BY <1>3, <2>1, MetaBuf
<1>6. meta' = [meta EXCEPT ![c] = m2]
  BY <1>2
<1> HIDE DEF up, m2
<1>7. u2 \in ConnRec /\ u2.state = "connected" /\ Given(u2) = Given(u) \o m.buf
  <2>1. /\ u2 \in ConnRec /\ u2.state = up.state
        /\ Given(u2) = IF up.state = "connected" THEN Given(up) \o m.buf ELSE Given(up)
    BY <1>1, <1>4, <1>5, Sends
  <2> QED BY <1>4, <2>1
<1> HIDE DEF u2
<1>8. ToUpstream(c, u2, m2, query[c])
  BY <1>2, <1>3, <1>5, <1>7, StreamFacts, UpSend
<1>9. InputOf(c, s, m2, arrived[c], query[c], c \in MetaList, aborted)
  <2> DEFINE listed == c \in MetaList
  <2>1. InputOf(c, s, m, arrived[c], query[c], listed, aborted) /\ listed \in BOOLEAN
    BY StreamFacts
  <2> HIDE DEF listed, s, m
  <2>2. InputOf(c, s, m2, arrived[c], query[c], listed, aborted)
    BY <1>3, <1>5, <2>1 DEF InputOf, InputOK
  <2> QED BY <2>2 DEF listed
<1>10. Sets(upstream, upstream', c, u2) /\ Sets(meta, meta', c, m2)
  BY <1>1, <1>6, Stays DEF u2
<1>11. /\ Sets(server, server', c, s) /\ Sets(tunnel, tunnel', c, tunnel[c])
       /\ Sets(arrived, arrived', c, arrived[c]) /\ Sets(spoken, spoken', c, spoken[c])
       /\ Sets(query, query', c, query[c])
  BY <1>2, Stays
<1>12. InputOf(c, s, m2, arrived[c], query[c], c \in MetaList', aborted') /\ ToClient(c, s, tunnel[c], spoken[c], query[c])
  BY <1>2, <1>9, StreamFacts
<1>13. aborted' \in BOOLEAN /\ (aborted => aborted')
  BY <1>2, StreamFacts
<1> QED BY <1>2, <1>8, <1>10, <1>11, <1>12, <1>13, StreamStep

\* The client's side when only its connection is shut down.
LEMMA InputStays ==
  ASSUME StreamInv, NEW c \in Conns, NEW s2, s2.in = server[c].in,
         s2.state \in {server[c].state, Closes(server[c].state)}, UNCHANGED <<MetaList, aborted>>
  PROVE  /\ InputOf(c, s2, meta[c], arrived[c], query[c], c \in MetaList', aborted')
         /\ aborted' \in BOOLEAN /\ (aborted => aborted')
<1> DEFINE s == server[c]
           m == meta[c]
           a == arrived[c]
           q == query[c]
           listed == c \in MetaList
<1>1. /\ InputOf(c, s, m, a, q, listed, aborted) /\ listed \in BOOLEAN /\ aborted \in BOOLEAN
      /\ (q # "none" => MetaOK(c, m))
  BY StreamFacts
<1>2. s2.in = s.in /\ s2.state \in {s.state, Closes(s.state)}
  OBVIOUS
<1>3. InputOf(c, s2, m, a, q, listed, aborted)
  <2> HIDE DEF s, m, a, q, listed
  <2> QED BY <1>1, <1>2, InputKept
<1> QED BY <1>1, <1>3

\* Shutting down a connection.
LEMMA ShutDown ==
  ASSUME NEW k \in ConnRec
  PROVE  /\ Shutdown(k) \in ConnRec /\ Given(Shutdown(k)) = Given(k) /\ Shutdown(k).in = k.in
         /\ Shutdown(k).state \in {k.state, Closes(k.state)}
<1>1. /\ Shutdown(k) \in ConnRec /\ Given(Shutdown(k)) = Given(k) /\ Shutdown(k).in = k.in
      /\ Shutdown(k).state = IF k.state = "connected" THEN "disconnecting" ELSE k.state
  BY Calls
<1> QED BY <1>1 DEF Closes

\* The upstream goes, and the client is shut down.
LEMMA StreamClientDown ==
  ASSUME StreamInv, NEW c \in Conns, onClientConnectionDown(c)
  PROVE  Shapes' /\ \A d \in Conns : StreamOf(d)'
<1> DEFINE s == server[c]
           u == upstream[c]
           s2 == Shutdown(s)
           u2 == Down(u)
<1>1. /\ upstream' = [upstream EXCEPT ![c] = u2] /\ context' = context \ {c}
      /\ server' = [server EXCEPT ![c] = s2]
      /\ UNCHANGED <<arrived, meta, MetaList, tunnel, TunnelList, spoken, leftEarly, aborted, query>>
  BY DEF onClientConnectionDown, teardown, resolverVars
<1>2. s2 \in ConnRec /\ Given(s2) = Given(s) /\ s2.in = s.in /\ s2.state \in {s.state, Closes(s.state)}
  BY StreamFacts, ShutDown
<1>3. ToUpstream(c, u2, meta[c], query[c])
  BY StreamFacts, UpDown
<1> HIDE DEF s2, u2
<1>4. ToClient(c, s2, tunnel[c], spoken[c], query[c])
  BY <1>2, StreamFacts, ClientKept
<1>5. /\ InputOf(c, s2, meta[c], arrived[c], query[c], c \in MetaList', aborted')
      /\ aborted' \in BOOLEAN /\ (aborted => aborted')
  BY <1>1, <1>2, InputStays
<1>6. /\ Sets(upstream, upstream', c, u2) /\ Sets(server, server', c, s2)
      /\ Sets(meta, meta', c, meta[c]) /\ Sets(tunnel, tunnel', c, tunnel[c])
      /\ Sets(arrived, arrived', c, arrived[c]) /\ Sets(spoken, spoken', c, spoken[c])
      /\ Sets(query, query', c, query[c])
  BY <1>1, Stays
<1> QED BY <1>1, <1>3, <1>4, <1>5, <1>6, StreamStep

\* A backlog is too long, and the upstream is shut down.
LEMMA StreamHigh ==
  ASSUME StreamInv, NEW c \in Conns, onHighWaterMark(c)
  PROVE  Shapes' /\ \A d \in Conns : StreamOf(d)'
<1> DEFINE s == server[c]
           u == upstream[c]
           s2 == [s EXCEPT !.high = FALSE]
           u2 == [Shutdown(u) EXCEPT !.high = FALSE]
<1>1. /\ upstream' = [upstream EXCEPT ![c] = u2] /\ server' = [server EXCEPT ![c] = s2]
      /\ UNCHANGED <<arrived, meta, MetaList, tunnel, TunnelList, context, spoken, leftEarly, aborted,
                     query>>
  BY DEF onHighWaterMark, resolverVars
<1>2. s \in ConnRec /\ u \in ConnRec
  BY StreamFacts
<1>3. s2 \in ConnRec /\ Given(s2) = Given(s) /\ s2.in = s.in /\ s2.state = s.state
  BY <1>2 DEF ConnRec, Given
<1>4. u2 \in ConnRec /\ Given(u2) = Given(u) /\ u2.state \in {u.state, Closes(u.state)}
  <2> DEFINE k == Shutdown(u)
  <2>1. k \in ConnRec /\ Given(k) = Given(u) /\ k.state \in {u.state, Closes(u.state)}
    BY <1>2, ShutDown
  <2> HIDE DEF k
  <2>2. [k EXCEPT !.high = FALSE] \in ConnRec /\ Given([k EXCEPT !.high = FALSE]) = Given(k)
        /\ [k EXCEPT !.high = FALSE].state = k.state
    BY <2>1 DEF ConnRec, Given
  <2> QED BY <2>1, <2>2 DEF k
<1> HIDE DEF s2, u2
<1>5. ToUpstream(c, u2, meta[c], query[c])
  BY <1>4, StreamFacts, UpKept
<1>6. ToClient(c, s2, tunnel[c], spoken[c], query[c])
  BY <1>3, StreamFacts, ClientKept
<1>7. /\ InputOf(c, s2, meta[c], arrived[c], query[c], c \in MetaList', aborted')
      /\ aborted' \in BOOLEAN /\ (aborted => aborted')
  BY <1>1, <1>3, InputStays
<1>8. /\ Sets(upstream, upstream', c, u2) /\ Sets(server, server', c, s2)
      /\ Sets(meta, meta', c, meta[c]) /\ Sets(tunnel, tunnel', c, tunnel[c])
      /\ Sets(arrived, arrived', c, arrived[c]) /\ Sets(spoken, spoken', c, spoken[c])
      /\ Sets(query, query', c, query[c])
  BY <1>1, Stays DEF s2, u2
<1> QED BY <1>1, <1>5, <1>6, <1>7, <1>8, StreamStep

\* A socket takes its backlog.
LEMMA StreamWrite ==
  ASSUME StreamInv, NEW c \in Conns, handleWrite(c)
  PROVE  Shapes' /\ \A d \in Conns : StreamOf(d)'
<1> DEFINE s == server[c]
           u == upstream[c]
<1>1. /\ \/ server' = [server EXCEPT ![c] = Drain(s)] /\ upstream' = upstream
         \/ upstream' = [upstream EXCEPT ![c] = Drain(u)] /\ server' = server
      /\ UNCHANGED <<arrived, meta, MetaList, tunnel, TunnelList, context, spoken, leftEarly, aborted,
                     query>>
  BY DEF handleWrite, resolverVars
<1>2. PICK s2, u2 : /\ s2 \in {s, Drain(s)} /\ u2 \in {u, Drain(u)}
                    /\ Sets(server, server', c, s2) /\ Sets(upstream, upstream', c, u2)
  <2>1. Sets(server, server', c, s) \/ Sets(server, server', c, Drain(s))
    BY <1>1, Stays
  <2>2. Sets(upstream, upstream', c, u) \/ Sets(upstream, upstream', c, Drain(u))
    BY <1>1, Stays
  <2> QED BY <2>1, <2>2, Zenon
<1>3. s \in ConnRec /\ u \in ConnRec
  BY StreamFacts
<1>4. \A k \in ConnRec : /\ Drain(k) \in ConnRec /\ Given(Drain(k)) = Given(k) /\ Drain(k).in = k.in
                         /\ Drain(k).state = k.state
  BY Calls
<1>5. s2 \in ConnRec /\ Given(s2) = Given(s) /\ s2.in = s.in /\ s2.state = s.state
  BY <1>2, <1>3, <1>4
<1>6. u2 \in ConnRec /\ Given(u2) = Given(u) /\ u2.state = u.state
  BY <1>2, <1>3, <1>4
<1>7. ToUpstream(c, u2, meta[c], query[c])
  BY <1>6, StreamFacts, UpKept
<1>8. ToClient(c, s2, tunnel[c], spoken[c], query[c])
  BY <1>5, StreamFacts, ClientKept
<1>9. /\ InputOf(c, s2, meta[c], arrived[c], query[c], c \in MetaList', aborted')
      /\ aborted' \in BOOLEAN /\ (aborted => aborted')
  BY <1>1, <1>5, InputStays
<1>10. /\ Sets(meta, meta', c, meta[c]) /\ Sets(tunnel, tunnel', c, tunnel[c])
       /\ Sets(arrived, arrived', c, arrived[c]) /\ Sets(spoken, spoken', c, spoken[c])
       /\ Sets(query, query', c, query[c])
  BY <1>1, Stays
<1> QED BY <1>1, <1>2, <1>7, <1>8, <1>9, <1>10, StreamStep

\* The upstream says n bytes: they are encrypted and sent, or the cipher fails.
LEMMA StreamClientMessage ==
  ASSUME StreamInv, NEW c \in Conns, NEW k \in 1..Len(Response(c)), onClientMessage(c, k)
  PROVE  Shapes' /\ \A d \in Conns : StreamOf(d)'
<1> DEFINE s == server[c]
           t == tunnel[c]
           n == spoken[c]
           data == DataOf(c, t, n, k)
           said == Said(c, n, k)
<1>1. /\ Readable(upstream[c]) /\ k \in 1..(Len(Response(c)) - n)
      /\ spoken' = [spoken EXCEPT ![c] = n + k]
      /\ UNCHANGED <<arrived, meta, MetaList, TunnelList, upstream, leftEarly, aborted, query>>
  BY DEF onClientMessage, resolverVars
<1>2. \/ /\ \E i \in Accepts(s, Len(data)) : server' = [server EXCEPT ![c] = Send(@, data, i, ServerMark)]
         /\ tunnel' = [tunnel EXCEPT ![c].sent_iv = TRUE, ![c].encryptor = Advance(@, said),
                                     ![c].data_buf = Unsent(s, data)]
         /\ context' = context
      \/ /\ tunnel' = [tunnel EXCEPT ![c].sent_iv = TRUE, ![c].data_buf = HeadOf(t)]
         /\ teardown(c)
  BY Zenon DEF onClientMessage, DataOf, Said, HeadOf
<1>3. query[c] = "done" /\ ToClient(c, s, t, n, "done") /\ s \in ConnRec
  BY <1>1, StreamFacts DEF RaceOf, Readable
<1>4. n \in 0..Len(Response(c)) /\ TunnelOK(c, t, n)
  BY <1>3 DEF ToClient
<1>5. data \in Seq(Byte)
  BY <1>1, <1>4, DataBytes
<1> HIDE DEF data, said
<1>6. ASSUME NEW s2, NEW t2, s2 \in ConnRec, s2.in = s.in, s2.state \in {s.state, Closes(s.state)},
             Sets(server, server', c, s2), Sets(tunnel, tunnel', c, t2), context' \subseteq context \cup {c},
             ToClient(c, s2, t2, n + k, "done")
      PROVE  Shapes' /\ \A d \in Conns : StreamOf(d)'
  <2>1. /\ InputOf(c, s2, meta[c], arrived[c], query[c], c \in MetaList', aborted')
        /\ aborted' \in BOOLEAN /\ (aborted => aborted')
    BY <1>1, <1>6, InputStays
  <2>2. /\ Sets(upstream, upstream', c, upstream[c]) /\ Sets(meta, meta', c, meta[c])
        /\ Sets(arrived, arrived', c, arrived[c]) /\ Sets(spoken, spoken', c, n + k)
        /\ Sets(query, query', c, query[c])
    BY <1>1, Stays
  <2>3. /\ MetaList' \in {MetaList, MetaList \cup {c}} /\ TunnelList' \subseteq TunnelList \cup {c}
        /\ leftEarly' \subseteq leftEarly \cup {c} /\ query[c] = "done"
    BY <1>1, <1>3
  <2>4. ToUpstream(c, upstream[c], meta[c], query[c])
    BY StreamFacts
  <2> DEFINE n2 == n + k
  <2>5. Sets(spoken, spoken', c, n2) /\ ToClient(c, s2, t2, n2, query[c])
    BY <1>6, <2>2, <2>3
  <2> HIDE DEF n, n2
  <2> QED BY <1>6, <2>1, <2>2, <2>3, <2>4, <2>5, StreamStep
<1>7. ASSUME NEW i \in Accepts(s, Len(data)), server' = [server EXCEPT ![c] = Send(@, data, i, ServerMark)],
             tunnel' = [tunnel EXCEPT ![c].sent_iv = TRUE, ![c].encryptor = Advance(@, said),
                                      ![c].data_buf = Unsent(s, data)],
             context' = context
      PROVE  Shapes' /\ \A d \in Conns : StreamOf(d)'
  <2> DEFINE s2 == Send(s, data, i, ServerMark)
             t2 == [t EXCEPT !.sent_iv = TRUE, !.encryptor = Advance(@, said), !.data_buf = Unsent(s, data)]
  <2>1. server' = [server EXCEPT ![c] = s2] /\ tunnel' = [tunnel EXCEPT ![c] = t2]
    BY <1>7
  <2>2. Sets(server, server', c, s2) /\ Sets(tunnel, tunnel', c, t2)
    BY <2>1, Stays
  <2>3. s2 \in ConnRec /\ s2.in = s.in /\ s2.state = s.state
        /\ Given(s2) = IF s.state = "connected" THEN Given(s) \o data ELSE Given(s)
    <3> HIDE DEF s
    <3>1. i \in Accepts(s, Len(data))
      OBVIOUS
    <3> QED BY <1>3, <1>5, <3>1, Sends
  <2>4. t2 = [t EXCEPT !.sent_iv = TRUE, !.encryptor = Advance(@, Said(c, n, k)),
                       !.data_buf = Unsent(s, DataOf(c, t, n, k))]
    BY DEF data, said
  <2>5. Given(s2) = IF s.state = "connected" THEN Given(s) \o DataOf(c, t, n, k) ELSE Given(s)
    BY <2>3 DEF data
  <2> HIDE DEF s2, t2
  <2>6. ToClient(c, s2, t2, n + k, "done")
    BY <1>1, <1>3, <2>3, <2>4, <2>5, ClientSaid
  <2> QED BY <1>6, <1>7, <2>2, <2>3, <2>6
<1>8. ASSUME tunnel' = [tunnel EXCEPT ![c].sent_iv = TRUE, ![c].data_buf = HeadOf(t)], teardown(c)
      PROVE  Shapes' /\ \A d \in Conns : StreamOf(d)'
  <2> DEFINE s2 == Shutdown(s)
             t2 == [t EXCEPT !.sent_iv = TRUE, !.data_buf = HeadOf(t)]
  <2>1. server' = [server EXCEPT ![c] = s2] /\ tunnel' = [tunnel EXCEPT ![c] = t2] /\ context' = context \ {c}
    BY <1>8 DEF teardown
  <2>2. Sets(server, server', c, s2) /\ Sets(tunnel, tunnel', c, t2)
    BY <2>1, Stays
  <2>3. s2 \in ConnRec /\ s2.in = s.in /\ s2.state \in {s.state, Closes(s.state)}
    BY <1>3, ShutDown
  <2>4. ToClient(c, s2, t2, n + k, "done")
    BY <1>1, <1>3, ClientFails
  <2> HIDE DEF s2, t2
  <2> QED BY <1>6, <2>1, <2>2, <2>3, <2>4
<1> QED BY <1>2, <1>7, <1>8

\* A connection whose input is retrieved, or kept.
LEMMA OtherInput ==
  ASSUME NEW k \in ConnRec, NEW x \in Seq(Byte)
  PROVE  /\ [k EXCEPT !.in = x] \in ConnRec /\ Given([k EXCEPT !.in = x]) = Given(k)
         /\ [k EXCEPT !.in = x].in = x /\ [k EXCEPT !.in = x].state = k.state
BY DEF ConnRec, Given

\* The fields of a meta.
LEMMA MetaFields ==
  ASSUME NEW m, NEW e, NEW h, NEW p, NEW b, m = [decryptor |-> e, host |-> h, port |-> p, buf |-> b]
  PROVE  /\ m.decryptor = e /\ m.host = h /\ m.port = p /\ m.buf = b
         /\ m = [decryptor |-> m.decryptor, host |-> m.host, port |-> m.port, buf |-> m.buf]
OBVIOUS

\* What waits is sent if the upstream is there, and waits on if it is not.
LEMMA LaterSent ==
  ASSUME NEW c \in Conns, NEW u \in ConnRec, NEW m, NEW q, ToUpstream(c, u, m, q), q # "none",
         m.buf \in Seq(Byte), NEW n \in Accepts(u, Len(m.buf)),
         NEW m2, m2.decryptor = m.decryptor, m2.buf = Unsent(u, m.buf)
  PROVE  ToUpstream(c, Send(u, m.buf, n, UpstreamMark), m2, q) /\ m2.buf \in Seq(Byte)
<1> DEFINE u2 == Send(u, m.buf, n, UpstreamMark)
<1>1. CASE u.state = "connected"
  <2>1. u2 \in ConnRec /\ u2.state = u.state
        /\ Given(u2) = IF u.state = "connected" THEN Given(u) \o m.buf ELSE Given(u)
    BY Sends
  <2>2. m2.buf = <<>> /\ <<>> \in Seq(Byte)
    BY <1>1 DEF Unsent
  <2> HIDE DEF u2
  <2>3. Given(u2) = Given(u) \o m.buf /\ u2.state = "connected"
    BY <1>1, <2>1
  <2>4. ToUpstream(c, u2, m2, q)
    BY <1>1, <2>1, <2>2, <2>3, UpSend
  <2> QED BY <2>2, <2>4 DEF u2
<1>2. CASE u.state # "connected"
  <2>1. u2 = u /\ m2.buf = m.buf
    BY <1>2 DEF Send, Unsent
  <2>2. ToUpstream(c, u, m2, q)
    BY <2>1 DEF ToUpstream
  <2> QED BY <2>1, <2>2
<1> QED BY <1>1, <1>2

\* What a read finds.
LEMMA StreamReads ==
  ASSUME StreamInv, ~aborted, NEW c \in Conns, NEW n \in ReadSizes(c), onServerMessage(c, n), NEW in,
         in = server[c].in \o SubSeq(Stream(c), arrived[c] + 1, arrived[c] + n)
  PROVE  /\ server[c].state \in {"connected", "disconnecting"}
         /\ arrived[c] + n \in 0..Len(Stream(c)) /\ in \in Seq(Byte)
         /\ c \in MetaList => IsPiece(in, Stream(c), IvLen + meta[c].decryptor.pos, arrived[c] + n)
         /\ c \notin MetaList => IsPiece(in, Stream(c), 0, arrived[c] + n)
<1> DEFINE s == server[c]
           a == arrived[c]
           m == meta[c]
<1>1. Readable(s) /\ a + n <= Len(Stream(c)) /\ n \in Nat
  BY StreamAssumption DEF onServerMessage
<1>2. /\ c \in MetaList => IsPiece(s.in, Stream(c), IvLen + m.decryptor.pos, a)
      /\ c \notin MetaList => IsPiece(s.in, Stream(c), 0, a)
  BY <1>1, StreamFacts DEF InputOf, InputOK
<1>3. s.state \in {"connected", "disconnecting"}
  BY <1>1 DEF Readable
<1> HIDE DEF s, a, m
<1>4. in = s.in \o SubSeq(Stream(c), a + 1, a + n)
  BY DEF s, a
<1>5. /\ c \in MetaList => IsPiece(in, Stream(c), IvLen + m.decryptor.pos, a + n)
      /\ c \notin MetaList => IsPiece(in, Stream(c), 0, a + n)
      /\ a + n \in 0..Len(Stream(c))
  BY <1>1, <1>2, <1>4, ReadsOn
<1>6. in \in Seq(Byte)
  BY <1>5 DEF IsPiece
<1> QED BY <1>3, <1>5, <1>6 DEF s, a, m

\* A connection with meta reads on.
LEMMA StreamLater ==
  ASSUME StreamInv, ~aborted, NEW c \in Conns, NEW n \in ReadSizes(c), onServerMessage(c, n), c \in MetaList
  PROVE  Shapes' /\ \A d \in Conns : StreamOf(d)'
<1> DEFINE s == server[c]
           u == upstream[c]
           m == meta[c]
           q == query[c]
           a == arrived[c] + n
           in == s.in \o SubSeq(Stream(c), arrived[c] + 1, arrived[c] + n)
           x == Crypt(m.decryptor, in)
           buf == m.buf \o x
           later == [m EXCEPT !.decryptor = Advance(@, in)]
           Goes == \E k \in Accepts(u, Len(buf)) :
                     /\ upstream' = [upstream EXCEPT ![c] = Send(@, buf, k, UpstreamMark)]
                     /\ meta' = [meta EXCEPT ![c] = [later EXCEPT !.buf = Unsent(u, buf)]]
           Waits == meta' = [meta EXCEPT ![c] = [later EXCEPT !.buf = buf]] /\ upstream' = upstream
<1>1. /\ arrived' = [arrived EXCEPT ![c] = a] /\ LaterMessage(c, in)
      /\ UNCHANGED <<MetaList, tunnel, TunnelList, aborted, query, context, spoken, leftEarly>>
  BY DEF onServerMessage, resolverVars
<1>2. \/ server' = [server EXCEPT ![c].in = <<>>] /\ (Goes \/ Waits)
      \/ server' = [server EXCEPT ![c] = [Shutdown(@) EXCEPT !.in = in]] /\ UNCHANGED <<meta, upstream>>
  BY <1>1, Zenon DEF LaterMessage
<1>3. /\ s.state \in {"connected", "disconnecting"} /\ a \in 0..Len(Stream(c)) /\ in \in Seq(Byte)
      /\ IsPiece(in, Stream(c), IvLen + m.decryptor.pos, a)
  BY StreamReads
<1>4. /\ s \in ConnRec /\ u \in ConnRec /\ q \in {"pending", "done"} /\ MetaOK(c, m)
      /\ ToUpstream(c, u, m, q) /\ ToClient(c, s, tunnel[c], spoken[c], q)
  BY StreamFacts
<1>5. /\ Sets(tunnel, tunnel', c, tunnel[c]) /\ Sets(arrived, arrived', c, a)
      /\ Sets(spoken, spoken', c, spoken[c]) /\ Sets(query, query', c, q)
      /\ aborted' = FALSE /\ (c \in MetaList') = TRUE
  BY <1>1, Stays, StreamFacts
<1> HIDE DEF in, a, q
<1>6. ASSUME NEW s2, NEW u2, NEW m2, Sets(server, server', c, s2), Sets(upstream, upstream', c, u2),
             Sets(meta, meta', c, m2), s2 \in ConnRec, Given(s2) = Given(s), s2.state \in {s.state, Closes(s.state)},
             InputOf(c, s2, m2, a, q, TRUE, FALSE), ToUpstream(c, u2, m2, q)
      PROVE  Shapes' /\ \A d \in Conns : StreamOf(d)'
  <2>1. ToClient(c, s2, tunnel[c], spoken[c], q)
    BY <1>4, <1>6, ClientKept
  <2>2. InputOf(c, s2, m2, a, q, c \in MetaList', aborted') /\ aborted' \in BOOLEAN /\ (aborted => aborted')
    BY <1>5, <1>6
  <2> QED BY <1>1, <1>5, <1>6, <2>1, <2>2, StreamStep
<1>7. /\ IsPiece(x, Request(c), m.decryptor.pos, a - IvLen) /\ Advance(m.decryptor, in) = Decryptor(c, a - IvLen)
      /\ a - IvLen > RequestEnd(c) /\ a > IvLen
  BY <1>3, <1>4, LaterBytes
<1> DEFINE e == Decryptor(c, a - IvLen)
           l(b) == [[m EXCEPT !.decryptor = e] EXCEPT !.buf = b]
           s2 == [s EXCEPT !.in = <<>>]
<1>8. later = [m EXCEPT !.decryptor = e]
  BY <1>7
<1>9. e.pos = a - IvLen
  BY DEF Decryptor
<1>10. s2 \in ConnRec /\ Given(s2) = Given(s) /\ s2.in = <<>> /\ s2.state = s.state
  <2>1. <<>> \in Seq(Byte)
    OBVIOUS
  <2> QED BY <1>4, <2>1, OtherInput
<1>11. x \in Seq(Byte) /\ m.buf \in Seq(Byte) /\ buf \in Seq(Byte) /\ Asks(c)
  <2>1. x \in Seq(Byte)
    BY <1>7 DEF IsPiece
  <2>2. m.buf \in Seq(Byte) /\ Asks(c)
    BY <1>4 DEF MetaOK
  <2> HIDE DEF x, m
  <2> QED BY <2>1, <2>2
<1> HIDE DEF x, e
<1>12. ASSUME NEW b \in Seq(Byte)
       PROVE  /\ InputOf(c, s2, l(b), a, q, TRUE, FALSE)
              /\ l(b).decryptor = e /\ l(b).buf = b
  <2> DEFINE m2 == l(b)
  <2>1. /\ m2.decryptor = e /\ m2.buf = b
        /\ m2.host = RequestHost(Request(c), RequestStart(c))
        /\ m2.port = RequestPort(Request(c), RequestStart(c))
        /\ m2 = [decryptor |-> m2.decryptor, host |-> m2.host, port |-> m2.port, buf |-> m2.buf]
    <3>1. m2 = [decryptor |-> e, host |-> RequestHost(Request(c), RequestStart(c)),
                port |-> RequestPort(Request(c), RequestStart(c)), buf |-> b]
      <4> DEFINE h == RequestHost(Request(c), RequestStart(c))
                 p == RequestPort(Request(c), RequestStart(c))
                 D == [iv : {Iv(c)}, do_encrypt : {FALSE},
                       pos : (RequestEnd(c) + 1)..Len(Request(c))]
      <4>1. m \in [decryptor : D, host : {h}, port : {p}, buf : Seq(Byte)]
        BY <1>4 DEF MetaOK
      <4> HIDE DEF h, p, m, D
      <4>2. m2 = [decryptor |-> e, host |-> h, port |-> p, buf |-> b]
        <5> SUFFICES ASSUME NEW r, r = [[m EXCEPT !.decryptor = e] EXCEPT !.buf = b]
                     PROVE  r = [decryptor |-> e, host |-> h, port |-> p, buf |-> b]
          BY Zenon
        <5> QED BY <4>1
      <4> QED BY <4>2 DEF h, p
    <3> HIDE DEF m2
    <3> QED BY <3>1, MetaFields
  <2> HIDE DEF m2, s2
  <2>2. m2.decryptor = Decryptor(c, a - IvLen) /\ s2.state # "idle" /\ m2.buf \in Seq(Byte)
    BY <1>3, <1>10, <2>1 DEF e
  <2>3. InputOf(c, s2, m2, a, q, TRUE, FALSE)
    BY <1>3, <1>4, <1>7, <1>10, <1>11, <2>1, <2>2, InputAsks
  <2> QED BY <2>1, <2>3 DEF m2, s2
<1>13. ToUpstream(c, u, l(buf), q)
  <2> DEFINE m2 == l(buf)
  <2>1. m2.decryptor = e /\ m2.buf = m.buf \o x
    BY <1>11, <1>12
  <2>2. m2.decryptor.pos = a - IvLen
    BY <1>9, <2>1
  <2> HIDE DEF m2, m, u
  <2> QED BY <1>4, <1>7, <1>11, <2>1, <2>2, UpMore DEF m2
<1> HIDE DEF buf
<1>14. CASE server' = [server EXCEPT ![c].in = <<>>] /\ Waits
  <2>1. Sets(server, server', c, s2) /\ Sets(upstream, upstream', c, u) /\ Sets(meta, meta', c, l(buf))
    BY <1>8, <1>14, Stays
  <2>2. InputOf(c, s2, l(buf), a, q, TRUE, FALSE)
    BY <1>11, <1>12
  <2> HIDE DEF l, s2, u
  <2> QED BY <1>6, <1>10, <1>13, <2>1, <2>2
<1>15. CASE server' = [server EXCEPT ![c].in = <<>>] /\ Goes
  <2>1. PICK k \in Accepts(u, Len(buf)) :
               /\ upstream' = [upstream EXCEPT ![c] = Send(@, buf, k, UpstreamMark)]
               /\ meta' = [meta EXCEPT ![c] = [later EXCEPT !.buf = Unsent(u, buf)]]
    BY <1>15
  <2> DEFINE b == Unsent(u, buf)
             u2 == Send(u, buf, k, UpstreamMark)
  <2>2. Sets(server, server', c, s2) /\ Sets(upstream, upstream', c, u2) /\ Sets(meta, meta', c, l(b))
    BY <1>8, <1>15, <2>1, Stays
  <2>3. b \in Seq(Byte)
    BY <1>11 DEF Unsent
  <2>4. l(buf).decryptor = e /\ l(buf).buf = buf /\ l(b).decryptor = e /\ l(b).buf = b
    BY <1>11, <1>12, <2>3
  <2>5. InputOf(c, s2, l(b), a, q, TRUE, FALSE)
    BY <1>12, <2>3
  <2> DEFINE m1 == l(buf)
             m2 == l(b)
  <2>6. /\ m1.decryptor = e /\ m1.buf = buf /\ m2.decryptor = e /\ m2.buf = Unsent(u, buf)
        /\ ToUpstream(c, u, m1, q)
    BY <1>13, <2>4
  <2> HIDE DEF l, s2, m1, m2, u
  <2>7. /\ ToUpstream(c, u, m1, q) /\ q # "none" /\ m1.buf \in Seq(Byte) /\ k \in Accepts(u, Len(m1.buf))
        /\ m2.decryptor = m1.decryptor /\ m2.buf = Unsent(u, m1.buf) /\ u \in ConnRec
    BY <1>4, <1>11, <2>1, <2>6
  <2>8. ToUpstream(c, Send(u, m1.buf, k, UpstreamMark), m2, q)
    BY <2>7, LaterSent
  <2>9. ToUpstream(c, u2, l(b), q)
    BY <2>6, <2>8 DEF m2
  <2> HIDE DEF u2, b
  <2> QED BY <1>6, <1>10, <2>2, <2>5, <2>9
<1>16. CASE server' = [server EXCEPT ![c] = [Shutdown(@) EXCEPT !.in = in]] /\ UNCHANGED <<meta, upstream>>
  <2> DEFINE k == Shutdown(s)
             k2 == [k EXCEPT !.in = in]
  <2>1. Sets(server, server', c, k2) /\ Sets(upstream, upstream', c, u) /\ Sets(meta, meta', c, m)
    BY <1>16, Stays
  <2>2. /\ k \in ConnRec /\ Given(k) = Given(s)
        /\ k.state = IF s.state = "connected" THEN "disconnecting" ELSE s.state
    BY <1>4, Calls
  <2>3. k.state = "disconnecting" /\ k.state \in {s.state, Closes(s.state)}
    BY <1>3, <2>2 DEF Closes
  <2> HIDE DEF k
  <2>4. k2 \in ConnRec /\ Given(k2) = Given(k) /\ k2.in = in /\ k2.state = k.state
    BY <1>3, <2>2, OtherInput
  <2> HIDE DEF k2, m, u
  <2>5. InputOf(c, k2, m, a, q, TRUE, FALSE)
    BY <1>3, <1>4, <2>3, <2>4, LaterShut
  <2> QED BY <1>4, <1>6, <2>1, <2>2, <2>3, <2>4, <2>5
<1> QED BY <1>2, <1>14, <1>15, <1>16

\* An upstream that was given nothing, and the payload that came with the request.
LEMMA UpAsks ==
  ASSUME NEW c \in Conns, NEW u \in ConnRec, Given(u) = <<>>, NEW m, NEW r, m.decryptor.pos = r,
         IsPiece(m.buf, Request(c), RequestEnd(c), r), NEW q
  PROVE  ToUpstream(c, u, m, q)
<1> DEFINE l == Len(Request(c))
           b == RequestEnd(c)
<1>1. b \in 0..l /\ l \in Nat
  BY PayloadPiece
<1>2. IsPiece(<<>>, Request(c), b, b)
  BY <1>1, PieceEmpty
<1>3. m.buf \in Seq(Byte)
  BY DEF IsPiece
<1>4. Given(u) \o m.buf = m.buf
  <2> DEFINE x == m.buf
  <2>1. x \in Seq(Byte) /\ <<>> \in Seq(Byte)
    BY <1>3
  <2> HIDE DEF x
  <2>2. <<>> \o x = x
    BY <2>1, InARow
  <2> QED BY <2>2 DEF x
<1> HIDE DEF l, b
<1> QED BY <1>1, <1>2, <1>4 DEF ToUpstream, l, b

\* A connection that is being made.
LEMMA NewConnection ==
  /\ NewConn("connecting") \in ConnRec /\ Given(NewConn("connecting")) = <<>>
  /\ NewConn("connecting").state = "connecting"
  /\ NewConn("idle") \in ConnRec /\ Given(NewConn("idle")) = <<>>
  /\ NewConn("idle").state = "idle" /\ NewConn("idle").in = <<>>
<1>1. <<>> \in Seq(Byte) /\ <<>> \o <<>> = <<>>
  OBVIOUS
<1> QED BY <1>1 DEF NewConn, ConnRec, ConnStates, Given

\* The tunnel opens a connection to its upstream.
LEMMA UpConnects ==
  ASSUME NEW c \in Conns, NEW u, NEW m, NEW q, ToUpstream(c, u, m, q), q # "none", u.state = "idle"
  PROVE  ToUpstream(c, NewConn("connecting"), m, "done")
<1> DEFINE k == NewConn("connecting")
<1>1. k \in ConnRec /\ Given(k) = <<>> /\ k.state = "connecting"
  BY NewConnection
<1>2. /\ Given(u) = <<>> /\ IsPiece(Given(u) \o m.buf, Request(c), RequestEnd(c), m.decryptor.pos)
      /\ \E j \in 0..Len(Request(c)) : IsPiece(Given(u), Request(c), RequestEnd(c), j)
  BY DEF ToUpstream
<1>3. Given(k) = Given(u)
  BY <1>1, <1>2
<1> HIDE DEF k
<1>4. ToUpstream(c, k, m, "done")
  BY <1>1, <1>2, <1>3 DEF ToUpstream
<1> QED BY <1>4 DEF k

\* The read that ends exactly behind the vector ends the process.
LEMMA InputAborts ==
  ASSUME NEW c \in Conns, NEW a \in 0..Len(Stream(c)), NEW s, s.state # "idle"
  PROVE  InputOf(c, s, None, a, "none", FALSE, TRUE)
BY DEF InputOf

\* The first reads find a request or do not.
LEMMA FirstRequest ==
  ASSUME NEW c \in Conns, NEW in, NEW a, IsPiece(in, Stream(c), 0, a),
         NEW e, e = NewEncryptor(SubSeq(in, 1, IvLen), FALSE),
         NEW x, x = SubSeq(in, IvLen + 1, Len(in)), NEW p, p = ParseRequest(Crypt(e, x))
  PROVE  /\ Len(in) < IvLen => ~(Asks(c) /\ a - IvLen > RequestEnd(c))
         /\ Len(in) > IvLen /\ p.result = "false" => ~(Asks(c) /\ a - IvLen > RequestEnd(c))
         /\ Len(in) > IvLen /\ p.result = "true" =>
              /\ Asks(c) /\ a - IvLen > RequestEnd(c) /\ a > IvLen
              /\ Advance(e, x) = Decryptor(c, a - IvLen)
              /\ p.host = RequestHost(Request(c), RequestStart(c))
              /\ p.port = RequestPort(Request(c), RequestStart(c))
              /\ IsPiece(p.buf, Request(c), RequestEnd(c), a - IvLen)
<1>1. ASSUME Len(in) < IvLen PROVE ~(Asks(c) /\ a - IvLen > RequestEnd(c))
  <2>1. a \in Nat /\ Len(in) = a - 0
    BY WireFacts DEF IsPiece
  <2>2. RequestEnd(c) \in Nat /\ IvLen \in Nat
    BY PayloadPiece, Streams
  <2> QED BY <1>1, <2>1, <2>2
<1>2. ASSUME Len(in) > IvLen
      PROVE  /\ a > IvLen /\ IsPiece(Crypt(e, x), Request(c), 0, a - IvLen)
             /\ Advance(e, x) = Decryptor(c, a - IvLen)
  BY <1>2, FirstBytes
<1> DEFINE b == Crypt(e, x)
           k == a - IvLen
<1>3. ASSUME Len(in) > IvLen
      PROVE  /\ p.result \in {"true", "false"}
             /\ p.result = "true" <=> Asks(c) /\ k > RequestEnd(c)
             /\ p.result = "true" => /\ p.host = RequestHost(Request(c), RequestStart(c))
                                     /\ p.port = RequestPort(Request(c), RequestStart(c))
                                     /\ IsPiece(p.buf, Request(c), RequestEnd(c), k)
  <2>1. IsPiece(b, Request(c), 0, k) /\ p = ParseRequest(b)
    BY <1>2, <1>3
  <2> HIDE DEF b, k
  <2> QED BY <2>1, FirstParse
<1> QED BY <1>1, <1>2, <1>3

\* A connection without meta reads its first bytes.
LEMMA StreamFirst ==
  ASSUME StreamInv, ~aborted, NEW c \in Conns, NEW n \in ReadSizes(c), onServerMessage(c, n), c \notin MetaList
  PROVE  Shapes' /\ \A d \in Conns : StreamOf(d)'
<1> DEFINE s == server[c]
           u == upstream[c]
           a == arrived[c] + n
           in == s.in \o SubSeq(Stream(c), arrived[c] + 1, arrived[c] + n)
           e == NewEncryptor(SubSeq(in, 1, IvLen), FALSE)
           x == SubSeq(in, IvLen + 1, Len(in))
           p == ParseRequest(Crypt(e, x))
           m2 == [decryptor |-> Advance(e, x), host |-> p.host, port |-> p.port, buf |-> p.buf]
           NotYet == UNCHANGED <<meta, MetaList, tunnel, TunnelList, upstream, resolverVars>>
           Waits == /\ Len(in) < IvLen \/ (Len(in) > IvLen /\ p.result = "false")
                    /\ server' = [server EXCEPT ![c].in = in]
                    /\ NotYet /\ aborted' = aborted
           Aborts == aborted' = TRUE /\ NotYet /\ server' = server
           Shuts == /\ server' = [server EXCEPT ![c] = [Shutdown(@) EXCEPT !.in = in]]
                    /\ NotYet /\ aborted' = aborted
           Asked == /\ Len(in) > IvLen /\ p.result = "true"
                    /\ meta' = [meta EXCEPT ![c] = m2]
                    /\ MetaList' = MetaList \cup {c}
                    /\ server' = [server EXCEPT ![c].in = <<>>]
                    /\ aborted' = aborted
           Later == resolve(c, FALSE) /\ UNCHANGED <<tunnel, TunnelList, upstream>>
           AtOnce == resolve(c, TRUE) /\ \E v \in Addresses : resolveCallback({c}, [y \in {c} |-> v])
<1>1. /\ arrived' = [arrived EXCEPT ![c] = a] /\ FirstMessage(c, in)
      /\ UNCHANGED <<context, spoken, leftEarly>>
  BY DEF onServerMessage
<1>2. Waits \/ Aborts \/ Shuts \/ (Asked /\ (Later \/ AtOnce))
  BY <1>1, Zenon DEF FirstMessage
<1>3. /\ s.state \in {"connected", "disconnecting"} /\ a \in 0..Len(Stream(c)) /\ in \in Seq(Byte)
      /\ IsPiece(in, Stream(c), 0, a)
  BY StreamReads
<1>4. s \in ConnRec /\ u \in ConnRec /\ query[c] = "none" /\ u.state = "idle" /\ meta[c] = None
  BY <1>3, StreamFacts DEF RaceOf, Readable
<1>5. ToUpstream(c, u, None, "none") /\ ToClient(c, s, tunnel[c], spoken[c], "none") /\ Given(u) = <<>>
  <2>1. ToUpstream(c, u, None, "none") /\ ToClient(c, s, tunnel[c], spoken[c], "none")
    BY <1>4, StreamFacts
  <2> QED BY <1>4, <2>1 DEF ToUpstream
<1>6. /\ Sets(arrived, arrived', c, a) /\ Sets(spoken, spoken', c, spoken[c])
  BY <1>1, Stays
<1>7. /\ Len(in) < IvLen => ~(Asks(c) /\ a - IvLen > RequestEnd(c))
      /\ Len(in) > IvLen /\ p.result = "false" => ~(Asks(c) /\ a - IvLen > RequestEnd(c))
      /\ Len(in) > IvLen /\ p.result = "true" =>
           /\ Asks(c) /\ a - IvLen > RequestEnd(c) /\ a > IvLen
           /\ Advance(e, x) = Decryptor(c, a - IvLen)
           /\ p.host = RequestHost(Request(c), RequestStart(c))
           /\ p.port = RequestPort(Request(c), RequestStart(c))
           /\ IsPiece(p.buf, Request(c), RequestEnd(c), a - IvLen)
  <2> HIDE DEF in, a
  <2> QED BY <1>3, FirstRequest
<1> HIDE DEF in, a, p, e, x
<1>8. ASSUME NEW s2, s2 \in ConnRec, Given(s2) = Given(s), s2.state \in {s.state, Closes(s.state)},
             Sets(server, server', c, s2), NotYet, aborted' \in BOOLEAN,
             InputOf(c, s2, None, a, "none", FALSE, aborted')
      PROVE  Shapes' /\ \A d \in Conns : StreamOf(d)'
  <2>1. /\ Sets(upstream, upstream', c, u) /\ Sets(meta, meta', c, None) /\ Sets(tunnel, tunnel', c, tunnel[c])
        /\ Sets(query, query', c, "none") /\ MetaList' = MetaList /\ TunnelList' = TunnelList
    BY <1>4, <1>8, Stays DEF resolverVars
  <2>2. ToClient(c, s2, tunnel[c], spoken[c], "none")
    BY <1>5, <1>8, ClientKept
  <2>3. InputOf(c, s2, None, a, "none", c \in MetaList', aborted')
    <3>1. (c \in MetaList') = FALSE
      BY <2>1
    <3> QED BY <1>8, <3>1
  <2> QED BY <1>1, <1>5, <1>6, <1>8, <2>1, <2>2, <2>3, StreamStep
<1>9. aborted = FALSE
  BY StreamFacts
<1>10. CASE Waits
  <2> DEFINE k == [s EXCEPT !.in = in]
  <2>1. k \in ConnRec /\ Given(k) = Given(s) /\ k.in = in /\ k.state = s.state
    BY <1>3, <1>4, OtherInput
  <2>2. Sets(server, server', c, k) /\ NotYet /\ aborted' = FALSE
    BY <1>9, <1>10, Stays
  <2>3. ~(Asks(c) /\ a - IvLen > RequestEnd(c))
    BY <1>7, <1>10
  <2> HIDE DEF k
  <2>4. InputOf(c, k, None, a, "none", FALSE, FALSE)
    BY <1>3, <2>1, <2>3, InputWaits
  <2> QED BY <1>8, <2>1, <2>2, <2>4
<1>11. CASE Aborts
  <2>1. Sets(server, server', c, s) /\ NotYet /\ aborted' = TRUE
    BY <1>11, Stays
  <2>2. InputOf(c, s, None, a, "none", FALSE, TRUE)
    BY <1>3, InputAborts
  <2> QED BY <1>4, <1>8, <2>1, <2>2
<1>12. CASE Shuts
  <2> DEFINE k1 == Shutdown(s)
             k == [k1 EXCEPT !.in = in]
  <2>1. /\ k1 \in ConnRec /\ Given(k1) = Given(s)
        /\ k1.state = IF s.state = "connected" THEN "disconnecting" ELSE s.state
    BY <1>4, Calls
  <2>2. k1.state = "disconnecting" /\ k1.state \in {s.state, Closes(s.state)}
    BY <1>3, <2>1 DEF Closes
  <2>3. Sets(server, server', c, k) /\ NotYet /\ aborted' = FALSE
    BY <1>9, <1>12, Stays
  <2> HIDE DEF k1
  <2>4. k \in ConnRec /\ Given(k) = Given(k1) /\ k.in = in /\ k.state = k1.state
    BY <1>3, <2>1, OtherInput
  <2> HIDE DEF k
  <2>5. InputOf(c, k, None, a, "none", FALSE, FALSE)
    BY <1>3, <2>2, <2>4, InputShut
  <2> QED BY <1>8, <2>1, <2>2, <2>3, <2>4, <2>5
<1>13. CASE Asked /\ (Later \/ AtOnce)
  <2> DEFINE k == [s EXCEPT !.in = <<>>]
             r == a - IvLen
  <2>1. k \in ConnRec /\ Given(k) = Given(s) /\ k.in = <<>> /\ k.state = s.state
    <3>1. <<>> \in Seq(Byte)
      OBVIOUS
    <3> QED BY <1>4, <3>1, OtherInput
  <2>2. /\ Sets(server, server', c, k) /\ Sets(meta, meta', c, m2) /\ aborted' = FALSE
        /\ MetaList' = MetaList \cup {c} /\ (c \in MetaList') = TRUE /\ meta'[c] = m2
    <3>1. /\ server' = [server EXCEPT ![c].in = <<>>] /\ meta' = [meta EXCEPT ![c] = m2]
          /\ aborted' = aborted /\ MetaList' = MetaList \cup {c}
      BY <1>13
    <3>2. Sets(server, server', c, k)
      BY <3>1, Stays
    <3> HIDE DEF m2
    <3>3. Sets(meta, meta', c, m2)
      BY <3>1, Stays
    <3>4. meta'[c] = m2
      BY <3>3 DEF Sets
    <3> QED BY <1>9, <3>1, <3>2, <3>3, <3>4
  <2>3. /\ Asks(c) /\ r > RequestEnd(c) /\ a > IvLen
        /\ Advance(e, x) = Decryptor(c, r)
        /\ p.host = RequestHost(Request(c), RequestStart(c))
        /\ p.port = RequestPort(Request(c), RequestStart(c))
        /\ IsPiece(p.buf, Request(c), RequestEnd(c), r)
    BY <1>7, <1>13
  <2>4. /\ m2.decryptor = Advance(e, x) /\ m2.host = p.host /\ m2.port = p.port /\ m2.buf = p.buf
        /\ m2 = [decryptor |-> m2.decryptor, host |-> m2.host, port |-> m2.port, buf |-> m2.buf]
    BY MetaFields
  <2> HIDE DEF m2, k, r
  <2>5. /\ m2.decryptor = Decryptor(c, r) /\ m2.decryptor.pos = r /\ m2.buf \in Seq(Byte)
        /\ IsPiece(m2.buf, Request(c), RequestEnd(c), r)
    BY <2>3, <2>4 DEF Decryptor, IsPiece
  <2>6. ASSUME NEW q \in {"pending", "done"} PROVE InputOf(c, k, m2, a, q, TRUE, FALSE)
    <3>1. /\ m2.host = RequestHost(Request(c), RequestStart(c))
          /\ m2.port = RequestPort(Request(c), RequestStart(c)) /\ k.state # "idle"
      BY <1>3, <2>1, <2>3, <2>4
    <3>2. m2.decryptor = Decryptor(c, a - IvLen) /\ a - IvLen > RequestEnd(c)
      BY <2>3, <2>5 DEF r
    <3> QED BY <1>3, <2>1, <2>3, <2>4, <2>5, <2>6, <3>1, <3>2, InputAsks
  <2>7. MetaOK(c, m2)
    BY <2>6 DEF InputOf
  <2>8. ToUpstream(c, u, m2, "pending")
    BY <1>4, <1>5, <2>5, UpAsks
  <2>9. ToClient(c, k, tunnel[c], spoken[c], "none")
    BY <1>5, <2>1, ClientKept
  <2>10. ASSUME NEW q \in {"pending", "done"}, NEW u2, NEW t2, Sets(query, query', c, q),
                Sets(upstream, upstream', c, u2), Sets(tunnel, tunnel', c, t2),
                TunnelList' \subseteq TunnelList \cup {c},
                ToUpstream(c, u2, m2, q), ToClient(c, k, t2, spoken[c], q)
         PROVE  Shapes' /\ \A d \in Conns : StreamOf(d)'
    <3>1. InputOf(c, k, m2, a, q, c \in MetaList', aborted') /\ aborted' \in BOOLEAN /\ (aborted => aborted')
      BY <1>9, <2>2, <2>6
    <3> QED BY <1>1, <1>6, <2>2, <2>10, <3>1, StreamStep
  <2>11. CASE Later
    <3>1. query' = [query EXCEPT ![c] = "pending"] /\ UNCHANGED <<tunnel, TunnelList, upstream>>
      BY <2>11 DEF resolve
    <3>2. Sets(query, query', c, "pending") /\ Sets(upstream, upstream', c, u) /\ Sets(tunnel, tunnel', c, tunnel[c])
      BY <3>1, Stays
    <3>3. ToClient(c, k, tunnel[c], spoken[c], "pending")
      BY <2>9 DEF ToClient
    <3> QED BY <2>8, <2>10, <3>1, <3>2, <3>3
  <2>12. CASE AtOnce
    <3>1. query' = [query EXCEPT ![c] = "done"]
      BY <2>12 DEF resolve
    <3>2. PICK v \in Addresses : resolveCallback({c}, [y \in {c} |-> v])
      BY <2>12
    <3> DEFINE u2 == NewConn("connecting")
               t2 == NewTunnel(m2, v)
    <3>3. /\ tunnel' = [d \in Conns |-> IF d \in {c} THEN NewTunnel(meta'[d], [y \in {c} |-> v][d]) ELSE tunnel[d]]
          /\ upstream' = [d \in Conns |-> IF d \in {c} THEN u2 ELSE upstream[d]]
          /\ TunnelList' = TunnelList \cup {c}
      BY <3>2 DEF resolveCallback
    <3>4. [y \in {c} |-> v][c] = v
      OBVIOUS
    <3>5. Sets(query, query', c, "done")
      BY <3>1, Stays
    <3>6. Sets(upstream, upstream', c, u2)
      <4> HIDE DEF u2
      <4> QED BY <3>3 DEF Sets
    <3>7. Sets(tunnel, tunnel', c, t2)
      BY <2>2, <3>3, <3>4 DEF Sets
    <3>8. ToClient(c, k, t2, spoken[c], "done")
      BY <2>7, <2>9, ClientTunnel
    <3>9. ToUpstream(c, u2, m2, "done")
      BY <1>4, <2>8, UpConnects
    <3> HIDE DEF u2, t2
    <3> QED BY <2>10, <3>3, <3>5, <3>6, <3>7, <3>8, <3>9
  <2> QED BY <1>13, <2>11, <2>12
<1> QED BY <1>2, <1>10, <1>11, <1>12, <1>13

\* Lookups end, and their tunnels connect.
LEMMA StreamResolved ==
  ASSUME StreamInv, NEW done \in SUBSET Pending, NEW addr, \A d \in done : addr[d] \in Addresses,
         resolveCallback(done, addr), onQueryResult(done), meta' = meta,
         UNCHANGED <<server, arrived, MetaList, context, spoken, leftEarly, aborted>>
  PROVE  Shapes' /\ \A d \in Conns : StreamOf(d)'
<1>1. /\ tunnel' = [d \in Conns |-> IF d \in done THEN NewTunnel(meta[d], addr[d]) ELSE tunnel[d]]
      /\ upstream' = [d \in Conns |-> IF d \in done THEN NewConn("connecting") ELSE upstream[d]]
      /\ TunnelList' = TunnelList \cup done
      /\ query' = [d \in Conns |-> IF d \in done THEN "done" ELSE query[d]]
  BY DEF resolveCallback, onQueryResult
<1>2. done \subseteq Conns
  BY DEF Pending
<1>3. Shapes'
  BY <1>1, <1>2 DEF StreamInv, Shapes
<1>4. ASSUME NEW d \in Conns PROVE StreamOf(d)'
  <2>1. CASE d \notin done
    <3>1. Same(d)
      BY <1>1, <2>1 DEF Same
    <3> QED BY <3>1, SameStream DEF StreamInv, Shapes
  <2>2. CASE d \in done
    <3> DEFINE s == server[d]
               u == upstream[d]
               m == meta[d]
               t2 == NewTunnel(m, addr[d])
               u2 == NewConn("connecting")
    <3>1. query[d] = "pending" /\ addr[d] \in Addresses
      BY <2>2 DEF Pending
    <3>2. tunnel'[d] = t2 /\ upstream'[d] = u2 /\ query'[d] = "done"
      BY <1>1, <2>2
    <3>3. u.state = "idle" /\ MetaOK(d, m) /\ ToUpstream(d, u, m, "pending") /\ ToClient(d, s, tunnel[d], spoken[d], "pending")
      BY <3>1, StreamFacts DEF RaceOf
    <3>4. InputOf(d, s, m, arrived[d], "done", d \in MetaList, aborted)
      <4> DEFINE listed == d \in MetaList
      <4>1. InputOf(d, s, m, arrived[d], "pending", listed, aborted) /\ listed \in BOOLEAN
        BY <3>1, StreamFacts
      <4> HIDE DEF listed, s, m
      <4>2. InputOf(d, s, m, arrived[d], "done", listed, aborted)
        BY <4>1 DEF InputOf
      <4> QED BY <4>2 DEF listed
    <3>5. ToUpstream(d, u2, m, "done")
      BY <3>3, UpConnects
    <3>6. ToClient(d, s, t2, spoken[d], "done")
      BY <3>1, <3>3, ClientTunnel
    <3> HIDE DEF t2, u2
    <3> QED BY <3>2, <3>4, <3>5, <3>6 DEF StreamOf
  <2> QED BY <2>1, <2>2
<1> QED BY <1>3, <1>4

\* Before the first event.
LEMMA StreamInit == Init => StreamInv
<1> SUFFICES ASSUME Init PROVE StreamInv
  OBVIOUS
<1> DEFINE k == NewConn("idle")
<1>1. /\ server = [c \in Conns |-> k] /\ upstream = [c \in Conns |-> k]
      /\ arrived = [c \in Conns |-> 0] /\ spoken = [c \in Conns |-> 0]
      /\ meta = [c \in Conns |-> None] /\ tunnel = [c \in Conns |-> None]
      /\ MetaList = {} /\ TunnelList = {} /\ context = {} /\ leftEarly = {} /\ aborted = FALSE
      /\ query = [c \in Conns |-> "none"]
  BY DEF Init, ResolverInit
<1>2. /\ k \in ConnRec /\ Given(k) = <<>> /\ k.state = "idle" /\ k.in = <<>> /\ "state" \in DOMAIN k
  BY NewConnection, NewConnState
<1> HIDE DEF k
<1>3. RaceInv
  BY <1>1, <1>2 DEF RaceInv, Connections, RaceOf, Readable
<1>4. Shapes
  BY <1>1 DEF Shapes
<1>5. ASSUME NEW c \in Conns PROVE StreamOf(c)
  <2>1. Len(Stream(c)) \in Nat /\ Len(Response(c)) \in Nat /\ Len(Answer(c)) \in Nat
    BY WireFacts, Streams
  <2>2. InputOf(c, k, None, 0, "none", FALSE, FALSE)
    BY <1>2, <2>1 DEF InputOf, Readable
  <2>3. ToUpstream(c, k, None, "none")
    <3>1. RequestEnd(c) \in 0..Len(Request(c)) /\ Len(Request(c)) \in Nat
      BY PayloadPiece
    <3>2. IsPiece(<<>>, Request(c), RequestEnd(c), RequestEnd(c))
      BY <3>1, PieceEmpty
    <3> QED BY <1>2, <3>1, <3>2 DEF ToUpstream
  <2>4. ToClient(c, k, None, 0, "none")
    <3>1. 0 \in 0..Len(Answer(c))
      BY <2>1
    <3>2. IsPiece(<<>>, Answer(c), 0, 0)
      BY <2>1, <3>1, PieceEmpty
    <3> QED BY <1>2, <2>1, <3>1, <3>2 DEF ToClient
  <2>5. server[c] = k /\ upstream[c] = k /\ meta[c] = None /\ tunnel[c] = None /\ arrived[c] = 0
        /\ spoken[c] = 0 /\ query[c] = "none" /\ (c \in MetaList) = FALSE /\ aborted = FALSE
    BY <1>1
  <2> QED BY <2>2, <2>3, <2>4, <2>5 DEF StreamOf
<1> QED BY <1>3, <1>4, <1>5 DEF StreamInv

\* Every event keeps the invariant.
LEMMA StreamNext == StreamInv /\ [Next]_vars => StreamInv'
<1> SUFFICES ASSUME StreamInv, [Next]_vars PROVE StreamInv'
  OBVIOUS
<1>1. RaceInv'
  BY RaceNext DEF StreamInv
<1>2. CASE UNCHANGED vars
  <2>1. /\ UNCHANGED <<server, arrived, meta, MetaList, tunnel, TunnelList, upstream, context, spoken,
                       leftEarly, aborted, query>>
    BY <1>2 DEF vars, relayVars, resolverVars
  <2>2. Shapes'
    BY <2>1 DEF StreamInv, Shapes
  <2>3. \A d \in Conns : StreamOf(d)'
    BY <2>1 DEF StreamInv, StreamOf
  <2> QED BY <1>1, <2>2, <2>3 DEF StreamInv
<1>3. CASE Next
  <2>1. ~aborted
    BY <1>3 DEF Next
  <2>2. ASSUME NEW c \in Conns, Event(c) PROVE Shapes' /\ \A d \in Conns : StreamOf(d)'
    <3>1. CASE \E n \in ReadSizes(c) : onServerMessage(c, n)
      BY <2>1, <3>1, StreamFirst, StreamLater
    <3>2. CASE \E n \in 1..Len(Response(c)) : onClientMessage(c, n)
      BY <3>2, StreamClientMessage
    <3> QED BY <2>2, <3>1, <3>2, StreamUp, StreamDown, StreamClientUp, StreamClientDown, StreamHigh,
               StreamWrite DEF Event
  <2>3. ASSUME NEW s \in Sockets, NEW done \in SUBSET Pending, NEW fails \in BOOLEAN,
               LookupAnswered(s, done, fails)
        PROVE  Shapes' /\ \A d \in Conns : StreamOf(d)'
    <3>1. /\ onQueryResult(done) /\ meta' = meta
          /\ UNCHANGED <<server, arrived, MetaList, context, spoken, leftEarly, aborted>>
      BY <2>3 DEF LookupAnswered, onRead
    <3>2. PICK addr \in [done -> Addresses] : resolveCallback(done, addr)
      BY <2>3 DEF LookupAnswered
    <3> QED BY <3>1, <3>2, StreamResolved
  <2>4. ASSUME NEW done \in SUBSET Pending, LookupTimer(done)
        PROVE  Shapes' /\ \A d \in Conns : StreamOf(d)'
    <3> DEFINE addr == [c \in done |-> "0.0.0.0"]
    <3>1. /\ onQueryResult(done) /\ meta' = meta /\ resolveCallback(done, addr)
          /\ UNCHANGED <<server, arrived, MetaList, context, spoken, leftEarly, aborted>>
      BY <2>4 DEF LookupTimer, onTimer
    <3>2. \A d \in done : addr[d] \in Addresses
      BY DEF Addresses
    <3> HIDE DEF addr
    <3> QED BY <3>1, <3>2, StreamResolved
  <2>5. Shapes' /\ \A d \in Conns : StreamOf(d)'
    BY <1>3, <2>2, <2>3, <2>4 DEF Next
  <2> QED BY <1>1, <2>5 DEF StreamInv
<1> QED BY <1>2, <1>3

\* StreamInv holds whatever happens.
LEMMA StreamAlways == Spec => []StreamInv
BY StreamInit, StreamNext, PTL DEF Spec

\* However the client's stream is cut into reads, the relay acts on no request before all of it has
\* been read, has acted on it when a byte behind it has been read, and has the host and the port the
\* client asked for (onServerMessage and ServerConnMeta::ParseRequest).
THEOREM RequestIsUnderstood == Spec => []RequestUnderstood
<1>1. StreamInv => RequestUnderstood
  <2> SUFFICES ASSUME StreamInv, NEW c \in Conns
               PROVE  /\ c \in MetaList =>
                           Asks(c) /\ Len(Request(c)) - Read(c) <= Len(Payload(Request(c)))
                      /\ (/\ ~aborted /\ server[c].state = "connected"
                          /\ Asks(c) /\ Len(Request(c)) - Read(c) < Len(Payload(Request(c))))
                         => c \in MetaList
                      /\ meta[c] # None =>
                           /\ Asks(c)
                           /\ meta[c].host = RequestHost(Request(c), RequestStart(c))
                           /\ meta[c].port = RequestPort(Request(c), RequestStart(c))
    BY DEF RequestUnderstood
  <2> DEFINE a == arrived[c]
             l == Len(Request(c))
             p == Len(Payload(Request(c)))
  <2>1. a \in 0..Len(Stream(c)) /\ Len(Stream(c)) \in Nat /\ IvLen \in Nat /\ l \in Nat /\ p \in Nat
    BY StreamFacts, WireFacts, Streams, PayloadPiece DEF InputOf
  <2>2. RequestEnd(c) = l - p
    BY DEF RequestEnd
  <2>3. Read(c) = a - IvLen
    BY DEF Read
  <2>4. /\ (a - IvLen > RequestEnd(c)) <=> (l - Read(c) < p)
        /\ l - Read(c) < p => l - Read(c) <= p
    <3> HIDE DEF a, l, p
    <3>1. a \in Nat
      BY <2>1
    <3> QED BY <2>1, <2>2, <2>3, <3>1
  <2>5. ASSUME ~aborted, server[c].state = "connected", Asks(c), l - Read(c) < p
        PROVE  c \in MetaList
    <3>1. c \in MetaList <=> Asks(c) /\ a - IvLen > RequestEnd(c)
      BY <2>5, StreamFacts DEF InputOf, UnderstoodOK
    <3> QED BY <2>4, <2>5, <3>1, Zenon
  <2>6. ASSUME meta[c] # None
        PROVE  /\ Asks(c)
               /\ meta[c].host = RequestHost(Request(c), RequestStart(c))
               /\ meta[c].port = RequestPort(Request(c), RequestStart(c))
    <3>1. MetaOK(c, meta[c])
      BY <2>6, StreamFacts
    <3> QED BY <3>1 DEF MetaOK
  <2>7. ASSUME c \in MetaList PROVE Asks(c) /\ l - Read(c) <= p
    <3>1. query[c] # "none" /\ MetaOK(c, meta[c])
      BY <2>7, StreamFacts
    <3>2. Asks(c)
      BY <3>1 DEF MetaOK
    <3>3. a - IvLen > RequestEnd(c)
      BY <3>1, StreamFacts DEF InputOf
    <3> QED BY <2>4, <3>2, <3>3, Zenon
  <2> QED BY <2>5, <2>6, <2>7
<1> QED BY <1>1, StreamAlways, PTL

\* The upstream gets the client's payload from its start, in order and without a gap, whatever
\* waited for the upstream (onServerMessage, onClientConnection).
THEOREM UpstreamGetsPayload == Spec => []UpstreamSeesPayload
<1>1. StreamInv => UpstreamSeesPayload
  <2> SUFFICES ASSUME StreamInv, NEW c \in Conns
               PROVE  IsPrefix(upstream[c].got \o upstream[c].out, Payload(Request(c)))
    BY DEF UpstreamSeesPayload
  <2>1. PICK j \in 0..Len(Request(c)) : IsPiece(Given(upstream[c]), Request(c), RequestEnd(c), j)
    BY StreamFacts DEF ToUpstream
  <2>2. IsPrefix(Given(upstream[c]), Payload(Request(c)))
    BY <2>1, PayloadPrefix
  <2> QED BY <2>2 DEF Given
<1> QED BY <1>1, StreamAlways, PTL

\* The client gets the vector once and behind it the response, encrypted in one run, whatever
\* send() refused and however the cipher fails (Tunnel::onClientMessage).
THEOREM ClientGetsResponse == Spec => []ClientSeesResponse
<1>1. StreamInv => ClientSeesResponse
  <2> SUFFICES ASSUME StreamInv, NEW c \in Conns
               PROVE  IsPrefix(Given(server[c]), Answer(c))
    BY DEF ClientSeesResponse, Given, Answer
  <2>1. PICK j \in 0..Len(Answer(c)) : IsPiece(Given(server[c]), Answer(c), 0, j)
    BY StreamFacts DEF ToClient
  <2>2. Answer(c) \in Seq(Byte)
    BY WireFacts
  <2> QED BY <2>1, <2>2, PiecePrefix
<1> QED BY <1>1, StreamAlways, PTL

\* Every variable of the relay and of the resolver has its type.
THEOREM RelayTypes == Spec => []TypeOK
<1>1. StreamInv /\ DrivenInv => TypeOK
  <2> SUFFICES ASSUME StreamInv, DrivenInv PROVE TypeOK
    OBVIOUS
  <2>1. ASSUME NEW k \in ConnRec
        PROVE  k.state \in ConnStates /\ k.high \in BOOLEAN /\ {k.in, k.out, k.got} \subseteq Seq(Byte)
    BY <2>1 DEF ConnRec
  <2>2. \A k \in {server, upstream} : \A c \in Conns : k[c] \in ConnRec
    BY StreamFacts
  <2>3. \A k \in {server, upstream} : \A c \in Conns :
          /\ k[c].state \in ConnStates /\ k[c].high \in BOOLEAN
          /\ {k[c].in, k[c].out, k[c].got} \subseteq Seq(Byte)
    BY <2>1, <2>2
  <2>4. \A c \in Conns : arrived[c] \in 0..Len(Stream(c)) /\ spoken[c] \in 0..Len(Response(c))
    BY StreamFacts DEF InputOf, ToClient
  <2>5. ASSUME NEW c \in Conns, meta[c] # None
        PROVE  meta[c].buf \in Seq(Byte) /\ meta[c].decryptor.pos \in 1..Len(Request(c))
    <3>1. MetaOK(c, meta[c])
      BY <2>5, StreamFacts
    <3>2. /\ meta[c].buf \in Seq(Byte)
          /\ meta[c].decryptor.pos \in (RequestEnd(c) + 1)..Len(Request(c))
      BY <3>1 DEF MetaOK
    <3>3. RequestEnd(c) \in 0..Len(Request(c)) /\ Len(Request(c)) \in Nat
      BY PayloadPiece
    <3> QED BY <3>2, <3>3
  <2>6. ASSUME NEW c \in Conns, tunnel[c] # None
        PROVE  tunnel[c].data_buf \in Seq(Byte) /\ tunnel[c].encryptor.pos \in 0..spoken[c]
    <3>1. TunnelOK(c, tunnel[c], spoken[c])
      BY <2>6, StreamFacts DEF ToClient
    <3> QED BY <3>1 DEF TunnelOK
  <2>7. ResolverTypeOK /\ aborted \in BOOLEAN /\ MetaList \cup TunnelList \cup context \cup leftEarly \subseteq Conns
    BY DEF StreamInv, Shapes, DrivenInv
  <2> QED BY <2>3, <2>4, <2>5, <2>6, <2>7 DEF TypeOK
<1>2. Spec => []DrivenInv
  BY DrivenAlways
<1> QED BY <1>1, <1>2, StreamAlways, PTL
===============================================================================
