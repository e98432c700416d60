----------------------------- MODULE KCPTransport -----------------------------
(***************************************************************************)
(* The threads of a KCPServer (src/kcp/kcp_server.cc) with num_threads > 0 *)
(* and what they share: the base loop reads the socket in batches, finds   *)
(* the session of a datagram and posts the datagram to the session's loop; *)
(* the worker loops run the posted tasks and the sessions' timers, and     *)
(* send through a transmit queue of their own; the destructor closes the   *)
(* sessions on their loops, stops the workers and closes the socket.       *)
(*                                                                         *)
(* Handshakes, idle times and time wait are KCPServer.tla's, the stream of *)
(* a session is KCPSession.tla's: here a handshake is pending or not, and  *)
(* a session has some packets to send or none.                             *)
(***************************************************************************)
EXTENDS KCPPacket, UDPSocket, SequencesExt

CONSTANTS
    num_threads,          \* worker loops
    Ids,                  \* session ids
    Addresses,            \* addresses of clients
    ListenFamilies,       \* address families Listen is called with
    None,
    kNumPacketsPerRead,
    kNumPacketsPerSend,
    kMaxPacketSize,
    kServerMaxWaitSessionClosedTryTimes,
    Arrivals,             \* what clients send: [type, id, from]
    OddArrivals,          \* those the network may change or misshape
    Damaged,              \* where it may change a byte of one
    MaxArrivals,          \* bound: datagrams and errors that come
    MaxOdd,               \* bound: damaged or misshapen datagrams among them
    MaxErrors,            \* bound: errors among them
    MaxSessions,          \* bound: sessions created
    Bursts, MaxOut        \* bounds: packets one flush appends, and all of them

Workers == 1..num_threads
Task(name, s) == [task |-> name, s |-> s, data |-> <<>>, from |-> None]

ASSUME TransportAssumption ==
    /\ num_threads \in Nat \ {0}
    /\ Ids \subseteq 1..(Base * Base * Base * Base - 1)
    /\ kNumPacketsPerRead \in Nat \ {0}
    /\ kNumPacketsPerSend \in Nat \ {0}
    /\ kMaxPacketSize \in Nat /\ kMaxPacketSize > kPublicHeaderLength
    /\ kServerMaxWaitSessionClosedTryTimes \in Nat \ {0}
    /\ Arrivals \subseteq [type : Range(PacketTypes), id : Ids, from : Addresses]
    /\ MaxArrivals \in 0..(Base - 1)
    /\ Bursts \subseteq Nat

\* What HandleRead has in hand is a sequence, unless it is not running.
ASSUME NoneIsNoBatch == None \notin Seq([number : Nat, data : Seq(Nat), from : Addresses])

VARIABLES
    life,          \* of the KCPServer object
    world,         \* socket_ and the kernel's descriptors
    rcvbuf,        \* datagrams in the kernel's receive queue
    arrived,       \* history: who sent what, in the order of arrival
    errqueue,      \* the socket's error queue
    errors,        \* how many errors there were
    reading,       \* what is left of HandleRead's batch, None outside HandleRead
    session_map_,  \* session id -> index in sessions, or 0
    sessions,      \* the KCPSession objects, in the order of their creation
    pending,       \* worker -> the tasks in pendingFunctors_
    quit,          \* workers told to quit
    running,       \* workers whose thread runs
    tx,            \* worker -> its ThreadData, and all the kernel took from it
    appended,      \* history: worker -> the packets it appended
    counted,       \* sessions the destructor waits for
    num_closed,    \* num_closed_sessions
    try_times,
    unclosed,      \* history: sessions destroyed before Close
    faults         \* history: undefined behaviour met

baseVars == <<life, world, session_map_, quit, counted, try_times>>
readVars == <<rcvbuf, arrived, errqueue, errors, reading>>
workVars == <<sessions, running, tx, appended, num_closed, unclosed, faults>>
vars == <<baseVars, readVars, workVars, pending>>

\* InitializeThread: a queue without packets.  Of the raw_packets only the first
\* num_packets are kept, the others are written again before they are sent; full
\* records that a packet was appended where there was no room.
InitializeThread == [raw_packets |-> <<>>, full |-> FALSE, wire |-> <<>>]
num_packets(t) == Len(t.raw_packets)

Init ==
    /\ life = "constructed"
    /\ world = [socket |-> NewUDPSocket, kernel |-> {}]
    /\ rcvbuf = <<>> /\ arrived = <<>> /\ errqueue = <<>> /\ errors = 0
    /\ reading = None
    /\ session_map_ = [i \in Ids |-> 0]
    /\ sessions = <<>>
    /\ pending = [w \in Workers |-> <<>>]
    /\ quit = {} /\ running = {}
    /\ tx = [w \in Workers |-> InitializeThread]
    /\ appended = [w \in Workers |-> <<>>]
    /\ counted = {} /\ num_closed = 0 /\ try_times = 0
    /\ unclosed = {} /\ faults = {}

-------------------------------------------------------------------------------
(* Listen.                                                                 *)

\* The calls on the new socket, in order.  A negative code ends them, and the
\* socket's destructor then closes the descriptor; a positive one passes.
ListenSocket(family) ==
    {IF o.rc < 0 THEN Outcome(o.rc, Close(o.world)) ELSE o :
        o \in Then(Bind([world EXCEPT !.socket = Allow(NewUDPSocket, "RECEIVE_ERROR")], family),
                   LAMBDA w : Then(SetBufferSize(w, kMaxPacketSize),
                   LAMBDA u : Then(SetBufferSize(u, kMaxPacketSize), GetLocalAddress)))}

Listen(family) ==
    /\ life = "constructed"
    /\ \E o \in ListenSocket(family) :
           IF o.rc < 0
           THEN /\ world' = [world EXCEPT !.kernel = o.world.kernel]
                /\ UNCHANGED <<life, running>>
           ELSE /\ world' = o.world
                /\ life' = "listening"
                /\ running' = Workers
    /\ UNCHANGED <<session_map_, quit, counted, try_times, readVars, pending, sessions,
                   tx, appended, num_closed, unclosed, faults>>

-------------------------------------------------------------------------------
(* The network in front of the socket.                                     *)

\* What client a.from sends: the header and, with DATA, the number of the datagram.
Sent(a, n) ==
    WritePublicHeader(a.type, a.id,
        [i \in 1..(kPublicHeaderLength + IF a.type = "DATA" THEN 1 ELSE 0) |->
            IF i > kPublicHeaderLength THEN n ELSE 0])

\* A datagram as sent; with one byte changed; cut short; empty; or too long.
Misshapen(bytes) ==
    {[bytes EXCEPT ![i] = (@ + 1) % Base] : i \in Damaged \cap DOMAIN bytes}
    \cup {SubSeq(bytes, 1, WordLength), <<>>}
    \cup {bytes \o [i \in 1..kMaxPacketSize |-> 0]}

Odd == SelectSeq(arrived, LAMBDA d : d.odd)

\* The receive queue is looked at when a batch is read: that a datagram comes
\* while another is processed makes no difference to when it is next seen.
Arrive(d) ==
    /\ life = "listening"
    /\ reading \in {None, <<>>}
    /\ Len(arrived) + errors < MaxArrivals
    /\ arrived' = Append(arrived, [type |-> d.type, id |-> d.id, from |-> d.from, odd |-> d.odd])
    /\ rcvbuf' = Append(rcvbuf, [data |-> d.data, from |-> d.from])
    /\ UNCHANGED <<baseVars, workVars, pending, errqueue, errors, reading>>

Deliver(a) ==
    LET bytes == Sent(a, Len(arrived) + 1) IN
    \/ Arrive([type |-> a.type, id |-> a.id, from |-> a.from, data |-> bytes, odd |-> FALSE])
    \/ /\ a \in OddArrivals /\ Len(Odd) < MaxOdd
       /\ \E other \in Misshapen(bytes) :
              Arrive([type |-> a.type, id |-> a.id, from |-> a.from, data |-> other, odd |-> TRUE])

\* A packet on the wire comes back as an ICMP error, or the error is a local one.
Bounce(w) ==
    /\ life = "listening"
    /\ errors < MaxErrors /\ Len(arrived) + errors < MaxArrivals
    /\ \E i \in DOMAIN tx[w].wire, origin \in {"ICMP", "LOCAL"} :
           errqueue' = Append(errqueue, [origin |-> origin, data |-> tx[w].wire[i].data])
    /\ errors' = errors + 1
    /\ UNCHANGED <<baseVars, workVars, pending, rcvbuf, arrived, reading>>

-------------------------------------------------------------------------------
(* HandleRead on the base loop.                                            *)

Cut(data, n) == IF Len(data) > n THEN SubSeq(data, 1, n) ELSE data

\* One recvmmsg.  The kernel cuts a datagram to the buffer, one byte longer than
\* the longest packet, so that a longer one shows.  What a session gets of a
\* buffer is copied before the next batch is read into it.
ReadBatch ==
    LET n == RecvMmsg(rcvbuf, kNumPacketsPerRead) IN
    /\ reading' = [i \in 1..n |->
           [number |-> i, data |-> Cut(rcvbuf[i].data, kMaxPacketSize + 1), from |-> rcvbuf[i].from]]
    /\ rcvbuf' = After(rcvbuf, n)

\* The channel is readable; or a full batch is done and the loop reads again,
\* until a batch is not full or recvmmsg fails, for the socket is empty or has an
\* error to report.
HandleRead ==
    /\ life = "listening"
    /\ \/ reading = None /\ rcvbuf # <<>> /\ ReadBatch
       \/ /\ reading = <<>>
          /\ \/ rcvbuf # <<>> /\ ReadBatch
             \/ reading' = None /\ UNCHANGED rcvbuf
    /\ UNCHANGED <<baseVars, workVars, pending, arrived, errqueue, errors>>

getLoopForHash(id) == (id % num_threads) + 1
Post(w, tasks) == pending' = [pending EXCEPT ![w] = @ \o tasks]

\* KCPSession::ProcessPacket on another thread: a task with a copy of the data.
PacketTask(s, packet, from) ==
    [task |-> "packet", s |-> s, data |-> CloneFromRemainingData(packet).data, from |-> from]

\* A new session and what Initialize posts for it.
NewSession(id, from) ==
    [id |-> id, peer |-> from, closed |-> FALSE, timer |-> FALSE, error |-> FALSE, log |-> <<>>]
InitializeSession(id, from) ==
    /\ Len(sessions) < MaxSessions
    /\ sessions' = Append(sessions, NewSession(id, from))
    /\ session_map_' = [session_map_ EXCEPT ![id] = Len(sessions) + 1]
Initialized(s) == <<Task("up", s), Task("update", s)>>

\* ProcessAckPacket and ProcessDataPacket where no session is found: without a
\* pending handshake of the sender the answer is an RST, sent at once.
UnknownSession(id, from, more) ==
    /\ session_map_[id] = 0
    /\ \/ UNCHANGED <<session_map_, sessions, pending>>
       \/ /\ InitializeSession(id, from)
          /\ Post(getLoopForHash(id), Initialized(Len(sessions) + 1) \o more)

ProcessDataPacket(id, packet, from) ==
    \/ UnknownSession(id, from, <<PacketTask(Len(sessions) + 1, packet, from)>>)
    \/ /\ session_map_[id] # 0
       /\ Post(getLoopForHash(id), <<PacketTask(session_map_[id], packet, from)>>)
       /\ UNCHANGED <<session_map_, sessions>>

ProcessAckPacket(id, from) ==
    \/ UnknownSession(id, from, <<>>)
    \/ session_map_[id] # 0 /\ UNCHANGED <<session_map_, sessions, pending>>

\* A faulty ProcessRstPacket that drops the session and leaves it open.
ProcessRstPacketLeavesOpen(id) ==
    /\ session_map_' = [session_map_ EXCEPT ![id] = 0]
    /\ UNCHANGED <<sessions, pending>>

\* ProcessRstPacket; RunPeriodicTask drops a session in the same way.
ProcessRstPacket(id) ==
    /\ session_map_' = [session_map_ EXCEPT ![id] = 0]
    /\ IF session_map_[id] = 0 THEN UNCHANGED pending
       ELSE Post(getLoopForHash(id), <<Task("close", session_map_[id])>>)
    /\ UNCHANGED sessions

\* The body of HandleRead's for loop and ProcessPacket.
ProcessPacket ==
    /\ life = "listening"
    /\ reading \notin {None, <<>>}
    /\ reading' = IF Len(reading) = 1 /\ Head(reading).number # kNumPacketsPerRead
                  THEN None ELSE Tail(reading)
    /\ \E slot \in {Head(reading)} :
       \E r \in {ReadPublicHeader(Received(slot.data))} :
           IF \/ slot.data = <<>>
              \/ Len(slot.data) > kMaxPacketSize
              \/ r.code # "SUCCESS"
              \/ r.header.session_id \notin Ids
           THEN UNCHANGED <<session_map_, sessions, pending>>
           ELSE CASE r.header.packet_type = "DATA" ->
                         ProcessDataPacket(r.header.session_id, r.packet, slot.from)
                  [] r.header.packet_type = "ACK" ->
                         ProcessAckPacket(r.header.session_id, slot.from)
                  [] r.header.packet_type = "RST" -> ProcessRstPacket(r.header.session_id)
                  [] OTHER -> UNCHANGED <<session_map_, sessions, pending>>
    /\ UNCHANGED <<life, world, quit, counted, try_times, rcvbuf, arrived, errqueue, errors,
                   running, tx, appended, num_closed, unclosed, faults>>

\* One turn of HandleError's loop over the error queue: the error of a packet goes to
\* the session whose id the returned header has, as a task.  An error that the loop
\* takes in a later turn might as well have come later.
HandleError ==
    /\ life = "listening" /\ reading = None
    /\ errqueue # <<>>
    /\ errqueue' = Tail(errqueue)
    /\ LET e == Head(errqueue)
           id == ReadFrom(e.data).session_id
       IN IF e.origin = "ICMP" /\ id \in Ids /\ session_map_[id] # 0
          THEN Post(getLoopForHash(id), <<Task("error", session_map_[id])>>)
          ELSE UNCHANGED pending
    /\ UNCHANGED <<baseVars, workVars, rcvbuf, arrived, errors, reading>>

-------------------------------------------------------------------------------
(* The transmit queue of a worker, in its thread-local data.               *)

\* A faulty FlushTxQueue that keeps all packets when some were not sent.
FlushTxQueueKeeps(t) ==
    {[t EXCEPT !.raw_packets = IF Len(sent) = num_packets(t) THEN <<>> ELSE @,
               !.wire = @ \o sent] : sent \in SendMmsg(t.raw_packets)}

\* FlushTxQueue: what sendmmsg does not take is dropped.
FlushTxQueue(t) ==
    {[t EXCEPT !.raw_packets = <<>>, !.wire = @ \o sent] : sent \in SendMmsg(t.raw_packets)}

\* A faulty AppendPacket that flushes one packet too late.
AppendPacketLate(t, packet, address) ==
    LET u == [t EXCEPT !.raw_packets = Append(@, [data |-> packet, addr |-> address]),
                       !.full = @ \/ num_packets(t) >= kNumPacketsPerSend]
    IN IF num_packets(u) > kNumPacketsPerSend THEN FlushTxQueue(u) ELSE {u}

\* AppendPacket: index is num_packets, for which there must be room.
AppendPacket(t, packet, address) ==
    LET u == [t EXCEPT !.raw_packets = Append(@, [data |-> packet, addr |-> address]),
                       !.full = @ \/ num_packets(t) >= kNumPacketsPerSend]
    IN IF Len(packet) > kMaxPacketSize THEN {t}
       ELSE IF num_packets(u) >= kNumPacketsPerSend THEN FlushTxQueue(u) ELSE {u}

\* ikcp_flush hands k packets to the output callback, then FlushTxQueue runs.
\* The n-th packet of a worker carries the number n.
OutputCallback(id, n) ==
    WritePublicHeader("DATA", id,
        [i \in 1..(kPublicHeaderLength + 1) |-> IF i > kPublicHeaderLength THEN n ELSE 0])

AfterAppends(w, s, k) ==
    LET after[n \in 0..k] ==
            IF n = 0 THEN {tx[w]}
            ELSE UNION {AppendPacket(t, OutputCallback(s.id, Len(appended[w]) + n), s.peer) :
                            t \in after[n - 1]}
    IN after[k]

Flushed(w, s, k) == UNION {FlushTxQueue(t) : t \in AfterAppends(w, s, k)}

Flush(w, s) ==
    \E k \in Bursts :
        /\ k + FoldFunction(LAMBDA q, n : Len(q) + n, 0, appended) <= MaxOut
        /\ \E t \in Flushed(w, s, k) : tx' = [tx EXCEPT ![w] = t]
        /\ appended' = [appended EXCEPT ![w] = @ \o [i \in 1..k |-> [id |-> s.id, addr |-> s.peer]]]

-------------------------------------------------------------------------------
(* The worker loops.                                                       *)

Event(name) == [event |-> name, data |-> <<>>, from |-> None]

\* EventLoop::loop ends once quit_ is set, whatever doPendingFunctors has not yet
\* taken.  A thread that ends destroys its tasks and timers, and with them the
\* sessions, which are no longer in the map.
LoopEnds(w) ==
    /\ w \in running /\ w \in quit
    /\ running' = running \ {w}
    /\ pending' = [pending EXCEPT ![w] = <<>>]
    /\ unclosed' = unclosed \cup {s \in DOMAIN sessions :
           getLoopForHash(sessions[s].id) = w /\ ~sessions[s].closed}
    /\ UNCHANGED <<baseVars, readVars, sessions, tx, appended, num_closed, faults>>

\* KCPSession::Close.
CloseSession(w, i, last_flush) ==
    LET s == sessions[i] IN
    IF s.closed THEN UNCHANGED <<sessions, tx, appended>>
    ELSE /\ sessions' = [sessions EXCEPT ![i] =
                [s EXCEPT !.closed = TRUE, !.timer = FALSE, !.log = Append(@, Event("down"))]]
         /\ IF last_flush THEN Flush(w, s) ELSE UNCHANGED <<tx, appended>>

\* UpdateConnectionState: the link is dead or the session sends and waits.
UpdateConnectionState(w, i) ==
    LET s == sessions[i] IN
    IF s.closed THEN UNCHANGED <<sessions, tx, appended>>
    ELSE \/ CloseSession(w, i, FALSE)
         \/ /\ sessions' = [sessions EXCEPT ![i].timer = TRUE]
            /\ Flush(w, s)

\* ProcessPacketInLoopThread: the packet reaches ikcp and its sender is the peer.
ProcessPacketInLoopThread(task) ==
    LET s == sessions[task.s] IN
    /\ IF s.closed THEN UNCHANGED sessions
       ELSE sessions' = [sessions EXCEPT ![task.s] =
                [s EXCEPT !.peer = task.from,
                          !.log = Append(@, [event |-> "packet", data |-> task.data, from |-> task.from])]]
    /\ UNCHANGED <<tx, appended>>

OnConnectionEvent(i) ==
    /\ sessions' = [sessions EXCEPT ![i].log = Append(@, Event("up"))]
    /\ UNCHANGED <<tx, appended>>

set_pending_error(i) ==
    /\ sessions' = [sessions EXCEPT ![i].error = TRUE]
    /\ UNCHANGED <<tx, appended>>

\* ++num_closed_sessions, of a variable on the stack of the destructor.
CountClosed ==
    IF life = "spinning" THEN num_closed' = num_closed + 1 /\ UNCHANGED faults
    ELSE faults' = faults \cup {"dead counter"} /\ UNCHANGED num_closed

\* A worker runs the next of its tasks.  That doPendingFunctors takes them in
\* batches shows only in those left when the loop ends, and a batch may have
\* been taken between any two of them.
RunTask(w) ==
    /\ w \in running /\ pending[w] # <<>>
    /\ pending' = [pending EXCEPT ![w] = Tail(@)]
    /\ LET t == Head(pending[w]) IN
       \/ t.task = "up" /\ OnConnectionEvent(t.s) /\ UNCHANGED <<num_closed, faults>>
       \/ t.task = "update" /\ UpdateConnectionState(w, t.s) /\ UNCHANGED <<num_closed, faults>>
       \/ t.task = "packet" /\ ProcessPacketInLoopThread(t) /\ UNCHANGED <<num_closed, faults>>
       \/ t.task = "error" /\ set_pending_error(t.s) /\ UNCHANGED <<num_closed, faults>>
       \/ t.task = "close" /\ CloseSession(w, t.s, FALSE) /\ UNCHANGED <<num_closed, faults>>
       \/ t.task = "close and count" /\ CloseSession(w, t.s, TRUE) /\ CountClosed
    /\ UNCHANGED <<baseVars, readVars, running, unclosed>>

\* state_timer_ expires.
StateTimer(w, i) ==
    /\ w \in running
    /\ getLoopForHash(sessions[i].id) = w
    /\ sessions[i].timer
    /\ UpdateConnectionState(w, i)
    /\ UNCHANGED <<baseVars, readVars, pending, running, num_closed, unclosed, faults>>

-------------------------------------------------------------------------------
(* ~KCPServer on the base loop.                                            *)

\* channel_ exists once Listen has succeeded.
DestroyUnlistened ==
    /\ life = "constructed"
    /\ life' = "crashed"
    /\ faults' = faults \cup {"null channel_"}
    /\ UNCHANGED <<world, session_map_, quit, counted, try_times, readVars, pending, sessions,
                   running, tx, appended, num_closed, unclosed>>

\* Disable the channel and post Close(true) to the loop of each session.
Destroy ==
    /\ life = "listening" /\ reading = None
    /\ life' = "spinning"
    /\ counted' = {session_map_[i] : i \in Ids} \ {0}
    /\ pending' = [w \in Workers |-> pending[w] \o
           SetToSeq({Task("close and count", s) :
               s \in {t \in counted' : getLoopForHash(sessions[t].id) = w}})]
    /\ UNCHANGED <<world, session_map_, quit, try_times, readVars, workVars>>

\* A faulty Waiting, off by one.
WaitingForAllButOne == num_closed + 1 < Cardinality(counted)
Waiting == num_closed < Cardinality(counted)
GaveUp == try_times >= kServerMaxWaitSessionClosedTryTimes

\* One turn of the spin loop: ++try_times only while there is something to wait for.
Spin ==
    /\ life = "spinning"
    /\ Waiting /\ ~GaveUp
    /\ try_times' = try_times + 1
    /\ UNCHANGED <<life, world, session_map_, quit, counted, readVars, workVars, pending>>

\* A faulty order of the members: the socket is closed before the threads end.
SpinEndsAndCloses ==
    /\ life = "spinning"
    /\ ~Waiting \/ GaveUp
    /\ life' = "unwinding"
    /\ session_map_' = [i \in Ids |-> 0]
    /\ world' = Close(world)
    /\ UNCHANGED <<quit, counted, try_times, readVars, workVars, pending>>

\* The spin ends.  Members are destroyed in the reverse order of their
\* declaration: the maps first, then thread_pool_, then socket_.
SpinEnds ==
    /\ life = "spinning"
    /\ ~Waiting \/ GaveUp
    /\ life' = "unwinding"
    /\ session_map_' = [i \in Ids |-> 0]
    /\ UNCHANGED <<world, quit, counted, try_times, readVars, workVars, pending>>

\* A faulty QuitNext that stops one thread only.
QuitOne ==
    /\ life = "unwinding" /\ quit = {}
    /\ quit' = {1}
    /\ UNCHANGED <<life, world, session_map_, counted, try_times, readVars, workVars, pending>>

\* ~EventLoopThreadPool: each thread is told to quit, and joined before the next.
QuitNext ==
    /\ life = "unwinding"
    /\ running # {} /\ Min(running) \notin quit
    /\ quit' = quit \cup {Min(running)}
    /\ UNCHANGED <<life, world, session_map_, counted, try_times, readVars, workVars, pending>>

CloseSocket ==
    /\ life = "unwinding" /\ running = {}
    /\ life' = "gone"
    /\ world' = Close(world)
    /\ UNCHANGED <<session_map_, quit, counted, try_times, readVars, workVars, pending>>

-------------------------------------------------------------------------------
Destructor == Destroy \/ Spin \/ SpinEnds \/ QuitNext \/ CloseSocket

Next ==
    \/ \E f \in ListenFamilies : Listen(f)
    \/ \E a \in Arrivals : Deliver(a)
    \/ \E w \in Workers : Bounce(w)
    \/ HandleRead
    \/ ProcessPacket
    \/ HandleError
    \/ \E w \in Workers : LoopEnds(w)
    \/ \E w \in Workers : RunTask(w)
    \/ \E w \in Workers, i \in DOMAIN sessions : StateTimer(w, i)
    \/ DestroyUnlistened
    \/ Destructor

Spec == Init /\ [][Next]_vars

\* The base thread goes on with a destructor it has begun, and the loop of a
\* thread of the pool, which may have to wait for epoll, sees that it is to quit.
Fairness ==
    /\ WF_vars(Spin \/ SpinEnds \/ QuitNext \/ CloseSocket)
    /\ \A w \in Workers : WF_vars(LoopEnds(w))

FairSpec == Spec /\ Fairness

-------------------------------------------------------------------------------
(* Properties.                                                             *)

\* Every variable has its type; in particular the transmit queue of a worker always has room
\* for the next packet, which AppendPacket (kcp_server.cc:763) asserts.
TypeOK ==
    /\ life \in {"constructed", "listening", "spinning", "unwinding", "gone", "crashed"}
    /\ reading # None => Len(reading) <= kNumPacketsPerRead
    /\ session_map_ \in [Ids -> 0..Len(sessions)]
    /\ \A i \in DOMAIN sessions : sessions[i].id \in Ids /\ sessions[i].peer \in Addresses
    /\ \A w \in Workers : tx[w].full = FALSE /\ num_packets(tx[w]) < kNumPacketsPerSend
    /\ quit \subseteq Workers /\ running \subseteq Workers
    /\ num_closed \in 0..Cardinality(counted)
    /\ try_times \in 0..kServerMaxWaitSessionClosedTryTimes

\* The only open descriptor is that of socket_, with error reporting on; it is open as long as
\* a worker thread runs that may send through it, and closed in the end (kcp_server.cc:63-67,
\* kcp_server.cc:83-106).
OneDescriptor ==
    /\ {d.fd : d \in world.kernel} = {world.socket.sockfd_} \ {kInvalidSocket}
    /\ \A d \in world.kernel : d.bound /\ d.options = {"RECEIVE_ERROR"}
    /\ running # {} => IsValidSocket(world.socket)
    /\ life = "gone" => world.kernel = {}

\* The header of every datagram a client wrote is read back as it was written, and a datagram
\* changed in one byte or cut short is refused (kcp_packets.cc:238-274, 321-339).
HeadersReadBack ==
    \A i \in DOMAIN rcvbuf :
        LET n == Len(arrived) - Len(rcvbuf) + i
            d == arrived[n]
            r == ReadPublicHeader(Received(rcvbuf[i].data))
        IN /\ ~d.odd => /\ r.code = "SUCCESS"
                        /\ r.header = [packet_type |-> d.type, session_id |-> d.id]
                        /\ RemainingData(r.packet) = IF d.type = "DATA" THEN <<n>> ELSE <<>>
           /\ d.odd /\ Len(rcvbuf[i].data) <= kMaxPacketSize => r.code # "SUCCESS"

\* What a worker sends is what its sessions gave to AppendPacket, in that order, no packet
\* twice, each with the address and the id of its session (kcp_server.cc:751-825).
SentInOrderOnce ==
    \A w \in Workers :
        LET wire == tx[w].wire
            Number(i) == wire[i].data[kPublicHeaderLength + 1]
        IN /\ \A i \in DOMAIN wire :
                  /\ Number(i) \in DOMAIN appended[w]
                  /\ wire[i].addr = appended[w][Number(i)].addr
                  /\ ReadFrom(wire[i].data).session_id = appended[w][Number(i)].id
           /\ \A i, j \in DOMAIN wire : i < j => Number(i) < Number(j)

\* The numbers of the whole DATA datagrams that came for id.
DataOf(id) ==
    {n \in DOMAIN arrived : ~arrived[n].odd /\ arrived[n].type = "DATA" /\ arrived[n].id = id}

\* A session is up before anything else, gets the DATA of its id in the order of arrival, none
\* left out or mixed with another and each with its sender, and is down last, although the
\* datagrams cross from the base loop's buffers to the worker (kcp_session.cc:179-194).
CallbacksInOrder ==
    \A i \in DOMAIN sessions :
        LET s == sessions[i]
            packets == {k \in DOMAIN s.log : s.log[k].event = "packet"}
            Number(k) == s.log[k].data[1]
        IN /\ \A k \in DOMAIN s.log :
                  /\ (k = 1) <=> (s.log[k].event = "up")
                  /\ s.log[k].event = "down" => k = Len(s.log) /\ s.closed
           /\ \A k \in packets : /\ Len(s.log[k].data) = 1 /\ Number(k) \in DataOf(s.id)
                                 /\ s.log[k].from = arrived[Number(k)].from
           /\ \A k \in packets : k + 1 \in packets =>
                  /\ Number(k) < Number(k + 1)
                  /\ DataOf(s.id) \cap ((Number(k) + 1)..(Number(k + 1) - 1)) = {}

\* A task touches the destructor's counter after its life only if the spin gave up
\* (kcp_server.cc:44-55).
CounterOutlivesTasks == "dead counter" \in faults => GaveUp

\* Nobody forgets an open session: while its loop runs, it is in the map of a listening
\* server, or a task that closes it is in the queue of its own loop, whichever of an RST, the
\* periodic task and the destructor dropped it (kcp_server.cc:42-49, 166-168, 593-597).
\* Whether the loop still runs that task after quit() is another matter: there
\* assert(IsClosed()) of ~KCPSession (kcp_session.cc:22) may fail.
OpenSessionsAreKept ==
    \A i \in DOMAIN sessions :
        LET w == getLoopForHash(sessions[i].id) IN
        w \in running /\ ~sessions[i].closed =>
            \/ session_map_[sessions[i].id] = i /\ life = "listening"
            \/ \E k \in DOMAIN pending[w] :
                   pending[w][k].s = i /\ pending[w][k].task \in {"close", "close and count"}

\* The destructor returns: the spin is bounded and every thread is told to quit
\* (kcp_server.cc:32-68).
DestructorEnds == life = "spinning" ~> life = "gone"
===============================================================================
