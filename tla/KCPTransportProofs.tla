-------------------------- MODULE KCPTransportProofs --------------------------
(***************************************************************************)
(* Theorems about KCPTransport, for any number of workers, sessions and    *)
(* datagrams: the socket, the datagrams up to their worker, the loops of   *)
(* the workers with their tasks, sessions and transmit queues, the order   *)
(* in which a loop calls a session back, and ~KCPServer: the tasks it      *)
(* posts and counts, and the sessions that are open when their loop ends.  *)
(***************************************************************************)
EXTENDS KCPTransport, KCPPacketProofs, FiniteSetTheorems, SequenceTheorems

-------------------------------------------------------------------------------
(* The socket.                                                             *)

\* A world has a socket and a kernel.
IsWorld(w) ==
    /\ "socket" \in DOMAIN w /\ "kernel" \in DOMAIN w
    /\ {"sockfd_", "addr_family_", "socket_options_"} \subseteq DOMAIN w.socket

\* No descriptor is open, and the socket has none.
Closed(w) == IsWorld(w) /\ w.kernel = {} /\ w.socket.sockfd_ = kInvalidSocket

\* The socket's descriptor is open, and no other.
Opened(w, options, bound) ==
    /\ IsWorld(w)
    /\ w.socket.sockfd_ \in Nat /\ w.socket.socket_options_ = {"RECEIVE_ERROR"}
    /\ \E d : /\ w.kernel = {d}
              /\ {"fd", "options", "bound"} \subseteq DOMAIN d
              /\ d.fd = w.socket.sockfd_ /\ d.options = options /\ d.bound = bound

\* Closing leaves no descriptor.
LEMMA CloseOpened ==
    ASSUME NEW w, NEW options, NEW bound, Opened(w, options, bound)
    PROVE  Closed(Close(w))
<1>1. PICK d : w.kernel = {d} /\ d.fd = w.socket.sockfd_
  BY DEF Opened
<1>2. Descriptor(w) = d
  BY <1>1 DEF Descriptor
<1>3. IsValidSocket(w.socket)
  BY DEF Opened, IsValidSocket, kInvalidSocket
<1> DEFINE s == [w.socket EXCEPT !.sockfd_ = kInvalidSocket, !.addr_family_ = "AF_UNSPEC",
                                 !.socket_options_ = {}]
<1>4. Close(w) = [socket |-> s, kernel |-> {}]
  BY <1>1, <1>2, <1>3 DEF Close
<1>5. s.sockfd_ = kInvalidSocket /\ {"sockfd_", "addr_family_", "socket_options_"} \subseteq DOMAIN s
  BY DEF Opened, IsWorld
<1> HIDE DEF s
<1> QED BY <1>4, <1>5 DEF Closed, IsWorld

\* Closing what is closed changes nothing.
LEMMA CloseClosed ==
    ASSUME NEW w, Closed(w)
    PROVE  Close(w) = w
BY DEF Closed, Close, IsValidSocket

\* CreateSocket gives descriptor 0 to a process without one.
LEMMA CreateClosed ==
    ASSUME NEW w, Closed(w), w.socket.socket_options_ = {"RECEIVE_ERROR"}, NEW family,
           NEW o \in CreateSocket(w, family)
    PROVE  \/ o.rc < 0 /\ o.world = w
           \/ ~(o.rc < 0) /\ Opened(o.world, {}, FALSE)
<1> DEFINE fd == CHOOSE n \in 0..Cardinality(w.kernel) :
                     /\ \A d \in w.kernel : d.fd # n
                     /\ \A k \in 0..(n - 1) : \E d \in w.kernel : d.fd = k
           s == [w.socket EXCEPT !.sockfd_ = fd, !.addr_family_ = family]
           d1 == [fd |-> fd, options |-> {}, bound |-> FALSE]
           v == [socket |-> s, kernel |-> w.kernel \cup {d1}]
           good == Outcome(0, v)
           bad == Outcome(Error, w)
<1>1. w.kernel = {} /\ Cardinality(w.kernel) = 0
  BY FS_EmptySet DEF Closed
<1>2. fd = 0
  BY <1>1
<1>3. o \in {bad} \cup IF ToSockAddr(family) THEN {good} ELSE {}
  BY Zenon DEF CreateSocket
<1> HIDE DEF fd
<1>4. /\ s.sockfd_ = fd /\ s.socket_options_ = {"RECEIVE_ERROR"}
      /\ {"sockfd_", "addr_family_", "socket_options_"} \subseteq DOMAIN s
  BY DEF Closed, IsWorld
<1> HIDE DEF s
<1>5. Opened(v, {}, FALSE)
  <2>1. v.kernel = {d1} /\ d1.fd = fd /\ d1.options = {} /\ {"fd", "options", "bound"} \subseteq DOMAIN d1
    BY <1>1
  <2>2. d1.bound = FALSE
    BY Zenon
  <2>3. v.socket = s /\ "socket" \in DOMAIN v /\ "kernel" \in DOMAIN v
    OBVIOUS
  <2> HIDE DEF v, d1
  <2> QED BY <1>2, <1>4, <2>1, <2>2, <2>3 DEF Opened, IsWorld
<1> HIDE DEF v
<1>6. good.rc = 0 /\ good.world = v /\ bad.rc = -1 /\ bad.world = w
  BY DEF Outcome, Error
<1> HIDE DEF good, bad
<1>7. o = bad \/ o = good
  BY <1>3
<1>8. CASE o = bad
  <2>1. o.rc < 0 /\ o.world = w
    BY <1>6, <1>8
  <2> QED BY <2>1, Zenon
<1>9. CASE o = good
  <2>1. o.world = v /\ ~(o.rc < 0)
    BY <1>6, <1>9
  <2> QED BY <1>5, <2>1, Zenon
<1> QED BY <1>7, <1>8, <1>9

\* A system call on the descriptor fails or leaves d2 in its place.
LEMMA SyscallOpened ==
    ASSUME NEW w, NEW options, NEW bound, Opened(w, options, bound), NEW opt2, NEW bound2,
           NEW d2, {"fd", "options", "bound"} \subseteq DOMAIN d2,
           d2.fd = w.socket.sockfd_, d2.options = opt2, d2.bound = bound2,
           NEW o \in Syscall(w, d2)
    PROVE  \/ o.rc < 0 /\ o.world = w
           \/ ~(o.rc < 0) /\ Opened(o.world, opt2, bound2)
<1>1. PICK d : w.kernel = {d} /\ d.fd = w.socket.sockfd_
  BY DEF Opened
<1>2. Descriptor(w) = d
  BY <1>1 DEF Descriptor
<1> DEFINE v == [w EXCEPT !.kernel = (@ \ {Descriptor(w)}) \cup {d2}]
           good == Outcome(0, v)
           bad == Outcome(Error, w)
<1>3. v.kernel = {d2} /\ v.socket = w.socket /\ "socket" \in DOMAIN v /\ "kernel" \in DOMAIN v
  BY <1>1, <1>2 DEF Opened, IsWorld
<1>4. o = bad \/ o = good
  BY Zenon DEF Syscall
<1> HIDE DEF v
<1>5. Opened(v, opt2, bound2)
  BY <1>3 DEF Opened, IsWorld
<1>6. good.rc = 0 /\ good.world = v /\ bad.rc = -1 /\ bad.world = w
  BY DEF Outcome, Error
<1> HIDE DEF good, bad
<1> QED BY <1>4, <1>5, <1>6

\* The descriptor with another member.
LEMMA DescriptorExcept ==
    ASSUME NEW w, NEW options, NEW bound, Opened(w, options, bound)
    PROVE  /\ LET d == Descriptor(w) IN
                  /\ {"fd", "options", "bound"} \subseteq DOMAIN d
                  /\ d.fd = w.socket.sockfd_ /\ d.options = options /\ d.bound = bound
           /\ LET d == [Descriptor(w) EXCEPT !.options = w.socket.socket_options_] IN
                  /\ {"fd", "options", "bound"} \subseteq DOMAIN d
                  /\ d.fd = w.socket.sockfd_ /\ d.options = {"RECEIVE_ERROR"} /\ d.bound = bound
           /\ LET d == [Descriptor(w) EXCEPT !.bound = TRUE] IN
                  /\ {"fd", "options", "bound"} \subseteq DOMAIN d
                  /\ d.fd = w.socket.sockfd_ /\ d.options = options /\ d.bound = TRUE
<1>1. PICK d : /\ w.kernel = {d}
               /\ {"fd", "options", "bound"} \subseteq DOMAIN d
               /\ d.fd = w.socket.sockfd_ /\ d.options = options /\ d.bound = bound
  BY DEF Opened
<1>2. Descriptor(w) = d
  BY <1>1 DEF Descriptor
<1>3. w.socket.socket_options_ = {"RECEIVE_ERROR"}
  BY DEF Opened
<1> HIDE <1>1
<1>4. /\ {"fd", "options", "bound"} \subseteq DOMAIN d
      /\ d.fd = w.socket.sockfd_ /\ d.options = options /\ d.bound = bound
  BY <1>1
<1>5. LET e == [d EXCEPT !.options = w.socket.socket_options_] IN
                  /\ {"fd", "options", "bound"} \subseteq DOMAIN e
                  /\ e.fd = w.socket.sockfd_ /\ e.options = {"RECEIVE_ERROR"} /\ e.bound = bound
  BY <1>3, <1>4
<1>6. LET e == [d EXCEPT !.bound = TRUE] IN
                  /\ {"fd", "options", "bound"} \subseteq DOMAIN e
                  /\ e.fd = w.socket.sockfd_ /\ e.options = options
  BY <1>4
<1>7. [d EXCEPT !.bound = TRUE].bound = TRUE
  BY <1>4, Zenon
<1> QED BY <1>2, <1>4, <1>5, <1>6, <1>7, Zenon

\* An error leaves the descriptor open or none, success leaves it as given.
Reached(o, options, bound) ==
    IF o.rc < 0 THEN Closed(o.world) \/ \E opt2, bound2 : Opened(o.world, opt2, bound2)
    ELSE Opened(o.world, options, bound)

\* Bind: one descriptor that is bound and reports errors, or none.
LEMMA BindReached ==
    ASSUME NEW w, Closed(w), w.socket.socket_options_ = {"RECEIVE_ERROR"}, NEW family,
           NEW o \in Bind(w, family)
    PROVE  IF o.rc < 0 THEN Closed(o.world) ELSE Opened(o.world, {"RECEIVE_ERROR"}, TRUE)
<1>1. ASSUME NEW u, Opened(u, {"RECEIVE_ERROR"}, FALSE), NEW p \in BindImpl(u, family)
      PROVE  Reached(p, {"RECEIVE_ERROR"}, TRUE)
  <2> DEFINE d == [Descriptor(u) EXCEPT !.bound = TRUE]
  <2>1. /\ {"fd", "options", "bound"} \subseteq DOMAIN d
        /\ d.fd = u.socket.sockfd_ /\ d.options = {"RECEIVE_ERROR"} /\ d.bound = TRUE
    BY <1>1, DescriptorExcept, Zenon
  <2>2. p \in Syscall(u, d) \/ p = Outcome(Error, u)
    BY <1>1 DEF BindImpl
  <2> HIDE DEF d
  <2>3. CASE p \in Syscall(u, d)
    <3>1. \/ p.rc < 0 /\ p.world = u
          \/ ~(p.rc < 0) /\ Opened(p.world, {"RECEIVE_ERROR"}, TRUE)
      BY <1>1, <2>1, <2>3, SyscallOpened
    <3> QED BY <1>1, <3>1, Zenon DEF Reached
  <2>4. CASE p = Outcome(Error, u)
    <3>1. p.rc < 0 /\ p.world = u
      BY <2>4 DEF Outcome, Error
    <3> QED BY <1>1, <3>1, Zenon DEF Reached
  <2> QED BY <2>2, <2>3, <2>4
<1>2. ASSUME NEW u, Opened(u, {}, FALSE), NEW p \in SetSocketOptions(u)
      PROVE  Reached(p, {"RECEIVE_ERROR"}, FALSE)
  <2> DEFINE d == [Descriptor(u) EXCEPT !.options = u.socket.socket_options_]
  <2>1. /\ {"fd", "options", "bound"} \subseteq DOMAIN d
        /\ d.fd = u.socket.sockfd_ /\ d.options = {"RECEIVE_ERROR"} /\ d.bound = FALSE
    BY <1>2, DescriptorExcept, Zenon
  <2>2. p \in Syscall(u, d)
    BY <1>2 DEF SetSocketOptions, Opened
  <2> HIDE DEF d
  <2>3. \/ p.rc < 0 /\ p.world = u
        \/ ~(p.rc < 0) /\ Opened(p.world, {"RECEIVE_ERROR"}, FALSE)
    BY <1>2, <2>1, <2>2, SyscallOpened
  <2> QED BY <1>2, <2>3, Zenon DEF Reached
<1>3. ASSUME NEW v, Opened(v, {}, FALSE),
             NEW p \in Then(SetSocketOptions(v), LAMBDA u : BindImpl(u, family))
      PROVE  Reached(p, {"RECEIVE_ERROR"}, TRUE)
  <2>1. PICK q \in SetSocketOptions(v) : p \in IF q.rc < 0 THEN {q} ELSE BindImpl(q.world, family)
    BY <1>3 DEF Then
  <2>2. Reached(q, {"RECEIVE_ERROR"}, FALSE)
    BY <1>2, <1>3, <2>1
  <2>3. CASE q.rc < 0
    BY <2>1, <2>2, <2>3, Zenon DEF Reached
  <2>4. CASE ~(q.rc < 0)
    BY <1>1, <2>1, <2>2, <2>4, Zenon DEF Reached
  <2> QED BY <2>3, <2>4
<1>4. PICK p \in Then(CreateSocket(w, family),
                      LAMBDA v : Then(SetSocketOptions(v), LAMBDA u : BindImpl(u, family))) :
          o = IF p.rc < 0 THEN Outcome(p.rc, Close(p.world)) ELSE p
  BY Zenon DEF Bind
<1>5. PICK q \in CreateSocket(w, family) :
          p \in IF q.rc < 0 THEN {q}
                ELSE Then(SetSocketOptions(q.world), LAMBDA u : BindImpl(u, family))
  BY <1>4 DEF Then
<1>6. \/ q.rc < 0 /\ q.world = w
      \/ ~(q.rc < 0) /\ Opened(q.world, {}, FALSE)
  BY CreateClosed
<1>7. Reached(p, {"RECEIVE_ERROR"}, TRUE)
  BY <1>3, <1>5, <1>6, Zenon DEF Reached
<1>8. CASE p.rc < 0
  <2>1. o.rc = p.rc /\ o.world = Close(p.world)
    BY <1>4, <1>8 DEF Outcome
  <2>2. Closed(Close(p.world))
    BY <1>7, <1>8, CloseOpened, CloseClosed DEF Reached
  <2> QED BY <1>8, <2>1, <2>2
<1>9. CASE ~(p.rc < 0)
  BY <1>4, <1>7, <1>9, Zenon DEF Reached
<1> QED BY <1>8, <1>9

\* Listen: one descriptor that is bound and reports errors, or none.
LEMMA ListenReached ==
    ASSUME Closed(world), NEW family, NEW o \in ListenSocket(family)
    PROVE  IF o.rc < 0 THEN Closed(o.world) ELSE Opened(o.world, {"RECEIVE_ERROR"}, TRUE)
<1> DEFINE start == [world EXCEPT !.socket = Allow(NewUDPSocket, "RECEIVE_ERROR")]
           Good(p) == Reached(p, {"RECEIVE_ERROR"}, TRUE)
<1>1. Closed(start) /\ start.socket.socket_options_ = {"RECEIVE_ERROR"}
  <2> DEFINE s == Allow(NewUDPSocket, "RECEIVE_ERROR")
  <2>1. /\ {"sockfd_", "addr_family_", "socket_options_"} \subseteq DOMAIN s
        /\ s.sockfd_ = kInvalidSocket /\ s.socket_options_ = {"RECEIVE_ERROR"}
    BY DEF Allow, NewUDPSocket
  <2>0. start = [world EXCEPT !.socket = s]
    OBVIOUS
  <2> HIDE DEF s, start
  <2>2. start.socket = s /\ start.kernel = {} /\ "socket" \in DOMAIN start /\ "kernel" \in DOMAIN start
    BY <2>0 DEF Closed, IsWorld
  <2> QED BY <2>1, <2>2 DEF Closed, IsWorld
<1>2. ASSUME NEW u, Opened(u, {"RECEIVE_ERROR"}, TRUE), NEW p \in SetBufferSize(u, kMaxPacketSize)
      PROVE  Good(p)
  <2> DEFINE d == Descriptor(u)
  <2>1. /\ {"fd", "options", "bound"} \subseteq DOMAIN d
        /\ d.fd = u.socket.sockfd_ /\ d.options = {"RECEIVE_ERROR"} /\ d.bound = TRUE
    BY <1>2, DescriptorExcept, Zenon
  <2>2. p \in Syscall(u, d)
    BY <1>2, TransportAssumption DEF SetBufferSize
  <2> HIDE DEF d
  <2>3. \/ p.rc < 0 /\ p.world = u
        \/ ~(p.rc < 0) /\ Opened(p.world, {"RECEIVE_ERROR"}, TRUE)
    BY <1>2, <2>1, <2>2, SyscallOpened
  <2> QED BY <1>2, <2>3, Zenon DEF Reached
<1>3. ASSUME NEW u, Opened(u, {"RECEIVE_ERROR"}, TRUE), NEW p \in GetLocalAddress(u)
      PROVE  Good(p)
  <2>1. p.world = u
    BY <1>3 DEF GetLocalAddress, Outcome
  <2> QED BY <1>3, <2>1, Zenon DEF Reached
<1>4. ASSUME NEW u, Opened(u, {"RECEIVE_ERROR"}, TRUE),
             NEW p \in Then(SetBufferSize(u, kMaxPacketSize), GetLocalAddress)
      PROVE  Good(p)
  <2>1. PICK q \in SetBufferSize(u, kMaxPacketSize) :
            p \in IF q.rc < 0 THEN {q} ELSE GetLocalAddress(q.world)
    BY <1>4 DEF Then
  <2>2. Good(q)
    BY <1>2, <1>4, <2>1
  <2> QED BY <1>3, <2>1, <2>2, Zenon DEF Reached
<1>5. ASSUME NEW u, Opened(u, {"RECEIVE_ERROR"}, TRUE),
             NEW p \in Then(SetBufferSize(u, kMaxPacketSize),
                            LAMBDA v : Then(SetBufferSize(v, kMaxPacketSize), GetLocalAddress))
      PROVE  Good(p)
  <2>1. PICK q \in SetBufferSize(u, kMaxPacketSize) :
            p \in IF q.rc < 0 THEN {q} ELSE Then(SetBufferSize(q.world, kMaxPacketSize), GetLocalAddress)
    BY <1>5 DEF Then
  <2>2. Good(q)
    BY <1>2, <1>5, <2>1
  <2> QED BY <1>4, <2>1, <2>2, Zenon DEF Reached
<1>6. PICK p \in Then(Bind(start, family),
                      LAMBDA u : Then(SetBufferSize(u, kMaxPacketSize),
                      LAMBDA v : Then(SetBufferSize(v, kMaxPacketSize), GetLocalAddress))) :
          o = IF p.rc < 0 THEN Outcome(p.rc, Close(p.world)) ELSE p
  BY Zenon DEF ListenSocket
<1>7. PICK q \in Bind(start, family) :
          p \in IF q.rc < 0 THEN {q}
                ELSE Then(SetBufferSize(q.world, kMaxPacketSize),
                          LAMBDA v : Then(SetBufferSize(v, kMaxPacketSize), GetLocalAddress))
  BY <1>6 DEF Then
<1>8. IF q.rc < 0 THEN Closed(q.world) ELSE Opened(q.world, {"RECEIVE_ERROR"}, TRUE)
  <2> HIDE DEF start
  <2> QED BY <1>1, <1>7, BindReached
<1>9. Good(p)
  BY <1>5, <1>7, <1>8, Zenon DEF Reached
<1>10. CASE p.rc < 0
  <2>1. o.rc = p.rc /\ o.world = Close(p.world)
    BY <1>6, <1>10 DEF Outcome
  <2>2. Closed(Close(p.world))
    BY <1>9, <1>10, CloseOpened, CloseClosed DEF Reached
  <2> QED BY <1>10, <2>1, <2>2
<1>11. CASE ~(p.rc < 0)
  BY <1>6, <1>9, <1>11, Zenon DEF Reached
<1> QED BY <1>10, <1>11

\* While the server listens and is taken down its socket is open, before and after that it is not;
\* workers run only in between.
SocketInv ==
    /\ life \in {"constructed", "listening", "spinning", "unwinding", "gone", "crashed"}
    /\ life \in {"constructed", "gone", "crashed"} => Closed(world) /\ running = {}
    /\ life \in {"listening", "spinning", "unwinding"} => Opened(world, {"RECEIVE_ERROR"}, TRUE)

\* Init establishes SocketInv.
LEMMA SocketInit == Init => SocketInv
<1> SUFFICES ASSUME Init PROVE SocketInv
  OBVIOUS
<1>1. life = "constructed" /\ running = {}
  BY DEF Init
<1>2. world = [socket |-> NewUDPSocket, kernel |-> {}]
  BY DEF Init
<1>3. Closed(world)
  BY <1>2 DEF Closed, IsWorld, NewUDPSocket
<1> QED BY <1>1, <1>3 DEF SocketInv

\* Every step keeps SocketInv.
LEMMA SocketStep == SocketInv /\ [Next]_vars => SocketInv'
<1> SUFFICES ASSUME SocketInv, [Next]_vars PROVE SocketInv'
  OBVIOUS
<1>1. ASSUME UNCHANGED <<life, world>>, running' \subseteq running PROVE SocketInv'
  BY <1>1 DEF SocketInv, Closed, Opened, IsWorld
<1>2. ASSUME NEW f, Listen(f) PROVE SocketInv'
  <2>1. life = "constructed" /\ Closed(world) /\ running = {}
    BY <1>2 DEF Listen, SocketInv
  <2>2. PICK o \in ListenSocket(f) :
           IF o.rc < 0
           THEN /\ world' = [world EXCEPT !.kernel = o.world.kernel]
                /\ UNCHANGED <<life, running>>
           ELSE /\ world' = o.world
                /\ life' = "listening"
                /\ running' = Workers
    BY <1>2 DEF Listen
  <2>3. IF o.rc < 0 THEN Closed(o.world) ELSE Opened(o.world, {"RECEIVE_ERROR"}, TRUE)
    BY <2>1, <2>2, ListenReached
  <2>4. CASE o.rc < 0
    <3>1. Closed(world')
      BY <2>1, <2>2, <2>3, <2>4 DEF Closed, IsWorld
    <3> QED BY <2>1, <2>2, <2>4, <3>1 DEF SocketInv, Closed, IsWorld
  <2>5. CASE ~(o.rc < 0)
    <3>1. Opened(world', {"RECEIVE_ERROR"}, TRUE) /\ life' = "listening"
      BY <2>2, <2>3, <2>5, Zenon
    <3> QED BY <3>1, Zenon DEF SocketInv, Opened, IsWorld
  <2> QED BY <2>4, <2>5
<1>3. ASSUME DestroyUnlistened PROVE SocketInv'
  <2>1. life = "constructed" /\ life' = "crashed" /\ world' = world /\ running' = running
    BY <1>3 DEF DestroyUnlistened
  <2> QED BY <2>1 DEF SocketInv, Closed, IsWorld
<1>4. ASSUME UNCHANGED <<world, running>>,
             life \in {"listening", "spinning", "unwinding"}, life' \in {"spinning", "unwinding"}
      PROVE  SocketInv'
  <2>1. Opened(world, {"RECEIVE_ERROR"}, TRUE)
    BY <1>4 DEF SocketInv
  <2>2. Opened(world', {"RECEIVE_ERROR"}, TRUE)
    BY <1>4, <2>1, Zenon
  <2> QED BY <1>4, <2>2 DEF SocketInv, Opened, IsWorld
<1>5. ASSUME CloseSocket PROVE SocketInv'
  <2>1. life = "unwinding" /\ running = {} /\ life' = "gone" /\ world' = Close(world) /\ running' = {}
    BY <1>5 DEF CloseSocket, workVars
  <2>2. Closed(world')
    BY <2>1, CloseOpened DEF SocketInv
  <2> QED BY <2>1, <2>2 DEF SocketInv, Closed, IsWorld
<1>6. CASE UNCHANGED vars
  BY <1>1, <1>6 DEF vars, baseVars, workVars
<1>7. CASE \E a \in Arrivals : Deliver(a)
  BY <1>1, <1>7 DEF Deliver, Arrive, baseVars, workVars
<1>8. CASE \E w \in Workers : Bounce(w)
  BY <1>1, <1>8 DEF Bounce, baseVars, workVars
<1>9. CASE HandleRead
  BY <1>1, <1>9 DEF HandleRead, baseVars, workVars
<1>10. CASE ProcessPacket
  BY <1>1, <1>10 DEF ProcessPacket
<1>11. CASE HandleError
  BY <1>1, <1>11 DEF HandleError, baseVars, workVars
<1>12. CASE \E w \in Workers : LoopEnds(w)
  BY <1>1, <1>12 DEF LoopEnds, baseVars
<1>13. CASE \E w \in Workers : RunTask(w)
  BY <1>1, <1>13 DEF RunTask, baseVars
<1>14. CASE \E w \in Workers, i \in DOMAIN sessions : StateTimer(w, i)
  BY <1>1, <1>14 DEF StateTimer, baseVars
<1>15. CASE Destroy
  BY <1>4, <1>15 DEF Destroy, workVars
<1>16. CASE Spin \/ QuitNext
  BY <1>1, <1>16 DEF Spin, QuitNext, workVars
<1>17. CASE SpinEnds
  BY <1>4, <1>17 DEF SpinEnds, workVars
<1> QED BY <1>2, <1>3, <1>5, <1>6, <1>7, <1>8, <1>9, <1>10, <1>11, <1>12, <1>13, <1>14, <1>15,
           <1>16, <1>17 DEF Next, Destructor

\* The server's socket is the only open descriptor, it is open as long as a worker runs, and closed
\* in the end: Listen's failures and ~KCPServer leak and lose none (kcp_server.cc:63-67, 83-106).
THEOREM ServerOneDescriptor == Spec => []OneDescriptor
<1>1. SocketInv => OneDescriptor
  <2> SUFFICES ASSUME SocketInv PROVE OneDescriptor
    OBVIOUS
  <2>1. CASE Closed(world)
    BY <2>1 DEF SocketInv, OneDescriptor, Closed, Opened, kInvalidSocket
  <2>2. CASE Opened(world, {"RECEIVE_ERROR"}, TRUE)
    <3>1. PICK d : /\ world.kernel = {d}
                   /\ d.fd = world.socket.sockfd_ /\ d.options = {"RECEIVE_ERROR"} /\ d.bound = TRUE
      BY <2>2 DEF Opened
    <3>2. world.socket.sockfd_ \in Nat
      BY <2>2 DEF Opened
    <3>3. {e.fd : e \in world.kernel} = {world.socket.sockfd_} \ {kInvalidSocket}
      BY <3>1, <3>2 DEF kInvalidSocket
    <3>4. \A e \in world.kernel : e.bound /\ e.options = {"RECEIVE_ERROR"}
      <4>1. d.bound
        BY <3>1, Zenon
      <4> QED BY <3>1, <4>1, Zenon
    <3>5. IsValidSocket(world.socket)
      BY <3>2 DEF IsValidSocket, kInvalidSocket
    <3>6. life # "gone"
      BY <3>1 DEF SocketInv, Closed
    <3> QED BY <3>3, <3>4, <3>5, <3>6 DEF OneDescriptor
  <2> QED BY <2>1, <2>2 DEF SocketInv
<1> QED BY <1>1, SocketInit, SocketStep, PTL DEF Spec

-------------------------------------------------------------------------------
(* Datagrams.                                                              *)

\* The datagram d is what client a.from wrote under the number n.
Whole(d, a, n) ==
    LET r == ReadPublicHeader(Received(d)) IN
    /\ Len(d) \in 1..kMaxPacketSize
    /\ r.code = "SUCCESS"
    /\ r.header = [packet_type |-> a.type, session_id |-> a.id]
    /\ RemainingData(r.packet) = IF a.type = "DATA" THEN <<n>> ELSE <<>>

\* HandleRead refuses the datagram d.
Refused(d) == Len(d) > kMaxPacketSize \/ ReadPublicHeader(Received(d)).code # "SUCCESS"

\* The body of the buffer a client fills has one number, or nothing.
LEMMA SentBuffer ==
    ASSUME NEW n \in Nat, NEW one \in {0, 1}
    PROVE  LET buf == [i \in 1..(kPublicHeaderLength + one) |->
                           IF i > kPublicHeaderLength THEN n ELSE 0]
           IN /\ buf \in Data /\ Len(buf) = kPublicHeaderLength + one
              /\ n \in Byte => buf \in Bytes
              /\ one = 1 => After(buf, kPublicHeaderLength) = <<n>>
              /\ one = 0 => After(buf, kPublicHeaderLength) = <<>>
<1> DEFINE H == kPublicHeaderLength
           buf == [i \in 1..(H + one) |-> IF i > H THEN n ELSE 0]
           Elt(i) == IF i > H THEN n ELSE 0
<1>1. H \in Nat
  BY Lengths
<1>0. Base \in Nat /\ Base > 6
  BY PacketAssumption
<1> HIDE DEF H
<1>2. H + one \in Nat /\ \A i \in 1..(H + one) : Elt(i) \in Item
  BY <1>1 DEF Item
<1>3. n \in Byte => \A i \in 1..(H + one) : Elt(i) \in Byte
  BY <1>0, <1>1 DEF Byte
<1> DEFINE m == H + one
<1>4. buf \in [1..m -> Item] /\ m \in Nat
  BY <1>2
<1>5. n \in Byte => buf \in [1..m -> Byte]
  BY <1>3
<1>6. /\ buf \in Data /\ Len(buf) = m
      /\ n \in Byte => buf \in Bytes
  <2> HIDE DEF m, buf
  <2> QED BY <1>4, <1>5 DEF Data, Bytes
<1>7. /\ After(buf, H) \in Data /\ Len(After(buf, H)) = m - H
      /\ \A j \in 1..(m - H) : After(buf, H)[j] = buf[H + j]
  <2>1. H \in 0..Len(buf)
    BY <1>1, <1>6
  <2> HIDE DEF buf, m
  <2> QED BY <1>6, <2>1, AfterBytes
<1>8. ASSUME one = 1 PROVE After(buf, H) = <<n>>
  <2>1. m - H = 1 /\ buf[H + 1] = n
    BY <1>1, <1>8
  <2> DEFINE t == After(buf, H)
             k == m - H
  <2>2. k = 1 /\ t \in Data /\ Len(t) = k /\ t[1] = n
    <3> HIDE DEF buf
    <3> QED BY <1>7, <2>1
  <2>3. <<n>> \in Data /\ Len(<<n>>) = k /\ <<n>>[1] = n
    BY <2>2 DEF Data, Item
  <2> HIDE DEF t, k
  <2>4. t = <<n>>
    <3> DEFINE u == <<n>>
    <3> HIDE DEF u
    <3>1. u \in Data /\ Len(u) = k /\ u[1] = n
      BY <2>3 DEF u
    <3>2. \A j \in 1..Len(t) : t[j] = u[j]
      BY <2>2, <3>1
    <3>3. t = u
      BY <2>2, <3>1, <3>2, BytesEqual
    <3> QED BY <3>3 DEF u
  <2> QED BY <2>4 DEF t
<1>9. ASSUME one = 0 PROVE After(buf, H) = <<>>
  <2> DEFINE t == After(buf, H)
  <2>1. t \in Data /\ Len(t) = 0
    <3> HIDE DEF buf
    <3> QED BY <1>1, <1>7, <1>9
  <2> HIDE DEF t
  <2>2. t = <<>>
    BY <2>1, EmptySeq DEF Data
  <2> QED BY <2>2 DEF t
<1> QED BY <1>6, <1>8, <1>9 DEF H

\* What the provers need to know of the assumptions on the constants.
LEMMA Parameters ==
    /\ Range(PacketTypes) = Types
    /\ Ids \subseteq Word
    /\ Arrivals \subseteq [type : Types, id : Ids, from : Addresses]
    /\ kPublicHeaderLength \in Nat /\ kMaxPacketSize \in Nat /\ kMaxPacketSize > kPublicHeaderLength
    /\ MaxArrivals \in Nat /\ \A n \in 0..MaxArrivals : n \in Byte
<1>1. Range(PacketTypes) = Types
  BY DEF Range, PacketTypes, Types
<1>2. Ids \subseteq Word
  BY TransportAssumption DEF Word
<1>3. MaxArrivals \in Nat /\ \A n \in 0..MaxArrivals : n \in Byte
  BY TransportAssumption, PacketAssumption DEF Byte
<1>4. kPublicHeaderLength \in Nat
  BY Lengths
<1> QED BY <1>1, <1>2, <1>3, <1>4, TransportAssumption

\* What a client sends is whole, and HandleRead refuses what the network makes of it.
LEMMA SentOrOdd ==
    ASSUME NEW a \in Arrivals, NEW n \in 1..MaxArrivals
    PROVE  /\ Sent(a, n) \in Data /\ Whole(Sent(a, n), a, n)
           /\ \A other \in Misshapen(Sent(a, n)) : other \in Data /\ Refused(other)
<1> DEFINE H == kPublicHeaderLength
           one == IF a.type = "DATA" THEN 1 ELSE 0
           buf == [i \in 1..(H + one) |-> IF i > H THEN n ELSE 0]
           d == WritePublicHeader(a.type, a.id, buf)
<1>1. /\ a.type \in Types /\ a.id \in Word /\ n \in Byte /\ n \in Nat
      /\ H \in Nat /\ kMaxPacketSize \in Nat /\ kMaxPacketSize > H
  BY Parameters
<1>2. Sent(a, n) = d
  BY DEF Sent
<1>3. /\ buf \in Bytes /\ buf \in Data /\ Len(buf) = H + one
      /\ After(buf, H) = IF a.type = "DATA" THEN <<n>> ELSE <<>>
  <2>1. one \in {0, 1}
    OBVIOUS
  <2>2. /\ buf \in Data /\ Len(buf) = H + one
        /\ n \in Byte => buf \in Bytes
        /\ one = 1 => After(buf, H) = <<n>>
        /\ one = 0 => After(buf, H) = <<>>
    <3> HIDE DEF one
    <3> QED BY <1>1, <2>1, SentBuffer
  <2> HIDE DEF buf
  <2> QED BY <1>1, <2>2
<1>4. one \in {0, 1}
  OBVIOUS
<1> HIDE DEF buf, one
<1>5. Len(buf) >= H
  BY <1>1, <1>3, <1>4
<1>6. d \in Data /\ d \in Bytes /\ Len(d) = H + one
  <2> HIDE DEF H
  <2> QED BY <1>1, <1>3, <1>5, PacketContents DEF H
<1>7. LET r == ReadPublicHeader(Received(d))
      IN /\ r.code = "SUCCESS"
         /\ r.header = [packet_type |-> a.type, session_id |-> a.id]
         /\ RemainingData(r.packet) = After(buf, H)
  BY <1>1, <1>3, <1>5, PacketReadBack
<1>8. ASSUME NEW other, NEW i, DifferAt(d, other, i)
      PROVE  other \in Data /\ Refused(other)
  <2>1. other \in Data
    BY <1>8, BytesAreData DEF DifferAt
  <2> QED BY <1>1, <1>3, <1>5, <1>8, <2>1, DamageNoticed DEF Refused
<1> HIDE DEF d
<1>9. H \in Nat \ {0} /\ WordLength \in Nat /\ WordLength < H
  BY Lengths
<1>10. Whole(d, a, n)
  <2>1. Len(d) \in 1..kMaxPacketSize
    BY <1>1, <1>4, <1>6, <1>9
  <2> QED BY <1>3, <1>7, <2>1 DEF Whole
<1>11. ASSUME NEW other \in Misshapen(d) PROVE other \in Data /\ Refused(other)
  <2>1. CASE \E i \in Damaged \cap DOMAIN d : other = [d EXCEPT ![i] = (@ + 1) % Base]
    <3>1. PICK i \in DOMAIN d : other = [d EXCEPT ![i] = (d[i] + 1) % Base]
      BY <2>1
    <3> DEFINE x == d[i]
               y == (x + 1) % Base
    <3>2. i \in 1..Len(d) /\ x \in Byte
      BY <1>6 DEF Bytes
    <3>3. y \in Byte /\ y # x
      <4> HIDE DEF x
      <4> QED BY <3>2, PacketAssumption DEF Byte
    <3>4. other = [d EXCEPT ![i] = y]
      BY <3>1
    <3> HIDE DEF y
    <3>5. DifferAt(d, other, i)
      BY <1>6, <3>2, <3>3, <3>4 DEF DifferAt, Bytes
    <3> QED BY <1>8, <3>5
  <2>2. CASE other = SubSeq(d, 1, WordLength) \/ other = <<>>
    <3>1. other \in Data /\ Len(other) < H
      <4>1. SubSeq(d, 1, WordLength) \in Data /\ Len(SubSeq(d, 1, WordLength)) = WordLength
        BY <1>4, <1>6, <1>9 DEF Data
      <4>2. <<>> \in Data /\ Len(<<>>) = 0
        BY EmptySeq DEF Data
      <4> DEFINE short == SubSeq(d, 1, WordLength)
                 empty == <<>>
      <4>3. other = short \/ other = empty
        BY <2>2
      <4>4. short \in Data /\ Len(short) = WordLength /\ empty \in Data /\ Len(empty) = 0
        BY <4>1, <4>2, Zenon
      <4> HIDE DEF short, empty
      <4> QED BY <1>9, <4>3, <4>4
    <3>2. ReadPublicHeader(Received(other)).code # "SUCCESS"
      BY <1>1, <3>1, ReadResult
    <3> QED BY <3>1, <3>2 DEF Refused
  <2>3. CASE other = d \o [i \in 1..kMaxPacketSize |-> 0]
    <3> DEFINE zeros == [i \in 1..kMaxPacketSize |-> 0]
    <3>1. zeros \in [1..kMaxPacketSize -> Item]
      BY DEF Item
    <3> HIDE DEF zeros
    <3>2. zeros \in Data /\ Len(zeros) = kMaxPacketSize
      BY <1>1, <3>1 DEF Data
    <3>3. other = d \o zeros
      BY <2>3 DEF zeros
    <3>4. other \in Data /\ Len(other) = Len(d) + kMaxPacketSize
      BY <1>6, <3>2, <3>3, CatBytes
    <3> QED BY <1>1, <1>4, <1>6, <1>9, <3>4 DEF Refused
  <2>4. \/ other \in {[d EXCEPT ![i] = (@ + 1) % Base] : i \in Damaged \cap DOMAIN d}
        \/ other \in {SubSeq(d, 1, WordLength), <<>>}
        \/ other \in {d \o [i \in 1..kMaxPacketSize |-> 0]}
    BY Zenon DEF Misshapen
  <2>5. CASE other \in {[d EXCEPT ![i] = (@ + 1) % Base] : i \in Damaged \cap DOMAIN d}
    BY <2>1, <2>5, Zenon
  <2> QED BY <2>2, <2>3, <2>4, <2>5, Zenon
<1> QED BY <1>2, <1>6, <1>10, <1>11

-------------------------------------------------------------------------------
(* The receive queue and HandleRead's batch.                               *)

ArrivedRec == [type : Types, id : Ids, from : Addresses, odd : BOOLEAN]
PacketRec == [data : Data, from : Addresses]
SlotRec == [number : Nat, data : Data, from : Addresses]

\* What is left of HandleRead's batch, and how many datagrams ProcessPacket has seen.
Batch == IF reading = None THEN <<>> ELSE reading
Processed == Len(arrived) - Len(rcvbuf) - Len(Batch)

\* The packet p in a queue is the datagram a that came as number n.
Fits(p, a, n) == p.from = a.from /\ IF a.odd THEN Refused(p.data) ELSE Whole(p.data, a, n)

\* The receive queue and the batch hold the datagrams that came last, in order.
ReadInv ==
    /\ arrived \in Seq(ArrivedRec) /\ rcvbuf \in Seq(PacketRec) /\ errors \in Nat
    /\ reading # None => reading \in Seq(SlotRec)
    /\ Batch \in Seq(SlotRec) /\ Len(Batch) <= kNumPacketsPerRead
    /\ Len(arrived) <= MaxArrivals
    /\ Processed \in Nat
    /\ \A i \in 1..Len(rcvbuf) :
           Fits(rcvbuf[i], arrived[Len(arrived) - Len(rcvbuf) + i], Len(arrived) - Len(rcvbuf) + i)
    /\ \A j \in 1..Len(Batch) : Fits(Batch[j], arrived[Processed + j], Processed + j)

\* A batch is not None.
LEMMA NoneIsNoSlots == None \notin Seq(SlotRec)
BY NoneIsNoBatch DEF SlotRec, Data, Item

\* What ProcessPacket has seen stays as it is.
SeenStays == Processed' = Processed /\ \A i \in 1..Processed : arrived'[i] = arrived[i]

\* A datagram more.
LEMMA ArriveReads ==
    ASSUME ReadInv, reading \in {None, <<>>}, Len(arrived) + errors < MaxArrivals,
           NEW a \in ArrivedRec, NEW p \in PacketRec, Fits(p, a, Len(arrived) + 1),
           arrived' = Append(arrived, a), rcvbuf' = Append(rcvbuf, p), UNCHANGED <<errors, reading>>
    PROVE  ReadInv' /\ SeenStays
<1>1. Len(Batch) = 0 /\ Batch' = Batch /\ Batch \in Seq(SlotRec)
  BY EmptySeq DEF Batch, ReadInv
<1>2. /\ arrived' \in Seq(ArrivedRec) /\ Len(arrived') = Len(arrived) + 1
      /\ arrived'[Len(arrived) + 1] = a
      /\ \A i \in 1..Len(arrived) : arrived'[i] = arrived[i]
  BY DEF ReadInv
<1>3. /\ rcvbuf' \in Seq(PacketRec) /\ Len(rcvbuf') = Len(rcvbuf) + 1
      /\ rcvbuf'[Len(rcvbuf) + 1] = p
      /\ \A i \in 1..Len(rcvbuf) : rcvbuf'[i] = rcvbuf[i]
  BY DEF ReadInv
<1>4. Len(arrived) \in Nat /\ Len(rcvbuf) \in Nat /\ Len(rcvbuf) <= Len(arrived)
  BY <1>1 DEF ReadInv, Processed
<1>5. Len(arrived') <= MaxArrivals
  BY <1>2, <1>4, Parameters DEF ReadInv
<1>6. ASSUME NEW i \in 1..Len(rcvbuf')
      PROVE  Fits(rcvbuf'[i], arrived'[Len(arrived') - Len(rcvbuf') + i], Len(arrived') - Len(rcvbuf') + i)
  <2>1. Len(arrived') - Len(rcvbuf') + i = Len(arrived) - Len(rcvbuf) + i
    BY <1>2, <1>3, <1>4
  <2>2. CASE i = Len(rcvbuf) + 1
    <3>1. Len(arrived) - Len(rcvbuf) + i = Len(arrived) + 1
      BY <1>4, <2>2
    <3> QED BY <1>2, <1>3, <2>1, <2>2, <3>1
  <2>3. CASE i \in 1..Len(rcvbuf)
    <3>1. Len(arrived) - Len(rcvbuf) + i \in 1..Len(arrived)
      BY <1>4, <2>3
    <3>2. Fits(rcvbuf[i], arrived[Len(arrived) - Len(rcvbuf) + i], Len(arrived) - Len(rcvbuf) + i)
      BY <2>3 DEF ReadInv
    <3> DEFINE k == Len(arrived) - Len(rcvbuf) + i
    <3>3. k \in 1..Len(arrived) /\ Fits(rcvbuf[i], arrived[k], k)
      BY <3>1, <3>2
    <3> HIDE DEF k
    <3>4. arrived'[k] = arrived[k] /\ rcvbuf'[i] = rcvbuf[i]
      BY <1>2, <1>3, <2>3, <3>3
    <3>5. Fits(rcvbuf'[i], arrived'[k], k)
      BY <3>3, <3>4
    <3> QED BY <2>1, <3>5 DEF k
  <2>4. i = Len(rcvbuf) + 1 \/ i \in 1..Len(rcvbuf)
    <3>1. i \in 1..(Len(rcvbuf) + 1)
      BY <1>3
    <3> QED BY <1>4, <3>1
  <2> QED BY <2>2, <2>3, <2>4, Zenon
<1>7. Processed' \in Nat /\ Processed' = Processed
  BY <1>1, <1>2, <1>3, <1>4 DEF Processed
<1>8. 1..Len(Batch') = {} /\ Len(Batch') <= kNumPacketsPerRead
  BY <1>1, TransportAssumption
<1>9. ReadInv'
  BY <1>1, <1>2, <1>3, <1>5, <1>6, <1>7, <1>8 DEF ReadInv
<1>10. SeenStays
  <2>1. Processed \in Nat /\ Processed <= Len(arrived)
    BY <1>1, <1>4 DEF ReadInv, Processed
  <2> QED BY <1>2, <1>4, <1>7, <2>1 DEF SeenStays
<1> QED BY <1>9, <1>10

\* Cutting a datagram to the buffer hides nothing.
LEMMA CutFits ==
    ASSUME NEW p \in PacketRec, NEW a, NEW n, Fits(p, a, n)
    PROVE  LET c == Cut(p.data, kMaxPacketSize + 1)
           IN /\ c \in Data
              /\ IF a.odd THEN Refused(c) ELSE Whole(c, a, n)
<1> DEFINE d == p.data
           c == Cut(d, kMaxPacketSize + 1)
<1>1. d \in Data /\ kMaxPacketSize \in Nat
  BY Parameters DEF PacketRec
<1>2. CASE ~(Len(d) > kMaxPacketSize + 1)
  BY <1>1, <1>2 DEF Cut, Fits
<1>3. CASE Len(d) > kMaxPacketSize + 1
  <2>1. c = SubSeq(d, 1, kMaxPacketSize + 1)
    BY <1>3 DEF Cut
  <2>2. c \in Data /\ Len(c) = kMaxPacketSize + 1
    BY <1>1, <1>3, <2>1 DEF Data
  <2>3. a.odd
    BY <1>1, <1>3 DEF Fits, Whole
  <2> QED BY <1>1, <2>2, <2>3 DEF Refused
<1> QED BY <1>2, <1>3

\* A batch is taken from the front of the queue.
LEMMA BatchReads ==
    ASSUME ReadInv, reading \in {None, <<>>}, rcvbuf # <<>>, ReadBatch,
           UNCHANGED <<arrived, errors>>
    PROVE  ReadInv' /\ SeenStays
<1> DEFINE n == RecvMmsg(rcvbuf, kNumPacketsPerRead)
           L == Len(rcvbuf)
<1>1. L \in Nat \ {0} /\ n \in 1..L /\ n <= kNumPacketsPerRead /\ n \in Nat
  BY EmptySeq, TransportAssumption DEF RecvMmsg, ReadInv
<1>2. /\ reading' = [i \in 1..n |-> [number |-> i, data |-> Cut(rcvbuf[i].data, kMaxPacketSize + 1),
                                     from |-> rcvbuf[i].from]]
      /\ rcvbuf' = SubSeq(rcvbuf, n + 1, L)
  BY DEF ReadBatch, After
<1> HIDE DEF n
<1>3. /\ rcvbuf' \in Seq(PacketRec) /\ Len(rcvbuf') = L - n
      /\ \A i \in 1..(L - n) : rcvbuf'[i] = rcvbuf[n + i]
  BY <1>1, <1>2 DEF ReadInv
<1>4. Len(Batch) = 0
  BY EmptySeq DEF Batch
<1>5. Len(arrived) \in Nat /\ L <= Len(arrived) /\ Processed = Len(arrived) - L
  BY <1>1, <1>4 DEF ReadInv, Processed
<1>6. \A i \in 1..n : /\ rcvbuf[i] \in PacketRec
                      /\ Fits(rcvbuf[i], arrived[Processed + i], Processed + i)
  <2>1. TAKE i \in 1..n
  <2>2. i \in 1..L /\ Processed + i = Len(arrived) - L + i
    BY <1>1, <1>5
  <2>3. rcvbuf[i] \in PacketRec
    BY <2>2 DEF ReadInv
  <2> QED BY <2>2, <2>3 DEF ReadInv
<1> DEFINE Slot(i) == [number |-> i, data |-> Cut(rcvbuf[i].data, kMaxPacketSize + 1),
                       from |-> rcvbuf[i].from]
<1>7. \A i \in 1..n : Slot(i) \in SlotRec /\ Fits(Slot(i), arrived[Processed + i], Processed + i)
  <2>1. TAKE i \in 1..n
  <2> DEFINE c == Cut(rcvbuf[i].data, kMaxPacketSize + 1)
             a == arrived[Processed + i]
  <2>2. c \in Data /\ IF a.odd THEN Refused(c) ELSE Whole(c, a, Processed + i)
    BY <1>6, CutFits
  <2>3. rcvbuf[i].from \in Addresses /\ rcvbuf[i].from = a.from
    BY <1>6 DEF PacketRec, Fits
  <2> HIDE DEF c, a
  <2>4. Slot(i) = [number |-> i, data |-> c, from |-> rcvbuf[i].from]
    BY DEF c
  <2>5. Slot(i) \in SlotRec /\ Slot(i).from = a.from /\ Slot(i).data = c
    BY <1>1, <2>2, <2>3, <2>4 DEF SlotRec
  <2> QED BY <2>2, <2>5 DEF Fits, a
<1>8. reading' = [i \in 1..n |-> Slot(i)]
  BY <1>2
<1> HIDE DEF Slot
<1>9. /\ reading' \in [1..n -> SlotRec]
      /\ \A j \in 1..n : reading'[j] = Slot(j)
  BY <1>7, <1>8
<1>10. reading' \in Seq(SlotRec) /\ Len(reading') = n
  BY <1>1, <1>9
<1>11. reading' # None /\ Batch' = reading'
  BY <1>10, NoneIsNoSlots DEF Batch
<1>12. Processed' = Processed
  <2>1. Processed' = Len(arrived) - Len(rcvbuf') - Len(reading')
    BY <1>11 DEF Processed
  <2> QED BY <1>1, <1>3, <1>5, <1>10, <2>1
<1>13. \A i \in 1..Len(rcvbuf') :
           Fits(rcvbuf'[i], arrived'[Len(arrived') - Len(rcvbuf') + i], Len(arrived') - Len(rcvbuf') + i)
  <2>1. TAKE i \in 1..Len(rcvbuf')
  <2>2. /\ n + i \in 1..L /\ rcvbuf'[i] = rcvbuf[n + i]
        /\ Len(arrived') - Len(rcvbuf') + i = Len(arrived) - L + (n + i)
    BY <1>1, <1>3, <1>5
  <2> QED BY <2>2 DEF ReadInv
<1>14. \A j \in 1..Len(Batch') : Fits(Batch'[j], arrived'[Processed' + j], Processed' + j)
  BY <1>7, <1>9, <1>10, <1>11, <1>12
<1>15. ReadInv'
  BY <1>1, <1>3, <1>10, <1>11, <1>12, <1>13, <1>14 DEF ReadInv
<1> QED BY <1>12, <1>15 DEF SeenStays

\* A datagram of the batch is done.
LEMMA NextReads ==
    ASSUME ReadInv, reading \notin {None, <<>>}, reading' \in {None, Tail(reading)},
           reading' = None => Len(reading) = 1,
           UNCHANGED <<arrived, rcvbuf, errors>>
    PROVE  /\ ReadInv'
           /\ Processed' = Processed + 1 /\ Processed' \in 1..Len(arrived)
           /\ Head(reading) \in SlotRec
           /\ Fits(Head(reading), arrived[Processed'], Processed')
<1>1. reading \in Seq(SlotRec) /\ Batch = reading /\ Len(reading) \in Nat \ {0} /\ reading # <<>>
  BY EmptySeq DEF ReadInv, Batch
<1>2. /\ Batch' \in Seq(SlotRec) /\ Len(Batch') = Len(reading) - 1
      /\ \A j \in 1..Len(Batch') : Batch'[j] = reading[j + 1]
      /\ reading' # None => reading' \in Seq(SlotRec)
  <2>1. CASE reading' = None
    BY <1>1, <2>1, EmptySeq DEF Batch
  <2>2. CASE reading' = Tail(reading)
    <3>1. Tail(reading) \in Seq(SlotRec)
      BY <1>1
    <3>2. Batch' = Tail(reading)
      BY <2>2, <3>1, NoneIsNoSlots DEF Batch
    <3> QED BY <1>1, <2>2, <3>1, <3>2
  <2> QED BY <2>1, <2>2
<1>3. Processed \in Nat /\ Len(arrived) \in Nat /\ Len(rcvbuf) \in Nat
  BY DEF ReadInv
<1>4. Processed' = Processed + 1 /\ Processed' \in 1..Len(arrived)
  BY <1>1, <1>2, <1>3 DEF Processed
<1>5. \A j \in 1..Len(Batch') : Fits(Batch'[j], arrived'[Processed' + j], Processed' + j)
  <2>1. TAKE j \in 1..Len(Batch')
  <2>2. j + 1 \in 1..Len(Batch) /\ Processed' + j = Processed + (j + 1) /\ Batch'[j] = Batch[j + 1]
    BY <1>1, <1>2, <1>3, <1>4
  <2> QED BY <2>2 DEF ReadInv
<1>6. Head(reading) = Batch[1] /\ 1 \in 1..Len(Batch) /\ Head(reading) \in SlotRec
  BY <1>1
<1>7. Fits(Batch[1], arrived[Processed + 1], Processed + 1)
  BY <1>6 DEF ReadInv
<1>8. ReadInv'
  <2>1. Len(Batch') <= kNumPacketsPerRead
    BY <1>1, <1>2, TransportAssumption DEF ReadInv
  <2>2. Processed' \in Nat
    BY <1>4
  <2> QED BY <1>2, <1>5, <2>1, <2>2 DEF ReadInv
<1> QED BY <1>4, <1>6, <1>7, <1>8

\* Init establishes ReadInv.
LEMMA ReadInit == Init => ReadInv
<1> SUFFICES ASSUME Init PROVE ReadInv
  OBVIOUS
<1>1. rcvbuf = <<>> /\ arrived = <<>> /\ errors = 0 /\ reading = None
  BY DEF Init
<1>2. Batch = <<>>
  BY <1>1 DEF Batch
<1>3. Processed = 0
  <2>1. Len(arrived) = 0 /\ Len(rcvbuf) = 0 /\ Len(Batch) = 0
    BY <1>1, <1>2, EmptySeq, Zenon
  <2> QED BY <2>1 DEF Processed
<1>4. /\ \A S : <<>> \in Seq(S)
      /\ Len(<<>>) = 0 /\ 1..0 = {}
  BY EmptySeq
<1>5. 0 <= kNumPacketsPerRead /\ 0 <= MaxArrivals
  BY TransportAssumption, Parameters
<1> QED BY <1>1, <1>2, <1>3, <1>4, <1>5 DEF ReadInv

\* A delivery keeps ReadInv.
LEMMA DeliverReads ==
    ASSUME ReadInv, NEW a \in Arrivals, Deliver(a)
    PROVE  ReadInv' /\ SeenStays
<1> DEFINE n == Len(arrived) + 1
           bytes == Sent(a, n)
           d(other, odd) ==
               [type |-> a.type, id |-> a.id, from |-> a.from, data |-> other, odd |-> odd]
<1>1. ASSUME NEW other, NEW odd \in BOOLEAN, Arrive(d(other, odd)), other \in Data,
             IF odd THEN Refused(other) ELSE Whole(other, a, n)
      PROVE  ReadInv' /\ SeenStays
  <2> DEFINE r == [type |-> a.type, id |-> a.id, from |-> a.from, odd |-> odd]
             p == [data |-> other, from |-> a.from]
  <2>1. a.type \in Types /\ a.id \in Ids /\ a.from \in Addresses
    BY Parameters
  <2>2. arrived' = Append(arrived, r) /\ rcvbuf' = Append(rcvbuf, p)
    BY <1>1 DEF Arrive
  <2>3. /\ reading \in {None, <<>>} /\ Len(arrived) + errors < MaxArrivals
        /\ UNCHANGED <<errors, reading>>
    BY <1>1 DEF Arrive
  <2>4. r \in ArrivedRec /\ p \in PacketRec
    BY <1>1, <2>1 DEF ArrivedRec, PacketRec
  <2>5. r.type = a.type /\ r.id = a.id /\ r.from = a.from /\ p.data = other /\ p.from = a.from
    OBVIOUS
  <2>6. r.odd = odd
    BY Zenon
  <2> HIDE DEF r, p
  <2>7. Whole(other, a, n) => Whole(other, r, n)
    BY <2>5 DEF Whole
  <2>8. p.from = r.from /\ IF r.odd THEN Refused(p.data) ELSE Whole(p.data, r, n)
    BY <1>1, <2>5, <2>6, <2>7, Zenon
  <2>9. Fits(p, r, n)
    BY <2>8, Zenon DEF Fits
  <2> QED BY <2>2, <2>3, <2>4, <2>9, ArriveReads
<1>2. Len(arrived) + errors < MaxArrivals
  BY DEF Deliver, Arrive
<1>3. n \in 1..MaxArrivals
  BY <1>2, Parameters DEF ReadInv
<1>4. /\ bytes \in Data /\ Whole(bytes, a, n)
      /\ \A other \in Misshapen(bytes) : other \in Data /\ Refused(other)
  BY <1>3, SentOrOdd
<1>5. \/ Arrive(d(bytes, FALSE))
      \/ \E other \in Misshapen(bytes) : Arrive(d(other, TRUE))
  BY DEF Deliver
<1> HIDE DEF d, bytes, n
<1>6. CASE Arrive(d(bytes, FALSE))
  BY <1>1, <1>4, <1>6, Zenon
<1>7. CASE \E other \in Misshapen(bytes) : Arrive(d(other, TRUE))
  BY <1>1, <1>4, <1>7, Zenon
<1> QED BY <1>5, <1>6, <1>7

\* A step that leaves HandleRead's variables alone keeps ReadInv.
LEMMA ReadUnchanged ==
    ASSUME ReadInv, UNCHANGED <<rcvbuf, arrived, reading>>, errors' \in Nat
    PROVE  ReadInv' /\ SeenStays
BY DEF ReadInv, Batch, Processed, SeenStays

\* Every step keeps ReadInv, and only ProcessPacket sees a datagram.
LEMMA ReadsOn == ReadInv /\ [Next]_vars => ReadInv' /\ (ProcessPacket \/ SeenStays)
<1> SUFFICES ASSUME ReadInv, [Next]_vars PROVE ReadInv' /\ (ProcessPacket \/ SeenStays)
  OBVIOUS
<1>0. errors \in Nat
  BY DEF ReadInv
<1>1. ASSUME UNCHANGED readVars PROVE ReadInv' /\ SeenStays
  BY <1>0, <1>1, ReadUnchanged DEF readVars
<1>2. CASE \E a \in Arrivals : Deliver(a)
  BY <1>2, DeliverReads
<1>3. CASE \E w \in Workers : Bounce(w)
  BY <1>0, <1>3, ReadUnchanged DEF Bounce
<1>4. CASE HandleRead
  <2>1. CASE reading \in {None, <<>>} /\ rcvbuf # <<>> /\ ReadBatch
    BY <1>4, <2>1, BatchReads DEF HandleRead
  <2>2. CASE reading = <<>> /\ reading' = None /\ UNCHANGED rcvbuf
    <3>1. UNCHANGED <<arrived, errors>>
      BY <1>4 DEF HandleRead
    <3>2. reading # None
      <4>1. <<>> \in Seq(SlotRec)
        BY EmptySeq
      <4> QED BY <2>2, <4>1, NoneIsNoSlots, Zenon
    <3>3. Batch = <<>> /\ Batch' = <<>>
      BY <2>2, <3>2 DEF Batch
    <3>4. Processed' = Processed
      BY <2>2, <3>1, <3>3 DEF Processed
    <3>5. ReadInv'
      BY <2>2, <3>1, <3>3, <3>4 DEF ReadInv
    <3>6. arrived' = arrived
      BY <3>1
    <3>7. SeenStays
      BY <3>4, <3>6, Zenon DEF SeenStays
    <3> QED BY <3>5, <3>7
  <2> QED BY <1>4, <2>1, <2>2 DEF HandleRead
<1>5. CASE ProcessPacket
  <2>1. /\ reading \notin {None, <<>>}
        /\ reading' = IF Len(reading) = 1 /\ Head(reading).number # kNumPacketsPerRead
                      THEN None ELSE Tail(reading)
        /\ UNCHANGED <<arrived, rcvbuf, errors>>
    BY <1>5 DEF ProcessPacket
  <2>2. reading \in Seq(SlotRec) /\ reading # <<>>
    BY <2>1 DEF ReadInv
  <2>3. Tail(reading) \in Seq(SlotRec)
    BY <2>2
  <2>4. reading' \in {None, Tail(reading)} /\ (reading' = None => Len(reading) = 1)
    BY <2>1, <2>3, NoneIsNoSlots
  <2> QED BY <1>5, <2>1, <2>4, NextReads
<1>6. CASE HandleError
  BY <1>0, <1>6, ReadUnchanged DEF HandleError
<1>7. CASE UNCHANGED vars
  BY <1>1, <1>7 DEF vars
<1>8. CASE \E w \in Workers : LoopEnds(w)
  BY <1>1, <1>8 DEF LoopEnds
<1>9. CASE \E w \in Workers : RunTask(w)
  BY <1>1, <1>9 DEF RunTask
<1>10. CASE \E w \in Workers, i \in DOMAIN sessions : StateTimer(w, i)
  BY <1>1, <1>10 DEF StateTimer
<1>11. CASE Destructor
  BY <1>1, <1>11 DEF Destructor, Destroy, Spin, SpinEnds, QuitNext, CloseSocket
<1>12. CASE DestroyUnlistened
  BY <1>1, <1>12 DEF DestroyUnlistened
<1>13. CASE \E f \in ListenFamilies : Listen(f)
  BY <1>1, <1>13 DEF Listen
<1> QED BY <1>2, <1>3, <1>4, <1>5, <1>6, <1>7, <1>8, <1>9, <1>10, <1>11, <1>12, <1>13 DEF Next

\* Every step keeps ReadInv.
LEMMA ReadStep == ReadInv /\ [Next]_vars => ReadInv'
BY ReadsOn

\* The header of every datagram a client wrote is read back as it was written, and a datagram
\* changed in one byte or cut short is refused, for bytes of any size, every type and every id
\* (kcp_packets.cc:238-274, 321-339).
THEOREM ServerReadsHeadersBack == Spec => []HeadersReadBack
<1>1. ReadInv => HeadersReadBack
  <2> SUFFICES ASSUME ReadInv PROVE HeadersReadBack
    OBVIOUS
  <2> SUFFICES ASSUME NEW i \in DOMAIN rcvbuf
               PROVE  LET n == Len(arrived) - Len(rcvbuf) + i
                          d == arrived[n]
                          r == ReadPublicHeader(Received(rcvbuf[i].data))
                      IN /\ ~d.odd => /\ r.code = "SUCCESS"
                                      /\ r.header = [packet_type |-> d.type, session_id |-> d.id]
                                      /\ RemainingData(r.packet) = IF d.type = "DATA" THEN <<n>> ELSE <<>>
                         /\ d.odd /\ Len(rcvbuf[i].data) <= kMaxPacketSize => r.code # "SUCCESS"
    BY Zenon DEF HeadersReadBack
  <2> DEFINE n == Len(arrived) - Len(rcvbuf) + i
             d == arrived[n]
  <2>1. i \in 1..Len(rcvbuf)
    BY DEF ReadInv
  <2>2. Fits(rcvbuf[i], d, n)
    BY <2>1 DEF ReadInv
  <2>3. Len(rcvbuf[i].data) \in Nat /\ kMaxPacketSize \in Nat
    <3>0. rcvbuf[i] \in PacketRec
      BY <2>1 DEF ReadInv
    <3>1. rcvbuf[i].data \in Data
      BY <3>0 DEF PacketRec
    <3> QED BY <3>1, Parameters DEF Data
  <2> HIDE DEF n, d
  <2>4. /\ ~d.odd => Whole(rcvbuf[i].data, d, n)
        /\ d.odd => Refused(rcvbuf[i].data)
    BY <2>2 DEF Fits
  <2>5. ~d.odd => LET r == ReadPublicHeader(Received(rcvbuf[i].data)) IN
                  /\ r.code = "SUCCESS"
                  /\ r.header = [packet_type |-> d.type, session_id |-> d.id]
                  /\ RemainingData(r.packet) = IF d.type = "DATA" THEN <<n>> ELSE <<>>
    BY <2>4, Zenon DEF Whole
  <2>6. d.odd /\ Len(rcvbuf[i].data) <= kMaxPacketSize
            => ReadPublicHeader(Received(rcvbuf[i].data)).code # "SUCCESS"
    BY <2>3, <2>4 DEF Refused
  <2> QED BY <2>5, <2>6, Zenon DEF n, d
<1> QED BY <1>1, ReadInit, ReadStep, PTL DEF Spec

-------------------------------------------------------------------------------
(* Sessions and tasks.                                                     *)

Senders == Addresses \cup {None}
EventRec == [event : {"up", "packet", "down"}, data : Data, from : Senders]
TaskNames == {"up", "update", "packet", "error", "close", "close and count"}
TaskRec == [task : TaskNames, s : Nat, data : Data, from : Senders]
Log == Seq(EventRec)
SessionRec == [id : Ids, peer : Addresses, closed : BOOLEAN, timer : BOOLEAN, error : BOOLEAN,
               log : Log]

\* What a task or the timer makes of a session: r follows s.
Ups(s, r) ==
    /\ r.id = s.id /\ r.closed = s.closed /\ r.timer = s.timer
    /\ r.log = Append(s.log, Event("up"))
Gets(s, r, t) ==
    /\ ~s.closed
    /\ r.id = s.id /\ r.closed = s.closed /\ r.timer = s.timer
    /\ r.log = Append(s.log, [event |-> "packet", data |-> t.data, from |-> t.from])
Downs(s, r) ==
    /\ ~s.closed
    /\ r.id = s.id /\ r.closed = TRUE /\ r.timer = FALSE
    /\ r.log = Append(s.log, Event("down"))
Waits(s, r) ==
    /\ ~s.closed
    /\ r.id = s.id /\ r.closed = s.closed /\ r.log = s.log
Errs(s, r) ==
    /\ r.id = s.id /\ r.closed = s.closed /\ r.timer = s.timer /\ r.log = s.log

\* Event and Task make records.
LEMMA EventType ==
    /\ Event("up") \in EventRec /\ Event("down") \in EventRec
    /\ \A s \in Nat, name \in TaskNames : Task(name, s) \in TaskRec
<1>1. <<>> \in Data
  BY EmptySeq DEF Data
<1>2. None \in Senders
  BY DEF Senders
<1> QED BY <1>1, <1>2 DEF Event, Task, EventRec, TaskRec

\* The members of a task and of an event.
LEMMA TaskFields ==
    /\ \A s, name : Task(name, s).task = name /\ Task(name, s).s = s
    /\ \A name : Event(name).event = name
BY DEF Task, Event

\* OnConnectionEvent's session.
LEMMA UpsType ==
    ASSUME NEW s \in SessionRec
    PROVE  LET r == [s EXCEPT !.log = Append(@, Event("up"))] IN r \in SessionRec /\ Ups(s, r)
<1> DEFINE l == Append(s.log, Event("up"))
           r == [s EXCEPT !.log = l]
<1>1. l \in Log
  BY EventType DEF SessionRec, Log
<1> HIDE DEF l
<1>2. r \in SessionRec
  BY <1>1 DEF SessionRec
<1>3. r.id = s.id /\ r.log = l
  BY DEF SessionRec
<1>4. r.closed = s.closed /\ r.timer = s.timer
  BY DEF SessionRec
<1> QED BY <1>2, <1>3, <1>4 DEF Ups, l

\* ProcessPacketInLoopThread's session.
LEMMA GetsType ==
    ASSUME NEW s \in SessionRec, NEW t \in TaskRec, t.from \in Addresses, ~s.closed
    PROVE  LET r == [s EXCEPT !.peer = t.from,
                              !.log = Append(@, [event |-> "packet", data |-> t.data, from |-> t.from])]
           IN r \in SessionRec /\ Gets(s, r, t)
<1> DEFINE e == [event |-> "packet", data |-> t.data, from |-> t.from]
           l == Append(s.log, e)
           r == [s EXCEPT !.peer = t.from, !.log = l]
<1>0. e \in EventRec
  BY DEF EventRec, TaskRec, Senders
<1>1. l \in Log
  <2> HIDE DEF e
  <2> QED BY <1>0 DEF SessionRec, Log
<1> HIDE DEF l
<1>2. r \in SessionRec
  BY <1>1 DEF SessionRec
<1>3. r.id = s.id /\ r.log = l
  BY DEF SessionRec
<1>4. r.closed = s.closed /\ r.timer = s.timer
  BY DEF SessionRec
<1> QED BY <1>2, <1>3, <1>4 DEF Gets, l

\* Close's session.
LEMMA DownsType ==
    ASSUME NEW s \in SessionRec, ~s.closed
    PROVE  LET r == [s EXCEPT !.closed = TRUE, !.timer = FALSE, !.log = Append(@, Event("down"))]
           IN r \in SessionRec /\ Downs(s, r)
<1> DEFINE l == Append(s.log, Event("down"))
           r == [s EXCEPT !.closed = TRUE, !.timer = FALSE, !.log = l]
<1>1. l \in Log
  BY EventType DEF SessionRec, Log
<1> HIDE DEF l
<1>2. r \in SessionRec
  BY <1>1 DEF SessionRec
<1>3. r.id = s.id /\ r.log = l
  BY DEF SessionRec
<1>4. r.closed = TRUE /\ r.timer = FALSE
  BY DEF SessionRec
<1> QED BY <1>2, <1>3, <1>4 DEF Downs, l

\* The session of UpdateConnectionState and of set_pending_error.
LEMMA WaitsType ==
    ASSUME NEW s \in SessionRec
    PROVE  /\ LET r == [s EXCEPT !.timer = TRUE] IN
                  r \in SessionRec /\ (~s.closed => Waits(s, r))
           /\ LET r == [s EXCEPT !.error = TRUE] IN r \in SessionRec /\ Errs(s, r)
<1>1. LET r == [s EXCEPT !.timer = TRUE] IN r \in SessionRec /\ (~s.closed => Waits(s, r))
  <2> DEFINE r == [s EXCEPT !.timer = TRUE]
  <2>2. r \in SessionRec
    BY DEF SessionRec
  <2>3. r.id = s.id /\ r.log = s.log
    BY DEF SessionRec
  <2>4. r.closed = s.closed
    BY DEF SessionRec
  <2> QED BY <2>2, <2>3, <2>4 DEF Waits
<1>2. LET r == [s EXCEPT !.error = TRUE] IN r \in SessionRec /\ Errs(s, r)
  <2> DEFINE r == [s EXCEPT !.error = TRUE]
  <2>2. r \in SessionRec
    BY DEF SessionRec
  <2>3. r.id = s.id /\ r.log = s.log
    BY DEF SessionRec
  <2>4. r.closed = s.closed /\ r.timer = s.timer
    BY DEF SessionRec
  <2> QED BY <2>2, <2>3, <2>4 DEF Errs
<1> QED BY <1>1, <1>2

\* A task t of worker w is about a session of w; a packet has a sender.
TaskFits(t, w, list) ==
    /\ t.s \in 1..Len(list) /\ getLoopForHash(list[t.s].id) = w
    /\ t.task = "packet" => t.from \in Addresses

\* Sessions, the map and the tasks have their types, the map leads from an id to its session, and
\* the tasks of a worker are about its own sessions.
SessionInv ==
    /\ sessions \in Seq(SessionRec)
    /\ session_map_ \in [Ids -> Nat]
    /\ \A id \in Ids : session_map_[id] # 0 => /\ session_map_[id] \in 1..Len(sessions)
                                               /\ sessions[session_map_[id]].id = id
    /\ pending \in [Workers -> Seq(TaskRec)]
    /\ \A w \in Workers : \A k \in 1..Len(pending[w]) : TaskFits(pending[w][k], w, sessions)

\* A session's loop is a worker.
LEMMA LoopIsWorker == \A id \in Ids : getLoopForHash(id) \in Workers
<1>1. num_threads \in Nat \ {0} /\ Ids \subseteq Nat
  <2>1. Ids \subseteq Word /\ Word \subseteq Nat
    BY Parameters DEF Word
  <2> QED BY <2>1, TransportAssumption
<1> QED BY <1>1 DEF getLoopForHash, Workers

\* What the steps do to sessions, map and tasks.  The base loop finds session i and posts tasks for
\* it; it creates a session; a worker runs a task or a timer.
Posts(id, tasks) ==
    /\ session_map_[id] # 0
    /\ pending' = [pending EXCEPT ![getLoopForHash(id)] = @ \o tasks]
    /\ sessions' = sessions

Creates(id, from, more) ==
    /\ session_map_[id] = 0
    /\ sessions' = Append(sessions, NewSession(id, from))
    /\ session_map_' = [session_map_ EXCEPT ![id] = Len(sessions) + 1]
    /\ pending' = [pending EXCEPT ![getLoopForHash(id)] =
                      @ \o (Initialized(Len(sessions) + 1) \o more)]

Becomes(i, r) == i \in 1..Len(sessions) /\ r \in SessionRec /\ sessions' = [sessions EXCEPT ![i] = r]

\* A task t of a session is run.
Runs(t) ==
    \/ /\ t.task = "up"
       /\ \E r : Becomes(t.s, r) /\ Ups(sessions[t.s], r)
    \/ /\ t.task = "packet"
       /\ \/ sessions[t.s].closed /\ sessions' = sessions
          \/ \E r : Becomes(t.s, r) /\ Gets(sessions[t.s], r, t)
    \/ /\ t.task = "error"
       /\ \E r : Becomes(t.s, r) /\ Errs(sessions[t.s], r)
    \/ /\ t.task = "update"
       /\ \/ sessions[t.s].closed /\ sessions' = sessions
          \/ \E r : Becomes(t.s, r) /\ (Waits(sessions[t.s], r) \/ Downs(sessions[t.s], r))
    \/ /\ t.task \in {"close", "close and count"}
       /\ \/ sessions[t.s].closed /\ sessions' = sessions
          \/ \E r : Becomes(t.s, r) /\ Downs(sessions[t.s], r)

\* The timer of session i runs.
Ticks(i) == \E r : Becomes(i, r) /\ (Waits(sessions[i], r) \/ Downs(sessions[i], r))

\* CloseSession and UpdateConnectionState.
LEMMA CloseEffect ==
    ASSUME SessionInv, NEW i \in 1..Len(sessions), NEW w, NEW flush, CloseSession(w, i, flush)
    PROVE  \/ sessions[i].closed /\ sessions' = sessions
           \/ \E r : Becomes(i, r) /\ Downs(sessions[i], r)
<1> DEFINE s == sessions[i]
           r == [s EXCEPT !.closed = TRUE, !.timer = FALSE, !.log = Append(@, Event("down"))]
<1>1. s \in SessionRec
  BY DEF SessionInv
<1>2. CASE s.closed
  BY <1>2 DEF CloseSession
<1>3. CASE ~s.closed
  <2>1. sessions' = [sessions EXCEPT ![i] = r]
    BY <1>3 DEF CloseSession
  <2>2. r \in SessionRec /\ Downs(s, r)
    <3> HIDE DEF s
    <3> QED BY <1>1, <1>3, DownsType
  <2> QED BY <2>1, <2>2, Zenon DEF Becomes
<1> QED BY <1>2, <1>3

\* The same for UpdateConnectionState.
LEMMA UpdateEffect ==
    ASSUME SessionInv, NEW i \in 1..Len(sessions), NEW w, UpdateConnectionState(w, i)
    PROVE  \/ sessions[i].closed /\ sessions' = sessions
           \/ \E r : Becomes(i, r) /\ (Waits(sessions[i], r) \/ Downs(sessions[i], r))
<1> DEFINE s == sessions[i]
           r == [s EXCEPT !.timer = TRUE]
<1>1. s \in SessionRec
  BY DEF SessionInv
<1>2. CASE s.closed
  BY <1>2 DEF UpdateConnectionState
<1>3. CASE ~s.closed /\ CloseSession(w, i, FALSE)
  BY <1>3, CloseEffect
<1>4. CASE ~s.closed /\ sessions' = [sessions EXCEPT ![i].timer = TRUE]
  <2>1. sessions' = [sessions EXCEPT ![i] = r]
    BY <1>4
  <2>2. r \in SessionRec /\ Waits(s, r)
    <3> HIDE DEF s
    <3> QED BY <1>1, <1>4, WaitsType
  <2> QED BY <2>1, <2>2, Zenon DEF Becomes
<1> QED BY <1>2, <1>3, <1>4 DEF UpdateConnectionState

\* RunTask takes the first task and runs it.
LEMMA TaskEffect ==
    ASSUME SessionInv, NEW w \in Workers, RunTask(w)
    PROVE  /\ w \in running /\ pending[w] # <<>>
           /\ Head(pending[w]) \in TaskRec /\ TaskFits(Head(pending[w]), w, sessions)
           /\ Runs(Head(pending[w]))
           /\ pending' = [pending EXCEPT ![w] = Tail(@)]
           /\ UNCHANGED <<baseVars, readVars, running, unclosed>>
<1>1. /\ w \in running /\ pending[w] # <<>>
      /\ pending' = [pending EXCEPT ![w] = Tail(@)]
      /\ UNCHANGED <<baseVars, readVars, running, unclosed>>
  BY DEF RunTask
<1> DEFINE t == Head(pending[w])
<1>2. pending[w] \in Seq(TaskRec) /\ pending[w] # <<>>
  BY <1>1 DEF SessionInv
<1>3. t \in TaskRec /\ t = pending[w][1] /\ 1 \in 1..Len(pending[w])
  BY <1>2
<1>4. TaskFits(t, w, sessions)
  BY <1>3 DEF SessionInv
<1>5. \/ t.task = "up" /\ OnConnectionEvent(t.s)
      \/ t.task = "update" /\ UpdateConnectionState(w, t.s)
      \/ t.task = "packet" /\ ProcessPacketInLoopThread(t)
      \/ t.task = "error" /\ set_pending_error(t.s)
      \/ t.task = "close" /\ CloseSession(w, t.s, FALSE)
      \/ t.task = "close and count" /\ CloseSession(w, t.s, TRUE)
  BY DEF RunTask
<1> HIDE DEF t
<1> DEFINE i == t.s
           s == sessions[i]
<1>6. i \in 1..Len(sessions) /\ s \in SessionRec
  BY <1>4 DEF TaskFits, SessionInv
<1>7. ASSUME t.task = "up" /\ OnConnectionEvent(i) PROVE Runs(t)
  <2> DEFINE r == [s EXCEPT !.log = Append(@, Event("up"))]
  <2>1. sessions' = [sessions EXCEPT ![i] = r]
    BY <1>7 DEF OnConnectionEvent
  <2>2. r \in SessionRec /\ Ups(s, r)
    <3> HIDE DEF s
    <3> QED BY <1>6, UpsType
  <2>3. Becomes(i, r)
    BY <1>6, <2>1, <2>2, Zenon DEF Becomes
  <2> QED BY <1>7, <2>2, <2>3, Zenon DEF Runs
<1>8. ASSUME t.task = "packet" /\ ProcessPacketInLoopThread(t) PROVE Runs(t)
  <2> DEFINE r == [s EXCEPT !.peer = t.from,
                            !.log = Append(@, [event |-> "packet", data |-> t.data, from |-> t.from])]
  <2>1. CASE s.closed
    <3>1. sessions' = sessions
      BY <1>8, <2>1 DEF ProcessPacketInLoopThread
    <3> QED BY <1>8, <2>1, <3>1, Zenon DEF Runs
  <2>2. CASE ~s.closed
    <3>1. sessions' = [sessions EXCEPT ![i] = r]
      BY <1>8, <2>2 DEF ProcessPacketInLoopThread
    <3>2. r \in SessionRec /\ Gets(s, r, t)
      <4>1. t.from \in Addresses
        BY <1>4, <1>8 DEF TaskFits
      <4> HIDE DEF s
      <4> QED BY <1>3, <1>6, <2>2, <4>1, GetsType
    <3>3. Becomes(i, r)
      BY <1>6, <3>1, <3>2, Zenon DEF Becomes
    <3> QED BY <1>8, <3>2, <3>3, Zenon DEF Runs
  <2> QED BY <2>1, <2>2
<1>9. ASSUME t.task = "error" /\ set_pending_error(i) PROVE Runs(t)
  <2> DEFINE r == [s EXCEPT !.error = TRUE]
  <2>1. sessions' = [sessions EXCEPT ![i] = r]
    BY <1>9 DEF set_pending_error
  <2>2. r \in SessionRec /\ Errs(s, r)
    <3> HIDE DEF s
    <3> QED BY <1>6, WaitsType
  <2>3. Becomes(i, r)
    BY <1>6, <2>1, <2>2, Zenon DEF Becomes
  <2> QED BY <1>9, <2>2, <2>3, Zenon DEF Runs
<1>10. ASSUME t.task = "update" /\ UpdateConnectionState(w, i) PROVE Runs(t)
  BY <1>6, <1>10, UpdateEffect DEF Runs
<1>11. ASSUME t.task \in {"close", "close and count"} /\ \E flush : CloseSession(w, i, flush) PROVE Runs(t)
  BY <1>6, <1>11, CloseEffect DEF Runs
<1>12. Runs(t)
  BY <1>5, <1>7, <1>8, <1>9, <1>10, <1>11, Zenon
<1> QED BY <1>1, <1>3, <1>4, <1>12 DEF t

\* StateTimer changes one session, which has a timer.
LEMMA TimerEffect ==
    ASSUME SessionInv, NEW w \in Workers, NEW i \in DOMAIN sessions, StateTimer(w, i)
    PROVE  /\ w \in running /\ getLoopForHash(sessions[i].id) = w /\ sessions[i].timer
           /\ i \in 1..Len(sessions)
           /\ (sessions[i].closed /\ sessions' = sessions) \/ Ticks(i)
           /\ UNCHANGED <<baseVars, readVars, pending, running, num_closed, unclosed, faults>>
<1>1. i \in 1..Len(sessions)
  BY DEF SessionInv
<1>2. /\ w \in running /\ getLoopForHash(sessions[i].id) = w /\ sessions[i].timer
      /\ UpdateConnectionState(w, i)
      /\ UNCHANGED <<baseVars, readVars, pending, running, num_closed, unclosed, faults>>
  BY DEF StateTimer
<1>3. (sessions[i].closed /\ sessions' = sessions) \/ Ticks(i)
  BY <1>1, <1>2, UpdateEffect DEF Ticks
<1> QED BY <1>1, <1>2, <1>3

\* The task ProcessPacket posts for datagram n.
PktTask(i, n, from) == [task |-> "packet", s |-> i, data |-> <<n>>, from |-> from]
IsData(a) == ~a.odd /\ a.type = "DATA"

\* What ProcessPacket does with the datagram a, the n-th that came.
Processes(a, n) ==
    \/ /\ UNCHANGED <<session_map_, sessions, pending>>
       /\ IsData(a) => session_map_[a.id] = 0
    \/ /\ IsData(a)
       /\ Posts(a.id, <<PktTask(session_map_[a.id], n, a.from)>>)
       /\ session_map_' = session_map_
    \/ /\ IsData(a)
       /\ Creates(a.id, a.from, <<PktTask(Len(sessions) + 1, n, a.from)>>)
    \/ /\ ~IsData(a)
       /\ Creates(a.id, a.from, <<>>)
    \/ /\ ~IsData(a)
       /\ session_map_' = [session_map_ EXCEPT ![a.id] = 0]
       /\ \/ UNCHANGED <<sessions, pending>> /\ session_map_[a.id] = 0
          \/ Posts(a.id, <<Task("close", session_map_[a.id])>>)

\* ProcessPacket takes the next datagram, refuses an odd one and knows a whole one for what it is.
LEMMA PacketEffect ==
    ASSUME ReadInv, SessionInv, ProcessPacket
    PROVE  /\ life = "listening"
           /\ ReadInv' /\ Processed' = Processed + 1 /\ Processed' \in 1..Len(arrived)
           /\ arrived[Processed'] \in ArrivedRec
           /\ Processes(arrived[Processed'], Processed')
           /\ UNCHANGED <<life, world, quit, counted, try_times, rcvbuf, arrived, errqueue, errors,
                          running, tx, appended, num_closed, unclosed, faults>>
<1>1. /\ life = "listening" /\ reading \notin {None, <<>>}
      /\ reading' = IF Len(reading) = 1 /\ Head(reading).number # kNumPacketsPerRead
                    THEN None ELSE Tail(reading)
      /\ UNCHANGED <<life, world, quit, counted, try_times, rcvbuf, arrived, errqueue, errors,
                     running, tx, appended, num_closed, unclosed, faults>>
  BY DEF ProcessPacket
<1> DEFINE slot == Head(reading)
           r == ReadPublicHeader(Received(slot.data))
           id == r.header.session_id
           n == Processed'
           a == arrived[n]
<1>2. /\ ReadInv' /\ n = Processed + 1 /\ n \in 1..Len(arrived)
      /\ slot \in SlotRec /\ Fits(slot, a, n)
  <2>1. reading \in Seq(SlotRec) /\ reading # <<>>
    BY <1>1 DEF ReadInv
  <2>2. Tail(reading) \in Seq(SlotRec)
    BY <2>1
  <2>3. reading' \in {None, Tail(reading)} /\ (reading' = None => Len(reading) = 1)
    BY <1>1, <2>2, NoneIsNoSlots
  <2> QED BY <1>1, <2>3, NextReads
<1>3. a \in ArrivedRec
  BY <1>2 DEF ReadInv
<1>4. \/ /\ \/ slot.data = <<>>
            \/ Len(slot.data) > kMaxPacketSize
            \/ r.code # "SUCCESS"
            \/ id \notin Ids
         /\ UNCHANGED <<session_map_, sessions, pending>>
      \/ /\ ~(slot.data = <<>> \/ Len(slot.data) > kMaxPacketSize \/ r.code # "SUCCESS" \/ id \notin Ids)
         /\ \/ /\ r.header.packet_type = "DATA"
               /\ ProcessDataPacket(id, r.packet, slot.from)
            \/ /\ r.header.packet_type = "ACK"
               /\ ProcessAckPacket(id, slot.from)
            \/ /\ r.header.packet_type = "RST"
               /\ ProcessRstPacket(id)
            \/ /\ r.header.packet_type \notin {"DATA", "ACK", "RST"}
               /\ UNCHANGED <<session_map_, sessions, pending>>
  <2>1. IF \/ slot.data = <<>>
           \/ Len(slot.data) > kMaxPacketSize
           \/ r.code # "SUCCESS"
           \/ id \notin Ids
        THEN UNCHANGED <<session_map_, sessions, pending>>
        ELSE CASE r.header.packet_type = "DATA" -> ProcessDataPacket(id, r.packet, slot.from)
               [] r.header.packet_type = "ACK" -> ProcessAckPacket(id, slot.from)
               [] r.header.packet_type = "RST" -> ProcessRstPacket(id)
               [] OTHER -> UNCHANGED <<session_map_, sessions, pending>>
    BY Zenon DEF ProcessPacket
  <2> HIDE DEF slot, r, id
  <2> QED BY <2>1
<1>5. ASSUME ~a.odd
      PROVE  /\ Len(slot.data) \in 1..kMaxPacketSize /\ r.code = "SUCCESS"
             /\ r.header.packet_type = a.type /\ id = a.id /\ id \in Ids
             /\ a.type = "DATA" => RemainingData(r.packet) = <<n>>
  <2>1. Whole(slot.data, a, n)
    BY <1>2, <1>5 DEF Fits
  <2>2. a.id \in Ids
    BY <1>3 DEF ArrivedRec
  <2> HIDE DEF a, n, slot
  <2>3. /\ Len(slot.data) \in 1..kMaxPacketSize /\ r.code = "SUCCESS"
        /\ r.header = [packet_type |-> a.type, session_id |-> a.id]
        /\ RemainingData(r.packet) = IF a.type = "DATA" THEN <<n>> ELSE <<>>
    BY <2>1, Zenon DEF Whole
  <2> HIDE DEF r
  <2> QED BY <2>2, <2>3
<1>6. a.odd => Len(slot.data) > kMaxPacketSize \/ r.code # "SUCCESS"
  BY <1>2 DEF Fits, Refused
<1>7. slot.data \in Data /\ slot.from = a.from /\ kMaxPacketSize \in Nat
  BY <1>2, Parameters DEF SlotRec, Fits
<1>8. ~a.odd => /\ ~(Len(slot.data) > kMaxPacketSize)
                /\ slot.data # <<>>
  <2> DEFINE d == slot.data
  <2>1. d # <<>> \/ Len(d) = 0
    BY EmptySeq, Zenon
  <2>2. ~a.odd => Len(d) \in 1..kMaxPacketSize
    BY <1>5
  <2> HIDE DEF d, a
  <2>3. ~a.odd => ~(Len(d) > kMaxPacketSize) /\ d # <<>>
    BY <1>7, <2>1, <2>2
  <2> QED BY <2>3 DEF d
<1>9. Processes(a, n)
  <2> HIDE DEF slot, n, a
  <2>1. CASE a.odd
    <3>1. UNCHANGED <<session_map_, sessions, pending>>
      BY <1>4, <1>6, <2>1
    <3> QED BY <2>1, <3>1 DEF Processes, IsData
  <2>2. CASE ~a.odd
    <3>1. /\ r.header.packet_type = a.type /\ id = a.id /\ slot.from = a.from
          /\ a.type = "DATA" => RemainingData(r.packet) = <<n>>
      BY <1>5, <1>7, <2>2
    <3>2. \/ a.type = "DATA" /\ ProcessDataPacket(a.id, r.packet, a.from)
          \/ a.type = "ACK" /\ ProcessAckPacket(a.id, a.from)
          \/ a.type = "RST" /\ ProcessRstPacket(a.id)
          \/ a.type \notin {"DATA", "ACK", "RST"} /\ UNCHANGED <<session_map_, sessions, pending>>
      <4> HIDE DEF r, id
      <4> QED BY <1>4, <1>5, <1>8, <2>2, <3>1
    <3> HIDE DEF r, id
    <3>3. CASE a.type = "DATA" /\ ProcessDataPacket(a.id, r.packet, a.from)
      <4>1. \A i : PacketTask(i, r.packet, a.from) = PktTask(i, n, a.from)
        BY <3>1, <3>3 DEF PacketTask, PktTask, CloneFromRemainingData, Received
      <4>2. IsData(a)
        BY <2>2, <3>3 DEF IsData
      <4>3. \/ /\ session_map_[a.id] = 0
               /\ UNCHANGED <<session_map_, sessions, pending>>
            \/ /\ session_map_[a.id] = 0
               /\ InitializeSession(a.id, a.from)
               /\ Post(getLoopForHash(a.id), Initialized(Len(sessions) + 1) \o
                           <<PktTask(Len(sessions) + 1, n, a.from)>>)
            \/ /\ session_map_[a.id] # 0
               /\ Post(getLoopForHash(a.id), <<PktTask(session_map_[a.id], n, a.from)>>)
               /\ UNCHANGED <<session_map_, sessions>>
        BY <3>3, <4>1, Zenon DEF ProcessDataPacket, UnknownSession
      <4> QED BY <4>2, <4>3 DEF Processes, Posts, Creates, InitializeSession, Post
    <3>4. CASE a.type = "ACK" /\ ProcessAckPacket(a.id, a.from)
      <4>1. ~IsData(a)
        BY <3>4 DEF IsData
      <4>2. \/ UNCHANGED <<session_map_, sessions, pending>>
            \/ /\ session_map_[a.id] = 0
               /\ InitializeSession(a.id, a.from)
               /\ Post(getLoopForHash(a.id), Initialized(Len(sessions) + 1) \o <<>>)
        BY <3>4, Zenon DEF ProcessAckPacket, UnknownSession
      <4> QED BY <4>1, <4>2 DEF Processes, Creates, InitializeSession, Post
    <3>5. CASE a.type = "RST" /\ ProcessRstPacket(a.id)
      <4>1. ~IsData(a)
        BY <3>5 DEF IsData
      <4> QED BY <3>5, <4>1 DEF Processes, Posts, ProcessRstPacket, Post
    <3>6. CASE a.type \notin {"DATA", "ACK", "RST"} /\ UNCHANGED <<session_map_, sessions, pending>>
      BY <3>6 DEF Processes, IsData
    <3> QED BY <3>2, <3>3, <3>4, <3>5, <3>6
  <2> QED BY <2>1, <2>2
<1> QED BY <1>1, <1>2, <1>3, <1>9

\* A worker's step keeps SessionInv.
LEMMA WorkerKeeps ==
    ASSUME SessionInv, UNCHANGED session_map_, NEW w \in Workers,
           \/ sessions' = sessions
           \/ \E i, r : Becomes(i, r) /\ r.id = sessions[i].id,
           \/ pending' = pending
           \/ pending[w] # <<>> /\ pending' = [pending EXCEPT ![w] = Tail(@)]
           \/ pending' = [pending EXCEPT ![w] = <<>>]
    PROVE  /\ SessionInv'
           /\ Len(sessions') = Len(sessions)
           /\ \A j \in 1..Len(sessions) : sessions'[j].id = sessions[j].id
<1>1. /\ sessions' \in Seq(SessionRec) /\ Len(sessions') = Len(sessions)
      /\ \A j \in 1..Len(sessions) : sessions'[j].id = sessions[j].id
  <2>1. CASE sessions' = sessions
    BY <2>1 DEF SessionInv
  <2>2. CASE \E i, r : Becomes(i, r) /\ r.id = sessions[i].id
    <3>1. PICK i, r : Becomes(i, r) /\ r.id = sessions[i].id
      BY <2>2
    <3> QED BY <3>1 DEF SessionInv, Becomes
  <2> QED BY <2>1, <2>2
<1>2. /\ pending' \in [Workers -> Seq(TaskRec)]
      /\ \A v \in Workers : \A k \in 1..Len(pending'[v]) :
             \E j \in 1..Len(pending[v]) : pending'[v][k] = pending[v][j]
  <2>1. CASE pending' = pending
    BY <2>1 DEF SessionInv
  <2>2. CASE pending[w] # <<>> /\ pending' = [pending EXCEPT ![w] = Tail(@)]
    <3>1. pending \in [Workers -> Seq(TaskRec)] /\ pending[w] \in Seq(TaskRec)
      BY DEF SessionInv
    <3> DEFINE q == Tail(pending[w])
    <3>2. /\ q \in Seq(TaskRec) /\ Len(q) = Len(pending[w]) - 1
          /\ \A k \in 1..Len(q) : q[k] = pending[w][k + 1] /\ k + 1 \in 1..Len(pending[w])
      BY <2>2, <3>1
    <3> HIDE DEF q
    <3>3. pending' = [pending EXCEPT ![w] = q]
      BY <2>2 DEF q
    <3>4. pending' \in [Workers -> Seq(TaskRec)] /\ pending'[w] = q
          /\ \A v \in Workers : v # w => pending'[v] = pending[v]
      BY <3>1, <3>2, <3>3
    <3>5. ASSUME NEW v \in Workers, NEW k \in 1..Len(pending'[v])
          PROVE  \E j \in 1..Len(pending[v]) : pending'[v][k] = pending[v][j]
      BY <3>2, <3>4, SMTT(20)
    <3> QED BY <3>4, <3>5
  <2>3. CASE pending' = [pending EXCEPT ![w] = <<>>]
    <3>1. pending \in [Workers -> Seq(TaskRec)] /\ <<>> \in Seq(TaskRec) /\ Len(<<>>) = 0
      BY EmptySeq DEF SessionInv
    <3>2. pending' \in [Workers -> Seq(TaskRec)] /\ Len(pending'[w]) = 0
          /\ \A v \in Workers : v # w => pending'[v] = pending[v]
      BY <2>3, <3>1
    <3>3. ASSUME NEW v \in Workers, NEW k \in 1..Len(pending'[v])
          PROVE  \E j \in 1..Len(pending[v]) : pending'[v][k] = pending[v][j]
      BY <3>2
    <3> QED BY <3>2, <3>3
  <2> QED BY <2>1, <2>2, <2>3
<1>3. \A v \in Workers : \A k \in 1..Len(pending'[v]) : TaskFits(pending'[v][k], v, sessions')
  <2> SUFFICES ASSUME NEW v \in Workers, NEW k \in 1..Len(pending'[v])
               PROVE  TaskFits(pending'[v][k], v, sessions')
    OBVIOUS
  <2>1. PICK j \in 1..Len(pending[v]) : pending'[v][k] = pending[v][j]
    BY <1>2
  <2>2. TaskFits(pending[v][j], v, sessions)
    BY DEF SessionInv
  <2> QED BY <1>1, <2>1, <2>2 DEF TaskFits
<1>4. \A id \in Ids : session_map_'[id] # 0 => /\ session_map_'[id] \in 1..Len(sessions')
                                               /\ sessions'[session_map_'[id]].id = id
  BY <1>1 DEF SessionInv
<1>5. session_map_' \in [Ids -> Nat]
  BY DEF SessionInv
<1> QED BY <1>1, <1>2, <1>3, <1>4, <1>5 DEF SessionInv

\* A task goes to the end of a worker's queue.
LEMMA PendingAfterPost ==
    ASSUME SessionInv, NEW w \in Workers, NEW tasks \in Seq(TaskRec),
           pending' = [pending EXCEPT ![w] = @ \o tasks]
    PROVE  /\ pending' \in [Workers -> Seq(TaskRec)]
           /\ \A v \in Workers : v # w => pending'[v] = pending[v]
           /\ Len(pending'[w]) = Len(pending[w]) + Len(tasks)
           /\ \A k \in 1..Len(pending[w]) : pending'[w][k] = pending[w][k]
           /\ \A k \in 1..Len(tasks) : pending'[w][Len(pending[w]) + k] = tasks[k]
<1>1. pending \in [Workers -> Seq(TaskRec)] /\ pending[w] \in Seq(TaskRec)
  BY DEF SessionInv
<1> DEFINE q == pending[w] \o tasks
<1>2. /\ q \in Seq(TaskRec) /\ Len(q) = Len(pending[w]) + Len(tasks)
      /\ \A k \in 1..Len(pending[w]) : q[k] = pending[w][k]
      /\ \A k \in 1..Len(tasks) : q[Len(pending[w]) + k] = tasks[k]
  BY <1>1
<1> HIDE DEF q
<1>3. pending' = [pending EXCEPT ![w] = q]
  BY DEF q
<1>4. pending'[w] = q /\ \A v \in Workers : v # w => pending'[v] = pending[v]
  BY <1>1, <1>3
<1>5. pending' \in [Workers -> Seq(TaskRec)]
  BY <1>1, <1>2, <1>3
<1> QED BY <1>2, <1>4, <1>5

\* A step that posts for sessions of worker w keeps SessionInv.
LEMMA PostKeeps ==
    ASSUME SessionInv, NEW w \in Workers, NEW tasks \in Seq(TaskRec),
           pending' = [pending EXCEPT ![w] = @ \o tasks],
           sessions' \in Seq(SessionRec), Len(sessions') >= Len(sessions),
           \A j \in 1..Len(sessions) : sessions'[j] = sessions[j],
           \A k \in 1..Len(tasks) : TaskFits(tasks[k], w, sessions'),
           session_map_' \in [Ids -> Nat],
           \A id \in Ids : session_map_'[id] # 0 => /\ session_map_'[id] \in 1..Len(sessions')
                                                    /\ sessions'[session_map_'[id]].id = id
    PROVE  SessionInv'
<1>1. /\ pending' \in [Workers -> Seq(TaskRec)]
      /\ \A v \in Workers : v # w => pending'[v] = pending[v]
      /\ Len(pending'[w]) = Len(pending[w]) + Len(tasks)
      /\ \A k \in 1..Len(pending[w]) : pending'[w][k] = pending[w][k]
      /\ \A k \in 1..Len(tasks) : pending'[w][Len(pending[w]) + k] = tasks[k]
  BY PendingAfterPost
<1>2. ASSUME NEW v \in Workers, NEW k \in 1..Len(pending'[v])
      PROVE  TaskFits(pending'[v][k], v, sessions')
  <2>0. Len(sessions) \in Nat /\ Len(sessions') \in Nat
    BY DEF SessionInv
  <2>1. \A u \in Workers : \A j \in 1..Len(pending[u]) : TaskFits(pending[u][j], u, sessions')
    <3> SUFFICES ASSUME NEW u \in Workers, NEW j \in 1..Len(pending[u])
                 PROVE  TaskFits(pending[u][j], u, sessions')
      OBVIOUS
    <3> DEFINE t == pending[u][j]
    <3>1. TaskFits(t, u, sessions)
      BY DEF SessionInv
    <3> HIDE DEF t
    <3>2. t.s \in 1..Len(sessions') /\ sessions'[t.s] = sessions[t.s]
      BY <2>0, <3>1 DEF TaskFits
    <3>3. TaskFits(t, u, sessions')
      BY <3>1, <3>2 DEF TaskFits
    <3> QED BY <3>3 DEF t
  <2>2. CASE v # w \/ k \in 1..Len(pending[w])
    BY <1>1, <2>1, <2>2
  <2>3. CASE v = w /\ k \notin 1..Len(pending[w])
    <3>1. Len(pending[w]) \in Nat /\ Len(tasks) \in Nat
      BY DEF SessionInv
    <3>2. PICK j \in 1..Len(tasks) : k = Len(pending[w]) + j
      <4>1. k - Len(pending[w]) \in 1..Len(tasks) /\ k = Len(pending[w]) + (k - Len(pending[w]))
        BY <1>1, <2>3, <3>1
      <4> QED BY <4>1
    <3> QED BY <1>1, <2>3, <3>2
  <2> QED BY <2>2, <2>3
<1> QED BY <1>1, <1>2 DEF SessionInv

\* A session that is created has a record, and the tasks of Initialize are about it.
LEMMA CreatesKeeps ==
    ASSUME SessionInv, NEW id \in Ids, NEW from \in Addresses, NEW more \in Seq(TaskRec),
           \A k \in 1..Len(more) : /\ more[k].s = Len(sessions) + 1
                                   /\ more[k].task = "packet" => more[k].from \in Addresses,
           Creates(id, from, more)
    PROVE  SessionInv'
<1> DEFINE L == Len(sessions)
           new == NewSession(id, from)
           w == getLoopForHash(id)
           tasks == Initialized(L + 1) \o more
<1>1. new \in SessionRec /\ new.id = id
  <2>1. <<>> \in Log
    BY EmptySeq DEF Log
  <2> QED BY <2>1 DEF NewSession, SessionRec
<1>2. w \in Workers
  BY LoopIsWorker
<1>3. sessions \in Seq(SessionRec) /\ L \in Nat /\ sessions' = Append(sessions, new)
  BY DEF SessionInv, Creates
<1> HIDE DEF new
<1>4. /\ sessions' \in Seq(SessionRec) /\ Len(sessions') = L + 1
      /\ \A j \in 1..L : sessions'[j] = sessions[j]
      /\ sessions'[L + 1] = new
  BY <1>1, <1>3
<1>5. /\ tasks \in Seq(TaskRec)
      /\ \A k \in 1..Len(tasks) : /\ tasks[k].s = L + 1
                                  /\ tasks[k].task = "packet" => tasks[k].from \in Addresses
  <2> DEFINE q == Initialized(L + 1)
  <2>1. Task("up", L + 1) \in TaskRec /\ Task("update", L + 1) \in TaskRec
    <3>1. L + 1 \in Nat /\ "up" \in TaskNames /\ "update" \in TaskNames
      BY <1>3 DEF TaskNames
    <3> QED BY <3>1, EventType, Zenon
  <2> DEFINE t1 == Task("up", L + 1)
             t2 == Task("update", L + 1)
  <2>0. t1.s = L + 1 /\ t1.task # "packet" /\ t2.s = L + 1 /\ t2.task # "packet"
    BY DEF Task
  <2>2. q \in Seq(TaskRec) /\ \A k \in 1..Len(q) : q[k] \in {t1, t2}
    <3>1. q = <<t1, t2>>
      BY DEF Initialized
    <3> HIDE DEF t1, t2, q
    <3> QED BY <2>1, <3>1 DEF t1, t2
  <2>3. \A k \in 1..Len(q) : q[k].s = L + 1 /\ q[k].task # "packet"
    <3> HIDE DEF t1, t2, q
    <3> QED BY <2>0, <2>2
  <2> HIDE DEF q
  <2>4. /\ tasks \in Seq(TaskRec) /\ Len(tasks) = Len(q) + Len(more)
        /\ \A k \in 1..Len(tasks) : tasks[k] = IF k <= Len(q) THEN q[k] ELSE more[k - Len(q)]
    <3>1. tasks = q \o more
      BY DEF q
    <3> HIDE DEF tasks
    <3>2. /\ q \o more \in Seq(TaskRec) /\ Len(q \o more) = Len(q) + Len(more)
          /\ \A k \in 1..(Len(q) + Len(more)) :
                 (q \o more)[k] = IF k <= Len(q) THEN q[k] ELSE more[k - Len(q)]
      BY <2>2, ConcatProperties
    <3> QED BY <3>1, <3>2
  <2>5. ASSUME NEW k \in 1..Len(tasks)
        PROVE  tasks[k].s = L + 1 /\ (tasks[k].task = "packet" => tasks[k].from \in Addresses)
    <3>1. Len(q) \in Nat /\ Len(more) \in Nat
      BY <2>2
    <3>2. CASE k <= Len(q)
      BY <2>3, <2>4, <3>1, <3>2
    <3>3. CASE ~(k <= Len(q))
      <4>1. k - Len(q) \in 1..Len(more) /\ tasks[k] = more[k - Len(q)]
        BY <2>4, <3>1, <3>3
      <4> QED BY <4>1
    <3> QED BY <3>2, <3>3
  <2> QED BY <2>4, <2>5
<1>6. pending' = [pending EXCEPT ![w] = @ \o tasks]
  BY DEF Creates
<1> HIDE DEF tasks
<1>7. \A k \in 1..Len(tasks) : TaskFits(tasks[k], w, sessions')
  <2>1. L + 1 \in 1..Len(sessions') /\ sessions'[L + 1].id = id
    BY <1>1, <1>3, <1>4
  <2> QED BY <1>5, <2>1 DEF TaskFits
<1>8. session_map_ \in [Ids -> Nat] /\ session_map_' = [session_map_ EXCEPT ![id] = L + 1]
  BY DEF SessionInv, Creates
<1>9. /\ session_map_' \in [Ids -> Nat] /\ session_map_'[id] = L + 1
      /\ \A other \in Ids : other # id => session_map_'[other] = session_map_[other]
  BY <1>3, <1>8
<1>10. ASSUME NEW other \in Ids, session_map_'[other] # 0
       PROVE  session_map_'[other] \in 1..Len(sessions') /\ sessions'[session_map_'[other]].id = other
  <2>1. CASE other = id
    BY <1>1, <1>3, <1>4, <1>9, <2>1
  <2>2. CASE other # id
    <3>1. session_map_[other] \in 1..L /\ sessions[session_map_[other]].id = other
      BY <1>9, <1>10, <2>2 DEF SessionInv
    <3> QED BY <1>3, <1>4, <1>9, <2>2, <3>1
  <2> QED BY <2>1, <2>2
<1> HIDE DEF w
<1>11. Len(sessions') >= L
  BY <1>3, <1>4
<1> QED BY <1>2, <1>4, <1>5, <1>6, <1>7, <1>9, <1>10, <1>11, PostKeeps

\* A step that posts a task for a session of the map keeps SessionInv.
LEMMA PostsKeeps ==
    ASSUME SessionInv, NEW id \in Ids, NEW t \in TaskRec, t.s = session_map_[id],
           t.task = "packet" => t.from \in Addresses, Posts(id, <<t>>),
           session_map_' \in {session_map_, [session_map_ EXCEPT ![id] = 0]}
    PROVE  SessionInv'
<1> DEFINE w == getLoopForHash(id)
           tasks == <<t>>
<1>1. w \in Workers
  BY LoopIsWorker
<1>2. session_map_[id] \in 1..Len(sessions) /\ sessions[session_map_[id]].id = id
  BY DEF SessionInv, Posts
<1>3. sessions' = sessions /\ pending' = [pending EXCEPT ![w] = @ \o tasks]
  BY DEF Posts
<1>4. tasks \in Seq(TaskRec) /\ \A k \in 1..Len(tasks) : tasks[k] = t
  OBVIOUS
<1> HIDE DEF tasks
<1>5. \A k \in 1..Len(tasks) : TaskFits(tasks[k], w, sessions')
  BY <1>2, <1>3, <1>4 DEF TaskFits
<1>6. /\ session_map_' \in [Ids -> Nat]
      /\ \A other \in Ids : session_map_'[other] \in {0, session_map_[other]}
  BY DEF SessionInv
<1>7. \A other \in Ids : session_map_'[other] # 0 =>
          /\ session_map_'[other] \in 1..Len(sessions')
          /\ sessions'[session_map_'[other]].id = other
  BY <1>3, <1>6 DEF SessionInv
<1>8. /\ sessions' \in Seq(SessionRec) /\ Len(sessions') >= Len(sessions)
      /\ \A j \in 1..Len(sessions) : sessions'[j] = sessions[j]
  BY <1>3 DEF SessionInv
<1> HIDE DEF w
<1> QED BY <1>1, <1>3, <1>4, <1>5, <1>6, <1>7, <1>8, PostKeeps

\* SetToSeq lists a finite set, each element once.
LEMMA SetToSeqLists ==
    ASSUME NEW S, IsFiniteSet(S)
    PROVE  LET q == SetToSeq(S) IN
           /\ q \in Seq(S)
           /\ \A j, k \in 1..Len(q) : q[j] = q[k] => j = k
           /\ \A x \in S : \E k \in 1..Len(q) : q[k] = x
<1> DEFINE n == Cardinality(S)
           q == SetToSeq(S)
<1>1. n \in Nat /\ ExistsBijection(1..n, S)
  BY FS_CardinalityType
<1>2. PICK f : f \in Bijection(1..n, S)
  BY <1>1 DEF ExistsBijection
<1>3. f \in [1..n -> S] /\ IsInjective(f)
  BY <1>2 DEF Bijection, Injection
<1>4. q \in [1..n -> S] /\ IsInjective(q)
  BY <1>3, Zenon DEF SetToSeq
<1> HIDE DEF q, n
<1>5. q \in Seq(S) /\ Len(q) = n /\ DOMAIN q = 1..n
  BY <1>1, <1>4
<1>6. q \in Injection(1..n, S)
  BY <1>4 DEF Injection
<1>7. Cardinality(1..n) = n
  BY <1>1, FS_Interval
<1>8. q \in Surjection(1..n, S)
  BY <1>6, <1>7, FS_Injection DEF n
<1>9. \A x \in S : \E k \in 1..n : q[k] = x
  BY <1>8 DEF Surjection
<1>10. \A j, k \in 1..n : q[j] = q[k] => j = k
  BY <1>4, <1>5 DEF IsInjective
<1> QED BY <1>5, <1>9, <1>10 DEF q

\* The task that closes session s and counts it.
CountTask(s) == Task("close and count", s)

\* What the destructor's loop leaves in the queue of worker w.
PostsCounts(w) ==
    LET old == Len(pending[w])
        new == Len(pending'[w])
    IN /\ new >= old
       /\ \A k \in 1..old : pending'[w][k] = pending[w][k]
       /\ \A k \in (old + 1)..new :
              \E s \in counted' : getLoopForHash(sessions[s].id) = w /\ pending'[w][k] = CountTask(s)
       /\ \A j, k \in (old + 1)..new : pending'[w][j] = pending'[w][k] => j = k
       /\ \A s \in counted' : getLoopForHash(sessions[s].id) = w =>
              \E k \in (old + 1)..new : pending'[w][k] = CountTask(s)

\* Destroy posts one such task for each session of the map.
LEMMA DestroyEffect ==
    ASSUME SessionInv, Destroy
    PROVE  /\ life = "listening" /\ life' = "spinning"
           /\ UNCHANGED <<world, session_map_, quit, try_times, readVars, workVars>>
           /\ counted' \in SUBSET (1..Len(sessions)) /\ IsFiniteSet(counted')
           /\ \A s \in counted' : \E id \in Ids : session_map_[id] = s
           /\ \A id \in Ids : session_map_[id] # 0 => session_map_[id] \in counted'
           /\ pending' \in [Workers -> Seq(TaskRec)]
           /\ \A w \in Workers : PostsCounts(w)
<1>1. /\ life = "listening" /\ life' = "spinning"
      /\ counted' = {session_map_[i] : i \in Ids} \ {0}
      /\ pending' = [w \in Workers |-> pending[w] \o
             SetToSeq({CountTask(s) : s \in {t \in counted' : getLoopForHash(sessions[t].id) = w}})]
      /\ UNCHANGED <<world, session_map_, quit, try_times, readVars, workVars>>
  BY DEF Destroy, CountTask
<1>2. counted' \in SUBSET (1..Len(sessions)) /\ \A s \in counted' : \E id \in Ids : session_map_[id] = s
  BY <1>1 DEF SessionInv
<1>3. \A id \in Ids : session_map_[id] # 0 => session_map_[id] \in counted'
  BY <1>1
<1>4. Len(sessions) \in Nat
  BY DEF SessionInv
<1>5. IsFiniteSet(counted')
  <2>1. IsFiniteSet(1..Len(sessions))
    BY <1>4, FS_Interval
  <2> QED BY <1>2, <2>1, FS_Subset
<1> DEFINE C(w) == {t \in counted' : getLoopForHash(sessions[t].id) = w}
           T(w) == {CountTask(s) : s \in C(w)}
           q(w) == SetToSeq(T(w))
<1>6. pending' = [w \in Workers |-> pending[w] \o q(w)]
  BY <1>1
<1>7. \A s \in counted' : CountTask(s) \in TaskRec
  <2>1. \A s \in counted' : s \in Nat
    BY <1>2, <1>4
  <2>2. "close and count" \in TaskNames
    BY DEF TaskNames
  <2> QED BY <2>1, <2>2, EventType, Zenon DEF CountTask
<1>8. ASSUME NEW w \in Workers
      PROVE  /\ q(w) \in Seq(TaskRec) /\ q(w) \in Seq(T(w))
             /\ \A j, k \in 1..Len(q(w)) : q(w)[j] = q(w)[k] => j = k
             /\ \A x \in T(w) : \E k \in 1..Len(q(w)) : q(w)[k] = x
  <2>1. IsFiniteSet(C(w))
    <3>1. C(w) \in SUBSET counted'
      OBVIOUS
    <3> HIDE DEF C
    <3> QED BY <1>5, <3>1, FS_Subset
  <2>2. IsFiniteSet(T(w))
    <3> DEFINE f == [s \in C(w) |-> CountTask(s)]
    <3>1. f \in Surjection(C(w), T(w))
      BY DEF Surjection
    <3> HIDE DEF f, C, T
    <3> QED BY <2>1, <3>1, FS_Surjection
  <2>3. T(w) \subseteq TaskRec
    BY <1>7
  <2> HIDE DEF T, C
  <2>4. /\ q(w) \in Seq(T(w))
        /\ \A j, k \in 1..Len(q(w)) : q(w)[j] = q(w)[k] => j = k
        /\ \A x \in T(w) : \E k \in 1..Len(q(w)) : q(w)[k] = x
    BY <2>2, SetToSeqLists
  <2>5. q(w) \in Seq(TaskRec)
    <3> HIDE DEF q
    <3> QED BY <2>3, <2>4, SeqMonotonic
  <2> QED BY <2>4, <2>5
<1>9. \A w \in Workers : \A x : x \in T(w) <=>
          \E s \in counted' : getLoopForHash(sessions[s].id) = w /\ x = CountTask(s)
  OBVIOUS
<1> HIDE DEF q, T, C
<1>10. pending \in [Workers -> Seq(TaskRec)]
  BY DEF SessionInv
<1>11. pending' \in [Workers -> Seq(TaskRec)]
  <2>1. \A w \in Workers : pending[w] \o q(w) \in Seq(TaskRec)
    BY <1>8, <1>10, ConcatProperties
  <2> QED BY <1>6, <2>1
<1>12. ASSUME NEW w \in Workers PROVE PostsCounts(w)
  <2> DEFINE p == pending[w]
             r == q(w)
             n == pending'[w]
  <2>1. n = p \o r /\ p \in Seq(TaskRec) /\ r \in Seq(TaskRec)
    BY <1>6, <1>8, <1>10
  <2>2. r \in Seq(T(w))
    BY <1>8
  <2>3. /\ \A j, k \in 1..Len(r) : r[j] = r[k] => j = k
        /\ \A x \in T(w) : \E k \in 1..Len(r) : r[k] = x
    BY <1>8
  <2> HIDE DEF p, r, n
  <2>4. \A k \in 1..Len(r) : r[k] \in T(w)
    BY <2>2
  <2>5. /\ Len(p) \in Nat /\ Len(r) \in Nat /\ Len(n) = Len(p) + Len(r)
        /\ \A k \in 1..Len(p) : n[k] = p[k]
        /\ \A k \in 1..Len(r) : n[Len(p) + k] = r[k]
    BY <2>1
  <2>6. \A k \in (Len(p) + 1)..Len(n) : k - Len(p) \in 1..Len(r) /\ n[k] = r[k - Len(p)]
    <3> TAKE k \in (Len(p) + 1)..Len(n)
    <3>1. k - Len(p) \in 1..Len(r) /\ k = Len(p) + (k - Len(p))
      BY <2>5
    <3> QED BY <2>5, <3>1
  <2>7. Len(n) >= Len(p)
    BY <2>5
  <2>8. \A k \in (Len(p) + 1)..Len(n) :
            \E s \in counted' : getLoopForHash(sessions[s].id) = w /\ n[k] = CountTask(s)
    BY <1>9, <2>4, <2>6
  <2>9. \A j, k \in (Len(p) + 1)..Len(n) : n[j] = n[k] => j = k
    <3> SUFFICES ASSUME NEW j \in (Len(p) + 1)..Len(n), NEW k \in (Len(p) + 1)..Len(n), n[j] = n[k]
                 PROVE  j = k
      OBVIOUS
    <3>1. j - Len(p) = k - Len(p)
      BY <2>3, <2>6
    <3> QED BY <2>5, <3>1
  <2>10. \A s \in counted' : getLoopForHash(sessions[s].id) = w =>
             \E k \in (Len(p) + 1)..Len(n) : n[k] = CountTask(s)
    <3> SUFFICES ASSUME NEW s \in counted', getLoopForHash(sessions[s].id) = w
                 PROVE  \E k \in (Len(p) + 1)..Len(n) : n[k] = CountTask(s)
      OBVIOUS
    <3>1. PICK k \in 1..Len(r) : r[k] = CountTask(s)
      BY <1>9, <2>3
    <3>2. Len(p) + k \in (Len(p) + 1)..Len(n) /\ n[Len(p) + k] = CountTask(s)
      BY <2>5, <3>1
    <3> QED BY <3>2
  <2> QED BY <2>5, <2>7, <2>8, <2>9, <2>10 DEF PostsCounts, p, n
<1> QED BY <1>1, <1>2, <1>3, <1>5, <1>11, <1>12

\* What a task or a timer makes of a session keeps its id.
LEMMA RunsKeepsId ==
    /\ \A t : Runs(t) => \/ sessions' = sessions
                         \/ \E i, r : Becomes(i, r) /\ r.id = sessions[i].id
    /\ \A i : Ticks(i) => \E j, r : Becomes(j, r) /\ r.id = sessions[j].id
BY DEF Runs, Ticks, Ups, Gets, Errs, Waits, Downs

\* HandleError posts an error to a session of the map, or nothing.
LEMMA ErrorEffect ==
    ASSUME HandleError
    PROVE  /\ life = "listening" /\ UNCHANGED <<baseVars, workVars, rcvbuf, arrived, errors, reading>>
           /\ \/ pending' = pending
              \/ \E id \in Ids : Posts(id, <<Task("error", session_map_[id])>>)
BY DEF HandleError, Posts, Post, workVars

\* Init establishes SessionInv.
LEMMA SessionInit == Init => SessionInv
<1> SUFFICES ASSUME Init PROVE SessionInv
  OBVIOUS
<1>1. session_map_ = [i \in Ids |-> 0] /\ sessions = <<>> /\ pending = [w \in Workers |-> <<>>]
  BY DEF Init
<1>2. <<>> \in Seq(SessionRec) /\ <<>> \in Seq(TaskRec) /\ Len(<<>>) = 0
  BY EmptySeq
<1>3. pending \in [Workers -> Seq(TaskRec)] /\ \A w \in Workers : Len(pending[w]) = 0
  BY <1>1, <1>2
<1>4. session_map_ \in [Ids -> Nat] /\ \A id \in Ids : session_map_[id] = 0
  BY <1>1
<1> QED BY <1>1, <1>2, <1>3, <1>4 DEF SessionInv

\* ProcessPacket keeps SessionInv.
LEMMA PacketKeeps ==
    ASSUME SessionInv, NEW a \in ArrivedRec, NEW n \in Nat, Processes(a, n)
    PROVE  SessionInv'
<1>1. a.id \in Ids /\ a.from \in Addresses
  BY DEF ArrivedRec
<1>2. ASSUME NEW i \in Nat
      PROVE  /\ PktTask(i, n, a.from) \in TaskRec
             /\ PktTask(i, n, a.from).s = i /\ PktTask(i, n, a.from).from \in Addresses
  <2>1. <<n>> \in Data
    BY DEF Data, Item
  <2> DEFINE d == <<n>>
  <2> HIDE DEF d
  <2>2. d \in Data
    BY <2>1 DEF d
  <2>3. PktTask(i, n, a.from) = [task |-> "packet", s |-> i, data |-> d, from |-> a.from]
    BY DEF PktTask, d
  <2> QED BY <1>1, <1>2, <2>2, <2>3 DEF TaskRec, TaskNames, Senders
<1>3. session_map_[a.id] \in Nat /\ Len(sessions) + 1 \in Nat
  BY <1>1 DEF SessionInv
<1>4. CASE UNCHANGED <<session_map_, sessions, pending>>
  BY <1>4 DEF SessionInv
<1>5. CASE Posts(a.id, <<PktTask(session_map_[a.id], n, a.from)>>) /\ session_map_' = session_map_
  BY <1>1, <1>2, <1>3, <1>5, PostsKeeps
<1>6. CASE Creates(a.id, a.from, <<PktTask(Len(sessions) + 1, n, a.from)>>)
  <2> DEFINE t == PktTask(Len(sessions) + 1, n, a.from)
             more == <<t>>
  <2>1. t \in TaskRec /\ t.s = Len(sessions) + 1 /\ t.from \in Addresses
    BY <1>2, <1>3
  <2> HIDE DEF t
  <2>2. more \in Seq(TaskRec) /\ \A k \in 1..Len(more) : more[k] = t
    BY <2>1
  <2>3. Creates(a.id, a.from, more)
    BY <1>6 DEF t
  <2> HIDE DEF more
  <2> QED BY <1>1, <2>1, <2>2, <2>3, CreatesKeeps
<1>7. CASE Creates(a.id, a.from, <<>>)
  <2> DEFINE more == <<>>
  <2>1. more \in Seq(TaskRec) /\ Len(more) = 0
    BY EmptySeq
  <2>2. Creates(a.id, a.from, more)
    BY <1>7
  <2> HIDE DEF more
  <2>3. 1..Len(more) = {}
    BY <2>1
  <2> QED BY <1>1, <2>1, <2>2, <2>3, CreatesKeeps
<1>8. CASE session_map_' = [session_map_ EXCEPT ![a.id] = 0] /\ UNCHANGED <<sessions, pending>>
  BY <1>8 DEF SessionInv
<1>9. CASE /\ session_map_' = [session_map_ EXCEPT ![a.id] = 0]
           /\ Posts(a.id, <<Task("close", session_map_[a.id])>>)
  <2> DEFINE t == Task("close", session_map_[a.id])
  <2>1. t \in TaskRec
    BY <1>3, EventType DEF TaskNames
  <2>2. t.s = session_map_[a.id] /\ t.task # "packet"
    BY DEF Task
  <2>3. Posts(a.id, <<t>>)
    BY <1>9
  <2> HIDE DEF t
  <2> QED BY <1>1, <1>9, <2>1, <2>2, <2>3, PostsKeeps
<1> QED BY <1>4, <1>5, <1>6, <1>7, <1>8, <1>9 DEF Processes

\* Every step keeps SessionInv.
LEMMA SessionStep == ReadInv /\ SessionInv /\ [Next]_vars => SessionInv'
<1> SUFFICES ASSUME ReadInv, SessionInv, [Next]_vars PROVE SessionInv'
  OBVIOUS
<1>1. ASSUME UNCHANGED <<sessions, session_map_, pending>> PROVE SessionInv'
  BY <1>1 DEF SessionInv
<1>2. CASE \E a \in Arrivals : Deliver(a)
  BY <1>1, <1>2 DEF Deliver, Arrive, baseVars, workVars
<1>3. CASE \E w \in Workers : Bounce(w)
  BY <1>1, <1>3 DEF Bounce, baseVars, workVars
<1>4. CASE HandleRead
  BY <1>1, <1>4 DEF HandleRead, baseVars, workVars
<1>5. CASE ProcessPacket
  <2>1. Processed' \in Nat
    BY <1>5, PacketEffect DEF ReadInv
  <2> QED BY <1>5, <2>1, PacketEffect, PacketKeeps
<1>6. CASE HandleError
  <2>1. CASE pending' = pending
    BY <1>1, <1>6, <2>1 DEF HandleError, baseVars, workVars
  <2>2. CASE \E id \in Ids : Posts(id, <<Task("error", session_map_[id])>>)
    <3>1. PICK id \in Ids : Posts(id, <<Task("error", session_map_[id])>>)
      BY <2>2
    <3> DEFINE t == Task("error", session_map_[id])
    <3>2. session_map_[id] \in Nat /\ session_map_' = session_map_
      BY <1>6, ErrorEffect DEF SessionInv, baseVars
    <3>3. t \in TaskRec
      BY <3>2, EventType DEF TaskNames
    <3>4. t.s = session_map_[id] /\ t.task # "packet"
      BY DEF Task
    <3>5. Posts(id, <<t>>)
      BY <3>1
    <3> HIDE DEF t
    <3> QED BY <3>2, <3>3, <3>4, <3>5, PostsKeeps
  <2> QED BY <1>6, <2>1, <2>2, ErrorEffect
<1>7. CASE UNCHANGED vars
  BY <1>1, <1>7 DEF vars, baseVars, workVars
<1>8. CASE \E w \in Workers : LoopEnds(w)
  <2>1. PICK w \in Workers : LoopEnds(w)
    BY <1>8
  <2>2. UNCHANGED <<session_map_, sessions>> /\ pending' = [pending EXCEPT ![w] = <<>>]
    BY <2>1 DEF LoopEnds, baseVars
  <2> QED BY <2>2, WorkerKeeps
<1>9. CASE \E w \in Workers : RunTask(w)
  <2>1. PICK w \in Workers : RunTask(w)
    BY <1>9
  <2>2. /\ pending[w] # <<>> /\ Runs(Head(pending[w]))
        /\ pending' = [pending EXCEPT ![w] = Tail(@)] /\ session_map_' = session_map_
    BY <2>1, TaskEffect DEF baseVars
  <2>3. \/ sessions' = sessions
        \/ \E i, r : Becomes(i, r) /\ r.id = sessions[i].id
    BY <2>2, RunsKeepsId
  <2> QED BY <2>2, <2>3, WorkerKeeps
<1>10. CASE \E w \in Workers, i \in DOMAIN sessions : StateTimer(w, i)
  <2>1. PICK w \in Workers, i \in DOMAIN sessions : StateTimer(w, i)
    BY <1>10
  <2>2. /\ (sessions[i].closed /\ sessions' = sessions) \/ Ticks(i)
        /\ pending' = pending /\ session_map_' = session_map_
    BY <2>1, TimerEffect DEF baseVars
  <2>3. \/ sessions' = sessions
        \/ \E j, r : Becomes(j, r) /\ r.id = sessions[j].id
    BY <2>2, RunsKeepsId
  <2> QED BY <2>2, <2>3, WorkerKeeps
<1>11. CASE Destroy
  <2>1. /\ sessions' = sessions /\ session_map_' = session_map_
        /\ counted' \in SUBSET (1..Len(sessions))
        /\ pending' \in [Workers -> Seq(TaskRec)]
        /\ \A w \in Workers : PostsCounts(w)
    BY <1>11, DestroyEffect DEF workVars
  <2>2. ASSUME NEW w \in Workers, NEW k \in 1..Len(pending'[w])
        PROVE  TaskFits(pending'[w][k], w, sessions')
    <3>1. Len(pending[w]) \in Nat /\ Len(pending'[w]) \in Nat
      BY <2>1 DEF SessionInv
    <3>2. CASE k \in 1..Len(pending[w])
      <4>1. pending'[w][k] = pending[w][k]
        BY <2>1, <3>2 DEF PostsCounts
      <4> QED BY <2>1, <3>2, <4>1 DEF SessionInv
    <3>3. CASE k \in (Len(pending[w]) + 1)..Len(pending'[w])
      <4>1. PICK s \in counted' : getLoopForHash(sessions[s].id) = w /\ pending'[w][k] = CountTask(s)
        BY <2>1, <3>3 DEF PostsCounts
      <4>2. pending'[w][k].s = s /\ pending'[w][k].task # "packet"
        <5>1. CountTask(s).s = s /\ CountTask(s).task = "close and count"
          BY TaskFields DEF CountTask
        <5> QED BY <4>1, <5>1
      <4> QED BY <2>1, <4>1, <4>2 DEF TaskFits
    <3> QED BY <3>1, <3>2, <3>3
  <2> QED BY <2>1, <2>2 DEF SessionInv
<1>12. CASE SpinEnds
  <2>1. session_map_' = [i \in Ids |-> 0] /\ UNCHANGED <<sessions, pending>>
    BY <1>12 DEF SpinEnds, workVars
  <2>2. session_map_' \in [Ids -> Nat] /\ \A id \in Ids : session_map_'[id] = 0
    BY <2>1
  <2> QED BY <2>1, <2>2 DEF SessionInv
<1>13. CASE Spin \/ QuitNext \/ CloseSocket
  BY <1>1, <1>13 DEF Spin, QuitNext, CloseSocket, workVars
<1>14. CASE DestroyUnlistened
  BY <1>1, <1>14 DEF DestroyUnlistened
<1>15. CASE \E f \in ListenFamilies : Listen(f)
  BY <1>1, <1>15 DEF Listen
<1> QED BY <1>2, <1>3, <1>4, <1>5, <1>6, <1>7, <1>8, <1>9, <1>10, <1>11, <1>12, <1>13, <1>14, <1>15
        DEF Next, Destructor

-------------------------------------------------------------------------------
(* The life of the server.                                                 *)

\* All workers run until the spin ends; then the map is empty and workers are told to quit.
ControlInv ==
    /\ running \subseteq Workers /\ quit \subseteq Workers
    /\ life \in {"listening", "spinning"} => running = Workers
    /\ life \notin {"unwinding", "gone"} => quit = {}
    /\ life = "constructed" => sessions = <<>>
    /\ life \in {"constructed", "crashed", "listening"} => counted = {} /\ try_times = 0
    /\ life \in {"unwinding", "gone"} => \A id \in Ids : session_map_[id] = 0
    /\ try_times \in 0..kServerMaxWaitSessionClosedTryTimes

\* Init establishes ControlInv.
LEMMA ControlInit == Init => ControlInv
BY TransportAssumption DEF Init, ControlInv

\* The least running worker runs.
LEMMA LeastWorker ==
    ASSUME ControlInv, running # {}
    PROVE  Min(running) \in running
<1>1. running \in SUBSET Nat
  BY DEF ControlInv, Workers
<1>2. \E x \in running : \A y \in running : x <= y
  BY <1>1, LeastNumber
<1> QED BY <1>2 DEF Min

\* The workers' steps leave the base loop's variables alone; the number of sessions grows only while
\* the server listens.
LEMMA ControlKept ==
    ASSUME ControlInv, UNCHANGED <<life, quit, counted, try_times>>,
           running' = running \/ \E w : w \in quit /\ running' = running \ {w},
           session_map_' = session_map_ \/ life = "listening",
           sessions = <<>> => sessions' = <<>> \/ life = "listening"
    PROVE  ControlInv'
BY DEF ControlInv

\* Every step keeps ControlInv.
LEMMA ControlStep == SocketInv /\ ReadInv /\ SessionInv /\ ControlInv /\ [Next]_vars => ControlInv'
<1> SUFFICES ASSUME SocketInv, ReadInv, SessionInv, ControlInv, [Next]_vars PROVE ControlInv'
  OBVIOUS
<1>1. ASSUME UNCHANGED <<life, quit, counted, try_times, running, session_map_, sessions>>
      PROVE  ControlInv'
  BY <1>1, ControlKept
<1>2. CASE \E a \in Arrivals : Deliver(a)
  BY <1>1, <1>2 DEF Deliver, Arrive, baseVars, workVars
<1>3. CASE \E w \in Workers : Bounce(w)
  BY <1>1, <1>3 DEF Bounce, baseVars, workVars
<1>4. CASE HandleRead
  BY <1>1, <1>4 DEF HandleRead, baseVars, workVars
<1>5. CASE ProcessPacket
  BY <1>5, ControlKept DEF ProcessPacket
<1>6. CASE HandleError
  BY <1>1, <1>6 DEF HandleError, baseVars, workVars
<1>7. CASE UNCHANGED vars
  BY <1>1, <1>7 DEF vars, baseVars, workVars
<1>8. CASE \E w \in Workers : LoopEnds(w)
  BY <1>8, ControlKept DEF LoopEnds, baseVars
<1>9. CASE \E w \in Workers : RunTask(w)
  <2>1. PICK w \in Workers : RunTask(w)
    BY <1>9
  <2>2. UNCHANGED <<life, quit, counted, try_times, running, session_map_>>
    BY <2>1 DEF RunTask, baseVars
  <2>3. sessions # <<>>
    <3>1. Head(pending[w]).s \in 1..Len(sessions)
      BY <2>1, TaskEffect DEF TaskFits
    <3>2. Len(sessions) # 0
      BY <3>1
    <3> QED BY <3>2, EmptySeq, Zenon
  <2> QED BY <2>2, <2>3, ControlKept
<1>10. CASE \E w \in Workers, i \in DOMAIN sessions : StateTimer(w, i)
  <2>1. PICK w \in Workers, i \in DOMAIN sessions : StateTimer(w, i)
    BY <1>10
  <2>2. UNCHANGED <<life, quit, counted, try_times, running, session_map_>>
    BY <2>1 DEF StateTimer, baseVars
  <2>3. sessions # <<>>
    <3>1. i \in 1..Len(sessions)
      BY <2>1 DEF SessionInv
    <3>2. Len(sessions) # 0
      BY <3>1
    <3> QED BY <3>2, EmptySeq, Zenon
  <2> QED BY <2>2, <2>3, ControlKept
<1>11. CASE Destroy
  <2>1. /\ life = "listening" /\ life' = "spinning"
        /\ UNCHANGED <<quit, try_times, running, session_map_, sessions>>
    BY <1>11 DEF Destroy, workVars
  <2> QED BY <2>1 DEF ControlInv
<1>12. CASE Spin
  <2>1. /\ life = "spinning" /\ try_times' = try_times + 1 /\ ~GaveUp
        /\ UNCHANGED <<life, quit, counted, running, session_map_, sessions>>
    BY <1>12 DEF Spin, workVars
  <2>2. try_times' \in 0..kServerMaxWaitSessionClosedTryTimes
    BY <2>1, TransportAssumption DEF ControlInv, GaveUp
  <2> QED BY <2>1, <2>2 DEF ControlInv
<1>13. CASE SpinEnds
  <2>1. /\ life = "spinning" /\ life' = "unwinding" /\ session_map_' = [i \in Ids |-> 0]
        /\ UNCHANGED <<quit, counted, try_times, running, sessions>>
    BY <1>13 DEF SpinEnds, workVars
  <2> QED BY <2>1 DEF ControlInv
<1>14. CASE QuitNext
  <2>1. /\ life = "unwinding" /\ running # {} /\ quit' = quit \cup {Min(running)}
        /\ UNCHANGED <<life, counted, try_times, running, session_map_, sessions>>
    BY <1>14 DEF QuitNext, workVars
  <2>2. Min(running) \in running
    BY <2>1, LeastWorker
  <2> QED BY <2>1, <2>2 DEF ControlInv
<1>15. CASE CloseSocket
  <2>1. /\ life = "unwinding" /\ life' = "gone"
        /\ UNCHANGED <<quit, counted, try_times, running, session_map_, sessions>>
    BY <1>15 DEF CloseSocket, workVars
  <2> QED BY <2>1 DEF ControlInv
<1>16. CASE DestroyUnlistened
  <2>1. /\ life = "constructed" /\ life' = "crashed"
        /\ UNCHANGED <<quit, counted, try_times, running, session_map_, sessions>>
    BY <1>16 DEF DestroyUnlistened
  <2> QED BY <2>1 DEF ControlInv
<1>17. CASE \E f \in ListenFamilies : Listen(f)
  <2>1. /\ life = "constructed"
        /\ UNCHANGED <<quit, counted, try_times, session_map_, sessions>>
        /\ UNCHANGED <<life, running>> \/ (life' = "listening" /\ running' = Workers)
    BY <1>17 DEF Listen
  <2> QED BY <2>1 DEF ControlInv
<1> QED BY <1>2, <1>3, <1>4, <1>5, <1>6, <1>7, <1>8, <1>9, <1>10, <1>11, <1>12, <1>13, <1>14, <1>15,
           <1>16, <1>17 DEF Next, Destructor

-------------------------------------------------------------------------------
(* What all the proofs below start from.                                   *)

BaseInv == SocketInv /\ ReadInv /\ SessionInv /\ ControlInv

\* Init establishes BaseInv.
LEMMA BaseInit == Init => BaseInv
BY SocketInit, ReadInit, SessionInit, ControlInit DEF BaseInv

\* Every step keeps BaseInv.
LEMMA BaseStep == BaseInv /\ [Next]_vars => BaseInv'
BY SocketStep, ReadStep, SessionStep, ControlStep DEF BaseInv

-------------------------------------------------------------------------------
(* The transmit queues.                                                    *)

OutRec == [data : Data, addr : Addresses]
AppendedRec == [id : Ids, addr : Addresses]
TxRec == [raw_packets : Seq(OutRec), full : BOOLEAN, wire : Seq(OutRec)]

NumberOf(p) == p.data[kPublicHeaderLength + 1]

\* The packet p is one of the first m that were appended, as list records them.
Appended(p, list, m) ==
    /\ NumberOf(p) \in 1..m
    /\ p.addr = list[NumberOf(p)].addr
    /\ ReadFrom(p.data).session_id = list[NumberOf(p)].id

\* The packets of q were appended in this order.
InOrder(q, list, m) ==
    /\ q \in Seq(OutRec)
    /\ \A i \in 1..Len(q) : Appended(q[i], list, m)
    /\ \A i, j \in 1..Len(q) : i < j => NumberOf(q[i]) < NumberOf(q[j])

\* What was sent, and behind it what waits.
Queue(t) == t.wire \o t.raw_packets

\* The queue has room, and all of it is in order.
GoodTx(t, list, m) ==
    /\ t \in TxRec /\ t.full = FALSE /\ Len(t.raw_packets) < kNumPacketsPerSend
    /\ InOrder(Queue(t), list, m)

\* A part of a queue is in order, as is a queue to which the next packet is appended.
LEMMA OrderKept ==
    ASSUME NEW q, NEW list, NEW m \in Nat, InOrder(q, list, m)
    PROVE  /\ \A n \in 0..Len(q) : InOrder(SubSeq(q, 1, n), list, m)
           /\ InOrder(q, list, m + 1)
           /\ \A p \in OutRec : Appended(p, list, m + 1) /\ NumberOf(p) = m + 1
                                    => InOrder(Append(q, p), list, m + 1)
<1>1. q \in Seq(OutRec) /\ Len(q) \in Nat
  BY DEF InOrder
<1>2. ASSUME NEW n \in 0..Len(q) PROVE InOrder(SubSeq(q, 1, n), list, m)
  <2> DEFINE u == SubSeq(q, 1, n)
  <2>1. u \in Seq(OutRec) /\ Len(u) = n /\ \A i \in 1..n : u[i] = q[i]
    BY <1>1
  <2> HIDE DEF u
  <2>2. InOrder(u, list, m)
    BY <1>1, <2>1 DEF InOrder
  <2> QED BY <2>2 DEF u
<1>3. \A i \in 1..Len(q) : NumberOf(q[i]) \in 1..m /\ Appended(q[i], list, m + 1)
  BY DEF InOrder, Appended
<1>4. InOrder(q, list, m + 1)
  BY <1>3 DEF InOrder
<1>5. ASSUME NEW p \in OutRec, Appended(p, list, m + 1), NumberOf(p) = m + 1
      PROVE  InOrder(Append(q, p), list, m + 1)
  <2> DEFINE u == Append(q, p)
  <2>1. /\ u \in Seq(OutRec) /\ Len(u) = Len(q) + 1 /\ u[Len(q) + 1] = p
        /\ \A i \in 1..Len(q) : u[i] = q[i]
    BY <1>1
  <2> HIDE DEF u
  <2>2. \A i \in 1..Len(u) : Appended(u[i], list, m + 1)
    BY <1>1, <1>3, <1>5, <2>1
  <2>3. ASSUME NEW i \in 1..Len(u), NEW j \in 1..Len(u), i < j
        PROVE  NumberOf(u[i]) < NumberOf(u[j])
    <3>1. i \in 1..Len(q) /\ u[i] = q[i]
      BY <1>1, <2>1, <2>3
    <3>2. CASE j \in 1..Len(q)
      BY <2>1, <2>3, <3>1, <3>2 DEF InOrder
    <3>3. CASE j = Len(q) + 1
      <4>1. NumberOf(q[i]) \in 1..m
        BY <1>3, <3>1
      <4> QED BY <1>5, <2>1, <3>1, <3>3, <4>1
    <3> QED BY <1>1, <2>1, <3>2, <3>3
  <2>4. InOrder(u, list, m + 1)
    BY <2>1, <2>2, <2>3 DEF InOrder
  <2> QED BY <2>4 DEF u
<1> QED BY <1>2, <1>4, <1>5

\* FlushTxQueue sends a part and drops the rest.
LEMMA FlushType ==
    ASSUME NEW t \in TxRec, NEW u \in FlushTxQueue(t)
    PROVE  /\ u \in TxRec /\ u.raw_packets = <<>> /\ u.full = t.full
           /\ \E n \in 0..Len(Queue(t)) : Queue(u) = SubSeq(Queue(t), 1, n)
<1> DEFINE raw == t.raw_packets
           wire == t.wire
<1>1. PICK n \in 0..Len(raw) :
          u = [t EXCEPT !.raw_packets = <<>>, !.wire = wire \o SubSeq(raw, 1, n)]
  BY DEF FlushTxQueue, SendMmsg
<1>2. raw \in Seq(OutRec) /\ wire \in Seq(OutRec)
  BY DEF TxRec
<1> DEFINE sent == SubSeq(raw, 1, n)
           all == wire \o raw
           gone == wire \o sent
           none == <<>>
<1>3. /\ sent \in Seq(OutRec) /\ Len(sent) = n /\ \A i \in 1..n : sent[i] = raw[i]
      /\ Len(raw) \in Nat /\ Len(wire) \in Nat
  BY <1>2
<1>4. u = [t EXCEPT !.raw_packets = none, !.wire = gone]
  BY <1>1
<1> HIDE DEF raw, wire, sent
<1>5. /\ gone \in Seq(OutRec) /\ Len(gone) = Len(wire) + n
      /\ \A i \in 1..(Len(wire) + n) : gone[i] = IF i <= Len(wire) THEN wire[i] ELSE raw[i - Len(wire)]
  <2>1. /\ gone \in Seq(OutRec) /\ Len(gone) = Len(wire) + n
        /\ \A i \in 1..(Len(wire) + n) : gone[i] = IF i <= Len(wire) THEN wire[i] ELSE sent[i - Len(wire)]
    BY <1>2, <1>3, ConcatProperties
  <2>2. \A i \in 1..(Len(wire) + n) : ~(i <= Len(wire)) => i - Len(wire) \in 1..n
    BY <1>3
  <2> HIDE DEF gone
  <2> QED BY <1>3, <2>1, <2>2
<1>6. /\ all \in Seq(OutRec) /\ Len(all) = Len(wire) + Len(raw)
      /\ \A i \in 1..(Len(wire) + Len(raw)) : all[i] = IF i <= Len(wire) THEN wire[i] ELSE raw[i - Len(wire)]
  BY <1>2, ConcatProperties
<1> HIDE DEF gone, all
<1>7. Len(wire) + n \in 0..Len(all) /\ gone = SubSeq(all, 1, Len(wire) + n)
  <2>1. Len(wire) + n \in 0..Len(all)
    BY <1>3, <1>6
  <2> DEFINE part == SubSeq(all, 1, Len(wire) + n)
  <2>2. /\ part \in Seq(OutRec) /\ Len(part) = Len(wire) + n
        /\ \A i \in 1..(Len(wire) + n) : part[i] = all[i]
    BY <1>6, <2>1
  <2> HIDE DEF part
  <2>3. \A i \in 1..Len(gone) : gone[i] = part[i]
    <3> TAKE i \in 1..Len(gone)
    <3>1. i \in 1..(Len(wire) + n) /\ i \in 1..(Len(wire) + Len(raw))
      BY <1>3, <1>5
    <3>2. /\ gone[i] = IF i <= Len(wire) THEN wire[i] ELSE raw[i - Len(wire)]
          /\ all[i] = IF i <= Len(wire) THEN wire[i] ELSE raw[i - Len(wire)]
      BY <1>5, <1>6, <3>1, Zenon
    <3> QED BY <2>2, <3>1, <3>2
  <2>4. gone = part
    BY <1>5, <2>2, <2>3, SeqEqual
  <2> QED BY <2>1, <2>4 DEF part
<1>8. none \in Seq(OutRec)
  BY EmptySeq
<1> HIDE DEF none
<1>9. u \in TxRec /\ u.raw_packets = none /\ u.wire = gone /\ u.full = t.full
  BY <1>4, <1>5, <1>8 DEF TxRec
<1>10. Queue(u) = gone
  <2>1. Queue(u) = gone \o none
    BY <1>9 DEF Queue
  <2> QED BY <1>5, <2>1, ConcatEmptySeq DEF none
<1> QED BY <1>7, <1>9, <1>10 DEF Queue, all, raw, wire, none

\* Flushing a queue in order leaves one in order, with room.
LEMMA FlushGood ==
    ASSUME NEW t \in TxRec, t.full = FALSE, NEW list, NEW m \in Nat, InOrder(Queue(t), list, m),
           NEW u \in FlushTxQueue(t)
    PROVE  GoodTx(u, list, m)
<1>1. /\ u \in TxRec /\ u.raw_packets = <<>> /\ u.full = t.full
      /\ \E n \in 0..Len(Queue(t)) : Queue(u) = SubSeq(Queue(t), 1, n)
  BY FlushType
<1>2. InOrder(Queue(u), list, m)
  BY <1>1, OrderKept
<1>3. u.full = FALSE
  BY <1>1, Zenon
<1>4. Len(u.raw_packets) < kNumPacketsPerSend
  <2>1. Len(u.raw_packets) = 0
    BY <1>1, EmptySeq, Zenon
  <2> QED BY <2>1, TransportAssumption
<1> QED BY <1>1, <1>2, <1>3, <1>4 DEF GoodTx

\* Appending to the second of two sequences.
LEMMA CatAppend ==
    ASSUME NEW S, NEW s \in Seq(S), NEW t \in Seq(S), NEW x \in S
    PROVE  s \o Append(t, x) = Append(s \o t, x)
<1> DEFINE one == <<x>>
<1>1. Append(t, x) = t \o one /\ Append(s \o t, x) = (s \o t) \o one
  OBVIOUS
<1>2. one \in Seq(S)
  OBVIOUS
<1> HIDE DEF one
<1> QED BY <1>1, <1>2, ConcatAssociative

\* AppendPacket makes a queue of a queue.
LEMMA AppendType ==
    ASSUME NEW t \in TxRec, NEW packet \in Data, NEW address \in Addresses,
           NEW u \in AppendPacket(t, packet, address)
    PROVE  /\ u \in TxRec
           /\ \A list, m : /\ m \in Nat /\ GoodTx(t, list, m)
                           /\ Appended([data |-> packet, addr |-> address], list, m + 1)
                           /\ NumberOf([data |-> packet, addr |-> address]) = m + 1
                           => GoodTx(u, list, m + 1)
<1> DEFINE p == [data |-> packet, addr |-> address]
           l == Append(t.raw_packets, p)
           b == t.full \/ num_packets(t) >= kNumPacketsPerSend
           v == [t EXCEPT !.raw_packets = l, !.full = b]
<1>1. \/ u = t
      \/ u = v /\ ~(num_packets(v) >= kNumPacketsPerSend)
      \/ u \in FlushTxQueue(v)
  BY DEF AppendPacket
<1>2. p \in OutRec
  BY DEF OutRec
<1> HIDE DEF p
<1>3. l \in Seq(OutRec) /\ t.raw_packets \in Seq(OutRec) /\ t.wire \in Seq(OutRec)
  BY <1>2 DEF TxRec
<1>4. t.wire \o l = Append(Queue(t), p)
  <2>1. l = Append(t.raw_packets, p)
    OBVIOUS
  <2> HIDE DEF l
  <2> DEFINE x == t.wire
             y == t.raw_packets
  <2>2. x \in Seq(OutRec) /\ y \in Seq(OutRec) /\ l = Append(y, p) /\ Queue(t) = x \o y
    BY <1>3, <2>1 DEF Queue
  <2> HIDE DEF x, y
  <2>3. x \o Append(y, p) = Append(x \o y, p)
    BY <1>2, <2>2, CatAppend
  <2>4. x \o l = Append(Queue(t), p)
    BY <2>2, <2>3, Zenon
  <2> QED BY <2>4 DEF x
<1> HIDE DEF l
<1>5. b \in BOOLEAN
  OBVIOUS
<1>6. b = (t.full \/ Len(t.raw_packets) >= kNumPacketsPerSend)
  BY DEF num_packets
<1> HIDE DEF b
<1>7. v \in TxRec /\ v.raw_packets = l /\ v.wire = t.wire /\ v.full = b
  BY <1>3, <1>5 DEF TxRec
<1> HIDE DEF v
<1>8. Queue(v) = Append(Queue(t), p)
  BY <1>4, <1>7 DEF Queue
<1>9. u \in TxRec
  BY <1>1, <1>7, FlushType
<1>10. ASSUME NEW list, NEW m \in Nat, GoodTx(t, list, m), Appended(p, list, m + 1), NumberOf(p) = m + 1
       PROVE  GoodTx(u, list, m + 1)
  <2>1. InOrder(Queue(t), list, m + 1) /\ InOrder(Queue(v), list, m + 1)
    BY <1>2, <1>8, <1>10, OrderKept DEF GoodTx
  <2>2. v.full = FALSE
    <3>1. ~t.full /\ ~(Len(t.raw_packets) >= kNumPacketsPerSend)
      <4>1. ~t.full
        BY <1>10, Zenon DEF GoodTx
      <4>2. Len(t.raw_packets) < kNumPacketsPerSend /\ Len(t.raw_packets) \in Nat
        BY <1>3, <1>10 DEF GoodTx
      <4> QED BY <4>1, <4>2, TransportAssumption
    <3>2. ~b
      BY <1>6, <3>1, Zenon
    <3> QED BY <1>5, <1>7, <3>2
  <2>3. CASE u = t
    BY <1>10, <2>1, <2>3, Zenon DEF GoodTx
  <2>4. CASE u = v /\ ~(num_packets(v) >= kNumPacketsPerSend)
    <3>1. Len(v.raw_packets) < kNumPacketsPerSend
      BY <1>3, <1>7, <2>4, TransportAssumption DEF num_packets
    <3> QED BY <1>7, <2>1, <2>2, <2>4, <3>1, Zenon DEF GoodTx
  <2>5. CASE u \in FlushTxQueue(v)
    <3>1. m + 1 \in Nat
      BY <1>10
    <3> QED BY <1>7, <2>1, <2>2, <2>5, <3>1, FlushGood
  <2> QED BY <1>1, <2>3, <2>4, <2>5
<1> QED BY <1>9, <1>10 DEF p

\* The n-th packet of a worker carries its number and the id of its session.
LEMMA OutputPacket ==
    ASSUME NEW id \in Ids, NEW n \in Nat, NEW a \in Addresses
    PROVE  LET p == [data |-> OutputCallback(id, n), addr |-> a]
           IN /\ OutputCallback(id, n) \in Data
              /\ NumberOf(p) = n /\ p.addr = a /\ ReadFrom(p.data).session_id = id
<1> DEFINE H == kPublicHeaderLength
           buf == [i \in 1..(H + 1) |-> IF i > H THEN n ELSE 0]
           d == OutputCallback(id, n)
<1>1. H \in Nat
  BY Lengths
<1>2. buf \in Data /\ Len(buf) = H + 1
  BY SentBuffer
<1>3. buf[H + 1] = n
  <2> HIDE DEF H
  <2> QED BY <1>1
<1>4. d = WritePublicHeader("DATA", id, buf)
  BY DEF OutputCallback
<1>5. "DATA" \in Types /\ id \in Word
  BY Parameters DEF Types
<1> HIDE DEF buf, d
<1>6. Len(buf) >= H /\ H + 1 \in (H + 1)..Len(buf)
  BY <1>1, <1>2
<1>7. /\ d \in Data /\ \A j \in (H + 1)..Len(buf) : d[j] = buf[j]
      /\ ReadFrom(d).session_id = id
  BY <1>2, <1>4, <1>5, <1>6, PacketContents
<1>8. d[H + 1] = n
  BY <1>3, <1>6, <1>7
<1> HIDE DEF H
<1> QED BY <1>7, <1>8 DEF NumberOf, d, H

\* The queues that may be there after one more packet.
Appends(S, w, s, n) ==
    UNION {AppendPacket(t, OutputCallback(s.id, Len(appended[w]) + n), s.peer) : t \in S}

\* They are queues.
LEMMA AppendsType ==
    ASSUME NEW w, Len(appended[w]) \in Nat, NEW s \in SessionRec, NEW n \in Nat,
           NEW S \in SUBSET TxRec
    PROVE  Appends(S, w, s, n) \in SUBSET TxRec
<1> DEFINE p == OutputCallback(s.id, Len(appended[w]) + n)
<1>1. s.id \in Ids /\ s.peer \in Addresses
  BY DEF SessionRec
<1>2. p \in Data
  <2> DEFINE m == Len(appended[w]) + n
  <2>1. m \in Nat
    OBVIOUS
  <2> HIDE DEF m
  <2>2. OutputCallback(s.id, m) \in Data
    BY <1>1, <2>1, OutputPacket
  <2> QED BY <2>2 DEF m
<1> HIDE DEF p
<1>3. ASSUME NEW t \in S, NEW u \in AppendPacket(t, p, s.peer) PROVE u \in TxRec
  BY <1>1, <1>2, AppendType
<1>4. Appends(S, w, s, n) = UNION {AppendPacket(t, p, s.peer) : t \in S}
  BY DEF Appends, p
<1> QED BY <1>3, <1>4

\* The queues that may be there after 0, 1, ... k packets.
Burst(h, w, s, k) ==
    /\ h \in [0..k -> SUBSET TxRec]
    /\ h[0] = {tx[w]} /\ \A n \in 1..k : h[n] = Appends(h[n - 1], w, s, n)
    /\ AfterAppends(w, s, k) = h[k]

\* AfterAppends is what its definition says.
LEMMA AppendsRecursion ==
    ASSUME NEW w, tx[w] \in TxRec, Len(appended[w]) \in Nat, NEW s \in SessionRec, NEW k \in Nat
    PROVE  \E h : Burst(h, w, s, k)
<1> DEFINE start == {tx[w]}
           X == SUBSET TxRec
           F == [n \in 1..k |-> [S \in X |-> Appends(S, w, s, n)]]
           Def(g) == [n \in 0..k |-> IF n = 0 THEN start ELSE Appends(g[n - 1], w, s, n)]
<1>1. start \in X
  OBVIOUS
<1>2. F \in [1..k -> [X -> X]]
  BY AppendsType
<1>3. PICK g \in [0..k -> X] : g[0] = start /\ \A n \in 1..k : g[n] = F[n][g[n - 1]]
  <2> HIDE DEF start, F, X
  <2>1. Solvable(k, X, start, F)
    BY <1>1, <1>2, RecursionExists
  <2> QED BY <2>1, Zenon DEF Solvable
<1>4. \A n \in 1..k : g[n] = Appends(g[n - 1], w, s, n)
  <2>1. \A n \in 1..k : g[n - 1] \in X
    <3> HIDE DEF X
    <3> QED OBVIOUS
  <2>2. \A n \in 1..k, S \in X : F[n][S] = Appends(S, w, s, n)
    OBVIOUS
  <2> HIDE DEF F, X
  <2> QED BY <1>3, <2>1, <2>2
<1>5. g = Def(g)
  <2> HIDE DEF start, X
  <2> QED BY <1>3, <1>4
<1> HIDE DEF F
<1> DEFINE h == CHOOSE f : f = Def(f)
<1>6. h = Def(h)
  <2> HIDE DEF Def
  <2> QED BY <1>5, Zenon
<1>7. AfterAppends(w, s, k) = h[k]
  BY Zenon DEF AfterAppends, Appends
<1> HIDE DEF h
<1>8. h[0] = start /\ \A n \in 1..k : h[n] = Appends(h[n - 1], w, s, n)
  <2> HIDE DEF start
  <2> QED BY <1>6
<1>9. h \in [0..k -> X]
  <2> DEFINE S == {n \in Nat : n <= k => h[n] \in X}
  <2>1. 0 \in S
    BY <1>1, <1>8
  <2>2. ASSUME NEW n \in 0..(k - 1), n \in S PROVE n + 1 \in S
    <3>1. n + 1 \in 1..k /\ n + 1 - 1 = n /\ h[n] \in X /\ n + 1 \in Nat
      BY <2>2
    <3>2. h[n + 1] = Appends(h[n], w, s, n + 1)
      BY <1>8, <3>1
    <3>3. h[n + 1] \in X
      BY <3>1, <3>2, AppendsType
    <3> HIDE DEF X
    <3> QED BY <3>1, <3>3
  <2>3. \A n \in 0..k : n \in S
    <3> HIDE DEF S
    <3> QED BY <2>1, <2>2, BoundedInduction
  <2> HIDE DEF X, start
  <2>4. \A n \in 0..k : h[n] \in X
    BY <2>3
  <2>5. h = [n \in 0..k |-> h[n]]
    BY <1>6
  <2> QED BY <2>4, <2>5
<1>10. Burst(h, w, s, k)
  BY <1>7, <1>8, <1>9 DEF Burst
<1> QED BY <1>10

\* Packets that were appended stay so when the list grows.
LEMMA ListGrows ==
    ASSUME NEW t, NEW list, NEW m \in Nat, GoodTx(t, list, m),
           NEW new, \A i \in 1..m : new[i] = list[i]
    PROVE  GoodTx(t, new, m)
<1>1. \A p : Appended(p, list, m) => Appended(p, new, m)
  BY DEF Appended
<1>2. InOrder(Queue(t), new, m)
  <2> DEFINE q == Queue(t)
  <2>1. InOrder(q, list, m)
    BY DEF GoodTx
  <2> HIDE DEF q
  <2>2. InOrder(q, new, m)
    BY <1>1, <2>1 DEF InOrder
  <2> QED BY <2>2 DEF q
<1> QED BY <1>2 DEF GoodTx

\* After a burst and FlushTxQueue the queue has room and all is in order.
LEMMA FlushedGood ==
    ASSUME NEW w, appended[w] \in Seq(AppendedRec), GoodTx(tx[w], appended[w], Len(appended[w])),
           NEW s \in SessionRec, NEW k \in Nat, NEW u \in Flushed(w, s, k)
    PROVE  LET new == appended[w] \o [i \in 1..k |-> [id |-> s.id, addr |-> s.peer]]
           IN new \in Seq(AppendedRec) /\ GoodTx(u, new, Len(new))
<1> DEFINE A == appended[w]
           L == Len(A)
           r == [id |-> s.id, addr |-> s.peer]
           burst == [i \in 1..k |-> r]
           new == A \o burst
<1>1. r \in AppendedRec /\ r.id = s.id /\ r.addr = s.peer /\ s.id \in Ids /\ s.peer \in Addresses
  BY DEF SessionRec, AppendedRec
<1> HIDE DEF r
<1>2. burst \in Seq(AppendedRec) /\ Len(burst) = k /\ \A i \in 1..k : burst[i] = r
  BY <1>1
<1>3. A \in Seq(AppendedRec) /\ L \in Nat
  OBVIOUS
<1> HIDE DEF burst
<1>4. /\ new \in Seq(AppendedRec) /\ Len(new) = L + k
      /\ \A i \in 1..L : new[i] = A[i]
      /\ \A i \in 1..k : new[L + i] = r
  BY <1>2, <1>3
<1> HIDE DEF new
<1>5. tx[w] \in TxRec /\ GoodTx(tx[w], new, L)
  <2>1. GoodTx(tx[w], new, L)
    BY <1>3, <1>4, ListGrows
  <2> QED BY <2>1 DEF GoodTx
<1>0. PICK h : Burst(h, w, s, k)
  <2>1. tx[w] \in TxRec /\ Len(appended[w]) \in Nat
    BY <1>3, <1>5
  <2> HIDE DEF A, L
  <2> QED BY <2>1, AppendsRecursion
<1>6. /\ h \in [0..k -> SUBSET TxRec]
      /\ h[0] = {tx[w]} /\ \A n \in 1..k : h[n] = Appends(h[n - 1], w, s, n)
      /\ AfterAppends(w, s, k) = h[k]
  BY <1>0 DEF Burst
<1> DEFINE S == {n \in Nat : n <= k => \A t \in h[n] : GoodTx(t, new, L + n)}
<1>7. 0 \in S
  <2>1. L + 0 = L
    BY <1>3
  <2>2. \A t \in h[0] : GoodTx(t, new, L + 0)
    BY <1>5, <1>6, <2>1
  <2> QED BY <2>2
<1>8. ASSUME NEW n \in 0..(k - 1), n \in S PROVE n + 1 \in S
  <2>1. n + 1 \in 1..k /\ n + 1 - 1 = n /\ n + 1 \in Nat /\ n \in 0..k /\ L + n \in Nat
    BY <1>3, <1>8
  <2> DEFINE m == L + n
             d == OutputCallback(s.id, L + (n + 1))
             p == [data |-> d, addr |-> s.peer]
  <2>2. \A t \in h[n] : t \in TxRec /\ GoodTx(t, new, m)
    <3>1. \A t \in h[n] : GoodTx(t, new, L + n)
      BY <1>8, <2>1
    <3> QED BY <3>1 DEF GoodTx
  <2>3. L + (n + 1) = m + 1 /\ m + 1 \in Nat /\ m \in Nat
    <3> HIDE DEF L
    <3> QED BY <1>3, <2>1
  <2> HIDE DEF m
  <2>4. d \in Data /\ NumberOf(p) = m + 1 /\ p.addr = s.peer /\ ReadFrom(p.data).session_id = s.id
    BY <1>1, <2>3, OutputPacket
  <2>5. new[m + 1] = r
    BY <1>4, <2>1, <2>3
  <2> HIDE DEF p
  <2>6. Appended(p, new, m + 1)
    BY <1>1, <2>3, <2>4, <2>5 DEF Appended
  <2>7. ASSUME NEW u1 \in h[n + 1] PROVE GoodTx(u1, new, m + 1)
    <3>1. PICK t \in h[n] : u1 \in AppendPacket(t, d, s.peer)
      <4>1. h[n + 1] = Appends(h[n], w, s, n + 1)
        BY <1>6, <2>1
      <4> QED BY <2>7, <4>1 DEF Appends
    <3>2. t \in TxRec /\ GoodTx(t, new, m)
      BY <2>2, <3>1
    <3> HIDE DEF d
    <3> QED BY <1>1, <2>3, <2>4, <2>6, <3>1, <3>2, AppendType DEF p
  <2>8. L + (n + 1) = m + 1
    BY <2>3
  <2> QED BY <2>1, <2>7, <2>8
<1>9. \A t \in h[k] : GoodTx(t, new, L + k)
  <2>1. \A n \in 0..k : n \in S
    <3> HIDE DEF S
    <3> QED BY <1>7, <1>8, BoundedInduction
  <2>2. k \in 0..k
    OBVIOUS
  <2> QED BY <2>1, <2>2
<1>10. PICK t \in h[k] : u \in FlushTxQueue(t)
  BY <1>6 DEF Flushed
<1>11. GoodTx(u, new, L + k)
  <2>1. GoodTx(t, new, L + k) /\ L + k \in Nat
    BY <1>3, <1>9
  <2>2. t \in TxRec /\ t.full = FALSE /\ InOrder(Queue(t), new, L + k)
    BY <2>1, Zenon DEF GoodTx
  <2> QED BY <1>10, <2>1, <2>2, FlushGood
<1> QED BY <1>4, <1>11 DEF new, burst, r

\* Every transmit queue has room, and what it sent and holds was appended in this order.
TxInv ==
    /\ tx \in [Workers -> TxRec] /\ appended \in [Workers -> Seq(AppendedRec)]
    /\ \A w \in Workers : GoodTx(tx[w], appended[w], Len(appended[w]))

\* Flush keeps TxInv.
LEMMA FlushKeeps ==
    ASSUME TxInv, NEW w \in Workers, NEW s \in SessionRec, Flush(w, s)
    PROVE  TxInv'
<1>1. PICK k \in Bursts :
          /\ \E t \in Flushed(w, s, k) : tx' = [tx EXCEPT ![w] = t]
          /\ appended' = [appended EXCEPT ![w] = @ \o [i \in 1..k |-> [id |-> s.id, addr |-> s.peer]]]
  BY Zenon DEF Flush
<1>2. PICK t \in Flushed(w, s, k) : tx' = [tx EXCEPT ![w] = t]
  BY <1>1
<1> DEFINE new == appended[w] \o [i \in 1..k |-> [id |-> s.id, addr |-> s.peer]]
<1>3. k \in Nat
  BY TransportAssumption
<1>4. /\ tx \in [Workers -> TxRec] /\ appended \in [Workers -> Seq(AppendedRec)]
      /\ GoodTx(tx[w], appended[w], Len(appended[w])) /\ appended[w] \in Seq(AppendedRec)
  BY DEF TxInv
<1>5. new \in Seq(AppendedRec) /\ GoodTx(t, new, Len(new))
  BY <1>3, <1>4, FlushedGood
<1>6. appended' = [appended EXCEPT ![w] = new]
  BY <1>1
<1> HIDE DEF new
<1>7. t \in TxRec
  BY <1>5 DEF GoodTx
<1>8. /\ tx' \in [Workers -> TxRec] /\ appended' \in [Workers -> Seq(AppendedRec)]
      /\ tx'[w] = t /\ appended'[w] = new
      /\ \A v \in Workers : v # w => tx'[v] = tx[v] /\ appended'[v] = appended[v]
  BY <1>2, <1>4, <1>5, <1>6, <1>7
<1>9. \A v \in Workers : GoodTx(tx'[v], appended'[v], Len(appended'[v]))
  BY <1>5, <1>8 DEF TxInv
<1> QED BY <1>8, <1>9 DEF TxInv

\* Only Close and UpdateConnectionState send, for a session.
LEMMA SendEffect ==
    ASSUME SessionInv, NEW w, NEW i \in 1..Len(sessions)
    PROVE  /\ \A flush : CloseSession(w, i, flush) =>
                  UNCHANGED <<tx, appended>> \/ \E s \in SessionRec : Flush(w, s)
           /\ UpdateConnectionState(w, i) =>
                  UNCHANGED <<tx, appended>> \/ \E s \in SessionRec : Flush(w, s)
<1>1. sessions[i] \in SessionRec
  BY DEF SessionInv
<1>2. ASSUME NEW flush, CloseSession(w, i, flush)
      PROVE  UNCHANGED <<tx, appended>> \/ \E s \in SessionRec : Flush(w, s)
  <2>1. UNCHANGED <<tx, appended>> \/ Flush(w, sessions[i])
    BY <1>2, Zenon DEF CloseSession
  <2> QED BY <1>1, <2>1
<1>3. ASSUME UpdateConnectionState(w, i)
      PROVE  UNCHANGED <<tx, appended>> \/ \E s \in SessionRec : Flush(w, s)
  <2>1. UNCHANGED <<tx, appended>> \/ Flush(w, sessions[i]) \/ CloseSession(w, i, FALSE)
    BY <1>3, Zenon DEF UpdateConnectionState
  <2> QED BY <1>1, <1>2, <2>1
<1> QED BY <1>2, <1>3

\* Init establishes TxInv.
LEMMA TxInit == Init => TxInv
<1> SUFFICES ASSUME Init PROVE TxInv
  OBVIOUS
<1> DEFINE none == <<>>
           t == InitializeThread
<1>1. none \in Seq(OutRec) /\ none \in Seq(AppendedRec) /\ Len(none) = 0 /\ none \o none = none
  BY EmptySeq, ConcatEmptySeq
<1>2. t = [raw_packets |-> none, full |-> FALSE, wire |-> none]
  BY DEF InitializeThread
<1>3. tx = [w \in Workers |-> t] /\ appended = [w \in Workers |-> none]
  BY DEF Init
<1> HIDE DEF none, t
<1>4. t \in TxRec /\ t.full = FALSE /\ t.raw_packets = none /\ Queue(t) = none
  BY <1>1, <1>2 DEF TxRec, Queue
<1>5. Len(t.raw_packets) < kNumPacketsPerSend
  BY <1>1, <1>4, TransportAssumption
<1>6. InOrder(none, none, Len(none))
  <2>1. 1..Len(none) = {}
    BY <1>1
  <2> QED BY <1>1, <2>1 DEF InOrder
<1>7. GoodTx(t, none, Len(none))
  BY <1>4, <1>5, <1>6, Zenon DEF GoodTx
<1> QED BY <1>1, <1>3, <1>4, <1>7 DEF TxInv

\* Every step keeps TxInv.
LEMMA TxStep == BaseInv /\ TxInv /\ [Next]_vars => TxInv'
<1> SUFFICES ASSUME BaseInv, TxInv, [Next]_vars PROVE TxInv'
  OBVIOUS
<1>0. SessionInv
  BY DEF BaseInv
<1>1. ASSUME UNCHANGED <<tx, appended>> PROVE TxInv'
  BY <1>1 DEF TxInv
<1>2. CASE \E a \in Arrivals : Deliver(a)
  BY <1>1, <1>2 DEF Deliver, Arrive, workVars
<1>3. CASE \E w \in Workers : Bounce(w)
  BY <1>1, <1>3 DEF Bounce, workVars
<1>4. CASE HandleRead
  BY <1>1, <1>4 DEF HandleRead, workVars
<1>5. CASE ProcessPacket
  BY <1>1, <1>5 DEF ProcessPacket
<1>6. CASE HandleError
  BY <1>1, <1>6 DEF HandleError, workVars
<1>7. CASE UNCHANGED vars
  BY <1>1, <1>7 DEF vars, workVars
<1>8. CASE \E w \in Workers : LoopEnds(w)
  BY <1>1, <1>8 DEF LoopEnds
<1>9. CASE \E w \in Workers : RunTask(w)
  <2>1. PICK w \in Workers : RunTask(w)
    BY <1>9
  <2> DEFINE t == Head(pending[w])
  <2>2. t.s \in 1..Len(sessions)
    BY <1>0, <2>1, TaskEffect DEF TaskFits
  <2>3. \/ OnConnectionEvent(t.s) \/ UpdateConnectionState(w, t.s) \/ ProcessPacketInLoopThread(t)
        \/ set_pending_error(t.s) \/ \E flush : CloseSession(w, t.s, flush)
    BY <2>1, Zenon DEF RunTask
  <2> HIDE DEF t
  <2>4. UNCHANGED <<tx, appended>> \/ \E s \in SessionRec : Flush(w, s)
    <3>1. CASE OnConnectionEvent(t.s) \/ ProcessPacketInLoopThread(t) \/ set_pending_error(t.s)
      BY <3>1, Zenon DEF OnConnectionEvent, ProcessPacketInLoopThread, set_pending_error
    <3>2. CASE UpdateConnectionState(w, t.s) \/ \E flush : CloseSession(w, t.s, flush)
      BY <1>0, <2>2, <3>2, SendEffect
    <3> QED BY <2>3, <3>1, <3>2
  <2> QED BY <1>1, <2>4, FlushKeeps
<1>10. CASE \E w \in Workers, i \in DOMAIN sessions : StateTimer(w, i)
  <2>1. PICK w \in Workers, i \in DOMAIN sessions : StateTimer(w, i)
    BY <1>10
  <2>2. i \in 1..Len(sessions)
    BY <1>0 DEF SessionInv
  <2>3. UpdateConnectionState(w, i)
    BY <2>1 DEF StateTimer
  <2>4. UNCHANGED <<tx, appended>> \/ \E s \in SessionRec : Flush(w, s)
    BY <1>0, <2>2, <2>3, SendEffect
  <2> QED BY <1>1, <2>4, FlushKeeps
<1>11. CASE Destructor
  BY <1>1, <1>11 DEF Destructor, Destroy, Spin, SpinEnds, QuitNext, CloseSocket, workVars
<1>12. CASE DestroyUnlistened
  BY <1>1, <1>12 DEF DestroyUnlistened
<1>13. CASE \E f \in ListenFamilies : Listen(f)
  BY <1>1, <1>13 DEF Listen
<1> QED BY <1>2, <1>3, <1>4, <1>5, <1>6, <1>7, <1>8, <1>9, <1>10, <1>11, <1>12, <1>13 DEF Next

\* A worker sends what its sessions appended, in that order, nothing twice, each packet with the
\* address and the id of its session, however sendmmsg fails (FlushTxQueue, AppendPacket).
THEOREM WorkersSendInOrder == Spec => []SentInOrderOnce
<1>1. BaseInv /\ TxInv => SentInOrderOnce
  <2> SUFFICES ASSUME TxInv, NEW w \in Workers
               PROVE  LET wire == tx[w].wire
                          Number(i) == wire[i].data[kPublicHeaderLength + 1]
                      IN /\ \A i \in DOMAIN wire :
                                /\ Number(i) \in DOMAIN appended[w]
                                /\ wire[i].addr = appended[w][Number(i)].addr
                                /\ ReadFrom(wire[i].data).session_id = appended[w][Number(i)].id
                         /\ \A i, j \in DOMAIN wire : i < j => Number(i) < Number(j)
    BY DEF SentInOrderOnce
  <2> DEFINE t == tx[w]
             q == Queue(t)
             wire == t.wire
             list == appended[w]
  <2>1. t \in TxRec /\ InOrder(q, list, Len(list)) /\ list \in Seq(AppendedRec)
    BY DEF TxInv, GoodTx
  <2>2. wire \in Seq(OutRec) /\ t.raw_packets \in Seq(OutRec) /\ q = wire \o t.raw_packets
    BY <2>1 DEF TxRec, Queue
  <2> HIDE DEF t, wire, q
  <2>3. /\ DOMAIN wire = 1..Len(wire) /\ Len(wire) \in Nat
        /\ \A i \in 1..Len(wire) : i \in 1..Len(q) /\ q[i] = wire[i]
    BY <2>2
  <2>4. \A i \in 1..Len(wire) : Appended(wire[i], list, Len(list))
    BY <2>1, <2>3 DEF InOrder
  <2>5. \A i, j \in 1..Len(wire) : i < j => NumberOf(wire[i]) < NumberOf(wire[j])
    BY <2>1, <2>3 DEF InOrder
  <2>6. DOMAIN list = 1..Len(list)
    BY <2>1
  <2> HIDE DEF list
  <2>7. /\ \A i \in DOMAIN wire :
               /\ NumberOf(wire[i]) \in DOMAIN list
               /\ wire[i].addr = list[NumberOf(wire[i])].addr
               /\ ReadFrom(wire[i].data).session_id = list[NumberOf(wire[i])].id
        /\ \A i, j \in DOMAIN wire : i < j => NumberOf(wire[i]) < NumberOf(wire[j])
    BY <2>3, <2>4, <2>5, <2>6 DEF Appended
  <2> QED BY <2>7 DEF NumberOf, wire, list, t
<1>2. Init => BaseInv /\ TxInv
  BY BaseInit, TxInit
<1>3. BaseInv /\ TxInv /\ [Next]_vars => BaseInv' /\ TxInv'
  BY BaseStep, TxStep
<1> QED BY <1>1, <1>2, <1>3, PTL DEF Spec

-------------------------------------------------------------------------------
(* Up first, down last.  Here s is a session's record, i its index, and P  *)
(* the queue of its worker.                                                *)

IsUp(t, i) == t.s = i /\ t.task = "up"

\* Nothing was called back yet.
Fresh(s) == Len(s.log) < 1

\* The log begins with up, ends with down once the session is closed, and a session that is closed
\* or has a timer was up.
LogOK(s) ==
    /\ s.timer \/ s.closed => ~Fresh(s)
    /\ \A k \in 1..Len(s.log) : (k = 1) <=> (s.log[k].event = "up")
    /\ \A k \in 1..Len(s.log) : s.log[k].event = "down" => k = Len(s.log) /\ s.closed

\* The up task of a session comes before all of its other tasks, and there is one as long as the
\* session was not up.
QueueOK(P, i, s) ==
    /\ \A k \in 1..Len(P) : IsUp(P[k], i) =>
           Fresh(s) /\ \A j \in 1..Len(P) : P[j].s = i /\ j # k => k < j
    /\ \A k \in 1..Len(P) : P[k].s = i /\ ~IsUp(P[k], i) =>
           ~Fresh(s) \/ \E j \in 1..Len(P) : j < k /\ IsUp(P[j], i)

HasUp(P, i) == \E k \in 1..Len(P) : IsUp(P[k], i)

\* A task or a timer keeps LogOK, and leaves a session that was up.
LEMMA LogKept ==
    ASSUME NEW s \in SessionRec, NEW r \in SessionRec, LogOK(s), NEW t,
           \/ Fresh(s) /\ Ups(s, r)
           \/ ~Fresh(s) /\ (Gets(s, r, t) \/ Downs(s, r) \/ Waits(s, r) \/ Errs(s, r))
    PROVE  LogOK(r) /\ ~Fresh(r)
<1>1. s.log \in Log /\ r.log \in Log /\ Len(s.log) \in Nat
  BY DEF SessionRec, Log
<1>2. Event("up").event = "up" /\ Event("down").event = "down"
  BY TaskFields
<1>3. ASSUME NEW e \in EventRec, r.log = Append(s.log, e)
      PROVE  /\ Len(r.log) = Len(s.log) + 1 /\ r.log[Len(s.log) + 1] = e
             /\ \A k \in 1..Len(s.log) : r.log[k] = s.log[k]
             /\ ~Fresh(r)
  <2>1. /\ Len(r.log) = Len(s.log) + 1 /\ r.log[Len(s.log) + 1] = e
        /\ \A k \in 1..Len(s.log) : r.log[k] = s.log[k]
    BY <1>1, <1>3 DEF Log
  <2> QED BY <1>1, <2>1 DEF Fresh
<1>4. CASE Fresh(s) /\ Ups(s, r)
  <2>1. r.log = Append(s.log, Event("up")) /\ Event("up") \in EventRec
    BY <1>4, EventType DEF Ups
  <2>2. /\ Len(r.log) = Len(s.log) + 1 /\ r.log[Len(s.log) + 1] = Event("up") /\ ~Fresh(r)
    BY <1>3, <2>1
  <2>3. Len(s.log) = 0
    BY <1>1, <1>4 DEF Fresh
  <2>4. Len(r.log) = 1 /\ r.log[1].event = "up"
    BY <1>2, <2>2, <2>3
  <2>5. \A k \in 1..Len(r.log) : k = 1
    BY <2>4
  <2> QED BY <2>2, <2>4, <2>5 DEF LogOK
<1>5. CASE ~Fresh(s) /\ (Waits(s, r) \/ Errs(s, r))
  <2>1. r.log = s.log /\ r.closed = s.closed
    BY <1>5 DEF Waits, Errs
  <2>2. ~Fresh(r)
    BY <1>5, <2>1 DEF Fresh
  <2> QED BY <2>1, <2>2 DEF LogOK
<1>6. CASE ~Fresh(s) /\ Gets(s, r, t)
  <2> DEFINE e == [event |-> "packet", data |-> t.data, from |-> t.from]
  <2>1. r.log = Append(s.log, e) /\ ~s.closed
    BY <1>6 DEF Gets
  <2>2. /\ Len(r.log) = Len(s.log) + 1 /\ r.log[Len(s.log) + 1] = e
        /\ \A k \in 1..Len(s.log) : r.log[k] = s.log[k]
    <3> HIDE DEF e
    <3> QED BY <1>1, <2>1 DEF Log
  <2>3. e.event = "packet"
    OBVIOUS
  <2> HIDE DEF e
  <2>4. ~Fresh(r) /\ Len(s.log) + 1 # 1
    BY <1>1, <1>6, <2>2 DEF Fresh
  <2>5. \A k \in 1..Len(r.log) : k \in 1..Len(s.log) \/ k = Len(s.log) + 1
    BY <1>1, <2>2
  <2>6. \A k \in 1..Len(s.log) : r.log[k].event # "down"
    BY <2>1, <2>2 DEF LogOK
  <2>7. \A k \in 1..Len(r.log) : (k = 1) <=> (r.log[k].event = "up")
    BY <2>2, <2>3, <2>4, <2>5 DEF LogOK
  <2>8. \A k \in 1..Len(r.log) : r.log[k].event # "down"
    BY <2>2, <2>3, <2>5, <2>6
  <2> QED BY <2>4, <2>7, <2>8 DEF LogOK
<1>7. CASE ~Fresh(s) /\ Downs(s, r)
  <2> DEFINE e == Event("down")
  <2>1. r.log = Append(s.log, e) /\ ~s.closed /\ r.closed = TRUE /\ e \in EventRec
    BY <1>7, EventType DEF Downs
  <2> HIDE DEF e
  <2>2. /\ Len(r.log) = Len(s.log) + 1 /\ r.log[Len(s.log) + 1] = e /\ ~Fresh(r)
        /\ \A k \in 1..Len(s.log) : r.log[k] = s.log[k]
    BY <1>3, <2>1
  <2>3. e.event = "down"
    BY <1>2 DEF e
  <2>4. Len(s.log) + 1 # 1
    BY <1>1, <1>7 DEF Fresh
  <2>5. \A k \in 1..Len(r.log) : k \in 1..Len(s.log) \/ k = Len(s.log) + 1
    BY <1>1, <2>2
  <2>6. \A k \in 1..Len(s.log) : r.log[k].event # "down"
    BY <2>1, <2>2 DEF LogOK
  <2>7. \A k \in 1..Len(r.log) : (k = 1) <=> (r.log[k].event = "up")
    BY <2>2, <2>3, <2>4, <2>5 DEF LogOK
  <2>8. \A k \in 1..Len(r.log) : r.log[k].event = "down" => k = Len(r.log) /\ r.closed
    BY <2>1, <2>2, <2>5, <2>6
  <2> QED BY <2>2, <2>7, <2>8 DEF LogOK
<1> QED BY <1>4, <1>5, <1>6, <1>7

\* The first task of a session is up if and only if the session was not up yet.
LEMMA HeadIsUp ==
    ASSUME NEW P \in Seq(TaskRec), P # <<>>, NEW i, NEW s, QueueOK(P, i, s), Head(P).s = i
    PROVE  Fresh(s) <=> IsUp(Head(P), i)
<1> DEFINE t == Head(P)
<1>1. Len(P) \in Nat /\ Len(P) > 0 /\ t = P[1] /\ t.s = i
  BY EmptySeq
<1> HIDE DEF t
<1>2. 1 \in 1..Len(P) /\ ~\E j \in 1..Len(P) : j < 1
  BY <1>1
<1>3. ~IsUp(t, i) => ~Fresh(s)
  BY <1>1, <1>2 DEF QueueOK
<1>4. IsUp(t, i) => Fresh(s)
  BY <1>1, <1>2 DEF QueueOK
<1> QED BY <1>3, <1>4 DEF t

\* The first task is taken from the queue: it is another session's, or the session is up now.
LEMMA QueueTail ==
    ASSUME NEW P \in Seq(TaskRec), P # <<>>, NEW i, NEW s, NEW r, QueueOK(P, i, s),
           \/ Head(P).s # i /\ (Fresh(r) <=> Fresh(s))
           \/ Head(P).s = i /\ ~Fresh(r)
    PROVE  /\ QueueOK(Tail(P), i, r)
           /\ Head(P).s # i /\ HasUp(P, i) => HasUp(Tail(P), i)
<1> DEFINE Q == Tail(P)
           t == Head(P)
<1>1. /\ Q \in Seq(TaskRec) /\ Len(P) \in Nat /\ Len(Q) = Len(P) - 1 /\ Len(P) > 0
      /\ t = P[1]
      /\ \A k \in 1..Len(Q) : Q[k] = P[k + 1]
  BY EmptySeq
<1> HIDE DEF Q, t
<1>2. /\ \A k \in 1..Len(Q) : k + 1 \in 1..Len(P)
      /\ \A k \in 1..Len(P) : k # 1 => k - 1 \in 1..Len(Q) /\ Q[k - 1] = P[k] /\ k - 1 + 1 = k
      /\ 1 \in 1..Len(P)
  BY <1>1
<1>3. CASE t.s # i /\ (Fresh(r) <=> Fresh(s))
  <2>1. ASSUME NEW k \in 1..Len(Q), IsUp(Q[k], i)
        PROVE  Fresh(r) /\ \A j \in 1..Len(Q) : Q[j].s = i /\ j # k => k < j
    <3>1. k + 1 \in 1..Len(P) /\ IsUp(P[k + 1], i)
      BY <1>1, <1>2, <2>1
    <3>2. Fresh(s) /\ \A j \in 1..Len(P) : P[j].s = i /\ j # k + 1 => k + 1 < j
      BY <3>1 DEF QueueOK
    <3>3. ASSUME NEW j \in 1..Len(Q), Q[j].s = i, j # k PROVE k < j
      <4>1. j + 1 \in 1..Len(P) /\ P[j + 1].s = i /\ j + 1 # k + 1
        BY <1>1, <1>2, <3>3
      <4>2. k + 1 < j + 1
        BY <3>2, <4>1
      <4> QED BY <4>2
    <3> QED BY <1>3, <3>2, <3>3
  <2>2. ASSUME NEW k \in 1..Len(Q), Q[k].s = i, ~IsUp(Q[k], i), Fresh(r)
        PROVE  \E j \in 1..Len(Q) : j < k /\ IsUp(Q[j], i)
    <3>1. k + 1 \in 1..Len(P) /\ P[k + 1].s = i /\ ~IsUp(P[k + 1], i)
      BY <1>1, <1>2, <2>2
    <3>2. PICK j \in 1..Len(P) : j < k + 1 /\ IsUp(P[j], i)
      BY <1>3, <2>2, <3>1 DEF QueueOK
    <3>3. j # 1
      BY <1>1, <1>3, <3>2 DEF IsUp
    <3>4. j - 1 \in 1..Len(Q) /\ Q[j - 1] = P[j]
      BY <1>2, <3>3
    <3>5. j - 1 < k /\ IsUp(Q[j - 1], i)
      BY <3>2, <3>4
    <3> QED BY <3>4, <3>5
  <2>3. HasUp(P, i) => HasUp(Q, i)
    <3> SUFFICES ASSUME HasUp(P, i) PROVE HasUp(Q, i)
      OBVIOUS
    <3>1. PICK k \in 1..Len(P) : IsUp(P[k], i)
      BY DEF HasUp
    <3>2. k # 1
      BY <1>1, <1>3, <3>1 DEF IsUp
    <3>3. k - 1 \in 1..Len(Q) /\ IsUp(Q[k - 1], i)
      BY <1>2, <3>1, <3>2
    <3> QED BY <3>3 DEF HasUp
  <2>4. QueueOK(Q, i, r)
    BY <2>1, <2>2 DEF QueueOK
  <2> QED BY <1>3, <2>3, <2>4 DEF Q, t
<1>4. CASE t.s = i /\ ~Fresh(r)
  <2>1. ASSUME NEW k \in 1..Len(Q), IsUp(Q[k], i) PROVE FALSE
    <3>1. k + 1 \in 1..Len(P) /\ IsUp(P[k + 1], i) /\ 1 # k + 1
      BY <1>1, <1>2, <2>1
    <3>2. k + 1 < 1
      BY <1>1, <1>2, <1>4, <3>1 DEF QueueOK
    <3> QED BY <3>2
  <2>2. QueueOK(Q, i, r)
    BY <1>4, <2>1 DEF QueueOK
  <2> QED BY <1>4, <2>2 DEF Q, t
<1> QED BY <1>3, <1>4 DEF t

\* Tasks are posted behind P.
Grows(P, Q) ==
    /\ P \in Seq(TaskRec) /\ Q \in Seq(TaskRec) /\ Len(P) <= Len(Q)
    /\ \A k \in 1..Len(P) : Q[k] = P[k]

\* Tasks other than up are posted for a session that is up or will be, or for another.
LEMMA QueueGrows ==
    ASSUME NEW P, NEW Q, Grows(P, Q), NEW i, NEW s, QueueOK(P, i, s),
           \A k \in (Len(P) + 1)..Len(Q) : Q[k].s = i =>
               ~IsUp(Q[k], i) /\ (~Fresh(s) \/ HasUp(P, i))
    PROVE  QueueOK(Q, i, s) /\ (HasUp(P, i) => HasUp(Q, i))
<1>1. Len(P) \in Nat /\ Len(Q) \in Nat
  BY DEF Grows
<1>2. \A k \in 1..Len(Q) : \/ k \in 1..Len(P) /\ Q[k] = P[k]
                           \/ k \in (Len(P) + 1)..Len(Q)
  BY <1>1 DEF Grows
<1>3. \A k \in 1..Len(P) : k \in 1..Len(Q) /\ Q[k] = P[k]
  BY <1>1 DEF Grows
<1>4. ASSUME NEW k \in 1..Len(Q), IsUp(Q[k], i)
      PROVE  Fresh(s) /\ \A j \in 1..Len(Q) : Q[j].s = i /\ j # k => k < j
  <2>1. k \in 1..Len(P) /\ IsUp(P[k], i)
    BY <1>2, <1>4 DEF IsUp
  <2>2. Fresh(s) /\ \A j \in 1..Len(P) : P[j].s = i /\ j # k => k < j
    BY <2>1 DEF QueueOK
  <2>3. ASSUME NEW j \in 1..Len(Q), Q[j].s = i, j # k PROVE k < j
    <3>1. CASE j \in 1..Len(P)
      BY <1>3, <2>2, <2>3, <3>1
    <3>2. CASE j \in (Len(P) + 1)..Len(Q)
      BY <1>1, <2>1, <3>2
    <3> QED BY <1>2, <3>1, <3>2
  <2> QED BY <2>2, <2>3
<1>5. ASSUME NEW k \in 1..Len(Q), Q[k].s = i, ~IsUp(Q[k], i), Fresh(s)
      PROVE  \E j \in 1..Len(Q) : j < k /\ IsUp(Q[j], i)
  <2>1. CASE k \in 1..Len(P)
    <3>1. PICK j \in 1..Len(P) : j < k /\ IsUp(P[j], i)
      BY <1>3, <1>5, <2>1 DEF QueueOK
    <3> QED BY <1>3, <3>1
  <2>2. CASE k \in (Len(P) + 1)..Len(Q)
    <3>1. PICK j \in 1..Len(P) : IsUp(P[j], i)
      BY <1>5, <2>2 DEF HasUp
    <3>2. j < k
      BY <1>1, <2>2
    <3> QED BY <1>3, <3>1, <3>2
  <2> QED BY <1>2, <2>1, <2>2
<1>6. HasUp(P, i) => HasUp(Q, i)
  BY <1>3 DEF HasUp
<1> QED BY <1>4, <1>5, <1>6 DEF QueueOK

\* A new session's tasks: up, and others behind it.
LEMMA QueueNew ==
    ASSUME NEW P, NEW Q, Grows(P, Q), NEW i, NEW s, Fresh(s), Len(P) < Len(Q),
           \A k \in 1..Len(P) : P[k].s # i,
           IsUp(Q[Len(P) + 1], i),
           \A k \in (Len(P) + 2)..Len(Q) : ~IsUp(Q[k], i)
    PROVE  QueueOK(Q, i, s) /\ HasUp(Q, i)
<1>1. Len(P) \in Nat /\ Len(Q) \in Nat
  BY DEF Grows
<1>2. \A k \in 1..Len(Q) : \/ k \in 1..Len(P) /\ Q[k].s # i
                           \/ k = Len(P) + 1
                           \/ k \in (Len(P) + 2)..Len(Q) /\ ~IsUp(Q[k], i)
  BY <1>1 DEF Grows
<1>3. Len(P) + 1 \in 1..Len(Q)
  BY <1>1
<1>4. \A k \in 1..Len(Q) : IsUp(Q[k], i) => k = Len(P) + 1
  BY <1>2 DEF IsUp
<1>5. \A k \in 1..Len(Q) : Q[k].s = i /\ k # Len(P) + 1 => Len(P) + 1 < k
  BY <1>1, <1>2
<1>6. ASSUME NEW k \in 1..Len(Q), IsUp(Q[k], i)
      PROVE  Fresh(s) /\ \A j \in 1..Len(Q) : Q[j].s = i /\ j # k => k < j
  <2>1. k = Len(P) + 1
    BY <1>4, <1>6
  <2> QED BY <1>5, <2>1
<1>7. ASSUME NEW k \in 1..Len(Q), Q[k].s = i, ~IsUp(Q[k], i)
      PROVE  \E j \in 1..Len(Q) : j < k /\ IsUp(Q[j], i)
  <2>1. k # Len(P) + 1
    BY <1>7
  <2>2. Len(P) + 1 < k
    BY <1>5, <1>7, <2>1
  <2> QED BY <1>3, <2>2
<1>8. HasUp(Q, i)
  BY <1>3 DEF HasUp
<1> QED BY <1>6, <1>7, <1>8 DEF QueueOK

-------------------------------------------------------------------------------
(* The stream of a session: the datagrams in its log, then those in the    *)
(* queue.  C are the numbers of the datagrams that came for its id, A what *)
(* arrived.                                                                *)

One(n) == <<n>>
IsPkt(t, i) == t.s = i /\ t.task = "packet"
LogPkt(s, k) == s.log[k].event = "packet"

PktOK(data, from, C, A) == \E n \in C : data = One(n) /\ from = A[n].from
Before(d, e) == \A m, n \in Nat : d = One(m) /\ e = One(n) => m < n

Logged(s) == {n \in Nat : \E k \in 1..Len(s.log) : LogPkt(s, k) /\ s.log[k].data = One(n)}
Queued(P, i) == {n \in Nat : \E k \in 1..Len(P) : IsPkt(P[k], i) /\ P[k].data = One(n)}
Members(s, P, i) == Logged(s) \cup Queued(P, i)

\* No number of C between two of M is left out of M; none behind one of M is.
Convex(M, C) == \A m, n \in M, q \in C : m < q /\ q < n => q \in M
UpTo(M, C) == \A m \in M, q \in C : m < q => q \in M

\* The datagrams are of the session's id, each with its sender, and in the order of arrival.
StreamOK(s, P, i, C, A) ==
    /\ \A k \in 1..Len(s.log) : LogPkt(s, k) => PktOK(s.log[k].data, s.log[k].from, C, A)
    /\ \A k \in 1..Len(P) : IsPkt(P[k], i) => PktOK(P[k].data, P[k].from, C, A)
    /\ \A k, j \in 1..Len(s.log) : k < j /\ LogPkt(s, k) /\ LogPkt(s, j) =>
           Before(s.log[k].data, s.log[j].data)
    /\ \A k, j \in 1..Len(P) : k < j /\ IsPkt(P[k], i) /\ IsPkt(P[j], i) =>
           Before(P[k].data, P[j].data)
    /\ \A k \in 1..Len(s.log), j \in 1..Len(P) : LogPkt(s, k) /\ IsPkt(P[j], i) =>
           Before(s.log[k].data, P[j].data)
    /\ Convex(Logged(s), C)

\* The payload of a datagram is its number.
LEMMA OneNumber ==
    /\ \A m, n : One(m) = One(n) => m = n
    /\ \A n : One(n)[1] = n /\ Len(One(n)) = 1
BY DEF One

\* An event other than a packet leaves the stream alone.
LEMMA StreamSame ==
    ASSUME NEW s \in SessionRec, NEW r \in SessionRec,
           \/ r.log = s.log
           \/ \E e \in EventRec : e.event # "packet" /\ r.log = Append(s.log, e)
    PROVE  /\ Logged(r) = Logged(s)
           /\ \A P, i, C, A : StreamOK(s, P, i, C, A) => StreamOK(r, P, i, C, A)
<1>1. s.log \in Seq(EventRec) /\ Len(s.log) \in Nat
  BY DEF SessionRec, Log
<1>2. /\ \A k \in 1..Len(s.log) : k \in 1..Len(r.log) /\ r.log[k] = s.log[k]
      /\ \A k \in 1..Len(r.log) : LogPkt(r, k) => k \in 1..Len(s.log)
  <2>1. CASE r.log = s.log
    BY <2>1
  <2>2. CASE \E e \in EventRec : e.event # "packet" /\ r.log = Append(s.log, e)
    <3>1. PICK e \in EventRec : e.event # "packet" /\ r.log = Append(s.log, e)
      BY <2>2
    <3>2. /\ Len(r.log) = Len(s.log) + 1 /\ r.log[Len(s.log) + 1] = e
          /\ \A k \in 1..Len(s.log) : r.log[k] = s.log[k]
      BY <1>1, <3>1
    <3>3. \A k \in 1..Len(s.log) : k \in 1..Len(r.log)
      BY <1>1, <3>2
    <3>4. ~LogPkt(r, Len(s.log) + 1)
      BY <3>1, <3>2 DEF LogPkt
    <3>5. \A k \in 1..Len(r.log) : k \in 1..Len(s.log) \/ k = Len(s.log) + 1
      BY <1>1, <3>2
    <3> QED BY <3>2, <3>3, <3>4, <3>5
  <2> QED BY <2>1, <2>2
<1>3. \A k \in 1..Len(s.log) : LogPkt(r, k) <=> LogPkt(s, k)
  BY <1>2 DEF LogPkt
<1>4. Logged(r) = Logged(s)
  BY <1>2, <1>3 DEF Logged
<1>5. ASSUME NEW P, NEW i, NEW C, NEW A, StreamOK(s, P, i, C, A) PROVE StreamOK(r, P, i, C, A)
  <2>1. \A k \in 1..Len(r.log) : LogPkt(r, k) =>
            k \in 1..Len(s.log) /\ LogPkt(s, k) /\ r.log[k] = s.log[k]
    BY <1>2, <1>3
  <2>2. \A k \in 1..Len(r.log) : LogPkt(r, k) => PktOK(r.log[k].data, r.log[k].from, C, A)
    BY <1>5, <2>1 DEF StreamOK
  <2>3. \A k, j \in 1..Len(r.log) : k < j /\ LogPkt(r, k) /\ LogPkt(r, j) =>
            Before(r.log[k].data, r.log[j].data)
    BY <1>5, <2>1 DEF StreamOK
  <2>4. \A k \in 1..Len(r.log), j \in 1..Len(P) : LogPkt(r, k) /\ IsPkt(P[j], i) =>
            Before(r.log[k].data, P[j].data)
    BY <1>5, <2>1 DEF StreamOK
  <2> QED BY <1>4, <1>5, <2>2, <2>3, <2>4 DEF StreamOK
<1> QED BY <1>4, <1>5

\* The numbers in a session's log and queue are of datagrams that came for it.
LEMMA MembersCame ==
    ASSUME NEW s, NEW P, NEW i, NEW C, NEW A, StreamOK(s, P, i, C, A)
    PROVE  Logged(s) \subseteq C /\ Queued(P, i) \subseteq C /\ Members(s, P, i) \subseteq C
<1>1. ASSUME NEW n \in Logged(s) PROVE n \in C
  <2>1. PICK k \in 1..Len(s.log) : LogPkt(s, k) /\ s.log[k].data = One(n)
    BY DEF Logged
  <2>2. PICK c \in C : s.log[k].data = One(c)
    BY <2>1 DEF StreamOK, PktOK
  <2> QED BY <2>1, <2>2, OneNumber
<1>2. ASSUME NEW n \in Queued(P, i) PROVE n \in C
  <2>1. PICK k \in 1..Len(P) : IsPkt(P[k], i) /\ P[k].data = One(n)
    BY DEF Queued
  <2>2. PICK c \in C : P[k].data = One(c)
    BY <2>1 DEF StreamOK, PktOK
  <2> QED BY <2>1, <2>2, OneNumber
<1> QED BY <1>1, <1>2 DEF Members

\* A queue whose packets are some of P's, d places further on, in the same order.
LEMMA StreamPart ==
    ASSUME NEW s, NEW P, NEW Q, NEW i, NEW C, NEW A, NEW d \in Nat, StreamOK(s, P, i, C, A),
           \A k \in 1..Len(Q) : IsPkt(Q[k], i) => k + d \in 1..Len(P) /\ Q[k] = P[k + d]
    PROVE  StreamOK(s, Q, i, C, A) /\ Queued(Q, i) \subseteq Queued(P, i)
<1>1. \A k \in 1..Len(Q) : IsPkt(Q[k], i) => PktOK(Q[k].data, Q[k].from, C, A)
  BY DEF StreamOK
<1>2. ASSUME NEW k \in 1..Len(Q), NEW j \in 1..Len(Q), k < j, IsPkt(Q[k], i), IsPkt(Q[j], i)
      PROVE  Before(Q[k].data, Q[j].data)
  <2>1. k + d \in 1..Len(P) /\ j + d \in 1..Len(P) /\ k + d < j + d /\ Q[k] = P[k + d] /\ Q[j] = P[j + d]
    BY <1>2
  <2> DEFINE a == k + d
             b == j + d
  <2> HIDE DEF a, b
  <2>2. a \in 1..Len(P) /\ b \in 1..Len(P) /\ a < b /\ Q[k] = P[a] /\ Q[j] = P[b]
    BY <2>1 DEF a, b
  <2> QED BY <1>2, <2>2 DEF StreamOK
<1>3. ASSUME NEW k \in 1..Len(s.log), NEW j \in 1..Len(Q), LogPkt(s, k), IsPkt(Q[j], i)
      PROVE  Before(s.log[k].data, Q[j].data)
  <2>1. j + d \in 1..Len(P) /\ Q[j] = P[j + d]
    BY <1>3
  <2> QED BY <1>3, <2>1 DEF StreamOK
<1>4. Queued(Q, i) \subseteq Queued(P, i)
  <2> SUFFICES ASSUME NEW n \in Queued(Q, i) PROVE n \in Queued(P, i)
    OBVIOUS
  <2>1. PICK k \in 1..Len(Q) : IsPkt(Q[k], i) /\ Q[k].data = One(n)
    BY DEF Queued
  <2>2. k + d \in 1..Len(P) /\ Q[k] = P[k + d]
    BY <2>1
  <2> QED BY <2>1, <2>2 DEF Queued
<1> QED BY <1>1, <1>2, <1>3, <1>4 DEF StreamOK

\* The first task is taken from the queue and is dropped, or is no packet of the session.
LEMMA StreamTail ==
    ASSUME NEW s, NEW P \in Seq(TaskRec), P # <<>>, NEW i, NEW C, NEW A, StreamOK(s, P, i, C, A)
    PROVE  /\ StreamOK(s, Tail(P), i, C, A)
           /\ ~IsPkt(Head(P), i) => Members(s, Tail(P), i) = Members(s, P, i)
<1> DEFINE Q == Tail(P)
           t == Head(P)
<1>1. /\ Q \in Seq(TaskRec) /\ Len(P) \in Nat /\ Len(Q) = Len(P) - 1 /\ Len(P) > 0
      /\ t = P[1]
      /\ \A k \in 1..Len(Q) : Q[k] = P[k + 1]
  BY EmptySeq
<1> HIDE DEF Q, t
<1>2. /\ \A k \in 1..Len(Q) : k + 1 \in 1..Len(P)
      /\ \A k \in 1..Len(P) : k # 1 => k - 1 \in 1..Len(Q) /\ Q[k - 1] = P[k]
  BY <1>1
<1>3. StreamOK(s, Q, i, C, A) /\ Queued(Q, i) \subseteq Queued(P, i)
  BY <1>1, <1>2, StreamPart
<1>4. ASSUME ~IsPkt(t, i), NEW n \in Queued(P, i) PROVE n \in Queued(Q, i)
  <2>1. PICK k \in 1..Len(P) : IsPkt(P[k], i) /\ P[k].data = One(n)
    BY DEF Queued
  <2>2. k # 1
    BY <1>1, <1>4, <2>1
  <2>3. k - 1 \in 1..Len(Q) /\ Q[k - 1] = P[k]
    BY <1>2, <2>2
  <2> QED BY <2>1, <2>3 DEF Queued
<1>5. ~IsPkt(t, i) => Members(s, Q, i) = Members(s, P, i)
  BY <1>3, <1>4 DEF Members
<1> QED BY <1>3, <1>5 DEF Q, t

\* Tasks that are no packets of the session are posted.
LEMMA StreamGrows ==
    ASSUME NEW s, NEW P, NEW Q, Grows(P, Q), NEW i, NEW C, NEW A, StreamOK(s, P, i, C, A),
           \A k \in (Len(P) + 1)..Len(Q) : ~IsPkt(Q[k], i)
    PROVE  StreamOK(s, Q, i, C, A) /\ Members(s, Q, i) = Members(s, P, i)
<1>1. Len(P) \in Nat /\ Len(Q) \in Nat
  BY DEF Grows
<1>2. \A k \in 1..Len(Q) : IsPkt(Q[k], i) => k + 0 \in 1..Len(P) /\ Q[k] = P[k + 0]
  BY <1>1 DEF Grows
<1>3. StreamOK(s, Q, i, C, A) /\ Queued(Q, i) \subseteq Queued(P, i)
  BY <1>2, StreamPart
<1>4. \A k \in 1..Len(P) : k \in 1..Len(Q) /\ Q[k] = P[k]
  BY <1>1 DEF Grows
<1>5. Queued(P, i) \subseteq Queued(Q, i)
  BY <1>4 DEF Queued
<1> QED BY <1>3, <1>5 DEF Members

\* The worker runs a packet task: the datagram goes from the head of the queue to the end of the log.
LEMMA StreamGets ==
    ASSUME NEW s \in SessionRec, NEW r \in SessionRec, NEW P \in Seq(TaskRec), P # <<>>, NEW i,
           NEW C \in SUBSET Nat, NEW A, StreamOK(s, P, i, C, A), Convex(Members(s, P, i), C),
           IsPkt(Head(P), i), Gets(s, r, Head(P))
    PROVE  StreamOK(r, Tail(P), i, C, A) /\ Members(r, Tail(P), i) = Members(s, P, i)
<1> DEFINE Q == Tail(P)
           t == Head(P)
           e == [event |-> "packet", data |-> t.data, from |-> t.from]
           L == Len(s.log)
<1>1. /\ Q \in Seq(TaskRec) /\ Len(P) \in Nat /\ Len(Q) = Len(P) - 1 /\ Len(P) > 0
      /\ t = P[1]
      /\ \A k \in 1..Len(Q) : Q[k] = P[k + 1]
  BY EmptySeq
<1>2. r.log = Append(s.log, e)
  BY DEF Gets
<1>3. e.event = "packet" /\ e.data = t.data /\ e.from = t.from
  OBVIOUS
<1>4. IsPkt(t, i)
  OBVIOUS
<1> HIDE DEF Q, t, e
<1>5. /\ L \in Nat /\ Len(r.log) = L + 1 /\ r.log[L + 1] = e
      /\ \A k \in 1..L : r.log[k] = s.log[k]
  BY <1>2 DEF SessionRec, Log
<1> HIDE DEF L
<1>6. /\ \A k \in 1..Len(r.log) : k \in 1..L \/ k = L + 1
      /\ \A k \in 1..L : k \in 1..Len(r.log) /\ (LogPkt(r, k) <=> LogPkt(s, k))
      /\ L + 1 \in 1..Len(r.log) /\ LogPkt(r, L + 1)
  BY <1>3, <1>5 DEF LogPkt
<1>7. /\ \A k \in 1..Len(Q) : k + 1 \in 1..Len(P) /\ 1 < k + 1
      /\ \A k \in 1..Len(P) : k # 1 => k - 1 \in 1..Len(Q) /\ Q[k - 1] = P[k]
      /\ 1 \in 1..Len(P)
  BY <1>1
<1>8. PICK b \in C : t.data = One(b) /\ t.from = A[b].from
  BY <1>1, <1>4, <1>7 DEF StreamOK, PktOK
<1>9. b \in Nat
  BY <1>8
<1>10. StreamOK(s, Q, i, C, A) /\ Queued(Q, i) \subseteq Queued(P, i)
  BY <1>1, <1>7, StreamPart
<1>11. Logged(r) = Logged(s) \cup {b}
  <2>1. ASSUME NEW n \in Logged(r) PROVE n \in Logged(s) \cup {b}
    <3>1. n \in Nat
      BY DEF Logged
    <3>2. PICK k \in 1..Len(r.log) : LogPkt(r, k) /\ r.log[k].data = One(n)
      BY DEF Logged
    <3>3. CASE k \in 1..L
      BY <1>5, <1>6, <3>1, <3>2, <3>3 DEF Logged, L
    <3>4. CASE k = L + 1
      BY <1>3, <1>5, <1>8, <3>2, <3>4, OneNumber
    <3> QED BY <1>6, <3>3, <3>4
  <2>2. ASSUME NEW n \in Logged(s) PROVE n \in Logged(r)
    <3>1. PICK k \in 1..L : LogPkt(s, k) /\ s.log[k].data = One(n)
      BY DEF Logged, L
    <3> QED BY <1>5, <1>6, <3>1 DEF Logged
  <2>3. b \in Logged(r)
    BY <1>3, <1>5, <1>6, <1>8, <1>9 DEF Logged
  <2> QED BY <2>1, <2>2, <2>3
<1>12. Queued(P, i) = Queued(Q, i) \cup {b}
  <2>1. ASSUME NEW n \in Queued(P, i) PROVE n \in Queued(Q, i) \cup {b}
    <3>1. n \in Nat
      BY DEF Queued
    <3>2. PICK k \in 1..Len(P) : IsPkt(P[k], i) /\ P[k].data = One(n)
      BY DEF Queued
    <3>3. CASE k = 1
      BY <1>1, <1>8, <3>2, <3>3, OneNumber
    <3>4. CASE k # 1
      BY <1>7, <3>1, <3>2, <3>4 DEF Queued
    <3> QED BY <3>3, <3>4
  <2>2. b \in Queued(P, i)
    BY <1>1, <1>4, <1>7, <1>8, <1>9 DEF Queued
  <2> QED BY <1>10, <2>1, <2>2
<1>13. Members(r, Q, i) = Members(s, P, i)
  BY <1>11, <1>12 DEF Members
<1>14. \A k \in 1..Len(r.log) : LogPkt(r, k) => PktOK(r.log[k].data, r.log[k].from, C, A)
  <2>1. PktOK(e.data, e.from, C, A)
    BY <1>3, <1>8 DEF PktOK
  <2>2. \A k \in 1..L : LogPkt(s, k) => PktOK(s.log[k].data, s.log[k].from, C, A)
    BY DEF StreamOK, L
  <2> QED BY <1>5, <1>6, <2>1, <2>2
<1>15. \A k \in 1..L : LogPkt(s, k) => Before(s.log[k].data, t.data)
  BY <1>1, <1>4, <1>7 DEF StreamOK, L
<1>16. ASSUME NEW k \in 1..Len(r.log), NEW j \in 1..Len(r.log), k < j, LogPkt(r, k), LogPkt(r, j)
       PROVE  Before(r.log[k].data, r.log[j].data)
  <2>1. k \in 1..L /\ LogPkt(s, k) /\ r.log[k] = s.log[k]
    BY <1>5, <1>6, <1>16
  <2>2. CASE j \in 1..L
    BY <1>5, <1>6, <1>16, <2>1, <2>2 DEF StreamOK, L
  <2>3. CASE j = L + 1
    BY <1>3, <1>5, <1>15, <2>1, <2>3
  <2> QED BY <1>6, <2>2, <2>3
<1>17. \A j \in 1..Len(Q) : IsPkt(Q[j], i) => Before(t.data, Q[j].data)
  BY <1>1, <1>4, <1>7 DEF StreamOK
<1>18. ASSUME NEW k \in 1..Len(r.log), NEW j \in 1..Len(Q), LogPkt(r, k), IsPkt(Q[j], i)
       PROVE  Before(r.log[k].data, Q[j].data)
  <2>1. CASE k \in 1..L
    BY <1>5, <1>6, <1>10, <1>18, <2>1 DEF StreamOK, L
  <2>2. CASE k = L + 1
    BY <1>3, <1>5, <1>17, <1>18, <2>2
  <2> QED BY <1>6, <2>1, <2>2
<1>19. ASSUME NEW n \in Logged(r), NEW q \in Queued(Q, i) PROVE n < q
  <2>1. PICK j \in 1..Len(Q) : IsPkt(Q[j], i) /\ Q[j].data = One(q)
    BY DEF Queued
  <2>2. PICK k \in 1..Len(r.log) : LogPkt(r, k) /\ r.log[k].data = One(n)
    BY DEF Logged
  <2>3. n \in Nat /\ q \in Nat
    BY DEF Logged, Queued
  <2> QED BY <1>18, <2>1, <2>2, <2>3 DEF Before
<1>20. Convex(Logged(r), C)
  <2> SUFFICES ASSUME NEW m \in Logged(r), NEW n \in Logged(r), NEW q \in C, m < q, q < n
               PROVE  q \in Logged(r)
    BY DEF Convex
  <2>1. m \in Members(s, P, i) /\ n \in Members(s, P, i)
    BY <1>13 DEF Members
  <2>2. q \in Members(r, Q, i)
    BY <1>13, <2>1 DEF Convex
  <2>3. q \notin Queued(Q, i)
    <3>1. n \in Nat /\ q \in Nat
      BY DEF Logged
    <3>2. ~(n < q)
      BY <3>1
    <3> QED BY <1>19, <3>2
  <2> QED BY <2>2, <2>3 DEF Members
<1>21. StreamOK(r, Q, i, C, A)
  BY <1>10, <1>14, <1>16, <1>18, <1>20 DEF StreamOK
<1> QED BY <1>13, <1>21 DEF Q

\* D are the numbers of C, or n behind them too; B is A as far as C goes.
Comes(C, D, n, A, B) ==
    /\ C \in SUBSET Nat /\ n \in Nat /\ (D = C \/ D = C \cup {n})
    /\ \A c \in C : c < n /\ B[c].from = A[c].from

\* A datagram that comes later changes nothing for those that came before.
LEMMA StreamComes ==
    ASSUME NEW s, NEW P, NEW i, NEW C, NEW D, NEW n, NEW A, NEW B, Comes(C, D, n, A, B),
           StreamOK(s, P, i, C, A)
    PROVE  /\ StreamOK(s, P, i, D, B)
           /\ \A M \in SUBSET C : Convex(M, C) => Convex(M, D)
<1>1. \A data, from : PktOK(data, from, C, A) => PktOK(data, from, D, B)
  BY DEF PktOK, Comes
<1>2. ASSUME NEW M \in SUBSET C, Convex(M, C) PROVE Convex(M, D)
  <2> SUFFICES ASSUME NEW m \in M, NEW k \in M, NEW q \in D, m < q, q < k PROVE q \in M
    BY DEF Convex
  <2>1. k \in Nat /\ n \in Nat /\ k < n
    BY DEF Comes
  <2>2. q # n
    BY <2>1
  <2>3. q \in C
    BY <2>2 DEF Comes
  <2> QED BY <1>2, <2>3 DEF Convex
<1>3. Convex(Logged(s), D)
  BY <1>2, MembersCame DEF StreamOK
<1> QED BY <1>1, <1>2, <1>3 DEF StreamOK

\* Datagram n is posted to the session.
LEMMA StreamPosted ==
    ASSUME NEW s, NEW P, NEW Q, Grows(P, Q), NEW i, NEW C, NEW n, NEW A, NEW B,
           Comes(C, C \cup {n}, n, A, B), StreamOK(s, P, i, C, A), Len(Q) = Len(P) + 1,
           IsPkt(Q[Len(P) + 1], i), Q[Len(P) + 1].data = One(n), Q[Len(P) + 1].from = B[n].from
    PROVE  LET D == C \cup {n}
               M == Members(s, P, i)
               N == Members(s, Q, i)
           IN /\ StreamOK(s, Q, i, D, B)
              /\ UpTo(M, C) => UpTo(N, D)
              /\ Convex(M, C) /\ UpTo(M, C) => Convex(N, D)
<1> DEFINE D == C \cup {n}
           M == Members(s, P, i)
           N == Members(s, Q, i)
           L == Len(P)
           t == Q[L + 1]
<1>1. StreamOK(s, P, i, D, B)
  BY StreamComes
<1>2. C \in SUBSET Nat /\ n \in Nat /\ \A c \in C : c < n
  BY DEF Comes
<1>3. Logged(s) \subseteq C /\ Queued(P, i) \subseteq C /\ M \subseteq C
  BY MembersCame
<1>4. L \in Nat /\ Len(Q) = L + 1 /\ \A k \in 1..L : k \in 1..Len(Q) /\ Q[k] = P[k]
  BY DEF Grows
<1>5. IsPkt(t, i) /\ t.data = One(n) /\ t.from = B[n].from
  OBVIOUS
<1> HIDE DEF L, t
<1>6. /\ \A k \in 1..Len(Q) : k \in 1..L \/ k = L + 1
      /\ L + 1 \in 1..Len(Q) /\ Q[L + 1] = t
  BY <1>4 DEF t
<1>7. Queued(Q, i) = Queued(P, i) \cup {n}
  <2>1. ASSUME NEW m \in Queued(Q, i) PROVE m \in Queued(P, i) \cup {n}
    <3>1. m \in Nat
      BY DEF Queued
    <3>2. PICK k \in 1..Len(Q) : IsPkt(Q[k], i) /\ Q[k].data = One(m)
      BY DEF Queued
    <3>3. CASE k \in 1..L
      BY <1>4, <3>1, <3>2, <3>3 DEF Queued, L
    <3>4. CASE k = L + 1
      BY <1>5, <1>6, <3>2, <3>4, OneNumber
    <3> QED BY <1>6, <3>3, <3>4
  <2>2. ASSUME NEW m \in Queued(P, i) PROVE m \in Queued(Q, i)
    <3>1. PICK k \in 1..L : IsPkt(P[k], i) /\ P[k].data = One(m)
      BY DEF Queued, L
    <3> QED BY <1>4, <3>1 DEF Queued
  <2>3. n \in Queued(Q, i)
    BY <1>2, <1>5, <1>6 DEF Queued
  <2> QED BY <2>1, <2>2, <2>3
<1>8. N = M \cup {n}
  BY <1>7 DEF Members
<1>9. ASSUME NEW data, NEW from, PktOK(data, from, C, A) PROVE Before(data, t.data)
  <2>1. PICK c \in C : data = One(c)
    BY <1>9 DEF PktOK
  <2>2. ASSUME NEW m \in Nat, NEW k \in Nat, data = One(m), t.data = One(k) PROVE m < k
    <3>1. m = c /\ k = n
      BY <1>5, <2>1, <2>2, OneNumber
    <3> QED BY <1>2, <3>1
  <2> QED BY <2>2 DEF Before
<1>10. \A k \in 1..Len(Q) : IsPkt(Q[k], i) => PktOK(Q[k].data, Q[k].from, D, B)
  <2>1. \A k \in 1..L : IsPkt(P[k], i) => PktOK(P[k].data, P[k].from, D, B)
    BY <1>1 DEF StreamOK, L
  <2>2. PktOK(t.data, t.from, D, B)
    BY <1>5 DEF PktOK
  <2> QED BY <1>4, <1>6, <2>1, <2>2
<1>11. ASSUME NEW k \in 1..Len(Q), NEW j \in 1..Len(Q), k < j, IsPkt(Q[k], i), IsPkt(Q[j], i)
       PROVE  Before(Q[k].data, Q[j].data)
  <2>1. k \in 1..L /\ Q[k] = P[k]
    BY <1>4, <1>6, <1>11
  <2>2. CASE j \in 1..L
    BY <1>4, <1>11, <2>1, <2>2 DEF StreamOK, L
  <2>3. CASE j = L + 1
    <3>1. PktOK(P[k].data, P[k].from, C, A)
      BY <1>11, <2>1 DEF StreamOK, L
    <3> QED BY <1>6, <1>9, <2>1, <2>3, <3>1
  <2> QED BY <1>6, <2>2, <2>3
<1>12. ASSUME NEW k \in 1..Len(s.log), NEW j \in 1..Len(Q), LogPkt(s, k), IsPkt(Q[j], i)
       PROVE  Before(s.log[k].data, Q[j].data)
  <2>1. CASE j \in 1..L
    BY <1>4, <1>12, <2>1 DEF StreamOK, L
  <2>2. CASE j = L + 1
    <3>1. PktOK(s.log[k].data, s.log[k].from, C, A)
      BY <1>12 DEF StreamOK
    <3> QED BY <1>6, <1>9, <2>2, <3>1
  <2> QED BY <1>6, <2>1, <2>2
<1>13. StreamOK(s, Q, i, D, B)
  BY <1>1, <1>10, <1>11, <1>12 DEF StreamOK
<1> HIDE DEF M, N
<1>14. UpTo(M, C) => UpTo(N, D)
  <2> SUFFICES ASSUME UpTo(M, C), NEW m \in N, NEW q \in D, m < q PROVE q \in N
    BY DEF UpTo
  <2>1. CASE q = n
    BY <1>8, <2>1
  <2>2. CASE q \in C
    <3>1. m # n
      <4>1. q < n /\ q \in Nat
        BY <1>2, <2>2
      <4> QED BY <1>2, <4>1
    <3> QED BY <1>8, <2>2, <3>1 DEF UpTo
  <2> QED BY <2>1, <2>2
<1>15. UpTo(N, D) => Convex(N, D)
  BY DEF UpTo, Convex
<1> QED BY <1>13, <1>14, <1>15 DEF D, M, N

-------------------------------------------------------------------------------
(* The callbacks of one session.                                           *)

\* The numbers of the first p datagrams that are whole, carry data and are for id.
Came(p, A, id) == {n \in 1..p : IsData(A[n]) /\ A[n].id = id}

\* All that is kept for session i, where run are the workers that run and at is what the map has
\* for its id: as long as its worker runs, a session that was not up will be, and an open session
\* misses no datagram between two it has, or behind one it has if it is in the map.
CallsOK(i, s, P, C, A, run, at) ==
    /\ LogOK(s) /\ QueueOK(P, i, s) /\ StreamOK(s, P, i, C, A)
    /\ getLoopForHash(s.id) \in run =>
           /\ Fresh(s) => HasUp(P, i)
           /\ ~s.closed => Convex(Members(s, P, i), C)
           /\ ~s.closed /\ at = i => UpTo(Members(s, P, i), C)

\* A step that does not concern the session: a datagram may come that is not posted to it, workers
\* may end, and the session may leave the map.
LEMMA CallsComes ==
    ASSUME NEW i, NEW s, NEW P, NEW C, NEW D, NEW n, NEW A, NEW B, NEW run, NEW more, NEW at, NEW to,
           CallsOK(i, s, P, C, A, run, at), Comes(C, D, n, A, B), more \subseteq run,
           to = i => at = i /\ D = C
    PROVE  CallsOK(i, s, P, D, B, more, to)
<1>1. StreamOK(s, P, i, C, A)
  BY DEF CallsOK
<1>2. StreamOK(s, P, i, D, B) /\ \A M \in SUBSET C : Convex(M, C) => Convex(M, D)
  BY <1>1, StreamComes
<1>3. Members(s, P, i) \subseteq C
  BY <1>1, MembersCame
<1> QED BY <1>2, <1>3 DEF CallsOK

\* Tasks are posted that are no packets for the session.
LEMMA CallsGrows ==
    ASSUME NEW i, NEW s, NEW P, NEW Q, NEW C, NEW A, NEW run, NEW at,
           CallsOK(i, s, P, C, A, run, at), Grows(P, Q),
           \A k \in (Len(P) + 1)..Len(Q) : Q[k].s = i =>
               ~IsUp(Q[k], i) /\ ~IsPkt(Q[k], i) /\ getLoopForHash(s.id) \in run
    PROVE  CallsOK(i, s, Q, C, A, run, at)
<1>1. \A k \in (Len(P) + 1)..Len(Q) : ~IsPkt(Q[k], i)
  BY DEF IsPkt
<1>2. StreamOK(s, Q, i, C, A) /\ Members(s, Q, i) = Members(s, P, i)
  BY <1>1, StreamGrows DEF CallsOK
<1>3. \A k \in (Len(P) + 1)..Len(Q) : Q[k].s = i => ~IsUp(Q[k], i) /\ (~Fresh(s) \/ HasUp(P, i))
  BY DEF CallsOK
<1>4. QueueOK(Q, i, s) /\ (HasUp(P, i) => HasUp(Q, i))
  BY <1>3, QueueGrows DEF CallsOK
<1> QED BY <1>2, <1>4 DEF CallsOK

\* Datagram n is posted to the session of the map.
LEMMA CallsPosted ==
    ASSUME NEW i, NEW s, NEW P, NEW Q, NEW C, NEW n, NEW A, NEW B, NEW run,
           CallsOK(i, s, P, C, A, run, i), Comes(C, C \cup {n}, n, A, B),
           getLoopForHash(s.id) \in run, Grows(P, Q), Len(Q) = Len(P) + 1,
           IsPkt(Q[Len(P) + 1], i), Q[Len(P) + 1].data = One(n), Q[Len(P) + 1].from = B[n].from
    PROVE  CallsOK(i, s, Q, C \cup {n}, B, run, i)
<1> DEFINE D == C \cup {n}
           M == Members(s, P, i)
           N == Members(s, Q, i)
<1>1. Len(P) \in Nat
  BY DEF Grows
<1>2. \A k \in (Len(P) + 1)..Len(Q) : k = Len(P) + 1
  BY <1>1
<1>3. ~IsUp(Q[Len(P) + 1], i)
  BY DEF IsUp, IsPkt
<1>4. QueueOK(Q, i, s) /\ (HasUp(P, i) => HasUp(Q, i))
  <2>1. \A k \in (Len(P) + 1)..Len(Q) : Q[k].s = i => ~IsUp(Q[k], i) /\ (~Fresh(s) \/ HasUp(P, i))
    BY <1>2, <1>3 DEF CallsOK
  <2> QED BY <2>1, QueueGrows DEF CallsOK
<1>5. /\ StreamOK(s, Q, i, D, B)
      /\ UpTo(M, C) => UpTo(N, D)
      /\ Convex(M, C) /\ UpTo(M, C) => Convex(N, D)
  BY StreamPosted DEF CallsOK
<1> QED BY <1>4, <1>5 DEF CallsOK

\* What a task t of session i makes of it: r follows s.
TaskMakes(s, r, t) ==
    \/ t.task = "up" /\ Ups(s, r)
    \/ t.task = "packet" /\ Gets(s, r, t)
    \/ t.task = "packet" /\ s.closed /\ r = s
    \/ t.task \notin {"up", "packet"} /\ (Downs(s, r) \/ Waits(s, r) \/ Errs(s, r))
    \/ t.task \notin {"up", "packet"} /\ s.closed /\ r = s

\* An event other than a packet.
Quiet(s, r) ==
    \/ r.log = s.log
    \/ \E e \in EventRec : e.event # "packet" /\ r.log = Append(s.log, e)

\* Only a packet task makes a packet event, of an open session; a session that is closed stays so.
LEMMA MakesQuiet ==
    ASSUME NEW s, NEW r, NEW t, Ups(s, r) \/ Downs(s, r) \/ Waits(s, r) \/ Errs(s, r) \/ r = s
    PROVE  Quiet(s, r) /\ (s.closed => r.closed)
<1> DEFINE up == Event("up")
           down == Event("down")
<1>1. up \in EventRec /\ up.event # "packet" /\ down \in EventRec /\ down.event # "packet"
  BY EventType, TaskFields
<1>2. CASE Ups(s, r)
  BY <1>1, <1>2 DEF Ups, Quiet
<1>3. CASE Downs(s, r)
  BY <1>1, <1>3 DEF Downs, Quiet
<1>4. CASE Waits(s, r) \/ Errs(s, r) \/ r = s
  BY <1>4 DEF Waits, Errs, Quiet
<1> QED BY <1>2, <1>3, <1>4

\* The worker runs the first of its tasks, which makes r of the session.
LEMMA CallsRuns ==
    ASSUME NEW i, NEW s \in SessionRec, NEW r \in SessionRec, NEW P \in Seq(TaskRec), P # <<>>,
           NEW C \in SUBSET Nat, NEW A, NEW run, NEW at, CallsOK(i, s, P, C, A, run, at),
           getLoopForHash(s.id) \in run, r.id = s.id,
           (Head(P).s # i /\ r = s) \/ (Head(P).s = i /\ TaskMakes(s, r, Head(P)))
    PROVE  CallsOK(i, r, Tail(P), C, A, run, at)
<1> DEFINE Q == Tail(P)
           t == Head(P)
<1>1. /\ LogOK(s) /\ QueueOK(P, i, s) /\ StreamOK(s, P, i, C, A)
      /\ Fresh(s) => HasUp(P, i)
      /\ ~s.closed => Convex(Members(s, P, i), C)
      /\ ~s.closed /\ at = i => UpTo(Members(s, P, i), C)
  BY DEF CallsOK
<1>2. StreamOK(s, Q, i, C, A) /\ (~IsPkt(t, i) => Members(s, Q, i) = Members(s, P, i))
  BY <1>1, StreamTail
<1>3. t.s = i => (Fresh(s) <=> IsUp(t, i))
  BY <1>1, HeadIsUp
<1>4. /\ t.s # i /\ (Fresh(r) <=> Fresh(s)) => /\ QueueOK(Q, i, r)
                                               /\ HasUp(P, i) => HasUp(Q, i)
      /\ t.s = i /\ ~Fresh(r) => QueueOK(Q, i, r)
  BY <1>1, QueueTail
<1>5. /\ IsPkt(t, i) /\ ~s.closed /\ Gets(s, r, t) =>
             StreamOK(r, Q, i, C, A) /\ Members(r, Q, i) = Members(s, P, i)
  BY <1>1, StreamGets
<1>6. (t.s # i /\ r = s) \/ (t.s = i /\ TaskMakes(s, r, t))
  OBVIOUS
<1> HIDE DEF Q, t
<1>7. ASSUME t.s = i PROVE IsUp(t, i) <=> t.task = "up"
  BY <1>7 DEF IsUp
<1>8. ASSUME t.s = i PROVE LogOK(r) /\ ~Fresh(r)
  <2>1. CASE r = s /\ s.closed
    BY <1>1, <2>1 DEF LogOK
  <2>2. CASE t.task = "up" /\ Ups(s, r)
    BY <1>1, <1>3, <1>7, <1>8, <2>2, LogKept
  <2>3. CASE t.task # "up" /\ (Gets(s, r, t) \/ Downs(s, r) \/ Waits(s, r) \/ Errs(s, r))
    BY <1>1, <1>3, <1>7, <1>8, <2>3, LogKept
  <2> QED BY <1>6, <1>8, <2>1, <2>2, <2>3 DEF TaskMakes
<1>9. LogOK(r) /\ QueueOK(Q, i, r) /\ (Fresh(r) => HasUp(Q, i))
  BY <1>1, <1>4, <1>6, <1>8
<1>10. ASSUME ~(t.s = i /\ t.task = "packet" /\ Gets(s, r, t))
       PROVE  /\ StreamOK(r, Q, i, C, A)
              /\ ~r.closed => Members(r, Q, i) = Members(s, P, i) /\ ~s.closed
  <2>1. \/ Ups(s, r) \/ Downs(s, r) \/ Waits(s, r) \/ Errs(s, r) \/ r = s
    BY <1>6, <1>10 DEF TaskMakes
  <2>2. Quiet(s, r) /\ (s.closed => r.closed)
    BY <2>1, MakesQuiet
  <2>3. StreamOK(r, Q, i, C, A) /\ Logged(r) = Logged(s)
    BY <1>2, <2>2, StreamSame DEF Quiet
  <2>4. ~r.closed => ~IsPkt(t, i)
    BY <1>6, <1>10, <2>2 DEF TaskMakes, IsPkt
  <2>5. ~r.closed => Members(r, Q, i) = Members(s, P, i)
    BY <1>2, <2>3, <2>4 DEF Members
  <2> QED BY <2>2, <2>3, <2>5
<1>11. /\ StreamOK(r, Q, i, C, A)
       /\ ~r.closed => Members(r, Q, i) = Members(s, P, i) /\ ~s.closed
  <2>1. ASSUME t.s = i, t.task = "packet", Gets(s, r, t)
        PROVE  /\ StreamOK(r, Q, i, C, A) /\ Members(r, Q, i) = Members(s, P, i) /\ ~s.closed
    <3>1. IsPkt(t, i) /\ ~s.closed
      BY <2>1 DEF IsPkt, Gets
    <3> QED BY <1>5, <2>1, <3>1
  <2> QED BY <1>10, <2>1
<1>12. CallsOK(i, r, Q, C, A, run, at)
  BY <1>1, <1>9, <1>11 DEF CallsOK
<1> QED BY <1>12 DEF Q

\* The timer makes r of the session.
LEMMA CallsTicks ==
    ASSUME NEW i, NEW s \in SessionRec, NEW r \in SessionRec, NEW P, NEW C, NEW A, NEW run, NEW at,
           CallsOK(i, s, P, C, A, run, at), s.timer, r.id = s.id, Downs(s, r) \/ Waits(s, r)
    PROVE  CallsOK(i, r, P, C, A, run, at)
<1>1. /\ LogOK(s) /\ QueueOK(P, i, s) /\ StreamOK(s, P, i, C, A)
      /\ getLoopForHash(s.id) \in run =>
            /\ ~s.closed => Convex(Members(s, P, i), C)
            /\ ~s.closed /\ at = i => UpTo(Members(s, P, i), C)
  BY DEF CallsOK
<1>2. ~Fresh(s)
  BY <1>1 DEF LogOK
<1>3. LogOK(r) /\ ~Fresh(r)
  BY <1>1, <1>2, LogKept
<1>4. QueueOK(P, i, r)
  BY <1>1, <1>2, <1>3 DEF QueueOK
<1>5. Quiet(s, r) /\ (s.closed => r.closed)
  BY MakesQuiet
<1>6. StreamOK(r, P, i, C, A) /\ Logged(r) = Logged(s)
  BY <1>1, <1>5, StreamSame DEF Quiet
<1>7. Members(r, P, i) = Members(s, P, i)
  BY <1>6 DEF Members
<1> QED BY <1>1, <1>3, <1>4, <1>5, <1>6, <1>7 DEF CallsOK

\* The session's worker ends, and its queue Q is empty.
LEMMA CallsEnds ==
    ASSUME NEW i, NEW s, NEW P, NEW Q, Len(Q) = 0, NEW C, NEW A, NEW run, NEW less, NEW at,
           CallsOK(i, s, P, C, A, run, at), getLoopForHash(s.id) \notin less
    PROVE  CallsOK(i, s, Q, C, A, less, at)
<1>1. LogOK(s) /\ StreamOK(s, P, i, C, A)
  BY DEF CallsOK
<1>2. 1..Len(Q) = {}
  OBVIOUS
<1>3. QueueOK(Q, i, s) /\ StreamOK(s, Q, i, C, A)
  BY <1>1, <1>2 DEF QueueOK, StreamOK
<1> QED BY <1>1, <1>3 DEF CallsOK

\* A session is created; Q has its tasks, the third of which may be a packet, the last that came.
LEMMA CallsNew ==
    ASSUME NEW i, NEW s, Fresh(s), Len(s.log) \in Nat, ~s.timer, ~s.closed,
           NEW P, NEW Q, Grows(P, Q), Len(P) < Len(Q), NEW D \in SUBSET Nat, NEW B, NEW run, NEW at,
           \A k \in 1..Len(P) : P[k].s # i,
           IsUp(Q[Len(P) + 1], i),
           \A k \in (Len(P) + 2)..Len(Q) : ~IsUp(Q[k], i),
           \A k \in (Len(P) + 1)..Len(Q) : IsPkt(Q[k], i) =>
               /\ k = Len(P) + 3
               /\ \E n \in D : Q[k].data = One(n) /\ Q[k].from = B[n].from /\ \A q \in D : q <= n
    PROVE  CallsOK(i, s, Q, D, B, run, at)
<1>1. 1..Len(s.log) = {}
  BY DEF Fresh
<1>2. LogOK(s) /\ Logged(s) = {}
  BY <1>1 DEF LogOK, Logged
<1>3. QueueOK(Q, i, s) /\ HasUp(Q, i)
  BY QueueNew
<1>4. Len(P) \in Nat /\ Len(Q) \in Nat
  BY DEF Grows
<1>5. \A k \in 1..Len(Q) : IsPkt(Q[k], i) =>
          /\ k = Len(P) + 3
          /\ \E n \in D : Q[k].data = One(n) /\ Q[k].from = B[n].from /\ \A q \in D : q <= n
  <2> SUFFICES ASSUME NEW k \in 1..Len(Q), IsPkt(Q[k], i)
               PROVE  k \in (Len(P) + 1)..Len(Q)
    OBVIOUS
  <2>1. k \notin 1..Len(P)
    BY DEF Grows, IsPkt
  <2> QED BY <1>4, <2>1
<1>6. StreamOK(s, Q, i, D, B)
  <2>1. \A k \in 1..Len(Q) : IsPkt(Q[k], i) => PktOK(Q[k].data, Q[k].from, D, B)
    BY <1>5 DEF PktOK
  <2>2. \A k, j \in 1..Len(Q) : k < j => ~(IsPkt(Q[k], i) /\ IsPkt(Q[j], i))
    <3> SUFFICES ASSUME NEW k \in 1..Len(Q), NEW j \in 1..Len(Q), k < j, IsPkt(Q[k], i), IsPkt(Q[j], i)
                 PROVE  FALSE
      OBVIOUS
    <3>1. k = Len(P) + 3 /\ j = Len(P) + 3
      BY <1>5
    <3> QED BY <1>4, <3>1
  <2>3. Convex(Logged(s), D)
    BY <1>2 DEF Convex
  <2> QED BY <1>1, <2>1, <2>2, <2>3 DEF StreamOK
<1>7. \A m \in Members(s, Q, i), q \in D : ~(m < q)
  <2> SUFFICES ASSUME NEW m \in Members(s, Q, i), NEW q \in D PROVE ~(m < q)
    OBVIOUS
  <2>1. m \in Queued(Q, i)
    BY <1>2 DEF Members
  <2>2. PICK k \in 1..Len(Q) : IsPkt(Q[k], i) /\ Q[k].data = One(m)
    BY <2>1 DEF Queued
  <2>3. PICK n \in D : Q[k].data = One(n) /\ \A p \in D : p <= n
    BY <1>5, <2>2
  <2>4. m = n
    BY <2>2, <2>3, OneNumber
  <2>5. q <= n /\ q \in Nat /\ n \in Nat
    BY <2>3
  <2> QED BY <2>4, <2>5
<1>8. Convex(Members(s, Q, i), D) /\ UpTo(Members(s, Q, i), D)
  BY <1>7 DEF Convex, UpTo
<1> QED BY <1>2, <1>3, <1>6, <1>8 DEF CallsOK

-------------------------------------------------------------------------------
(* The callbacks of all sessions.                                          *)

\* What CallsOK says, of each session.
CallInv ==
    \A i \in 1..Len(sessions) :
        CallsOK(i, sessions[i], pending[getLoopForHash(sessions[i].id)],
                Came(Processed, arrived, sessions[i].id), arrived, running,
                session_map_[sessions[i].id])

\* Which datagrams came for id changes only when ProcessPacket sees one.
LEMMA CameSame ==
    ASSUME ReadInv, SeenStays, NEW id
    PROVE  /\ Came(Processed', arrived', id) = Came(Processed, arrived, id)
           /\ Comes(Came(Processed, arrived, id), Came(Processed, arrived, id), Processed + 1,
                    arrived, arrived')
<1>1. Processed \in Nat /\ Processed' = Processed /\ \A n \in 1..Processed : arrived'[n] = arrived[n]
  BY DEF ReadInv, SeenStays
<1>2. Came(Processed', arrived', id) = Came(Processed, arrived, id)
  BY <1>1 DEF Came
<1>3. \A c \in Came(Processed, arrived, id) : c \in 1..Processed
  BY DEF Came
<1> DEFINE C == Came(Processed, arrived, id)
           p == Processed
<1>4. C \in SUBSET Nat /\ p + 1 \in Nat /\ \A c \in C : c < p + 1 /\ arrived'[c].from = arrived[c].from
  <2> HIDE DEF C, p
  <2> QED BY <1>1, <1>3 DEF C, p
<1>5. Comes(C, C, p + 1, arrived, arrived')
  <2> HIDE DEF C, p
  <2> QED BY <1>4 DEF Comes
<1> QED BY <1>2, <1>5

\* ProcessPacket sees the next.
LEMMA CameNext ==
    ASSUME NEW p \in Nat, NEW A, NEW id
    PROVE  LET C == Came(p, A, id)
               D == Came(p + 1, A, id)
           IN /\ D = IF IsData(A[p + 1]) /\ A[p + 1].id = id THEN C \cup {p + 1} ELSE C
              /\ Comes(C, D, p + 1, A, A)
<1> DEFINE C == Came(p, A, id)
           D == Came(p + 1, A, id)
<1>1. \A n : n \in 1..(p + 1) <=> n \in 1..p \/ n = p + 1
  OBVIOUS
<1>2. D = IF IsData(A[p + 1]) /\ A[p + 1].id = id THEN C \cup {p + 1} ELSE C
  BY <1>1 DEF Came
<1>3. \A c \in C : c \in 1..p
  BY DEF Came
<1> HIDE DEF C, D
<1>4. C \in SUBSET Nat /\ p + 1 \in Nat /\ \A c \in C : c < p + 1
  BY <1>3
<1>5. Comes(C, D, p + 1, A, A)
  BY <1>2, <1>4 DEF Comes
<1> QED BY <1>2, <1>5 DEF C, D

\* Steps that leave sessions and tasks alone.
LEMMA IdleCalls ==
    ASSUME BaseInv, CallInv, SeenStays, UNCHANGED <<sessions, pending>>, running' \subseteq running,
           \A id \in Ids : session_map_'[id] \in {0, session_map_[id]}
    PROVE  CallInv'
<1> SUFFICES ASSUME NEW i \in 1..Len(sessions)
             PROVE  CallsOK(i, sessions[i], pending[getLoopForHash(sessions[i].id)],
                            Came(Processed', arrived', sessions[i].id), arrived', running',
                            session_map_'[sessions[i].id])
  BY DEF CallInv
<1> DEFINE s == sessions[i]
           P == pending[getLoopForHash(sessions[i].id)]
           C == Came(Processed, arrived, s.id)
           at == session_map_[s.id]
<1>1. CallsOK(i, s, P, C, arrived, running, at)
  BY DEF CallInv
<1>2. Came(Processed', arrived', s.id) = C /\ Comes(C, C, Processed + 1, arrived, arrived')
  BY CameSame DEF BaseInv
<1>3. s \in SessionRec /\ i # 0
  BY DEF BaseInv, SessionInv
<1>4. session_map_'[s.id] = i => at = i
  BY <1>3 DEF SessionRec
<1> HIDE DEF s, P, C, at
<1>5. CallsOK(i, s, P, C, arrived', running', session_map_'[s.id])
  BY <1>1, <1>2, <1>4, CallsComes
<1> QED BY <1>2, <1>5 DEF s, P

\* A step of the base loop, seen from a session it posts no packet to.
LEMMA CallsOther ==
    ASSUME NEW i, NEW s, NEW P, NEW Q, NEW C, NEW D, NEW n, NEW A, NEW B, NEW run, NEW at, NEW to,
           CallsOK(i, s, P, C, A, run, at), Comes(C, D, n, A, B), Grows(P, Q),
           getLoopForHash(s.id) \in run, to = i => at = i /\ D = C,
           \A k \in (Len(P) + 1)..Len(Q) : Q[k].s = i => Q[k].task \notin {"up", "packet"}
    PROVE  CallsOK(i, s, Q, D, B, run, to)
<1>1. CallsOK(i, s, P, D, B, run, to)
  BY CallsComes
<1>2. \A k \in (Len(P) + 1)..Len(Q) : Q[k].s = i =>
          ~IsUp(Q[k], i) /\ ~IsPkt(Q[k], i) /\ getLoopForHash(s.id) \in run
  BY DEF IsUp, IsPkt
<1> QED BY <1>1, <1>2, CallsGrows

\* Every queue grows, or stays.
LEMMA QueuesStay ==
    ASSUME SessionInv, pending' = pending, NEW w \in Workers
    PROVE  /\ Grows(pending[w], pending'[w])
           /\ (Len(pending[w]) + 1)..Len(pending'[w]) = {}
BY DEF SessionInv, Grows

\* Q is P with tasks behind it.
GrowsBy(P, Q, tasks) ==
    /\ Grows(P, Q) /\ Len(P) \in Nat /\ Len(Q) = Len(P) + Len(tasks)
    /\ \A k \in (Len(P) + 1)..Len(Q) : k - Len(P) \in 1..Len(tasks) /\ Q[k] = tasks[k - Len(P)]

\* Tasks are posted to worker v.
LEMMA QueuesGrow ==
    ASSUME SessionInv, NEW v \in Workers, NEW tasks \in Seq(TaskRec),
           pending' = [pending EXCEPT ![v] = @ \o tasks]
    PROVE  /\ GrowsBy(pending[v], pending'[v], tasks)
           /\ \A w \in Workers : w # v =>
                  Grows(pending[w], pending'[w]) /\ (Len(pending[w]) + 1)..Len(pending'[w]) = {}
<1>1. /\ pending' \in [Workers -> Seq(TaskRec)]
      /\ \A u \in Workers : u # v => pending'[u] = pending[u]
      /\ Len(pending'[v]) = Len(pending[v]) + Len(tasks)
      /\ \A k \in 1..Len(pending[v]) : pending'[v][k] = pending[v][k]
      /\ \A k \in 1..Len(tasks) : pending'[v][Len(pending[v]) + k] = tasks[k]
  BY PendingAfterPost
<1>2. ASSUME NEW w \in Workers PROVE pending[w] \in Seq(TaskRec) /\ Len(pending[w]) \in Nat
  BY DEF SessionInv
<1>3. ASSUME NEW w \in Workers, w # v
      PROVE  Grows(pending[w], pending'[w]) /\ (Len(pending[w]) + 1)..Len(pending'[w]) = {}
  <2> DEFINE P == pending[w]
             L == Len(P)
  <2>1. pending'[w] = P /\ P \in Seq(TaskRec) /\ L \in Nat
    BY <1>1, <1>2, <1>3
  <2>2. Grows(P, P)
    BY <2>1 DEF Grows
  <2>3. (L + 1)..L = {}
    <3> HIDE DEF L
    <3> QED BY <2>1
  <2> QED BY <2>1, <2>2, <2>3
<1>4. GrowsBy(pending[v], pending'[v], tasks)
  <2> DEFINE P == pending[v]
             Q == pending'[v]
             L == Len(P)
             M == Len(Q)
             m == Len(tasks)
  <2>1. P \in Seq(TaskRec) /\ Q \in Seq(TaskRec) /\ L \in Nat /\ m \in Nat /\ M = L + m
    BY <1>1, <1>2
  <2>2. /\ \A k \in 1..L : Q[k] = P[k]
        /\ \A k \in 1..m : Q[L + k] = tasks[k]
    BY <1>1
  <2> HIDE DEF P, Q, m
  <2>3. Grows(P, Q)
    BY <2>1, <2>2 DEF Grows
  <2> HIDE DEF L, M
  <2>4. ASSUME NEW k \in (L + 1)..M PROVE k - L \in 1..m /\ Q[k] = tasks[k - L]
    <3>1. k - L \in 1..m /\ k = L + (k - L)
      BY <2>1
    <3> QED BY <2>2, <3>1
  <2> QED BY <2>1, <2>3, <2>4 DEF GrowsBy, L, M, m, P, Q
<1> QED BY <1>3, <1>4

\* HandleError and Destroy post neither up nor packets, while the server listens.
LEMMA GrowCalls ==
    ASSUME BaseInv, CallInv, SeenStays, UNCHANGED <<sessions, session_map_, running>>,
           life = "listening",
           \A w \in Workers : /\ Grows(pending[w], pending'[w])
                              /\ \A k \in (Len(pending[w]) + 1)..Len(pending'[w]) :
                                     pending'[w][k].task \notin {"up", "packet"}
    PROVE  CallInv'
<1> SUFFICES ASSUME NEW i \in 1..Len(sessions)
             PROVE  CallsOK(i, sessions[i], pending'[getLoopForHash(sessions[i].id)],
                            Came(Processed', arrived', sessions[i].id), arrived', running,
                            session_map_[sessions[i].id])
  BY DEF CallInv
<1> DEFINE s == sessions[i]
           w == getLoopForHash(s.id)
           P == pending[w]
           Q == pending'[w]
           C == Came(Processed, arrived, s.id)
           at == session_map_[s.id]
<1>1. CallsOK(i, s, P, C, arrived, running, at)
  BY DEF CallInv
<1>2. Came(Processed', arrived', s.id) = C /\ Comes(C, C, Processed + 1, arrived, arrived')
  BY CameSame DEF BaseInv
<1>3. s \in SessionRec
  BY DEF BaseInv, SessionInv
<1>4. w \in Workers /\ w \in running
  BY <1>3, LoopIsWorker DEF SessionRec, BaseInv, ControlInv
<1>5. Grows(P, Q) /\ \A k \in (Len(P) + 1)..Len(Q) : Q[k].task \notin {"up", "packet"}
  BY <1>4
<1>6. getLoopForHash(s.id) \in running
  BY <1>4
<1> HIDE DEF s, w, P, Q, C, at
<1>7. CallsOK(i, s, Q, C, arrived', running, at)
  BY <1>1, <1>2, <1>5, <1>6, CallsOther
<1> QED BY <1>2, <1>7 DEF s, w, Q, at

\* ProcessPacket sees a datagram, seen from a session that was there and gets no packet.
LEMMA OtherCalls ==
    ASSUME BaseInv, CallInv, life = "listening", UNCHANGED <<arrived, running>>,
           Processed' = Processed + 1, NEW i \in 1..Len(sessions), NEW w,
           w = getLoopForHash(sessions[i].id), Grows(pending[w], pending'[w]),
           \A k \in (Len(pending[w]) + 1)..Len(pending'[w]) :
               pending'[w][k].s = i => pending'[w][k].task \notin {"up", "packet"},
           session_map_'[sessions[i].id] = i =>
               /\ session_map_[sessions[i].id] = i
               /\ ~(IsData(arrived[Processed + 1]) /\ arrived[Processed + 1].id = sessions[i].id)
    PROVE  CallsOK(i, sessions[i], pending'[w], Came(Processed', arrived', sessions[i].id), arrived',
                   running', session_map_'[sessions[i].id])
<1> DEFINE s == sessions[i]
           P == pending[w]
           Q == pending'[w]
           p == Processed
           C == Came(p, arrived, s.id)
           D == Came(p + 1, arrived, s.id)
           at == session_map_[s.id]
           to == session_map_'[s.id]
<1>1. CallsOK(i, s, P, C, arrived, running, at)
  BY DEF CallInv
<1>2. p \in Nat
  BY DEF BaseInv, ReadInv
<1>3. /\ D = IF IsData(arrived[p + 1]) /\ arrived[p + 1].id = s.id THEN C \cup {p + 1} ELSE C
      /\ Comes(C, D, p + 1, arrived, arrived)
  <2> HIDE DEF p, s
  <2> QED BY <1>2, CameNext
<1>4. to = i => at = i /\ D = C
  <2> HIDE DEF D, C
  <2> QED BY <1>3
<1>5. s \in SessionRec
  BY DEF BaseInv, SessionInv
<1>6. getLoopForHash(s.id) \in running
  BY <1>5, LoopIsWorker DEF SessionRec, BaseInv, ControlInv
<1>7. Grows(P, Q) /\ \A k \in (Len(P) + 1)..Len(Q) : Q[k].s = i => Q[k].task \notin {"up", "packet"}
  OBVIOUS
<1>8. Came(Processed', arrived', s.id) = D
  OBVIOUS
<1> HIDE DEF s, P, Q, C, D, at, to, p
<1>9. CallsOK(i, s, Q, D, arrived, running, to)
  BY <1>1, <1>3, <1>4, <1>6, <1>7, CallsOther
<1> QED BY <1>8, <1>9 DEF s, Q, to

\* ProcessPacket sees a datagram and posts it to session i of the map.
LEMMA PostedCalls ==
    ASSUME BaseInv, CallInv, life = "listening", UNCHANGED <<arrived, running, session_map_>>,
           Processed' = Processed + 1, NEW i \in 1..Len(sessions), NEW w,
           w = getLoopForHash(sessions[i].id), Grows(pending[w], pending'[w]),
           Len(pending'[w]) = Len(pending[w]) + 1,
           pending'[w][Len(pending[w]) + 1] = PktTask(i, Processed + 1, arrived[Processed + 1].from),
           session_map_[sessions[i].id] = i,
           IsData(arrived[Processed + 1]), arrived[Processed + 1].id = sessions[i].id
    PROVE  CallsOK(i, sessions[i], pending'[w], Came(Processed', arrived', sessions[i].id), arrived',
                   running', session_map_'[sessions[i].id])
<1> DEFINE s == sessions[i]
           P == pending[w]
           Q == pending'[w]
           p == Processed
           C == Came(p, arrived, s.id)
           D == Came(p + 1, arrived, s.id)
           t == PktTask(i, p + 1, arrived[p + 1].from)
<1>1. CallsOK(i, s, P, C, arrived, running, i)
  BY DEF CallInv
<1>2. p \in Nat
  BY DEF BaseInv, ReadInv
<1>3. D = C \cup {p + 1} /\ Comes(C, D, p + 1, arrived, arrived)
  <2> HIDE DEF p, s
  <2>1. /\ D = IF IsData(arrived[p + 1]) /\ arrived[p + 1].id = s.id THEN C \cup {p + 1} ELSE C
        /\ Comes(C, D, p + 1, arrived, arrived)
    BY <1>2, CameNext
  <2> QED BY <2>1 DEF p, s
<1>4. s \in SessionRec
  BY DEF BaseInv, SessionInv
<1>5. getLoopForHash(s.id) \in running
  BY <1>4, LoopIsWorker DEF SessionRec, BaseInv, ControlInv
<1>6. IsPkt(t, i) /\ t.data = One(p + 1) /\ t.from = arrived[p + 1].from
  <2> HIDE DEF p
  <2> QED BY DEF PktTask, IsPkt, One
<1>7. Grows(P, Q) /\ Len(Q) = Len(P) + 1 /\ Q[Len(P) + 1] = t
  OBVIOUS
<1>8. Came(Processed', arrived', s.id) = D /\ session_map_'[s.id] = i
  OBVIOUS
<1> HIDE DEF s, P, Q, C, D, p, t
<1>9. CallsOK(i, s, Q, C \cup {p + 1}, arrived, running, i)
  BY <1>1, <1>3, <1>5, <1>6, <1>7, CallsPosted
<1> QED BY <1>3, <1>8, <1>9 DEF s, Q

\* The tasks of a new session: up, update, and what comes after them.
Begins(tasks, i, more) ==
    /\ tasks \in Seq(TaskRec) /\ Len(tasks) = Len(more) + 2
    /\ tasks[1].task = "up" /\ tasks[1].s = i
    /\ tasks[2].task = "update" /\ tasks[2].s = i
    /\ \A k \in 1..Len(more) : tasks[k + 2] = more[k]

\* They are what Creates posts.
LEMMA FirstTasks ==
    ASSUME NEW i \in Nat, NEW more \in Seq(TaskRec)
    PROVE  Begins(Initialized(i) \o more, i, more)
<1> DEFINE tasks == Initialized(i) \o more
           t1 == Task("up", i)
           t2 == Task("update", i)
           q == Initialized(i)
<1>1. t1 \in TaskRec /\ t2 \in TaskRec
  BY EventType DEF TaskNames
<1>2. t1.task = "up" /\ t1.s = i /\ t2.task = "update" /\ t2.s = i
  BY DEF Task
<1>3. q = <<t1, t2>>
  BY DEF Initialized
<1> HIDE DEF t1, t2
<1>4. q \in Seq(TaskRec) /\ Len(q) = 2 /\ q[1] = t1 /\ q[2] = t2
  BY <1>1, <1>3
<1> HIDE DEF q
<1>5. /\ tasks \in Seq(TaskRec) /\ Len(tasks) = Len(q) + Len(more)
      /\ \A k \in 1..(Len(q) + Len(more)) : tasks[k] = IF k <= Len(q) THEN q[k] ELSE more[k - Len(q)]
  <2>1. tasks = q \o more
    BY DEF q
  <2> HIDE DEF tasks
  <2>2. /\ q \o more \in Seq(TaskRec) /\ Len(q \o more) = Len(q) + Len(more)
        /\ \A k \in 1..(Len(q) + Len(more)) :
               (q \o more)[k] = IF k <= Len(q) THEN q[k] ELSE more[k - Len(q)]
    BY <1>4, ConcatProperties
  <2> QED BY <2>1, <2>2
<1> DEFINE m == Len(more)
<1>6. m \in Nat
  OBVIOUS
<1> HIDE DEF tasks
<1>7. \A k \in 1..(m + 2) : tasks[k] = IF k <= 2 THEN q[k] ELSE more[k - 2]
  BY <1>4, <1>5
<1> HIDE DEF m
<1>8. tasks[1] = q[1] /\ tasks[2] = q[2] /\ \A k \in 1..m : tasks[k + 2] = more[k]
  <2>1. 1 \in 1..(m + 2) /\ 2 \in 1..(m + 2)
    BY <1>6
  <2>2. tasks[1] = q[1] /\ tasks[2] = q[2]
    <3>1. \A k \in 1..(m + 2) : k <= 2 => tasks[k] = q[k]
      BY <1>7, Zenon
    <3>2. 1 <= 2 /\ 2 <= 2
      OBVIOUS
    <3> QED BY <2>1, <3>1, <3>2, Zenon
  <2>3. ASSUME NEW k \in 1..m PROVE tasks[k + 2] = more[k]
    <3> DEFINE j == k + 2
    <3>1. j \in 1..(m + 2) /\ j - 2 = k /\ ~(j <= 2)
      BY <1>6
    <3> HIDE DEF j
    <3>2. tasks[j] = more[j - 2]
      BY <1>7, <3>1
    <3>3. tasks[j] = more[k]
      BY <3>1, <3>2
    <3> QED BY <3>3 DEF j
  <2> QED BY <2>2, <2>3
<1>9. Len(tasks) = m + 2
  BY <1>4, <1>5, <1>6 DEF m
<1>10. Begins(tasks, i, more)
  BY <1>2, <1>4, <1>5, <1>8, <1>9 DEF m, Begins
<1> QED BY <1>10 DEF tasks

\* A session is created, with the datagram that ProcessPacket sees if that carries data.
LEMMA CreatedCalls ==
    ASSUME BaseInv, UNCHANGED <<arrived, running>>, Processed' = Processed + 1,
           NEW id \in Ids, NEW from \in Addresses, NEW more \in Seq(TaskRec), Len(more) <= 1,
           \A k \in 1..Len(more) :
               /\ more[k] = PktTask(Len(sessions) + 1, Processed + 1, arrived[Processed + 1].from)
               /\ IsData(arrived[Processed + 1]) /\ arrived[Processed + 1].id = id,
           Creates(id, from, more)
    PROVE  /\ Len(sessions') = Len(sessions) + 1
           /\ LET i == Len(sessions) + 1
                  w == getLoopForHash(id)
              IN /\ sessions'[i].id = id
                 /\ CallsOK(i, sessions'[i], pending'[w], Came(Processed', arrived', id), arrived',
                            running', session_map_'[id])
<1> DEFINE L == Len(sessions)
           i == L + 1
           w == getLoopForHash(id)
           P == pending[w]
           Q == pending'[w]
           new == NewSession(id, from)
           tasks == Initialized(i) \o more
           p == Processed
           D == Came(p + 1, arrived, id)
<1>1. sessions \in Seq(SessionRec) /\ L \in Nat /\ i \in Nat
  BY DEF BaseInv, SessionInv
<1>2. new.id = id /\ ~new.closed /\ ~new.timer /\ Len(new.log) \in Nat /\ Fresh(new)
  <2>1. Len(<<>>) = 0
    BY EmptySeq
  <2> DEFINE e == <<>>
  <2> HIDE DEF e
  <2>2. new = [id |-> id, peer |-> from, closed |-> FALSE, timer |-> FALSE, error |-> FALSE, log |-> e]
    BY DEF NewSession, e
  <2>3. new.log = e /\ new.id = id /\ new.closed = FALSE /\ new.timer = FALSE
    <3> HIDE DEF new
    <3> QED BY <2>2
  <2> HIDE DEF new
  <2>4. Len(new.log) = 0
    BY <2>1, <2>3 DEF e
  <2> QED BY <2>3, <2>4 DEF Fresh
<1>3. sessions' = Append(sessions, new) /\ pending' = [pending EXCEPT ![w] = @ \o tasks]
  BY DEF Creates
<1>4. Len(sessions') = L + 1 /\ sessions'[i] = new
  <2> HIDE DEF new
  <2> QED BY <1>1, <1>3
<1>5. Begins(tasks, i, more)
  <2> HIDE DEF i
  <2> QED BY <1>1, FirstTasks
<1>6. w \in Workers
  BY LoopIsWorker
<1> HIDE DEF tasks
<1>7. GrowsBy(P, Q, tasks)
  <2> HIDE DEF w
  <2>1. SessionInv /\ tasks \in Seq(TaskRec)
    BY <1>5 DEF BaseInv, Begins
  <2> QED BY <1>3, <1>6, <2>1, QueuesGrow
<1>8. \A k \in 1..Len(P) : P[k].s # i
  <2>1. \A k \in 1..Len(P) : P[k].s \in 1..L
    BY <1>6 DEF BaseInv, SessionInv, TaskFits
  <2> QED BY <1>1, <2>1
<1>9. p \in Nat
  BY DEF BaseInv, ReadInv
<1>10. \A k \in 1..Len(more) :
           /\ IsPkt(more[k], i) /\ more[k].data = One(p + 1) /\ more[k].from = arrived[p + 1].from
           /\ IsData(arrived[p + 1]) /\ arrived[p + 1].id = id
  <2> DEFINE t == PktTask(i, p + 1, arrived[p + 1].from)
  <2>1. IsPkt(t, i) /\ t.data = One(p + 1) /\ t.from = arrived[p + 1].from
    <3> HIDE DEF p, i
    <3> QED BY DEF PktTask, IsPkt, One
  <2>2. \A k \in 1..Len(more) : more[k] = t
    OBVIOUS
  <2> HIDE DEF t
  <2> QED BY <2>1, <2>2
<1>11. Came(Processed', arrived', id) = D
  OBVIOUS
<1>12. D \in SUBSET Nat /\ \A q \in D : q <= p + 1
  BY <1>9 DEF Came
<1>13. IsData(arrived[p + 1]) /\ arrived[p + 1].id = id => p + 1 \in D
  <2>1. p + 1 \in 1..(p + 1)
    BY <1>9
  <2> QED BY <2>1 DEF Came
<1> DEFINE l == Len(P)
           m == Len(more)
           M == Len(Q)
<1>14. l \in Nat /\ m \in 0..1 /\ M = l + m + 2
  <2>1. m \in Nat /\ m <= 1
    OBVIOUS
  <2>2. l \in Nat /\ M = l + Len(tasks) /\ Len(tasks) = m + 2
    BY <1>5, <1>7 DEF GrowsBy, Begins
  <2> HIDE DEF l, m, M
  <2> QED BY <2>1, <2>2
<1> HIDE DEF P, Q, D, i, new, p
<1>15. \A k \in (l + 1)..M : k - l \in 1..Len(tasks) /\ Q[k] = tasks[k - l]
  BY <1>7 DEF GrowsBy
<1> HIDE DEF l, m, M
<1>16. /\ l + 1 \in (l + 1)..M /\ (l + 1) - l = 1
       /\ \A k \in (l + 2)..M : k \in (l + 1)..M /\ (k - l = 2 \/ (k = l + 3 /\ 1 \in 1..m /\ k - l = 1 + 2))
       /\ \A k \in (l + 1)..M : k = l + 1 \/ k \in (l + 2)..M
       /\ l < M
  BY <1>14
<1>17. IsUp(Q[l + 1], i)
  BY <1>5, <1>15, <1>16 DEF IsUp, Begins
<1>18. ASSUME NEW k \in (l + 2)..M
       PROVE  \/ Q[k].task = "update"
              \/ k = l + 3 /\ 1 \in 1..m /\ Q[k] = more[1]
  <2>1. Q[k] = tasks[k - l]
    BY <1>15, <1>16
  <2>2. CASE k - l = 2
    BY <1>5, <2>1, <2>2 DEF Begins
  <2>3. CASE k = l + 3 /\ 1 \in 1..m /\ k - l = 1 + 2
    <3>1. Q[k] = tasks[1 + 2]
      BY <2>1, <2>3
    <3> QED BY <1>5, <2>3, <3>1 DEF m, Begins
  <2> QED BY <1>16, <2>2, <2>3
<1>19. \A k \in (l + 2)..M : ~IsUp(Q[k], i)
  BY <1>10, <1>18 DEF IsUp, IsPkt, m
<1>20. ASSUME NEW k \in (l + 1)..M, IsPkt(Q[k], i)
       PROVE  /\ k = l + 3
              /\ \E n \in D : Q[k].data = One(n) /\ Q[k].from = arrived[n].from /\ \A q \in D : q <= n
  <2>1. Q[k].task = "packet"
    BY <1>20 DEF IsPkt
  <2>2. k # l + 1
    BY <1>17, <2>1 DEF IsUp
  <2>3. k = l + 3 /\ 1 \in 1..m /\ Q[k] = more[1]
    BY <1>16, <1>18, <2>1, <2>2
  <2> QED BY <1>10, <1>12, <1>13, <2>3 DEF m
<1> DEFINE at == session_map_'[id]
<1> HIDE DEF at
<1>21. CallsOK(i, new, Q, D, arrived, running, at)
  BY <1>2, <1>7, <1>8, <1>12, <1>16, <1>17, <1>19, <1>20, CallsNew DEF l, M, GrowsBy
<1> QED BY <1>2, <1>4, <1>11, <1>21 DEF i, Q, at

\* One task is posted to the worker of session i.
LEMMA OnePosted ==
    ASSUME SessionInv, NEW id \in Ids, NEW t \in TaskRec, Posts(id, <<t>>)
    PROVE  LET v == getLoopForHash(id) IN
           /\ v \in Workers
           /\ GrowsBy(pending[v], pending'[v], <<t>>)
           /\ Len(pending'[v]) = Len(pending[v]) + 1 /\ pending'[v][Len(pending[v]) + 1] = t
           /\ \A w \in Workers : /\ Grows(pending[w], pending'[w])
                                 /\ \A k \in (Len(pending[w]) + 1)..Len(pending'[w]) : pending'[w][k] = t
<1> DEFINE v == getLoopForHash(id)
           tasks == <<t>>
           P == pending[v]
           Q == pending'[v]
<1>1. v \in Workers
  BY LoopIsWorker
<1>2. tasks \in Seq(TaskRec) /\ Len(tasks) = 1 /\ tasks[1] = t
  OBVIOUS
<1>3. pending' = [pending EXCEPT ![v] = @ \o tasks]
  BY DEF Posts
<1> HIDE DEF v, tasks
<1>4. /\ GrowsBy(P, Q, tasks)
      /\ \A w \in Workers : w # v =>
             Grows(pending[w], pending'[w]) /\ (Len(pending[w]) + 1)..Len(pending'[w]) = {}
  BY <1>1, <1>2, <1>3, QueuesGrow
<1> DEFINE L == Len(P)
           M == Len(Q)
<1>5. /\ L \in Nat /\ M = L + 1
      /\ \A k \in (L + 1)..M : k - L \in 1..Len(tasks) /\ Q[k] = tasks[k - L]
  BY <1>2, <1>4 DEF GrowsBy
<1> HIDE DEF L, M
<1>6. \A k \in (L + 1)..M : k - L = 1 /\ Q[k] = t
  <2>1. \A k \in (L + 1)..M : k - L = 1
    BY <1>5
  <2> QED BY <1>2, <1>5, <2>1
<1>7. Q[L + 1] = t
  <2>1. L + 1 \in (L + 1)..M
    BY <1>5
  <2> QED BY <1>6, <2>1
<1>8. Grows(P, Q)
  BY <1>4 DEF GrowsBy
<1>9. \A w \in Workers : /\ Grows(pending[w], pending'[w])
                         /\ \A k \in (Len(pending[w]) + 1)..Len(pending'[w]) : pending'[w][k] = t
  <2> SUFFICES ASSUME NEW w \in Workers
               PROVE  /\ Grows(pending[w], pending'[w])
                      /\ \A k \in (Len(pending[w]) + 1)..Len(pending'[w]) : pending'[w][k] = t
    OBVIOUS
  <2>1. CASE w = v
    BY <1>6, <1>8, <2>1 DEF L, M
  <2>2. CASE w # v
    BY <1>4, <2>2
  <2> QED BY <2>1, <2>2
<1> QED BY <1>1, <1>4, <1>5, <1>7, <1>9 DEF L, M, v, tasks

\* A datagram, or a close task, is posted to the session of the map; the others are left alone.
LEMMA PostCalls ==
    ASSUME BaseInv, CallInv, life = "listening", UNCHANGED <<arrived, running>>,
           Processed' = Processed + 1, NEW a, a = arrived[Processed + 1], a.id \in Ids,
           NEW t \in TaskRec, t.s = session_map_[a.id], Posts(a.id, <<t>>),
           \/ /\ IsData(a) /\ session_map_' = session_map_
              /\ t = PktTask(session_map_[a.id], Processed + 1, a.from)
           \/ /\ ~IsData(a) /\ session_map_' = [session_map_ EXCEPT ![a.id] = 0]
              /\ t.task \notin {"up", "packet"}
    PROVE  CallInv'
<1>1. sessions' = sessions /\ session_map_[a.id] # 0
  BY DEF Posts
<1> SUFFICES ASSUME NEW i \in 1..Len(sessions)
             PROVE  CallsOK(i, sessions[i], pending'[getLoopForHash(sessions[i].id)],
                            Came(Processed', arrived', sessions[i].id), arrived', running',
                            session_map_'[sessions[i].id])
  BY <1>1 DEF CallInv
<1> DEFINE at == session_map_[a.id]
           w == getLoopForHash(sessions[i].id)
<1>2. at \in 1..Len(sessions) /\ sessions[at].id = a.id /\ sessions[i].id \in Ids
  <2>1. at \in 1..Len(sessions) /\ sessions[at].id = a.id
    BY <1>1 DEF BaseInv, SessionInv
  <2>2. sessions[i] \in SessionRec
    BY DEF BaseInv, SessionInv
  <2> QED BY <2>1, <2>2 DEF SessionRec
<1>3. w \in Workers
  BY <1>2, LoopIsWorker
<1>4. /\ Grows(pending[w], pending'[w])
      /\ \A k \in (Len(pending[w]) + 1)..Len(pending'[w]) : pending'[w][k] = t
  BY <1>3, OnePosted DEF BaseInv
<1>5. CASE IsData(a) /\ session_map_' = session_map_ /\ i = at
           /\ t = PktTask(session_map_[a.id], Processed + 1, a.from)
  <2>1. w = getLoopForHash(a.id) /\ session_map_[sessions[i].id] = i
    BY <1>2, <1>5
  <2>2. Len(pending'[w]) = Len(pending[w]) + 1 /\ pending'[w][Len(pending[w]) + 1] = t
    <3>1. SessionInv
      BY DEF BaseInv
    <3> HIDE DEF w
    <3> QED BY <2>1, <3>1, OnePosted, Zenon
  <2>3. /\ IsData(arrived[Processed + 1]) /\ arrived[Processed + 1].id = sessions[i].id
        /\ pending'[w][Len(pending[w]) + 1] = PktTask(i, Processed + 1, arrived[Processed + 1].from)
    BY <1>2, <1>5, <2>2
  <2> HIDE DEF w
  <2>4. w = getLoopForHash(sessions[i].id)
    BY Zenon DEF w
  <2>5. CallsOK(i, sessions[i], pending'[w], Came(Processed', arrived', sessions[i].id), arrived',
                   running', session_map_'[sessions[i].id])
    BY <1>4, <1>5, <2>1, <2>2, <2>3, <2>4, PostedCalls
  <2> QED BY <2>4, <2>5
<1>6. ASSUME i # at \/ (~IsData(a) /\ t.task \notin {"up", "packet"}),
             session_map_'[sessions[i].id] = i =>
                 session_map_[sessions[i].id] = i /\ ~(IsData(a) /\ a.id = sessions[i].id)
      PROVE  CallsOK(i, sessions[i], pending'[w], Came(Processed', arrived', sessions[i].id), arrived',
                   running', session_map_'[sessions[i].id])
  <2>1. \A k \in (Len(pending[w]) + 1)..Len(pending'[w]) :
            pending'[w][k].s = i => pending'[w][k].task \notin {"up", "packet"}
    BY <1>4, <1>6
  <2>2. w = getLoopForHash(sessions[i].id)
    OBVIOUS
  <2> HIDE DEF w
  <2> QED BY <1>4, <1>6, <2>1, <2>2, OtherCalls
<1>7. CASE IsData(a) /\ session_map_' = session_map_ /\ i # at
  <2>1. session_map_'[sessions[i].id] = i =>
            session_map_[sessions[i].id] = i /\ ~(IsData(a) /\ a.id = sessions[i].id)
    BY <1>7
  <2> QED BY <1>6, <1>7, <2>1
<1>8. CASE ~IsData(a) /\ session_map_' = [session_map_ EXCEPT ![a.id] = 0]
           /\ t.task \notin {"up", "packet"}
  <2>1. session_map_'[sessions[i].id] = i => session_map_[sessions[i].id] = i
    BY <1>2, <1>8 DEF BaseInv, SessionInv
  <2> QED BY <1>6, <1>8, <2>1
<1> QED BY <1>5, <1>7, <1>8

\* A session is created; the others are left alone.
LEMMA CreateCalls ==
    ASSUME BaseInv, CallInv, life = "listening", UNCHANGED <<arrived, running>>,
           Processed' = Processed + 1, NEW a, a = arrived[Processed + 1],
           a.id \in Ids, a.from \in Addresses, NEW more \in Seq(TaskRec), Len(more) <= 1,
           \A k \in 1..Len(more) : /\ more[k] = PktTask(Len(sessions) + 1, Processed + 1, a.from)
                                   /\ IsData(a),
           Creates(a.id, a.from, more)
    PROVE  CallInv'
<1> DEFINE L == Len(sessions)
           id == a.id
           v == getLoopForHash(id)
           tasks == Initialized(L + 1) \o more
<1>1. sessions \in Seq(SessionRec) /\ L \in Nat
  BY DEF BaseInv, SessionInv
<1>2. /\ Len(sessions') = L + 1
      /\ sessions'[L + 1].id = id
      /\ CallsOK(L + 1, sessions'[L + 1], pending'[v], Came(Processed', arrived', id), arrived',
                 running', session_map_'[id])
  <2>1. \A k \in 1..Len(more) :
            /\ more[k] = PktTask(L + 1, Processed + 1, arrived[Processed + 1].from)
            /\ IsData(arrived[Processed + 1]) /\ arrived[Processed + 1].id = id
    OBVIOUS
  <2> QED BY <2>1, CreatedCalls
<1>3. ASSUME NEW i \in 1..L PROVE sessions'[i] = sessions[i]
  <2> DEFINE new == NewSession(a.id, a.from)
  <2>1. sessions' = Append(sessions, new)
    BY DEF Creates
  <2> HIDE DEF new
  <2> QED BY <1>1, <2>1
<1>4. v \in Workers
  BY LoopIsWorker
<1>5. Begins(tasks, L + 1, more)
  <2>1. L + 1 \in Nat
    BY <1>1
  <2> DEFINE i == L + 1
  <2> HIDE DEF i
  <2>2. Begins(Initialized(i) \o more, i, more)
    BY <2>1, FirstTasks DEF i
  <2> QED BY <2>2 DEF i
<1>6. \A k \in 1..Len(tasks) : tasks[k].s = L + 1
  <2>1. \A k \in 1..Len(more) : more[k].s = L + 1
    BY DEF PktTask
  <2> DEFINE m == Len(more)
             i == L + 1
  <2> HIDE DEF tasks, i
  <2>2. m \in Nat /\ Len(tasks) = m + 2
    BY <1>5 DEF Begins
  <2> HIDE DEF m
  <2>3. ASSUME NEW k \in 1..Len(tasks) PROVE tasks[k].s = i
    <3>1. k = 1 \/ k = 2 \/ (k - 2 \in 1..m /\ k = (k - 2) + 2)
      BY <2>2
    <3>2. CASE k = 1
      BY <1>5, <3>2 DEF Begins, i
    <3>3. CASE k = 2
      BY <1>5, <3>3 DEF Begins, i
    <3>4. CASE k - 2 \in 1..m /\ k = (k - 2) + 2
      <4>1. tasks[k] = more[k - 2]
        BY <1>5, <3>4 DEF Begins, m
      <4> QED BY <2>1, <3>4, <4>1 DEF m, i
    <3> QED BY <3>1, <3>2, <3>3, <3>4
  <2> QED BY <2>3 DEF i
<1>7. pending' = [pending EXCEPT ![v] = @ \o tasks] /\ session_map_[id] = 0
      /\ session_map_' = [session_map_ EXCEPT ![id] = L + 1]
  BY DEF Creates
<1> HIDE DEF tasks
<1>8. GrowsBy(pending[v], pending'[v], tasks)
      /\ \A w \in Workers : w # v =>
             Grows(pending[w], pending'[w]) /\ (Len(pending[w]) + 1)..Len(pending'[w]) = {}
  <2> HIDE DEF v
  <2>1. tasks \in Seq(TaskRec) /\ SessionInv
    BY <1>5 DEF Begins, BaseInv
  <2> QED BY <1>4, <1>7, <2>1, QueuesGrow
<1>9. ASSUME NEW w \in Workers
      PROVE  /\ Grows(pending[w], pending'[w])
             /\ \A k \in (Len(pending[w]) + 1)..Len(pending'[w]) : pending'[w][k].s = L + 1
  <2>1. CASE w = v
    <3> HIDE DEF v
    <3>1. GrowsBy(pending[w], pending'[w], tasks)
      BY <1>8, <2>1
    <3> QED BY <1>6, <3>1 DEF GrowsBy
  <2>2. CASE w # v
    BY <1>8, <2>2
  <2> QED BY <2>1, <2>2
<1>10. ASSUME NEW i \in 1..L
       PROVE  CallsOK(i, sessions'[i], pending'[getLoopForHash(sessions'[i].id)],
                      Came(Processed', arrived', sessions'[i].id), arrived', running',
                      session_map_'[sessions'[i].id])
  <2> DEFINE w == getLoopForHash(sessions[i].id)
  <2>1. sessions[i] \in SessionRec
    BY <1>1
  <2>2. sessions[i].id \in Ids
    BY <2>1 DEF SessionRec
  <2>3. w \in Workers
    BY <2>2, LoopIsWorker
  <2>4. L + 1 # i
    BY <1>1
  <2>5. session_map_'[sessions[i].id] = i =>
            session_map_[sessions[i].id] = i /\ ~(IsData(a) /\ a.id = sessions[i].id)
    BY <1>7, <2>2, <2>4 DEF BaseInv, SessionInv
  <2>6. w = getLoopForHash(sessions[i].id)
    OBVIOUS
  <2> HIDE DEF w
  <2>7. /\ Grows(pending[w], pending'[w])
        /\ \A k \in (Len(pending[w]) + 1)..Len(pending'[w]) :
               pending'[w][k].s = i => pending'[w][k].task \notin {"up", "packet"}
    BY <1>9, <2>3, <2>4
  <2>8. CallsOK(i, sessions[i], pending'[w], Came(Processed', arrived', sessions[i].id), arrived',
                   running', session_map_'[sessions[i].id])
    BY <2>5, <2>6, <2>7, OtherCalls
  <2> QED BY <1>3, <2>6, <2>8
<1>11. ASSUME NEW i \in 1..Len(sessions')
       PROVE  CallsOK(i, sessions'[i], pending'[getLoopForHash(sessions'[i].id)],
                      Came(Processed', arrived', sessions'[i].id), arrived', running',
                      session_map_'[sessions'[i].id])
  <2>1. i \in 1..L \/ i = L + 1
    BY <1>1, <1>2
  <2>2. CASE i = L + 1
    BY <1>2, <2>2
  <2> QED BY <1>10, <2>1, <2>2
<1> QED BY <1>11 DEF CallInv

\* ProcessPacket keeps CallInv.
LEMMA PacketCalls ==
    ASSUME BaseInv, CallInv, ProcessPacket
    PROVE  CallInv'
<1> DEFINE n == Processed + 1
           a == arrived[n]
<1>1. /\ life = "listening" /\ UNCHANGED <<arrived, running>> /\ Processed' = n
      /\ a \in ArrivedRec /\ Processes(a, n)
  BY PacketEffect DEF BaseInv
<1>2. a.id \in Ids /\ a.from \in Addresses
  BY <1>1 DEF ArrivedRec
<1>3. n \in Nat
  BY DEF BaseInv, ReadInv
<1>4. ASSUME NEW i \in Nat PROVE PktTask(i, n, a.from) \in TaskRec /\ PktTask(i, n, a.from).s = i
  <2>1. One(n) \in Data
    BY <1>3 DEF Data, Item, One
  <2>2. PktTask(i, n, a.from) = [task |-> "packet", s |-> i, data |-> One(n), from |-> a.from]
    BY DEF PktTask, One
  <2> HIDE DEF n
  <2> QED BY <1>2, <1>4, <2>1, <2>2 DEF TaskRec, TaskNames, Senders
<1>5. session_map_[a.id] \in Nat /\ Len(sessions) + 1 \in Nat
  BY <1>2 DEF BaseInv, SessionInv
<1>6. CASE UNCHANGED <<session_map_, sessions, pending>> /\ (IsData(a) => session_map_[a.id] = 0)
  <2> SUFFICES ASSUME NEW i \in 1..Len(sessions)
               PROVE  CallsOK(i, sessions[i], pending'[getLoopForHash(sessions[i].id)],
                              Came(Processed', arrived', sessions[i].id), arrived', running',
                              session_map_'[sessions[i].id])
    BY <1>6 DEF CallInv
  <2> DEFINE w == getLoopForHash(sessions[i].id)
  <2>1. sessions[i] \in SessionRec /\ i # 0
    BY DEF BaseInv, SessionInv
  <2>2. w \in Workers /\ sessions[i].id \in Ids
    BY <2>1, LoopIsWorker DEF SessionRec
  <2>3. w = getLoopForHash(sessions[i].id)
    OBVIOUS
  <2> HIDE DEF w
  <2>4. Grows(pending[w], pending'[w]) /\ (Len(pending[w]) + 1)..Len(pending'[w]) = {}
    BY <1>6, <2>2, QueuesStay DEF BaseInv
  <2>5. session_map_'[sessions[i].id] = i =>
            session_map_[sessions[i].id] = i /\ ~(IsData(a) /\ a.id = sessions[i].id)
    BY <1>6, <2>1
  <2>6. CallsOK(i, sessions[i], pending'[w], Came(Processed', arrived', sessions[i].id), arrived',
                   running', session_map_'[sessions[i].id])
    BY <1>1, <2>3, <2>4, <2>5, OtherCalls
  <2> QED BY <2>3, <2>6
<1>7. CASE /\ IsData(a)
           /\ Posts(a.id, <<PktTask(session_map_[a.id], n, a.from)>>)
           /\ session_map_' = session_map_
  <2> DEFINE t == PktTask(session_map_[a.id], n, a.from)
  <2>1. t \in TaskRec /\ t.s = session_map_[a.id]
    BY <1>4, <1>5
  <2>2. Posts(a.id, <<t>>) /\ t = PktTask(session_map_[a.id], n, a.from)
    BY <1>7
  <2> HIDE DEF t
  <2> QED BY <1>1, <1>2, <1>7, <2>1, <2>2, PostCalls
<1>8. CASE IsData(a) /\ Creates(a.id, a.from, <<PktTask(Len(sessions) + 1, n, a.from)>>)
  <2> DEFINE t == PktTask(Len(sessions) + 1, n, a.from)
             more == <<t>>
  <2>1. t \in TaskRec
    BY <1>4, <1>5
  <2>2. t = PktTask(Len(sessions) + 1, n, a.from)
    OBVIOUS
  <2> HIDE DEF t
  <2>3. more \in Seq(TaskRec) /\ Len(more) = 1 /\ \A k \in 1..Len(more) : more[k] = t
    BY <2>1
  <2>4. Creates(a.id, a.from, more)
    BY <1>8 DEF t
  <2> HIDE DEF more
  <2>5. Len(more) <= 1
    BY <2>3
  <2> QED BY <1>1, <1>2, <1>8, <2>2, <2>3, <2>4, <2>5, CreateCalls
<1>9. CASE Creates(a.id, a.from, <<>>)
  <2> DEFINE more == <<>>
  <2>1. more \in Seq(TaskRec) /\ Len(more) = 0
    BY EmptySeq
  <2>2. Creates(a.id, a.from, more)
    BY <1>9
  <2> HIDE DEF more
  <2>3. 1..Len(more) = {} /\ Len(more) <= 1
    BY <2>1
  <2> QED BY <1>1, <1>2, <2>1, <2>2, <2>3, CreateCalls
<1>10. CASE /\ session_map_' = [session_map_ EXCEPT ![a.id] = 0]
            /\ UNCHANGED <<sessions, pending>> /\ session_map_[a.id] = 0
  <2>1. session_map_' = session_map_
    BY <1>10, <1>2 DEF BaseInv, SessionInv
  <2> QED BY <1>6, <1>10, <2>1
<1>11. CASE /\ ~IsData(a)
            /\ session_map_' = [session_map_ EXCEPT ![a.id] = 0]
            /\ Posts(a.id, <<Task("close", session_map_[a.id])>>)
  <2> DEFINE t == Task("close", session_map_[a.id])
  <2>1. t \in TaskRec
    BY <1>5, EventType DEF TaskNames
  <2>2. t.s = session_map_[a.id] /\ t.task \notin {"up", "packet"}
    BY DEF Task
  <2>3. Posts(a.id, <<t>>)
    BY <1>11
  <2> HIDE DEF t
  <2> QED BY <1>1, <1>2, <1>11, <2>1, <2>2, <2>3, PostCalls
<1> QED BY <1>1, <1>6, <1>7, <1>8, <1>9, <1>10, <1>11 DEF Processes

\* Session i becomes r, the others stay.
LEMMA OneBecomes ==
    ASSUME SessionInv, NEW i, NEW r, Becomes(i, r), r.id = sessions[i].id
    PROVE  /\ Len(sessions') = Len(sessions) /\ sessions'[i] = r /\ r \in SessionRec
           /\ \A j \in 1..Len(sessions) : /\ j # i => sessions'[j] = sessions[j]
                                          /\ sessions[j] \in SessionRec /\ sessions'[j] \in SessionRec
                                          /\ sessions'[j].id = sessions[j].id
<1>1. /\ sessions \in Seq(SessionRec) /\ i \in 1..Len(sessions) /\ r \in SessionRec
      /\ sessions' = [sessions EXCEPT ![i] = r]
  BY DEF Becomes, SessionInv
<1>2. Len(sessions') = Len(sessions) /\ sessions'[i] = r
  BY <1>1
<1>3. \A j \in 1..Len(sessions) : sessions[j] \in SessionRec /\ (j # i => sessions'[j] = sessions[j])
  BY <1>1
<1> QED BY <1>1, <1>2, <1>3

\* A task makes something of its session and leaves the others.
LEMMA OneRuns ==
    ASSUME SessionInv, NEW t, t.s \in 1..Len(sessions), Runs(t)
    PROVE  /\ Len(sessions') = Len(sessions)
           /\ TaskMakes(sessions[t.s], sessions'[t.s], t)
           /\ \A j \in 1..Len(sessions) : /\ j # t.s => sessions'[j] = sessions[j]
                                          /\ sessions[j] \in SessionRec /\ sessions'[j] \in SessionRec
                                          /\ sessions'[j].id = sessions[j].id
<1> DEFINE s == sessions[t.s]
<1>1. CASE sessions' = sessions /\ s.closed /\ t.task # "up"
  <2>1. \A j \in 1..Len(sessions) : sessions[j] \in SessionRec
    BY DEF SessionInv
  <2> QED BY <1>1, <2>1 DEF TaskMakes
<1>2. ASSUME NEW r, Becomes(t.s, r),
             \/ t.task = "up" /\ Ups(s, r)
             \/ t.task = "packet" /\ Gets(s, r, t)
             \/ t.task \notin {"up", "packet"} /\ (Downs(s, r) \/ Waits(s, r) \/ Errs(s, r))
      PROVE  /\ Len(sessions') = Len(sessions)
             /\ TaskMakes(s, sessions'[t.s], t)
             /\ \A j \in 1..Len(sessions) : /\ j # t.s => sessions'[j] = sessions[j]
                                            /\ sessions[j] \in SessionRec /\ sessions'[j] \in SessionRec
                                            /\ sessions'[j].id = sessions[j].id
  <2>1. r.id = s.id
    BY <1>2 DEF Ups, Gets, Downs, Waits, Errs
  <2>2. TaskMakes(s, r, t)
    BY <1>2 DEF TaskMakes
  <2> QED BY <1>2, <2>1, <2>2, OneBecomes
<1>3. \/ sessions' = sessions /\ s.closed /\ t.task # "up"
      \/ \E r : /\ Becomes(t.s, r)
                /\ \/ t.task = "up" /\ Ups(s, r)
                   \/ t.task = "packet" /\ Gets(s, r, t)
                   \/ t.task \notin {"up", "packet"} /\ (Downs(s, r) \/ Waits(s, r) \/ Errs(s, r))
  BY DEF Runs
<1> QED BY <1>1, <1>2, <1>3

\* What a session keeps when nothing came and its worker did nothing with it.
LEMMA StillCalls ==
    ASSUME CallInv, UNCHANGED <<arrived, running, session_map_>>, Processed' = Processed,
           NEW i \in 1..Len(sessions), sessions'[i] = sessions[i],
           pending'[getLoopForHash(sessions[i].id)] = pending[getLoopForHash(sessions[i].id)]
    PROVE  CallsOK(i, sessions'[i], pending'[getLoopForHash(sessions'[i].id)],
                   Came(Processed', arrived', sessions'[i].id), arrived', running',
                   session_map_'[sessions'[i].id])
BY DEF CallInv

\* A worker runs a task.
LEMMA RunCalls ==
    ASSUME BaseInv, CallInv, NEW w \in Workers, RunTask(w)
    PROVE  CallInv'
<1> DEFINE P == pending[w]
           t == Head(P)
<1>1. /\ w \in running /\ P # <<>> /\ t \in TaskRec /\ TaskFits(t, w, sessions) /\ Runs(t)
      /\ pending' = [pending EXCEPT ![w] = Tail(@)]
      /\ UNCHANGED <<baseVars, readVars, running, unclosed>>
  BY TaskEffect DEF BaseInv
<1>2. UNCHANGED <<arrived, running, session_map_>> /\ Processed' = Processed
  BY <1>1 DEF baseVars, readVars, Processed, Batch
<1>3. P \in Seq(TaskRec) /\ pending'[w] = Tail(P) /\ \A v \in Workers : v # w => pending'[v] = pending[v]
  BY <1>1 DEF BaseInv, SessionInv
<1>4. t.s \in 1..Len(sessions) /\ getLoopForHash(sessions[t.s].id) = w
  BY <1>1 DEF TaskFits
<1>5. /\ Len(sessions') = Len(sessions)
      /\ TaskMakes(sessions[t.s], sessions'[t.s], t)
      /\ \A j \in 1..Len(sessions) : /\ j # t.s => sessions'[j] = sessions[j]
                                     /\ sessions[j] \in SessionRec /\ sessions'[j] \in SessionRec
                                     /\ sessions'[j].id = sessions[j].id
  <2> HIDE DEF t
  <2> QED BY <1>1, <1>4, OneRuns DEF BaseInv
<1> SUFFICES ASSUME NEW i \in 1..Len(sessions)
             PROVE  CallsOK(i, sessions'[i], pending'[getLoopForHash(sessions'[i].id)],
                            Came(Processed', arrived', sessions'[i].id), arrived', running',
                            session_map_'[sessions'[i].id])
  BY <1>5 DEF CallInv
<1> DEFINE s == sessions[i]
           r == sessions'[i]
           C == Came(Processed, arrived, s.id)
           at == session_map_[s.id]
<1>6. s \in SessionRec /\ r \in SessionRec /\ r.id = s.id
  BY <1>5
<1>7. CASE getLoopForHash(s.id) = w
  <2>1. CallsOK(i, s, P, C, arrived, running, at)
    BY <1>7 DEF CallInv
  <2>2. (t.s # i /\ r = s) \/ (t.s = i /\ TaskMakes(s, r, t))
    BY <1>5
  <2>3. C \in SUBSET Nat
    BY DEF Came
  <2>4. getLoopForHash(s.id) \in running
    BY <1>1, <1>7
  <2>5. P # <<>>
    BY <1>1
  <2>6. (Head(P).s # i /\ r = s) \/ (Head(P).s = i /\ TaskMakes(s, r, Head(P)))
    BY <2>2
  <2> HIDE DEF s, r, P, C, at, t
  <2>7. CallsOK(i, r, Tail(P), C, arrived, running, at)
    BY <1>3, <1>6, <2>1, <2>3, <2>4, <2>5, <2>6, CallsRuns
  <2> QED BY <1>2, <1>3, <1>6, <1>7, <2>7 DEF s, r, C, at
<1>8. CASE getLoopForHash(s.id) # w
  <2>1. i # t.s
    BY <1>4, <1>8
  <2>2. r = s
    BY <1>5, <2>1
  <2>3. getLoopForHash(s.id) \in Workers
    BY <1>6, LoopIsWorker DEF SessionRec
  <2> QED BY <1>2, <1>3, <1>8, <2>2, <2>3, StillCalls
<1> QED BY <1>7, <1>8

\* A timer runs.
LEMMA TimerCalls ==
    ASSUME BaseInv, CallInv, NEW w \in Workers, NEW i \in DOMAIN sessions, StateTimer(w, i)
    PROVE  CallInv'
<1>1. /\ i \in 1..Len(sessions) /\ sessions[i].timer
      /\ (sessions[i].closed /\ sessions' = sessions) \/ Ticks(i)
      /\ UNCHANGED <<baseVars, readVars, pending, running, num_closed, unclosed, faults>>
  BY TimerEffect DEF BaseInv
<1>2. UNCHANGED <<arrived, running, session_map_, pending>> /\ Processed' = Processed
  BY <1>1 DEF baseVars, readVars, Processed, Batch
<1>3. CASE sessions' = sessions
  BY <1>2, <1>3 DEF CallInv
<1>4. CASE Ticks(i)
  <2>1. PICK r : Becomes(i, r) /\ (Waits(sessions[i], r) \/ Downs(sessions[i], r))
    BY <1>4 DEF Ticks
  <2>2. r.id = sessions[i].id
    BY <2>1 DEF Waits, Downs
  <2>3. /\ Len(sessions') = Len(sessions) /\ sessions'[i] = r /\ r \in SessionRec
        /\ \A j \in 1..Len(sessions) : /\ j # i => sessions'[j] = sessions[j]
                                       /\ sessions[j] \in SessionRec
    BY <2>1, <2>2, OneBecomes DEF BaseInv
  <2> SUFFICES ASSUME NEW j \in 1..Len(sessions)
               PROVE  CallsOK(j, sessions'[j], pending'[getLoopForHash(sessions'[j].id)],
                              Came(Processed', arrived', sessions'[j].id), arrived', running',
                              session_map_'[sessions'[j].id])
    BY <2>3 DEF CallInv
  <2>4. CASE j # i
    BY <1>2, <2>3, <2>4, StillCalls
  <2>5. CASE j = i
    <3> DEFINE s == sessions[i]
               P == pending[getLoopForHash(s.id)]
               C == Came(Processed, arrived, s.id)
               at == session_map_[s.id]
    <3>1. CallsOK(i, s, P, C, arrived, running, at)
      BY <1>1 DEF CallInv
    <3>2. s \in SessionRec /\ s.timer /\ (Downs(s, r) \/ Waits(s, r)) /\ r.id = s.id
      BY <1>1, <2>1, <2>2, <2>3
    <3> HIDE DEF s, P, C, at
    <3>3. CallsOK(i, r, P, C, arrived, running, at)
      BY <2>3, <3>1, <3>2, CallsTicks
    <3> QED BY <1>2, <2>3, <2>5, <3>2, <3>3 DEF s, P, C, at
  <2> QED BY <2>4, <2>5
<1> QED BY <1>1, <1>3, <1>4

\* A worker ends.
LEMMA EndCalls ==
    ASSUME BaseInv, CallInv, NEW w \in Workers, LoopEnds(w)
    PROVE  CallInv'
<1>1. /\ running' = running \ {w} /\ pending' = [pending EXCEPT ![w] = <<>>]
      /\ UNCHANGED <<baseVars, readVars, sessions>>
  BY DEF LoopEnds
<1>2. UNCHANGED <<arrived, session_map_, sessions>> /\ Processed' = Processed
  BY <1>1 DEF baseVars, readVars, Processed, Batch
<1>3. Len(pending'[w]) = 0 /\ \A v \in Workers : v # w => pending'[v] = pending[v]
  <2>1. pending'[w] = <<>> /\ \A v \in Workers : v # w => pending'[v] = pending[v]
    BY <1>1 DEF BaseInv, SessionInv
  <2> QED BY <2>1, EmptySeq
<1> SUFFICES ASSUME NEW i \in 1..Len(sessions)
             PROVE  CallsOK(i, sessions[i], pending'[getLoopForHash(sessions[i].id)],
                            Came(Processed, arrived, sessions[i].id), arrived, running \ {w},
                            session_map_[sessions[i].id])
  BY <1>1, <1>2 DEF CallInv
<1> DEFINE s == sessions[i]
           v == getLoopForHash(s.id)
           P == pending[v]
           Q == pending'[v]
           C == Came(Processed, arrived, s.id)
           at == session_map_[s.id]
           less == running \ {w}
<1>4. CallsOK(i, s, P, C, arrived, running, at)
  BY DEF CallInv
<1>5. s \in SessionRec
  BY DEF BaseInv, SessionInv
<1>6. v \in Workers
  BY <1>5, LoopIsWorker DEF SessionRec
<1>7. less \subseteq running /\ w \notin less
  OBVIOUS
<1>8. CASE v = w
  <2>1. Len(Q) = 0 /\ getLoopForHash(s.id) \notin less
    BY <1>3, <1>7, <1>8
  <2> HIDE DEF s, v, P, Q, C, at, less
  <2>2. CallsOK(i, s, Q, C, arrived, less, at)
    BY <1>4, <2>1, CallsEnds
  <2> QED BY <2>2 DEF s, v, Q, C, at, less
<1>9. CASE v # w
  <2>1. Q = P
    BY <1>3, <1>6, <1>9
  <2>2. Comes(C, C, Processed + 1, arrived, arrived)
    <3>1. Processed \in Nat /\ \A c \in C : c \in 1..Processed
      BY DEF BaseInv, ReadInv, Came
    <3> DEFINE p == Processed
    <3> HIDE DEF C, p
    <3>2. C \in SUBSET Nat /\ p + 1 \in Nat /\ \A c \in C : c < p + 1
      BY <3>1 DEF p
    <3> QED BY <3>2 DEF Comes, p
  <2> HIDE DEF s, v, P, Q, C, at, less
  <2>3. CallsOK(i, s, P, C, arrived, less, at)
    BY <1>4, <1>7, <2>2, CallsComes
  <2> QED BY <2>1, <2>3 DEF s, v, Q, C, at, less
<1> QED BY <1>8, <1>9

\* Init establishes CallInv.
LEMMA CallInit == Init => CallInv
<1> SUFFICES ASSUME Init PROVE CallInv
  OBVIOUS
<1>1. Len(sessions) = 0
  BY EmptySeq DEF Init
<1>2. 1..Len(sessions) = {}
  BY <1>1
<1> QED BY <1>2 DEF CallInv

\* Every step keeps CallInv.
LEMMA CallStep == BaseInv /\ CallInv /\ [Next]_vars => CallInv'
<1> SUFFICES ASSUME BaseInv, CallInv, [Next]_vars PROVE CallInv'
  OBVIOUS
<1>1. ReadInv /\ SessionInv /\ ControlInv
  BY DEF BaseInv
<1>2. ProcessPacket \/ SeenStays
  BY <1>1, ReadsOn
<1>3. ASSUME UNCHANGED <<sessions, session_map_, pending, running>>, SeenStays PROVE CallInv'
  BY <1>3, IdleCalls
<1>4. CASE ProcessPacket
  BY <1>4, PacketCalls
<1>5. CASE SeenStays /\ \E a \in Arrivals : Deliver(a)
  BY <1>3, <1>5 DEF Deliver, Arrive, baseVars, workVars
<1>6. CASE SeenStays /\ \E w \in Workers : Bounce(w)
  BY <1>3, <1>6 DEF Bounce, baseVars, workVars
<1>7. CASE SeenStays /\ HandleRead
  BY <1>3, <1>7 DEF HandleRead, baseVars, workVars
<1>8. CASE SeenStays /\ HandleError
  <2>1. life = "listening" /\ UNCHANGED <<sessions, session_map_, running>>
    BY <1>8, ErrorEffect DEF baseVars, workVars
  <2>2. CASE pending' = pending
    BY <1>3, <1>8, <2>1, <2>2
  <2>3. CASE \E id \in Ids : Posts(id, <<Task("error", session_map_[id])>>)
    <3>1. PICK id \in Ids : Posts(id, <<Task("error", session_map_[id])>>)
      BY <2>3
    <3> DEFINE t == Task("error", session_map_[id])
    <3>2. session_map_[id] \in Nat
      BY <1>1 DEF SessionInv
    <3>3. t \in TaskRec
      BY <3>2, EventType DEF TaskNames
    <3>4. t.task \notin {"up", "packet"}
      BY DEF Task
    <3>5. Posts(id, <<t>>)
      BY <3>1
    <3> HIDE DEF t
    <3>6. \A w \in Workers : /\ Grows(pending[w], pending'[w])
                             /\ \A k \in (Len(pending[w]) + 1)..Len(pending'[w]) : pending'[w][k] = t
      BY <1>1, <3>3, <3>5, OnePosted
    <3>7. \A w \in Workers : /\ Grows(pending[w], pending'[w])
                             /\ \A k \in (Len(pending[w]) + 1)..Len(pending'[w]) :
                                    pending'[w][k].task \notin {"up", "packet"}
      BY <3>4, <3>6
    <3> QED BY <1>8, <2>1, <3>7, GrowCalls
  <2> QED BY <1>8, <2>2, <2>3, ErrorEffect
<1>9. CASE SeenStays /\ UNCHANGED vars
  BY <1>3, <1>9 DEF vars, baseVars, workVars
<1>10. CASE \E w \in Workers : LoopEnds(w)
  BY <1>10, EndCalls
<1>11. CASE \E w \in Workers : RunTask(w)
  BY <1>11, RunCalls
<1>12. CASE \E w \in Workers, i \in DOMAIN sessions : StateTimer(w, i)
  BY <1>12, TimerCalls
<1>13. CASE SeenStays /\ Destroy
  <2>1. /\ life = "listening" /\ UNCHANGED <<sessions, session_map_, running>>
        /\ pending' \in [Workers -> Seq(TaskRec)]
        /\ \A w \in Workers : PostsCounts(w)
    BY <1>1, <1>13, DestroyEffect DEF workVars
  <2>2. ASSUME NEW w \in Workers
        PROVE  /\ Grows(pending[w], pending'[w])
               /\ \A k \in (Len(pending[w]) + 1)..Len(pending'[w]) :
                      pending'[w][k].task \notin {"up", "packet"}
    <3>1. pending[w] \in Seq(TaskRec) /\ pending'[w] \in Seq(TaskRec)
          /\ Len(pending[w]) \in Nat /\ Len(pending'[w]) \in Nat
      BY <1>1, <2>1 DEF SessionInv
    <3>2. PostsCounts(w)
      BY <2>1
    <3>3. Grows(pending[w], pending'[w])
      BY <3>1, <3>2 DEF Grows, PostsCounts
    <3>4. \A s : CountTask(s).task = "close and count"
      BY DEF CountTask, Task
    <3> QED BY <3>2, <3>3, <3>4 DEF PostsCounts
  <2> QED BY <1>13, <2>1, <2>2, GrowCalls
<1>14. CASE SeenStays /\ SpinEnds
  <2>1. UNCHANGED <<sessions, pending, running>> /\ session_map_' = [i \in Ids |-> 0]
    BY <1>14 DEF SpinEnds, workVars
  <2>2. \A id \in Ids : session_map_'[id] \in {0, session_map_[id]}
    BY <2>1
  <2> QED BY <1>14, <2>1, <2>2, IdleCalls
<1>15. CASE SeenStays /\ (Spin \/ QuitNext \/ CloseSocket)
  BY <1>3, <1>15 DEF Spin, QuitNext, CloseSocket, workVars
<1>16. CASE SeenStays /\ DestroyUnlistened
  BY <1>3, <1>16 DEF DestroyUnlistened
<1>17. CASE \E f \in ListenFamilies : Listen(f)
  <2>1. life = "constructed" /\ sessions' = sessions
    BY <1>17 DEF Listen
  <2>2. Len(sessions') = 0
    BY <1>1, <2>1, EmptySeq DEF ControlInv
  <2>3. 1..Len(sessions') = {}
    BY <2>2
  <2> QED BY <2>3 DEF CallInv
<1> QED BY <1>2, <1>4, <1>5, <1>6, <1>7, <1>8, <1>9, <1>10, <1>11, <1>12, <1>13, <1>14, <1>15, <1>16,
           <1>17 DEF Next, Destructor

\* Two packets that follow each other in the log, where D are all the datagrams that came for the
\* session, and C those that were processed.
LEMMA LogHasAll ==
    ASSUME NEW s, NEW P, NEW i, NEW C, NEW A, NEW D, StreamOK(s, P, i, C, A),
           C \subseteq D, D \subseteq Nat, \A q \in D, c \in C : q < c => q \in C
    PROVE  LET packets == {k \in 1..Len(s.log) : s.log[k].event = "packet"}
               Number(k) == s.log[k].data[1]
           IN /\ \A k \in packets : /\ Len(s.log[k].data) = 1 /\ Number(k) \in D
                                    /\ s.log[k].from = A[Number(k)].from
              /\ Len(s.log) \in Nat =>
                 \A k \in packets : k + 1 \in packets =>
                     /\ Number(k) < Number(k + 1)
                     /\ D \cap ((Number(k) + 1)..(Number(k + 1) - 1)) = {}
<1> DEFINE packets == {k \in 1..Len(s.log) : s.log[k].event = "packet"}
           Number(k) == s.log[k].data[1]
<1>1. ASSUME NEW k \in packets
      PROVE  /\ Number(k) \in C /\ s.log[k].data = One(Number(k))
             /\ s.log[k].from = A[Number(k)].from /\ Len(s.log[k].data) = 1
             /\ LogPkt(s, k) /\ k \in 1..Len(s.log)
  <2>1. LogPkt(s, k) /\ k \in 1..Len(s.log)
    BY DEF LogPkt
  <2>2. PICK n \in C : s.log[k].data = One(n) /\ s.log[k].from = A[n].from
    BY <2>1 DEF StreamOK, PktOK
  <2>3. Number(k) = n /\ Len(s.log[k].data) = 1
    BY <2>2, OneNumber
  <2> QED BY <2>1, <2>2, <2>3
<1>2. ASSUME NEW k \in packets, NEW j \in packets, k < j PROVE Number(k) < Number(j)
  <2>1. Before(s.log[k].data, s.log[j].data)
    BY <1>1, <1>2 DEF StreamOK
  <2> DEFINE m == Number(k)
             n == Number(j)
  <2>2. m \in Nat /\ n \in Nat /\ s.log[k].data = One(m) /\ s.log[j].data = One(n)
    BY <1>1
  <2> HIDE DEF m, n
  <2>3. m < n
    BY <2>1, <2>2 DEF Before
  <2> QED BY <2>3 DEF m, n
<1>3. ASSUME NEW k \in packets, k + 1 \in packets, Len(s.log) \in Nat,
             NEW q \in D, Number(k) < q, q < Number(k + 1)
      PROVE  FALSE
  <2>1. Number(k) \in C /\ Number(k + 1) \in C /\ k \in Nat
    BY <1>1, <1>3
  <2>2. q \in C
    BY <1>3, <2>1
  <2>3. Number(k) \in Logged(s) /\ Number(k + 1) \in Logged(s)
    BY <1>1, <1>3, <2>1 DEF Logged
  <2>4. q \in Logged(s)
    BY <1>3, <2>2, <2>3 DEF StreamOK, Convex
  <2>5. PICK j \in 1..Len(s.log) : LogPkt(s, j) /\ s.log[j].data = One(q)
    BY <2>4 DEF Logged
  <2>6. j \in packets /\ Number(j) = q /\ j \in Nat
    BY <2>5, OneNumber, <1>3 DEF LogPkt
  <2>7. q \in Nat /\ Number(k) \in Nat /\ Number(k + 1) \in Nat
    BY <2>1
  <2> HIDE DEF packets, Number
  <2>8. j < k => q < Number(k)
    BY <1>2, <1>3, <2>6
  <2>9. k + 1 < j => Number(k + 1) < q
    BY <1>2, <1>3, <2>6
  <2>10. j < k \/ j = k \/ j = k + 1 \/ k + 1 < j
    BY <2>1, <2>6
  <2> DEFINE x == Number(k)
             y == Number(k + 1)
  <2>11. x < q /\ q < y
    BY <1>3
  <2>12. (j = k => q = x) /\ (j = k + 1 => q = y)
    BY <2>6
  <2> HIDE DEF x, y
  <2> QED BY <2>7, <2>8, <2>9, <2>10, <2>11, <2>12 DEF x, y
<1>4. ASSUME NEW k \in packets, k + 1 \in packets, Len(s.log) \in Nat
      PROVE  /\ Number(k) < Number(k + 1)
             /\ D \cap ((Number(k) + 1)..(Number(k + 1) - 1)) = {}
  <2> DEFINE x == Number(k)
             y == Number(k + 1)
  <2>1. x \in Nat /\ y \in Nat
    BY <1>1, <1>4
  <2>2. k < k + 1
    BY <1>4
  <2>3. x < y
    BY <1>2, <1>4, <2>2
  <2>4. \A q \in D : ~(x < q /\ q < y)
    BY <1>3, <1>4
  <2> HIDE DEF x, y
  <2>5. \A q \in D : q \notin (x + 1)..(y - 1)
    BY <2>1, <2>4
  <2> QED BY <2>3, <2>5 DEF x, y
<1> QED BY <1>1, <1>4

\* A session is up before anything else, gets the datagrams of its id in the order of arrival, none
\* left out between two it gets and each with its sender, and is down last (kcp_session.cc:179-194),
\* whatever the base loop and the workers do in between.
THEOREM SessionsCalledBackInOrder == Spec => []CallbacksInOrder
<1>1. BaseInv /\ CallInv => CallbacksInOrder
  <2> SUFFICES ASSUME BaseInv, CallInv, NEW i \in DOMAIN sessions
               PROVE  LET s == sessions[i]
                          packets == {k \in DOMAIN s.log : s.log[k].event = "packet"}
                          Number(k) == s.log[k].data[1]
                      IN /\ \A k \in DOMAIN s.log :
                                /\ (k = 1) <=> (s.log[k].event = "up")
                                /\ s.log[k].event = "down" => k = Len(s.log) /\ s.closed
                         /\ \A k \in packets : /\ Len(s.log[k].data) = 1 /\ Number(k) \in DataOf(s.id)
                                               /\ s.log[k].from = arrived[Number(k)].from
                         /\ \A k \in packets : k + 1 \in packets =>
                                /\ Number(k) < Number(k + 1)
                                /\ DataOf(s.id) \cap ((Number(k) + 1)..(Number(k + 1) - 1)) = {}
    BY DEF CallbacksInOrder
  <2> DEFINE s == sessions[i]
             P == pending[getLoopForHash(s.id)]
             C == Came(Processed, arrived, s.id)
             D == DataOf(s.id)
  <2>1. i \in 1..Len(sessions) /\ s \in SessionRec
    BY DEF BaseInv, SessionInv
  <2>2. LogOK(s) /\ StreamOK(s, P, i, C, arrived)
    BY <2>1 DEF CallInv, CallsOK
  <2>3. DOMAIN s.log = 1..Len(s.log) /\ Len(s.log) \in Nat
    BY <2>1 DEF SessionRec, Log
  <2>4. C \subseteq D /\ D \subseteq Nat /\ \A q \in D, c \in C : q < c => q \in C
    <3>1. arrived \in Seq(ArrivedRec) /\ DOMAIN arrived = 1..Len(arrived) /\ Len(arrived) \in Nat
          /\ Processed \in Nat
      BY DEF BaseInv, ReadInv
    <3>2. Processed <= Len(arrived)
      <4>1. Len(rcvbuf) \in Nat /\ Len(Batch) \in Nat
        BY DEF BaseInv, ReadInv
      <4> QED BY <3>1, <4>1 DEF Processed
    <3> DEFINE p == Processed
               l == Len(arrived)
    <3>3. /\ C = {n \in 1..p : ~arrived[n].odd /\ arrived[n].type = "DATA" /\ arrived[n].id = s.id}
          /\ D = {n \in 1..l : ~arrived[n].odd /\ arrived[n].type = "DATA" /\ arrived[n].id = s.id}
      BY <3>1 DEF Came, DataOf, IsData
    <3>4. p \in Nat /\ l \in Nat /\ p <= l
      BY <3>1, <3>2
    <3> HIDE DEF p, l, C, D
    <3> QED BY <3>3, <3>4
  <2> HIDE DEF s, P, C, D
  <2>5. \A k \in DOMAIN s.log : /\ (k = 1) <=> (s.log[k].event = "up")
                                /\ s.log[k].event = "down" => k = Len(s.log) /\ s.closed
    BY <2>2, <2>3 DEF LogOK
  <2>6. LET packets == {k \in 1..Len(s.log) : s.log[k].event = "packet"}
            Number(k) == s.log[k].data[1]
        IN /\ \A k \in packets : /\ Len(s.log[k].data) = 1 /\ Number(k) \in D
                                 /\ s.log[k].from = arrived[Number(k)].from
           /\ Len(s.log) \in Nat =>
              \A k \in packets : k + 1 \in packets =>
                  /\ Number(k) < Number(k + 1)
                  /\ D \cap ((Number(k) + 1)..(Number(k + 1) - 1)) = {}
    BY <2>2, <2>4, LogHasAll
  <2> QED BY <2>3, <2>5, <2>6 DEF s, D
<1>2. Init => BaseInv /\ CallInv
  BY BaseInit, CallInit
<1>3. BaseInv /\ CallInv /\ [Next]_vars => BaseInv' /\ CallInv'
  BY BaseStep, CallStep
<1> QED BY <1>1, <1>2, <1>3, PTL DEF Spec

-------------------------------------------------------------------------------
(* The tasks that count.                                                   *)

IsCount(t) == t.task = "close and count"

\* The sessions that the tasks of queue P count.
CountsOf(P) == {s \in Nat : \E k \in 1..Len(P) : IsCount(P[k]) /\ P[k].s = s}

\* They are sessions of S, each counted once.
CountsOK(P, S) ==
    /\ CountsOf(P) \subseteq S
    /\ \A j, k \in 1..Len(P) : IsCount(P[j]) /\ IsCount(P[k]) /\ P[j].s = P[k].s => j = k

\* An empty queue counts nothing.
LEMMA CountsEmpty ==
    ASSUME NEW P, Len(P) = 0, NEW S
    PROVE  CountsOf(P) = {} /\ CountsOK(P, S)
<1>1. 1..Len(P) = {}
  OBVIOUS
<1> QED BY <1>1 DEF CountsOf, CountsOK

\* The first task is taken off the queue.
LEMMA CountsTail ==
    ASSUME NEW P \in Seq(TaskRec), P # <<>>, NEW S, CountsOK(P, S)
    PROVE  /\ CountsOK(Tail(P), S)
           /\ IsCount(Head(P)) => /\ Head(P).s \in CountsOf(P)
                                  /\ CountsOf(Tail(P)) = CountsOf(P) \ {Head(P).s}
           /\ ~IsCount(Head(P)) => CountsOf(Tail(P)) = CountsOf(P)
<1> DEFINE Q == Tail(P)
           h == Head(P)
           L == Len(P)
           M == Len(Q)
<1>1. /\ L \in Nat /\ M = L - 1 /\ L >= 1 /\ h = P[1] /\ h \in TaskRec /\ 1 \in 1..L
      /\ \A k \in 1..M : Q[k] = P[k + 1]
  BY HeadTailProperties
<1>2. h.s \in Nat
  BY <1>1 DEF TaskRec
<1> HIDE DEF Q, h, M, L
<1>3. /\ \A k \in 1..M : k + 1 \in 1..L /\ k + 1 # 1
      /\ \A k \in 1..L : k # 1 => k - 1 \in 1..M /\ k = (k - 1) + 1
  BY <1>1
<1>4. CountsOf(Q) \subseteq CountsOf(P)
  <2> SUFFICES ASSUME NEW s \in CountsOf(Q) PROVE s \in CountsOf(P)
    OBVIOUS
  <2>1. PICK k \in 1..M : IsCount(Q[k]) /\ Q[k].s = s
    BY DEF CountsOf, M
  <2>2. s \in Nat
    BY DEF CountsOf
  <2> QED BY <1>1, <1>3, <2>1, <2>2 DEF CountsOf, L
<1>5. \A s \in CountsOf(P) : s \in CountsOf(Q) \/ (IsCount(h) /\ s = h.s)
  <2> SUFFICES ASSUME NEW s \in CountsOf(P), ~(IsCount(h) /\ s = h.s) PROVE s \in CountsOf(Q)
    OBVIOUS
  <2>1. PICK k \in 1..L : IsCount(P[k]) /\ P[k].s = s
    BY DEF CountsOf, L
  <2>2. k # 1
    BY <1>1, <2>1
  <2>3. s \in Nat
    BY DEF CountsOf
  <2>4. k - 1 \in 1..M /\ Q[k - 1] = P[k]
    BY <1>1, <1>3, <2>2
  <2> QED BY <2>1, <2>3, <2>4 DEF CountsOf, M
<1>6. CountsOK(Q, S)
  <2>1. CountsOf(Q) \subseteq S
    BY <1>4 DEF CountsOK
  <2>2. ASSUME NEW j \in 1..M, NEW k \in 1..M, IsCount(Q[j]), IsCount(Q[k]), Q[j].s = Q[k].s
        PROVE  j = k
    <3>1. j + 1 = k + 1
      BY <1>1, <1>3, <2>2 DEF CountsOK, L
    <3> QED BY <1>1, <3>1
  <2> QED BY <2>1, <2>2 DEF CountsOK, M
<1>7. ASSUME IsCount(h) PROVE h.s \in CountsOf(P) /\ h.s \notin CountsOf(Q)
  <2>1. h.s \in CountsOf(P)
    BY <1>1, <1>2, <1>7 DEF CountsOf, L
  <2>2. ASSUME NEW k \in 1..M, IsCount(Q[k]), Q[k].s = h.s PROVE FALSE
    <3>1. k + 1 = 1
      BY <1>1, <1>3, <1>7, <2>2 DEF CountsOK, L
    <3> QED BY <1>3, <3>1
  <2> QED BY <2>1, <2>2 DEF CountsOf, M
<1>8. IsCount(h) => CountsOf(Q) = CountsOf(P) \ {h.s}
  BY <1>4, <1>5, <1>7
<1>9. ~IsCount(h) => CountsOf(Q) = CountsOf(P)
  BY <1>4, <1>5
<1> QED BY <1>6, <1>7, <1>8, <1>9 DEF Q, h

\* Tasks are posted that do not count.
LEMMA CountsGrow ==
    ASSUME NEW P, NEW Q, NEW S, Grows(P, Q), CountsOK(P, S),
           \A k \in (Len(P) + 1)..Len(Q) : ~IsCount(Q[k])
    PROVE  CountsOK(Q, S) /\ CountsOf(Q) = CountsOf(P)
<1> DEFINE L == Len(P)
           M == Len(Q)
<1>1. L \in Nat /\ M \in Nat /\ L <= M /\ \A k \in 1..L : Q[k] = P[k]
  BY DEF Grows
<1>2. \A k \in (L + 1)..M : ~IsCount(Q[k])
  OBVIOUS
<1> HIDE DEF L, M
<1>3. \A k \in 1..L : k \in 1..M
  BY <1>1
<1>4. \A k \in 1..M : IsCount(Q[k]) => k \in 1..L
  <2>1. \A k \in 1..M : k \in 1..L \/ k \in (L + 1)..M
    BY <1>1
  <2> QED BY <1>2, <2>1
<1>5. CountsOf(Q) = CountsOf(P)
  <2>1. ASSUME NEW s \in CountsOf(Q) PROVE s \in CountsOf(P)
    <3>1. PICK k \in 1..M : IsCount(Q[k]) /\ Q[k].s = s
      BY DEF CountsOf, M
    <3> QED BY <1>1, <1>4, <3>1 DEF CountsOf, L
  <2>2. ASSUME NEW s \in CountsOf(P) PROVE s \in CountsOf(Q)
    <3>1. PICK k \in 1..L : IsCount(P[k]) /\ P[k].s = s
      BY DEF CountsOf, L
    <3> QED BY <1>1, <1>3, <3>1 DEF CountsOf, M
  <2> QED BY <2>1, <2>2
<1>6. ASSUME NEW j \in 1..M, NEW k \in 1..M, IsCount(Q[j]), IsCount(Q[k]), Q[j].s = Q[k].s PROVE j = k
  <2>1. j \in 1..L /\ k \in 1..L /\ Q[j] = P[j] /\ Q[k] = P[k]
    BY <1>1, <1>4, <1>6
  <2> QED BY <1>6, <2>1 DEF CountsOK, L
<1> QED BY <1>5, <1>6 DEF CountsOK, M

-------------------------------------------------------------------------------
(* The destructor's counter.                                               *)

\* The sessions the destructor waits for that were not yet closed for it.
Left == {s \in counted : s \in CountsOf(pending[getLoopForHash(sessions[s].id)])}

Lives == {"constructed", "listening", "spinning", "unwinding", "gone", "crashed"}

\* While the destructor spins, every session it waits for is counted already or has a task that
\* will count it; it stops with none left, unless it gives up.
CountInv ==
    /\ life \in Lives
    /\ counted \in SUBSET (1..Len(sessions)) /\ IsFiniteSet(counted)
    /\ \A w \in Workers : CountsOK(pending[w], counted)
    /\ num_closed \in 0..Cardinality(counted)
    /\ life \notin {"spinning", "unwinding", "gone"} => num_closed = 0
    /\ life = "spinning" => num_closed + Cardinality(Left) = Cardinality(counted)
    /\ life \in {"unwinding", "gone"} /\ ~GaveUp => Left = {}
    /\ "dead counter" \in faults => GaveUp

\* Init establishes CountInv.
LEMMA CountInit == Init => CountInv
<1> SUFFICES ASSUME Init PROVE CountInv
  OBVIOUS
<1>1. /\ life = "constructed" /\ counted = {} /\ num_closed = 0 /\ faults = {}
      /\ pending = [w \in Workers |-> <<>>]
  BY DEF Init
<1>2. IsFiniteSet({}) /\ Cardinality({}) = 0
  BY FS_EmptySet
<1>3. \A w \in Workers : CountsOK(pending[w], counted)
  BY <1>1, EmptySeq, CountsEmpty
<1>4. num_closed \in 0..Cardinality(counted)
  BY <1>1, <1>2
<1> QED BY <1>1, <1>2, <1>3, <1>4 DEF CountInv, Lives

\* The size of what is left.
LEMMA LeftSize ==
    ASSUME CountInv
    PROVE  /\ IsFiniteSet(Left) /\ Cardinality(Left) \in Nat /\ Cardinality(counted) \in Nat
           /\ Left \subseteq counted
           /\ \A x \in Left : /\ IsFiniteSet(Left \ {x})
                              /\ Cardinality(Left \ {x}) = Cardinality(Left) - 1
           /\ Cardinality(Left) = 0 => Left = {}
<1>1. IsFiniteSet(counted) /\ Left \subseteq counted
  BY DEF CountInv, Left
<1>2. IsFiniteSet(Left)
  BY <1>1, FS_Subset
<1>3. \A x \in Left : IsFiniteSet(Left \ {x}) /\ Cardinality(Left \ {x}) = Cardinality(Left) - 1
  BY <1>2, FS_RemoveElement
<1> QED BY <1>1, <1>2, <1>3, FS_CardinalityType, FS_EmptySet

\* Steps that neither count nor post a task that does.
LEMMA CountKept ==
    ASSUME CountInv, UNCHANGED <<counted, num_closed, try_times>>, faults' \subseteq faults \cup {"null channel_"},
           life' = life \/ (life' \in Lives /\ life \in {"constructed", "unwinding"}
                                /\ (life = "constructed" <=> life' \in {"listening", "crashed"})
                                /\ (life = "unwinding" <=> life' = "gone")),
           1..Len(sessions) \subseteq 1..Len(sessions'),
           \A s \in counted : sessions'[s].id = sessions[s].id /\ sessions[s].id \in Ids,
           \A w \in Workers : CountsOK(pending'[w], counted) /\ CountsOf(pending'[w]) = CountsOf(pending[w])
    PROVE  CountInv'
<1>1. Left' = Left
  <2>1. \A s \in counted : getLoopForHash(sessions[s].id) \in Workers
    BY LoopIsWorker
  <2> QED BY <2>1 DEF Left
<1>2. counted' \in SUBSET (1..Len(sessions'))
  BY DEF CountInv
<1>3. GaveUp' = GaveUp
  BY DEF GaveUp
<1>4. life' \in Lives
  BY DEF CountInv
<1>5. /\ life' = "spinning" => life = "spinning"
      /\ life' \in {"unwinding", "gone"} => life \in {"unwinding", "gone"}
      /\ life' \notin {"spinning", "unwinding", "gone"} => life \notin {"spinning", "unwinding", "gone"}
  OBVIOUS
<1>6. "dead counter" \in faults' => "dead counter" \in faults
  OBVIOUS
<1>7. \A w \in Workers : CountsOK(pending'[w], counted')
  OBVIOUS
<1> QED BY <1>1, <1>2, <1>3, <1>4, <1>5, <1>6, <1>7 DEF CountInv

\* The ids of the sessions that the destructor waits for.
LEMMA CountedIds ==
    ASSUME BaseInv, CountInv
    PROVE  \A s \in counted : s \in 1..Len(sessions) /\ sessions[s].id \in Ids
<1>1. \A s \in counted : s \in 1..Len(sessions)
  BY DEF CountInv
<1>2. \A s \in 1..Len(sessions) : sessions[s] \in SessionRec
  BY DEF BaseInv, SessionInv
<1>3. \A s \in 1..Len(sessions) : sessions[s].id \in Ids
  BY <1>2 DEF SessionRec
<1> QED BY <1>1, <1>3

\* The same where sessions and tasks stay.
LEMMA CountIdle ==
    ASSUME BaseInv, CountInv, UNCHANGED <<sessions, pending, counted, num_closed, try_times>>,
           faults' \subseteq faults \cup {"null channel_"},
           life' = life \/ (life' \in Lives /\ life \in {"constructed", "unwinding"}
                                /\ (life = "constructed" <=> life' \in {"listening", "crashed"})
                                /\ (life = "unwinding" <=> life' = "gone"))
    PROVE  CountInv'
<1>1. 1..Len(sessions) \subseteq 1..Len(sessions')
  OBVIOUS
<1>2. \A s \in counted : sessions'[s].id = sessions[s].id /\ sessions[s].id \in Ids
  BY CountedIds
<1>3. \A w \in Workers : CountsOK(pending'[w], counted) /\ CountsOf(pending'[w]) = CountsOf(pending[w])
  BY DEF CountInv
<1> QED BY <1>1, <1>2, <1>3, CountKept

-------------------------------------------------------------------------------
(* What the base loop posts while the server listens.                      *)

Closing(t) == t.task \in {"close", "close and count"}

\* Queue P has a task that closes session i.
HasClose(P, i) == \E k \in 1..Len(P) : P[k].s = i /\ Closing(P[k])

\* Queues grow by tasks that do not count; sessions are added, and are in the map; one that leaves
\* the map will be closed.
PostsOn ==
    /\ \A w \in Workers : /\ Grows(pending[w], pending'[w])
                          /\ \A k \in (Len(pending[w]) + 1)..Len(pending'[w]) : ~IsCount(pending'[w][k])
    /\ 1..Len(sessions) \subseteq 1..Len(sessions')
    /\ \A i \in 1..Len(sessions) : sessions'[i] = sessions[i]
    /\ \A i \in 1..Len(sessions') : \/ i \in 1..Len(sessions)
                                    \/ session_map_'[sessions'[i].id] = i
    /\ \A i \in 1..Len(sessions) : session_map_[sessions[i].id] = i =>
           \/ session_map_'[sessions[i].id] = i
           \/ HasClose(pending'[getLoopForHash(sessions[i].id)], i)

\* A task is posted to a session of the map.
LEMMA TaskPostsOn ==
    ASSUME SessionInv, NEW id \in Ids, NEW t \in TaskRec, ~IsCount(t), t.s = session_map_[id],
           Posts(id, <<t>>),
           \/ session_map_' = session_map_
           \/ session_map_' = [session_map_ EXCEPT ![id] = 0] /\ Closing(t)
    PROVE  PostsOn
<1> DEFINE v == getLoopForHash(id)
<1>1. /\ v \in Workers
      /\ GrowsBy(pending[v], pending'[v], <<t>>)
      /\ Len(pending'[v]) = Len(pending[v]) + 1 /\ pending'[v][Len(pending[v]) + 1] = t
      /\ \A w \in Workers : /\ Grows(pending[w], pending'[w])
                            /\ \A k \in (Len(pending[w]) + 1)..Len(pending'[w]) : pending'[w][k] = t
  BY OnePosted
<1>2. sessions' = sessions
  BY DEF Posts
<1>3. ASSUME NEW i \in 1..Len(sessions), session_map_[sessions[i].id] = i,
             session_map_'[sessions[i].id] # i
      PROVE  HasClose(pending'[getLoopForHash(sessions[i].id)], i)
  <2>1. sessions[i] \in SessionRec /\ session_map_ \in [Ids -> Nat]
    BY DEF SessionInv
  <2>2. sessions[i].id \in Ids
    BY <2>1 DEF SessionRec
  <2>3. sessions[i].id = id /\ Closing(t)
    BY <1>3, <2>1, <2>2
  <2>4. t.s = i
    BY <1>3, <2>3
  <2> DEFINE l == Len(pending[v])
             Q == pending'[v]
  <2>5. l \in Nat
    BY <1>1 DEF GrowsBy
  <2>6. Len(Q) = l + 1 /\ Q[l + 1] = t
    BY <1>1
  <2> HIDE DEF v, l, Q
  <2>7. l + 1 \in 1..Len(Q)
    BY <2>5, <2>6
  <2>8. HasClose(Q, i)
    BY <2>3, <2>4, <2>6, <2>7 DEF HasClose
  <2> QED BY <2>3, <2>8 DEF Q, v
<1>4. \A w \in Workers : /\ Grows(pending[w], pending'[w])
                         /\ \A k \in (Len(pending[w]) + 1)..Len(pending'[w]) : ~IsCount(pending'[w][k])
  BY <1>1
<1> QED BY <1>2, <1>3, <1>4 DEF PostsOn

\* A session is created.
LEMMA CreatePostsOn ==
    ASSUME SessionInv, NEW id \in Ids, NEW from \in Addresses, NEW more \in Seq(TaskRec),
           \A k \in 1..Len(more) : ~IsCount(more[k]), Creates(id, from, more)
    PROVE  PostsOn
<1> DEFINE L == Len(sessions)
           new == NewSession(id, from)
           v == getLoopForHash(id)
           tasks == Initialized(L + 1) \o more
<1>1. sessions \in Seq(SessionRec) /\ L \in Nat /\ sessions' = Append(sessions, new) /\ new.id = id
  BY DEF SessionInv, Creates, NewSession
<1>2. /\ Len(sessions') = L + 1 /\ sessions'[L + 1].id = id
      /\ \A j \in 1..L : sessions'[j] = sessions[j]
  <2> HIDE DEF new
  <2> QED BY <1>1
<1>3. Begins(tasks, L + 1, more)
  <2> DEFINE i == L + 1
  <2>1. i \in Nat
    BY <1>1
  <2> HIDE DEF i
  <2>2. Begins(Initialized(i) \o more, i, more)
    BY <2>1, FirstTasks
  <2> QED BY <2>2 DEF i
<1>4. /\ pending' = [pending EXCEPT ![v] = @ \o tasks] /\ session_map_[id] = 0
      /\ session_map_' = [session_map_ EXCEPT ![id] = L + 1]
  BY DEF Creates
<1>5. v \in Workers
  BY LoopIsWorker
<1> HIDE DEF tasks
<1>6. \A k \in 1..Len(tasks) : ~IsCount(tasks[k])
  <2> DEFINE m == Len(more)
             i == L + 1
  <2> HIDE DEF i
  <2>1. m \in Nat /\ Len(tasks) = m + 2
    BY <1>3 DEF Begins
  <2> HIDE DEF m
  <2> SUFFICES ASSUME NEW k \in 1..Len(tasks) PROVE ~IsCount(tasks[k])
    OBVIOUS
  <2>2. k = 1 \/ k = 2 \/ (k - 2 \in 1..m /\ k = (k - 2) + 2)
    BY <2>1
  <2>3. CASE k = 1 \/ k = 2
    BY <1>3, <2>3 DEF Begins, IsCount
  <2>4. CASE k - 2 \in 1..m /\ k = (k - 2) + 2
    <3>1. tasks[k] = more[k - 2]
      BY <1>3, <2>4 DEF Begins, m
    <3> QED BY <2>4, <3>1 DEF m
  <2> QED BY <2>2, <2>3, <2>4
<1>7. /\ GrowsBy(pending[v], pending'[v], tasks)
      /\ \A w \in Workers : w # v =>
             Grows(pending[w], pending'[w]) /\ (Len(pending[w]) + 1)..Len(pending'[w]) = {}
  <2> HIDE DEF v
  <2>1. tasks \in Seq(TaskRec)
    BY <1>3 DEF Begins
  <2> QED BY <1>4, <1>5, <2>1, QueuesGrow
<1>8. ASSUME NEW w \in Workers
      PROVE  /\ Grows(pending[w], pending'[w])
             /\ \A k \in (Len(pending[w]) + 1)..Len(pending'[w]) : ~IsCount(pending'[w][k])
  <2>1. CASE w = v
    <3> HIDE DEF v
    <3>1. GrowsBy(pending[w], pending'[w], tasks)
      BY <1>7, <2>1
    <3> QED BY <1>6, <3>1 DEF GrowsBy
  <2>2. CASE w # v
    BY <1>7, <2>2
  <2> QED BY <2>1, <2>2
<1>9. 1..L \subseteq 1..(L + 1) /\ \A i \in 1..(L + 1) : i \in 1..L \/ i = L + 1
  <2> HIDE DEF L
  <2> QED BY <1>1
<1>10. session_map_ \in [Ids -> Nat] /\ session_map_'[id] = L + 1
  BY <1>4 DEF SessionInv
<1>11. ASSUME NEW i \in 1..L, session_map_[sessions[i].id] = i PROVE session_map_'[sessions[i].id] = i
  <2>1. sessions[i] \in SessionRec
    BY <1>1
  <2>2. sessions[i].id \in Ids
    BY <2>1 DEF SessionRec
  <2>3. i # 0
    BY <1>1
  <2>4. sessions[i].id # id
    BY <1>4, <1>11, <2>3
  <2> QED BY <1>4, <1>10, <1>11, <2>2, <2>4
<1> QED BY <1>2, <1>8, <1>9, <1>10, <1>11 DEF PostsOn

\* Nothing is posted.
LEMMA IdlePostsOn ==
    ASSUME SessionInv, UNCHANGED <<sessions, session_map_, pending>>
    PROVE  PostsOn
<1>1. \A w \in Workers : Grows(pending[w], pending'[w]) /\ (Len(pending[w]) + 1)..Len(pending'[w]) = {}
  BY QueuesStay
<1> QED BY <1>1 DEF PostsOn

\* ProcessPacket posts on.
LEMMA PacketPostsOn ==
    ASSUME BaseInv, ProcessPacket
    PROVE  PostsOn
<1> DEFINE n == Processed'
           a == arrived[n]
<1>1. a \in ArrivedRec /\ Processes(a, n) /\ n \in 1..Len(arrived)
  BY PacketEffect DEF BaseInv
<1>2. a.id \in Ids /\ a.from \in Addresses /\ n \in Nat
  BY <1>1 DEF ArrivedRec
<1>3. SessionInv /\ session_map_[a.id] \in Nat /\ Len(sessions) + 1 \in Nat
  BY <1>2 DEF BaseInv, SessionInv
<1> HIDE DEF n
<1>4. ASSUME NEW i \in Nat
      PROVE  /\ PktTask(i, n, a.from) \in TaskRec /\ PktTask(i, n, a.from).s = i
             /\ ~IsCount(PktTask(i, n, a.from))
  <2>1. One(n) \in Data
    BY <1>2 DEF Data, Item, One
  <2>2. PktTask(i, n, a.from) = [task |-> "packet", s |-> i, data |-> One(n), from |-> a.from]
    BY DEF PktTask, One
  <2> QED BY <1>2, <1>4, <2>1, <2>2 DEF TaskRec, TaskNames, Senders, IsCount
<1>5. CASE UNCHANGED <<session_map_, sessions, pending>>
  BY <1>3, <1>5, IdlePostsOn
<1>6. CASE Posts(a.id, <<PktTask(session_map_[a.id], n, a.from)>>) /\ session_map_' = session_map_
  <2> DEFINE t == PktTask(session_map_[a.id], n, a.from)
  <2>1. t \in TaskRec /\ t.s = session_map_[a.id] /\ ~IsCount(t)
    BY <1>3, <1>4
  <2>2. Posts(a.id, <<t>>)
    BY <1>6
  <2> HIDE DEF t
  <2> QED BY <1>2, <1>3, <1>6, <2>1, <2>2, TaskPostsOn
<1>7. CASE Creates(a.id, a.from, <<PktTask(Len(sessions) + 1, n, a.from)>>)
  <2> DEFINE t == PktTask(Len(sessions) + 1, n, a.from)
             more == <<t>>
  <2>1. t \in TaskRec /\ ~IsCount(t)
    BY <1>3, <1>4
  <2> HIDE DEF t
  <2>2. more \in Seq(TaskRec) /\ \A k \in 1..Len(more) : more[k] = t
    BY <2>1
  <2>3. Creates(a.id, a.from, more)
    BY <1>7 DEF t
  <2> HIDE DEF more
  <2> QED BY <1>2, <1>3, <2>1, <2>2, <2>3, CreatePostsOn
<1>8. CASE Creates(a.id, a.from, <<>>)
  <2> DEFINE more == <<>>
  <2>1. more \in Seq(TaskRec) /\ Len(more) = 0
    BY EmptySeq
  <2>2. Creates(a.id, a.from, more)
    BY <1>8
  <2> HIDE DEF more
  <2>3. 1..Len(more) = {}
    BY <2>1
  <2> QED BY <1>2, <1>3, <2>1, <2>2, <2>3, CreatePostsOn
<1>9. CASE session_map_' = [session_map_ EXCEPT ![a.id] = 0] /\ UNCHANGED <<sessions, pending>>
           /\ session_map_[a.id] = 0
  <2>1. session_map_' = session_map_
    BY <1>2, <1>9 DEF BaseInv, SessionInv
  <2> QED BY <1>3, <1>9, <2>1, IdlePostsOn
<1>10. CASE /\ session_map_' = [session_map_ EXCEPT ![a.id] = 0]
            /\ Posts(a.id, <<Task("close", session_map_[a.id])>>)
  <2> DEFINE t == Task("close", session_map_[a.id])
  <2>1. t \in TaskRec
    BY <1>3, EventType DEF TaskNames
  <2>2. t.s = session_map_[a.id] /\ ~IsCount(t) /\ Closing(t)
    BY DEF Task, IsCount, Closing
  <2>3. Posts(a.id, <<t>>)
    BY <1>10
  <2> HIDE DEF t
  <2> QED BY <1>2, <1>3, <1>10, <2>1, <2>2, <2>3, TaskPostsOn
<1> QED BY <1>1, <1>5, <1>6, <1>7, <1>8, <1>9, <1>10 DEF Processes

\* HandleError posts on.
LEMMA ErrorPostsOn ==
    ASSUME BaseInv, HandleError
    PROVE  PostsOn
<1>1. UNCHANGED <<sessions, session_map_>> /\ SessionInv
  BY ErrorEffect DEF baseVars, workVars, BaseInv
<1>2. CASE pending' = pending
  BY <1>1, <1>2, IdlePostsOn
<1>3. CASE \E id \in Ids : Posts(id, <<Task("error", session_map_[id])>>)
  <2>1. PICK id \in Ids : Posts(id, <<Task("error", session_map_[id])>>)
    BY <1>3
  <2> DEFINE t == Task("error", session_map_[id])
  <2>2. session_map_[id] \in Nat
    BY <1>1 DEF SessionInv
  <2>3. t \in TaskRec
    BY <2>2, EventType DEF TaskNames
  <2>4. ~IsCount(t) /\ t.s = session_map_[id]
    BY DEF Task, IsCount
  <2>5. Posts(id, <<t>>)
    BY <2>1
  <2> HIDE DEF t
  <2> QED BY <1>1, <2>3, <2>4, <2>5, TaskPostsOn
<1> QED BY <1>2, <1>3, ErrorEffect

-------------------------------------------------------------------------------
(* Every step keeps CountInv.                                              *)

\* While the server listens nothing is counted, and nothing that is posted counts.
LEMMA PostsCount ==
    ASSUME BaseInv, CountInv, life = "listening", PostsOn,
           UNCHANGED <<life, counted, num_closed, try_times, faults>>
    PROVE  CountInv'
<1>1. counted = {}
  BY DEF BaseInv, ControlInv
<1>2. \A w \in Workers : CountsOK(pending'[w], counted) /\ CountsOf(pending'[w]) = CountsOf(pending[w])
  <2> SUFFICES ASSUME NEW w \in Workers
               PROVE  CountsOK(pending'[w], counted) /\ CountsOf(pending'[w]) = CountsOf(pending[w])
    OBVIOUS
  <2> DEFINE P == pending[w]
             Q == pending'[w]
  <2>1. /\ Grows(P, Q) /\ CountsOK(P, counted)
        /\ \A k \in (Len(P) + 1)..Len(Q) : ~IsCount(Q[k])
    BY DEF PostsOn, CountInv
  <2> HIDE DEF P, Q
  <2>2. CountsOK(Q, counted) /\ CountsOf(Q) = CountsOf(P)
    BY <2>1, CountsGrow
  <2> QED BY <2>2 DEF P, Q
<1>3. 1..Len(sessions) \subseteq 1..Len(sessions')
  BY DEF PostsOn
<1> QED BY <1>1, <1>2, <1>3, CountKept

\* What RunTask does with the counter.
LEMMA TaskCounts ==
    ASSUME NEW w, RunTask(w)
    PROVE  LET t == Head(pending[w]) IN
           /\ ~IsCount(t) => UNCHANGED <<num_closed, faults>>
           /\ IsCount(t) => CountClosed
<1> DEFINE t == Head(pending[w])
<1>1. \/ t.task = "up" /\ UNCHANGED <<num_closed, faults>>
      \/ t.task = "update" /\ UNCHANGED <<num_closed, faults>>
      \/ t.task = "packet" /\ UNCHANGED <<num_closed, faults>>
      \/ t.task = "error" /\ UNCHANGED <<num_closed, faults>>
      \/ t.task = "close" /\ UNCHANGED <<num_closed, faults>>
      \/ t.task = "close and count" /\ CountClosed
  BY Zenon DEF RunTask
<1> HIDE DEF t
<1>2. /\ ~IsCount(t) => UNCHANGED <<num_closed, faults>>
      /\ IsCount(t) => CountClosed
  BY <1>1 DEF IsCount
<1> QED BY <1>2 DEF t

\* A worker runs a task.
LEMMA RunCounts ==
    ASSUME BaseInv, CountInv, NEW w \in Workers, RunTask(w)
    PROVE  CountInv'
<1> DEFINE P == pending[w]
           t == Head(P)
<1>1. /\ w \in running /\ P # <<>> /\ t \in TaskRec /\ TaskFits(t, w, sessions) /\ Runs(t)
      /\ pending' = [pending EXCEPT ![w] = Tail(@)]
      /\ UNCHANGED <<baseVars, readVars, running, unclosed>>
  BY TaskEffect DEF BaseInv
<1>2. UNCHANGED <<life, counted, try_times>>
  BY <1>1 DEF baseVars
<1>3. P \in Seq(TaskRec) /\ pending'[w] = Tail(P) /\ \A v \in Workers : v # w => pending'[v] = pending[v]
  BY <1>1 DEF BaseInv, SessionInv
<1>4. t.s \in 1..Len(sessions) /\ getLoopForHash(sessions[t.s].id) = w
  BY <1>1 DEF TaskFits
<1>5. /\ Len(sessions') = Len(sessions)
      /\ \A j \in 1..Len(sessions) : sessions'[j].id = sessions[j].id
  <2> HIDE DEF t
  <2> QED BY <1>1, <1>4, OneRuns DEF BaseInv
<1>6. \A s \in counted : s \in 1..Len(sessions) /\ sessions[s].id \in Ids
  BY CountedIds
<1>7. /\ CountsOK(Tail(P), counted)
      /\ IsCount(t) => t.s \in CountsOf(P) /\ CountsOf(Tail(P)) = CountsOf(P) \ {t.s}
      /\ ~IsCount(t) => CountsOf(Tail(P)) = CountsOf(P)
  <2>1. CountsOK(P, counted) /\ P # <<>>
    BY <1>1 DEF CountInv
  <2> HIDE DEF P
  <2> QED BY <1>3, <2>1, CountsTail
<1>8. \A v \in Workers : CountsOK(pending'[v], counted)
  BY <1>3, <1>7 DEF CountInv
<1>9. /\ ~IsCount(t) => UNCHANGED <<num_closed, faults>>
      /\ IsCount(t) => CountClosed
  BY TaskCounts
<1> HIDE DEF t, P
<1>10. CASE ~IsCount(t)
  <2>1. \A v \in Workers : CountsOf(pending'[v]) = CountsOf(pending[v])
    BY <1>3, <1>7, <1>10 DEF P
  <2>2. 1..Len(sessions) \subseteq 1..Len(sessions')
    BY <1>5
  <2> QED BY <1>2, <1>5, <1>6, <1>8, <1>9, <1>10, <2>1, <2>2, CountKept
<1>11. CASE IsCount(t)
  <2>1. t.s \in counted /\ t.s \in Left
    BY <1>4, <1>7, <1>11 DEF CountInv, CountsOK, Left, P
  <2>2. Left' = Left \ {t.s}
    <3>1. ASSUME NEW s \in counted
          PROVE  s \in CountsOf(pending'[getLoopForHash(sessions'[s].id)]) <=>
                     s \in CountsOf(pending[getLoopForHash(sessions[s].id)]) /\ s # t.s
      <4> DEFINE v == getLoopForHash(sessions[s].id)
      <4>1. v \in Workers /\ getLoopForHash(sessions'[s].id) = v
        BY <1>5, <1>6, LoopIsWorker
      <4> HIDE DEF v
      <4>2. CASE v = w
        BY <1>3, <1>7, <1>11, <4>1, <4>2 DEF P, v
      <4>3. CASE v # w
        <5>1. s # t.s
          BY <1>4, <4>3 DEF v
        <5> QED BY <1>3, <4>1, <4>3, <5>1 DEF v
      <4> QED BY <4>2, <4>3
    <3> QED BY <1>2, <3>1 DEF Left
  <2> DEFINE n == Cardinality(Left)
             m == Cardinality(counted)
  <2>3. n \in Nat /\ m \in Nat /\ Cardinality(Left') = n - 1 /\ n # 0
    <3>1. Cardinality(Left \ {t.s}) = n - 1 /\ n \in Nat /\ m \in Nat /\ (n = 0 => Left = {})
      BY <2>1, LeftSize
    <3> QED BY <2>1, <2>2, <3>1
  <2>4. counted' \in SUBSET (1..Len(sessions')) /\ IsFiniteSet(counted') /\ life' \in Lives
        /\ GaveUp' = GaveUp
    BY <1>2, <1>5 DEF CountInv, GaveUp
  <2>5. CASE life = "spinning"
    <3>1. num_closed' = num_closed + 1 /\ faults' = faults
      BY <1>9, <1>11, <2>5 DEF CountClosed
    <3>2. num_closed + n = m /\ num_closed \in Nat
      <4>1. num_closed + n = m /\ num_closed \in 0..m
        BY <2>5 DEF CountInv
      <4> HIDE DEF n, m
      <4> QED BY <2>3, <4>1
    <3>3. num_closed' + Cardinality(Left') = m /\ num_closed' \in 0..m
      <4> HIDE DEF n, m
      <4> QED BY <2>3, <3>1, <3>2
    <3>4. Cardinality(counted') = m
      BY <1>2
    <3> QED BY <1>2, <1>8, <2>4, <2>5, <3>1, <3>3, <3>4 DEF CountInv
  <2>6. CASE life # "spinning"
    <3>1. num_closed' = num_closed /\ faults' = faults \cup {"dead counter"}
      BY <1>9, <1>11, <2>6 DEF CountClosed
    <3>2. life \in {"unwinding", "gone"}
      <4>1. life \in Lives /\ (life \in {"constructed", "crashed", "listening"} => counted = {})
        BY DEF CountInv, BaseInv, ControlInv
      <4> QED BY <2>1, <2>6, <4>1 DEF Lives
    <3>3. GaveUp
      BY <2>1, <3>2 DEF CountInv
    <3> QED BY <1>2, <1>8, <2>4, <2>6, <3>1, <3>2, <3>3 DEF CountInv
  <2> QED BY <2>5, <2>6
<1> QED BY <1>10, <1>11

\* A timer runs.
LEMMA TimerCounts ==
    ASSUME BaseInv, CountInv, NEW w \in Workers, NEW i \in DOMAIN sessions, StateTimer(w, i)
    PROVE  CountInv'
<1>1. /\ (sessions[i].closed /\ sessions' = sessions) \/ Ticks(i)
      /\ UNCHANGED <<baseVars, readVars, pending, running, num_closed, unclosed, faults>>
  BY TimerEffect DEF BaseInv
<1>2. UNCHANGED <<life, counted, try_times, pending, num_closed, faults>>
  BY <1>1 DEF baseVars
<1>3. CASE sessions' = sessions
  BY <1>2, <1>3, CountIdle
<1>4. CASE Ticks(i)
  <2>1. PICK r : Becomes(i, r) /\ r.id = sessions[i].id
    BY <1>4 DEF Ticks, Waits, Downs
  <2>2. /\ Len(sessions') = Len(sessions)
        /\ \A j \in 1..Len(sessions) : sessions'[j].id = sessions[j].id
    BY <2>1, OneBecomes DEF BaseInv
  <2>3. \A s \in counted : s \in 1..Len(sessions) /\ sessions[s].id \in Ids
    BY CountedIds
  <2>4. 1..Len(sessions) \subseteq 1..Len(sessions')
    BY <2>2
  <2>5. \A v \in Workers : CountsOK(pending'[v], counted) /\ CountsOf(pending'[v]) = CountsOf(pending[v])
    BY <1>2 DEF CountInv
  <2> QED BY <1>2, <2>2, <2>3, <2>4, <2>5, CountKept
<1> QED BY <1>1, <1>3, <1>4

\* A worker ends, with the tasks it has not run.
LEMMA EndCounts ==
    ASSUME BaseInv, CountInv, NEW w \in Workers, LoopEnds(w)
    PROVE  CountInv'
<1>1. /\ w \in quit /\ pending' = [pending EXCEPT ![w] = <<>>]
      /\ UNCHANGED <<life, counted, try_times, sessions, num_closed, faults>>
  BY DEF LoopEnds, baseVars
<1>2. life \in {"unwinding", "gone"}
  BY <1>1 DEF BaseInv, ControlInv
<1>3. pending'[w] = <<>> /\ \A v \in Workers : v # w => pending'[v] = pending[v]
  BY <1>1 DEF BaseInv, SessionInv
<1>4. CountsOf(pending'[w]) = {} /\ CountsOK(pending'[w], counted)
  BY <1>3, EmptySeq, CountsEmpty
<1>5. \A v \in Workers : CountsOK(pending'[v], counted)
  BY <1>3, <1>4 DEF CountInv
<1>6. Left' \subseteq Left
  <2> SUFFICES ASSUME NEW s \in Left' PROVE s \in Left
    OBVIOUS
  <2> DEFINE v == getLoopForHash(sessions[s].id)
  <2>1. s \in counted /\ s \in CountsOf(pending'[v])
    BY <1>1 DEF Left
  <2>2. v \in Workers
    BY <2>1, CountedIds, LoopIsWorker
  <2> HIDE DEF v
  <2>3. v # w
    BY <1>4, <2>1
  <2>4. pending'[v] = pending[v]
    BY <1>3, <2>2, <2>3
  <2> QED BY <2>1, <2>4 DEF Left, v
<1>7. GaveUp' = GaveUp
  BY <1>1 DEF GaveUp
<1> QED BY <1>1, <1>2, <1>5, <1>6, <1>7 DEF CountInv

\* The destructor posts a task for each session it waits for.
LEMMA DestroyCounts ==
    ASSUME BaseInv, CountInv, Destroy
    PROVE  CountInv'
<1>1. /\ life = "listening" /\ life' = "spinning"
      /\ UNCHANGED <<try_times, sessions, num_closed, faults>>
      /\ counted' \in SUBSET (1..Len(sessions)) /\ IsFiniteSet(counted')
      /\ pending' \in [Workers -> Seq(TaskRec)]
      /\ \A w \in Workers : PostsCounts(w)
  BY DestroyEffect DEF BaseInv, workVars
<1>2. counted = {} /\ num_closed = 0 /\ pending \in [Workers -> Seq(TaskRec)]
  BY <1>1 DEF BaseInv, ControlInv, CountInv, SessionInv
<1>3. \A s : CountTask(s).s = s /\ IsCount(CountTask(s))
  BY DEF CountTask, Task, IsCount
<1>4. ASSUME NEW w \in Workers, NEW k \in 1..Len(pending'[w]), IsCount(pending'[w][k])
      PROVE  /\ k \in (Len(pending[w]) + 1)..Len(pending'[w])
             /\ \E s \in counted' : pending'[w][k] = CountTask(s)
  <2> DEFINE P == pending[w]
             Q == pending'[w]
             l == Len(P)
             m == Len(Q)
  <2>1. P \in Seq(TaskRec) /\ l \in Nat /\ m \in Nat
    BY <1>1, <1>2
  <2>2. PostsCounts(w)
    BY <1>1
  <2>3. ASSUME k \in 1..l PROVE FALSE
    <3>1. IsCount(P[k]) /\ P[k] \in TaskRec
      BY <1>4, <2>1, <2>2, <2>3 DEF PostsCounts
    <3>2. P[k].s \in CountsOf(P)
      BY <2>3, <3>1 DEF CountsOf, TaskRec
    <3>3. CountsOf(P) \subseteq {}
      BY <1>2 DEF CountInv, CountsOK
    <3> QED BY <3>2, <3>3
  <2>4. k \in 1..m
    OBVIOUS
  <2>5. k \in (l + 1)..m
    <3> HIDE DEF l, m
    <3> QED BY <2>1, <2>3, <2>4
  <2> QED BY <2>2, <2>5 DEF PostsCounts
<1>5. ASSUME NEW w \in Workers PROVE CountsOK(pending'[w], counted')
  <2>1. ASSUME NEW s \in CountsOf(pending'[w]) PROVE s \in counted'
    <3>1. PICK k \in 1..Len(pending'[w]) : IsCount(pending'[w][k]) /\ pending'[w][k].s = s
      BY DEF CountsOf
    <3> QED BY <1>3, <1>4, <3>1
  <2>2. ASSUME NEW j \in 1..Len(pending'[w]), NEW k \in 1..Len(pending'[w]),
               IsCount(pending'[w][j]), IsCount(pending'[w][k]), pending'[w][j].s = pending'[w][k].s
        PROVE  j = k
    <3>1. /\ j \in (Len(pending[w]) + 1)..Len(pending'[w])
          /\ k \in (Len(pending[w]) + 1)..Len(pending'[w])
      BY <1>4, <2>2
    <3>2. PICK s \in counted' : pending'[w][j] = CountTask(s)
      BY <1>4, <2>2
    <3>3. PICK r \in counted' : pending'[w][k] = CountTask(r)
      BY <1>4, <2>2
    <3>4. s = r
      BY <1>3, <2>2, <3>2, <3>3
    <3>5. pending'[w][j] = pending'[w][k]
      BY <3>2, <3>3, <3>4
    <3>6. PostsCounts(w)
      BY <1>1
    <3> QED BY <3>1, <3>5, <3>6 DEF PostsCounts
  <2> QED BY <2>1, <2>2 DEF CountsOK
<1>6. Left' = counted'
  <2> SUFFICES ASSUME NEW s \in counted'
               PROVE  s \in CountsOf(pending'[getLoopForHash(sessions[s].id)])
    BY <1>1 DEF Left
  <2> DEFINE w == getLoopForHash(sessions[s].id)
             Q == pending'[w]
             l == Len(pending[w])
             m == Len(Q)
  <2>1. sessions[s] \in SessionRec /\ s \in Nat
    BY <1>1 DEF BaseInv, SessionInv
  <2>2. w \in Workers
    BY <2>1, LoopIsWorker DEF SessionRec
  <2>3. PICK k \in (l + 1)..m : Q[k] = CountTask(s)
    BY <1>1, <2>2 DEF PostsCounts
  <2>4. l \in Nat /\ m \in Nat
    BY <1>1, <1>2, <2>2
  <2>5. k \in 1..m
    <3> HIDE DEF l, m
    <3> QED BY <2>4
  <2> HIDE DEF Q
  <2>6. s \in CountsOf(Q)
    BY <1>3, <2>1, <2>3, <2>5 DEF CountsOf
  <2> QED BY <2>6 DEF Q
<1> DEFINE n == Cardinality(counted')
<1>7. n \in Nat
  BY <1>1, FS_CardinalityType
<1>8. num_closed' \in 0..n /\ num_closed' + n = n
  <2> HIDE DEF n
  <2> QED BY <1>1, <1>2, <1>7
<1>9. "dead counter" \in faults' => GaveUp'
  BY <1>1 DEF CountInv, GaveUp
<1> QED BY <1>1, <1>5, <1>6, <1>8, <1>9 DEF CountInv, Lives

\* The spin ends.
LEMMA SpinCounts ==
    ASSUME BaseInv, CountInv, SpinEnds
    PROVE  CountInv'
<1>1. /\ life = "spinning" /\ life' = "unwinding" /\ (~Waiting \/ GaveUp)
      /\ UNCHANGED <<counted, try_times, sessions, pending, num_closed, faults>>
  BY DEF SpinEnds, workVars
<1>2. Left' = Left /\ GaveUp' = GaveUp
  BY <1>1 DEF Left, GaveUp
<1>3. ASSUME ~GaveUp PROVE Left = {}
  <2> DEFINE n == Cardinality(Left)
             m == Cardinality(counted)
  <2>1. n \in Nat /\ m \in Nat /\ (n = 0 => Left = {})
    BY LeftSize
  <2>2. num_closed + n = m /\ num_closed \in 0..m /\ ~(num_closed < m)
    BY <1>1, <1>3 DEF CountInv, Waiting
  <2>3. n = 0
    <3> HIDE DEF n, m
    <3> QED BY <2>1, <2>2
  <2> QED BY <2>1, <2>3
<1> QED BY <1>1, <1>2, <1>3 DEF CountInv, Lives

\* A turn of the spin.
LEMMA TurnCounts ==
    ASSUME BaseInv, CountInv, Spin
    PROVE  CountInv'
<1>1. /\ life = "spinning" /\ try_times' = try_times + 1 /\ ~GaveUp
      /\ UNCHANGED <<life, counted, sessions, pending, num_closed, faults>>
  BY DEF Spin, workVars
<1>2. Left' = Left /\ "dead counter" \notin faults
  BY <1>1 DEF Left, CountInv
<1> QED BY <1>1, <1>2 DEF CountInv

\* Every step keeps CountInv.
LEMMA CountStep == BaseInv /\ CountInv /\ [Next]_vars => CountInv'
<1> SUFFICES ASSUME BaseInv, CountInv, [Next]_vars PROVE CountInv'
  OBVIOUS
<1>1. ASSUME UNCHANGED <<life, counted, num_closed, try_times, faults, sessions, pending>>
      PROVE  CountInv'
  BY <1>1, CountIdle
<1>2. CASE \E a \in Arrivals : Deliver(a)
  BY <1>1, <1>2 DEF Deliver, Arrive, baseVars, workVars
<1>3. CASE \E w \in Workers : Bounce(w)
  BY <1>1, <1>3 DEF Bounce, baseVars, workVars
<1>4. CASE HandleRead
  BY <1>1, <1>4 DEF HandleRead, baseVars, workVars
<1>5. CASE ProcessPacket
  <2>1. life = "listening" /\ UNCHANGED <<life, counted, num_closed, try_times, faults>>
    BY <1>5 DEF ProcessPacket
  <2> QED BY <1>5, <2>1, PacketPostsOn, PostsCount
<1>6. CASE HandleError
  <2>1. life = "listening" /\ UNCHANGED <<life, counted, num_closed, try_times, faults>>
    BY <1>6, ErrorEffect DEF baseVars, workVars
  <2> QED BY <1>6, <2>1, ErrorPostsOn, PostsCount
<1>7. CASE UNCHANGED vars
  BY <1>1, <1>7 DEF vars, baseVars, workVars
<1>8. CASE \E w \in Workers : LoopEnds(w)
  BY <1>8, EndCounts
<1>9. CASE \E w \in Workers : RunTask(w)
  BY <1>9, RunCounts
<1>10. CASE \E w \in Workers, i \in DOMAIN sessions : StateTimer(w, i)
  BY <1>10, TimerCounts
<1>11. CASE Destroy
  BY <1>11, DestroyCounts
<1>12. CASE SpinEnds
  BY <1>12, SpinCounts
<1>13. CASE Spin
  BY <1>13, TurnCounts
<1>14. CASE QuitNext
  BY <1>1, <1>14 DEF QuitNext, workVars
<1>15. CASE CloseSocket
  <2>1. life = "unwinding" /\ life' = "gone"
        /\ UNCHANGED <<counted, num_closed, try_times, faults, sessions, pending>>
    BY <1>15 DEF CloseSocket, workVars
  <2> QED BY <2>1, CountIdle DEF Lives
<1>16. CASE DestroyUnlistened
  <2>1. life = "constructed" /\ life' = "crashed" /\ faults' = faults \cup {"null channel_"}
        /\ UNCHANGED <<counted, num_closed, try_times, sessions, pending>>
    BY <1>16 DEF DestroyUnlistened
  <2> QED BY <2>1, CountIdle DEF Lives
<1>17. CASE \E f \in ListenFamilies : Listen(f)
  <2>1. life = "constructed" /\ (life' = life \/ life' = "listening")
        /\ UNCHANGED <<counted, num_closed, try_times, faults, sessions, pending>>
    BY <1>17 DEF Listen
  <2> QED BY <2>1, CountIdle DEF Lives
<1> QED BY <1>2, <1>3, <1>4, <1>5, <1>6, <1>7, <1>8, <1>9, <1>10, <1>11, <1>12, <1>13, <1>14, <1>15,
           <1>16, <1>17 DEF Next, Destructor

\* No task increments the counter on the destructor's stack after the destructor has left the spin,
\* unless the spin gave up (kcp_server.cc:44-55).
THEOREM CounterIsAlive == Spec => []CounterOutlivesTasks
<1>1. CountInv => CounterOutlivesTasks
  BY DEF CountInv, CounterOutlivesTasks
<1>2. Init => BaseInv /\ CountInv
  BY BaseInit, CountInit
<1>3. BaseInv /\ CountInv /\ [Next]_vars => BaseInv' /\ CountInv'
  BY BaseStep, CountStep
<1> QED BY <1>1, <1>2, <1>3, PTL DEF Spec

\* All variables have their types: the read buffers and the transmit queues of all workers stay
\* within their arrays, which AppendPacket asserts (kcp_server.cc:763), and the destructor counts no
\* session twice.
THEOREM ServerTypes == Spec => []TypeOK
<1>1. BaseInv /\ TxInv /\ CountInv => TypeOK
  <2> SUFFICES ASSUME BaseInv, TxInv, CountInv PROVE TypeOK
    OBVIOUS
  <2>1. life \in {"constructed", "listening", "spinning", "unwinding", "gone", "crashed"}
    BY DEF CountInv, Lives
  <2>2. reading # None => Len(reading) <= kNumPacketsPerRead
    BY DEF BaseInv, ReadInv, Batch
  <2>3. session_map_ \in [Ids -> 0..Len(sessions)]
    <3>1. session_map_ \in [Ids -> Nat] /\ Len(sessions) \in Nat
      BY DEF BaseInv, SessionInv
    <3>2. \A id \in Ids : session_map_[id] # 0 => session_map_[id] \in 1..Len(sessions)
      BY DEF BaseInv, SessionInv
    <3> DEFINE l == Len(sessions)
    <3> HIDE DEF l
    <3>3. l \in Nat /\ \A id \in Ids : session_map_[id] # 0 => session_map_[id] \in 1..l
      BY <3>1, <3>2 DEF l
    <3>4. \A id \in Ids : session_map_[id] \in 0..l
      BY <3>1, <3>3
    <3> QED BY <3>1, <3>4 DEF l
  <2>4. \A i \in DOMAIN sessions : sessions[i].id \in Ids /\ sessions[i].peer \in Addresses
    <3>1. \A i \in DOMAIN sessions : sessions[i] \in SessionRec
      BY DEF BaseInv, SessionInv
    <3> QED BY <3>1 DEF SessionRec
  <2>5. \A w \in Workers : tx[w].full = FALSE /\ num_packets(tx[w]) < kNumPacketsPerSend
    BY DEF TxInv, GoodTx, num_packets
  <2>6. /\ quit \subseteq Workers /\ running \subseteq Workers
        /\ try_times \in 0..kServerMaxWaitSessionClosedTryTimes
    BY DEF BaseInv, ControlInv
  <2>7. num_closed \in 0..Cardinality(counted)
    BY DEF CountInv
  <2> QED BY <2>1, <2>2, <2>3, <2>4, <2>5, <2>6, <2>7 DEF TypeOK
<1>2. Init => BaseInv /\ TxInv /\ CountInv
  BY BaseInit, TxInit, CountInit
<1>3. BaseInv /\ TxInv /\ CountInv /\ [Next]_vars => BaseInv' /\ TxInv' /\ CountInv'
  BY BaseStep, TxStep, CountStep
<1> QED BY <1>1, <1>2, <1>3, PTL DEF Spec

-------------------------------------------------------------------------------
(* The end of the sessions.                                                *)

\* The last task of a queue counts.
LastCounts(P) == Len(P) > 0 => IsCount(P[Len(P)])

\* Where assert(IsClosed()) of ~KCPSession (kcp_session.cc:22) may fail: the spin gave up, or the
\* session was off the map and the destructor waited for no session of its loop, whose queue still
\* held the Close when it was told to quit.
OpenEndsExplained ==
    \A s \in unclosed :
        \/ GaveUp
        \/ \A t \in counted : getLoopForHash(sessions[t].id) # getLoopForHash(sessions[s].id)

\* A session that is open on a running loop is in the map of a listening server, or has a task that
\* will close it; a task that counts is behind all others of a loop the destructor waits for.
EndInv ==
    /\ \A i \in 1..Len(sessions) :
           getLoopForHash(sessions[i].id) \in running /\ ~sessions[i].closed =>
               \/ session_map_[sessions[i].id] = i /\ life = "listening"
               \/ HasClose(pending[getLoopForHash(sessions[i].id)], i)
    /\ \A t \in counted : LastCounts(pending[getLoopForHash(sessions[t].id)])
    /\ unclosed \subseteq 1..Len(sessions)
    /\ unclosed # {} => life \in {"unwinding", "gone"}
    /\ OpenEndsExplained

\* A queue that grows keeps its tasks.
LEMMA CloseGrows ==
    ASSUME NEW P, NEW Q, NEW i, Grows(P, Q), HasClose(P, i)
    PROVE  HasClose(Q, i)
<1> DEFINE l == Len(P)
           m == Len(Q)
<1>1. l \in Nat /\ m \in Nat /\ l <= m /\ \A k \in 1..l : Q[k] = P[k]
  BY DEF Grows
<1>2. PICK k \in 1..l : P[k].s = i /\ Closing(P[k])
  BY DEF HasClose
<1> HIDE DEF l, m
<1>3. k \in 1..m
  BY <1>1
<1> QED BY <1>1, <1>2, <1>3 DEF HasClose, m

\* The first task is taken off.
LEMMA CloseTail ==
    ASSUME NEW P \in Seq(TaskRec), P # <<>>
    PROVE  /\ \A i : HasClose(P, i) =>
                  HasClose(Tail(P), i) \/ (Head(P).s = i /\ Closing(Head(P)))
           /\ LastCounts(P) => LastCounts(Tail(P))
<1> DEFINE Q == Tail(P)
           h == Head(P)
           L == Len(P)
           M == Len(Q)
<1>1. /\ L \in Nat /\ M = L - 1 /\ L >= 1 /\ h = P[1]
      /\ \A k \in 1..M : Q[k] = P[k + 1]
  BY HeadTailProperties
<1> HIDE DEF Q, h, M, L
<1>2. ASSUME NEW i, HasClose(P, i), ~HasClose(Q, i) PROVE h.s = i /\ Closing(h)
  <2>1. PICK k \in 1..L : P[k].s = i /\ Closing(P[k])
    BY <1>2 DEF HasClose, L
  <2>2. ASSUME k # 1 PROVE FALSE
    <3>1. k - 1 \in 1..M /\ Q[k - 1] = P[k]
      BY <1>1, <2>2
    <3> QED BY <1>2, <2>1, <3>1 DEF HasClose, M
  <2> QED BY <1>1, <2>1, <2>2
<1>3. ASSUME LastCounts(P), M > 0 PROVE IsCount(Q[M])
  <2>1. M \in 1..M /\ M + 1 = L /\ L > 0
    BY <1>1, <1>3
  <2>2. Q[M] = P[L]
    BY <1>1, <2>1
  <2> QED BY <1>3, <2>1, <2>2 DEF LastCounts, L
<1> QED BY <1>2, <1>3 DEF Q, h, M, LastCounts

\* A session stays closed, and a task that closes leaves its session closed.
LEMMA RunCloses ==
    ASSUME SessionInv, NEW t, t.s \in 1..Len(sessions), Runs(t)
    PROVE  /\ Closing(t) => sessions'[t.s].closed
           /\ \A j \in 1..Len(sessions) : sessions[j].closed => sessions'[j].closed
<1> DEFINE s == sessions[t.s]
<1>1. CASE sessions' = sessions /\ s.closed
  BY <1>1
<1>2. ASSUME NEW r, Becomes(t.s, r), r.id = s.id, Closing(t) => r.closed, s.closed => r.closed
      PROVE  /\ Closing(t) => sessions'[t.s].closed
             /\ \A j \in 1..Len(sessions) : sessions[j].closed => sessions'[j].closed
  <2>1. /\ sessions'[t.s] = r
        /\ \A j \in 1..Len(sessions) : j # t.s => sessions'[j] = sessions[j]
    BY <1>2, OneBecomes
  <2>2. \A j \in 1..Len(sessions) : sessions[j].closed => sessions'[j].closed
    BY <1>2, <2>1, Zenon
  <2> QED BY <1>2, <2>1, <2>2, Zenon
<1>3. \/ sessions' = sessions /\ s.closed
      \/ \E r : Becomes(t.s, r) /\ r.id = s.id /\ (Closing(t) => r.closed) /\ (s.closed => r.closed)
  BY DEF Runs, Ups, Gets, Errs, Waits, Downs, Closing
<1> QED BY <1>1, <1>2, <1>3

\* Init establishes EndInv.
LEMMA EndInit == Init => EndInv
<1> SUFFICES ASSUME Init PROVE EndInv
  OBVIOUS
<1>1. Len(sessions) = 0 /\ counted = {} /\ unclosed = {}
  BY EmptySeq DEF Init
<1>2. 1..Len(sessions) = {}
  BY <1>1
<1> QED BY <1>1, <1>2 DEF EndInv, OpenEndsExplained

\* What was destroyed open was so before, if the destructor's variables and the ids stay.
LEMMA EndStays ==
    ASSUME EndInv, unclosed' = unclosed, GaveUp => GaveUp',
           unclosed # {} => counted' = counted,
           \A j \in 1..Len(sessions) : sessions'[j].id = sessions[j].id,
           counted \in SUBSET (1..Len(sessions)),
           1..Len(sessions) \subseteq 1..Len(sessions')
    PROVE  unclosed' \subseteq 1..Len(sessions') /\ OpenEndsExplained'
<1>1. unclosed \subseteq 1..Len(sessions)
  BY DEF EndInv
<1>2. ASSUME NEW s \in unclosed
      PROVE  GaveUp' \/ \A t \in counted' :
                 getLoopForHash(sessions'[t].id) # getLoopForHash(sessions'[s].id)
  <2>1. counted' = counted
    BY <1>2
  <2>2. GaveUp \/ \A t \in counted : getLoopForHash(sessions[t].id) # getLoopForHash(sessions[s].id)
    BY <1>2 DEF EndInv, OpenEndsExplained
  <2>3. \A t \in counted : sessions'[t].id = sessions[t].id
    OBVIOUS
  <2>4. sessions'[s].id = sessions[s].id
    BY <1>1, <1>2
  <2> QED BY <2>1, <2>2, <2>3, <2>4
<1> QED BY <1>1, <1>2 DEF OpenEndsExplained

\* Steps that leave sessions, tasks and workers alone.
LEMMA EndIdle ==
    ASSUME CountInv, EndInv, UNCHANGED <<sessions, pending, counted, unclosed>>,
           running' = running, session_map_' = session_map_ \/ life # "listening",
           life' = life \/ (life # "listening" /\ (life' \in {"unwinding", "gone"} \/ unclosed = {})),
           GaveUp => GaveUp'
    PROVE  EndInv'
<1>1. unclosed' \subseteq 1..Len(sessions') /\ OpenEndsExplained'
  BY EndStays DEF CountInv
<1>2. \A i \in 1..Len(sessions) :
           getLoopForHash(sessions[i].id) \in running /\ ~sessions[i].closed =>
               \/ session_map_'[sessions[i].id] = i /\ life' = "listening"
               \/ HasClose(pending[getLoopForHash(sessions[i].id)], i)
  BY DEF EndInv
<1>3. \A t \in counted : LastCounts(pending[getLoopForHash(sessions[t].id)])
  BY DEF EndInv
<1>4. unclosed' # {} => life' \in {"unwinding", "gone"}
  BY DEF EndInv
<1> QED BY <1>1, <1>2, <1>3, <1>4 DEF EndInv

\* While the server listens.
LEMMA PostsEnd ==
    ASSUME BaseInv, CountInv, EndInv, life = "listening", PostsOn,
           UNCHANGED <<life, counted, try_times, running, unclosed>>
    PROVE  EndInv'
<1>1. counted = {}
  BY DEF BaseInv, ControlInv
<1>2. /\ 1..Len(sessions) \subseteq 1..Len(sessions')
      /\ \A i \in 1..Len(sessions) : sessions'[i] = sessions[i]
  BY DEF PostsOn
<1>3. unclosed' \subseteq 1..Len(sessions') /\ OpenEndsExplained'
  <2>1. GaveUp => GaveUp'
    BY DEF GaveUp
  <2>2. counted \in SUBSET (1..Len(sessions))
    BY DEF CountInv
  <2> QED BY <1>2, <2>1, <2>2, EndStays
<1>4. ASSUME NEW i \in 1..Len(sessions'), ~sessions'[i].closed,
             getLoopForHash(sessions'[i].id) \in running
      PROVE  \/ session_map_'[sessions'[i].id] = i /\ life' = "listening"
             \/ HasClose(pending'[getLoopForHash(sessions'[i].id)], i)
  <2>1. CASE i \notin 1..Len(sessions)
    BY <2>1 DEF PostsOn
  <2>2. CASE i \in 1..Len(sessions)
    <3> DEFINE w == getLoopForHash(sessions[i].id)
    <3>1. w \in running /\ ~sessions[i].closed /\ sessions'[i] = sessions[i]
      BY <1>2, <1>4, <2>2
    <3>2. w \in Workers
      BY <3>1 DEF BaseInv, ControlInv
    <3>3. session_map_[sessions[i].id] = i \/ HasClose(pending[w], i)
      BY <2>2, <3>1 DEF EndInv
    <3>4. CASE HasClose(pending[w], i)
      <4> HIDE DEF w
      <4>1. Grows(pending[w], pending'[w])
        BY <3>2 DEF PostsOn
      <4>2. HasClose(pending'[w], i)
        BY <3>4, <4>1, CloseGrows
      <4> QED BY <3>1, <4>2 DEF w
    <3>5. CASE session_map_[sessions[i].id] = i
      BY <2>2, <3>1, <3>5 DEF PostsOn
    <3> QED BY <3>3, <3>4, <3>5
  <2> QED BY <2>1, <2>2
<1> QED BY <1>1, <1>3, <1>4 DEF EndInv

\* A worker runs a task.
LEMMA RunEnd ==
    ASSUME BaseInv, CountInv, EndInv, NEW w \in Workers, RunTask(w)
    PROVE  EndInv'
<1> DEFINE P == pending[w]
           t == Head(P)
<1>1. /\ w \in running /\ P # <<>> /\ t \in TaskRec /\ TaskFits(t, w, sessions) /\ Runs(t)
      /\ pending' = [pending EXCEPT ![w] = Tail(@)]
      /\ UNCHANGED <<baseVars, readVars, running, unclosed>>
  BY TaskEffect DEF BaseInv
<1>2. UNCHANGED <<life, counted, try_times, session_map_, running, unclosed>>
  BY <1>1 DEF baseVars
<1>3. P \in Seq(TaskRec) /\ pending'[w] = Tail(P) /\ \A v \in Workers : v # w => pending'[v] = pending[v]
  BY <1>1 DEF BaseInv, SessionInv
<1>4. t.s \in 1..Len(sessions) /\ SessionInv
  BY <1>1 DEF TaskFits, BaseInv
<1>5. /\ Len(sessions') = Len(sessions)
      /\ \A j \in 1..Len(sessions) : sessions'[j].id = sessions[j].id /\ sessions[j] \in SessionRec
      /\ \A j \in 1..Len(sessions) : sessions[j].closed => sessions'[j].closed
      /\ Closing(t) => sessions'[t.s].closed
  <2> HIDE DEF t
  <2> QED BY <1>1, <1>4, OneRuns, RunCloses
<1>6. /\ \A i : HasClose(P, i) => HasClose(Tail(P), i) \/ (t.s = i /\ Closing(t))
      /\ LastCounts(P) => LastCounts(Tail(P))
  <2>1. P # <<>>
    BY <1>1
  <2> HIDE DEF P
  <2> QED BY <1>3, <2>1, CloseTail
<1> HIDE DEF t
<1>7. unclosed' \subseteq 1..Len(sessions') /\ OpenEndsExplained'
  <2>1. GaveUp => GaveUp'
    BY <1>2 DEF GaveUp
  <2>2. counted \in SUBSET (1..Len(sessions))
    BY DEF CountInv
  <2>3. 1..Len(sessions) \subseteq 1..Len(sessions')
    BY <1>5
  <2> QED BY <1>2, <1>5, <2>1, <2>2, <2>3, EndStays
<1>8. ASSUME NEW i \in 1..Len(sessions'), ~sessions'[i].closed,
             getLoopForHash(sessions'[i].id) \in running
      PROVE  \/ session_map_'[sessions'[i].id] = i /\ life' = "listening"
             \/ HasClose(pending'[getLoopForHash(sessions'[i].id)], i)
  <2> DEFINE v == getLoopForHash(sessions[i].id)
  <2>1. /\ i \in 1..Len(sessions) /\ sessions'[i].id = sessions[i].id /\ ~sessions[i].closed
        /\ v \in running
    BY <1>5, <1>8
  <2>2. (session_map_[sessions[i].id] = i /\ life = "listening") \/ HasClose(pending[v], i)
    BY <2>1 DEF EndInv
  <2>3. v \in Workers
    BY <2>1 DEF BaseInv, ControlInv
  <2>4. ~(t.s = i /\ Closing(t))
    BY <1>5, <1>8
  <2> HIDE DEF v
  <2>5. HasClose(pending[v], i) => HasClose(pending'[v], i)
    BY <1>3, <1>6, <2>3, <2>4
  <2> QED BY <1>2, <2>1, <2>2, <2>5 DEF v
<1>9. ASSUME NEW c \in counted PROVE LastCounts(pending'[getLoopForHash(sessions'[c].id)])
  <2> DEFINE v == getLoopForHash(sessions[c].id)
  <2>1. sessions'[c].id = sessions[c].id /\ v \in Workers
    BY <1>5, CountedIds, LoopIsWorker
  <2>2. LastCounts(pending[v])
    BY DEF EndInv
  <2> HIDE DEF v
  <2>3. LastCounts(pending'[v])
    BY <1>3, <1>6, <2>1, <2>2
  <2> QED BY <2>1, <2>3 DEF v
<1> QED BY <1>2, <1>7, <1>8, <1>9 DEF EndInv

\* A timer runs.
LEMMA TimerEnd ==
    ASSUME BaseInv, CountInv, EndInv, NEW w \in Workers, NEW k \in DOMAIN sessions, StateTimer(w, k)
    PROVE  EndInv'
<1>1. /\ (sessions[k].closed /\ sessions' = sessions) \/ Ticks(k)
      /\ UNCHANGED <<baseVars, readVars, pending, running, num_closed, unclosed, faults>>
  BY TimerEffect DEF BaseInv
<1>2. UNCHANGED <<life, counted, try_times, pending, session_map_, running, unclosed>>
  BY <1>1 DEF baseVars
<1>3. GaveUp => GaveUp'
  BY <1>2 DEF GaveUp
<1>4. CASE sessions' = sessions
  BY <1>2, <1>3, <1>4, EndIdle
<1>5. CASE Ticks(k)
  <2>1. PICK r : Becomes(k, r) /\ r.id = sessions[k].id /\ ~sessions[k].closed
    BY <1>5 DEF Ticks, Waits, Downs
  <2>2. /\ Len(sessions') = Len(sessions)
        /\ \A j \in 1..Len(sessions) : /\ sessions'[j].id = sessions[j].id
                                       /\ j # k => sessions'[j] = sessions[j]
    BY <2>1, OneBecomes DEF BaseInv
  <2>3. unclosed' \subseteq 1..Len(sessions') /\ OpenEndsExplained'
    <3>1. counted \in SUBSET (1..Len(sessions))
      BY DEF CountInv
    <3>2. 1..Len(sessions) \subseteq 1..Len(sessions')
      BY <2>2
    <3> QED BY <1>2, <1>3, <2>2, <3>1, <3>2, EndStays
  <2>4. ASSUME NEW i \in 1..Len(sessions'), ~sessions'[i].closed,
               getLoopForHash(sessions'[i].id) \in running
        PROVE  \/ session_map_'[sessions'[i].id] = i /\ life' = "listening"
               \/ HasClose(pending'[getLoopForHash(sessions'[i].id)], i)
    <3>1. i \in 1..Len(sessions) /\ ~sessions[i].closed /\ sessions'[i].id = sessions[i].id
      BY <2>1, <2>2, <2>4
    <3> QED BY <1>2, <2>4, <3>1 DEF EndInv
  <2>5. \A c \in counted : LastCounts(pending'[getLoopForHash(sessions'[c].id)])
    <3>1. \A c \in counted : sessions'[c].id = sessions[c].id
      BY <2>2, CountedIds
    <3> QED BY <1>2, <3>1 DEF EndInv
  <2> QED BY <1>2, <2>3, <2>4, <2>5 DEF EndInv
<1> QED BY <1>1, <1>4, <1>5

\* A worker ends.  If the destructor waited for a session of its own, all tasks before the last one
\* that counts were run, or it gave up.
LEMMA LoopEnd ==
    ASSUME BaseInv, CountInv, EndInv, NEW w \in Workers, LoopEnds(w)
    PROVE  EndInv'
<1>1. /\ w \in running /\ w \in quit /\ running' = running \ {w}
      /\ pending' = [pending EXCEPT ![w] = <<>>]
      /\ unclosed' = unclosed \cup {s \in DOMAIN sessions :
             getLoopForHash(sessions[s].id) = w /\ ~sessions[s].closed}
      /\ UNCHANGED <<life, counted, try_times, session_map_, sessions>>
  BY DEF LoopEnds, baseVars
<1>2. life \in {"unwinding", "gone"} /\ DOMAIN sessions = 1..Len(sessions)
  BY <1>1 DEF BaseInv, ControlInv, SessionInv
<1>3. pending'[w] = <<>> /\ \A v \in Workers : v # w => pending'[v] = pending[v]
  BY <1>1 DEF BaseInv, SessionInv
<1>4. LastCounts(pending'[w])
  <2>1. Len(pending'[w]) = 0
    BY <1>3, EmptySeq
  <2> QED BY <2>1 DEF LastCounts
<1>5. ASSUME NEW s \in 1..Len(sessions), getLoopForHash(sessions[s].id) = w, ~sessions[s].closed,
             NEW c \in counted, getLoopForHash(sessions[c].id) = w
      PROVE  GaveUp
  <2> DEFINE P == pending[w]
             l == Len(P)
  <2>1. HasClose(P, s)
    BY <1>1, <1>2, <1>5 DEF EndInv
  <2>2. P \in Seq(TaskRec) /\ l \in Nat
    BY DEF BaseInv, SessionInv
  <2>3. PICK k \in 1..l : Closing(P[k])
    BY <2>1 DEF HasClose
  <2>4. l > 0 /\ l \in 1..l
    <3> HIDE DEF l
    <3> QED BY <2>2
  <2>5. IsCount(P[l])
    BY <1>5, <2>4 DEF EndInv, LastCounts
  <2>6. P[l] \in TaskRec /\ TaskFits(P[l], w, sessions)
    BY <2>2, <2>4 DEF BaseInv, SessionInv
  <2> DEFINE x == P[l].s
  <2>7. x \in CountsOf(P) /\ getLoopForHash(sessions[x].id) = w
    BY <2>4, <2>5, <2>6 DEF CountsOf, TaskFits, TaskRec
  <2>8. x \in counted
    BY <2>7 DEF CountInv, CountsOK
  <2> HIDE DEF x, P
  <2>9. x \in Left
    BY <2>7, <2>8 DEF Left, P
  <2> QED BY <1>2, <2>9 DEF CountInv
<1>6. unclosed' \subseteq 1..Len(sessions')
  BY <1>1, <1>2 DEF EndInv
<1>7. OpenEndsExplained'
  <2>1. GaveUp' = GaveUp
    BY <1>1 DEF GaveUp
  <2> SUFFICES ASSUME NEW s \in unclosed', ~GaveUp,
                      NEW c \in counted
               PROVE  getLoopForHash(sessions[c].id) # getLoopForHash(sessions[s].id)
    BY <1>1, <2>1 DEF OpenEndsExplained
  <2>2. CASE s \in unclosed
    BY <2>2 DEF EndInv, OpenEndsExplained
  <2>3. CASE s \in 1..Len(sessions) /\ getLoopForHash(sessions[s].id) = w /\ ~sessions[s].closed
    BY <1>5, <2>3
  <2> QED BY <1>1, <1>2, <2>2, <2>3
<1>8. ASSUME NEW i \in 1..Len(sessions), ~sessions[i].closed,
             getLoopForHash(sessions[i].id) \in running'
      PROVE  HasClose(pending'[getLoopForHash(sessions[i].id)], i)
  <2> DEFINE v == getLoopForHash(sessions[i].id)
  <2>1. v \in running /\ v # w
    BY <1>1, <1>8
  <2>2. HasClose(pending[v], i)
    BY <1>2, <1>8, <2>1 DEF EndInv
  <2>3. v \in Workers
    BY <2>1 DEF BaseInv, ControlInv
  <2> HIDE DEF v
  <2>4. HasClose(pending'[v], i)
    BY <1>3, <2>1, <2>2, <2>3
  <2> QED BY <2>4 DEF v
<1>9. ASSUME NEW c \in counted PROVE LastCounts(pending'[getLoopForHash(sessions[c].id)])
  <2> DEFINE v == getLoopForHash(sessions[c].id)
  <2>1. v \in Workers
    BY CountedIds, LoopIsWorker
  <2>2. LastCounts(pending[v])
    BY DEF EndInv
  <2> HIDE DEF v
  <2>3. LastCounts(pending'[v])
    BY <1>3, <1>4, <2>1, <2>2
  <2> QED BY <2>3 DEF v
<1> QED BY <1>1, <1>2, <1>6, <1>7, <1>8, <1>9 DEF EndInv

\* The destructor posts a task for every session of the map.
LEMMA DestroyEnd ==
    ASSUME BaseInv, CountInv, EndInv, Destroy
    PROVE  EndInv'
<1>1. /\ life = "listening" /\ life' = "spinning"
      /\ UNCHANGED <<session_map_, try_times, sessions, running, unclosed>>
      /\ counted' \in SUBSET (1..Len(sessions))
      /\ \A id \in Ids : session_map_[id] # 0 => session_map_[id] \in counted'
      /\ pending' \in [Workers -> Seq(TaskRec)]
      /\ \A w \in Workers : PostsCounts(w)
  BY DestroyEffect DEF BaseInv, workVars
<1>2. unclosed' = {} /\ unclosed = {} /\ pending \in [Workers -> Seq(TaskRec)]
  BY <1>1 DEF EndInv, BaseInv, SessionInv
<1>3. ASSUME NEW i \in 1..Len(sessions)
      PROVE  sessions[i].id \in Ids /\ getLoopForHash(sessions[i].id) \in Workers
  <2>1. sessions[i] \in SessionRec
    BY DEF BaseInv, SessionInv
  <2> QED BY <2>1, LoopIsWorker DEF SessionRec
<1>4. \A s : CountTask(s).s = s /\ IsCount(CountTask(s)) /\ Closing(CountTask(s))
  BY DEF CountTask, Task, IsCount, Closing
<1>5. ASSUME NEW w \in Workers
      PROVE  Len(pending[w]) \in Nat /\ Len(pending'[w]) \in Nat /\ PostsCounts(w)
             /\ Grows(pending[w], pending'[w])
  <2>1. pending[w] \in Seq(TaskRec) /\ pending'[w] \in Seq(TaskRec)
        /\ Len(pending[w]) \in Nat /\ Len(pending'[w]) \in Nat /\ PostsCounts(w)
    BY <1>1, <1>2
  <2> QED BY <2>1 DEF PostsCounts, Grows
<1>6. ASSUME NEW i \in counted', NEW w, w = getLoopForHash(sessions[i].id)
      PROVE  \E k \in (Len(pending[w]) + 1)..Len(pending'[w]) : pending'[w][k] = CountTask(i)
  <2>1. w \in Workers
    BY <1>1, <1>3, <1>6
  <2> QED BY <1>5, <1>6, <2>1 DEF PostsCounts
<1>7. ASSUME NEW i \in 1..Len(sessions), ~sessions[i].closed,
             getLoopForHash(sessions[i].id) \in running
      PROVE  HasClose(pending'[getLoopForHash(sessions[i].id)], i)
  <2> DEFINE w == getLoopForHash(sessions[i].id)
  <2>1. w \in Workers /\ w = getLoopForHash(sessions[i].id)
    BY <1>3
  <2>2. session_map_[sessions[i].id] = i \/ HasClose(pending[w], i)
    BY <1>7 DEF EndInv
  <2> HIDE DEF w
  <2>3. CASE HasClose(pending[w], i)
    BY <1>5, <2>1, <2>3, CloseGrows
  <2>4. CASE session_map_[sessions[i].id] = i
    <3>1. i # 0
      BY DEF BaseInv, SessionInv
    <3>2. i \in counted'
      BY <1>1, <1>3, <2>4, <3>1
    <3>3. PICK k \in (Len(pending[w]) + 1)..Len(pending'[w]) : pending'[w][k] = CountTask(i)
      BY <1>6, <2>1, <3>2
    <3> DEFINE l == Len(pending[w])
               m == Len(pending'[w])
    <3>4. k \in (l + 1)..m /\ l \in Nat /\ m \in Nat
      BY <1>5, <2>1
    <3> HIDE DEF l, m
    <3>5. k \in 1..m
      BY <3>4
    <3>6. HasClose(pending'[w], i)
      BY <1>4, <3>3, <3>5 DEF HasClose, m
    <3> QED BY <2>1, <3>6
  <2> QED BY <2>1, <2>2, <2>3, <2>4
<1>8. ASSUME NEW c \in counted' PROVE LastCounts(pending'[getLoopForHash(sessions[c].id)])
  <2> DEFINE w == getLoopForHash(sessions[c].id)
             l == Len(pending[w])
             m == Len(pending'[w])
  <2>1. w \in Workers /\ w = getLoopForHash(sessions[c].id)
    BY <1>1, <1>3
  <2> HIDE DEF w
  <2>2. PICK k \in (l + 1)..m : pending'[w][k] = CountTask(c)
    BY <1>6, <2>1
  <2>3. l \in Nat /\ m \in Nat /\ PostsCounts(w)
    BY <1>5, <2>1
  <2>4. m \in (l + 1)..m
    <3> HIDE DEF l, m
    <3> QED BY <2>2, <2>3
  <2>5. PICK s \in counted' : pending'[w][m] = CountTask(s)
    BY <2>3, <2>4 DEF PostsCounts
  <2>6. IsCount(pending'[w][m])
    BY <1>4, <2>5
  <2> QED BY <2>6 DEF LastCounts, w
<1>9. OpenEndsExplained'
  BY <1>2 DEF OpenEndsExplained
<1> QED BY <1>1, <1>2, <1>7, <1>8, <1>9 DEF EndInv

\* The spin: one turn, and its end.
LEMMA SpinEnd ==
    ASSUME BaseInv, CountInv, EndInv, Spin \/ SpinEnds
    PROVE  EndInv'
<1>1. CASE Spin
  <2>1. /\ life = "spinning" /\ try_times' = try_times + 1 /\ ~GaveUp
        /\ UNCHANGED <<life, sessions, pending, counted, unclosed, running, session_map_>>
    BY <1>1 DEF Spin, workVars
  <2> QED BY <2>1, EndIdle
<1>2. CASE SpinEnds
  <2>1. /\ life = "spinning" /\ life' = "unwinding"
        /\ UNCHANGED <<sessions, pending, counted, unclosed, running, try_times>>
    BY <1>2 DEF SpinEnds, workVars
  <2>2. GaveUp => GaveUp'
    BY <2>1 DEF GaveUp
  <2> QED BY <2>1, <2>2, EndIdle
<1> QED BY <1>1, <1>2

\* Listen starts the workers, before there is a session.
LEMMA ListenEnd ==
    ASSUME BaseInv, CountInv, EndInv, NEW f, Listen(f)
    PROVE  EndInv'
<1>1. /\ life = "constructed"
      /\ UNCHANGED <<session_map_, counted, try_times, pending, sessions, unclosed>>
  BY DEF Listen
<1>2. sessions = <<>> /\ counted = {} /\ unclosed = {}
  BY <1>1 DEF BaseInv, ControlInv, EndInv
<1>3. 1..Len(sessions') = {}
  <2>1. Len(sessions') = 0
    BY <1>1, <1>2, EmptySeq
  <2> QED BY <2>1
<1>4. unclosed' = {} /\ counted' = {}
  BY <1>1, <1>2
<1> QED BY <1>3, <1>4 DEF EndInv, OpenEndsExplained

\* Every step keeps EndInv.
LEMMA EndStep == BaseInv /\ CountInv /\ EndInv /\ [Next]_vars => EndInv'
<1> SUFFICES ASSUME BaseInv, CountInv, EndInv, [Next]_vars PROVE EndInv'
  OBVIOUS
<1>1. ASSUME UNCHANGED <<life, counted, try_times, sessions, pending, running, unclosed, session_map_>>
      PROVE  EndInv'
  <2>1. GaveUp => GaveUp'
    BY <1>1 DEF GaveUp
  <2> QED BY <1>1, <2>1, EndIdle
<1>2. CASE \E a \in Arrivals : Deliver(a)
  BY <1>1, <1>2 DEF Deliver, Arrive, baseVars, workVars
<1>3. CASE \E w \in Workers : Bounce(w)
  BY <1>1, <1>3 DEF Bounce, baseVars, workVars
<1>4. CASE HandleRead
  BY <1>1, <1>4 DEF HandleRead, baseVars, workVars
<1>5. CASE ProcessPacket
  <2>1. life = "listening" /\ UNCHANGED <<life, counted, try_times, running, unclosed>>
    BY <1>5 DEF ProcessPacket, workVars
  <2> QED BY <1>5, <2>1, PacketPostsOn, PostsEnd
<1>6. CASE HandleError
  <2>1. life = "listening" /\ UNCHANGED <<life, counted, try_times, running, unclosed>>
    BY <1>6, ErrorEffect DEF baseVars, workVars
  <2> QED BY <1>6, <2>1, ErrorPostsOn, PostsEnd
<1>7. CASE UNCHANGED vars
  BY <1>1, <1>7 DEF vars, baseVars, workVars
<1>8. CASE \E w \in Workers : LoopEnds(w)
  BY <1>8, LoopEnd
<1>9. CASE \E w \in Workers : RunTask(w)
  BY <1>9, RunEnd
<1>10. CASE \E w \in Workers, i \in DOMAIN sessions : StateTimer(w, i)
  BY <1>10, TimerEnd
<1>11. CASE Destroy
  BY <1>11, DestroyEnd
<1>12. CASE Spin \/ SpinEnds
  BY <1>12, SpinEnd
<1>13. CASE QuitNext
  BY <1>1, <1>13 DEF QuitNext, workVars
<1>14. CASE CloseSocket
  <2>1. life = "unwinding" /\ life' = "gone"
        /\ UNCHANGED <<counted, try_times, sessions, pending, running, unclosed, session_map_>>
    BY <1>14 DEF CloseSocket, workVars
  <2>2. GaveUp => GaveUp'
    BY <2>1 DEF GaveUp
  <2> QED BY <2>1, <2>2, EndIdle
<1>15. CASE DestroyUnlistened
  <2>1. life = "constructed" /\ life' = "crashed"
        /\ UNCHANGED <<counted, try_times, sessions, pending, running, unclosed, session_map_>>
    BY <1>15 DEF DestroyUnlistened
  <2>2. unclosed = {} /\ (GaveUp => GaveUp')
    BY <2>1 DEF GaveUp, EndInv
  <2> QED BY <2>1, <2>2, EndIdle
<1>16. CASE \E f \in ListenFamilies : Listen(f)
  BY <1>16, ListenEnd
<1> QED BY <1>2, <1>3, <1>4, <1>5, <1>6, <1>7, <1>8, <1>9, <1>10, <1>11, <1>12, <1>13, <1>14, <1>15,
           <1>16 DEF Next, Destructor

\* The end of the sessions, for every behaviour.
LEMMA EndInvariant == Spec => [](BaseInv /\ EndInv)
<1>1. Init => BaseInv /\ CountInv /\ EndInv
  BY BaseInit, CountInit, EndInit
<1>2. BaseInv /\ CountInv /\ EndInv /\ [Next]_vars => BaseInv' /\ CountInv' /\ EndInv'
  BY BaseStep, CountStep, EndStep
<1> QED BY <1>1, <1>2, PTL DEF Spec

\* As long as its loop runs, an open session is in the map of a listening server or has its Close in
\* the queue of its own loop: no handler drops one and leaves it open (kcp_server.cc:42-49, 166-168,
\* 593-597).
THEOREM OpenSessionsKept == Spec => []OpenSessionsAreKept
<1>1. BaseInv /\ EndInv => OpenSessionsAreKept
  <2> SUFFICES ASSUME BaseInv, EndInv, NEW i \in DOMAIN sessions,
                      getLoopForHash(sessions[i].id) \in running, ~sessions[i].closed,
                      ~(session_map_[sessions[i].id] = i /\ life = "listening")
               PROVE  \E k \in DOMAIN pending[getLoopForHash(sessions[i].id)] :
                         /\ pending[getLoopForHash(sessions[i].id)][k].s = i
                         /\ pending[getLoopForHash(sessions[i].id)][k].task \in
                               {"close", "close and count"}
    BY DEF OpenSessionsAreKept
  <2> DEFINE w == getLoopForHash(sessions[i].id)
  <2>1. i \in 1..Len(sessions) /\ w \in Workers
    BY DEF BaseInv, SessionInv, ControlInv
  <2>2. HasClose(pending[w], i)
    BY <2>1 DEF EndInv
  <2>3. pending[w] \in Seq(TaskRec)
    BY <2>1 DEF BaseInv, SessionInv
  <2> HIDE DEF w
  <2>4. DOMAIN pending[w] = 1..Len(pending[w])
    BY <2>3
  <2>5. \E k \in DOMAIN pending[w] :
            pending[w][k].s = i /\ pending[w][k].task \in {"close", "close and count"}
    BY <2>2, <2>4 DEF HasClose, Closing
  <2> QED BY <2>5 DEF w
<1> QED BY <1>1, EndInvariant, PTL

\* Where the assertion of ~KCPSession can fail, and nowhere else: a session is destroyed open only
\* if the destructor gave up waiting, or waited for no session of the loop that ended
\* (kcp_server.cc:44-55, kcp_session.cc:22).
THEOREM OpenEnds == Spec => []OpenEndsExplained
<1>1. EndInv => OpenEndsExplained
  BY DEF EndInv
<1> QED BY <1>1, EndInvariant, PTL
===============================================================================
