------------------------------- MODULE UDPSocket -------------------------------
(***************************************************************************)
(* src/kcp/udp_socket.cc: the socket object and the kernel's side of it.   *)
(* A world w is the object, w.socket, and the kernel's open descriptors,   *)
(* w.kernel.  Every system call may fail: an operation stands for the set  *)
(* of its outcomes, each with the return code and the world it leaves.     *)
(* Operations keep the code's convention, a negative code is an error.     *)
(***************************************************************************)
EXTENDS Integers, Sequences, FiniteSets

kInvalidSocket == -1
Error == -1            \* any -errno

Families == {"AF_INET", "AF_INET6"}
SocketOptions == {"REUSE_ADDRESS", "REUSE_PORT", "BROADCAST", "RECEIVE_ERROR",
                  "RECEIVE_DSCP_AND_ECN"}

NewUDPSocket ==
    [sockfd_ |-> kInvalidSocket, addr_family_ |-> "AF_UNSPEC", socket_options_ |-> {}]

IsValidSocket(s) == s.sockfd_ # kInvalidSocket

\* SockaddrStorage::ToSockAddr knows the two families of muduo's InetAddress.
ToSockAddr(family) == family \in Families

Outcome(rc, w) == [rc |-> rc, world |-> w]

\* The next call, made in each outcome without an error.
Then(outcomes, Call(_)) ==
    UNION {IF o.rc < 0 THEN {o} ELSE Call(o.world) : o \in outcomes}

Descriptor(w) == CHOOSE d \in w.kernel : d.fd = w.socket.sockfd_

\* AllowReceiveError and its siblings, all before the descriptor is there.
Allow(s, option) == [s EXCEPT !.socket_options_ = @ \cup {option}]

\* CreateSocket: the kernel gives the lowest free descriptor.
CreateSocket(w, family) ==
    LET fd == CHOOSE n \in 0..Cardinality(w.kernel) :
                  /\ \A d \in w.kernel : d.fd # n
                  /\ \A k \in 0..(n - 1) : \E d \in w.kernel : d.fd = k
    IN {Outcome(Error, w)} \cup
       IF ToSockAddr(family)
       THEN {Outcome(0, [socket |-> [w.socket EXCEPT !.sockfd_ = fd, !.addr_family_ = family],
                         kernel |-> w.kernel \cup {[fd |-> fd, options |-> {}, bound |-> FALSE]}])}
       ELSE {}

\* A system call on the descriptor: an error, or the change it makes.
Syscall(w, d) ==
    {Outcome(Error, w),
     Outcome(0, [w EXCEPT !.kernel = (@ \ {Descriptor(w)}) \cup {d}])}

\* SetSocketOptions: one setsockopt for each option asked for; the first that
\* fails ends it.  Which options an unfinished call has set no one can see.
SetSocketOptions(w) ==
    IF w.socket.socket_options_ = {} THEN {Outcome(0, w)}
    ELSE Syscall(w, [Descriptor(w) EXCEPT !.options = w.socket.socket_options_])

BindImpl(w, family) ==
    IF ToSockAddr(family) THEN Syscall(w, [Descriptor(w) EXCEPT !.bound = TRUE])
    ELSE {Outcome(Error, w)}

\* SetReceiveBufferSize and SetSendBufferSize: a size the kernel notes.
SetBufferSize(w, size) ==
    IF size < 0 THEN {Outcome(Error, w)} ELSE Syscall(w, Descriptor(w))

\* Close, also called by the destructor.
Close(w) ==
    IF ~IsValidSocket(w.socket) THEN w
    ELSE [socket |-> [w.socket EXCEPT !.sockfd_ = kInvalidSocket,
                                      !.addr_family_ = "AF_UNSPEC",
                                      !.socket_options_ = {}],
          kernel |-> w.kernel \ {Descriptor(w)}]

\* Bind closes what it opened when a later call fails.
Bind(w, family) ==
    {IF o.rc < 0 THEN Outcome(o.rc, Close(o.world)) ELSE o :
        o \in Then(CreateSocket(w, family),
                   LAMBDA v : Then(SetSocketOptions(v), LAMBDA u : BindImpl(u, family)))}

\* GetLocalAddress: when getsockname fails it returns errno itself, a positive
\* number, and not -errno; an address of another family is -EADDRNOTAVAIL.
GetLocalAddress(w) ==
    IF ~IsValidSocket(w.socket) THEN {Outcome(Error, w)}
    ELSE {Outcome(-Error, w), Outcome(Error, w), Outcome(0, w)}

\* recvmmsg takes what is there, up to vlen datagrams; sendmmsg and sendto hand
\* any number of their datagrams to the kernel, none when they fail.
RecvMmsg(queue, vlen) == IF Len(queue) < vlen THEN Len(queue) ELSE vlen
SendMmsg(packets) == {SubSeq(packets, 1, n) : n \in 0..Len(packets)}
===============================================================================
