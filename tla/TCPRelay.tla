------------------------------- MODULE TCPRelay -------------------------------
(***************************************************************************)
(* TCPRelayServer, ServerConnMeta and Tunnel (src/tcprelay): one event     *)
(* loop of the relay with the connections clients make to it, the lookups  *)
(* it starts for them and the upstream connections its tunnels open.       *)
(*                                                                         *)
(* Every action is one event the loop handles: it runs to its end before   *)
(* the next one. What can happen between two of them is the subject: a     *)
(* client that goes away during its lookup or while the tunnel connects,   *)
(* payload that arrives before the upstream is there, an upstream that     *)
(* answers or closes early, a backlog at the high-water mark.              *)
(***************************************************************************)
EXTENDS Resolver, Encryptor, RelayRequest, MuduoTcp, SequencesExt

CONSTANTS IvLen,             \* GetCipherIvLength
          Request(_),        \* the plain text the client of a connection sends
          Response(_),       \* the bytes the upstream of a connection sends
          ReadSizes(_),      \* how many bytes one read may bring
          ServerMark,        \* 10 MB: high-water mark towards the client
          UpstreamMark,      \* 100 MB: high-water mark towards the upstream
          CipherFails,       \* the connections whose EVP_CipherUpdate may report a failure
          None               \* no object

ASSUME RelayAssumption ==
  /\ IvLen \in Nat \ {0}
  /\ CipherFails \subseteq Conns
  /\ ServerMark \in Nat /\ UpstreamMark \in Nat

VARIABLES server,     \* the connection of each client
          arrived,    \* how much of the client's stream has been read
          meta,       \* its ServerConnMeta: decryptor, request and buffer
          MetaList,   \* the connections with an entry in LocalMetaList
          tunnel,     \* its Tunnel: encryptor, sent_iv_, data_buf_, address
          TunnelList, \* the connections with an entry in LocalTunnelList
          upstream,   \* the tunnel's connection
          context,    \* the connections whose context holds the upstream
          spoken,     \* how much of its response the upstream has sent
          leftEarly,  \* history: the clients that left before their upstream was there
          aborted     \* an assertion has failed and the process is gone

relayVars == <<server, arrived, meta, MetaList, tunnel, TunnelList, upstream,
               context, spoken, leftEarly, aborted>>
vars == <<relayVars, resolverVars>>

Iv(c) == [i \in 1..IvLen |-> (i + Len(Request(c))) % Base]

\* Both sides speak in bytes, and a read brings some. A key stream is needed as far as they go.
ASSUME StreamAssumption ==
  \A c \in Conns :
    /\ Request(c) \in Seq(Byte) /\ Response(c) \in Seq(Byte)
    /\ ReadSizes(c) \subseteq Nat \ {0}
    /\ \A i \in 1..(Len(Request(c)) + Len(Response(c))) : KeyStream(Iv(c), i) \in Nat

\* What a client puts on the wire: the vector, and its request encrypted.
Stream(c) == Iv(c) \o Crypt(NewEncryptor(Iv(c), TRUE), Request(c))

Init ==
  /\ ResolverInit
  /\ server = [c \in Conns |-> NewConn("idle")]
  /\ upstream = [c \in Conns |-> NewConn("idle")]
  /\ arrived = [c \in Conns |-> 0]
  /\ spoken = [c \in Conns |-> 0]
  /\ meta = [c \in Conns |-> None]
  /\ tunnel = [c \in Conns |-> None]
  /\ MetaList = {} /\ TunnelList = {} /\ context = {} /\ leftEarly = {}
  /\ aborted = FALSE

-------------------------------------------------------------------------------
\* Tunnel

NewTunnel(m, addr) ==
  [encryptor |-> NewEncryptor(m.decryptor.iv, TRUE), sent_iv |-> FALSE,
   data_buf |-> <<>>, addr |-> addr]

\* disconnect(): TcpClient shuts down the connection it has. One that is still
\* being made is not stopped.
disconnect(c) == upstream' = [upstream EXCEPT ![c] = Shutdown(@)]

\* teardown(): the client's connection forgets the upstream and is shut down.
teardown(c) ==
  /\ context' = context \ {c}
  /\ server' = [server EXCEPT ![c] = Shutdown(@)]

\* A faulty onClientConnection: what waited for the upstream is left in the buffer.
onClientConnectionUpNoFlush(c) ==
  /\ upstream[c].state = "connecting"
  /\ context' = context \cup {c}
  /\ upstream' = [upstream EXCEPT ![c].state = "connected"]
  /\ UNCHANGED <<server, arrived, meta, MetaList, tunnel, TunnelList, spoken, leftEarly,
                 aborted, resolverVars>>

\* onClientConnection, UP: what arrived for the upstream so far goes first.
onClientConnectionUp(c) ==
  /\ upstream[c].state = "connecting"
  /\ context' = context \cup {c}
  /\ LET up == [upstream[c] EXCEPT !.state = "connected"]
         buf == meta[c].buf IN
     \E n \in Accepts(up, Len(buf)) :
       upstream' = [upstream EXCEPT ![c] = Send(up, buf, n, UpstreamMark)]
  /\ meta' = [meta EXCEPT ![c].buf = <<>>]
  /\ UNCHANGED <<server, arrived, MetaList, tunnel, TunnelList, spoken, leftEarly, aborted, resolverVars>>

\* onClientConnection, DOWN: the upstream closed, or answered our shutdown.
onClientConnectionDown(c) ==
  /\ Readable(upstream[c])
  /\ upstream' = [upstream EXCEPT ![c] = Down(@)]
  /\ teardown(c)
  /\ UNCHANGED <<arrived, meta, MetaList, tunnel, TunnelList, spoken, leftEarly, aborted, resolverVars>>

\* A faulty onClientMessage: sent_iv_ stays false, and every message is headed by the vector.
onClientMessageIvAgain(c, n) ==
  /\ Readable(upstream[c])
  /\ n \in 1..(Len(Response(c)) - spoken[c])
  /\ spoken' = [spoken EXCEPT ![c] = @ + n]
  /\ LET t == tunnel[c]
         bytes == SubSeq(Response(c), spoken[c] + 1, spoken[c] + n)
         data == t.encryptor.iv \o Crypt(t.encryptor, bytes)
     IN /\ server' = [server EXCEPT ![c] = Send(@, data, 0, ServerMark)]
        /\ tunnel' = [tunnel EXCEPT ![c].encryptor = Advance(@, bytes)]
  /\ UNCHANGED <<arrived, meta, MetaList, TunnelList, upstream, context, leftEarly, aborted,
                 resolverVars>>

\* onClientMessage: n bytes of the response, behind the vector the first time.
onClientMessage(c, n) ==
  /\ Readable(upstream[c])
  /\ n \in 1..(Len(Response(c)) - spoken[c])
  /\ spoken' = [spoken EXCEPT ![c] = @ + n]
  /\ LET t == tunnel[c]
         bytes == SubSeq(Response(c), spoken[c] + 1, spoken[c] + n)
         head == t.data_buf \o (IF t.sent_iv THEN <<>> ELSE t.encryptor.iv)
         data == head \o Crypt(t.encryptor, bytes)
     IN \/ /\ \E k \in Accepts(server[c], Len(data)) :
                server' = [server EXCEPT ![c] = Send(@, data, k, ServerMark)]
           /\ tunnel' = [tunnel EXCEPT ![c].sent_iv = TRUE,
                                       ![c].encryptor = Advance(@, bytes),
                                       ![c].data_buf = Unsent(server[c], data)]
           /\ UNCHANGED context
        \/ /\ c \in CipherFails
           /\ tunnel' = [tunnel EXCEPT ![c].sent_iv = TRUE, ![c].data_buf = head]
           /\ teardown(c)
  /\ UNCHANGED <<arrived, meta, MetaList, TunnelList, upstream, leftEarly, aborted, resolverVars>>

\* onHighWaterMark, queued by either connection: the tunnel is disconnected.
onHighWaterMark(c) ==
  /\ server[c].high \/ upstream[c].high
  /\ server' = [server EXCEPT ![c].high = FALSE]
  /\ upstream' = [upstream EXCEPT ![c] = [Shutdown(@) EXCEPT !.high = FALSE]]
  /\ UNCHANGED <<arrived, meta, MetaList, tunnel, TunnelList, context, spoken, leftEarly, aborted,
                 resolverVars>>

-------------------------------------------------------------------------------
\* TCPRelayServer

\* onServerConnection, UP.
onServerConnectionUp(c) ==
  /\ server[c].state = "idle"
  /\ server' = [server EXCEPT ![c].state = "connected"]
  /\ UNCHANGED <<arrived, meta, MetaList, tunnel, TunnelList, upstream, context, spoken,
                 leftEarly, aborted, resolverVars>>

\* A faulty onServerConnection: the tunnel is taken off the list and not disconnected.
onServerConnectionDownKeepsTunnel(c) ==
  /\ Readable(server[c])
  /\ server' = [server EXCEPT ![c] = Down(@)]
  /\ MetaList' = MetaList \ {c}
  /\ TunnelList' = TunnelList \ {c}
  /\ leftEarly' = IF query[c] = "pending" \/ upstream[c].state = "connecting"
                  THEN leftEarly \cup {c} ELSE leftEarly
  /\ UNCHANGED <<arrived, meta, tunnel, upstream, context, spoken, aborted, resolverVars>>

\* onServerConnection, DOWN, at any time: a tunnel that is already in the list
\* is disconnected, one that is not yet made is not heard of.
onServerConnectionDown(c) ==
  /\ Readable(server[c])
  /\ server' = [server EXCEPT ![c] = Down(@)]
  /\ MetaList' = MetaList \ {c}
  /\ IF c \in MetaList \cap TunnelList
     THEN disconnect(c) /\ TunnelList' = TunnelList \ {c}
     ELSE UNCHANGED <<upstream, TunnelList>>
  /\ leftEarly' = IF query[c] = "pending" \/ upstream[c].state = "connecting"
                  THEN leftEarly \cup {c} ELSE leftEarly
  /\ UNCHANGED <<arrived, meta, tunnel, context, spoken, aborted, resolverVars>>

\* resolveCallback for the lookups of done: each gets its tunnel, whatever has
\* become of the client's connection meanwhile.
resolveCallback(done, addr) ==
  /\ tunnel' = [c \in Conns |-> IF c \in done THEN NewTunnel(meta'[c], addr[c]) ELSE tunnel[c]]
  /\ upstream' = [c \in Conns |-> IF c \in done THEN NewConn("connecting") ELSE upstream[c]]
  /\ TunnelList' = TunnelList \cup done

\* A lookup that failed is reported as the address 0.0.0.0.
Addresses == {"resolved", "0.0.0.0"}

\* A faulty FirstMessage: without retrieveAll() the request stays in the input, and is taken for
\* payload at the next read.
FirstMessageKeepsInput(c, in) ==
  LET decryptor == NewEncryptor(SubSeq(in, 1, IvLen), FALSE)
      cipher == SubSeq(in, IvLen + 1, Len(in))
      request == ParseRequest(Crypt(decryptor, cipher))
  IN /\ server' = [server EXCEPT ![c].in = in]
     /\ IF Len(in) <= IvLen \/ request.result = "false"
        THEN UNCHANGED <<meta, MetaList, resolverVars>>
        ELSE /\ meta' = [meta EXCEPT ![c] = [decryptor |-> Advance(decryptor, cipher),
                                             host |-> request.host, port |-> request.port,
                                             buf |-> request.buf]]
             /\ MetaList' = MetaList \cup {c}
             /\ resolve(c, FALSE)
     /\ UNCHANGED <<tunnel, TunnelList, upstream, aborted>>

\* A connection without meta: nothing is kept but the input buffer, which is
\* decrypted and parsed from its start at every read until a request is there.
FirstMessage(c, in) ==
  LET decryptor == NewEncryptor(SubSeq(in, 1, IvLen), FALSE)
      cipher == SubSeq(in, IvLen + 1, Len(in))
      request == ParseRequest(Crypt(decryptor, cipher))
      NotYet == UNCHANGED <<meta, MetaList, tunnel, TunnelList, upstream, resolverVars>>
  IN \/ /\ Len(in) < IvLen \/ (Len(in) > IvLen /\ request.result = "false")
        /\ server' = [server EXCEPT ![c].in = in]
        /\ NotYet /\ UNCHANGED aborted
     \/ /\ Len(in) = IvLen               \* Decrypt asserts len > 0
        /\ aborted' = TRUE
        /\ NotYet /\ UNCHANGED server
     \/ /\ Len(in) > IvLen /\ c \in CipherFails
        /\ server' = [server EXCEPT ![c] = [Shutdown(@) EXCEPT !.in = in]]
        /\ NotYet /\ UNCHANGED aborted
     \/ /\ Len(in) > IvLen /\ request.result = "true"
        /\ meta' = [meta EXCEPT ![c] = [decryptor |-> Advance(decryptor, cipher),
                                        host |-> request.host, port |-> request.port,
                                        buf |-> request.buf]]
        /\ MetaList' = MetaList \cup {c}
        /\ server' = [server EXCEPT ![c].in = <<>>]
        /\ \/ resolve(c, FALSE) /\ UNCHANGED <<tunnel, TunnelList, upstream>>
           \/ /\ resolve(c, TRUE)
              /\ \E a \in Addresses : resolveCallback({c}, [x \in {c} |-> a])
        /\ UNCHANGED aborted

\* A faulty LaterMessage: new payload goes ahead of what waits in the meta's buffer.
LaterMessageOvertakes(c, in) ==
  LET m == meta[c]
      new == Crypt(m.decryptor, in)
      later == [m EXCEPT !.decryptor = Advance(@, in)]
  IN /\ server' = [server EXCEPT ![c].in = <<>>]
     /\ IF c \in context /\ upstream[c].state = "connected"
        THEN /\ upstream' = [upstream EXCEPT ![c] = Send(@, new, 0, UpstreamMark)]
             /\ meta' = [meta EXCEPT ![c] = later]
        ELSE /\ meta' = [meta EXCEPT ![c] = [later EXCEPT !.buf = new \o m.buf]]
             /\ UNCHANGED upstream

\* A connection with meta: everything is payload, and leaves with what waits
\* in the meta's buffer once the upstream is there.
LaterMessage(c, in) ==
  LET m == meta[c]
      buf == m.buf \o Crypt(m.decryptor, in)
  IN \/ /\ server' = [server EXCEPT ![c].in = <<>>]
        /\ LET later == [m EXCEPT !.decryptor = Advance(@, in)] IN
           IF c \in context
           THEN /\ \E n \in Accepts(upstream[c], Len(buf)) :
                     upstream' = [upstream EXCEPT ![c] = Send(@, buf, n, UpstreamMark)]
                /\ meta' = [meta EXCEPT ![c] = [later EXCEPT !.buf = Unsent(upstream[c], buf)]]
           ELSE /\ meta' = [meta EXCEPT ![c] = [later EXCEPT !.buf = buf]]
                /\ UNCHANGED upstream
     \/ /\ c \in CipherFails
        /\ server' = [server EXCEPT ![c] = [Shutdown(@) EXCEPT !.in = in]]
        /\ UNCHANGED <<meta, upstream>>

\* onServerMessage: n more bytes of the client's stream are read.
onServerMessage(c, n) ==
  /\ Readable(server[c])
  /\ n \in ReadSizes(c) /\ arrived[c] + n <= Len(Stream(c))
  /\ arrived' = [arrived EXCEPT ![c] = @ + n]
  /\ LET in == server[c].in \o SubSeq(Stream(c), arrived[c] + 1, arrived[c] + n) IN
     IF c \in MetaList
     THEN LaterMessage(c, in) /\ UNCHANGED <<MetaList, tunnel, TunnelList, aborted, resolverVars>>
     ELSE FirstMessage(c, in)
  /\ UNCHANGED <<context, spoken, leftEarly>>

\* The resolver's events, with the relay's callback in them.
LookupAnswered(s, done, fails) ==
  /\ onRead(s, done, fails)
  /\ meta' = meta
  /\ \E addr \in [done -> Addresses] : resolveCallback(done, addr)
  /\ UNCHANGED <<server, arrived, MetaList, context, spoken, leftEarly, aborted>>

LookupTimer(done) ==
  /\ onTimer(done)
  /\ meta' = meta
  /\ resolveCallback(done, [c \in done |-> "0.0.0.0"])
  /\ UNCHANGED <<server, arrived, MetaList, context, spoken, leftEarly, aborted>>

\* The sockets take what is queued for the peers.
handleWrite(c) ==
  /\ \/ /\ server[c].out # <<>>
        /\ server' = [server EXCEPT ![c] = Drain(@)] /\ UNCHANGED upstream
     \/ /\ upstream[c].out # <<>>
        /\ upstream' = [upstream EXCEPT ![c] = Drain(@)] /\ UNCHANGED server
  /\ UNCHANGED <<arrived, meta, MetaList, tunnel, TunnelList, context, spoken, leftEarly,
                 aborted, resolverVars>>

Event(c) ==
  \/ onServerConnectionUp(c) \/ onServerConnectionDown(c)
  \/ \E n \in ReadSizes(c) : onServerMessage(c, n)
  \/ onClientConnectionUp(c) \/ onClientConnectionDown(c)
  \/ \E n \in 1..Len(Response(c)) : onClientMessage(c, n)
  \/ onHighWaterMark(c) \/ handleWrite(c)

Next ==
  /\ ~aborted
  /\ \/ \E c \in Conns : Event(c)
     \/ \E s \in Sockets, done \in SUBSET Pending, fails \in BOOLEAN : LookupAnswered(s, done, fails)
     \/ \E done \in SUBSET Pending : LookupTimer(done)

\* The loop runs what is ready: backlogs drain while the peers read, and
\* c-ares gives every lookup up after a bounded number of timeouts.
Fairness ==
  \A c \in Conns :
    /\ WF_vars(~aborted /\ handleWrite(c))
    /\ WF_vars(~aborted /\ \E done \in SUBSET Pending : c \in done /\ LookupTimer(done))

Spec == Init /\ [][Next]_vars
FairSpec == Spec /\ Fairness

-------------------------------------------------------------------------------
\* Every variable has its type; no cipher context has processed more bytes than there are.
TypeOK ==
  /\ ResolverTypeOK
  /\ \A k \in {server, upstream} : \A c \in Conns :
       /\ k[c].state \in ConnStates /\ k[c].high \in BOOLEAN
       /\ {k[c].in, k[c].out, k[c].got} \subseteq Seq(Byte)
  /\ \A c \in Conns : /\ arrived[c] \in 0..Len(Stream(c))
                      /\ spoken[c] \in 0..Len(Response(c))
  /\ MetaList \cup TunnelList \cup context \cup leftEarly \subseteq Conns
  /\ \A c \in Conns : meta[c] # None => /\ meta[c].buf \in Seq(Byte)
                                        /\ meta[c].decryptor.pos \in 1..Len(Request(c))
  /\ \A c \in Conns : tunnel[c] # None => /\ tunnel[c].data_buf \in Seq(Byte)
                                          /\ tunnel[c].encryptor.pos \in 0..spoken[c]
  /\ aborted \in BOOLEAN

RequestStart(c) == CHOOSE t \in DOMAIN Request(c) : HasRequest(Request(c), t)
Asks(c) == \E t \in DOMAIN Request(c) : HasRequest(Request(c), t)
Read(c) == arrived[c] - IvLen       \* how much of the plain text has been read

\* However the stream is cut into reads, the relay acts on no request before all of it has been
\* read, has acted on it when a byte behind it has been read (with none, it may act or wait), and
\* has the host and the port the client asked for (onServerMessage decrypts and parses from the
\* start at each read, ServerConnMeta::ParseRequest).
RequestUnderstood ==
  \A c \in Conns :
    /\ c \in MetaList => Asks(c) /\ Len(Request(c)) - Read(c) <= Len(Payload(Request(c)))
    /\ /\ ~aborted /\ server[c].state = "connected"
       /\ Asks(c) /\ Len(Request(c)) - Read(c) < Len(Payload(Request(c)))
       => c \in MetaList
    /\ meta[c] # None =>
         /\ Asks(c)
         /\ meta[c].host = RequestHost(Request(c), RequestStart(c))
         /\ meta[c].port = RequestPort(Request(c), RequestStart(c))

\* What the upstream has and what is queued for it is, in order and without a
\* gap, the start of the client's payload: the part that came with the
\* request, the part that waited for the upstream, and the rest.
UpstreamSeesPayload ==
  \A c \in Conns : IsPrefix(upstream[c].got \o upstream[c].out, Payload(Request(c)))

\* What the client has and what is queued for it is the start of the vector
\* followed by the response encrypted in one run: the vector is sent once and
\* the encryptor neither skips nor repeats a byte, whatever send() refused and
\* however often the tunnel was torn down.
ClientSeesResponse ==
  \A c \in Conns :
    IsPrefix(server[c].got \o server[c].out,
             Iv(c) \o Crypt(NewEncryptor(Iv(c), TRUE), Response(c)))

\* An upstream connection that is open although its client has gone was not
\* there yet when the client left: its lookup was pending (resolveCallback
\* asks nothing about the connection) or the tunnel was still connecting
\* (disconnect() has nothing to shut down). There is no other way to one.
OrphansOnlyFromRaces ==
  \A c \in Conns :
    server[c].state = "down" /\ upstream[c].state \in {"connecting", "connected"} =>
      c \in leftEarly

\* The payload the relay has read reaches the upstream, unless one of the two
\* connections ends or the upstream never accepts: nothing waits for another
\* byte from the client once the upstream is there.
Ended(c) == aborted \/ server[c].state # "connected" \/ upstream[c].state \in {"disconnecting", "down"}
Delivered(c) == Len(upstream[c].got) + Len(Request(c)) - Read(c) >= Len(Payload(Request(c)))

PayloadReachesUpstream ==
  \A c \in Conns :
    \/ [](c \in MetaList => <>(Ended(c) \/ Delivered(c)))
    \/ <>[](upstream[c].state = "connecting")
===============================================================================
