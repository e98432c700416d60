# A verification project for cpp-code-blocks

TLA+ models of the `kcp/` library, the `tcprelay/` server and the `ai/2048/` game of
this repository, the runs that model-check them with TLC, and theorems about them
checked by TLAPS. `PROJECT.json` maps every
definition to the source lines it models.

## 1. Inventory

| part | state | operations | hard behaviour |
|---|---|---|---|
| `kcp/kcp_server.cc` KCPServer | `pending_session_map_`, `session_map_`, `idle_session_map_`, `time_wait_session_map_`, `write_blocked_` | one handler per packet type, `RunPeriodicTask`, `InitializeSession`, `GenerateSessionId`, the destructor | lost, repeated and late packets; timeouts; sessions on worker loops |
| `kcp/kcp_client.cc` KCPClient | `state_`, `pending_session_`, `session_`, two timestamps, socket, reconnect timer | `Connect`, `Disconnect`, one handler per packet type, `RunPeriodicTask`, `ResetSession` | retries, half-open sessions, reconnecting, user code inside handlers |
| `kcp/kcp_session.cc` KCPSession | `kcp_`, `closed_`, `peer_address_`, `state_timer_` | `Initialize`, `Write`, `ProcessPacket`, `UpdateConnectionState`, `Close` | user code between two messages, back-pressure |
| `kcp/ikcp.c` control block | queues, windows, sequence numbers, timers | `ikcp_send`, `ikcp_append`, `ikcp_input`, `ikcp_recv`, `ikcp_flush` | loss, duplication, reordering, number wrap, window limits |
| the threads of KCPServer (`kcp_server.cc`) | a base loop, worker loops with their posted tasks, one transmit queue per worker | `Listen`, `HandleRead`, `HandleError`, the posted tasks, `AppendPacket`, `FlushTxQueue`, `~KCPServer` | tasks of sessions already dropped, full queues, partial sends, destruction at any moment |
| `kcp/udp_socket.cc`, `kcp/kcp_packets.cc` | a descriptor; none | bind, options, batched send and receive; header encoding | failing system calls, full socket buffers, corrupted packets |
| `tcprelay/tcprelay.cc`, `tunnel.h` | connection metadata and tunnels per loop | connection, message and high-water callbacks, request parser | callbacks after the connection is gone, data before the tunnel is up |
| `tcprelay/resolver.cc` | a c-ares channel, its sockets, one timer | `resolve`, read and timer callbacks, query result | a lookup nobody drives, results for a client that left |
| `tcprelay/encryptor_openssl.cc` | a cipher context per direction | `Encrypt`, `Decrypt` | one byte too many or too few garbles all that follow |
| `ai/2048/ai_2048.cc` | a board | `TryMove`, `MiniMaxSearch`, iterative deepening | merging, pruning |
| `ai/2048/server.cc`, `client.cc`, `codec.cc` | the boards of both sides, a byte stream | message handlers, codec, dispatcher | agreement of two boards, frames in pieces, frames that are none |
| `common/`, `ai/2048/gens/`, `kcp/examples/` | none | | |

How they interact: a KCPClient and the KCPServer exchange six types of packets
over UDP. SYN, SYN, ACK set up a session under an id drawn by the server; both
ends then create a KCPSession, whose control block exchanges DATA packets; PING
and PONG keep it alive; RST ends what the other side does not know. Each
KCPSession runs on one event loop (with `num_threads_ = 0`, the default, the
server's own), and calls the user back from there.

With `num_threads_ > 0` the base loop reads the socket and posts each datagram to the
worker loop of its session; the workers send by themselves, each through a queue of
its own.

The relay reads a client's encrypted stream, parses the request at its head, looks the
host up, connects a Tunnel to it and then copies both ways: all of it in callbacks of
one loop per connection. In the game the client owns the board, sends it after every
move and gets the server's next move back; the server keeps a board of its own and
takes over only the new tile.

What makes the parts correct: the maps and pointers of each end agree with each
other in every state; a session is only ever bound to an id that was offered to its
peer; ids are not reused too early; handshakes end, dead sessions are detected
at both ends, live ones are not dropped; a session carries two byte streams in
order, within its windows, and does not stall silently. Datagrams cross to the
worker loops whole and in order, leave them once and in order, and the
destructor ends without leaving a thread something that is gone. The relay hands on
exactly the bytes of each side, and forgets neither a lookup nor a payload. A move of
the game is the move of the rules, the search finds what a full search finds, and the
two boards are equal whenever a side decides on them. The `hazards` of
`PROJECT.json` list where each of these could go wrong.

## 2. Modules

| module | models |
|---|---|
| `UDPNetwork` | the network: a set of packets; loses, duplicates, delays, reorders |
| `KCPNetwork` | the packets of the session protocol: type, session id, client address |
| `KCPServer` | `kcp_server.cc`, one action per handler |
| `KCPClient` | `kcp_client.cc`, one client behind each address in use |
| `KCPSystem` | clients, server and network composed; clients that change their address; fairness; the properties |
| `KCPSystemProofs` | theorems about `KCPSystem` |
| `Ikcp` | `ikcp.c`: operators from control blocks to control blocks |
| `KCPSession` | `kcp_session.cc`: two sessions and the network; the properties |
| `ByteStream` | abstract specification: what a session promises |
| `IkcpProofs` | lemmas about `Ikcp`: what each function keeps and returns, for control blocks of any size |
| `KCPSessionProofs` | theorems about `KCPSession`, the refinement of `ByteStream` among them |
| `KCPPacket` | `kcp_packets.cc`: the public header, byte for byte, and its checksum |
| `UDPSocket` | `udp_socket.cc`: each operation as the set of its outcomes |
| `KCPTransport` | `kcp_server.cc` with worker loops: reading, posting, sending, destruction |
| `InductionFacts` | induction on the natural numbers said of sets, recursive functions, digits |
| `KCPPacketProofs` | theorems about `KCPPacket`: reading back, noticing damage |
| `KCPTransportProofs` | theorems about `KCPTransport`: descriptors, datagrams from arrival to batch, transmit queues, callbacks, the end of the server |
| `RelayRequest` | `ServerConnMeta::ParseRequest` (`tunnel.h`), and what a request must mean |
| `Resolver` | `resolver.cc` over an abstract c-ares |
| `Encryptor` | `encryptor_openssl.cc` as a key stream |
| `MuduoTcp` | muduo's TcpConnection, as `tcprelay/` uses it (external) |
| `TCPRelay` | `tcprelay.cc` and Tunnel: composes the four above; the properties |
| `TCPRelayProofs` | theorems about `TCPRelay` |
| `AI2048` | `ai_2048.cc`: the board, the move, the evaluation and the search |
| `ProtobufCodec` | `codec.cc`: frames in a byte stream |
| `Game2048` | `server.cc` and `client.cc`: composes the two above; the properties |
| `Game2048Proofs` | theorems about `Game2048`, and what they need of `AI2048` and `ProtobufCodec` |
| `MCGame2048` | instance for TLC, with the reference definitions `Slide` and `BestByMiniMax` and the two properties that compare with them |
| `MCKCPSystem`, `MCKCPSession`, `MCKCPTransport`, `MCTCPRelay` | instances for TLC |

### KCPServer, KCPClient, KCPSystem

Maps are functions to `None` or an entry; names are the code's without the final
underscore. A timestamp is modelled by its age in clock ticks, saturating at the limit
it is compared with. `RunPeriodicTask` is enabled once its interval has passed
(`*_task_elapsed`), and may be late. A packet that `HandleRead` receives is handled
in one step, since handlers run on one loop without interruption.

Of a session these modules keep what server and client see: its id, its peer and
`closed_`; that it sends DATA at any time is `ServerSessionOutput` and
`ClientSessionOutput`. With worker loops a `Close` posted by the server waits in
`closing`, and the session goes on sending until it runs. A packet that
ProcessDataPacket queues for a worker is taken as processed at once: its effect
here is the peer's address only.

Clients are addresses, of which `NumPrograms` have a client program behind them (`hosts`). A
client may change to a free address at any moment (`AddressChanges`: another network, a
NAT that rebinds its port) and takes its whole state with it; packets for its old address then
find no socket. The server learns of it from the next DATA packet, to
whose sender it binds the session (`kcp_session.cc:219`), or does not learn of it at all, if
there is none. `issued` is a history variable: the ids that the server offered to an address, or
had offered to a client by the time it moved there.

Left out: the client's `HandleError` (it records a pending error that only `Close` logs;
the server's is in `KCPTransport`), failures of `InitializeSession`, the reconnect delay (the timer fires at any later
step), and user callbacks that call the KCPClient they run in. The id 0 is not among
the ids drawn.

### Ikcp and KCPSession

A control block is a record, the intrusive lists are sequences. Sequence numbers live in
`0..SeqSpace-1` and are compared with `_itimediff` as the code does; the runs
start at 14 of 16, the state of a long session that is idle, so that all numbers
wrap. A byte is its position in its writer's stream: reordering, loss and
repetition all show. A datagram is the sequence of segments that `ikcp_flush`
packed into it.

Time is a choice: any subset of the running resend timers (and the window probe)
may have expired at a flush. This covers every RTT and RTO, which are left out. So is
the congestion window: server and client use `kFastModeKCPParams`, with
`nocongestion = 1`. Conversation ids are checked before and are the same
here.

`ProcessPacketInLoopThread` is unrolled: `ProcessPacket` is its part up to the
loop, `OnReadEvent` one message handed to the callback, `ProcessPacketEnds` the rest.
Between them the message callback may `Write` or `Close`. Where an
assert of `WriteInLoopThread` fails, the model goes on as with `NDEBUG`.
`NumberingAssumption` keeps one conversation within half of the number space, as 32 bits do
for all but endless ones: since the network may hold a packet for ever, `_itimediff`
could otherwise take an old number for a new one. `FirstSn` puts the wrap anywhere.
`snd_hghwat` equals `snd_wnd`, because `Initialize` passes `params.snd_wnd` to
`ikcp_set_snd_hghwat`. A packet for a session that has closed is a lost one.

### KCPTransport

The steps are those of one thread between two points at which another can see a
difference: one datagram of `HandleRead`'s batch, one turn of `HandleError`, one posted
task, one timer, one turn of the destructor's spin loop. A packet type only matters here for what it posts, so the arrivals are
ACK (a session is created, if a handshake is pending), DATA (a task with a copy
of the bytes) and RST (`Close` is posted and the session leaves the map). Whether a handshake is pending
is a choice; `KCPServer` has the handshakes. Sessions stay in `sessions` when
they leave `session_map_`: tasks and timers hold a shared pointer to them.

`ReadPublicHeader` works on the bytes; a byte is a digit below `Base` and words have
four of them, so that the checksum wraps as in the code. The network may damage a
byte, cut a datagram short, or deliver one longer than the buffer. `ikcp_flush` is a
burst of packets; `sendmmsg` takes any prefix of a queue, and what it does not take is
dropped. HandleRead goes on after a full batch, and that next `recvmmsg` may also fail.

`~KCPServer` is five actions: `Destroy` posts `Close(true)` to the loops, `Spin` waits,
`SpinEnds` either saw all sessions closed or gave up after
`kServerMaxWaitSessionClosedTryTimes` turns, `QuitNext` ends the thread pool, and
`CloseSocket` is the rest. A loop that is told to quit may end with tasks not run;
what they would have done then shows in the histories: `unclosed` (a session was
destroyed open) and `faults` (a task incremented the destructor's counter after it was
gone). A server that never listened has no `channel_`, and its destructor crashes:
`DestroyUnlistened`.

Every system call in `Listen` may fail. `GetLocalAddress` returns a positive errno if
`getsockname` fails, which the caller's check for a negative code lets through, as in the
code, and a negative code if it cannot read the address.

### TCPRelay

One loop, because loops share nothing (each has its own lists and its own resolver).
An action is one event the loop handles, with all the callbacks it runs inside. Each
connection has a constant plain text, a vector and a response; the client's stream is
the vector and the text encrypted, and any read may end anywhere in it. The cipher
adds a key stream that depends on the vector and the position: bytes that are lost,
repeated or out of order decrypt to others. A high-water callback is queued by `send`
and runs later, as in muduo. The resolver's timer, sockets and the query's result are
separate events; a lookup may also be answered inside `resolve`.

Asserts are on, as in a Debug build: a read that ends exactly behind the vector makes
`Decrypt` assert and the process ends (`aborted`). Some behaviour is modelled as
it is, without a property against it: an unknown address type leaves the connection
open without ever answering, and a failed lookup connects to 0.0.0.0.

### AI2048 and Game2048

Boards are `Rows` x `Cols` and are won with a tile of `2^WinTile`. Tiles are their
logarithms, scores count tenths, and the bounds of the search are scaled with them.
How many searches the clock allows is a choice, none included. A frame has five
units, the fields of the codec's format; a read may end after any number of units in
`Cuts`. The peer is an AI2048Client or somebody who sends one odd frame: any combination
of a length (0 up to one above the limit), a length of the name, a name, data and a
checksum that is not a board to be played (`OddFrames`). A length within the limits that
is more than what comes leaves the server waiting for the rest, connected, as in the code.
One action reads one frame: there is never a second one behind it for another turn of
`onMessage`'s loop, as `TypeOK` says.

The code's recursions (the walk of a tile, the visits of a move, the marking of areas,
alpha-beta, the deepening) are recursive functions, so that theorems can be proved about
them. `GameAssumption` says what the codec must know and let through.
`EvalAssumption` says that no board is worth `-INF`, which the code takes for granted when
it begins its search there; a board of 4 x 4 won with 2^11 is worth at least
-212, and `INF` is 1000. The definitions that a move and a search are compared with
are RECURSIVE operators, in `MCGame2048` only.

## 3. Runs

All with 2 workers; each passing run takes between 10 seconds and about 3 1/2 minutes.

| run | bounds | shows |
|---|---|---|
| `handshake` | 1 client program, 2 addresses, 1 id, 2 packets in flight, limits of 1; the addresses are symmetric | `TypeOK`, `IdleMapMatchesSessionMap`, `ClientStateMatchesPointers`, `ReconnectTimerArmed`, `SessionsWereOffered`, `DroppedIdsEnterTimeWait` |
| `liveness` | 1 client, 1 id, worker loops | `HandshakeEnds`, `HalfOpenIsDetected`, `AbandonedSessionIsReclaimed`, `ReconnectingClientRetries` |
| `keep_alive` | 1 client, 2 ids, timely network, idle time 3, ping interval 2 | `PingsKeepSessionAlive` |
| `time_wait`, `unique_ids`, `silence` | 1 client and 2 ids; 2 clients for `unique_ids`; a timely network and 1 id for `silence` | three claims of `kcp/README.md` that the code does not keep |
| `stream` | 3 bytes one way and 1 the other, windows 2 and 3, segments of 2 bytes, 2 datagrams in flight | `StreamsAreImplemented`, `NoSegmentForgotten`, `WindowNeverCloses`, `QueuesWithinWindows`, `TypeOK` |
| `session_liveness` | 3 bytes, send window 1, dead link at 3 transmissions, the receiver may close | `BytesAreSettled`, `DrainIsReported` |
| `send_refused` | send window = receive window = `IKCP_WND_RCV` = 3 | an assertion of `kcp_session.cc` that can fail |
| `transport` | 2 worker loops, 2 ids, 2 sessions, 3 datagrams or errors of which one is odd, batches of 2, 3 packets sent, 2 spin turns | `TypeOK`, `OneDescriptor`, `HeadersReadBack`, `SentInOrderOnce`, `CallbacksInOrder`, `CounterOutlivesTasks`, `OpenSessionsAreKept`, `DestructorEnds` |
| `relay` | 2 connections, vectors of 2 bytes, requests of 8 and 5, a response of 2; the first stream is cut anywhere | `TypeOK`, `LookupIsDriven`, `RequestUnderstood`, `UpstreamSeesPayload`, `ClientSeesResponse`, `OrphansOnlyFromRaces`, `PayloadReachesUpstream` |
| `game` | a board of 2 x 3 won with 8, searches to depth 2, reads cut at two places | `TypeOK`, `MoveIsSlide`, `SearchIsMiniMax`, `ServerMirrorsClient`, `GameOverIsReal`, `OddFrameGetsNoGame`, `GameEnds` |

Why the bounds are enough for the cases to happen. With a limit of 1, each retry and
each timeout has a state before it, at it and after it. The one id of `handshake` makes the
server reuse it while packets of its last session are in flight; two packets
in flight allow any pair to be reordered, and a full network sheds packets. With two
addresses a client moves away from its session, to an address that was never offered
the id, comes back, and shakes hands at one address while its packets from the other are still
on their way. Several
clients only meet over ids, in `unique_ids` and in the theorems, which hold for
any number of clients, ids and packets and for all limits. In `stream`, three
single-byte messages exceed the send window, so that `ikcp_append` splits and
fills up segments, while one write of three bytes makes a message of two
fragments. `rcv_wnd` 3 leaves `IKCP_WND_RCV` its role as a bound on fragments. A
segment is sent twice before the link is dead in `stream`, three times in
`session_liveness`. `MaxAckList` bounds the acknowledgements that wait for a flush:
the flush timer runs before more packets are handled.

In `transport`, three datagrams fill one batch of two and begin another; a burst of
three packets fills a transmit queue of two and leaves one in it. Three arrivals
create a session, migrate it and reset it, or create one on each worker; two spin turns are a
destructor that waits, waits again and gives up. In `relay`, the first
connection meets every cut of its stream, marks that its bytes exceed, and a failing
cipher; the second shares the resolver with it, so that a lookup ends while
another begins. In `game`, on a board of 2 x 3, a row of three equal tiles can merge in two ways, a game
can be lost (a full board of 2 and 4 without equal neighbours) as well as won, and rows
and columns differ in length; a search of depth 2 has a move, the tile that
answers it, and the next move.

The instances are small where the code's numbers are large (windows of 128, 20
transmissions, 10 and 30 retries).

### Fairness

`KCPSystem!LoopFairness` is weak fairness of the clock, of the periodic tasks and
of the reconnect timer: muduo's loops run timers that are due. `NetworkFairness`
says that no packet stays in flight forever and that of PINGs and RSTs that are sent
again and again some arrive (strong fairness). Without it no peer could ever find
out anything. `HandshakeEnds`, `AbandonedSessionIsReclaimed` and
`ReconnectingClientRetries` do not depend on arrivals. Nothing says that a
reconnecting client ends up connected: the network may lose every SYN.

`KCPSession!TimerFairness` assumes nothing of the network. A handler that has begun
goes on (weak fairness). The state timer is set again at the end of every
`UpdateConnectionState`; since packets and timers take turns on one loop, its steps
have strong fairness, and the resend timer of the oldest unacknowledged segment
expires, because its RTO is finite. The strong fairness of the flush is written with
its enabling condition spelled out (`FlushDue`), which TLC evaluates much faster.

`KCPTransport!Fairness` is what threads give: the thread in the destructor goes on, and
a loop that is told to quit sees it (muduo wakes it up). Nothing is assumed of posted tasks, of timers or
of the network: `DestructorEnds` holds even if a worker never closes a session, because the spin
is bounded. `TCPRelay!Fairness`: sockets drain while a
peer reads, and c-ares gives a lookup up when its timer has run often enough.
`Game2048!FairSpec`: both loops read what has arrived, and see the end of a stream. A peer
that is no AI2048Client owes nothing, and may keep its connection for ever; `GameEnds` is about
games. The
weak fairness of the two reads is written out with `Shortens`, which TLC
evaluates faster.

The runs `transport`, `relay` and `game` allow deadlock: servers are destroyed,
connections and games end.

Deadlock is checked for `KCPSystem`. The session runs allow it: once all bytes are
written and acknowledged, or both ends closed, nothing is left to do.

### Findings

1. `time_wait`: a late DATA packet re-creates a session under an id in time wait
   (`kcp_server.cc`, ProcessDataPacket).
2. `unique_ids`: GenerateSessionId does not look at pending handshakes.
3. `silence`: `last_received_time_` survives a reset, and the client can drop a
   new session for the silence of the old one.
4. `send_refused`: a Write that fills a window of `IKCP_WND_RCV` segments makes
   `ikcp_send` return -2; the assertion behind it fails.

The runs quote what the code or its documentation says; details are in
`PROJECT.json`.

## 4. Theorems

Each theorem holds for every value of the constants that the named assumptions allow;
TLC evaluates the assumptions on every instance.

| theorem | property | assumptions |
|---|---|---|
| `KCPSystemProofs!TypeCorrect` | `TypeOK` | `NetworkAssumption`, `ServerAssumption`, `ClientAssumption`, `NoneIsNoServerEntry`, `NoneIsNoClientEntry`: any clients, ids and limits |
| `KCPSystemProofs!IdleMapCorrect` | `IdleMapMatchesSessionMap` | the same |
| `KCPSystemProofs!ClientStateCorrect` | `ClientStateMatchesPointers` | the same |
| `KCPSystemProofs!ReconnectTimerCorrect` | `ReconnectTimerArmed` | the same |
| `KCPSystemProofs!DroppedIdsCorrect` | `DroppedIdsEnterTimeWait` | the same |
| `KCPSystemProofs!SessionsOfferedCorrect` | `SessionsWereOffered` | the same |
| `KCPSystemProofs!PingsKeepSessionsAlive` | `PingsKeepSessionAlive`, if `[]OffersAreDistinct` | the same, and `PingsAreInTime`: ping interval + task period <= idle time |
| `KCPSystemProofs!LoneClientStaysAlive` | `PingsKeepSessionAlive` | `PingsAreInTime` and a single client |
| `KCPSessionProofs!StreamsImplemented` | `StreamsAreImplemented` (refines `ByteStream`) | `NetworkAssumption`, `IkcpAssumption`, `SessionAssumption`, `NumberingAssumption`: any windows, segment size, limits, first number, writes and calls |
| `KCPSessionProofs!NoneForgotten` | `NoSegmentForgotten` | the same |
| `KCPSessionProofs!WindowsStayOpen` | `WindowNeverCloses` | the same |
| `KCPSessionProofs!QueuesStayWithinWindows` | `QueuesWithinWindows` | the same |
| `KCPSessionProofs!SessionTypes` | `TypeOK` of `KCPSession` | the same |
| `KCPPacketProofs!PacketReadBack` | what `WritePublicHeader` wrote, `ReadPublicHeader` reads | `PacketAssumption`: bytes of any base above 6, a modulus between a byte and two |
| `KCPPacketProofs!DamageNoticed` | one changed byte, anywhere, is refused | the same |
| `KCPTransportProofs!ServerOneDescriptor` | `OneDescriptor` | `TransportAssumption`, `NoneIsNoBatch`: any workers, batches, queues and turns |
| `KCPTransportProofs!ServerReadsHeadersBack` | `HeadersReadBack` | the same |
| `KCPTransportProofs!WorkersSendInOrder` | `SentInOrderOnce` | the same |
| `KCPTransportProofs!SessionsCalledBackInOrder` | `CallbacksInOrder` | the same |
| `KCPTransportProofs!CounterIsAlive` | `CounterOutlivesTasks` | the same |
| `KCPTransportProofs!ServerTypes` | `TypeOK` of `KCPTransport` | the same |
| `KCPTransportProofs!OpenSessionsKept` | `OpenSessionsAreKept` | the same |
| `KCPTransportProofs!OpenEnds` | a session is destroyed open only in two named cases (`OpenEndsExplained`) | the same |
| `TCPRelayProofs!LookupsDriven` | `LookupIsDriven` | none |
| `TCPRelayProofs!OrphansFromRaces` | `OrphansOnlyFromRaces` | none |
| `TCPRelayProofs!RequestIsUnderstood` | `RequestUnderstood` | `RelayAssumption`, `StreamAssumption`, `BaseAssumption`, `PortLenAssumption`: any requests, responses, read sizes, marks and key streams |
| `TCPRelayProofs!UpstreamGetsPayload` | `UpstreamSeesPayload` | the same |
| `TCPRelayProofs!ClientGetsResponse` | `ClientSeesResponse` | the same |
| `TCPRelayProofs!RelayTypes` | `TypeOK` of `TCPRelay` | the same |
| `Game2048Proofs!BoardsMirror` | `ServerMirrorsClient` | `BoardAssumption`, `GameAssumption`, `EvalAssumption`: any board, winning tile, number of searches and cuts |
| `Game2048Proofs!OddFramesGetNoGame` | `OddFrameGetsNoGame` | the same |
| `Game2048Proofs!GameOversAreReal` | `GameOverIsReal` | the same |
| `Game2048Proofs!GameTypes` | `TypeOK` of `Game2048` | the same |

**`KCPSystem`.** `TypeOK` is inductive; its proof has one lemma per action, on top of
lemmas about `Carry`, `Receive` and `Transmit`. The map, pointer and timer invariants are
inductive on top of it. `DroppedIdsEnterTimeWait` follows for each step from
`TypeOK`. `SessionsWereOffered` is not inductive: a SYN in flight creates the client's session
and a DATA packet the server's. The strengthening `OfferedInv` adds
`PacketsWereOffered` (the id in every packet that can create or move a session was offered to its
address) and `HandshakesWereOffered` (the same of every pending handshake). A change of address
keeps all of it: `issued` of an address only grows, the client brings along what
was offered to it, and behind the address it leaves there is no socket
(`OnlyHostsAreOpen`, part of the first invariant), hence no session.

The timing property needs an account of the clock. `PingInv` says how old a session can be that
a client holds open: before the first PING not older than the client's
`last_ping_time_`, after it idle for less than the ping interval and the time the client's
task has been away, or, for the moment at which the task has run, with its PING in
flight. That the first part starts out true rests on `OffersAreFresh`: as long as a SYN of
the server is in flight, the session of its id is not there yet, or was created in this instant. This fails
if two addresses were offered the same id (finding 2): one of them can complete its
handshake while the other's SYN is still being repeated, and the second client then counts
from its own handshake. TLC finds that with two clients `PingsKeepSessionAlive` is violated in
that way. So the theorem assumes `OffersAreDistinct`, which says that `GenerateSessionId`
never drew an id for two addresses, and which a lone client always satisfies. `PingsAreInTime` is
5 + 2 <= 120 seconds in `kcp_constants.h`.

**`Ikcp` and `KCPSession`.** The inductive invariant is `SessionInv`. For each direction there is a history
h of its writer: where the stream was cut into segments (`cut`) and which fragment each is
(`frg`). Numbers are turned into offsets from `FirstSn`, so that the wrap is met in the
arithmetic lemmas only. `Stream` says that the sender's two queues are the end of the history,
that the receiver's buffer and queue hold segments of it, that what was delivered is
the start of it, and that every segment the receiver has not got is still in `snd_buf`
(`Needed`). `Carried` says the same of the packets: a PUSH in flight, however old, is a
segment of the history; an ACK stands for a segment that has arrived, and no `una` is
beyond z, the latest that was announced. The segment at z stays in `snd_buf` as well, so
that the sender's window begins there at the latest. `Handles` says where the receiver stands inside
`ProcessPacketInLoopThread`, which gives the window properties: outside of it `rcv_queue`
holds an incomplete message only, and that is shorter than `IKCP_WND_RCV`. `IkcpProofs`
proves, function by function, what happens to these relations; the functions are
recursive over queues, and the inductions use `InductionFacts`. TLC checked the history-free parts on the
instance of the run `stream` before they were proved. The refinement mapping is the one of
`KCPSession!Streams`; each step of the sessions is a write, a delivery or a stutter of `ByteStream`.

**`KCPPacket`.** A header is a word, a byte and a word. That a word is read back needs that digits
determine a number (`DigitsUnique`). The checksum is a recursive function over the
buffer; what it computes for buffers of every length is an induction on its index. The
library's induction theorems take the property as an operator, which the provers cannot
instantiate; `InductionFacts` states them of the set of numbers that have the property, and a
recursive function defined in a LET as any function that solves its equation (`RecursionExists`). Two
buffers that differ in one byte have sums that differ by less than the modulus, so that
the first half of the checksum differs.

**`KCPTransport`.** The invariants are layers, and each theorem takes those it needs.
`SocketInv` says, for each stage in the life of the server, which descriptors are open.
`ReadInv` follows a datagram: what is in the kernel's queue and in the batch are the last
datagrams that arrived, in order, each as it was sent, or damaged in a way that the
checksum notices. `SessionInv` types sessions, map and tasks, and says that a task is in
the queue of its session's loop. `ControlInv` says which loops run in which stage. `TxInv`
relates each worker's queue, what it sent and what its sessions appended, by indices.
`CallInv` relates, per session, three things: the log of callbacks, the tasks
in its worker's queue, and the datagrams of its id processed so far; the datagrams in
the log and behind them those in the queue are a run of those processed without a gap, and
"up" stands before all of it. `CountInv` counts: while the destructor spins, the counter
and the counting tasks that are still queued add up to the tasks posted; once it has seen
them all, none is left. `EndInv` adds that a session that is open is still in
the map of a listening server, or has its `Close` in the queue, and that the last task of a
loop with counted sessions is one that counts: once all have counted, its queue is empty. The
first is `OpenSessionsAreKept`. The second gives `OpenEnds`: `assert(IsClosed())` in
`~KCPSession` (`kcp_session.cc:22`) can fail in two cases and no other. Either the destructor gave up
waiting, or it counted no session on the loop: a session that an RST took off the map is
not waited for, and its loop may quit with the `Close` unrun.

**`TCPRelay`.** `LookupIsDriven` is inductive on top of the resolver's types. `OrphansOnlyFromRaces` is not:
that the disconnect of `onServerConnection` finds the tunnel depends on what the two
lists, the lookup and the upstream know of each other. `RaceInv` says it per connection:
a live client with a lookup is in `MetaList`, one whose upstream exists is in
`TunnelList` too, an upstream exists only after its lookup ended, and a client that is
gone while its lookup is pending left early.

The streams need `StreamInv`, which adds three facts per connection, all about
pieces of the constant streams (`IsPiece(x, s, i, j)`: x is what stands in s behind i and up to
j). `InputOf`: what is read and not decrypted is the piece of the client's stream behind
what is decrypted, and the request is listed exactly when a byte behind it was read, which
therefore holds whenever its lookup has begun.
`ToUpstream`: what the upstream was given and what waits in the meta's buffer is the
piece of the text from the end of the request to the decryptor's position, until the upstream is
shut down; after that what it was given is still a start of the payload. `ToClient`: as long
as the client is connected, what it was given is the vector and the answer up to the
encryptor's position, and the vector counts as sent only once. Below that lie lemmas on
the cipher (a piece decrypts to the piece at the same place), on `send`, `shutdown` and
`handleWrite`, and on the parser: `Parsed` shows, by induction on its turns, that
`ParseRequest` succeeds on a buffer exactly if the buffer has a complete request and one byte
more, and returns the host, the port and the rest. TLC checked `StreamInv` on the
instance of the run `relay` before it was proved.

**`Game2048`.** The invariant has three layers. `Inv` says whose turn it is: in a game exactly
one frame is in transit, and any part of it may have been read. It is the client's board,
and then the server's board lacks only new tiles of it (`Mirrored`), or a
direction, and then the server has moved in that direction from the client's board and the direction is
`Justified`: something moves, or nothing can, or the clock left no search. Of another peer
`Inv` says that its frame is one of the odd ones and on its way, each of which is refused at some
stage of `onMessage` or is waited for (`OddWaits`: the length is within the limits and more than
there is), or that it has been refused. `Bounded` says that no tile outgrows the
winning one, which ends the game. It needs that no tile merges twice in a move:
`TryMove` visits the cells by their `Rank`, a tile merges into a cell that was
visited before it and a cell counts as merged from then on, so a tile that is still to move is
one of the old board. `Real` says that the client's board has a tile on it, and that a game given
up is over. A direction in which nothing moves leaves the board alone; a board
with a tile on which no direction is left is full (`StuckIsFull`: otherwise some tile has a gap
beside it), so `AddRandTile` adds nothing and the board given up is the one without a
move. That the server's answer is justified rests on the search: only a direction
that can be moved in becomes `best_move_`, and the first search, to depth 1, finds one if
there is one, since by `EvalAssumption` each board below beats `-INF` (`SearchFindsMove`).

Only model-checked: all liveness properties (`HandshakeEnds`, `HalfOpenIsDetected`,
`AbandonedSessionIsReclaimed`, `ReconnectingClientRetries`, `BytesAreSettled`,
`DrainIsReported`, `DestructorEnds`, `PayloadReachesUpstream`, `GameEnds`), since fairness and
ENABLED are beyond the prover; and `MoveIsSlide` and `SearchIsMiniMax`, which compare what
two recursive definitions compute, one of them RECURSIVE, which the prover cannot take.

## 5. Not modelled

- `ikcp.c`: congestion window and RTT estimate (see above); `ikcp_update`, `ikcp_check`
  and `ikcp_flush_ack`, which nobody calls.
- `udp_socket.cc`: the client's `Connect`, single-datagram calls (one system call each), multicast and DSCP.
- `kcp_packets.cc`: the Peek functions, 16 and 64 bit reads, texts for the log.
- `kcp_client.cc`: `HandleError`, and user callbacks that call the KCPClient they run in.
- The session id 0, which the server may draw with probability 2^-32.
- OpenSSL's arithmetic, key derivation, the inside of c-ares and of muduo.
- Generated code, examples, `common/`, logs.

## 6. Plan

Done: the session protocol (`KCPSystem`), the conversation of two sessions (`Ikcp`,
`KCPSession`), the threads of the server (`KCPTransport`) and the relay (`TCPRelay`), each with
theorems for all of its safety properties; the game (`Game2048`), with theorems for
all but the two that compare it with reference definitions. Next:

1. User callbacks that call back into KCPClient.
2. `KCPClient::HandleError`.
