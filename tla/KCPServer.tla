------------------------------- MODULE KCPServer -------------------------------
(***************************************************************************)
(* kcp/kcp_server.cc: the four maps of KCPServer and the handlers that its *)
(* base loop runs, one action per packet handler and one for the periodic  *)
(* task.  The std::unordered_maps are functions to None or to the entry.   *)
(* A muduo::Timestamp t is modelled by its age (now - t), in clock ticks,  *)
(* saturating at the limit it is compared with.                            *)
(*                                                                         *)
(* The KCPSession objects run on the loops of the thread pool.  Of them    *)
(* the server sees closed_ only; they send DATA packets to the peer they   *)
(* last heard from, until Close has run on their loop.                     *)
(***************************************************************************)
EXTENDS KCPNetwork

CONSTANTS
    num_threads,                    \* worker loops; with none, all run on the base loop
    kServerMaxSynRetryTimes,        \* SYNs repeated before a handshake is dropped
    kServerSynSentTimeout,          \* ticks before a SYN is sent again
    kServerRunPeriodicTaskInterval, \* ticks between two RunPeriodicTask
    kServerSessionIdleSeconds,      \* ticks without a PING before a session expires
    kServerSessionTimeWaitSeconds   \* ticks a closed session's id stays reserved

VARIABLES
    pending_session_map,   \* address -> the handshake waiting for its ACK
    session_map,           \* session id -> the KCPSession
    idle_session_map,      \* session id -> age of the last PING
    time_wait_session_map, \* session id -> age of the end of its session
    closing,               \* sessions off the map whose Close waits in a loop's queue
    server_task_elapsed    \* ticks since RunPeriodicTask last ran

serverVars == <<pending_session_map, session_map, idle_session_map,
                time_wait_session_map, closing, server_task_elapsed>>

PendingSessions ==
    [session_id : SessionIds, retry_times : 0..kServerMaxSynRetryTimes,
     syn_elapsed : 0..kServerSynSentTimeout]

Sessions == [peer : Clients, closed : BOOLEAN]

ASSUME ServerAssumption ==
    /\ num_threads \in Nat
    /\ kServerMaxSynRetryTimes \in Nat
    /\ kServerSynSentTimeout \in Nat \ {0}
    /\ kServerRunPeriodicTaskInterval \in Nat \ {0}
    /\ kServerSessionIdleSeconds \in Nat \ {0}
    /\ kServerSessionTimeWaitSeconds \in Nat \ {0}

ASSUME NoneIsNoServerEntry ==
    None \notin Nat /\ None \notin PendingSessions /\ None \notin Sessions

ServerTypeOK ==
    /\ pending_session_map \in [Clients -> PendingSessions \cup {None}]
    /\ session_map \in [SessionIds -> Sessions \cup {None}]
    /\ idle_session_map \in [SessionIds -> (0..kServerSessionIdleSeconds) \cup {None}]
    /\ time_wait_session_map \in
           [SessionIds -> (0..kServerSessionTimeWaitSeconds) \cup {None}]
    /\ closing \in SUBSET [id : SessionIds, peer : Clients]
    /\ server_task_elapsed \in 0..kServerRunPeriodicTaskInterval

\* The state after Listen.
ServerInit ==
    /\ pending_session_map = [c \in Clients |-> None]
    /\ session_map = [i \in SessionIds |-> None]
    /\ idle_session_map = [i \in SessionIds |-> None]
    /\ time_wait_session_map = [i \in SessionIds |-> None]
    /\ closing = {}
    /\ server_task_elapsed = 0

-------------------------------------------------------------------------------
(* Helpers of the handlers.                                                *)

\* The session objects of the ids in `gone` that Close() has still to reach: on
\* the base loop runInLoop calls it at once, on a worker's loop it waits its turn.
ClosePosted(gone) ==
    IF num_threads = 0 THEN {} ELSE
    {[id |-> i, peer |-> session_map[i].peer] :
        i \in {j \in gone : session_map[j] # None /\ ~session_map[j].closed}}

\* A faulty TimeWaitInsert: the id of a dropped session is free at once.
TimeWaitForgotten(gone) == time_wait_session_map

\* time_wait_session_map_.insert for every id in `gone`: it keeps an older entry.
TimeWaitInsert(gone) ==
    [i \in SessionIds |->
        IF i \in gone /\ time_wait_session_map[i] = None
        THEN 0 ELSE time_wait_session_map[i]]

\* The ids GenerateSessionId accepts: neither in use nor in time wait.  It does
\* not look at the ids that other pending handshakes hold.
FreshSessionId(i) == session_map[i] = None /\ time_wait_session_map[i] = None

\* A faulty CreateSession that leaves the session out of idle_session_map_.
CreateSessionWithoutIdle(i, c) ==
    /\ session_map' = [session_map EXCEPT ![i] = [peer |-> c, closed |-> FALSE]]
    /\ pending_session_map' = [pending_session_map EXCEPT ![c] = None]
    /\ UNCHANGED idle_session_map

\* ++retry_times and syn_sent_time = now, of a pending session.
SynSentAgain(pending) ==
    [session_id |-> pending.session_id, retry_times |-> pending.retry_times + 1,
     syn_elapsed |-> 0]

\* A new KCPSession for address c, inserted in session_map_ and
\* idle_session_map_ in place of the pending handshake of c.
CreateSession(i, c) ==
    /\ session_map' = [session_map EXCEPT ![i] = [peer |-> c, closed |-> FALSE]]
    /\ pending_session_map' = [pending_session_map EXCEPT ![c] = None]
    /\ idle_session_map' =
           [idle_session_map EXCEPT ![i] = IF @ = None THEN 0 ELSE @]

-------------------------------------------------------------------------------
(* The packet handlers.                                                    *)

\* ProcessSynPacket, first SYN of an address: allocate an id and answer.
ServerAcceptSyn(m) ==
    /\ pending_session_map[m.addr] = None
    /\ \E i \in SessionIds :
           /\ FreshSessionId(i)
           /\ pending_session_map' = [pending_session_map EXCEPT ![m.addr] =
                  [session_id |-> i, retry_times |-> 0, syn_elapsed |-> 0]]
           /\ Receive(m, {ToClient(m.addr, "SYN", i)})

\* GenerateSessionId gave up: all its draws were taken, or the reads failed.
ServerRefuseSyn(m) ==
    /\ pending_session_map[m.addr] = None
    /\ Receive(m, {ToClient(m.addr, "RST", ZeroId)})
    /\ UNCHANGED pending_session_map

\* A faulty ServerRepeatSyn whose limit is off by one.
ServerRepeatSynOnceTooOften(m) ==
    LET pending == pending_session_map[m.addr] IN
    /\ pending # None
    /\ pending_session_map' = [pending_session_map EXCEPT ![m.addr] =
           SynSentAgain(pending)]
    /\ pending.retry_times <= kServerMaxSynRetryTimes
    /\ Receive(m, {ToClient(m.addr, "SYN", pending.session_id)})

\* A faulty ServerRepeatSyn that looks the handshake up by the host without the
\* port, and so answers one address with what was offered to another.
ServerRepeatSynToAnyPort(m) ==
    /\ \E a \in Clients :
           /\ pending_session_map[a] # None
           /\ pending_session_map' = [pending_session_map EXCEPT ![a].syn_elapsed = 0]
           /\ Receive(m, {ToClient(m.addr, "SYN", pending_session_map[a].session_id)})

\* A SYN sent again: answer with the same id, up to the retry limit.
ServerRepeatSyn(m) ==
    LET pending == pending_session_map[m.addr] IN
    /\ pending # None
    /\ IF pending.retry_times >= kServerMaxSynRetryTimes
       THEN /\ pending_session_map' = [pending_session_map EXCEPT ![m.addr] = None]
            /\ Receive(m, {ToClient(m.addr, "RST", ZeroId)})
       ELSE /\ pending_session_map' = [pending_session_map EXCEPT ![m.addr] =
                  SynSentAgain(pending)]
            /\ Receive(m, {ToClient(m.addr, "SYN", pending.session_id)})

ServerProcessSynPacket(m) ==
    /\ m.type = "SYN"
    /\ ServerAcceptSyn(m) \/ ServerRefuseSyn(m) \/ ServerRepeatSyn(m)
    /\ UNCHANGED <<session_map, idle_session_map, time_wait_session_map, closing,
                   server_task_elapsed>>

\* A faulty ProcessPingPacket that ignores a PING for an unknown session.
ServerProcessPingPacketMute(m) ==
    /\ m.type = "PING"
    /\ IF session_map[m.id] = None
       THEN Receive(m, {}) /\ UNCHANGED idle_session_map
       ELSE /\ Receive(m, {ToClient(m.addr, "PONG", m.id)})
            /\ idle_session_map' = [idle_session_map EXCEPT ![m.id] = 0]
    /\ UNCHANGED <<pending_session_map, session_map, time_wait_session_map, closing,
                   server_task_elapsed>>

\* A faulty ProcessPingPacket that answers without refreshing idle_session_map_.
ServerProcessPingPacketStale(m) ==
    /\ m.type = "PING"
    /\ Receive(m, {ToClient(m.addr, IF session_map[m.id] = None THEN "RST" ELSE "PONG",
                            m.id)})
    /\ UNCHANGED serverVars

ServerProcessPingPacket(m) ==
    /\ m.type = "PING"
    /\ IF session_map[m.id] = None
       THEN /\ Receive(m, {ToClient(m.addr, "RST", m.id)})
            /\ UNCHANGED idle_session_map
       ELSE /\ Receive(m, {ToClient(m.addr, "PONG", m.id)})
            /\ idle_session_map' = [idle_session_map EXCEPT ![m.id] = 0]
    /\ UNCHANGED <<pending_session_map, session_map, time_wait_session_map, closing,
                   server_task_elapsed>>

ServerProcessAckPacket(m) ==
    LET pending == pending_session_map[m.addr] IN
    /\ m.type = "ACK"
    /\ \/ \* neither a handshake of this address nor the session, or the wrong id
          /\ \/ pending = None /\ session_map[m.id] = None
             \/ pending # None /\ pending.session_id # m.id
          /\ Receive(m, {ToClient(m.addr, "RST", ZeroId)})
          /\ UNCHANGED <<pending_session_map, session_map, idle_session_map>>
       \/ \* already connected: a pending handshake, if any, is left there
          /\ session_map[m.id] # None
          /\ pending # None => pending.session_id = m.id
          /\ Receive(m, {})
          /\ UNCHANGED <<pending_session_map, session_map, idle_session_map>>
       \/ \* the handshake completes
          /\ pending # None /\ pending.session_id = m.id
          /\ session_map[m.id] = None
          /\ Receive(m, {})
          /\ CreateSession(m.id, m.addr)
    /\ UNCHANGED <<time_wait_session_map, closing, server_task_elapsed>>

\* Whatever its id, an RST also drops the pending handshake of its sender.
ServerProcessRstPacket(m) ==
    LET gone == {i \in {m.id} : session_map[i] # None} IN
    /\ m.type = "RST"
    /\ Receive(m, {})
    /\ pending_session_map' = [pending_session_map EXCEPT ![m.addr] = None]
    /\ closing' = closing \cup ClosePosted(gone)
    /\ session_map' = [session_map EXCEPT ![m.id] = None]
    /\ time_wait_session_map' = TimeWaitInsert(gone)
    /\ idle_session_map' = [idle_session_map EXCEPT ![m.id] = None]
    /\ UNCHANGED server_task_elapsed

\* A DATA packet stands in for a lost ACK: it completes the pending handshake of
\* its sender, under the id in the packet.  The session it reaches or creates
\* takes its address as the peer (connection migration), unless it has closed.
ServerProcessDataPacket(m) ==
    /\ m.type = "DATA"
    /\ \/ /\ session_map[m.id] = None
          /\ pending_session_map[m.addr] = None
          /\ Receive(m, {ToClient(m.addr, "RST", ZeroId)})
          /\ UNCHANGED <<pending_session_map, session_map, idle_session_map>>
       \/ /\ session_map[m.id] = None
          /\ pending_session_map[m.addr] # None
          /\ Receive(m, {})
          /\ CreateSession(m.id, m.addr)
       \/ /\ session_map[m.id] # None
          /\ Receive(m, {})
          /\ session_map' = [session_map EXCEPT ![m.id] =
                 IF @.closed THEN @ ELSE [@ EXCEPT !.peer = m.addr]]
          /\ UNCHANGED <<pending_session_map, idle_session_map>>
    /\ UNCHANGED <<time_wait_session_map, closing, server_task_elapsed>>

\* ProcessPacket: dispatch on the type; other types are ignored.
ServerProcessPacket(m) ==
    /\ m.to = "server"
    /\ \/ ServerProcessSynPacket(m)
       \/ ServerProcessAckPacket(m)
       \/ ServerProcessRstPacket(m)
       \/ ServerProcessPingPacket(m)
       \/ ServerProcessDataPacket(m)

-------------------------------------------------------------------------------
(* RunPeriodicTask, its three loops in order.                              *)

SynExhausted(pending) == pending.retry_times >= kServerMaxSynRetryTimes

SynTimedOut(pending) ==
    /\ ~SynExhausted(pending)
    /\ pending.syn_elapsed >= kServerSynSentTimeout

\* The addresses whose SYN is sent again.
SynResent ==
    {c \in Clients : /\ pending_session_map[c] # None
                     /\ SynTimedOut(pending_session_map[c])}

PendingAfterTask ==
    [c \in Clients |->
        LET pending == pending_session_map[c] IN
        IF pending = None THEN None
        ELSE IF SynExhausted(pending) THEN None
        ELSE IF SynTimedOut(pending)
        THEN SynSentAgain(pending)
        ELSE pending]

\* A faulty Expired that forgets the idle time.
ExpiredIfClosed(i) == session_map[i] # None /\ session_map[i].closed

\* The sessions the second loop removes: idle for too long, or found closed.
Expired(i) ==
    /\ session_map[i] # None
    /\ \/ idle_session_map[i] = None
       \/ idle_session_map[i] >= kServerSessionIdleSeconds
       \/ session_map[i].closed

ServerRunPeriodicTask ==
    LET gone == {i \in SessionIds : Expired(i)}
        waiting == TimeWaitInsert(gone)
    IN
    /\ server_task_elapsed >= kServerRunPeriodicTaskInterval
    /\ server_task_elapsed' = 0
    /\ pending_session_map' = PendingAfterTask
    /\ Transmit({ToClient(c, "SYN", pending_session_map[c].session_id) : c \in SynResent})
    /\ closing' = closing \cup ClosePosted(gone)
    /\ session_map' = [i \in SessionIds |-> IF i \in gone THEN None ELSE session_map[i]]
    /\ idle_session_map' =
           [i \in SessionIds |-> IF i \in gone THEN None ELSE idle_session_map[i]]
    /\ time_wait_session_map' =
           [i \in SessionIds |->
               IF waiting[i] = None THEN None
               ELSE IF waiting[i] >= kServerSessionTimeWaitSeconds THEN None
               ELSE waiting[i]]

-------------------------------------------------------------------------------
(* The sessions on their worker loops.                                     *)

\* A session closes itself: its link is dead (UpdateConnectionState), or the
\* application called Close.
ServerSessionCloses(i) ==
    /\ session_map[i] # None
    /\ ~session_map[i].closed
    /\ session_map' = [session_map EXCEPT ![i].closed = TRUE]
    /\ UNCHANGED <<net, pending_session_map, idle_session_map, time_wait_session_map,
                   closing, server_task_elapsed>>

\* A Close posted by the base loop runs.
ServerCloseRuns(s) ==
    /\ s \in closing
    /\ closing' = closing \ {s}
    /\ UNCHANGED <<net, pending_session_map, session_map, idle_session_map,
                   time_wait_session_map, server_task_elapsed>>

\* A session that has not closed flushes a DATA packet to its peer.
ServerSessionOutput(i, c) ==
    /\ \/ session_map[i] = [peer |-> c, closed |-> FALSE]
       \/ [id |-> i, peer |-> c] \in closing
    /\ Transmit({ToClient(c, "DATA", i)})
    /\ UNCHANGED serverVars

\* One clock tick, as the server's timestamps see it.
ServerTick ==
    /\ pending_session_map' = [c \in Clients |->
           IF pending_session_map[c] = None THEN None
           ELSE [pending_session_map[c] EXCEPT !.syn_elapsed =
                     Older(@, kServerSynSentTimeout)]]
    /\ idle_session_map' = [i \in SessionIds |->
           Older(idle_session_map[i], kServerSessionIdleSeconds)]
    /\ time_wait_session_map' = [i \in SessionIds |->
           Older(time_wait_session_map[i], kServerSessionTimeWaitSeconds)]
    /\ server_task_elapsed' = Older(server_task_elapsed, kServerRunPeriodicTaskInterval)
    /\ UNCHANGED <<session_map, closing>>
===============================================================================
