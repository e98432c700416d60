------------------------------- MODULE KCPClient -------------------------------
(***************************************************************************)
(* kcp/kcp_client.cc: a KCPClient behind every address in Clients, all of  *)
(* whose handlers run on its own event loop.  Timestamps are modelled by   *)
(* their ages, as in KCPServer; None is a Timestamp that is not valid(), a *)
(* null pending_session_ or a null session_.                               *)
(*                                                                         *)
(* reconnect_times_ only sets the delay of the reconnect timer, which here *)
(* fires at any later step.  The user's connection callback runs inside    *)
(* ProcessSynPacket and may write (DATA precedes the ACK) or close the     *)
(* session; it does not call the KCPClient.                                *)
(***************************************************************************)
EXTENDS KCPNetwork

CONSTANTS
    ReconnectEnabled,               \* the clients with set_reconnect_enabled(true)
    kClientMaxSynRetryTimes,        \* SYNs repeated before the client gives up
    kClientSynSentTimeout,          \* ticks before the SYN is sent again
    kClientRunPeriodicTaskInterval, \* ticks between two RunPeriodicTask
    kClientSessionIdleSeconds,      \* ticks without PONG or DATA before a reset
    kClientPingInterval             \* ticks between the handshake and the first PING

VARIABLES
    state,                \* state_: "CLOSED", "PENDING" or "CONNECTED"
    pending_session,      \* pending_session_
    session,              \* session_: the id and closed_ of the KCPSession
    last_received_time,   \* age of last_received_time_
    last_ping_time,       \* age of last_ping_time_
    socket,               \* socket_ is open, and the periodic timer runs
    reconnect_timer_registered,
    client_task_elapsed   \* ticks since RunPeriodicTask last ran

clientVars == <<state, pending_session, session, last_received_time, last_ping_time,
                socket, reconnect_timer_registered, client_task_elapsed>>

ClientPendingSessions ==
    [retry_times : 0..kClientMaxSynRetryTimes, syn_elapsed : 0..kClientSynSentTimeout]

ClientSessions == [session_id : SessionIds, closed : BOOLEAN]

ASSUME ClientAssumption ==
    /\ ReconnectEnabled \subseteq Clients
    /\ kClientMaxSynRetryTimes \in Nat
    /\ kClientSynSentTimeout \in Nat \ {0}
    /\ kClientRunPeriodicTaskInterval \in Nat \ {0}
    /\ kClientSessionIdleSeconds \in Nat \ {0}
    /\ kClientPingInterval \in Nat \ {0}

ASSUME NoneIsNoClientEntry ==
    None \notin Nat /\ None \notin ClientPendingSessions /\ None \notin ClientSessions

ClientTypeOK ==
    /\ state \in [Clients -> {"CLOSED", "PENDING", "CONNECTED"}]
    /\ pending_session \in [Clients -> ClientPendingSessions \cup {None}]
    /\ session \in [Clients -> ClientSessions \cup {None}]
    /\ last_received_time \in [Clients -> (0..kClientSessionIdleSeconds) \cup {None}]
    /\ last_ping_time \in [Clients -> (0..kClientPingInterval) \cup {None}]
    /\ socket \in [Clients -> BOOLEAN]
    /\ reconnect_timer_registered \in [Clients -> BOOLEAN]
    /\ client_task_elapsed \in [Clients -> 0..kClientRunPeriodicTaskInterval]

ClientInit ==
    /\ state = [c \in Clients |-> "CLOSED"]
    /\ pending_session = [c \in Clients |-> None]
    /\ session = [c \in Clients |-> None]
    /\ last_received_time = [c \in Clients |-> None]
    /\ last_ping_time = [c \in Clients |-> None]
    /\ socket = [c \in Clients |-> FALSE]
    /\ reconnect_timer_registered = [c \in Clients |-> FALSE]
    /\ client_task_elapsed = [c \in Clients |-> 0]

-------------------------------------------------------------------------------
(* Steps that several handlers share.                                      *)

NewPendingSession == [retry_times |-> 0, syn_elapsed |-> 0]

\* BuildSession on an open socket: send the first SYN, unless a session exists
\* or is on its way.
BuildSession(c) ==
    IF state[c] = "CLOSED"
    THEN /\ Transmit({ToServer(c, "SYN", ZeroId)})
         /\ pending_session' = [pending_session EXCEPT ![c] = NewPendingSession]
         /\ state' = [state EXCEPT ![c] = "PENDING"]
    ELSE UNCHANGED <<net, pending_session, state>>

\* A faulty ResetSession that forgets set_state(CLOSED).
ResetSessionKeepsState(c) ==
    /\ pending_session' = [pending_session EXCEPT ![c] = None]
    /\ session' = [session EXCEPT ![c] = None]
    /\ UNCHANGED state
    /\ reconnect_timer_registered' = [reconnect_timer_registered EXCEPT
           ![c] = @ \/ (socket[c] /\ c \in ReconnectEnabled)]

\* A faulty ResetSession that starts the timer for a lost session only, and not
\* for a handshake that failed.
ResetSessionForgetsHandshake(c) ==
    /\ pending_session' = [pending_session EXCEPT ![c] = None]
    /\ session' = [session EXCEPT ![c] = None]
    /\ state' = [state EXCEPT ![c] = "CLOSED"]
    /\ reconnect_timer_registered' = [reconnect_timer_registered EXCEPT
           ![c] = @ \/ (socket[c] /\ session[c] # None /\ c \in ReconnectEnabled)]

\* ResetSession: close what there is and, if the client reconnects, start the
\* timer unless it runs already.
ResetSession(c) ==
    /\ pending_session' = [pending_session EXCEPT ![c] = None]
    /\ session' = [session EXCEPT ![c] = None]
    /\ state' = [state EXCEPT ![c] = "CLOSED"]
    /\ reconnect_timer_registered' = [reconnect_timer_registered EXCEPT
           ![c] = @ \/ (socket[c] /\ c \in ReconnectEnabled)]

-------------------------------------------------------------------------------
(* The calls of the user and the timers.                                   *)

\* Connect: a new socket, the first SYN, the periodic timer.
Connect(c) ==
    /\ ~socket[c]
    /\ socket' = [socket EXCEPT ![c] = TRUE]
    /\ client_task_elapsed' = [client_task_elapsed EXCEPT ![c] = 0]
    /\ BuildSession(c)
    /\ UNCHANGED <<session, last_received_time, last_ping_time,
                   reconnect_timer_registered>>

\* Disconnect: from CONNECTED, flush what the session holds and send an RST;
\* then cancel the timers and close the socket.
Disconnect(c) ==
    /\ socket[c]
    /\ \/ /\ state[c] = "CONNECTED"
          /\ \E flushed \in SUBSET {ToServer(c, "DATA", session[c].session_id)} :
                 /\ session[c].closed => flushed = {}
                 /\ Transmit(flushed \cup {ToServer(c, "RST", session[c].session_id)})
       \/ /\ state[c] # "CONNECTED"
          /\ UNCHANGED net
    /\ pending_session' = [pending_session EXCEPT ![c] =
           IF state[c] = "PENDING" THEN None ELSE @]
    /\ session' = [session EXCEPT ![c] = IF state[c] = "CONNECTED" THEN None ELSE @]
    /\ reconnect_timer_registered' = [reconnect_timer_registered EXCEPT ![c] = FALSE]
    /\ socket' = [socket EXCEPT ![c] = FALSE]
    /\ state' = [state EXCEPT ![c] = "CLOSED"]
    /\ client_task_elapsed' = [client_task_elapsed EXCEPT ![c] = 0]
    /\ UNCHANGED <<last_received_time, last_ping_time>>

\* The reconnect timer fires.
ReconnectTimer(c) ==
    /\ reconnect_timer_registered[c]
    /\ BuildSession(c)
    /\ reconnect_timer_registered' = [reconnect_timer_registered EXCEPT ![c] = FALSE]
    /\ UNCHANGED <<session, last_received_time, last_ping_time, socket,
                   client_task_elapsed>>

\* A faulty PendingTask that does not count its retries.
PendingTaskUncounted(c) ==
    /\ state[c] = "PENDING"
    /\ IF pending_session[c].syn_elapsed >= kClientSynSentTimeout
       THEN /\ pending_session' = [pending_session EXCEPT ![c].syn_elapsed = 0]
            /\ Transmit({ToServer(c, "SYN", ZeroId)})
       ELSE UNCHANGED <<net, pending_session>>
    /\ UNCHANGED <<session, state, reconnect_timer_registered>>

\* RunPeriodicTask while the handshake is pending: give up, or repeat the SYN.
PendingTask(c) ==
    LET pending == pending_session[c] IN
    /\ state[c] = "PENDING"
    /\ IF pending.retry_times >= kClientMaxSynRetryTimes
       THEN ResetSession(c) /\ UNCHANGED net
       ELSE /\ IF pending.syn_elapsed >= kClientSynSentTimeout
               THEN /\ pending_session' = [pending_session EXCEPT ![c] =
                           [retry_times |-> @.retry_times + 1, syn_elapsed |-> 0]]
                    /\ Transmit({ToServer(c, "SYN", ZeroId)})
               ELSE UNCHANGED <<net, pending_session>>
            /\ UNCHANGED <<session, state, reconnect_timer_registered>>

\* last_received_time_ is valid and kClientSessionIdleSeconds old.
ReceiveTimedOut(c) ==
    /\ last_received_time[c] # None
    /\ last_received_time[c] >= kClientSessionIdleSeconds

\* RunPeriodicTask on a session: reset it when nothing came for too long or it
\* has closed, else PING once kClientPingInterval has passed since the handshake.
ConnectedTask(c) ==
    /\ state[c] = "CONNECTED"
    /\ IF ReceiveTimedOut(c) \/ session[c].closed
       THEN ResetSession(c) /\ UNCHANGED net
       ELSE /\ IF last_ping_time[c] # None /\ last_ping_time[c] >= kClientPingInterval
               THEN Transmit({ToServer(c, "PING", session[c].session_id)})
               ELSE UNCHANGED net
            /\ UNCHANGED <<pending_session, session, state, reconnect_timer_registered>>

ClientRunPeriodicTask(c) ==
    /\ socket[c]
    /\ client_task_elapsed[c] >= kClientRunPeriodicTaskInterval
    /\ client_task_elapsed' = [client_task_elapsed EXCEPT ![c] = 0]
    /\ \/ PendingTask(c)
       \/ ConnectedTask(c)
       \/ /\ state[c] = "CLOSED"
          /\ UNCHANGED <<net, pending_session, session, state,
                         reconnect_timer_registered>>
    /\ UNCHANGED <<last_received_time, last_ping_time, socket>>

-------------------------------------------------------------------------------
(* The packet handlers.                                                    *)

\* A SYN for a client that has its session, or has nothing pending.
ClientAnswerSyn(m) ==
    LET c == m.addr IN
    /\ \/ /\ session[c] # None
          /\ Receive(m, {ToServer(c, IF session[c].session_id = m.id THEN "ACK" ELSE "RST",
                                  m.id)})
       \/ /\ session[c] = None /\ pending_session[c] = None
          /\ Receive(m, {ToServer(c, "RST", m.id)})
    /\ UNCHANGED <<state, pending_session, session, last_ping_time>>

\* The SYN completes the handshake.  `early` is what the connection callback
\* writes and `closed` whether it closes the session, both before the ACK leaves.
ClientAdoptSession(m) ==
    LET c == m.addr IN
    /\ session[c] = None /\ pending_session[c] # None
    /\ \E early \in SUBSET {ToServer(c, "DATA", m.id)}, closed \in BOOLEAN :
           /\ session' = [session EXCEPT ![c] =
                  [session_id |-> m.id, closed |-> closed]]
           /\ Receive(m, early \cup {ToServer(c, "ACK", m.id)})
    /\ pending_session' = [pending_session EXCEPT ![c] = None]
    /\ last_ping_time' = [last_ping_time EXCEPT ![c] = 0]
    /\ state' = [state EXCEPT ![c] = "CONNECTED"]

ClientProcessSynPacket(m) ==
    /\ m.type = "SYN"
    /\ ClientAnswerSyn(m) \/ ClientAdoptSession(m)
    /\ UNCHANGED <<last_received_time, socket, reconnect_timer_registered,
                   client_task_elapsed>>

\* An RST resets whatever there is: its id is not compared with the session's.
ClientProcessRstPacket(m) ==
    /\ m.type = "RST"
    /\ Receive(m, {})
    /\ ResetSession(m.addr)
    /\ UNCHANGED <<last_received_time, last_ping_time, socket, client_task_elapsed>>

\* ProcessPongPacket and ProcessDataPacket: a sign of life, whatever its id; the
\* session drops a DATA packet of another conversation.
ClientProcessPongOrDataPacket(m) ==
    LET c == m.addr IN
    /\ m.type \in {"PONG", "DATA"}
    /\ IF session[c] = None
       THEN /\ Receive(m, {ToServer(c, "RST", m.id)})
            /\ UNCHANGED last_received_time
       ELSE /\ Receive(m, {})
            /\ last_received_time' = [last_received_time EXCEPT ![c] = 0]
    /\ UNCHANGED <<state, pending_session, session, last_ping_time, socket,
                   reconnect_timer_registered, client_task_elapsed>>

\* HandleRead and ProcessPacket: dispatch on the type.
ClientProcessPacket(m) ==
    /\ m.to = "client"
    /\ socket[m.addr]
    /\ \/ ClientProcessSynPacket(m)
       \/ ClientProcessRstPacket(m)
       \/ ClientProcessPongOrDataPacket(m)

-------------------------------------------------------------------------------
(* The session on the client's loop, and time.                             *)

\* The session's link is dead, or the application closes it.
ClientSessionCloses(c) ==
    /\ session[c] # None
    /\ ~session[c].closed
    /\ session' = [session EXCEPT ![c].closed = TRUE]
    /\ UNCHANGED <<net, state, pending_session, last_received_time, last_ping_time,
                   socket, reconnect_timer_registered, client_task_elapsed>>

\* The session flushes a DATA packet.
ClientSessionOutput(c) ==
    /\ session[c] # None
    /\ ~session[c].closed
    /\ Transmit({ToServer(c, "DATA", session[c].session_id)})
    /\ UNCHANGED clientVars

\* One clock tick, as the clients' timestamps see it.
ClientTick ==
    /\ pending_session' = [c \in Clients |->
           IF pending_session[c] = None THEN None
           ELSE [pending_session[c] EXCEPT !.syn_elapsed =
                     Older(@, kClientSynSentTimeout)]]
    /\ last_received_time' = [c \in Clients |->
           Older(last_received_time[c], kClientSessionIdleSeconds)]
    /\ last_ping_time' = [c \in Clients |->
           Older(last_ping_time[c], kClientPingInterval)]
    /\ client_task_elapsed' = [c \in Clients |->
           IF socket[c]
           THEN Older(client_task_elapsed[c], kClientRunPeriodicTaskInterval)
           ELSE client_task_elapsed[c]]
    /\ UNCHANGED <<state, session, socket, reconnect_timer_registered>>
===============================================================================
