---------------------------- MODULE KCPSystemProofs ----------------------------
(***************************************************************************)
(* Theorems about KCPSystem, for all sets of clients and session ids, all  *)
(* retry limits and all timeouts.                                          *)
(***************************************************************************)
EXTENDS KCPSystem, TLAPS

-------------------------------------------------------------------------------
(* The network adds nothing but what is sent.                              *)

\* Whatever Carry sheds, it holds old or new packets only.
LEMMA CarryBounds ==
    ASSUME NEW held, NEW sent, NEW after \in Carry(held, sent)
    PROVE  after \subseteq held \cup sent
  BY DEF Carry

\* A step that sends without receiving, in terms of what may be in flight after.
LEMMA TransmitBounds ==
    ASSUME NEW sent, Transmit(sent)
    PROVE  net' \subseteq net \cup sent
  BY CarryBounds DEF Transmit

\* A step that receives m and answers, in terms of what may be in flight after.
LEMMA ReceiveBounds ==
    ASSUME NEW m, NEW sent, Receive(m, sent)
    PROVE  m \in net /\ net' \subseteq net \cup sent
  BY CarryBounds DEF Receive

\* The packets each end builds are packets of the protocol.
LEMMA PacketTypes ==
    ASSUME NEW c \in Clients, NEW i \in SessionIds
    PROVE  /\ ToServer(c, "SYN", ZeroId) \in Packets
           /\ \A t \in {"ACK", "RST", "PING", "DATA"} : ToServer(c, t, i) \in Packets
           /\ \A t \in {"SYN", "PONG", "DATA", "RST"} : ToClient(c, t, i) \in Packets
           /\ ToClient(c, "RST", ZeroId) \in Packets
  BY DEF Packets, ToServer, ToClient, HeaderIds

\* What the two ends may rely on when they read a header.
LEMMA PacketFields ==
    ASSUME NEW m \in Packets
    PROVE  /\ m.addr \in Clients
           /\ (m.to = "server" /\ m.type # "SYN") => m.id \in SessionIds
           /\ (m.to = "client" /\ m.type # "RST") => m.id \in SessionIds
  BY DEF Packets

\* Ageing keeps a timestamp within its limit.
LEMMA OlderType ==
    ASSUME NEW limit \in Nat, NEW age \in (0..limit) \cup {None}, None \notin Nat
    PROVE  /\ Older(age, limit) \in (0..limit) \cup {None}
           /\ Older(age, limit) = None <=> age = None
           /\ age # None => Older(age, limit) \in 0..limit
  BY DEF Older

-------------------------------------------------------------------------------
(* Type correctness.                                                       *)

\* The entries that the handlers write are entries of the maps.
LEMMA EntryTypes ==
    ASSUME NEW i \in SessionIds, NEW c \in Clients
    PROVE  /\ [session_id |-> i, retry_times |-> 0, syn_elapsed |-> 0] \in PendingSessions
           /\ [peer |-> c, closed |-> FALSE] \in Sessions
           /\ [id |-> i, peer |-> c] \in [id : SessionIds, peer : Clients]
           /\ \A p \in PendingSessions :
                 p.retry_times < kServerMaxSynRetryTimes =>
                     SynSentAgain(p) \in PendingSessions
           /\ \A s \in Sessions :
                 /\ [s EXCEPT !.peer = c] \in Sessions
                 /\ [s EXCEPT !.closed = TRUE] \in Sessions
  <1> USE ServerAssumption
  <1>1. [session_id |-> i, retry_times |-> 0, syn_elapsed |-> 0] \in PendingSessions
    BY DEF PendingSessions
  <1>2. [peer |-> c, closed |-> FALSE] \in Sessions
    BY DEF Sessions
  <1>3. ASSUME NEW p \in PendingSessions, p.retry_times < kServerMaxSynRetryTimes
        PROVE  SynSentAgain(p) \in PendingSessions
    <2>1. p.retry_times + 1 \in 0..kServerMaxSynRetryTimes
      BY <1>3 DEF PendingSessions
    <2>2. QED BY <1>3, <2>1 DEF PendingSessions, SynSentAgain
  <1>4. ASSUME NEW s \in Sessions
        PROVE  [s EXCEPT !.peer = c] \in Sessions /\ [s EXCEPT !.closed = TRUE] \in Sessions
    BY DEF Sessions
  <1>5. QED BY <1>1, <1>2, <1>3, <1>4

\* The ids recorded as offered stay session ids.
LEMMA RecordIssuedType ==
    ASSUME issued \in [Clients -> SUBSET SessionIds],
           pending_session_map' \in [Clients -> PendingSessions \cup {None}],
           RecordIssued
    PROVE  issued' \in [Clients -> SUBSET SessionIds]
  BY DEF RecordIssued, PendingSessions

\* The sessions that wait for their Close are sessions of known addresses.
LEMMA ClosePostedType ==
    ASSUME ServerTypeOK, NEW gone \in SUBSET SessionIds
    PROVE  ClosePosted(gone) \subseteq [id : SessionIds, peer : Clients]
  <1>1. \A i \in gone : session_map[i] # None => session_map[i].peer \in Clients
    BY DEF ServerTypeOK, Sessions
  <1>2. QED BY <1>1 DEF ClosePosted

\* CreateSession keeps the maps it changes well typed.
LEMMA CreateSessionType ==
    ASSUME ServerTypeOK, NEW i \in SessionIds, NEW c \in Clients, CreateSession(i, c)
    PROVE  /\ pending_session_map' \in [Clients -> PendingSessions \cup {None}]
           /\ session_map' \in [SessionIds -> Sessions \cup {None}]
           /\ idle_session_map' \in
                 [SessionIds -> (0..kServerSessionIdleSeconds) \cup {None}]
  <1>1. session_map' \in [SessionIds -> Sessions \cup {None}]
    BY EntryTypes DEF CreateSession, ServerTypeOK
  <1>2. idle_session_map' \in [SessionIds -> (0..kServerSessionIdleSeconds) \cup {None}]
    BY ServerAssumption DEF CreateSession, ServerTypeOK
  <1>3. QED BY <1>1, <1>2 DEF CreateSession, ServerTypeOK

\* Every server packet handler preserves the type of the server's maps.
LEMMA ServerHandlerType ==
    ASSUME TypeOK, NEW m \in net, ServerProcessPacket(m)
    PROVE  ServerTypeOK' /\ net' \in SUBSET Packets
  <1> USE ServerAssumption, NoneIsNoServerEntry
  <1>1. m \in Packets /\ m.to = "server" /\ m.addr \in Clients
    BY PacketFields DEF TypeOK, ServerProcessPacket
  <1>2. m.type # "SYN" => m.id \in SessionIds
    BY <1>1, PacketFields
  <1>4. CASE ServerProcessSynPacket(m)
    <2>1. CASE ServerAcceptSyn(m)
      <3>1. PICK i \in SessionIds :
              /\ pending_session_map' = [pending_session_map EXCEPT ![m.addr] =
                     [session_id |-> i, retry_times |-> 0, syn_elapsed |-> 0]]
              /\ Receive(m, {ToClient(m.addr, "SYN", i)})
        BY <2>1 DEF ServerAcceptSyn
      <3>2. net' \subseteq Packets
        BY <3>1, <1>1, ReceiveBounds, PacketTypes DEF TypeOK
      <3>4. ServerTypeOK'
        BY <3>1, <1>1, <1>4, EntryTypes DEF TypeOK, ServerTypeOK, ServerProcessSynPacket
      <3>5. QED BY <3>2, <3>4
    <2>2. CASE ServerRefuseSyn(m)
      <3>1. net' \subseteq Packets
        BY <2>2, <1>1, ReceiveBounds DEF TypeOK, ServerRefuseSyn, Packets, ToClient, HeaderIds
      <3>2. ServerTypeOK'
        BY <2>2, <1>4 DEF TypeOK, ServerTypeOK, ServerProcessSynPacket, ServerRefuseSyn
      <3>3. QED BY <3>1, <3>2
    <2>3. CASE ServerRepeatSyn(m)
      <3>1. pending_session_map[m.addr] \in PendingSessions
        BY <2>3, <1>1 DEF ServerRepeatSyn, TypeOK, ServerTypeOK
      <3>2. pending_session_map[m.addr].session_id \in SessionIds
        BY <3>1 DEF PendingSessions
      <3>3. net' \subseteq Packets
        BY <2>3, <3>2, <1>1, ReceiveBounds, PacketTypes DEF TypeOK, ServerRepeatSyn
      <3>4. pending_session_map' \in [Clients -> PendingSessions \cup {None}]
        <4>1. pending_session_map \in [Clients -> PendingSessions \cup {None}]
          BY DEF TypeOK, ServerTypeOK
        <4>2. CASE pending_session_map[m.addr].retry_times >= kServerMaxSynRetryTimes
          BY <4>1, <4>2, <2>3, <1>1 DEF ServerRepeatSyn
        <4>3. CASE ~(pending_session_map[m.addr].retry_times >= kServerMaxSynRetryTimes)
          <5>1. pending_session_map[m.addr].retry_times < kServerMaxSynRetryTimes
            BY <4>3, <3>1 DEF PendingSessions
          <5>2. SynSentAgain(pending_session_map[m.addr]) \in PendingSessions
            BY <5>1, <3>1, <3>2, <1>1, EntryTypes
          <5>3. pending_session_map' = [pending_session_map EXCEPT ![m.addr] =
                   SynSentAgain(pending_session_map[m.addr])]
            BY <4>3, <2>3 DEF ServerRepeatSyn
          <5>4. QED BY <5>2, <5>3, <4>1
        <4>4. QED BY <4>2, <4>3
      <3>5. QED
        BY <3>3, <3>4, <1>4 DEF TypeOK, ServerTypeOK, ServerProcessSynPacket
    <2>4. QED BY <2>1, <2>2, <2>3, <1>4 DEF ServerProcessSynPacket
  <1>5. CASE ServerProcessPingPacket(m)
    <2>1. net' \subseteq Packets
      BY <1>5, <1>1, <1>2, ReceiveBounds, PacketTypes DEF TypeOK, ServerProcessPingPacket
    <2>2. idle_session_map' \in
             [SessionIds -> (0..kServerSessionIdleSeconds) \cup {None}]
      BY <1>5, <1>2 DEF TypeOK, ServerTypeOK, ServerProcessPingPacket
    <2>3. QED
      BY <2>1, <2>2, <1>5 DEF TypeOK, ServerTypeOK, ServerProcessPingPacket
  <1>6. CASE ServerProcessAckPacket(m)
    <2>0. m.id \in SessionIds
      BY <1>6, <1>2 DEF ServerProcessAckPacket
    <2>1. net' \subseteq Packets
      BY <1>6, <1>1, <2>0, ReceiveBounds, PacketTypes DEF TypeOK, ServerProcessAckPacket
    <2>2. CASE CreateSession(m.id, m.addr)
      BY <2>0, <2>1, <2>2, <1>6, <1>1, CreateSessionType
      DEF TypeOK, ServerTypeOK, ServerProcessAckPacket
    <2>3. CASE UNCHANGED <<pending_session_map, session_map, idle_session_map>>
      BY <2>1, <2>3, <1>6 DEF TypeOK, ServerTypeOK, ServerProcessAckPacket
    <2>4. QED BY <2>2, <2>3, <1>6 DEF ServerProcessAckPacket
  <1>7. CASE ServerProcessRstPacket(m)
    <2>0. m.id \in SessionIds
      BY <1>7, <1>2 DEF ServerProcessRstPacket
    <2>1. net' \subseteq Packets
      BY <1>7, ReceiveBounds DEF TypeOK, ServerProcessRstPacket
    <2>2. closing' \subseteq [id : SessionIds, peer : Clients]
      BY <1>7, <2>0, ClosePostedType DEF TypeOK, ServerTypeOK, ServerProcessRstPacket
    <2>3. time_wait_session_map' \in
             [SessionIds -> (0..kServerSessionTimeWaitSeconds) \cup {None}]
      BY <1>7 DEF TypeOK, ServerTypeOK, ServerProcessRstPacket, TimeWaitInsert
    <2>4. QED
      BY <2>0, <2>1, <2>2, <2>3, <1>7, <1>1 DEF TypeOK, ServerTypeOK, ServerProcessRstPacket
  <1>8. CASE ServerProcessDataPacket(m)
    <2>0. m.id \in SessionIds
      BY <1>8, <1>2 DEF ServerProcessDataPacket
    <2>1. net' \subseteq Packets
      BY <1>8, <1>1, <2>0, ReceiveBounds, PacketTypes DEF TypeOK, ServerProcessDataPacket
    <2>2. CASE CreateSession(m.id, m.addr)
      BY <2>0, <2>1, <2>2, <1>8, <1>1, CreateSessionType
      DEF TypeOK, ServerTypeOK, ServerProcessDataPacket
    <2>3. CASE UNCHANGED <<pending_session_map, session_map, idle_session_map>>
      BY <2>1, <2>3, <1>8 DEF TypeOK, ServerTypeOK, ServerProcessDataPacket
    <2>4. CASE /\ session_map[m.id] # None
               /\ session_map' = [session_map EXCEPT ![m.id] =
                      IF @.closed THEN @ ELSE [@ EXCEPT !.peer = m.addr]]
               /\ UNCHANGED <<pending_session_map, idle_session_map>>
      <3>1. session_map[m.id] \in Sessions
        BY <2>4, <2>0 DEF TypeOK, ServerTypeOK
      <3>2. [session_map[m.id] EXCEPT !.peer = m.addr] \in Sessions
        BY <3>1, <1>1, <2>0, EntryTypes
      <3>3. QED
        BY <3>1, <3>2, <2>0, <2>1, <2>4, <1>8
        DEF TypeOK, ServerTypeOK, ServerProcessDataPacket
    <2>5. QED BY <2>2, <2>3, <2>4, <1>8 DEF ServerProcessDataPacket
  <1>9. QED BY <1>4, <1>5, <1>6, <1>7, <1>8 DEF ServerProcessPacket

\* The server's periodic task preserves the type of its maps.
LEMMA ServerTaskType ==
    ASSUME TypeOK, ServerRunPeriodicTask
    PROVE  ServerTypeOK' /\ net' \in SUBSET Packets
  <1> USE ServerAssumption, NoneIsNoServerEntry
  <1> DEFINE gone == {i \in SessionIds : Expired(i)}
  <1>1. \A c \in Clients : pending_session_map[c] # None =>
            /\ pending_session_map[c] \in PendingSessions
            /\ pending_session_map[c].session_id \in SessionIds
            /\ pending_session_map[c].retry_times \in 0..kServerMaxSynRetryTimes
    BY DEF TypeOK, ServerTypeOK, PendingSessions
  <1>2. net' \subseteq Packets
    <2>1. \A c \in SynResent :
             ToClient(c, "SYN", pending_session_map[c].session_id) \in Packets
      BY <1>1, PacketTypes DEF SynResent
    <2>2. QED BY <2>1, TransmitBounds DEF TypeOK, ServerRunPeriodicTask
  <1>3. pending_session_map' \in [Clients -> PendingSessions \cup {None}]
    <2>1. ASSUME NEW c \in Clients
          PROVE  PendingAfterTask[c] \in PendingSessions \cup {None}
      <3>1. CASE /\ pending_session_map[c] # None
                 /\ SynTimedOut(pending_session_map[c])
        <4>1. pending_session_map[c].retry_times < kServerMaxSynRetryTimes
          BY <3>1, <1>1 DEF SynTimedOut, SynExhausted
        <4>2. SynSentAgain(pending_session_map[c]) \in PendingSessions
          BY <4>1, <3>1, <1>1, EntryTypes
        <4>3. QED BY <4>2, <3>1 DEF PendingAfterTask, SynTimedOut
      <3>2. CASE ~(/\ pending_session_map[c] # None
                   /\ SynTimedOut(pending_session_map[c]))
        BY <3>2, <1>1 DEF PendingAfterTask
      <3>3. QED BY <3>1, <3>2
    <2>2. PendingAfterTask = [c \in Clients |-> PendingAfterTask[c]]
      BY DEF PendingAfterTask
    <2>3. QED BY <2>1, <2>2 DEF ServerRunPeriodicTask
  <1>4. closing' \subseteq [id : SessionIds, peer : Clients]
    BY ClosePostedType DEF TypeOK, ServerTypeOK, ServerRunPeriodicTask
  <1>5. /\ session_map' \in [SessionIds -> Sessions \cup {None}]
        /\ idle_session_map' \in
              [SessionIds -> (0..kServerSessionIdleSeconds) \cup {None}]
    BY DEF TypeOK, ServerTypeOK, ServerRunPeriodicTask
  <1>6. time_wait_session_map' \in
           [SessionIds -> (0..kServerSessionTimeWaitSeconds) \cup {None}]
    <2>1. TimeWaitInsert(gone) \in
             [SessionIds -> (0..kServerSessionTimeWaitSeconds) \cup {None}]
      BY DEF TypeOK, ServerTypeOK, TimeWaitInsert
    <2>2. QED BY <2>1 DEF ServerRunPeriodicTask
  <1>7. server_task_elapsed' \in 0..kServerRunPeriodicTaskInterval
    BY DEF ServerRunPeriodicTask
  <1>8. QED BY <1>2, <1>3, <1>4, <1>5, <1>6, <1>7 DEF ServerTypeOK

\* The steps of the sessions preserve the type of the server's maps.
LEMMA ServerSessionType ==
    ASSUME TypeOK, ServerSessionStep
    PROVE  ServerTypeOK' /\ net' \in SUBSET Packets
  <1>1. ASSUME NEW i \in SessionIds, ServerSessionCloses(i)
        PROVE  ServerTypeOK' /\ net' \in SUBSET Packets
    <2>1. session_map[i] \in Sessions
      BY <1>1 DEF ServerSessionCloses, TypeOK, ServerTypeOK
    <2>2. session_map' = [session_map EXCEPT ![i] = [session_map[i] EXCEPT !.closed = TRUE]]
      BY <1>1 DEF ServerSessionCloses
    <2>3. [session_map[i] EXCEPT !.closed = TRUE] \in Sessions
      BY <2>1 DEF Sessions
    <2>4. session_map' \in [SessionIds -> Sessions \cup {None}]
      BY <2>2, <2>3 DEF TypeOK, ServerTypeOK
    <2>5. QED BY <2>4, <1>1 DEF ServerSessionCloses, TypeOK, ServerTypeOK
  <1>2. ASSUME NEW s \in closing, ServerCloseRuns(s)
        PROVE  ServerTypeOK' /\ net' \in SUBSET Packets
    BY <1>2 DEF ServerCloseRuns, TypeOK, ServerTypeOK
  <1>3. ASSUME NEW i \in SessionIds, NEW c \in Clients, ServerSessionOutput(i, c)
        PROVE  ServerTypeOK' /\ net' \in SUBSET Packets
    <2>1. net' \subseteq Packets
      BY <1>3, TransmitBounds, PacketTypes DEF ServerSessionOutput, TypeOK
    <2>2. QED BY <2>1, <1>3 DEF ServerSessionOutput, serverVars, TypeOK, ServerTypeOK
  <1>4. QED BY <1>1, <1>2, <1>3 DEF ServerSessionStep

\* A clock tick keeps the ages of the server's entries within their limits.
LEMMA ServerTickType ==
    ASSUME TypeOK, ServerTick
    PROVE  ServerTypeOK'
  <1> USE ServerAssumption, NoneIsNoServerEntry
  <1>1. pending_session_map' \in [Clients -> PendingSessions \cup {None}]
    <2>1. ASSUME NEW c \in Clients, pending_session_map[c] # None
          PROVE  [pending_session_map[c] EXCEPT !.syn_elapsed =
                     Older(@, kServerSynSentTimeout)] \in PendingSessions
      <3>1. pending_session_map[c] \in PendingSessions
        BY <2>1 DEF TypeOK, ServerTypeOK
      <3>2. pending_session_map[c].syn_elapsed \in 0..kServerSynSentTimeout
        BY <3>1 DEF PendingSessions
      <3>3. Older(pending_session_map[c].syn_elapsed, kServerSynSentTimeout)
               \in 0..kServerSynSentTimeout
        BY <3>2, OlderType
      <3>4. QED BY <3>1, <3>3 DEF PendingSessions
    <2>2. QED BY <2>1 DEF ServerTick
  <1>2. idle_session_map' \in [SessionIds -> (0..kServerSessionIdleSeconds) \cup {None}]
    BY OlderType DEF TypeOK, ServerTypeOK, ServerTick
  <1>3. time_wait_session_map' \in
           [SessionIds -> (0..kServerSessionTimeWaitSeconds) \cup {None}]
    BY OlderType DEF TypeOK, ServerTypeOK, ServerTick
  <1>4. server_task_elapsed' \in 0..kServerRunPeriodicTaskInterval
    BY OlderType DEF TypeOK, ServerTypeOK, ServerTick
  <1>5. QED BY <1>1, <1>2, <1>3, <1>4 DEF TypeOK, ServerTypeOK, ServerTick

-------------------------------------------------------------------------------
(* The client.  That its pointers are set when a handler dereferences them *)
(* is part of type correctness, so the three facts go together.            *)

ClientInv == ClientTypeOK /\ ClientStateMatchesPointers /\ ReconnectTimerArmed

\* ResetSession leaves a consistent client, whatever state it found.
LEMMA ResetSessionInv ==
    ASSUME ClientInv, NEW c \in Clients, socket[c], ResetSession(c),
           client_task_elapsed' \in [Clients -> 0..kClientRunPeriodicTaskInterval],
           UNCHANGED <<last_received_time, last_ping_time, socket>>
    PROVE  ClientInv'
  <1> USE NoneIsNoClientEntry, ClientAssumption
  <1>1. ClientTypeOK'
    BY DEF ClientInv, ClientTypeOK, ResetSession
  <1>2. ClientStateMatchesPointers'
    BY DEF ClientInv, ClientTypeOK, ClientStateMatchesPointers, ResetSession
  <1>3. ReconnectTimerArmed'
    BY DEF ClientInv, ClientTypeOK, ReconnectTimerArmed, ResetSession
  <1>4. QED BY <1>1, <1>2, <1>3 DEF ClientInv

\* Entries the client writes are well typed.
LEMMA ClientEntryTypes ==
    /\ NewPendingSession \in ClientPendingSessions
    /\ \A i \in SessionIds, b \in BOOLEAN :
           [session_id |-> i, closed |-> b] \in ClientSessions
    /\ \A p \in ClientPendingSessions :
           p.retry_times < kClientMaxSynRetryTimes =>
              [retry_times |-> p.retry_times + 1, syn_elapsed |-> 0] \in ClientPendingSessions
  BY ClientAssumption DEF ClientPendingSessions, ClientSessions, NewPendingSession

\* BuildSession sends nothing but the client's SYN.
LEMMA BuildSessionNet ==
    ASSUME net \in SUBSET Packets, NEW c \in Clients, BuildSession(c)
    PROVE  net' \in SUBSET Packets
  <1>1. ToServer(c, "SYN", ZeroId) \in Packets
    BY DEF Packets, ToServer
  <1>2. QED BY <1>1, TransmitBounds DEF BuildSession

\* Connect opens the socket and leaves the client in its first handshake.
LEMMA ConnectInv ==
    ASSUME ClientInv, NEW c \in Clients, Connect(c)
    PROVE  ClientInv'
  <1> USE NoneIsNoClientEntry, ClientAssumption
  <1>1. state[c] = "CLOSED" /\ session[c] = None
    BY DEF ClientInv, ClientStateMatchesPointers, Connect
  <1>2. /\ pending_session' = [pending_session EXCEPT ![c] = NewPendingSession]
        /\ state' = [state EXCEPT ![c] = "PENDING"]
    BY <1>1 DEF Connect, BuildSession
  <1>3. ClientTypeOK'
    BY <1>2, ClientEntryTypes DEF ClientInv, ClientTypeOK, Connect
  <1>4. ClientStateMatchesPointers'
    BY <1>1, <1>2, ClientEntryTypes
    DEF ClientInv, ClientTypeOK, ClientStateMatchesPointers, Connect
  <1>5. ReconnectTimerArmed'
    BY <1>2 DEF ClientInv, ClientTypeOK, ClientStateMatchesPointers, ReconnectTimerArmed, Connect
  <1>6. QED BY <1>3, <1>4, <1>5 DEF ClientInv

\* Disconnect leaves neither session, handshake nor timer.
LEMMA DisconnectInv ==
    ASSUME ClientInv, net \in SUBSET Packets, NEW c \in Clients, Disconnect(c)
    PROVE  ClientInv' /\ net' \in SUBSET Packets
  <1> USE NoneIsNoClientEntry, ClientAssumption
  <1>1. ClientTypeOK'
    BY DEF ClientInv, ClientTypeOK, Disconnect
  <1>2. ClientStateMatchesPointers'
    BY DEF ClientInv, ClientTypeOK, ClientStateMatchesPointers, Disconnect
  <1>3. ReconnectTimerArmed'
    BY DEF ClientInv, ClientTypeOK, ReconnectTimerArmed, Disconnect
  <1>4. net' \in SUBSET Packets
    <2>1. CASE state[c] = "CONNECTED"
      <3>1. session[c].session_id \in SessionIds
        BY <2>1 DEF ClientInv, ClientTypeOK, ClientStateMatchesPointers, ClientSessions
      <3>2. PICK flushed \in SUBSET {ToServer(c, "DATA", session[c].session_id)} :
              Transmit(flushed \cup {ToServer(c, "RST", session[c].session_id)})
        BY <2>1 DEF Disconnect
      <3>3. QED BY <3>1, <3>2, TransmitBounds, PacketTypes
    <2>2. CASE state[c] # "CONNECTED"
      BY <2>2 DEF Disconnect
    <2>3. QED BY <2>1, <2>2
  <1>5. QED BY <1>1, <1>2, <1>3, <1>4 DEF ClientInv

\* When the reconnect timer fires, a handshake replaces it.
LEMMA ReconnectTimerInv ==
    ASSUME ClientInv, NEW c \in Clients, ReconnectTimer(c)
    PROVE  ClientInv'
  <1> USE NoneIsNoClientEntry, ClientAssumption
  <1>1. CASE state[c] = "CLOSED"
    <2>1. /\ pending_session' = [pending_session EXCEPT ![c] = NewPendingSession]
          /\ state' = [state EXCEPT ![c] = "PENDING"]
      BY <1>1 DEF ReconnectTimer, BuildSession
    <2>2. ClientTypeOK'
      BY <2>1, ClientEntryTypes DEF ClientInv, ClientTypeOK, ReconnectTimer
    <2>3. ClientStateMatchesPointers'
      BY <1>1, <2>1, ClientEntryTypes
      DEF ClientInv, ClientTypeOK, ClientStateMatchesPointers, ReconnectTimer
    <2>4. ReconnectTimerArmed'
      BY <2>1 DEF ClientInv, ClientTypeOK, ReconnectTimerArmed, ReconnectTimer
    <2>5. QED BY <2>2, <2>3, <2>4 DEF ClientInv
  <1>2. CASE state[c] # "CLOSED"
    <2>1. UNCHANGED <<pending_session, state>>
      BY <1>2 DEF ReconnectTimer, BuildSession
    <2>2. ClientTypeOK'
      BY <2>1 DEF ClientInv, ClientTypeOK, ReconnectTimer
    <2>3. ClientStateMatchesPointers'
      BY <2>1 DEF ClientInv, ClientTypeOK, ClientStateMatchesPointers, ReconnectTimer
    <2>4. ReconnectTimerArmed'
      BY <1>2, <2>1 DEF ClientInv, ClientTypeOK, ReconnectTimerArmed, ReconnectTimer
    <2>5. QED BY <2>2, <2>3, <2>4 DEF ClientInv
  <1>3. QED BY <1>1, <1>2

\* The periodic task keeps state_ and the pointers together, ResetSession included.
LEMMA ClientTaskInv ==
    ASSUME ClientInv, net \in SUBSET Packets, NEW c \in Clients, ClientRunPeriodicTask(c)
    PROVE  ClientInv' /\ net' \in SUBSET Packets
  <1> USE NoneIsNoClientEntry, ClientAssumption
  <1>1. client_task_elapsed' \in [Clients -> 0..kClientRunPeriodicTaskInterval]
    BY DEF ClientInv, ClientTypeOK, ClientRunPeriodicTask
  <1>2. socket[c] /\ UNCHANGED <<last_received_time, last_ping_time, socket>>
    BY DEF ClientRunPeriodicTask
  <1>3. ASSUME ResetSession(c), UNCHANGED net
        PROVE  ClientInv' /\ net' \in SUBSET Packets
    BY <1>1, <1>2, <1>3, ResetSessionInv
  <1>4. ASSUME UNCHANGED <<pending_session, session, state, reconnect_timer_registered>>
        PROVE  ClientInv'
    BY <1>1, <1>2, <1>4
    DEF ClientInv, ClientTypeOK, ClientStateMatchesPointers, ReconnectTimerArmed
  <1>5. CASE PendingTask(c)
    <2>0. pending_session[c] \in ClientPendingSessions
      BY <1>5 DEF PendingTask, ClientInv, ClientTypeOK, ClientStateMatchesPointers
    <2>1. CASE pending_session[c].retry_times >= kClientMaxSynRetryTimes
      BY <2>1, <1>3, <1>5 DEF PendingTask
    <2>2. CASE /\ ~(pending_session[c].retry_times >= kClientMaxSynRetryTimes)
               /\ pending_session[c].syn_elapsed >= kClientSynSentTimeout
      <3>1. [retry_times |-> pending_session[c].retry_times + 1, syn_elapsed |-> 0]
               \in ClientPendingSessions
        <4>1. pending_session[c].retry_times < kClientMaxSynRetryTimes
          BY <2>0, <2>2 DEF ClientPendingSessions
        <4>2. QED BY <2>0, <4>1, ClientEntryTypes
      <3>2. /\ pending_session' = [pending_session EXCEPT ![c] =
                   [retry_times |-> pending_session[c].retry_times + 1, syn_elapsed |-> 0]]
            /\ Transmit({ToServer(c, "SYN", ZeroId)})
            /\ UNCHANGED <<session, state, reconnect_timer_registered>>
        BY <2>2, <1>5 DEF PendingTask
      <3>3. ToServer(c, "SYN", ZeroId) \in Packets
        BY DEF Packets, ToServer
      <3>4. net' \in SUBSET Packets
        BY <3>2, <3>3, TransmitBounds
      <3>5. ClientTypeOK'
        BY <3>1, <3>2, <1>1, <1>2 DEF ClientInv, ClientTypeOK
      <3>6. ClientStateMatchesPointers'
        BY <3>1, <3>2, <1>2, <1>5
        DEF PendingTask, ClientInv, ClientTypeOK, ClientStateMatchesPointers
      <3>7. ReconnectTimerArmed'
        BY <3>2, <1>2 DEF ClientInv, ReconnectTimerArmed
      <3>8. QED BY <3>4, <3>5, <3>6, <3>7 DEF ClientInv
    <2>3. CASE /\ ~(pending_session[c].retry_times >= kClientMaxSynRetryTimes)
               /\ ~(pending_session[c].syn_elapsed >= kClientSynSentTimeout)
      BY <2>3, <1>4, <1>5 DEF PendingTask
    <2>4. QED BY <2>1, <2>2, <2>3
  <1>6. CASE ConnectedTask(c)
    <2>0. session[c].session_id \in SessionIds
      BY <1>6 DEF ConnectedTask, ClientInv, ClientTypeOK, ClientStateMatchesPointers,
                  ClientSessions
    <2>1. CASE ReceiveTimedOut(c) \/ session[c].closed
      BY <2>1, <1>3, <1>6 DEF ConnectedTask
    <2>2. CASE ~(ReceiveTimedOut(c) \/ session[c].closed)
      <3>1. net' \in SUBSET Packets
        BY <2>0, <2>2, <1>6, TransmitBounds, PacketTypes DEF ConnectedTask
      <3>2. QED BY <3>1, <2>2, <1>4, <1>6 DEF ConnectedTask
    <2>3. QED BY <2>1, <2>2
  <1>7. CASE /\ state[c] = "CLOSED"
             /\ UNCHANGED <<net, pending_session, session, state,
                            reconnect_timer_registered>>
    BY <1>4, <1>7
  <1>8. QED BY <1>5, <1>6, <1>7 DEF ClientRunPeriodicTask

\* So do the packet handlers of the client.
LEMMA ClientHandlerInv ==
    ASSUME ClientInv, net \in SUBSET Packets, NEW m \in net, ClientProcessPacket(m)
    PROVE  ClientInv' /\ net' \in SUBSET Packets
  <1> USE NoneIsNoClientEntry, ClientAssumption
  <1>1. m \in Packets /\ m.to = "client" /\ m.addr \in Clients /\ socket[m.addr]
    BY PacketFields DEF ClientProcessPacket
  <1>2. m.type # "RST" => m.id \in SessionIds
    BY <1>1, PacketFields
  <1>3. CASE ClientProcessSynPacket(m)
    <2>0. m.id \in SessionIds
      BY <1>2, <1>3 DEF ClientProcessSynPacket
    <2>1. CASE ClientAnswerSyn(m)
      <3>1. net' \in SUBSET Packets
        BY <2>0, <2>1, <1>1, ReceiveBounds, PacketTypes DEF ClientAnswerSyn
      <3>2. QED
        BY <3>1, <2>1, <1>3
        DEF ClientAnswerSyn, ClientProcessSynPacket, ClientInv, ClientTypeOK,
            ClientStateMatchesPointers, ReconnectTimerArmed
    <2>2. CASE ClientAdoptSession(m)
      <3>1. PICK early \in SUBSET {ToServer(m.addr, "DATA", m.id)}, closed \in BOOLEAN :
              /\ session' = [session EXCEPT ![m.addr] =
                     [session_id |-> m.id, closed |-> closed]]
              /\ Receive(m, early \cup {ToServer(m.addr, "ACK", m.id)})
        BY <2>2 DEF ClientAdoptSession
      <3>2. net' \in SUBSET Packets
        BY <3>1, <2>0, <1>1, ReceiveBounds, PacketTypes
      <3>3. [session_id |-> m.id, closed |-> closed] \in ClientSessions
        BY <2>0, ClientEntryTypes
      <3>4. /\ pending_session' = [pending_session EXCEPT ![m.addr] = None]
            /\ last_ping_time' = [last_ping_time EXCEPT ![m.addr] = 0]
            /\ state' = [state EXCEPT ![m.addr] = "CONNECTED"]
            /\ pending_session[m.addr] # None
            /\ UNCHANGED <<last_received_time, socket, reconnect_timer_registered,
                           client_task_elapsed>>
        BY <2>2, <1>3 DEF ClientAdoptSession, ClientProcessSynPacket
      <3>5. ClientTypeOK'
        <4>1. session' \in [Clients -> ClientSessions \cup {None}]
          BY <3>1, <3>3 DEF ClientInv, ClientTypeOK
        <4>2. last_ping_time' \in [Clients -> (0..kClientPingInterval) \cup {None}]
          <5>1. 0 \in (0..kClientPingInterval) \cup {None}
            OBVIOUS
          <5>2. last_ping_time \in [Clients -> (0..kClientPingInterval) \cup {None}]
            BY DEF ClientInv, ClientTypeOK
          <5>3. QED BY <5>1, <5>2, <3>4
        <4>3. QED BY <4>1, <4>2, <3>4 DEF ClientInv, ClientTypeOK
      <3>6. ClientStateMatchesPointers'
        BY <3>1, <3>3, <3>4, <1>1 DEF ClientInv, ClientTypeOK, ClientStateMatchesPointers
      <3>7. ReconnectTimerArmed'
        BY <3>4 DEF ClientInv, ClientTypeOK, ClientStateMatchesPointers, ReconnectTimerArmed
      <3>8. QED BY <3>2, <3>5, <3>6, <3>7 DEF ClientInv
    <2>3. QED BY <2>1, <2>2, <1>3 DEF ClientProcessSynPacket
  <1>4. CASE ClientProcessRstPacket(m)
    <2>1. net' \in SUBSET Packets
      BY <1>4, ReceiveBounds DEF ClientProcessRstPacket
    <2>2. client_task_elapsed' \in [Clients -> 0..kClientRunPeriodicTaskInterval]
      BY <1>4 DEF ClientProcessRstPacket, ClientInv, ClientTypeOK
    <2>3. QED
      BY <2>1, <2>2, <1>1, <1>4, ResetSessionInv DEF ClientProcessRstPacket
  <1>5. CASE ClientProcessPongOrDataPacket(m)
    <2>0. m.id \in SessionIds
      BY <1>2, <1>5 DEF ClientProcessPongOrDataPacket
    <2>1. net' \in SUBSET Packets
      BY <1>1, <1>5, <2>0, ReceiveBounds, PacketTypes DEF ClientProcessPongOrDataPacket
    <2>2. QED
      BY <2>1, <1>1, <1>5
      DEF ClientProcessPongOrDataPacket, ClientInv, ClientTypeOK,
          ClientStateMatchesPointers, ReconnectTimerArmed
  <1>6. QED BY <1>3, <1>4, <1>5 DEF ClientProcessPacket

\* What the session does on the client's loop touches closed_ and the network only.
LEMMA ClientSessionInv ==
    ASSUME ClientInv, net \in SUBSET Packets, NEW c \in Clients,
           ClientSessionCloses(c) \/ ClientSessionOutput(c)
    PROVE  ClientInv' /\ net' \in SUBSET Packets
  <1> USE NoneIsNoClientEntry, ClientAssumption
  <1>0. session[c] \in ClientSessions
    BY DEF ClientSessionCloses, ClientSessionOutput, ClientInv, ClientTypeOK
  <1>1. CASE ClientSessionCloses(c)
    <2>1. [session[c] EXCEPT !.closed = TRUE] \in ClientSessions
      BY <1>0 DEF ClientSessions
    <2>2. session' = [session EXCEPT ![c] = [session[c] EXCEPT !.closed = TRUE]]
      BY <1>1 DEF ClientSessionCloses
    <2>3. ClientTypeOK'
      BY <2>1, <2>2, <1>1 DEF ClientSessionCloses, ClientInv, ClientTypeOK
    <2>4. ClientStateMatchesPointers'
      <3>1. ClientStateMatchesPointers /\ session[c] # None /\ session'[c] # None
        BY <2>1, <2>2, <1>1 DEF ClientSessionCloses, ClientInv, ClientTypeOK
      <3>2. /\ \A d \in Clients : d # c => session'[d] = session[d]
            /\ UNCHANGED <<state, pending_session, socket, reconnect_timer_registered>>
        BY <2>2, <1>1 DEF ClientSessionCloses, ClientInv, ClientTypeOK
      <3> QED BY <3>1, <3>2 DEF ClientStateMatchesPointers
    <2>5. ReconnectTimerArmed'
      BY <1>1 DEF ClientSessionCloses, ClientInv, ReconnectTimerArmed
    <2>6. QED BY <2>3, <2>4, <2>5, <1>1 DEF ClientSessionCloses, ClientInv
  <1>2. CASE ClientSessionOutput(c)
    <2>1. session[c].session_id \in SessionIds
      BY <1>0 DEF ClientSessions
    <2>2. net' \in SUBSET Packets
      BY <2>1, <1>2, TransmitBounds, PacketTypes DEF ClientSessionOutput
    <2>3. QED
      BY <2>2, <1>2
      DEF ClientSessionOutput, clientVars, ClientInv, ClientTypeOK,
          ClientStateMatchesPointers, ReconnectTimerArmed
  <1>3. QED BY <1>1, <1>2

\* The passing of time changes ages only.
LEMMA ClientTickInv ==
    ASSUME ClientInv, ClientTick
    PROVE  ClientInv'
  <1> USE NoneIsNoClientEntry, ClientAssumption
  <1>1. /\ pending_session' \in [Clients -> ClientPendingSessions \cup {None}]
        /\ \A c \in Clients : pending_session'[c] = None <=> pending_session[c] = None
    <2>1. ASSUME NEW c \in Clients, pending_session[c] # None
          PROVE  [pending_session[c] EXCEPT !.syn_elapsed =
                     Older(@, kClientSynSentTimeout)] \in ClientPendingSessions
      <3>1. pending_session[c] \in ClientPendingSessions
        BY <2>1 DEF ClientInv, ClientTypeOK
      <3>2. pending_session[c].syn_elapsed \in 0..kClientSynSentTimeout
        BY <3>1 DEF ClientPendingSessions
      <3>3. Older(pending_session[c].syn_elapsed, kClientSynSentTimeout)
               \in 0..kClientSynSentTimeout
        BY <3>2, OlderType
      <3>4. QED BY <3>1, <3>3 DEF ClientPendingSessions
    <2>2. QED BY <2>1 DEF ClientTick
  <1>2. last_received_time' \in [Clients -> (0..kClientSessionIdleSeconds) \cup {None}]
    BY OlderType DEF ClientInv, ClientTypeOK, ClientTick
  <1>3. last_ping_time' \in [Clients -> (0..kClientPingInterval) \cup {None}]
    BY OlderType DEF ClientInv, ClientTypeOK, ClientTick
  <1>4. client_task_elapsed' \in [Clients -> 0..kClientRunPeriodicTaskInterval]
    BY OlderType DEF ClientInv, ClientTypeOK, ClientTick
  <1>5. ClientTypeOK'
    BY <1>1, <1>2, <1>3, <1>4 DEF ClientInv, ClientTypeOK, ClientTick
  <1>6. ClientStateMatchesPointers' /\ ReconnectTimerArmed'
    BY <1>1 DEF ClientInv, ClientStateMatchesPointers, ReconnectTimerArmed, ClientTick
  <1>7. QED BY <1>5, <1>6 DEF ClientInv

-------------------------------------------------------------------------------
(* Type correctness and the state of the clients.                          *)

\* Where no client program runs, no socket is open.
OnlyHostsAreOpen == \A c \in Clients : socket[c] => c \in hosts

TypeAndClientInv ==
    /\ TypeOK
    /\ ClientStateMatchesPointers
    /\ ReconnectTimerArmed
    /\ OnlyHostsAreOpen

\* What stays when the clients at c and d exchange their addresses.
LEMMA ExchangedIs ==
    ASSUME NEW S, NEW f \in [Clients -> S], NEW c \in Clients, NEW d \in Clients
    PROVE  /\ Exchanged(f, c, d) \in [Clients -> S]
           /\ Exchanged(f, c, d)[c] = f[d]
           /\ Exchanged(f, c, d)[d] = f[c]
           /\ \A x \in Clients : x # c /\ x # d => Exchanged(f, c, d)[x] = f[x]
  BY DEF Exchanged

\* Every step but a change of address leaves the programs where they are, and a
\* socket is opened by Connect only.
LEMMA HostsStep ==
    ASSUME TypeOK, OnlyHostsAreOpen, [Next]_vars
    PROVE  hosts' \in SUBSET Clients /\ OnlyHostsAreOpen'
  <1>0. socket \in [Clients -> BOOLEAN] /\ hosts \in SUBSET Clients
    BY DEF TypeOK, ClientTypeOK
  <1>u. ASSUME UNCHANGED <<hosts, socket>>
        PROVE  hosts' \in SUBSET Clients /\ OnlyHostsAreOpen'
    BY <1>0, <1>u DEF OnlyHostsAreOpen
  <1>1. CASE \E m \in net : ServerReceives(m)
    BY <1>1, <1>u DEF ServerReceives, clientVars
  <1>2. CASE ServerTask \/ ServerSessionStep
    BY <1>2, <1>u DEF ServerTask, ServerSessionStep, clientVars
  <1>3. CASE \E m \in net : ClientReceives(m)
    BY <1>3, <1>u DEF ClientReceives, ClientProcessPacket, ClientProcessSynPacket,
                      ClientProcessRstPacket, ClientProcessPongOrDataPacket
  <1>4. CASE \E c \in Clients : ClientTask(c) \/ ClientReconnects(c)
    BY <1>4, <1>u DEF ClientTask, ClientReconnects, ClientRunPeriodicTask, ReconnectTimer
  <1>5. ASSUME NEW c \in Clients, ClientUser(c)
        PROVE  hosts' \in SUBSET Clients /\ OnlyHostsAreOpen'
    <2>0. UNCHANGED hosts
      BY <1>5 DEF ClientUser
    <2>1. CASE c \in hosts /\ Connect(c)
      BY <1>0, <2>0, <2>1 DEF Connect, OnlyHostsAreOpen
    <2>2. CASE Disconnect(c)
      BY <1>0, <2>0, <2>2 DEF Disconnect, OnlyHostsAreOpen
    <2>3. CASE ClientSessionCloses(c) \/ ClientSessionOutput(c)
      BY <2>0, <2>3, <1>u DEF ClientSessionCloses, ClientSessionOutput, clientVars
    <2>4. QED BY <2>1, <2>2, <2>3, <1>5 DEF ClientUser
  <1>6. CASE (\E m \in net : NetworkLoses(m)) \/ Tick
    BY <1>6, <1>u DEF NetworkLoses, Tick, ClientTick, clientVars
  <1>7. ASSUME NEW c \in Clients, NEW d \in Clients, AddressChanges(c, d)
        PROVE  hosts' \in SUBSET Clients /\ OnlyHostsAreOpen'
    <2>1. /\ c \in hosts /\ d \notin hosts /\ hosts' = (hosts \ {c}) \cup {d}
          /\ socket' = Exchanged(socket, c, d)
      BY <1>7 DEF AddressChanges
    <2>2. /\ socket'[c] = socket[d] /\ socket'[d] = socket[c]
          /\ \A x \in Clients : x # c /\ x # d => socket'[x] = socket[x]
      BY <2>1, <1>0, ExchangedIs
    <2>3. QED BY <1>0, <2>1, <2>2 DEF OnlyHostsAreOpen
  <1>8. CASE UNCHANGED vars
    BY <1>8, <1>u DEF vars, clientVars
  <1>9. QED
    BY <1>1, <1>2, <1>3, <1>4, <1>5, <1>6, <1>7, <1>8 DEF Next, ProgramStep

\* A client and all that it holds are the same at their new address.
LEMMA AddressChangesInv ==
    ASSUME ClientInv, issued \in [Clients -> SUBSET SessionIds],
           NEW c \in Clients, NEW d \in Clients, AddressChanges(c, d)
    PROVE  ClientInv' /\ issued' \in [Clients -> SUBSET SessionIds]
  <1>0. ClientTypeOK /\ ClientStateMatchesPointers /\ ReconnectTimerArmed
    BY DEF ClientInv
  <1>1. ClientTypeOK'
    BY <1>0, ExchangedIs DEF AddressChanges, ClientTypeOK
  <1>2. /\ state'[c] = state[d] /\ state'[d] = state[c]
        /\ pending_session'[c] = pending_session[d]
        /\ pending_session'[d] = pending_session[c]
        /\ session'[c] = session[d] /\ session'[d] = session[c]
        /\ socket'[c] = socket[d] /\ socket'[d] = socket[c]
        /\ reconnect_timer_registered'[c] = reconnect_timer_registered[d]
        /\ reconnect_timer_registered'[d] = reconnect_timer_registered[c]
    BY <1>0 DEF AddressChanges, ClientTypeOK, Exchanged
  <1>3. ASSUME NEW x \in Clients, x # c, x # d
        PROVE  /\ state'[x] = state[x] /\ pending_session'[x] = pending_session[x]
               /\ session'[x] = session[x] /\ socket'[x] = socket[x]
               /\ reconnect_timer_registered'[x] = reconnect_timer_registered[x]
    BY <1>0, <1>3 DEF AddressChanges, ClientTypeOK, Exchanged
  <1>4. ClientStateMatchesPointers'
    <2> SUFFICES ASSUME NEW x \in Clients
                 PROVE  /\ state'[x] = "PENDING" <=> pending_session'[x] # None
                        /\ state'[x] = "CONNECTED" <=> session'[x] # None
                        /\ ~socket'[x] =>
                              state'[x] = "CLOSED" /\ ~reconnect_timer_registered'[x]
      BY DEF ClientStateMatchesPointers
    <2>1. CASE x = c
      BY <2>1, <1>0, <1>2, Zenon DEF ClientStateMatchesPointers
    <2>2. CASE x = d
      BY <2>2, <1>0, <1>2, Zenon DEF ClientStateMatchesPointers
    <2>3. CASE x # c /\ x # d
      BY <2>3, <1>0, <1>3, Zenon DEF ClientStateMatchesPointers
    <2>4. QED BY <2>1, <2>2, <2>3
  <1>5. ReconnectTimerArmed'
    <2>1. c \in ReconnectEnabled <=> d \in ReconnectEnabled
      BY DEF AddressChanges
    <2>2. ReconnectEnabled \subseteq Clients
      BY ClientAssumption
    <2>3. QED BY <1>0, <1>2, <1>3, <2>1, <2>2, Zenon DEF ReconnectTimerArmed
  <1>6. issued' \in [Clients -> SUBSET SessionIds]
    BY DEF AddressChanges
  <1>7. QED BY <1>1, <1>4, <1>5, <1>6 DEF ClientInv

\* The invariant holds before the first Connect.
LEMMA TypeAndClientInit == Init => TypeAndClientInv
  <1> SUFFICES ASSUME Init PROVE TypeAndClientInv
    OBVIOUS
  <1> USE ServerAssumption, ClientAssumption DEF Init
  <1>1. ServerTypeOK
    BY DEF ServerInit, ServerTypeOK
  <1>2. ClientTypeOK
    BY DEF ClientInit, ClientTypeOK
  <1>3. ClientStateMatchesPointers /\ ReconnectTimerArmed
    BY DEF ClientInit, ClientStateMatchesPointers, ReconnectTimerArmed
  <1>4. /\ net \in SUBSET Packets /\ issued \in [Clients -> SUBSET SessionIds]
        /\ hosts \in SUBSET Clients
    OBVIOUS
  <1>5. OnlyHostsAreOpen
    BY DEF ClientInit, OnlyHostsAreOpen
  <1>6. QED BY <1>1, <1>2, <1>3, <1>4, <1>5 DEF TypeAndClientInv, TypeOK

\* Every step of the system preserves it, one case per action.
LEMMA TypeAndClientStep ==
    ASSUME TypeAndClientInv, [Next]_vars
    PROVE  TypeAndClientInv'
  <1>0. /\ TypeOK /\ ClientInv /\ ServerTypeOK /\ net \in SUBSET Packets
        /\ issued \in [Clients -> SUBSET SessionIds]
    BY DEF TypeAndClientInv, TypeOK, ClientInv
  <1>h. hosts' \in SUBSET Clients /\ OnlyHostsAreOpen'
    BY HostsStep DEF TypeAndClientInv
  <1> SUFFICES /\ ServerTypeOK' /\ ClientInv' /\ net' \in SUBSET Packets
               /\ issued' \in [Clients -> SUBSET SessionIds]
    BY <1>h DEF TypeAndClientInv, TypeOK, ClientInv
  <1>c. ASSUME UNCHANGED clientVars PROVE ClientInv'
    BY <1>0, <1>c DEF clientVars, ClientInv, ClientTypeOK, ClientStateMatchesPointers,
                      ReconnectTimerArmed
  <1>s. ASSUME UNCHANGED serverVars PROVE ServerTypeOK'
    BY <1>0, <1>s DEF serverVars, ServerTypeOK
  <1>1. ASSUME NEW m \in net, ServerReceives(m)
        PROVE  /\ ServerTypeOK' /\ ClientInv' /\ net' \in SUBSET Packets
               /\ issued' \in [Clients -> SUBSET SessionIds]
    <2>1. ServerTypeOK' /\ net' \in SUBSET Packets
      BY <1>0, <1>1, ServerHandlerType DEF ServerReceives
    <2>2. issued' \in [Clients -> SUBSET SessionIds]
      BY <1>0, <1>1, <2>1, RecordIssuedType DEF ServerReceives, ServerTypeOK
    <2>3. QED BY <2>1, <2>2, <1>1, <1>c DEF ServerReceives
  <1>2. CASE ServerTask
    BY <1>0, <1>2, <1>c, ServerTaskType DEF ServerTask
  <1>3. CASE ServerSessionStep
    <2>1. UNCHANGED <<clientVars, issued>>
      BY <1>3 DEF ServerSessionStep
    <2>2. QED BY <2>1, <1>0, <1>3, <1>c, ServerSessionType
  <1>4. ASSUME NEW m \in net, ClientReceives(m)
        PROVE  /\ ServerTypeOK' /\ ClientInv' /\ net' \in SUBSET Packets
               /\ issued' \in [Clients -> SUBSET SessionIds]
    BY <1>0, <1>4, <1>s, ClientHandlerInv DEF ClientReceives
  <1>5. ASSUME NEW c \in Clients, ClientTask(c)
        PROVE  /\ ServerTypeOK' /\ ClientInv' /\ net' \in SUBSET Packets
               /\ issued' \in [Clients -> SUBSET SessionIds]
    BY <1>0, <1>5, <1>s, ClientTaskInv DEF ClientTask
  <1>6. ASSUME NEW c \in Clients, ClientReconnects(c)
        PROVE  /\ ServerTypeOK' /\ ClientInv' /\ net' \in SUBSET Packets
               /\ issued' \in [Clients -> SUBSET SessionIds]
    <2>1. ReconnectTimer(c) /\ BuildSession(c) /\ UNCHANGED <<serverVars, issued>>
      BY <1>6 DEF ClientReconnects, ReconnectTimer
    <2>2. QED BY <2>1, <1>0, <1>s, ReconnectTimerInv, BuildSessionNet
  <1>7. ASSUME NEW c \in Clients, ClientUser(c)
        PROVE  /\ ServerTypeOK' /\ ClientInv' /\ net' \in SUBSET Packets
               /\ issued' \in [Clients -> SUBSET SessionIds]
    <2>0. UNCHANGED <<serverVars, issued>>
      BY <1>7 DEF ClientUser
    <2>1. CASE Connect(c)
      <3>1. BuildSession(c) BY <2>1 DEF Connect
      <3>2. QED BY <3>1, <2>0, <2>1, <1>0, <1>s, ConnectInv, BuildSessionNet
    <2>2. CASE Disconnect(c)
      BY <2>0, <2>2, <1>0, <1>s, DisconnectInv
    <2>3. CASE ClientSessionCloses(c) \/ ClientSessionOutput(c)
      BY <2>0, <2>3, <1>0, <1>s, ClientSessionInv
    <2>4. QED BY <2>1, <2>2, <2>3, <1>7 DEF ClientUser
  <1>8. ASSUME NEW m \in net, NetworkLoses(m)
        PROVE  /\ ServerTypeOK' /\ ClientInv' /\ net' \in SUBSET Packets
               /\ issued' \in [Clients -> SUBSET SessionIds]
    BY <1>0, <1>8, <1>c, <1>s DEF NetworkLoses, LosePacket
  <1>9. CASE Tick
    BY <1>0, <1>9, ServerTickType, ClientTickInv DEF Tick
  <1>10. ASSUME NEW c \in Clients, NEW d \in Clients, AddressChanges(c, d)
         PROVE  /\ ServerTypeOK' /\ ClientInv' /\ net' \in SUBSET Packets
                /\ issued' \in [Clients -> SUBSET SessionIds]
    <2>1. ClientInv' /\ issued' \in [Clients -> SUBSET SessionIds]
      BY <1>0, <1>10, AddressChangesInv
    <2>2. UNCHANGED <<net, serverVars>>
      BY <1>10 DEF AddressChanges
    <2>3. QED BY <2>1, <2>2, <1>0, <1>s
  <1>11. CASE UNCHANGED vars
    BY <1>0, <1>11, <1>c, <1>s DEF vars
  <1>12. QED
    BY <1>1, <1>2, <1>3, <1>4, <1>5, <1>6, <1>7, <1>8, <1>9, <1>10, <1>11
    DEF Next, ProgramStep

\* The type invariant, the client's state and its timer, together.
LEMMA TypeAndClientInvariant == Spec => []TypeAndClientInv
  <1>1. TypeAndClientInv /\ [Next]_vars => TypeAndClientInv'
    BY TypeAndClientStep
  <1>2. QED BY <1>1, TypeAndClientInit, PTL DEF Spec

\* Every variable keeps its type: no handler reads a map entry or a pointer
\* that is not there, and no packet carries an id that its reader rejects.
THEOREM TypeCorrect == Spec => []TypeOK
  <1>1. TypeAndClientInv => TypeOK
    BY DEF TypeAndClientInv
  <1>2. QED BY <1>1, TypeAndClientInvariant, PTL

\* The assertions on state_, pending_session_ and session_ in the client hold.
THEOREM ClientStateCorrect == Spec => []ClientStateMatchesPointers
  <1>1. TypeAndClientInv => ClientStateMatchesPointers
    BY DEF TypeAndClientInv
  <1>2. QED BY <1>1, TypeAndClientInvariant, PTL

\* A reconnecting client always has its timer running when it has nothing else.
THEOREM ReconnectTimerCorrect == Spec => []ReconnectTimerArmed
  <1>1. TypeAndClientInv => ReconnectTimerArmed
    BY DEF TypeAndClientInv
  <1>2. QED BY <1>1, TypeAndClientInvariant, PTL

-------------------------------------------------------------------------------
(* idle_session_map_ follows session_map_.                                 *)

\* Every step that inserts into or erases from one of the two maps does so in both.
LEMMA IdleMapStep ==
    ASSUME TypeOK, IdleMapMatchesSessionMap, [Next]_vars
    PROVE  IdleMapMatchesSessionMap'
  <1> USE ServerAssumption, NoneIsNoServerEntry
  <1>0. ServerTypeOK /\ net \in SUBSET Packets
    BY DEF TypeOK
  <1>u. ASSUME UNCHANGED <<session_map, idle_session_map>>
        PROVE  IdleMapMatchesSessionMap'
    BY <1>u DEF IdleMapMatchesSessionMap
  <1>1. ASSUME NEW m \in net, ServerReceives(m)
        PROVE  IdleMapMatchesSessionMap'
    <2>0. m.addr \in Clients /\ (m.type # "SYN" => m.id \in SessionIds)
      BY <1>0, <1>1, PacketFields DEF ServerReceives, ServerProcessPacket
    <2>c. ASSUME NEW i \in SessionIds, CreateSession(i, m.addr)
          PROVE  IdleMapMatchesSessionMap'
      <3>1. [peer |-> m.addr, closed |-> FALSE] # None
        <4>1. [peer |-> m.addr, closed |-> FALSE] \in Sessions
          BY <2>0 DEF Sessions
        <4>2. QED BY <4>1
      <3>2. session_map'[i] # None /\ idle_session_map'[i] # None
        <4>1. session_map'[i] = [peer |-> m.addr, closed |-> FALSE]
          BY <2>c, <1>0 DEF CreateSession, ServerTypeOK
        <4>2. idle_session_map'[i] = IF idle_session_map[i] = None THEN 0 ELSE idle_session_map[i]
          BY <2>c, <1>0 DEF CreateSession, ServerTypeOK
        <4>3. 0 # None
          OBVIOUS
        <4>4. QED BY <4>1, <4>2, <4>3, <3>1
      <3>3. ASSUME NEW j \in SessionIds, j # i
            PROVE  session_map'[j] = session_map[j] /\ idle_session_map'[j] = idle_session_map[j]
        BY <2>c, <3>3, <1>0 DEF CreateSession, ServerTypeOK
      <3>4. QED BY <3>2, <3>3 DEF IdleMapMatchesSessionMap
    <2>1. CASE ServerProcessSynPacket(m)
      BY <2>1, <1>u DEF ServerProcessSynPacket
    <2>2. CASE ServerProcessAckPacket(m)
      BY <2>0, <2>2, <2>c, <1>u DEF ServerProcessAckPacket
    <2>3. CASE ServerProcessRstPacket(m)
      BY <2>0, <2>3, <1>0 DEF ServerProcessRstPacket, IdleMapMatchesSessionMap, ServerTypeOK
    <2>4. CASE ServerProcessPingPacket(m)
      BY <2>0, <2>4, <1>0 DEF ServerProcessPingPacket, IdleMapMatchesSessionMap, ServerTypeOK
    <2>5. CASE ServerProcessDataPacket(m)
      <3>0. m.id \in SessionIds
        BY <2>0, <2>5 DEF ServerProcessDataPacket
      <3>1. CASE CreateSession(m.id, m.addr)
        BY <3>0, <3>1, <2>c
      <3>2. CASE UNCHANGED <<pending_session_map, session_map, idle_session_map>>
        BY <3>2, <1>u
      <3>3. CASE /\ session_map[m.id] # None
                 /\ session_map' = [session_map EXCEPT ![m.id] =
                        IF @.closed THEN @ ELSE [@ EXCEPT !.peer = m.addr]]
                 /\ UNCHANGED <<pending_session_map, idle_session_map>>
        <4>1. [session_map[m.id] EXCEPT !.peer = m.addr] \in Sessions
          BY <3>0, <3>3, <2>0, <1>0, EntryTypes DEF ServerTypeOK
        <4>2. QED
          BY <4>1, <3>0, <3>3, <1>0 DEF IdleMapMatchesSessionMap, ServerTypeOK
      <3>4. QED BY <3>1, <3>2, <3>3, <2>5 DEF ServerProcessDataPacket
    <2>6. QED
      BY <2>1, <2>2, <2>3, <2>4, <2>5, <1>1 DEF ServerReceives, ServerProcessPacket
  <1>2. CASE ServerTask
    BY <1>0, <1>2 DEF ServerTask, ServerRunPeriodicTask, IdleMapMatchesSessionMap
  <1>3. CASE ServerSessionStep
    <2>1. ASSUME NEW i \in SessionIds, ServerSessionCloses(i)
          PROVE  IdleMapMatchesSessionMap'
      <3>1. [session_map[i] EXCEPT !.closed = TRUE] \in Sessions
        BY <2>1, <1>0 DEF ServerSessionCloses, ServerTypeOK, Sessions
      <3>2. QED
        BY <3>1, <2>1, <1>0 DEF ServerSessionCloses, ServerTypeOK, IdleMapMatchesSessionMap
    <2>2. ASSUME NEW s \in closing, ServerCloseRuns(s)
          PROVE  IdleMapMatchesSessionMap'
      BY <2>2, <1>u DEF ServerCloseRuns
    <2>3. ASSUME NEW i \in SessionIds, NEW c \in Clients, ServerSessionOutput(i, c)
          PROVE  IdleMapMatchesSessionMap'
      BY <2>3, <1>u DEF ServerSessionOutput, serverVars
    <2>4. QED BY <2>1, <2>2, <2>3, <1>3 DEF ServerSessionStep
  <1>4. CASE \E m \in net : ClientReceives(m)
    BY <1>4, <1>u DEF ClientReceives, serverVars
  <1>5. CASE \E c \in Clients : ClientTask(c) \/ ClientReconnects(c) \/ ClientUser(c)
    BY <1>5, <1>u DEF ClientTask, ClientReconnects, ClientUser, serverVars
  <1>6. CASE \E m \in net : NetworkLoses(m)
    BY <1>6, <1>u DEF NetworkLoses, serverVars
  <1>7. CASE Tick
    BY <1>0, <1>7, OlderType DEF Tick, ServerTick, IdleMapMatchesSessionMap, ServerTypeOK
  <1>8. CASE (\E c, d \in Clients : AddressChanges(c, d)) \/ UNCHANGED vars
    BY <1>8, <1>u DEF AddressChanges, vars, serverVars
  <1>9. QED
    BY <1>1, <1>2, <1>3, <1>4, <1>5, <1>6, <1>7, <1>8 DEF Next, ProgramStep

\* The server's two maps of live sessions never disagree.
THEOREM IdleMapCorrect == Spec => []IdleMapMatchesSessionMap
  <1>1. Init => IdleMapMatchesSessionMap
    BY DEF Init, ServerInit, IdleMapMatchesSessionMap
  <1>2. TypeOK /\ IdleMapMatchesSessionMap /\ [Next]_vars => IdleMapMatchesSessionMap'
    BY IdleMapStep
  <1>3. QED BY <1>1, <1>2, TypeCorrect, PTL DEF Spec

-------------------------------------------------------------------------------
(* Dropped ids enter time wait.                                            *)

\* The two handlers that drop a session are ProcessRstPacket and RunPeriodicTask.
LEMMA DroppedIdsStep ==
    ASSUME TypeOK, [Next]_vars
    PROVE  [\A i \in SessionIds :
               (session_map[i] # None /\ session_map'[i] = None)
                   => time_wait_session_map'[i] = 0 \/ time_wait_session_map[i] # None]_vars
  <1> USE ServerAssumption, NoneIsNoServerEntry
  <1>0. ServerTypeOK /\ net \in SUBSET Packets
    BY DEF TypeOK
  <1> SUFFICES ASSUME NEW i \in SessionIds, session_map[i] # None, session_map'[i] = None,
                      time_wait_session_map[i] = None
               PROVE  time_wait_session_map'[i] = 0
    OBVIOUS
  <1>u. session_map' # session_map
    OBVIOUS
  <1>1. ASSUME NEW m \in net, ServerReceives(m)
        PROVE  time_wait_session_map'[i] = 0
    <2>0. m.addr \in Clients /\ (m.type # "SYN" => m.id \in SessionIds)
      BY <1>0, <1>1, PacketFields DEF ServerReceives, ServerProcessPacket
    <2>c. ASSUME NEW j \in SessionIds, CreateSession(j, m.addr)
          PROVE  FALSE
      <3>1. [peer |-> m.addr, closed |-> FALSE] # None
        <4>1. [peer |-> m.addr, closed |-> FALSE] \in Sessions
          BY <2>0 DEF Sessions
        <4>2. QED BY <4>1
      <3>2. QED BY <2>c, <3>1, <1>0 DEF CreateSession, ServerTypeOK
    <2>1. CASE ServerProcessSynPacket(m)
      BY <2>1, <1>u DEF ServerProcessSynPacket
    <2>2. CASE ServerProcessAckPacket(m)
      BY <2>0, <2>2, <2>c, <1>u DEF ServerProcessAckPacket
    <2>3. CASE ServerProcessRstPacket(m)
      <3>1. i = m.id
        BY <2>0, <2>3, <1>0 DEF ServerProcessRstPacket, ServerTypeOK
      <3>2. QED
        BY <3>1, <2>3 DEF ServerProcessRstPacket, TimeWaitInsert
    <2>4. CASE ServerProcessPingPacket(m)
      BY <2>4, <1>u DEF ServerProcessPingPacket
    <2>5. CASE ServerProcessDataPacket(m)
      <3>0. m.id \in SessionIds
        BY <2>0, <2>5 DEF ServerProcessDataPacket
      <3>1. CASE CreateSession(m.id, m.addr)
        BY <3>0, <3>1, <2>c
      <3>2. CASE UNCHANGED <<pending_session_map, session_map, idle_session_map>>
        BY <3>2, <1>u
      <3>3. CASE /\ session_map[m.id] # None
                 /\ session_map' = [session_map EXCEPT ![m.id] =
                        IF @.closed THEN @ ELSE [@ EXCEPT !.peer = m.addr]]
                 /\ UNCHANGED <<pending_session_map, idle_session_map>>
        <4>1. [session_map[m.id] EXCEPT !.peer = m.addr] \in Sessions
          BY <3>0, <3>3, <2>0, <1>0, EntryTypes DEF ServerTypeOK
        <4>2. QED
          BY <4>1, <3>0, <3>3, <1>0 DEF ServerTypeOK
      <3>4. QED BY <3>1, <3>2, <3>3, <2>5 DEF ServerProcessDataPacket
    <2>6. QED
      BY <2>1, <2>2, <2>3, <2>4, <2>5, <1>1 DEF ServerReceives, ServerProcessPacket
  <1>2. CASE ServerTask
    <2>1. Expired(i)
      BY <1>2, <1>0 DEF ServerTask, ServerRunPeriodicTask
    <2>2. TimeWaitInsert({j \in SessionIds : Expired(j)})[i] = 0
      BY <2>1 DEF TimeWaitInsert
    <2>3. QED BY <2>2, <1>2 DEF ServerTask, ServerRunPeriodicTask
  <1>3. CASE ServerSessionStep
    <2>1. ASSUME NEW j \in SessionIds, ServerSessionCloses(j)
          PROVE  FALSE
      <3>1. [session_map[j] EXCEPT !.closed = TRUE] \in Sessions
        BY <2>1, <1>0 DEF ServerSessionCloses, ServerTypeOK, Sessions
      <3>2. QED BY <3>1, <2>1, <1>0 DEF ServerSessionCloses, ServerTypeOK
    <2>2. QED
      BY <2>1, <1>3, <1>u
      DEF ServerSessionStep, ServerCloseRuns, ServerSessionOutput, serverVars
  <1>4. CASE \E m \in net : ClientReceives(m)
    BY <1>4, <1>u DEF ClientReceives, serverVars
  <1>5. CASE \E c \in Clients : ClientTask(c) \/ ClientReconnects(c) \/ ClientUser(c)
    BY <1>5, <1>u DEF ClientTask, ClientReconnects, ClientUser, serverVars
  <1>6. CASE \E m \in net : NetworkLoses(m)
    BY <1>6, <1>u DEF NetworkLoses, serverVars
  <1>7. CASE Tick
    BY <1>7, <1>u DEF Tick, ServerTick
  <1>8. CASE (\E c, d \in Clients : AddressChanges(c, d)) \/ UNCHANGED vars
    BY <1>8, <1>u DEF AddressChanges, vars, serverVars
  <1>9. QED
    BY <1>1, <1>2, <1>3, <1>4, <1>5, <1>6, <1>7, <1>8 DEF Next, ProgramStep

\* No handler frees the id of a session without its time wait.
THEOREM DroppedIdsCorrect == Spec => DroppedIdsEnterTimeWait
  <1>1. TypeOK /\ [Next]_vars =>
           [\A i \in SessionIds :
               (session_map[i] # None /\ session_map'[i] = None)
                   => time_wait_session_map'[i] = 0 \/ time_wait_session_map[i] # None]_vars
    BY DroppedIdsStep
  <1>2. QED BY <1>1, TypeCorrect, PTL DEF Spec, DroppedIdsEnterTimeWait

-------------------------------------------------------------------------------
(* Both ends bind an address only to ids that the server has offered to it.  *)
(* SessionsWereOffered is not inductive: a session is made from a packet     *)
(* that was sent long before, so the packets in flight and the pending       *)
(* handshakes must carry offered ids as well.  They stay so when the client   *)
(* moves: what was sent from, or to, its old address was offered there.       *)

\* The packets whose id becomes the id, or whose address the peer, of a session.
Grants(m) ==
    \/ m.to = "client" /\ m.type = "SYN"
    \/ m.to = "server" /\ m.type = "DATA"

PacketsWereOffered == \A m \in net : Grants(m) => m.id \in issued[m.addr]

HandshakesWereOffered ==
    \A c \in Clients : pending_session_map[c] # None =>
        pending_session_map[c].session_id \in issued[c]

OfferedInv == SessionsWereOffered /\ PacketsWereOffered /\ HandshakesWereOffered

-------------------------------------------------------------------------------

\* An id once offered to an address stays in its history.
LEMMA IssuedGrows ==
    ASSUME TypeOK, [Next]_vars
    PROVE  \A c \in Clients : issued[c] \subseteq issued'[c]
  <1>1. CASE RecordIssued
    BY <1>1 DEF RecordIssued
  <1>2. CASE UNCHANGED issued
    BY <1>2
  <1>3. CASE \E c, d \in Clients : AddressChanges(c, d)
    BY <1>3 DEF AddressChanges, TypeOK
  <1>4. QED
    BY <1>1, <1>2, <1>3
    DEF Next, ProgramStep, ServerReceives, ClientReceives, ServerTask, ServerSessionStep,
        ClientTask, ClientReconnects, ClientUser, NetworkLoses, Tick, vars

\* The packets in flight stay offered when those that are sent are.
LEMMA OfferedNet ==
    ASSUME NEW sent, net' \subseteq net \cup sent, net \in SUBSET Packets,
           PacketsWereOffered,
           \A c \in Clients : issued[c] \subseteq issued'[c],
           \A m \in sent : Grants(m) => m.id \in issued'[m.addr]
    PROVE  PacketsWereOffered'
  <1> SUFFICES ASSUME NEW m \in net', Grants(m)
               PROVE  m.id \in issued'[m.addr]
    BY DEF PacketsWereOffered, Grants
  <1>1. CASE m \in net
    BY <1>1, PacketFields DEF PacketsWereOffered
  <1>2. CASE m \in sent
    BY <1>2
  <1>3. QED BY <1>1, <1>2

\* A handshake that the server keeps or starts has its id recorded.
LEMMA OfferedHandshakes ==
    ASSUME RecordIssued
    PROVE  HandshakesWereOffered'
  BY DEF RecordIssued, HandshakesWereOffered

\* A step that leaves the server's maps alone and changes the clients' sessions
\* only by dropping or closing them, or by adopting an offered id.
LEMMA OfferedClientStep ==
    ASSUME OfferedInv, TypeOK, UNCHANGED <<serverVars, issued>>,
           \A c \in Clients : session'[c] # None =>
               \/ session'[c].session_id \in issued[c]
               \/ session[c] # None /\ session'[c].session_id = session[c].session_id
    PROVE  SessionsWereOffered' /\ HandshakesWereOffered'
  BY DEF OfferedInv, SessionsWereOffered, HandshakesWereOffered, serverVars

-------------------------------------------------------------------------------

\* The server's packet handlers: a session is created for an address under an id
\* recorded for it, from its handshake or from the DATA packet it sent.
LEMMA OfferedServerReceives ==
    ASSUME TypeOK, OfferedInv, NEW m \in net, ServerReceives(m), TypeOK',
           \A c \in Clients : issued[c] \subseteq issued'[c]
    PROVE  OfferedInv'
  <1> USE ServerAssumption, NoneIsNoServerEntry
  <1>0. /\ ServerTypeOK /\ net \in SUBSET Packets /\ m \in Packets
        /\ m.addr \in Clients /\ (m.type # "SYN" => m.id \in SessionIds)
    BY PacketFields DEF TypeOK, ServerReceives, ServerProcessPacket
  <1>1. HandshakesWereOffered'
    BY OfferedHandshakes DEF ServerReceives
  <1>2. PacketsWereOffered'
    <2>1. ASSUME NEW sent, Receive(m, sent),
                 \A p \in sent : Grants(p) => p.id \in issued'[p.addr]
          PROVE  PacketsWereOffered'
      BY <2>1, <1>0, ReceiveBounds, OfferedNet DEF OfferedInv
    <2>2. ASSUME NEW i, NEW t, t # "SYN", Receive(m, {ToClient(m.addr, t, i)})
          PROVE  PacketsWereOffered'
      <3>1. ~Grants(ToClient(m.addr, t, i))
        BY <2>2 DEF Grants, ToClient
      <3>2. QED BY <3>1, <2>1, <2>2
    <2>3. ASSUME NEW i, Receive(m, {ToClient(m.addr, "SYN", i)}), i \in issued'[m.addr]
          PROVE  PacketsWereOffered'
      <3>1. ToClient(m.addr, "SYN", i).id = i /\ ToClient(m.addr, "SYN", i).addr = m.addr
        BY DEF ToClient
      <3>2. QED BY <3>1, <2>1, <2>3
    <2>4. CASE Receive(m, {})
      BY <2>4, <2>1
    <2>5. CASE ServerProcessSynPacket(m)
      <3>1. CASE ServerAcceptSyn(m)
        <4>1. PICK i \in SessionIds :
                 /\ pending_session_map' = [pending_session_map EXCEPT ![m.addr] =
                        [session_id |-> i, retry_times |-> 0, syn_elapsed |-> 0]]
                 /\ Receive(m, {ToClient(m.addr, "SYN", i)})
          BY <3>1 DEF ServerAcceptSyn
        <4>2. /\ [session_id |-> i, retry_times |-> 0, syn_elapsed |-> 0] \in PendingSessions
              /\ pending_session_map'[m.addr] =
                     [session_id |-> i, retry_times |-> 0, syn_elapsed |-> 0]
          BY <4>1, <1>0, EntryTypes DEF ServerTypeOK
        <4>3. pending_session_map'[m.addr] # None
          BY <4>2
        <4>4. pending_session_map'[m.addr].session_id = i
          BY <4>2
        <4>5. i \in issued'[m.addr]
          BY <4>3, <4>4, <1>0, <1>1 DEF HandshakesWereOffered
        <4>6. QED BY <4>1, <4>5, <2>3
      <3>2. CASE ServerRefuseSyn(m)
        BY <3>2, <2>2 DEF ServerRefuseSyn
      <3>3. CASE ServerRepeatSyn(m)
        <4>1. pending_session_map[m.addr].session_id \in issued'[m.addr]
          BY <3>3, <1>0 DEF ServerRepeatSyn, OfferedInv, HandshakesWereOffered
        <4>2. QED BY <4>1, <3>3, <2>2, <2>3 DEF ServerRepeatSyn
      <3>4. QED BY <2>5, <3>1, <3>2, <3>3 DEF ServerProcessSynPacket
    <2>6. CASE ServerProcessAckPacket(m)
      BY <2>6, <2>2, <2>4 DEF ServerProcessAckPacket
    <2>7. CASE ServerProcessRstPacket(m)
      BY <2>7, <2>4 DEF ServerProcessRstPacket
    <2>8. CASE ServerProcessPingPacket(m)
      BY <2>8, <2>2 DEF ServerProcessPingPacket
    <2>9. CASE ServerProcessDataPacket(m)
      BY <2>9, <2>2, <2>4 DEF ServerProcessDataPacket
    <2>10. QED
      BY <2>5, <2>6, <2>7, <2>8, <2>9 DEF ServerReceives, ServerProcessPacket
  <1>3. SessionsWereOffered'
    <2>1. \A c \in Clients : session'[c] # None => session'[c].session_id \in issued'[c]
      BY DEF ServerReceives, clientVars, OfferedInv, SessionsWereOffered
    <2>2. ASSUME NEW i \in SessionIds, session_map'[i] # None,
                 session_map'[i] = session_map[i]
          PROVE  i \in issued'[session_map'[i].peer]
      <3>1. session_map[i].peer \in Clients
        BY <2>2, <1>0 DEF ServerTypeOK, Sessions
      <3>2. QED BY <3>1, <2>2 DEF OfferedInv, SessionsWereOffered
    <2>c. ASSUME NEW j \in SessionIds, CreateSession(j, m.addr), j \in issued[m.addr],
                 NEW i \in SessionIds, session_map'[i] # None
          PROVE  i \in issued'[session_map'[i].peer]
      <3>1. CASE i = j
        <4>1. session_map'[i] = [peer |-> m.addr, closed |-> FALSE]
          BY <2>c, <3>1, <1>0 DEF CreateSession, ServerTypeOK
        <4>2. QED BY <4>1, <3>1, <2>c, <1>0
      <3>2. CASE i # j
        BY <2>c, <3>2, <2>2, <1>0 DEF CreateSession, ServerTypeOK
      <3>3. QED BY <3>1, <3>2
    <2> SUFFICES ASSUME NEW i \in SessionIds, session_map'[i] # None
                 PROVE  i \in issued'[session_map'[i].peer]
      BY <2>1 DEF SessionsWereOffered
    <2>3. CASE UNCHANGED session_map
      BY <2>3, <2>2
    <2>4. CASE ServerProcessAckPacket(m)
      <3>1. CASE /\ pending_session_map[m.addr] # None
                 /\ pending_session_map[m.addr].session_id = m.id
                 /\ CreateSession(m.id, m.addr)
        <4>1. m.id \in issued[m.addr]
          BY <3>1, <1>0 DEF OfferedInv, HandshakesWereOffered
        <4>2. m.id \in SessionIds
          BY <2>4, <1>0 DEF ServerProcessAckPacket
        <4>3. QED BY <4>1, <4>2, <3>1, <2>c
      <3>2. QED BY <2>3, <2>4, <3>1 DEF ServerProcessAckPacket
    <2>5. CASE ServerProcessRstPacket(m)
      <3>1. session_map'[i] = session_map[i]
        BY <2>5, <1>0 DEF ServerProcessRstPacket, ServerTypeOK
      <3>2. QED BY <3>1, <2>2
    <2>6. CASE ServerProcessDataPacket(m)
      <3>0. m.id \in SessionIds /\ m.id \in issued[m.addr]
        <4>1. m \in net /\ m.to = "server" /\ m.type = "DATA"
          BY <2>6 DEF ServerProcessDataPacket, ServerReceives, ServerProcessPacket
        <4>2. QED BY <4>1, <1>0 DEF OfferedInv, PacketsWereOffered, Grants
      <3>1. CASE CreateSession(m.id, m.addr)
        BY <3>0, <3>1, <2>c
      <3>2. CASE session_map' = [session_map EXCEPT ![m.id] =
                        IF @.closed THEN @ ELSE [@ EXCEPT !.peer = m.addr]]
                 /\ session_map[m.id] # None
        <4>1. CASE i # m.id \/ session_map[m.id].closed
          BY <4>1, <3>0, <3>2, <2>2, <1>0 DEF ServerTypeOK
        <4>2. CASE i = m.id /\ ~session_map[m.id].closed
          <5>1. session_map'[i] = [session_map[i] EXCEPT !.peer = m.addr]
            BY <4>2, <3>0, <3>2, <1>0 DEF ServerTypeOK
          <5>2. session_map[i] \in Sessions
            BY <4>2, <3>2, <1>0 DEF ServerTypeOK
          <5>3. session_map'[i].peer = m.addr
            BY <5>1, <5>2 DEF Sessions
          <5>4. QED BY <5>3, <4>2, <3>0, <1>0
        <4>3. QED BY <4>1, <4>2
      <3>3. QED BY <2>3, <2>6, <3>1, <3>2 DEF ServerProcessDataPacket
    <2>7. QED
      BY <2>3, <2>4, <2>5, <2>6
      DEF ServerReceives, ServerProcessPacket, ServerProcessSynPacket, ServerProcessPingPacket
  <1>4. QED BY <1>1, <1>2, <1>3 DEF OfferedInv

\* The server's periodic task repeats the SYNs of pending handshakes, and the
\* steps of its sessions grant nothing.
LEMMA OfferedServerSteps ==
    ASSUME TypeOK, OfferedInv, ServerTask \/ ServerSessionStep
    PROVE  OfferedInv'
  <1> USE ServerAssumption, NoneIsNoServerEntry
  <1>0. ServerTypeOK /\ net \in SUBSET Packets
    BY DEF TypeOK
  <1>i. issued' = issued /\ session' = session
    BY DEF ServerTask, ServerSessionStep, clientVars
  <1>n. ASSUME NEW sent, Transmit(sent), \A p \in sent : Grants(p) => p.id \in issued[p.addr]
        PROVE  PacketsWereOffered'
    BY <1>n, <1>0, <1>i, TransmitBounds, OfferedNet DEF OfferedInv
  <1>s. ASSUME \A i \in SessionIds : session_map'[i] # None =>
                  session_map[i] # None /\ session_map'[i].peer = session_map[i].peer
        PROVE  SessionsWereOffered'
    BY <1>s, <1>i DEF OfferedInv, SessionsWereOffered
  <1>1. CASE ServerTask
    <2>1. PacketsWereOffered'
      <3>1. ASSUME NEW c \in SynResent
            PROVE  LET p == ToClient(c, "SYN", pending_session_map[c].session_id)
                   IN  p.id \in issued[p.addr]
        BY <3>1 DEF SynResent, ToClient, OfferedInv, HandshakesWereOffered
      <3>2. QED BY <3>1, <1>1, <1>n DEF ServerTask, ServerRunPeriodicTask
    <2>2. HandshakesWereOffered'
      <3>1. ASSUME NEW c \in Clients, pending_session_map'[c] # None
            PROVE  /\ pending_session_map[c] # None
                   /\ pending_session_map'[c].session_id = pending_session_map[c].session_id
        BY <3>1, <1>1
        DEF ServerTask, ServerRunPeriodicTask, PendingAfterTask, SynSentAgain
      <3>2. QED BY <3>1, <1>i DEF OfferedInv, HandshakesWereOffered
    <2>3. SessionsWereOffered'
      BY <1>1, <1>s DEF ServerTask, ServerRunPeriodicTask
    <2>4. QED BY <2>1, <2>2, <2>3 DEF OfferedInv
  <1>2. ASSUME NEW i \in SessionIds, ServerSessionCloses(i)
        PROVE  OfferedInv'
    <2>1. SessionsWereOffered'
      <3>1. session_map[i] \in Sessions
        BY <1>2, <1>0 DEF ServerSessionCloses, ServerTypeOK
      <3>2. [session_map[i] EXCEPT !.closed = TRUE].peer = session_map[i].peer
        BY <3>1 DEF Sessions
      <3>3. QED BY <3>2, <1>2, <1>0, <1>s DEF ServerSessionCloses, ServerTypeOK
    <2>2. UNCHANGED <<net, pending_session_map>>
      BY <1>2 DEF ServerSessionCloses
    <2>3. QED
      BY <2>1, <2>2, <1>i
      DEF OfferedInv, PacketsWereOffered, HandshakesWereOffered, Grants
  <1>3. ASSUME NEW s \in closing, ServerCloseRuns(s)
        PROVE  OfferedInv'
    BY <1>3, <1>i
    DEF ServerCloseRuns, OfferedInv, SessionsWereOffered, PacketsWereOffered,
        HandshakesWereOffered, Grants
  <1>4. ASSUME NEW i \in SessionIds, NEW c \in Clients, ServerSessionOutput(i, c)
        PROVE  OfferedInv'
    <2>1. PacketsWereOffered'
      <3>1. ~Grants(ToClient(c, "DATA", i))
        BY DEF Grants, ToClient
      <3>2. QED BY <3>1, <1>4, <1>n DEF ServerSessionOutput
    <2>2. QED
      BY <2>1, <1>4, <1>i
      DEF ServerSessionOutput, serverVars, OfferedInv, SessionsWereOffered,
          HandshakesWereOffered
  <1>5. QED
    BY <1>1, <1>2, <1>3, <1>4 DEF ServerSessionStep

\* The client's packet handlers adopt an id from a SYN only, and what they answer
\* with DATA carries the id that was adopted.
LEMMA OfferedClientReceives ==
    ASSUME TypeOK, OfferedInv, NEW m \in net, ClientReceives(m)
    PROVE  OfferedInv'
  <1>0. /\ ClientTypeOK /\ net \in SUBSET Packets /\ m.addr \in Clients
        /\ (m.type # "RST" => m.id \in SessionIds)
    BY PacketFields DEF TypeOK, ClientReceives, ClientProcessPacket
  <1>i. UNCHANGED <<serverVars, issued>>
    BY DEF ClientReceives
  <1>n. ASSUME NEW sent, Receive(m, sent), \A p \in sent : Grants(p) => p.id \in issued[p.addr]
        PROVE  PacketsWereOffered'
    BY <1>n, <1>0, <1>i, ReceiveBounds, OfferedNet DEF OfferedInv
  <1>t. ASSUME NEW t \in {"ACK", "RST"}, NEW i
        PROVE  ~Grants(ToServer(m.addr, t, i))
    BY DEF Grants, ToServer
  <1>e. ASSUME Receive(m, {})
        PROVE  PacketsWereOffered'
    BY <1>e, <1>n
  <1>a. ASSUME NEW t \in {"ACK", "RST"}, NEW i, Receive(m, {ToServer(m.addr, t, i)})
        PROVE  PacketsWereOffered'
    BY <1>a, <1>t, <1>n
  <1>1. CASE ClientAdoptSession(m) /\ m.type = "SYN"
    <2>1. m.id \in issued[m.addr]
      BY <1>1 DEF OfferedInv, PacketsWereOffered, Grants, ClientReceives, ClientProcessPacket
    <2>2. PICK early \in SUBSET {ToServer(m.addr, "DATA", m.id)}, closed \in BOOLEAN :
             /\ session' = [session EXCEPT ![m.addr] =
                    [session_id |-> m.id, closed |-> closed]]
             /\ Receive(m, early \cup {ToServer(m.addr, "ACK", m.id)})
      BY <1>1 DEF ClientAdoptSession
    <2>3. PacketsWereOffered'
      <3>1. ASSUME NEW p \in early \cup {ToServer(m.addr, "ACK", m.id)}
            PROVE  p.id \in issued[p.addr]
        BY <2>1, <3>1 DEF ToServer
      <3>2. QED BY <3>1, <2>2, <1>n
    <2>4. ASSUME NEW c \in Clients
          PROVE  \/ c # m.addr /\ session'[c] = session[c]
                 \/ c = m.addr /\ session'[c].session_id = m.id
      BY <2>2, <1>0 DEF ClientTypeOK
    <2>5. QED BY <2>1, <2>3, <2>4, <1>i, OfferedClientStep DEF OfferedInv
  <1>u. ASSUME \A c \in Clients : session'[c] # None => session'[c] = session[c]
        PROVE  SessionsWereOffered' /\ HandshakesWereOffered'
    BY <1>u, <1>i, OfferedClientStep
  <1>2. CASE ClientAnswerSyn(m)
    <2>1. PacketsWereOffered'
      BY <1>2, <1>a DEF ClientAnswerSyn
    <2>2. QED BY <2>1, <1>2, <1>u DEF ClientAnswerSyn, OfferedInv
  <1>3. CASE ClientProcessRstPacket(m)
    <2>1. PacketsWereOffered'
      BY <1>3, <1>e DEF ClientProcessRstPacket
    <2>2. \A c \in Clients : session'[c] # None => session'[c] = session[c]
      BY <1>3, <1>0 DEF ClientProcessRstPacket, ResetSession, ClientTypeOK
    <2>3. QED BY <2>1, <2>2, <1>u DEF OfferedInv
  <1>4. CASE ClientProcessPongOrDataPacket(m)
    <2>1. PacketsWereOffered'
      BY <1>4, <1>a, <1>e DEF ClientProcessPongOrDataPacket
    <2>2. QED BY <2>1, <1>4, <1>u DEF ClientProcessPongOrDataPacket, OfferedInv
  <1>5. QED
    BY <1>1, <1>2, <1>3, <1>4
    DEF ClientReceives, ClientProcessPacket, ClientProcessSynPacket

\* The client's timers and its user send SYN, PING, RST, and DATA under the id of
\* the session only; they never set a session's id.
LEMMA OfferedClientSteps ==
    ASSUME TypeOK, ClientStateMatchesPointers, OfferedInv, NEW c \in Clients,
           ClientTask(c) \/ ClientReconnects(c) \/ ClientUser(c)
    PROVE  OfferedInv'
  <1> USE ClientAssumption, NoneIsNoClientEntry
  <1>0. ClientTypeOK /\ net \in SUBSET Packets
    BY DEF TypeOK
  <1>i. UNCHANGED <<serverVars, issued>>
    BY DEF ClientTask, ClientReconnects, ClientUser
  <1>n. ASSUME NEW sent, Transmit(sent), \A p \in sent : Grants(p) => p.id \in issued[p.addr]
        PROVE  PacketsWereOffered'
    BY <1>n, <1>0, <1>i, TransmitBounds, OfferedNet DEF OfferedInv
  <1>t. ASSUME NEW t \in {"SYN", "RST", "PING"}, NEW i, Transmit({ToServer(c, t, i)})
        PROVE  PacketsWereOffered'
    <2>1. ~Grants(ToServer(c, t, i))
      BY DEF Grants, ToServer
    <2>2. QED BY <2>1, <1>n, <1>t
  <1>q. ASSUME UNCHANGED net
        PROVE  PacketsWereOffered'
    BY <1>q, <1>i DEF OfferedInv, PacketsWereOffered, Grants
  <1>d. ASSUME session[c] # None
        PROVE  LET p == ToServer(c, "DATA", session[c].session_id)
               IN  p.id \in issued[p.addr]
    BY <1>d DEF OfferedInv, SessionsWereOffered, ToServer
  <1>u. ASSUME \A d \in Clients : session'[d] # None => session'[d] = session[d]
        PROVE  SessionsWereOffered' /\ HandshakesWereOffered'
    BY <1>u, <1>i, OfferedClientStep
  <1>r. ASSUME ResetSession(c)
        PROVE  SessionsWereOffered' /\ HandshakesWereOffered'
    <2>1. \A d \in Clients : session'[d] # None => session'[d] = session[d]
      BY <1>r, <1>0 DEF ResetSession, ClientTypeOK
    <2>2. QED BY <2>1, <1>u
  <1>b. ASSUME BuildSession(c)
        PROVE  PacketsWereOffered'
    BY <1>b, <1>t, <1>q DEF BuildSession
  <1>1. CASE ClientTask(c)
    <2>1. PacketsWereOffered'
      BY <1>1, <1>t, <1>q
      DEF ClientTask, ClientRunPeriodicTask, PendingTask, ConnectedTask
    <2>2. SessionsWereOffered' /\ HandshakesWereOffered'
      BY <1>1, <1>r, <1>u
      DEF ClientTask, ClientRunPeriodicTask, PendingTask, ConnectedTask
    <2>3. QED BY <2>1, <2>2 DEF OfferedInv
  <1>2. CASE ClientReconnects(c)
    BY <1>2, <1>b, <1>u DEF ClientReconnects, ReconnectTimer, OfferedInv
  <1>3. CASE Connect(c)
    BY <1>3, <1>b, <1>u DEF Connect, OfferedInv
  <1>4. CASE Disconnect(c)
    <2>1. PacketsWereOffered'
      <3>1. CASE state[c] = "CONNECTED"
        <4>0. session[c] # None
          BY <3>1 DEF ClientStateMatchesPointers
        <4>1. PICK flushed \in SUBSET {ToServer(c, "DATA", session[c].session_id)} :
                 Transmit(flushed \cup {ToServer(c, "RST", session[c].session_id)})
          BY <1>4, <3>1 DEF Disconnect
        <4>2. ~Grants(ToServer(c, "RST", session[c].session_id))
          BY DEF Grants, ToServer
        <4>3. QED BY <4>0, <4>1, <4>2, <1>d, <1>n
      <3>2. QED BY <1>4, <3>1, <1>q DEF Disconnect
    <2>2. \A d \in Clients : session'[d] # None => session'[d] = session[d]
      BY <1>4, <1>0 DEF Disconnect, ClientTypeOK
    <2>3. QED BY <2>1, <2>2, <1>u DEF OfferedInv
  <1>5. CASE ClientSessionCloses(c)
    <2>1. PacketsWereOffered'
      BY <1>5, <1>q DEF ClientSessionCloses
    <2>2. session[c] \in ClientSessions
      BY <1>5, <1>0 DEF ClientSessionCloses, ClientTypeOK
    <2>3. [session[c] EXCEPT !.closed = TRUE].session_id = session[c].session_id
      BY <2>2 DEF ClientSessions
    <2>4. \A d \in Clients : session'[d] # None =>
             session[d] # None /\ session'[d].session_id = session[d].session_id
      BY <2>3, <1>5, <1>0 DEF ClientSessionCloses, ClientTypeOK
    <2>5. QED BY <2>1, <2>4, <1>i, OfferedClientStep DEF OfferedInv
  <1>6. CASE ClientSessionOutput(c)
    <2>1. PacketsWereOffered'
      BY <1>6, <1>d, <1>n DEF ClientSessionOutput
    <2>2. QED BY <2>1, <1>6, <1>u DEF ClientSessionOutput, clientVars, OfferedInv
  <1>7. QED
    BY <1>1, <1>2, <1>3, <1>4, <1>5, <1>6 DEF ClientUser

\* A client takes what it was offered along to its new address; whatever the server
\* still binds to the old one was offered there.
LEMMA OfferedAddressChanges ==
    ASSUME TypeOK, ClientStateMatchesPointers, OnlyHostsAreOpen, OfferedInv,
           NEW c \in Clients, NEW d \in Clients, AddressChanges(c, d),
           \A x \in Clients : issued[x] \subseteq issued'[x]
    PROVE  OfferedInv'
  <1>0. /\ ClientTypeOK /\ ServerTypeOK /\ net \in SUBSET Packets
        /\ issued \in [Clients -> SUBSET SessionIds]
        /\ session \in [Clients -> ClientSessions \cup {None}]
    BY DEF TypeOK, ClientTypeOK
  <1>1. UNCHANGED <<net, serverVars>>
    BY DEF AddressChanges
  <1>2. /\ session'[c] = session[d] /\ session'[d] = session[c]
        /\ \A x \in Clients : x # c /\ x # d => session'[x] = session[x]
    <2>1. session' = Exchanged(session, c, d)
      BY DEF AddressChanges
    <2>2. QED BY <1>0, <2>1 DEF Exchanged
  <1>3. session[d] = None
    <2>1. d \notin hosts
      BY DEF AddressChanges
    <2>2. ~socket[d]
      BY <2>1 DEF OnlyHostsAreOpen
    <2>3. QED BY <2>2 DEF ClientStateMatchesPointers
  <1>4. issued[c] \subseteq issued'[d]
    BY <1>0 DEF AddressChanges
  <1>5. ASSUME NEW x \in Clients, session'[x] # None
        PROVE  session'[x].session_id \in issued'[x]
    <2>1. CASE x = c
      BY <2>1, <1>2, <1>3, <1>5
    <2>2. CASE x = d
      BY <2>2, <1>2, <1>4, <1>5 DEF OfferedInv, SessionsWereOffered
    <2>3. CASE x # c /\ x # d
      BY <2>3, <1>2, <1>5 DEF OfferedInv, SessionsWereOffered
    <2>4. QED BY <2>1, <2>2, <2>3
  <1>6. ASSUME NEW i \in SessionIds, session_map'[i] # None
        PROVE  i \in issued'[session_map'[i].peer]
    <2>1. session_map'[i] = session_map[i] /\ session_map[i] # None
      BY <1>1, <1>6 DEF serverVars
    <2>2. session_map[i].peer \in Clients
      BY <1>0, <2>1 DEF ServerTypeOK, Sessions
    <2>3. i \in issued[session_map[i].peer]
      BY <2>1 DEF OfferedInv, SessionsWereOffered
    <2>4. QED BY <2>1, <2>2, <2>3
  <1>7. PacketsWereOffered'
    <2> SUFFICES ASSUME NEW m \in net, Grants(m)
                 PROVE  m.id \in issued'[m.addr]
      BY <1>1 DEF PacketsWereOffered, Grants
    <2>1. m.id \in issued[m.addr]
      BY DEF OfferedInv, PacketsWereOffered
    <2>2. QED BY <1>0, <2>1, PacketFields
  <1>8. HandshakesWereOffered'
    BY <1>1 DEF OfferedInv, HandshakesWereOffered, serverVars
  <1>9. QED BY <1>5, <1>6, <1>7, <1>8 DEF OfferedInv, SessionsWereOffered

\* Every step of the system preserves the invariant.
LEMMA OfferedStep ==
    ASSUME TypeOK, TypeOK', ClientStateMatchesPointers, OnlyHostsAreOpen, OfferedInv,
           [Next]_vars
    PROVE  OfferedInv'
  <1>0. \A c \in Clients : issued[c] \subseteq issued'[c]
    BY IssuedGrows
  <1>1. ASSUME NEW m \in net, ServerReceives(m)
        PROVE  OfferedInv'
    BY <1>0, <1>1, OfferedServerReceives
  <1>2. CASE ServerTask \/ ServerSessionStep
    BY <1>2, OfferedServerSteps
  <1>3. ASSUME NEW m \in net, ClientReceives(m)
        PROVE  OfferedInv'
    BY <1>3, OfferedClientReceives
  <1>4. ASSUME NEW c \in Clients, ClientTask(c) \/ ClientReconnects(c) \/ ClientUser(c)
        PROVE  OfferedInv'
    BY <1>4, OfferedClientSteps
  <1>5. ASSUME NEW m \in net, NetworkLoses(m)
        PROVE  OfferedInv'
    BY <1>5
    DEF NetworkLoses, LosePacket, serverVars, clientVars, OfferedInv, SessionsWereOffered,
        PacketsWereOffered, HandshakesWereOffered, Grants
  <1>6. CASE Tick
    <2>1. UNCHANGED <<net, issued, session, session_map>>
      BY <1>6 DEF Tick, ServerTick, ClientTick
    <2>2. SessionsWereOffered' /\ PacketsWereOffered'
      BY <2>1 DEF OfferedInv, SessionsWereOffered, PacketsWereOffered, Grants
    <2>3. ASSUME NEW c \in Clients, pending_session_map'[c] # None
          PROVE  /\ pending_session_map[c] # None
                 /\ pending_session_map'[c].session_id = pending_session_map[c].session_id
      <3>1. pending_session_map[c] # None
        BY <1>6, <2>3 DEF Tick, ServerTick
      <3>2. pending_session_map[c] \in PendingSessions
        BY <3>1 DEF TypeOK, ServerTypeOK
      <3>3. pending_session_map'[c] =
               [pending_session_map[c] EXCEPT !.syn_elapsed =
                    Older(@, kServerSynSentTimeout)]
        BY <1>6, <3>1 DEF Tick, ServerTick
      <3>4. QED BY <3>1, <3>2, <3>3 DEF PendingSessions
    <2>4. QED
      BY <2>1, <2>2, <2>3 DEF OfferedInv, HandshakesWereOffered
  <1>7. ASSUME NEW c \in Clients, NEW d \in Clients, AddressChanges(c, d)
        PROVE  OfferedInv'
    BY <1>0, <1>7, OfferedAddressChanges
  <1>8. CASE UNCHANGED vars
    BY <1>8
    DEF vars, serverVars, clientVars, OfferedInv, SessionsWereOffered, PacketsWereOffered,
        HandshakesWereOffered, Grants
  <1>9. QED
    BY <1>1, <1>2, <1>3, <1>4, <1>5, <1>6, <1>7, <1>8 DEF Next, ProgramStep

\* The sessions, the packets in flight and the handshakes, together.
LEMMA OfferedInvariant == Spec => []OfferedInv
  <1>1. Init => OfferedInv
    BY DEF Init, ServerInit, ClientInit, OfferedInv, SessionsWereOffered,
           PacketsWereOffered, HandshakesWereOffered
  <1>2. (/\ TypeOK /\ TypeOK' /\ ClientStateMatchesPointers /\ OnlyHostsAreOpen
         /\ OfferedInv /\ [Next]_vars)
            => OfferedInv'
    BY OfferedStep
  <1>3. TypeAndClientInv => TypeOK /\ ClientStateMatchesPointers /\ OnlyHostsAreOpen
    BY DEF TypeAndClientInv
  <1>4. QED
    BY <1>1, <1>2, <1>3, TypeAndClientInvariant, PTL DEF Spec

\* Whatever the network does and wherever the clients move, a session at either end
\* binds an address only to an id that the server offered to that address, or had
\* offered to the client that has moved there.
THEOREM SessionsOfferedCorrect == Spec => []SessionsWereOffered
  <1>1. OfferedInv => SessionsWereOffered
    BY DEF OfferedInv
  <1>2. QED
    BY <1>1, OfferedInvariant, PTL

-------------------------------------------------------------------------------
(* Timing: in a timely network the PINGs keep a session alive.             *)

\* The luck that the handshakes need, since GenerateSessionId does not look at the ids that
\* other handshakes hold: it never draws an id for two addresses.  A lone client has it.
OffersAreDistinct ==
    \A c, d \in Clients : c # d => issued[c] \cap issued[d] = {}

\* What GenerateSessionId looks for when it draws an id, and what a second handshake
\* under the same id can undo: the id of a pending handshake has no session.
PendingIdsAreFree ==
    \A c \in Clients : pending_session_map[c] # None =>
        session_map[pending_session_map[c].session_id] = None

Open(c) == session[c] # None /\ ~session[c].closed

\* A SYN of the server is on its way: if there is a session, it has just been created.
OffersAreFresh ==
    \A c \in Clients, i \in SessionIds :
        ToClient(c, "SYN", i) \in net /\ session_map[i] # None => idle_session_map[i] = 0

PingsAreTimed == \A c \in Clients : Open(c) => last_ping_time[c] # None

\* Before the first PING a session is as old as its handshake, or younger. After it, it
\* is idle only as long as the client's periodic task is away; when the task has run, its
\* PING is on the way.
Lively(c, i) ==
    LET idle == idle_session_map[i] IN
    IF last_ping_time[c] < kClientPingInterval THEN idle <= last_ping_time[c]
    ELSE \/ idle < kClientPingInterval + client_task_elapsed[c]
         \/ /\ idle < kClientPingInterval + kClientRunPeriodicTaskInterval
            /\ ToServer(c, "PING", i) \in net

SessionsAreLively ==
    \A c \in Clients : Open(c) /\ session_map[session[c].session_id] # None
        => Lively(c, session[c].session_id)

PingInv == OffersAreFresh /\ PingsAreTimed /\ SessionsAreLively

\* What a step may do to the server's maps,
MapsMove ==
    \A i \in SessionIds : session_map'[i] # None =>
        \/ idle_session_map'[i] = 0
        \/ session_map[i] # None /\ idle_session_map'[i] = idle_session_map[i]

\* to the packets that matter here,
PacketsMove ==
    \A c \in Clients, i \in SessionIds :
        /\ ToClient(c, "SYN", i) \in net' => ToClient(c, "SYN", i) \in net \/ session_map'[i] = None
        /\ ToServer(c, "PING", i) \in net => \/ ToServer(c, "PING", i) \in net'
                                             \/ session_map'[i] = None \/ idle_session_map'[i] = 0

\* and to a client: it goes on, runs its periodic task, or adopts a session.
GoesOn(c) ==
    /\ Open(c) /\ session'[c].session_id = session[c].session_id
    /\ last_ping_time'[c] = last_ping_time[c]

ClientsMove ==
    \A c \in Clients : Open(c)' =>
        \/ GoesOn(c) /\ client_task_elapsed'[c] = client_task_elapsed[c]
        \/ /\ GoesOn(c)
           /\ client_task_elapsed[c] = kClientRunPeriodicTaskInterval
           /\ last_ping_time[c] = kClientPingInterval =>
                  ToServer(c, "PING", session[c].session_id) \in net'
        \/ last_ping_time'[c] = 0 /\ ToClient(c, "SYN", session'[c].session_id) \in net

\* The types of the ages that Lively compares.
LEMMA Ages ==
    ASSUME TypeOK, IdleMapMatchesSessionMap
    PROVE  /\ \A i \in SessionIds : session_map[i] # None =>
                  idle_session_map[i] \in 0..kServerSessionIdleSeconds
           /\ \A c \in Clients : /\ client_task_elapsed[c] \in 0..kClientRunPeriodicTaskInterval
                                 /\ last_ping_time[c] # None =>
                                        last_ping_time[c] \in 0..kClientPingInterval
                                 /\ session[c] # None => session[c].session_id \in SessionIds
           /\ kClientPingInterval \in Nat /\ kClientPingInterval > 0
           /\ kClientRunPeriodicTaskInterval \in Nat /\ kServerSessionIdleSeconds \in Nat
  <1>1. ASSUME NEW i \in SessionIds, session_map[i] # None
        PROVE  idle_session_map[i] \in 0..kServerSessionIdleSeconds
    BY <1>1 DEF TypeOK, ServerTypeOK, IdleMapMatchesSessionMap
  <1>2. ASSUME NEW c \in Clients
        PROVE  /\ client_task_elapsed[c] \in 0..kClientRunPeriodicTaskInterval
               /\ last_ping_time[c] # None => last_ping_time[c] \in 0..kClientPingInterval
               /\ session[c] # None => session[c].session_id \in SessionIds
    BY DEF TypeOK, ClientTypeOK, ClientSessions
  <1>3. QED BY <1>1, <1>2, ServerAssumption, ClientAssumption

\* A step of one of the programs, put together.
LEMMA LivelyStep ==
    ASSUME TypeOK, TypeOK', IdleMapMatchesSessionMap, IdleMapMatchesSessionMap', PingInv,
           MapsMove, PacketsMove, ClientsMove
    PROVE  PingInv'
  <1> DEFINE P == kClientPingInterval
             T == kClientRunPeriodicTaskInterval
  <1>t. P \in Nat /\ P > 0 /\ T \in Nat
    BY Ages
  <1>n. None # 0
    BY NoneIsNoServerEntry
  <1>1. OffersAreFresh'
    <2>1. ASSUME NEW c \in Clients, NEW i \in SessionIds, ToClient(c, "SYN", i) \in net',
                 session_map'[i] # None
          PROVE  idle_session_map'[i] = 0
      <3>1. ToClient(c, "SYN", i) \in net
        BY <2>1 DEF PacketsMove
      <3>2. session_map[i] # None => idle_session_map[i] = 0
        BY <3>1 DEF PingInv, OffersAreFresh
      <3> QED BY <2>1, <3>2 DEF MapsMove
    <2> QED BY <2>1 DEF OffersAreFresh, ToClient
  <1>2. PingsAreTimed'
    <2>1. ASSUME NEW c \in Clients, Open(c)' PROVE last_ping_time'[c] # None
      <3>1. Open(c) => last_ping_time[c] # None
        BY DEF PingInv, PingsAreTimed
      <3> QED BY <1>n, <2>1, <3>1 DEF ClientsMove, GoesOn
    <2> QED BY <2>1 DEF PingsAreTimed
  <1>3. ASSUME NEW c \in Clients, Open(c)', session_map'[session'[c].session_id] # None
        PROVE  Lively(c, session[c].session_id)'
    <2> DEFINE i == session'[c].session_id
               d == idle_session_map[i]
               e == idle_session_map'[i]
               t == client_task_elapsed[c]
               u == client_task_elapsed'[c]
               p == last_ping_time[c]
               q == last_ping_time'[c]
               Pinged == ToServer(c, "PING", i) \in net
               Pings == ToServer(c, "PING", i) \in net'
    <2>1. i \in SessionIds /\ e \in Nat /\ u \in 0..T /\ q \in 0..P
      <3>1. (session[c] # None)' /\ (last_ping_time[c] # None)'
        BY <1>2, <1>3 DEF Open, PingsAreTimed
      <3>2. /\ (\A j \in SessionIds : session_map[j] # None =>
                    idle_session_map[j] \in 0..kServerSessionIdleSeconds)'
            /\ (client_task_elapsed[c] \in 0..T)'
            /\ (last_ping_time[c] # None => last_ping_time[c] \in 0..P)'
            /\ (session[c] # None => session[c].session_id \in SessionIds)'
        <4>1. ASSUME NEW j \in SessionIds, session_map'[j] # None
              PROVE  idle_session_map'[j] \in 0..kServerSessionIdleSeconds
          BY <4>1 DEF TypeOK, ServerTypeOK, IdleMapMatchesSessionMap
        <4>2. /\ (client_task_elapsed[c] \in 0..T)'
              /\ (last_ping_time[c] # None => last_ping_time[c] \in 0..P)'
              /\ (session[c] # None => session[c].session_id \in SessionIds)'
          BY DEF TypeOK, ClientTypeOK, ClientSessions
        <4> QED BY <4>1, <4>2
      <3> QED BY <1>3, <3>1, <3>2, ServerAssumption
    <2>2. SUFFICES IF q < P THEN e <= q ELSE e < P + u \/ (e < P + T /\ Pings)
      BY DEF Lively, ToServer
    <2>3. e = 0 => (IF q < P THEN e <= q ELSE e < P + u \/ (e < P + T /\ Pings))
      <3> HIDE DEF e, q, u, P, T, Pings
      <3> QED BY <1>t, <2>1
    <2>4. e = 0 \/ (session_map[i] # None /\ e = d)
      BY <1>3, <2>1 DEF MapsMove
    <2>5. ASSUME session_map[i] # None, e = d, e # 0
          PROVE  IF q < P THEN e <= q ELSE e < P + u \/ (e < P + T /\ Pings)
      <3>1. CASE GoesOn(c)
        <4>1. Open(c) /\ session[c].session_id = i /\ q = p
          BY <3>1 DEF GoesOn
        <4>2. Lively(c, i)
          BY <2>5, <4>1 DEF PingInv, SessionsAreLively
        <4>3. IF p < P THEN d <= p ELSE d < P + t \/ (d < P + T /\ Pinged)
          BY <4>2 DEF Lively
        <4>4. t \in 0..T /\ p \in 0..P
          <5>1. t \in 0..T
            BY Ages
          <5> QED BY <2>1, <4>1, <5>1
        <4>5. Pinged => Pings
          BY <1>3, <2>1, <2>5 DEF PacketsMove
        <4>6. CASE u = t
          <5> HIDE DEF d, e, p, q, t, u, P, T, Pings, Pinged, i
          <5> QED BY <1>t, <2>1, <2>5, <4>1, <4>3, <4>4, <4>5, <4>6
        <4>7. CASE t = T /\ (p = P => ToServer(c, "PING", session[c].session_id) \in net')
          <5>1. p = P => Pings
            BY <4>1, <4>7
          <5>2. t = T
            BY <4>7
          <5> HIDE DEF d, e, p, q, t, u, P, T, Pings, Pinged, i
          <5> QED BY <1>t, <2>1, <2>5, <4>1, <4>3, <4>4, <5>1, <5>2
        <4>8. CASE last_ping_time'[c] = 0 /\ ToClient(c, "SYN", i) \in net
          <5>1. d = 0
            BY <2>1, <2>5, <4>8 DEF PingInv, OffersAreFresh
          <5> QED BY <2>5, <5>1
        <4> QED BY <1>3, <4>6, <4>7, <4>8 DEF ClientsMove
      <3>2. CASE ~GoesOn(c)
        <4>1. ToClient(c, "SYN", i) \in net
          BY <1>3, <3>2 DEF ClientsMove
        <4>2. d = 0
          BY <2>1, <2>5, <4>1 DEF PingInv, OffersAreFresh
        <4> QED BY <2>5, <4>2
      <3> QED BY <3>1, <3>2
    <2> QED BY <2>3, <2>4, <2>5
  <1>4. SessionsAreLively'
    BY <1>3 DEF SessionsAreLively
  <1> QED BY <1>1, <1>2, <1>4 DEF PingInv

\* The clock moves on when no packet is on its way and no task is due.
LEMMA LivelyTick ==
    ASSUME TypeOK, ClientStateMatchesPointers, IdleMapMatchesSessionMap, PingInv, Quiet, Tick
    PROVE  PingInv'
  <1> DEFINE P == kClientPingInterval
             T == kClientRunPeriodicTaskInterval
  <1>t. P \in Nat /\ P > 0 /\ T \in Nat /\ kServerSessionIdleSeconds \in Nat
    BY Ages
  <1>n. None \notin Nat
    BY NoneIsNoServerEntry
  <1>1. /\ net' = {} /\ UNCHANGED <<session_map, session>>
        /\ \A i \in SessionIds : idle_session_map'[i] = Older(idle_session_map[i], kServerSessionIdleSeconds)
        /\ \A c \in Clients : last_ping_time'[c] = Older(last_ping_time[c], P)
        /\ \A c \in Clients : socket[c] => client_task_elapsed'[c] = Older(client_task_elapsed[c], T)
        /\ \A c \in Clients : socket[c] => client_task_elapsed[c] < T
    BY DEF Tick, ServerTick, ClientTick, Quiet
  <1>2. OffersAreFresh'
    BY <1>1 DEF OffersAreFresh
  <1>3. PingsAreTimed'
    <2>1. ASSUME NEW c \in Clients, Open(c) PROVE last_ping_time'[c] # None
      <3>1. last_ping_time[c] # None
        BY <2>1 DEF PingInv, PingsAreTimed
      <3>2. last_ping_time[c] \in 0..P
        BY <3>1, Ages
      <3> QED BY <1>1, <1>t, <1>n, <3>1, <3>2 DEF Older
    <2> QED BY <1>1, <2>1 DEF PingsAreTimed, Open
  <1>4. ASSUME NEW c \in Clients, Open(c), session_map[session[c].session_id] # None
        PROVE  Lively(c, session[c].session_id)'
    <2> DEFINE i == session[c].session_id
               d == idle_session_map[i]
               e == idle_session_map'[i]
               t == client_task_elapsed[c]
               u == client_task_elapsed'[c]
               p == last_ping_time[c]
               q == last_ping_time'[c]
    <2>1. socket[c]
      BY <1>4 DEF Open, ClientStateMatchesPointers
    <2>2. p # None
      BY <1>4 DEF PingInv, PingsAreTimed
    <2>3. i \in SessionIds /\ d \in 0..kServerSessionIdleSeconds /\ t \in 0..T /\ p \in 0..P
      BY <1>4, <2>2, Ages DEF Open
    <2>4. /\ e = Older(d, kServerSessionIdleSeconds) /\ u = Older(t, T) /\ t < T /\ q = Older(p, P)
      BY <1>1, <2>1, <2>3
    <2>5. IF p < P THEN d <= p ELSE d < P + t
      <3>1. Lively(c, i)
        BY <1>4 DEF PingInv, SessionsAreLively
      <3>2. ToServer(c, "PING", i) \notin net
        BY DEF Quiet
      <3> QED BY <3>1, <3>2 DEF Lively
    <2>6. (e = d \/ e = d + 1) /\ u = t + 1 /\ q = IF p < P THEN p + 1 ELSE p
      <3> HIDE DEF d, e, p, q, t, u, P, T, i
      <3> QED BY <1>t, <1>n, <2>3, <2>4 DEF Older
    <2>7. IF q < P THEN e <= q ELSE e < P + u
      <3> HIDE DEF d, e, p, q, t, u, P, T, i
      <3> QED BY <1>t, <2>3, <2>5, <2>6
    <2>8. session'[c].session_id = i
      BY <1>1
    <2> QED BY <1>1, <2>7, <2>8 DEF Lively
  <1>5. SessionsAreLively'
    BY <1>1, <1>4 DEF SessionsAreLively, Open
  <1> QED BY <1>2, <1>3, <1>5 DEF PingInv

\* A network that never fills up keeps what it holds and what is sent.
LEMMA TimelyTransmit ==
    ASSUME NEW sent, Transmit(sent), Cardinality(net') < MaxInFlight
    PROVE  net' = net \cup sent
  <1>1. ~(Cardinality(net') = MaxInFlight)
    BY NetworkAssumption
  <1> QED BY <1>1 DEF Transmit, Carry

LEMMA TimelyReceive ==
    ASSUME NEW m, NEW sent, Receive(m, sent), Cardinality(net') < MaxInFlight
    PROVE  net \ {m} \subseteq net' /\ net' \subseteq net \cup sent
  <1>1. ~(Cardinality(net') = MaxInFlight)
    BY NetworkAssumption
  <1>2. PICK held \in {net, net \ {m}} : net' \in Carry(held, sent)
    BY DEF Receive
  <1>3. net' = held \cup sent
    BY <1>1, <1>2 DEF Carry
  <1> QED BY <1>2, <1>3

\* The SYNs that the step sends offer a free id, and a PING that it takes is answered.
LEMMA PacketsKept ==
    ASSUME NEW sent, NEW gone, net \ gone \subseteq net', net' \subseteq net \cup sent,
           \A c \in Clients, i \in SessionIds :
               /\ ToClient(c, "SYN", i) \in sent => session_map'[i] = None
               /\ ToServer(c, "PING", i) \in gone => \/ session_map'[i] = None
                                                     \/ idle_session_map'[i] = 0
    PROVE  PacketsMove
  BY DEF PacketsMove

LEMMA PacketsSent ==
    ASSUME NEW sent, net' = net \cup sent,
           \A c \in Clients, i \in SessionIds :
               ToClient(c, "SYN", i) \in sent => session_map'[i] = None
    PROVE  PacketsMove
  BY DEF PacketsMove

\* The steps that leave the clients, or the maps, alone.
LEMMA ClientsStay ==
    ASSUME UNCHANGED clientVars PROVE ClientsMove
  BY DEF clientVars, ClientsMove, GoesOn, Open

LEMMA MapsStay ==
    ASSUME UNCHANGED <<session_map, idle_session_map>> PROVE MapsMove
  BY DEF MapsMove

\* The handlers of the server: a session starts with the idle time 0, and so it is when
\* its PING has been handled.
LEMMA TimelyServerReceives ==
    ASSUME TypeOK, IdleMapMatchesSessionMap, PendingIdsAreFree, NEW m \in net, ServerReceives(m),
           Cardinality(net') < MaxInFlight
    PROVE  MapsMove /\ PacketsMove /\ ClientsMove
  <1>0. /\ ServerTypeOK /\ m.to = "server" /\ m.addr \in Clients
        /\ m.type # "SYN" => m.id \in SessionIds
    BY PacketFields DEF TypeOK, ServerReceives, ServerProcessPacket
  <1>c. ClientsMove
    BY ClientsStay DEF ServerReceives
  <1>p. ASSUME NEW sent, Receive(m, sent),
               \A c \in Clients, i \in SessionIds :
                   ToClient(c, "SYN", i) \in sent => session_map'[i] = None,
               m.type = "PING" => session_map'[m.id] = None \/ idle_session_map'[m.id] = 0
        PROVE  PacketsMove
    <2>1. ASSUME NEW c \in Clients, NEW i \in SessionIds, ToServer(c, "PING", i) \in {m}
          PROVE  session_map'[i] = None \/ idle_session_map'[i] = 0
      BY <1>p, <2>1 DEF ToServer
    <2>2. net \ {m} \subseteq net' /\ net' \subseteq net \cup sent
      BY <1>p, TimelyReceive
    <2> QED BY <1>p, <2>1, <2>2, PacketsKept
  <1>r. ASSUME NEW t \in {"RST", "PONG"}, NEW j, NEW c, NEW i
        PROVE  ToClient(c, "SYN", i) \notin {ToClient(m.addr, t, j)}
    BY DEF ToClient
  <1>s. ASSUME NEW j, NEW c, NEW i, ToClient(c, "SYN", i) \in {ToClient(m.addr, "SYN", j)}
        PROVE  i = j
    BY <1>s DEF ToClient
  <1>e. ASSUME m.type # "PING",
               Receive(m, {}) \/ Receive(m, {ToClient(m.addr, "RST", ZeroId)})
        PROVE  PacketsMove
    <2>1. CASE Receive(m, {})
      BY <1>e, <1>p, <2>1
    <2>2. CASE Receive(m, {ToClient(m.addr, "RST", ZeroId)})
      <3>1. \A c \in Clients, i \in SessionIds :
               ToClient(c, "SYN", i) \notin {ToClient(m.addr, "RST", ZeroId)}
        BY <1>r
      <3> QED BY <1>e, <1>p, <2>2, <3>1
    <2> QED BY <1>e, <2>1, <2>2
  <1>n. ASSUME NEW i \in SessionIds, CreateSession(i, m.addr), session_map[i] = None
        PROVE  MapsMove
    <2>1. idle_session_map[i] = None
      BY <1>n DEF IdleMapMatchesSessionMap
    <2>2. idle_session_map'[i] = 0
      BY <1>0, <1>n, <2>1 DEF CreateSession, ServerTypeOK
    <2>3. \A j \in SessionIds : j # i => /\ session_map'[j] = session_map[j]
                                         /\ idle_session_map'[j] = idle_session_map[j]
      BY <1>0, <1>n DEF CreateSession, ServerTypeOK
    <2> QED BY <2>2, <2>3 DEF MapsMove
  <1>1. CASE ServerProcessSynPacket(m)
    <2>1. MapsMove
      BY <1>1, MapsStay DEF ServerProcessSynPacket
    <2>2. m.type # "PING" /\ session_map' = session_map
      BY <1>1 DEF ServerProcessSynPacket
    <2>3. ASSUME NEW i \in SessionIds, session_map[i] = None, Receive(m, {ToClient(m.addr, "SYN", i)})
          PROVE  PacketsMove
      <3>1. \A c \in Clients, j \in SessionIds :
               ToClient(c, "SYN", j) \in {ToClient(m.addr, "SYN", i)} => session_map'[j] = None
        BY <1>s, <2>2, <2>3
      <3> QED BY <1>p, <2>2, <2>3, <3>1
    <2>4. CASE ServerAcceptSyn(m)
      <3>1. PICK i \in SessionIds : FreshSessionId(i) /\ Receive(m, {ToClient(m.addr, "SYN", i)})
        BY <2>4, Zenon DEF ServerAcceptSyn
      <3> QED BY <1>c, <2>1, <2>3, <3>1 DEF FreshSessionId
    <2>5. CASE ServerRefuseSyn(m)
      BY <1>c, <1>e, <2>1, <2>2, <2>5 DEF ServerRefuseSyn
    <2>6. CASE ServerRepeatSyn(m)
      <3>1. pending_session_map[m.addr] # None
        BY <2>6 DEF ServerRepeatSyn
      <3>2. /\ pending_session_map[m.addr].session_id \in SessionIds
            /\ session_map[pending_session_map[m.addr].session_id] = None
        BY <1>0, <3>1 DEF ServerTypeOK, PendingSessions, PendingIdsAreFree
      <3>3. \/ Receive(m, {ToClient(m.addr, "RST", ZeroId)})
            \/ Receive(m, {ToClient(m.addr, "SYN", pending_session_map[m.addr].session_id)})
        BY <2>6, Zenon DEF ServerRepeatSyn
      <3> QED BY <1>c, <1>e, <2>1, <2>2, <2>3, <3>2, <3>3
    <2> QED BY <1>1, <1>c, <2>1, <2>4, <2>5, <2>6 DEF ServerProcessSynPacket
  <1>2. CASE ServerProcessAckPacket(m)
    <2>0. m.type # "PING" /\ m.id \in SessionIds
      BY <1>0, <1>2 DEF ServerProcessAckPacket
    <2>1. MapsMove
      BY <1>2, <1>n, <2>0, MapsStay DEF ServerProcessAckPacket
    <2>2. PacketsMove
      BY <1>2, <1>e, <2>0 DEF ServerProcessAckPacket
    <2> QED BY <1>c, <2>1, <2>2
  <1>3. CASE ServerProcessRstPacket(m)
    <2>0. m.type # "PING" /\ m.id \in SessionIds
      BY <1>0, <1>3 DEF ServerProcessRstPacket
    <2>1. /\ session_map' = [session_map EXCEPT ![m.id] = None]
          /\ idle_session_map' = [idle_session_map EXCEPT ![m.id] = None]
      BY <1>3 DEF ServerProcessRstPacket
    <2>2. MapsMove
      BY <1>0, <2>0, <2>1 DEF MapsMove, ServerTypeOK
    <2>3. PacketsMove
      BY <1>3, <1>e, <2>0 DEF ServerProcessRstPacket
    <2> QED BY <1>c, <2>2, <2>3
  <1>4. CASE ServerProcessPingPacket(m)
    <2>0. m.id \in SessionIds /\ session_map' = session_map
      BY <1>0, <1>4 DEF ServerProcessPingPacket
    <2>1. CASE session_map[m.id] = None
      <3>1. UNCHANGED idle_session_map /\ Receive(m, {ToClient(m.addr, "RST", m.id)})
        BY <1>4, <2>1 DEF ServerProcessPingPacket
      <3>2. PacketsMove
        BY <1>p, <1>r, <2>0, <2>1, <3>1
      <3> QED BY <1>c, <2>0, <3>1, <3>2, MapsStay
    <2>2. CASE session_map[m.id] # None
      <3>1. /\ idle_session_map' = [idle_session_map EXCEPT ![m.id] = 0]
            /\ Receive(m, {ToClient(m.addr, "PONG", m.id)})
        BY <1>4, <2>2 DEF ServerProcessPingPacket
      <3>2. idle_session_map'[m.id] = 0
        BY <1>0, <2>0, <3>1 DEF ServerTypeOK
      <3>3. MapsMove
        BY <1>0, <2>0, <3>1, <3>2 DEF MapsMove, ServerTypeOK
      <3>4. PacketsMove
        BY <1>p, <1>r, <3>1, <3>2
      <3> QED BY <1>c, <3>3, <3>4
    <2> QED BY <2>1, <2>2
  <1>5. CASE ServerProcessDataPacket(m)
    <2>0. m.type # "PING" /\ m.id \in SessionIds
      BY <1>0, <1>5 DEF ServerProcessDataPacket
    <2>1. PacketsMove
      BY <1>5, <1>e, <2>0 DEF ServerProcessDataPacket
    <2>2. CASE session_map[m.id] = None
      <3>1. MapsMove
        BY <1>5, <1>n, <2>0, <2>2, MapsStay DEF ServerProcessDataPacket
      <3> QED BY <1>c, <2>1, <3>1
    <2>3. CASE session_map[m.id] # None
      <3>1. \A i \in SessionIds : i # m.id => session_map'[i] = session_map[i]
        BY <1>0, <1>5, <2>0, <2>3 DEF ServerProcessDataPacket, ServerTypeOK
      <3>2. idle_session_map' = idle_session_map
        BY <1>5, <2>3 DEF ServerProcessDataPacket
      <3>3. MapsMove
        BY <2>3, <3>1, <3>2 DEF MapsMove
      <3> QED BY <1>c, <2>1, <3>3
    <2> QED BY <2>2, <2>3
  <1> QED BY <1>1, <1>2, <1>3, <1>4, <1>5 DEF ServerReceives, ServerProcessPacket

\* RunPeriodicTask and the sessions on their loops.
LEMMA TimelyServerSteps ==
    ASSUME TypeOK, PendingIdsAreFree, ServerTask \/ ServerSessionStep,
           Cardinality(net') < MaxInFlight
    PROVE  MapsMove /\ PacketsMove /\ ClientsMove
  <1>0. ServerTypeOK
    BY DEF TypeOK
  <1>c. ClientsMove
    BY ClientsStay DEF ServerTask, ServerSessionStep
  <1>q. ASSUME UNCHANGED net PROVE PacketsMove
    BY <1>q DEF PacketsMove, ToClient, ToServer
  <1>1. CASE ServerTask
    <2> DEFINE sent == {ToClient(c, "SYN", pending_session_map[c].session_id) : c \in SynResent}
    <2>1. /\ \A i \in SessionIds : session_map'[i] # None => /\ session_map'[i] = session_map[i]
                                                             /\ idle_session_map'[i] = idle_session_map[i]
          /\ \A i \in SessionIds : session_map[i] = None => session_map'[i] = None
          /\ Transmit(sent)
      BY <1>1 DEF ServerTask, ServerRunPeriodicTask
    <2>2. MapsMove
      BY <2>1 DEF MapsMove
    <2>3. ASSUME NEW c \in Clients, NEW i \in SessionIds, ToClient(c, "SYN", i) \in sent
          PROVE  session_map'[i] = None
      <3>1. PICK d \in SynResent :
                ToClient(c, "SYN", i) = ToClient(d, "SYN", pending_session_map[d].session_id)
        BY <2>3
      <3>2. i = pending_session_map[d].session_id
        BY <3>1 DEF ToClient
      <3>3. session_map[i] = None
        BY <3>2 DEF SynResent, PendingIdsAreFree
      <3> QED BY <2>1, <3>3
    <2>4. net' = net \cup sent
      BY <2>1, TimelyTransmit
    <2>5. PacketsMove
      <3> HIDE DEF sent
      <3> QED BY <2>3, <2>4, PacketsSent
    <2> QED BY <1>c, <2>2, <2>5
  <1>2. ASSUME NEW i \in SessionIds, ServerSessionCloses(i)
        PROVE  MapsMove /\ PacketsMove /\ ClientsMove
    <2>1. /\ session_map[i] # None /\ UNCHANGED <<net, idle_session_map>>
          /\ \A j \in SessionIds : j # i => session_map'[j] = session_map[j]
      BY <1>0, <1>2 DEF ServerSessionCloses, ServerTypeOK
    <2>2. MapsMove
      BY <2>1 DEF MapsMove
    <2> QED BY <1>c, <1>q, <2>1, <2>2
  <1>3. ASSUME NEW s \in closing, ServerCloseRuns(s)
        PROVE  MapsMove /\ PacketsMove /\ ClientsMove
    BY <1>3, <1>c, <1>q, MapsStay DEF ServerCloseRuns
  <1>4. ASSUME NEW i \in SessionIds, NEW c \in Clients, ServerSessionOutput(i, c)
        PROVE  MapsMove /\ PacketsMove /\ ClientsMove
    <2>1. MapsMove
      BY <1>4, MapsStay DEF ServerSessionOutput, serverVars
    <2>2. net' = net \cup {ToClient(c, "DATA", i)}
      BY <1>4, TimelyTransmit DEF ServerSessionOutput
    <2>3. \A d \in Clients, j \in SessionIds : ToClient(d, "SYN", j) \notin {ToClient(c, "DATA", i)}
      BY DEF ToClient
    <2>4. PacketsMove
      BY <2>2, <2>3, PacketsSent
    <2> QED BY <1>c, <2>1, <2>4
  <1> QED BY <1>1, <1>2, <1>3, <1>4 DEF ServerSessionStep

\* A step of a client: what it sends goes to the server, and what it takes came from there.
LEMMA ClientPackets ==
    ASSUME NEW sent, \A p \in sent : p.to = "server", Cardinality(net') < MaxInFlight,
           \/ Transmit(sent)
           \/ \E m \in net : m.to = "client" /\ Receive(m, sent)
    PROVE  PacketsMove
  <1>1. ASSUME NEW c \in Clients, NEW i \in SessionIds, ToClient(c, "SYN", i) \in sent
        PROVE  FALSE
    BY <1>1 DEF ToClient
  <1>2. CASE Transmit(sent)
    <2>1. net' = net \cup sent
      BY <1>2, TimelyTransmit
    <2> QED BY <1>1, <2>1, PacketsSent
  <1>3. ASSUME NEW m \in net, m.to = "client", Receive(m, sent)
        PROVE  PacketsMove
    <2>1. net \ {m} \subseteq net' /\ net' \subseteq net \cup sent
      BY <1>3, TimelyReceive
    <2>2. ASSUME NEW c \in Clients, NEW i \in SessionIds, ToServer(c, "PING", i) \in {m}
          PROVE  FALSE
      BY <1>3, <2>2 DEF ToServer
    <2> QED BY <1>1, <2>1, <2>2, PacketsKept
  <1> QED BY <1>2, <1>3

\* A client that is left alone, or the only one that is not and has no open session then.
LEMMA ClientsKeep ==
    ASSUME UNCHANGED <<session, last_ping_time, client_task_elapsed>> PROVE ClientsMove
  BY DEF ClientsMove, GoesOn, Open

OthersStay(c) ==
    \A d \in Clients : d # c =>
        /\ session'[d] = session[d] /\ last_ping_time'[d] = last_ping_time[d]
        /\ client_task_elapsed'[d] = client_task_elapsed[d]

LEMMA ClientCloses ==
    ASSUME NEW c \in Clients, OthersStay(c), ~(session'[c] # None /\ ~session'[c].closed)
    PROVE  ClientsMove
  BY DEF OthersStay, ClientsMove, GoesOn, Open

\* The handlers of the client: a session starts with its handshake.
LEMMA TimelyClientReceives ==
    ASSUME TypeOK, NEW m \in net, ClientReceives(m), Cardinality(net') < MaxInFlight
    PROVE  MapsMove /\ PacketsMove /\ ClientsMove
  <1>0. /\ ClientTypeOK /\ m.to = "client" /\ m.addr \in Clients
    BY PacketFields DEF TypeOK, ClientReceives, ClientProcessPacket
  <1>m. MapsMove
    BY MapsStay DEF ClientReceives, serverVars
  <1>a. ASSUME NEW t, NEW i, Receive(m, {ToServer(m.addr, t, i)}) PROVE PacketsMove
    <2>1. \A p \in {ToServer(m.addr, t, i)} : p.to = "server"
      BY DEF ToServer
    <2> QED BY <1>0, <1>a, <2>1, ClientPackets
  <1>e. ASSUME Receive(m, {}) PROVE PacketsMove
    <2>1. \A p \in {} : p.to = "server"
      OBVIOUS
    <2> QED BY <1>0, <1>e, <2>1, ClientPackets
  <1>1. CASE m.type = "SYN" /\ ClientAdoptSession(m) /\ UNCHANGED client_task_elapsed
    <2>2. PICK early \in SUBSET {ToServer(m.addr, "DATA", m.id)}, closed \in BOOLEAN :
             /\ session' = [session EXCEPT ![m.addr] =
                    [session_id |-> m.id, closed |-> closed]]
             /\ Receive(m, early \cup {ToServer(m.addr, "ACK", m.id)})
      BY <1>1 DEF ClientAdoptSession
    <2>3. PacketsMove
      <3>1. \A p \in early \cup {ToServer(m.addr, "ACK", m.id)} : p.to = "server"
        BY DEF ToServer
      <3> QED BY <1>0, <2>2, <3>1, ClientPackets
    <2>4. /\ OthersStay(m.addr) /\ session'[m.addr].session_id = m.id
          /\ last_ping_time'[m.addr] = 0
      BY <1>0, <1>1, <2>2 DEF ClientTypeOK, ClientAdoptSession, OthersStay
    <2>5. m = ToClient(m.addr, "SYN", m.id)
      <3>1. m \in Packets
        BY DEF TypeOK
      <3> QED BY <1>0, <1>1, <3>1 DEF Packets, ToClient
    <2>6. ASSUME NEW d \in Clients, Open(d)'
          PROVE  \/ GoesOn(d) /\ client_task_elapsed'[d] = client_task_elapsed[d]
                 \/ last_ping_time'[d] = 0 /\ ToClient(d, "SYN", session'[d].session_id) \in net
      <3>1. CASE d = m.addr
        BY <2>4, <2>5, <3>1
      <3>2. CASE d # m.addr
        BY <2>4, <2>6, <3>2 DEF OthersStay, GoesOn, Open
      <3> QED BY <3>1, <3>2
    <2> QED BY <1>m, <2>3, <2>6 DEF ClientsMove
  <1>2. CASE ClientAnswerSyn(m) /\ UNCHANGED client_task_elapsed
    <2>1. PacketsMove
      BY <1>2, <1>a DEF ClientAnswerSyn
    <2>2. ClientsMove
      BY <1>2, ClientsKeep DEF ClientAnswerSyn
    <2> QED BY <1>m, <2>1, <2>2
  <1>3. CASE ClientProcessRstPacket(m)
    <2>1. PacketsMove
      BY <1>3, <1>e DEF ClientProcessRstPacket
    <2>2. OthersStay(m.addr) /\ session'[m.addr] = None
      BY <1>0, <1>3 DEF ClientProcessRstPacket, ResetSession, ClientTypeOK, OthersStay
    <2>3. ClientsMove
      BY <1>0, <2>2, ClientCloses
    <2> QED BY <1>m, <2>1, <2>3
  <1>4. CASE ClientProcessPongOrDataPacket(m)
    <2>1. PacketsMove
      BY <1>4, <1>a, <1>e DEF ClientProcessPongOrDataPacket
    <2>2. ClientsMove
      BY <1>4, ClientsKeep DEF ClientProcessPongOrDataPacket
    <2> QED BY <1>m, <2>1, <2>2
  <1> QED
    BY <1>1, <1>2, <1>3, <1>4
    DEF ClientReceives, ClientProcessPacket, ClientProcessSynPacket

\* RunPeriodicTask of the client: an open session survives it, and has sent its PING when
\* it is old enough.
LEMMA TimelyClientTask ==
    ASSUME TypeOK, ClientStateMatchesPointers, NEW c \in Clients, ClientTask(c),
           Cardinality(net') < MaxInFlight
    PROVE  MapsMove /\ PacketsMove /\ ClientsMove
  <1>0. ClientTypeOK
    BY DEF TypeOK
  <1>m. MapsMove
    BY MapsStay DEF ClientTask, serverVars
  <1>q. ASSUME UNCHANGED net PROVE PacketsMove
    BY <1>q DEF PacketsMove, ToClient, ToServer
  <1>a. ASSUME NEW t, NEW i, Transmit({ToServer(c, t, i)}) PROVE PacketsMove
    <2>1. \A p \in {ToServer(c, t, i)} : p.to = "server"
      BY DEF ToServer
    <2> QED BY <1>a, <2>1, ClientPackets
  <1>p. PacketsMove
    BY <1>a, <1>q DEF ClientTask, ClientRunPeriodicTask, PendingTask, ConnectedTask
  <1>t. /\ client_task_elapsed[c] = kClientRunPeriodicTaskInterval
        /\ UNCHANGED last_ping_time
        /\ \A d \in Clients : d # c => client_task_elapsed'[d] = client_task_elapsed[d]
    <2>1. client_task_elapsed[c] \in 0..kClientRunPeriodicTaskInterval
      BY <1>0 DEF ClientTypeOK
    <2> QED BY <1>0, <2>1, ClientAssumption DEF ClientTask, ClientRunPeriodicTask, ClientTypeOK
  <1>r. ASSUME ResetSession(c) PROVE ClientsMove
    <2>1. session' = [session EXCEPT ![c] = None]
      BY <1>r DEF ResetSession
    <2>2. OthersStay(c) /\ session'[c] = None
      BY <1>0, <1>t, <2>1 DEF OthersStay, ClientTypeOK
    <2> QED BY <2>2, ClientCloses
  <1>u. ASSUME UNCHANGED session, session[c] = None PROVE ClientsMove
    BY <1>u, <1>t, ClientCloses DEF OthersStay
  <1>1. CASE state[c] # "CONNECTED"
    <2>1. session[c] = None
      BY <1>1 DEF ClientStateMatchesPointers
    <2>2. UNCHANGED session \/ ResetSession(c)
      BY <1>1 DEF ClientTask, ClientRunPeriodicTask, PendingTask, ConnectedTask
    <2> QED BY <1>m, <1>p, <1>r, <1>u, <2>1, <2>2
  <1>2. CASE state[c] = "CONNECTED" /\ UNCHANGED session
    <2>0. kClientPingInterval # None /\ kClientPingInterval >= kClientPingInterval
      BY ClientAssumption, NoneIsNoClientEntry
    <2>1. CASE ReceiveTimedOut(c) \/ session[c].closed
      <3>1. ResetSession(c)
        BY <1>2, <2>1 DEF ClientTask, ClientRunPeriodicTask, PendingTask, ConnectedTask
      <3> QED BY <1>m, <1>p, <1>r, <3>1
    <2>2. CASE ~(ReceiveTimedOut(c) \/ session[c].closed)
      <3>1. last_ping_time[c] = kClientPingInterval =>
                Transmit({ToServer(c, "PING", session[c].session_id)})
        BY <1>2, <2>0, <2>2 DEF ClientTask, ClientRunPeriodicTask, PendingTask, ConnectedTask
      <3>2. last_ping_time[c] = kClientPingInterval =>
                ToServer(c, "PING", session[c].session_id) \in net'
        <4>1. ASSUME Transmit({ToServer(c, "PING", session[c].session_id)})
              PROVE  net' = net \cup {ToServer(c, "PING", session[c].session_id)}
          BY <4>1, TimelyTransmit
        <4> QED BY <3>1, <4>1
      <3>3. \A d \in Clients : Open(d)' => GoesOn(d)
        BY <1>2, <1>t DEF GoesOn, Open
      <3>4. ClientsMove
        BY <1>t, <3>2, <3>3 DEF ClientsMove
      <3> QED BY <1>m, <1>p, <3>4
    <2> QED BY <2>1, <2>2
  <1>3. CASE state[c] = "CONNECTED" /\ ResetSession(c)
    BY <1>m, <1>p, <1>r, <1>3
  <1>4. UNCHANGED session \/ ResetSession(c)
    BY DEF ClientTask, ClientRunPeriodicTask, PendingTask, ConnectedTask
  <1> QED BY <1>1, <1>2, <1>3, <1>4

\* The reconnect timer and the user.
LEMMA TimelyClientUser ==
    ASSUME TypeOK, ClientStateMatchesPointers, NEW c \in Clients,
           ClientReconnects(c) \/ ClientUser(c), Cardinality(net') < MaxInFlight
    PROVE  MapsMove /\ PacketsMove /\ ClientsMove
  <1>0. ClientTypeOK
    BY DEF TypeOK
  <1>m. MapsMove
    BY MapsStay DEF ClientReconnects, ClientUser, serverVars
  <1>q. ASSUME UNCHANGED net PROVE PacketsMove
    BY <1>q DEF PacketsMove, ToClient, ToServer
  <1>a. ASSUME NEW t, NEW i, Transmit({ToServer(c, t, i)}) PROVE PacketsMove
    <2>1. \A p \in {ToServer(c, t, i)} : p.to = "server"
      BY DEF ToServer
    <2> QED BY <1>a, <2>1, ClientPackets
  <1>b. ASSUME BuildSession(c) PROVE PacketsMove
    BY <1>b, <1>a, <1>q DEF BuildSession
  <1>1. CASE ClientReconnects(c)
    <2>1. BuildSession(c) /\ UNCHANGED <<session, last_ping_time, client_task_elapsed>>
      BY <1>1 DEF ClientReconnects, ReconnectTimer
    <2> QED BY <1>m, <1>b, <2>1, ClientsKeep
  <1>2. CASE Connect(c)
    <2>1. BuildSession(c) /\ UNCHANGED <<session, last_ping_time>> /\ session[c] = None
      BY <1>2 DEF Connect, ClientStateMatchesPointers
    <2>2. OthersStay(c)
      BY <1>0, <1>2, <2>1 DEF Connect, OthersStay, ClientTypeOK
    <2>3. ClientsMove
      BY <2>1, <2>2, ClientCloses
    <2> QED BY <1>m, <1>b, <2>1, <2>3
  <1>3. CASE Disconnect(c)
    <2>1. PacketsMove
      <3>1. CASE state[c] = "CONNECTED"
        <4>1. PICK flushed \in SUBSET {ToServer(c, "DATA", session[c].session_id)} :
                 Transmit(flushed \cup {ToServer(c, "RST", session[c].session_id)})
          BY <1>3, <3>1 DEF Disconnect
        <4>2. \A p \in flushed \cup {ToServer(c, "RST", session[c].session_id)} : p.to = "server"
          BY DEF ToServer
        <4> QED BY <4>1, <4>2, ClientPackets
      <3> QED BY <1>3, <1>q, <3>1 DEF Disconnect
    <2>2. session'[c] = None /\ OthersStay(c)
      BY <1>0, <1>3 DEF Disconnect, OthersStay, ClientTypeOK, ClientStateMatchesPointers
    <2>3. ClientsMove
      BY <2>2, ClientCloses
    <2> QED BY <1>m, <2>1, <2>3
  <1>4. CASE ClientSessionCloses(c)
    <2>1. PacketsMove
      BY <1>4, <1>q DEF ClientSessionCloses
    <2>2. session[c] \in ClientSessions
      BY <1>0, <1>4 DEF ClientSessionCloses, ClientTypeOK
    <2>3. session'[c] = [session[c] EXCEPT !.closed = TRUE] /\ OthersStay(c)
      BY <1>0, <1>4 DEF ClientSessionCloses, OthersStay, ClientTypeOK
    <2>4. session'[c].closed
      BY <2>2, <2>3 DEF ClientSessions
    <2>5. ClientsMove
      BY <2>3, <2>4, ClientCloses
    <2> QED BY <1>m, <2>1, <2>5
  <1>5. CASE ClientSessionOutput(c)
    <2>1. PacketsMove
      BY <1>5, <1>a DEF ClientSessionOutput
    <2>2. ClientsMove
      BY <1>5, ClientsStay DEF ClientSessionOutput
    <2> QED BY <1>m, <2>1, <2>2
  <1> QED BY <1>1, <1>2, <1>3, <1>4, <1>5 DEF ClientUser

\* The ids of pending handshakes stay free as long as no other address is offered them.
LEMMA PendingIdsStep ==
    ASSUME TypeOK, OfferedInv, OffersAreDistinct, PendingIdsAreFree, [Next]_vars
    PROVE  PendingIdsAreFree'
  <1>0. /\ ServerTypeOK /\ net \in SUBSET Packets
        /\ \A c \in Clients : pending_session_map[c] # None =>
               pending_session_map[c].session_id \in SessionIds
    BY DEF TypeOK, ServerTypeOK, PendingSessions
  <1>k. ASSUME \A c \in Clients : pending_session_map'[c] # None =>
                   /\ pending_session_map[c] # None
                   /\ pending_session_map'[c].session_id = pending_session_map[c].session_id,
               \A i \in SessionIds : session_map[i] = None => session_map'[i] = None
        PROVE  PendingIdsAreFree'
    BY <1>0, <1>k DEF PendingIdsAreFree
  <1>u. ASSUME UNCHANGED <<pending_session_map, session_map>> PROVE PendingIdsAreFree'
    BY <1>u DEF PendingIdsAreFree
  <1>1. ASSUME NEW m \in net, ServerReceives(m)
        PROVE  PendingIdsAreFree'
    <2>0. m.addr \in Clients /\ m.to = "server" /\ (m.type # "SYN" => m.id \in SessionIds)
      BY <1>0, <1>1, PacketFields DEF ServerReceives, ServerProcessPacket
    <2>n. ASSUME NEW i \in SessionIds, CreateSession(i, m.addr), i \in issued[m.addr]
          PROVE  PendingIdsAreFree'
      <3>1. /\ pending_session_map'[m.addr] = None
            /\ \A d \in Clients : d # m.addr => pending_session_map'[d] = pending_session_map[d]
            /\ \A j \in SessionIds : j # i => session_map'[j] = session_map[j]
        BY <1>0, <2>0, <2>n DEF CreateSession, ServerTypeOK
      <3>2. ASSUME NEW d \in Clients, d # m.addr, pending_session_map[d] # None
            PROVE  /\ pending_session_map[d].session_id # i
                   /\ session_map[pending_session_map[d].session_id] = None
        BY <2>0, <2>n, <3>2
        DEF OfferedInv, HandshakesWereOffered, OffersAreDistinct, PendingIdsAreFree
      <3>3. ASSUME NEW d \in Clients, pending_session_map'[d] # None
            PROVE  session_map'[pending_session_map'[d].session_id] = None
        <4>1. d # m.addr
          BY <3>1, <3>3
        <4>2. pending_session_map'[d] = pending_session_map[d]
          BY <3>1, <4>1
        <4>3. pending_session_map[d] # None
          BY <3>3, <4>2
        <4> QED BY <1>0, <3>1, <3>2, <4>1, <4>2, <4>3
      <3> QED BY <3>3 DEF PendingIdsAreFree
    <2>1. CASE ServerProcessSynPacket(m)
      <3>0. UNCHANGED session_map
        BY <2>1 DEF ServerProcessSynPacket
      <3>1. CASE ServerAcceptSyn(m)
        <4>1. PICK i \in SessionIds :
                 /\ FreshSessionId(i)
                 /\ pending_session_map' = [pending_session_map EXCEPT ![m.addr] =
                        [session_id |-> i, retry_times |-> 0, syn_elapsed |-> 0]]
          BY <3>1 DEF ServerAcceptSyn
        <4>2. /\ pending_session_map'[m.addr].session_id = i
              /\ \A d \in Clients : d # m.addr => pending_session_map'[d] = pending_session_map[d]
          BY <1>0, <2>0, <4>1 DEF ServerTypeOK
        <4>3. session_map[i] = None
          BY <4>1 DEF FreshSessionId
        <4> QED BY <3>0, <4>2, <4>3 DEF PendingIdsAreFree
      <3>2. CASE ServerRefuseSyn(m)
        BY <1>u, <3>0, <3>2 DEF ServerRefuseSyn
      <3>3. CASE ServerRepeatSyn(m)
        <4>1. pending_session_map[m.addr] # None
          BY <3>3 DEF ServerRepeatSyn
        <4>2. \/ pending_session_map' = [pending_session_map EXCEPT ![m.addr] = None]
              \/ pending_session_map' = [pending_session_map EXCEPT ![m.addr] =
                     SynSentAgain(pending_session_map[m.addr])]
          BY <3>3, Zenon DEF ServerRepeatSyn
        <4>3. \/ pending_session_map'[m.addr] = None
              \/ pending_session_map'[m.addr].session_id = pending_session_map[m.addr].session_id
          BY <1>0, <2>0, <4>2 DEF SynSentAgain, ServerTypeOK
        <4>4. \A d \in Clients : d # m.addr => pending_session_map'[d] = pending_session_map[d]
          BY <1>0, <2>0, <4>2 DEF ServerTypeOK
        <4> QED BY <1>k, <3>0, <4>1, <4>3, <4>4
      <3> QED BY <2>1, <3>1, <3>2, <3>3 DEF ServerProcessSynPacket
    <2>2. CASE ServerProcessAckPacket(m)
      <3>1. m.id \in SessionIds
        BY <2>0, <2>2 DEF ServerProcessAckPacket
      <3>2. CASE UNCHANGED <<pending_session_map, session_map>>
        BY <1>u, <3>2
      <3>3. CASE /\ pending_session_map[m.addr] # None
                 /\ pending_session_map[m.addr].session_id = m.id
                 /\ CreateSession(m.id, m.addr)
        <4>1. m.id \in issued[m.addr]
          BY <2>0, <3>3 DEF OfferedInv, HandshakesWereOffered
        <4> QED BY <2>n, <3>1, <3>3, <4>1
      <3> QED BY <2>2, <3>2, <3>3 DEF ServerProcessAckPacket
    <2>3. CASE ServerProcessRstPacket(m)
      <3>1. m.id \in SessionIds
        BY <2>0, <2>3 DEF ServerProcessRstPacket
      <3>2. /\ \A c \in Clients : pending_session_map'[c] # None =>
                   pending_session_map'[c] = pending_session_map[c]
            /\ \A i \in SessionIds : session_map[i] = None => session_map'[i] = None
        BY <1>0, <2>0, <2>3, <3>1 DEF ServerProcessRstPacket, ServerTypeOK
      <3> QED BY <1>k, <3>2
    <2>4. CASE ServerProcessPingPacket(m)
      BY <1>u, <2>4 DEF ServerProcessPingPacket
    <2>5. CASE ServerProcessDataPacket(m)
      <3>1. m.id \in SessionIds /\ m.type = "DATA"
        BY <2>0, <2>5 DEF ServerProcessDataPacket
      <3>2. m.id \in issued[m.addr]
        BY <2>0, <3>1 DEF OfferedInv, PacketsWereOffered, Grants
      <3>3. CASE session_map[m.id] = None
        <4>1. UNCHANGED <<pending_session_map, session_map>> \/ CreateSession(m.id, m.addr)
          BY <2>5, <3>3 DEF ServerProcessDataPacket
        <4> QED BY <1>u, <2>n, <3>1, <3>2, <4>1
      <3>4. CASE session_map[m.id] # None
        <4>1. /\ UNCHANGED pending_session_map
              /\ \A i \in SessionIds : i # m.id => session_map'[i] = session_map[i]
          BY <1>0, <2>5, <3>1, <3>4 DEF ServerProcessDataPacket, ServerTypeOK
        <4> QED BY <1>k, <3>4, <4>1
      <3> QED BY <3>3, <3>4
    <2> QED BY <1>1, <2>1, <2>2, <2>3, <2>4, <2>5 DEF ServerReceives, ServerProcessPacket
  <1>2. CASE ServerTask
    <2>1. \A i \in SessionIds : session_map[i] = None => session_map'[i] = None
      BY <1>2 DEF ServerTask, ServerRunPeriodicTask
    <2>2. pending_session_map' = PendingAfterTask
      BY <1>2 DEF ServerTask, ServerRunPeriodicTask
    <2>3. ASSUME NEW c \in Clients, pending_session_map'[c] # None
          PROVE  /\ pending_session_map[c] # None
                 /\ pending_session_map'[c].session_id = pending_session_map[c].session_id
      BY <2>2, <2>3 DEF PendingAfterTask, SynSentAgain
    <2> QED BY <1>k, <2>1, <2>3
  <1>3. ASSUME NEW i \in SessionIds, ServerSessionCloses(i)
        PROVE  PendingIdsAreFree'
    <2>1. /\ UNCHANGED pending_session_map /\ session_map[i] # None
          /\ \A j \in SessionIds : j # i => session_map'[j] = session_map[j]
      BY <1>0, <1>3 DEF ServerSessionCloses, ServerTypeOK
    <2> QED BY <1>k, <2>1
  <1>4. CASE UNCHANGED serverVars
    BY <1>u, <1>4 DEF serverVars
  <1>5. CASE ServerSessionStep
    BY <1>3, <1>4, <1>5, <1>u DEF ServerSessionStep, ServerCloseRuns, ServerSessionOutput
  <1>6. CASE Tick
    <2>1. UNCHANGED session_map
      BY <1>6 DEF Tick, ServerTick
    <2>2. ASSUME NEW c \in Clients, pending_session_map'[c] # None
          PROVE  /\ pending_session_map[c] # None
                 /\ pending_session_map'[c].session_id = pending_session_map[c].session_id
      <3>1. pending_session_map[c] # None
        BY <1>6, <2>2 DEF Tick, ServerTick
      <3>2. pending_session_map[c] \in PendingSessions
        BY <1>0, <3>1 DEF ServerTypeOK
      <3>3. pending_session_map'[c] =
               [pending_session_map[c] EXCEPT !.syn_elapsed = Older(@, kServerSynSentTimeout)]
        BY <1>6, <3>1 DEF Tick, ServerTick
      <3> QED BY <3>1, <3>2, <3>3 DEF PendingSessions
    <2> QED BY <1>k, <2>1, <2>2
  <1> QED
    BY <1>1, <1>2, <1>4, <1>5, <1>6
    DEF Next, ProgramStep, ClientReceives, ClientTask, ClientReconnects, ClientUser, NetworkLoses,
        AddressChanges, vars

\* Every step of a timely system preserves the invariant.
LEMMA PingStep ==
    ASSUME TypeOK, TypeOK', IdleMapMatchesSessionMap, IdleMapMatchesSessionMap',
           ClientStateMatchesPointers, PendingIdsAreFree, PingInv, [TimelyNext]_vars
    PROVE  PingInv'
  <1>1. CASE ProgramStep /\ Cardinality(net') < MaxInFlight
    <2>1. MapsMove /\ PacketsMove /\ ClientsMove
      BY <1>1, TimelyServerReceives, TimelyServerSteps, TimelyClientReceives, TimelyClientTask,
         TimelyClientUser
      DEF ProgramStep
    <2> QED BY <2>1, LivelyStep
  <1>2. ASSUME NEW m \in net, m.to = "client", NetworkLoses(m)
        PROVE  PingInv'
    <2>1. net' = net \ {m} /\ UNCHANGED <<serverVars, clientVars>>
      BY <1>2 DEF NetworkLoses, LosePacket
    <2>2. MapsMove /\ ClientsMove
      BY <2>1, MapsStay, ClientsStay DEF serverVars
    <2>3. \A c \in Clients, i \in SessionIds : ToServer(c, "PING", i) # m
      BY <1>2 DEF ToServer
    <2>4. PacketsMove
      BY <2>1, <2>3 DEF PacketsMove
    <2> QED BY <2>2, <2>4, LivelyStep
  <1>3. CASE Quiet /\ Tick
    BY <1>3, LivelyTick
  <1>4. CASE UNCHANGED vars
    <2>1. UNCHANGED <<net, serverVars, clientVars>>
      BY <1>4 DEF vars
    <2>2. MapsMove /\ ClientsMove
      BY <2>1, MapsStay, ClientsStay DEF serverVars
    <2>3. PacketsMove
      BY <2>1 DEF PacketsMove
    <2> QED BY <2>2, <2>3, LivelyStep
  <1> QED BY <1>1, <1>2, <1>3, <1>4 DEF TimelyNext

\* The ping interval and the period of the client's task leave the server no time to find a
\* session idle: 5 + 2 <= 120 seconds in kcp_constants.h.
PingsAreInTime ==
    kClientPingInterval + kClientRunPeriodicTaskInterval <= kServerSessionIdleSeconds

LEMMA LivelyIsAlive ==
    ASSUME TypeOK, IdleMapMatchesSessionMap, PingInv, PingsAreInTime
    PROVE  PingsKeepSessionAlive
  <1> DEFINE P == kClientPingInterval
             T == kClientRunPeriodicTaskInterval
             S == kServerSessionIdleSeconds
  <1>0. P \in Nat /\ T \in Nat /\ S \in Nat /\ P + T <= S
    BY Ages DEF PingsAreInTime
  <1>1. ASSUME NEW c \in Clients, Open(c), session_map[session[c].session_id] # None
        PROVE  idle_session_map[session[c].session_id] < S
    <2> DEFINE i == session[c].session_id
               d == idle_session_map[i]
               t == client_task_elapsed[c]
               p == last_ping_time[c]
    <2>1. i \in SessionIds /\ d \in Nat /\ t \in 0..T /\ p \in 0..P
      <3>1. p # None
        BY <1>1 DEF PingInv, PingsAreTimed
      <3>2. i \in SessionIds /\ t \in 0..T /\ p \in 0..P
        BY <1>1, <3>1, Ages DEF Open
      <3>3. d \in 0..S
        BY <1>1, <3>2, Ages
      <3> QED BY <1>0, <3>2, <3>3
    <2>2. Lively(c, i)
      BY <1>1 DEF PingInv, SessionsAreLively
    <2>3. IF p < P THEN d <= p ELSE d < P + t \/ d < P + T
      BY <2>2 DEF Lively
    <2>4. d < S
      <3> HIDE DEF d, t, p, P, T, S, i
      <3> QED BY <1>0, <2>1, <2>3
    <2> QED BY <2>4
  <1> QED BY <1>1 DEF PingsKeepSessionAlive, Open

\* A timely system is a system.
LEMMA TimelyIsSpec == TimelySpec => Spec
  <1>1. [TimelyNext]_vars => [Next]_vars
    BY DEF TimelyNext, Next
  <1> QED BY <1>1, PTL DEF TimelySpec, Spec

\* In a timely network, with any number of clients, and as long as the server never draws the
\* same id for two of them, it never finds a session idle that a client holds open.
THEOREM PingsKeepSessionsAlive ==
    ASSUME PingsAreInTime
    PROVE  TimelySpec /\ []OffersAreDistinct => []PingsKeepSessionAlive
  <1>1. Init => PendingIdsAreFree /\ PingInv
    <2> SUFFICES ASSUME Init PROVE PendingIdsAreFree /\ PingInv
      OBVIOUS
    <2>1. /\ net = {} /\ \A c \in Clients : pending_session_map[c] = None /\ session[c] = None
      BY DEF Init, ServerInit, ClientInit
    <2>2. PendingIdsAreFree /\ OffersAreFresh
      BY <2>1 DEF PendingIdsAreFree, OffersAreFresh
    <2>3. \A c \in Clients : ~Open(c)
      BY <2>1 DEF Open
    <2> QED BY <2>2, <2>3 DEF PingInv, PingsAreTimed, SessionsAreLively
  <1>2. TypeOK /\ OfferedInv /\ OffersAreDistinct /\ PendingIdsAreFree /\ [Next]_vars
            => PendingIdsAreFree'
    BY PendingIdsStep
  <1>3. (/\ TypeOK /\ TypeOK' /\ IdleMapMatchesSessionMap /\ IdleMapMatchesSessionMap'
         /\ ClientStateMatchesPointers /\ PendingIdsAreFree /\ PingInv /\ [TimelyNext]_vars)
            => PingInv'
    BY PingStep
  <1>4. TypeOK /\ IdleMapMatchesSessionMap /\ PingInv => PingsKeepSessionAlive
    BY LivelyIsAlive
  <1>5. Spec => []TypeOK /\ []IdleMapMatchesSessionMap /\ []ClientStateMatchesPointers /\ []OfferedInv
    BY TypeCorrect, IdleMapCorrect, ClientStateCorrect, OfferedInvariant, PTL
  <1> QED BY <1>1, <1>2, <1>3, <1>4, <1>5, TimelyIsSpec, PTL DEF TimelySpec, Spec

\* For a lone client no draw is a second one.
THEOREM LoneClientStaysAlive ==
    ASSUME PingsAreInTime, \A c, d \in Clients : c = d
    PROVE  TimelySpec => []PingsKeepSessionAlive
  <1>1. OffersAreDistinct
    BY DEF OffersAreDistinct
  <1>2. TimelySpec /\ []OffersAreDistinct => []PingsKeepSessionAlive
    BY PingsKeepSessionsAlive
  <1> QED BY <1>1, <1>2, PTL
===============================================================================
