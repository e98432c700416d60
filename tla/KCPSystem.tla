------------------------------- MODULE KCPSystem -------------------------------
(***************************************************************************)
(* The KCP clients and the KCP server over the UDP network: how sessions   *)
(* are opened, kept alive, lost and reclaimed, and how they follow a       *)
(* client that changes its address.                                        *)
(***************************************************************************)
EXTENDS KCPServer, KCPClient

CONSTANT NumPrograms   \* how many client programs run; the other addresses are free

VARIABLES
    hosts,        \* the addresses behind which a client program runs now
    issued        \* history: for every address, the ids the server offered to it,
                  \* or had offered to a client by the time it moved there

vars == <<net, serverVars, clientVars, hosts, issued>>

TypeOK ==
    /\ net \in SUBSET Packets
    /\ ServerTypeOK
    /\ ClientTypeOK
    /\ hosts \in SUBSET Clients
    /\ issued \in [Clients -> SUBSET SessionIds]

Init ==
    /\ net = {}
    /\ ServerInit
    /\ ClientInit
    /\ hosts \in {some \in SUBSET Clients : Cardinality(some) = NumPrograms}
    /\ issued = [c \in Clients |-> {}]

\* The id that the handshake of c is waiting for becomes one offered to c.
RecordIssued ==
    issued' = [c \in Clients |->
        IF pending_session_map'[c] = None THEN issued[c]
        ELSE issued[c] \cup {pending_session_map'[c].session_id}]

-------------------------------------------------------------------------------

ServerReceives(m) ==
    /\ ServerProcessPacket(m)
    /\ RecordIssued
    /\ UNCHANGED <<clientVars, hosts>>

ServerTask == ServerRunPeriodicTask /\ UNCHANGED <<clientVars, hosts, issued>>

ServerSessionStep ==
    /\ \/ \E i \in SessionIds : ServerSessionCloses(i)
       \/ \E s \in closing : ServerCloseRuns(s)
       \/ \E i \in SessionIds, c \in Clients : ServerSessionOutput(i, c)
    /\ UNCHANGED <<clientVars, hosts, issued>>

ClientReceives(m) == ClientProcessPacket(m) /\ UNCHANGED <<serverVars, hosts, issued>>

ClientTask(c) == ClientRunPeriodicTask(c) /\ UNCHANGED <<serverVars, hosts, issued>>

ClientReconnects(c) == ReconnectTimer(c) /\ UNCHANGED <<serverVars, hosts, issued>>

\* What the application does with client c and its session.
ClientUser(c) ==
    /\ \/ c \in hosts /\ Connect(c)
       \/ Disconnect(c) \/ ClientSessionCloses(c) \/ ClientSessionOutput(c)
    /\ UNCHANGED <<serverVars, hosts, issued>>

NetworkLoses(m) == LosePacket(m) /\ UNCHANGED <<serverVars, clientVars, hosts, issued>>

Tick == ServerTick /\ ClientTick /\ UNCHANGED <<net, hosts, issued>>

\* Address c's client is found at d, and what was at d at c.
Exchanged(f, c, d) == [f EXCEPT ![c] = f[d], ![d] = f[c]]

\* The host of the client at c gets the free address d: it joins another network,
\* or a NAT on the way rebinds its port.  The program notices nothing, and all it
\* holds, its session included, is from now on behind d.  (ReconnectEnabled goes
\* by addresses, so a client keeps to those of its kind.)
AddressChanges(c, d) ==
    /\ c \in hosts /\ d \notin hosts
    /\ c \in ReconnectEnabled <=> d \in ReconnectEnabled
    /\ hosts' = (hosts \ {c}) \cup {d}
    /\ state' = Exchanged(state, c, d)
    /\ pending_session' = Exchanged(pending_session, c, d)
    /\ session' = Exchanged(session, c, d)
    /\ last_received_time' = Exchanged(last_received_time, c, d)
    /\ last_ping_time' = Exchanged(last_ping_time, c, d)
    /\ socket' = Exchanged(socket, c, d)
    /\ reconnect_timer_registered' = Exchanged(reconnect_timer_registered, c, d)
    /\ client_task_elapsed' = Exchanged(client_task_elapsed, c, d)
    /\ issued' = [issued EXCEPT ![d] = @ \cup issued[c]]
    /\ UNCHANGED <<net, serverVars>>

\* The steps of the two programs.
ProgramStep ==
    \/ \E m \in net : ServerReceives(m) \/ ClientReceives(m)
    \/ ServerTask
    \/ ServerSessionStep
    \/ \E c \in Clients : ClientTask(c) \/ ClientReconnects(c) \/ ClientUser(c)

Next ==
    \/ ProgramStep
    \/ \E m \in net : NetworkLoses(m)
    \/ Tick
    \/ \E c, d \in Clients : AddressChanges(c, d)

Spec == Init /\ [][Next]_vars

-------------------------------------------------------------------------------
(* A timely network: no packet is lost, no address changes, and before the  *)
(* clock moves on every packet has been handled and every timer that was    *)
(* due has run.                                                             *)

Quiet ==
    /\ net = {} /\ closing = {}
    /\ server_task_elapsed < kServerRunPeriodicTaskInterval
    /\ \A c \in Clients :
           /\ socket[c] => client_task_elapsed[c] < kClientRunPeriodicTaskInterval
           /\ ~reconnect_timer_registered[c]

\* A network that never fills up sheds no packet; one for a closed socket is lost.
TimelyNext ==
    \/ ProgramStep /\ Cardinality(net') < MaxInFlight
    \/ \E m \in net : m.to = "client" /\ ~socket[m.addr] /\ NetworkLoses(m)
    \/ Quiet /\ Tick

TimelySpec == Init /\ [][TimelyNext]_vars

-------------------------------------------------------------------------------
(* Fairness.  The event loops run what is due and the clock advances.  The  *)
(* network does not keep a packet forever, and does not lose every one of   *)
(* the PINGs and RSTs that are sent again and again.                        *)

LoopFairness ==
    /\ WF_vars(Tick)
    /\ WF_vars(ServerTask)
    /\ \A c \in Clients : WF_vars(ClientTask(c)) /\ WF_vars(ClientReconnects(c))

NetworkFairness ==
    /\ \A m \in Packets : WF_vars(NetworkLoses(m))
    /\ \A c \in Clients, i \in SessionIds :
           /\ SF_vars(ServerReceives(ToServer(c, "PING", i)))
           /\ SF_vars(ClientReceives(ToClient(c, "RST", i)))

FairSpec == Spec /\ LoopFairness /\ NetworkFairness

-------------------------------------------------------------------------------
(* Safety.                                                                 *)

\* Every session in session_map_ has its entry in idle_session_map_, and no
\* entry outlives its session: the branches of RunPeriodicTask and
\* ProcessPingPacket that log "idle session not exists" are never taken.
IdleMapMatchesSessionMap ==
    \A i \in SessionIds : session_map[i] = None <=> idle_session_map[i] = None

\* What the assertions of RunPeriodicTask and Disconnect say: state_ tells which of
\* pending_session_ and session_ is set, and a client without a socket has neither.
ClientStateMatchesPointers ==
    \A c \in Clients :
        /\ state[c] = "PENDING" <=> pending_session[c] # None
        /\ state[c] = "CONNECTED" <=> session[c] # None
        /\ ~socket[c] => state[c] = "CLOSED" /\ ~reconnect_timer_registered[c]

\* A client that reconnects is never stranded: whenever its socket is open and
\* it has neither a session nor a handshake, the reconnect timer is running; and
\* it never runs beside a session, so that it cannot fire into one.
ReconnectTimerArmed ==
    \A c \in ReconnectEnabled :
        socket[c] => (reconnect_timer_registered[c] <=> state[c] = "CLOSED")

\* However packets are lost, duplicated, delayed or reordered, and whenever a client
\* changes its address: a session, at either end, binds an address only to an id
\* that the server offered to that address, or had offered to the client that has
\* since moved there.  It is all that protects a session from a stranger, for the
\* server rebinds it to the sender of any DATA packet that carries its id
\* (peer_address_ = peer_address in KCPSession::ProcessPacket).
SessionsWereOffered ==
    /\ \A c \in Clients : session[c] # None => session[c].session_id \in issued[c]
    /\ \A i \in SessionIds :
           session_map[i] # None => i \in issued[session_map[i].peer]

\* Whichever handler drops a session (RST, idle, closed), its id starts its time
\* wait in that very step, unless it was in time wait all along.
DroppedIdsEnterTimeWait ==
    [][\A i \in SessionIds :
          (session_map[i] # None /\ session_map'[i] = None)
              => time_wait_session_map'[i] = 0 \/ time_wait_session_map[i] # None]_vars

-------------------------------------------------------------------------------
(* Liveness.                                                               *)

\* A handshake does not last: it succeeds, or the SYN retries run out.
HandshakeEnds ==
    \A c \in Clients : state[c] = "PENDING" ~> state[c] # "PENDING"

\* The client of a session that the server has dropped finds out: a PING for an
\* unknown session is answered with an RST.
HalfOpen(c, i) ==
    /\ session[c] # None
    /\ session[c].session_id = i
    /\ session_map[i] = None

HalfOpenIsDetected ==
    \A c \in Clients, i \in SessionIds : HalfOpen(c, i) ~> ~HalfOpen(c, i)

\* The server reclaims a session that no client uses any more.
Abandoned(i) ==
    /\ session_map[i] # None
    /\ \A c \in Clients : session[c] # None => session[c].session_id # i

AbandonedSessionIsReclaimed ==
    \A i \in SessionIds : Abandoned(i) ~> ~Abandoned(i)

\* A client that reconnects never gives up: as long as its user leaves the
\* socket open, it keeps starting handshakes.
ReconnectingClientRetries ==
    \A c \in ReconnectEnabled : <>[]socket[c] => []<>(state[c] # "CLOSED")

-------------------------------------------------------------------------------
(* Timing, in a timely network.                                            *)

\* The PINGs keep a session alive: the server never finds a session idle while
\* a client holds it.
PingsKeepSessionAlive ==
    \A c \in Clients :
        session[c] # None =>
            LET i == session[c].session_id IN
            session_map[i] # None =>
                \/ idle_session_map[i] < kServerSessionIdleSeconds
                \/ session[c].closed

-------------------------------------------------------------------------------
(* What the documentation claims and the code does not do.                 *)

\* kcp/README.md: an id is kept in time_wait_session_map_ so that a session set up
\* soon after does not mix with the old one.
NoSessionInTimeWait ==
    \A i \in SessionIds : session_map[i] # None => time_wait_session_map[i] = None

\* kcp/README.md: every connection has a unique session id.
SessionIdsAreUnique ==
    \A c, d \in Clients :
        (c # d /\ session[c] # None /\ session[d] # None)
            => session[c].session_id # session[d].session_id

\* kcp/README.md: the client resets a session when it has received nothing for
\* kClientSessionIdleSeconds; so no session younger than the ping interval (its
\* last_ping_time_ is its handshake) counts as silent.
YoungSessionIsNotSilent ==
    \A c \in Clients :
        state[c] = "CONNECTED" /\ last_ping_time[c] < kClientPingInterval
            => ~ReceiveTimedOut(c)
===============================================================================
