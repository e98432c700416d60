------------------------------ MODULE KCPNetwork ------------------------------
(***************************************************************************)
(* The packets between the KCP clients and the KCP server.  A packet is    *)
(* its public header (kcp_packets.h): a type and a session id, with the    *)
(* client's address.  What the DATA packets carry is in KCPSession.        *)
(***************************************************************************)
EXTENDS UDPNetwork

CONSTANTS
    Clients,      \* the client addresses (ip:port); one KCPClient behind each
    SessionIds,   \* the session ids that URandom may return
    ZeroId,       \* the id 0, the "no session" id of SYN and RST packets
    None          \* an absent map entry, a null pointer, an invalid Timestamp

HeaderIds == SessionIds \cup {ZeroId}

\* The packets the two ends exchange.  A client's SYN carries the id 0 (the server
\* asserts it); the server's RST carries the id 0 unless it answers a PING.
Packets ==
    [to : {"server"}, addr : Clients, type : {"SYN"}, id : {ZeroId}]
    \cup [to : {"server"}, addr : Clients, type : {"ACK", "RST", "PING", "DATA"},
          id : SessionIds]
    \cup [to : {"client"}, addr : Clients, type : {"SYN", "PONG", "DATA"},
          id : SessionIds]
    \cup [to : {"client"}, addr : Clients, type : {"RST"}, id : HeaderIds]

ToServer(c, type, id) == [to |-> "server", addr |-> c, type |-> type, id |-> id]

ToClient(c, type, id) == [to |-> "client", addr |-> c, type |-> type, id |-> id]

\* How the age of a timestamp grows with the clock.  Only its comparison with
\* `limit` matters, so it saturates there.
Older(age, limit) ==
    IF age = None THEN None ELSE IF age < limit THEN age + 1 ELSE age
===============================================================================
