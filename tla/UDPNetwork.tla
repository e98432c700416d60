------------------------------ MODULE UDPNetwork ------------------------------
(***************************************************************************)
(* The UDP network below kcp/udp_socket.cc: it may lose, duplicate, delay  *)
(* and reorder packets.  A packet whose checksum ReadPublicHeader rejects, *)
(* or that the sender's socket drops because it is full, is a lost one.    *)
(***************************************************************************)
EXTENDS Naturals, FiniteSets

CONSTANT MaxInFlight   \* bound: how many distinct packets the network holds

ASSUME NetworkAssumption ==
    /\ MaxInFlight \in Nat
    /\ MaxInFlight >= 2

VARIABLE net           \* the set of packets in flight

\* What the network may hold after `sent` joins the packets `held`: when it is
\* full, it sheds some of the packets it held, as a router's queue does, and when
\* even `sent` is too much for it, some of those.
Carry(held, sent) ==
    {kept \in SUBSET (held \cup sent) :
        /\ Cardinality(kept) <= MaxInFlight
        /\ kept = held \cup sent \/ Cardinality(kept) = MaxInFlight
        /\ sent \subseteq kept \/ kept \subseteq sent}

\* A step that sends the packets `sent` and receives none.
Transmit(sent) == net' \in Carry(net, sent)

\* A step that receives m, of which the network may keep a duplicate, and
\* answers with the packets `sent`.
Receive(m, sent) ==
    /\ m \in net
    /\ \E held \in {net, net \ {m}} : net' \in Carry(held, sent)

\* Packet m is lost, or reaches a socket that is closed, or fails its checksum.
LosePacket(m) ==
    /\ m \in net
    /\ net' = net \ {m}
===============================================================================
