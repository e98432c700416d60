------------------------------- MODULE KCPPacket -------------------------------
(***************************************************************************)
(* src/kcp/kcp_packets.cc: the public header in front of every datagram,   *)
(*     checksum (4 bytes) | packet_type (1) | session_id (4)               *)
(* both words little-endian, the checksum over all that follows it.  A     *)
(* byte is a digit 0..Base-1 (Base is 256 in the code), so that the words  *)
(* keep their length and the arithmetic its wrap-around on small numbers.  *)
(***************************************************************************)
EXTENDS Integers, Sequences

CONSTANTS Base,        \* values of a byte
          AdlerModulus \* 65521 in zlib: the largest prime below half a word

ASSUME PacketAssumption ==
    /\ Base \in Nat /\ Base > 6
    /\ AdlerModulus \in Base..(Base * Base)

PacketTypes == <<"SYN", "ACK", "RST", "PING", "PONG", "DATA">>
PacketType(b) == IF b < Len(PacketTypes) THEN PacketTypes[b + 1] ELSE "unknown"
TypeByte(type) == CHOOSE b \in 0..5 : PacketType(b) = type

WordLength == 4                                \* sizeof(uint32_t)
kPublicHeaderLength == WordLength + 1 + WordLength

\* htole32 and le32toh.
htole32(n) ==
    LET n1 == n \div Base
        n2 == n1 \div Base
        n3 == n2 \div Base
    IN <<n % Base, n1 % Base, n2 % Base, n3 % Base>>
le32toh(s) == s[1] + Base * (s[2] + Base * (s[3] + Base * s[4]))

\* adler32(1, ...): the sum a of the bytes, and the sum b of all values of a.
AdlerStep(sums, byte) ==
    LET a == (sums.a + byte) % AdlerModulus
    IN [a |-> a, b |-> (sums.b + a) % AdlerModulus]
AdlerSums(s) ==
    LET sums[n \in 0..Len(s)] ==
            IF n = 0 THEN [a |-> 1, b |-> 0] ELSE AdlerStep(sums[n - 1], s[n])
    IN sums
adler32(s) == AdlerSums(s)[Len(s)].b * (Base * Base) + AdlerSums(s)[Len(s)].a

-------------------------------------------------------------------------------
(* Writing: buf is the caller's buffer, whose first bytes are the header.  *)

After(buf, n) == SubSeq(buf, n + 1, Len(buf))

WriteTo(header, buf) ==
    htole32(header.checksum) \o <<header.packet_type>> \o htole32(header.session_id)
        \o After(buf, kPublicHeaderLength)

WriteChecksum(header, buf) == htole32(header.checksum) \o After(buf, WordLength)

\* KCPPendingSendPacket::WritePublicHeader, of a buffer that can hold the header:
\* the session's head room and SendPacket's array always can.
WritePublicHeader(type, id, buf) ==
    LET header == [checksum |-> 0, packet_type |-> TypeByte(type), session_id |-> id]
        written == WriteTo(header, buf)
    IN WriteChecksum([header EXCEPT !.checksum = adler32(After(written, WordLength))], written)

-------------------------------------------------------------------------------
(* Reading: a received packet is its data and the position pos_.           *)

Received(data) == [data |-> data, pos |-> 0]
RemainingData(p) == After(p.data, p.pos)
CanRead(p, n) == n <= Len(p.data) - p.pos

\* The n bytes ReadBytes copies, and the packet with pos_ behind them.
Peeked(p, n) == SubSeq(p.data, p.pos + 1, p.pos + n)
ReadBytes(p, n) == [p EXCEPT !.pos = @ + n]

\* A copy of the whole packet, taken for one of what is left of it.
Clone(p) == Received(p.data)

\* CloneFromRemainingData: the new packet starts at its first byte.
CloneFromRemainingData(p) == Received(RemainingData(p))

NoHeader == [packet_type |-> "none", session_id |-> 0]

\* KCPPublicHeader::ReadFrom looks at the length only; HandleError uses it.
ReadFrom(buf) ==
    IF Len(buf) < kPublicHeaderLength THEN NoHeader
    ELSE [packet_type |-> PacketType(buf[WordLength + 1]),
          session_id |-> le32toh(SubSeq(buf, WordLength + 2, kPublicHeaderLength))]

\* A faulty ReadPublicHeader that does not compare the checksums.
ReadPublicHeaderUnchecked(p) ==
    IF ~CanRead(p, kPublicHeaderLength)
    THEN [code |-> "INVALID_LENGTH", header |-> NoHeader, packet |-> p]
    ELSE [code |-> "SUCCESS", header |-> ReadFrom(p.data),
          packet |-> ReadBytes(p, kPublicHeaderLength)]

\* ReadPublicHeader: checksum, type and id are read one behind the other.
ReadPublicHeader(p) ==
    IF ~CanRead(p, kPublicHeaderLength)
    THEN [code |-> "INVALID_LENGTH", header |-> NoHeader, packet |-> p]
    ELSE LET afterSum  == ReadBytes(p, WordLength)
             afterType == ReadBytes(afterSum, 1)
             afterId   == ReadBytes(afterType, WordLength)
         IN IF le32toh(Peeked(p, WordLength)) # adler32(After(p.data, WordLength))
            THEN [code |-> "INVALID_CHECKSUM", header |-> NoHeader, packet |-> afterId]
            ELSE [code |-> "SUCCESS",
                  header |-> [packet_type |-> PacketType(Peeked(afterSum, 1)[1]),
                              session_id |-> le32toh(Peeked(afterType, WordLength))],
                  packet |-> afterId]
===============================================================================
