----------------------------- MODULE RelayRequest -----------------------------
(***************************************************************************)
(* ServerConnMeta::ParseRequest (src/tcprelay/tunnel.h): the request at    *)
(* the head of a client's decrypted stream, and what it must mean.         *)
(***************************************************************************)
EXTENDS Naturals, Sequences

ADDR_TYPE_IPV4 == 1
ADDR_TYPE_HOST == 3
ADDR_TYPE_IPV6 == 4

CONSTANT PortLen      \* sizeof(uint16_t)
ASSUME PortLenAssumption == PortLen \in Nat \ {0}

\* The parser before the first byte: buf is what Decrypt appended, need the
\* local need_bytes, and result the value the loop returns, once it does.
ParserStart(buf) ==
  [state |-> "STATE_REQ_ADDR_TYPE", buf |-> buf, need |-> 0, len |-> 0,
   host |-> <<>>, port |-> <<>>, result |-> "none"]

Take(p, n) == [p EXCEPT !.buf = SubSeq(@, n + 1, Len(@))]

\* An address type that is neither known nor unsupported leaves the state as
\* it is, and the next byte is read as an address type.
ReadAddrType(p) ==
  LET q == Take(p, 1) IN
  CASE p.buf[1] = ADDR_TYPE_HOST -> [q EXCEPT !.state = "STATE_REQ_DST_ADDR_VARLEN"]
    [] p.buf[1] \in {ADDR_TYPE_IPV4, ADDR_TYPE_IPV6} -> [q EXCEPT !.result = "false"]
    [] OTHER -> q

\* A faulty ReadAddrLen: peekInt8 for readInt8, and the length is read as the first byte of the host.
ReadAddrLenPeeks(p) ==
  [p EXCEPT !.len = p.buf[1], !.need = p.buf[1], !.state = "STATE_REQ_DST_ADDR"]

ReadAddrLen(p) ==
  [Take(p, 1) EXCEPT !.len = p.buf[1], !.need = p.buf[1], !.state = "STATE_REQ_DST_ADDR"]

ReadAddr(p) ==
  [Take(p, p.len) EXCEPT !.host = SubSeq(p.buf, 1, p.len), !.need = PortLen,
                         !.state = "STATE_REQ_DST_PORT"]

ReadPort(p) ==
  [Take(p, PortLen) EXCEPT !.port = SubSeq(p.buf, 1, PortLen), !.result = "true",
                           !.state = "STATE_REQ_DONE"]

\* One turn of the loop. It ends, with false, unless more than need_bytes
\* bytes are readable.
ParseStep(p) ==
  IF p.result # "none" THEN p
  ELSE IF ~(Len(p.buf) > p.need) THEN [p EXCEPT !.result = "false"]
  ELSE CASE p.state = "STATE_REQ_ADDR_TYPE" -> ReadAddrType(p)
         [] p.state = "STATE_REQ_DST_ADDR_VARLEN" -> ReadAddrLen(p)
         [] p.state = "STATE_REQ_DST_ADDR" -> ReadAddr(p)
         [] p.state = "STATE_REQ_DST_PORT" -> ReadPort(p)

\* Every turn but the one that reads an empty host takes a byte: the loop has
\* returned after Len(buf) + 2 of them.
ParseRequest(buf) ==
  LET parser[n \in 0..(Len(buf) + 2)] ==
        IF n = 0 THEN ParserStart(buf) ELSE ParseStep(parser[n - 1])
  IN  parser[Len(buf) + 2]

-------------------------------------------------------------------------------
\* What the peer's stream means, said without the parser: the first byte that
\* names an address type, the host its length announces, the port, and then
\* the payload. A stream with no such prefix asks for nothing.
HasRequest(s, t) ==
  /\ t \in DOMAIN s /\ s[t] = ADDR_TYPE_HOST
  /\ \A i \in 1..(t - 1) : s[i] \notin {ADDR_TYPE_IPV4, ADDR_TYPE_HOST, ADDR_TYPE_IPV6}
  /\ t + 1 \in DOMAIN s
  /\ t + 1 + s[t + 1] + PortLen <= Len(s)

RequestHost(s, t) == SubSeq(s, t + 2, t + 1 + s[t + 1])
RequestPort(s, t) == SubSeq(s, t + 2 + s[t + 1], t + 1 + s[t + 1] + PortLen)
RequestPayload(s, t) == SubSeq(s, t + 2 + s[t + 1] + PortLen, Len(s))

\* The payload that follows the request of a stream.
Payload(s) ==
  IF \E t \in DOMAIN s : HasRequest(s, t)
  THEN RequestPayload(s, CHOOSE t \in DOMAIN s : HasRequest(s, t))
  ELSE <<>>
===============================================================================
