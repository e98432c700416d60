------------------------------ MODULE MCTCPRelay ------------------------------
EXTENDS TCPRelay, TLC

CONSTANTS c1, c2

\* c1: an unknown address type, then a host of one byte, a port, a payload of
\* two. c2: an empty host and one byte of payload, to share the resolver.
MCRequest(c) == IF c = c1 THEN <<9, 3, 1, 7, 0, 5, 11, 12>> ELSE <<3, 0, 0, 6, 8>>
MCResponse(c) == IF c = c1 THEN <<13, 14>> ELSE <<>>
MCReadSizes(c) == IF c = c1 THEN 1..10 ELSE {7}
MCKeyStream(iv, i) == 3 * iv[1] + iv[2] + 5 * i
===============================================================================
