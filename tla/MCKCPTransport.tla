---------------------------- MODULE MCKCPTransport ----------------------------
(* Two clients, one of which changes its address, and two worker loops.    *)
EXTENDS KCPTransport

CONSTANTS addr1, addr2

MCArrivals ==
    {[type |-> "ACK", id |-> 1, from |-> addr1], [type |-> "DATA", id |-> 1, from |-> addr2],
     [type |-> "RST", id |-> 1, from |-> addr1], [type |-> "ACK", id |-> 2, from |-> addr2]}
MCOddArrivals == {[type |-> "DATA", id |-> 1, from |-> addr2]}
===============================================================================
