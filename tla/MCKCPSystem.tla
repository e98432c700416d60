------------------------------ MODULE MCKCPSystem ------------------------------
(* KCPSystem for TLC.  In the runs of safety properties session ids are          *)
(* interchangeable, and so are addresses whose clients all reconnect.            *)
EXTENDS KCPSystem, TLC

IdSymmetry == Permutations(SessionIds)
AddressSymmetry == Permutations(Clients)
===============================================================================
