------------------------------ MODULE MCGateway -----------------------------
(* Symmetry of the clients and of the serial numbers of Gateway.            *)
EXTENDS Gateway, TLC

Keys == Permutations(Client) \cup Permutations(Serial)
=============================================================================
