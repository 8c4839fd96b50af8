-------------------------- MODULE MCGatewaySession --------------------------
(* TLC instance of GatewaySession. *)
EXTENDS GatewaySession, TLC

\* Sockets of the gateway are interchangeable, and so are callers of send().
Symmetry == Permutations(Conns \ Foreign) \cup Permutations(Senders)
=============================================================================
