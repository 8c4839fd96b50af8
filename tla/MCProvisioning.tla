--------------------------- MODULE MCProvisioning ---------------------------
(* TLC instance of Provisioning: components of two panels. *)
EXTENDS Provisioning, TLC

CONSTANTS u1, u2, a1, a2, a3, panel1, panel2, t1, t2

MCPanelOf(u) == IF u = u1 THEN panel1 ELSE panel2
MCFirstAddress(u) == IF u = u1 THEN a1 ELSE a2

Symmetry == Permutations(Task)
=============================================================================
