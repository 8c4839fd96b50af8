------------------------------ MODULE MCPages ------------------------------
(* TLC instance of Pages: the first pages of two addresses, which a        *)
(* permutation of the pages only renumbers.                                *)
EXTENDS Pages, TLC

CONSTANTS p1, q1

MCAddressOf(p) == IF p = q1 THEN 2 ELSE 1

Symmetry == Permutations(Page)
=============================================================================
