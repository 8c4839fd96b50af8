------------------------------ MODULE MCControl ------------------------------
(* A panel's pages, a lamp, a switch and a cover, for TLC.                 *)
EXTENDS Control, TLC

CONSTANTS lamp, switch, cover

MCOffered ==
    {[kind |-> "dimmer", target |-> lamp, leftover |-> None, colour |-> TRUE],
     [kind |-> "shade", target |-> cover, leftover |-> switch, colour |-> FALSE],
     [kind |-> "shade", target |-> None, leftover |-> lamp, colour |-> FALSE]}

MCElsewhere == (lamp :> {0, 77, Unavailable}) @@ (switch :> {255}) @@ (cover :> {40})
=============================================================================
