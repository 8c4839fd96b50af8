----------------------------- MODULE MCPresence -----------------------------
(* A panel with a keypad and a screen, and a second panel, for TLC.        *)
EXTENDS Presence

MCPanelOf(a) == IF a < 18 THEN "kitchen" ELSE "hall"
=============================================================================
