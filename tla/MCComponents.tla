---------------------------- MODULE MCComponents ----------------------------
(* An address with two pages, for TLC.                                     *)
EXTENDS Components

CONSTANT panel

MCPage == {<<panel, 1>>, <<panel, 2>>}
=============================================================================
