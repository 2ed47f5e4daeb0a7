--------------------------- MODULE MCSessionLayer ---------------------------
(* Small instances of the session layer for TLC.                            *)
EXTENDS SessionLayer

CONSTANTS c1, c2
=============================================================================
