------------------------------ MODULE MCNginx ------------------------------
(* Small instances of the nginx script for TLC.                             *)
EXTENDS NginxConfig, TLC

CONSTANTS good1, good2, bad, quoting, j1, j2

NginxSymmetry == Permutations(Jobs) \cup Permutations(Good)
=============================================================================
