------------------------------ MODULE MCBuffer ------------------------------
(* Small instances of the buffer for TLC.                                   *)
EXTENDS Buffer

(* Byte strings of up to three bytes: with a NUL inside, at the end, alone, *)
(* and without one.                                                         *)
MCInputs == UNION {[1 .. n -> Byte] : n \in 0 .. 3}
=============================================================================
