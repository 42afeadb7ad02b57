--------------------------- MODULE MC_ProcessTable ---------------------------
(* Instances of ProcessTable for TLC. *)
EXTENDS ProcessTable, TLC

CONSTANTS main, a, b, null

MCProc == {main, a, b}
MCExitCode == {0, 1}
MCChildren == Permutations({a, b})
==============================================================================
