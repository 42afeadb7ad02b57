-------------------------- MODULE MC_SynchConsole --------------------------
(* An instance of SynchConsole for TLC. *)
EXTENDS SynchConsole

CONSTANTS a, b, x, null

MCThread == {a, b}
MCData == {x}
=============================================================================
