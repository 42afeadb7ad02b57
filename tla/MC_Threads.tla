----------------------------- MODULE MC_Threads -----------------------------
(* Instances of Threads for TLC. *)
EXTENDS Threads, TLC

CONSTANTS main, a, b, c, disk, sem, lock, null

MCThread == {main, a, b}
MCFour == {main, a, b, c}
MCOneLock == {lock}
MCDiskOnly == {disk}
MCDiskSem == {disk, sem}
MCInitialValue == [s \in Semaphore |-> 0]
MCForked == Permutations({a, b, c})
=============================================================================
