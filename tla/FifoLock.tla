------------------------------- MODULE FifoLock -------------------------------
(***************************************************************************)
(* What class Lock promises its callers (synch.h): at most one thread      *)
(* holds a lock, and the threads that have to wait get it in the order in  *)
(* which they asked, with nobody slipping in between a release and the     *)
(* next grant.  There is no scheduler here and no owner field: a caller    *)
(* holds a lock from the return of Acquire to its call of Release.         *)
(***************************************************************************)
EXTENDS Sequences, Functions

CONSTANTS Thread, Lock, NULL

VARIABLES
    holder,     \* of each lock, or NULL
    waiting     \* the callers of Acquire that wait for each lock, in order

vars == <<holder, waiting>>

Init ==
    /\ holder = [l \in Lock |-> NULL]
    /\ waiting = [l \in Lock |-> <<>>]

\* Acquire returns at once.
Take(t, l) ==
    /\ holder[l] = NULL
    /\ waiting[l] = <<>>
    /\ holder' = [holder EXCEPT ![l] = t]
    /\ UNCHANGED waiting

\* Acquire has to wait behind the holder or behind earlier callers.
Ask(t, l) ==
    /\ holder[l] # t
    /\ t \notin Range(waiting[l])
    /\ holder[l] # NULL \/ waiting[l] # <<>>
    /\ waiting' = [waiting EXCEPT ![l] = Append(@, t)]
    /\ UNCHANGED holder

\* Acquire returns to the caller that has waited longest.
Grant(l) ==
    /\ holder[l] = NULL
    /\ waiting[l] # <<>>
    /\ holder' = [holder EXCEPT ![l] = Head(waiting[l])]
    /\ waiting' = [waiting EXCEPT ![l] = Tail(@)]

Drop(t, l) ==
    /\ holder[l] = t
    /\ holder' = [holder EXCEPT ![l] = NULL]
    /\ UNCHANGED waiting

Next ==
    \E l \in Lock :
        \/ \E t \in Thread : Take(t, l) \/ Ask(t, l) \/ Drop(t, l)
        \/ Grant(l)

Spec == Init /\ [][Next]_vars

\* A lock that is let go does not stay unused while somebody waits for it.
FairSpec == Spec /\ \A l \in Lock : WF_vars(Grant(l))
===============================================================================
