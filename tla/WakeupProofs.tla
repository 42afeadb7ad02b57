---------------------------- MODULE WakeupProofs ----------------------------
(***************************************************************************)
(* Proofs about sleeping and waking in Threads: no wake-up is lost, Halt   *)
(* is reached only when nothing can run, and a finished thread is deleted  *)
(* once, by another thread, and never runs again.                          *)
(***************************************************************************)
EXTENDS LockProofs

-----------------------------------------------------------------------------
(* Sequences *)

\* Append adds one position, at the end, and keeps the others.
LEMMA AppendPositions ==
    ASSUME NEW S, NEW q \in Seq(S), NEW x \in S
    PROVE  /\ DOMAIN Append(q, x) = 1..(Len(q) + 1)
           /\ Len(Append(q, x)) = Len(q) + 1
           /\ \A k \in 1..Len(q) : Append(q, x)[k] = q[k]
           /\ Append(q, x)[Len(q) + 1] = x
OBVIOUS

-----------------------------------------------------------------------------
(* The carcass of a finished thread *)

\* Threads that Run has deleted or is about to delete.
Doomed == deleted \cup ({threadToBeDestroyed} \ {NULL})

\* The inductive core of CarcassUnreachable: the rest follows from Placed.
CarcassInv ==
    /\ threadToBeDestroyed \notin deleted
    /\ \A t \in Doomed : pc[t] = InFinish /\ status[t] = "BLOCKED"
    /\ currentThread \notin deleted

\* CarcassInv is strong enough.
LEMMA CarcassImplied == Placed /\ CarcassInv => CarcassUnreachable
<1> SUFFICES ASSUME TypeOK, ThreadPlacement, CarcassInv, NEW t \in Doomed
             PROVE  /\ pc[t] = InFinish
                    /\ status[t] = "BLOCKED"
                    /\ t \notin Range(readyList)
                    /\ \A o \in SynchObject : t \notin Range(queue[o])
  BY DEF CarcassUnreachable, CarcassInv, Placed, Doomed
<1>1. t \in Thread /\ pc[t] = InFinish /\ status[t] = "BLOCKED"
  BY DEF TypeOK, CarcassInv, Doomed
<1>2. InFinish.object \notin SynchObject
  BY Distinct, ThreadAssumption DEF SynchObject
<1> QED
  BY <1>1, <1>2 DEF ThreadPlacement

\* CarcassInv is inductive.
LEMMA CarcassStep == Placed /\ CarcassInv /\ [Next]_vars => CarcassInv'
<1> SUFFICES ASSUME TypeOK, ThreadPlacement, CarcassInv, [Next]_vars
             PROVE  CarcassInv'
  BY DEF Placed
<1> USE DEF carcassVars, lockVars, deviceVars, threadVars, Running, Switched
<1>0. /\ status \in [Thread -> ThreadStatus] /\ pc \in [Thread -> Continuation]
      /\ Doomed \subseteq Thread /\ NULL \notin Thread /\ NULL \notin deleted
      /\ currentThread \in Thread
  BY ThreadAssumption DEF TypeOK, Doomed
<1>1. \A t \in Doomed : pc[t] = InFinish /\ status[t] = "BLOCKED"
  BY DEF CarcassInv
\* A step in which the carcass stays, no doomed thread moves and the CPU goes
\* to nobody or to a ready thread.
<1>2. ASSUME UNCHANGED <<threadToBeDestroyed, deleted>>,
             \A t \in Doomed : UNCHANGED <<pc[t], status[t]>>,
             currentThread' = currentThread \/ status[currentThread'] = "READY"
      PROVE  CarcassInv'
  BY <1>0, <1>1, <1>2 DEF CarcassInv, Doomed
\* The same with the carcass deleted by the thread on the CPU.
<1>3. ASSUME DeleteCarcass, status[currentThread] = "RUNNING",
             \A t \in Doomed : UNCHANGED <<pc[t], status[t]>>,
             currentThread' = currentThread \/ status[currentThread'] = "READY"
      PROVE  CarcassInv'
  <2>1. deleted' = Doomed /\ threadToBeDestroyed' = NULL /\ Doomed' = Doomed
    BY <1>3 DEF DeleteCarcass, Doomed
  <2>2. currentThread' \notin Doomed
    BY <1>1, <1>3
  <2> QED
    BY <1>0, <1>1, <1>3, <2>1, <2>2 DEF CarcassInv
<1>4. ASSUME NEW t \in Thread, NEW w, Sleep(t, w), status[t] = "RUNNING"
      PROVE  /\ \A u \in Doomed : UNCHANGED <<pc[u], status[u]>>
             /\ currentThread' = currentThread \/ status[currentThread'] = "READY"
             /\ pc'[t] = w /\ status'[t] = "BLOCKED"
  <2>1. /\ pc' = [pc EXCEPT ![t] = w]
        /\ status'[t] = "BLOCKED"
        /\ \A u \in Thread \ {t} : status'[u] = "BLOCKED" <=> status[u] = "BLOCKED"
        /\ currentThread' = currentThread \/ status[currentThread'] = "READY"
    BY <1>4, SleepEffect
  <2> QED
    BY <1>0, <1>1, <1>4, <2>1
<1>5. ASSUME NEW t \in Thread, NEW child \in Thread, Fork(t, child)
      PROVE  CarcassInv'
  <2>1. \A u \in Doomed : UNCHANGED <<pc[u], status[u]>>
    BY <1>0, <1>1, <1>5 DEF Fork, ReadyToRun
  <2> QED
    BY <1>2, <1>5, <2>1 DEF Fork
<1>6. ASSUME NEW t \in Thread, Yield(t) PROVE CarcassInv'
  <2>1. /\ \A u \in Thread : status'[u] = "BLOCKED" <=> status[u] = "BLOCKED"
        /\ status[currentThread'] = "READY"
    BY <1>6, DispatchEffect
  <2>2. \A u \in Doomed : UNCHANGED <<pc[u], status[u]>>
    BY <1>0, <1>1, <1>6, <2>1 DEF Yield
  <2> QED
    BY <1>2, <1>6, <2>1, <2>2, Zenon DEF Yield
<1>7. ASSUME NEW t \in Thread, Finish(t) PROVE CarcassInv'
  <2>1. /\ threadToBeDestroyed' = t /\ UNCHANGED deleted
        /\ Sleep(t, InFinish) /\ status[t] = "RUNNING" /\ t = currentThread
    BY <1>7 DEF Finish
  <2>2. t \notin deleted
    BY <2>1 DEF CarcassInv
  <2>3. /\ \A u \in Doomed : UNCHANGED <<pc[u], status[u]>>
        /\ currentThread' = currentThread \/ status[currentThread'] = "READY"
        /\ pc'[t] = InFinish /\ status'[t] = "BLOCKED"
    BY <1>4, <2>1
  <2>4. Doomed' \subseteq Doomed \cup {t}
    BY <2>1 DEF Doomed
  <2>5. currentThread' \notin deleted
    BY <1>1, <2>1, <2>2, <2>3 DEF Doomed
  <2> QED
    BY <1>1, <2>1, <2>2, <2>3, <2>4, <2>5 DEF CarcassInv
<1>8. ASSUME NEW t \in Thread, StartThread(t) PROVE CarcassInv'
  <2>1. \A u \in Doomed : UNCHANGED <<pc[u], status[u]>>
    BY <1>0, <1>1, <1>8 DEF StartThread
  <2> QED
    BY <1>2, <1>8, <2>1 DEF StartThread
<1>9. ASSUME NEW t \in Thread,
             ResumeYield(t) \/ \E l \in Lock : ResumeAcquire(t, l)
      PROVE  CarcassInv'
  <2>1. /\ DeleteCarcass /\ status[t] = "RUNNING" /\ t = currentThread
        /\ pc' = [pc EXCEPT ![t] = InCaller]
        /\ UNCHANGED <<status, currentThread>>
    BY <1>9 DEF ResumeYield, ResumeAcquire
  <2>2. \A u \in Doomed : UNCHANGED <<pc[u], status[u]>>
    BY <1>0, <1>1, <2>1
  <2> QED
    BY <1>3, <2>1, <2>2
<1>10. ASSUME NEW t \in Thread, NEW s \in Semaphore, TryP(t, s),
              status[t] = "RUNNING"
       PROVE  /\ \A u \in Doomed : UNCHANGED <<pc[u], status[u]>>
              /\ currentThread' = currentThread \/ status[currentThread'] = "READY"
  <2>1. CASE Sleep(t, InP(s))
    BY <1>4, <1>10, <2>1
  <2>2. CASE /\ pc' = [pc EXCEPT ![t] = InCaller]
             /\ UNCHANGED <<status, currentThread>>
    BY <1>0, <1>1, <1>10, <2>2
  <2> QED
    BY <1>10, <2>1, <2>2 DEF TryP
<1>11. ASSUME NEW t \in Thread, NEW s \in Semaphore, P(t, s) PROVE CarcassInv'
  BY <1>2, <1>10, <1>11, Zenon DEF P
<1>12. ASSUME NEW t \in Thread, NEW s \in Semaphore, ResumeP(t, s)
       PROVE  CarcassInv'
  BY <1>3, <1>10, <1>12 DEF ResumeP
<1>13. ASSUME NEW s \in Semaphore, Signal(s),
              UNCHANGED <<threadToBeDestroyed, deleted, pc, currentThread>>
       PROVE  CarcassInv'
  <2>1. InP(s) # InFinish
    BY Distinct
  <2>2. \A u \in Doomed : UNCHANGED <<pc[u], status[u]>>
    BY <1>0, <1>1, <1>13, <2>1, SignalEffect, Zenon
  <2> QED
    BY <1>2, <1>13, <2>2
<1>14. ASSUME NEW t \in Thread, NEW s \in Semaphore, V(t, s) PROVE CarcassInv'
  BY <1>13, <1>14 DEF V
<1>15. ASSUME NEW d \in Device, DeviceInterrupt(d) PROVE CarcassInv'
  BY <1>13, <1>15, ThreadAssumption DEF DeviceInterrupt
<1>16. ASSUME NEW t \in Thread, NEW l \in Lock, AcquireFree(t, l) PROVE CarcassInv'
  BY <1>2, <1>16 DEF AcquireFree
<1>17. ASSUME NEW t \in Thread, NEW l \in Lock, AcquireBusy(t, l) PROVE CarcassInv'
  BY <1>2, <1>4, <1>17 DEF AcquireBusy
<1>18. ASSUME NEW t \in Thread, NEW l \in Lock, Release(t, l) PROVE CarcassInv'
  <2>1. /\ UNCHANGED <<threadToBeDestroyed, deleted, pc, currentThread>>
        /\ InAcquire(l) # InFinish
    BY <1>18, Distinct, Zenon DEF Release
  <2>2. CASE queue[l] = <<>>
    BY <1>2, <1>18, <2>1, <2>2, Zenon DEF Release
  <2>3. CASE queue[l] # <<>>
    <3>1. \A u \in Doomed : UNCHANGED <<pc[u], status[u]>>
      BY <1>0, <1>1, <1>18, <2>1, <2>3, ReleaseEffect, Zenon
    <3> QED
      BY <1>2, <2>1, <3>1, Zenon
  <2> QED
    BY <2>2, <2>3
<1>19. CASE WakeFromIdle
  <2>1. /\ \A u \in Thread : status'[u] = "BLOCKED" <=> status[u] = "BLOCKED"
        /\ status[currentThread'] = "READY"
    BY <1>19, DispatchEffect
  <2> QED
    BY <1>0, <1>1, <1>2, <1>19, <2>1, Zenon DEF WakeFromIdle
<1>20. ASSUME NEW t \in Thread, NEW d \in Device, Schedule(t, d) PROVE CarcassInv'
  BY <1>2, <1>20 DEF Schedule
<1>21. CASE Halt \/ UNCHANGED vars
  BY <1>2, <1>21 DEF Halt, vars
<1> QED
  BY <1>5, <1>6, <1>7, <1>8, <1>9, <1>11, <1>12, <1>14, <1>15, <1>16, <1>17,
     <1>18, <1>19, <1>20, <1>21 DEF Next, Resume, Call

\* A finished thread is deleted at most once, by another thread, and is never
\* dispatched or queued afterwards: the ASSERT of ~Thread holds.
THEOREM CarcassCorrect == Spec => []CarcassUnreachable
<1>1. Init => CarcassInv
  BY ThreadAssumption DEF Init, CarcassInv, Doomed
<1>2. Placed /\ CarcassInv /\ [Next]_vars => CarcassInv'
  BY CarcassStep
<1>3. Placed /\ CarcassInv => CarcassUnreachable
  BY CarcassImplied
<1> QED
  BY <1>1, <1>2, <1>3, PlacedInvariant, PTL DEF Spec

-----------------------------------------------------------------------------
(* The ready list is first-in first-out *)

\* The new list is the old one without its first m elements, with at most one
\* new thread behind them.
Shifted(m) ==
    \A k \in DOMAIN readyList' :
        \/ k + m \in DOMAIN readyList /\ readyList'[k] = readyList[k + m]
        \/ k = Len(readyList') /\ readyList'[k] \notin Range(readyList)

\* A shift puts nobody in front of a thread that was already listed.
LEMMA ShiftedIsFifo ==
    ASSUME TypeOK, TypeOK', NEW m \in {0, 1}, Shifted(m),
           NEW t \in Thread, t \in Range(readyList)
    PROVE  Ahead(t)' \subseteq Ahead(t)
<1>1. /\ DOMAIN readyList = 1..Len(readyList) /\ Len(readyList) \in Nat
      /\ DOMAIN readyList' = 1..Len(readyList') /\ Len(readyList') \in Nat
  BY DEF TypeOK
<1> SUFFICES ASSUME NEW k \in DOMAIN readyList', NEW n \in DOMAIN readyList',
                    k < n, readyList'[n] = t
             PROVE  readyList'[k] \in Ahead(t)
  BY DEF Ahead
<1>2. n + m \in DOMAIN readyList /\ readyList[n + m] = t
  BY DEF Shifted
<1>3. k # Len(readyList')
  BY <1>1
<1>4. k + m \in DOMAIN readyList /\ readyList'[k] = readyList[k + m]
  BY <1>3 DEF Shifted
<1>5. k + m < n + m
  BY <1>1
<1> QED
  BY <1>2, <1>4, <1>5, Zenon DEF Ahead

\* Scheduler::ReadyToRun shifts by nothing.
LEMMA AppendShifts ==
    ASSUME TypeOK, NEW x \in Thread, x \notin Range(readyList),
           readyList' = Append(readyList, x)
    PROVE  Shifted(0)
<1>1. readyList \in Seq(Thread)
  BY DEF TypeOK
<1>2. /\ DOMAIN readyList = 1..Len(readyList) /\ Len(readyList) \in Nat
      /\ DOMAIN readyList' = 1..(Len(readyList) + 1)
      /\ Len(readyList') = Len(readyList) + 1
      /\ \A k \in 1..Len(readyList) : readyList'[k] = readyList[k]
      /\ readyList'[Len(readyList) + 1] = x
  BY <1>1
<1> QED
  BY <1>2 DEF Shifted

\* Scheduler::FindNextToRun, also inside Thread::Yield, shifts by one.
LEMMA TailShifts ==
    ASSUME TypeOK, readyList # <<>>,
           \/ readyList' = Tail(readyList)
           \/ \E x \in Thread : /\ x \notin Range(readyList)
                                /\ readyList' = Append(Tail(readyList), x)
    PROVE  Shifted(1)
<1>1. readyList \in Seq(Thread)
  BY DEF TypeOK
<1>2. /\ DOMAIN readyList = 1..Len(readyList) /\ Len(readyList) \in Nat \ {0}
      /\ Tail(readyList) \in Seq(Thread)
      /\ Len(Tail(readyList)) = Len(readyList) - 1
      /\ DOMAIN Tail(readyList) = 1..(Len(readyList) - 1)
      /\ \A k \in 1..(Len(readyList) - 1) : Tail(readyList)[k] = readyList[k + 1]
  BY <1>1
<1>3. CASE readyList' = Tail(readyList)
  BY <1>2, <1>3 DEF Shifted
<1>4. ASSUME NEW x \in Thread, x \notin Range(readyList),
             readyList' = Append(Tail(readyList), x)
      PROVE  Shifted(1)
  <2>1. ASSUME NEW q \in Seq(Thread)
        PROVE  /\ DOMAIN Append(q, x) = 1..(Len(q) + 1)
               /\ Len(Append(q, x)) = Len(q) + 1
               /\ \A k \in 1..Len(q) : Append(q, x)[k] = q[k]
               /\ Append(q, x)[Len(q) + 1] = x
    BY AppendPositions, Zenon
  <2>2. /\ DOMAIN readyList' = 1..Len(readyList)
        /\ Len(readyList') = Len(readyList)
        /\ \A k \in 1..(Len(readyList) - 1) : readyList'[k] = Tail(readyList)[k]
        /\ readyList'[Len(readyList)] = x
    <3> DEFINE q == Tail(readyList)
    <3>1. q \in Seq(Thread) /\ Len(q) = Len(readyList) - 1
      BY <1>2, Zenon
    <3>2. /\ DOMAIN readyList' = 1..(Len(q) + 1)
          /\ Len(readyList') = Len(q) + 1
          /\ \A k \in 1..Len(q) : readyList'[k] = q[k]
          /\ readyList'[Len(q) + 1] = x
      BY <1>4, <2>1, <3>1, Zenon
    <3>3. Len(q) + 1 = Len(readyList)
      BY <1>2
    <3> HIDE DEF q
    <3> QED
      BY <3>1, <3>2, <3>3, Zenon DEF q
  <2> SUFFICES ASSUME NEW k \in DOMAIN readyList'
               PROVE  \/ k + 1 \in DOMAIN readyList /\ readyList'[k] = readyList[k + 1]
                      \/ k = Len(readyList') /\ readyList'[k] \notin Range(readyList)
    BY Zenon DEF Shifted
  <2>3. CASE k = Len(readyList)
    BY <1>4, <2>2, <2>3, Zenon
  <2>4. CASE k # Len(readyList)
    <3>1. k \in 1..(Len(readyList) - 1) /\ k + 1 \in 1..Len(readyList)
      <4>1. Len(readyList) \in Nat \ {0}
        BY <1>2, Zenon
      <4>2. k \in 1..Len(readyList)
        BY <2>2, Zenon
      <4> QED
        BY <2>4, <4>1, <4>2
    <3>2. readyList'[k] = Tail(readyList)[k]
      BY <2>2, <3>1, Zenon
    <3>3. Tail(readyList)[k] = readyList[k + 1]
      BY <1>2, <3>1
    <3>4. k + 1 \in DOMAIN readyList
      BY <1>2, <3>1, Zenon
    <3> QED
      BY <3>2, <3>3, <3>4, Zenon
  <2> QED
    BY <2>3, <2>4
<1> QED
  BY <1>3, <1>4

\* Every step shifts the ready list.
LEMMA StepShifts == Placed /\ [Next]_vars => Shifted(0) \/ Shifted(1)
<1> SUFFICES ASSUME TypeOK, ThreadPlacement, [Next]_vars
             PROVE  Shifted(0) \/ Shifted(1)
  BY DEF Placed
<1> USE DEF carcassVars, lockVars, deviceVars, threadVars, Running, Switched
<1>1. CASE UNCHANGED readyList
  <2>1. DOMAIN readyList = 1..Len(readyList) /\ Len(readyList) \in Nat
    BY DEF TypeOK
  <2> QED
    BY <1>1, <2>1 DEF Shifted
<1>2. ASSUME NEW t \in Thread, NEW child \in Thread, Fork(t, child) PROVE Shifted(0)
  <2>1. child \notin Range(readyList) /\ readyList' = Append(readyList, child)
    BY <1>2 DEF Fork, ReadyToRun, ThreadPlacement
  <2> QED
    BY <2>1, AppendShifts, Zenon
<1>3. ASSUME NEW t \in Thread, NEW w, Sleep(t, w) PROVE Shifted(0) \/ Shifted(1)
  BY <1>1, <1>3, TailShifts DEF Sleep, RunNext
<1>4. ASSUME NEW t \in Thread, Yield(t) PROVE Shifted(1)
  <2>1. /\ t \notin Range(readyList) /\ readyList # <<>>
        /\ readyList' = Append(Tail(readyList), t)
    BY <1>4, Zenon DEF Yield, ThreadPlacement
  <2> QED
    BY <2>1, TailShifts, Zenon
<1>5. ASSUME NEW s \in Semaphore, Signal(s) PROVE Shifted(0) \/ Shifted(1)
  <2>1. CASE queue[s] = <<>>
    BY <1>1, <1>5, <2>1, Zenon DEF Signal
  <2>2. CASE queue[s] # <<>>
    <3>1. Head(queue[s]) \in Thread /\ status[Head(queue[s])] = "BLOCKED"
      BY <1>5, <2>2, SignalEffect, Zenon
    <3>2. Head(queue[s]) \notin Range(readyList)
      BY <3>1, Zenon DEF ThreadPlacement
    <3> QED
      BY <1>5, <2>2, <3>1, <3>2, AppendShifts, Zenon DEF Signal, ReadyToRun
  <2> QED
    BY <2>1, <2>2
<1>6. ASSUME NEW t \in Thread, NEW l \in Lock, Release(t, l)
      PROVE  Shifted(0) \/ Shifted(1)
  <2>1. CASE queue[l] = <<>>
    BY <1>1, <1>6, <2>1, Zenon DEF Release
  <2>2. CASE queue[l] # <<>>
    <3>1. Head(queue[l]) \in Thread /\ status[Head(queue[l])] = "BLOCKED"
      BY <1>6, <2>2, ReleaseEffect, Zenon
    <3>2. Head(queue[l]) \notin Range(readyList)
      BY <3>1, Zenon DEF ThreadPlacement
    <3> QED
      BY <1>6, <2>2, <3>1, <3>2, AppendShifts, Zenon DEF Release, ReadyToRun
  <2> QED
    BY <2>1, <2>2, Zenon
<1>7. ASSUME NEW t \in Thread, NEW s \in Semaphore,
             P(t, s) \/ ResumeP(t, s) \/ V(t, s)
      PROVE  Shifted(0) \/ Shifted(1)
  <2>1. Sleep(t, InP(s)) \/ Signal(s) \/ UNCHANGED readyList
    BY <1>7 DEF P, ResumeP, V, TryP
  <2> QED
    BY <1>1, <1>3, <1>5, <2>1, Zenon
<1>8. ASSUME NEW t \in Thread, NEW l \in Lock,
             AcquireFree(t, l) \/ AcquireBusy(t, l) \/ ResumeAcquire(t, l)
      PROVE  Shifted(0) \/ Shifted(1)
  <2>1. Sleep(t, InAcquire(l)) \/ UNCHANGED readyList
    BY <1>8 DEF AcquireFree, AcquireBusy, ResumeAcquire
  <2> QED
    BY <1>1, <1>3, <2>1, Zenon
<1>9. ASSUME NEW t \in Thread,
             \/ Finish(t) \/ StartThread(t) \/ ResumeYield(t)
             \/ \E d \in Device : Schedule(t, d)
      PROVE  Shifted(0) \/ Shifted(1)
  <2>1. Sleep(t, InFinish) \/ UNCHANGED readyList
    BY <1>9, Zenon DEF Finish, StartThread, ResumeYield, Schedule
  <2> QED
    BY <1>1, <1>3, <2>1, Zenon
<1>10. ASSUME NEW d \in Device, DeviceInterrupt(d) PROVE Shifted(0) \/ Shifted(1)
  BY <1>5, <1>10, ThreadAssumption, Zenon DEF DeviceInterrupt
<1>11. CASE WakeFromIdle
  BY <1>11, TailShifts, Zenon DEF WakeFromIdle, RunNext
<1>12. CASE Halt \/ UNCHANGED vars
  BY <1>1, <1>12 DEF Halt, vars
<1> QED
  BY <1>2, <1>4, <1>6, <1>7, <1>8, <1>9, <1>10, <1>11, <1>12, Zenon
     DEF Next, Resume, Call

\* No thread overtakes another on the ready list.
THEOREM SchedulerIsFifo == Spec => ReadyFIFO
<1>1. Placed /\ Placed' /\ [Next]_vars =>
          [\A t \in Thread :
              t \in Range(readyList) /\ t \in Range(readyList)' =>
                  Ahead(t)' \subseteq Ahead(t)]_vars
  BY StepShifts, ShiftedIsFifo DEF Placed
<1> QED
  BY <1>1, PlacedInvariant, PTL DEF Spec, ReadyFIFO

-----------------------------------------------------------------------------
(* No wake-up is lost *)

INSTANCE FiniteSetTheorems

\* The set of woken threads is finite, so that it can be counted.
LEMMA WokenFinite ==
    \A s \in Semaphore : IsFiniteSet(Woken(s)) /\ Cardinality(Woken(s)) \in Nat
BY ThreadAssumption, FS_Subset, FS_CardinalityType, Zenon DEF Woken

\* What one step may do to the units and the woken threads of a semaphore.
LEMMA WakeupKept ==
    ASSUME TypeOK, NEW s \in Semaphore,
           queue[s] # <<>> => value[s] <= Cardinality(Woken(s)),
           \/ value'[s] = 0
           \/ value'[s] = value[s] /\ Woken(s)' = Woken(s) /\ UNCHANGED queue[s]
           \/ /\ value[s] > 0 /\ value'[s] = value[s] - 1 /\ UNCHANGED queue[s]
              /\ \E t \in Thread : Woken(s)' = Woken(s) \ {t}
           \/ queue[s] = <<>> /\ UNCHANGED queue[s]
           \/ /\ queue[s] # <<>> /\ value'[s] = value[s] + 1
              /\ \E t \in Thread : t \notin Woken(s) /\ Woken(s)' = Woken(s) \cup {t}
    PROVE  queue'[s] # <<>> => value'[s] <= Cardinality(Woken(s)')
<1>0. /\ IsFiniteSet(Woken(s)) /\ Cardinality(Woken(s)) \in Nat
      /\ value[s] \in Nat
  BY WokenFinite DEF TypeOK
<1>1. CASE value'[s] = 0
  <2>1. IsFiniteSet(Woken(s)')
    BY ThreadAssumption, FS_Subset, Zenon DEF Woken
  <2>2. Cardinality(Woken(s)') \in Nat
    BY <2>1, FS_CardinalityType
  <2> QED
    BY <1>1, <2>2
<1>2. CASE value'[s] = value[s] /\ Woken(s)' = Woken(s) /\ UNCHANGED queue[s]
  BY <1>2
<1>3. CASE /\ value[s] > 0 /\ value'[s] = value[s] - 1 /\ UNCHANGED queue[s]
           /\ \E t \in Thread : Woken(s)' = Woken(s) \ {t}
  <2>1. PICK t \in Thread : Woken(s)' = Woken(s) \ {t}
    BY <1>3
  <2>2. Cardinality(Woken(s)') =
            IF t \in Woken(s) THEN Cardinality(Woken(s)) - 1 ELSE Cardinality(Woken(s))
    BY <1>0, <2>1, FS_RemoveElement, Zenon
  <2> QED
    BY <1>0, <1>3, <2>2
<1>4. CASE queue[s] = <<>> /\ UNCHANGED queue[s]
  BY <1>4
<1>5. CASE /\ queue[s] # <<>> /\ value'[s] = value[s] + 1
           /\ \E t \in Thread : t \notin Woken(s) /\ Woken(s)' = Woken(s) \cup {t}
  <2>1. PICK t \in Thread : t \notin Woken(s) /\ Woken(s)' = Woken(s) \cup {t}
    BY <1>5
  <2>2. Cardinality(Woken(s)') = Cardinality(Woken(s)) + 1
    BY <1>0, <2>1, FS_AddElement, Zenon
  <2> QED
    BY <1>0, <1>5, <2>2
<1> QED
  BY <1>1, <1>2, <1>3, <1>4, <1>5, Zenon

\* NoLostWakeup is inductive on top of Placed.
LEMMA WakeupStep == Placed /\ NoLostWakeup /\ [Next]_vars => NoLostWakeup'
<1> SUFFICES ASSUME TypeOK, ThreadPlacement, OffCPU, NoLostWakeup, [Next]_vars
             PROVE  NoLostWakeup'
  BY DEF Placed
<1> USE DEF carcassVars, lockVars, deviceVars, threadVars, Running, Switched
<1>0. /\ status \in [Thread -> ThreadStatus] /\ pc \in [Thread -> Continuation]
      /\ value \in [Semaphore -> Nat] /\ queue \in [SynchObject -> Seq(Thread)]
      /\ \A s \in Semaphore : s \in SynchObject /\ s \notin Lock
  BY ThreadAssumption DEF TypeOK, SynchObject
<1>a. \A s \in Semaphore : queue[s] # <<>> => value[s] <= Cardinality(Woken(s))
  BY DEF NoLostWakeup
\* No semaphore is touched and no thread comes to be awake inside P.
<1>1. ASSUME UNCHANGED value, \A s \in Semaphore : UNCHANGED queue[s],
             \A s \in Semaphore, u \in Thread :
                (pc'[u] = InP(s) /\ status'[u] # "BLOCKED")
                    <=> (pc[u] = InP(s) /\ status[u] # "BLOCKED")
      PROVE  NoLostWakeup'
  <2>1. \A s \in Semaphore : Woken(s)' = Woken(s)
    BY <1>1 DEF Woken
  <2> QED
    BY <1>a, <1>1, <2>1, Zenon DEF NoLostWakeup
<1>2. /\ \A s \in Semaphore : /\ InCaller # InP(s) /\ AtThreadRoot # InP(s)
                              /\ InYield # InP(s) /\ InFinish # InP(s)
      /\ \A s \in Semaphore, l \in Lock : InAcquire(l) # InP(s)
      /\ \A s \in Semaphore, x \in Semaphore : InP(x) = InP(s) => x = s
  BY Distinct
<1>3. ASSUME NEW t \in Thread, NEW child \in Thread, Fork(t, child)
      PROVE  NoLostWakeup'
  <2>1. \A s \in Semaphore, u \in Thread :
            (pc'[u] = InP(s) /\ status'[u] # "BLOCKED")
                <=> (pc[u] = InP(s) /\ status[u] # "BLOCKED")
    BY <1>0, <1>2, <1>3, Zenon DEF Fork, ReadyToRun, OffCPU
  <2> QED
    BY <1>1, <1>3, <2>1, Zenon DEF Fork
<1>4. ASSUME NEW t \in Thread, NEW w, Sleep(t, w), status[t] = "RUNNING",
             \A s \in Semaphore : w # InP(s) /\ pc[t] # InP(s) /\ UNCHANGED queue[s],
             UNCHANGED value
      PROVE  NoLostWakeup'
  BY <1>0, <1>1, <1>4, SleepEffect, Zenon
<1>5. ASSUME NEW t \in Thread, Yield(t) PROVE NoLostWakeup'
  <2>1. \A u \in Thread : status'[u] = "BLOCKED" <=> status[u] = "BLOCKED"
    BY <1>5, DispatchEffect, Zenon
  <2> QED
    BY <1>0, <1>1, <1>2, <1>5, <2>1, Zenon DEF Yield
<1>6. ASSUME NEW t \in Thread, Finish(t) PROVE NoLostWakeup'
  BY <1>2, <1>4, <1>6, Zenon DEF Finish
<1>7. ASSUME NEW t \in Thread,
             \/ StartThread(t) \/ ResumeYield(t)
             \/ \E l \in Lock : ResumeAcquire(t, l)
      PROVE  NoLostWakeup'
  <2>1. /\ pc' = [pc EXCEPT ![t] = InCaller]
        /\ \A s \in Semaphore : pc[t] # InP(s)
        /\ UNCHANGED <<status, value, queue>>
    BY <1>2, <1>7, Zenon DEF StartThread, ResumeYield, ResumeAcquire
  <2> QED
    BY <1>0, <1>1, <1>2, <2>1, Zenon
<1>8. ASSUME NEW t \in Thread, NEW x \in Semaphore, P(t, x) \/ ResumeP(t, x)
      PROVE  NoLostWakeup'
  <2> SUFFICES ASSUME NEW s \in Semaphore
               PROVE  queue'[s] # <<>> => value'[s] <= Cardinality(Woken(s)')
    BY DEF NoLostWakeup
  <2>1. /\ TryP(t, x) /\ status[t] = "RUNNING"
        /\ pc[t] \in {InCaller, InP(x)}
    BY <1>8 DEF P, ResumeP
  <2>2. CASE /\ value[x] = 0
             /\ queue' = [queue EXCEPT ![x] = Append(@, t)]
             /\ Sleep(t, InP(x))
             /\ UNCHANGED value
    <3>1. CASE s = x
      BY <1>a, <2>2, <3>1, WakeupKept, Zenon
    <3>2. CASE s # x
      <4>1. UNCHANGED queue[s] /\ value'[s] = value[s]
        BY <1>0, <2>2, <3>2, Zenon
      <4>2. Woken(s)' = Woken(s)
        BY <1>0, <1>2, <2>1, <2>2, <3>2, SleepEffect, Zenon DEF Woken
      <4> QED
        BY <1>a, <4>1, <4>2, WakeupKept, Zenon
    <3> QED
      BY <3>1, <3>2, Zenon
  <2>3. CASE /\ value[x] > 0
             /\ value' = [value EXCEPT ![x] = @ - 1]
             /\ pc' = [pc EXCEPT ![t] = InCaller]
             /\ UNCHANGED <<status, queue>>
    <3>1. CASE s = x
      <4>1. value'[s] = value[s] - 1 /\ value[s] > 0
        BY <1>0, <2>3, <3>1
      <4>2. Woken(s)' = Woken(s) \ {t}
        BY <1>0, <1>2, <2>3, <3>1, Zenon DEF Woken
      <4> QED
        BY <1>a, <2>3, <4>1, <4>2, WakeupKept, Zenon
    <3>2. CASE s # x
      <4>1. value'[s] = value[s]
        BY <1>0, <2>3, <3>2, Zenon
      <4>2. Woken(s)' = Woken(s)
        BY <1>0, <1>2, <2>1, <2>3, <3>2, Zenon DEF Woken
      <4> QED
        BY <1>a, <2>3, <4>1, <4>2, WakeupKept, Zenon
    <3> QED
      BY <3>1, <3>2
  <2> QED
    BY <2>1, <2>2, <2>3, Zenon DEF TryP
<1>9. ASSUME NEW x \in Semaphore, Signal(x), UNCHANGED pc PROVE NoLostWakeup'
  <2> SUFFICES ASSUME NEW s \in Semaphore
               PROVE  queue'[s] # <<>> => value'[s] <= Cardinality(Woken(s)')
    BY DEF NoLostWakeup
  <2>1. value' = [value EXCEPT ![x] = @ + 1]
    BY <1>9, Zenon DEF Signal
  <2>2. CASE queue[x] = <<>> /\ UNCHANGED <<status, queue>>
    <3>1. CASE s = x
      BY <1>a, <2>2, <3>1, WakeupKept, Zenon
    <3>2. CASE s # x
      <4>1. value'[s] = value[s] /\ Woken(s)' = Woken(s)
        BY <1>0, <1>9, <2>1, <2>2, <3>2, Zenon DEF Woken
      <4> QED
        BY <1>a, <2>2, <4>1, WakeupKept, Zenon
    <3> QED
      BY <3>1, <3>2, Zenon
  <2>3. CASE /\ queue[x] # <<>>
             /\ Head(queue[x]) \in Thread
             /\ status[Head(queue[x])] = "BLOCKED"
             /\ pc[Head(queue[x])] = InP(x)
             /\ status' = [status EXCEPT ![Head(queue[x])] = "READY"]
             /\ queue' = [queue EXCEPT ![x] = Tail(@)]
    <3> DEFINE h == Head(queue[x])
    <3>0. /\ h \in Thread /\ status[h] = "BLOCKED" /\ pc[h] = InP(x)
          /\ status' = [status EXCEPT ![h] = "READY"]
      BY <2>3, Zenon
    <3> HIDE DEF h
    <3>1. CASE s = x
      <4>1. value'[s] = value[s] + 1
        BY <1>0, <2>1, <3>1
      <4>2. h \notin Woken(s) /\ Woken(s)' = Woken(s) \cup {h}
        BY <1>0, <1>9, <3>0, <3>1, Zenon DEF Woken
      <4> QED
        BY <1>a, <2>3, <3>0, <3>1, <4>1, <4>2, WakeupKept, Zenon
    <3>2. CASE s # x
      <4>1. value'[s] = value[s] /\ UNCHANGED queue[s]
        BY <1>0, <2>1, <2>3, <3>2, Zenon
      <4>2. Woken(s)' = Woken(s)
        BY <1>0, <1>2, <1>9, <3>0, <3>2, Zenon DEF Woken
      <4> QED
        BY <1>a, <4>1, <4>2, WakeupKept, Zenon
    <3> QED
      BY <3>1, <3>2
  <2> QED
    BY <1>9, <2>2, <2>3, SignalEffect, Zenon
<1>10. ASSUME NEW t \in Thread, NEW s \in Semaphore, V(t, s) PROVE NoLostWakeup'
  BY <1>9, <1>10, Zenon DEF V
<1>11. ASSUME NEW d \in Device, DeviceInterrupt(d) PROVE NoLostWakeup'
  BY <1>9, <1>11, ThreadAssumption, Zenon DEF DeviceInterrupt
<1>12. ASSUME NEW t \in Thread, NEW l \in Lock, AcquireFree(t, l)
       PROVE  NoLostWakeup'
  BY <1>1, <1>12, Zenon DEF AcquireFree
<1>13. ASSUME NEW t \in Thread, NEW l \in Lock, AcquireBusy(t, l)
       PROVE  NoLostWakeup'
  <2>1. \A s \in Semaphore : UNCHANGED queue[s]
    BY <1>0, <1>13, Zenon DEF AcquireBusy
  <2> QED
    BY <1>2, <1>4, <1>13, <2>1 DEF AcquireBusy
<1>14. ASSUME NEW t \in Thread, NEW l \in Lock, Release(t, l)
       PROVE  NoLostWakeup'
  <2>1. UNCHANGED <<pc, value>>
    BY <1>14, Zenon DEF Release
  <2>2. CASE queue[l] = <<>>
    BY <1>1, <1>14, <2>1, <2>2, Zenon DEF Release
  <2>3. CASE queue[l] # <<>>
    <3> DEFINE h == Head(queue[l])
    <3>1. /\ h \in Thread /\ pc[h] = InAcquire(l)
          /\ status' = [status EXCEPT ![h] = "READY"]
          /\ queue' = [queue EXCEPT ![l] = Tail(@)]
      BY <1>14, <2>3, ReleaseEffect, Zenon
    <3>2. \A s \in Semaphore : UNCHANGED queue[s]
      BY <1>0, <3>1, Zenon
    <3> HIDE DEF h
    <3> QED
      BY <1>0, <1>1, <1>2, <2>1, <3>1, <3>2, ZenonT(30)
  <2> QED
    BY <2>2, <2>3, Zenon
<1>15. CASE WakeFromIdle
  <2>1. \A u \in Thread : status'[u] = "BLOCKED" <=> status[u] = "BLOCKED"
    BY <1>15, DispatchEffect, Zenon
  <2> QED
    BY <1>1, <1>15, <2>1, Zenon DEF WakeFromIdle
<1>16. ASSUME NEW t \in Thread, NEW d \in Device, Schedule(t, d)
       PROVE  NoLostWakeup'
  BY <1>1, <1>16, Zenon DEF Schedule
<1>17. CASE Halt \/ UNCHANGED vars
  BY <1>1, <1>17 DEF Halt, vars
<1> QED
  BY <1>3, <1>5, <1>6, <1>7, <1>8, <1>10, <1>11, <1>12, <1>13, <1>14, <1>15,
     <1>16, <1>17 DEF Next, Resume, Call

\* While threads wait on a semaphore, every unit of its value has a woken
\* thread on its way to it.
THEOREM WakeupCorrect == Spec => []NoLostWakeup
<1>1. Init => NoLostWakeup
  BY DEF Init, NoLostWakeup, SynchObject
<1>2. Placed /\ NoLostWakeup /\ [Next]_vars => NoLostWakeup'
  BY WakeupStep
<1> QED
  BY <1>1, <1>2, PlacedInvariant, PTL DEF Spec

-----------------------------------------------------------------------------
(* Halt *)

\* Every step but Halt is taken by a machine that runs and goes on running.
LEMMA OnlyHaltHalts == Next => Halt \/ (~halted /\ ~halted')
<1> SUFFICES ASSUME Next PROVE Halt \/ (~halted /\ ~halted')
  OBVIOUS
<1> USE DEF deviceVars, Running, Switched, Idling
<1>1. ASSUME NEW t \in Thread, Resume(t) PROVE ~halted /\ ~halted'
  BY <1>1 DEF Resume, StartThread, ResumeYield, ResumeP, ResumeAcquire
<1>2. ASSUME NEW t \in Thread, Call(t) PROVE ~halted /\ ~halted'
  BY <1>2 DEF Call, Fork, Yield, Finish, P, V, AcquireFree, AcquireBusy, Release,
              Schedule
<1>3. ASSUME NEW d \in Device, DeviceInterrupt(d) PROVE ~halted /\ ~halted'
  BY <1>3 DEF DeviceInterrupt
<1>4. CASE WakeFromIdle
  BY <1>4, Zenon DEF WakeFromIdle
<1> QED
  BY <1>1, <1>2, <1>3, <1>4, Zenon DEF Next

\* When Idle gives up, every thread is asleep for good.
LEMMA HaltStuck ==
    ASSUME Placed, LockHandoff, NoLostWakeup, Halt
    PROVE  HaltOnlyWhenStuck'
<1>0. /\ status \in [Thread -> ThreadStatus] /\ pc \in [Thread -> Continuation]
      /\ ownerThread \in [Lock -> Thread \cup {NULL}]
      /\ stat \in [Lock -> {"FREE", "BUSY"}]
      /\ value \in [Semaphore -> Nat]
      /\ \A s \in Semaphore : s \in SynchObject
      /\ \A l \in Lock : l \in SynchObject
  BY DEF Placed, TypeOK, SynchObject
<1>1. /\ readyList = <<>> /\ status[currentThread] # "RUNNING"
      /\ \A d \in Device : pendingIO[d] = 0
      /\ UNCHANGED <<status, pc, queue, value, ownerThread, pendingIO>>
  BY Zenon DEF Halt, Idling, threadVars, lockVars
<1>2. \A t \in Thread : status[t] \in {"UNBORN", "BLOCKED"}
  <2>1. \A t \in Thread : t \notin Range(readyList)
    BY <1>1, EmptyRange, Zenon
  <2> QED
    BY <1>0, <1>1, <2>1 DEF Placed, ThreadPlacement, ThreadStatus
<1> SUFFICES ASSUME NEW t \in Thread, status[t] = "BLOCKED", pc[t] # InFinish
             PROVE  \/ \E s \in Semaphore : /\ t \in Range(queue[s])
                                            /\ value[s] = 0
                                            /\ s \in Device => pendingIO[s] = 0
                    \/ \E l \in Lock : /\ t \in Range(queue[l])
                                       /\ status[ownerThread[l]] = "BLOCKED"
  BY <1>1, <1>2, Zenon DEF HaltOnlyWhenStuck
<1>3. \/ \E s \in Semaphore : pc[t] = InP(s)
      \/ \E l \in Lock : pc[t] = InAcquire(l)
  BY <1>0, Distinct DEF Placed, OffCPU
<1>4. ASSUME NEW s \in Semaphore, pc[t] = InP(s)
      PROVE  /\ t \in Range(queue[s])
             /\ value[s] = 0
             /\ s \in Device => pendingIO[s] = 0
  <2>1. t \in Range(queue[s])
    BY <1>0, <1>4, Distinct DEF Placed, ThreadPlacement
  <2>2. Woken(s) = {}
    <3>1. \A u \in Thread : status[u] = "UNBORN" => pc[u] # InP(s)
      BY Distinct DEF Placed, OffCPU
    <3> QED
      BY <1>2, <3>1, Zenon DEF Woken
  <2>3. value[s] <= 0
    <3>1. queue[s] # <<>>
      BY <2>1, EmptyRange, Zenon
    <3>2. Cardinality(Woken(s)) = 0
      BY <2>2, FS_EmptySet
    <3> QED
      BY <3>1, <3>2 DEF NoLostWakeup
  <2> QED
    <3>1. value[s] \in Nat
      BY <1>0, Zenon
    <3>2. value[s] = 0
      BY <2>3, <3>1
    <3>3. s \in Device => pendingIO[s] = 0
      BY <1>1, Zenon
    <3> QED
      BY <2>1, <3>2, <3>3, Zenon
<1>5. ASSUME NEW l \in Lock, pc[t] = InAcquire(l)
      PROVE  t \in Range(queue[l]) /\ status[ownerThread[l]] = "BLOCKED"
  <2>1. t \in Range(queue[l])
    BY <1>0, <1>5, Distinct DEF Placed, ThreadPlacement
  <2>2. queue[l] # <<>>
    BY <2>1, EmptyRange
  <2>3. ownerThread[l] \in Thread
    <3>1. ownerThread[l] # NULL
      BY <2>2, Zenon DEF LockHandoff
    <3>2. ownerThread[l] \in Thread \cup {NULL}
      BY <1>0, Zenon
    <3> QED
      BY <3>1, <3>2, Zenon
  <2>4. status[ownerThread[l]] # "UNBORN"
    <3>1. \/ l \in held[ownerThread[l]]
          \/ pc[ownerThread[l]] = InAcquire(l)
      BY <2>3 DEF LockHandoff
    <3> QED
      BY <2>3, <3>1, Distinct, ZenonT(30) DEF Placed, OffCPU
  <2> QED
    BY <1>2, <2>1, <2>3, <2>4, Zenon
<1> QED
  BY <1>3, <1>4, <1>5, Zenon

\* The machine halts by itself only when no thread can ever run again.
THEOREM HaltCorrect == Spec => []HaltOnlyWhenStuck
<1>1. Init => HaltOnlyWhenStuck
  BY DEF Init, HaltOnlyWhenStuck
<1>2. Placed /\ LockHandoff /\ NoLostWakeup /\ HaltOnlyWhenStuck /\ [Next]_vars
          => HaltOnlyWhenStuck'
  <2> SUFFICES ASSUME Placed, LockHandoff, NoLostWakeup, HaltOnlyWhenStuck,
                      [Next]_vars
               PROVE  HaltOnlyWhenStuck'
    BY Zenon
  <2>1. CASE UNCHANGED vars
    BY <2>1 DEF HaltOnlyWhenStuck, vars, threadVars, lockVars, deviceVars
  <2>2. CASE Halt
    BY <2>2, HaltStuck, Zenon
  <2>3. CASE ~halted'
    BY <2>3 DEF HaltOnlyWhenStuck
  <2> QED
    BY <2>1, <2>2, <2>3, OnlyHaltHalts
<1> QED
  BY <1>1, <1>2, PlacedInvariant, HandoffCorrect, WakeupCorrect, PTL DEF Spec
=============================================================================
