----------------------------- MODULE LockProofs -----------------------------
(***************************************************************************)
(* Proofs about the locks of Threads: mutual exclusion, and that Acquire   *)
(* and Release implement FifoLock.                                         *)
(***************************************************************************)
EXTENDS ThreadsProofs

-----------------------------------------------------------------------------
(* What a step does to the status of each thread *)

\* A thread that is not on the CPU is inside a routine that gives it up: it
\* was never dispatched, or it called Sleep from P, Acquire or Finish.
OffCPU ==
    \A t \in Thread :
        /\ status[t] = "UNBORN" => pc[t] = InCaller /\ held[t] = {}
        /\ status[t] = "BLOCKED" => pc[t].routine \in {"P", "Acquire", "Finish"}

\* The continuations are told apart by their routine and their object.
LEMMA Distinct ==
    /\ InCaller.routine = "caller" /\ InCaller.object = NULL
    /\ AtThreadRoot.routine = "ThreadRoot" /\ AtThreadRoot.object = NULL
    /\ InYield.routine = "Yield" /\ InYield.object = NULL
    /\ InFinish.routine = "Finish" /\ InFinish.object = NULL
    /\ \A s \in Semaphore : InP(s).routine = "P" /\ InP(s).object = s
    /\ \A l \in Lock : InAcquire(l).routine = "Acquire" /\ InAcquire(l).object = l
    /\ \A k \in Continuation :
          /\ k.routine = "Finish" => k = InFinish
          /\ k.routine = "P" => \E s \in Semaphore : k = InP(s)
          /\ k.routine = "Acquire" => \E l \in Lock : k = InAcquire(l)
          /\ \A s \in Semaphore : k.object = s => k = InP(s)
          /\ \A l \in Lock : k.object = l => k = InAcquire(l)
<1>1. /\ InCaller.routine = "caller" /\ InCaller.object = NULL
      /\ AtThreadRoot.routine = "ThreadRoot" /\ AtThreadRoot.object = NULL
      /\ InYield.routine = "Yield" /\ InYield.object = NULL
      /\ InFinish.routine = "Finish" /\ InFinish.object = NULL
      /\ \A s \in Semaphore : InP(s).routine = "P" /\ InP(s).object = s
      /\ \A l \in Lock : InAcquire(l).routine = "Acquire" /\ InAcquire(l).object = l
  BY DEF InCaller, AtThreadRoot, InYield, InFinish, InP, InAcquire, At
<1>2. ASSUME NEW k \in Continuation
      PROVE  \/ k \in {InCaller, AtThreadRoot, InYield, InFinish}
             \/ \E s \in Semaphore : k = InP(s)
             \/ \E l \in Lock : k = InAcquire(l)
  BY DEF Continuation
<1> QED
  BY <1>1, <1>2, ThreadAssumption

\* Sleep blocks its caller and no other thread, and gives the CPU only to a
\* thread that was ready.
LEMMA SleepEffect ==
    ASSUME TypeOK, ThreadPlacement, NEW t \in Thread, NEW w,
           status[t] = "RUNNING", Sleep(t, w)
    PROVE  /\ pc' = [pc EXCEPT ![t] = w]
           /\ status'[t] = "BLOCKED"
           /\ \A u \in Thread \ {t} :
                 /\ status'[u] = "BLOCKED" <=> status[u] = "BLOCKED"
                 /\ status'[u] = "UNBORN" <=> status[u] = "UNBORN"
           /\ currentThread' = currentThread \/ status[currentThread'] = "READY"
<1>1. pc' = [pc EXCEPT ![t] = w] /\ status \in [Thread -> ThreadStatus]
  BY DEF Sleep, TypeOK
<1>2. CASE readyList = <<>>
  BY <1>1, <1>2 DEF Sleep
<1>3. CASE readyList # <<>>
  <2> DEFINE n == Head(readyList)
  <2>1. n \in Thread /\ n \in Range(readyList)
    BY <1>3, TailRange DEF ThreadPlacement, TypeOK
  <2>2. status[n] = "READY" /\ n # t
    BY <2>1 DEF ThreadPlacement
  <2>3. /\ status' = [status EXCEPT ![t] = "BLOCKED", ![n] = "RUNNING"]
        /\ currentThread' = n
    BY <1>3 DEF Sleep, RunNext
  <2> HIDE DEF n
  <2> QED
    BY <1>1, <2>1, <2>2, <2>3
<1> QED
  BY <1>2, <1>3

\* Yield and the dispatch from Idle block and wake nobody.
LEMMA DispatchEffect ==
    ASSUME TypeOK, ThreadPlacement, WakeFromIdle \/ \E t \in Thread : Yield(t)
    PROVE  /\ \A u \in Thread :
                 /\ status'[u] = "BLOCKED" <=> status[u] = "BLOCKED"
                 /\ status'[u] = "UNBORN" <=> status[u] = "UNBORN"
           /\ status[currentThread'] = "READY"
<1> DEFINE n == Head(readyList)
<1>1. n \in Thread /\ n \in Range(readyList)
  BY TailRange DEF WakeFromIdle, Yield, ThreadPlacement, TypeOK
<1>2. status[n] = "READY" /\ currentThread' = n
  BY <1>1 DEF ThreadPlacement, WakeFromIdle, RunNext, Yield
<1>3. CASE WakeFromIdle
  <2>1. status' = [status EXCEPT ![currentThread] = status[currentThread],
                                 ![n] = "RUNNING"]
    BY <1>3 DEF WakeFromIdle, RunNext
  <2> HIDE DEF n
  <2> QED
    BY <1>1, <1>2, <2>1 DEF TypeOK
<1>4. ASSUME NEW t \in Thread, Yield(t)
      PROVE  \A u \in Thread :
                 /\ status'[u] = "BLOCKED" <=> status[u] = "BLOCKED"
                 /\ status'[u] = "UNBORN" <=> status[u] = "UNBORN"
  <2>1. /\ status' = [status EXCEPT ![t] = "READY", ![n] = "RUNNING"]
        /\ status[t] = "RUNNING"
    BY <1>4 DEF Yield, Running
  <2> HIDE DEF n
  <2> QED
    BY <1>1, <1>2, <2>1 DEF TypeOK
<1> QED
  BY <1>2, <1>3, <1>4

\* V of a semaphore with a waiter makes the first one ready, and blocks
\* nobody.
LEMMA SignalEffect ==
    ASSUME TypeOK, ThreadPlacement, NEW s \in Semaphore, Signal(s)
    PROVE  \/ queue[s] = <<>> /\ UNCHANGED <<status, queue>>
           \/ /\ queue[s] # <<>>
              /\ Head(queue[s]) \in Thread
              /\ status[Head(queue[s])] = "BLOCKED"
              /\ pc[Head(queue[s])] = InP(s)
              /\ status' = [status EXCEPT ![Head(queue[s])] = "READY"]
              /\ queue' = [queue EXCEPT ![s] = Tail(@)]
<1>1. CASE queue[s] = <<>>
  BY <1>1 DEF Signal
<1>2. CASE queue[s] # <<>>
  <2>1. s \in SynchObject
    BY DEF SynchObject
  <2>2. Head(queue[s]) \in Thread /\ Head(queue[s]) \in Range(queue[s])
    BY <1>2, <2>1, TailRange DEF TypeOK, ThreadPlacement
  <2>3. /\ status[Head(queue[s])] = "BLOCKED"
        /\ pc[Head(queue[s])].object = s
    BY <2>1, <2>2 DEF ThreadPlacement
  <2>4. pc[Head(queue[s])] = InP(s)
    BY <2>2, <2>3, Distinct, Zenon DEF TypeOK
  <2> QED
    BY <1>2, <2>2, <2>3, <2>4 DEF Signal, ReadyToRun
<1> QED
  BY <1>1, <1>2

\* Release to a waiter makes the first one ready, which sleeps in Acquire.
LEMMA ReleaseEffect ==
    ASSUME TypeOK, ThreadPlacement, NEW t \in Thread, NEW l \in Lock,
           Release(t, l), queue[l] # <<>>
    PROVE  /\ Head(queue[l]) \in Thread
           /\ status[Head(queue[l])] = "BLOCKED"
           /\ pc[Head(queue[l])] = InAcquire(l)
           /\ status' = [status EXCEPT ![Head(queue[l])] = "READY"]
           /\ queue' = [queue EXCEPT ![l] = Tail(@)]
           /\ ownerThread' = [ownerThread EXCEPT ![l] = Head(queue[l])]
           /\ UNCHANGED stat
<1>1. l \in SynchObject
  BY DEF SynchObject
<1>2. Head(queue[l]) \in Thread /\ Head(queue[l]) \in Range(queue[l])
  BY <1>1, TailRange DEF TypeOK, ThreadPlacement
<1>3. status[Head(queue[l])] = "BLOCKED" /\ pc[Head(queue[l])].object = l
  BY <1>1, <1>2 DEF ThreadPlacement
<1>4. pc[Head(queue[l])] = InAcquire(l)
  BY <1>2, <1>3, Distinct, ZenonT(30) DEF TypeOK
<1> QED
  BY <1>2, <1>3, <1>4 DEF Release, ReadyToRun

\* The invariant every further proof starts from.
Placed == TypeOK /\ ThreadPlacement /\ OffCPU

\* Every step keeps OffCPU.
LEMMA OffCPUStep == Placed /\ [Next]_vars => OffCPU'
<1> SUFFICES ASSUME TypeOK, ThreadPlacement, OffCPU, [Next]_vars PROVE OffCPU'
  BY DEF Placed
<1> USE DEF carcassVars, lockVars, deviceVars, threadVars, Running, Switched
<1>0. /\ status \in [Thread -> ThreadStatus] /\ pc \in [Thread -> Continuation]
      /\ held \in [Thread -> SUBSET Lock]
  BY DEF TypeOK
<1>1. CASE UNCHANGED <<status, pc, held>>
  BY <1>1 DEF OffCPU
<1>2. ASSUME NEW t \in Thread, NEW child \in Thread, Fork(t, child) PROVE OffCPU'
  BY <1>0, <1>2 DEF Fork, ReadyToRun, OffCPU
<1>3. ASSUME NEW t \in Thread, NEW w, Sleep(t, w), status[t] = "RUNNING",
             w.routine \in {"P", "Acquire", "Finish"}, UNCHANGED held
      PROVE  OffCPU'
  BY <1>0, <1>3, SleepEffect DEF OffCPU
<1>4. ASSUME NEW t \in Thread, NEW w, pc' = [pc EXCEPT ![t] = w],
             status[t] = "RUNNING", UNCHANGED status,
             \A u \in Thread \ {t} : held'[u] = held[u]
      PROVE  OffCPU'
  BY <1>0, <1>4 DEF OffCPU
<1>5. ASSUME NEW t \in Thread, Yield(t) PROVE OffCPU'
  <2>1. \A u \in Thread :
            /\ status'[u] = "BLOCKED" <=> status[u] = "BLOCKED"
            /\ status'[u] = "UNBORN" <=> status[u] = "UNBORN"
    BY <1>5, DispatchEffect
  <2> QED
    BY <1>0, <1>5, <2>1 DEF Yield, OffCPU
<1>6. ASSUME NEW t \in Thread, Finish(t) PROVE OffCPU'
  BY <1>3, <1>6, Distinct DEF Finish
<1>7. ASSUME NEW t \in Thread, StartThread(t) \/ ResumeYield(t) PROVE OffCPU'
  BY <1>4, <1>7 DEF StartThread, ResumeYield
<1>8. ASSUME NEW t \in Thread, NEW s \in Semaphore, P(t, s) \/ ResumeP(t, s)
      PROVE  OffCPU'
  <2>1. TryP(t, s) /\ status[t] = "RUNNING" /\ UNCHANGED held
    BY <1>8 DEF P, ResumeP
  <2>2. CASE Sleep(t, InP(s))
    <3>1. InP(s).routine = "P"
      BY Distinct
    <3> QED
      BY <1>3, <2>1, <2>2, <3>1
  <2>3. CASE pc' = [pc EXCEPT ![t] = InCaller] /\ UNCHANGED status
    BY <1>4, <2>1, <2>3, Zenon
  <2> QED
    BY <2>1, <2>2, <2>3 DEF TryP
<1>9. ASSUME NEW s \in Semaphore, Signal(s), UNCHANGED <<pc, held>> PROVE OffCPU'
  <2>1. CASE UNCHANGED status
    BY <1>1, <1>9, <2>1
  <2>2. CASE /\ Head(queue[s]) \in Thread
             /\ status' = [status EXCEPT ![Head(queue[s])] = "READY"]
    BY <1>0, <1>9, <2>2 DEF OffCPU
  <2> QED
    BY <1>9, <2>1, <2>2, SignalEffect
<1>10. ASSUME NEW t \in Thread, NEW s \in Semaphore, V(t, s) PROVE OffCPU'
  BY <1>9, <1>10 DEF V
<1>11. ASSUME NEW d \in Device, DeviceInterrupt(d) PROVE OffCPU'
  BY <1>9, <1>11, ThreadAssumption DEF DeviceInterrupt
<1>12. ASSUME NEW t \in Thread, NEW l \in Lock, AcquireFree(t, l) PROVE OffCPU'
  BY <1>0, <1>12 DEF AcquireFree, OffCPU
<1>13. ASSUME NEW t \in Thread, NEW l \in Lock, AcquireBusy(t, l) PROVE OffCPU'
  BY <1>3, <1>13, Distinct DEF AcquireBusy
<1>14. ASSUME NEW t \in Thread, NEW l \in Lock, ResumeAcquire(t, l) PROVE OffCPU'
  BY <1>0, <1>4, <1>14, Zenon DEF ResumeAcquire
<1>15. ASSUME NEW t \in Thread, NEW l \in Lock, Release(t, l) PROVE OffCPU'
  <2>1. /\ held' = [held EXCEPT ![t] = @ \ {l}]
        /\ UNCHANGED pc
    BY <1>15 DEF Release
  <2>2. CASE queue[l] = <<>>
    <3>1. UNCHANGED status
      BY <1>15, <2>2 DEF Release
    <3> QED
      BY <1>0, <2>1, <3>1 DEF OffCPU
  <2>3. CASE queue[l] # <<>>
    <3>1. /\ Head(queue[l]) \in Thread
          /\ status' = [status EXCEPT ![Head(queue[l])] = "READY"]
      BY <1>15, <2>3, ReleaseEffect
    <3> QED
      BY <1>0, <2>1, <3>1 DEF OffCPU
  <2> QED
    BY <2>2, <2>3
<1>16. CASE WakeFromIdle
  <2>1. \A u \in Thread :
            /\ status'[u] = "BLOCKED" <=> status[u] = "BLOCKED"
            /\ status'[u] = "UNBORN" <=> status[u] = "UNBORN"
    BY <1>16, DispatchEffect
  <2> QED
    BY <1>16, <2>1 DEF WakeFromIdle, OffCPU
<1>17. ASSUME NEW t \in Thread, NEW d \in Device, Schedule(t, d) PROVE OffCPU'
  BY <1>1, <1>17 DEF Schedule
<1>18. CASE Halt \/ UNCHANGED vars
  BY <1>1, <1>18 DEF Halt, vars
<1> QED
  BY <1>2, <1>5, <1>6, <1>7, <1>8, <1>10, <1>11, <1>12, <1>13, <1>14, <1>15,
     <1>16, <1>17, <1>18 DEF Next, Resume, Call

\* The invariant every other proof about Threads starts from.
LEMMA PlacedInvariant == Spec => []Placed
<1>1. Init => OffCPU
  BY DEF Init, OffCPU
<1>2. Init => Placed
  BY <1>1, TypeInit, PlacementInit DEF Placed
<1>3. Placed /\ [Next]_vars => Placed'
  BY TypeStep, PlacementStep, OffCPUStep DEF Placed
<1> QED
  BY <1>2, <1>3, PTL DEF Spec

-----------------------------------------------------------------------------
(* Mutual exclusion *)

\* What Release promises and Acquire relies on is an invariant.
LEMMA HandoffStep == Placed /\ LockHandoff /\ [Next]_vars => LockHandoff'
<1> SUFFICES ASSUME TypeOK, ThreadPlacement, OffCPU, LockHandoff, [Next]_vars
             PROVE  LockHandoff'
  BY DEF Placed
<1> USE DEF carcassVars, lockVars, deviceVars, threadVars, Running, Switched
<1>0. /\ status \in [Thread -> ThreadStatus] /\ pc \in [Thread -> Continuation]
      /\ held \in [Thread -> SUBSET Lock] /\ stat \in [Lock -> {"FREE", "BUSY"}]
      /\ ownerThread \in [Lock -> Thread \cup {NULL}]
      /\ queue \in [SynchObject -> Seq(Thread)]
      /\ \A l \in Lock : l \in SynchObject
      /\ NULL \notin Thread
  BY ThreadAssumption DEF TypeOK, SynchObject
\* A step that leaves the locks alone and in which a thread neither comes to
\* be awake inside Acquire nor stops being so.
<1>1. ASSUME UNCHANGED <<stat, ownerThread, held>>,
             \A l \in Lock : UNCHANGED queue[l],
             \A l \in Lock, u \in Thread :
                (pc'[u] = InAcquire(l) /\ status'[u] # "BLOCKED")
                    <=> (pc[u] = InAcquire(l) /\ status[u] # "BLOCKED")
      PROVE  LockHandoff'
  BY <1>1 DEF LockHandoff
<1>2. ASSUME NEW t \in Thread, NEW child \in Thread, Fork(t, child)
      PROVE  LockHandoff'
  <2>1. \A l \in Lock : InCaller # InAcquire(l) /\ AtThreadRoot # InAcquire(l)
    BY Distinct
  <2>2. \A l \in Lock, u \in Thread :
          (pc'[u] = InAcquire(l) /\ status'[u] # "BLOCKED")
              <=> (pc[u] = InAcquire(l) /\ status[u] # "BLOCKED")
    BY <1>0, <1>2, <2>1, Zenon DEF Fork, ReadyToRun, OffCPU
  <2> QED
    BY <1>1, <1>2, <2>2 DEF Fork
<1>3. ASSUME NEW t \in Thread, NEW w, Sleep(t, w), status[t] = "RUNNING",
             \A l \in Lock : pc[t] # InAcquire(l),
             UNCHANGED <<stat, ownerThread, held>>,
             \A l \in Lock : UNCHANGED queue[l]
      PROVE  LockHandoff'
  <2>1. \A l \in Lock, u \in Thread :
          (pc'[u] = InAcquire(l) /\ status'[u] # "BLOCKED")
              <=> (pc[u] = InAcquire(l) /\ status[u] # "BLOCKED")
    BY <1>0, <1>3, SleepEffect
  <2> QED
    BY <1>1, <1>3, <2>1
<1>4. ASSUME NEW t \in Thread, NEW w, pc' = [pc EXCEPT ![t] = w],
             \A l \in Lock : pc[t] # InAcquire(l) /\ w # InAcquire(l),
             UNCHANGED <<status, stat, ownerThread, held, queue>>
      PROVE  LockHandoff'
  BY <1>0, <1>1, <1>4
<1>5. ASSUME NEW t \in Thread, Yield(t) PROVE LockHandoff'
  <2>1. \A u \in Thread : status'[u] = "BLOCKED" <=> status[u] = "BLOCKED"
    BY <1>5, DispatchEffect
  <2>2. /\ pc' = [pc EXCEPT ![t] = InYield] /\ pc[t] = InCaller
        /\ \A l \in Lock : InCaller # InAcquire(l) /\ InYield # InAcquire(l)
    BY <1>5, Distinct DEF Yield
  <2>3. \A l \in Lock, u \in Thread :
          (pc'[u] = InAcquire(l) /\ status'[u] # "BLOCKED")
              <=> (pc[u] = InAcquire(l) /\ status[u] # "BLOCKED")
    BY <1>0, <2>1, <2>2
  <2> QED
    BY <1>1, <1>5, <2>3, Zenon DEF Yield
<1>6. ASSUME NEW t \in Thread, Finish(t) PROVE LockHandoff'
  BY <1>3, <1>6, Distinct DEF Finish
<1>7. ASSUME NEW t \in Thread, StartThread(t) \/ ResumeYield(t)
      PROVE  LockHandoff'
  <2>1. \A l \in Lock : pc[t] # InAcquire(l) /\ InCaller # InAcquire(l)
    BY <1>7, Distinct DEF StartThread, ResumeYield
  <2>2. /\ pc' = [pc EXCEPT ![t] = InCaller]
        /\ UNCHANGED <<status, stat, ownerThread, held, queue>>
    BY <1>7 DEF StartThread, ResumeYield
  <2> QED
    BY <1>4, <2>1, <2>2, Zenon
<1>8. ASSUME NEW t \in Thread, NEW s \in Semaphore, P(t, s) \/ ResumeP(t, s)
      PROVE  LockHandoff'
  <2>1. /\ TryP(t, s) /\ status[t] = "RUNNING"
        /\ UNCHANGED <<stat, ownerThread, held>>
        /\ \A l \in Lock : pc[t] # InAcquire(l) /\ InCaller # InAcquire(l)
    BY <1>8, Distinct DEF P, ResumeP
  <2>2. CASE Sleep(t, InP(s)) /\ queue' = [queue EXCEPT ![s] = Append(@, t)]
    <3>1. \A l \in Lock : UNCHANGED queue[l]
      BY <1>0, <2>2, ThreadAssumption
    <3> QED
      BY <1>3, <2>1, <2>2, <3>1
  <2>3. CASE pc' = [pc EXCEPT ![t] = InCaller] /\ UNCHANGED <<status, queue>>
    BY <1>4, <2>1, <2>3, Zenon
  <2> QED
    BY <2>1, <2>2, <2>3 DEF TryP
<1>9. ASSUME NEW s \in Semaphore, Signal(s),
             UNCHANGED <<pc, stat, ownerThread, held>>
      PROVE  LockHandoff'
  <2>1. CASE UNCHANGED <<status, queue>>
    BY <1>1, <1>9, <2>1
  <2>2. CASE /\ Head(queue[s]) \in Thread
             /\ pc[Head(queue[s])] = InP(s)
             /\ status' = [status EXCEPT ![Head(queue[s])] = "READY"]
             /\ queue' = [queue EXCEPT ![s] = Tail(@)]
    <3>1. \A l \in Lock : UNCHANGED queue[l]
      BY <1>0, <2>2, ThreadAssumption
    <3>2. \A l \in Lock : InP(s) # InAcquire(l)
      BY Distinct
    <3> QED
      BY <1>0, <1>1, <1>9, <2>2, <3>1, <3>2
  <2> QED
    BY <1>9, <2>1, <2>2, SignalEffect
<1>10. ASSUME NEW t \in Thread, NEW s \in Semaphore, V(t, s) PROVE LockHandoff'
  BY <1>9, <1>10 DEF V
<1>11. ASSUME NEW d \in Device, DeviceInterrupt(d) PROVE LockHandoff'
  BY <1>9, <1>11, ThreadAssumption DEF DeviceInterrupt
<1>12. ASSUME NEW t \in Thread, NEW l \in Lock, AcquireFree(t, l)
       PROVE  LockHandoff'
  <2>1. \A x \in Lock : pc[t] # InAcquire(x)
    BY <1>12, Distinct, Zenon DEF AcquireFree
  <2>2. /\ t = currentThread
        /\ held' = [held EXCEPT ![t] = @ \cup {l}]
        /\ UNCHANGED <<status, pc, queue>>
    BY <1>12 DEF AcquireFree
  <2>3. CASE ownerThread[l] = t /\ UNCHANGED <<stat, ownerThread>>
    <3>1. l \in held[t]
      BY <2>1, <2>3 DEF LockHandoff
    <3> QED
      BY <1>0, <1>1, <2>2, <2>3, <3>1
  <2>4. CASE /\ stat[l] = "FREE"
             /\ stat' = [stat EXCEPT ![l] = "BUSY"]
             /\ ownerThread' = [ownerThread EXCEPT ![l] = t]
    BY <1>0, <2>1, <2>2, <2>4 DEF LockHandoff
  <2> QED
    BY <1>12, <2>2, <2>3, <2>4, Zenon DEF AcquireFree, isHeldByCurrentThread
<1>13. ASSUME NEW t \in Thread, NEW l \in Lock, AcquireBusy(t, l)
       PROVE  LockHandoff'
  <2>1. /\ stat[l] # "FREE" /\ ownerThread[l] # t
        /\ \A x \in Lock : pc[t] # InAcquire(x)
        /\ UNCHANGED <<stat, ownerThread, held>>
        /\ queue' = [queue EXCEPT ![l] = Append(@, t)]
    BY <1>13, Distinct, Zenon DEF AcquireBusy, isHeldByCurrentThread
  <2>2. \A x \in Lock, u \in Thread :
          (pc'[u] = InAcquire(x) /\ status'[u] # "BLOCKED")
              <=> (pc[u] = InAcquire(x) /\ status[u] # "BLOCKED")
    BY <1>0, <1>13, <2>1, SleepEffect DEF AcquireBusy
  <2> QED
    BY <1>0, <2>1, <2>2 DEF LockHandoff
<1>14. ASSUME NEW t \in Thread, NEW l \in Lock, ResumeAcquire(t, l)
       PROVE  LockHandoff'
  <2>1. /\ pc[t] = InAcquire(l) /\ status[t] = "RUNNING"
        /\ pc' = [pc EXCEPT ![t] = InCaller]
        /\ held' = [held EXCEPT ![t] = @ \cup {l}]
        /\ UNCHANGED <<status, stat, ownerThread, queue>>
        /\ \A x \in Lock :
              InCaller # InAcquire(x) /\ (InAcquire(x) = InAcquire(l) => x = l)
    BY <1>14, Distinct DEF ResumeAcquire
  <2>2. ownerThread[l] = t
    BY <2>1 DEF LockHandoff
  <2> QED
    BY <1>0, <2>1, <2>2 DEF LockHandoff
<1>15. ASSUME NEW t \in Thread, NEW l \in Lock, Release(t, l)
       PROVE  LockHandoff'
  <2>1. /\ held' = [held EXCEPT ![t] = @ \ {l}]
        /\ ownerThread[l] = t
        /\ UNCHANGED pc
        /\ \A x \in Lock : pc[t] # InAcquire(x)
    BY <1>15, Distinct DEF Release, isHeldByCurrentThread
  <2>2. CASE queue[l] = <<>>
    <3>1. /\ UNCHANGED <<status, queue>>
          /\ stat' = [stat EXCEPT ![l] = "FREE"]
          /\ ownerThread' = [ownerThread EXCEPT ![l] = NULL]
      BY <1>15, <2>2 DEF Release
    <3> QED
      BY <1>0, <2>1, <2>2, <3>1 DEF LockHandoff
  <2>3. CASE queue[l] # <<>>
    <3> DEFINE h == Head(queue[l])
    <3>1. /\ h \in Thread /\ status[h] = "BLOCKED" /\ pc[h] = InAcquire(l)
          /\ status' = [status EXCEPT ![h] = "READY"]
          /\ queue' = [queue EXCEPT ![l] = Tail(@)]
          /\ ownerThread' = [ownerThread EXCEPT ![l] = h]
          /\ UNCHANGED stat
      BY <1>15, <2>3, ReleaseEffect
    <3>2. stat[l] # "FREE" /\ \A x \in Lock : InAcquire(x) = InAcquire(l) => x = l
      BY <2>3, Distinct DEF LockHandoff
    <3> HIDE DEF h
    <3>3. ASSUME NEW x \in Lock
          PROVE  /\ stat'[x] = "FREE" <=> ownerThread'[x] = NULL
                 /\ stat'[x] = "FREE" => queue'[x] = <<>>
      BY <1>0, <3>1, <3>2 DEF LockHandoff
    <3>4. ASSUME NEW x \in Lock, NEW u \in Thread
          PROVE  ownerThread'[x] = u <=>
                    \/ x \in held'[u]
                    \/ pc'[u] = InAcquire(x) /\ status'[u] # "BLOCKED"
      <4>1. ownerThread[x] = u <=>
                \/ x \in held[u]
                \/ pc[u] = InAcquire(x) /\ status[u] # "BLOCKED"
        BY Zenon DEF LockHandoff
      <4> QED
        BY <1>0, <2>1, <3>1, <3>2, <4>1
    <3> QED
      BY <3>3, <3>4, Zenon DEF LockHandoff
  <2> QED
    BY <2>2, <2>3, Zenon
<1>16. CASE WakeFromIdle
  <2>1. \A u \in Thread : status'[u] = "BLOCKED" <=> status[u] = "BLOCKED"
    BY <1>16, DispatchEffect, Zenon
  <2> QED
    BY <1>1, <1>16, <2>1 DEF WakeFromIdle
<1>17. ASSUME NEW t \in Thread, NEW d \in Device, Schedule(t, d)
       PROVE  LockHandoff'
  BY <1>1, <1>17, Zenon DEF Schedule
<1>18. CASE Halt \/ UNCHANGED vars
  BY <1>1, <1>18 DEF Halt, vars
<1> QED
  BY <1>2, <1>5, <1>6, <1>7, <1>8, <1>10, <1>11, <1>12, <1>13, <1>14, <1>15,
     <1>16, <1>17, <1>18 DEF Next, Resume, Call

\* LockHandoff holds initially: every lock is free.
LEMMA HandoffInit == Init => LockHandoff
<1> SUFFICES ASSUME Init PROVE LockHandoff
  OBVIOUS
<1>1. \A l \in Lock : InCaller # InAcquire(l) /\ l \in SynchObject
  BY Distinct DEF SynchObject
<1>2. \A l \in Lock : stat[l] = "FREE" /\ ownerThread[l] = NULL /\ queue[l] = <<>>
  BY <1>1 DEF Init
<1>3. \A t \in Thread : t # NULL /\ held[t] = {} /\ pc[t] = InCaller
  BY ThreadAssumption DEF Init
<1> QED
  BY <1>1, <1>2, <1>3 DEF LockHandoff

\* The owner recorded in a lock is always its holder or the one waiter it was
\* handed to, and no lock with waiters is FREE.
THEOREM HandoffCorrect == Spec => []LockHandoff
<1>1. Init => LockHandoff
  BY HandoffInit
<1>2. Placed /\ LockHandoff /\ [Next]_vars => LockHandoff'
  BY HandoffStep
<1> QED
  BY <1>1, <1>2, PlacedInvariant, PTL DEF Spec

\* At most one thread is between the return of Acquire and its Release.
THEOREM MutualExclusionCorrect == Spec => []MutualExclusion
<1>1. LockHandoff /\ Placed => MutualExclusion
  BY DEF LockHandoff, MutualExclusion, Placed, TypeOK
<1> QED
  BY <1>1, HandoffCorrect, PlacedInvariant, PTL
=============================================================================
