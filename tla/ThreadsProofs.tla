---------------------------- MODULE ThreadsProofs ----------------------------
(***************************************************************************)
(* Proofs about Threads, for any set of threads, semaphores and locks.     *)
(***************************************************************************)
EXTENDS Threads, TLAPS

-----------------------------------------------------------------------------
(* The lists: List::Append and List::Remove on a list without duplicates *)

\* Append adds its argument and nothing else to a list.
LEMMA AppendRange ==
    ASSUME NEW S, NEW q \in Seq(S), NEW x \in S
    PROVE  /\ Append(q, x) \in Seq(S)
           /\ Append(q, x) # <<>>
           /\ Range(Append(q, x)) = Range(q) \cup {x}
<1>1. /\ Append(q, x) \in Seq(S)
      /\ Len(Append(q, x)) = Len(q) + 1
      /\ \A i \in 1..Len(q) : Append(q, x)[i] = q[i]
      /\ Append(q, x)[Len(q) + 1] = x
      /\ DOMAIN q = 1..Len(q)
      /\ DOMAIN Append(q, x) = 1..(Len(q) + 1)
      /\ Len(q) \in Nat
  OBVIOUS
<1>2. Append(q, x) # <<>>
  BY <1>1
<1>3. Range(Append(q, x)) \subseteq Range(q) \cup {x}
  BY <1>1 DEF Range
<1>4. Range(q) \cup {x} \subseteq Range(Append(q, x))
  BY <1>1 DEF Range
<1> QED
  BY <1>1, <1>2, <1>3, <1>4

\* Append of a new element makes no duplicate.
LEMMA AppendNoDuplicates ==
    ASSUME NEW S, NEW q \in Seq(S), NEW x \in S,
           NoDuplicates(q), x \notin Range(q)
    PROVE  NoDuplicates(Append(q, x))
<1>1. /\ Len(Append(q, x)) = Len(q) + 1
      /\ \A i \in 1..Len(q) : Append(q, x)[i] = q[i]
      /\ Append(q, x)[Len(q) + 1] = x
      /\ DOMAIN q = 1..Len(q)
      /\ DOMAIN Append(q, x) = 1..(Len(q) + 1)
      /\ Len(q) \in Nat
  OBVIOUS
<1>2. \A i \in 1..Len(q) : q[i] # x
  BY <1>1 DEF Range
<1> QED
  BY <1>1, <1>2 DEF NoDuplicates

\* Removing the first element takes exactly that element off the list.
LEMMA TailRange ==
    ASSUME NEW S, NEW q \in Seq(S), q # <<>>, NoDuplicates(q)
    PROVE  /\ Head(q) \in S
           /\ Head(q) \in Range(q)
           /\ Tail(q) \in Seq(S)
           /\ Range(Tail(q)) = Range(q) \ {Head(q)}
           /\ NoDuplicates(Tail(q))
<1>1. /\ Len(q) \in Nat
      /\ Len(q) # 0
      /\ DOMAIN q = 1..Len(q)
      /\ Tail(q) \in Seq(S)
      /\ Head(q) = q[1]
      /\ DOMAIN Tail(q) = 1..(Len(q) - 1)
      /\ \A i \in 1..(Len(q) - 1) : Tail(q)[i] = q[i + 1]
  OBVIOUS
<1>2. \A i, j \in 1..Len(q) : q[i] = q[j] => i = j
  BY <1>1 DEF NoDuplicates
<1>3. Head(q) \in S /\ Head(q) \in Range(q)
  BY <1>1 DEF Range
<1>4. Range(Tail(q)) \subseteq Range(q) \ {Head(q)}
  <2> SUFFICES ASSUME NEW i \in 1..(Len(q) - 1)
               PROVE  Tail(q)[i] \in Range(q) \ {Head(q)}
    BY <1>1 DEF Range
  <2>1. i + 1 \in 1..Len(q) /\ i + 1 # 1 /\ 1 \in 1..Len(q)
    BY <1>1
  <2> QED
    BY <2>1, <1>1, <1>2 DEF Range
<1>5. Range(q) \ {Head(q)} \subseteq Range(Tail(q))
  <2> SUFFICES ASSUME NEW j \in 1..Len(q), q[j] # Head(q)
               PROVE  q[j] \in Range(Tail(q))
    BY <1>1 DEF Range
  <2>1. j - 1 \in 1..(Len(q) - 1) /\ (j - 1) + 1 = j
    BY <1>1
  <2>2. Tail(q)[j - 1] = q[j]
    BY <2>1, <1>1
  <2> QED
    BY <2>1, <2>2, <1>1, Zenon DEF Range
<1>6. NoDuplicates(Tail(q))
  <2> SUFFICES ASSUME NEW i \in 1..(Len(q) - 1), NEW j \in 1..(Len(q) - 1),
                      Tail(q)[i] = Tail(q)[j]
               PROVE  i = j
    BY <1>1 DEF NoDuplicates
  <2>1. i + 1 \in 1..Len(q) /\ j + 1 \in 1..Len(q)
    BY <1>1
  <2>2. i + 1 = j + 1
    BY <2>1, <1>1, <1>2
  <2> QED
    BY <2>2
<1> QED
  BY <1>1, <1>3, <1>4, <1>5, <1>6

\* The elements of a list are elements of its type.
LEMMA RangeType ==
    ASSUME NEW S, NEW q \in Seq(S)
    PROVE  Range(q) \subseteq S
BY DEF Range

\* The empty list has no element and no duplicate.
LEMMA EmptyRange == Range(<<>>) = {} /\ NoDuplicates(<<>>)
BY DEF Range, NoDuplicates

-----------------------------------------------------------------------------
(* Type correctness *)

\* The continuations used by the actions are continuations, and tell the
\* routines and the objects apart.
LEMMA Continuations ==
    /\ InCaller \in Continuation /\ AtThreadRoot \in Continuation
    /\ InYield \in Continuation /\ InFinish \in Continuation
    /\ \A s \in Semaphore : InP(s) \in Continuation
    /\ \A l \in Lock : InAcquire(l) \in Continuation
BY DEF Continuation

\* Sleep keeps the types, whatever routine it is called in.
LEMMA SleepType ==
    ASSUME TypeOK, NEW t \in Thread, NEW where \in Continuation, Sleep(t, where)
    PROVE  /\ currentThread' \in Thread
           /\ status' \in [Thread -> ThreadStatus]
           /\ readyList' \in Seq(Thread)
           /\ pc' \in [Thread -> Continuation]
<1>1. pc' \in [Thread -> Continuation]
  BY DEF TypeOK, Sleep
<1>2. CASE readyList # <<>> /\ RunNext(t, "BLOCKED")
  <2>1. Head(readyList) \in Thread /\ Tail(readyList) \in Seq(Thread)
    BY <1>2 DEF TypeOK
  <2> QED
    BY <1>1, <1>2, <2>1, Zenon DEF TypeOK, RunNext, ThreadStatus
<1>3. CASE /\ status' = [status EXCEPT ![t] = "BLOCKED"]
           /\ UNCHANGED <<currentThread, readyList>>
  BY <1>1, <1>3 DEF TypeOK, ThreadStatus
<1> QED
  BY <1>2, <1>3 DEF Sleep

\* ReadyToRun keeps the types.
LEMMA ReadyToRunType ==
    ASSUME TypeOK, NEW t \in Thread, ReadyToRun(t)
    PROVE  /\ status' \in [Thread -> ThreadStatus]
           /\ readyList' \in Seq(Thread)
BY AppendRange DEF TypeOK, ReadyToRun, ThreadStatus

\* Removing the first waiter of a queue keeps the types.
LEMMA DequeueType ==
    ASSUME TypeOK, NEW o \in SynchObject, queue[o] # <<>>,
           queue' = [queue EXCEPT ![o] = Tail(@)]
    PROVE  Head(queue[o]) \in Thread /\ queue' \in [SynchObject -> Seq(Thread)]
<1>1. queue[o] \in Seq(Thread)
  BY DEF TypeOK
<1>2. Head(queue[o]) \in Thread /\ Tail(queue[o]) \in Seq(Thread)
  BY <1>1
<1> QED
  BY <1>2 DEF TypeOK

\* Appending a thread to a queue keeps the types.
LEMMA EnqueueType ==
    ASSUME TypeOK, NEW o \in SynchObject, NEW t \in Thread,
           queue' = [queue EXCEPT ![o] = Append(@, t)]
    PROVE  queue' \in [SynchObject -> Seq(Thread)]
<1>1. Append(queue[o], t) \in Seq(Thread)
  BY DEF TypeOK
<1> QED
  BY <1>1 DEF TypeOK

\* The body of Semaphore::P keeps the types.
LEMMA TryPType ==
    ASSUME TypeOK, NEW t \in Thread, NEW s \in Semaphore, TryP(t, s)
    PROVE  /\ currentThread' \in Thread
           /\ status' \in [Thread -> ThreadStatus]
           /\ readyList' \in Seq(Thread)
           /\ pc' \in [Thread -> Continuation]
           /\ value' \in [Semaphore -> Nat]
           /\ queue' \in [SynchObject -> Seq(Thread)]
<1>1. CASE /\ queue' = [queue EXCEPT ![s] = Append(@, t)]
           /\ Sleep(t, InP(s))
           /\ UNCHANGED value
  <2>1. InP(s) \in Continuation /\ s \in SynchObject
    BY Continuations DEF SynchObject
  <2> QED
    BY <1>1, <2>1, SleepType, EnqueueType DEF TypeOK
<1>2. CASE /\ value[s] > 0
           /\ value' = [value EXCEPT ![s] = @ - 1]
           /\ pc' = [pc EXCEPT ![t] = InCaller]
           /\ UNCHANGED <<currentThread, status, readyList, queue>>
  <2>1. value[s] - 1 \in Nat
    BY <1>2 DEF TypeOK
  <2> QED
    BY <1>2, <2>1, Continuations DEF TypeOK
<1> QED
  BY <1>1, <1>2 DEF TryP

\* The body of Semaphore::V keeps the types.
LEMMA SignalType ==
    ASSUME TypeOK, NEW s \in Semaphore, Signal(s)
    PROVE  /\ status' \in [Thread -> ThreadStatus]
           /\ readyList' \in Seq(Thread)
           /\ value' \in [Semaphore -> Nat]
           /\ queue' \in [SynchObject -> Seq(Thread)]
<1>1. value' \in [Semaphore -> Nat]
  BY DEF TypeOK, Signal
<1>2. CASE queue[s] = <<>>
  BY <1>1, <1>2 DEF Signal, TypeOK
<1>3. CASE queue[s] # <<>>
  <2>1. s \in SynchObject
    BY DEF SynchObject
  <2> QED
    BY <1>1, <1>3, <2>1, DequeueType, ReadyToRunType DEF Signal
<1> QED
  BY <1>2, <1>3

\* After a SWITCH the carcass variables keep their types.
LEMMA DeleteCarcassType ==
    ASSUME TypeOK, DeleteCarcass
    PROVE  /\ threadToBeDestroyed' \in Thread \cup {NULL}
           /\ deleted' \subseteq Thread
BY DEF TypeOK, DeleteCarcass

\* The initial state is typed.
LEMMA TypeInit == Init => TypeOK
<1> SUFFICES ASSUME Init PROVE TypeOK
  OBVIOUS
<1>1. <<>> \in Seq(Thread)
  OBVIOUS
<1> QED
  BY <1>1, ThreadAssumption, Continuations, Zenon DEF Init, TypeOK, ThreadStatus

\* Every action keeps the types.
LEMMA TypeStep == TypeOK /\ [Next]_vars => TypeOK'
<1> SUFFICES ASSUME TypeOK, [Next]_vars PROVE TypeOK'
  OBVIOUS
<1> USE DEF carcassVars, lockVars, deviceVars, threadVars
<1>1. CASE UNCHANGED vars
  BY <1>1 DEF TypeOK, vars
<1>2. ASSUME NEW t \in Thread, NEW child \in Thread, Fork(t, child) PROVE TypeOK'
  BY <1>2, ReadyToRunType, Continuations DEF TypeOK, Fork
<1>3. ASSUME NEW t \in Thread, Yield(t) PROVE TypeOK'
  <2>1. Head(readyList) \in Thread /\ Append(Tail(readyList), t) \in Seq(Thread)
    BY <1>3 DEF Yield, TypeOK
  <2> QED
    BY <1>3, <2>1, Continuations, Zenon DEF TypeOK, Yield, ThreadStatus
<1>4. ASSUME NEW t \in Thread, Finish(t) PROVE TypeOK'
  BY <1>4, SleepType, Continuations DEF TypeOK, Finish
<1>5. ASSUME NEW t \in Thread, StartThread(t) PROVE TypeOK'
  BY <1>5, Continuations DEF TypeOK, StartThread
<1>6. ASSUME NEW t \in Thread, ResumeYield(t) PROVE TypeOK'
  BY <1>6, DeleteCarcassType, Continuations DEF TypeOK, ResumeYield
<1>7. ASSUME NEW t \in Thread, NEW s \in Semaphore, P(t, s) PROVE TypeOK'
  BY <1>7, TryPType DEF TypeOK, P
<1>8. ASSUME NEW t \in Thread, NEW s \in Semaphore, ResumeP(t, s) PROVE TypeOK'
  BY <1>8, TryPType, DeleteCarcassType DEF TypeOK, ResumeP
<1>9. ASSUME NEW t \in Thread, NEW s \in Semaphore, V(t, s) PROVE TypeOK'
  BY <1>9, SignalType DEF TypeOK, V
<1>10. ASSUME NEW t \in Thread, NEW l \in Lock, AcquireFree(t, l) PROVE TypeOK'
  BY <1>10, Zenon DEF TypeOK, AcquireFree
<1>11. ASSUME NEW t \in Thread, NEW l \in Lock, AcquireBusy(t, l) PROVE TypeOK'
  BY <1>11, SleepType, EnqueueType, Continuations
     DEF TypeOK, AcquireBusy, SynchObject
<1>12. ASSUME NEW t \in Thread, NEW l \in Lock, ResumeAcquire(t, l) PROVE TypeOK'
  BY <1>12, DeleteCarcassType, Continuations DEF TypeOK, ResumeAcquire
<1>13. ASSUME NEW t \in Thread, NEW l \in Lock, Release(t, l) PROVE TypeOK'
  <2>1. held' \in [Thread -> SUBSET Lock]
    BY <1>13 DEF TypeOK, Release
  <2>2. CASE queue[l] = <<>>
    BY <1>13, <2>1, <2>2, Zenon DEF TypeOK, Release
  <2>3. CASE queue[l] # <<>>
    <3>1. l \in SynchObject
      BY DEF SynchObject
    <3>2. Head(queue[l]) \in Thread /\ queue' \in [SynchObject -> Seq(Thread)]
      BY <1>13, <2>3, <3>1, DequeueType DEF Release
    <3>3. /\ status' \in [Thread -> ThreadStatus]
          /\ readyList' \in Seq(Thread)
      BY <1>13, <2>3, <3>2, ReadyToRunType DEF Release
    <3> QED
      BY <1>13, <2>1, <2>3, <3>2, <3>3, Zenon DEF TypeOK, Release
  <2> QED
    BY <2>2, <2>3
<1>14. ASSUME NEW t \in Thread, NEW d \in Device, Schedule(t, d) PROVE TypeOK'
  BY <1>14 DEF TypeOK, Schedule
<1>15. ASSUME NEW d \in Device, DeviceInterrupt(d) PROVE TypeOK'
  <2>1. d \in Semaphore
    BY ThreadAssumption
  <2>2. pendingIO' \in [Device -> Nat]
    BY <1>15 DEF TypeOK, DeviceInterrupt
  <2> QED
    BY <1>15, <2>1, <2>2, SignalType DEF TypeOK, DeviceInterrupt
<1>16. CASE WakeFromIdle
  <2>1. Head(readyList) \in Thread /\ Tail(readyList) \in Seq(Thread)
    BY <1>16 DEF WakeFromIdle, TypeOK
  <2> QED
    BY <1>16, <2>1, Zenon DEF TypeOK, WakeFromIdle, RunNext, ThreadStatus
<1>17. CASE Halt
  BY <1>17 DEF TypeOK, Halt
<1> QED
  BY <1>1, <1>2, <1>3, <1>4, <1>5, <1>6, <1>7, <1>8, <1>9, <1>10, <1>11, <1>12,
     <1>13, <1>14, <1>15, <1>16, <1>17 DEF Next, Resume, Call

\* In every behaviour all variables keep their types; in particular no
\* Semaphore::value becomes negative, however P, V and handlers interleave.
THEOREM TypeCorrect == Spec => []TypeOK
<1>1. Init => TypeOK
  BY TypeInit
<1>2. TypeOK /\ [Next]_vars => TypeOK'
  BY TypeStep
<1> QED
  BY <1>1, <1>2, PTL DEF Spec

-----------------------------------------------------------------------------
(* Placement: every thread is in exactly one place *)

\* The two queue operations, as they change where threads are.  A sleeper of
\* object o is taken off its queue and becomes ready.
LEMMA WakeFirst ==
    ASSUME TypeOK, ThreadPlacement, NEW o \in SynchObject, queue[o] # <<>>,
           queue' = [queue EXCEPT ![o] = Tail(@)],
           ReadyToRun(Head(queue[o])),
           UNCHANGED <<currentThread, pc>>
    PROVE  /\ ThreadPlacement'
           /\ Head(queue[o]) \in Thread
           /\ status[Head(queue[o])] = "BLOCKED"
           /\ pc[Head(queue[o])].object = o
<1> DEFINE h == Head(queue[o])
<1>1. /\ h \in Thread /\ h \in Range(queue[o])
      /\ Tail(queue[o]) \in Seq(Thread)
      /\ Range(Tail(queue[o])) = Range(queue[o]) \ {h}
      /\ NoDuplicates(Tail(queue[o]))
  BY TailRange DEF TypeOK, ThreadPlacement
<1>2. status[h] = "BLOCKED" /\ pc[h].object = o
  BY <1>1 DEF ThreadPlacement
<1>3. h \notin Range(readyList)
  BY <1>1, <1>2 DEF ThreadPlacement
<1>4. /\ Range(readyList') = Range(readyList) \cup {h}
      /\ NoDuplicates(readyList')
  BY <1>1, <1>3, AppendRange, AppendNoDuplicates
     DEF TypeOK, ReadyToRun, ThreadPlacement
<1>5. /\ status' = [status EXCEPT ![h] = "READY"]
      /\ status \in [Thread -> ThreadStatus]
  BY DEF ReadyToRun, TypeOK
<1>6. \A x \in SynchObject : NoDuplicates(queue'[x])
  BY <1>1 DEF ThreadPlacement, TypeOK
<1>7. ASSUME NEW t \in Thread
      PROVE  /\ status'[t] = "READY" <=> t \in Range(readyList')
             /\ status'[t] = "RUNNING" => t = currentThread'
  BY <1>2, <1>4, <1>5 DEF ThreadPlacement
<1>8. ASSUME NEW t \in Thread, NEW x \in SynchObject
      PROVE  t \in Range(queue'[x]) <=>
                 status'[t] = "BLOCKED" /\ pc'[t].object = x
  <2>1. CASE x = o
    <3>1. queue'[x] = Tail(queue[o])
      BY <2>1 DEF TypeOK
    <3> QED
      BY <2>1, <3>1, <1>1, <1>2, <1>5 DEF ThreadPlacement
  <2>2. CASE x # o
    <3>1. queue'[x] = queue[x]
      BY <2>2 DEF TypeOK
    <3> QED
      BY <2>2, <3>1, <1>1, <1>2, <1>5 DEF ThreadPlacement
  <2> QED
    BY <2>1, <2>2
<1>9. ThreadPlacement'
  BY <1>4, <1>6, <1>7, <1>8 DEF ThreadPlacement
<1> QED
  BY <1>1, <1>2, <1>9

\* The running thread t goes to sleep in the routine w, having queued itself
\* on the object of w, or nowhere (Finish).
LEMMA SleepPlacement ==
    ASSUME TypeOK, ThreadPlacement, NEW t \in Thread, NEW w \in Continuation,
           status[t] = "RUNNING", t = currentThread, Sleep(t, w),
           \/ w.object \notin SynchObject /\ UNCHANGED queue
           \/ /\ w.object \in SynchObject
              /\ queue' = [queue EXCEPT ![w.object] = Append(@, t)]
    PROVE  ThreadPlacement'
<1>1. \A x \in SynchObject : /\ t \notin Range(queue[x])
                             /\ queue[x] \in Seq(Thread)
                             /\ NoDuplicates(queue[x])
  BY DEF ThreadPlacement, TypeOK
<1>2. \A x \in SynchObject :
          /\ NoDuplicates(queue'[x])
          /\ Range(queue'[x]) =
                 IF x = w.object THEN Range(queue[x]) \cup {t} ELSE Range(queue[x])
  <2> SUFFICES ASSUME NEW x \in SynchObject
               PROVE  /\ NoDuplicates(queue'[x])
                      /\ Range(queue'[x]) =
                           IF x = w.object THEN Range(queue[x]) \cup {t}
                           ELSE Range(queue[x])
    BY Zenon
  <2>1. CASE x = w.object
    <3>1. queue'[x] = Append(queue[x], t)
      BY <2>1 DEF TypeOK
    <3> QED
      BY <2>1, <3>1, <1>1, AppendRange, AppendNoDuplicates
  <2>2. CASE x # w.object
    <3>1. queue'[x] = queue[x]
      BY <2>2 DEF TypeOK
    <3> QED
      BY <2>2, <3>1, <1>1
  <2> QED
    BY <2>1, <2>2
<1>3. pc' = [pc EXCEPT ![t] = w] /\ pc \in [Thread -> Continuation]
  BY DEF Sleep, TypeOK
<1>4. CASE readyList = <<>>
  <2>1. /\ status' = [status EXCEPT ![t] = "BLOCKED"]
        /\ status \in [Thread -> ThreadStatus]
        /\ UNCHANGED <<currentThread, readyList>>
    BY <1>4 DEF Sleep, TypeOK
  <2>2. NoDuplicates(readyList')
    BY <2>1 DEF ThreadPlacement
  <2>3. ASSUME NEW u \in Thread
        PROVE  /\ status'[u] = "READY" <=> u \in Range(readyList')
               /\ status'[u] = "RUNNING" => u = currentThread'
    BY <2>1 DEF ThreadPlacement
  <2>4. ASSUME NEW u \in Thread, NEW o \in SynchObject
        PROVE  u \in Range(queue'[o]) <=>
                   status'[u] = "BLOCKED" /\ pc'[u].object = o
    <3>1. CASE u = t
      <4>1. status'[u] = "BLOCKED" /\ pc'[u] = w
        BY <3>1, <1>3, <2>1
      <4> QED
        BY <3>1, <4>1, <1>1, <1>2, Zenon
    <3>2. CASE u # t
      <4>1. status'[u] = status[u] /\ pc'[u] = pc[u]
        BY <3>2, <1>3, <2>1
      <4>2. u \in Range(queue'[o]) <=> u \in Range(queue[o])
        BY <3>2, <1>2, Zenon
      <4> QED
        BY <4>1, <4>2 DEF ThreadPlacement
    <3> QED
      BY <3>1, <3>2
  <2> QED
    BY <1>2, <2>2, <2>3, <2>4, Zenon DEF ThreadPlacement
<1>5. CASE readyList # <<>>
  <2> DEFINE n == Head(readyList)
  <2>1. /\ status' = [status EXCEPT ![t] = "BLOCKED", ![n] = "RUNNING"]
        /\ status \in [Thread -> ThreadStatus]
        /\ currentThread' = n
        /\ readyList' = Tail(readyList)
    BY <1>5 DEF Sleep, RunNext, TypeOK
  <2>2. /\ n \in Thread /\ n \in Range(readyList)
        /\ Range(readyList') = Range(readyList) \ {n}
        /\ NoDuplicates(readyList')
    BY <1>5, <2>1, TailRange DEF ThreadPlacement, TypeOK
  <2>3. status[n] = "READY" /\ n # t
    BY <2>2 DEF ThreadPlacement
  <2> HIDE DEF n
  <2>4. ASSUME NEW u \in Thread
        PROVE  /\ status'[u] = "READY" <=> u \in Range(readyList')
               /\ status'[u] = "RUNNING" => u = currentThread'
    BY <2>1, <2>2, <2>3 DEF ThreadPlacement
  <2>5. ASSUME NEW u \in Thread, NEW o \in SynchObject
        PROVE  u \in Range(queue'[o]) <=>
                   status'[u] = "BLOCKED" /\ pc'[u].object = o
    <3>1. CASE u = t
      <4>1. status'[u] = "BLOCKED" /\ pc'[u] = w
        BY <3>1, <1>3, <2>1, <2>3
      <4> QED
        BY <3>1, <4>1, <1>1, <1>2, Zenon
    <3>2. CASE u # t
      <4>1. /\ status'[u] = "BLOCKED" <=> status[u] = "BLOCKED"
            /\ pc'[u] = pc[u]
        BY <3>2, <1>3, <2>1, <2>2, <2>3
      <4>2. u \in Range(queue'[o]) <=> u \in Range(queue[o])
        BY <3>2, <1>2, Zenon
      <4> QED
        BY <4>1, <4>2 DEF ThreadPlacement
    <3> QED
      BY <3>1, <3>2
  <2> QED
    BY <1>2, <2>2, <2>4, <2>5, Zenon DEF ThreadPlacement
<1> QED
  BY <1>4, <1>5

\* A running thread that only moves on in its code stays where it is.
LEMMA MovePlacement ==
    ASSUME TypeOK, ThreadPlacement, NEW t \in Thread, status[t] = "RUNNING",
           NEW w, pc' = [pc EXCEPT ![t] = w],
           UNCHANGED <<currentThread, status, readyList, queue>>
    PROVE  ThreadPlacement'
<1>1. ASSUME NEW u \in Thread, NEW o \in SynchObject
      PROVE  u \in Range(queue'[o]) <=>
                 status'[u] = "BLOCKED" /\ pc'[u].object = o
  BY DEF ThreadPlacement, TypeOK
<1> QED
  BY <1>1 DEF ThreadPlacement

\* One pass of the loop of P by the thread on the CPU.
LEMMA TryPPlacement ==
    ASSUME TypeOK, ThreadPlacement, NEW t \in Thread, NEW s \in Semaphore,
           status[t] = "RUNNING", t = currentThread, TryP(t, s)
    PROVE  ThreadPlacement'
<1>1. CASE queue' = [queue EXCEPT ![s] = Append(@, t)] /\ Sleep(t, InP(s))
  <2>1. /\ InP(s) \in Continuation
        /\ InP(s).object = s
        /\ s \in SynchObject
    BY Continuations DEF InP, At, SynchObject
  <2> HIDE DEF InP
  <2> QED
    BY <1>1, <2>1, SleepPlacement, Zenon
<1>2. CASE /\ pc' = [pc EXCEPT ![t] = InCaller]
           /\ UNCHANGED <<currentThread, status, readyList, queue>>
  BY <1>2, MovePlacement, Zenon
<1> QED
  BY <1>1, <1>2 DEF TryP

\* The body of V, whoever calls it.
LEMMA SignalPlacement ==
    ASSUME TypeOK, ThreadPlacement, NEW s \in Semaphore, Signal(s),
           UNCHANGED <<currentThread, pc>>
    PROVE  ThreadPlacement'
<1>1. CASE queue[s] # <<>>
  BY <1>1, WakeFirst DEF Signal, SynchObject
<1>2. CASE queue[s] = <<>>
  BY <1>2 DEF Signal, ThreadPlacement
<1> QED
  BY <1>1, <1>2

\* Initially only the main thread exists, and it is running.
LEMMA PlacementInit == Init => ThreadPlacement
<1> SUFFICES ASSUME Init PROVE ThreadPlacement
  OBVIOUS
<1>1. \A t \in Thread : status[t] \in {"RUNNING", "UNBORN"}
  BY DEF Init
<1>2. \A t \in Thread : status[t] = "RUNNING" => t = currentThread
  BY DEF Init
<1>3. \A o \in SynchObject : queue[o] = <<>>
  BY DEF Init
<1> QED
  BY <1>1, <1>2, <1>3, EmptyRange DEF Init, ThreadPlacement

\* Every action keeps every thread in one place.
LEMMA PlacementStep == TypeOK /\ ThreadPlacement /\ [Next]_vars => ThreadPlacement'
<1> SUFFICES ASSUME TypeOK, ThreadPlacement, [Next]_vars PROVE ThreadPlacement'
  OBVIOUS
<1> USE DEF carcassVars, lockVars, deviceVars, threadVars, Running, Switched
<1>1. CASE UNCHANGED <<currentThread, status, readyList, pc, queue>>
  BY <1>1 DEF ThreadPlacement
<1>2. ASSUME NEW t \in Thread, NEW child \in Thread, Fork(t, child)
      PROVE  ThreadPlacement'
  <2>1. child \notin Range(readyList)
    BY <1>2 DEF Fork, ThreadPlacement
  <2>2. /\ Range(readyList') = Range(readyList) \cup {child}
        /\ NoDuplicates(readyList')
    BY <1>2, <2>1, AppendRange, AppendNoDuplicates
       DEF Fork, ReadyToRun, TypeOK, ThreadPlacement
  <2>3. /\ status' = [status EXCEPT ![child] = "READY"]
        /\ pc' = [pc EXCEPT ![child] = AtThreadRoot]
        /\ status \in [Thread -> ThreadStatus]
        /\ pc \in [Thread -> Continuation]
        /\ status[child] = "UNBORN"
        /\ UNCHANGED <<currentThread, queue>>
    BY <1>2, Zenon DEF Fork, ReadyToRun, TypeOK
  <2>4. ASSUME NEW u \in Thread
        PROVE  /\ status'[u] = "READY" <=> u \in Range(readyList')
               /\ status'[u] = "RUNNING" => u = currentThread'
    BY <2>2, <2>3 DEF ThreadPlacement
  <2>5. ASSUME NEW u \in Thread, NEW o \in SynchObject
        PROVE  u \in Range(queue'[o]) <=>
                   status'[u] = "BLOCKED" /\ pc'[u].object = o
    BY <2>3 DEF ThreadPlacement
  <2> QED
    BY <2>2, <2>3, <2>4, <2>5, Zenon DEF ThreadPlacement
<1>3. ASSUME NEW t \in Thread, Yield(t) PROVE ThreadPlacement'
  <2> DEFINE n == Head(readyList)
  <2>1. /\ n \in Thread /\ n \in Range(readyList)
        /\ Tail(readyList) \in Seq(Thread)
        /\ Range(Tail(readyList)) = Range(readyList) \ {n}
        /\ NoDuplicates(Tail(readyList))
    BY <1>3, TailRange DEF Yield, ThreadPlacement, TypeOK
  <2>2. /\ status[t] = "RUNNING" /\ t = currentThread
        /\ status' = [status EXCEPT ![t] = "READY", ![n] = "RUNNING"]
        /\ status \in [Thread -> ThreadStatus]
        /\ pc' = [pc EXCEPT ![t] = InYield]
        /\ pc \in [Thread -> Continuation]
        /\ currentThread' = n
        /\ readyList' = Append(Tail(readyList), t)
        /\ UNCHANGED queue
    BY <1>3, Zenon DEF Yield, TypeOK
  <2>3. /\ status[n] = "READY" /\ n # t
        /\ t \notin Range(Tail(readyList))
    BY <2>1, <2>2 DEF ThreadPlacement
  <2>4. /\ Range(readyList') = (Range(readyList) \ {n}) \cup {t}
        /\ NoDuplicates(readyList')
    <3>1. /\ Range(Append(Tail(readyList), t)) = Range(Tail(readyList)) \cup {t}
          /\ NoDuplicates(Append(Tail(readyList), t))
      BY <2>1, <2>3, AppendRange, AppendNoDuplicates, ZenonT(30)
    <3> QED
      BY <3>1, <2>1, <2>2
  <2> HIDE DEF n
  <2>5. ASSUME NEW u \in Thread
        PROVE  /\ status'[u] = "READY" <=> u \in Range(readyList')
               /\ status'[u] = "RUNNING" => u = currentThread'
    BY <2>1, <2>2, <2>3, <2>4 DEF ThreadPlacement
  <2>6. ASSUME NEW u \in Thread, NEW o \in SynchObject
        PROVE  u \in Range(queue'[o]) <=>
                   status'[u] = "BLOCKED" /\ pc'[u].object = o
    BY <2>1, <2>2, <2>3 DEF ThreadPlacement
  <2> QED
    BY <2>2, <2>4, <2>5, <2>6 DEF ThreadPlacement
<1>4. ASSUME NEW t \in Thread, Finish(t) PROVE ThreadPlacement'
  <2>1. /\ InFinish \in Continuation
        /\ InFinish.object \notin SynchObject
    BY Continuations, ThreadAssumption DEF InFinish, At, SynchObject
  <2> QED
    BY <1>4, <2>1, SleepPlacement DEF Finish
<1>5. ASSUME NEW t \in Thread, StartThread(t) PROVE ThreadPlacement'
  BY <1>5, MovePlacement, Zenon DEF StartThread
<1>6. ASSUME NEW t \in Thread, ResumeYield(t) PROVE ThreadPlacement'
  BY <1>6, MovePlacement, Zenon DEF ResumeYield
<1>7. ASSUME NEW t \in Thread, NEW s \in Semaphore, P(t, s) \/ ResumeP(t, s)
      PROVE  ThreadPlacement'
  BY <1>7, TryPPlacement DEF P, ResumeP
<1>8. ASSUME NEW t \in Thread, NEW s \in Semaphore, V(t, s)
      PROVE  ThreadPlacement'
  BY <1>8, SignalPlacement DEF V
<1>9. ASSUME NEW t \in Thread, NEW l \in Lock, AcquireBusy(t, l)
      PROVE  ThreadPlacement'
  <2>1. /\ InAcquire(l) \in Continuation
        /\ InAcquire(l).object = l
        /\ l \in SynchObject
    BY Continuations DEF InAcquire, At, SynchObject
  <2> QED
    BY <1>9, <2>1, SleepPlacement, Zenon DEF AcquireBusy
<1>10. ASSUME NEW t \in Thread, NEW l \in Lock, ResumeAcquire(t, l)
       PROVE  ThreadPlacement'
  BY <1>10, MovePlacement, Zenon DEF ResumeAcquire
<1>11. ASSUME NEW t \in Thread, NEW l \in Lock, Release(t, l)
       PROVE  ThreadPlacement'
  <2>1. CASE queue[l] # <<>>
    BY <1>11, <2>1, WakeFirst DEF Release, SynchObject
  <2>2. CASE queue[l] = <<>>
    BY <1>11, <2>2, <1>1 DEF Release
  <2> QED
    BY <2>1, <2>2
<1>12. ASSUME NEW d \in Device, DeviceInterrupt(d) PROVE ThreadPlacement'
  BY <1>12, SignalPlacement, ThreadAssumption DEF DeviceInterrupt
<1>13. CASE WakeFromIdle
  <2> DEFINE n == Head(readyList)
             c == currentThread
  <2>1. /\ n \in Thread /\ n \in Range(readyList)
        /\ Range(Tail(readyList)) = Range(readyList) \ {n}
        /\ NoDuplicates(Tail(readyList))
    BY <1>13, TailRange DEF WakeFromIdle, ThreadPlacement, TypeOK
  <2>2. /\ status[c] # "RUNNING"
        /\ status' = [status EXCEPT ![c] = status[c], ![n] = "RUNNING"]
        /\ status \in [Thread -> ThreadStatus]
        /\ currentThread' = n
        /\ readyList' = Tail(readyList)
        /\ UNCHANGED <<pc, queue>>
    BY <1>13 DEF WakeFromIdle, RunNext, Idling, TypeOK
  <2>3. status[n] = "READY"
    BY <2>1 DEF ThreadPlacement
  <2>4. \A u \in Thread : status'[u] = IF u = n THEN "RUNNING" ELSE status[u]
    BY <2>1, <2>2
  <2> HIDE DEF n
  <2>5. ASSUME NEW u \in Thread
        PROVE  /\ status'[u] = "READY" <=> u \in Range(readyList')
               /\ status'[u] = "RUNNING" => u = currentThread'
    BY <2>1, <2>2, <2>3, <2>4 DEF ThreadPlacement
  <2>6. ASSUME NEW u \in Thread, NEW o \in SynchObject
        PROVE  u \in Range(queue'[o]) <=>
                   status'[u] = "BLOCKED" /\ pc'[u].object = o
    BY <2>1, <2>2, <2>3, <2>4 DEF ThreadPlacement
  <2> QED
    BY <2>1, <2>2, <2>5, <2>6 DEF ThreadPlacement
<1>14. ASSUME NEW t \in Thread, NEW l \in Lock, AcquireFree(t, l)
       PROVE  ThreadPlacement'
  BY <1>14, <1>1 DEF AcquireFree
<1>15. ASSUME NEW t \in Thread, NEW d \in Device, Schedule(t, d)
       PROVE  ThreadPlacement'
  BY <1>15, <1>1 DEF Schedule
<1>16. CASE Halt \/ UNCHANGED vars
  BY <1>16, <1>1 DEF Halt, vars
<1> QED
  BY <1>2, <1>3, <1>4, <1>5, <1>6, <1>7, <1>8, <1>9, <1>10, <1>11, <1>12,
     <1>13, <1>14, <1>15, <1>16 DEF Next, Resume, Call

\* No thread is ever lost, queued twice or run while it is queued.
THEOREM PlacementCorrect == Spec => []ThreadPlacement
<1>1. Init => TypeOK /\ ThreadPlacement
  BY TypeInit, PlacementInit
<1>2. TypeOK /\ ThreadPlacement /\ [Next]_vars => (TypeOK /\ ThreadPlacement)'
  BY TypeStep, PlacementStep
<1> QED
  BY <1>1, <1>2, PTL DEF Spec
==============================================================================
