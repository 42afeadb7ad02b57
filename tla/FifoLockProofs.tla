--------------------------- MODULE FifoLockProofs ---------------------------
(***************************************************************************)
(* The locks of Threads implement FifoLock.                                *)
(***************************************************************************)
EXTENDS LockProofs, SequenceTheorems

\* The queue operations with the new owner put in front of the queue.
LEMMA ConsFacts ==
    ASSUME NEW S, NEW q \in Seq(S), NEW x \in S
    PROVE  /\ <<x>> \o q \in Seq(S)
           /\ <<x>> \o q # <<>>
           /\ Head(<<x>> \o q) = x
           /\ Tail(<<x>> \o q) = q
           /\ \A y \in S : <<x>> \o Append(q, y) = Append(<<x>> \o q, y)
           /\ q # <<>> => <<Head(q)>> \o Tail(q) = q
<1>1. /\ <<x>> \o q \in Seq(S)
      /\ Len(<<x>> \o q) = Len(q) + 1
      /\ \A i \in 1..(Len(q) + 1) :
            (<<x>> \o q)[i] = IF i <= 1 THEN x ELSE q[i - 1]
  <2>1. <<x>> \in Seq(S) /\ Len(<<x>>) = 1 /\ <<x>>[1] = x /\ Len(q) \in Nat
    OBVIOUS
  <2>2. /\ <<x>> \o q \in Seq(S)
        /\ Len(<<x>> \o q) = 1 + Len(q)
        /\ \A i \in 1..(1 + Len(q)) :
              (<<x>> \o q)[i] = IF i <= 1 THEN <<x>>[i] ELSE q[i - 1]
    BY <2>1, ConcatProperties
  <2> QED
    BY <2>1, <2>2
<1>2. Len(q) \in Nat /\ DOMAIN q = 1..Len(q)
  OBVIOUS
<1>3. <<x>> \o q # <<>> /\ Head(<<x>> \o q) = x
  BY <1>1, <1>2
<1>4. Tail(<<x>> \o q) = q
  <2>1. /\ Tail(<<x>> \o q) \in Seq(S)
        /\ Len(Tail(<<x>> \o q)) = Len(q)
        /\ \A i \in 1..Len(q) : Tail(<<x>> \o q)[i] = (<<x>> \o q)[i + 1]
    BY <1>1, <1>2, <1>3, HeadTailProperties
  <2>2. \A i \in 1..Len(q) : Tail(<<x>> \o q)[i] = q[i]
    BY <1>1, <1>2, <2>1
  <2> QED
    BY <1>2, <2>1, <2>2
<1>6. ASSUME NEW y \in S PROVE <<x>> \o Append(q, y) = Append(<<x>> \o q, y)
  <2>1. /\ Append(q, y) = q \o <<y>>
        /\ Append(<<x>> \o q, y) = (<<x>> \o q) \o <<y>>
    BY <1>1, AppendIsConcat
  <2>2. <<x>> \in Seq(S) /\ <<y>> \in Seq(S)
    OBVIOUS
  <2> QED
    BY <2>1, <2>2, ConcatAssociative
<1>7. ASSUME q # <<>> PROVE <<Head(q)>> \o Tail(q) = q
  <2>1. /\ Head(q) \in S /\ Head(q) = q[1] /\ Len(q) >= 1
        /\ Tail(q) \in Seq(S)
        /\ Len(Tail(q)) = Len(q) - 1
        /\ \A i \in 1..(Len(q) - 1) : Tail(q)[i] = q[i + 1]
    BY <1>2, <1>7, HeadTailProperties
  <2>2. /\ <<Head(q)>> \in Seq(S)
        /\ Len(<<Head(q)>>) = 1
        /\ <<Head(q)>>[1] = q[1]
    BY <2>1
  <2>3. /\ <<Head(q)>> \o Tail(q) \in Seq(S)
        /\ Len(<<Head(q)>> \o Tail(q)) = 1 + (Len(q) - 1)
        /\ \A i \in 1..(1 + (Len(q) - 1)) :
              (<<Head(q)>> \o Tail(q))[i] =
                  IF i <= 1 THEN <<Head(q)>>[i] ELSE Tail(q)[i - 1]
    BY <2>1, <2>2, ConcatProperties
  <2>4. \A i \in 1..Len(q) : (<<Head(q)>> \o Tail(q))[i] = q[i]
    <3> TAKE i \in 1..Len(q)
    <3>1. CASE i = 1
      BY <1>2, <2>1, <2>2, <2>3, <3>1
    <3>2. CASE i # 1
      <4>1. i - 1 \in 1..(Len(q) - 1) /\ (i - 1) + 1 = i /\ ~(i <= 1)
        BY <1>2, <3>2
      <4> QED
        BY <1>2, <2>1, <2>3, <4>1
    <3> QED
      BY <3>1, <3>2
  <2>5. Len(<<Head(q)>> \o Tail(q)) = Len(q)
    BY <1>2, <2>3
  <2> QED
    BY <1>2, <2>3, <2>4, <2>5
<1> QED
  BY <1>1, <1>3, <1>4, <1>6, <1>7

\* And it holds nothing but the new owner and what the queue holds.
LEMMA ConsRange ==
    ASSUME NEW S, NEW q \in Seq(S), NEW x \in S, NEW y, y \notin Range(q), y # x
    PROVE  y \notin Range(<<x>> \o q)
<1>1. <<x>> \in Seq(S) /\ Len(<<x>>) = 1 /\ <<x>>[1] = x /\ Len(q) \in Nat
  OBVIOUS
<1>2. /\ <<x>> \o q \in Seq(S)
      /\ Len(<<x>> \o q) = 1 + Len(q)
      /\ \A i \in 1..(1 + Len(q)) :
            (<<x>> \o q)[i] = IF i <= 1 THEN <<x>>[i] ELSE q[i - 1]
  BY <1>1, ConcatProperties
<1>3. DOMAIN (<<x>> \o q) = 1..(1 + Len(q)) /\ DOMAIN q = 1..Len(q)
  BY <1>2
<1> SUFFICES ASSUME NEW i \in 1..(1 + Len(q)) PROVE (<<x>> \o q)[i] # y
  BY <1>3 DEF Range
<1>4. CASE i = 1
  BY <1>1, <1>2, <1>4
<1>5. CASE i # 1
  <2>1. i - 1 \in 1..Len(q) /\ ~(i <= 1)
    BY <1>1, <1>5
  <2>2. q[i - 1] # y
    BY <1>3, <2>1 DEF Range
  <2> QED
    BY <1>2, <2>1, <2>2
<1> QED
  BY <1>4, <1>5

\* A thread inside Acquire does not hold the lock it waits for.
WaiterHoldsNot ==
    \A t \in Thread, l \in Lock : pc[t] = InAcquire(l) => l \notin held[t]

\* Every step keeps WaiterHoldsNot: Acquire returns before the caller holds.
LEMMA WaiterStep ==
    Placed /\ LockHandoff /\ WaiterHoldsNot /\ [Next]_vars => WaiterHoldsNot'
<1> SUFFICES ASSUME TypeOK, ThreadPlacement, LockHandoff, WaiterHoldsNot,
                    [Next]_vars
             PROVE  WaiterHoldsNot'
  BY DEF Placed
<1> USE DEF carcassVars, lockVars, deviceVars, threadVars, Running, Switched
<1>0. pc \in [Thread -> Continuation] /\ held \in [Thread -> SUBSET Lock]
  BY DEF TypeOK
<1>1. CASE UNCHANGED <<pc, held>>
  BY <1>1 DEF WaiterHoldsNot
<1>2. ASSUME NEW t \in Thread, NEW w, pc' = [pc EXCEPT ![t] = w],
             \A l \in Lock : w # InAcquire(l),
             \A u \in Thread \ {t} : held'[u] = held[u]
      PROVE  WaiterHoldsNot'
  BY <1>0, <1>2 DEF WaiterHoldsNot
<1>3. /\ \A l \in Lock : /\ InCaller # InAcquire(l)
                         /\ AtThreadRoot # InAcquire(l)
                         /\ InYield # InAcquire(l)
                         /\ InFinish # InAcquire(l)
      /\ \A l \in Lock, s \in Semaphore : InP(s) # InAcquire(l)
      /\ \A l \in Lock, x \in Lock : InAcquire(x) = InAcquire(l) => x = l
  BY Distinct
<1>4. ASSUME NEW t \in Thread, NEW child \in Thread, Fork(t, child)
      PROVE  WaiterHoldsNot'
  BY <1>2, <1>3, <1>4, Zenon DEF Fork
<1>5. ASSUME NEW t \in Thread,
             Yield(t) \/ Finish(t) \/ StartThread(t) \/ ResumeYield(t)
      PROVE  WaiterHoldsNot'
  <2>1. CASE Yield(t)
    BY <1>2, <1>3, <2>1, Zenon DEF Yield
  <2>2. CASE Finish(t)
    BY <1>2, <1>3, <2>2, Zenon DEF Finish, Sleep
  <2>3. CASE StartThread(t) \/ ResumeYield(t)
    BY <1>2, <1>3, <2>3 DEF StartThread, ResumeYield
  <2> QED
    BY <1>5, <2>1, <2>2, <2>3
<1>6. ASSUME NEW t \in Thread, NEW s \in Semaphore, P(t, s) \/ ResumeP(t, s)
      PROVE  WaiterHoldsNot'
  <2>1. TryP(t, s) /\ UNCHANGED held
    BY <1>6 DEF P, ResumeP
  <2>2. pc' = [pc EXCEPT ![t] = InP(s)] \/ pc' = [pc EXCEPT ![t] = InCaller]
    BY <2>1 DEF TryP, Sleep
  <2> QED
    BY <1>2, <1>3, <2>1, <2>2
<1>7. ASSUME NEW t \in Thread, NEW l \in Lock, AcquireFree(t, l)
      PROVE  WaiterHoldsNot'
  BY <1>0, <1>3, <1>7 DEF AcquireFree, WaiterHoldsNot
<1>8. ASSUME NEW t \in Thread, NEW l \in Lock, AcquireBusy(t, l)
      PROVE  WaiterHoldsNot'
  <2>1. /\ pc' = [pc EXCEPT ![t] = InAcquire(l)]
        /\ ownerThread[l] # t
        /\ UNCHANGED held
    BY <1>8 DEF AcquireBusy, Sleep, isHeldByCurrentThread
  <2>2. l \notin held[t]
    BY <2>1 DEF LockHandoff
  <2> QED
    BY <1>0, <1>3, <2>1, <2>2 DEF WaiterHoldsNot
<1>9. ASSUME NEW t \in Thread, NEW l \in Lock, ResumeAcquire(t, l)
      PROVE  WaiterHoldsNot'
  BY <1>0, <1>2, <1>3, <1>9, Zenon DEF ResumeAcquire
<1>10. ASSUME NEW t \in Thread, NEW l \in Lock, Release(t, l)
       PROVE  WaiterHoldsNot'
  BY <1>0, <1>10 DEF Release, WaiterHoldsNot
<1>11. ASSUME NEW t \in Thread, NEW s \in Semaphore, V(t, s)
       PROVE  WaiterHoldsNot'
  BY <1>1, <1>11 DEF V
<1>12. ASSUME NEW d \in Device,
              DeviceInterrupt(d) \/ \E t \in Thread : Schedule(t, d)
       PROVE  WaiterHoldsNot'
  BY <1>1, <1>12 DEF DeviceInterrupt, Schedule
<1>13. CASE WakeFromIdle \/ Halt \/ UNCHANGED vars
  BY <1>1, <1>13 DEF WakeFromIdle, Halt, vars
<1> QED
  BY <1>4, <1>5, <1>6, <1>7, <1>8, <1>9, <1>10, <1>11, <1>12, <1>13, Zenon
     DEF Next, Resume, Call

-----------------------------------------------------------------------------
(* The refinement mapping *)

LockInv == Placed /\ LockHandoff /\ WaiterHoldsNot

\* The abstract holder is the owner, except while the owner has yet to return
\* from Acquire.
LEMMA HolderFacts ==
    ASSUME LockInv, NEW l \in Lock
    PROVE  /\ \A t \in Thread : l \in held[t] => Holder(l) = t /\ ownerThread[l] = t
           /\ (\A t \in Thread : l \notin held[t]) => Holder(l) = NULL
           /\ Holder(l) # NULL => Holder(l) = ownerThread[l]
           /\ Holder(l) # NULL => l \in held[Holder(l)]
<1>1. \A t \in Thread : l \in held[t] => ownerThread[l] = t
  BY DEF LockInv, LockHandoff
<1> QED
  BY <1>1 DEF Holder

\* The facts about the holder also hold after a step.
LEMMA HolderFactsNext ==
    ASSUME LockInv', NEW l \in Lock
    PROVE  /\ \A t \in Thread : l \in held'[t] => Holder(l)' = t /\ ownerThread'[l] = t
           /\ (\A t \in Thread : l \notin held'[t]) => Holder(l)' = NULL
           /\ Holder(l)' # NULL => Holder(l)' = ownerThread'[l]
           /\ Holder(l)' # NULL => l \in held'[Holder(l)']
<1>1. \A t \in Thread : l \in held'[t] => ownerThread'[l] = t
  BY DEF LockInv, LockHandoff
<1> QED
  BY <1>1 DEF Holder

\* A lock that a step does not touch looks the same to the abstract lock.
LEMMA Untouched ==
    ASSUME NEW l \in Lock, UNCHANGED <<queue[l], ownerThread[l]>>,
           \A t \in Thread : l \in held'[t] <=> l \in held[t]
    PROVE  Holder(l)' = Holder(l) /\ Waiting(l)' = Waiting(l)
<1>1. Holder(l)' = Holder(l)
  BY Zenon DEF Holder
<1> QED
  BY <1>1 DEF Waiting

\* Every step of Threads is a step of FifoLock or leaves it as it is.
LEMMA RefinementStep ==
    LockInv /\ LockInv' /\ [Next]_vars => [Abstract!Next]_(Abstract!vars)
<1> SUFFICES ASSUME LockInv, LockInv', [Next]_vars
             PROVE  [Abstract!Next]_(Abstract!vars)
  OBVIOUS
<1> USE DEF carcassVars, lockVars, deviceVars, threadVars, Running, Switched
<1>0. /\ held \in [Thread -> SUBSET Lock]
      /\ ownerThread \in [Lock -> Thread \cup {NULL}]
      /\ queue \in [SynchObject -> Seq(Thread)]
      /\ \A l \in Lock : l \in SynchObject /\ l \notin Semaphore
      /\ NULL \notin Thread
  BY ThreadAssumption DEF LockInv, Placed, TypeOK, SynchObject
\* No lock is touched.
<1>1. ASSUME \A l \in Lock : /\ UNCHANGED <<queue[l], ownerThread[l]>>
                             /\ \A t \in Thread : l \in held'[t] <=> l \in held[t]
      PROVE  UNCHANGED Abstract!vars
  BY <1>1, Untouched DEF Abstract!vars
\* Lock l is touched and the others are not.
<1>2. ASSUME NEW l \in Lock,
             \A x \in Lock \ {l} :
                /\ UNCHANGED <<queue[x], ownerThread[x]>>
                /\ \A t \in Thread : x \in held'[t] <=> x \in held[t]
      PROVE  \A x \in Lock \ {l} : Holder(x)' = Holder(x) /\ Waiting(x)' = Waiting(x)
  BY <1>2, Untouched
<1>3. ASSUME NEW t \in Thread, NEW s \in Semaphore, TryP(t, s),
             UNCHANGED <<ownerThread, held>>
      PROVE  UNCHANGED Abstract!vars
  <2>1. \A l \in Lock : UNCHANGED queue[l]
    BY <1>0, <1>3 DEF TryP
  <2> QED
    BY <1>1, <1>3, <2>1
<1>4. ASSUME NEW s \in Semaphore, Signal(s), UNCHANGED <<ownerThread, held>>
      PROVE  UNCHANGED Abstract!vars
  <2>1. \A l \in Lock : UNCHANGED queue[l]
    BY <1>0, <1>4, Zenon DEF Signal
  <2> QED
    BY <1>1, <1>4, <2>1
<1>5. ASSUME NEW t \in Thread, NEW l \in Lock, AcquireFree(t, l)
      PROVE  [Abstract!Next]_(Abstract!vars)
  <2>1. /\ t = currentThread /\ UNCHANGED queue
        /\ held' = [held EXCEPT ![t] = @ \cup {l}]
        /\ pc[t] = InCaller
    BY <1>5 DEF AcquireFree
  <2>2. CASE ownerThread[l] = t /\ UNCHANGED ownerThread
    <3>1. l \in held[t]
      BY <2>1, <2>2, Distinct DEF LockInv, LockHandoff
    <3> QED
      BY <1>0, <1>1, <2>1, <2>2, <3>1, Zenon
  <2>3. CASE stat[l] = "FREE" /\ ownerThread' = [ownerThread EXCEPT ![l] = t]
    <3>1. /\ ownerThread[l] = NULL /\ queue[l] = <<>>
          /\ \A u \in Thread : l \notin held[u]
      BY <1>0, <2>3 DEF LockInv, LockHandoff
    <3>2. Holder(l) = NULL /\ Waiting(l) = <<>>
      BY <3>1, HolderFacts DEF Waiting
    <3>3. Holder(l)' = t /\ Waiting(l)' = <<>>
      <4>1. l \in held'[t] /\ ownerThread'[l] = t
        BY <1>0, <2>1, <2>3
      <4>2. Holder(l)' = t
        BY <4>1, HolderFactsNext
      <4> QED
        BY <2>1, <3>1, <4>1, <4>2 DEF Waiting
    <3>4. \A x \in Lock \ {l} : Holder(x)' = Holder(x) /\ Waiting(x)' = Waiting(x)
      BY <1>0, <1>2, <2>1, <2>3, Zenon
    <3>5. Abstract!Take(t, l)
      BY <3>2, <3>3, <3>4, Zenon DEF Abstract!Take
    <3> QED
      BY <3>5 DEF Abstract!Next
  <2> QED
    BY <1>5, <2>1, <2>2, <2>3 DEF AcquireFree, isHeldByCurrentThread
<1>6. ASSUME NEW t \in Thread, NEW l \in Lock, AcquireBusy(t, l)
      PROVE  [Abstract!Next]_(Abstract!vars)
  <2>1. /\ ownerThread[l] # t /\ stat[l] # "FREE"
        /\ queue' = [queue EXCEPT ![l] = Append(@, t)]
        /\ status[t] = "RUNNING"
        /\ UNCHANGED <<ownerThread, held>>
    BY <1>6, Zenon DEF AcquireBusy, isHeldByCurrentThread
  <2>2. /\ ownerThread[l] \in Thread
        /\ Holder(l) \in {NULL, ownerThread[l]}
    BY <1>0, <2>1, HolderFacts DEF LockInv, LockHandoff
  <2>3. /\ t \notin Range(queue[l])
        /\ queue[l] \in Seq(Thread)
        /\ queue'[l] = Append(queue[l], t)
    BY <1>0, <2>1 DEF LockInv, Placed, ThreadPlacement
  <2>4. /\ t \notin Range(Waiting(l))
        /\ Holder(l) # NULL \/ Waiting(l) # <<>>
    <3>1. CASE ownerThread[l] = Holder(l)
      BY <1>0, <2>2, <2>3, <3>1 DEF Waiting
    <3>2. CASE ownerThread[l] # Holder(l)
      <4>1. Waiting(l) = <<ownerThread[l]>> \o queue[l]
        BY <3>2 DEF Waiting
      <4>2. <<ownerThread[l]>> \o queue[l] # <<>>
        BY <2>2, <2>3, ConsFacts
      <4>3. t \notin Range(<<ownerThread[l]>> \o queue[l])
        BY <2>1, <2>2, <2>3, ConsRange
      <4> QED
        BY <4>1, <4>2, <4>3
    <3> QED
      BY <3>1, <3>2
  <2>5. Holder(l)' = Holder(l)
    BY <2>1 DEF Holder
  <2>6. Waiting(l)' = Append(Waiting(l), t)
    <3>1. CASE ownerThread[l] = Holder(l)
      BY <2>1, <2>3, <2>5, <3>1, Zenon DEF Waiting
    <3>2. CASE ownerThread[l] # Holder(l)
      <4>1. <<ownerThread[l]>> \o Append(queue[l], t)
                = Append(<<ownerThread[l]>> \o queue[l], t)
        BY <2>2, <2>3, ConsFacts
      <4> QED
        BY <2>1, <2>3, <2>5, <3>2, <4>1, Zenon DEF Waiting
    <3> QED
      BY <3>1, <3>2
  <2>7. \A x \in Lock \ {l} : Holder(x)' = Holder(x) /\ Waiting(x)' = Waiting(x)
    BY <1>0, <1>2, <2>1, Zenon
  <2>8. Abstract!Ask(t, l)
    <3>1. t \notin Abstract!Range(Waiting(l))
      BY <2>4 DEF Range, Abstract!Range
    <3>2. Holder(l) # t
      BY <1>0, <2>1, <2>2
    <3> QED
      BY <2>4, <2>5, <2>6, <2>7, <3>1, <3>2, Zenon DEF Abstract!Ask
  <2> QED
    BY <2>8 DEF Abstract!Next
<1>7. ASSUME NEW t \in Thread, NEW l \in Lock, ResumeAcquire(t, l)
      PROVE  [Abstract!Next]_(Abstract!vars)
  <2>1. /\ pc[t] = InAcquire(l) /\ status[t] = "RUNNING"
        /\ held' = [held EXCEPT ![t] = @ \cup {l}]
        /\ UNCHANGED <<ownerThread, queue>>
    BY <1>7, Zenon DEF ResumeAcquire
  <2>2. ownerThread[l] = t /\ \A u \in Thread : l \notin held[u]
    BY <2>1 DEF LockInv, LockHandoff, WaiterHoldsNot
  <2>3. Holder(l) = NULL /\ Waiting(l) = <<t>> \o queue[l]
    BY <1>0, <2>2, HolderFacts DEF Waiting
  <2>4. Holder(l)' = t /\ Waiting(l)' = queue[l]
    <3>1. l \in held'[t]
      BY <1>0, <2>1
    <3>2. Holder(l)' = t
      BY <3>1, HolderFactsNext
    <3> QED
      BY <2>1, <2>2, <3>2 DEF Waiting
  <2>5. /\ Waiting(l) # <<>>
        /\ Head(Waiting(l)) = t
        /\ Tail(Waiting(l)) = queue[l]
    BY <1>0, <2>3, ConsFacts
  <2>6. \A x \in Lock \ {l} : Holder(x)' = Holder(x) /\ Waiting(x)' = Waiting(x)
    BY <1>0, <1>2, <2>1, Zenon
  <2>7. Abstract!Grant(l)
    BY <2>3, <2>4, <2>5, <2>6, Zenon DEF Abstract!Grant
  <2> QED
    BY <2>7 DEF Abstract!Next
<1>8. ASSUME NEW t \in Thread, NEW l \in Lock, Release(t, l)
      PROVE  [Abstract!Next]_(Abstract!vars)
  <2>1. /\ ownerThread[l] = t /\ pc[t] = InCaller
        /\ held' = [held EXCEPT ![t] = @ \ {l}]
    BY <1>8 DEF Release, isHeldByCurrentThread
  <2>2. l \in held[t] /\ \A u \in Thread \ {t} : l \notin held[u]
    BY <2>1, Distinct DEF LockInv, LockHandoff
  <2>3. Holder(l) = t /\ Waiting(l) = queue[l]
    BY <2>1, <2>2, HolderFacts, Zenon DEF Waiting
  <2>4. Holder(l)' = NULL
    BY <1>0, <2>1, <2>2, HolderFactsNext, Zenon
  <2>5. Waiting(l)' = queue[l] /\ \A x \in Lock \ {l} : UNCHANGED <<queue[x], ownerThread[x]>>
    <3>1. CASE queue[l] = <<>>
      <4>1. UNCHANGED queue /\ ownerThread' = [ownerThread EXCEPT ![l] = NULL]
        BY <1>8, <3>1 DEF Release
      <4> QED
        BY <1>0, <2>4, <4>1, Zenon DEF Waiting
    <3>2. CASE queue[l] # <<>>
      <4>1. /\ Head(queue[l]) \in Thread
            /\ queue' = [queue EXCEPT ![l] = Tail(@)]
            /\ ownerThread' = [ownerThread EXCEPT ![l] = Head(queue[l])]
        BY <1>8, <3>2, ReleaseEffect DEF LockInv, Placed
      <4>2. <<Head(queue[l])>> \o Tail(queue[l]) = queue[l]
        BY <1>0, <3>2, <4>1, ConsFacts
      <4> QED
        BY <1>0, <2>4, <4>1, <4>2, Zenon DEF Waiting
    <3> QED
      BY <3>1, <3>2
  <2>6. \A x \in Lock \ {l} : Holder(x)' = Holder(x) /\ Waiting(x)' = Waiting(x)
    BY <1>0, <1>2, <2>1, <2>5, Zenon
  <2>7. Abstract!Drop(t, l)
    BY <2>3, <2>4, <2>5, <2>6, Zenon DEF Abstract!Drop
  <2> QED
    BY <2>7 DEF Abstract!Next
<1>9. ASSUME NEW t \in Thread,
             \/ \E child \in Thread : Fork(t, child)
             \/ Yield(t) \/ Finish(t) \/ StartThread(t) \/ ResumeYield(t)
             \/ \E d \in Device : Schedule(t, d)
      PROVE  UNCHANGED Abstract!vars
  <2>1. UNCHANGED <<queue, ownerThread, held>>
    BY <1>9 DEF Fork, Yield, Finish, StartThread, ResumeYield, Schedule
  <2> QED
    BY <1>1, <2>1
<1>10. ASSUME NEW t \in Thread, NEW s \in Semaphore,
              P(t, s) \/ ResumeP(t, s) \/ V(t, s)
       PROVE  UNCHANGED Abstract!vars
  BY <1>3, <1>4, <1>10, Zenon DEF P, ResumeP, V
<1>11. ASSUME NEW d \in Device, DeviceInterrupt(d) PROVE UNCHANGED Abstract!vars
  BY <1>4, <1>11, ThreadAssumption DEF DeviceInterrupt
<1>12. CASE WakeFromIdle \/ Halt \/ UNCHANGED vars
  <2>1. UNCHANGED <<queue, ownerThread, held>>
    BY <1>12 DEF WakeFromIdle, Halt, vars
  <2> QED
    BY <1>1, <2>1
<1> QED
  BY <1>5, <1>6, <1>7, <1>8, <1>9, <1>10, <1>11, <1>12 DEF Next, Resume, Call

\* The initial state of the lock is that of the abstract lock.
LEMMA RefinementInit == Init => Abstract!Init
<1> SUFFICES ASSUME Init PROVE Abstract!Init
  OBVIOUS
<1>1. \A l \in Lock : Holder(l) = NULL /\ Waiting(l) = <<>>
  <2> TAKE l \in Lock
  <2>1. Holder(l) = NULL
    BY DEF Init, Holder
  <2> QED
    BY <2>1 DEF Init, Waiting, SynchObject
<1> QED
  BY <1>1 DEF Abstract!Init

\* Acquire and Release implement the first-come first-served lock.
THEOREM LocksAreFifo == Spec => ImplementsFifoLock
<1>1. Init => WaiterHoldsNot
  BY DEF Init, WaiterHoldsNot
<1>2. Placed /\ LockHandoff /\ WaiterHoldsNot /\ [Next]_vars => WaiterHoldsNot'
  BY WaiterStep
<1>3. Spec => []LockInv
  BY <1>1, <1>2, PlacedInvariant, HandoffCorrect, PTL DEF Spec, LockInv
<1>4. LockInv /\ LockInv' /\ [Next]_vars => [Abstract!Next]_(Abstract!vars)
  BY RefinementStep
<1>5. Init => Abstract!Init
  BY RefinementInit
<1> QED
  BY <1>3, <1>4, <1>5, PTL DEF Spec, ImplementsFifoLock, Abstract!Spec
=============================================================================
