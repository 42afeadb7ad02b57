------------------------------- MODULE Threads -------------------------------
(***************************************************************************)
(* Kernel threads of Nachos: thread.cc, scheduler.cc, synch.cc, and the    *)
(* part of interrupt.cc that decides when a thread may lose the CPU.       *)
(*                                                                         *)
(* The machine has one CPU and the kernel turns interrupts off inside      *)
(* every routine modelled here, so a routine runs in one step up to the    *)
(* place where it gives up the CPU (the SWITCH in Scheduler::Run) or turns *)
(* interrupts back on.  A thread that lost the CPU continues just after    *)
(* that SWITCH: pc[t] records in which routine, and the Resume actions are *)
(* the code from there on.  Between two routines (pc[t] = InCaller)        *)
(* interrupts are on, and a device handler or a time slice may come in.    *)
(*                                                                         *)
(* Threads are arbitrary callers: they may invoke any routine in any order *)
(* on any semaphore or lock.                                               *)
(***************************************************************************)
EXTENDS Integers, Sequences, FiniteSets, Functions

CONSTANTS
    Thread,         \* thread control blocks the kernel may ever allocate
    MainThread,     \* the one Initialize makes for the code already running
    Semaphore,      \* semaphores
    Device,         \* the semaphores that interrupt handlers V
    Lock,           \* locks
    NULL,           \* the null pointer
    InitialValue,   \* the initialValue each semaphore is constructed with
    MaxValue,       \* bound: no V above this value
    MaxIO           \* bound: outstanding requests per device

ASSUME ThreadAssumption ==
    /\ MainThread \in Thread
    /\ IsFiniteSet(Thread)
    /\ Device \subseteq Semaphore
    /\ Semaphore \cap Lock = {}
    /\ NULL \notin Thread \cup Semaphore \cup Lock
    /\ InitialValue \in [Semaphore -> Nat]
    /\ MaxValue \in Nat
    /\ MaxIO \in Nat

VARIABLES
    currentThread,          \* the thread holding the CPU
    status,                 \* Thread::status
    readyList,              \* Scheduler::readyList
    threadToBeDestroyed,    \* carcass of the last thread to finish
    deleted,                \* threads whose destructor has run
    pc,                     \* where a thread continues when it next runs
    value,                  \* Semaphore::value
    queue,                  \* Semaphore::queue and Lock::queue
    stat,                   \* Lock::stat
    ownerThread,            \* Lock::ownerThread
    pendingIO,              \* device interrupts scheduled and not yet fired
    halted,                 \* Interrupt::Halt was called
    held                    \* history: locks a thread got from Acquire and
                            \* has not released since

threadVars == <<currentThread, status, readyList, pc>>
carcassVars == <<threadToBeDestroyed, deleted>>
lockVars == <<stat, ownerThread, held>>
deviceVars == <<pendingIO, halted>>
vars == <<threadVars, carcassVars, lockVars, deviceVars, value, queue>>

SynchObject == Semaphore \cup Lock

\* "UNBORN": no constructor has run for the thread yet.
ThreadStatus == {"UNBORN", "RUNNING", "READY", "BLOCKED"}

At(routine, object) == [routine |-> routine, object |-> object]
InCaller == At("caller", NULL)      \* outside the kernel routines
AtThreadRoot == At("ThreadRoot", NULL)  \* never ran yet
InYield == At("Yield", NULL)
InFinish == At("Finish", NULL)
InP(s) == At("P", s)
InAcquire(l) == At("Acquire", l)

Continuation ==
    {InCaller, AtThreadRoot, InYield, InFinish}
        \cup {InP(s) : s \in Semaphore} \cup {InAcquire(l) : l \in Lock}

-----------------------------------------------------------------------------
(* Who may take a step *)

\* t is in its own code, with interrupts on, and may call a kernel routine.
Running(t) ==
    /\ ~halted
    /\ currentThread = t
    /\ status[t] = "RUNNING"
    /\ pc[t] = InCaller

\* t has just been given the CPU by SWITCH, inside the routine pc[t] names.
Switched(t) ==
    /\ ~halted
    /\ currentThread = t
    /\ status[t] = "RUNNING"

\* The loop of Thread::Sleep: the thread that blocked still is currentThread
\* and calls Interrupt::Idle until some thread is ready.
Idling ==
    /\ ~halted
    /\ status[currentThread] # "RUNNING"

-----------------------------------------------------------------------------
(* Scheduler *)

\* Mutant: Prepend where the code says Append.
ReadyToRunFirst(t) ==
    /\ status' = [status EXCEPT ![t] = "READY"]
    /\ readyList' = <<t>> \o readyList

\* Thread t goes to the end of the ready list.
ReadyToRun(t) ==
    /\ status' = [status EXCEPT ![t] = "READY"]
    /\ readyList' = Append(readyList, t)

\* Run(FindNextToRun()) up to the SWITCH, after the old thread t got status s.
RunNext(t, s) ==
    LET next == Head(readyList) IN
    /\ currentThread' = next
    /\ status' = [status EXCEPT ![t] = s, ![next] = "RUNNING"]
    /\ readyList' = Tail(readyList)

\* Mutant: threadToBeDestroyed is not reset.
DeleteCarcassNoReset ==
    /\ deleted' = deleted \cup ({threadToBeDestroyed} \ {NULL})
    /\ UNCHANGED threadToBeDestroyed

\* What Run does after the SWITCH, in the context of the next thread.
DeleteCarcass ==
    /\ deleted' = deleted \cup ({threadToBeDestroyed} \ {NULL})
    /\ threadToBeDestroyed' = NULL

\* Thread::Sleep of the current thread t, in the routine "where".
Sleep(t, where) ==
    /\ pc' = [pc EXCEPT ![t] = where]
    /\ \/ /\ readyList # <<>>
          /\ RunNext(t, "BLOCKED")
       \/ /\ readyList = <<>>           \* keep the CPU and idle
          /\ status' = [status EXCEPT ![t] = "BLOCKED"]
          /\ UNCHANGED <<currentThread, readyList>>

-----------------------------------------------------------------------------
(* Threads *)

\* new Thread, then Thread::Fork, by the running thread t.
Fork(t, child) ==
    /\ Running(t)
    /\ status[child] = "UNBORN"
    /\ pc' = [pc EXCEPT ![child] = AtThreadRoot]
    /\ ReadyToRun(child)
    /\ UNCHANGED <<currentThread, carcassVars, lockVars, deviceVars, value, queue>>

\* Mutant: the caller goes to the front of the ready list.
YieldToFront(t) ==
    /\ Running(t)
    /\ readyList # <<>>
    /\ LET next == Head(readyList) IN
       /\ currentThread' = next
       /\ status' = [status EXCEPT ![t] = "READY", ![next] = "RUNNING"]
       /\ readyList' = <<t>> \o Tail(readyList)
    /\ pc' = [pc EXCEPT ![t] = InYield]
    /\ UNCHANGED <<carcassVars, lockVars, deviceVars, value, queue>>

\* Thread::Yield, called by the thread or, on a time slice, by OneTick.
Yield(t) ==
    /\ Running(t)
    /\ readyList # <<>>
    /\ LET next == Head(readyList) IN
       /\ currentThread' = next
       /\ status' = [status EXCEPT ![t] = "READY", ![next] = "RUNNING"]
       /\ readyList' = Append(Tail(readyList), t)
    /\ pc' = [pc EXCEPT ![t] = InYield]
    /\ UNCHANGED <<carcassVars, lockVars, deviceVars, value, queue>>

\* Thread::Finish.
Finish(t) ==
    /\ Running(t)
    /\ threadToBeDestroyed' = t
    /\ Sleep(t, InFinish)
    /\ UNCHANGED <<deleted, lockVars, deviceVars, value, queue>>

\* First dispatch of a forked thread: SWITCH jumps to ThreadRoot, which turns
\* interrupts on and calls the forked procedure.
StartThread(t) ==
    /\ Switched(t)
    /\ pc[t] = AtThreadRoot
    /\ pc' = [pc EXCEPT ![t] = InCaller]
    /\ UNCHANGED <<currentThread, status, readyList, carcassVars, lockVars,
                   deviceVars, value, queue>>

\* Run and Yield return to the thread that called Yield.
ResumeYield(t) ==
    /\ Switched(t)
    /\ pc[t] = InYield
    /\ DeleteCarcass
    /\ pc' = [pc EXCEPT ![t] = InCaller]
    /\ UNCHANGED <<currentThread, status, readyList, lockVars, deviceVars,
                   value, queue>>

-----------------------------------------------------------------------------
(* Semaphores *)

\* One pass of the loop of Semaphore::P, with interrupts off.
TryP(t, s) ==
    \/ /\ value[s] = 0
       /\ queue' = [queue EXCEPT ![s] = Append(@, t)]
       /\ Sleep(t, InP(s))
       /\ UNCHANGED value
    \/ /\ value[s] > 0
       /\ value' = [value EXCEPT ![s] = @ - 1]
       /\ pc' = [pc EXCEPT ![t] = InCaller]
       /\ UNCHANGED <<currentThread, status, readyList, queue>>

P(t, s) ==
    /\ Running(t)
    /\ TryP(t, s)
    /\ UNCHANGED <<carcassVars, lockVars, deviceVars>>

\* Mutant: if instead of while.
ResumePNoLoop(t, s) ==
    /\ Switched(t)
    /\ pc[t] = InP(s)
    /\ DeleteCarcass
    /\ value' = [value EXCEPT ![s] = @ - 1]
    /\ pc' = [pc EXCEPT ![t] = InCaller]
    /\ UNCHANGED <<currentThread, status, readyList, queue, lockVars, deviceVars>>

\* Sleep returned inside P: test the value again.
ResumeP(t, s) ==
    /\ Switched(t)
    /\ pc[t] = InP(s)
    /\ DeleteCarcass
    /\ TryP(t, s)
    /\ UNCHANGED <<lockVars, deviceVars>>

\* Mutant: the first waiter is looked at and not removed.
SignalKeepsWaiter(s) ==
    /\ value[s] < MaxValue
    /\ value' = [value EXCEPT ![s] = @ + 1]
    /\ IF queue[s] # <<>> THEN ReadyToRun(Head(queue[s]))
       ELSE UNCHANGED <<status, readyList>>
    /\ UNCHANGED queue

\* Mutant: only the V that leaves 0 wakes a waiter.
SignalFromZero(s) ==
    /\ value[s] < MaxValue
    /\ value' = [value EXCEPT ![s] = @ + 1]
    /\ IF queue[s] # <<>> /\ value[s] = 0
       THEN /\ queue' = [queue EXCEPT ![s] = Tail(@)]
            /\ ReadyToRun(Head(queue[s]))
       ELSE UNCHANGED <<queue, status, readyList>>

\* The body of Semaphore::V, for a thread or for an interrupt handler.
Signal(s) ==
    /\ value[s] < MaxValue
    /\ value' = [value EXCEPT ![s] = @ + 1]
    /\ \/ /\ queue[s] # <<>>
          /\ queue' = [queue EXCEPT ![s] = Tail(@)]
          /\ ReadyToRun(Head(queue[s]))
       \/ /\ queue[s] = <<>>
          /\ UNCHANGED <<queue, status, readyList>>

V(t, s) ==
    /\ Running(t)
    /\ Signal(s)
    /\ UNCHANGED <<currentThread, pc, carcassVars, lockVars, deviceVars>>

-----------------------------------------------------------------------------
(* Locks *)

isHeldByCurrentThread(l) == ownerThread[l] = currentThread

\* Lock::Acquire of a lock that is FREE, or already held by the caller.
AcquireFree(t, l) ==
    /\ Running(t)
    /\ \/ isHeldByCurrentThread(l) /\ UNCHANGED <<stat, ownerThread>>
       \/ /\ ~isHeldByCurrentThread(l)
          /\ stat[l] = "FREE"
          /\ stat' = [stat EXCEPT ![l] = "BUSY"]
          /\ ownerThread' = [ownerThread EXCEPT ![l] = currentThread]
    /\ held' = [held EXCEPT ![t] = @ \cup {l}]
    /\ UNCHANGED <<threadVars, carcassVars, deviceVars, value, queue>>

\* Mutant: the caller waits at the front of the queue.
AcquireBusyFirst(t, l) ==
    /\ Running(t)
    /\ ~isHeldByCurrentThread(l)
    /\ stat[l] # "FREE"
    /\ queue' = [queue EXCEPT ![l] = <<t>> \o @]
    /\ Sleep(t, InAcquire(l))
    /\ UNCHANGED <<carcassVars, lockVars, deviceVars, value>>

\* Lock::Acquire of a lock another thread holds.
AcquireBusy(t, l) ==
    /\ Running(t)
    /\ ~isHeldByCurrentThread(l)
    /\ stat[l] # "FREE"
    /\ queue' = [queue EXCEPT ![l] = Append(@, t)]
    /\ Sleep(t, InAcquire(l))
    /\ UNCHANGED <<carcassVars, lockVars, deviceVars, value>>

\* Sleep returned inside Acquire: the lock is taken to be the caller's.
ResumeAcquire(t, l) ==
    /\ Switched(t)
    /\ pc[t] = InAcquire(l)
    /\ DeleteCarcass
    /\ pc' = [pc EXCEPT ![t] = InCaller]
    /\ held' = [held EXCEPT ![t] = @ \cup {l}]
    /\ UNCHANGED <<currentThread, status, readyList, stat, ownerThread,
                   deviceVars, value, queue>>

\* Mutants of the branch of Release that finds a waiter: the lock is set free
\* as well, the owner is left as it was, or the waiter is not made ready.
ReleaseTo(t, l, newStat, owner, wakes) ==
    /\ Running(t)
    /\ isHeldByCurrentThread(l)
    /\ held' = [held EXCEPT ![t] = @ \ {l}]
    /\ IF queue[l] # <<>>
       THEN /\ queue' = [queue EXCEPT ![l] = Tail(@)]
            /\ IF wakes THEN ReadyToRun(Head(queue[l]))
               ELSE UNCHANGED <<status, readyList>>
            /\ ownerThread' = [ownerThread EXCEPT ![l] = owner]
            /\ stat' = [stat EXCEPT ![l] = newStat]
       ELSE /\ stat' = [stat EXCEPT ![l] = "FREE"]
            /\ ownerThread' = [ownerThread EXCEPT ![l] = NULL]
            /\ UNCHANGED <<queue, status, readyList>>
    /\ UNCHANGED <<currentThread, pc, carcassVars, deviceVars, value>>

ReleaseFrees(t, l) == ReleaseTo(t, l, "FREE", NULL, TRUE)
ReleaseKeepsOwner(t, l) == ReleaseTo(t, l, "BUSY", t, TRUE)
ReleaseNoWakeup(t, l) == ReleaseTo(t, l, "BUSY", Head(queue[l]), FALSE)

\* Lock::Release; a caller that does not hold the lock changes nothing.
Release(t, l) ==
    /\ Running(t)
    /\ isHeldByCurrentThread(l)
    /\ held' = [held EXCEPT ![t] = @ \ {l}]
    /\ \/ /\ queue[l] # <<>>            \* hand the lock to the first waiter
          /\ queue' = [queue EXCEPT ![l] = Tail(@)]
          /\ ReadyToRun(Head(queue[l]))
          /\ ownerThread' = [ownerThread EXCEPT ![l] = Head(queue[l])]
          /\ UNCHANGED stat
       \/ /\ queue[l] = <<>>
          /\ stat' = [stat EXCEPT ![l] = "FREE"]
          /\ ownerThread' = [ownerThread EXCEPT ![l] = NULL]
          /\ UNCHANGED <<queue, status, readyList>>
    /\ UNCHANGED <<currentThread, pc, carcassVars, deviceVars, value>>

-----------------------------------------------------------------------------
(* Interrupts *)

\* A device is started: its simulator schedules the completion interrupt.
Schedule(t, d) ==
    /\ Running(t)
    /\ pendingIO[d] < MaxIO
    /\ pendingIO' = [pendingIO EXCEPT ![d] = @ + 1]
    /\ UNCHANGED <<threadVars, carcassVars, lockVars, halted, value, queue>>

\* CheckIfDue fires a device handler, from OneTick or from Idle.
DeviceInterrupt(d) ==
    /\ Idling \/ Running(currentThread)
    /\ pendingIO[d] > 0
    /\ pendingIO' = [pendingIO EXCEPT ![d] = @ - 1]
    /\ Signal(d)
    /\ UNCHANGED <<currentThread, pc, carcassVars, lockVars, halted>>

\* Idle returned and the loop of Sleep found a thread on the ready list.
WakeFromIdle ==
    /\ Idling
    /\ readyList # <<>>
    /\ RunNext(currentThread, status[currentThread])
    /\ UNCHANGED <<pc, carcassVars, lockVars, deviceVars, value, queue>>

\* Mutant: pending interrupts are not looked at.
HaltAtOnce ==
    /\ Idling
    /\ readyList = <<>>
    /\ halted' = TRUE
    /\ UNCHANGED <<threadVars, carcassVars, lockVars, pendingIO, value, queue>>

\* Idle finds no pending interrupt: nothing can ever run again.
Halt ==
    /\ Idling
    /\ readyList = <<>>
    /\ \A d \in Device : pendingIO[d] = 0
    /\ halted' = TRUE
    /\ UNCHANGED <<threadVars, carcassVars, lockVars, pendingIO, value, queue>>

-----------------------------------------------------------------------------

Init ==
    /\ currentThread = MainThread
    /\ status = [t \in Thread |-> IF t = MainThread THEN "RUNNING" ELSE "UNBORN"]
    /\ readyList = <<>>
    /\ threadToBeDestroyed = NULL
    /\ deleted = {}
    /\ pc = [t \in Thread |-> InCaller]
    /\ value = InitialValue
    /\ queue = [o \in SynchObject |-> <<>>]
    /\ stat = [l \in Lock |-> "FREE"]
    /\ ownerThread = [l \in Lock |-> NULL]
    /\ pendingIO = [d \in Device |-> 0]
    /\ halted = FALSE
    /\ held = [t \in Thread |-> {}]

\* The code after a SWITCH; interrupts are off until it is done.
Resume(t) ==
    \/ StartThread(t)
    \/ ResumeYield(t)
    \/ \E s \in Semaphore : ResumeP(t, s)
    \/ \E l \in Lock : ResumeAcquire(t, l)

\* A routine the running thread calls.
Call(t) ==
    \/ \E child \in Thread : Fork(t, child)
    \/ Yield(t)
    \/ Finish(t)
    \/ \E s \in Semaphore : P(t, s) \/ V(t, s)
    \/ \E l \in Lock : AcquireFree(t, l) \/ AcquireBusy(t, l) \/ Release(t, l)
    \/ \E d \in Device : Schedule(t, d)

Next ==
    \/ \E t \in Thread : Resume(t) \/ Call(t)
    \/ \E d \in Device : DeviceInterrupt(d)
    \/ WakeFromIdle
    \/ Halt

Spec == Init /\ [][Next]_vars
-----------------------------------------------------------------------------
(* Liveness *)

\* The CPU always executes; an idle machine advances its clock to the next
\* pending interrupt; with the -rs option the timer keeps asking for time
\* slices whatever the running thread does.
Fairness ==
    /\ WF_vars(\E t \in Thread : Resume(t))
    /\ WF_vars(WakeFromIdle)
    /\ WF_vars(\E d \in Device : DeviceInterrupt(d))
    /\ SF_vars(\E t \in Thread : Yield(t))

FairSpec == Spec /\ Fairness

-----------------------------------------------------------------------------
(* Properties *)

\* Every variable keeps its type; in particular Semaphore::value, an int the
\* code decrements in P, never becomes negative (synch.h: "always >= 0").
TypeOK ==
    /\ currentThread \in Thread
    /\ status \in [Thread -> ThreadStatus]
    /\ readyList \in Seq(Thread)
    /\ threadToBeDestroyed \in Thread \cup {NULL}
    /\ deleted \subseteq Thread
    /\ pc \in [Thread -> Continuation]
    /\ value \in [Semaphore -> Nat]
    /\ queue \in [SynchObject -> Seq(Thread)]
    /\ stat \in [Lock -> {"FREE", "BUSY"}]
    /\ ownerThread \in [Lock -> Thread \cup {NULL}]
    /\ pendingIO \in [Device -> Nat]
    /\ halted \in BOOLEAN
    /\ held \in [Thread -> SUBSET Lock]

NoDuplicates(q) == \A i, j \in DOMAIN q : q[i] = q[j] => i = j

\* A thread is in exactly one place: on the CPU, at one position of the ready
\* list, or at one position of the queue of the one semaphore or lock it
\* sleeps on (or it is unborn or finished, and then nowhere).  Append and
\* Remove on the lists and setStatus are separate statements scattered over
\* P, V, Acquire, Release, Yield, Fork and Sleep; this says that together they
\* never lose a thread, queue it twice or run it while it is queued.
ThreadPlacement ==
    /\ NoDuplicates(readyList)
    /\ \A o \in SynchObject : NoDuplicates(queue[o])
    /\ \A t \in Thread :
          /\ status[t] = "READY" <=> t \in Range(readyList)
          /\ status[t] = "RUNNING" => t = currentThread
          /\ \A o \in SynchObject :
                t \in Range(queue[o]) <=>
                    status[t] = "BLOCKED" /\ pc[t].object = o

\* The thread that Run will delete after a SWITCH has finished: it is in no
\* list that could run it again, it is not the thread doing the deletion (the
\* ASSERT in ~Thread), and a thread already deleted is never dispatched,
\* queued or deleted again.
CarcassUnreachable ==
    /\ threadToBeDestroyed \notin deleted
    /\ \A t \in deleted \cup ({threadToBeDestroyed} \ {NULL}) :
          /\ pc[t] = InFinish
          /\ status[t] = "BLOCKED"
          /\ t \notin Range(readyList)
          /\ \A o \in SynchObject : t \notin Range(queue[o])
    /\ currentThread \notin deleted

\* No two threads are both past Acquire and before Release of one lock,
\* although a waiter returns from Acquire without looking at the lock again.
MutualExclusion ==
    \A t, u \in Thread : t # u => held[t] \cap held[u] = {}

\* Release hands the lock over while its new owner is still asleep.  The
\* owner is always the thread that got the lock and has not released it, or
\* the one waiter that Release woke and that has yet to return from Acquire;
\* a lock somebody waits for is never FREE.
LockHandoff ==
    \A l \in Lock :
        /\ stat[l] = "FREE" <=> ownerThread[l] = NULL
        /\ stat[l] = "FREE" => queue[l] = <<>>
        /\ \A t \in Thread :
              ownerThread[l] = t <=>
                  \/ l \in held[t]
                  \/ pc[t] = InAcquire(l) /\ status[t] # "BLOCKED"

\* Threads woken by V that have yet to test the value again.
Woken(s) == {t \in Thread : pc[t] = InP(s) /\ status[t] # "BLOCKED"}

\* While threads wait on a semaphore, every unit of its value has a woken
\* thread on its way to take it, so no V is lost on a waiter even though
\* another thread may take the unit first (P tests in a loop).
NoLostWakeup ==
    \A s \in Semaphore :
        queue[s] # <<>> => value[s] <= Cardinality(Woken(s))

\* Halt is reached from Idle only when no thread can ever run again: each one
\* is unborn, finished, asleep on a semaphore of value 0 that no device will
\* signal, or asleep on a lock whose owner is itself asleep or finished.
HaltOnlyWhenStuck ==
    halted =>
        \A t \in Thread :
            \/ status[t] = "UNBORN"
            \/ pc[t] = InFinish
            \/ \E s \in Semaphore :
                  /\ t \in Range(queue[s])
                  /\ value[s] = 0
                  /\ s \in Device => pendingIO[s] = 0
            \/ \E l \in Lock :
                  /\ t \in Range(queue[l])
                  /\ status[ownerThread[l]] = "BLOCKED"

\* Threads ahead of t on the ready list.
Ahead(t) ==
    {readyList[i] : i \in {k \in DOMAIN readyList :
                            \E n \in DOMAIN readyList : k < n /\ readyList[n] = t}}

\* Nothing overtakes a thread on the ready list: while t waits for the CPU the
\* set of threads that will run before it never gains a member.
ReadyFIFO ==
    [][\A t \in Thread :
          t \in Range(readyList) /\ t \in Range(readyList)' =>
              Ahead(t)' \subseteq Ahead(t)]_vars

\* With time slices, every ready thread gets the CPU.
ReadyRuns ==
    \A t \in Thread : status[t] = "READY" ~> status[t] = "RUNNING"

\* And no caller of Acquire starves: if a lock is released again and again,
\* every thread that waits for it gets it.
LockGranted ==
    \A t \in Thread, l \in Lock :
        []<><<\E u \in Thread : Release(u, l)>>_vars =>
            (pc[t] = InAcquire(l) ~> l \in held[t])

-----------------------------------------------------------------------------
(* Refinement: each lock implements FifoLock *)

\* The thread between the return of Acquire and its Release.
Holder(l) ==
    IF \E t \in Thread : l \in held[t]
    THEN CHOOSE t \in Thread : l \in held[t] ELSE NULL

\* The owner that Release chose but that has not returned from Acquire yet
\* still waits, ahead of the lock's queue.
Waiting(l) ==
    IF ownerThread[l] # Holder(l) THEN <<ownerThread[l]>> \o queue[l] ELSE queue[l]

Abstract == INSTANCE FifoLock
    WITH holder <- [l \in Lock |-> Holder(l)],
         waiting <- [l \in Lock |-> Waiting(l)]

\* Acquire and Release implement a first-come first-served lock: the hand-over
\* to a sleeping waiter leaves no window in which another thread, running
\* between the Release and the waiter's return, could take the lock.
ImplementsFifoLock == Abstract!Spec

\* And the waiter that was handed the lock does get to use it.
ImplementsFairLock == Abstract!FairSpec

-----------------------------------------------------------------------------
(* What comments in the code say and the code does not do *)

\* thread.cc:139 says of a finished thread that Scheduler::Run will call its
\* destructor once another thread runs: its carcass is not forgotten.
FinishedIsReclaimed ==
    \A t \in Thread :
        pc[t] = InFinish => t \in deleted \/ t = threadToBeDestroyed
=============================================================================
