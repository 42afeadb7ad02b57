----------------------------- MODULE ProcessTable -----------------------------
(***************************************************************************)
(* User processes: the system calls Exec, Join and Exit, through class     *)
(* PTable (ptable.cc) and class PCB (pcb.cc).                              *)
(*                                                                         *)
(* A kernel thread runs without interruption from one preemption point to  *)
(* the next: the return of a Semaphore::P or V, the end of Thread::Fork,   *)
(* and user code, each of which turns interrupts on.  An action is the     *)
(* code between two such points; with time slices (option -rs) any thread  *)
(* that is not asleep may run the next one.  Semaphores are counters here: *)
(* module Threads has their queues.                                        *)
(*                                                                         *)
(* A successful Exec allocates one PCB and one Thread, so both are named   *)
(* by the same member of Proc.  User programs are arbitrary sequences of   *)
(* system calls; in particular Exit is an ordinary call that returns.      *)
(***************************************************************************)
EXTENDS Integers, FiniteSets

CONSTANTS
    Proc,           \* processes that may ever be created (bound)
    Main,           \* the process the -x option starts, on the main thread
    NULL,           \* the null pointer
    MAXPROCESS,     \* slots of the table
    ExitCode        \* arguments of Exit

ASSUME ProcessAssumption ==
    /\ Main \in Proc
    /\ IsFiniteSet(Proc)
    /\ NULL \notin Proc
    /\ MAXPROCESS \in Nat \ {0}
    /\ ExitCode \subseteq Int
    /\ 0 \in ExitCode

VARIABLES
    pc,         \* where each process is in its current system call
    processID,  \* Thread::processID
    bm,         \* PTable::bm, the set of marked slots
    bmsem,      \* value of PTable::bmsem
    pcb,        \* PTable::pcb, pointers that may dangle
    heap,       \* state of each PCB ("none": the main process has no PCB)
    block,      \* the fields of each PCB
    local,      \* local variables of a call in progress
    exited,     \* history: processes whose call of Exit has returned
    result,     \* value the last completed call left in register 2
    halted,     \* Interrupt::Halt was called
    undefined   \* freed memory was used: the program's behaviour is undefined

vars == <<pc, processID, bm, bmsem, pcb, heap, block, local, exited, result,
          halted, undefined>>

Slot == 0..MAXPROCESS - 1

\* Not yet created, created and not yet run, in user code, or inside a call.
Location ==
    {"none", "start", "user",
     "execP", "execLoad", "execFork", "execMutexV", "execV",
     "joinP", "joinReturn", "exitWait", "exitP", "exitRemove"}

\* The constructor PCB(id), called on the thread of a process with pid parent.
NewPCB(parent) ==
    [parentID |-> parent, JoinStatus |-> -1, exitcode |-> 0,
     joinsem |-> 0, exitsem |-> 0, mutex |-> 1]

NoLocal == [child |-> NULL, slot |-> -1, waitsOn |-> NULL, ec |-> 0]

Alive == ~halted /\ ~undefined

\* Process p reaches l in its code.
Goto(p, l) == pc' = [pc EXCEPT ![p] = l]

\* The system call of p returns r: back to user code with r in register 2.
Return(p, r) ==
    /\ Goto(p, "user")
    /\ result' = [result EXCEPT ![p] = r]

\* Use of freed memory: nothing is known of what happens afterwards.
Crash ==
    /\ undefined' = TRUE
    /\ UNCHANGED <<pc, processID, bm, bmsem, pcb, heap, block, local, exited,
                   result, halted>>

-----------------------------------------------------------------------------
(* Exec *)

\* SC_Exec: ExecUpdate asks for bmsem.  The name is never null, since the
\* new char[] of User2System does not return null.
Exec(p) ==
    /\ Alive
    /\ pc[p] = "user"
    /\ Goto(p, "execP")
    /\ UNCHANGED <<processID, bm, bmsem, pcb, heap, block, local, exited,
                   result, halted, undefined>>

\* bmsem->P() returns.
ExecP(p) ==
    /\ Alive
    /\ pc[p] = "execP"
    /\ bmsem > 0
    /\ bmsem' = bmsem - 1
    /\ Goto(p, "execLoad")
    /\ UNCHANGED <<processID, bm, pcb, heap, block, local, exited, result,
                   halted, undefined>>

\* Mutant: an error return forgets bmsem->V().
ExecFailNoV(p) ==
    /\ Alive
    /\ pc[p] = "execLoad"
    /\ Return(p, -1)
    /\ UNCHANGED <<processID, bm, bmsem, pcb, heap, block, local, exited, halted,
                   undefined>>

\* No such file, the name of the calling thread, or no free slot.
ExecFail(p) ==
    /\ Alive
    /\ pc[p] = "execLoad"
    /\ bmsem' = bmsem + 1
    /\ Return(p, -1)
    /\ UNCHANGED <<processID, bm, pcb, heap, block, local, exited, halted,
                   undefined>>

\* Mutant: a slot is taken without looking at the bitmap.
IsFreeSlotUnchecked(id) == id \in Slot \ {0}

\* GetFreeSlot: BitMap::Find marks the lowest clear bit.
IsFreeSlot(id) == id \in Slot \ bm /\ \A i \in Slot \ bm : id <= i

\* Mutant: the slot is not marked.
ExecLoadNoMark(p, c, id) ==
    /\ Alive
    /\ pc[p] = "execLoad"
    /\ IsFreeSlot(id)
    /\ heap[c] = "free"
    /\ heap' = [heap EXCEPT ![c] = "live"]
    /\ block' = [block EXCEPT ![c] = [NewPCB(processID[p]) EXCEPT !.mutex = 0]]
    /\ pcb' = [pcb EXCEPT ![id] = c]
    /\ local' = [local EXCEPT ![p].child = c, ![p].slot = id]
    /\ Goto(p, "execFork")
    /\ UNCHANGED <<processID, bm, bmsem, exited, result, halted, undefined>>

\* A slot and a PCB c for the new process, up to the mutex->P() of PCB::Exec,
\* which never waits: nobody else knows the PCB yet.
ExecLoad(p, c, id) ==
    /\ Alive
    /\ pc[p] = "execLoad"
    /\ IsFreeSlot(id)
    /\ heap[c] = "free"
    /\ heap' = [heap EXCEPT ![c] = "live"]
    /\ block' = [block EXCEPT ![c] = [NewPCB(processID[p]) EXCEPT !.mutex = 0]]
    /\ pcb' = [pcb EXCEPT ![id] = c]
    /\ bm' = bm \cup {id}
    /\ local' = [local EXCEPT ![p].child = c, ![p].slot = id]
    /\ Goto(p, "execFork")
    /\ UNCHANGED <<processID, bmsem, exited, result, halted, undefined>>

\* new Thread, which never returns null, recorded in the PCB, and
\* Thread::Fork: the child is ready.
ExecFork(p) ==
    LET c == local[p].child IN
    /\ Alive
    /\ pc[p] = "execFork"
    /\ \/ /\ processID' = [processID EXCEPT ![c] = local[p].slot]
          /\ pc' = [pc EXCEPT ![p] = "execMutexV", ![c] = "start"]
          /\ UNCHANGED <<bm, bmsem, pcb, heap, block, local, exited, result,
                         halted, undefined>>
       \/ heap[c] = "deleted" /\ Crash

\* mutex->V() on the PCB, which the child may have deleted by now.
ExecMutexV(p) ==
    LET c == local[p].child IN
    /\ Alive
    /\ pc[p] = "execMutexV"
    /\ \/ /\ block' = [block EXCEPT ![c].mutex = @ + 1]
          /\ Goto(p, "execV")
          /\ UNCHANGED <<processID, bm, bmsem, pcb, heap, local, exited,
                         result, halted, undefined>>
       \/ heap[c] = "deleted" /\ Crash

\* bmsem->V(); Exec returns the slot number as the process id.
ExecV(p) ==
    /\ Alive
    /\ pc[p] = "execV"
    /\ bmsem' = bmsem + 1
    /\ Return(p, local[p].slot)
    /\ local' = [local EXCEPT ![p] = NoLocal]
    /\ UNCHANGED <<processID, bm, pcb, heap, block, exited, halted, undefined>>

\* MyStartProcess: GetName reads the PCB in the process's slot and has no
\* return value if the slot is not marked; then the program starts.  Loading
\* the address space, with its waits for addrLock, is part of the one step.
Start(p) ==
    LET k == processID[p] IN
    /\ Alive
    /\ pc[p] = "start"
    /\ \/ /\ k \in bm
          /\ Goto(p, "user")
          /\ UNCHANGED <<processID, bm, bmsem, pcb, heap, block, local, exited,
                         result, halted, undefined>>
       \/ k \notin bm /\ Crash

-----------------------------------------------------------------------------
(* Join *)

\* JoinUpdate refuses: no such slot, never used, or not the caller's child.
JoinRefused(p, k) ==
    k \in Slot \ {0} /\ pcb[k] # NULL =>
        heap[pcb[k]] = "live" /\ processID[p] # block[pcb[k]].parentID

JoinFail(p, k) ==
    /\ Alive
    /\ pc[p] = "user"
    /\ JoinRefused(p, k)
    /\ Return(p, -1)
    /\ UNCHANGED <<processID, bm, bmsem, pcb, heap, block, local, exited,
                   halted, undefined>>

\* The slot still points to a deleted PCB: whatever parentID is read there,
\* the call is refused or goes on to wait on a deleted semaphore.
JoinDangling(p, k) ==
    /\ Alive
    /\ pc[p] = "user"
    /\ k \in Slot \ {0}
    /\ pcb[k] # NULL
    /\ heap[pcb[k]] = "deleted"
    /\ \/ /\ Return(p, -1)
          /\ UNCHANGED <<processID, bm, bmsem, pcb, heap, block, local, exited,
                         halted, undefined>>
       \/ Crash

\* JoinWait of the PCB in slot k, up to the return of joinsem->P() or to the
\* sleep inside it.
Join(p, k) ==
    LET c == pcb[k] IN
    /\ Alive
    /\ pc[p] = "user"
    /\ k \in Slot \ {0}
    /\ c # NULL
    /\ heap[c] = "live"
    /\ processID[p] = block[c].parentID
    /\ \/ /\ block[c].joinsem > 0
          /\ block' = [block EXCEPT ![c].JoinStatus = block[c].parentID,
                                    ![c].joinsem = @ - 1]
          /\ Goto(p, "joinReturn")
       \/ /\ block[c].joinsem = 0
          /\ block' = [block EXCEPT ![c].JoinStatus = block[c].parentID]
          /\ Goto(p, "joinP")
    /\ local' = [local EXCEPT ![p].slot = k, ![p].waitsOn = c]
    /\ UNCHANGED <<processID, bm, bmsem, pcb, heap, exited, result, halted,
                   undefined>>

\* Mutant: the value is not tested again.
JoinPNoTest(p) ==
    LET c == local[p].waitsOn IN
    /\ Alive
    /\ pc[p] = "joinP"
    /\ block' = [block EXCEPT ![c].joinsem = @ - 1]
    /\ Goto(p, "joinReturn")
    /\ UNCHANGED <<processID, bm, bmsem, pcb, heap, local, exited, result,
                   halted, undefined>>

\* The sleeper in joinsem->P() was woken and takes the unit.  If the PCB was
\* deleted with the unit still there, it was woken as well, and tests a deleted
\* semaphore; deleted without, nobody wakes it any more.
JoinP(p) ==
    LET c == local[p].waitsOn IN
    /\ Alive
    /\ pc[p] = "joinP"
    /\ block[c].joinsem > 0
    /\ \/ /\ heap[c] = "live"
          /\ block' = [block EXCEPT ![c].joinsem = @ - 1]
          /\ Goto(p, "joinReturn")
          /\ UNCHANGED <<processID, bm, bmsem, pcb, heap, local, exited,
                         result, halted, undefined>>
       \/ heap[c] = "deleted" /\ Crash

\* Mutant: no ExitRelease.
JoinReturnNoRelease(p) ==
    /\ Alive
    /\ pc[p] = "joinReturn"
    /\ Return(p, 0)
    /\ local' = [local EXCEPT ![p] = NoLocal]
    /\ UNCHANGED <<processID, bm, bmsem, pcb, heap, block, exited, halted,
                   undefined>>

\* The rest of JoinUpdate: the exit code, and ExitRelease only if it is 0.
JoinReturn(p) ==
    LET c == pcb[local[p].slot] IN
    /\ Alive
    /\ pc[p] = "joinReturn"
    /\ \/ /\ heap[c] = "live"
          /\ \/ block[c].exitcode # 0 /\ Return(p, -1) /\ UNCHANGED block
             \/ /\ block[c].exitcode = 0
                /\ Return(p, 0)
                /\ block' = [block EXCEPT ![c].exitsem = @ + 1]
          /\ local' = [local EXCEPT ![p] = NoLocal]
          /\ UNCHANGED <<processID, bm, bmsem, pcb, heap, exited, halted,
                         undefined>>
       \/ heap[c] = "deleted" /\ Crash

-----------------------------------------------------------------------------
(* Exit *)

\* Mutants: the bit is not cleared; nothing is removed.
RemoveKeepsBit(k) == heap' = [heap EXCEPT ![pcb[k]] = "deleted"] /\ UNCHANGED bm
RemoveNothing(k) == UNCHANGED <<bm, heap>>

\* Remove(k): the slot is free again and its PCB deleted, but the slot keeps
\* pointing to it.
Remove(k) ==
    \/ /\ k \in bm
       /\ bm' = bm \ {k}
       /\ heap' = [heap EXCEPT ![pcb[k]] = "deleted"]
    \/ k \notin bm /\ UNCHANGED <<bm, heap>>

\* ExitUpdate of a process whose slot is not marked.
ExitUnknown(p) ==
    /\ Alive
    /\ pc[p] = "user"
    /\ processID[p] \notin bm
    /\ Return(p, -1)
    /\ exited' = exited \cup {p}
    /\ UNCHANGED <<processID, bm, bmsem, pcb, heap, block, local, halted,
                   undefined>>

\* SC_Halt, or Exit of the main process.
Halt(p) ==
    /\ Alive
    /\ pc[p] = "user"
    /\ halted' = TRUE
    /\ UNCHANGED <<pc, processID, bm, bmsem, pcb, heap, block, local, exited,
                   result, undefined>>

\* Exit of a process nobody has joined: the slot is given back.
ExitAlone(p, ec) ==
    LET k == processID[p] IN
    /\ Alive
    /\ pc[p] = "user"
    /\ k \in bm \ {0}
    /\ block[pcb[k]].JoinStatus = -1
    /\ block' = [block EXCEPT ![pcb[k]].exitcode = ec]
    /\ Remove(k)
    /\ Return(p, ec)
    /\ exited' = exited \cup {p}
    /\ UNCHANGED <<processID, bmsem, pcb, local, halted, undefined>>

\* Mutant: no ExitWait.
ExitJoinedNoWait(p, ec) ==
    LET k == processID[p] IN
    /\ Alive
    /\ pc[p] = "user"
    /\ k \in bm \ {0}
    /\ block[pcb[k]].JoinStatus # -1
    /\ block' = [block EXCEPT ![pcb[k]].exitcode = ec, ![pcb[k]].joinsem = @ + 1]
    /\ local' = [local EXCEPT ![p].ec = ec]
    /\ Goto(p, "exitRemove")
    /\ UNCHANGED <<processID, bm, bmsem, pcb, heap, exited, result, halted,
                   undefined>>

\* Exit of a joined process: JoinRelease, up to the return of joinsem->V().
ExitJoined(p, ec) ==
    LET k == processID[p] IN
    /\ Alive
    /\ pc[p] = "user"
    /\ k \in bm \ {0}
    /\ block[pcb[k]].JoinStatus # -1
    /\ block' = [block EXCEPT ![pcb[k]].exitcode = ec, ![pcb[k]].joinsem = @ + 1]
    /\ local' = [local EXCEPT ![p].ec = ec]
    /\ Goto(p, "exitWait")
    /\ UNCHANGED <<processID, bm, bmsem, pcb, heap, exited, result, halted,
                   undefined>>

\* ExitWait of the PCB now in the slot, up to the return of exitsem->P() or to
\* the sleep inside it.
ExitWait(p) ==
    LET c == pcb[processID[p]] IN
    /\ Alive
    /\ pc[p] = "exitWait"
    /\ \/ /\ heap[c] = "live"
          /\ \/ /\ block[c].exitsem > 0
                /\ block' = [block EXCEPT ![c].exitsem = @ - 1]
                /\ Goto(p, "exitRemove")
                /\ UNCHANGED local
             \/ /\ block[c].exitsem = 0
                /\ local' = [local EXCEPT ![p].waitsOn = c]
                /\ Goto(p, "exitP")
                /\ UNCHANGED block
          /\ UNCHANGED <<processID, bm, bmsem, pcb, heap, exited, result,
                         halted, undefined>>
       \/ heap[c] = "deleted" /\ Crash

\* The sleeper in exitsem->P() was woken and takes the unit.  If the PCB was
\* deleted with the unit still there, it was woken as well, and tests a deleted
\* semaphore; deleted without, nobody wakes it any more.
ExitP(p) ==
    LET c == local[p].waitsOn IN
    /\ Alive
    /\ pc[p] = "exitP"
    /\ block[c].exitsem > 0
    /\ \/ /\ heap[c] = "live"
          /\ block' = [block EXCEPT ![c].exitsem = @ - 1]
          /\ Goto(p, "exitRemove")
          /\ UNCHANGED <<processID, bm, bmsem, pcb, heap, local, exited,
                         result, halted, undefined>>
       \/ heap[c] = "deleted" /\ Crash

\* Remove, and Exit returns to the program that called it.
ExitRemove(p) ==
    /\ Alive
    /\ pc[p] = "exitRemove"
    /\ Remove(processID[p])
    /\ Return(p, local[p].ec)
    /\ local' = [local EXCEPT ![p] = NoLocal]
    /\ exited' = exited \cup {p}
    /\ UNCHANGED <<processID, bmsem, pcb, block, halted, undefined>>

-----------------------------------------------------------------------------

Init ==
    /\ pc = [p \in Proc |-> IF p = Main THEN "user" ELSE "none"]
    /\ processID = [p \in Proc |-> 0]
    /\ bm = {0}
    /\ bmsem = 1
    /\ pcb = [k \in Slot |-> NULL]
    /\ heap = [p \in Proc |-> IF p = Main THEN "none" ELSE "free"]
    /\ block = [p \in Proc |-> NewPCB(0)]
    /\ local = [p \in Proc |-> NoLocal]
    /\ exited = {}
    /\ result = [p \in Proc |-> 0]
    /\ halted = FALSE
    /\ undefined = FALSE

\* What a program asks for.
Call(p) ==
    \/ Exec(p)
    \/ \E k \in Slot \cup {MAXPROCESS} :
           JoinFail(p, k) \/ JoinDangling(p, k) \/ Join(p, k)
    \/ \E ec \in ExitCode : ExitAlone(p, ec) \/ ExitJoined(p, ec)
    \/ ExitUnknown(p)
    \/ Halt(p)

\* What the kernel does for it.
Step(p) ==
    \/ Start(p)
    \/ ExecP(p)
    \/ ExecFail(p)
    \/ \E c \in Proc, id \in Slot : ExecLoad(p, c, id)
    \/ ExecFork(p)
    \/ ExecMutexV(p)
    \/ ExecV(p)
    \/ JoinP(p)
    \/ JoinReturn(p)
    \/ ExitWait(p)
    \/ ExitP(p)
    \/ ExitRemove(p)

Next == \E p \in Proc : Call(p) \/ Step(p)

Spec == Init /\ [][Next]_vars
-----------------------------------------------------------------------------
(* Programs that end with Exit *)

\* A program that makes no further system call once Exit has returned to it.
QuietNext == \E p \in Proc : (p \notin exited /\ Call(p)) \/ Step(p)

QuietSpec == Init /\ [][QuietNext]_vars

\* With time slices a thread that is not asleep runs on.
FairQuietSpec == QuietSpec /\ \A p \in Proc : WF_vars(Step(p))

-----------------------------------------------------------------------------
(* Properties *)

PCBFields ==
    [parentID : Slot, JoinStatus : Slot \cup {-1}, exitcode : ExitCode,
     joinsem : Nat, exitsem : Nat, mutex : Nat]

\* Every variable keeps its type: no process id outside the table reaches a
\* thread or a PCB.
TypeOK ==
    /\ pc \in [Proc -> Location]
    /\ processID \in [Proc -> Slot]
    /\ bm \subseteq Slot
    /\ bmsem \in Nat
    /\ pcb \in [Slot -> Proc \cup {NULL}]
    /\ heap \in [Proc -> {"none", "free", "live", "deleted"}]
    /\ block \in [Proc -> PCBFields]
    /\ local \in [Proc -> [child : Proc \cup {NULL}, slot : Slot \cup {-1},
                          waitsOn : Proc \cup {NULL}, ec : ExitCode]]
    /\ exited \subseteq Proc
    /\ result \in [Proc -> Slot \cup ExitCode \cup {-1}]
    /\ halted \in BOOLEAN
    /\ undefined \in BOOLEAN

\* Between bmsem->P() and bmsem->V() of ExecUpdate.
Loading == {p \in Proc : pc[p] \in {"execLoad", "execFork", "execMutexV", "execV"}}

\* bmsem lets one process load another at a time, and every way out of
\* ExecUpdate, the three error returns included, gives it back.
OneLoader == bmsem + Cardinality(Loading) = 1

\* A marked slot holds a PCB that has not been deleted, and no two slots share
\* one, whatever programs do and although Remove and ExitUpdate change the
\* bitmap and the table without bmsem.  So the pointer may be followed right
\* after the bit was tested: by GetName, by Remove, and by ExitUpdate up to the
\* end of joinsem->V().  What ExitUpdate does with the pointer after that is
\* another matter: see ExitKeepsPCB.
MarkedIsLive ==
    \A k \in bm \ {0} :
        /\ pcb[k] # NULL
        /\ heap[pcb[k]] = "live"
        /\ \A i \in bm \ {0, k} : pcb[i] # pcb[k]

Active(p) == pc[p] # "none" /\ p \notin exited

\* If programs stop calling the kernel after Exit, no two processes that have
\* not exited have the same id, although slots are reused while parents,
\* joiners and loaders are still inside their calls.
UniqueProcessID ==
    \A p, q \in Proc : Active(p) /\ Active(q) /\ processID[p] = processID[q] => p = q

\* And a slot is marked exactly while a process that has not exited has its
\* number or is being loaded into it: Exec and Exit lose no slot and free none
\* too early.  A process that sleeps in Exit for good (ChildMayEnd) has not
\* exited, and keeps its slot.
SlotAccounting ==
    \A k \in Slot :
        k \in bm <=> \/ \E p \in Proc : Active(p) /\ processID[p] = k
                    \/ \E p \in Proc : pc[p] = "execFork" /\ local[p].slot = k

\* The handshake over joinsem and exitsem: when JoinUpdate goes on after
\* joinsem->P(), the process it joined has called Exit and is held in ExitWait,
\* so its PCB, read again through the table, still is the one joined.
JoinSeesExit ==
    \A p \in Proc :
        pc[p] = "joinReturn" =>
            LET c == local[p].waitsOn IN
            /\ pc[c] \in {"exitWait", "exitP"}
            /\ pcb[local[p].slot] = c
            /\ heap[c] = "live"

\* ExitUpdate follows pcb[pID] again after the preemption at the end of
\* joinsem->V(), and again in Remove after its sleep in exitsem->P(), without
\* testing the bit.  If programs stop calling the kernel after Exit, the slot is
\* still marked then and still holds the PCB of the process itself, although
\* other processes load, join and exit meanwhile.  (If they go on, a process
\* that calls Exit a second time may be at this point with the PCB of the
\* slot's next owner, and find it deleted: the last branch of ExitWait.)
ExitKeepsPCB ==
    \A p \in Proc :
        pc[p] \in {"exitWait", "exitP", "exitRemove"} =>
            /\ processID[p] \in bm
            /\ pcb[processID[p]] = p
            /\ heap[p] = "live"

\* Exit comes to its end: a process that announced an exit with code 0 to its
\* joiner is let go and gives its slot back.
ExitCompletes ==
    \A p \in Proc :
        pc[p] = "exitWait" /\ local[p].ec = 0 ~> p \in exited \/ ~Alive

-----------------------------------------------------------------------------
(* What the documentation says and the code does not do *)

\* syscall.h:61, of SpaceId: "A unique identifier for an executing user
\* program": no two processes execute user code under one id.
UniqueSpaceId ==
    \A p, q \in Proc :
        pc[p] = "user" /\ pc[q] = "user" /\ processID[p] = processID[q] => p = q

\* ptable.cc:139, of the ExitRelease in JoinUpdate: "cho phep tien trinh con
\* ket thuc" (allow the child to end), whatever its exit code.
ChildMayEnd ==
    \A p \in Proc : pc[p] = "exitWait" ~> p \in exited \/ ~Alive

\* synch.cc:45, of ~Semaphore: "De-allocate semaphore, when no longer needed.
\* Assume no one is still waiting on the semaphore!".  Deleting a PCB deletes
\* its semaphores, so no thread may still be inside a call that uses them.
DeletedWhenUnneeded ==
    \A p, c \in Proc :
        heap[c] = "deleted" =>
            /\ ~(pc[p] = "execMutexV" /\ local[p].child = c)
            /\ ~(pc[p] \in {"joinP", "exitP"} /\ local[p].waitsOn = c)

\* syscall.h:70, of Join: "Return the exit status."
JoinReturnsStatus ==
    [][\A p \in Proc :
          pc[p] = "joinReturn" /\ pc'[p] = "user" =>
              result'[p] = block[local[p].waitsOn].exitcode]_vars
===============================================================================
