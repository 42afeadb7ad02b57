# A TLA+ verification of the Nachos kernel

Nachos is a small operating system that runs on a simulated MIPS machine. This
directory models its kernel (`src/nachos/nachos-3.4/code/`), checks the models
with TLC on small instances, and proves the central properties of the thread
system with TLAPS for any number of threads, semaphores and locks.
`PROJECT.json` maps every definition to the source lines it stands for.

## 1. The system

One host process simulates one CPU. Kernel code is ordinary C++; user programs
are MIPS code that the simulator interprets. Paths below are relative to
`src/nachos/nachos-3.4/code/`.

| Part | Source | State | Operations |
|---|---|---|---|
| Threads, scheduler | `threads/thread.cc`, `scheduler.cc` | `currentThread`, `readyList`, `status`, `threadToBeDestroyed` | Fork, Yield, Sleep, Finish, ReadyToRun, FindNextToRun, Run |
| Semaphores, locks | `threads/synch.cc` | `value`, `queue`; `stat`, `ownerThread`, `queue` | P, V; Acquire, Release |
| Interrupts, timer | `machine/interrupt.cc`, `timer.cc` | `level`, `pending`, `inHandler`, `yieldOnReturn`, clock | SetLevel, OneTick, Idle, Schedule, CheckIfDue, Halt |
| Process table | `threads/ptable.cc`, `pcb.cc` | `bm`, `bmsem`, `pcb[]`; PCB fields and semaphores | ExecUpdate, JoinUpdate, ExitUpdate, Remove |
| System calls | `userprog/exception.cc` | registers, PC | one case per call |
| Address spaces | `userprog/addrspace.cc`, `bitmap.cc` | page tables, `gPhysPageBitMap`, `addrLock` | load a program, free its frames |
| Console | `threads/synchcons.cc`, `machine/console.cc` | `incoming`, `putBusy`, two semaphores | Read, Write, CheckCharAvail, WriteDone |
| Disk | `filesys/synchdisk.cc`, `machine/disk.cc` | `active`, head position, one semaphore, one lock | ReadSector, WriteSector, HandleInterrupt |
| File system | `filesys/*.cc` | free map, directory, headers on disk | Create, Open, Remove, ReadAt, WriteAt |
| Network | `network/post.cc`, `machine/network.cc` | mail boxes, `sendBusy`, `inHdr` | Send, Receive, PostalDelivery |

**How they interact.** Every device operation is a request followed by a
semaphore `P`; the device schedules an interrupt whose handler does the `V`.
System calls run on the kernel thread of the calling process. `Exec` makes a new
thread, whose first act is to load its own address space.

**When another thread may run.** This decides what one step of a model is. A
kernel routine turns interrupts off with `SetLevel(IntOff)` and restores them at
its end; only `SetLevel` from off to on, and a user instruction, call `OneTick`,
and only `OneTick` fires device handlers and, when the timer (option `-rs`)
asked for it, calls `Yield`. So kernel code loses the CPU in three places: in
`Sleep`, in an explicit `Yield`, and at the end of a routine that turns
interrupts back on. Everything between two such places is one action. A thread
that gave up the CPU continues after the `SWITCH` in `Scheduler::Run`, except a
thread that never ran, which starts in `ThreadRoot`.

## 2. What is modelled

### Threads (`Threads.tla`)

The variables are the fields of the C++ classes under their own names, plus
three that are not in the code: `pc[t]`, the routine in which a thread continues
when it next runs; `deleted`, the threads whose destructor ran; and `held`, the
locks a thread obtained from `Acquire` and has not released (a history variable
the lock's own fields are compared with).

| Action | Code |
|---|---|
| `Fork`, `Yield`, `Finish` | `Thread::Fork` (after `new Thread`), `Yield`, `Finish` |
| `P`, `ResumeP` | `Semaphore::P` from the start, and from the return of `Sleep` |
| `V`, `Signal` | `Semaphore::V` by a thread, and its body |
| `AcquireFree`, `AcquireBusy`, `ResumeAcquire`, `Release` | class `Lock`; a `Release` by a thread that is not the owner changes nothing |
| `StartThread`, `ResumeYield` | what follows the `SWITCH`, with or without the deletion of the carcass |
| `Schedule`, `DeviceInterrupt` | a device is started; `CheckIfDue` runs its handler, which does a `V` |
| `WakeFromIdle`, `Halt` | the loop of `Sleep` around `Interrupt::Idle` |

`Yield` is both the call and the time slice: `OneTick` calls the same routine at
every point where interrupts are on, which is where the action is enabled.

`FifoLock.tla` is the abstract lock: a holder and a queue of waiting callers,
without owner field, status or scheduler. `Threads` implements it, with a waiter
that was handed the lock and has not run yet still counted as waiting.

### Processes (`ProcessTable.tla`)

Exec, Join and Exit. Semaphores are counters here (their queues are in
`Threads`), and a PCB is `free`, `live` or `deleted`, with the table's pointers
allowed to dangle as they do in the code. Using a deleted PCB sets `undefined`,
after which nothing more is claimed. A thread inside `P` of a semaphore
that is deleted uses freed memory when there was a unit to wake it, and
otherwise sleeps for good. Left out are the tests for a null
result of `new` (`exception.cc:475`, `pcb.cc:107`, `pcb.cc:125`), which does not
return null, and the loading of the address space in `MyStartProcess`. One action is the code between two
preemption points, so `ExecUpdate` is seven actions:

`Exec` → `ExecP` (bmsem) → `ExecFail` | `ExecLoad` → `ExecFork` → `ExecMutexV` → `ExecV`

`JoinUpdate` is `JoinFail`, `JoinDangling` or `Join` → `JoinP` → `JoinReturn`,
and `ExitUpdate` is `ExitUnknown`, `Halt`, `ExitAlone` or
`ExitJoined` → `ExitWait` → `ExitP` → `ExitRemove`.

Exit returns to the program that called it, as it does in the code
(`exception.cc:502-509` advances the PC). `Spec` lets the program go on making
calls; `QuietSpec` is for programs that make none after Exit. Which of the two a
property is checked under is part of what it says.

### Console (`SynchConsole.tla`)

`SynchConsole` over the device `Console`: the character buffer `incoming`, the
flag `putBusy`, the pending completion interrupts and the four semaphores, again
as counters.

| Action | Code |
|---|---|
| `CheckCharAvail` | the polling interrupt when it finds a byte typed and the buffer empty; otherwise it changes nothing |
| `WriteDone` | the interrupt that follows a `PutChar` |
| `Write` → `WriteLine` → (`PutChar` → `PutWait`)* → `WriteReturn` | `SynchConsole::Write`, with the line semaphore around the loop |
| `Read` → `ReadLine` → (`ReadWait` → `GetChar`)* → `ReadReturn` | `SynchConsole::Read`; `GetChar` also returns from the call at an end of line |

A byte is what the loop of `Read` tells apart: data, an end of line (newline or
^A), or 255, which as a `char` equals the `EOF` that marks the buffer empty. The
bytes `Write` is given and the number `Read` returns are left out. `unread`,
`lastTaken` and `lastPut` are history: what was typed and not read, and which
byte of which call the device handled last.

## 3. What the runs check

| Run | Instance | Shows |
|---|---|---|
| `threads` | 4 threads, a device semaphore, a semaphore, a lock | all safety properties of `Threads` and the refinement of `FifoLock` |
| `threads_fair` | 3 threads, a device semaphore, a lock | `ReadyRuns`, `LockGranted`, `ImplementsFairLock` |
| `process_table` | 3 processes, 3 slots, codes 0 and 1, calls after Exit allowed | `OneLoader`, `MarkedIsLive` |
| `process_table_quiet` | the same, no calls after Exit, weak fairness | `UniqueProcessID`, `SlotAccounting`, `JoinSeesExit`, `ExitKeepsPCB`, `ExitCompletes` |
| `synch_console` | 2 threads, calls of 0 to 2 bytes, 3 kinds of byte, weak fairness | all properties of `SynchConsole` |

Properties of `Threads`:

- `ThreadPlacement`: a thread is on the CPU, or once on the ready list, or once
  on the queue of the object it sleeps on, and its status says which.
- `CarcassUnreachable`: the thread waiting to be deleted is in no list, is not
  the current thread when deleted, and is never deleted twice.
- `MutualExclusion`, `LockHandoff`: a waiter returns from `Acquire` without
  looking at the lock; it is right to do so.
- `NoLostWakeup`: while threads wait, each unit of a semaphore's value has a
  woken thread on its way to it.
- `HaltOnlyWhenStuck`: Nachos halts by itself only when nothing can run again.
- `ReadyFIFO`: nothing overtakes a thread on the ready list.
- `ReadyRuns`, `LockGranted`: under time slices nobody starves.

Properties of `ProcessTable`:

- `OneLoader`: `bmsem` is given back on every way out of `ExecUpdate`.
- `MarkedIsLive`: a marked slot has a live PCB of its own, whatever programs do,
  so a pointer may be followed right after its bit was tested: in `GetName`, in
  `Remove`, and in `ExitUpdate` up to the end of `JoinRelease`.
- `ExitKeepsPCB`: `ExitUpdate` follows `pcb[pID]` again after `JoinRelease`
  (`ptable.cc:98`), where another process may have run, without testing the bit
  again. For programs that make no calls after Exit the slot still holds the
  process's own PCB. For programs that do, it need not: a process that calls
  Exit again under an id that was given to another process can find that
  process's PCB deleted, which is the `Crash` branch of `ExitWait` and is
  reached in `process_table`.
- `UniqueProcessID`, `SlotAccounting`: with slots reused while joiners and
  loaders are inside their calls, ids stay unique, and a slot is marked exactly
  while its process has not exited. A child that `exit_stranded` shows asleep in
  Exit for good has not exited: it keeps its slot.
- `JoinSeesExit`: after `JoinWait` the PCB that `JoinUpdate` reads again is the
  one it joined, and its process is held in Exit.
- `ExitCompletes`: an exit with code 0 comes to its end.

Properties of `SynchConsole`:

- `OnePutAtATime`: the assertion in `Console::PutChar` holds, because the unit a
  writer waits for is always that of its own byte.
- `LinesWhole`: the bytes of one `Write`, and those of one `Read`, are
  consecutive on the device.
- `InputInOrder`: each byte typed is read once and in order, with one character
  of buffer.
- `BufferedIsAnnounced`, `ByteIsRead`: bytes 255 leave units of `synchReadAvail`
  without a byte, but never a byte without a unit, so a waiting `Read` gets it.
- `WriteEnds`: a `Write` that got the line comes to its end.

### Where the code does not do what its documentation says

Each of these runs ends in a counterexample.

| Run | Statement | What happens |
|---|---|---|
| `threads_carcass` | `thread.cc:139`: Run will call the destructor of a finished thread | a thread that runs for the first time skips the code after `SWITCH`; if it finishes at once it overwrites `threadToBeDestroyed` and the earlier thread is never deleted |
| `exit_stranded` | `ptable.cc:139`: allow the child to end | with a code other than 0 `JoinUpdate` returns before `ExitRelease`; the child sleeps forever and keeps its slot |
| `exit_returns` | `syscall.h:61`: a unique identifier for an executing user program | Exit frees the slot and returns to the program; a new process runs under the same id |
| `deleted_in_use` | `synch.cc:45`: no one is still waiting on a deleted semaphore | a child that runs and exits before its parent's `mutex->V()` deletes that semaphore; likewise a parent that joins a child again, before the child has removed itself, is asleep on `joinsem` when it is deleted |
| `join_status` | `syscall.h:70`: return the exit status | Join returns -1 for every code other than 0 |

### Bounds

`MaxValue` and `MaxIO` (both 2) cap a semaphore's value and the outstanding
requests of a device; 2 is the least value at which a unit can be taken by a
thread other than the one it woke while a second unit is on its way. Four
threads are one on the CPU, one ready, and two in a queue, so that the order of
a queue shows; four threads also give the two finished threads and the two
survivors the carcass needs. The unborn threads are interchangeable, which
justifies the symmetry sets; the runs with liveness use none. Three processes
and three slots give a grandchild, a slot that is reused while its first owner's
parent is still in a call, and a full table (main and two children).

On the console, `MaxBytes` 2 gives a first and a last byte, so that calls can mix,
and `MaxUnits` 2 caps `synchReadAvail`: one unit for the byte in the buffer and
one left behind by a byte 255. The cap stops the typing of more bytes while both
units are there, which holds nobody up, since units are what readers wait for.

`CHECK_DEADLOCK FALSE` is used throughout because Nachos stops: `Halt` is the
normal end of a session. That it stops only when it should is `HaltOnlyWhenStuck`.

### Fairness

`Fairness` of `Threads`: code that runs with interrupts off goes on (weak
fairness of `Resume` and `WakeFromIdle`); an idle machine moves its clock to the
next pending interrupt, and a busy one reaches it (weak fairness of
`DeviceInterrupt`); and the timer of option `-rs`, which reschedules itself for
ever, forces a `Yield` again and again on whatever thread runs (strong fairness
of `Yield`, which is not enabled while a thread is inside a routine). Without
`-rs` there is no timer, and a thread that never calls the kernel keeps the CPU.
`FairQuietSpec` of `ProcessTable` assumes weak fairness of every process that is
inside the kernel and not asleep, which is what `ReadyRuns` provides.
`FairSpec` of `SynchConsole` assumes the same of threads, and weak fairness of
`WriteDone`: the interrupt was scheduled when the byte was put. Nothing is
assumed about typing. A `Semaphore` lets a newcomer overtake a thread that was
woken, so nothing is claimed for a thread that waits for the line.

## 4. What is proved

The theorems hold for every finite set of threads, all sets of semaphores and
locks, and all bounds; they use `ThreadAssumption` only (the sets are disjoint,
`NULL` is in none of them, initial values are natural numbers).

| Module | Theorem | Statement |
|---|---|---|
| `ThreadsProofs` | `TypeCorrect`, `PlacementCorrect` | `TypeOK`, `ThreadPlacement` |
| `LockProofs` | `HandoffCorrect`, `MutualExclusionCorrect` | `LockHandoff`, `MutualExclusion` |
| `FifoLockProofs` | `LocksAreFifo` | `Spec => ImplementsFifoLock` |
| `WakeupProofs` | `CarcassCorrect`, `WakeupCorrect`, `HaltCorrect`, `SchedulerIsFifo` | `CarcassUnreachable`, `NoLostWakeup`, `HaltOnlyWhenStuck`, `ReadyFIFO` |

The argument goes in layers, each inductive relative to the ones below.

1. `TypeOK` is inductive by itself: in particular `P` decrements only a value it
   has just seen to be positive.
2. `ThreadPlacement` is inductive on top of it. The lemmas `SleepPlacement`,
   `MovePlacement`, `TryPPlacement` and `SignalPlacement` treat the three ways
   a thread changes place, so that the step over `Next` is a case split.
3. `Placed` adds `OffCPU`: a thread that is not running is inside one of the
   routines that give up the CPU. Without it a `Release` could hand the lock to
   a thread that was never in `Acquire`.
4. `LockHandoff` is inductive on top of `Placed`, and mutual exclusion follows:
   two holders would be one owner.
5. `LockInv` adds that a thread inside `Acquire` does not hold the lock it waits
   for. With it every step of `Threads` is a step of `FifoLock` or a stutter:
   `Release` is `Drop`, and the later return of the waiter is `Grant`.
6. `CarcassInv` says that finished threads are blocked in `Finish` and that only
   the last one may be undeleted; `NoLostWakeup` is inductive as it stands.
   `HaltOnlyWhenStuck` follows from `Placed`, `LockHandoff` and `NoLostWakeup`
   at the one step that halts.
7. `ReadyFIFO`: every step shifts the ready list by zero or one position and
   adds at most one new thread behind it (`StepShifts`).

Only model-checked: all liveness properties (the prover has no rules for
fairness here), and everything about `ProcessTable` and
`SynchConsole`.

## 5. What is not modelled, and the plan

In the order in which it is to be added:

1. Disk: `SynchDisk` over `Disk` with several threads, shown to implement a disk
   whose reads and writes are atomic; and the PC of the system call dispatch,
   which some calls advance twice and some error paths not at all.
2. Address spaces: frames under `addrLock`, the out-of-memory path, two
   processes loading at once.
3. File system: `Create` and `Remove` over free map, directory and headers,
   the sectors each one writes and the order, with two threads inside at once.
4. Network: unreliable delivery, `sendBusy`, the handshake of `PostOffice`.
5. Interrupt clock: the pending list ordered by time (`List::SortedInsert`), the
   timer's rescheduling, `yieldOnReturn`.
6. Algorithms: `OpenFile::ReadAt`/`WriteAt` against bytes of a file,
   `Machine::Translate`, `Disk::TimeToSeek`, the number conversions of ReadInt
   and PrintInt.
7. Proofs: `OneLoader` and `MarkedIsLive` of `ProcessTable`, the safety
   properties of `SynchConsole`, then the invariants of the disk and file system modules.

Out of scope: the MIPS instruction table, the host interface (`sysdep.cc`), the
object file tools under `bin/`, statistics, and the test drivers, whose calls
are among those the models allow.
