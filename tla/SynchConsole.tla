---------------------------- MODULE SynchConsole ----------------------------
(***************************************************************************)
(* The console: SynchConsole (threads/synchcons.cc), which kernel threads  *)
(* call, over the simulated device Console (machine/console.cc), which     *)
(* interrupts.                                                             *)
(*                                                                         *)
(* An action is the code between two preemption points, which here are the *)
(* returns of Semaphore::P and V.  Semaphores are counters (their queues   *)
(* are in module Threads), so a thread at a P waits until the counter is   *)
(* positive and may be overtaken, as it may be in the code.                *)
(*                                                                         *)
(* A byte is what the loop of Read tells apart: data, an end of line       *)
(* (newline or ^A), and 255, which as a char equals EOF, the value that    *)
(* says that the one-character buffer of the device is empty.  The number  *)
(* Read returns is left out, as are the bytes Write is given.              *)
(***************************************************************************)
EXTENDS Integers, Sequences, FiniteSets

CONSTANTS
    Thread,         \* threads that use the console
    Data,           \* bytes without a meaning of their own
    NULL,           \* no byte
    MaxBytes,       \* bound: numBytes of a call
    MaxUnits        \* bound: value of synchReadAvail

EndOfLine == "end of line"
EOF == "EOF"

ASSUME ConsoleAssumption ==
    /\ IsFiniteSet(Thread)
    /\ {EndOfLine, EOF} \cap Data = {}
    /\ MaxBytes \in Nat
    /\ MaxUnits \in Nat

Byte == Data \cup {EndOfLine, EOF}

VARIABLES
    incoming,           \* Console::incoming
    putBusy,            \* Console::putBusy
    writeInts,          \* ConsoleWriteDone interrupts that are pending
    synchReadAvail, synchWriteAvail, RLineBlock, WLineBlock,    \* semaphores
    pc,                 \* where each thread is
    numBytes,           \* argument of the call a thread is in
    loop,               \* local variable of that call
    unread,             \* history: bytes typed and not yet taken by a Read
    lastTaken,          \* history: the last byte a Read took
    lastPut             \* history: the last byte displayed

semaphores == <<synchReadAvail, synchWriteAvail, RLineBlock, WLineBlock>>
device == <<incoming, putBusy, writeInts>>
history == <<unread, lastTaken, lastPut>>
vars == <<device, semaphores, pc, numBytes, loop, history>>

Location == {"caller", "line", "put", "putWait", "readLine", "readWait", "getChar"}

\* The place of a byte in the call that reads or writes it.
Place(t, ends) ==
    [by |-> t, index |-> loop[t], last |-> ends \/ loop[t] + 1 = numBytes[t]]

Goto(t, l) == pc' = [pc EXCEPT ![t] = l]

\* The call returns and its arguments and local variables are gone.
Return(t) ==
    /\ Goto(t, "caller")
    /\ numBytes' = [numBytes EXCEPT ![t] = 0]
    /\ loop' = [loop EXCEPT ![t] = 0]

Init ==
    /\ incoming = EOF
    /\ putBusy = FALSE
    /\ writeInts = 0
    /\ synchReadAvail = 0
    /\ synchWriteAvail = 0
    /\ RLineBlock = 1
    /\ WLineBlock = 1
    /\ pc = [t \in Thread |-> "caller"]
    /\ numBytes = [t \in Thread |-> 0]
    /\ loop = [t \in Thread |-> 0]
    /\ unread = <<>>
    /\ lastTaken = NULL
    /\ lastPut = NULL

-----------------------------------------------------------------------------
(* The device *)

\* Mutant: the byte in the buffer is overwritten.
CheckCharAvailAlways(b) ==
    /\ synchReadAvail < MaxUnits
    /\ incoming' = b
    /\ synchReadAvail' = synchReadAvail + 1
    /\ unread' = IF b = EOF THEN unread ELSE Append(unread, b)
    /\ UNCHANGED <<putBusy, writeInts, synchWriteAvail, RLineBlock, WLineBlock,
                   pc, numBytes, loop, lastTaken, lastPut>>

\* Mutant: the read handler is not called.
CheckCharAvailSilent(b) ==
    /\ synchReadAvail < MaxUnits
    /\ incoming = EOF
    /\ incoming' = b
    /\ unread' = IF b = EOF THEN unread ELSE Append(unread, b)
    /\ UNCHANGED <<putBusy, writeInts, semaphores, pc, numBytes, loop,
                   lastTaken, lastPut>>

\* The polling interrupt finds byte b typed and the buffer empty.
CheckCharAvail(b) ==
    /\ synchReadAvail < MaxUnits
    /\ incoming = EOF
    /\ incoming' = b
    /\ synchReadAvail' = synchReadAvail + 1
    /\ unread' = IF b = EOF THEN unread ELSE Append(unread, b)
    /\ UNCHANGED <<putBusy, writeInts, synchWriteAvail, RLineBlock, WLineBlock,
                   pc, numBytes, loop, lastTaken, lastPut>>

\* Mutant: the write handler is not called.
WriteDoneSilent ==
    /\ writeInts > 0
    /\ writeInts' = writeInts - 1
    /\ putBusy' = FALSE
    /\ UNCHANGED <<incoming, semaphores, pc, numBytes, loop, history>>

\* The interrupt that follows a PutChar.
WriteDone ==
    /\ writeInts > 0
    /\ writeInts' = writeInts - 1
    /\ putBusy' = FALSE
    /\ synchWriteAvail' = synchWriteAvail + 1
    /\ UNCHANGED <<incoming, synchReadAvail, RLineBlock, WLineBlock,
                   pc, numBytes, loop, history>>

-----------------------------------------------------------------------------
(* Write *)

\* A thread calls Write or Read for n bytes.
Call(t, n, l) ==
    /\ pc[t] = "caller"
    /\ Goto(t, l)
    /\ numBytes' = [numBytes EXCEPT ![t] = n]
    /\ loop' = [loop EXCEPT ![t] = 0]
    /\ UNCHANGED <<device, semaphores, history>>

Write(t, n) == Call(t, n, "line")

\* Mutant: no WLineBlock->P().
WriteLineNoP(t) ==
    /\ pc[t] = "line"
    /\ Goto(t, "put")
    /\ UNCHANGED <<device, semaphores, numBytes, loop, history>>

\* WLineBlock->P() returns.
WriteLine(t) ==
    /\ pc[t] = "line"
    /\ WLineBlock > 0
    /\ WLineBlock' = WLineBlock - 1
    /\ Goto(t, "put")
    /\ UNCHANGED <<device, synchReadAvail, synchWriteAvail, RLineBlock,
                   numBytes, loop, history>>

\* PutChar of the next byte, up to the wait for its interrupt.
PutChar(t) ==
    /\ pc[t] = "put"
    /\ loop[t] < numBytes[t]
    /\ lastPut' = Place(t, FALSE)
    /\ putBusy' = TRUE
    /\ writeInts' = writeInts + 1
    /\ Goto(t, "putWait")
    /\ UNCHANGED <<incoming, semaphores, numBytes, loop, unread, lastTaken>>

\* synchWriteAvail->P() returns.
PutWait(t) ==
    /\ pc[t] = "putWait"
    /\ synchWriteAvail > 0
    /\ synchWriteAvail' = synchWriteAvail - 1
    /\ loop' = [loop EXCEPT ![t] = @ + 1]
    /\ Goto(t, "put")
    /\ UNCHANGED <<device, synchReadAvail, RLineBlock, WLineBlock,
                   numBytes, history>>

\* The end of Write.
WriteReturn(t) ==
    /\ pc[t] = "put"
    /\ loop[t] = numBytes[t]
    /\ WLineBlock' = WLineBlock + 1
    /\ Return(t)
    /\ UNCHANGED <<device, synchReadAvail, synchWriteAvail, RLineBlock,
                   history>>

-----------------------------------------------------------------------------
(* Read *)

Read(t, n) == Call(t, n, "readLine")

\* Mutant: no RLineBlock->P().
ReadLineNoP(t) ==
    /\ pc[t] = "readLine"
    /\ Goto(t, "readWait")
    /\ UNCHANGED <<device, semaphores, numBytes, loop, history>>

\* RLineBlock->P() returns.
ReadLine(t) ==
    /\ pc[t] = "readLine"
    /\ RLineBlock > 0
    /\ RLineBlock' = RLineBlock - 1
    /\ Goto(t, "readWait")
    /\ UNCHANGED <<device, synchReadAvail, synchWriteAvail, WLineBlock,
                   numBytes, loop, history>>

\* Mutant: loop <= numBytes.
ReadWaitPastEnd(t) ==
    /\ pc[t] = "readWait"
    /\ loop[t] <= numBytes[t]
    /\ synchReadAvail > 0
    /\ synchReadAvail' = synchReadAvail - 1
    /\ Goto(t, "getChar")
    /\ UNCHANGED <<device, synchWriteAvail, RLineBlock, WLineBlock,
                   numBytes, loop, history>>

\* synchReadAvail->P() returns.
ReadWait(t) ==
    /\ pc[t] = "readWait"
    /\ loop[t] < numBytes[t]
    /\ synchReadAvail > 0
    /\ synchReadAvail' = synchReadAvail - 1
    /\ Goto(t, "getChar")
    /\ UNCHANGED <<device, synchWriteAvail, RLineBlock, WLineBlock,
                   numBytes, loop, history>>

\* GetChar and the test of what it returned: nothing, an end of line, or a byte
\* for the buffer.
GetChar(t) ==
    /\ pc[t] = "getChar"
    /\ incoming' = EOF
    /\ \/ /\ incoming = EOF
          /\ Goto(t, "readWait")
          /\ UNCHANGED <<RLineBlock, numBytes, loop, unread, lastTaken>>
       \/ /\ incoming # EOF
          /\ unread' = Tail(unread)
          /\ lastTaken' = Place(t, incoming = EndOfLine)
          /\ \/ /\ incoming = EndOfLine
                /\ RLineBlock' = RLineBlock + 1
                /\ Return(t)
             \/ /\ incoming \in Data
                /\ loop' = [loop EXCEPT ![t] = @ + 1]
                /\ Goto(t, "readWait")
                /\ UNCHANGED <<RLineBlock, numBytes>>
    /\ UNCHANGED <<putBusy, writeInts, synchReadAvail, synchWriteAvail,
                   WLineBlock, lastPut>>

\* The loop ends because the buffer is full.
ReadReturn(t) ==
    /\ pc[t] = "readWait"
    /\ loop[t] = numBytes[t]
    /\ RLineBlock' = RLineBlock + 1
    /\ Return(t)
    /\ UNCHANGED <<device, synchReadAvail, synchWriteAvail, WLineBlock,
                   history>>

-----------------------------------------------------------------------------

\* What the kernel does once a thread has called it.
Step(t) ==
    \/ WriteLine(t) \/ PutChar(t) \/ PutWait(t) \/ WriteReturn(t)
    \/ ReadLine(t) \/ ReadWait(t) \/ GetChar(t) \/ ReadReturn(t)

Next ==
    \/ \E b \in Byte : CheckCharAvail(b)
    \/ WriteDone
    \/ \E t \in Thread :
           \/ Step(t)
           \/ \E n \in 0..MaxBytes : Write(t, n) \/ Read(t, n)

Spec == Init /\ [][Next]_vars

\* Threads that are not asleep run on, and a scheduled interrupt comes.
FairSpec == Spec /\ WF_vars(WriteDone) /\ \A t \in Thread : WF_vars(Step(t))

-----------------------------------------------------------------------------
(* Properties *)

Places == [by : Thread, index : 0..MaxBytes, last : BOOLEAN] \cup {NULL}

\* Every variable keeps its type; no call goes past the end of its buffer.
TypeOK ==
    /\ incoming \in Byte
    /\ putBusy \in BOOLEAN
    /\ {writeInts, synchReadAvail, synchWriteAvail, RLineBlock, WLineBlock} \subseteq Nat
    /\ pc \in [Thread -> Location]
    /\ numBytes \in [Thread -> 0..MaxBytes]
    /\ loop \in [Thread -> 0..MaxBytes]
    /\ unread \in Seq(Byte)
    /\ lastTaken \in Places
    /\ lastPut \in Places

Writing == {t \in Thread : pc[t] \in {"put", "putWait"}}
Reading == {t \in Thread : pc[t] \in {"readWait", "getChar"}}

\* The device is never asked to display a byte while it is busy with another
\* (the ASSERT in Console::PutChar): the interrupt a writer waits for is its
\* own, the semaphore holds no unit left over from an earlier byte, and nobody
\* else is between the two.
OnePutAtATime ==
    /\ putBusy = (writeInts = 1)
    /\ WLineBlock + Cardinality(Writing) = 1
    /\ writeInts + synchWriteAvail = Cardinality({t \in Thread : pc[t] = "putWait"})

\* The next byte of t's call comes right behind the previous byte of that call
\* or, if it is the first, behind the last byte of another call.
Continues(previous, t) ==
    IF loop[t] = 0 THEN previous = NULL \/ previous.last
    ELSE previous = [by |-> t, index |-> loop[t] - 1, last |-> FALSE]

\* What one Write puts on the display, and what one Read takes from the
\* keyboard, is a run of consecutive bytes: calls of different threads do not
\* mix, whatever the order of interrupts.
LinesWhole ==
    \A t \in Thread :
        /\ pc[t] = "put" /\ loop[t] < numBytes[t] => Continues(lastPut, t)
        /\ pc[t] \in {"readWait", "getChar"} /\ loop[t] < numBytes[t] =>
               Continues(lastTaken, t)

\* Every byte typed, other than 255, reaches exactly one reader and in the
\* order of typing: what was typed and not read is what is in the buffer.
InputInOrder == unread = IF incoming = EOF THEN <<>> ELSE <<incoming>>

\* A byte in the buffer always has a unit of synchReadAvail, or a reader that
\* took one, on its way to it, although bytes 255 leave units without a byte
\* and readers that find none.
BufferedIsAnnounced ==
    incoming # EOF =>
        synchReadAvail + Cardinality({t \in Thread : pc[t] = "getChar"}) > 0

\* A Write that got the line comes to its end.
WriteEnds == \A t \in Thread : t \in Writing ~> t \notin Writing

\* A byte that is typed does not stay in the buffer while a Read waits for it.
ByteIsRead ==
    incoming # EOF /\ (\E t \in Reading : loop[t] < numBytes[t]) ~> incoming = EOF
=============================================================================
