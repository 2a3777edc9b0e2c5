----------------------------- MODULE PipeWriter -----------------------------
(***************************************************************************)
(* Class PipeWriter: its owner queues buffers with Write, and a thread of  *)
(* its own writes them to a pipe.  ConsoleServer uses one for the standard *)
(* input of the client process, OnConsole two for its standard output and  *)
(* error.  In ConsoleServer the owner is the only thread that serves       *)
(* clients, so a destructor that does not return stops the server.         *)
(*                                                                         *)
(* The queue is guarded by mQueueMutex and mWriteThreadEvent, but the flag *)
(* mWriteThreadShouldRun is not: the destructor clears it and notifies     *)
(* without taking the mutex.                                               *)
(*                                                                         *)
(* Bytes are numbered in the order in which they are written.              *)
(***************************************************************************)
EXTENDS Naturals, Sequences, SequencesExt

CONSTANTS
  MaxBytes,   \* bound: bytes the owner ever writes
  MaxBuffer,  \* bound: bytes in one buffer
  Capacity    \* bytes the pipe holds

ASSUME PipeWriterAssumption ==
  /\ MaxBytes \in Nat /\ MaxBuffer \in Nat \ {0} /\ Capacity \in Nat \ {0}

VARIABLES
  owner,      \* position of the owner: "idle", or in the destructor
  sent,       \* number of bytes handed to Write
  queue,      \* mQueue
  shouldRun,  \* mWriteThreadShouldRun
  writer,     \* position of the write thread
  buf,        \* what is left of the buffer the write thread has taken
  pipe,       \* bytes in the pipe
  received,   \* bytes the reader has got
  broken      \* the read end of the pipe is closed

threadVars == <<writer, buf>>
pipeVars   == <<pipe, received, broken>>
vars       == <<owner, sent, queue, shouldRun, threadVars, pipeVars>>

\* Positions of the write thread:
\*   "loop"     about to test mWriteThreadShouldRun in WriteThreadFunc
\*   "get"      about to lock the mutex in GetNextBuffer
\*   "locked"   holds the mutex, about to test mQueue.empty()
\*   "towait"   holds the mutex, has found the queue empty
\*   "waiting"  in mWriteThreadEvent.wait, the mutex released
\*   "woken"    notified, about to lock the mutex again
\*   "write"    about to test the condition of the loop in WriteToPipe
\*   "writing"  in WriteFile
\*   "exit"     the thread has ended
HoldsMutex == writer \in {"locked", "towait"}

TypeOK ==
  /\ owner \in {"idle", "notify", "join", "gone"}
  /\ sent \in 0..MaxBytes
  /\ queue \in Seq(Seq(1..MaxBytes))
  /\ shouldRun \in BOOLEAN
  /\ writer \in {"loop", "get", "locked", "towait", "waiting", "woken",
                 "write", "writing", "exit"}
  /\ buf \in Seq(1..MaxBytes)
  /\ pipe \in Seq(1..MaxBytes) /\ Len(pipe) <= Capacity
  /\ received \in Seq(1..MaxBytes)
  /\ broken \in BOOLEAN

Init ==
  /\ owner = "idle" /\ sent = 0 /\ queue = <<>> /\ shouldRun = TRUE
  /\ writer = "loop" /\ buf = <<>>
  /\ pipe = <<>> /\ received = <<>> /\ broken = FALSE

\* A buffer of the bytes from m + 1 to n.
Bytes(m, n) == [i \in 1..(n - m) |-> m + i]

-----------------------------------------------------------------------------
(* The owner.                                                              *)

\* notify_all: whoever waits at this moment is woken, and nobody else.
NotifyAll == writer' = IF writer = "waiting" THEN "woken" ELSE writer

\* Mutant: the notification is forgotten.
WriteSilently(n) ==
  /\ owner = "idle" /\ ~HoldsMutex
  /\ sent + n <= MaxBytes
  /\ queue' = Append(queue, Bytes(sent, sent + n))
  /\ sent' = sent + n
  /\ UNCHANGED <<owner, shouldRun, threadVars, pipeVars>>

\* Write of a buffer of n bytes: lock the mutex, push, notify, unlock.
Write(n) ==
  /\ owner = "idle" /\ ~HoldsMutex
  /\ sent + n <= MaxBytes
  /\ queue' = Append(queue, Bytes(sent, sent + n))
  /\ sent' = sent + n
  /\ NotifyAll
  /\ UNCHANGED <<owner, shouldRun, buf, pipeVars>>

\* The destructor: the flag, the notification and the join are three steps.
ClearShouldRun ==
  /\ owner = "idle"
  /\ shouldRun' = FALSE
  /\ owner' = "notify"
  /\ UNCHANGED <<sent, queue, threadVars, pipeVars>>

DestructorNotifies ==
  /\ owner = "notify"
  /\ owner' = "join"
  /\ NotifyAll
  /\ UNCHANGED <<sent, queue, shouldRun, buf, pipeVars>>

Join ==
  /\ owner = "join" /\ writer = "exit"
  /\ owner' = "gone"
  /\ UNCHANGED <<sent, queue, shouldRun, threadVars, pipeVars>>

-----------------------------------------------------------------------------
(* The write thread.                                                       *)

Goto(from, to) == writer = from /\ writer' = to

\* WriteThreadFunc
TestShouldRun ==
  /\ Goto("loop", IF shouldRun THEN "get" ELSE "exit")
  /\ UNCHANGED <<owner, sent, queue, shouldRun, buf, pipeVars>>

\* GetNextBuffer
Lock ==
  /\ Goto("get", "locked")
  /\ UNCHANGED <<owner, sent, queue, shouldRun, buf, pipeVars>>

FindEmpty ==
  /\ queue = <<>>
  /\ Goto("locked", "towait")
  /\ UNCHANGED <<owner, sent, queue, shouldRun, buf, pipeVars>>

\* Waiting releases the mutex and blocks in one step.
Wait ==
  /\ Goto("towait", "waiting")
  /\ UNCHANGED <<owner, sent, queue, shouldRun, buf, pipeVars>>

\* A wait may also end without a notification.
SpuriousWakeup ==
  /\ Goto("waiting", "woken")
  /\ UNCHANGED <<owner, sent, queue, shouldRun, buf, pipeVars>>

\* After a wait the flag is tested first: an empty buffer ends GetNextBuffer.
WakeUp ==
  /\ Goto("woken", IF shouldRun THEN "locked" ELSE "write")
  /\ UNCHANGED <<owner, sent, queue, shouldRun, buf, pipeVars>>

\* Mutant: the newest buffer is taken.
PopBack ==
  /\ queue # <<>>
  /\ Goto("locked", "write")
  /\ buf' = Last(queue) /\ queue' = Front(queue)
  /\ UNCHANGED <<owner, sent, shouldRun, pipeVars>>

Pop ==
  /\ queue # <<>>
  /\ Goto("locked", "write")
  /\ buf' = Head(queue) /\ queue' = Tail(queue)
  /\ UNCHANGED <<owner, sent, shouldRun, pipeVars>>

\* Mutant: the rest of a buffer is written whether or not the thread should run.
TestRemainingOnly ==
  /\ IF buf # <<>>
     THEN Goto("write", "writing") /\ UNCHANGED buf
     ELSE Goto("write", "loop") /\ buf' = <<>>
  /\ UNCHANGED <<owner, sent, queue, shouldRun, pipeVars>>

\* WriteToPipe: what is left of a buffer is dropped when the flag is cleared.
TestRemaining ==
  /\ IF buf # <<>> /\ shouldRun
     THEN Goto("write", "writing") /\ UNCHANGED buf
     ELSE Goto("write", "loop") /\ buf' = <<>>
  /\ UNCHANGED <<owner, sent, queue, shouldRun, pipeVars>>

\* WriteFile blocks while the pipe is full, and ends when all is written.
PutByte ==
  /\ writer = "writing" /\ ~broken
  /\ buf # <<>> /\ Len(pipe) < Capacity
  /\ pipe' = Append(pipe, Head(buf)) /\ buf' = Tail(buf)
  /\ UNCHANGED <<owner, sent, queue, shouldRun, writer, received, broken>>

WriteFileReturns ==
  /\ buf = <<>> \/ broken
  /\ Goto("writing", "write")
  /\ UNCHANGED <<owner, sent, queue, shouldRun, buf, pipeVars>>

-----------------------------------------------------------------------------
(* The reader of the pipe: the client process, a console, another program. *)

ReadByte ==
  /\ ~broken /\ pipe # <<>>
  /\ received' = Append(received, Head(pipe)) /\ pipe' = Tail(pipe)
  /\ UNCHANGED <<owner, sent, queue, shouldRun, threadVars, broken>>

CloseReadEnd ==
  /\ ~broken
  /\ broken' = TRUE
  /\ UNCHANGED <<owner, sent, queue, shouldRun, threadVars, pipe, received>>

Destructor == ClearShouldRun \/ DestructorNotifies \/ Join

WriterStep ==
  \/ TestShouldRun \/ Lock \/ FindEmpty \/ Wait \/ WakeUp \/ Pop
  \/ TestRemaining \/ PutByte \/ WriteFileReturns

Next ==
  \/ \E n \in 1..MaxBuffer : Write(n)
  \/ Destructor
  \/ WriterStep \/ SpuriousWakeup
  \/ ReadByte \/ CloseReadEnd

Spec == Init /\ [][Next]_vars

\* The threads run: the write thread takes the step it can take, and a destructor
\* that has begun goes on.  A WriteFile on a full pipe can take none until its
\* reader reads or goes away.  Nothing obliges the reader to do so: it is a program
\* of somebody else.  Nothing obliges a wait to end spuriously either.
FairSpec ==
  /\ Spec
  /\ WF_vars(WriterStep)
  /\ WF_vars(DestructorNotifies \/ Join)

-----------------------------------------------------------------------------
(* Properties.                                                             *)

\* Nothing is lost, duplicated or reordered between Write and the reader: until
\* the destructor runs, what the reader has got, what the pipe holds, what the
\* thread still has and what is queued are together exactly what was written.
\* What a destructor drops is a part from some buffer on, never one between.
InOrder ==
  LET rest == buf \o FlattenSeq(queue)
  IN  IF shouldRun THEN received \o pipe \o rest = Bytes(0, sent)
      ELSE IsPrefix(received \o pipe \o buf, Bytes(0, sent))

\* No Write is missed: when the thread waits un-notified there is nothing to
\* write, although it found the queue empty before it began to wait.
WaitsOnlyWhenEmpty == writer \in {"towait", "waiting"} => queue = <<>>

\* What the reader has to do for delivery: reading, or closing, a pipe that holds
\* data.
ReaderReads == WF_vars(pipe # <<>> /\ (ReadByte \/ CloseReadEnd))

\* If the reader reads, every byte written is received in the end, unless the
\* reader goes away or the writer is destructed.
Delivered ==
  ReaderReads =>
    \A n \in 1..MaxBytes :
      sent >= n ~> (Len(received) >= n \/ broken \/ ~shouldRun)

\* The thread waits for a notification that has gone by: it had nothing left to
\* write, tested the flag before it was cleared, and waited after the notification.
MissedNotification == owner = "join" /\ writer = "waiting" /\ queue = <<>>

\* The thread is in WriteFile on a full pipe that is still open: the flag is
\* tested between two calls of WriteFile, so clearing it does not end this one.
BlockedInWrite ==
  /\ owner = "join" /\ writer = "writing"
  /\ buf # <<>> /\ Len(pipe) = Capacity /\ ~broken

\* Whatever the reader does, the destructor returns or hangs for ever in one of
\* two ways: the write thread has missed the notification, or is blocked by a
\* reader that neither reads nor goes away.
DestructorReturnsOrHangs ==
  (owner = "notify") ~>
    (owner = "gone" \/ []MissedNotification \/ []BlockedInWrite)

-----------------------------------------------------------------------------
(* The abstract specification this class implements.                       *)

Chan == INSTANCE Channel WITH
  Buffers <- {Bytes(m, n) : m, n \in 0..MaxBytes},
  ch <- [accepted |-> Bytes(0, sent),
         out      |-> received \o pipe,
         state    |-> IF shouldRun THEN "open"
                      ELSE IF owner = "gone" THEN "closed" ELSE "closing"]

\* Every step of owner, thread and reader is a step of the abstract channel or
\* changes nothing of it: bytes reach the pipe one after the other in the order
\* of the Write calls, nothing is accepted once the destructor has begun, and
\* nothing reaches the pipe once it has returned.
ImplementsChannel == Chan!Spec

=============================================================================
