---------------------------- MODULE Redirection -----------------------------
(***************************************************************************)
(* The way of data between the standard handles of OnConsole.exe and the   *)
(* pipes of the process it has started, and how OnConsole ends.            *)
(*                                                                         *)
(*  input:  OnConsole's stdin -> asynchronous PipeReader -> WriteStdin ->  *)
(*          PipeWriter of the server -> pipe of the process                *)
(*  output: pipe of the process -> PipeReader of the server without a      *)
(*          thread -> ReadStdout, ReadStderr -> PipeWriter -> OnConsole's  *)
(*          stdout, stderr                                                 *)
(*                                                                         *)
(* A PipeWriter is the Channel that PipeWriter.tla implements, with the two*)
(* ways found there in which its destructor never returns: with nothing    *)
(* left to write it may miss its own notification, and with something left *)
(* its thread may be in a WriteFile that nobody who reads the pipe ends.   *)
(* That a reader goes away, which ends it too, is in PipeWriter.tla only.  *)
(*                                                                         *)
(* Data are numbered items; pings, control events and the time limit of    *)
(* the server are in ExecSession and ControlEvents.                        *)
(***************************************************************************)
EXTENDS Naturals, Sequences, SequencesExt

CONSTANTS
  BufferSize,   \* items a PipeReader returns at most
  MaxInput,     \* bound: items that come to the standard input of OnConsole
  MaxOutput     \* bound: items the process writes, on both streams together

Outputs == {"stdout", "stderr"}
Streams == Outputs \cup {"stdin"}

ASSUME RedirectionAssumption ==
  /\ BufferSize \in Nat \ {0} /\ MaxInput \in Nat
  /\ MaxOutput \in Nat

VARIABLES
  kind,        \* what standard input is: "console", "pipe" or "file"
  supplied,    \* items that have come to it
  ended,       \* the other end of that pipe is closed
  unread,      \* those of them ReadFile has not returned
  reader,      \* position of the read thread
  readBuf,     \* the buffer it has read
  inQueue,     \* mQueue of the asynchronous reader
  shouldRun,   \* mReadThreadShouldRun
  orphaned,    \* locks a terminated read thread has taken with it
  client,      \* position of OnConsole's main thread
  hadData,
  terminated,  \* hasTerminated
  comFailed,   \* a call of the server has failed
  lost,        \* data that were taken for a call of the server which failed
  warning,     \* what the server has injected into its stdout reader
  chan,        \* the three PipeWriters
  hung,        \* PipeWriters whose destructor has missed its notification
  inWrite,     \* PipeWriters being destructed whose thread is in WriteFile
  running,     \* the process runs
  outPipe,     \* items in the pipes of its output
  written      \* how many items it has written to each stream

sourceVars == <<kind, supplied, ended>>
readerVars == <<unread, reader, readBuf, inQueue, shouldRun, orphaned>>
clientVars == <<client, hadData, terminated, comFailed>>
writerVars == <<chan, hung, inWrite>>
procVars   == <<running, outPipe, written>>
vars == <<sourceVars, readerVars, clientVars, warning, lost, writerVars, procVars>>

\* Positions of the read thread: asleep, or before ReadFile (it may be allocating
\* the buffer); in ReadFile; in PutBuffer; ended; terminated by the destructor.
ReaderPositions == {"loop", "reading", "put", "exit", "killed"}
Loop   == {"status", "stdin", "stdout", "stderr"}
Ending == {"closeStderr", "waitStderr", "closeStdout", "waitStdout",
           "stopReader", "join", "free", "returned"}

Writer(s) == INSTANCE Channel WITH Buffers <- {}, ch <- chan[s]
Owing == {s \in Streams : Writer(s)!Owes(chan[s])}
Warning == 0
Numbered(n) == [i \in 1..n |-> i]

TypeOK ==
  /\ kind \in {"console", "pipe", "file"}
  /\ supplied \in 0..MaxInput /\ ended \in BOOLEAN
  /\ unread \in Seq(1..MaxInput) /\ readBuf \in Seq(1..MaxInput)
  /\ inQueue \in Seq(Seq(1..MaxInput) \ {<<>>})
  /\ reader \in ReaderPositions
  /\ shouldRun \in BOOLEAN
  /\ orphaned \subseteq {"heap", "mutex"}
  /\ client \in Loop \cup Ending
  /\ hadData \in BOOLEAN /\ terminated \in BOOLEAN /\ comFailed \in BOOLEAN
  /\ warning \in {<<>>, <<Warning>>}
  /\ \A s \in Streams : chan[s].state \in {"open", "closing", "closed"}
  /\ \A s \in Streams : lost[s] \in Seq(Nat)
  /\ hung \subseteq Outputs /\ inWrite \subseteq Outputs
  /\ running \in BOOLEAN
  /\ \A s \in Outputs : outPipe[s] \in Seq(Nat) /\ written[s] \in 0..MaxOutput

\* SetupRedirection, after the process has been started; the server has
\* injected a warning if it had to change the working directory.
Init ==
  /\ kind \in {"console", "pipe", "file"}
  /\ supplied = 0 /\ ended = FALSE /\ unread = <<>>
  /\ reader = "loop" /\ readBuf = <<>> /\ inQueue = <<>> /\ shouldRun = TRUE
  /\ orphaned = {}
  /\ client = "status" /\ hadData = FALSE /\ terminated = FALSE /\ comFailed = FALSE
  /\ warning \in {<<>>, <<Warning>>}
  /\ lost = [s \in Streams |-> <<>>]
  /\ chan = [s \in Streams |-> Writer(s)!Fresh] /\ hung = {} /\ inWrite = {}
  /\ running = TRUE
  /\ outPipe = [s \in Outputs |-> <<>>] /\ written = [s \in Outputs |-> 0]

-----------------------------------------------------------------------------
(* The source of the input, and the process.                               *)

Supply ==
  /\ ~ended /\ supplied < MaxInput
  /\ supplied' = supplied + 1
  /\ unread' = Append(unread, supplied + 1)
  /\ UNCHANGED <<kind, ended, reader, readBuf, inQueue, shouldRun, orphaned>>
  /\ UNCHANGED <<clientVars, warning, lost, writerVars, procVars>>

\* The other end of the pipe is closed.
EndOfInput ==
  /\ kind = "pipe" /\ ~ended
  /\ ended' = TRUE
  /\ UNCHANGED <<kind, supplied, readerVars, clientVars, warning, lost, writerVars, procVars>>

ProcessWrites(s) ==
  /\ running /\ written["stdout"] + written["stderr"] < MaxOutput
  /\ written' = [written EXCEPT ![s] = @ + 1]
  /\ outPipe' = [outPipe EXCEPT ![s] = Append(@, written[s] + 1)]
  /\ UNCHANGED <<sourceVars, readerVars, clientVars, warning, lost, writerVars, running>>

ProcessEnds ==
  /\ running /\ running' = FALSE
  /\ UNCHANGED <<sourceVars, readerVars, clientVars, warning, lost, writerVars, outPipe, written>>

-----------------------------------------------------------------------------
(* The read thread of the asynchronous PipeReader.                         *)

OthersUnchanged == UNCHANGED <<sourceVars, clientVars, warning, lost, writerVars, procVars>>
ReaderGoes(from, to) == reader = from /\ reader' = to

\* ReadThreadFunc.
TestShouldRun ==
  /\ ReaderGoes("loop", IF shouldRun THEN "reading" ELSE "exit")
  /\ UNCHANGED <<unread, readBuf, inQueue, shouldRun, orphaned>>
  /\ OthersUnchanged

\* ReadFile returns what there is, at most a buffer.
ReadSome ==
  /\ unread # <<>> /\ ReaderGoes("reading", "put")
  /\ \E n \in 1..BufferSize :
       /\ n <= Len(unread)
       /\ readBuf' = SubSeq(unread, 1, n)
       /\ unread' = SubSeq(unread, n + 1, Len(unread))
  /\ UNCHANGED <<inQueue, shouldRun, orphaned>>
  /\ OthersUnchanged

\* Mutant: the thread takes an empty read for the end of its input.
ReadEndExits ==
  /\ unread = <<>> /\ (ended \/ kind # "pipe") /\ ReaderGoes("reading", "exit")
  /\ UNCHANGED <<unread, readBuf, inQueue, shouldRun, orphaned>>
  /\ OthersUnchanged

\* At the end of a file ReadFile succeeds with no bytes, and so it does on a
\* console after Ctrl-C or Ctrl-Z; at the end of a pipe it fails, which is logged,
\* to standard output also.  On an open pipe it waits.
ReadEnd ==
  /\ unread = <<>> /\ (ended \/ kind # "pipe") /\ ReaderGoes("reading", "loop")
  /\ UNCHANGED <<unread, readBuf, inQueue, shouldRun, orphaned>>
  /\ OthersUnchanged

\* Mutant: the new buffer goes before the older ones.
PutBufferFirst ==
  /\ ReaderGoes("put", "loop")
  /\ inQueue' = <<readBuf>> \o inQueue /\ readBuf' = <<>>
  /\ UNCHANGED <<unread, shouldRun, orphaned>>
  /\ OthersUnchanged

PutBuffer ==
  /\ ReaderGoes("put", "loop")
  /\ inQueue' = Append(inQueue, readBuf) /\ readBuf' = <<>>
  /\ UNCHANGED <<unread, shouldRun, orphaned>>
  /\ OthersUnchanged

ReaderStep ==
  TestShouldRun \/ ReadSome \/ ReadEnd \/ PutBuffer

-----------------------------------------------------------------------------
(* OnConsole's main thread: the loop of _tmain with HandleRedirection.     *)

Goto(from, to) == client = from /\ client' = to
Unwind == "closeStderr"   \* first destructor that runs at the end of the block

GetTerminationStatus ==
  /\ Goto("status", "stdin")
  /\ terminated' = ~running
  /\ UNCHANGED <<hadData, comFailed>>
  /\ UNCHANGED <<sourceVars, readerVars, warning, lost, writerVars, procVars>>

\* PipeReader::Read, which waits for the mutex, and WriteStdin.
TransmitStdin ==
  /\ Goto("stdin", "stdout") /\ reader # "put"
  /\ IF inQueue = <<>>
     THEN hadData' = FALSE /\ UNCHANGED <<inQueue, chan>>
     ELSE /\ hadData' = TRUE
          /\ inQueue' = Tail(inQueue)
          /\ chan' = [chan EXCEPT !["stdin"] = Writer("stdin")!Accepting(@, Head(inQueue))]
  /\ UNCHANGED <<terminated, comFailed, unread, reader, readBuf, shouldRun, orphaned>>
  /\ UNCHANGED <<sourceVars, warning, lost, hung, inWrite, procVars>>

\* The server's PipeReader::Read: what was injected first, then from the pipe.
ServerRead(s) ==
  IF s = "stdout" /\ warning # <<>> THEN warning
  ELSE SubSeq(outPipe[s], 1, IF Len(outPipe[s]) < BufferSize THEN Len(outPipe[s]) ELSE BufferSize)

\* What the server does in ReadStdout and ReadStderr.
Take(s) ==
  LET injected == s = "stdout" /\ warning # <<>>
  IN  /\ warning' = IF injected THEN <<>> ELSE warning
      /\ outPipe' = IF injected THEN outPipe
                    ELSE [outPipe EXCEPT ![s] = SubSeq(@, Len(ServerRead(s)) + 1, Len(@))]

\* ReadStdout or ReadStderr, and the Write of what was not empty.
Receive(s) ==
  /\ Take(s)
  /\ hadData' = (hadData \/ ServerRead(s) # <<>>)
  /\ chan' = [chan EXCEPT ![s] = Writer(s)!Accepting(@, ServerRead(s))]

ReceiveStdout ==
  /\ Goto("stdout", "stderr")
  /\ Receive("stdout")
  /\ UNCHANGED <<terminated, comFailed, sourceVars, readerVars, lost>>
  /\ UNCHANGED <<hung, inWrite, running, written>>

\* Mutant: the status is not asked again although data was exchanged.
ReceiveStderrAndEnd ==
  /\ Receive("stderr")
  /\ Goto("stderr", IF ~terminated THEN "status" ELSE Unwind)
  /\ UNCHANGED <<terminated, comFailed, sourceVars, readerVars, lost>>
  /\ UNCHANGED <<hung, inWrite, running, written>>

\* With the condition of the loop.
ReceiveStderr ==
  /\ Receive("stderr")
  /\ Goto("stderr", IF ~terminated \/ hadData' THEN "status" ELSE Unwind)
  /\ UNCHANGED <<terminated, comFailed, sourceVars, readerVars, lost>>
  /\ UNCHANGED <<hung, inWrite, running, written>>

\* A COM call fails, for example because the server has gone: _com_error leaves the
\* block, with hadData and hasTerminated, its variables.  The server may have executed
\* the call before its answer was lost.
Fails(position) ==
  /\ Goto(position, Unwind) /\ comFailed' = TRUE
  /\ hadData' = FALSE /\ terminated' = FALSE
  /\ UNCHANGED <<sourceVars, hung, inWrite, running, written>>

StatusFails ==
  /\ Fails("status")
  /\ UNCHANGED <<readerVars, warning, lost, chan, outPipe>>

\* WriteStdin is called with a buffer that has left the queue, and only then.
WriteStdinFails ==
  /\ Fails("stdin") /\ reader # "put" /\ inQueue # <<>>
  /\ inQueue' = Tail(inQueue)
  /\ \/ /\ chan' = [chan EXCEPT !["stdin"] = Writer("stdin")!Accepting(@, Head(inQueue))]
        /\ UNCHANGED lost
     \/ /\ lost' = [lost EXCEPT !["stdin"] = Head(inQueue)]
        /\ UNCHANGED chan
  /\ UNCHANGED <<unread, reader, readBuf, shouldRun, orphaned, warning, outPipe>>

\* ReadStdout or ReadStderr fails, before or after the server has taken the data.
ReadFails(s) ==
  /\ Fails(s)
  /\ \/ UNCHANGED <<warning, outPipe, lost>>
     \/ Take(s) /\ lost' = [lost EXCEPT ![s] = ServerRead(s)]
  /\ UNCHANGED <<readerVars, chan>>

CallFails == StatusFails \/ WriteStdinFails \/ \E s \in Outputs : ReadFails(s)

-----------------------------------------------------------------------------
(* The destructors, in the reverse order of the declarations in _tmain.    *)

\* The flag is cleared.  A thread that has something to write may be in WriteFile.
Close(s, from, to) ==
  /\ Goto(from, to)
  /\ inWrite' \in {inWrite} \cup {inWrite \cup {t} : t \in {s} \cap Owing}
  /\ chan' = [chan EXCEPT ![s].state = "closing"]
  /\ UNCHANGED <<hadData, terminated, comFailed, sourceVars, readerVars, warning, lost>>
  /\ UNCHANGED <<hung, procVars>>

\* The destructor of a PipeWriter returns, unless its thread is still in WriteFile;
\* or the thread has nothing to write and misses the notification.
Closed(s, from, to) ==
  /\ client = from /\ chan[s].state = "closing" /\ s \notin hung \cup inWrite
  /\ \/ /\ client' = to
        /\ chan' = [chan EXCEPT ![s].state = "closed"] /\ UNCHANGED hung
     \/ /\ s \notin Owing
        /\ hung' = hung \cup {s}
        /\ UNCHANGED <<client, chan>>
  /\ UNCHANGED <<hadData, terminated, comFailed, sourceVars, readerVars, warning, lost>>
  /\ UNCHANGED <<inWrite, procVars>>

CloseStderr  == Close("stderr", "closeStderr", "waitStderr")
ClosedStderr == Closed("stderr", "waitStderr", "closeStdout")
CloseStdout  == Close("stdout", "closeStdout", "waitStdout")
ClosedStdout == Closed("stdout", "waitStdout", "stopReader")

\* Locks the read thread may hold where it is.
Held == CASE reader = "loop" -> {{}, {"heap"}}
          [] reader = "put"  -> {{}, {"mutex"}, {"heap", "mutex"}}
          [] OTHER           -> {{}}

\* Mutant: the flag is not cleared.
StopReaderByForce ==
  /\ Goto("stopReader", "join")
  /\ IF kind = "console" THEN reader' = "killed" /\ orphaned' \in Held
                         ELSE UNCHANGED <<reader, orphaned>>
  /\ UNCHANGED <<unread, readBuf, inQueue, shouldRun>>
  /\ UNCHANGED <<hadData, terminated, comFailed, sourceVars, warning, lost, writerVars, procVars>>

\* The flag is cleared; on a console the thread is terminated where it is.
StopReader ==
  /\ Goto("stopReader", "join")
  /\ shouldRun' = FALSE
  /\ IF kind = "console" THEN reader' = "killed" /\ orphaned' \in Held
                         ELSE UNCHANGED <<reader, orphaned>>
  /\ UNCHANGED <<unread, readBuf, inQueue>>
  /\ UNCHANGED <<hadData, terminated, comFailed, sourceVars, warning, lost, writerVars, procVars>>

Join ==
  /\ Goto("join", "free") /\ reader \in {"exit", "killed"}
  /\ UNCHANGED <<hadData, terminated, comFailed>>
  /\ UNCHANGED <<sourceVars, readerVars, warning, lost, writerVars, procVars>>

\* The queue is destructed, which takes the heap's lock, never the mutex.
Free ==
  /\ Goto("free", "returned") /\ "heap" \notin orphaned
  /\ inQueue' = <<>>
  /\ UNCHANGED <<hadData, terminated, comFailed, unread, reader, readBuf, shouldRun,
                 orphaned, sourceVars, warning, lost, writerVars, procVars>>

\* A write thread writes the next byte, at once or when its reader has made room.
\* A WriteFile that was going on ends at the latest with the last byte there is, and
\* with the flag cleared there is no other.
Deliver(s) ==
  /\ chan[s].state # "closed" /\ s \in Owing
  /\ chan' = [chan EXCEPT ![s] = Writer(s)!Delivering(@)]
  /\ inWrite' \in {inWrite \ {s}, inWrite \ (Streams \ Owing')}
  /\ UNCHANGED <<sourceVars, readerVars, clientVars, warning, lost, hung, procVars>>

ClientStep ==
  \/ GetTerminationStatus \/ TransmitStdin \/ ReceiveStdout \/ ReceiveStderr
  \/ CloseStderr \/ ClosedStderr \/ CloseStdout \/ ClosedStdout
  \/ StopReader \/ Join \/ Free

Next ==
  \/ ClientStep \/ CallFails \/ ReaderStep
  \/ \E s \in Streams : Deliver(s)
  \/ Supply \/ EndOfInput
  \/ \E s \in Outputs : ProcessWrites(s)
  \/ ProcessEnds

Spec == Init /\ [][Next]_vars

\* OnConsole's main thread and its read thread run.  The process need not end,
\* nothing need come to standard input, and nobody need read what is written.
FairSpec == Spec /\ WF_vars(ClientStep) /\ WF_vars(ReaderStep)

-----------------------------------------------------------------------------
(* Properties.                                                             *)

\* Input is not lost, repeated or reordered between the thread that reads it and
\* the loop that passes it on: what was handed to the server, what is queued,
\* what the thread has in hand and what is unread are together what was typed,
\* wherever a terminated thread was, until its queue is destructed.  Output is not
\* lost, repeated or reordered on its way to the PipeWriters, and a warning comes
\* before all that the program writes to standard output.  Only a failing call
\* loses anything: the data it was to carry, which come after all that was passed
\* on and before all that was not, and those of no other stream.
InputInOrder ==
  client # "returned" =>
    chan["stdin"].accepted \o lost["stdin"] \o FlattenSeq(inQueue) \o readBuf \o unread
      = Numbered(supplied)
OutputInOrder ==
  /\ chan["stdout"].accepted \o lost["stdout"] \o warning \o outPipe["stdout"]
       \in {Numbered(written["stdout"]), <<Warning>> \o Numbered(written["stdout"])}
  /\ chan["stderr"].accepted \o lost["stderr"] \o outPipe["stderr"] = Numbered(written["stderr"])
LossIsOneCall ==
  /\ ~comFailed => \A s \in Streams : lost[s] = <<>>
  /\ \A s, t \in Streams : lost[s] # <<>> /\ lost[t] # <<>> => s = t
DataInOrder == InputInOrder /\ OutputInOrder /\ LossIsOneCall

\* Unless the server failed, the destructors begin only after the process has
\* ended and everything it wrote was handed to the PipeWriters.
EndsAfterLastOutput ==
  client \in Ending /\ ~comFailed =>
    ~running /\ warning = <<>> /\ \A s \in Outputs : outPipe[s] = <<>>

\* What delivery needs: the write thread runs, and its reader, which is the process
\* for its input and a console or another program for its output, takes the data.
Taken(s) == WF_vars(Deliver(s))

\* What the process has written appears on OnConsole's standard handles, and what
\* comes to OnConsole's standard input reaches the process, if the other end of that
\* pipe is read and as long as OnConsole lives: no order of the thread's and the
\* loop's steps starves either direction.
DataArrives ==
  /\ \A s \in Outputs :
       Taken(s) =>
         \A n \in 1..MaxOutput :
           written[s] >= n ~> (Contains(chan[s].out, n) \/ client \in Ending)
  /\ Taken("stdin") =>
       \A n \in 1..MaxInput :
         supplied >= n ~> (Contains(chan["stdin"].out, n) \/ client \in Ending)

\* OnConsole returns after its process has ended, unless its destructors hang for
\* ever in one of four ways: a PipeWriter misses its notification; the thread of a
\* PipeWriter is joined in a WriteFile on a pipe that nobody reads; the read thread
\* is joined while it waits for a pipe that is neither written nor closed; the thread
\* was terminated while it held the lock of the heap.  That it may be terminated
\* while it holds the mutex of the queue hinders nobody.
BlockedOnOutput ==
  \/ client = "waitStderr" /\ "stderr" \in inWrite
  \/ client = "waitStdout" /\ "stdout" \in inWrite
BlockedOnInput == client = "join" /\ reader = "reading" /\ kind = "pipe" /\ ~ended
Hangs == hung # {} \/ BlockedOnOutput \/ BlockedOnInput \/ "heap" \in orphaned
ReturnsOrHangs ==
  (client \in Loop /\ ~running) ~> (client = "returned" \/ []Hangs)

\* The last output of the program is received and output.
AllOutputShown ==
  client = "returned" /\ ~comFailed =>
    \A s \in Outputs : chan[s].out = chan[s].accepted
=============================================================================
