----------------------------- MODULE ExecSession -----------------------------
(***************************************************************************)
(* One OnConsole.exe, the CExec object it uses in ConsoleServer.exe, the   *)
(* server's timer, and the process started on the console session.         *)
(*                                                                         *)
(* OnConsole waits for the window station, has the process started, then   *)
(* repeats: ping, ask whether the process has terminated, pass on input    *)
(* and output.  The server kills the process of a client that has not      *)
(* pinged for three seconds.  Calls and the timer run on one thread of the *)
(* server, one at a time; the process runs beside them.  The call that     *)
(* starts the process is executed some time after OnConsole has made it,   *)
(* and it is executed even if OnConsole is gone by then; the other calls   *)
(* are executed at once.                                                   *)
(*                                                                         *)
(* Time is counted in whole seconds that end at arbitrary moments.  Output *)
(* is counted in bytes.  Control events and the threads of the pipes have  *)
(* modules of their own, and so has the preparation of the window station, *)
(* of which only its answer is seen here.                                  *)
(***************************************************************************)
EXTENDS Integers

CONSTANTS
  KillAfter,      \* seconds without ping after which a process is killed
  PrepareLimit,   \* seconds after which OnConsole stops waiting
  StepSeconds,    \* bound: seconds one pass of a loop of OnConsole may take
  BufferSize,     \* bytes a reader returns at most
  MaxOutput,      \* bound: bytes the process writes to each stream
  MaxInput        \* bound: buffers OnConsole reads from its standard input

ASSUME ExecSessionAssumption ==
  /\ KillAfter \in Nat \ {0} /\ PrepareLimit \in Nat /\ StepSeconds \in Nat
  /\ BufferSize \in Nat \ {0} /\ MaxOutput \in Nat /\ MaxInput \in Nat

VARIABLES
  client,         \* position of OnConsole in its program
  passed,         \* seconds since the present pass of its loop began
  waited,         \* seconds since it began to wait for the preparation
  hasTerminated,  \* the last answer of GetTerminationStatus
  hadData,        \* whether the present pass exchanged data
  exitCode,       \* exit code OnConsole has been told
  input,          \* buffers read from its standard input
  exec,           \* the CExec object: "none", "exists", "gone"
  calling,        \* StartProcess: "no", "sent" to the server, "job": the process
                  \* has been created and is not assigned to the job yet
  started,        \* mProcessStarted
  killed,         \* mProcessKilled
  age,            \* seconds since mLastPingTime, at most KillAfter + 1
  due,            \* a timer message is waiting
  proc,           \* the process: "none", "running", "exited", "killed"
  inJob,          \* the process is assigned to the job
  child,          \* a process it has started: "none", "inJob", "outside"
  written,        \* bytes the process has written to each stream
  got,            \* how many of them OnConsole has got
  injected,       \* mQueue of each reader: a warning injected by the server
  warned          \* streams on which OnConsole has got the warning

clientVars == <<client, passed, waited, hasTerminated, hadData, exitCode, input>>
execVars   == <<exec, calling, started, killed>>
timeVars   == <<age, due>>
procVars   == <<proc, inJob, child>>
dataVars   == <<written, got, injected, warned>>
vars       == <<clientVars, execVars, timeVars, procVars, dataVars>>

Streams == {"stdout", "stderr"}
Monitoring == {"ping", "status", "stdin", "stdout", "stderr"}
Ended == {"done", "failed", "crashed"}

TypeOK ==
  /\ client \in {"create", "preparing", "start", "starting"} \cup Monitoring \cup Ended
  /\ passed \in 0..StepSeconds /\ waited \in 0..(PrepareLimit + 1)
  /\ hasTerminated \in BOOLEAN /\ hadData \in BOOLEAN
  /\ exitCode \in {"none", "own", "zero"}
  /\ input \in 0..MaxInput
  /\ exec \in {"none", "exists", "gone"}
  /\ calling \in {"no", "sent", "job"} /\ started \in BOOLEAN /\ killed \in BOOLEAN
  /\ age \in 0..(KillAfter + 1) /\ due \in BOOLEAN
  /\ proc \in {"none", "running", "exited", "killed"}
  /\ inJob \in BOOLEAN
  /\ child \in {"none", "inJob", "outside"}
  /\ written \in [Streams -> 0..MaxOutput]
  /\ got \in [Streams -> 0..MaxOutput]
  /\ injected \in [Streams -> BOOLEAN]
  /\ warned \subseteq Streams

Init ==
  /\ client = "create" /\ passed = 0 /\ waited = 0
  /\ hasTerminated = FALSE /\ hadData = FALSE /\ exitCode = "none" /\ input = 0
  /\ exec = "none" /\ calling = "no" /\ started = FALSE /\ killed = FALSE
  /\ age = 0 /\ due = FALSE
  /\ proc = "none" /\ inJob = FALSE /\ child = "none"
  /\ written = [s \in Streams |-> 0] /\ got = [s \in Streams |-> 0]
  /\ injected = [s \in Streams |-> FALSE] /\ warned = {}

-----------------------------------------------------------------------------
(* CExec.                                                                  *)

\* KillProcess ends all processes of the job, with exit code 0.
KillProcess ==
  IF ~started \/ killed
  THEN UNCHANGED <<killed, procVars>>
  ELSE /\ killed' = TRUE
       /\ proc' = IF proc = "running" /\ inJob THEN "killed" ELSE proc
       /\ child' = IF child = "inJob" THEN "none" ELSE child
       /\ UNCHANGED inJob

\* Seconds end: n of them have passed since the ping, which is more than n - 1
\* and less than n + 1 seconds of time.
MaybeExpired == age >= KillAfter
MaybeFresh   == age <= KillAfter

\* Mutant: the age of the last ping is not looked at.
TimerKills ==
  /\ due /\ exec = "exists" /\ calling # "job"
  /\ due' = FALSE
  /\ KillProcess
  /\ UNCHANGED <<clientVars, exec, calling, started, age, dataVars>>

\* TimerProc calls TimerCallback of the CExec, if it is registered.
TimerProc ==
  /\ due /\ exec = "exists" /\ calling # "job"
  /\ due' = FALSE
  /\ \/ MaybeExpired /\ KillProcess
     \/ MaybeFresh /\ UNCHANGED <<killed, procVars>>
  /\ UNCHANGED <<clientVars, exec, calling, started, age, dataVars>>

\* Mutant: the destructor leaves the process alone.
ReleaseExecOnly ==
  /\ exec = "exists" /\ client \in Ended /\ calling = "no"
  /\ exec' = "gone"
  /\ UNCHANGED <<clientVars, calling, started, killed, procVars, timeVars, dataVars>>

\* ~CExec, when OnConsole has ended and its reference is released, or run down
\* by COM after a crash.
DestroyExec ==
  /\ exec = "exists" /\ client \in Ended /\ calling = "no"
  /\ exec' = "gone"
  /\ KillProcess
  /\ UNCHANGED <<clientVars, calling, started, timeVars, dataVars>>

\* Mutant: the CExec is not registered with the timer.
SecondUnregistered ==
  /\ client \in Ended \/ passed < StepSeconds
  /\ passed' = IF client \in Ended THEN passed ELSE passed + 1
  /\ waited' = IF client = "preparing" /\ waited <= PrepareLimit THEN waited + 1 ELSE waited
  /\ age' = IF age <= KillAfter THEN age + 1 ELSE age
  /\ due' = FALSE
  /\ UNCHANGED <<client, hasTerminated, hadData, exitCode, input, execVars, procVars, dataVars>>

\* A second ends.  OnConsole, while it runs, takes at most StepSeconds of them
\* for one pass of a loop.
Second ==
  /\ client \in Ended \/ passed < StepSeconds
  /\ passed' = IF client \in Ended THEN passed ELSE passed + 1
  /\ waited' = IF client = "preparing" /\ waited <= PrepareLimit THEN waited + 1 ELSE waited
  /\ age' = IF age <= KillAfter THEN age + 1 ELSE age
  /\ due' = (exec = "exists")
  /\ UNCHANGED <<client, hasTerminated, hadData, exitCode, input, execVars, procVars, dataVars>>

-----------------------------------------------------------------------------
(* OnConsole.                                                              *)

Goto(from, to) == client = from /\ client' = to

\* A CExec is created: its constructor pings and registers with the timer.
CreateExec ==
  /\ Goto("create", "preparing")
  /\ exec' = "exists"
  /\ age' = 0 /\ passed' = 0 /\ waited' = 0
  /\ UNCHANGED <<hasTerminated, hadData, exitCode, input, calling, started, killed,
                 due, procVars, dataVars>>

\* One pass of WaitForWindowStationPreparation.  The limit is tested before the
\* answer, so it may be too late even for an answer that is positive.  After the
\* wait, all that is as long as the timer's limit counts as equal.
PollPreparation ==
  /\ \/ waited >= PrepareLimit /\ Goto("preparing", "failed") /\ UNCHANGED waited
     \/ /\ waited <= PrepareLimit /\ Goto("preparing", "start")
        /\ waited' = IF waited <= KillAfter THEN waited ELSE KillAfter
     \/ waited <= PrepareLimit /\ Goto("preparing", "preparing") /\ UNCHANGED waited
  /\ passed' = 0
  /\ UNCHANGED <<hasTerminated, hadData, exitCode, input, execVars, timeVars,
                 procVars, dataVars>>

\* OnConsole calls StartProcess and waits for its return.
CallStartProcess ==
  /\ Goto("start", "starting")
  /\ calling' = "sent"
  /\ UNCHANGED <<passed, waited, hasTerminated, hadData, exitCode, input, exec, started,
                 killed, timeVars, procVars, dataVars>>

\* What OnConsole does when the call returns, if it is still there.
Returned(to) == client' = IF client = "starting" THEN to ELSE client

\* The call fails before there is a process: an exception, or CreateProcess
\* answers with an error.  OnConsole returns.
StartRefused ==
  /\ calling = "sent" /\ calling' = "no"
  /\ Returned("failed")
  /\ UNCHANGED <<passed, waited, hasTerminated, hadData, exitCode, input, exec, started,
                 killed, timeVars, procVars, dataVars>>

\* The process starts, not suspended.  If the first attempt failed because of
\* the working directory, a warning has been injected before the second one.
CreateProcess ==
  /\ calling = "sent" /\ calling' = "job"
  /\ started' = TRUE
  /\ proc' = "running"
  /\ injected' \in {injected, [injected EXCEPT !["stdout"] = TRUE]}
  /\ UNCHANGED <<clientVars, exec, killed, timeVars, inJob, child, written, got, warned>>

\* The process is assigned to the job.  This may fail, for example because it
\* has exited already.  Then the call fails and OnConsole returns.
AssignProcess ==
  /\ calling = "job" /\ calling' = "no"
  /\ \/ inJob' = TRUE /\ Returned("ping")
     \/ UNCHANGED inJob /\ Returned("failed")
  /\ UNCHANGED <<passed, waited, hasTerminated, hadData, exitCode, input, exec, started,
                 killed, timeVars, proc, child, dataVars>>

Ping ==
  /\ Goto("ping", "status")
  /\ age' = 0
  /\ passed' = 0
  /\ UNCHANGED <<waited, hasTerminated, hadData, exitCode, input, execVars, due,
                 procVars, dataVars>>

GetTerminationStatus ==
  /\ Goto("status", "stdin")
  /\ hasTerminated' = (proc # "running")
  /\ exitCode' = CASE proc = "exited" -> "own" [] proc = "killed" -> "zero"
                   [] OTHER -> exitCode
  /\ UNCHANGED <<passed, waited, hadData, input, execVars, timeVars, procVars, dataVars>>

\* The rest of a pass is HandleRedirection.
TransmitStdin ==
  /\ Goto("stdin", "stdout")
  /\ \/ /\ input < MaxInput
        /\ input' = input + 1 /\ hadData' = TRUE
     \/ hadData' = FALSE /\ UNCHANGED input
  /\ UNCHANGED <<passed, waited, hasTerminated, exitCode, execVars, timeVars, procVars, dataVars>>

Available(s) == written[s] - got[s]

\* PipeReader::Read of a reader without a thread: what was injected comes
\* first, then what the pipe holds, at most a buffer of it.
Read(s) ==
  IF injected[s]
  THEN /\ injected' = [injected EXCEPT ![s] = FALSE]
       /\ warned' = warned \cup {s}
       /\ hadData' = TRUE
       /\ UNCHANGED got
  ELSE /\ got' = [got EXCEPT ![s] = IF Available(s) < BufferSize THEN written[s] ELSE @ + BufferSize]
       /\ hadData' = (hadData \/ Available(s) > 0)
       /\ UNCHANGED <<injected, warned>>

ReceiveStdout ==
  /\ Goto("stdout", "stderr")
  /\ Read("stdout")
  /\ UNCHANGED <<passed, waited, hasTerminated, exitCode, input, execVars, timeVars,
                 procVars, written>>

\* Mutant: the loop ends although data was exchanged.
ReceiveStderrAndEnd ==
  /\ Goto("stderr", IF ~hasTerminated THEN "ping" ELSE "done")
  /\ Read("stderr")
  /\ UNCHANGED <<passed, waited, hasTerminated, exitCode, input, execVars, timeVars,
                 procVars, written>>

\* Mutant: the loop goes on as long as there is no data.
ReceiveStderrAndGoOn ==
  /\ Read("stderr")
  /\ Goto("stderr", IF ~hasTerminated \/ ~hadData' THEN "ping" ELSE "done")
  /\ UNCHANGED <<passed, waited, hasTerminated, exitCode, input, execVars, timeVars,
                 procVars, written>>

\* The end of a pass, with the condition of the loop.
ReceiveStderr ==
  /\ Read("stderr")
  /\ Goto("stderr", IF ~hasTerminated \/ hadData' THEN "ping" ELSE "done")
  /\ UNCHANGED <<passed, waited, hasTerminated, exitCode, input, execVars, timeVars,
                 procVars, written>>

\* OnConsole is terminated, for example by Ctrl-C before it handles that.
Crash ==
  /\ client \notin Ended
  /\ client' = "crashed"
  /\ UNCHANGED <<passed, waited, hasTerminated, hadData, exitCode, input, execVars,
                 timeVars, procVars, dataVars>>

ClientStep ==
  \/ CreateExec \/ PollPreparation \/ CallStartProcess
  \/ Ping \/ GetTerminationStatus
  \/ TransmitStdin \/ ReceiveStdout \/ ReceiveStderr

\* The server's part of the call.
StartProcess == StartRefused \/ CreateProcess \/ AssignProcess

-----------------------------------------------------------------------------
(* The process and one it may start.                                       *)

ProcessWrites(s) ==
  /\ proc = "running" /\ written[s] < MaxOutput
  /\ written' = [written EXCEPT ![s] = @ + 1]
  /\ UNCHANGED <<clientVars, execVars, timeVars, procVars, got, injected, warned>>

ProcessExits ==
  /\ proc = "running"
  /\ proc' = "exited"
  /\ UNCHANGED <<clientVars, execVars, timeVars, inJob, child, dataVars>>

\* A new process belongs to the job of the process that starts it.
ProcessSpawns ==
  /\ proc = "running" /\ child = "none"
  /\ child' = IF inJob THEN "inJob" ELSE "outside"
  /\ UNCHANGED <<clientVars, execVars, timeVars, proc, inJob, dataVars>>

ChildExits ==
  /\ child # "none"
  /\ child' = "none"
  /\ UNCHANGED <<clientVars, execVars, timeVars, proc, inJob, dataVars>>

ProcessNext ==
  \/ \E s \in Streams : ProcessWrites(s)
  \/ ProcessExits \/ ProcessSpawns \/ ChildExits

Next ==
  \/ ClientStep \/ StartProcess \/ Crash
  \/ Second \/ TimerProc \/ DestroyExec
  \/ ProcessNext

Spec == Init /\ [][Next]_vars

\* OnConsole runs on until it ends or crashes, the server executes the call it has
\* received, time passes and the timer fires.  Nothing obliges the process to exit,
\* OnConsole to crash, or COM to release the CExec of a client that is gone.
FairSpec ==
  /\ Spec
  /\ WF_vars(ClientStep) /\ WF_vars(StartProcess)
  /\ WF_vars(Second) /\ WF_vars(TimerProc)

-----------------------------------------------------------------------------
(* Properties.                                                             *)

\* When OnConsole returns, it returns the exit code of a process that has
\* ended, and has got all that the process wrote to both streams: the status
\* of its last pass was asked before that pass found both pipes empty.
DoneIsComplete ==
  client = "done" =>
    /\ proc \in {"exited", "killed"}
    /\ exitCode = IF proc = "exited" THEN "own" ELSE "zero"
    /\ \A s \in Streams : got[s] = written[s] /\ ~injected[s]

\* The wait for the preparation and one pass fit between two pings.
WaitedShort == waited + StepSeconds < KillAfter

\* The process of a client that lives and takes its steps is not killed by the
\* timer, wherever the seconds end.  The constructor's ping starts the clock and the
\* next one comes after the wait for the preparation: a client that has waited
\* nearly as long as the timer's limit, or longer, may lose its process before it has
\* pinged, and this does not speak of it.
ServedAfterShortWait == client \in Monitoring /\ WaitedShort => proc # "killed"

\* The same of every client, however long it had to wait: what the timer's comment
\* says, which only a run that expects the violation checks.
LiveClientServed == client \in Monitoring => proc # "killed"

\* What the job holds does not outlive the CExec.
JobEmpty == ~(inJob /\ proc = "running") /\ child # "inJob"
NothingLeftInJob == exec = "gone" => JobEmpty

\* Once a client has ended, in whatever way and at whatever moment, the job is
\* empty in the end and stays so.  COM need not notice that the client is gone:
\* the timer suffices, and it is enough also if the client died while the
\* server was still starting its process.
AbandonedJobEnds == (client \in Ended) ~> [](JobEmpty)

\* OnConsole returns after its process has ended.
ClientReturns ==
  (client \in Monitoring /\ proc # "running") ~> (client \in {"done", "crashed"})

=============================================================================
