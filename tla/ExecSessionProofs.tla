-------------------------- MODULE ExecSessionProofs --------------------------
(***************************************************************************)
(* Proofs about the session of one OnConsole: for any limits of time, any  *)
(* buffer size and any amount of input and output.                         *)
(***************************************************************************)
EXTENDS ExecSession, TLAPS

BeforeStart == {"create", "preparing", "start", "starting"}

\* What OnConsole believes about the process is true, and the server starts at
\* most one process, before OnConsole looks at it.
StatusInv ==
  /\ client \in BeforeStart => ~hasTerminated /\ (started => calling = "job")
  /\ calling = "sent" => ~started
  /\ calling = "job" => started
  /\ client = "starting" => calling # "no"
  /\ calling # "no" => client \in {"starting", "crashed"}
  /\ client \in Monitoring => started
  /\ started => proc # "none"
  /\ hasTerminated => /\ proc \in {"exited", "killed"}
                      /\ exitCode = IF proc = "exited" THEN "own" ELSE "zero"
  /\ client = "done" => hasTerminated

\* What is known about the output after both parts of a pass.
Drained(s) == got[s] = written[s] /\ ~injected[s]
OutputInv ==
  /\ \A s \in Streams : got[s] <= written[s]
  /\ client = "stderr" /\ hasTerminated /\ ~hadData => Drained("stdout")
  /\ client = "done" => \A s \in Streams : Drained(s)

\* When the job is known to be empty, nothing can enter it any more.
JobInv ==
  /\ ~started => proc = "none" /\ child = "none" /\ ~killed
  /\ killed => calling = "no" /\ JobEmpty
  /\ exec = "gone" => client \in Ended /\ calling = "no" /\ JobEmpty

IInv == TypeOK /\ StatusInv /\ OutputInv /\ JobInv

-----------------------------------------------------------------------------
\* The inductive invariant holds initially.
LEMMA InitIInv == Init => IInv
<1> USE ExecSessionAssumption
<1>1. Init => TypeOK
  <2> SUFFICES ASSUME Init PROVE TypeOK
    OBVIOUS
  <2>1. client \in {"create", "preparing", "start", "starting"} \cup Monitoring \cup Ended
    BY DEF Init
  <2>2. /\ passed \in 0..StepSeconds /\ waited \in 0..(PrepareLimit + 1)
        /\ input \in 0..MaxInput /\ age \in 0..(KillAfter + 1)
    BY DEF Init
  <2>3. /\ written \in [Streams -> 0..MaxOutput] /\ got \in [Streams -> 0..MaxOutput]
        /\ injected \in [Streams -> BOOLEAN] /\ warned \subseteq Streams
    BY DEF Init
  <2>4. QED
    BY <2>1, <2>2, <2>3 DEF Init, TypeOK
<1>2. Init => StatusInv
  BY DEF Init, StatusInv, Monitoring
<1>3. Init => OutputInv
  BY DEF Init, OutputInv, Drained
<1>4. Init => JobInv
  BY DEF Init, JobInv, Ended
<1>5. QED
  BY <1>1, <1>2, <1>3, <1>4 DEF IInv

\* Reading keeps the types, whatever is read.
LEMMA ReadKeepsTypes ==
  ASSUME TypeOK, OutputInv, NEW s \in Streams, Read(s)
  PROVE  /\ got' \in [Streams -> 0..MaxOutput]
         /\ injected' \in [Streams -> BOOLEAN]
         /\ warned' \subseteq Streams
         /\ hadData' \in BOOLEAN
<1>1. got' \in [Streams -> 0..MaxOutput]
  BY ExecSessionAssumption DEF TypeOK, OutputInv, Read, Available
<1>2. injected' \in [Streams -> BOOLEAN] /\ warned' \subseteq Streams
  BY DEF TypeOK, Read
<1>3. hadData' \in BOOLEAN
  BY DEF TypeOK, Read
<1>4. QED
  BY <1>1, <1>2, <1>3

\* Killing keeps the types.
LEMMA KillKeepsTypes ==
  ASSUME TypeOK, KillProcess
  PROVE  /\ killed' \in BOOLEAN /\ inJob' \in BOOLEAN
         /\ proc' \in {"none", "running", "exited", "killed"}
         /\ child' \in {"none", "inJob", "outside"}
<1>1. killed' \in BOOLEAN /\ inJob' \in BOOLEAN
  BY DEF TypeOK, KillProcess, procVars
<1>2. /\ proc' \in {"none", "running", "exited", "killed"}
      /\ child' \in {"none", "inJob", "outside"}
  BY DEF TypeOK, KillProcess, procVars
<1>3. QED
  BY <1>1, <1>2

\* Every step keeps the types.
LEMMA NextKeepsTypes == IInv /\ [Next]_vars => TypeOK'
<1> SUFFICES ASSUME IInv, [Next]_vars PROVE TypeOK'
  OBVIOUS
<1> USE ExecSessionAssumption
    DEF TypeOK, IInv, OutputInv, StatusInv, Streams, Monitoring, Ended, BeforeStart, Goto,
        clientVars, execVars, timeVars, procVars, dataVars
<1>1. CASE CreateExec
  BY <1>1 DEF CreateExec
<1>2. CASE PollPreparation
  BY <1>2 DEF PollPreparation
<1>3. CASE StartRefused
  BY <1>3 DEF StartRefused, Returned
<1>21. CASE CallStartProcess
  BY <1>21 DEF CallStartProcess
<1>4. CASE CreateProcess
  <2>1. injected' \in [Streams -> BOOLEAN]
    BY <1>4 DEF CreateProcess
  <2>2. QED
    BY <1>4, <2>1 DEF CreateProcess
<1>5. CASE Ping
  BY <1>5 DEF Ping
<1>6. CASE GetTerminationStatus
  BY <1>6 DEF GetTerminationStatus
<1>7. CASE TransmitStdin
  <2>1. input' \in 0..MaxInput
    BY <1>7 DEF TransmitStdin
  <2>2. hadData' \in BOOLEAN
    BY <1>7 DEF TransmitStdin
  <2>3. QED
    BY <1>7, <2>1, <2>2 DEF TransmitStdin
<1>8. CASE ReceiveStdout
  <2>1. /\ got' \in [Streams -> 0..MaxOutput]
        /\ injected' \in [Streams -> BOOLEAN]
        /\ warned' \subseteq Streams
        /\ hadData' \in BOOLEAN
    BY <1>8, ReadKeepsTypes DEF ReceiveStdout
  <2>2. QED
    BY <1>8, <2>1 DEF ReceiveStdout
<1>9. CASE ReceiveStderr
  <2>1. /\ got' \in [Streams -> 0..MaxOutput]
        /\ injected' \in [Streams -> BOOLEAN]
        /\ warned' \subseteq Streams
        /\ hadData' \in BOOLEAN
    BY <1>9, ReadKeepsTypes DEF ReceiveStderr
  <2>2. QED
    BY <1>9, <2>1 DEF ReceiveStderr
<1>10. CASE AssignProcess
  <2>1. calling' \in {"no", "sent", "job"} /\ inJob' \in BOOLEAN
    BY <1>10 DEF AssignProcess
  <2>2. client' \in {"create", "preparing", "start", "starting"} \cup Monitoring \cup Ended
    BY <1>10 DEF AssignProcess, Returned
  <2>3. QED
    BY <1>10, <2>1, <2>2 DEF AssignProcess
<1>11. CASE Crash
  BY <1>11 DEF Crash
<1>12. CASE Second
  BY <1>12 DEF Second
<1>13. CASE TimerProc
  <2>1. /\ killed' \in BOOLEAN /\ inJob' \in BOOLEAN
        /\ proc' \in {"none", "running", "exited", "killed"}
        /\ child' \in {"none", "inJob", "outside"}
    BY <1>13, KillKeepsTypes DEF TimerProc
  <2>2. QED
    BY <1>13, <2>1 DEF TimerProc
<1>14. CASE DestroyExec
  <2>1. /\ killed' \in BOOLEAN /\ inJob' \in BOOLEAN
        /\ proc' \in {"none", "running", "exited", "killed"}
        /\ child' \in {"none", "inJob", "outside"}
    BY <1>14, KillKeepsTypes DEF DestroyExec
  <2>2. QED
    BY <1>14, <2>1 DEF DestroyExec
<1>15. ASSUME NEW s \in Streams, ProcessWrites(s) PROVE TypeOK'
  BY <1>15 DEF ProcessWrites
<1>16. CASE ProcessExits
  BY <1>16 DEF ProcessExits
<1>17. CASE ProcessSpawns
  BY <1>17 DEF ProcessSpawns
<1>18. CASE ChildExits
  BY <1>18 DEF ChildExits
<1>19. CASE UNCHANGED vars
  BY <1>19 DEF vars
<1>20. QED
  BY <1>1, <1>2, <1>3, <1>4, <1>5, <1>6, <1>7, <1>8, <1>9, <1>10, <1>11, <1>12,
     <1>13, <1>14, <1>15, <1>16, <1>17, <1>18, <1>19, <1>21
     DEF Next, ClientStep, StartProcess, ProcessNext

-----------------------------------------------------------------------------
\* Every step keeps what OnConsole believes true.
LEMMA NextKeepsStatus == IInv /\ [Next]_vars => StatusInv'
<1> SUFFICES ASSUME IInv, [Next]_vars PROVE StatusInv'
  OBVIOUS
<1> USE DEF IInv, TypeOK, StatusInv, JobInv, Monitoring, Ended, BeforeStart, Goto,
        clientVars, execVars, timeVars, procVars, dataVars
<1>1. CASE CreateExec
  BY <1>1 DEF CreateExec
<1>2. CASE PollPreparation
  BY <1>2 DEF PollPreparation
<1>3. CASE StartRefused
  BY <1>3 DEF StartRefused, Returned
<1>21. CASE CallStartProcess
  BY <1>21 DEF CallStartProcess
<1>4. CASE CreateProcess
  BY <1>4 DEF CreateProcess
<1>5. CASE Ping
  BY <1>5 DEF Ping
<1>6. CASE GetTerminationStatus
  <2>1. /\ client' = "stdin" /\ UNCHANGED <<proc, child, inJob, exec, calling, started>>
        /\ client = "status" /\ killed' = killed
    BY <1>6 DEF GetTerminationStatus
  <2>2. hasTerminated' => proc # "running"
    BY <1>6 DEF GetTerminationStatus
  <2>3. /\ proc = "exited" => exitCode' = "own"
        /\ proc = "killed" => exitCode' = "zero"
    BY <1>6 DEF GetTerminationStatus
  <2>4. QED
    BY <2>1, <2>2, <2>3
<1>7. CASE TransmitStdin
  BY <1>7 DEF TransmitStdin
<1>8. CASE ReceiveStdout
  BY <1>8 DEF ReceiveStdout
<1>9. CASE ReceiveStderr
  BY <1>9 DEF ReceiveStderr
<1>10. CASE AssignProcess
  BY <1>10 DEF AssignProcess, Returned
<1>11. CASE Crash
  BY <1>11 DEF Crash
<1>12. CASE Second
  BY <1>12 DEF Second
<1>13. CASE TimerProc
  BY <1>13 DEF TimerProc, KillProcess
<1>14. CASE DestroyExec
  BY <1>14 DEF DestroyExec, KillProcess
<1>15. ASSUME NEW s \in Streams, ProcessWrites(s) PROVE StatusInv'
  BY <1>15 DEF ProcessWrites
<1>16. CASE ProcessExits
  BY <1>16 DEF ProcessExits
<1>17. CASE ProcessSpawns
  BY <1>17 DEF ProcessSpawns
<1>18. CASE ChildExits
  BY <1>18 DEF ChildExits
<1>19. CASE UNCHANGED vars
  BY <1>19 DEF vars
<1>20. QED
  BY <1>1, <1>2, <1>3, <1>4, <1>5, <1>6, <1>7, <1>8, <1>9, <1>10, <1>11, <1>12,
     <1>13, <1>14, <1>15, <1>16, <1>17, <1>18, <1>19, <1>21
     DEF Next, ClientStep, StartProcess, ProcessNext

\* Every step keeps what is known about the job.
LEMMA NextKeepsJob == IInv /\ [Next]_vars => JobInv'
<1> SUFFICES ASSUME IInv, [Next]_vars PROVE JobInv'
  OBVIOUS
<1> USE DEF IInv, TypeOK, StatusInv, JobInv, JobEmpty, Monitoring, Ended, BeforeStart, Goto,
        clientVars, execVars, timeVars, procVars, dataVars
<1>1. CASE CreateExec
  BY <1>1 DEF CreateExec
<1>2. CASE PollPreparation
  BY <1>2 DEF PollPreparation
<1>3. CASE StartRefused
  BY <1>3 DEF StartRefused, Returned
<1>21. CASE CallStartProcess
  BY <1>21 DEF CallStartProcess
<1>4. CASE CreateProcess
  BY <1>4 DEF CreateProcess
<1>5. CASE Ping
  BY <1>5 DEF Ping
<1>6. CASE GetTerminationStatus
  BY <1>6 DEF GetTerminationStatus
<1>7. CASE TransmitStdin
  BY <1>7 DEF TransmitStdin
<1>8. CASE ReceiveStdout
  BY <1>8 DEF ReceiveStdout
<1>9. CASE ReceiveStderr
  BY <1>9 DEF ReceiveStderr
<1>10. CASE AssignProcess
  BY <1>10 DEF AssignProcess, Returned
<1>11. CASE Crash
  BY <1>11 DEF Crash
<1>12. CASE Second
  BY <1>12 DEF Second
<1>13. CASE TimerProc
  BY <1>13 DEF TimerProc, KillProcess
<1>14. CASE DestroyExec
  BY <1>14 DEF DestroyExec, KillProcess
<1>15. ASSUME NEW s \in Streams, ProcessWrites(s) PROVE JobInv'
  BY <1>15 DEF ProcessWrites
<1>16. CASE ProcessExits
  BY <1>16 DEF ProcessExits
<1>17. CASE ProcessSpawns
  BY <1>17 DEF ProcessSpawns
<1>18. CASE ChildExits
  BY <1>18 DEF ChildExits
<1>19. CASE UNCHANGED vars
  BY <1>19 DEF vars
<1>20. QED
  BY <1>1, <1>2, <1>3, <1>4, <1>5, <1>6, <1>7, <1>8, <1>9, <1>10, <1>11, <1>12,
     <1>13, <1>14, <1>15, <1>16, <1>17, <1>18, <1>19, <1>21
     DEF Next, ClientStep, StartProcess, ProcessNext

-----------------------------------------------------------------------------
\* A read leaves the other stream alone, never returns more than was written,
\* and counts as data unless the stream is drained.
LEMMA ReadDrains ==
  ASSUME TypeOK, OutputInv, NEW s \in Streams, Read(s), written' = written
  PROVE  /\ \A t \in Streams : got'[t] <= written'[t]
         /\ \A t \in Streams \ {s} : got'[t] = got[t] /\ injected'[t] = injected[t]
         /\ Drained(s) => Drained(s)'
         /\ ~hadData' => ~hadData /\ Drained(s)'
<1>1. CASE injected[s]
  <2>1. /\ injected' = [injected EXCEPT ![s] = FALSE]
        /\ hadData' = TRUE /\ got' = got
    BY <1>1 DEF Read
  <2>2. QED
    BY <1>1, <2>1 DEF TypeOK, OutputInv, Drained
<1>2. CASE ~injected[s]
  <2>1. /\ got' = [got EXCEPT ![s] = IF Available(s) < BufferSize THEN written[s]
                                     ELSE got[s] + BufferSize]
        /\ hadData' = (hadData \/ Available(s) > 0)
        /\ injected' = injected
    BY <1>2 DEF Read
  <2>2. /\ got[s] \in Nat /\ written[s] \in Nat /\ got[s] <= written[s]
        /\ Available(s) = written[s] - got[s]
    BY ExecSessionAssumption DEF TypeOK, OutputInv, Available
  <2>3. got'[s] <= written[s] /\ \A t \in Streams \ {s} : got'[t] = got[t]
    BY <2>1, <2>2, ExecSessionAssumption DEF TypeOK
  <2>4. Available(s) = 0 => got'[s] = written[s]
    BY <2>1, <2>2, ExecSessionAssumption DEF TypeOK
  <2>5. ~hadData' => ~hadData /\ Available(s) = 0
    <3>1. ~hadData' => ~hadData /\ ~(Available(s) > 0)
      BY <2>1, Zenon
    <3>2. ~(Available(s) > 0) => Available(s) = 0
      BY <2>2
    <3>3. QED
      BY <3>1, <3>2, Zenon
  <2>6. Drained(s) => Available(s) = 0
    BY <2>2 DEF Drained
  <2>7. QED
    BY <1>2, <2>1, <2>3, <2>4, <2>5, <2>6 DEF TypeOK, OutputInv, Drained
<1>3. QED
  BY <1>1, <1>2

\* Every step keeps what is known about the output.
LEMMA NextKeepsOutput == IInv /\ [Next]_vars => OutputInv'
<1> SUFFICES ASSUME IInv, [Next]_vars PROVE OutputInv'
  OBVIOUS
<1>a. ASSUME UNCHANGED <<written, got, injected, hasTerminated, hadData>>,
             client' = client \/ client' \notin {"stderr", "done"}
      PROVE  OutputInv'
  BY <1>a DEF IInv, OutputInv, Drained
<1> USE DEF Goto, clientVars, dataVars, Ended
<1>1. CASE CreateExec
  BY <1>1, <1>a DEF CreateExec
<1>2. CASE PollPreparation
  BY <1>2, <1>a DEF PollPreparation
<1>3. CASE StartRefused
  BY <1>3, <1>a DEF StartRefused, Returned
<1>21. CASE CallStartProcess
  BY <1>21, <1>a DEF CallStartProcess
<1>4. CASE CreateProcess
  <2>1. client \in {"starting", "crashed"} /\ client' = client
    BY <1>4 DEF CreateProcess, IInv, StatusInv
  <2>2. \A s \in Streams : got'[s] <= written'[s]
    BY <1>4 DEF CreateProcess, IInv, OutputInv
  <2>3. QED
    BY <2>1, <2>2 DEF OutputInv
<1>5. CASE Ping
  BY <1>5, <1>a DEF Ping
<1>6. CASE GetTerminationStatus
  BY <1>6 DEF GetTerminationStatus, IInv, OutputInv
<1>7. CASE TransmitStdin
  BY <1>7 DEF TransmitStdin, IInv, OutputInv
<1>8. CASE ReceiveStdout
  <2>1. /\ client' = "stderr" /\ written' = written /\ hasTerminated' = hasTerminated
        /\ "stdout" \in Streams /\ Read("stdout")
    BY <1>8 DEF ReceiveStdout, Streams
  <2>2. /\ \A t \in Streams : got'[t] <= written'[t]
        /\ ~hadData' => Drained("stdout")'
    BY <2>1, ReadDrains DEF IInv
  <2>3. QED
    BY <2>1, <2>2 DEF OutputInv
<1>9. CASE ReceiveStderr
  <2>1. /\ client = "stderr"
        /\ client' = IF ~hasTerminated \/ hadData' THEN "ping" ELSE "done"
        /\ written' = written /\ hasTerminated' = hasTerminated
        /\ "stderr" \in Streams /\ Read("stderr")
    BY <1>9 DEF ReceiveStderr, Streams
  <2>2. /\ \A t \in Streams : got'[t] <= written'[t]
        /\ got'["stdout"] = got["stdout"] /\ injected'["stdout"] = injected["stdout"]
        /\ ~hadData' => ~hadData /\ Drained("stderr")'
    <3>1. "stdout" \in Streams \ {"stderr"}
      BY DEF Streams
    <3>2. QED
      BY <2>1, <3>1, ReadDrains DEF IInv
  <2>3. CASE ~hasTerminated \/ hadData'
    BY <2>1, <2>2, <2>3 DEF OutputInv
  <2>4. CASE hasTerminated /\ ~hadData'
    <3>1. Drained("stdout")
      BY <2>1, <2>2, <2>4 DEF IInv, OutputInv
    <3>2. Drained("stdout")' /\ Drained("stderr")'
      BY <2>1, <2>2, <2>4, <3>1 DEF Drained
    <3>3. QED
      BY <2>1, <2>2, <3>2 DEF OutputInv, Streams
  <2>5. QED
    BY <2>3, <2>4
<1>10. CASE AssignProcess
  BY <1>10, <1>a DEF AssignProcess, Returned
<1>11. CASE Crash
  BY <1>11, <1>a DEF Crash
<1>12. CASE Second
  BY <1>12, <1>a DEF Second
<1>13. CASE TimerProc
  BY <1>13, <1>a DEF TimerProc
<1>14. CASE DestroyExec
  BY <1>14, <1>a DEF DestroyExec
<1>15. ASSUME NEW s \in Streams, ProcessWrites(s) PROVE OutputInv'
  <2>1. /\ proc = "running" /\ written' = [written EXCEPT ![s] = @ + 1]
        /\ UNCHANGED <<got, injected, client, hasTerminated, hadData>>
    BY <1>15 DEF ProcessWrites
  <2>2. ~hasTerminated /\ client # "done"
    BY <2>1 DEF IInv, StatusInv
  <2>3. \A t \in Streams : got'[t] <= written'[t]
    BY <2>1, ExecSessionAssumption DEF IInv, TypeOK, OutputInv
  <2>4. QED
    BY <2>1, <2>2, <2>3 DEF OutputInv
<1>16. CASE ProcessExits
  BY <1>16, <1>a DEF ProcessExits
<1>17. CASE ProcessSpawns
  BY <1>17, <1>a DEF ProcessSpawns
<1>18. CASE ChildExits
  BY <1>18, <1>a DEF ChildExits
<1>19. CASE UNCHANGED vars
  BY <1>19, <1>a DEF vars
<1>20. QED
  BY <1>1, <1>2, <1>3, <1>4, <1>5, <1>6, <1>7, <1>8, <1>9, <1>10, <1>11, <1>12,
     <1>13, <1>14, <1>15, <1>16, <1>17, <1>18, <1>19, <1>21
     DEF Next, ClientStep, StartProcess, ProcessNext

-----------------------------------------------------------------------------
\* Every reachable state satisfies the inductive invariant.
THEOREM IInvHolds == Spec => []IInv
<1>1. Init => IInv
  BY InitIInv
<1>2. IInv /\ [Next]_vars => IInv'
  BY NextKeepsTypes, NextKeepsStatus, NextKeepsJob, NextKeepsOutput DEF IInv
<1>3. QED
  BY <1>1, <1>2, PTL DEF Spec

\* The variables of a session keep their types.
THEOREM TypeCorrect == Spec => []TypeOK
<1>1. IInv => TypeOK
  BY DEF IInv
<1>2. QED
  BY <1>1, IInvHolds, PTL

\* An OnConsole that returns has got the exit code and the whole output.
THEOREM CompleteWhenDone == Spec => []DoneIsComplete
<1>1. IInv => DoneIsComplete
  BY DEF IInv, StatusInv, OutputInv, Drained, DoneIsComplete
<1>2. QED
  BY <1>1, IInvHolds, PTL

\* Nothing in the job outlives the CExec.
THEOREM JobCorrect == Spec => []NothingLeftInJob
<1>1. IInv => NothingLeftInJob
  BY DEF IInv, JobInv, NothingLeftInJob
<1>2. QED
  BY <1>1, IInvHolds, PTL

-----------------------------------------------------------------------------
(* The timer.  The ping that starts the clock is that of the constructor,  *)
(* and the next one comes after the wait for the preparation, so that wait *)
(* is part of the first interval.                                          *)

\* How old the last ping may be, by the position of a client that lives.
AgeInv ==
  /\ client = "preparing" /\ waited <= PrepareLimit => age <= waited
  /\ client \in {"start", "starting", "ping"} /\ WaitedShort => age <= waited + passed
  /\ client \in Monitoring \ {"ping"} => age <= passed
  /\ client \notin Ended /\ WaitedShort => proc # "killed"

\* The process of a client that lives and did not wait long has not expired.
LEMMA LiveNotExpired ==
  ASSUME IInv, AgeInv, WaitedShort, client \notin Ended, started
  PROVE  ~MaybeExpired
<1>1. client \in {"start", "starting", "ping"} \cup (Monitoring \ {"ping"})
  BY DEF IInv, TypeOK, StatusInv, BeforeStart, Monitoring
<1>2. /\ passed \in Nat /\ passed <= StepSeconds /\ age \in Nat /\ waited \in Nat
      /\ PrepareLimit \in Nat /\ StepSeconds \in Nat /\ KillAfter \in Nat
  BY ExecSessionAssumption DEF IInv, TypeOK
<1>3. age <= waited + passed
  BY <1>1, <1>2 DEF AgeInv
<1>4. QED
  BY <1>2, <1>3 DEF WaitedShort, MaybeExpired

\* Every step keeps the bounds on the age of the ping.
LEMMA NextKeepsAge ==
  ASSUME IInv, AgeInv, [Next]_vars
  PROVE  AgeInv'
<1>0. /\ passed \in Nat /\ waited \in Nat /\ age \in Nat
      /\ PrepareLimit \in Nat /\ StepSeconds \in Nat /\ KillAfter \in Nat
  BY ExecSessionAssumption DEF IInv, TypeOK
<1> USE <1>0 DEF AgeInv, WaitedShort, Goto, Monitoring, Ended,
        clientVars, execVars, timeVars, procVars, dataVars
<1>1. CASE CreateExec
  BY <1>1 DEF CreateExec, IInv, StatusInv, JobInv, BeforeStart
<1>2. CASE PollPreparation
  BY <1>2 DEF PollPreparation
<1>3. CASE StartRefused
  BY <1>3 DEF StartRefused, Returned
<1>21. CASE CallStartProcess
  BY <1>21 DEF CallStartProcess
<1>4. CASE CreateProcess
  BY <1>4 DEF CreateProcess
<1>5. CASE Ping
  BY <1>5 DEF Ping
<1>6. CASE GetTerminationStatus
  BY <1>6 DEF GetTerminationStatus
<1>7. CASE TransmitStdin
  BY <1>7 DEF TransmitStdin
<1>8. CASE ReceiveStdout
  BY <1>8 DEF ReceiveStdout
<1>9. CASE ReceiveStderr
  BY <1>9 DEF ReceiveStderr
<1>10. CASE AssignProcess
  BY <1>10 DEF AssignProcess, Returned
<1>11. CASE Crash
  BY <1>11 DEF Crash
<1>12. CASE Second
  <2>1. /\ client' = client /\ proc' = proc
        /\ client # "preparing" => waited' = waited
        /\ age' <= age + 1
        /\ client \notin Ended => passed' = passed + 1
        /\ waited <= waited'
        /\ client = "preparing" /\ waited <= PrepareLimit => waited' = waited + 1
        /\ waited' <= PrepareLimit => waited <= PrepareLimit
    BY <1>12 DEF Second
  <2>2. age' \in Nat /\ passed' \in Nat /\ waited' \in Nat
    BY <1>12 DEF Second
  <2>3. (WaitedShort' => WaitedShort) /\ (waited' = waited => (WaitedShort' <=> WaitedShort))
    <3>1. ASSUME NEW w \in Nat, NEW v \in Nat, v <= w, w + StepSeconds < KillAfter
          PROVE  v + StepSeconds < KillAfter
      BY <3>1
    <3>2. waited' = waited => (WaitedShort' <=> WaitedShort) OBVIOUS
    <3>3. QED
      BY <2>1, <2>2, <3>1, <3>2
  <2>4. CASE client = "preparing"
    <3>1. client' = "preparing" /\ proc' = proc
      BY <2>1, <2>4
    <3>2. waited' <= PrepareLimit => age' <= waited'
      BY <2>1, <2>2, <2>4
    <3>3. QED
      BY <2>3, <3>1, <3>2, <2>4
  <2>5. CASE client \in Ended
    BY <2>1, <2>5
  <2>6. CASE client # "preparing" /\ client \notin Ended
    <3>1. age <= passed => age' <= passed'
      BY <2>1, <2>2, <2>6
    <3>2. age <= waited + passed => age' <= waited' + passed'
      BY <2>1, <2>2, <2>6
    <3>3. waited' = waited /\ client' = client /\ proc' = proc
      BY <2>1, <2>6
    <3>4. QED
      BY <2>3, <2>6, <3>1, <3>2, <3>3
  <2>7. QED
    BY <2>4, <2>5, <2>6
<1>13. CASE TimerProc
  <2>1. UNCHANGED <<client, passed, waited, age>>
    BY <1>13 DEF TimerProc
  <2>2. ASSUME client \notin Ended, WaitedShort PROVE proc' = proc
    <3>1. CASE started
      <4>1. ~MaybeExpired
        BY <2>2, <3>1, LiveNotExpired
      <4>2. QED
        BY <1>13, <4>1 DEF TimerProc
    <3>2. CASE ~started
      BY <1>13, <3>2 DEF TimerProc, KillProcess
    <3>3. QED
      BY <3>1, <3>2 DEF IInv, TypeOK
  <2>3. QED
    BY <2>1, <2>2
<1>14. CASE DestroyExec
  BY <1>14 DEF DestroyExec
<1>15. ASSUME NEW s \in Streams, ProcessWrites(s) PROVE AgeInv'
  BY <1>15 DEF ProcessWrites
<1>16. CASE ProcessExits
  BY <1>16 DEF ProcessExits
<1>17. CASE ProcessSpawns
  BY <1>17 DEF ProcessSpawns
<1>18. CASE ChildExits
  BY <1>18 DEF ChildExits
<1>19. CASE UNCHANGED vars
  BY <1>19 DEF vars
<1>20. QED
  BY <1>1, <1>2, <1>3, <1>4, <1>5, <1>6, <1>7, <1>8, <1>9, <1>10, <1>11, <1>12,
     <1>13, <1>14, <1>15, <1>16, <1>17, <1>18, <1>19, <1>21
     DEF Next, ClientStep, StartProcess, ProcessNext

\* Whatever the limits are, the timer kills the process of a client that lives
\* only if the wait for the preparation, together with one pass of the loop,
\* may have exceeded the limit of the timer: at no other time is a ping late.
THEOREM KilledOnlyAfterLongWait == Spec => []ServedAfterShortWait
<1>1. Init => AgeInv
  BY DEF Init, AgeInv, Monitoring
<1>2. IInv /\ AgeInv /\ [Next]_vars => AgeInv'
  BY NextKeepsAge
<1>3. AgeInv => ServedAfterShortWait
  BY DEF AgeInv, ServedAfterShortWait, Monitoring, Ended
<1>4. QED
  BY <1>1, <1>2, <1>3, IInvHolds, PTL DEF Spec

=============================================================================
