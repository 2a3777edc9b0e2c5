---------------------------- MODULE LaunchProofs ----------------------------
(***************************************************************************)
(* Proofs about the starting of processes, for any number of launches, one *)
(* after the other, whichever call of each of them fails: what is held,    *)
(* what is inherited, what is left behind, and that the process gets the   *)
(* arguments and the environment it should.                                *)
(***************************************************************************)
EXTENDS Launch, FlattenLemmas

-----------------------------------------------------------------------------
(* The inductive invariant.                                                *)

\* The pipes that the launch at hand has created at each position.
Made(at) ==
  CASE at \in {"main", "job", "stdout"}  -> {}
    [] at \in {"stdoutFlag", "stderr"}   -> {"stdout"}
    [] at \in {"stderrFlag", "stdin"}    -> {"stdout", "stderr"}
    [] OTHER                             -> Pipes

\* The server's end of a pipe of an earlier launch, which no process can inherit.
Kept(h) == h.launch < turn /\ h.mine /\ ~h.inherit /\ h.launch \notin released

\* An end of a pipe of the launch at hand.  The server's is inheritable for the one
\* step in which the pipe has been created and the flag not been cleared.
Own(h) == /\ h.launch = turn /\ h.pipe \in Made(pos)
          /\ h.inherit <=> (~h.mine \/ pos = Flag[h.pipe])

HandlesInv ==
  /\ \A h \in handles : IsLeaked(h) \/ Kept(h) \/ Own(h)
  /\ \A p \in Made(pos) : End(turn, p, FALSE, TRUE) \in handles
  /\ \A q \in leaked : q[1] < turn

\* A process that runs is in the job of a client that was told so and is still
\* there, or its client was told of a failure; so every process but the one whose
\* assignment failed has somebody who ends it.
ProcessInv ==
  \A n \in 1..Launches :
    /\ process[n] # NoProcess => n < turn \/ (n = turn /\ pos = "assign")
    /\ n = turn /\ pos = "assign" => process[n] # NoProcess
    /\ n \in assigned => process[n] # NoProcess /\ n < turn
    /\ n >= turn => result[n] = "none" /\ n \notin released
    /\ n < turn /\ process[n].state = "running" =>
         IF n \in assigned THEN result[n] = "started" /\ n \notin released
                           ELSE result[n] = "failed"

IsProcess(r) ==
  \E st \in {"running", "ended"} : \E a, e, d, i :
    r = [state |-> st, args |-> a, env |-> e, directory |-> d, inherits |-> i]

LaunchType ==
  /\ TypeOK
  /\ process = [n \in 1..Launches |-> process[n]]
  /\ \A n \in 1..Launches : process[n] = NoProcess \/ IsProcess(process[n])
  /\ turn > Launches => pos = "main"

-----------------------------------------------------------------------------
(* Positions.                                                              *)

Positions == {"main", "job", "token", "create", "assign"} \cup Pipes \cup {Flag[p] : p \in Pipes}

\* The positions, in order, and the pipes that exist at each of them.
LEMMA PipeFacts ==
  /\ \A p \in Pipes : /\ Flag[p] \in Positions /\ NextPipe[p] \in Positions
                      /\ p \in Positions /\ p # "main" /\ Flag[p] # "main" /\ NextPipe[p] # "main"
                      /\ Flag[p] # "assign" /\ NextPipe[p] # "assign" /\ p # "assign"
                      /\ Flag[p] \notin Pipes /\ Flag[p] \notin {"job", "token", "create"}
                      /\ NextPipe[p] # Flag[p] /\ Made(Flag[p]) = Made(p) \cup {p}
                      /\ p \notin Made(p) /\ Made(NextPipe[p]) = Made(Flag[p])
                      /\ \A q \in Pipes : /\ Flag[p] = Flag[q] => p = q
                                          /\ NextPipe[p] # Flag[q] /\ p # Flag[q]
  /\ Made("main") = {} /\ Made("job") = {} /\ Made("stdout") = {}
  /\ Made("token") = Pipes /\ Made("create") = Pipes /\ Made("assign") = Pipes
  /\ Positions = {"main", "job", "token", "create", "assign", "stdout", "stderr", "stdin",
                  "stdoutFlag", "stderrFlag", "stdinFlag"}
<1>1. /\ Flag["stdout"] = "stdoutFlag" /\ Flag["stderr"] = "stderrFlag"
      /\ Flag["stdin"] = "stdinFlag" /\ NextPipe["stdout"] = "stderr"
      /\ NextPipe["stderr"] = "stdin" /\ NextPipe["stdin"] = "token"
  BY DEF Flag, NextPipe
<1>2. Positions = {"main", "job", "token", "create", "assign", "stdout", "stderr", "stdin",
                   "stdoutFlag", "stderrFlag", "stdinFlag"}
  BY <1>1 DEF Positions, Pipes
<1>3. /\ Made("main") = {} /\ Made("job") = {} /\ Made("stdout") = {}
      /\ Made("stdoutFlag") = {"stdout"} /\ Made("stderr") = {"stdout"}
      /\ Made("stderrFlag") = {"stdout", "stderr"} /\ Made("stdin") = {"stdout", "stderr"}
      /\ Made("stdinFlag") = Pipes /\ Made("token") = Pipes
      /\ Made("create") = Pipes /\ Made("assign") = Pipes
  BY DEF Made
<1>4. ASSUME NEW p \in Pipes
      PROVE  /\ Flag[p] \in Positions /\ NextPipe[p] \in Positions
             /\ p \in Positions /\ p # "main" /\ Flag[p] # "main" /\ NextPipe[p] # "main"
             /\ Flag[p] # "assign" /\ NextPipe[p] # "assign" /\ p # "assign"
             /\ Flag[p] \notin Pipes /\ Flag[p] \notin {"job", "token", "create"}
             /\ NextPipe[p] # Flag[p] /\ Made(Flag[p]) = Made(p) \cup {p}
             /\ p \notin Made(p) /\ Made(NextPipe[p]) = Made(Flag[p])
             /\ \A q \in Pipes : /\ Flag[p] = Flag[q] => p = q
                                 /\ NextPipe[p] # Flag[q] /\ p # Flag[q]
  <2>1. CASE p = "stdout" BY <1>1, <1>2, <1>3, <2>1 DEF Pipes
  <2>2. CASE p = "stderr" BY <1>1, <1>2, <1>3, <2>2 DEF Pipes
  <2>3. CASE p = "stdin" BY <1>1, <1>2, <1>3, <2>3 DEF Pipes
  <2> QED BY <2>1, <2>2, <2>3 DEF Pipes
<1> QED BY <1>2, <1>3, <1>4

\* The ends of pipes are records, determined by their fields.
LEMMA EndFacts ==
  ASSUME LaunchType
  PROVE  /\ \A h \in handles : /\ h = End(h.launch, h.pipe, h.mine, h.inherit)
                               /\ h.launch \in 1..Launches /\ h.pipe \in Pipes
                               /\ h.mine \in BOOLEAN /\ h.inherit \in BOOLEAN
         /\ \A n \in 1..Launches, p \in Pipes, m, i \in BOOLEAN :
              LET h == End(n, p, m, i)
              IN  /\ h \in [launch : 1..Launches, pipe : Pipes, mine : BOOLEAN, inherit : BOOLEAN]
                  /\ h.launch = n /\ h.pipe = p /\ h.mine = m /\ h.inherit = i
BY DEF LaunchType, TypeOK, End

\* While a launch is at hand, its number is one of those possible.
LEMMA TurnFacts ==
  ASSUME LaunchType
  PROVE  /\ turn \in Nat \ {0} /\ Launches \in Nat /\ turn <= Launches + 1
         /\ pos # "main" => turn \in 1..Launches
         /\ turn <= Launches => turn \in 1..Launches /\ turn + 1 \in 1..(Launches + 1)
         /\ pos \in Positions
BY LaunchAssumption DEF LaunchType, TypeOK, Positions

-----------------------------------------------------------------------------
(* Processes that end.                                                     *)

\* A process that ends keeps the rest of its record.
LEMMA EndedRecord ==
  ASSUME NEW r, IsProcess(r)
  PROVE  /\ r # NoProcess
         /\ IsProcess([r EXCEPT !.state = "ended"])
         /\ [r EXCEPT !.state = "ended"].state = "ended"
         /\ [r EXCEPT !.state = "ended"].inherits = r.inherits
         /\ [r EXCEPT !.state = "ended"].args = r.args
         /\ [r EXCEPT !.state = "ended"].env = r.env
         /\ [r EXCEPT !.state = "ended"].directory = r.directory
<1>1. PICK st \in {"running", "ended"} : \E a, e, d, i :
        r = [state |-> st, args |-> a, env |-> e, directory |-> d, inherits |-> i]
  BY DEF IsProcess
<1>2. PICK a, e, d, i :
        r = [state |-> st, args |-> a, env |-> e, directory |-> d, inherits |-> i]
  BY <1>1
<1>3. [r EXCEPT !.state = "ended"]
        = [state |-> "ended", args |-> a, env |-> e, directory |-> d, inherits |-> i]
  BY <1>2
<1>4. r # NoProcess
  <2>1. "args" \in DOMAIN r /\ "args" \notin DOMAIN NoProcess BY <1>2 DEF NoProcess
  <2> QED BY <2>1
<1>5. IsProcess([r EXCEPT !.state = "ended"])
  BY <1>3 DEF IsProcess
<1> QED BY <1>2, <1>3, <1>4, <1>5

Ends(n) == process' = [process EXCEPT ![n].state = "ended"]

\* When a process ends, nothing else about any process changes.
LEMMA EndedProcess ==
  ASSUME LaunchType, NEW n \in 1..Launches, process[n] # NoProcess, Ends(n)
  PROVE  /\ process' = [m \in 1..Launches |-> process'[m]]
         /\ \A m \in 1..Launches :
              /\ process'[m] = NoProcess \/ IsProcess(process'[m])
              /\ process'[m] = NoProcess <=> process[m] = NoProcess
              /\ process'[m] # NoProcess =>
                   /\ process'[m].inherits = process[m].inherits
                   /\ process'[m].args = process[m].args
                   /\ process'[m].env = process[m].env
                   /\ process'[m].directory = process[m].directory
              /\ process'[m].state = IF m = n THEN "ended" ELSE process[m].state
<1> DEFINE r == [process[n] EXCEPT !.state = "ended"]
<1>1. process' = [process EXCEPT ![n] = r] BY DEF Ends
<1>2. IsProcess(process[n]) BY DEF LaunchType
<1>3. /\ IsProcess(r) /\ r.state = "ended" /\ r.inherits = process[n].inherits /\ r # NoProcess
      /\ r.args = process[n].args /\ r.env = process[n].env /\ r.directory = process[n].directory
  <2>1. /\ IsProcess(r) /\ r.state = "ended" /\ r.inherits = process[n].inherits
        /\ r.args = process[n].args /\ r.env = process[n].env /\ r.directory = process[n].directory
    BY <1>2, EndedRecord
  <2> HIDE DEF r
  <2> QED BY <2>1, EndedRecord
<1> HIDE DEF r
<1>4. process = [m \in 1..Launches |-> process[m]] BY DEF LaunchType
<1>5. process'[n] = r /\ \A m \in 1..Launches \ {n} : process'[m] = process[m]
  BY <1>1, <1>4
<1>6. process' = [m \in 1..Launches |-> process'[m]] BY <1>1, <1>4
<1> QED BY <1>2, <1>3, <1>5, <1>6 DEF LaunchType

-----------------------------------------------------------------------------
(* Types.                                                                  *)

\* What every step does to the position, the turn and the results: the launch at
\* hand is told something and the next one is at hand, or it goes on.
LEMMA TurnSteps ==
  ASSUME LaunchType, Next
  PROVE  \/ /\ turn \in 1..Launches /\ turn' = turn + 1 /\ pos' = "main"
            /\ \E what \in {"usage", "failed", "refused", "started", "terminated"} :
                 result' = [result EXCEPT ![turn] = what]
         \/ /\ turn' = turn /\ result' = result /\ pos' \in Positions
            /\ pos' # "main" => turn \in 1..Launches
<1> USE TurnFacts, PipeFacts
<1>1. CASE InitializeFails \/ Usage
  BY <1>1 DEF InitializeFails, Usage, Goto, Tell
<1>2. CASE Request
  BY <1>2 DEF Request, Goto, Tell
<1>3. CASE CreateJob \/ OpenToken
  BY <1>3 DEF CreateJob, OpenToken, Goto, Tell, Throw
<1>4. ASSUME NEW p \in Pipes, CreatePipe(p) \/ KeepServerEnd(p)
      PROVE  \/ /\ turn \in 1..Launches /\ turn' = turn + 1 /\ pos' = "main"
                /\ result' = [result EXCEPT ![turn] = "failed"]
             \/ /\ turn' = turn /\ result' = result /\ pos' \in Positions
                /\ turn \in 1..Launches
  BY <1>4 DEF CreatePipe, KeepServerEnd, Goto, Tell, Throw
<1>5. CASE ChangeDirectory \/ CreateProcessFails \/ CreateProcess \/ AssignProcess
  BY <1>5 DEF ChangeDirectory, CreateProcessFails, CreateProcess, AssignProcess, Goto, Tell, Throw
<1>6. CASE StartPreparation \/ \E n \in 1..Launches : ReleaseExec(n) \/ ProcessEnds(n)
  BY <1>6 DEF StartPreparation, ReleaseExec, ProcessEnds
<1> QED BY <1>1, <1>2, <1>3, <1>4, <1>5, <1>6 DEF Next

\* A process is created, ends, or is left alone.
LEMMA ProcessSteps ==
  ASSUME LaunchType, ProcessInv, Next
  PROVE  \/ CreateProcess
         \/ process' = process
         \/ \E n \in 1..Launches : process[n] # NoProcess /\ Ends(n) /\ turn' = turn /\ pos' = pos
<1>1. CASE \E n \in 1..Launches : ReleaseExec(n)
  BY <1>1 DEF ReleaseExec, Ends, ProcessInv
<1>2. CASE \E n \in 1..Launches : ProcessEnds(n)
  <2>1. PICK n \in 1..Launches : ProcessEnds(n) BY <1>2
  <2>2. process[n] # NoProcess
    BY <2>1 DEF ProcessEnds, NoProcess
  <2> QED BY <2>1, <2>2 DEF ProcessEnds, Ends
<1> QED
  BY <1>1, <1>2 DEF Next, InitializeFails, Usage, Request, CreateJob, OpenToken, CreatePipe,
     KeepServerEnd, ChangeDirectory, CreateProcessFails, AssignProcess, StartPreparation,
     OthersUnchanged

\* CreateProcess makes a process of the launch at hand and changes no other.
LEMMA CreatedProcess ==
  ASSUME LaunchType, CreateProcess
  PROVE  /\ turn \in 1..Launches /\ pos = "create" /\ pos' = "assign" /\ turn' = turn
         /\ IsProcess(process'[turn]) /\ process'[turn].state = "running"
         /\ process'[turn].inherits = Inherited
         /\ process'[turn].args = ParseCommandLine(CommandLine(arguments))
         /\ process'[turn].env = GetEnvironment(Block(environment))
         /\ process'[turn].directory = directory
         /\ \A m \in 1..Launches \ {turn} : process'[m] = process[m]
         /\ process' = [m \in 1..Launches |-> process'[m]]
<1> DEFINE r == [state     |-> "running",
                 args      |-> ParseCommandLine(CommandLine(arguments)),
                 env       |-> GetEnvironment(Block(environment)),
                 directory |-> directory,
                 inherits  |-> Inherited]
<1>1. turn \in 1..Launches /\ pos = "create" /\ pos' = "assign" /\ turn' = turn
  BY TurnFacts DEF CreateProcess, Goto
<1>2. process' = [process EXCEPT ![turn] = r]
  BY DEF CreateProcess
<1>3. /\ IsProcess(r) /\ r.state = "running" /\ r.inherits = Inherited
      /\ r.args = ParseCommandLine(CommandLine(arguments))
      /\ r.env = GetEnvironment(Block(environment)) /\ r.directory = directory
  BY DEF IsProcess
<1> HIDE DEF r
<1> QED BY <1>1, <1>2, <1>3 DEF LaunchType

\* Every step keeps the types of the handles.
LEMMA HandleTypes ==
  ASSUME LaunchType, Next
  PROVE  /\ handles' \subseteq [launch : 1..Launches, pipe : Pipes, mine : BOOLEAN, inherit : BOOLEAN]
         /\ leaked' \subseteq (1..Launches) \X Pipes
<1> DEFINE H == [launch : 1..Launches, pipe : Pipes, mine : BOOLEAN, inherit : BOOLEAN]
           L == (1..Launches) \X Pipes
<1>0. handles \subseteq H /\ leaked \subseteq L BY DEF LaunchType, TypeOK
<1>1. ASSUME NEW p \in Pipes, CreatePipe(p) PROVE handles' \subseteq H /\ leaked' \subseteq L
  <2>1. turn \in 1..Launches BY <1>1, TurnFacts, PipeFacts DEF CreatePipe, Goto
  <2>2. End(turn, p, TRUE, TRUE) \in H /\ End(turn, p, FALSE, TRUE) \in H
    BY <2>1 DEF End
  <2> HIDE DEF H, L
  <2> QED BY <1>0, <1>1, <2>2 DEF CreatePipe, Throw, AfterReturn
<1>2. ASSUME NEW p \in Pipes, KeepServerEnd(p) PROVE handles' \subseteq H /\ leaked' \subseteq L
  <2>1. turn \in 1..Launches BY <1>2, TurnFacts, PipeFacts DEF KeepServerEnd, Goto
  <2>2. End(turn, p, TRUE, FALSE) \in H /\ <<turn, p>> \in L
    BY <2>1 DEF End
  <2> HIDE DEF H, L
  <2> QED BY <1>0, <1>2, <2>2 DEF KeepServerEnd, Throw, AfterReturn
<1> HIDE DEF H, L
<1>3. ASSUME CreateJob \/ OpenToken \/ ChangeDirectory \/ CreateProcessFails \/ AssignProcess
      PROVE  handles' \subseteq H /\ leaked' \subseteq L
  BY <1>0, <1>3 DEF CreateJob, OpenToken, ChangeDirectory, CreateProcessFails, AssignProcess,
     Throw, AfterReturn
<1>4. ASSUME \E n \in 1..Launches : ReleaseExec(n) \/ ProcessEnds(n)
      PROVE  handles' \subseteq H /\ leaked' \subseteq L
  BY <1>0, <1>4 DEF ReleaseExec, ProcessEnds
<1>5. ASSUME InitializeFails \/ Usage \/ Request \/ CreateProcess \/ StartPreparation
      PROVE  handles' \subseteq H /\ leaked' \subseteq L
  BY <1>0, <1>5 DEF InitializeFails, Usage, Request, CreateProcess, StartPreparation
<1> QED BY <1>1, <1>2, <1>3, <1>4, <1>5 DEF Next, H, L

\* Every step keeps the types.
LEMMA TypeNext ==
  ASSUME LaunchType, ProcessInv, Next
  PROVE  LaunchType'
<1>1. turn' \in 1..(Launches + 1) /\ pos' \in Positions /\ (turn' > Launches => pos' = "main")
  <2>1. "main" \in Positions BY DEF Positions
  <2> QED BY <2>1, TurnSteps, TurnFacts
<1>2. result' \in [1..Launches -> {"none", "usage", "failed", "refused", "started", "terminated"}]
  <2>1. result \in [1..Launches -> {"none", "usage", "failed", "refused", "started", "terminated"}]
    BY DEF LaunchType, TypeOK
  <2> QED BY <2>1, TurnSteps
<1>3. /\ process' = [n \in 1..Launches |-> process'[n]]
      /\ \A n \in 1..Launches : process'[n] = NoProcess \/ IsProcess(process'[n])
  BY ProcessSteps, CreatedProcess, EndedProcess DEF LaunchType
<1>4. \A n \in 1..Launches : process'[n].state \in {"none", "running", "ended"}
  <2>1. \A r : IsProcess(r) => r.state \in {"running", "ended"}
    BY DEF IsProcess
  <2>2. NoProcess.state = "none" BY DEF NoProcess
  <2> QED BY <1>3, <2>1, <2>2
<1>5. directory' \in {"client", "system"} /\ warned' \subseteq 1..Launches
  <2>1. directory \in {"client", "system"} /\ warned \subseteq 1..Launches
    BY DEF LaunchType, TypeOK
  <2> QED
    BY <2>1, TurnFacts, PipeFacts DEF Next, InitializeFails, Usage, Request, CreateJob, OpenToken,
       CreatePipe, KeepServerEnd, ChangeDirectory, CreateProcess, CreateProcessFails,
       AssignProcess, StartPreparation, ReleaseExec, ProcessEnds, OthersUnchanged
<1>6. assigned' \subseteq 1..Launches /\ released' \subseteq 1..Launches
  <2>1. assigned \subseteq 1..Launches /\ released \subseteq 1..Launches
    BY DEF LaunchType, TypeOK
  <2>2. \/ assigned' = assigned
        \/ assigned' = assigned \cup {turn} /\ turn \in 1..Launches
    <3>1. CASE AssignProcess
      <4>1. pos # "main" /\ (assigned' = assigned \/ assigned' = assigned \cup {turn})
        BY <3>1 DEF AssignProcess, Goto
      <4> QED BY <4>1, TurnFacts
    <3>2. CASE ~AssignProcess
      BY <3>2 DEF Next, InitializeFails, Usage, Request, CreateJob, OpenToken, CreatePipe,
         KeepServerEnd, ChangeDirectory, CreateProcess, CreateProcessFails, StartPreparation,
         ReleaseExec, ProcessEnds, OthersUnchanged
    <3> QED BY <3>1, <3>2
  <2>3. released' = released \/ \E n \in 1..Launches : released' = released \cup {n}
    <3>1. ASSUME NEW n \in 1..Launches, ReleaseExec(n) \/ ProcessEnds(n)
          PROVE  released' = released \/ \E k \in 1..Launches : released' = released \cup {k}
      BY <3>1 DEF ReleaseExec, ProcessEnds
    <3>2. ASSUME ~\E n \in 1..Launches : ReleaseExec(n) \/ ProcessEnds(n) PROVE released' = released
      BY <3>2 DEF Next, InitializeFails, Usage, Request, CreateJob, OpenToken, CreatePipe,
         KeepServerEnd, ChangeDirectory, CreateProcess, CreateProcessFails, AssignProcess,
         StartPreparation, OthersUnchanged, Goto
    <3> QED BY <3>1, <3>2
  <2> QED BY <2>1, <2>2, <2>3
<1>7. TypeOK'
  BY <1>1, <1>2, <1>4, <1>5, <1>6, HandleTypes DEF TypeOK, Positions
<1> QED BY <1>1, <1>3, <1>7 DEF LaunchType

-----------------------------------------------------------------------------
(* Processes and what their clients are told.                              *)

\* The steps that leave the processes, their jobs and their clients alone, and
\* tell the client of the launch at hand at most that it has none.
LEMMA OtherSteps ==
  ASSUME LaunchType, Next, ~CreateProcess, ~AssignProcess,
         \A n \in 1..Launches : ~ReleaseExec(n) /\ ~ProcessEnds(n)
  PROVE  /\ UNCHANGED <<process, assigned, released>>
         /\ \/ turn' = turn + 1 /\ turn \in 1..Launches /\ pos # "assign" /\ pos' = "main"
               /\ \A n \in 1..Launches \ {turn} : result'[n] = result[n]
            \/ turn' = turn /\ result' = result /\ (pos' = "assign" <=> pos = "assign")
<1>1. UNCHANGED <<process, assigned, released>>
  BY DEF Next, InitializeFails, Usage, Request, CreateJob, OpenToken, CreatePipe, KeepServerEnd,
     ChangeDirectory, CreateProcessFails, StartPreparation, OthersUnchanged
<1>2. turn' = turn + 1 => \A n \in 1..Launches \ {turn} : result'[n] = result[n]
  BY TurnSteps, TurnFacts DEF LaunchType, TypeOK
<1>3. pos' = "assign" => pos = "assign"
  BY PipeFacts DEF Next, InitializeFails, Usage, Request, CreateJob, OpenToken, CreatePipe,
     KeepServerEnd, ChangeDirectory, CreateProcessFails, StartPreparation, Goto, Throw
<1>4. pos = "assign" => pos' = "assign" /\ turn' = turn
  BY PipeFacts DEF Next, InitializeFails, Usage, Request, CreateJob, OpenToken, CreatePipe,
     KeepServerEnd, ChangeDirectory, CreateProcessFails, StartPreparation, Goto, Throw
<1> QED BY <1>1, <1>2, <1>3, <1>4, TurnSteps, TurnFacts

\* Every step keeps somebody responsible for each process.
LEMMA ProcessNext ==
  ASSUME LaunchType, ProcessInv, Next
  PROVE  ProcessInv'
<1> DEFINE P(n) ==
      /\ process[n] # NoProcess => n < turn \/ (n = turn /\ pos = "assign")
      /\ n = turn /\ pos = "assign" => process[n] # NoProcess
      /\ n \in assigned => process[n] # NoProcess /\ n < turn
      /\ n >= turn => result[n] = "none" /\ n \notin released
      /\ n < turn /\ process[n].state = "running" =>
           IF n \in assigned THEN result[n] = "started" /\ n \notin released
                             ELSE result[n] = "failed"
<1> SUFFICES ASSUME NEW n \in 1..Launches PROVE P(n)'
  BY DEF ProcessInv
<1>1. P(n) BY DEF ProcessInv
<1>2. turn \in Nat /\ n \in Nat BY TurnFacts
<1>3. NoProcess.state # "running" BY DEF NoProcess
<1>4. CASE CreateProcess
  <2>1. UNCHANGED <<assigned, result, released>> BY <1>4 DEF CreateProcess
  <2>2. process'[turn] # NoProcess BY <1>4, CreatedProcess, EndedRecord
  <2>3. pos = "create" /\ pos' = "assign" /\ turn' = turn BY <1>4, CreatedProcess
  <2>4. CASE n = turn BY <1>1, <1>2, <2>1, <2>2, <2>3, <2>4
  <2>5. CASE n # turn
    <3>1. process'[n] = process[n] BY <1>4, <2>5, CreatedProcess
    <3> QED BY <1>1, <1>2, <2>1, <2>3, <2>5, <3>1
  <2> QED BY <2>4, <2>5
<1>5. CASE AssignProcess
  <2>1. /\ pos = "assign" /\ pos' = "main" /\ turn' = turn + 1 /\ UNCHANGED <<process, released>>
        /\ turn \in 1..Launches
    BY <1>5, TurnFacts DEF AssignProcess, Goto, Tell, Throw
  <2>2. \/ assigned' = assigned \cup {turn} /\ result' = [result EXCEPT ![turn] = "started"]
        \/ assigned' = assigned /\ result' = [result EXCEPT ![turn] = "failed"]
    BY <1>5 DEF AssignProcess, Tell, Throw
  <2>3. result \in [1..Launches -> {"none", "usage", "failed", "refused", "started", "terminated"}]
    BY DEF LaunchType, TypeOK
  <2>4. CASE n = turn
    <3>1. process[n] # NoProcess /\ n \notin released /\ n \notin assigned
      BY <1>1, <1>2, <2>1, <2>4
    <3>2. n < turn' /\ turn' # n /\ ~(n >= turn')
      BY <1>2, <2>1, <2>4
    <3>3. \/ n \in assigned' /\ result'[n] = "started"
          \/ n \notin assigned' /\ result'[n] = "failed"
      BY <2>2, <2>3, <2>4, <3>1
    <3> QED BY <2>1, <3>1, <3>2, <3>3
  <2>5. CASE n # turn
    <3>1. result'[n] = result[n] /\ (n \in assigned' <=> n \in assigned)
      BY <2>2, <2>3, <2>5
    <3> QED BY <1>1, <1>2, <2>1, <2>5, <3>1
  <2> QED BY <2>4, <2>5
<1>6. ASSUME NEW m \in 1..Launches, ReleaseExec(m) PROVE P(n)'
  <2>1. /\ pos = "main" /\ m < turn /\ released' = released \cup {m}
        /\ UNCHANGED <<turn, pos, assigned, result>>
        /\ process' = IF m \in assigned THEN [process EXCEPT ![m].state = "ended"] ELSE process
    BY <1>6 DEF ReleaseExec
  <2>2. CASE m \in assigned
    <3>1. process[m] # NoProcess /\ Ends(m) BY <2>1, <2>2 DEF ProcessInv, Ends
    <3>2. /\ process'[n] = NoProcess <=> process[n] = NoProcess
          /\ process'[n].state = IF n = m THEN "ended" ELSE process[n].state
      BY <3>1, EndedProcess
    <3> QED BY <1>1, <1>2, <2>1, <3>2
  <2>3. CASE m \notin assigned
    BY <1>1, <1>2, <2>1, <2>3
  <2> QED BY <2>2, <2>3
<1>7. ASSUME NEW m \in 1..Launches, ProcessEnds(m) PROVE P(n)'
  <2>1. /\ process[m].state = "running" /\ Ends(m)
        /\ UNCHANGED <<turn, pos, assigned, result, released>>
    BY <1>7 DEF ProcessEnds, Ends
  <2>2. process[m] # NoProcess BY <1>3, <2>1
  <2>3. /\ process'[n] = NoProcess <=> process[n] = NoProcess
        /\ process'[n].state = IF n = m THEN "ended" ELSE process[n].state
    BY <2>1, <2>2, EndedProcess
  <2> QED BY <1>1, <1>2, <2>1, <2>3
<1>8. CASE /\ ~CreateProcess /\ ~AssignProcess
           /\ \A m \in 1..Launches : ~ReleaseExec(m) /\ ~ProcessEnds(m)
  <2>1. UNCHANGED <<process, assigned, released>> BY <1>8, OtherSteps
  <2>2. CASE /\ turn' = turn + 1 /\ pos # "assign" /\ pos' = "main"
             /\ \A m \in 1..Launches \ {turn} : result'[m] = result[m]
    <3>1. CASE n = turn
      <4>1. process[n] = NoProcess BY <1>1, <1>2, <2>2, <3>1
      <4> QED BY <1>1, <1>2, <1>3, <2>1, <2>2, <3>1, <4>1
    <3>2. CASE n # turn
      <4>1. result'[n] = result[n] BY <2>2, <3>2
      <4> QED BY <1>1, <1>2, <2>1, <2>2, <3>2, <4>1
    <3> QED BY <3>1, <3>2
  <2>3. CASE turn' = turn /\ result' = result /\ (pos' = "assign" <=> pos = "assign")
    BY <1>1, <1>2, <2>1, <2>3
  <2> QED BY <1>8, <2>2, <2>3, OtherSteps
<1> QED BY <1>4, <1>5, <1>6, <1>7, <1>8

-----------------------------------------------------------------------------
(* Handles.                                                                *)

ReleasedInv == \A n \in released : n < turn

\* Only a launch that has returned can be released.
LEMMA ReleasedEarlier == LaunchType /\ ProcessInv => ReleasedInv
BY TurnFacts DEF LaunchType, TypeOK, ProcessInv, ReleasedInv

\* An exception leaves of the launch at hand the server's ends of the pipes it has
\* completed, and both ends of the one that has no owner yet.
LEMMA ThrowHandles ==
  ASSUME LaunchType, ReleasedInv, HandlesInv, pos # "main", NEW lost, Throw(lost),
         UNCHANGED released,
         \/ lost = {} /\ \A p \in Pipes : pos # Flag[p]
         \/ \E p \in Pipes : pos = Flag[p] /\ lost = {<<turn, p>>}
  PROVE  HandlesInv'
<1>1. /\ turn' = turn + 1 /\ pos' = "main" /\ leaked' = leaked \cup lost
      /\ handles' = {h \in handles : h.launch # turn \/ h.mine \/ <<h.launch, h.pipe>> \in lost}
  BY DEF Throw, Tell, AfterReturn
<1>2. turn \in Nat BY TurnFacts
<1>3. ASSUME NEW h \in handles'
      PROVE  IsLeaked(h)' \/ Kept(h)'
  <2>1. h \in handles /\ h.launch \in Nat /\ h.pipe \in Pipes BY <1>1, EndFacts
  <2>2. CASE IsLeaked(h)
    BY <1>1, <2>2 DEF IsLeaked
  <2>3. CASE Kept(h)
    BY <1>1, <1>2, <2>1, <2>3 DEF Kept
  <2>4. CASE Own(h) /\ <<h.launch, h.pipe>> \in lost
    <3>1. pos = Flag[h.pipe] BY <2>4
    <3> QED BY <1>1, <2>4, <3>1 DEF Own, IsLeaked
  <2>5. CASE Own(h) /\ <<h.launch, h.pipe>> \notin lost
    <3>1. h.launch = turn /\ h.mine BY <1>1, <2>5 DEF Own
    <3>2. pos # Flag[h.pipe]
      BY <2>1, <2>5, <3>1, PipeFacts
    <3>3. h.launch \notin released BY <1>2, <3>1 DEF ReleasedInv
    <3> QED BY <1>1, <1>2, <2>5, <3>1, <3>2, <3>3 DEF Own, Kept
  <2> QED BY <2>1, <2>2, <2>3, <2>4, <2>5 DEF HandlesInv
<1>4. Made(pos') = {} BY <1>1, PipeFacts
<1>5. ASSUME NEW q \in leaked' PROVE q[1] < turn'
  <2>1. q \in leaked \/ \E p \in Pipes : q = <<turn, p>> BY <1>1
  <2>2. CASE q \in leaked
    <3>1. q[1] \in Nat BY <2>2 DEF LaunchType, TypeOK
    <3> QED BY <1>1, <1>2, <2>2, <3>1 DEF HandlesInv
  <2>3. CASE \E p \in Pipes : q = <<turn, p>>
    BY <1>1, <1>2, <2>3
  <2> QED BY <2>1, <2>2, <2>3
<1> QED BY <1>3, <1>4, <1>5 DEF HandlesInv

\* When DoStartProcess returns normally only the server's ends stay.
LEMMA ReturnHandles ==
  ASSUME LaunchType, ReleasedInv, HandlesInv, pos \in {"create", "assign"},
         handles' = AfterReturn(handles, {}), pos' = "main", turn' = turn + 1,
         UNCHANGED <<leaked, released>>
  PROVE  HandlesInv'
<1>1. handles' = {h \in handles : h.launch # turn \/ h.mine}
  BY DEF AfterReturn
<1>2. turn \in Nat BY TurnFacts
<1>3. ASSUME NEW h \in handles'
      PROVE  IsLeaked(h)' \/ Kept(h)'
  <2>1. h \in handles /\ h.launch \in Nat /\ h.pipe \in Pipes BY <1>1, EndFacts
  <2>2. CASE IsLeaked(h) BY <2>2 DEF IsLeaked
  <2>3. CASE Kept(h) BY <1>2, <2>1, <2>3 DEF Kept
  <2>4. CASE Own(h)
    <3>1. h.launch = turn /\ h.mine BY <1>1, <2>4 DEF Own
    <3>2. pos # Flag[h.pipe] BY <2>1, PipeFacts
    <3>3. h.launch \notin released BY <1>2, <3>1 DEF ReleasedInv
    <3> QED BY <1>2, <2>4, <3>1, <3>2, <3>3 DEF Own, Kept
  <2> QED BY <2>1, <2>2, <2>3, <2>4 DEF HandlesInv
<1>4. Made(pos') = {} BY PipeFacts
<1>5. \A q \in leaked' : q[1] < turn'
  <2>1. \A q \in leaked : q[1] \in Nat /\ q[1] < turn
    BY DEF LaunchType, TypeOK, HandlesInv
  <2> QED BY <1>2, <2>1
<1> QED BY <1>3, <1>4, <1>5 DEF HandlesInv

\* Steps that change nothing that HandlesInv speaks of, except the position to one
\* where as many pipes are made, or the turn when there are none.
LEMMA SameHandles ==
  ASSUME LaunchType, HandlesInv, UNCHANGED <<handles, leaked, released>>,
         \/ turn' = turn /\ Made(pos') = Made(pos)
            /\ \A p \in Pipes : pos' # Flag[p] /\ pos # Flag[p]
         \/ turn' = turn /\ pos' = pos
         \/ turn' = turn + 1 /\ pos = "main" /\ pos' = "main"
  PROVE  HandlesInv'
<1>1. turn \in Nat /\ Made("main") = {} BY TurnFacts, PipeFacts
<1>2. \A h \in handles : h.launch \in Nat /\ h.pipe \in Pipes BY EndFacts
<1>3. \A q \in leaked : q[1] \in Nat BY DEF LaunchType, TypeOK
<1>4. turn' \in Nat /\ turn <= turn' BY <1>1
<1>5. \A q \in leaked' : q[1] < turn' BY <1>1, <1>3, <1>4 DEF HandlesInv
<1>6. Made(pos') = Made(pos) BY <1>1
<1>7. \A p \in Made(pos') : End(turn', p, FALSE, TRUE) \in handles'
  BY <1>1, <1>6 DEF HandlesInv
<1>8. ASSUME NEW h \in handles
      PROVE  IsLeaked(h)' \/ Kept(h)' \/ Own(h)'
  <2>1. CASE IsLeaked(h) BY <2>1 DEF IsLeaked
  <2>2. CASE Kept(h) BY <1>1, <1>2, <1>4, <2>2 DEF Kept
  <2>3. CASE Own(h)
    <3>1. turn' = turn BY <1>1, <2>3 DEF Own
    <3>2. pos' = Flag[h.pipe] <=> pos = Flag[h.pipe] BY <1>1, <1>2, <3>1
    <3> QED BY <1>6, <2>3, <3>1, <3>2 DEF Own
  <2> QED BY <2>1, <2>2, <2>3 DEF HandlesInv
<1> QED BY <1>5, <1>7, <1>8 DEF HandlesInv

\* CreatePipe adds two inheritable ends to those of the launch at hand.
LEMMA CreatePipeHandles ==
  ASSUME LaunchType, HandlesInv, NEW p \in Pipes, Goto(p, Flag[p]), UNCHANGED <<turn, leaked, released>>,
         handles' = handles \cup {End(turn, p, TRUE, TRUE), End(turn, p, FALSE, TRUE)}
  PROVE  HandlesInv'
<1>1. pos = p /\ pos' = Flag[p] /\ turn \in 1..Launches
  BY TurnFacts, PipeFacts DEF Goto
<1>2. Made(pos') = Made(pos) \cup {p} /\ p \notin Made(pos) BY <1>1, PipeFacts
<1>3. ASSUME NEW h \in handles'
      PROVE  IsLeaked(h)' \/ Kept(h)' \/ Own(h)'
  <2>1. CASE h \in handles
    <3>1. CASE IsLeaked(h) BY <3>1 DEF IsLeaked
    <3>2. CASE Kept(h) BY <3>2 DEF Kept
    <3>3. CASE Own(h)
      <4>1. h.pipe \in Pipes /\ h.pipe # p BY <1>2, <2>1, <3>3, EndFacts DEF Own
      <4>2. pos # Flag[h.pipe] /\ pos' # Flag[h.pipe] BY <1>1, <4>1, PipeFacts
      <4> QED BY <1>2, <3>3, <4>2 DEF Own
    <3> QED BY <2>1, <3>1, <3>2, <3>3 DEF HandlesInv
  <2>2. CASE \E m \in BOOLEAN : h = End(turn, p, m, TRUE)
    <3>1. h.launch = turn /\ h.pipe = p /\ h.inherit = TRUE BY <2>2 DEF End
    <3> QED BY <1>1, <1>2, <3>1 DEF Own
  <2> QED BY <2>1, <2>2
<1>4. \A q \in Made(pos') : End(turn', q, FALSE, TRUE) \in handles'
  BY <1>2 DEF HandlesInv
<1> QED BY <1>3, <1>4 DEF HandlesInv

\* The server's end is made not inheritable before anything else happens.
LEMMA KeepServerEndHandles ==
  ASSUME LaunchType, HandlesInv, NEW p \in Pipes, Goto(Flag[p], NextPipe[p]),
         UNCHANGED <<turn, leaked, released>>,
         handles' = (handles \ {End(turn, p, TRUE, TRUE)}) \cup {End(turn, p, TRUE, FALSE)}
  PROVE  HandlesInv'
<1>1. pos = Flag[p] /\ pos' = NextPipe[p] /\ turn \in 1..Launches
  BY TurnFacts, PipeFacts DEF Goto
<1>2. Made(pos') = Made(pos) /\ p \in Made(pos) BY <1>1, PipeFacts
<1>3. ASSUME NEW h \in handles'
      PROVE  IsLeaked(h)' \/ Kept(h)' \/ Own(h)'
  <2>1. CASE h \in handles /\ h # End(turn, p, TRUE, TRUE)
    <3>1. CASE IsLeaked(h) BY <3>1 DEF IsLeaked
    <3>2. CASE Kept(h) BY <3>2 DEF Kept
    <3>3. CASE Own(h)
      <4>1. /\ h = End(h.launch, h.pipe, h.mine, h.inherit) /\ h.pipe \in Pipes
            /\ h.mine \in BOOLEAN /\ h.inherit \in BOOLEAN
        BY <2>1, EndFacts
      <4>2. pos' # Flag[h.pipe] /\ (pos = Flag[h.pipe] <=> h.pipe = p)
        BY <1>1, <4>1, PipeFacts
      <4>3. h.inherit <=> ~h.mine
        <5>1. CASE h.pipe = p
          <6>1. h.inherit BY <3>3, <4>2, <5>1 DEF Own
          <6>2. ~h.mine BY <2>1, <3>3, <4>1, <5>1, <6>1 DEF Own
          <6> QED BY <6>1, <6>2
        <5>2. CASE h.pipe # p BY <3>3, <4>2, <5>2 DEF Own
        <5> QED BY <5>1, <5>2
      <4> QED BY <1>2, <3>3, <4>2, <4>3 DEF Own
    <3> QED BY <2>1, <3>1, <3>2, <3>3 DEF HandlesInv
  <2>2. CASE h = End(turn, p, TRUE, FALSE)
    <3>1. h.launch = turn /\ h.pipe = p /\ h.mine = TRUE /\ h.inherit = FALSE
      BY <2>2 DEF End
    <3>2. pos' # Flag[p] BY <1>1, PipeFacts
    <3> QED BY <1>2, <3>1, <3>2 DEF Own
  <2> QED BY <2>1, <2>2
<1>4. \A q \in Made(pos') : End(turn', q, FALSE, TRUE) \in handles'
  <2>1. \A q \in Pipes : End(turn, q, FALSE, TRUE) # End(turn, p, TRUE, TRUE)
    BY DEF End
  <2>2. Made(pos) \subseteq Pipes BY DEF Made, Pipes
  <2> QED BY <1>2, <2>1, <2>2 DEF HandlesInv
<1> QED BY <1>3, <1>4 DEF HandlesInv

\* Every step keeps account of the handles.
LEMMA HandlesNext ==
  ASSUME LaunchType, ProcessInv, HandlesInv, Next
  PROVE  HandlesInv'
<1>0. ReleasedInv BY ReleasedEarlier
<1>1. CASE InitializeFails \/ Usage
  <2>1. turn' = turn + 1 /\ pos = "main" /\ pos' = "main" /\ UNCHANGED <<handles, leaked, released>>
    BY <1>1 DEF InitializeFails, Usage, Goto, Tell
  <2> QED BY <2>1, SameHandles
<1>2. CASE Request
  <2>1. /\ UNCHANGED <<handles, leaked, released>> /\ pos = "main"
        /\ \/ turn' = turn /\ pos' = "job"
           \/ turn' = turn + 1 /\ pos' = "main"
    BY <1>2 DEF Request, Goto, Tell
  <2>2. Made("job") = Made("main") /\ \A p \in Pipes : "job" # Flag[p] /\ "main" # Flag[p]
    BY PipeFacts
  <2> QED BY <2>1, <2>2, SameHandles
<1>3. CASE CreateJob
  <2>1. CASE Goto("job", "stdout") /\ UNCHANGED <<turn, handles, leaked, released>>
    <3>1. /\ Made("job") = Made("stdout") /\ "stdout" \in Pipes
          /\ \A p \in Pipes : "job" # Flag[p] /\ "stdout" # Flag[p]
      BY PipeFacts DEF Pipes
    <3> QED BY <2>1, <3>1, SameHandles DEF Goto
  <2>2. CASE pos = "job" /\ Throw({}) /\ UNCHANGED released
    BY <1>0, <2>2, PipeFacts, ThrowHandles
  <2> QED BY <1>3, <2>1, <2>2 DEF CreateJob, OthersUnchanged
<1>4. CASE OpenToken
  <2>1. CASE Goto("token", "create") /\ UNCHANGED <<turn, handles, leaked, released>>
    <3>1. /\ Made("token") = Made("create")
          /\ \A p \in Pipes : "token" # Flag[p] /\ "create" # Flag[p]
      BY PipeFacts
    <3> QED BY <2>1, <3>1, SameHandles DEF Goto
  <2>2. CASE pos = "token" /\ Throw({}) /\ UNCHANGED released
    BY <1>0, <2>2, PipeFacts, ThrowHandles
  <2> QED BY <1>4, <2>1, <2>2 DEF OpenToken, OthersUnchanged
<1>5. ASSUME NEW p \in Pipes, CreatePipe(p) PROVE HandlesInv'
  <2>1. UNCHANGED released BY <1>5 DEF CreatePipe, OthersUnchanged
  <2>2. CASE pos = p /\ Throw({})
    BY <1>0, <2>1, <2>2, PipeFacts, ThrowHandles
  <2> QED BY <1>5, <2>1, <2>2, CreatePipeHandles DEF CreatePipe
<1>6. ASSUME NEW p \in Pipes, KeepServerEnd(p) PROVE HandlesInv'
  <2>1. UNCHANGED released BY <1>6 DEF KeepServerEnd, OthersUnchanged
  <2>2. CASE pos = Flag[p] /\ Throw({<<turn, p>>})
    BY <1>0, <2>1, <2>2, PipeFacts, ThrowHandles
  <2> QED BY <1>6, <2>1, <2>2, KeepServerEndHandles DEF KeepServerEnd
<1>7. CASE ChangeDirectory
  <2>1. pos = "create" /\ UNCHANGED released BY <1>7 DEF ChangeDirectory
  <2>2. CASE Throw({})
    BY <1>0, <2>1, <2>2, PipeFacts, ThrowHandles
  <2> QED BY <1>7, <2>1, <2>2, SameHandles DEF ChangeDirectory
<1>8. CASE CreateProcessFails
  BY <1>0, <1>8, ReturnHandles DEF CreateProcessFails, Goto, Tell
<1>9. CASE CreateProcess
  <2>1. /\ Made("create") = Made("assign")
        /\ \A p \in Pipes : "create" # Flag[p] /\ "assign" # Flag[p]
    BY PipeFacts
  <2> QED BY <1>9, <2>1, SameHandles DEF CreateProcess, Goto
<1>10. CASE AssignProcess
  <2>1. pos = "assign" /\ UNCHANGED released BY <1>10 DEF AssignProcess, Goto
  <2>2. CASE Throw({})
    BY <1>0, <2>1, <2>2, PipeFacts, ThrowHandles
  <2> QED BY <1>0, <1>10, <2>1, <2>2, ReturnHandles DEF AssignProcess, Goto, Tell
<1>11. CASE StartPreparation \/ \E n \in 1..Launches : ProcessEnds(n)
  BY <1>11, SameHandles DEF StartPreparation, ProcessEnds
<1>12. ASSUME NEW n \in 1..Launches, ReleaseExec(n) PROVE HandlesInv'
  <2>1. /\ pos = "main" /\ UNCHANGED <<turn, pos, leaked>> /\ released' = released \cup {n}
        /\ handles' = {h \in handles : h.launch # n \/ IsLeaked(h)} /\ n < turn
    BY <1>12 DEF ReleaseExec
  <2>2. Made("main") = {} BY PipeFacts
  <2>3. ASSUME NEW h \in handles' PROVE IsLeaked(h)' \/ Kept(h)'
    <3>1. CASE IsLeaked(h) BY <2>1, <3>1 DEF IsLeaked
    <3>2. CASE Kept(h) /\ ~IsLeaked(h)
      <4>1. h.launch # n BY <2>1, <3>2
      <4> QED BY <2>1, <3>2, <4>1 DEF Kept
    <3> QED BY <2>1, <2>2, <3>1, <3>2 DEF HandlesInv, Own
  <2> QED BY <2>1, <2>2, <2>3 DEF HandlesInv
<1> QED
  BY <1>1, <1>2, <1>3, <1>4, <1>5, <1>6, <1>7, <1>8, <1>9, <1>10, <1>11, <1>12 DEF Next

-----------------------------------------------------------------------------
(* The theorems.                                                           *)

LaunchInv == LaunchType /\ ProcessInv /\ HandlesInv

\* The inductive invariant and the property hold initially.
LEMMA LaunchInit == Init => LaunchInv /\ InheritsOwnEnds
<1> SUFFICES ASSUME Init PROVE LaunchInv /\ InheritsOwnEnds
  OBVIOUS
<1>1. TypeOK
  <2>1. NoProcess.state = "none" BY DEF NoProcess
  <2>2. Launches \in Nat BY LaunchAssumption
  <2> QED BY <2>1, <2>2 DEF Init, TypeOK
<1>2. LaunchType BY <1>1 DEF Init, LaunchType
<1>3. ProcessInv
  <2>1. NoProcess.state = "none" BY DEF NoProcess
  <2> QED BY <2>1 DEF Init, ProcessInv
<1>4. HandlesInv BY PipeFacts DEF Init, HandlesInv
<1>5. InheritsOwnEnds BY DEF Init, InheritsOwnEnds
<1> QED BY <1>2, <1>3, <1>4, <1>5 DEF LaunchInv

\* Every step keeps the inductive invariant.
LEMMA LaunchNext == LaunchInv /\ [Next]_vars => LaunchInv'
<1>1. LaunchInv /\ UNCHANGED vars => LaunchInv'
  <2> SUFFICES ASSUME LaunchInv, UNCHANGED vars PROVE LaunchInv'
    OBVIOUS
  <2>1. LaunchType' BY DEF LaunchInv, LaunchType, TypeOK, vars
  <2>2. ProcessInv' BY DEF LaunchInv, ProcessInv, vars
  <2>3. HandlesInv' BY DEF LaunchInv, HandlesInv, IsLeaked, Kept, Own, vars
  <2> QED BY <2>1, <2>2, <2>3 DEF LaunchInv
<1> QED BY <1>1, TypeNext, ProcessNext, HandlesNext DEF LaunchInv

\* Every reachable state satisfies the inductive invariant.
LEMMA LaunchInvariant == Spec => []LaunchInv
BY LaunchInit, LaunchNext, PTL DEF Spec

\* Every variable keeps its type, however many launches there are.
THEOREM TypeCorrect == Spec => []TypeOK
BY LaunchInvariant, PTL DEF LaunchInv, LaunchType

\* Whichever call of whichever launch fails: between two calls the server holds
\* only its own ends of pipes for clients that are still there, and what a failed
\* SetHandleInformation has leaked.
THEOREM HandlesCorrect == Spec => []HandlesAccounted
<1>1. LaunchInv => HandlesAccounted
  BY PipeFacts DEF LaunchInv, HandlesInv, Kept, Own, HandlesAccounted
<1> QED BY <1>1, LaunchInvariant, PTL

\* No process outlives its client, and no client that was told of a failure has
\* one, except the process that could not be assigned to its job.
THEOREM CleanupCorrect == Spec => []NothingLeft
<1>1. LaunchInv => NothingLeft
  <2> SUFFICES ASSUME LaunchInv, NEW n \in 1..Launches,
                      \/ n \in released
                      \/ result[n] \in {"failed", "refused", "usage", "terminated"},
                      process[n].state = "running"
               PROVE  Stray(n) /\ result[n] = "failed"
    BY DEF NothingLeft
  <2>1. n < turn
    <3>1. turn \in Nat /\ n \in Nat BY TurnFacts DEF LaunchInv
    <3> QED BY <3>1 DEF LaunchInv, ProcessInv
  <2>2. IF n \in assigned THEN result[n] = "started" /\ n \notin released
                          ELSE result[n] = "failed"
    BY <2>1 DEF LaunchInv, ProcessInv
  <2> QED BY <2>2 DEF Stray
<1> QED BY <1>1, LaunchInvariant, PTL

\* What is inheritable between two launches was leaked; when a process is created
\* its own three ends are inheritable besides.
LEMMA InheritableEnds ==
  ASSUME LaunchInv
  PROVE  /\ pos = "main" => Inherited \subseteq LeakedEnds
         /\ pos = "create" =>
              LET own == {End(turn, p, FALSE, TRUE) : p \in Pipes}
              IN  own \subseteq Inherited /\ Inherited \ own \subseteq LeakedEnds
<1>1. ASSUME NEW h \in Inherited, IsLeaked(h) PROVE h \in LeakedEnds
  <2> DEFINE q == <<h.launch, h.pipe>>
  <2>1. h = End(q[1], q[2], h.mine, TRUE) /\ h.mine \in BOOLEAN
    BY EndFacts DEF Inherited, LaunchInv
  <2>2. h \in BothEnds(q) BY <2>1 DEF BothEnds
  <2>3. q \in leaked BY <1>1 DEF IsLeaked
  <2> HIDE DEF q
  <2> QED BY <2>2, <2>3 DEF LeakedEnds
<1>2. ASSUME NEW h \in Inherited PROVE IsLeaked(h) \/ Own(h)
  BY DEF Inherited, LaunchInv, HandlesInv, Kept
<1>3. pos = "main" => Inherited \subseteq LeakedEnds
  BY <1>1, <1>2, PipeFacts DEF Own
<1>4. ASSUME pos = "create", NEW h \in Inherited, Own(h)
      PROVE  h \in {End(turn, p, FALSE, TRUE) : p \in Pipes}
  <2>1. /\ h = End(h.launch, h.pipe, h.mine, h.inherit) /\ h.pipe \in Pipes
        /\ h.mine \in BOOLEAN /\ h.inherit
    BY EndFacts DEF Inherited, LaunchInv
  <2>2. ~h.mine /\ h.launch = turn
    BY <1>4, <2>1, PipeFacts DEF Own
  <2>3. h = End(turn, h.pipe, FALSE, TRUE)
    <3>1. h.mine = FALSE /\ h.inherit = TRUE
      BY <1>4, <2>1, <2>2, EndFacts DEF Inherited, LaunchInv
    <3> QED BY <2>1, <2>2, <3>1
  <2> QED BY <2>1, <2>3
<1>5. ASSUME pos = "create", NEW p \in Pipes PROVE End(turn, p, FALSE, TRUE) \in Inherited
  <2>1. End(turn, p, FALSE, TRUE).inherit BY DEF End
  <2> QED BY <1>5, <2>1, PipeFacts DEF LaunchInv, HandlesInv, Inherited
<1> QED BY <1>1, <1>2, <1>3, <1>4, <1>5

\* What has been leaked stays leaked.
LEMMA LeakedGrows == Next => LeakedEnds \subseteq LeakedEnds'
<1>1. Next => leaked \subseteq leaked'
  BY DEF Next, InitializeFails, Usage, Request, CreateJob, OpenToken, CreatePipe, KeepServerEnd,
     ChangeDirectory, CreateProcess, CreateProcessFails, AssignProcess, StartPreparation,
     ReleaseExec, ProcessEnds, OthersUnchanged, Throw
<1> QED BY <1>1 DEF LeakedEnds

\* Every step keeps what the processes have inherited.
LEMMA InheritsNext ==
  ASSUME LaunchInv, InheritsOwnEnds, Next
  PROVE  InheritsOwnEnds'
<1> DEFINE Ends3(n) == {End(n, p, FALSE, TRUE) : p \in Pipes}
<1> USE DEF LaunchInv
<1>1. LeakedEnds \subseteq LeakedEnds' BY LeakedGrows
<1>2. preparer' \subseteq LeakedEnds'
  <2>1. preparer' = preparer \/ (pos = "main" /\ preparer' = preparer \cup Inherited)
    BY DEF Next, InitializeFails, Usage, Request, CreateJob, OpenToken, CreatePipe, KeepServerEnd,
       ChangeDirectory, CreateProcess, CreateProcessFails, AssignProcess, StartPreparation,
       ReleaseExec, ProcessEnds, OthersUnchanged
  <2> QED BY <1>1, <2>1, InheritableEnds DEF InheritsOwnEnds
<1>3. ASSUME NEW n \in 1..Launches, process'[n] # NoProcess
      PROVE  Ends3(n) \subseteq process'[n].inherits /\ process'[n].inherits \ Ends3(n) \subseteq LeakedEnds'
  <2>1. CASE process[n] # NoProcess /\ process'[n].inherits = process[n].inherits
    BY <1>1, <2>1 DEF InheritsOwnEnds
  <2>2. CASE CreateProcess /\ n = turn
    <3>1. process'[n].inherits = Inherited /\ pos = "create" BY <2>2, CreatedProcess
    <3> QED BY <1>1, <2>2, <3>1, InheritableEnds
  <2>3. CASE CreateProcess /\ n # turn
    BY <1>3, <2>1, <2>3, CreatedProcess
  <2>4. CASE ~CreateProcess
    BY <1>3, <2>1, <2>4, ProcessSteps, EndedProcess
  <2> QED BY <2>2, <2>3, <2>4
<1> QED BY <1>2, <1>3 DEF InheritsOwnEnds

\* A process inherits its own ends of its own pipes and nothing of anybody else but
\* what was leaked, whatever launches there were before, and whatever they left.
THEOREM InheritanceCorrect == Spec => []InheritsOwnEnds
<1>1. LaunchInv /\ InheritsOwnEnds /\ [Next]_vars => InheritsOwnEnds'
  <2>1. InheritsOwnEnds /\ UNCHANGED vars => InheritsOwnEnds'
    BY DEF InheritsOwnEnds, LeakedEnds, vars
  <2> QED BY <2>1, InheritsNext
<1> QED BY <1>1, LaunchInit, LaunchInvariant, PTL DEF Spec

-----------------------------------------------------------------------------
(* The command line: what is quoted is taken apart again.                  *)

Symbols == STRING \cup {Blank, Quote, Backslash, NUL}
Texts == Seq(Symbols)

\* From one state of the parser to another, over a text.
Parses(a, s, b) ==
  \E f : /\ f = [i \in 0..Len(s) |-> f[i]] /\ f[0] = a /\ f[Len(s)] = b
         /\ \A i \in 1..Len(s) : f[i] = ParseChar(f[i - 1], s[i])

\* Nothing is parsed.
LEMMA ParsesNothing == \A a : Parses(a, <<>>, a)
<1> TAKE a
<1> DEFINE f == [i \in 0..0 |-> a]
<1>1. Len(<<>>) = 0 OBVIOUS
<1>2. f = [i \in 0..0 |-> f[i]] /\ f[0] = a OBVIOUS
<1> HIDE DEF f
<1> QED BY <1>1, <1>2 DEF Parses

\* One character.
LEMMA ParsesOne == ASSUME NEW a, NEW c PROVE Parses(a, <<c>>, ParseChar(a, c))
<1> DEFINE s == <<c>>
           b == ParseChar(a, c)
           f == [i \in 0..1 |-> IF i = 0 THEN a ELSE b]
<1>1. Len(s) = 1 /\ s[1] = c OBVIOUS
<1>2. f = [i \in 0..1 |-> f[i]] /\ f[0] = a /\ f[1] = b OBVIOUS
<1>3. \A i \in 1..1 : i = 1 /\ i - 1 = 0 OBVIOUS
<1> HIDE DEF f, s
<1>4. \A i \in 1..Len(s) : f[i] = ParseChar(f[i - 1], s[i]) BY <1>1, <1>2, <1>3
<1>5. Parses(a, s, b) BY <1>1, <1>2, <1>4 DEF Parses
<1> QED BY <1>5 DEF s

\* One text after another.
LEMMA ParsesMore ==
  ASSUME NEW s \in Texts, NEW t \in Texts, NEW a, NEW b, NEW c, Parses(a, s, b), Parses(b, t, c)
  PROVE  Parses(a, s \o t, c)
<1> DEFINE m == Len(s)
           n == Len(t)
           st == s \o t
<1>1. /\ m \in Nat /\ n \in Nat /\ Len(st) = m + n
      /\ \A i \in 1..m : st[i] = s[i]
      /\ \A i \in m + 1 .. m + n : st[i] = t[i - m]
  BY LenProperties, ConcatProperties DEF Texts
<1>2. PICK f : f = [i \in 0..m |-> f[i]] /\ f[0] = a /\ f[m] = b
               /\ \A i \in 1..m : f[i] = ParseChar(f[i - 1], s[i])
  BY DEF Parses
<1>3. PICK g : g = [i \in 0..n |-> g[i]] /\ g[0] = b /\ g[n] = c
               /\ \A i \in 1..n : g[i] = ParseChar(g[i - 1], t[i])
  BY DEF Parses
<1> DEFINE h == [i \in 0..(m + n) |-> IF i <= m THEN f[i] ELSE g[i - m]]
<1> HIDE DEF m, n, st
<1>4. h = [i \in 0..(m + n) |-> h[i]] /\ \A i \in 0..m : h[i] = f[i] BY <1>1
<1>5. \A i \in m..(m + n) : h[i] = g[i - m]
  <2> TAKE i \in m..(m + n)
  <2>1. CASE i = m BY <1>1, <1>2, <1>3, <2>1
  <2>2. CASE i # m
    <3>1. i \in 0..(m + n) /\ ~(i <= m) BY <1>1, <2>2
    <3> QED BY <3>1
  <2> QED BY <2>1, <2>2
<1> HIDE DEF h
<1>6. ASSUME NEW i \in 1..(m + n) PROVE h[i] = ParseChar(h[i - 1], st[i])
  <2>1. CASE i \in 1..m
    <3>1. i \in 0..m /\ i - 1 \in 0..m BY <1>1, <2>1
    <3> QED BY <1>1, <1>2, <1>4, <2>1, <3>1
  <2>2. CASE i \in m + 1 .. m + n
    <3>1. i \in m..(m + n) /\ i - 1 \in m..(m + n) /\ i - m \in 1..n /\ (i - 1) - m = (i - m) - 1
      BY <1>1, <2>2
    <3>2. h[i] = g[i - m] /\ h[i - 1] = g[(i - m) - 1] BY <1>5, <3>1
    <3> QED BY <1>1, <1>3, <2>2, <3>1, <3>2
  <2>3. i \in 1..m \/ i \in m + 1 .. m + n BY <1>1
  <2> QED BY <2>1, <2>2, <2>3
<1>7. h[0] = a /\ h[m + n] = c
  <2>1. 0 \in 0..m /\ m + n \in m..(m + n) /\ (m + n) - m = n BY <1>1
  <2> QED BY <1>2, <1>3, <1>4, <1>5, <2>1
<1>8. Parses(a, st, c)
  <2>1. h = [i \in 0..Len(st) |-> h[i]] /\ h[0] = a /\ h[Len(st)] = c BY <1>1, <1>4, <1>7
  <2>2. \A i \in 1..Len(st) : h[i] = ParseChar(h[i - 1], st[i]) BY <1>1, <1>6
  <2> QED BY <2>1, <2>2 DEF Parses
<1> QED BY <1>8 DEF st

\* The arguments of a process are those of the state that its line leads to.
LEMMA ParsedLine ==
  ASSUME NEW line \in Texts, NEW b, Parses(Between(<<>>), Append(line, Blank), b)
  PROVE  ParseCommandLine(line) = b.args
<1> DEFINE text == Append(line, Blank)
           n == Len(text)
           F(f) == [i \in 0..n |-> IF i = 0 THEN Between(<<>>) ELSE ParseChar(f[i - 1], text[i])]
           P(f) == f = F(f)
           h == CHOOSE f : P(f)
<1>1. ParseCommandLine(line) = h[n].args BY DEF ParseCommandLine
<1>2. n \in Nat BY LenProperties, AppendProperties DEF Texts
<1>3. PICK g : g = [i \in 0..n |-> g[i]] /\ g[0] = Between(<<>>) /\ g[n] = b
               /\ \A i \in 1..n : g[i] = ParseChar(g[i - 1], text[i])
  BY DEF Parses
<1> HIDE DEF text, n
<1>4. P(g)
  <2>1. \A i \in 0..n : g[i] = F(g)[i]
    <3> TAKE i \in 0..n
    <3>1. CASE i = 0 BY <1>3, <3>1
    <3>2. CASE i # 0
      <4>1. i \in 1..n BY <1>2, <3>2
      <4> QED BY <1>3, <3>2, <4>1
    <3> QED BY <3>1, <3>2
  <2>2. F(g) = [i \in 0..n |-> F(g)[i]] OBVIOUS
  <2> HIDE DEF F
  <2> QED BY <1>3, <2>1, <2>2
<1>5. P(h)
  <2> HIDE DEF P
  <2> QED BY <1>4
<1> HIDE DEF h
<1> DEFINE T == {i \in Nat : i <= n => h[i] = g[i]}
<1>6. 0 \in T
  <2>1. 0 \in 0..n BY <1>2
  <2>2. h[0] = Between(<<>>) BY <1>5, <2>1
  <2> QED BY <1>3, <2>2
<1>7. \A i \in Nat : i \in T => i + 1 \in T
  <2> SUFFICES ASSUME NEW i \in Nat, i \in T, i + 1 <= n PROVE h[i + 1] = g[i + 1]
    OBVIOUS
  <2>1. i + 1 \in 0..n /\ i + 1 # 0 /\ (i + 1) - 1 = i /\ i + 1 \in 1..n /\ i <= n BY <1>2
  <2>2. h[i + 1] = ParseChar(h[i], text[i + 1]) BY <1>5, <2>1
  <2>3. g[i + 1] = ParseChar(g[i], text[i + 1]) BY <1>3, <2>1
  <2> QED BY <2>1, <2>2, <2>3
<1> HIDE DEF T
<1>8. Nat \subseteq T BY <1>6, <1>7, SetInduction
<1>9. h[n] = g[n] BY <1>2, <1>8 DEF T
<1> QED BY <1>1, <1>3, <1>9

\* Within quotes, and after them.
In(A, word, k) == [args |-> A, word |-> word, slashes |-> k, in |-> TRUE, quoted |-> TRUE]
After(A, word) == [args |-> A, word |-> word, slashes |-> 0, in |-> TRUE, quoted |-> FALSE]

\* A number of backslashes.
LEMMA BackslashesFacts ==
  /\ Backslashes(0) = <<>>
  /\ \A k \in Nat : Backslashes(k) \in Texts /\ Backslashes(k + 1) = Append(Backslashes(k), Backslash)
<1>1. Backslashes(0) = <<>> BY DEF Backslashes
<1>2. ASSUME NEW k \in Nat PROVE Backslashes(k) \in Texts /\ Len(Backslashes(k)) = k
  <2>1. Backslashes(k) \in [1..k -> Symbols] BY DEF Backslashes, Symbols
  <2>2. Backslashes(k) \in Seq(Symbols) BY <2>1, SeqDef
  <2> QED BY <2>1, <2>2, LenProperties DEF Texts
<1>3. ASSUME NEW k \in Nat PROVE Backslashes(k + 1) = Append(Backslashes(k), Backslash)
  <2> DEFINE a == Backslashes(k)
             b == Backslashes(k + 1)
  <2>1. a \in Texts /\ Len(a) = k /\ b \in Texts /\ Len(b) = k + 1 BY <1>2
  <2>2. (\A i \in 1..k : a[i] = Backslash) /\ \A i \in 1..(k + 1) : b[i] = Backslash
    BY DEF Backslashes
  <2> HIDE DEF a, b
  <2>3. Backslash \in Symbols BY DEF Symbols
  <2>4. Append(a, Backslash) \in Seq(Symbols) /\ Len(Append(a, Backslash)) = k + 1
        /\ \A i \in 1..(k + 1) : Append(a, Backslash)[i] = Backslash
    BY <2>1, <2>2, <2>3, AppendProperties DEF Texts
  <2>5. b = Append(a, Backslash) BY <2>1, <2>2, <2>4, SeqEqual DEF Texts
  <2> QED BY <2>5 DEF a, b
<1> QED BY <1>1, <1>2, <1>3

\* What the parser does with a character.
LEMMA ParseCharCases ==
  ASSUME NEW A, NEW word \in Texts, NEW k \in Nat
  PROVE  /\ ParseChar(Between(A), Blank) = Between(A)
         /\ ParseChar(Between(A), Quote) = In(A, <<>>, 0)
         /\ ParseChar(In(A, word, 0), Quote) = After(A, word)
         /\ ParseChar(After(A, word), Blank) = Between(Append(A, word))
         /\ A # <<>> => ParseChar(In(A, word, k), Backslash) = In(A, word, k + 1)
<1>1. 0 \div 2 = 0 /\ 0 % 2 = 0 OBVIOUS
<1>2. word \o <<>> = word /\ <<>> \o <<>> = <<>> BY ConcatEmptySeq, EmptySeq DEF Texts
<1>3. Backslashes(0) = <<>> BY BackslashesFacts
<1>4. Quote # Backslash /\ Quote # Blank /\ Blank # Backslash BY DEF Quote, Backslash, Blank
<1> HIDE DEF Texts
<1>5. ParseChar(Between(A), Blank) = Between(A)
  BY <1>4 DEF ParseChar, Between
<1> DEFINE half == Backslashes(0 \div 2)
           tail == IF 0 % 2 = 1 THEN <<Quote>> ELSE <<>>
<1>6. ParseChar(Between(A), Quote) = In(A, <<>>, 0)
  <2> DEFINE r == Between(A)
             u == IF 0 % 2 = 1 THEN r.quoted ELSE ~r.quoted
  <2>1. ParseChar(r, Quote) =
          [r EXCEPT !.word = @ \o half \o tail, !.slashes = 0, !.in = TRUE,
                    !.quoted = IF 0 % 2 = 1 THEN @ ELSE ~@]
    BY <1>4 DEF ParseChar, Between
  <2>2. r.word = <<>> BY DEF Between
  <2>3. u = TRUE BY <1>1 DEF Between
  <2>4. half = <<>> /\ tail = <<>> BY <1>1, <1>3
  <2> HIDE DEF r, half, tail
  <2>5. ParseChar(r, Quote) =
          [r EXCEPT !.word = (@ \o half) \o tail, !.slashes = 0, !.in = TRUE, !.quoted = u]
    BY <2>1
  <2> HIDE DEF u
  <2>6. (r.word \o half) \o tail = <<>> BY <1>2, <2>2, <2>4
  <2>7. ParseChar(r, Quote) = [r EXCEPT !.word = <<>>, !.slashes = 0, !.in = TRUE, !.quoted = TRUE]
    BY <2>3, <2>5, <2>6
  <2> QED BY <2>7 DEF r, In, Between
<1>7. ParseChar(In(A, word, 0), Quote) = After(A, word)
  <2> DEFINE r == In(A, word, 0)
             u == IF 0 % 2 = 1 THEN r.quoted ELSE ~r.quoted
  <2>1. ParseChar(r, Quote) =
          [r EXCEPT !.word = @ \o half \o tail, !.slashes = 0, !.in = TRUE,
                    !.quoted = IF 0 % 2 = 1 THEN @ ELSE ~@]
    BY <1>4 DEF ParseChar, In
  <2>2. r.word = word BY DEF In
  <2>3. u = FALSE BY <1>1 DEF In
  <2>4. half = <<>> /\ tail = <<>> BY <1>1, <1>3
  <2> HIDE DEF r, half, tail
  <2>5. ParseChar(r, Quote) =
          [r EXCEPT !.word = (@ \o half) \o tail, !.slashes = 0, !.in = TRUE, !.quoted = u]
    BY <2>1
  <2> HIDE DEF u
  <2>6. (r.word \o half) \o tail = word BY <1>2, <2>2, <2>4
  <2>7. ParseChar(r, Quote) = [r EXCEPT !.word = word, !.slashes = 0, !.in = TRUE, !.quoted = FALSE]
    BY <2>3, <2>5, <2>6
  <2> QED BY <2>7 DEF r, In, After
<1> HIDE DEF half, tail
<1>8. ParseChar(After(A, word), Blank) = Between(Append(A, word))
  BY <1>2, <1>3, <1>4 DEF ParseChar, After
<1>9. A # <<>> => ParseChar(In(A, word, k), Backslash) = In(A, word, k + 1)
  BY <1>4 DEF ParseChar, In
<1> QED BY <1>5, <1>6, <1>7, <1>8, <1>9

\* A character without a meaning of its own follows the backslashes that waited.
LEMMA ParseCharOther ==
  \A A, word, k, c : c # Quote /\ (c = Backslash => A = <<>>) =>
    ParseChar(In(A, word, k), c) = In(A, Append(word \o Backslashes(k), c), 0)
<1> TAKE A, word, k, c
<1> HAVE c # Quote /\ (c = Backslash => A = <<>>)
<1>1. Quote # Backslash /\ Quote # Blank /\ Blank # Backslash BY DEF Quote, Backslash, Blank
<1> QED BY <1>1 DEF ParseChar, In

\* What has been read of a word, and the backslashes that wait for what follows.
Held(b, A, s) ==
  \E word \in Texts, k \in Nat :
    /\ b = In(A, word, k) /\ word \o Backslashes(k) = s
    /\ k > 0 => A # <<>> /\ s # <<>> /\ s[Len(s)] = Backslash

\* One more character within quotes.
LEMMA HeldMore ==
  ASSUME NEW A, NEW s \in Texts, NEW b, Held(b, A, s), NEW c \in Symbols, c # Quote
  PROVE  Held(ParseChar(b, c), A, Append(s, c))
<1>1. PICK word \in Texts, k \in Nat : b = In(A, word, k) /\ word \o Backslashes(k) = s
  BY DEF Held
<1> DEFINE t == Append(s, c)
<1>2. t \in Texts /\ t # <<>> /\ t[Len(t)] = c
  BY AppendProperties, LenProperties DEF Texts
<1>3. CASE c = Backslash /\ A # <<>>
  <2>1. ParseChar(b, c) = In(A, word, k + 1) BY <1>1, <1>3, ParseCharCases
  <2>2. word \o Backslashes(k + 1) = t
    <3> DEFINE m == Backslashes(k)
               one == <<Backslash>>
    <3>1. m \in Seq(Symbols) /\ one \in Seq(Symbols) /\ word \in Seq(Symbols)
      <4>1. m \in Seq(Symbols)
        <5>1. \A n \in Nat : Backslashes(n) \in Texts BY BackslashesFacts
        <5> QED BY <5>1 DEF Texts
      <4>2. Backslash \in Symbols BY DEF Symbols
      <4>3. one \in Seq(Symbols) BY <4>2
      <4> QED BY <4>1, <4>3 DEF Texts
    <3>2. Backslashes(k + 1) = Cat(m, one)
      <4>1. Backslashes(k + 1) = Append(m, Backslash) BY BackslashesFacts
      <4>2. Backslash \in Symbols BY DEF Symbols
      <4> HIDE DEF m
      <4> QED BY <3>1, <4>1, <4>2, AppendIsConcat DEF Cat
    <3>3. t = Cat(Cat(word, m), one) BY <1>1, <1>3, <3>1, AppendIsConcat DEF Cat, Texts
    <3> HIDE DEF m, one
    <3>4. Cat(Cat(word, m), one) = Cat(word, Cat(m, one)) BY <3>1, CatAssociative
    <3> QED BY <3>2, <3>3, <3>4 DEF Cat
  <2>3. k + 1 \in Nat /\ (k + 1 > 0 => A # <<>> /\ t # <<>> /\ t[Len(t)] = Backslash)
    BY <1>2, <1>3
  <2> HIDE DEF t
  <2>4. Held(ParseChar(b, c), A, t) BY <2>1, <2>2, <2>3 DEF Held
  <2> QED BY <2>4 DEF t
<1>4. CASE ~(c = Backslash /\ A # <<>>)
  <2> DEFINE new == Append(word \o Backslashes(k), c)
  <2>1. ParseChar(b, c) = In(A, new, 0)
    <3>1. c # Quote /\ (c = Backslash => A = <<>>) BY <1>4
    <3> HIDE DEF t
    <3>2. ParseChar(In(A, word, k), c) = In(A, new, 0) BY <3>1, ParseCharOther
    <3> QED BY <1>1, <3>2
  <2>2. new = t BY <1>1
  <2>3. t \o Backslashes(0) = t BY <1>2, BackslashesFacts, ConcatEmptySeq DEF Texts
  <2> HIDE DEF new, t
  <2>4. Held(ParseChar(b, c), A, t) BY <1>2, <2>1, <2>2, <2>3 DEF Held
  <2> QED BY <2>4 DEF t
<1> QED BY <1>3, <1>4

\* A word without quotes is read between quotes.
LEMMA ParsesWord ==
  ASSUME NEW A, NEW s \in Texts, \A i \in 1..Len(s) : s[i] # Quote
  PROVE  \E b : Held(b, A, s) /\ Parses(In(A, <<>>, 0), s, b)
<1> DEFINE Good(q) == \E b : Held(b, A, q) /\ Parses(In(A, <<>>, 0), q, b)
           T == {n \in Nat : \A q \in Texts : Len(q) = n /\ (\A i \in 1..n : q[i] # Quote) => Good(q)}
<1>1. 0 \in T
  <2> SUFFICES ASSUME NEW q \in Texts, Len(q) = 0 PROVE Good(q) OBVIOUS
  <2> DEFINE b == In(A, <<>>, 0)
  <2>1. q = <<>> /\ <<>> \in Texts BY EmptySeq DEF Texts
  <2>2. <<>> \o Backslashes(0) = <<>> BY BackslashesFacts, ConcatEmptySeq, EmptySeq
  <2>3. Held(b, A, <<>>) BY <2>1, <2>2 DEF Held
  <2>4. Parses(b, <<>>, b) BY ParsesNothing
  <2> QED BY <2>1, <2>3, <2>4
<1>2. ASSUME NEW n \in Nat, n \in T PROVE n + 1 \in T
  <2> SUFFICES ASSUME NEW q \in Texts, Len(q) = n + 1, \A i \in 1..(n + 1) : q[i] # Quote
               PROVE  Good(q)
    OBVIOUS
  <2>1. PICK front \in Texts :
          /\ Len(front) = n /\ \A i \in 1..n : front[i] = q[i]
          /\ q[n + 1] \in Symbols /\ q = Append(front, q[n + 1])
    BY FrontLast DEF Texts
  <2> DEFINE c == q[n + 1]
  <2>2. \A i \in 1..n : front[i] # Quote BY <2>1
  <2>3. PICK b : Held(b, A, front) /\ Parses(In(A, <<>>, 0), front, b) BY <1>2, <2>1, <2>2
  <2>4. c # Quote /\ c \in Symbols BY <2>1
  <2> HIDE DEF c, Good, T
  <2>5. Held(ParseChar(b, c), A, Append(front, c)) BY <2>3, <2>4, HeldMore
  <2>6. Parses(b, <<c>>, ParseChar(b, c)) BY ParsesOne
  <2>7. <<c>> \in Texts /\ front \o <<c>> = Append(front, c)
    BY <2>4, AppendIsConcat DEF Texts
  <2>8. Parses(In(A, <<>>, 0), Append(front, c), ParseChar(b, c))
    <3>1. Parses(In(A, <<>>, 0), front \o <<c>>, ParseChar(b, c)) BY <2>3, <2>6, <2>7, ParsesMore
    <3> QED BY <2>7, <3>1
  <2>9. q = Append(front, c) BY <2>1 DEF c
  <2> QED BY <2>5, <2>8, <2>9 DEF Good
<1> HIDE DEF T
<1>3. Nat \subseteq T BY <1>1, <1>2, SetInduction
<1>4. Len(s) \in T BY <1>3, LenProperties DEF Texts
<1> QED BY <1>4 DEF T

\* An argument in quotes.
LEMMA ParsesArgument ==
  ASSUME NEW A, NEW s \in Texts, \A i \in 1..Len(s) : s[i] # Quote,
         A # <<>> /\ s # <<>> => s[Len(s)] # Backslash
  PROVE  Parses(Between(A), <<Quote>> \o s \o <<Quote>>, After(A, s))
<1> DEFINE q == <<Quote>>
<1>1. q \in Texts BY DEF Texts, Symbols
<1>2. PICK b : Held(b, A, s) /\ Parses(In(A, <<>>, 0), s, b) BY ParsesWord
<1>3. PICK word \in Texts, k \in Nat :
        /\ b = In(A, word, k) /\ word \o Backslashes(k) = s
        /\ k > 0 => A # <<>> /\ s # <<>> /\ s[Len(s)] = Backslash
  BY <1>2 DEF Held
<1>4. k = 0 BY <1>3
<1>5. word = s BY <1>3, <1>4, BackslashesFacts, ConcatEmptySeq DEF Texts
<1>6. Parses(Between(A), q, In(A, <<>>, 0))
  <2>1. <<>> \in Texts /\ 0 \in Nat BY EmptySeq DEF Texts
  <2>2. ParseChar(Between(A), Quote) = In(A, <<>>, 0) BY <2>1, ParseCharCases
  <2> QED BY <2>2, ParsesOne
<1>7. Parses(b, q, After(A, s))
  <2>1. ParseChar(In(A, s, 0), Quote) = After(A, s) BY ParseCharCases
  <2> QED BY <1>3, <1>4, <1>5, <2>1, ParsesOne
<1> HIDE DEF q
<1>8. Parses(Between(A), q \o s, b) BY <1>1, <1>2, <1>6, ParsesMore
<1>9. q \o s \in Texts BY <1>1, ConcatProperties DEF Texts
<1>10. Parses(Between(A), (q \o s) \o q, After(A, s)) BY <1>1, <1>7, <1>8, <1>9, ParsesMore
<1> QED BY <1>10 DEF q

Separator(n) == IF n > 0 THEN <<Blank>> ELSE <<>>

\* The line for one more argument.
LEMMA CommandLineMore ==
  ASSUME NEW front \in Seq(Texts), NEW s \in Texts
  PROVE  /\ CommandLine(front) \in Texts
         /\ CommandLine(Append(front, s))
              = CommandLine(front) \o (Separator(Len(front)) \o <<Quote>> \o s \o <<Quote>>)
<1> DEFINE Piece(i, a) == (IF i > 1 THEN <<Blank>> ELSE <<>>) \o <<Quote>> \o a \o <<Quote>>
           n == Len(front)
           all == Append(front, s)
           pieces == [i \in DOMAIN front |-> Piece(i, front[i])]
<1>1. n \in Nat /\ DOMAIN front = 1..n /\ (\A i \in 1..n : front[i] \in Texts)
      /\ DOMAIN all = 1..(n + 1) /\ (\A i \in 1..n : all[i] = front[i]) /\ all[n + 1] = s
  BY LenProperties, ElementOfSeq, AppendProperties
<1>2. ASSUME NEW i, NEW a \in Texts PROVE Piece(i, a) \in Seq(Symbols)
  <2>1. <<Blank>> \in Seq(Symbols) /\ <<>> \in Seq(Symbols) /\ <<Quote>> \in Seq(Symbols)
    BY EmptySeq DEF Symbols
  <2> DEFINE x == IF i > 1 THEN <<Blank>> ELSE <<>>
             q == <<Quote>>
  <2>2. x \in Seq(Symbols) /\ q \in Seq(Symbols) /\ a \in Seq(Symbols) BY <2>1 DEF Texts
  <2> HIDE DEF x, q
  <2>3. (x \o q) \in Seq(Symbols) BY <2>2, ConcatProperties
  <2>4. (x \o q) \o a \in Seq(Symbols) BY <2>2, <2>3, ConcatProperties
  <2>5. ((x \o q) \o a) \o q \in Seq(Symbols) BY <2>2, <2>4, ConcatProperties
  <2> QED BY <2>5 DEF x, q
<1>3. CommandLine(front) = FlattenSeq(pieces) BY DEF CommandLine
<1>4. CommandLine(all) = FlattenSeq([i \in DOMAIN all |-> Piece(i, all[i])]) BY DEF CommandLine
<1>5. Piece(n + 1, s) = Separator(n) \o <<Quote>> \o s \o <<Quote>>
  <2>1. n + 1 > 1 <=> n > 0 BY <1>1
  <2> QED BY <2>1 DEF Separator
<1> HIDE DEF Piece, n, all
<1>6. pieces \in Queues(Symbols) /\ Len(pieces) = n
  <2>1. pieces \in [1..n -> Seq(Symbols)] BY <1>1, <1>2
  <2> QED BY <1>1, <2>1, SeqDef, LenProperties DEF Queues
<1>7. [i \in DOMAIN all |-> Piece(i, all[i])] = Append(pieces, Piece(n + 1, s))
  <2> DEFINE a == [i \in DOMAIN all |-> Piece(i, all[i])]
             b == Append(pieces, Piece(n + 1, s))
  <2>1. Piece(n + 1, s) \in Seq(Symbols) BY <1>2
  <2>2. a \in Seq(Seq(Symbols)) /\ Len(a) = n + 1
    <3>1. \A i \in 1..(n + 1) : all[i] \in Texts
      <4> TAKE i \in 1..(n + 1)
      <4>1. i \in 1..n \/ i = n + 1 BY <1>1
      <4> QED BY <1>1, <4>1
    <3>2. a \in [1..(n + 1) -> Seq(Symbols)] BY <1>1, <1>2, <3>1
    <3>3. n + 1 \in Nat BY <1>1
    <3> HIDE DEF a
    <3> QED BY <3>2, <3>3, SeqDef, LenProperties
  <2>3. b \in Seq(Seq(Symbols)) /\ Len(b) = n + 1
        /\ (\A i \in 1..n : b[i] = pieces[i]) /\ b[n + 1] = Piece(n + 1, s)
    BY <1>6, <2>1, AppendProperties DEF Queues
  <2>4. \A i \in 1..(n + 1) : a[i] = b[i]
    <3> TAKE i \in 1..(n + 1)
    <3>1. CASE i \in 1..n BY <1>1, <2>3, <3>1
    <3>2. CASE i = n + 1 BY <1>1, <2>3, <3>2
    <3>3. i \in 1..n \/ i = n + 1 BY <1>1
    <3> QED BY <3>1, <3>2, <3>3
  <2> HIDE DEF a, b
  <2>5. a = b BY <2>2, <2>3, <2>4, SeqEqual
  <2> QED BY <2>5 DEF a, b
<1> HIDE DEF pieces
<1>8. Piece(n + 1, s) \in Seq(Symbols) BY <1>2
<1>9. CommandLine(all) = FlattenSeq(pieces) \o Piece(n + 1, s) BY <1>4, <1>6, <1>7, <1>8, FlattenAppend
<1>10. CommandLine(front) \in Texts BY <1>3, <1>6, FlattenType DEF Texts
<1> QED BY <1>3, <1>5, <1>9, <1>10 DEF all, n

\* No argument, no line.
LEMMA NoArguments == CommandLine(<<>>) = <<>>
<1> DEFINE pieces == [i \in DOMAIN <<>> |->
             (IF i > 1 THEN <<Blank>> ELSE <<>>) \o <<Quote>> \o (<<>>)[i] \o <<Quote>>]
<1>1. CommandLine(<<>>) = FlattenSeq(pieces) BY DEF CommandLine
<1>2. pieces = <<>>
  <2>1. DOMAIN <<>> = {} OBVIOUS
  <2> QED BY <2>1
<1> QED BY <1>1, <1>2, FlattenEmpty

\* What is put into one line comes out of it one by one.
LEMMA ParsesArguments ==
  \A args \in Seq(Texts) : Safe(args) =>
    Parses(Between(<<>>), Append(CommandLine(args), Blank), Between(args))
<1> DEFINE Good(args) == Parses(Between(<<>>), CommandLine(args) \o <<Blank>>, Between(args))
           T == {n \in Nat : \A args \in Seq(Texts) : Len(args) = n /\ Safe(args) => Good(args)}
           blank == <<Blank>>
           quote == <<Quote>>
<1>0. blank \in Texts /\ quote \in Texts /\ <<>> \in Texts BY EmptySeq DEF Texts, Symbols
<1>1. 0 \in T
  <2> SUFFICES ASSUME NEW args \in Seq(Texts), Len(args) = 0 PROVE Good(args) OBVIOUS
  <2>1. args = <<>> BY EmptySeq
  <2>2. CommandLine(<<>>) = <<>> BY NoArguments
  <2>3. <<>> \o blank = blank BY <1>0, ConcatEmptySeq DEF Texts
  <2>4. ParseChar(Between(<<>>), Blank) = Between(<<>>)
    <3>1. 0 \in Nat OBVIOUS
    <3> QED BY <1>0, <3>1, ParseCharCases
  <2>5. Parses(Between(<<>>), blank, Between(<<>>)) BY <2>4, ParsesOne
  <2> QED BY <2>1, <2>2, <2>3, <2>5
<1>2. ASSUME NEW n \in Nat, n \in T PROVE n + 1 \in T
  <2> SUFFICES ASSUME NEW args \in Seq(Texts), Len(args) = n + 1, Safe(args) PROVE Good(args)
    OBVIOUS
  <2>1. PICK front \in Seq(Texts) :
          /\ Len(front) = n /\ \A i \in 1..n : front[i] = args[i]
          /\ args[n + 1] \in Texts /\ args = Append(front, args[n + 1])
    BY FrontLast
  <2> DEFINE s == args[n + 1]
             line == CommandLine(front)
             sep == Separator(n)
             word == quote \o s \o quote
  <2>2. /\ DOMAIN args = 1..(n + 1) /\ DOMAIN front = 1..n /\ n + 1 \in 1..(n + 1)
        /\ 1..n \subseteq 1..(n + 1) /\ (n + 1 > 1 <=> n > 0)
    BY <2>1, LenProperties
  <2>3. Safe(front) BY <2>1, <2>2 DEF Safe
  <2>4. /\ \A i \in 1..Len(s) : s[i] # Quote
        /\ front # <<>> /\ s # <<>> => s[Len(s)] # Backslash
    <3>1. ~Contains(s, Quote) /\ (n + 1 > 1 /\ s # <<>> => Last(s) # Backslash)
      BY <2>2 DEF Safe
    <3>2. front # <<>> => n > 0 BY <2>1, EmptySeq
    <3> HIDE DEF s
    <3> QED BY <2>2, <3>1, <3>2 DEF Contains, Last
  <2>5. Parses(Between(<<>>), line \o blank, Between(front))
    BY <1>2, <2>1, <2>3
  <2>6. s \in Texts /\ args = Append(front, s) BY <2>1
  <2>7. line \in Texts /\ CommandLine(args) = line \o (sep \o quote \o s \o quote)
    BY <2>1, <2>6, CommandLineMore
  <2>8. sep \in Texts BY <1>0 DEF Separator
  <2>9. Parses(Between(<<>>), line \o sep, Between(front))
    <3>1. CASE n > 0 BY <2>5, <3>1 DEF Separator
    <3>2. CASE n = 0
      <4>1. front = <<>> BY <2>1, <3>2, EmptySeq
      <4>2. sep = <<>> BY <3>2 DEF Separator
      <4>3. line = <<>> BY <4>1, NoArguments
      <4>4. line \o sep = <<>> BY <4>2, <4>3, ConcatEmptySeq, EmptySeq
      <4> QED BY <4>1, <4>4, ParsesNothing
    <3>3. n > 0 \/ n = 0 OBVIOUS
    <3> QED BY <3>1, <3>2, <3>3
  <2>10. word \in Texts
    <3>1. quote \o s \in Texts BY <1>0, <2>6, ConcatProperties DEF Texts
    <3> HIDE DEF quote, s
    <3> QED BY <1>0, <3>1, ConcatProperties DEF Texts
  <2>11. Parses(Between(front), word, After(front, s)) BY <2>4, <2>6, ParsesArgument
  <2>12. ParseChar(After(front, s), Blank) = Between(args)
    <3>1. 0 \in Nat OBVIOUS
    <3> QED BY <2>6, <3>1, ParseCharCases
  <2>13. Parses(After(front, s), blank, Between(args)) BY <2>12, ParsesOne
  <2>14. line \o (sep \o quote \o s \o quote) = (line \o sep) \o word
    <3> HIDE DEF line, sep, s, quote
    <3>1. /\ line \in Seq(Symbols) /\ sep \in Seq(Symbols) /\ quote \in Seq(Symbols) /\ s \in Seq(Symbols)
      BY <1>0, <2>6, <2>7, <2>8 DEF Texts
    <3>2. /\ Cat(Cat(Cat(sep, quote), s), quote) = Cat(sep, Cat(Cat(quote, s), quote))
          /\ Cat(Cat(quote, s), quote) \in Seq(Symbols)
      <4>1. Cat(sep, quote) \in Seq(Symbols) /\ Cat(quote, s) \in Seq(Symbols)
            /\ Cat(s, quote) \in Seq(Symbols)
        BY <3>1, CatAssociative
      <4>2. Cat(Cat(sep, quote), s) = Cat(sep, Cat(quote, s)) BY <3>1, CatAssociative
      <4>3. Cat(Cat(sep, Cat(quote, s)), quote) = Cat(sep, Cat(Cat(quote, s), quote))
        BY <3>1, <4>1, CatAssociative
      <4>4. Cat(Cat(quote, s), quote) \in Seq(Symbols) BY <3>1, <4>1, CatAssociative
      <4> QED BY <4>2, <4>3, <4>4
    <3>3. Cat(line, Cat(sep, Cat(Cat(quote, s), quote))) = Cat(Cat(line, sep), Cat(Cat(quote, s), quote))
      BY <3>1, <3>2, CatAssociative
    <3> QED BY <3>2, <3>3 DEF Cat
  <2> HIDE DEF line, sep, word, s, quote, blank, Good, T
  <2>15. line \o sep \in Texts BY <2>7, <2>8, ConcatProperties DEF Texts
  <2>16. Parses(Between(<<>>), (line \o sep) \o word, After(front, s))
    BY <2>9, <2>10, <2>11, <2>15, ParsesMore
  <2>17. (line \o sep) \o word \in Texts BY <2>10, <2>15, ConcatProperties DEF Texts
  <2>18. Parses(Between(<<>>), ((line \o sep) \o word) \o blank, Between(args))
    BY <1>0, <2>13, <2>16, <2>17, ParsesMore
  <2> QED BY <2>7, <2>14, <2>18 DEF Good, blank
<1> HIDE DEF T
<1>3. Nat \subseteq T BY <1>1, <1>2, SetInduction
<1>4. ASSUME NEW args \in Seq(Texts), Safe(args)
      PROVE  Parses(Between(<<>>), Append(CommandLine(args), Blank), Between(args))
  <2>1. Len(args) \in T BY <1>3, LenProperties
  <2>2. Good(args) BY <1>4, <2>1 DEF T
  <2>3. CommandLine(args) \in Texts
    <3>1. <<>> \in Texts BY <1>0
    <3> QED BY <3>1, CommandLineMore
  <2>4. Append(CommandLine(args), Blank) = CommandLine(args) \o <<Blank>>
    <3>1. Blank \in Symbols BY DEF Symbols
    <3> QED BY <2>3, <3>1, AppendIsConcat DEF Texts
  <2> QED BY <2>2, <2>4
<1> QED BY <1>4

\* The process gets the arguments one by one, whatever blanks and backslashes they
\* contain, unless one has a quote or ends with a backslash.
LEMMA ArgumentsKept ==
  ASSUME NEW args \in Seq(Texts), Safe(args)
  PROVE  ParseCommandLine(CommandLine(args)) = args
<1>1. Parses(Between(<<>>), Append(CommandLine(args), Blank), Between(args)) BY ParsesArguments
<1>2. CommandLine(args) \in Texts
  <2>1. <<>> \in Texts BY EmptySeq DEF Texts
  <2> QED BY <2>1, CommandLineMore
<1>3. ParseCommandLine(CommandLine(args)) = Between(args).args BY <1>1, <1>2, ParsedLine
<1> QED BY <1>3 DEF Between

-----------------------------------------------------------------------------
(* The environment: nothing of the block is lost.                          *)

Strings == Seq(STRING \ {NUL}) \ {<<>>}

\* The strings of a block: no NUL is first or follows another, and one is last.
Ended(text) ==
  /\ text \in Texts
  /\ text # <<>> => text[1] # NUL /\ text[Len(text)] = NUL
  /\ \A p \in 2..Len(text) : ~(text[p - 1] = NUL /\ text[p] = NUL)

\* A string of the environment with its NUL.
LEMMA StringFacts ==
  ASSUME NEW s \in Strings
  PROVE  LET t == Append(s, NUL)
         IN  /\ t \in Texts /\ Len(t) \in Nat /\ Len(t) >= 2 /\ t[Len(t)] = NUL
             /\ \A i \in 1..(Len(t) - 1) : t[i] # NUL
<1> DEFINE t == Append(s, NUL)
           n == Len(s)
<1>1. s \in Seq(STRING \ {NUL}) /\ s # <<>> BY DEF Strings
<1>2. n \in Nat /\ n > 0 /\ \A i \in 1..n : s[i] \in STRING \ {NUL}
  BY <1>1, LenProperties, EmptySeq, ElementOfSeq
<1>3. s \in Seq(Symbols) /\ NUL \in Symbols
  <2>1. STRING \ {NUL} \subseteq Symbols BY DEF Symbols
  <2> QED BY <1>1, <2>1, SeqMonotonic DEF Symbols
<1> HIDE DEF n
<1>4. t \in Seq(Symbols) /\ Len(t) = n + 1 /\ t[n + 1] = NUL /\ \A i \in 1..n : t[i] = s[i]
  BY <1>3, AppendProperties DEF n
<1> HIDE DEF t
<1>5. \A i \in 1..n : t[i] # NUL BY <1>2, <1>4
<1>6. Len(t) - 1 = n /\ Len(t) \in Nat /\ Len(t) >= 2 BY <1>2, <1>4
<1>7. /\ t \in Texts /\ Len(t) \in Nat /\ Len(t) >= 2 /\ t[Len(t)] = NUL
      /\ \A i \in 1..(Len(t) - 1) : t[i] # NUL
  BY <1>4, <1>5, <1>6 DEF Texts
<1> QED BY <1>7 DEF t

\* One more string.
LEMMA EndedMore ==
  ASSUME NEW text, Ended(text), NEW s \in Strings
  PROVE  Ended(text \o Append(s, NUL)) /\ text \o Append(s, NUL) # <<>>
<1> DEFINE t == Append(s, NUL)
           all == text \o t
           m == Len(text)
           n == Len(t)
<1>1. t \in Texts /\ n \in Nat /\ n >= 2 /\ t[n] = NUL /\ \A i \in 1..(n - 1) : t[i] # NUL
  BY StringFacts
<1> HIDE DEF t
<1>2. m \in Nat /\ text \in Texts BY LenProperties DEF Ended, Texts
<1>3. /\ all \in Texts /\ Len(all) = m + n
      /\ \A i \in 1..m : all[i] = text[i]
      /\ \A i \in m + 1 .. m + n : all[i] = t[i - m]
  BY <1>1, <1>2, ConcatProperties DEF Texts
<1>4. m = 0 <=> text = <<>> BY <1>2, EmptySeq DEF Texts
<1> HIDE DEF all, n
<1>5. all # <<>>
  <2>1. Len(all) # 0 BY <1>1, <1>2, <1>3
  <2> QED BY <2>1
<1>6. all[m + n] = NUL
  <2>1. m + n \in m + 1 .. m + n /\ (m + n) - m = n BY <1>1, <1>2
  <2> QED BY <1>1, <1>3, <2>1
<1>7. all[1] # NUL
  <2>1. CASE m = 0
    <3>1. 1 \in m + 1 .. m + n /\ 1 - m = 1 /\ 1 \in 1..(n - 1) BY <1>1, <2>1
    <3> QED BY <1>1, <1>3, <3>1
  <2>2. CASE m # 0
    <3>1. 1 \in 1..m BY <1>2, <2>2
    <3> QED BY <1>3, <1>4, <2>2, <3>1 DEF Ended
  <2> QED BY <2>1, <2>2
<1>8. ASSUME NEW p \in 2..(m + n), all[p - 1] = NUL, all[p] = NUL PROVE FALSE
  <2>1. CASE p <= m
    <3>1. p \in 2..m /\ p \in 1..m /\ p - 1 \in 1..m BY <1>1, <1>2, <2>1
    <3>2. text[p - 1] = NUL /\ text[p] = NUL BY <1>3, <1>8, <3>1
    <3> QED BY <3>1, <3>2 DEF Ended
  <2>2. CASE p > m /\ p - 1 <= m
    <3>1. p = m + 1 /\ p \in m + 1 .. m + n /\ p - m = 1 /\ 1 \in 1..(n - 1) BY <1>1, <1>2, <2>2
    <3> QED BY <1>1, <1>3, <1>8, <3>1
  <2>3. CASE p - 1 > m
    <3>1. p - 1 \in m + 1 .. m + n /\ (p - 1) - m \in 1..(n - 1) BY <1>1, <1>2, <2>3
    <3> QED BY <1>1, <1>3, <1>8, <3>1
  <2>4. p <= m \/ (p > m /\ p - 1 <= m) \/ p - 1 > m BY <1>1, <1>2
  <2> QED BY <2>1, <2>2, <2>3, <2>4
<1>9. Ended(all) BY <1>3, <1>6, <1>7, <1>8 DEF Ended
<1> QED BY <1>5, <1>9 DEF all, t

Joined(env) == FlattenSeq([i \in DOMAIN env |-> Append(env[i], NUL)])

\* The strings one after the other.
LEMMA JoinedMore ==
  ASSUME NEW front \in Seq(Strings), NEW s \in Strings
  PROVE  Joined(Append(front, s)) = Joined(front) \o Append(s, NUL)
<1> DEFINE n == Len(front)
           all == Append(front, s)
           last == Append(s, NUL)
           pieces == [i \in DOMAIN front |-> Append(front[i], NUL)]
           more == [i \in DOMAIN all |-> Append(all[i], NUL)]
           b == Append(pieces, last)
<1>1. /\ n \in Nat /\ DOMAIN front = 1..n /\ (\A i \in 1..n : front[i] \in Strings)
      /\ all \in Seq(Strings) /\ Len(all) = n + 1 /\ DOMAIN all = 1..(n + 1)
      /\ (\A i \in 1..n : all[i] = front[i]) /\ all[n + 1] = s
  BY LenProperties, ElementOfSeq, AppendProperties
<1>2. \A x \in Strings : Append(x, NUL) \in Seq(Symbols) BY StringFacts DEF Texts
<1> HIDE DEF n, all
<1>3. pieces \in Queues(Symbols) /\ Len(pieces) = n
  <2>1. pieces \in [1..n -> Seq(Symbols)] BY <1>1, <1>2
  <2> QED BY <1>1, <2>1, SeqDef, LenProperties DEF Queues
<1>4. more \in Seq(Seq(Symbols)) /\ Len(more) = n + 1
  <2>1. \A i \in 1..(n + 1) : all[i] \in Strings
    <3> TAKE i \in 1..(n + 1)
    <3>1. i \in 1..n \/ i = n + 1 BY <1>1
    <3> QED BY <1>1, <3>1
  <2>2. more \in [1..(n + 1) -> Seq(Symbols)] /\ n + 1 \in Nat BY <1>1, <1>2, <2>1
  <2> HIDE DEF more
  <2> QED BY <2>2, SeqDef, LenProperties
<1>5. last \in Seq(Symbols) BY <1>2
<1> HIDE DEF last
<1>6. b \in Seq(Seq(Symbols)) /\ Len(b) = n + 1 /\ (\A i \in 1..n : b[i] = pieces[i]) /\ b[n + 1] = last
  BY <1>3, <1>5, AppendProperties DEF Queues
<1>7. \A i \in 1..(n + 1) : more[i] = b[i]
  <2> TAKE i \in 1..(n + 1)
  <2>1. CASE i \in 1..n BY <1>1, <1>6, <2>1
  <2>2. CASE i = n + 1 BY <1>1, <1>6, <2>2 DEF last
  <2>3. i \in 1..n \/ i = n + 1 BY <1>1
  <2> QED BY <2>1, <2>2, <2>3
<1>8. Joined(front) = FlattenSeq(pieces) /\ Joined(all) = FlattenSeq(more) BY DEF Joined
<1> HIDE DEF more, pieces, b
<1>9. more = b BY <1>4, <1>6, <1>7, SeqEqual
<1>10. FlattenSeq(b) = FlattenSeq(pieces) \o last BY <1>3, <1>5, FlattenAppend DEF b
<1>11. Joined(all) = Joined(front) \o last BY <1>8, <1>9, <1>10
<1> QED BY <1>11 DEF all, last

\* No block has two NULs in a row before its end.
LEMMA JoinedEnded ==
  \A env \in Seq(Strings) : Ended(Joined(env)) /\ (env # <<>> => Joined(env) # <<>>)
<1> DEFINE T == {n \in Nat : \A env \in Seq(Strings) : Len(env) = n =>
                               Ended(Joined(env)) /\ (env # <<>> => Joined(env) # <<>>)}
<1>1. 0 \in T
  <2> SUFFICES ASSUME NEW env \in Seq(Strings), Len(env) = 0
               PROVE  Ended(Joined(env)) /\ (env # <<>> => Joined(env) # <<>>)
    OBVIOUS
  <2>1. env = <<>> BY EmptySeq
  <2>2. Joined(<<>>) = <<>>
    <3> DEFINE pieces == [i \in DOMAIN <<>> |-> Append((<<>>)[i], NUL)]
    <3>1. Joined(<<>>) = FlattenSeq(pieces) BY DEF Joined
    <3>2. pieces = <<>>
      <4>1. DOMAIN <<>> = {} OBVIOUS
      <4> QED BY <4>1
    <3> QED BY <3>1, <3>2, FlattenEmpty
  <2>3. <<>> \in Texts /\ Len(<<>>) = 0 BY EmptySeq DEF Texts
  <2>4. Ended(<<>>) BY <2>3 DEF Ended
  <2> QED BY <2>1, <2>2, <2>4
<1>2. ASSUME NEW n \in Nat, n \in T PROVE n + 1 \in T
  <2> SUFFICES ASSUME NEW env \in Seq(Strings), Len(env) = n + 1
               PROVE  Ended(Joined(env)) /\ Joined(env) # <<>>
    OBVIOUS
  <2> HIDE DEF T
  <2>1. PICK front \in Seq(Strings) :
          /\ Len(front) = n /\ \A i \in 1..n : front[i] = env[i]
          /\ env[n + 1] \in Strings /\ env = Append(front, env[n + 1])
    BY FrontLast, Zenon
  <2> DEFINE s == env[n + 1]
  <2>2. s \in Strings /\ env = Append(front, s) BY <2>1
  <2>3. Ended(Joined(front)) BY <1>2, <2>1 DEF T
  <2> DEFINE text == Joined(front)
  <2> HIDE DEF s
  <2>4. Joined(env) = text \o Append(s, NUL) BY <2>2, JoinedMore
  <2> HIDE DEF text
  <2>5. Ended(text \o Append(s, NUL)) /\ text \o Append(s, NUL) # <<>>
    BY <2>2, <2>3, EndedMore DEF text
  <2> QED BY <2>4, <2>5, Zenon
<1> HIDE DEF T
<1>3. Nat \subseteq T BY <1>1, <1>2, SetInduction
<1> QED BY <1>3, LenProperties DEF T

\* The copy of the environment is the environment.
LEMMA EnvironmentKept ==
  ASSUME NEW env \in Seq(Strings), env # <<>>
  PROVE  GetEnvironment(Block(env)) = Block(env)
<1> DEFINE text == Joined(env)
           n == Len(text)
           block == Append(text, NUL)
           First(p) == DoubleNul(block, p) /\ \A q \in 1..(p - 1) : ~DoubleNul(block, q)
           last == CHOOSE p \in DOMAIN block : First(p)
<1>1. Block(env) = block BY DEF Block, Joined
<1>2. Ended(text) /\ text # <<>> BY JoinedEnded
<1> HIDE DEF text
<1>3. n \in Nat /\ n > 0 /\ text \in Seq(Symbols) /\ NUL \in Symbols
  BY <1>2, LenProperties, EmptySeq DEF Ended, Texts, Symbols
<1> HIDE DEF n
<1>4. /\ block \in Seq(Symbols) /\ DOMAIN block = 1..(n + 1) /\ block[n + 1] = NUL
      /\ \A i \in 1..n : block[i] = text[i]
  BY <1>3, AppendProperties, LenProperties DEF n
<1> HIDE DEF block
<1>5. \A q \in 1..n : ~DoubleNul(block, q)
  <2> SUFFICES ASSUME NEW q \in 1..n, q > 1, block[q - 1] = NUL, block[q] = NUL PROVE FALSE
    BY DEF DoubleNul
  <2>1. q \in 2..n /\ q - 1 \in 1..n BY <1>3
  <2> QED BY <1>2, <1>4, <2>1 DEF Ended, n
<1>6. DoubleNul(block, n + 1)
  <2>1. n \in 1..n /\ (n + 1) - 1 = n /\ n + 1 > 1 BY <1>3
  <2> QED BY <1>2, <1>4, <2>1 DEF Ended, DoubleNul, n
<1>7. First(n + 1) /\ n + 1 \in DOMAIN block
  <2>1. (n + 1) - 1 = n /\ n + 1 \in 1..(n + 1) BY <1>3
  <2> QED BY <1>4, <1>5, <1>6, <2>1
<1>8. \A p \in DOMAIN block : First(p) => p = n + 1
  <2> TAKE p \in DOMAIN block
  <2>1. p \in 1..n \/ p = n + 1 BY <1>3, <1>4
  <2> QED BY <1>5, <2>1
<1>9. last = n + 1
  <2> HIDE DEF First
  <2> QED BY <1>7, <1>8
<1>10. GetEnvironment(block) = Append(SubSeq(block, 1, last - 1), NUL) BY DEF GetEnvironment
<1> HIDE DEF last, First
<1>11. SubSeq(block, 1, last - 1) = text
  <2>1. last - 1 = n BY <1>3, <1>9
  <2> DEFINE sub == SubSeq(block, 1, n)
  <2>2. sub \in Seq(Symbols) /\ Len(sub) = n /\ \A i \in 1..n : sub[i] = block[i]
    <3>1. Len(block) = n + 1 BY <1>3, <1>4, LenProperties
    <3>2. \A i \in 1..n : block[i] \in Symbols BY <1>3, <1>4, <3>1, ElementOfSeq
    <3>3. sub = [i \in 1..n |-> block[i]] BY <1>3 DEF sub
    <3> HIDE DEF sub
    <3>4. sub \in [1..n -> Symbols] BY <3>2, <3>3
    <3> QED BY <1>3, <3>3, <3>4, SeqDef, LenProperties
  <2> HIDE DEF sub
  <2>3. sub = text BY <1>3, <1>4, <2>2, SeqEqual DEF n
  <2> QED BY <2>1, <2>3 DEF sub
<1>12. GetEnvironment(block) = block BY <1>10, <1>11 DEF block
<1> QED BY <1>1, <1>12

-----------------------------------------------------------------------------
(* The request of the client, and what the process is like.                *)

\* The client's request stays; the directory is the system's exactly if the launch at
\* hand has been warned, and no later one has.
RequestInv ==
  /\ arguments \in Arguments /\ environment \in Environments
  /\ \A n \in 1..Launches : n > turn \/ (n = turn /\ pos = "main") => n \notin warned
  /\ pos # "main" => (directory = "system" <=> turn \in warned)

\* The directory is changed by a request and by the one retry.
LEMMA DirectorySteps ==
  ASSUME LaunchType, Next
  PROVE  /\ UNCHANGED <<arguments, environment>>
         /\ \/ directory' = directory /\ warned' = warned /\ (pos = "main" => pos' = "main")
            \/ directory' = "client" /\ warned' = warned /\ pos = "main"
            \/ /\ directory' = "system" /\ warned' = warned \cup {turn}
               /\ pos = "create" /\ turn' = turn /\ pos' = pos
<1>1. CASE InitializeFails \/ Usage \/ Request
  BY <1>1 DEF InitializeFails, Usage, Request, Goto, Tell, Requests
<1>2. CASE CreateJob \/ OpenToken
  BY <1>2 DEF CreateJob, OpenToken, OthersUnchanged, Goto, Throw, Requests
<1>3. ASSUME NEW p \in Pipes, CreatePipe(p) \/ KeepServerEnd(p)
      PROVE  UNCHANGED <<arguments, environment, directory, warned>> /\ pos # "main"
  BY <1>3, PipeFacts DEF CreatePipe, KeepServerEnd, OthersUnchanged, Goto, Requests
<1>4. CASE ChangeDirectory \/ CreateProcessFails \/ CreateProcess \/ AssignProcess
  BY <1>4 DEF ChangeDirectory, CreateProcessFails, CreateProcess, AssignProcess, Goto, Throw, Requests
<1>5. CASE StartPreparation \/ \E n \in 1..Launches : ReleaseExec(n) \/ ProcessEnds(n)
  BY <1>5 DEF StartPreparation, ReleaseExec, ProcessEnds, Requests
<1> QED BY <1>1, <1>2, <1>3, <1>4, <1>5 DEF Next

\* A launch that goes on does not come back to its beginning.
LEMMA LaunchStays ==
  ASSUME LaunchType, Next, turn' = turn, pos' = "main"
  PROVE  pos = "main"
<1> USE TurnFacts, PipeFacts
<1>1. ASSUME NEW p \in Pipes, CreatePipe(p) \/ KeepServerEnd(p) PROVE FALSE
  <2>1. Flag[p] # "main" /\ NextPipe[p] # "main" BY PipeFacts
  <2>2. turn + 1 # turn BY TurnFacts
  <2>3. pos' \in {Flag[p], NextPipe[p]} \/ turn' = turn + 1
    BY <1>1 DEF CreatePipe, KeepServerEnd, Goto, Throw, Tell
  <2> QED BY <2>1, <2>2, <2>3
<1>2. CASE CreateJob \/ OpenToken
  BY <1>2 DEF CreateJob, OpenToken, Goto, Throw, Tell
<1>3. CASE ChangeDirectory \/ CreateProcessFails \/ CreateProcess \/ AssignProcess
  BY <1>3 DEF ChangeDirectory, CreateProcessFails, CreateProcess, AssignProcess, Goto, Throw, Tell
<1>4. CASE \/ InitializeFails \/ Usage \/ Request \/ StartPreparation
           \/ \E n \in 1..Launches : ReleaseExec(n) \/ ProcessEnds(n)
  BY <1>4 DEF InitializeFails, Usage, Request, StartPreparation, ReleaseExec, ProcessEnds, Goto
<1> QED BY <1>1, <1>2, <1>3, <1>4 DEF Next

\* Every step keeps that.
LEMMA RequestNext ==
  ASSUME LaunchType, RequestInv, Next
  PROVE  RequestInv'
<1>1. /\ turn \in Nat /\ Launches \in Nat
      /\ \/ turn' = turn + 1 /\ pos' = "main"
         \/ turn' = turn
  BY TurnFacts, TurnSteps
<1>2. arguments' \in Arguments /\ environment' \in Environments BY DirectorySteps DEF RequestInv
<1>3. ASSUME NEW n \in 1..Launches, n > turn' \/ (n = turn' /\ pos' = "main") PROVE n \notin warned'
  <2>1. CASE warned' = warned
    <3>1. CASE n > turn BY <2>1, <3>1 DEF RequestInv
    <3>2. CASE ~(n > turn)
      <4>1. turn' = turn /\ n = turn /\ pos' = "main" BY <1>1, <1>3, <3>2
      <4>2. pos = "main" BY <4>1, LaunchStays
      <4> QED BY <2>1, <4>1, <4>2 DEF RequestInv
    <3> QED BY <3>1, <3>2
  <2>2. CASE warned' = warned \cup {turn} /\ pos = "create" /\ turn' = turn /\ pos' = pos
    <3>1. n > turn BY <1>3, <2>2
    <3>2. n # turn BY <1>1, <3>1
    <3> QED BY <2>2, <3>1, <3>2 DEF RequestInv
  <2> QED BY <2>1, <2>2, DirectorySteps
<1>4. ASSUME pos' # "main" PROVE directory' = "system" <=> turn' \in warned'
  <2>1. turn' = turn BY <1>1, <1>4
  <2>2. CASE directory' = directory /\ warned' = warned /\ (pos = "main" => pos' = "main")
    BY <1>4, <2>1, <2>2 DEF RequestInv
  <2>3. CASE directory' = "client" /\ warned' = warned /\ pos = "main"
    <3>1. turn \in 1..Launches BY <1>4, <2>1, TurnSteps
    <3> QED BY <2>1, <2>3, <3>1 DEF RequestInv
  <2>4. CASE directory' = "system" /\ warned' = warned \cup {turn}
    BY <2>1, <2>4
  <2> QED BY <2>2, <2>3, <2>4, DirectorySteps
<1> QED BY <1>2, <1>3, <1>4 DEF RequestInv

\* The types of the request.
LEMMA RequestTypes ==
  ASSUME RequestInv
  PROVE  arguments \in Seq(Texts) /\ environment \in Seq(Strings) /\ environment # <<>>
<1>1. arguments \in Seq(Seq(STRING)) BY LaunchAssumption DEF RequestInv
<1>2. Seq(STRING) \subseteq Texts
  <2>1. STRING \subseteq Symbols BY DEF Symbols
  <2> QED BY <2>1, SeqMonotonic DEF Texts
<1>3. arguments \in Seq(Texts) BY <1>1, <1>2, SeqMonotonic
<1>4. environment \in Seq(Strings) \ {<<>>} BY LaunchAssumption DEF RequestInv, Strings
<1> QED BY <1>3, <1>4

\* Every step keeps what the processes are like: one that is created gets what was
\* asked for, and nobody is warned about a process that is there.
LEMMA AsRequestedNext ==
  ASSUME LaunchInv, RequestInv, ProcessAsRequested, Next
  PROVE  ProcessAsRequested'
<1> USE DEF LaunchInv
<1>1. UNCHANGED <<arguments, environment>> BY DirectorySteps
<1>2. ASSUME NEW n \in 1..Launches, process[n] # NoProcess PROVE n \in warned' <=> n \in warned
  <2>1. n < turn \/ (n = turn /\ pos = "assign") BY <1>2 DEF ProcessInv
  <2>2. turn \in Nat /\ n \in Nat BY TurnFacts
  <2>3. warned' = warned \/ (warned' = warned \cup {turn} /\ pos = "create") BY DirectorySteps
  <2>4. CASE warned' = warned \cup {turn} /\ pos = "create"
    <3>1. n # turn BY <2>1, <2>2, <2>4
    <3> QED BY <2>4, <3>1
  <2> QED BY <2>3, <2>4
<1>3. ASSUME NEW n \in 1..Launches, process'[n] # NoProcess
      PROVE  /\ Safe(arguments) => process'[n].args = arguments
             /\ process'[n].env = Block(environment)
             /\ process'[n].directory = "system" <=> n \in warned'
  <2>1. CASE /\ process[n] # NoProcess
             /\ process'[n].args = process[n].args
             /\ process'[n].env = process[n].env
             /\ process'[n].directory = process[n].directory
    BY <1>2, <2>1 DEF ProcessAsRequested
  <2>2. CASE CreateProcess /\ n = turn
    <3>1. /\ process'[n].args = ParseCommandLine(CommandLine(arguments))
          /\ process'[n].env = GetEnvironment(Block(environment))
          /\ process'[n].directory = directory /\ pos = "create"
      BY <2>2, CreatedProcess
    <3>2. warned' = warned BY <2>2 DEF CreateProcess
    <3>3. directory = "system" <=> turn \in warned BY <3>1 DEF RequestInv
    <3>4. GetEnvironment(Block(environment)) = Block(environment) BY RequestTypes, EnvironmentKept
    <3>5. Safe(arguments) => ParseCommandLine(CommandLine(arguments)) = arguments
      BY RequestTypes, ArgumentsKept
    <3> QED BY <2>2, <3>1, <3>2, <3>3, <3>4, <3>5
  <2>3. CASE CreateProcess /\ n # turn
    BY <1>3, <2>1, <2>3, CreatedProcess
  <2>4. CASE ~CreateProcess
    BY <1>3, <2>1, <2>4, ProcessSteps, EndedProcess
  <2> QED BY <2>2, <2>3, <2>4
<1> QED BY <1>1, <1>3 DEF ProcessAsRequested, Safe

\* The process is the one that was asked for, whatever failed before: it has the
\* arguments one by one if no argument has a quote and none but the program ends with
\* a backslash, every string of the environment, and the directory of the client
\* unless the warning was injected.
THEOREM RequestCorrect == Spec => []ProcessAsRequested
<1>1. Init => RequestInv /\ ProcessAsRequested
  BY LaunchAssumption DEF Init, RequestInv, ProcessAsRequested
<1>2. LaunchInv /\ RequestInv /\ ProcessAsRequested /\ [Next]_vars =>
        RequestInv' /\ ProcessAsRequested'
  <2>1. RequestInv /\ ProcessAsRequested /\ UNCHANGED vars => RequestInv' /\ ProcessAsRequested'
    BY DEF RequestInv, ProcessAsRequested, vars
  <2> QED BY <2>1, RequestNext, AsRequestedNext DEF LaunchInv
<1> QED BY <1>1, <1>2, LaunchInvariant, PTL DEF Spec
=============================================================================
