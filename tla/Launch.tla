------------------------------- MODULE Launch -------------------------------
(***************************************************************************)
(* How OnConsole.exe asks for a process and ConsoleServer.exe starts it:   *)
(* _tmain up to StartProcess, CExec::DoStartProcess with every call of     *)
(* Windows that may fail, and what is left behind in each case.  Several   *)
(* clients do this one after the other, and their processes stay.          *)
(*                                                                         *)
(* The server handles one call at a time, so DoStartProcess runs from its  *)
(* first call to its last without another client; its calls are steps      *)
(* because each may be the last.  That the new process runs beside the     *)
(* rest of it is in ExecSession, the preparation in Preparation.           *)
(*                                                                         *)
(* Strings are sequences of characters, of which only the blank, the quote *)
(* and the backslash matter; a string of the environment ends with NUL.    *)
(***************************************************************************)
EXTENDS Naturals, Sequences, SequencesExt, FiniteSets

CONSTANTS
  Arguments,      \* arguments of OnConsole: a set of sequences of strings
  Environments,   \* environments: a set of sequences of non-empty strings
  Launches        \* bound: OnConsole runs 1..Launches times

Blank == "blank"   Quote == "quote"   Backslash == "backslash"   NUL == "nul"

ASSUME LaunchAssumption ==
  /\ Launches \in Nat
  /\ Arguments \subseteq Seq(Seq(STRING))
  /\ Environments \subseteq Seq(Seq(STRING \ {NUL}) \ {<<>>}) \ {<<>>}

VARIABLES
  arguments,     \* argv of OnConsole without its own name
  environment,   \* the environment of OnConsole
  turn,          \* the OnConsole that runs
  pos,           \* its position, and the server's while it waits for that
  directory,     \* workingDir, the client's or the system's
  handles,       \* pipe ends the server holds
  leaked,        \* pipes whose ends nothing will close
  warned,        \* launches for which the warning was injected
  process,       \* the process of each launch
  assigned,      \* launches whose process is in its job
  result,        \* what each OnConsole is told
  released,      \* launches whose CExec is gone
  preparer       \* handles inherited by a PrepareWindowStation.exe

vars == <<arguments, environment, turn, pos, directory, handles, leaked, warned,
          process, assigned, result, released, preparer>>

-----------------------------------------------------------------------------
(* Conversions.                                                            *)

\* Mutant: arguments are not quoted.
CommandLineUnquoted(args) ==
  FlattenSeq([i \in DOMAIN args |-> (IF i > 1 THEN <<Blank>> ELSE <<>>) \o args[i]])

\* _tmain puts each argument in quotes and a blank between two, and changes
\* nothing within them.
CommandLine(args) ==
  FlattenSeq([i \in DOMAIN args |->
                (IF i > 1 THEN <<Blank>> ELSE <<>>) \o <<Quote>> \o args[i] \o <<Quote>>])

\* How the C runtime of the new process takes it apart (external): between
\* quotes a blank is a character; 2n backslashes before a quote are n, and a
\* quote after an odd number of them is a character.  The first argument, the
\* program, ends with the next quote.
Backslashes(n) == [i \in 1..n |-> Backslash]
Between(args) == [args |-> args, word |-> <<>>, slashes |-> 0, in |-> FALSE, quoted |-> FALSE]
ParseChar(p, c) ==
  LET program == p.args = <<>>
      flushed == [p EXCEPT !.word = @ \o Backslashes(p.slashes), !.slashes = 0]
  IN  CASE c = Backslash /\ ~program -> [p EXCEPT !.slashes = @ + 1, !.in = TRUE]
        [] c = Quote ->
             [p EXCEPT !.word = @ \o Backslashes(p.slashes \div 2)
                                  \o (IF p.slashes % 2 = 1 THEN <<Quote>> ELSE <<>>),
                       !.slashes = 0, !.in = TRUE,
                       !.quoted = IF p.slashes % 2 = 1 THEN @ ELSE ~@]
        [] c = Blank /\ ~p.quoted ->
             IF p.in THEN Between(Append(p.args, flushed.word)) ELSE p
        [] OTHER -> [flushed EXCEPT !.word = Append(@, c), !.in = TRUE]
ParseCommandLine(line) ==
  LET text == Append(line, Blank)
      after[i \in 0..Len(text)] == IF i = 0 THEN Between(<<>>) ELSE ParseChar(after[i - 1], text[i])
  IN  after[Len(text)].args

\* The block of environment strings of a process: each ended by NUL, and a last NUL.
Block(env) == Append(FlattenSeq([i \in DOMAIN env |-> Append(env[i], NUL)]), NUL)
DoubleNul(block, p) == p > 1 /\ block[p - 1] = NUL /\ block[p] = NUL

\* GetEnvironment copies up to two NULs in a row, and ends the copy with one.
GetEnvironment(block) ==
  LET last == CHOOSE p \in DOMAIN block :
                DoubleNul(block, p) /\ \A q \in 1..(p - 1) : ~DoubleNul(block, q)
  IN  Append(SubSeq(block, 1, last - 1), NUL)

-----------------------------------------------------------------------------
(* Handles.                                                                *)

Pipes == {"stdout", "stderr", "stdin"}
End(n, p, mine, inherit) == [launch |-> n, pipe |-> p, mine |-> mine, inherit |-> inherit]
IsLeaked(h) == <<h.launch, h.pipe>> \in leaked
Flag == [stdout |-> "stdoutFlag", stderr |-> "stderrFlag", stdin |-> "stdinFlag"]
Inherited == {h \in handles : h.inherit}

\* The ends for the process are local to DoStartProcess and closed whenever it
\* is left; the server's ends belong to the readers and the writer.
AfterReturn(hs, lost) == {h \in hs : h.launch # turn \/ h.mine \/ <<h.launch, h.pipe>> \in lost}

NoProcess == [state |-> "none"]

Init ==
  /\ arguments \in Arguments /\ environment \in Environments
  /\ turn = 1 /\ pos = "main" /\ directory = "client"
  /\ handles = {} /\ leaked = {} /\ warned = {}
  /\ process = [n \in 1..Launches |-> NoProcess]
  /\ assigned = {} /\ result = [n \in 1..Launches |-> "none"]
  /\ released = {} /\ preparer = {}

-----------------------------------------------------------------------------
(* OnConsole.                                                              *)

Requests == <<arguments, environment>>
Goto(from, to) == pos = from /\ pos' = to
Tell(what) == /\ result' = [result EXCEPT ![turn] = what]
              /\ turn' = turn + 1

\* Security is not initialized: the exception is thrown outside of the block that
\* would catch it, and ends OnConsole.
InitializeFails ==
  /\ Goto("main", "main") /\ turn <= Launches
  /\ Tell("terminated")
  /\ UNCHANGED <<Requests, directory, handles, leaked, warned, process, assigned,
                 released, preparer>>

\* Without a program OnConsole explains itself and returns -2.
Usage ==
  /\ Goto("main", "main") /\ turn <= Launches
  /\ arguments = <<>>
  /\ Tell("usage")
  /\ UNCHANGED <<Requests, directory, handles, leaked, warned, process, assigned,
                 released, preparer>>

\* It connects to the server and waits for its window station, and takes its
\* environment and directory; all of these may fail, and it returns -3.
Request ==
  /\ turn <= Launches /\ arguments # <<>>
  /\ directory' = "client"
  /\ \/ Goto("main", "job") /\ UNCHANGED <<turn, result>>
     \/ Goto("main", "main") /\ Tell("failed")
  /\ UNCHANGED <<Requests, handles, leaked, warned, process, assigned, released, preparer>>

-----------------------------------------------------------------------------
(* CExec::DoStartProcess.                                                  *)

\* An exception leaves DoStartProcess, StartProcess answers E_FAIL, OnConsole
\* returns -3; the pipes in lost have no owner yet.
Throw(lost) ==
  /\ pos' = "main" /\ Tell("failed")
  /\ leaked' = leaked \cup lost
  /\ handles' = AfterReturn(handles, lost)

OthersUnchanged ==
  UNCHANGED <<Requests, directory, warned, process, assigned, released, preparer>>

CreateJob ==
  /\ \/ Goto("job", "stdout") /\ UNCHANGED <<turn, result, handles, leaked>>
     \/ pos = "job" /\ Throw({})
  /\ OthersUnchanged

\* CreateInheritablePipe: both ends are inheritable at first.
CreatePipe(p) ==
  /\ \/ /\ Goto(p, Flag[p])
        /\ handles' = handles \cup {End(turn, p, TRUE, TRUE), End(turn, p, FALSE, TRUE)}
        /\ UNCHANGED <<turn, result, leaked>>
     \/ pos = p /\ Throw({})
  /\ OthersUnchanged

NextPipe == [stdout |-> "stderr", stderr |-> "stdin", stdin |-> "token"]

\* Mutant: the end of the process is made private, not the server's.
KeepWrongEnd(p) ==
  /\ \/ /\ Goto(Flag[p], NextPipe[p])
        /\ handles' = (handles \ {End(turn, p, FALSE, TRUE)}) \cup {End(turn, p, FALSE, FALSE)}
        /\ UNCHANGED <<turn, result, leaked>>
     \/ pos = Flag[p] /\ Throw({<<turn, p>>})
  /\ OthersUnchanged

\* The server's end is made private to it.  Both ends get an owner only after.
KeepServerEnd(p) ==
  /\ \/ /\ Goto(Flag[p], NextPipe[p])
        /\ handles' = (handles \ {End(turn, p, TRUE, TRUE)}) \cup {End(turn, p, TRUE, FALSE)}
        /\ UNCHANGED <<turn, result, leaked>>
     \/ pos = Flag[p] /\ Throw({<<turn, p>>})
  /\ OthersUnchanged

\* The token of the client, the console session, and the session of the token.
OpenToken ==
  /\ \/ Goto("token", "create") /\ UNCHANGED <<turn, result, handles, leaked>>
     \/ pos = "token" /\ Throw({})
  /\ OthersUnchanged

\* The directory is refused once: the system's is taken, if it can be found, and
\* the user is warned.
ChangeDirectory ==
  /\ pos = "create" /\ directory = "client"
  /\ \/ /\ directory' = "system" /\ warned' = warned \cup {turn}
        /\ UNCHANGED <<pos, turn, result, handles, leaked>>
     \/ Throw({}) /\ UNCHANGED <<directory, warned>>
  /\ UNCHANGED <<Requests, process, assigned, released, preparer>>

\* Any other error, and the second one: OnConsole returns -1.
CreateProcessFails ==
  /\ Goto("create", "main") /\ Tell("refused")
  /\ handles' = AfterReturn(handles, {})
  /\ UNCHANGED <<Requests, directory, leaked, warned, process, assigned, released, preparer>>

\* The process inherits every inheritable handle of the server.
CreateProcess ==
  /\ Goto("create", "assign")
  /\ process' = [process EXCEPT ![turn] =
       [state     |-> "running",
        args      |-> ParseCommandLine(CommandLine(arguments)),
        env       |-> GetEnvironment(Block(environment)),
        directory |-> directory,
        inherits  |-> Inherited]]
  /\ UNCHANGED <<Requests, turn, directory, handles, leaked, warned, assigned, result,
                 released, preparer>>

\* Mutant: it is not noticed that the assignment failed.
AssignUnchecked ==
  /\ Goto("assign", "main") /\ Tell("started")
  /\ assigned' \in {assigned, assigned \cup {turn}}
  /\ handles' = AfterReturn(handles, {})
  /\ UNCHANGED <<Requests, directory, leaked, warned, process, released, preparer>>

\* The process runs already when it is assigned to the job.
AssignProcess ==
  /\ \/ /\ Goto("assign", "main") /\ Tell("started")
        /\ assigned' = assigned \cup {turn}
        /\ handles' = AfterReturn(handles, {}) /\ UNCHANGED leaked
     \/ pos = "assign" /\ Throw({}) /\ UNCHANGED assigned
  /\ UNCHANGED <<Requests, directory, warned, process, released, preparer>>

-----------------------------------------------------------------------------
(* What else the server does between two calls.                            *)

\* Mutant: the readers and the writer are not destructed.
ReleaseKeepingPipes(n) ==
  /\ pos = "main" /\ n < turn /\ n \notin released
  /\ released' = released \cup {n}
  /\ process' = IF n \in assigned THEN [process EXCEPT ![n].state = "ended"] ELSE process
  /\ UNCHANGED <<Requests, turn, pos, directory, handles, leaked, warned, assigned, result, preparer>>

\* ~CExec, when a client is done: the job is terminated and the members closed.
ReleaseExec(n) ==
  /\ pos = "main" /\ n < turn /\ n \notin released
  /\ released' = released \cup {n}
  /\ process' = IF n \in assigned THEN [process EXCEPT ![n].state = "ended"] ELSE process
  /\ handles' = {h \in handles : h.launch # n \/ IsLeaked(h)}
  /\ UNCHANGED <<Requests, turn, pos, directory, leaked, warned, assigned, result, preparer>>

\* StartPreparation lets PrepareWindowStation.exe inherit handles, too.
StartPreparation ==
  /\ pos = "main" /\ turn <= Launches
  /\ preparer' = preparer \cup Inherited
  /\ UNCHANGED <<Requests, turn, pos, directory, handles, leaked, warned, process, assigned,
                 result, released>>

ProcessEnds(n) ==
  /\ process[n].state = "running"
  /\ process' = [process EXCEPT ![n].state = "ended"]
  /\ UNCHANGED <<Requests, turn, pos, directory, handles, leaked, warned, assigned, result,
                 released, preparer>>

Next ==
  \/ InitializeFails \/ Usage \/ Request
  \/ CreateJob \/ OpenToken
  \/ \E p \in Pipes : CreatePipe(p) \/ KeepServerEnd(p)
  \/ ChangeDirectory \/ CreateProcessFails \/ CreateProcess \/ AssignProcess
  \/ StartPreparation
  \/ \E n \in 1..Launches : ReleaseExec(n) \/ ProcessEnds(n)

Spec == Init /\ [][Next]_vars

-----------------------------------------------------------------------------
(* Properties.                                                             *)

TypeOK ==
  /\ turn \in 1..(Launches + 1)
  /\ pos \in {"main", "job", "token", "create", "assign"} \cup Pipes \cup {Flag[p] : p \in Pipes}
  /\ directory \in {"client", "system"}
  /\ handles \subseteq [launch : 1..Launches, pipe : Pipes, mine : BOOLEAN, inherit : BOOLEAN]
  /\ leaked \subseteq (1..Launches) \X Pipes
  /\ warned \subseteq 1..Launches /\ assigned \subseteq 1..Launches
  /\ released \subseteq 1..Launches
  /\ \A n \in 1..Launches : process[n].state \in {"none", "running", "ended"}
  /\ result \in [1..Launches -> {"none", "usage", "failed", "refused", "started", "terminated"}]

\* An argument survives the quotes if it has no quote of its own and, unless it
\* is the program, does not end with a backslash.
Safe(args) ==
  \A i \in DOMAIN args :
    /\ ~Contains(args[i], Quote)
    /\ i > 1 /\ args[i] # <<>> => Last(args[i]) # Backslash

\* The process is the one that was asked for: it gets the arguments one by one
\* if they are safe, the whole environment, and the directory of the client or
\* a warning, whatever was tried before.
ProcessAsRequested ==
  \A n \in 1..Launches : process[n] # NoProcess =>
    /\ Safe(arguments) => process[n].args = arguments
    /\ process[n].env = Block(environment)
    /\ process[n].directory = "system" <=> n \in warned

\* A process holds the ends of its own three pipes and of nobody else's: another
\* client's pipe in its hands would keep that client's output from ending.  The
\* exception are pipes that a failed SetHandleInformation has left inheritable,
\* which every later process gets, PrepareWindowStation.exe too.
BothEnds(p) == {End(p[1], p[2], m, TRUE) : m \in BOOLEAN}
LeakedEnds == UNION {BothEnds(p) : p \in leaked}
InheritsOwnEnds ==
  /\ \A n \in 1..Launches : process[n] # NoProcess =>
       LET own == {End(n, p, FALSE, TRUE) : p \in Pipes}
       IN  own \subseteq process[n].inherits /\ process[n].inherits \ own \subseteq LeakedEnds
  /\ preparer \subseteq LeakedEnds

\* Between two calls the server holds nothing but its own ends for the clients
\* that are still there, whichever call of which launch has failed, and what
\* was leaked.
HandlesAccounted ==
  pos = "main" => \A h \in handles : IsLeaked(h) \/ (h.mine /\ h.launch \notin released)

\* When a client is gone its process is, and a client that was told of a failure
\* has none.  The exception is a process that could not be assigned to its job:
\* its client is told of a failure, and nothing ends it.
Stray(n) == process[n].state = "running" /\ n \notin assigned
NothingLeft ==
  \A n \in 1..Launches :
    n \in released \/ result[n] \in {"failed", "refused", "usage", "terminated"} =>
      process[n].state # "running" \/ (Stray(n) /\ result[n] = "failed")
=============================================================================
