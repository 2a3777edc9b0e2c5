------------------------------- MODULE Logging --------------------------------
(***************************************************************************)
(* ConsoleServer.exe, PrepareWindowStation.exe and OnConsole.exe log to one*)
(* file.  Each of them sets up the logging library when it is loaded,      *)
(* configures it first thing (ConfigureLogging), and then executes LOG     *)
(* statements; nothing keeps the programs apart when they write.           *)
(*                                                                         *)
(* The library is compiled without locks.  In the server and in            *)
(* PrepareWindowStation one thread logs.  In OnConsole the read thread     *)
(* does, and a thread of Windows, when Ctrl-C comes before OnConsole has   *)
(* its own handler: the library then logs a fatal message and aborts.      *)
(***************************************************************************)
EXTENDS LogConfiguration

CONSTANTS
  Programs, KindOf,   \* processes, and what each is: "server", "preparer", "client"
  Messages,           \* LOG statements of the programs: levels and texts
  BufferSize,         \* tokens of a message the C runtime writes at once
  MaxLines            \* bound: LOG statements of each kind of thread

ASSUME LoggingAssumption ==
  /\ KindOf \in [Programs -> {"server", "preparer", "client"}]
  /\ Messages \subseteq {"Error", "Warning", "Info"} \X (Seq(STRING) \ {<<>>})
  /\ BufferSize \in Nat \ {0}
  /\ MaxLines \in [{"main", "reader", "handler"} -> Nat]

VARIABLES
  stage,      \* how far each program has come
  opened,     \* files it has opened
  bad,        \* its stream of the shared file has failed, for good
  stmt,       \* the LOG statement each thread executes
  done,       \* how many it has finished, and shown on standard output
  file,       \* the shared file: units of lines
  undefined,  \* programs whose behaviour is not defined
  interrupted,  \* programs that got a Ctrl-C they have no handler for
  silent,     \* history: lines not written, by thread
  raced       \* history: lines during whose writing another program wrote

vars == <<stage, opened, bad, stmt, done, file, undefined, interrupted, silent, raced>>

Stages  == {"new", "constructed", "configured", "guarded", "redirected", "over"}
Loggers == {"default", "performance"}
Threads(p) == IF KindOf[p] = "client" THEN {"reader", "handler"} ELSE {"main"}
Writers == UNION {{<<p, t>> : t \in Threads(p)} : p \in Programs}

Idle == [phase |-> "idle", level |-> "Info", line |-> <<>>, left |-> <<>>, offset |-> 0]
Busy(w) == stmt[w].phase # "idle"
Cells(w, n, size) == [i \in 1..size |-> <<w, n, i, size>>]

TypeOK ==
  /\ stage \in [Programs -> Stages]
  /\ opened \in [Programs -> SUBSET {DefaultLogFile, SharedLogFile}]
  /\ bad \in [Programs -> BOOLEAN]
  /\ \A w \in Writers : stmt[w].phase \in {"idle", "seek", "write", "show"}
  /\ \A w \in Writers : done[w] \in 0..MaxLines[w[2]]
  /\ undefined \subseteq Programs /\ interrupted \subseteq Programs
  /\ \A w \in Writers : silent[w] \cup raced[w] \subseteq 1..MaxLines[w[2]]

Init ==
  /\ stage = [p \in Programs |-> "new"]
  /\ opened = [p \in Programs |-> {}]
  /\ bad = [p \in Programs |-> FALSE]
  /\ stmt = [w \in Writers |-> Idle] /\ done = [w \in Writers |-> 0]
  /\ file = <<>> /\ undefined = {} /\ interrupted = {}
  /\ silent = [w \in Writers |-> {}] /\ raced = [w \in Writers |-> {}]

-----------------------------------------------------------------------------
(* Configuration.                                                          *)

NoDefaultFile(p) == KindOf[p] # "server"

\* Storage and RegisteredLoggers: each logger begins with the defaults; the
\* performance logger gets a format of its own.
Constructed(noDefaultFile, logger) ==
  LET conf == SetFromBase(Empty, SetToDefault(noDefaultFile))
  IN  IF logger = "performance" THEN SetGlobally(conf, "Format", "performance") ELSE conf

\* Mutant: the parameter of ConfigureLogging is left at its default, FALSE.
ProgramConfNoFile(noDefaultFile) == SetToDefault(noDefaultFile)

\* ConfigureLogging(true): defaults and the name of the shared file.
ProgramConf(noDefaultFile) ==
  Set(SetToDefault(noDefaultFile), "Global", "Filename", SharedLogFile)

\* Every configuration there is, before and after reconfigureAllLoggers, and what
\* it is compiled to (constants, which TLC evaluates once, and completely).
Conf ==
  Whole([n \in BOOLEAN |-> [configured \in BOOLEAN |-> [l \in Loggers |->
     IF configured THEN SetFromBase(Constructed(n, l), ProgramConf(n))
                   ELSE Constructed(n, l)]]])
TypedConf ==
  Whole([n \in BOOLEAN |-> [c \in BOOLEAN |-> [l \in Loggers |->
     [o \in SUBSET {DefaultLogFile, SharedLogFile} |-> Build(Conf[n][c][l], l, o)]]]])
IsConfigured(p) == stage[p] \notin {"new", "constructed"}
Typed(p, logger) == TypedConf[NoDefaultFile(p)][IsConfigured(p)][logger][opened[p]]

Advance(p, from, to) == stage[p] = from /\ stage' = [stage EXCEPT ![p] = to]
StatementsUnchanged == UNCHANGED <<bad, stmt, done, file, undefined, interrupted, silent, raced>>

\* newFileStream, for one name: the file can be opened or not.
MayOpen(p, name) == opened' \in {opened, [opened EXCEPT ![p] = @ \cup {name}]}

\* INITIALIZE_EASYLOGGINGPP, before the program's entry.
Construct(p) ==
  /\ Advance(p, "new", "constructed")
  /\ IF NoDefaultFile(p) THEN UNCHANGED opened ELSE MayOpen(p, DefaultLogFile)
  /\ StatementsUnchanged

ConfigureLogging(p) ==
  /\ Advance(p, "constructed", "configured")
  /\ MayOpen(p, SharedLogFile)
  /\ StatementsUnchanged

\* OnConsole registers its own handler for Ctrl-C, after the process has been
\* started, and only then the thread that reads standard input.
RegisterHandler(p) ==
  /\ KindOf[p] = "client" /\ Advance(p, "configured", "guarded")
  /\ UNCHANGED opened /\ StatementsUnchanged

SetupRedirection(p) ==
  /\ Advance(p, "guarded", "redirected")
  /\ UNCHANGED opened /\ StatementsUnchanged

-----------------------------------------------------------------------------
(* One LOG statement.                                                      *)

\* The locks of the library are compiled to nothing: nothing keeps a statement from
\* beginning while another thread is within one.
Collides(p) == \E t \in Threads(p) : Busy(<<p, t>>)

\* initializeLogger: a statement of a disabled level does nothing.
Proceeds(typed, level) == Lookup(typed, "Enabled", level) = "true"

\* Level by level, a line is to be written; it is, if its stream is there and sound.
ToFile(typed, level)    == Proceeds(typed, level) /\ Lookup(typed, "ToFile", level) = "true"
LogFile(typed, level)   == Lookup(typed, "Filename", level)
Writes(p, typed, level) == ToFile(typed, level) /\ LogFile(typed, level) \in opened[p] /\ ~bad[p]
NoStream(typed, level)  == ToFile(typed, level) /\ LogFile(typed, level) = Nothing

\* LogDispatcher: the message becomes a line, and goes to the file or not.
Dispatched(w, typed, level, message) ==
  LET writes == Writes(w[1], typed, level)
  IN  [phase |-> IF writes THEN "seek" ELSE "show", level |-> level,
       line  |-> BuildLine(Lookup(typed, "Format", level), message),
       left  |-> IF writes THEN Cells(w, done[w] + 1, Len(message)) ELSE <<>>, offset |-> 0]

\* Writer up to the file.  A collision, or a stream that is not there, is undefined
\* behaviour; the program ends.
Begin(w, level, message) ==
  \E typed \in {Typed(w[1], "default")} :
    LET p == w[1]
        n == done[w] + 1
    IN  /\ ~Busy(w) /\ n <= MaxLines[w[2]]
        /\ IF Collides(p) \/ NoStream(typed, level)
           THEN /\ undefined' = undefined \cup {p}
                /\ stage' = [stage EXCEPT ![p] = "over"]
                /\ stmt' = [v \in Writers |-> IF v[1] = p THEN Idle ELSE stmt[v]]
                /\ UNCHANGED silent
           ELSE /\ stmt' = [stmt EXCEPT ![w] = Dispatched(w, typed, level, message)]
                /\ silent' = IF Writes(p, typed, level) THEN silent ELSE [silent EXCEPT ![w] = @ \cup {n}]
                /\ UNCHANGED <<stage, undefined>>
        /\ UNCHANGED <<opened, bad, done, file, raced>>

\* The threads' own statements.
Log(w) ==
  /\ \/ w[2] = "main" /\ stage[w[1]] = "configured"
     \/ w[2] = "reader" /\ stage[w[1]] = "redirected"
  /\ \E m \in Messages : Begin(w, m[1], m[2])
  /\ UNCHANGED interrupted

\* CrashHandler takes SIGINT with the others, in every program that is loaded.
LibraryHandles(p) == stage[p] \in {"constructed", "configured"}

\* Ctrl-C comes, and the library's handler is the only one: it logs the reason on
\* a thread of its own ...
Interrupt(p) ==
  /\ KindOf[p] = "client" /\ LibraryHandles(p)
  /\ p \notin interrupted /\ interrupted' = interrupted \cup {p}
  /\ Begin(<<p, "handler">>, "Fatal", <<"crash">>)

\* ... then, as after every fatal message, that it aborts, and aborts.
LogAbort(p) ==
  /\ KindOf[p] = "client" /\ stage[p] # "over" /\ done[<<p, "handler">>] = 1
  /\ Begin(<<p, "handler">>, "Warning", <<"aborting">>)
  /\ UNCHANGED interrupted
Abort(p) ==
  /\ KindOf[p] = "client" /\ stage[p] # "over" /\ done[<<p, "handler">>] = 2
  /\ stage' = [stage EXCEPT ![p] = "over"]
  /\ stmt' = [v \in Writers |-> IF v[1] = p THEN Idle ELSE stmt[v]]
  /\ UNCHANGED <<opened, bad, done, file, undefined, interrupted, silent, raced>>

Goto(w, phase) == stmt' = [stmt EXCEPT ![w].phase = phase]

\* What the stream hands to the C runtime goes to the end of the file as it is
\* now (external) ...
SeekEnd(w) ==
  /\ stmt[w].phase = "seek"
  /\ stmt' = [stmt EXCEPT ![w].phase = "write", ![w].offset = Len(file)]
  /\ UNCHANGED <<stage, opened, bad, done, file, undefined, interrupted, silent, raced>>

Overwrite(text, offset, chunk) ==
  [i \in 1..(IF Len(text) > offset + Len(chunk) THEN Len(text) ELSE offset + Len(chunk)) |->
     IF i \in (offset + 1)..(offset + Len(chunk)) THEN chunk[i - offset] ELSE text[i]]
Others(w) == {v \in Writers \ {w} : stmt[v].phase = "write"}

\* Mutant: what does not fill a buffer is not flushed.
WriteFullBuffers(w) ==
  LET size  == IF Len(stmt[w].left) < BufferSize THEN Len(stmt[w].left) ELSE BufferSize
      rest  == SubSeq(stmt[w].left, size + 1, Len(stmt[w].left))
      racing == IF Others(w) = {} THEN {} ELSE Others(w) \cup {w}
  IN  /\ stmt[w].phase = "write"
      /\ file' = Overwrite(file, stmt[w].offset, SubSeq(stmt[w].left, 1, size))
      /\ stmt' = [stmt EXCEPT ![w].phase = IF Len(rest) < BufferSize THEN "show" ELSE "seek",
                              ![w].left = rest]
      /\ raced' = [v \in Writers |-> IF v \in racing THEN raced[v] \cup {done[v] + 1} ELSE raced[v]]
      /\ UNCHANGED <<stage, opened, bad, done, undefined, interrupted, silent>>

\* ... as it was then, a buffer at a time; the last one is written by the flush
\* that follows every line (external).
WriteFile(w) ==
  LET size  == IF Len(stmt[w].left) < BufferSize THEN Len(stmt[w].left) ELSE BufferSize
      rest  == SubSeq(stmt[w].left, size + 1, Len(stmt[w].left))
      racing == IF Others(w) = {} THEN {} ELSE Others(w) \cup {w}
  IN  /\ stmt[w].phase = "write"
      /\ file' = Overwrite(file, stmt[w].offset, SubSeq(stmt[w].left, 1, size))
      /\ stmt' = [stmt EXCEPT ![w].phase = IF rest = <<>> THEN "show" ELSE "seek",
                              ![w].left = rest]
      /\ raced' = [v \in Writers |-> IF v \in racing THEN raced[v] \cup {done[v] + 1} ELSE raced[v]]
      /\ UNCHANGED <<stage, opened, bad, done, undefined, interrupted, silent>>

\* The disk is full: the stream remembers the failure and writes nothing more.
WriteFails(w) ==
  /\ stmt[w].phase = "write"
  /\ bad' = [bad EXCEPT ![w[1]] = TRUE]
  /\ silent' = [silent EXCEPT ![w] = @ \cup {done[w] + 1}]
  /\ Goto(w, "show")
  /\ UNCHANGED <<stage, opened, done, file, undefined, interrupted, raced>>

\* Standard output, and the end of the statement.
Show(w) ==
  /\ stmt[w].phase = "show"
  /\ stmt' = [stmt EXCEPT ![w] = Idle]
  /\ done' = [done EXCEPT ![w] = @ + 1]
  /\ UNCHANGED <<stage, opened, bad, file, undefined, interrupted, silent, raced>>

\* A program returns, or is killed, wherever its threads are.
End(p) ==
  /\ stage[p] \notin {"new", "over"}
  /\ stage' = [stage EXCEPT ![p] = "over"]
  /\ stmt' = [v \in Writers |-> IF v[1] = p THEN Idle ELSE stmt[v]]
  /\ UNCHANGED <<opened, bad, done, file, undefined, interrupted, silent, raced>>

Next ==
  \/ \E p \in Programs :
       \/ Construct(p) \/ ConfigureLogging(p) \/ RegisterHandler(p) \/ SetupRedirection(p)
       \/ Interrupt(p) \/ LogAbort(p) \/ Abort(p) \/ End(p)
  \/ \E w \in Writers : Log(w) \/ SeekEnd(w) \/ WriteFile(w) \/ WriteFails(w) \/ Show(w)

Spec == Init /\ [][Next]_vars

-----------------------------------------------------------------------------
(* Properties.                                                             *)

\* The calls that configure a logger, in their order; the last one that concerns
\* a level says what the level is set to.
Calls ==
  Whole([n, configured \in BOOLEAN, logger \in Loggers |->
     DefaultCalls(n)
     \o (IF logger = "performance" THEN [i \in DOMAIN Levels |-> <<Levels[i], "Format", "performance">>]
         ELSE <<>>)
     \o (IF configured THEN Append(DefaultCalls(n), <<"Global", "Filename", SharedLogFile>>)
         ELSE <<>>)])
Intended(calls, type, level) ==
  LET about == {i \in DOMAIN calls : calls[i][2] = type /\ calls[i][1] \in {"Global", level}}
  IN  IF about = {} THEN Nothing ELSE calls[CHOOSE i \in about : \A j \in about : j <= i][3]
IntendedConf ==
  Whole([n, c \in BOOLEAN, logger \in Loggers, type \in ConfigurationTypes, level \in ToSet(Levels) |->
     Intended(Calls[n, c, logger], type, level)])

\* What a logger looks up for a level is what was set for it last, after the
\* lists have been copied entry by entry, compiled, and compiled again; only a
\* file that cannot be opened turns ToFile off, and then for all levels.
AgreeTable ==
  Whole([n, c \in BOOLEAN, o \in SUBSET {DefaultLogFile, SharedLogFile} |->
     \A logger \in Loggers, level \in ToSet(Levels), type \in ConfigurationTypes :
       LET found    == Lookup(TypedConf[n][c][logger][o], type, level)
           intended == IntendedConf[n, c, logger, type, level]
           writable == IntendedConf[n, c, logger, "Filename", level] \in o \cup {Nothing}
       IN  CASE type = "Format" -> found.userFormat = intended
             [] type = "ToFile" -> found = IF writable THEN "true" ELSE "false"
             [] OTHER -> found = intended])
LookupAgrees ==
  \A p \in Programs :
    stage[p] # "new" => AgreeTable[NoDefaultFile(p), IsConfigured(p), opened[p]]

\* A line tells its level and its logger, and its message is not changed even if
\* it looks like a format: replacing one specifier after the other, some when the
\* logger is configured, amounts to replacing all at once.
Replaced(token, level, message) ==
  CASE token = "%datetime" -> <<"now">>
    [] token = "%level"    -> <<LevelName[level]>>
    [] token = "%logger"   -> <<"default">>
    [] token = "%msg"      -> message
LinesReadable ==
  \A w \in Writers : Busy(w) =>
    \E message \in {m[2] : m \in Messages} \cup {<<"crash">>, <<"aborting">>} :
      stmt[w].line = FlattenSeq([i \in DOMAIN Formats.default |->
                                   Replaced(Formats.default[i], stmt[w].level, message)])

\* Nobody logs to a stream that is not there or beside another thread of the
\* program, except after a Ctrl-C that came before OnConsole had its handler.
DefinedUnlessInterrupted == undefined \subseteq interrupted

\* Every line whose statement has ended is in the file, once, whole and after the
\* earlier lines of its thread, wherever its program ends and whatever the others
\* do, unless it could not be written or another program wrote at the same time.
Clean(w, n) == n \notin silent[w] \cup raced[w]
IsOf(i, w, n) == file[i][1] = w /\ file[i][2] = n
Before(c, d) == c[2] < d[2] \/ (c[2] = d[2] /\ c[3] < d[3])
FileHasLines ==
  \A w \in Writers :
    /\ \A n \in 1..done[w] : Clean(w, n) =>
         \E size \in {1} \cup {Len(m[2]) : m \in Messages} :
           {file[i] : i \in {j \in DOMAIN file : IsOf(j, w, n)}} = {<<w, n, k, size>> : k \in 1..size}
    /\ \A i, j \in DOMAIN file :
         /\ i < j /\ file[i][1] = w /\ file[j][1] = w
         /\ Clean(w, file[i][2]) /\ Clean(w, file[j][2])
         => Before(file[i], file[j])
=============================================================================
