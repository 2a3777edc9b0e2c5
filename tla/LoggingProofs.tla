---------------------------- MODULE LoggingProofs -----------------------------
(***************************************************************************)
(* Proofs about the log, for any number of programs, any LOG statements,   *)
(* any size of the runtime's buffer, whichever writes fail and wherever    *)
(* programs end: the shared file has every line it should have, lines are  *)
(* what their messages say, and what is not defined follows a Ctrl-C.      *)
(***************************************************************************)
EXTENDS Logging, FlattenLemmas

-----------------------------------------------------------------------------
(* The inductive invariant.                                                *)

\* Lengths that a message can have, and units of lines.
Sizes == {1} \cup {Len(m[2]) : m \in Messages}
Units == Writers \X (Nat \ {0}) \X (Nat \ {0}) \X Sizes

Phases == {"idle", "seek", "write", "show"}

\* A statement, without the line it made.
Statement(s) ==
  /\ s.phase \in Phases /\ s.left \in Seq(Units) /\ s.offset \in Nat
  /\ s \in [phase : Phases, level : {s.level}, line : {s.line}, left : Seq(Units), offset : Nat]

Typing ==
  /\ stage \in [Programs -> Stages]
  /\ stmt = [w \in Writers |-> stmt[w]] /\ \A w \in Writers : Statement(stmt[w])
  /\ done \in [Writers -> Nat]
  /\ file \in Seq(Units)
  /\ silent \in [Writers -> SUBSET Nat] /\ raced \in [Writers -> SUBSET Nat]

\* Nobody writes, and nothing is said of a next line, once a program is over.
OverIsOver == \A w \in Writers : stage[w[1]] = "over" => ~Busy(w)

\* No unit is of a line that has not begun.
NoEarlyUnits ==
  \A i \in DOMAIN file :
    LET w == file[i][1]
    IN  /\ file[i][2] <= done[w] + 1
        /\ ~Busy(w) /\ stage[w[1]] # "over" => file[i][2] <= done[w]

\* What follows the place where a buffer is to be written is of raced lines.
TailRaced ==
  \A v \in Writers : stmt[v].phase = "write" =>
    /\ stmt[v].offset <= Len(file)
    /\ \A i \in DOMAIN file : i > stmt[v].offset => ~Clean(file[i][1], file[i][2])

\* The first m units of a line of that size are in the text, and no others of it.
Has(text, w, n, size, m) ==
  /\ \A i \in DOMAIN text : text[i][1] = w /\ text[i][2] = n => text[i][3] \in 1..m /\ text[i][4] = size
  /\ \A k \in 1..m : \E i \in DOMAIN text : text[i] = <<w, n, k, size>>

\* The units of a finished line, and those of the line being written.
FinishedLines ==
  \A w \in Writers : \A n \in 1..done[w] :
    Clean(w, n) => \E size \in Sizes : Has(file, w, n, size, size)
CurrentLines ==
  \A w \in Writers : Busy(w) =>
    \E size \in Sizes :
      LET m == size - Len(stmt[w].left)
      IN  /\ m >= 0
          /\ \A i \in DOMAIN stmt[w].left : stmt[w].left[i] = <<w, done[w] + 1, m + i, size>>
          /\ Clean(w, done[w] + 1) => Has(file, w, done[w] + 1, size, m)
          /\ stmt[w].phase = "show" /\ Clean(w, done[w] + 1) => m = size

\* The units of the clean lines of a thread are in order.
InOrder ==
  \A i, j \in DOMAIN file :
    /\ i < j /\ file[i][1] = file[j][1]
    /\ Clean(file[i][1], file[i][2]) /\ Clean(file[j][1], file[j][2])
    => Before(file[i], file[j])

FileInv == OverIsOver /\ NoEarlyUnits /\ TailRaced /\ FinishedLines /\ CurrentLines /\ InOrder

-----------------------------------------------------------------------------
(* Facts about the constants and about Overwrite.                          *)

\* A writer is a thread of a program.
LEMMA WriterShape ==
  \A w \in Writers :
    /\ w[1] \in Programs /\ w = <<w[1], w[2]>>
    /\ w[2] \in Threads(w[1]) /\ w[2] \in {"main", "reader", "handler"}
<1> QED BY DEF Writers, Threads

\* A program's threads are writers.
LEMMA ThreadIsWriter ==
  \A p \in Programs : \A t \in Threads(p) : <<p, t>> \in Writers
<1> QED BY DEF Writers

\* Messages have at least one unit.
LEMMA SizesPositive == Sizes \subseteq Nat \ {0} /\ 1 \in Sizes
<1>1. ASSUME NEW m \in Messages PROVE Len(m[2]) \in Nat \ {0}
  <2>1. m[2] \in Seq(STRING) \ {<<>>} BY LoggingAssumption
  <2> QED BY <2>1, EmptySeq, LenProperties
<1> QED BY <1>1 DEF Sizes

\* What a position of the file holds after a buffer has been written over it.
LEMMA OverwriteFacts ==
  ASSUME NEW S, NEW text \in Seq(S), NEW chunk \in Seq(S),
         NEW offset \in Nat, offset <= Len(text)
  PROVE  LET new == Overwrite(text, offset, chunk)
         IN  /\ new \in Seq(S) /\ Len(new) >= Len(text)
             /\ \A i \in DOMAIN new :
                  \/ /\ i \in offset + 1 .. offset + Len(chunk)
                     /\ new[i] = chunk[i - offset]
                  \/ /\ i \in DOMAIN text /\ i \notin offset + 1 .. offset + Len(chunk)
                     /\ new[i] = text[i]
             /\ \A i \in 1..offset : i \in DOMAIN new /\ new[i] = text[i]
             /\ \A k \in 1..Len(chunk) : offset + k \in DOMAIN new /\ new[offset + k] = chunk[k]
<1> DEFINE n == IF Len(text) > offset + Len(chunk) THEN Len(text) ELSE offset + Len(chunk)
           new == Overwrite(text, offset, chunk)
<1>1. n \in Nat /\ n >= Len(text) /\ n >= offset + Len(chunk) /\ Len(chunk) \in Nat /\ Len(text) \in Nat
  BY LenProperties
<1>2. new = [i \in 1..n |-> IF i \in (offset + 1)..(offset + Len(chunk)) THEN chunk[i - offset] ELSE text[i]]
  BY DEF Overwrite
<1>3. n = Len(text) \/ n = offset + Len(chunk)
  OBVIOUS
<1> HIDE DEF n, new
<1>4. DOMAIN new = 1..n /\ DOMAIN text = 1..Len(text) BY <1>2, LenProperties
<1>5. ASSUME NEW i \in 1..n
      PROVE  \/ /\ i \in offset + 1 .. offset + Len(chunk)
                /\ new[i] = chunk[i - offset] /\ i - offset \in 1..Len(chunk)
             \/ /\ i \in 1..Len(text) /\ i \notin offset + 1 .. offset + Len(chunk)
                /\ new[i] = text[i]
  <2>1. CASE i \in offset + 1 .. offset + Len(chunk) BY <1>1, <1>2, <2>1
  <2>2. CASE i \notin offset + 1 .. offset + Len(chunk)
    <3>1. i \in 1..Len(text) BY <1>1, <1>3, <2>2
    <3> QED BY <1>2, <2>2, <3>1
  <2> QED BY <2>1, <2>2
<1>6. \A i \in 1..n : new[i] \in S
  BY <1>5, ElementOfSeq
<1>7. new \in Seq(S) /\ Len(new) = n
  <2>1. new \in [1..n -> S] BY <1>2, <1>6
  <2> QED BY <1>1, <2>1, SeqDef, LenProperties
<1>8. \A i \in 1..offset : i \in DOMAIN new /\ new[i] = text[i]
  BY <1>1, <1>4, <1>5
<1>9. \A k \in 1..Len(chunk) : offset + k \in DOMAIN new /\ new[offset + k] = chunk[k]
  BY <1>1, <1>2, <1>4
<1> QED BY <1>1, <1>4, <1>5, <1>7, <1>8, <1>9 DEF new

-----------------------------------------------------------------------------
(* The kinds of steps.                                                     *)

\* A step that configures a program and touches no statement.
Quiet ==
  /\ UNCHANGED <<stmt, done, file, silent, raced>>
  /\ stage' \in [Programs -> Stages]
  /\ \A p \in Programs : stage'[p] = "over" <=> stage[p] = "over"

\* A program is over, by itself or by undefined behaviour.
Ends(p) ==
  /\ stage' = [stage EXCEPT ![p] = "over"]
  /\ stmt' = [v \in Writers |-> IF v[1] = p THEN Idle ELSE stmt[v]]
  /\ UNCHANGED <<done, file, silent, raced>>

\* A statement begins, with a line for the file or without.
Starts(w, level, message, writes) ==
  /\ stage[w[1]] # "over" /\ ~Busy(w)
  /\ \E line :
       stmt' = [stmt EXCEPT ![w] =
         [phase |-> IF writes THEN "seek" ELSE "show", level |-> level, line |-> line,
          left |-> IF writes THEN Cells(w, done[w] + 1, Len(message)) ELSE <<>>, offset |-> 0]]
  /\ silent' = IF writes THEN silent ELSE [silent EXCEPT ![w] = @ \cup {done[w] + 1}]
  /\ UNCHANGED <<stage, done, file, raced>>

\* Every step is of one kind.
StepKind ==
  \/ Quiet
  \/ \E p \in Programs : Ends(p)
  \/ \E w \in Writers, writes \in BOOLEAN : \E level, message :
       Len(message) \in Sizes /\ Starts(w, level, message, writes)
  \/ \E w \in Writers : SeekEnd(w) \/ WriteFile(w) \/ WriteFails(w) \/ Show(w)

\* What Begin does.
LEMMA BeginKind ==
  ASSUME NEW w \in Writers, NEW level, NEW message, Begin(w, level, message),
         stage[w[1]] # "over"
  PROVE  Ends(w[1]) \/ \E writes \in BOOLEAN : Starts(w, level, message, writes)
<1>1. PICK typed : typed \in {Typed(w[1], "default")} /\
         (/\ ~Busy(w)
          /\ IF Collides(w[1]) \/ NoStream(typed, level)
             THEN /\ undefined' = undefined \cup {w[1]}
                  /\ stage' = [stage EXCEPT ![w[1]] = "over"]
                  /\ stmt' = [v \in Writers |-> IF v[1] = w[1] THEN Idle ELSE stmt[v]]
                  /\ UNCHANGED silent
             ELSE /\ stmt' = [stmt EXCEPT ![w] = Dispatched(w, typed, level, message)]
                  /\ silent' = IF Writes(w[1], typed, level) THEN silent
                               ELSE [silent EXCEPT ![w] = @ \cup {done[w] + 1}]
                  /\ UNCHANGED <<stage, undefined>>
          /\ UNCHANGED <<opened, bad, done, file, raced>>)
  BY DEF Begin
<1>2. CASE Collides(w[1]) \/ NoStream(typed, level)
  BY <1>1, <1>2 DEF Ends
<1>3. CASE ~(Collides(w[1]) \/ NoStream(typed, level))
  <2> DEFINE writes == Writes(w[1], typed, level)
             line == BuildLine(Lookup(typed, "Format", level), message)
  <2>1. writes \in BOOLEAN BY DEF Writes, ToFile, Proceeds
  <2>2. Dispatched(w, typed, level, message) =
          [phase |-> IF writes THEN "seek" ELSE "show", level |-> level, line |-> line,
           left |-> IF writes THEN Cells(w, done[w] + 1, Len(message)) ELSE <<>>, offset |-> 0]
    BY DEF Dispatched
  <2> HIDE DEF writes, line
  <2>3. Starts(w, level, message, writes)
    BY <1>1, <1>3, <2>2 DEF Starts, writes
  <2> QED BY <2>1, <2>3
<1> QED BY <1>2, <1>3

\* Each action is of its kind.
LEMMA StepIsOfKind ==
  ASSUME Typing, Next
  PROVE  StepKind
<1> USE DEF Typing
<1>1. ASSUME NEW p \in Programs,
             Construct(p) \/ ConfigureLogging(p) \/ RegisterHandler(p) \/ SetupRedirection(p)
      PROVE  Quiet
  BY <1>1 DEF Construct, ConfigureLogging, RegisterHandler, SetupRedirection, Advance,
              StatementsUnchanged, Quiet, Stages
<1>2. ASSUME NEW p \in Programs, Abort(p) \/ End(p) PROVE Ends(p)
  BY <1>2 DEF Abort, End, Ends
<1>3. ASSUME NEW p \in Programs, Interrupt(p) \/ LogAbort(p) PROVE StepKind
  <2>1. <<p, "handler">> \in Writers /\ stage[p] # "over"
    BY <1>3, ThreadIsWriter DEF Interrupt, LogAbort, Threads, LibraryHandles
  <2>2. PICK level, message : Begin(<<p, "handler">>, level, message) /\ Len(message) = 1
    BY <1>3 DEF Interrupt, LogAbort
  <2>3. Len(message) \in Sizes BY <2>2, SizesPositive
  <2>4. Ends(p) \/ \E writes \in BOOLEAN : Starts(<<p, "handler">>, level, message, writes)
    BY <2>1, <2>2, BeginKind
  <2>5. CASE Ends(p) BY <2>5 DEF StepKind
  <2>6. CASE \E writes \in BOOLEAN : Starts(<<p, "handler">>, level, message, writes)
    BY <2>1, <2>3, <2>6 DEF StepKind
  <2> QED BY <2>4, <2>5, <2>6
<1>4. ASSUME NEW w \in Writers, Log(w) PROVE StepKind
  <2>1. PICK m \in Messages : Begin(w, m[1], m[2]) BY <1>4 DEF Log
  <2>2. stage[w[1]] # "over" /\ Len(m[2]) \in Sizes BY <1>4 DEF Log, Sizes
  <2>3. CASE Ends(w[1]) BY <2>3, WriterShape DEF StepKind
  <2>4. CASE \E writes \in BOOLEAN : Starts(w, m[1], m[2], writes)
    BY <2>2, <2>4 DEF StepKind
  <2> QED BY <2>1, <2>2, <2>3, <2>4, BeginKind
<1> QED BY <1>1, <1>2, <1>3, <1>4 DEF Next, StepKind

-----------------------------------------------------------------------------
(* Types.                                                                  *)

\* The units of a line that has begun.
LEMMA CellsType ==
  ASSUME NEW w \in Writers, NEW n \in Nat \ {0}, NEW size \in Sizes
  PROVE  /\ Cells(w, n, size) \in Seq(Units) /\ Len(Cells(w, n, size)) = size
         /\ \A i \in 1..size : Cells(w, n, size)[i] = <<w, n, i, size>>
<1>1. size \in Nat BY SizesPositive
<1>2. Cells(w, n, size) \in [1..size -> Units] BY <1>1 DEF Cells, Units
<1> QED BY <1>1, <1>2, SeqDef, LenProperties DEF Cells

\* Statements keep their types if the one of a thread is replaced by a typed one.
LEMMA ReplaceStatement ==
  ASSUME NEW w \in Writers, stmt = [v \in Writers |-> stmt[v]], \A v \in Writers : Statement(stmt[v]),
         NEW s, Statement(s), stmt' = [stmt EXCEPT ![w] = s]
  PROVE  /\ (stmt = [v \in Writers |-> stmt[v]])' /\ (\A v \in Writers : Statement(stmt[v]))'
         /\ stmt'[w] = s /\ \A v \in Writers \ {w} : stmt'[v] = stmt[v]
<1>1. stmt' = [v \in Writers |-> IF v = w THEN s ELSE stmt[v]] OBVIOUS
<1>2. \A v \in Writers : stmt'[v] = IF v = w THEN s ELSE stmt[v] BY <1>1
<1>3. stmt' = [v \in Writers |-> stmt'[v]] BY <1>1
<1>4. \A v \in Writers : Statement(stmt'[v]) BY <1>2
<1> QED BY <1>2, <1>3, <1>4 DEF Statement

\* A statement that begins.
LEMMA StartsFacts ==
  ASSUME Typing, NEW w \in Writers, NEW writes \in BOOLEAN, NEW level, NEW message,
         Len(message) \in Sizes, Starts(w, level, message, writes)
  PROVE  /\ Typing'
         /\ stmt'[w].phase = IF writes THEN "seek" ELSE "show"
         /\ stmt'[w].left = IF writes THEN Cells(w, done[w] + 1, Len(message)) ELSE <<>>
         /\ \A v \in Writers \ {w} : stmt'[v] = stmt[v]
         /\ \A v \in Writers : silent'[v] = IF v = w /\ ~writes THEN silent[v] \cup {done[v] + 1}
                                            ELSE silent[v]
<1>1. PICK line :
       stmt' = [stmt EXCEPT ![w] =
         [phase |-> IF writes THEN "seek" ELSE "show", level |-> level, line |-> line,
          left |-> IF writes THEN Cells(w, done[w] + 1, Len(message)) ELSE <<>>, offset |-> 0]]
  BY DEF Starts
<1> DEFINE left == IF writes THEN Cells(w, done[w] + 1, Len(message)) ELSE <<>>
           s == [phase |-> IF writes THEN "seek" ELSE "show", level |-> level, line |-> line,
                 left |-> left, offset |-> 0]
<1>2. left \in Seq(Units)
  <2>1. done[w] + 1 \in Nat \ {0} BY DEF Typing
  <2>2. Cells(w, done[w] + 1, Len(message)) \in Seq(Units) BY <2>1, CellsType
  <2>3. <<>> \in Seq(Units) BY EmptySeq
  <2> QED BY <2>2, <2>3
<1> HIDE DEF left
<1>3. Statement(s) BY <1>2 DEF Statement, Phases
<1>4. stmt' = [stmt EXCEPT ![w] = s] BY <1>1 DEF left
<1> HIDE DEF s
<1>5. /\ (stmt = [v \in Writers |-> stmt[v]])' /\ (\A v \in Writers : Statement(stmt[v]))'
      /\ stmt'[w] = s /\ \A v \in Writers \ {w} : stmt'[v] = stmt[v]
  BY <1>3, <1>4, ReplaceStatement DEF Typing
<1>6. \A v \in Writers : silent'[v] = IF v = w /\ ~writes THEN silent[v] \cup {done[v] + 1}
                                      ELSE silent[v]
  BY DEF Starts, Typing
<1>7. silent' \in [Writers -> SUBSET Nat]
  <2>1. silent' = [v \in Writers |-> silent'[v]] BY DEF Starts, Typing
  <2>2. \A v \in Writers : silent'[v] \subseteq Nat
    <3> TAKE v \in Writers
    <3>1. silent[v] \subseteq Nat /\ done[v] + 1 \in Nat BY DEF Typing
    <3>2. silent'[v] = silent[v] \cup {done[v] + 1} \/ silent'[v] = silent[v] BY <1>6
    <3> QED BY <3>1, <3>2
  <2> QED BY <2>1, <2>2
<1>8. UNCHANGED <<stage, done, file, raced>> BY DEF Starts
<1>9. Typing' BY <1>5, <1>7, <1>8 DEF Typing
<1>10. stmt'[w].phase = (IF writes THEN "seek" ELSE "show") /\ stmt'[w].left = left
  BY <1>5 DEF s
<1> QED BY <1>5, <1>6, <1>9, <1>10 DEF left

\* A buffer is about to be written.
LEMMA SeekFacts ==
  ASSUME Typing, NEW w \in Writers, SeekEnd(w)
  PROVE  /\ Typing'
         /\ stmt'[w].phase = "write" /\ stmt'[w].left = stmt[w].left /\ stmt'[w].offset = Len(file)
         /\ \A v \in Writers \ {w} : stmt'[v] = stmt[v]
<1> DEFINE s == [stmt[w] EXCEPT !.phase = "write", !.offset = Len(file)]
<1>1. Len(file) \in Nat BY LenProperties DEF Typing
<1>2. /\ Statement(s) /\ s.phase = "write" /\ s.left = stmt[w].left /\ s.offset = Len(file)
  BY <1>1 DEF Typing, Statement, Phases
<1>3. stmt' = [stmt EXCEPT ![w] = s] BY DEF SeekEnd
<1> HIDE DEF s
<1> QED BY <1>2, <1>3, ReplaceStatement DEF Typing, SeekEnd

\* A write that fails.
LEMMA FailsFacts ==
  ASSUME Typing, NEW w \in Writers, WriteFails(w)
  PROVE  /\ Typing'
         /\ stmt'[w].phase = "show" /\ stmt'[w].left = stmt[w].left
         /\ \A v \in Writers \ {w} : stmt'[v] = stmt[v]
         /\ \A v \in Writers : silent'[v] = IF v = w THEN silent[v] \cup {done[v] + 1} ELSE silent[v]
<1> DEFINE s == [stmt[w] EXCEPT !.phase = "show"]
<1>1. Statement(s) /\ s.phase = "show" /\ s.left = stmt[w].left
  BY DEF Typing, Statement, Phases
<1>2. stmt' = [stmt EXCEPT ![w] = s] BY DEF WriteFails, Goto
<1> HIDE DEF s
<1>3. \A v \in Writers : silent'[v] = IF v = w THEN silent[v] \cup {done[v] + 1} ELSE silent[v]
  BY DEF WriteFails, Typing
<1>4. silent' \in [Writers -> SUBSET Nat]
  <2>1. silent' = [v \in Writers |-> silent'[v]] BY DEF WriteFails, Typing
  <2>2. \A v \in Writers : silent'[v] \subseteq Nat
    <3> TAKE v \in Writers
    <3>1. silent[v] \subseteq Nat /\ done[v] + 1 \in Nat BY DEF Typing
    <3>2. silent'[v] = silent[v] \cup {done[v] + 1} \/ silent'[v] = silent[v] BY <1>3
    <3> QED BY <3>1, <3>2
  <2> QED BY <2>1, <2>2
<1> QED BY <1>1, <1>2, <1>3, <1>4, ReplaceStatement DEF Typing, WriteFails

\* The end of a statement.
LEMMA ShowFacts ==
  ASSUME Typing, NEW w \in Writers, Show(w)
  PROVE  /\ Typing'
         /\ stmt'[w].phase = "idle"
         /\ \A v \in Writers \ {w} : stmt'[v] = stmt[v]
         /\ \A v \in Writers : done'[v] = IF v = w THEN done[v] + 1 ELSE done[v]
<1>1. Statement(Idle) /\ Idle.phase = "idle"
  BY EmptySeq DEF Statement, Idle, Phases
<1>2. \A v \in Writers : done'[v] = IF v = w THEN done[v] + 1 ELSE done[v]
  BY DEF Show, Typing
<1>3. done' \in [Writers -> Nat] BY DEF Show, Typing
<1> QED BY <1>1, <1>2, <1>3, ReplaceStatement DEF Typing, Show

\* The end of a program.
LEMMA EndsFacts ==
  ASSUME Typing, NEW p \in Programs, Ends(p)
  PROVE  /\ Typing'
         /\ \A q \in Programs : stage'[q] = IF q = p THEN "over" ELSE stage[q]
         /\ \A v \in Writers : IF v[1] = p THEN stmt'[v].phase = "idle" ELSE stmt'[v] = stmt[v]
<1>1. Statement(Idle) /\ Idle.phase = "idle"
  BY EmptySeq DEF Statement, Idle, Phases
<1>2. \A v \in Writers : stmt'[v] = IF v[1] = p THEN Idle ELSE stmt[v] BY DEF Ends
<1>3. stmt' = [v \in Writers |-> stmt'[v]] BY DEF Ends
<1>4. \A v \in Writers : Statement(stmt'[v]) BY <1>1, <1>2 DEF Typing
<1>5. \A q \in Programs : stage'[q] = IF q = p THEN "over" ELSE stage[q] BY DEF Typing, Ends
<1>6. stage' \in [Programs -> Stages] BY DEF Typing, Ends, Stages
<1> QED BY <1>1, <1>2, <1>3, <1>4, <1>5, <1>6 DEF Typing, Ends, Statement

\* A buffer of a line is written.
LEMMA WriteFacts ==
  ASSUME Typing, NEW w \in Writers, WriteFile(w), stmt[w].offset <= Len(file)
  PROVE  LET left == stmt[w].left
             off  == stmt[w].offset
         IN \E size \in 0..Len(left) :
              /\ Typing'
              /\ Len(stmt'[w].left) = Len(left) - size
              /\ \A i \in 1..(Len(left) - size) : stmt'[w].left[i] = left[size + i]
              /\ \/ stmt'[w].phase = "seek"
                 \/ stmt'[w].phase = "show" /\ size = Len(left)
              /\ \A v \in Writers \ {w} : stmt'[v] = stmt[v]
              /\ \A i \in DOMAIN file' :
                   \/ /\ i - off \in 1..size /\ i > off
                      /\ file'[i] = left[i - off]
                   \/ /\ i \in DOMAIN file /\ (i <= off \/ i > off + size)
                      /\ file'[i] = file[i]
              /\ \A i \in 1..off : i \in DOMAIN file' /\ file'[i] = file[i]
              /\ \A k \in 1..size : off + k \in DOMAIN file' /\ file'[off + k] = left[k]
              /\ Len(file) <= Len(file')
<1> DEFINE left == stmt[w].left
           off  == stmt[w].offset
           size == IF Len(left) < BufferSize THEN Len(left) ELSE BufferSize
           rest == SubSeq(left, size + 1, Len(left))
           chunk == SubSeq(left, 1, size)
           s == [stmt[w] EXCEPT !.phase = IF rest = <<>> THEN "show" ELSE "seek", !.left = rest]
           racing == IF Others(w) = {} THEN {} ELSE Others(w) \cup {w}
<1>1. /\ left \in Seq(Units) /\ off \in Nat /\ file \in Seq(Units)
      /\ Len(left) \in Nat /\ Len(file) \in Nat
  BY LenProperties DEF Typing, Statement
<1>2. size \in 0..Len(left)
  BY <1>1, LoggingAssumption
<1>3. /\ stmt' = [stmt EXCEPT ![w] = s]
      /\ file' = Overwrite(file, off, chunk)
      /\ raced' = [v \in Writers |-> IF v \in racing THEN raced[v] \cup {done[v] + 1} ELSE raced[v]]
      /\ UNCHANGED <<stage, done, silent>>
  BY DEF WriteFile
<1> HIDE DEF size
<1>4. /\ rest \in Seq(Units) /\ Len(rest) = Len(left) - size
      /\ \A i \in 1..(Len(left) - size) : rest[i] = left[size + i]
  <2>1. rest \in Seq(Units) /\ Len(rest) = Len(left) - size
    BY <1>1, <1>2, SubSeqProperties
  <2>2. \A i \in 1..(Len(left) - size) : rest[i] = left[size + i]
    BY <1>1, <1>2, SubSeqProperties
  <2> QED BY <2>1, <2>2
<1>5. chunk \in Seq(Units) /\ Len(chunk) = size /\ \A k \in 1..size : chunk[k] = left[k]
  BY <1>1, <1>2, SubSeqProperties
<1> HIDE DEF rest, chunk
<1>6. rest = <<>> => size = Len(left)
  BY <1>1, <1>2, <1>4, EmptySeq
<1>7. /\ Statement(s) /\ s.left = rest
      /\ s.phase = IF rest = <<>> THEN "show" ELSE "seek"
  BY <1>4 DEF Typing, Statement, Phases
<1> HIDE DEF s
<1>8. /\ (stmt = [v \in Writers |-> stmt[v]])' /\ (\A v \in Writers : Statement(stmt[v]))'
      /\ stmt'[w] = s /\ \A v \in Writers \ {w} : stmt'[v] = stmt[v]
  BY <1>3, <1>7, ReplaceStatement DEF Typing
<1>9. /\ file' \in Seq(Units) /\ Len(file) <= Len(file')
      /\ \A i \in DOMAIN file' :
           \/ i \in off + 1 .. off + size /\ file'[i] = chunk[i - off]
           \/ i \in DOMAIN file /\ i \notin off + 1 .. off + size /\ file'[i] = file[i]
      /\ \A i \in 1..off : i \in DOMAIN file' /\ file'[i] = file[i]
      /\ \A k \in 1..size : off + k \in DOMAIN file' /\ file'[off + k] = chunk[k]
  <2> HIDE DEF off
  <2>1. off <= Len(file) BY DEF off
  <2> QED BY <1>1, <1>3, <1>5, <2>1, OverwriteFacts
<1>10. raced' \in [Writers -> SUBSET Nat]
  <2>1. \A v \in Writers : raced[v] \subseteq Nat /\ done[v] + 1 \in Nat BY DEF Typing
  <2> HIDE DEF racing
  <2> QED BY <1>3, <2>1
<1>11. Typing' BY <1>3, <1>8, <1>9, <1>10 DEF Typing
<1>12. \A i \in DOMAIN file' :
         \/ /\ i - off \in 1..size /\ i > off
            /\ file'[i] = left[i - off]
         \/ /\ i \in DOMAIN file /\ (i <= off \/ i > off + size)
            /\ file'[i] = file[i]
  <2> TAKE i \in DOMAIN file'
  <2>1. i \in Nat BY <1>9, LenProperties
  <2>2. CASE i \in off + 1 .. off + size /\ file'[i] = chunk[i - off]
    <3>1. i - off \in 1..size /\ i > off BY <1>1, <1>2, <2>1, <2>2
    <3> QED BY <1>5, <2>2, <3>1
  <2>3. CASE i \in DOMAIN file /\ i \notin off + 1 .. off + size /\ file'[i] = file[i]
    BY <1>1, <1>2, <2>1, <2>3
  <2> HIDE DEF off, left
  <2> QED BY <1>9, <2>2, <2>3
<1>13. \A k \in 1..size : off + k \in DOMAIN file' /\ file'[off + k] = left[k]
  BY <1>5, <1>9
<1> HIDE DEF left, off
<1> QED BY <1>2, <1>4, <1>6, <1>7, <1>8, <1>9, <1>11, <1>12, <1>13 DEF left, off

-----------------------------------------------------------------------------
(* Each kind of step keeps the invariant.                                  *)

\* A unit in the file is of a writer, a line and a position.
LEMMA UnitShape ==
  ASSUME Typing
  PROVE  \A i \in DOMAIN file :
           /\ file[i][1] \in Writers /\ file[i][2] \in Nat \ {0} /\ file[i][3] \in Nat \ {0}
           /\ file[i][4] \in Sizes
           /\ file[i] = <<file[i][1], file[i][2], file[i][3], file[i][4]>>
<1>1. \A i \in DOMAIN file : file[i] \in Units BY ElementOfSeq, LenProperties DEF Typing
<1> QED BY <1>1 DEF Units

\* A line is not cleared of what it has met.
CleanShrinks == \A w \in Writers : \A n \in Nat : Clean(w, n)' => Clean(w, n)

\* While the file stays as it is, the order of its clean lines does.
LEMMA FileUnchanged ==
  ASSUME Typing, file' = file, CleanShrinks
  PROVE  InOrder => InOrder'
<1>1. ASSUME InOrder PROVE InOrder'
  BY <1>1, UnitShape DEF InOrder, Before, CleanShrinks
<1> QED BY <1>1

\* Configuring.
LEMMA QuietKeeps == ASSUME Typing, FileInv, Quiet PROVE Typing' /\ FileInv'
<1>1. Typing' BY DEF Quiet, Typing, Statement
<1>2. CleanShrinks BY DEF Quiet, CleanShrinks, Clean
<1>3. InOrder' BY <1>2, FileUnchanged DEF FileInv, Quiet
<1>4. OverIsOver'
  BY WriterShape DEF FileInv, Quiet, OverIsOver, Busy
<1>5. NoEarlyUnits'
  BY WriterShape, UnitShape DEF FileInv, Quiet, NoEarlyUnits, Busy
<1>6. TailRaced' BY DEF FileInv, Quiet, TailRaced, Clean
<1>7. FinishedLines' BY DEF FileInv, Quiet, FinishedLines, Clean, Has, IsOf
<1>8. CurrentLines' BY DEF FileInv, Quiet, CurrentLines, Clean, Has, IsOf, Busy
<1> QED BY <1>1, <1>3, <1>4, <1>5, <1>6, <1>7, <1>8 DEF FileInv

\* The end of a program: what it has not written is not written any more.
LEMMA EndKeeps ==
  ASSUME Typing, FileInv, NEW p \in Programs, Ends(p)
  PROVE  Typing' /\ FileInv'
<1>1. /\ Typing'
      /\ \A q \in Programs : stage'[q] = IF q = p THEN "over" ELSE stage[q]
      /\ \A v \in Writers : IF v[1] = p THEN stmt'[v].phase = "idle" ELSE stmt'[v] = stmt[v]
  BY EndsFacts
<1>2. UNCHANGED <<done, file, silent, raced>> BY DEF Ends
<1>3. CleanShrinks BY <1>2 DEF CleanShrinks, Clean
<1>4. InOrder'
  BY <1>2, <1>3, FileUnchanged DEF FileInv
<1>5. OverIsOver' BY <1>1, WriterShape DEF FileInv, OverIsOver, Busy
<1>6. NoEarlyUnits'
  BY <1>1, <1>2, WriterShape, UnitShape DEF FileInv, NoEarlyUnits, Busy
<1>7. TailRaced'
  BY <1>1, <1>2 DEF FileInv, TailRaced, Clean
<1>8. FinishedLines' BY <1>2 DEF FileInv, FinishedLines, Clean
<1>9. CurrentLines'
  <2> SUFFICES ASSUME NEW w \in Writers, Busy(w)'
               PROVE  (\E size \in Sizes :
                        LET m == size - Len(stmt[w].left)
                        IN  /\ m >= 0
                            /\ \A i \in DOMAIN stmt[w].left : stmt[w].left[i] = <<w, done[w] + 1, m + i, size>>
                            /\ Clean(w, done[w] + 1) => Has(file, w, done[w] + 1, size, m)
                            /\ stmt[w].phase = "show" /\ Clean(w, done[w] + 1) => m = size)'
    BY DEF CurrentLines
  <2>1. stmt'[w] = stmt[w] BY <1>1 DEF Busy
  <2> QED BY <1>2, <2>1 DEF FileInv, CurrentLines, Busy, Clean
<1> QED BY <1>1, <1>4, <1>5, <1>6, <1>7, <1>8, <1>9 DEF FileInv

\* A statement begins: nothing of its line is in the file.
LEMMA StartKeeps ==
  ASSUME Typing, FileInv, NEW w \in Writers, NEW writes \in BOOLEAN, NEW level, NEW message,
         Len(message) \in Sizes, Starts(w, level, message, writes)
  PROVE  Typing' /\ FileInv'
<1> DEFINE l == done[w] + 1
<1>1. /\ Typing'
      /\ stmt'[w].phase = IF writes THEN "seek" ELSE "show"
      /\ stmt'[w].left = IF writes THEN Cells(w, l, Len(message)) ELSE <<>>
      /\ \A v \in Writers \ {w} : stmt'[v] = stmt[v]
      /\ \A v \in Writers : silent'[v] = IF v = w /\ ~writes THEN silent[v] \cup {done[v] + 1}
                                         ELSE silent[v]
  BY StartsFacts
<1>2. UNCHANGED <<stage, done, file, raced>> /\ stage[w[1]] # "over" /\ ~Busy(w)
  BY DEF Starts
<1>3. CleanShrinks BY <1>1, <1>2 DEF CleanShrinks, Clean
<1>4. InOrder'
  BY <1>2, <1>3, FileUnchanged DEF FileInv
<1>5. OverIsOver' BY <1>1, <1>2 DEF FileInv, OverIsOver, Busy
<1>6. NoEarlyUnits' BY <1>1, <1>2, UnitShape DEF FileInv, NoEarlyUnits, Busy
<1>7. TailRaced'
  <2> SUFFICES ASSUME NEW v \in Writers, stmt'[v].phase = "write"
               PROVE  /\ stmt'[v].offset <= Len(file')
                      /\ \A i \in DOMAIN file' : i > stmt'[v].offset => ~Clean(file[i][1], file[i][2])'
    BY DEF TailRaced
  <2>1. v # w /\ stmt'[v] = stmt[v] BY <1>1
  <2>2. /\ stmt[v].offset <= Len(file)
        /\ \A i \in DOMAIN file : i > stmt[v].offset => ~Clean(file[i][1], file[i][2])
    BY <2>1 DEF FileInv, TailRaced
  <2> QED BY <1>2, <1>3, <2>1, <2>2, UnitShape DEF CleanShrinks
<1>8. FinishedLines'
  <2> SUFFICES ASSUME NEW v \in Writers, NEW n \in 1..done'[v], Clean(v, n)'
               PROVE  \E size \in Sizes : Has(file', v, n, size, size)
    BY DEF FinishedLines
  <2>1. n \in 1..done[v] /\ n \in Nat BY <1>2 DEF Typing
  <2>2. Clean(v, n) BY <1>3, <2>1 DEF CleanShrinks
  <2> QED BY <1>2, <2>1, <2>2 DEF FileInv, FinishedLines
<1>9. CurrentLines'
  <2> SUFFICES ASSUME NEW v \in Writers, Busy(v)'
               PROVE  \E size \in Sizes :
                        /\ size - Len(stmt'[v].left) >= 0
                        /\ \A i \in DOMAIN stmt'[v].left :
                             stmt'[v].left[i] = <<v, done'[v] + 1, (size - Len(stmt'[v].left)) + i, size>>
                        /\ Clean(v, done[v] + 1)' => Has(file', v, done'[v] + 1, size, size - Len(stmt'[v].left))
                        /\ stmt'[v].phase = "show" /\ Clean(v, done[v] + 1)'
                             => size - Len(stmt'[v].left) = size
    BY DEF CurrentLines
  <2>1. CASE v # w
    <3>1. stmt'[v] = stmt[v] /\ done'[v] = done[v] BY <1>1, <1>2, <2>1
    <3>2. PICK size \in Sizes :
            /\ size - Len(stmt[v].left) >= 0
            /\ \A i \in DOMAIN stmt[v].left :
                 stmt[v].left[i] = <<v, done[v] + 1, (size - Len(stmt[v].left)) + i, size>>
            /\ Clean(v, done[v] + 1) => Has(file, v, done[v] + 1, size, size - Len(stmt[v].left))
            /\ stmt[v].phase = "show" /\ Clean(v, done[v] + 1)
                 => size - Len(stmt[v].left) = size
      BY <3>1 DEF FileInv, CurrentLines, Busy
    <3>3. done[v] + 1 \in Nat BY DEF Typing
    <3>4. Clean(v, done[v] + 1)' => Clean(v, done[v] + 1) BY <1>1, <2>1, <1>2 DEF Clean
    <3> QED BY <1>2, <3>1, <3>2, <3>4
  <2>2. CASE v = w /\ writes
    <3> DEFINE size == Len(message)
    <3>1. done[w] \in Nat /\ l \in Nat \ {0} BY DEF Typing
    <3>2. /\ Cells(w, l, size) \in Seq(Units) /\ Len(Cells(w, l, size)) = size
          /\ \A i \in 1..size : Cells(w, l, size)[i] = <<w, l, i, size>>
          /\ size \in Nat
      BY <3>1, CellsType, SizesPositive
    <3>3. \A i \in DOMAIN file : ~(file[i][1] = w /\ file[i][2] = l)
      BY <1>2, <3>1, UnitShape DEF FileInv, NoEarlyUnits
    <3>4. Has(file, w, l, size, 0) BY <3>3 DEF Has, IsOf
    <3>5. Has(file', w, l, size, 0) BY <1>2, <3>4
    <3>6. stmt'[w].left = Cells(w, l, size) /\ stmt'[w].phase = "seek" BY <1>1, <2>2
    <3>7. Has(file', w, done'[w] + 1, size, size - Len(stmt'[w].left))
      <4>1. size - Len(stmt'[w].left) = 0 /\ done'[w] + 1 = l BY <1>2, <3>2, <3>6
      <4> HIDE DEF l, size
      <4> QED BY <3>5, <4>1
    <3>8. DOMAIN stmt'[w].left = 1..size BY <3>2, <3>6, LenProperties
    <3>9. size - Len(stmt'[w].left) = 0 BY <3>2, <3>6
    <3>10. \A i \in DOMAIN stmt'[w].left :
             stmt'[w].left[i] = <<w, done'[w] + 1, (size - Len(stmt'[w].left)) + i, size>>
      <4> TAKE i \in DOMAIN stmt'[w].left
      <4>1. i \in 1..size /\ i \in Nat BY <3>2, <3>8
      <4>2. 0 + i = i /\ done'[w] + 1 = l BY <1>2, <4>1
      <4> QED BY <3>2, <3>6, <3>9, <4>1, <4>2
    <3>11. size \in Sizes OBVIOUS
    <3> HIDE DEF size
    <3> QED BY <2>2, <3>6, <3>7, <3>9, <3>10, <3>11
  <2>3. CASE v = w /\ ~writes
    <3>1. stmt'[w].left = <<>> BY <1>1, <2>3
    <3>2. ~Clean(w, done[w] + 1)' BY <1>1, <1>2, <2>3 DEF Clean
    <3> QED BY <2>3, <3>1, <3>2, SizesPositive
  <2> QED BY <2>1, <2>2, <2>3
<1> QED BY <1>1, <1>4, <1>5, <1>6, <1>7, <1>8, <1>9 DEF FileInv

\* The end of the file is looked up: a buffer is to be written behind everything.
LEMMA SeekKeeps ==
  ASSUME Typing, FileInv, NEW w \in Writers, SeekEnd(w)
  PROVE  Typing' /\ FileInv'
<1>1. /\ Typing'
      /\ stmt'[w].phase = "write" /\ stmt'[w].left = stmt[w].left /\ stmt'[w].offset = Len(file)
      /\ \A v \in Writers \ {w} : stmt'[v] = stmt[v]
  BY SeekFacts
<1>2. UNCHANGED <<stage, done, file, silent, raced>> /\ stmt[w].phase = "seek"
  BY DEF SeekEnd
<1>3. CleanShrinks BY <1>2 DEF CleanShrinks, Clean
<1>4. InOrder' BY <1>2, <1>3, FileUnchanged DEF FileInv
<1>5. OverIsOver' BY <1>1, <1>2 DEF FileInv, OverIsOver, Busy
<1>6. NoEarlyUnits' BY <1>1, <1>2, UnitShape DEF FileInv, NoEarlyUnits, Busy
<1>7. TailRaced'
  <2>1. Len(file) \in Nat /\ DOMAIN file = 1..Len(file) BY LenProperties DEF Typing
  <2> SUFFICES ASSUME NEW v \in Writers, stmt'[v].phase = "write"
               PROVE  /\ stmt'[v].offset <= Len(file)
                      /\ \A i \in DOMAIN file : i > stmt'[v].offset => ~Clean(file[i][1], file[i][2])
    BY <1>2 DEF TailRaced, Clean
  <2> QED BY <1>1, <2>1 DEF FileInv, TailRaced
<1>8. FinishedLines' BY <1>2 DEF FileInv, FinishedLines, Clean
<1>9. CurrentLines'
  <2> SUFFICES ASSUME NEW v \in Writers, Busy(v)'
               PROVE  \E size \in Sizes :
                        /\ size - Len(stmt'[v].left) >= 0
                        /\ \A i \in DOMAIN stmt'[v].left :
                             stmt'[v].left[i] = <<v, done'[v] + 1, (size - Len(stmt'[v].left)) + i, size>>
                        /\ Clean(v, done[v] + 1)' => Has(file', v, done'[v] + 1, size, size - Len(stmt'[v].left))
                        /\ stmt'[v].phase = "show" /\ Clean(v, done[v] + 1)'
                             => size - Len(stmt'[v].left) = size
    BY DEF CurrentLines
  <2>1. /\ stmt'[v].left = stmt[v].left /\ Busy(v)
        /\ stmt'[v].phase = "show" => stmt[v].phase = "show"
    BY <1>1, <1>2 DEF Busy
  <2>2. PICK size \in Sizes :
            /\ size - Len(stmt[v].left) >= 0
            /\ \A i \in DOMAIN stmt[v].left :
                 stmt[v].left[i] = <<v, done[v] + 1, (size - Len(stmt[v].left)) + i, size>>
            /\ Clean(v, done[v] + 1) => Has(file, v, done[v] + 1, size, size - Len(stmt[v].left))
            /\ stmt[v].phase = "show" /\ Clean(v, done[v] + 1)
                 => size - Len(stmt[v].left) = size
    BY <2>1 DEF FileInv, CurrentLines
  <2> QED BY <1>2, <2>1, <2>2 DEF Clean
<1> QED BY <1>1, <1>4, <1>5, <1>6, <1>7, <1>8, <1>9 DEF FileInv

\* A write that fails: its line is not clean any more.
LEMMA FailKeeps ==
  ASSUME Typing, FileInv, NEW w \in Writers, WriteFails(w)
  PROVE  Typing' /\ FileInv'
<1>1. /\ Typing'
      /\ stmt'[w].phase = "show" /\ stmt'[w].left = stmt[w].left
      /\ \A v \in Writers \ {w} : stmt'[v] = stmt[v]
      /\ \A v \in Writers : silent'[v] = IF v = w THEN silent[v] \cup {done[v] + 1} ELSE silent[v]
  BY FailsFacts
<1>2. UNCHANGED <<stage, done, file, raced>> /\ stmt[w].phase = "write"
  BY DEF WriteFails
<1>3. CleanShrinks BY <1>1, <1>2 DEF CleanShrinks, Clean
<1>4. InOrder' BY <1>2, <1>3, FileUnchanged DEF FileInv
<1>5. OverIsOver' BY <1>1, <1>2 DEF FileInv, OverIsOver, Busy
<1>6. NoEarlyUnits' BY <1>1, <1>2, UnitShape DEF FileInv, NoEarlyUnits, Busy
<1>7. TailRaced'
  <2> SUFFICES ASSUME NEW v \in Writers, stmt'[v].phase = "write"
               PROVE  /\ stmt'[v].offset <= Len(file')
                      /\ \A i \in DOMAIN file' : i > stmt'[v].offset => ~Clean(file[i][1], file[i][2])'
    BY DEF TailRaced
  <2>1. v # w /\ stmt'[v] = stmt[v] BY <1>1
  <2>2. /\ stmt[v].offset <= Len(file)
        /\ \A i \in DOMAIN file : i > stmt[v].offset => ~Clean(file[i][1], file[i][2])
    BY <2>1 DEF FileInv, TailRaced
  <2> QED BY <1>2, <1>3, <2>1, <2>2, UnitShape DEF CleanShrinks
<1>8. FinishedLines'
  <2> SUFFICES ASSUME NEW v \in Writers, NEW n \in 1..done'[v], Clean(v, n)'
               PROVE  \E size \in Sizes : Has(file', v, n, size, size)
    BY DEF FinishedLines
  <2>1. n \in 1..done[v] /\ n \in Nat BY <1>2 DEF Typing
  <2>2. Clean(v, n) BY <1>3, <2>1 DEF CleanShrinks
  <2> QED BY <1>2, <2>1, <2>2 DEF FileInv, FinishedLines
<1>9. CurrentLines'
  <2> SUFFICES ASSUME NEW v \in Writers, Busy(v)'
               PROVE  \E size \in Sizes :
                        /\ size - Len(stmt'[v].left) >= 0
                        /\ \A i \in DOMAIN stmt'[v].left :
                             stmt'[v].left[i] = <<v, done'[v] + 1, (size - Len(stmt'[v].left)) + i, size>>
                        /\ Clean(v, done[v] + 1)' => Has(file', v, done'[v] + 1, size, size - Len(stmt'[v].left))
                        /\ stmt'[v].phase = "show" /\ Clean(v, done[v] + 1)'
                             => size - Len(stmt'[v].left) = size
    BY DEF CurrentLines
  <2>1. stmt'[v].left = stmt[v].left /\ Busy(v)
    BY <1>1, <1>2 DEF Busy
  <2>2. PICK size \in Sizes :
            /\ size - Len(stmt[v].left) >= 0
            /\ \A i \in DOMAIN stmt[v].left :
                 stmt[v].left[i] = <<v, done[v] + 1, (size - Len(stmt[v].left)) + i, size>>
            /\ Clean(v, done[v] + 1) => Has(file, v, done[v] + 1, size, size - Len(stmt[v].left))
            /\ stmt[v].phase = "show" /\ Clean(v, done[v] + 1)
                 => size - Len(stmt[v].left) = size
    BY <2>1 DEF FileInv, CurrentLines
  <2>3. CASE v = w
    <3>1. ~Clean(w, done[w] + 1)' BY <1>1, <1>2 DEF Clean
    <3> QED BY <1>2, <2>1, <2>2, <2>3, <3>1
  <2>4. CASE v # w
    <3>1. stmt'[v] = stmt[v] BY <1>1, <2>4
    <3>2. Clean(v, done[v] + 1)' => Clean(v, done[v] + 1) BY <1>1, <1>2, <2>4 DEF Clean
    <3> QED BY <1>2, <2>2, <3>1, <3>2
  <2> QED BY <2>3, <2>4
<1> QED BY <1>1, <1>4, <1>5, <1>6, <1>7, <1>8, <1>9 DEF FileInv

\* The end of a statement: what is left of its line is nothing, or it is not clean.
LEMMA ShowKeeps ==
  ASSUME Typing, FileInv, NEW w \in Writers, Show(w)
  PROVE  Typing' /\ FileInv'
<1>1. /\ Typing'
      /\ stmt'[w].phase = "idle"
      /\ \A v \in Writers \ {w} : stmt'[v] = stmt[v]
      /\ \A v \in Writers : done'[v] = IF v = w THEN done[v] + 1 ELSE done[v]
  BY ShowFacts
<1>2. UNCHANGED <<stage, file, silent, raced>> /\ stmt[w].phase = "show"
  BY DEF Show
<1>3. \A v \in Writers : done[v] \in Nat BY DEF Typing
<1>4. CleanShrinks BY <1>2 DEF CleanShrinks, Clean
<1>5. InOrder' BY <1>2, <1>4, FileUnchanged DEF FileInv
<1>6. OverIsOver' BY <1>1, <1>2 DEF FileInv, OverIsOver, Busy
<1>7. NoEarlyUnits'
  <2> SUFFICES ASSUME NEW i \in DOMAIN file
               PROVE  /\ file[i][2] <= done'[file[i][1]] + 1
                      /\ stmt'[file[i][1]].phase = "idle" /\ stage[file[i][1][1]] # "over"
                           => file[i][2] <= done'[file[i][1]]
    BY <1>2 DEF NoEarlyUnits, Busy
  <2> DEFINE v == file[i][1]
             n == file[i][2]
  <2>1. v \in Writers /\ n \in Nat BY UnitShape
  <2>2. n <= done[v] + 1 /\ (~Busy(v) /\ stage[v[1]] # "over" => n <= done[v])
    BY DEF FileInv, NoEarlyUnits
  <2> HIDE DEF v, n
  <2>3. CASE v = w
    <3>1. done'[v] = done[v] + 1 BY <1>1, <2>1, <2>3
    <3> QED BY <1>3, <2>1, <2>2, <3>1 DEF v, n
  <2>4. CASE v # w
    <3>1. done'[v] = done[v] /\ stmt'[v] = stmt[v] BY <1>1, <2>1, <2>4
    <3> QED BY <2>2, <3>1 DEF v, n, Busy
  <2> QED BY <2>3, <2>4
<1>8. TailRaced' BY <1>1, <1>2 DEF FileInv, TailRaced, Clean
<1>9. FinishedLines'
  <2> SUFFICES ASSUME NEW v \in Writers, NEW n \in 1..done'[v], Clean(v, n)
               PROVE  \E size \in Sizes : Has(file, v, n, size, size)
    BY <1>2 DEF FinishedLines, Clean
  <2>1. CASE n \in 1..done[v] BY <2>1 DEF FileInv, FinishedLines
  <2>2. CASE n \notin 1..done[v]
    <3>1. v = w /\ n = done[w] + 1 BY <1>1, <1>3, <2>2
    <3>2. PICK size \in Sizes :
            /\ Has(file, w, done[w] + 1, size, size - Len(stmt[w].left))
            /\ size - Len(stmt[w].left) = size
      BY <1>2, <3>1 DEF FileInv, CurrentLines, Busy
    <3> QED BY <3>1, <3>2
  <2> QED BY <2>1, <2>2
<1>10. CurrentLines'
  <2> SUFFICES ASSUME NEW v \in Writers, Busy(v)'
               PROVE  \E size \in Sizes :
                        /\ size - Len(stmt'[v].left) >= 0
                        /\ \A i \in DOMAIN stmt'[v].left :
                             stmt'[v].left[i] = <<v, done'[v] + 1, (size - Len(stmt'[v].left)) + i, size>>
                        /\ Clean(v, done[v] + 1)' => Has(file', v, done'[v] + 1, size, size - Len(stmt'[v].left))
                        /\ stmt'[v].phase = "show" /\ Clean(v, done[v] + 1)'
                             => size - Len(stmt'[v].left) = size
    BY DEF CurrentLines
  <2>1. v # w /\ stmt'[v] = stmt[v] /\ done'[v] = done[v] BY <1>1 DEF Busy
  <2>2. PICK size \in Sizes :
            /\ size - Len(stmt[v].left) >= 0
            /\ \A i \in DOMAIN stmt[v].left :
                 stmt[v].left[i] = <<v, done[v] + 1, (size - Len(stmt[v].left)) + i, size>>
            /\ Clean(v, done[v] + 1) => Has(file, v, done[v] + 1, size, size - Len(stmt[v].left))
            /\ stmt[v].phase = "show" /\ Clean(v, done[v] + 1)
                 => size - Len(stmt[v].left) = size
    BY <2>1 DEF FileInv, CurrentLines, Busy
  <2>3. silent' = silent /\ raced' = raced /\ done'[v] + 1 = done[v] + 1 BY <1>2, <2>1
  <2> QED BY <1>2, <2>1, <2>2, <2>3 DEF Clean
<1> QED BY <1>1, <1>5, <1>6, <1>7, <1>8, <1>9, <1>10 DEF FileInv

\* A buffer is written.  If nobody else is about to write, everything behind the
\* place it goes to is of lines that are not clean, and the line goes on behind its
\* own beginning and all earlier lines.  Otherwise the line is not clean.
LEMMA WriteKeeps ==
  ASSUME Typing, FileInv, NEW w \in Writers, WriteFile(w)
  PROVE  Typing' /\ FileInv'
<1> DEFINE left == stmt[w].left
           off  == stmt[w].offset
           l    == done[w] + 1
<1>1. /\ off <= Len(file) /\ stmt[w].phase = "write"
      /\ \A i \in DOMAIN file : i > off => ~Clean(file[i][1], file[i][2])
  BY DEF FileInv, TailRaced, WriteFile
<1>2. PICK size \in 0..Len(left) :
        /\ Typing'
        /\ Len(stmt'[w].left) = Len(left) - size
        /\ \A i \in 1..(Len(left) - size) : stmt'[w].left[i] = left[size + i]
        /\ \/ stmt'[w].phase = "seek"
           \/ stmt'[w].phase = "show" /\ size = Len(left)
        /\ \A v \in Writers \ {w} : stmt'[v] = stmt[v]
        /\ \A i \in DOMAIN file' :
             \/ /\ i - off \in 1..size /\ i > off
                /\ file'[i] = left[i - off]
             \/ /\ i \in DOMAIN file /\ (i <= off \/ i > off + size)
                /\ file'[i] = file[i]
        /\ \A i \in 1..off : i \in DOMAIN file' /\ file'[i] = file[i]
        /\ \A k \in 1..size : off + k \in DOMAIN file' /\ file'[off + k] = left[k]
        /\ Len(file) <= Len(file')
  BY <1>1, WriteFacts
<1>3. PICK s \in Sizes :
        /\ s - Len(left) >= 0
        /\ \A i \in DOMAIN left : left[i] = <<w, l, (s - Len(left)) + i, s>>
        /\ Clean(w, l) => Has(file, w, l, s, s - Len(left))
  BY <1>1 DEF FileInv, CurrentLines, Busy
<1>4. /\ left \in Seq(Units) /\ off \in Nat /\ done[w] \in Nat /\ s \in Nat
      /\ Len(left) \in Nat /\ DOMAIN left = 1..Len(left)
      /\ Len(file) \in Nat /\ DOMAIN file = 1..Len(file)
      /\ Len(file') \in Nat /\ DOMAIN file' = 1..Len(file')
  BY <1>2, LenProperties, SizesPositive DEF Typing, Statement
<1>5. UNCHANGED <<stage, done, silent>> BY DEF WriteFile
<1>6. \A v \in Writers : \A n \in Nat :
        n \in raced'[v] <=> \/ n \in raced[v]
                            \/ Others(w) # {} /\ v \in Others(w) \cup {w} /\ n = done[v] + 1
  BY DEF WriteFile, Typing
<1>7. CleanShrinks BY <1>5, <1>6 DEF CleanShrinks, Clean
<1>8. Clean(w, done[w] + 1)' => Others(w) = {}
  <2>1. l \in Nat BY <1>4
  <2> QED BY <1>5, <1>6, <2>1 DEF Clean
<1>9. ASSUME NEW v \in Writers \ {w}, stmt[v].phase = "write"
      PROVE  ~Clean(w, done[w] + 1)'
  BY <1>8, <1>9 DEF Others
<1> HIDE DEF left, off
\* The units written, and those that stay.
<1>10. \A i \in DOMAIN file' :
         \/ /\ i > off /\ i - off \in 1..size
            /\ file'[i] = <<w, l, (s - Len(left)) + (i - off), s>>
         \/ /\ i \in DOMAIN file /\ (i <= off \/ i > off + size)
            /\ file'[i] = file[i] /\ file[i][1] \in Writers /\ file[i][2] \in Nat
  <2> TAKE i \in DOMAIN file'
  <2>1. CASE i - off \in 1..size /\ i > off /\ file'[i] = left[i - off]
    <3>1. i - off \in DOMAIN left BY <1>4, <2>1
    <3> QED BY <1>3, <2>1, <3>1
  <2>2. CASE i \in DOMAIN file /\ (i <= off \/ i > off + size) /\ file'[i] = file[i]
    BY <2>2, UnitShape
  <2> QED BY <1>2, <2>1, <2>2
\* A unit of a clean line stays.
<1>11. \A i \in DOMAIN file : Clean(file[i][1], file[i][2]) =>
         i <= off /\ i \in DOMAIN file' /\ file'[i] = file[i]
  <2> TAKE i \in DOMAIN file
  <2>1. i \in Nat /\ i >= 1 BY <1>4
  <2>2. ASSUME i <= off PROVE i \in DOMAIN file' /\ file'[i] = file[i]
    <3>1. i \in 1..off BY <1>4, <2>1, <2>2
    <3> QED BY <1>2, <3>1
  <2>3. ASSUME i > off PROVE ~Clean(file[i][1], file[i][2]) BY <1>1, <2>3 DEF off
  <2> QED BY <1>4, <2>1, <2>2, <2>3
<1>12. \A i \in DOMAIN file' : file'[i][1] \in Writers /\ file'[i][2] \in Nat
  <2> TAKE i \in DOMAIN file'
  <2>1. l \in Nat BY <1>4
  <2>2. ASSUME file'[i] = <<w, l, (s - Len(left)) + (i - off), s>>
        PROVE  file'[i][1] \in Writers /\ file'[i][2] \in Nat
    <3> HIDE DEF l
    <3> QED BY <2>1, <2>2
  <2> QED BY <1>10, <2>2
<1>13. OverIsOver'
  BY <1>1, <1>2, <1>5 DEF FileInv, OverIsOver, Busy
<1>14. NoEarlyUnits'
  <2> SUFFICES ASSUME NEW i \in DOMAIN file'
               PROVE  /\ file'[i][2] <= done[file'[i][1]] + 1
                      /\ stmt'[file'[i][1]].phase = "idle" /\ stage[file'[i][1][1]] # "over"
                           => file'[i][2] <= done[file'[i][1]]
    BY <1>5 DEF NoEarlyUnits, Busy
  <2>1. stmt'[w].phase # "idle" /\ stmt[w].phase # "idle" BY <1>1, <1>2
  <2>2. CASE file'[i][1] = w /\ file'[i][2] = l BY <1>4, <2>1, <2>2
  <2>3. CASE i \in DOMAIN file /\ file'[i] = file[i] /\ file[i][1] \in Writers
    <3> DEFINE v == file[i][1]
    <3>1. stmt'[v].phase = "idle" <=> stmt[v].phase = "idle" BY <1>2, <2>1, <2>3
    <3>2. /\ file[i][2] <= done[v] + 1
          /\ stmt[v].phase = "idle" /\ stage[v[1]] # "over" => file[i][2] <= done[v]
      BY <2>3 DEF FileInv, NoEarlyUnits, Busy
    <3> HIDE DEF v
    <3> QED BY <2>3, <3>1, <3>2 DEF v
  <2> QED BY <1>10, <2>2, <2>3
<1>15. TailRaced'
  <2> SUFFICES ASSUME NEW v \in Writers, stmt'[v].phase = "write"
               PROVE  /\ stmt'[v].offset <= Len(file')
                      /\ \A i \in DOMAIN file' : i > stmt'[v].offset => ~Clean(file[i][1], file[i][2])'
    BY DEF TailRaced
  <2>1. v # w /\ stmt'[v] = stmt[v] BY <1>2
  <2>2. /\ stmt[v].offset <= Len(file)
        /\ \A i \in DOMAIN file : i > stmt[v].offset => ~Clean(file[i][1], file[i][2])
    BY <2>1 DEF FileInv, TailRaced
  <2>3. stmt[v].offset \in Nat BY DEF Typing, Statement
  <2>4. ~Clean(w, done[w] + 1)' BY <1>9, <2>1
  <2>5. ASSUME NEW i \in DOMAIN file', i > stmt[v].offset
        PROVE  ~Clean(file[i][1], file[i][2])'
    <3>1. CASE file'[i][1] = w /\ file'[i][2] = l
      BY <1>5, <2>4, <3>1 DEF Clean
    <3>2. CASE i \in DOMAIN file /\ file'[i] = file[i]
      <4>1. ~Clean(file[i][1], file[i][2]) BY <2>2, <2>5, <3>2
      <4> QED BY <1>7, <1>12, <3>2, <4>1 DEF CleanShrinks, Clean
    <3> QED BY <1>10, <3>1, <3>2
  <2>6. stmt[v].offset <= Len(file')
    <3>1. \A a, b, c \in Nat : a <= b /\ b <= c => a <= c OBVIOUS
    <3>2. Len(file) <= Len(file') BY <1>2
    <3> QED BY <1>4, <2>2, <2>3, <3>1, <3>2
  <2> QED BY <2>1, <2>5, <2>6
<1>16. \A v \in Writers : \A n, z, m :
         n \in Nat /\ <<v, n>> # <<w, l>> /\ Clean(v, n) /\ Has(file, v, n, z, m) => Has(file', v, n, z, m)
  <2> SUFFICES ASSUME NEW v \in Writers, NEW n \in Nat, NEW z, NEW m,
                      v # w \/ n # l, Clean(v, n), Has(file, v, n, z, m)
               PROVE  Has(file', v, n, z, m)
    OBVIOUS
  <2>1. ASSUME NEW i \in DOMAIN file', file'[i][1] = v, file'[i][2] = n
        PROVE  file'[i][3] \in 1..m /\ file'[i][4] = z
    <3>1. ~(file'[i] = <<w, l, (s - Len(left)) + (i - off), s>>) BY <2>1
    <3>2. i \in DOMAIN file /\ file'[i] = file[i] BY <1>10, <3>1
    <3> QED BY <2>1, <3>2 DEF Has
  <2>2. ASSUME NEW k \in 1..m PROVE \E i \in DOMAIN file' : file'[i] = <<v, n, k, z>>
    <3>1. PICK i \in DOMAIN file : file[i] = <<v, n, k, z>> BY DEF Has
    <3>2. Clean(file[i][1], file[i][2]) BY <3>1
    <3> QED BY <1>11, <3>1, <3>2
  <2> QED BY <2>1, <2>2 DEF Has
<1>17. FinishedLines'
  <2> SUFFICES ASSUME NEW v \in Writers, NEW n \in 1..done[v], Clean(v, n)'
               PROVE  \E z \in Sizes : Has(file', v, n, z, z)
    BY <1>5 DEF FinishedLines
  <2>1. done[v] \in Nat /\ n \in Nat BY DEF Typing
  <2>2. Clean(v, n) BY <1>7, <2>1 DEF CleanShrinks
  <2>3. PICK z \in Sizes : Has(file, v, n, z, z) BY <2>2 DEF FileInv, FinishedLines
  <2>4. <<v, n>> # <<w, l>> BY <2>1
  <2> HIDE DEF l
  <2> QED BY <1>16, <2>1, <2>2, <2>3, <2>4
<1>18. ASSUME Clean(w, done[w] + 1)' PROVE Has(file', w, l, s, (s - Len(left)) + size)
  <2> DEFINE m == s - Len(left)
  <2>1. m \in Nat /\ l \in Nat BY <1>3, <1>4
  <2>2. Clean(w, l) BY <1>5, <1>7, <1>18, <2>1 DEF CleanShrinks, Clean
  <2>3. Has(file, w, l, s, m) BY <1>3, <2>2
  <2> HIDE DEF m, l
  <2>4. ASSUME NEW i \in DOMAIN file', file'[i][1] = w, file'[i][2] = l
        PROVE  file'[i][3] \in 1..(m + size) /\ file'[i][4] = s
    <3>1. CASE i - off \in 1..size /\ file'[i] = <<w, l, m + (i - off), s>>
      <4> DEFINE d == i - off
      <4>1. d \in 1..size /\ file'[i][3] = m + d /\ file'[i][4] = s BY <3>1
      <4> HIDE DEF d
      <4> QED BY <2>1, <4>1
    <3>2. CASE i \in DOMAIN file /\ file'[i] = file[i]
      <4>1. file[i][3] \in 1..m /\ file[i][4] = s BY <2>3, <2>4, <3>2 DEF Has
      <4> QED BY <2>1, <3>2, <4>1
    <3> QED BY <1>10, <3>1, <3>2 DEF m
  <2>5. ASSUME NEW k \in 1..(m + size) PROVE \E i \in DOMAIN file' : file'[i] = <<w, l, k, s>>
    <3>1. CASE k <= m
      <4>1. k \in 1..m BY <2>1, <3>1
      <4>2. PICK i \in DOMAIN file : file[i] = <<w, l, k, s>> BY <2>3, <4>1 DEF Has
      <4>3. Clean(file[i][1], file[i][2]) BY <2>2, <4>2
      <4> QED BY <1>11, <4>2, <4>3
    <3>2. CASE k > m
      <4>1. k - m \in 1..size /\ m + (k - m) = k BY <2>1, <3>2
      <4>2. k - m \in DOMAIN left BY <1>4, <4>1
      <4>3. left[k - m] = <<w, l, k, s>> BY <1>3, <4>1, <4>2 DEF m
      <4> QED BY <1>2, <4>1, <4>3
    <3> QED BY <2>1, <3>1, <3>2
  <2> QED BY <2>4, <2>5 DEF Has, m
<1>19. CurrentLines'
  <2> SUFFICES ASSUME NEW v \in Writers, Busy(v)'
               PROVE  \E z \in Sizes :
                        /\ z - Len(stmt'[v].left) >= 0
                        /\ \A i \in DOMAIN stmt'[v].left :
                             stmt'[v].left[i] = <<v, done'[v] + 1, (z - Len(stmt'[v].left)) + i, z>>
                        /\ Clean(v, done[v] + 1)' => Has(file', v, done'[v] + 1, z, z - Len(stmt'[v].left))
                        /\ stmt'[v].phase = "show" /\ Clean(v, done[v] + 1)'
                             => z - Len(stmt'[v].left) = z
    BY DEF CurrentLines
  <2>1. CASE v = w
    <3> DEFINE r == Len(stmt'[w].left)
               p == Len(left)
    <3>0. r \in Int /\ p \in Int /\ s \in Int /\ size \in Nat /\ r = p - size /\ s - p >= 0
      <4>1. p \in Nat /\ s \in Nat BY <1>4
      <4>2. r = p - size BY <1>2
      <4>3. size \in 0..p OBVIOUS
      <4>4. s - p >= 0 BY <1>3
      <4> HIDE DEF r, p
      <4> QED BY <4>1, <4>2, <4>3, <4>4
    <3> HIDE DEF r, p
    <3>7. s - r = (s - p) + size /\ s - r >= 0 BY <3>0
    <3>8. \A i \in Int : (s - p) + (size + i) = (s - r) + i BY <3>0
    <3>1. s - Len(stmt'[w].left) = (s - Len(left)) + size BY <3>7 DEF r, p
    <3>2. s - Len(stmt'[w].left) >= 0 BY <3>7 DEF r
    <3>3. DOMAIN stmt'[w].left = 1..(Len(left) - size)
      <4>1. stmt'[w].left \in Seq(Units) BY <1>2 DEF Typing, Statement
      <4> QED BY <1>2, <4>1, LenProperties
    <3>4. \A i \in DOMAIN stmt'[w].left :
            stmt'[w].left[i] = <<w, done'[w] + 1, (s - Len(stmt'[w].left)) + i, s>>
      <4> TAKE i \in DOMAIN stmt'[w].left
      <4>1. size + i \in 1..Len(left) /\ i \in Nat BY <1>4, <3>3
      <4>2. (s - Len(left)) + (size + i) = (s - Len(stmt'[w].left)) + i
        <5>1. (s - p) + (size + i) = (s - r) + i BY <3>8, <4>1
        <5> QED BY <5>1 DEF r, p
      <4>3. left[size + i] = <<w, l, (s - Len(left)) + (size + i), s>> BY <1>3, <1>4, <4>1
      <4> QED BY <1>2, <1>5, <3>3, <4>2, <4>3
    <3>5. Clean(w, done[w] + 1)' => Has(file', w, done'[w] + 1, s, s - Len(stmt'[w].left))
      BY <1>5, <1>18, <3>1
    <3>6. stmt'[w].phase = "show" => s - Len(stmt'[w].left) = s BY <1>2, <1>3, <1>4
    <3> QED BY <2>1, <3>2, <3>4, <3>5, <3>6
  <2>2. CASE v # w
    <3>1. stmt'[v] = stmt[v] /\ done'[v] = done[v] BY <1>2, <1>5, <2>2
    <3>2. PICK z \in Sizes :
            /\ z - Len(stmt[v].left) >= 0
            /\ \A i \in DOMAIN stmt[v].left :
                 stmt[v].left[i] = <<v, done[v] + 1, (z - Len(stmt[v].left)) + i, z>>
            /\ Clean(v, done[v] + 1) => Has(file, v, done[v] + 1, z, z - Len(stmt[v].left))
            /\ stmt[v].phase = "show" /\ Clean(v, done[v] + 1)
                 => z - Len(stmt[v].left) = z
      BY <3>1 DEF FileInv, CurrentLines, Busy
    <3>3. done[v] + 1 \in Nat BY DEF Typing
    <3>4. Clean(v, done[v] + 1)' => Clean(v, done[v] + 1)
      BY <1>5, <1>7, <3>1, <3>3 DEF CleanShrinks, Clean
    <3>5. Clean(v, done[v] + 1)' => Has(file', v, done[v] + 1, z, z - Len(stmt[v].left))
      <4>1. <<v, done[v] + 1>> # <<w, l>> BY <2>2
      <4> HIDE DEF l
      <4> QED BY <1>16, <3>2, <3>3, <3>4, <4>1
    <3> QED BY <3>1, <3>2, <3>4, <3>5
  <2> QED BY <2>1, <2>2
<1>20. InOrder'
  <2> SUFFICES ASSUME NEW i \in DOMAIN file', NEW j \in DOMAIN file', i < j, file'[i][1] = file'[j][1],
                      Clean(file[i][1], file[i][2])', Clean(file[j][1], file[j][2])'
               PROVE  Before(file'[i], file'[j])
    BY DEF InOrder
  <2>1. i \in Nat /\ j \in Nat BY <1>4
  <2> DEFINE New(k) == /\ k > off /\ k - off \in 1..size
                       /\ file'[k] = <<w, l, (s - Len(left)) + (k - off), s>>
             Old(k) == k \in DOMAIN file /\ file'[k] = file[k] /\ file[k][2] \in Nat /\ k <= off
  <2>2. \A k \in {i, j} : New(k) \/ Old(k)
    <3> TAKE k \in {i, j}
    <3>1. CASE k \in DOMAIN file /\ file'[k] = file[k] /\ file[k][1] \in Writers /\ file[k][2] \in Nat
      <4>1. Clean(file[k][1], file[k][2]) BY <1>7, <3>1 DEF CleanShrinks, Clean
      <4> QED BY <1>11, <3>1, <4>1
    <3> QED BY <1>10, <3>1
  <2>3. CASE Old(i) /\ Old(j)
    <3>1. Clean(file[i][1], file[i][2]) /\ Clean(file[j][1], file[j][2])
      BY <1>7, <1>12, <2>3 DEF CleanShrinks, Clean
    <3> QED BY <2>3, <3>1 DEF FileInv, InOrder
  <2>4. CASE New(i) /\ New(j)
    <3>1. (s - Len(left)) + (i - off) < (s - Len(left)) + (j - off) BY <1>4, <2>1
    <3> QED BY <2>4, <3>1 DEF Before
  <2>5. CASE Old(i) /\ New(j)
    <3>1. file[i][1] = w /\ file[i][2] <= l BY <2>5 DEF FileInv, NoEarlyUnits
    <3>2. CASE file[i][2] < l BY <2>5, <3>2 DEF Before
    <3>3. CASE file[i][2] = l
      <4>1. Clean(w, l) BY <1>5, <1>7, <1>12, <2>5, <3>1, <3>3 DEF CleanShrinks, Clean
      <4>2. file[i][3] \in 1..(s - Len(left)) BY <1>3, <2>5, <3>1, <3>3, <4>1 DEF Has
      <4>3. \A a \in Int : \A k \in 1..a : \A d \in 1..size : k < a + d OBVIOUS
      <4>4. s - Len(left) \in Int /\ j - off \in 1..size BY <1>4, <2>5
      <4>5. file[i][3] < (s - Len(left)) + (j - off) BY <4>2, <4>3, <4>4
      <4> QED BY <2>5, <3>3, <4>5 DEF Before
    <3>4. file[i][2] \in Nat BY <2>5
    <3>5. l \in Nat BY <1>4
    <3> HIDE DEF l
    <3> QED BY <3>1, <3>2, <3>3, <3>4, <3>5
  <2>6. ~(New(i) /\ Old(j)) BY <1>4, <2>1
  <2> HIDE DEF New, Old
  <2> QED BY <2>2, <2>3, <2>4, <2>5, <2>6
<1> QED BY <1>2, <1>13, <1>14, <1>15, <1>17, <1>19, <1>20 DEF FileInv

-----------------------------------------------------------------------------
(* The theorem about the file.                                             *)

\* Nothing has been written at first.
LEMMA FileInvInit == Init => Typing /\ FileInv
<1> SUFFICES ASSUME Init PROVE Typing /\ FileInv OBVIOUS
<1>1. Statement(Idle) BY EmptySeq DEF Statement, Idle, Phases
<1>2. file = <<>> /\ file \in Seq(Units) BY EmptySeq DEF Init
<1>3. \A w \in Writers : stmt[w] = Idle /\ done[w] = 0 BY DEF Init
<1>4. Typing BY <1>1, <1>2, <1>3 DEF Init, Typing, Stages
<1>5. DOMAIN file = {} BY <1>2, EmptySeq
<1>6. OverIsOver /\ TailRaced /\ CurrentLines
  BY <1>3 DEF OverIsOver, TailRaced, CurrentLines, Busy, Idle
<1>7. NoEarlyUnits /\ InOrder BY <1>5 DEF NoEarlyUnits, InOrder
<1>8. FinishedLines BY <1>3 DEF FinishedLines
<1> QED BY <1>4, <1>6, <1>7, <1>8 DEF FileInv

\* Every step keeps the invariant.
LEMMA FileInvStep == Typing /\ FileInv /\ [Next]_vars => (Typing /\ FileInv)'
<1> SUFFICES ASSUME Typing, FileInv, [Next]_vars PROVE Typing' /\ FileInv' OBVIOUS
<1>1. CASE Next
  <2>1. StepKind BY <1>1, StepIsOfKind
  <2>2. CASE Quiet BY <2>2, QuietKeeps
  <2>3. ASSUME NEW p \in Programs, Ends(p) PROVE Typing' /\ FileInv' BY <2>3, EndKeeps
  <2>4. ASSUME NEW w \in Writers, NEW writes \in BOOLEAN, NEW level, NEW message,
               Len(message) \in Sizes, Starts(w, level, message, writes)
        PROVE  Typing' /\ FileInv'
    BY <2>4, StartKeeps
  <2>5. ASSUME NEW w \in Writers, SeekEnd(w) \/ WriteFile(w) \/ WriteFails(w) \/ Show(w)
        PROVE  Typing' /\ FileInv'
    BY <2>5, SeekKeeps, WriteKeeps, FailKeeps, ShowKeeps
  <2> QED BY <2>1, <2>2, <2>3, <2>4, <2>5 DEF StepKind
<1>2. CASE UNCHANGED vars
  <2>1. Quiet BY <1>2 DEF vars, Quiet, Typing
  <2> QED BY <2>1, QuietKeeps
<1> QED BY <1>1, <1>2

\* The units of finished clean lines are the lines' units.
LEMMA FileInvImplies == Typing /\ FileInv => FileHasLines
<1> SUFFICES ASSUME Typing, FileInv PROVE FileHasLines OBVIOUS
<1>1. ASSUME NEW w \in Writers, NEW n \in 1..done[w], Clean(w, n)
      PROVE  \E size \in {1} \cup {Len(m[2]) : m \in Messages} :
               {file[i] : i \in {j \in DOMAIN file : IsOf(j, w, n)}} = {<<w, n, k, size>> : k \in 1..size}
  <2>1. PICK size \in Sizes : Has(file, w, n, size, size) BY <1>1 DEF FileInv, FinishedLines
  <2>2. ASSUME NEW i \in DOMAIN file, IsOf(i, w, n)
        PROVE  file[i] \in {<<w, n, k, size>> : k \in 1..size}
    BY <2>1, <2>2, UnitShape DEF Has, IsOf
  <2>3. ASSUME NEW k \in 1..size
        PROVE  \E i \in {j \in DOMAIN file : IsOf(j, w, n)} : file[i] = <<w, n, k, size>>
    BY <2>1 DEF Has, IsOf
  <2>4. {file[i] : i \in {j \in DOMAIN file : IsOf(j, w, n)}} = {<<w, n, k, size>> : k \in 1..size}
    BY <2>2, <2>3
  <2> QED BY <2>4 DEF Sizes
<1>2. ASSUME NEW w \in Writers, NEW i \in DOMAIN file, NEW j \in DOMAIN file,
             i < j, file[i][1] = w, file[j][1] = w, Clean(w, file[i][2]), Clean(w, file[j][2])
      PROVE  Before(file[i], file[j])
  BY <1>2 DEF FileInv, InOrder
<1> QED BY <1>1, <1>2 DEF FileHasLines

\* Every line whose statement has ended is in the shared file, once, whole and after
\* the earlier lines of its thread, however many programs write, wherever they end
\* and whichever writes fail: unless its own write failed or was done at the same
\* time as another program's, its units are all there and in order.
THEOREM FileCorrect == Spec => []FileHasLines
<1>1. Spec => [](Typing /\ FileInv)
  BY FileInvInit, FileInvStep, PTL DEF Spec
<1>2. QED
  BY <1>1, FileInvImplies, PTL
-----------------------------------------------------------------------------
(* The configurations (LogConfiguration), for what the names of files are. *)

\* Lists of levels with values: every level in the list has a value.
Lists(V) ==
  {list \in [levels : Seq(AllLevels), value : UNION {[A -> V] : A \in SUBSET AllLevels}] :
     DOMAIN list.value = ToSet(list.levels)}
Names == {DefaultLogFile, SharedLogFile}
Texts == {"true", "false", "3", "0", "default", "debug", "verbose", "trace"} \cup Names
Confs ==
  {conf \in [ConfigurationTypes -> Lists(Texts)] : conf["Filename"] \in Lists(Names)}

\* Calls that set a value for a level.
SetCalls ==
  {call \in AllLevels \X ConfigurationTypes \X Texts : call[2] = "Filename" => call[3] \in Names}

\* A value taken from a set of its own.
LEMMA WholeIs == \A x : Whole(x) = x /\ The({x}) = x
<1> QED BY DEF Whole, The

\* One function over another.
LEMMA OverFacts ==
  ASSUME NEW A, NEW B, NEW V, NEW f \in [A -> V], NEW g \in [B -> V]
  PROVE  /\ Over(f, g) \in [A \cup B -> V]
         /\ \A x \in A : Over(f, g)[x] = f[x]
         /\ \A x \in B \ A : Over(f, g)[x] = g[x]
<1>1. Over(f, g) = [x \in DOMAIN f \cup DOMAIN g |-> IF x \in DOMAIN f THEN f[x] ELSE g[x]]
  BY WholeIs DEF Over
<1> QED BY <1>1

\* The empty list.
LEMMA EmptyList == \A V : [levels |-> <<>>, value |-> << >>] \in Lists(V)
<1> SUFFICES ASSUME NEW V PROVE [levels |-> <<>>, value |-> << >>] \in Lists(V) OBVIOUS
<1>1. << >> \in [{} -> V] /\ {} \in SUBSET AllLevels OBVIOUS
<1>2. << >> \in Seq(AllLevels) /\ ToSet(<< >>) = {} /\ DOMAIN << >> = {}
  BY EmptySeq DEF ToSet
<1> QED BY <1>1, <1>2 DEF Lists

\* Setting levels of a list: it has the levels it had, in their order, and the new ones.
LEMMA UnsafeSetFacts ==
  ASSUME NEW V, NEW list \in Lists(V), NEW levels \in Seq(AllLevels), NEW value \in V
  PROVE  LET new == UnsafeSet(list, levels, value)
         IN  /\ new \in Lists(V)
             /\ ToSet(new.levels) = ToSet(list.levels) \cup ToSet(levels)
             /\ \A l \in ToSet(levels) : new.value[l] = value
             /\ \A l \in ToSet(list.levels) \ ToSet(levels) : new.value[l] = list.value[l]
             /\ list.levels # <<>> => new.levels[1] = list.levels[1]
             /\ list.levels = <<>> /\ levels # <<>> => new.levels[1] = levels[1]
<1> DEFINE old == list.levels
           pieces == [i \in DOMAIN levels |-> IF levels[i] \in DOMAIN list.value THEN <<>> ELSE <<levels[i]>>]
           new == Missing(list, levels)
<1>1. /\ old \in Seq(AllLevels) /\ DOMAIN list.value = ToSet(old)
      /\ ToSet(old) \subseteq AllLevels
      /\ list.value \in [ToSet(old) -> V]
  BY DEF Lists
<1>2. Len(levels) \in Nat /\ DOMAIN levels = 1..Len(levels) /\ \A i \in 1..Len(levels) : levels[i] \in AllLevels
  BY LenProperties, ElementOfSeq
<1>3. pieces \in Queues(AllLevels) /\ Len(pieces) = Len(levels)
  <2>1. \A i \in 1..Len(levels) : <<levels[i]>> \in Seq(AllLevels) /\ <<>> \in Seq(AllLevels)
    BY <1>2, EmptySeq
  <2>2. pieces \in [1..Len(levels) -> Seq(AllLevels)] BY <1>2, <2>1
  <2> HIDE DEF pieces
  <2> QED BY <1>2, <2>2, SeqDef, LenProperties DEF Queues
<1>4. \A k \in 1..Len(levels) : \A x :
        x \in ToSet(pieces[k]) <=> levels[k] \notin ToSet(old) /\ x = levels[k]
  <2> TAKE k \in 1..Len(levels)
  <2>1. CASE levels[k] \in ToSet(old)
    <3>1. pieces[k] = <<>> BY <1>1, <1>2, <2>1
    <3> QED BY <2>1, <3>1 DEF ToSet
  <2>2. CASE levels[k] \notin ToSet(old)
    <3>1. pieces[k] = <<levels[k]>> BY <1>1, <1>2, <2>2
    <3> DEFINE one == <<levels[k]>>
    <3>2. DOMAIN one = {1} /\ one[1] = levels[k] OBVIOUS
    <3>3. ToSet(one) = {levels[k]}
      <4> HIDE DEF one
      <4> QED BY <3>2 DEF ToSet
    <3> QED BY <2>2, <3>1, <3>3
  <2> QED BY <2>1, <2>2
<1>5. new = FlattenSeq(pieces) BY DEF Missing
<1> HIDE DEF pieces, new
<1>6. new \in Seq(AllLevels) BY <1>3, <1>5, FlattenType
<1>7. ToSet(new) = ToSet(levels) \ ToSet(old)
  <2>1. ToSet(new) = {x \in AllLevels : \E k \in 1..Len(levels) : x \in ToSet(pieces[k])}
    BY <1>3, <1>5, FlattenMembers
  <2>2. ToSet(levels) = {levels[k] : k \in 1..Len(levels)} BY <1>2 DEF ToSet
  <2>3. ASSUME NEW x \in ToSet(new) PROVE x \in ToSet(levels) \ ToSet(old)
    <3>1. PICK k \in 1..Len(levels) : x \in ToSet(pieces[k]) BY <2>1
    <3> QED BY <1>4, <2>2, <3>1
  <2>4. ASSUME NEW x \in ToSet(levels) \ ToSet(old) PROVE x \in ToSet(new)
    <3>1. PICK k \in 1..Len(levels) : x = levels[k] BY <2>2
    <3>2. x \in ToSet(pieces[k]) BY <1>4, <3>1
    <3> QED BY <1>2, <2>1, <3>1, <3>2
  <2> QED BY <2>3, <2>4
<1>8. old \o new \in Seq(AllLevels) /\ ToSet(old \o new) = ToSet(old) \cup ToSet(new)
  BY <1>1, <1>6, ConcatMembers
<1>9. ToSet(levels) \subseteq AllLevels BY <1>2 DEF ToSet
<1> DEFINE both == Over([l \in ToSet(levels) |-> value], list.value)
<1>10. /\ both \in [ToSet(levels) \cup ToSet(old) -> V]
       /\ \A l \in ToSet(levels) : both[l] = value
       /\ \A l \in ToSet(old) \ ToSet(levels) : both[l] = list.value[l]
  <2> DEFINE A == ToSet(levels)
             B == ToSet(old)
             f == [l \in A |-> value]
             g == list.value
  <2>1. f \in [A -> V] /\ DOMAIN f = A /\ \A l \in A : f[l] = value OBVIOUS
  <2>2. g \in [B -> V] /\ DOMAIN g = B BY <1>1
  <2>3. Over(f, g) = [x \in DOMAIN f \cup DOMAIN g |-> IF x \in DOMAIN f THEN f[x] ELSE g[x]]
    BY WholeIs DEF Over
  <2> HIDE DEF A, B, f, g
  <2>4. /\ Over(f, g) \in [A \cup B -> V]
        /\ \A l \in A : Over(f, g)[l] = f[l]
        /\ \A l \in B \ A : Over(f, g)[l] = g[l]
    BY <2>1, <2>2, <2>3
  <2> QED BY <2>1, <2>4 DEF A, B, f, g
<1> DEFINE u == UnsafeSet(list, levels, value)
<1>11. u = [levels |-> old \o new, value |-> both]
  BY DEF UnsafeSet, new
<1> HIDE DEF u, both
<1>12. ToSet(old \o new) = ToSet(levels) \cup ToSet(old) BY <1>7, <1>8
<1>13. ToSet(levels) \cup ToSet(old) \in SUBSET AllLevels BY <1>1, <1>9
<1>14. u \in Lists(V)
  <2> DEFINE A == ToSet(levels) \cup ToSet(old)
  <2>1. both \in [A -> V] /\ DOMAIN both = A BY <1>10
  <2>2. both \in UNION {[B -> V] : B \in SUBSET AllLevels} BY <1>13, <2>1
  <2> QED BY <1>8, <1>11, <1>12, <2>1, <2>2 DEF Lists
<1>15. old # <<>> => u.levels[1] = old[1]
  <2> SUFFICES ASSUME old # <<>> PROVE (old \o new)[1] = old[1] BY <1>11
  <2>1. Len(old) \in Nat \ {0} BY <1>1, EmptySeq, LenProperties
  <2> QED BY <1>1, <1>6, <2>1, ConcatProperties
<1>16. old = <<>> /\ levels # <<>> => u.levels[1] = levels[1]
  <2> SUFFICES ASSUME old = <<>>, levels # <<>> PROVE u.levels[1] = levels[1] OBVIOUS
  <2>1. Len(levels) \in Nat \ {0} BY <1>2, EmptySeq, LenProperties
  <2>2. 1 \in 1..Len(levels) /\ 1 \in DOMAIN levels /\ pieces # <<>> BY <1>2, <1>3, <2>1, EmptySeq
  <2>3. DOMAIN list.value = {} BY <1>1 DEF ToSet
  <2>4. Head(pieces) = <<levels[1]>> BY <1>3, <2>2, <2>3 DEF pieces, Queues
  <2>5. Tail(pieces) \in Queues(AllLevels) BY <1>3, <2>2 DEF Queues
  <2>6. FlattenSeq(Tail(pieces)) \in Seq(AllLevels) BY <2>5, FlattenType
  <2>7. new = Head(pieces) \o FlattenSeq(Tail(pieces)) BY <1>3, <1>5, <2>2, FlattenHead
  <2>8. new[1] = levels[1]
    <3> DEFINE rest == FlattenSeq(Tail(pieces))
               one  == <<levels[1]>>
    <3>1. one \in Seq(AllLevels) /\ Len(one) = 1 /\ one[1] = levels[1] BY <1>2, <2>2
    <3> HIDE DEF rest, one
    <3>2. (one \o rest)[1] = one[1] BY <2>6, <3>1, ConcatProperties DEF rest
    <3> QED BY <2>4, <2>7, <3>1, <3>2 DEF rest, one
  <2>9. u.levels = new
    <3>1. <<>> \o new = new BY <1>6
    <3> QED BY <1>11, <3>1
  <2> QED BY <2>8, <2>9
<1>17. /\ ToSet(u.levels) = ToSet(list.levels) \cup ToSet(levels)
       /\ \A l \in ToSet(levels) : u.value[l] = value
       /\ \A l \in ToSet(list.levels) \ ToSet(levels) : u.value[l] = list.value[l]
  BY <1>10, <1>11, <1>12
<1> QED BY <1>14, <1>15, <1>16, <1>17 DEF u

\* Setting a value for a level; a value for level Global is set for all of them.
LEMMA SetLevelFacts ==
  ASSUME NEW V, NEW list \in Lists(V), NEW level \in AllLevels, NEW value \in V
  PROVE  LET new == SetLevel(list, level, value)
         IN  /\ new \in Lists(V) /\ ToSet(new.levels) # {}
             /\ ToSet(list.levels) \subseteq ToSet(new.levels)
             /\ level = "Global" => AllLevels \subseteq ToSet(new.levels)
             /\ new.value[level] = value
             /\ level = "Global" => \A l \in AllLevels : new.value[l] = value
             /\ level # "Global" =>
                  \A l \in ToSet(list.levels) \ {level} : new.value[l] = list.value[l]
             /\ new.levels[1] = IF list.levels = <<>> THEN level ELSE list.levels[1]
<1> DEFINE levels == IF level = "Global" THEN <<"Global">> \o Levels ELSE <<level>>
<1>1. /\ levels \in Seq(AllLevels) /\ ToSet(levels) # {} /\ levels # <<>>
      /\ levels[1] = level
      /\ ToSet(levels) = IF level = "Global" THEN AllLevels ELSE {level}
  <2>1. Levels \in Seq(AllLevels)
    <3>1. Levels \in Seq(ToSet(Levels)) BY DEF Levels, ToSet
    <3> QED BY <3>1, SeqMonotonic DEF AllLevels
  <2>2. <<level>> \in Seq(AllLevels) /\ <<"Global">> \in Seq(AllLevels)
    BY DEF AllLevels
  <2>3. \A x : ToSet(<<x>>) = {x} BY DEF ToSet
  <2>4. LET all == <<"Global">> \o Levels
        IN  all \in Seq(AllLevels) /\ ToSet(all) = AllLevels /\ all[1] = "Global"
    <3> DEFINE first == <<"Global">>
    <3>1. first \in Seq(AllLevels) /\ Len(first) = 1 /\ first[1] = "Global" BY <2>2
    <3>2. ToSet(first) = {"Global"} BY <2>3
    <3> HIDE DEF first
    <3>3. first \o Levels \in Seq(AllLevels) /\ ToSet(first \o Levels) = ToSet(first) \cup ToSet(Levels)
      BY <2>1, <3>1, ConcatMembers
    <3>4. (first \o Levels)[1] = "Global" BY <2>1, <3>1, ConcatProperties
    <3> QED BY <3>2, <3>3, <3>4 DEF first, AllLevels
  <2>5. CASE level = "Global"
    <3>1. levels = <<"Global">> \o Levels BY <2>5
    <3> HIDE DEF levels
    <3>2. levels # <<>>
      <4>1. ToSet(<<>>) = {} BY DEF ToSet
      <4> QED BY <2>4, <2>5, <3>1, <4>1
    <3> QED BY <2>4, <2>5, <3>1, <3>2
  <2>6. CASE level # "Global" BY <2>2, <2>3, <2>6
  <2> QED BY <2>5, <2>6
<1>2. SetLevel(list, level, value) = UnsafeSet(list, levels, value) BY DEF SetLevel
<1> DEFINE new == UnsafeSet(list, levels, value)
<1>3. /\ new \in Lists(V)
      /\ ToSet(new.levels) = ToSet(list.levels) \cup ToSet(levels)
      /\ \A l \in ToSet(levels) : new.value[l] = value
      /\ \A l \in ToSet(list.levels) \ ToSet(levels) : new.value[l] = list.value[l]
      /\ list.levels # <<>> => new.levels[1] = list.levels[1]
      /\ list.levels = <<>> => new.levels[1] = levels[1]
  <2>1. levels \in Seq(AllLevels) BY <1>1
  <2>2. levels # <<>> BY <1>1
  <2> HIDE DEF levels
  <2> QED BY <2>1, <2>2, UnsafeSetFacts
<1> HIDE DEF levels, new
<1>4. SetLevel(list, level, value) = new BY <1>2 DEF new
<1>5. CASE level = "Global" BY <1>1, <1>3, <1>4, <1>5
<1>6. CASE level # "Global" BY <1>1, <1>3, <1>4, <1>6
<1> QED BY <1>5, <1>6

\* Setting a value in a configuration.
LEMMA SetFacts ==
  ASSUME NEW conf \in Confs, NEW call \in SetCalls
  PROVE  /\ Set(conf, call[1], call[2], call[3]) \in Confs
         /\ call[2] = "Filename" =>
              Set(conf, call[1], call[2], call[3])["Filename"].levels # <<>>
<1> DEFINE type == call[2]
           list == SetLevel(conf[type], call[1], call[3])
           new == Set(conf, call[1], call[2], call[3])
<1>1. /\ conf \in [ConfigurationTypes -> Lists(Texts)] /\ conf["Filename"] \in Lists(Names)
      /\ call[1] \in AllLevels /\ type \in ConfigurationTypes /\ call[3] \in Texts
      /\ type = "Filename" => call[3] \in Names
      /\ "Filename" \in ConfigurationTypes
  BY DEF Confs, SetCalls, ConfigurationTypes
<1>2. list \in Lists(Texts) BY <1>1, SetLevelFacts
<1>3. type = "Filename" => list \in Lists(Names) /\ list.levels # <<>>
  <2>1. ToSet(<<>>) = {} BY DEF ToSet
  <2> QED BY <1>1, <2>1, SetLevelFacts
<1>4. new = [conf EXCEPT ![type] = list] BY DEF Set
<1> HIDE DEF list, new
<1>5. new \in [ConfigurationTypes -> Lists(Texts)] BY <1>1, <1>2, <1>4
<1>6. new["Filename"] = IF type = "Filename" THEN list ELSE conf["Filename"] BY <1>1, <1>4
<1> HIDE DEF type
<1> QED BY <1>1, <1>3, <1>5, <1>6 DEF Confs, new, type

\* The configurations in the course of a sequence of calls.
Course(conf, calls) ==
  {g \in [0..Len(calls) -> Confs] :
     /\ g[0] = conf
     /\ \A i \in 1..Len(calls) : g[i] = Set(g[i - 1], calls[i][1], calls[i][2], calls[i][3])}

\* A sequence of calls.
LEMMA ApplyFacts ==
  ASSUME NEW conf \in Confs, NEW calls \in Seq(SetCalls)
  PROVE  /\ Apply(conf, calls) \in Confs
         /\ \E g \in Course(conf, calls) : Apply(conf, calls) = g[Len(calls)]
<1> DEFINE n == Len(calls)
           Do(i, c) == Set(c, calls[i][1], calls[i][2], calls[i][3])
           F(f) == [i \in 0..n |-> IF i = 0 THEN {conf} ELSE {Do(i, c) : c \in f[i - 1]}]
           P(f) == f = F(f)
           h == CHOOSE f : P(f)
           step == [q \in Nat \X Confs |-> IF q[1] \in 1..n THEN Do(q[1], q[2]) ELSE conf]
<1>1. Apply(conf, calls) = The(h[n]) BY DEF Apply
<1>2. n \in Nat /\ \A i \in 1..n : calls[i] \in SetCalls BY LenProperties, ElementOfSeq
<1>3. \A i \in 1..n : \A c \in Confs : Do(i, c) \in Confs
  BY <1>2, SetFacts
<1> HIDE DEF n, Do
<1>4. step \in [Nat \X Confs -> Confs] /\ \A i \in 1..n : \A c \in Confs : step[<<i, c>>] = Do(i, c)
  BY <1>2, <1>3
<1> HIDE DEF step
<1>5. PICK g \in [0..n -> Confs] : g[0] = conf /\ \A i \in 1..n : g[i] = step[<<i, g[i - 1]>>]
  <2>1. n \in Nat BY <1>2
  <2>2. step \in [Nat \X Confs -> Confs] BY <1>4
  <2>3. Runs(Confs, conf, step, n) # {} BY <2>1, <2>2, IterationExists
  <2> QED BY <2>3 DEF Runs
<1>6. \A i \in 1..n : g[i] = Do(i, g[i - 1])
  <2>1. \A i \in 1..n : i - 1 \in 0..n BY <1>2
  <2> QED BY <1>4, <1>5, <2>1
<1> DEFINE G == [i \in 0..n |-> {g[i]}]
<1>7. P(G)
  <2>1. \A i \in 0..n : G[i] = F(G)[i]
    <3> TAKE i \in 0..n
    <3>1. CASE i = 0 BY <1>5, <3>1
    <3>2. CASE i # 0
      <4>1. i \in 1..n /\ i - 1 \in 0..n BY <1>2, <3>2
      <4>2. G[i - 1] = {g[i - 1]} /\ G[i] = {g[i]} BY <4>1
      <4> QED BY <1>6, <3>2, <4>1, <4>2
    <3> QED BY <3>1, <3>2
  <2>2. G = [i \in 0..n |-> G[i]] OBVIOUS
  <2> HIDE DEF G
  <2>3. F(G) = [i \in 0..n |-> F(G)[i]] OBVIOUS
  <2> QED BY <2>1, <2>2, <2>3
<1>8. P(h)
  <2> HIDE DEF P
  <2> QED BY <1>7
<1> HIDE DEF h
<1>9. h[0] = {conf} BY <1>2, <1>8
<1>10. ASSUME NEW i \in 1..n, NEW c \in Confs, h[i - 1] = {c} PROVE h[i] = {step[<<i, c>>]}
  <2>1. i \in 0..n /\ i # 0 BY <1>2
  <2>2. h[i] = {Do(i, d) : d \in h[i - 1]} BY <1>8, <2>1
  <2> QED BY <1>4, <1>10, <2>2
<1>11. h[n] = {g[n]} /\ g[n] \in Confs
  <2>1. n \in Nat BY <1>2
  <2>2. step \in [Nat \X Confs -> Confs] BY <1>4
  <2>3. g \in Runs(Confs, conf, step, n) BY <1>5 DEF Runs
  <2>4. IsLoop(h, Confs, conf, step, n) BY <1>9, <1>10 DEF IsLoop
  <2> HIDE DEF P, F, G
  <2> QED BY <2>1, <2>2, <2>3, <2>4, LoopResult
<1>12. Apply(conf, calls) = g[n] BY <1>1, <1>11, WholeIs
<1>13. g \in Course(conf, calls) BY <1>5, <1>6 DEF Course, n, Do
<1> QED BY <1>11, <1>12, <1>13 DEF n

\* The lists in the course of setting one from another.
Copying(V, list, base) ==
  {g \in [0..Len(base.levels) -> Lists(V)] :
     /\ g[0] = list
     /\ \A i \in 1..Len(base.levels) :
          g[i] = SetLevel(g[i - 1], base.levels[i], base.value[base.levels[i]])}

\* A list gone through, and set entry by entry.
LEMMA SetLevelsFacts ==
  ASSUME NEW V, NEW list \in Lists(V), NEW base \in Lists(V)
  PROVE  /\ SetLevels(list, base) \in Lists(V)
         /\ \E g \in Copying(V, list, base) : SetLevels(list, base) = g[Len(base.levels)]
         /\ base.levels # <<>> => SetLevels(list, base).levels # <<>>
<1> DEFINE n == Len(base.levels)
           D == Lists(V)
           Do(i, l) == SetLevel(l, base.levels[i], base.value[base.levels[i]])
           F(f) == [i \in 0..n |-> IF i = 0 THEN {list} ELSE {Do(i, l) : l \in f[i - 1]}]
           P(f) == f = F(f)
           h == CHOOSE f : P(f)
           step == [q \in Nat \X D |-> IF q[1] \in 1..n THEN Do(q[1], q[2]) ELSE list]
<1>1. SetLevels(list, base) = The(h[n]) BY DEF SetLevels
<1>2. /\ n \in Nat /\ base.levels \in Seq(AllLevels)
      /\ \A i \in 1..n : base.levels[i] \in AllLevels /\ base.value[base.levels[i]] \in V
  <2>1. base.levels \in Seq(AllLevels) /\ base.value \in [ToSet(base.levels) -> V] BY DEF Lists
  <2>2. n \in Nat /\ \A i \in 1..n : base.levels[i] \in AllLevels /\ base.levels[i] \in ToSet(base.levels)
    BY <2>1, LenProperties, ElementOfSeq DEF ToSet
  <2> QED BY <2>1, <2>2
<1>3. \A i \in 1..n : \A l \in D : Do(i, l) \in D /\ Do(i, l).levels # <<>>
  <2>1. ToSet(<<>>) = {} BY DEF ToSet
  <2> QED BY <1>2, <2>1, SetLevelFacts
<1>4. base.levels # <<>> => n # 0 BY <1>2, EmptySeq
<1> HIDE DEF n, Do
<1>5. step \in [Nat \X D -> D] /\ \A i \in 1..n : \A l \in D : step[<<i, l>>] = Do(i, l)
  BY <1>2, <1>3
<1> HIDE DEF step
<1>6. PICK g \in [0..n -> D] : g[0] = list /\ \A i \in 1..n : g[i] = step[<<i, g[i - 1]>>]
  <2>1. n \in Nat BY <1>2
  <2>2. step \in [Nat \X D -> D] BY <1>5
  <2>3. Runs(D, list, step, n) # {} BY <2>1, <2>2, IterationExists
  <2> QED BY <2>3 DEF Runs
<1>7. \A i \in 1..n : g[i] = Do(i, g[i - 1]) /\ g[i - 1] \in D
  <2>1. \A i \in 1..n : i - 1 \in 0..n BY <1>2
  <2> QED BY <1>5, <1>6, <2>1
<1> DEFINE G == [i \in 0..n |-> {g[i]}]
<1>8. P(G)
  <2>1. \A i \in 0..n : G[i] = F(G)[i]
    <3> TAKE i \in 0..n
    <3>1. CASE i = 0 BY <1>6, <3>1
    <3>2. CASE i # 0
      <4>1. i \in 1..n /\ i - 1 \in 0..n BY <1>2, <3>2
      <4>2. G[i - 1] = {g[i - 1]} /\ G[i] = {g[i]} BY <4>1
      <4> QED BY <1>7, <3>2, <4>1, <4>2
    <3> QED BY <3>1, <3>2
  <2>2. G = [i \in 0..n |-> G[i]] OBVIOUS
  <2> HIDE DEF G
  <2>3. F(G) = [i \in 0..n |-> F(G)[i]] OBVIOUS
  <2> QED BY <2>1, <2>2, <2>3
<1>9. P(h)
  <2> HIDE DEF P
  <2> QED BY <1>8
<1> HIDE DEF h
<1>10. h[0] = {list} BY <1>2, <1>9
<1>11. ASSUME NEW i \in 1..n, NEW l \in D, h[i - 1] = {l} PROVE h[i] = {step[<<i, l>>]}
  <2>1. i \in 0..n /\ i # 0 BY <1>2
  <2>2. h[i] = {Do(i, d) : d \in h[i - 1]} BY <1>9, <2>1
  <2> QED BY <1>5, <1>11, <2>2
<1>12. h[n] = {g[n]} /\ g[n] \in D
  <2>1. n \in Nat BY <1>2
  <2>2. step \in [Nat \X D -> D] BY <1>5
  <2>3. g \in Runs(D, list, step, n) BY <1>6 DEF Runs
  <2>4. IsLoop(h, D, list, step, n) BY <1>10, <1>11 DEF IsLoop
  <2>5. list \in D OBVIOUS
  <2> HIDE DEF P, F, G, D
  <2> QED BY <2>1, <2>2, <2>3, <2>4, <2>5, LoopResult
<1>13. SetLevels(list, base) = g[n] BY <1>1, <1>12, WholeIs
<1>14. n # 0 => g[n].levels # <<>>
  <2>1. n # 0 => n \in 1..n BY <1>2
  <2> QED BY <1>3, <1>7, <2>1
<1>15. g \in Copying(V, list, base) BY <1>6, <1>7 DEF Copying, n, Do
<1> QED BY <1>4, <1>12, <1>13, <1>14, <1>15 DEF n, D

\* A configuration set from another one.
LEMMA SetFromBaseFacts ==
  ASSUME NEW conf \in Confs, NEW base \in Confs
  PROVE  /\ SetFromBase(conf, base) \in Confs
         /\ base["Filename"].levels # <<>> => SetFromBase(conf, base)["Filename"].levels # <<>>
<1> DEFINE new == SetFromBase(conf, base)
<1>1. new = [type \in ConfigurationTypes |-> SetLevels(conf[type], base[type])]
  BY WholeIs DEF SetFromBase
<1>2. \A c \in {conf, base} :
        /\ \A type \in ConfigurationTypes : c[type] \in Lists(Texts)
        /\ c["Filename"] \in Lists(Names) /\ "Filename" \in ConfigurationTypes
  BY DEF Confs, ConfigurationTypes
<1>3. new \in [ConfigurationTypes -> Lists(Texts)] BY <1>1, <1>2, SetLevelsFacts
<1>4. new["Filename"] = SetLevels(conf["Filename"], base["Filename"]) BY <1>1, <1>2
<1> HIDE DEF new
<1>5. SetLevels(conf["Filename"], base["Filename"]) \in Lists(Names)
  BY <1>2, SetLevelsFacts
<1>6. base["Filename"].levels # <<>> => SetLevels(conf["Filename"], base["Filename"]).levels # <<>>
  BY <1>2, SetLevelsFacts
<1> QED BY <1>3, <1>4, <1>5, <1>6 DEF Confs, new

\* Maps from levels to values.
Maps(V) == UNION {[A -> V] : A \in SUBSET AllLevels}

\* A value put into a map.
LEMMA PutFacts ==
  ASSUME NEW V, NEW map \in Maps(V), NEW level \in AllLevels, NEW value \in V
  PROVE  /\ Put(map, level, value) \in Maps(V)
         /\ DOMAIN Put(map, level, value) = {level} \cup DOMAIN map
<1>1. PICK A \in SUBSET AllLevels : map \in [A -> V] BY DEF Maps
<1>2. [l \in {level} |-> value] \in [{level} -> V] OBVIOUS
<1>3. Put(map, level, value) \in [{level} \cup A -> V] BY <1>1, <1>2, OverFacts DEF Put
<1>4. {level} \cup A \in SUBSET AllLevels OBVIOUS
<1> HIDE DEF Put
<1> QED BY <1>1, <1>3, <1>4 DEF Maps

\* A value set in a map.
LEMMA SetValueType ==
  ASSUME NEW V, NEW map \in Maps(V), NEW level \in AllLevels, NEW value \in V
  PROVE  SetValue(map, level, value) \in Maps(V)
<1>1. "Global" \in AllLevels BY DEF AllLevels
<1>2. Put(map, "Global", value) \in Maps(V) /\ Put(map, level, value) \in Maps(V) BY <1>1, PutFacts
<1> QED BY <1>2 DEF SetValue

\* What is compiled for a level of a type.
TypedValue(conf, type, l) ==
  IF type = "Format" THEN LogFormat(l, conf[type].value[l]) ELSE conf[type].value[l]
TypedLevel(type, l) == IF type \in GlobalOnly THEN "Global" ELSE l

\* The maps in the course of the first loop of build.
Building(V, conf, type) ==
  {g \in [0..Len(conf[type].levels) -> Maps(V)] :
     /\ g[0] = << >>
     /\ \A i \in 1..Len(conf[type].levels) :
          LET l == conf[type].levels[i]
          IN  g[i] = SetValue(g[i - 1], TypedLevel(type, l), TypedValue(conf, type, l))}

\* The first loop of build.
LEMMA BuildMapFacts ==
  ASSUME NEW V, NEW conf \in Confs, NEW type \in ConfigurationTypes,
         \A l \in ToSet(conf[type].levels) : TypedValue(conf, type, l) \in V
  PROVE  /\ BuildMap(conf, type) \in Maps(V)
         /\ \E g \in Building(V, conf, type) : BuildMap(conf, type) = g[Len(conf[type].levels)]
<1> DEFINE D == Maps(V)
           levels == conf[type].levels
           n == Len(levels)
           Value(l) == TypedValue(conf, type, l)
           Level(l) == TypedLevel(type, l)
           Do(i, m) == SetValue(m, Level(levels[i]), Value(levels[i]))
           F(f) == [i \in 0..n |-> IF i = 0 THEN {<< >>} ELSE {Do(i, m) : m \in f[i - 1]}]
           P(f) == f = F(f)
           h == CHOOSE f : P(f)
           step == [q \in Nat \X D |-> IF q[1] \in 1..n THEN Do(q[1], q[2]) ELSE << >>]
<1>1. BuildMap(conf, type) = The(h[n]) BY DEF BuildMap, TypedValue, TypedLevel
<1>2. n \in Nat /\ \A i \in 1..n : Level(levels[i]) \in AllLevels /\ Value(levels[i]) \in V
  <2>1. conf[type] \in Lists(Texts) BY DEF Confs
  <2>2. levels \in Seq(AllLevels) BY <2>1 DEF Lists
  <2>3. n \in Nat /\ \A i \in 1..n : levels[i] \in AllLevels /\ levels[i] \in ToSet(levels)
    BY <2>2, LenProperties, ElementOfSeq DEF ToSet
  <2>4. \A i \in 1..n : Level(levels[i]) \in AllLevels BY <2>3 DEF AllLevels, TypedLevel
  <2> QED BY <2>3, <2>4
<1>3. << >> \in D
  <2>1. << >> \in [{} -> V] OBVIOUS
  <2> QED BY <2>1 DEF Maps
<1> HIDE DEF n, Level, Value, levels
<1>4. \A i \in 1..n : \A m \in D : Do(i, m) \in D BY <1>2, SetValueType
<1> HIDE DEF Do, D
<1>5. step \in [Nat \X D -> D] /\ \A i \in 1..n : \A m \in D : step[<<i, m>>] = Do(i, m)
  BY <1>2, <1>3, <1>4
<1> HIDE DEF step
<1>6. PICK g \in [0..n -> D] : g[0] = << >> /\ \A i \in 1..n : g[i] = step[<<i, g[i - 1]>>]
  <2>1. n \in Nat BY <1>2
  <2>2. step \in [Nat \X D -> D] BY <1>5
  <2>3. Runs(D, << >>, step, n) # {} BY <1>3, <2>1, <2>2, IterationExists
  <2> QED BY <2>3 DEF Runs
<1>7. \A i \in 1..n : g[i] = Do(i, g[i - 1])
  <2>1. \A i \in 1..n : i - 1 \in 0..n BY <1>2
  <2> QED BY <1>5, <1>6, <2>1
<1> DEFINE G == [i \in 0..n |-> {g[i]}]
<1>8. P(G)
  <2>1. \A i \in 0..n : G[i] = F(G)[i]
    <3> TAKE i \in 0..n
    <3>1. CASE i = 0 BY <1>6, <3>1
    <3>2. CASE i # 0
      <4>1. i \in 1..n /\ i - 1 \in 0..n BY <1>2, <3>2
      <4>2. G[i - 1] = {g[i - 1]} /\ G[i] = {g[i]} BY <4>1
      <4> QED BY <1>7, <3>2, <4>1, <4>2
    <3> QED BY <3>1, <3>2
  <2>2. G = [i \in 0..n |-> G[i]] OBVIOUS
  <2> HIDE DEF G
  <2>3. F(G) = [i \in 0..n |-> F(G)[i]] OBVIOUS
  <2> QED BY <2>1, <2>2, <2>3
<1>9. P(h)
  <2> HIDE DEF P
  <2> QED BY <1>8
<1> HIDE DEF h
<1>10. h[0] = {<< >>} BY <1>2, <1>9
<1>11. ASSUME NEW i \in 1..n, NEW m \in D, h[i - 1] = {m} PROVE h[i] = {step[<<i, m>>]}
  <2>1. i \in 0..n /\ i # 0 BY <1>2
  <2>2. h[i] = {Do(i, d) : d \in h[i - 1]} BY <1>9, <2>1
  <2> QED BY <1>5, <1>11, <2>2
<1>12. h[n] = {g[n]} /\ g[n] \in D
  <2>1. n \in Nat BY <1>2
  <2>2. step \in [Nat \X D -> D] BY <1>5
  <2>3. g \in Runs(D, << >>, step, n) BY <1>6 DEF Runs
  <2>4. IsLoop(h, D, << >>, step, n) BY <1>10, <1>11 DEF IsLoop
  <2> HIDE DEF P, F, G
  <2> QED BY <1>3, <2>1, <2>2, <2>3, <2>4, LoopResult
<1>13. BuildMap(conf, type) = g[n] BY <1>1, <1>12, WholeIs
<1>14. g \in Building(V, conf, type) BY <1>6, <1>7 DEF Building, n, Do, D, levels, Value, Level
<1> QED BY <1>12, <1>13, <1>14 DEF D, n, levels

\* For a type whose values are texts.
LEMMA BuildMapType ==
  ASSUME NEW conf \in Confs, NEW type \in ConfigurationTypes, type # "Format"
  PROVE  BuildMap(conf, type) \in Maps(Texts)
<1>1. conf[type] \in Lists(Texts) BY DEF Confs
<1>2. conf[type].value \in [ToSet(conf[type].levels) -> Texts] BY <1>1 DEF Lists
<1>3. \A l \in ToSet(conf[type].levels) : TypedValue(conf, type, l) \in Texts
  BY <1>2 DEF TypedValue
<1> QED BY <1>3, BuildMapFacts

\* The second loop of build: the first file is that of level Global, and all values
\* are names of files.
LEMMA InsertFilesFacts ==
  ASSUME NEW list \in Lists(Names), list.levels # <<>>, NEW toFile \in Maps(Texts), NEW writable
  PROVE  LET files == InsertFiles(list, toFile, writable).files
         IN  "Global" \in DOMAIN files /\ \A level \in DOMAIN files : files[level] \in Names
<1> DEFINE n == Len(list.levels)
           Files == {f \in Maps(Names) : f # << >> => "Global" \in DOMAIN f}
           D == [files : Files, toFile : Maps(Texts)]
           start == [files |-> << >>, toFile |-> toFile]
           Do(i, m) == InsertFile(m, IF m.files = << >> THEN "Global" ELSE list.levels[i],
                                  list.value[list.levels[i]], writable)
           F(f) == [i \in 0..n |-> IF i = 0 THEN {start} ELSE {Do(i, m) : m \in f[i - 1]}]
           P(f) == f = F(f)
           h == CHOOSE f : P(f)
           step == [q \in Nat \X D |-> IF q[1] \in 1..n THEN Do(q[1], q[2]) ELSE start]
<1>1. InsertFiles(list, toFile, writable) = The(h[n]) BY DEF InsertFiles
<1>2. /\ n \in Nat \ {0}
      /\ \A i \in 1..n : list.levels[i] \in AllLevels /\ list.value[list.levels[i]] \in Names
  <2>1. list.levels \in Seq(AllLevels) /\ list.value \in [ToSet(list.levels) -> Names] BY DEF Lists
  <2>2. n \in Nat /\ \A i \in 1..n : list.levels[i] \in AllLevels /\ list.levels[i] \in ToSet(list.levels)
    BY <2>1, LenProperties, ElementOfSeq DEF ToSet
  <2>3. n # 0 BY <2>1, EmptySeq
  <2> QED BY <2>1, <2>2, <2>3
<1> HIDE DEF n
<1>3. start \in D
  <2>1. << >> \in [{} -> Names] OBVIOUS
  <2> QED BY <2>1 DEF Maps
\* Insertion puts level Global first, and only adds.
<1>4. \A i \in 1..n : \A m \in D : Do(i, m) \in D /\ "Global" \in DOMAIN Do(i, m).files
  <2> TAKE i \in 1..n
  <2> TAKE m \in D
  <2> DEFINE level == IF m.files = << >> THEN "Global" ELSE list.levels[i]
             name  == list.value[list.levels[i]]
             files == IF level \in DOMAIN m.files THEN m.files ELSE Put(m.files, level, name)
             toF   == IF name \in writable THEN m.toFile ELSE SetValue(m.toFile, level, "false")
  <2>1. level \in AllLevels /\ name \in Names BY <1>2 DEF AllLevels
  <2>2. Do(i, m) = [files |-> files, toFile |-> toF] BY DEF InsertFile
  <2>3. m.files \in Maps(Names) /\ m.toFile \in Maps(Texts) /\ (m.files # << >> => "Global" \in DOMAIN m.files)
    OBVIOUS
  <2>4. m.files = << >> => level = "Global" /\ DOMAIN m.files = {} BY EmptySeq
  <2> HIDE DEF level, name
  <2>5. toF \in Maps(Texts)
    <3>1. \A map \in Maps(Texts) : \A l \in AllLevels : SetValue(map, l, "false") \in Maps(Texts)
      <4> TAKE map \in Maps(Texts)
      <4> TAKE l \in AllLevels
      <4>1. "false" \in Texts BY DEF Texts
      <4> HIDE DEF toF, files, level, name
      <4> QED BY <4>1, SetValueType
    <3>2. toF = m.toFile \/ toF = SetValue(m.toFile, level, "false") OBVIOUS
    <3> HIDE DEF toF
    <3> QED BY <2>1, <2>3, <3>1, <3>2
  <2>6. files \in Maps(Names) /\ "Global" \in DOMAIN files
    <3>1. CASE level \in DOMAIN m.files
      <4>1. files = m.files /\ m.files # << >> BY <2>4, <3>1
      <4> QED BY <2>3, <4>1
    <3>2. CASE level \notin DOMAIN m.files
      <4>1. files = Put(m.files, level, name) BY <3>2
      <4>2. files \in Maps(Names) /\ DOMAIN files = {level} \cup DOMAIN m.files
        <5>1. \A map \in Maps(Names) : \A l \in AllLevels : \A v \in Names :
                Put(map, l, v) \in Maps(Names) /\ DOMAIN Put(map, l, v) = {l} \cup DOMAIN map
          BY PutFacts
        <5> QED BY <2>1, <2>3, <4>1, <5>1
      <4> QED BY <2>3, <2>4, <4>2
    <3> QED BY <3>1, <3>2
  <2> HIDE DEF files, toF, Do
  <2> QED BY <2>2, <2>5, <2>6
<1>4a. \A m \in D : m.files \in Maps(Names) OBVIOUS
<1> HIDE DEF Do, D, start
<1>5. step \in [Nat \X D -> D] /\ \A i \in 1..n : \A m \in D : step[<<i, m>>] = Do(i, m)
  BY <1>2, <1>3, <1>4
<1> HIDE DEF step
<1>6. PICK g \in [0..n -> D] : g[0] = start /\ \A i \in 1..n : g[i] = step[<<i, g[i - 1]>>]
  <2>1. n \in Nat BY <1>2
  <2>2. step \in [Nat \X D -> D] BY <1>5
  <2>3. Runs(D, start, step, n) # {} BY <1>3, <2>1, <2>2, IterationExists
  <2> QED BY <2>3 DEF Runs
<1>7. \A i \in 1..n : g[i] = Do(i, g[i - 1]) /\ g[i - 1] \in D
  <2>1. \A i \in 1..n : i - 1 \in 0..n BY <1>2
  <2> QED BY <1>5, <1>6, <2>1
<1> DEFINE G == [i \in 0..n |-> {g[i]}]
<1>8. P(G)
  <2>1. \A i \in 0..n : G[i] = F(G)[i]
    <3> TAKE i \in 0..n
    <3>1. CASE i = 0 BY <1>6, <3>1
    <3>2. CASE i # 0
      <4>1. i \in 1..n /\ i - 1 \in 0..n BY <1>2, <3>2
      <4>2. G[i - 1] = {g[i - 1]} /\ G[i] = {g[i]} BY <4>1
      <4> QED BY <1>7, <3>2, <4>1, <4>2
    <3> QED BY <3>1, <3>2
  <2>2. G = [i \in 0..n |-> G[i]] OBVIOUS
  <2> HIDE DEF G
  <2>3. F(G) = [i \in 0..n |-> F(G)[i]] OBVIOUS
  <2> QED BY <2>1, <2>2, <2>3
<1>9. P(h)
  <2> HIDE DEF P
  <2> QED BY <1>8
<1> HIDE DEF h
<1>10. h[0] = {start} BY <1>2, <1>9
<1>11. ASSUME NEW i \in 1..n, NEW m \in D, h[i - 1] = {m} PROVE h[i] = {step[<<i, m>>]}
  <2>1. i \in 0..n /\ i # 0 BY <1>2
  <2>2. h[i] = {Do(i, d) : d \in h[i - 1]} BY <1>9, <2>1
  <2> QED BY <1>5, <1>11, <2>2
<1>12. h[n] = {g[n]} /\ g[n] \in D
  <2>1. n \in Nat BY <1>2
  <2>2. step \in [Nat \X D -> D] BY <1>5
  <2>3. g \in Runs(D, start, step, n) BY <1>6 DEF Runs
  <2>4. IsLoop(h, D, start, step, n) BY <1>10, <1>11 DEF IsLoop
  <2> HIDE DEF P, F, G
  <2> QED BY <1>3, <2>1, <2>2, <2>3, <2>4, LoopResult
<1>13. InsertFiles(list, toFile, writable) = g[n] BY <1>1, <1>12, WholeIs
<1>14. "Global" \in DOMAIN g[n].files
  <2>1. n \in 1..n BY <1>2
  <2> QED BY <1>4, <1>7, <2>1
<1>15. \A level \in DOMAIN g[n].files : g[n].files[level] \in Names
  <2>1. g[n].files \in Maps(Names) BY <1>4a, <1>12
  <2> QED BY <2>1 DEF Maps
<1> QED BY <1>13, <1>14, <1>15

\* The levels that have a number.
LEMMA LevelNames ==
  ToSet(Levels) = {"Trace", "Debug", "Fatal", "Error", "Warning", "Verbose", "Info"}
<1> DEFINE s == <<"Trace", "Debug", "Fatal", "Error", "Warning", "Verbose", "Info">>
<1>1. DOMAIN s = 1..7 /\ s[1] = "Trace" /\ s[2] = "Debug" /\ s[3] = "Fatal" /\ s[4] = "Error"
      /\ s[5] = "Warning" /\ s[6] = "Verbose" /\ s[7] = "Info"
  OBVIOUS
<1>2. Levels = s BY DEF Levels
<1> HIDE DEF s
<1>3. \A i \in 1..7 : i = 1 \/ i = 2 \/ i = 3 \/ i = 4 \/ i = 5 \/ i = 6 \/ i = 7 OBVIOUS
<1> QED BY <1>1, <1>2, <1>3 DEF ToSet

\* The calls of setToDefault in three parts.
FirstCalls == << <<"Global", "Enabled", "true">> >>
FileCalls(noDefaultFile) ==
  IF noDefaultFile THEN <<>> ELSE << <<"Global", "Filename", DefaultLogFile>> >>
OtherCalls ==
  << <<"Global", "ToFile", "true">>,
     <<"Global", "ToStandardOutput", "true">>,
     <<"Global", "MillisecondsWidth", "3">>,
     <<"Global", "PerformanceTracking", "true">>,
     <<"Global", "MaxLogFileSize", "0">>,
     <<"Global", "LogFlushThreshold", "0">>,
     <<"Global", "Format", "default">>,
     <<"Debug",   "Format", "debug">>,
     <<"Error",   "Format", "default">>,
     <<"Fatal",   "Format", "default">>,
     <<"Verbose", "Format", "verbose">>,
     <<"Trace",   "Format", "trace">> >>

\* The calls that configure a logger are such calls.
LEMMA DefaultCallsType ==
  ASSUME NEW n \in BOOLEAN
  PROVE  /\ FirstCalls \in Seq(SetCalls) /\ FileCalls(n) \in Seq(SetCalls)
         /\ OtherCalls \in Seq(SetCalls) /\ DefaultCalls(n) \in Seq(SetCalls)
         /\ DefaultCalls(n) = (FirstCalls \o FileCalls(n)) \o OtherCalls
<1>1. \A l \in AllLevels : \A type \in ConfigurationTypes \ {"Filename"} : \A value \in Texts :
        <<l, type, value>> \in SetCalls
  BY DEF SetCalls
<1>2. <<"Global", "Filename", DefaultLogFile>> \in SetCalls
  <2>1. DefaultLogFile \in Names /\ DefaultLogFile \in Texts BY DEF Names, Texts
  <2>2. "Global" \in AllLevels /\ "Filename" \in ConfigurationTypes BY DEF AllLevels, ConfigurationTypes
  <2> QED BY <2>1, <2>2 DEF SetCalls
<1>3. {"Global", "Debug", "Error", "Fatal", "Verbose", "Trace"} \subseteq AllLevels
  BY LevelNames DEF AllLevels
<1>4. {"Enabled", "ToFile", "ToStandardOutput", "MillisecondsWidth", "PerformanceTracking",
       "MaxLogFileSize", "LogFlushThreshold", "Format"} \subseteq ConfigurationTypes \ {"Filename"}
  BY DEF ConfigurationTypes
<1>5. {"true", "3", "0", "default", "debug", "verbose", "trace"} \subseteq Texts BY DEF Texts
<1>6. FirstCalls \in Seq(SetCalls) BY <1>1, <1>3, <1>4, <1>5 DEF FirstCalls
<1>7. FileCalls(n) \in Seq(SetCalls) BY <1>2, EmptySeq DEF FileCalls
<1>8. OtherCalls \in Seq(SetCalls)
  <2>1. /\ <<"Global", "ToFile", "true">> \in SetCalls
        /\ <<"Global", "ToStandardOutput", "true">> \in SetCalls
        /\ <<"Global", "MillisecondsWidth", "3">> \in SetCalls
        /\ <<"Global", "PerformanceTracking", "true">> \in SetCalls
        /\ <<"Global", "MaxLogFileSize", "0">> \in SetCalls
        /\ <<"Global", "LogFlushThreshold", "0">> \in SetCalls
    BY <1>1, <1>3, <1>4, <1>5
  <2>2. /\ <<"Global", "Format", "default">> \in SetCalls
        /\ <<"Debug", "Format", "debug">> \in SetCalls
        /\ <<"Error", "Format", "default">> \in SetCalls
        /\ <<"Fatal", "Format", "default">> \in SetCalls
        /\ <<"Verbose", "Format", "verbose">> \in SetCalls
        /\ <<"Trace", "Format", "trace">> \in SetCalls
    BY <1>1, <1>3, <1>4, <1>5
  <2> QED BY <2>1, <2>2 DEF OtherCalls
<1>9. DefaultCalls(n) = (FirstCalls \o FileCalls(n)) \o OtherCalls
  BY DEF DefaultCalls, FirstCalls, FileCalls, OtherCalls
<1>10. FirstCalls \o FileCalls(n) \in Seq(SetCalls) BY <1>6, <1>7, ConcatProperties
<1>11. (FirstCalls \o FileCalls(n)) \o OtherCalls \in Seq(SetCalls) BY <1>8, <1>10, ConcatProperties
<1> QED BY <1>6, <1>7, <1>8, <1>9, <1>11

\* The configurations of the programs and of the library.
LEMMA ConfsTypes ==
  ASSUME NEW n \in BOOLEAN
  PROVE  /\ Empty \in Confs /\ SetToDefault(n) \in Confs /\ ProgramConf(n) \in Confs
         /\ ProgramConf(n)["Filename"].levels # <<>>
         /\ Constructed(n, "default") = SetFromBase(Empty, SetToDefault(n))
         /\ Constructed(n, "default") \in Confs
<1>1. Empty \in Confs
  <2>1. Empty = [type \in ConfigurationTypes |-> [levels |-> <<>>, value |-> << >>]]
    BY WholeIs DEF Empty
  <2>2. "Filename" \in ConfigurationTypes BY DEF ConfigurationTypes
  <2> QED BY <2>1, <2>2, EmptyList DEF Confs
<1>2. SetToDefault(n) \in Confs BY <1>1, DefaultCallsType, ApplyFacts DEF SetToDefault
<1>3. ProgramConf(n) \in Confs /\ ProgramConf(n)["Filename"].levels # <<>>
  <2> DEFINE call == <<"Global", "Filename", SharedLogFile>>
  <2>1. call \in SetCalls /\ call[2] = "Filename"
    <3>1. SharedLogFile \in Names /\ SharedLogFile \in Texts BY DEF Names, Texts
    <3>2. "Global" \in AllLevels /\ "Filename" \in ConfigurationTypes BY DEF AllLevels, ConfigurationTypes
    <3> QED BY <3>1, <3>2 DEF SetCalls
  <2>2. ProgramConf(n) = Set(SetToDefault(n), call[1], call[2], call[3]) BY DEF ProgramConf
  <2> HIDE DEF call
  <2> QED BY <1>2, <2>1, <2>2, SetFacts
<1>4. Constructed(n, "default") = SetFromBase(Empty, SetToDefault(n)) BY DEF Constructed
<1>5. Constructed(n, "default") \in Confs
  BY <1>1, <1>2, <1>4, SetFromBaseFacts
<1> QED BY <1>1, <1>2, <1>3, <1>5, <1>4

\* What the default logger of a program is configured to and compiled to.
LEMMA DefaultLogger ==
  ASSUME NEW n \in BOOLEAN, NEW c \in BOOLEAN, NEW o \in SUBSET {DefaultLogFile, SharedLogFile}
  PROVE  /\ Conf[n][c]["default"] = IF c THEN SetFromBase(Constructed(n, "default"), ProgramConf(n))
                                          ELSE Constructed(n, "default")
         /\ Conf[n][c]["default"] \in Confs
         /\ TypedConf[n][c]["default"][o] = Build(Conf[n][c]["default"], "default", o)
<1>1. Conf[n][c]["default"] = IF c THEN SetFromBase(Constructed(n, "default"), ProgramConf(n))
                                   ELSE Constructed(n, "default")
  <2>1. Conf = [k \in BOOLEAN |-> [configured \in BOOLEAN |-> [l \in Loggers |->
                  IF configured THEN SetFromBase(Constructed(k, l), ProgramConf(k))
                                ELSE Constructed(k, l)]]]
    BY WholeIs DEF Conf
  <2>2. "default" \in Loggers BY DEF Loggers
  <2> QED BY <2>1, <2>2
<1>2. Conf[n][c]["default"] \in Confs BY <1>1, ConfsTypes, SetFromBaseFacts
<1>3. TypedConf[n][c]["default"][o] = Build(Conf[n][c]["default"], "default", o)
  <2>1. TypedConf = [k \in BOOLEAN |-> [d \in BOOLEAN |-> [l \in Loggers |->
                       [q \in SUBSET {DefaultLogFile, SharedLogFile} |-> Build(Conf[k][d][l], l, q)]]]]
    BY WholeIs DEF TypedConf
  <2>2. "default" \in Loggers BY DEF Loggers
  <2> HIDE DEF Build, Conf
  <2> QED BY <2>1, <2>2
<1> QED BY <1>1, <1>2, <1>3

\* The names of files in a configured logger: there is one for every level.
LEMMA ConfiguredNames ==
  ASSUME NEW n \in BOOLEAN, NEW o \in SUBSET {DefaultLogFile, SharedLogFile}, NEW level
  PROVE  Lookup(TypedConf[n][TRUE]["default"][o], "Filename", level) \in Names
<1> DEFINE conf == Conf[n][TRUE]["default"]
<1>1. conf \in Confs /\ TypedConf[n][TRUE]["default"][o] = Build(conf, "default", o)
  BY DefaultLogger
<1>2. conf["Filename"].levels # <<>>
  <2>1. TRUE \in BOOLEAN OBVIOUS
  <2>2. conf = SetFromBase(Constructed(n, "default"), ProgramConf(n)) BY <2>1, DefaultLogger
  <2> QED BY <2>2, ConfsTypes, SetFromBaseFacts
<1> HIDE DEF conf
<1> DEFINE files == InsertFiles(conf["Filename"], BuildMap(conf, "ToFile"), o).files
<1>3. TypedConf[n][TRUE]["default"][o]["Filename"] = files
  BY <1>1 DEF Build
<1>4. BuildMap(conf, "ToFile") \in Maps(Texts)
  BY <1>1, BuildMapType DEF ConfigurationTypes
<1>5. "Global" \in DOMAIN files /\ \A l \in DOMAIN files : files[l] \in Names
  BY <1>1, <1>2, <1>4, InsertFilesFacts DEF Confs
<1> HIDE DEF files
<1> QED BY <1>3, <1>5 DEF Lookup

-----------------------------------------------------------------------------
(* Behaviour that is not defined.                                          *)

\* Only a Ctrl-C starts the thread of the library's handler, and a program opens no
\* other files than the two.
DefinedInv ==
  /\ undefined \subseteq interrupted
  /\ opened \in [Programs -> SUBSET {DefaultLogFile, SharedLogFile}]
  /\ \A p \in Programs :
       KindOf[p] = "client" /\ (Busy(<<p, "handler">>) \/ done[<<p, "handler">>] > 0) => p \in interrupted

\* A configured program has a file for every level.
LEMMA ConfiguredHasStream ==
  ASSUME DefinedInv, NEW p \in Programs, IsConfigured(p), NEW level
  PROVE  ~NoStream(Typed(p, "default"), level)
<1> DEFINE n == NoDefaultFile(p)
           o == opened[p]
<1>1. n \in BOOLEAN BY DEF NoDefaultFile
<1>2. o \in SUBSET {DefaultLogFile, SharedLogFile} BY DEF DefinedInv
<1>3. IsConfigured(p) = TRUE BY DEF IsConfigured
<1>4. Typed(p, "default") = TypedConf[n][TRUE]["default"][o] BY <1>3 DEF Typed
<1> HIDE DEF n, o
<1>5. Lookup(Typed(p, "default"), "Filename", level) \in Names
  BY <1>1, <1>2, <1>4, ConfiguredNames
<1>6. Nothing \notin Names BY DEF Nothing, Names, DefaultLogFile, SharedLogFile
<1> QED BY <1>5, <1>6 DEF NoStream, LogFile

\* A step that neither begins a statement of the handler nor ends one.
Harmless ==
  /\ opened' \in [Programs -> SUBSET {DefaultLogFile, SharedLogFile}]
  /\ undefined' = undefined /\ interrupted' = interrupted
  /\ \A p \in Programs : KindOf[p] = "client" =>
       /\ Busy(<<p, "handler">>)' => Busy(<<p, "handler">>)
       /\ done'[<<p, "handler">>] > 0 => done[<<p, "handler">>] > 0 \/ Busy(<<p, "handler">>)

\* Such a step keeps the invariant.
LEMMA HarmlessKeeps == ASSUME DefinedInv, Harmless PROVE DefinedInv'
<1>1. undefined' \subseteq interrupted' BY DEF DefinedInv, Harmless
<1>2. opened' \in [Programs -> SUBSET {DefaultLogFile, SharedLogFile}] BY DEF Harmless
<1>3. ASSUME NEW p \in Programs, KindOf[p] = "client",
             Busy(<<p, "handler">>)' \/ done'[<<p, "handler">>] > 0
      PROVE  p \in interrupted'
  BY <1>3 DEF DefinedInv, Harmless
<1> QED BY <1>1, <1>2, <1>3 DEF DefinedInv

\* The handler of a client is one of its threads.
LEMMA HandlerIsWriter ==
  \A p \in Programs : KindOf[p] = "client" => <<p, "handler">> \in Writers
<1> QED BY ThreadIsWriter DEF Threads

\* A statement of a program's own threads: the program is configured, and no other
\* thread of it is busy, unless it has been interrupted.
LEMMA LogKeeps ==
  ASSUME Typing, DefinedInv, NEW w \in Writers, Log(w)
  PROVE  DefinedInv'
<1> DEFINE p == w[1]
<1>1. p \in Programs /\ w = <<p, w[2]>> /\ w[2] \in Threads(p) BY WriterShape
<1>2. IsConfigured(p) /\ (w[2] = "main" \/ w[2] = "reader") /\ interrupted' = interrupted
  BY DEF Log, IsConfigured
<1>3. PICK m \in Messages : Begin(w, m[1], m[2]) BY DEF Log
<1>4. ~Busy(w) /\ UNCHANGED <<opened, done>> BY <1>3 DEF Begin
<1>5. Collides(p) => KindOf[p] = "client" /\ Busy(<<p, "handler">>)
  BY <1>1, <1>2, <1>4 DEF Collides, Threads
<1>6. ~NoStream(Typed(p, "default"), m[1]) BY <1>1, <1>2, ConfiguredHasStream
<1>7. undefined' \subseteq interrupted'
  <2>1. CASE Collides(p)
    <3>1. p \in interrupted BY <1>1, <1>5, <2>1 DEF DefinedInv
    <3>2. undefined' = undefined \cup {p} BY <1>3, <2>1 DEF Begin
    <3> QED BY <1>2, <3>1, <3>2 DEF DefinedInv
  <2>2. CASE ~Collides(p)
    <3>1. undefined' = undefined BY <1>3, <1>6, <2>2 DEF Begin
    <3> QED BY <1>2, <3>1 DEF DefinedInv
  <2> QED BY <2>1, <2>2
<1>8. ASSUME NEW q \in Programs, KindOf[q] = "client", Busy(<<q, "handler">>)'
      PROVE  Busy(<<q, "handler">>)
  <2> DEFINE v == <<q, "handler">>
  <2>1. v \in Writers /\ v # w
    <3>1. v[2] = "handler" OBVIOUS
    <3>2. v \in Writers BY <1>8, HandlerIsWriter
    <3> HIDE DEF v
    <3> QED BY <1>2, <3>1, <3>2
  <2>2. stmt'[v] = stmt[v] \/ stmt'[v] = Idle
    <3> HIDE DEF v
    <3>1. stmt' = [u \in Writers |-> IF u[1] = p THEN Idle ELSE stmt[u]]
          \/ \E s : stmt' = [stmt EXCEPT ![w] = s]
      BY <1>3 DEF Begin
    <3>2. stmt = [u \in Writers |-> stmt[u]] BY DEF Typing
    <3> QED BY <2>1, <3>1, <3>2
  <2> QED BY <1>8, <2>2 DEF Busy, Idle
<1> QED BY <1>2, <1>4, <1>7, <1>8 DEF DefinedInv

\* A statement of the library's handler, whose program is an interrupted one.
LEMMA HandlerKeeps ==
  ASSUME Typing, DefinedInv, NEW p \in Programs, KindOf[p] = "client", NEW level, NEW message,
         Begin(<<p, "handler">>, level, message),
         interrupted \subseteq interrupted', p \in interrupted'
  PROVE  DefinedInv'
<1> DEFINE w == <<p, "handler">>
<1>1. w \in Writers /\ w[1] = p BY HandlerIsWriter
<1>2. UNCHANGED <<opened, done>> BY DEF Begin
<1>3. undefined' = undefined \cup {p} \/ undefined' = undefined BY DEF Begin
<1>4. ASSUME NEW q \in Programs, KindOf[q] = "client", Busy(<<q, "handler">>)', q # p
      PROVE  Busy(<<q, "handler">>)
  <2> DEFINE v == <<q, "handler">>
  <2>1. v \in Writers /\ v # w /\ v[1] = q BY <1>4, HandlerIsWriter
  <2>2. stmt' = [u \in Writers |-> IF u[1] = p THEN Idle ELSE stmt[u]]
        \/ \E s : stmt' = [stmt EXCEPT ![w] = s]
    BY DEF Begin
  <2>3. stmt = [u \in Writers |-> stmt[u]] BY DEF Typing
  <2> HIDE DEF w, v
  <2>4. stmt'[v] = stmt[v] BY <1>4, <2>1, <2>2, <2>3
  <2> QED BY <1>4, <2>4 DEF Busy, v
<1> QED BY <1>2, <1>3, <1>4 DEF DefinedInv

\* All other steps are harmless.
LEMMA OthersHarmless ==
  ASSUME Typing, DefinedInv
  PROVE  /\ \A p \in Programs :
              \/ Construct(p) \/ ConfigureLogging(p) \/ RegisterHandler(p) \/ SetupRedirection(p)
              \/ Abort(p) \/ End(p)
              => Harmless
         /\ \A w \in Writers : SeekEnd(w) \/ WriteFile(w) \/ WriteFails(w) \/ Show(w) => Harmless
         /\ UNCHANGED vars => Harmless
<1> USE DEF DefinedInv
<1>1. ASSUME NEW p \in Programs,
             Construct(p) \/ ConfigureLogging(p) \/ RegisterHandler(p) \/ SetupRedirection(p)
      PROVE  Harmless
  <2>1. UNCHANGED <<stmt, done, undefined, interrupted>>
    BY <1>1 DEF Construct, ConfigureLogging, RegisterHandler, SetupRedirection, StatementsUnchanged
  <2>2. opened' = opened \/ \E name \in {DefaultLogFile, SharedLogFile} :
                              opened' = [opened EXCEPT ![p] = @ \cup {name}]
    BY <1>1 DEF Construct, ConfigureLogging, RegisterHandler, SetupRedirection, MayOpen
  <2>3. opened' \in [Programs -> SUBSET {DefaultLogFile, SharedLogFile}] BY <2>2
  <2> QED BY <2>1, <2>3 DEF Harmless, Busy
<1>2. ASSUME NEW p \in Programs, Abort(p) \/ End(p) PROVE Harmless
  <2>1. UNCHANGED <<opened, done, undefined, interrupted>> /\ Ends(p) BY <1>2 DEF Abort, End, Ends
  <2>2. \A v \in Writers : IF v[1] = p THEN stmt'[v].phase = "idle" ELSE stmt'[v] = stmt[v]
    BY <2>1, EndsFacts
  <2>3. \A v \in Writers : Busy(v)' => Busy(v) BY <2>2 DEF Busy
  <2> QED BY <2>1, <2>3, HandlerIsWriter DEF Harmless, Busy
<1>3. ASSUME NEW w \in Writers, SeekEnd(w) \/ WriteFile(w) \/ WriteFails(w) \/ Show(w) PROVE Harmless
  <2>1. UNCHANGED <<opened, undefined, interrupted>> /\ stmt[w].phase # "idle"
    BY <1>3 DEF SeekEnd, WriteFile, WriteFails, Show
  <2>2. \E s : stmt' = [stmt EXCEPT ![w] = s]
    BY <1>3 DEF SeekEnd, WriteFile, WriteFails, Show, Goto
  <2>3. stmt = [v \in Writers |-> stmt[v]] BY DEF Typing
  <2>4. \A v \in Writers : v # w => stmt'[v] = stmt[v] BY <2>2, <2>3
  <2>5. done' = done \/ done' = [done EXCEPT ![w] = @ + 1]
    BY <1>3 DEF SeekEnd, WriteFile, WriteFails, Show
  <2>6. \A v \in Writers : v # w => done'[v] = done[v] BY <2>5 DEF Typing
  <2>7. \A v \in Writers : stmt'[v].phase # "idle" => stmt[v].phase # "idle" BY <2>1, <2>4
  <2>8. \A v \in Writers : done'[v] > 0 => done[v] > 0 \/ stmt[v].phase # "idle" BY <2>1, <2>6
  <2> QED BY <2>1, <2>7, <2>8, HandlerIsWriter DEF Harmless, Busy
<1>4. ASSUME UNCHANGED vars PROVE Harmless BY <1>4 DEF vars, Harmless, Busy
<1> QED BY <1>1, <1>2, <1>3, <1>4

\* Every step keeps the invariant.
LEMMA DefinedStep == Typing /\ DefinedInv /\ [Next]_vars => DefinedInv'
<1> SUFFICES ASSUME Typing, DefinedInv, [Next]_vars PROVE DefinedInv' OBVIOUS
<1>1. CASE Harmless BY <1>1, HarmlessKeeps
<1>2. ASSUME NEW w \in Writers, Log(w) PROVE DefinedInv' BY <1>2, LogKeeps
<1>3. ASSUME NEW p \in Programs, Interrupt(p) PROVE DefinedInv'
  <2>1. /\ KindOf[p] = "client" /\ Begin(<<p, "handler">>, "Fatal", <<"crash">>)
        /\ interrupted' = interrupted \cup {p}
    BY <1>3 DEF Interrupt
  <2> QED BY <2>1, HandlerKeeps
<1>4. ASSUME NEW p \in Programs, LogAbort(p) PROVE DefinedInv'
  <2>1. /\ KindOf[p] = "client" /\ Begin(<<p, "handler">>, "Warning", <<"aborting">>)
        /\ interrupted' = interrupted /\ done[<<p, "handler">>] = 1
    BY <1>4 DEF LogAbort
  <2>2. p \in interrupted BY <2>1 DEF DefinedInv
  <2> QED BY <2>1, <2>2, HandlerKeeps
<1> QED BY <1>1, <1>2, <1>3, <1>4, OthersHarmless DEF Next

\* No program logs to a stream that is not there, and no two threads of one are within
\* the library at once, except after a Ctrl-C that came before OnConsole had a handler
\* of its own: whatever the other programs do and whichever files can be opened, each
\* level of a configured program has a file, and only the library's handler runs
\* beside another thread.
THEOREM DefinedCorrect == Spec => []DefinedUnlessInterrupted
<1>1. Init => Typing /\ DefinedInv
  <2> SUFFICES ASSUME Init PROVE Typing /\ DefinedInv OBVIOUS
  <2>1. Typing BY FileInvInit
  <2>2. \A w \in Writers : ~Busy(w) /\ done[w] = 0 BY DEF Init, Busy, Idle
  <2> QED BY <2>1, <2>2, HandlerIsWriter DEF Init, DefinedInv
<1>2. (Typing /\ FileInv) /\ DefinedInv /\ [Next]_vars => (Typing /\ FileInv)' /\ DefinedInv'
  BY FileInvStep, DefinedStep
<1>3. Init => Typing /\ FileInv BY FileInvInit
<1>4. DefinedInv => DefinedUnlessInterrupted BY DEF DefinedInv, DefinedUnlessInterrupted
<1> QED BY <1>1, <1>2, <1>3, <1>4, PTL DEF Spec

-----------------------------------------------------------------------------
(* The formats in a configuration.                                         *)

\* The levels at which the programs and the library's handler log, which have the
\* same format.
Plain == {"Fatal", "Error", "Warning", "Info"}

\* Lists of formats, and those that begin with level Global, have all levels and the
\* default format for the plain ones.
Empties == {list \in Lists(Texts) : list.levels = <<>>}
Defaults ==
  {list \in Lists(Texts) :
     /\ list.levels # <<>> /\ list.levels[1] = "Global" /\ AllLevels \subseteq ToSet(list.levels)
     /\ \A l \in Plain \cup {"Global"} : list.value[l] = "default"}

\* Plain levels are levels.
LEMMA PlainLevels == Plain \cup {"Global"} \subseteq AllLevels /\ "Global" \notin Plain
<1> QED BY LevelNames DEF Plain, AllLevels

\* A list that is not empty has levels.
LEMMA HasLevels ==
  ASSUME NEW list \in Lists(Texts)
  PROVE  ToSet(list.levels) # {} <=> list.levels # <<>>
<1>1. list.levels \in Seq(AllLevels) BY DEF Lists
<1>2. Len(list.levels) \in Nat /\ DOMAIN list.levels = 1..Len(list.levels) BY <1>1, LenProperties
<1>3. list.levels # <<>> => 1 \in DOMAIN list.levels BY <1>1, <1>2, EmptySeq
<1>4. list.levels = <<>> => DOMAIN list.levels = {} BY EmptySeq
<1> HIDE DEF Lists
<1> QED BY <1>3, <1>4 DEF ToSet

\* The default format for level Global makes a list a default one, and what else is
\* set keeps it one unless it is another format for a plain level.
LEMMA DefaultsKept ==
  ASSUME NEW list \in Lists(Texts), NEW level \in AllLevels, NEW value \in Texts
  PROVE  /\ list \in Empties \cup Defaults /\ level = "Global" /\ value = "default"
              => SetLevel(list, level, value) \in Defaults
         /\ list \in Defaults /\ (level \in Plain \cup {"Global"} => value = "default")
              => SetLevel(list, level, value) \in Defaults
<1> DEFINE new == SetLevel(list, level, value)
<1>1. /\ new \in Lists(Texts) /\ ToSet(new.levels) # {}
      /\ ToSet(list.levels) \subseteq ToSet(new.levels)
      /\ level = "Global" => AllLevels \subseteq ToSet(new.levels)
      /\ new.value[level] = value
      /\ level = "Global" => \A l \in AllLevels : new.value[l] = value
      /\ level # "Global" => \A l \in ToSet(list.levels) \ {level} : new.value[l] = list.value[l]
      /\ new.levels[1] = IF list.levels = <<>> THEN level ELSE list.levels[1]
  BY SetLevelFacts
<1> HIDE DEF new
<1>2. new.levels # <<>> BY <1>1, HasLevels
<1>3. ASSUME list \in Empties \cup Defaults, level = "Global", value = "default" PROVE new \in Defaults
  <2>1. new.levels[1] = "Global" BY <1>1, <1>3 DEF Empties, Defaults
  <2>2. \A l \in Plain \cup {"Global"} : new.value[l] = "default" BY <1>1, <1>3, PlainLevels
  <2> QED BY <1>1, <1>2, <1>3, <2>1, <2>2 DEF Defaults
<1>4. ASSUME list \in Defaults, level # "Global", level \in Plain => value = "default"
      PROVE  new \in Defaults
  <2>1. new.levels[1] = "Global" /\ AllLevels \subseteq ToSet(new.levels) BY <1>1, <1>4 DEF Defaults
  <2>2. ASSUME NEW l \in Plain \cup {"Global"} PROVE new.value[l] = "default"
    <3>1. l \in AllLevels /\ AllLevels \subseteq ToSet(list.levels) /\ list.value[l] = "default"
      BY <1>4, PlainLevels DEF Defaults
    <3>2. CASE l = level BY <1>1, <1>4, <3>2
    <3>3. CASE l # level BY <1>1, <1>4, <3>1, <3>3
    <3> QED BY <3>2, <3>3
  <2> QED BY <1>1, <1>2, <2>1, <2>2 DEF Defaults
<1>5. Defaults \subseteq Lists(Texts) BY DEF Defaults
<1> QED BY <1>3, <1>4 DEF new

\* A default list is copied to a default list.
LEMMA DefaultsCopied ==
  ASSUME NEW list \in Empties \cup Defaults, NEW base \in Defaults
  PROVE  SetLevels(list, base) \in Defaults
<1> DEFINE n == Len(base.levels)
<1>1. /\ list \in Lists(Texts) /\ base \in Lists(Texts)
      /\ base.levels # <<>> /\ base.levels[1] = "Global"
      /\ \A l \in Plain \cup {"Global"} : base.value[l] = "default"
  BY DEF Empties, Defaults
<1>2. /\ n \in Nat \ {0}
      /\ \A i \in 1..n : base.levels[i] \in AllLevels /\ base.value[base.levels[i]] \in Texts
  <2>1. base.levels \in Seq(AllLevels) /\ base.value \in [ToSet(base.levels) -> Texts]
    BY <1>1 DEF Lists
  <2>2. n \in Nat /\ \A i \in 1..n : base.levels[i] \in AllLevels /\ base.levels[i] \in ToSet(base.levels)
    BY <2>1, LenProperties, ElementOfSeq DEF ToSet
  <2>3. n # 0 BY <1>1, <2>1, EmptySeq
  <2> QED BY <2>1, <2>2, <2>3
<1>3. PICK g \in Copying(Texts, list, base) : SetLevels(list, base) = g[n]
  BY <1>1, SetLevelsFacts
<1> HIDE DEF n
<1>4. /\ g \in [0..n -> Lists(Texts)] /\ g[0] = list
      /\ \A i \in 1..n : g[i] = SetLevel(g[i - 1], base.levels[i], base.value[base.levels[i]])
  BY DEF Copying, n
<1> DEFINE T == {i \in Nat : i + 1 <= n => g[i + 1] \in Defaults}
<1>5. 0 \in T
  <2>1. 1 \in 1..n /\ 0 + 1 = 1 /\ 1 - 1 = 0 BY <1>2
  <2>2. g[1] = SetLevel(list, "Global", "default") BY <1>1, <1>4, <2>1
  <2>3. "Global" \in AllLevels /\ "default" \in Texts BY PlainLevels DEF Texts
  <2> QED BY <1>1, <2>1, <2>2, <2>3, DefaultsKept
<1>6. ASSUME NEW i \in Nat, i \in T PROVE i + 1 \in T
  <2> SUFFICES ASSUME (i + 1) + 1 <= n PROVE g[(i + 1) + 1] \in Defaults OBVIOUS
  <2> DEFINE k == (i + 1) + 1
  <2>1. k \in 1..n /\ k - 1 = i + 1 /\ i + 1 <= n BY <1>2
  <2> HIDE DEF k
  <2>2. g[k - 1] \in Defaults BY <1>6, <2>1
  <2>3. g[k - 1] \in Lists(Texts) BY <2>2 DEF Defaults
  <2>4. g[k] = SetLevel(g[k - 1], base.levels[k], base.value[base.levels[k]]) BY <1>4, <2>1
  <2>5. base.levels[k] \in Plain \cup {"Global"} => base.value[base.levels[k]] = "default" BY <1>1
  <2>6. base.levels[k] \in AllLevels /\ base.value[base.levels[k]] \in Texts BY <1>2, <2>1
  <2>7. g[k] \in Defaults BY <2>2, <2>3, <2>4, <2>5, <2>6, DefaultsKept
  <2> QED BY <2>7 DEF k
<1> HIDE DEF T
<1>7. Nat \subseteq T BY <1>5, <1>6, SetInduction
<1>8. n - 1 \in T /\ (n - 1) + 1 = n BY <1>2, <1>7
<1>9. g[n] \in Defaults BY <1>8 DEF T
<1> QED BY <1>3, <1>9

\* Calls of which the m-th is the first about formats and sets level Global; none of
\* the later ones changes the format of a plain level.
Establishes(calls, m) ==
  /\ m \in 1..Len(calls) /\ calls[m] = <<"Global", "Format", "default">>
  /\ \A i \in 1..Len(calls) : i < m => calls[i][2] # "Format"
  /\ \A i \in 1..Len(calls) :
       i > m /\ calls[i][2] = "Format" /\ calls[i][1] \in Plain \cup {"Global"} => calls[i][3] = "default"

\* Such calls give a configuration its formats.
LEMMA DefaultsEstablished ==
  ASSUME NEW conf \in Confs, conf["Format"] \in Empties \cup Defaults,
         NEW calls \in Seq(SetCalls), NEW m, Establishes(calls, m)
  PROVE  Apply(conf, calls)["Format"] \in Defaults
<1> DEFINE n == Len(calls)
<1>1. PICK g \in Course(conf, calls) : Apply(conf, calls) = g[n] BY ApplyFacts
<1>2. n \in Nat /\ m \in 1..n /\ \A i \in 1..n : calls[i] \in SetCalls
  BY LenProperties, ElementOfSeq DEF Establishes
<1>3. /\ g \in [0..n -> Confs] /\ g[0] = conf
      /\ \A i \in 1..n : g[i] = Set(g[i - 1], calls[i][1], calls[i][2], calls[i][3])
  BY <1>1 DEF Course
<1> HIDE DEF n
\* One call.
<1>4. ASSUME NEW i \in 1..n
      PROVE  /\ g[i - 1]["Format"] \in Lists(Texts)
             /\ calls[i][1] \in AllLevels /\ calls[i][3] \in Texts
             /\ calls[i][2] # "Format" => g[i]["Format"] = g[i - 1]["Format"]
             /\ calls[i][2] = "Format" =>
                  g[i]["Format"] = SetLevel(g[i - 1]["Format"], calls[i][1], calls[i][3])
  <2>1. i - 1 \in 0..n BY <1>2
  <2>2. g[i - 1] \in Confs BY <1>3, <2>1
  <2>3. g[i - 1] \in [ConfigurationTypes -> Lists(Texts)] /\ "Format" \in ConfigurationTypes
    BY <2>2 DEF Confs, ConfigurationTypes
  <2>4. calls[i][1] \in AllLevels /\ calls[i][3] \in Texts BY <1>2 DEF SetCalls
  <2>5. g[i] = [g[i - 1] EXCEPT ![calls[i][2]] = SetLevel(@, calls[i][1], calls[i][3])]
    BY <1>3 DEF Set
  <2>6. calls[i][2] \in ConfigurationTypes BY <1>2 DEF SetCalls
  <2> QED BY <2>3, <2>4, <2>5, <2>6
<1> DEFINE Ok(i) == IF i < m THEN g[i]["Format"] \in Empties \cup Defaults
                             ELSE g[i]["Format"] \in Defaults
           T == {i \in Nat : i <= n => Ok(i)}
<1>5. 0 \in T BY <1>2, <1>3
<1>6. ASSUME NEW i \in Nat, i \in T PROVE i + 1 \in T
  <2> SUFFICES ASSUME i + 1 <= n PROVE Ok(i + 1) OBVIOUS
  <2> DEFINE k == i + 1
  <2>1. k \in 1..n /\ k - 1 = i /\ i <= n /\ m \in Nat BY <1>2
  <2>2. Ok(i) BY <1>6, <2>1
  <2> HIDE DEF k
  <2>3. CASE k < m
    <3>1. calls[k][2] # "Format" BY <2>1, <2>3 DEF Establishes, n
    <3>2. g[k]["Format"] = g[i]["Format"] BY <1>4, <2>1, <3>1
    <3>3. i < m BY <2>1, <2>3
    <3> QED BY <2>2, <2>3, <3>2, <3>3 DEF k
  <2>4. CASE k = m
    <3>1. calls[k] = <<"Global", "Format", "default">> BY <2>4 DEF Establishes
    <3>2. g[k]["Format"] = SetLevel(g[i]["Format"], "Global", "default") BY <1>4, <2>1, <3>1
    <3>3. i < m BY <2>1, <2>4
    <3>4. g[i]["Format"] \in Empties \cup Defaults BY <2>2, <3>3
    <3>5. g[i]["Format"] \in Lists(Texts) BY <3>4 DEF Empties, Defaults
    <3>6. "Global" \in AllLevels /\ "default" \in Texts BY PlainLevels DEF Texts
    <3>7. g[k]["Format"] \in Defaults BY <3>2, <3>4, <3>5, <3>6, DefaultsKept
    <3> QED BY <2>1, <2>4, <3>7 DEF k
  <2>5. CASE k > m
    <3>1. ~(i < m) BY <2>1, <2>5
    <3>2. g[i]["Format"] \in Defaults BY <2>2, <3>1
    <3>3. g[k]["Format"] \in Defaults
      <4>1. CASE calls[k][2] # "Format" BY <1>4, <2>1, <3>2, <4>1
      <4>2. CASE calls[k][2] = "Format"
        <5>1. calls[k][1] \in Plain \cup {"Global"} => calls[k][3] = "default"
          BY <2>1, <2>5, <4>2 DEF Establishes, n
        <5>2. g[k]["Format"] = SetLevel(g[i]["Format"], calls[k][1], calls[k][3]) BY <1>4, <2>1, <4>2
        <5>3. /\ g[i]["Format"] \in Lists(Texts) /\ calls[k][1] \in AllLevels /\ calls[k][3] \in Texts
          BY <1>4, <2>1
        <5> QED BY <3>2, <5>1, <5>2, <5>3, DefaultsKept
      <4> QED BY <4>1, <4>2
    <3> QED BY <2>1, <2>5, <3>3 DEF k
  <2> QED BY <2>1, <2>3, <2>4, <2>5
<1> HIDE DEF T
<1>7. n \in T BY <1>2, <1>5, <1>6, SetInduction
<1>8. Ok(n) BY <1>2, <1>7 DEF T
<1> QED BY <1>1, <1>2, <1>8

\* The empty configuration has no formats.
LEMMA EmptyFormats == Empty["Format"] \in Empties
<1>1. Empty = [type \in ConfigurationTypes |-> [levels |-> <<>>, value |-> << >>]]
  BY WholeIs DEF Empty
<1>2. "Format" \in ConfigurationTypes BY DEF ConfigurationTypes
<1> QED BY <1>1, <1>2, EmptyList DEF Empties

\* The calls of setToDefault do so.
LEMMA DefaultCallsEstablish ==
  ASSUME NEW n \in BOOLEAN
  PROVE  \E m : Establishes(DefaultCalls(n), m)
<1>1. /\ FirstCalls \in Seq(SetCalls) /\ FileCalls(n) \in Seq(SetCalls) /\ OtherCalls \in Seq(SetCalls)
      /\ DefaultCalls(n) = (FirstCalls \o FileCalls(n)) \o OtherCalls
  BY DefaultCallsType
<1>2. /\ Len(OtherCalls) = 12 /\ OtherCalls[7] = <<"Global", "Format", "default">>
      /\ \A i \in 1..12 : i < 7 => OtherCalls[i][2] # "Format"
      /\ \A i \in 1..12 : i >= 7 /\ OtherCalls[i][1] \in Plain \cup {"Global"} => OtherCalls[i][3] = "default"
  <2> DEFINE s == OtherCalls
  <2>1. /\ Len(s) = 12
        /\ s[1][2] = "ToFile" /\ s[2][2] = "ToStandardOutput" /\ s[3][2] = "MillisecondsWidth"
        /\ s[4][2] = "PerformanceTracking" /\ s[5][2] = "MaxLogFileSize" /\ s[6][2] = "LogFlushThreshold"
        /\ s[7] = <<"Global", "Format", "default">>
        /\ s[8][1] = "Debug" /\ s[9][3] = "default" /\ s[10][3] = "default" /\ s[7][3] = "default"
        /\ s[11][1] = "Verbose" /\ s[12][1] = "Trace"
    BY DEF OtherCalls
  <2>2. \A i \in 1..12 : i < 7 => i = 1 \/ i = 2 \/ i = 3 \/ i = 4 \/ i = 5 \/ i = 6 OBVIOUS
  <2>3. \A i \in 1..12 : i >= 7 => i = 7 \/ i = 8 \/ i = 9 \/ i = 10 \/ i = 11 \/ i = 12 OBVIOUS
  <2>4. {"Debug", "Verbose", "Trace"} \cap (Plain \cup {"Global"}) = {} BY DEF Plain
  <2> HIDE DEF s
  <2>5. \A i \in 1..12 : i < 7 => s[i][2] # "Format" BY <2>1, <2>2
  <2>6. \A i \in 1..12 : i >= 7 /\ s[i][1] \in Plain \cup {"Global"} => s[i][3] = "default"
    BY <2>1, <2>3, <2>4
  <2> QED BY <2>1, <2>5, <2>6 DEF s
<1>3. Len(FirstCalls) = 1 /\ FirstCalls[1][2] # "Format" BY DEF FirstCalls
<1>4. /\ Len(FileCalls(n)) \in {0, 1}
      /\ Len(FileCalls(n)) = 1 => FileCalls(n)[1][2] # "Format"
  BY DEF FileCalls
<1> DEFINE calls == DefaultCalls(n)
           front == FirstCalls \o FileCalls(n)
           k == Len(front)
<1>0. \A a, b \in Seq(SetCalls) :
        /\ a \o b \in Seq(SetCalls) /\ Len(a \o b) = Len(a) + Len(b)
        /\ \A i \in 1..(Len(a) + Len(b)) : (a \o b)[i] = IF i <= Len(a) THEN a[i] ELSE b[i - Len(a)]
  BY ConcatProperties
<1>5. front \in Seq(SetCalls) /\ k \in {1, 2} /\ \A i \in 1..k : front[i][2] # "Format"
  <2>1. /\ front \in Seq(SetCalls) /\ k = 1 + Len(FileCalls(n))
        /\ \A i \in 1..k : front[i] = IF i <= 1 THEN FirstCalls[i] ELSE FileCalls(n)[i - 1]
    <3> DEFINE a == FirstCalls
               b == FileCalls(n)
    <3>1. a \in Seq(SetCalls) /\ b \in Seq(SetCalls) /\ Len(a) = 1 BY <1>1, <1>3
    <3> HIDE DEF a, b
    <3>2. /\ a \o b \in Seq(SetCalls) /\ Len(a \o b) = 1 + Len(b)
          /\ \A i \in 1..(1 + Len(b)) : (a \o b)[i] = IF i <= 1 THEN a[i] ELSE b[i - 1]
      <4>1. /\ a \o b \in Seq(SetCalls) /\ Len(a \o b) = Len(a) + Len(b)
            /\ \A i \in 1..(Len(a) + Len(b)) : (a \o b)[i] = IF i <= Len(a) THEN a[i] ELSE b[i - Len(a)]
        BY <1>0, <3>1
      <4> QED BY <3>1, <4>1
    <3> QED BY <3>2 DEF a, b
  <2>2. k \in {1, 2} /\ (k = 2 => Len(FileCalls(n)) = 1) BY <1>4, <2>1
  <2>3. front[1] = FirstCalls[1] BY <2>1, <2>2
  <2>4. k = 2 => front[2] = FileCalls(n)[1] BY <2>1, <2>2
  <2>5. \A i \in 1..k : i = 1 \/ (k = 2 /\ i = 2) BY <2>2
  <2> HIDE DEF front, k
  <2> QED BY <1>3, <1>4, <2>1, <2>2, <2>3, <2>4, <2>5
<1>6. /\ Len(calls) = k + 12
      /\ \A i \in 1..(k + 12) : calls[i] = IF i <= k THEN front[i] ELSE OtherCalls[i - k]
  <2> DEFINE b == OtherCalls
  <2>1. calls = front \o b /\ b \in Seq(SetCalls) /\ Len(b) = 12 BY <1>1, <1>2
  <2>2. front \in Seq(SetCalls) /\ k = Len(front) BY <1>5
  <2> HIDE DEF b, front, calls, k
  <2>3. /\ Len(front \o b) = Len(front) + Len(b)
        /\ \A i \in 1..(Len(front) + Len(b)) :
             (front \o b)[i] = IF i <= Len(front) THEN front[i] ELSE b[i - Len(front)]
    BY <1>0, <2>1, <2>2
  <2>4. /\ Len(calls) = Len(front) + Len(b)
        /\ \A i \in 1..(Len(front) + Len(b)) :
             calls[i] = IF i <= Len(front) THEN front[i] ELSE b[i - Len(front)]
    BY <2>1, <2>3, Zenon
  <2>5. Len(calls) = k + 12 BY <2>1, <2>2, <2>4
  <2>6. \A i \in 1..(k + 12) : calls[i] = IF i <= k THEN front[i] ELSE b[i - k]
    BY <2>1, <2>2, <2>4, Zenon
  <2> QED BY <2>5, <2>6 DEF b
<1> HIDE DEF calls, front, k
<1> DEFINE m == k + 7
<1>7. m \in 1..Len(calls) /\ calls[m] = <<"Global", "Format", "default">>
  <2>1. m \in 1..(k + 12) /\ ~(m <= k) /\ m - k = 7 BY <1>5
  <2> QED BY <1>2, <1>6, <2>1
<1>8. ASSUME NEW i \in 1..Len(calls), i < m PROVE calls[i][2] # "Format"
  <2>1. CASE i <= k
    <3>1. i \in 1..k /\ i \in 1..(k + 12) BY <1>5, <1>6, <2>1
    <3> QED BY <1>5, <1>6, <2>1, <3>1
  <2>2. CASE ~(i <= k)
    <3>1. i \in 1..(k + 12) /\ i - k \in 1..12 /\ i - k < 7 BY <1>5, <1>6, <1>8, <2>2
    <3>2. calls[i] = OtherCalls[i - k] BY <1>6, <2>2, <3>1
    <3> QED BY <1>2, <3>1, <3>2
  <2> QED BY <2>1, <2>2
<1>9. ASSUME NEW i \in 1..Len(calls), i > m, calls[i][1] \in Plain \cup {"Global"}
      PROVE  calls[i][3] = "default"
  <2>1. i \in 1..(k + 12) /\ ~(i <= k) /\ i - k \in 1..12 /\ i - k >= 7 BY <1>5, <1>6, <1>9
  <2>2. calls[i] = OtherCalls[i - k] BY <1>6, <2>1
  <2> QED BY <1>2, <1>9, <2>1, <2>2
<1> HIDE DEF m
<1>10. Establishes(calls, m) BY <1>7, <1>8, <1>9 DEF Establishes
<1> QED BY <1>10 DEF calls

\* Whether a program has configured it or not, its default logger has the default
\* formats.
LEMMA FormatsAreDefault ==
  ASSUME NEW n \in BOOLEAN, NEW c \in BOOLEAN
  PROVE  Conf[n][c]["default"]["Format"] \in Defaults
<1>1. SetToDefault(n)["Format"] \in Defaults
  <2>1. PICK m : Establishes(DefaultCalls(n), m) BY DefaultCallsEstablish
  <2>2. Empty["Format"] \in Empties \cup Defaults BY EmptyFormats
  <2> QED BY <2>1, <2>2, ConfsTypes, DefaultCallsType, DefaultsEstablished DEF SetToDefault
<1>2. "Format" \in ConfigurationTypes /\ "Format" # "Filename" BY DEF ConfigurationTypes
<1>3. ProgramConf(n)["Format"] \in Defaults
  <2>1. SetToDefault(n) \in [ConfigurationTypes -> Lists(Texts)] BY ConfsTypes DEF Confs
  <2>2. ProgramConf(n)["Format"] = SetToDefault(n)["Format"]
    BY <1>2, <2>1 DEF ProgramConf, Set
  <2> QED BY <1>1, <2>2
<1>4. \A conf, base : SetFromBase(conf, base)["Format"] = SetLevels(conf["Format"], base["Format"])
  BY <1>2, WholeIs DEF SetFromBase
<1>5. Constructed(n, "default")["Format"] \in Defaults
  <2>1. Empty["Format"] \in Empties \cup Defaults BY EmptyFormats
  <2> QED BY <1>1, <1>4, <2>1, ConfsTypes, DefaultsCopied
<1>6. SetFromBase(Constructed(n, "default"), ProgramConf(n))["Format"] \in Defaults
  <2>1. Constructed(n, "default")["Format"] \in Empties \cup Defaults BY <1>5
  <2> QED BY <1>3, <1>4, <2>1, DefaultsCopied
<1>7. {} \in SUBSET {DefaultLogFile, SharedLogFile} OBVIOUS
<1> QED BY <1>5, <1>6, <1>7, DefaultLogger

\* What putting a value into a map makes of it.
LEMMA PutIs ==
  \A map, level, value :
    Put(map, level, value) =
      [x \in {level} \cup DOMAIN map |-> IF x = level THEN value ELSE map[x]]
<1> SUFFICES ASSUME NEW map, NEW level, NEW value
             PROVE  Put(map, level, value) =
                      [x \in {level} \cup DOMAIN map |-> IF x = level THEN value ELSE map[x]]
  OBVIOUS
<1> DEFINE f == [l \in {level} |-> value]
<1>1. DOMAIN f = {level} /\ f[level] = value OBVIOUS
<1>2. Put(map, level, value) =
        [x \in DOMAIN f \cup DOMAIN map |-> IF x \in DOMAIN f THEN f[x] ELSE map[x]]
  BY WholeIs DEF Put, Over
<1> HIDE DEF f
<1> QED BY <1>1, <1>2

\* A compiled format knows its level.
LEMMA LevelOfFormat == \A l, name : LogFormat(l, name).level = l
BY DEF LogFormat

\* The entry of a level is the default format, with the level's name; and level Global
\* has a format of its own, so that no other level's equals it.
Compiled(map, level) == level \in DOMAIN map /\ map[level] = LogFormat(level, "default")
GlobalFirst(map) == "Global" \in DOMAIN map /\ map["Global"].level = "Global"

\* Compiling formats: a map gets one more, and keeps those it has.
LEMMA FormatCompiled ==
  ASSUME NEW map, NEW l, NEW name, GlobalFirst(map), l \in Plain => name = "default"
  PROVE  /\ GlobalFirst(SetValue(map, l, LogFormat(l, name)))
         /\ \A k \in Plain :
              Compiled(map, k) \/ k = l => Compiled(SetValue(map, l, LogFormat(l, name)), k)
<1> DEFINE value == LogFormat(l, name)
           put == Put(map, l, value)
           new == SetValue(map, l, value)
<1>1. value.level = l BY LevelOfFormat
<1>2. l \in Plain => value = LogFormat(l, "default") OBVIOUS
<1> HIDE DEF value
<1>3. map # << >> BY EmptySeq DEF GlobalFirst
<1>4. new = IF map["Global"] = value THEN map ELSE put BY <1>3 DEF SetValue, value, GlobalFirst
<1> HIDE DEF new
<1>5. CASE map["Global"] = value
  <2>1. l = "Global" /\ new = map BY <1>1, <1>4, <1>5 DEF GlobalFirst
  <2> QED BY <2>1, PlainLevels DEF new, value
<1>6. CASE map["Global"] # value
  <2>1. put = [x \in {l} \cup DOMAIN map |-> IF x = l THEN value ELSE map[x]] BY PutIs
  <2>2. new = put BY <1>4, <1>6
  <2> HIDE DEF put
  <2>3. GlobalFirst(new) BY <1>1, <2>1, <2>2 DEF GlobalFirst
  <2>4. ASSUME NEW k \in Plain, Compiled(map, k) \/ k = l PROVE Compiled(new, k)
    <3>1. CASE k = l BY <1>2, <2>1, <2>2, <2>4, <3>1 DEF Compiled
    <3>2. CASE k # l BY <2>1, <2>2, <2>4, <3>2 DEF Compiled
    <3> QED BY <3>1, <3>2
  <2> QED BY <2>3, <2>4 DEF new, value
<1> QED BY <1>5, <1>6

\* The default logger's formats, compiled: a plain level has the default format, with
\* its name and the logger's in it.
LEMMA FormatsBuilt ==
  ASSUME NEW conf \in Confs, conf["Format"] \in Defaults, NEW level \in Plain, NEW o
  PROVE  Lookup(Build(conf, "default", o), "Format", level)
           = ResolveLogger(LogFormat(level, "default"), "default")
<1> DEFINE list == conf["Format"]
           levels == list.levels
           n == Len(levels)
           V == {LogFormat(l, name) : l \in AllLevels, name \in Texts}
           formats == BuildMap(conf, "Format")
<1>1. /\ list \in Lists(Texts) /\ levels # <<>> /\ levels[1] = "Global"
      /\ AllLevels \subseteq ToSet(levels) /\ \A l \in Plain \cup {"Global"} : list.value[l] = "default"
  BY DEF Defaults
<1>2. /\ n \in Nat \ {0} /\ ToSet(levels) \subseteq AllLevels
      /\ \A i \in 1..n : levels[i] \in AllLevels /\ levels[i] \in ToSet(levels)
      /\ \A l \in ToSet(levels) : (\E i \in 1..n : levels[i] = l) /\ list.value[l] \in Texts
  <2>1. levels \in Seq(AllLevels) /\ list.value \in [ToSet(levels) -> Texts] BY <1>1 DEF Lists
  <2>2. n \in Nat /\ DOMAIN levels = 1..n /\ \A i \in 1..n : levels[i] \in AllLevels
    BY <2>1, LenProperties, ElementOfSeq
  <2>3. n # 0 BY <1>1, <2>1, EmptySeq
  <2>4. ToSet(levels) = {levels[i] : i \in 1..n} BY <2>2 DEF ToSet
  <2> HIDE DEF levels, n, list
  <2> QED BY <2>1, <2>2, <2>3, <2>4
<1>3. "Format" \in ConfigurationTypes /\ "Format" \notin GlobalOnly BY DEF ConfigurationTypes, GlobalOnly
<1>4. \A l : TypedLevel("Format", l) = l /\ TypedValue(conf, "Format", l) = LogFormat(l, list.value[l])
  BY <1>3 DEF TypedLevel, TypedValue
<1>5. PICK g \in Building(V, conf, "Format") : formats = g[n]
  <2>1. \A l \in ToSet(levels) : TypedValue(conf, "Format", l) \in V BY <1>2, <1>4
  <2> HIDE DEF V
  <2> QED BY <1>3, <2>1, BuildMapFacts
<1>6. /\ g[0] = << >>
      /\ \A i \in 1..n : g[i] = SetValue(g[i - 1], levels[i], LogFormat(levels[i], list.value[levels[i]]))
  BY <1>4 DEF Building
<1> HIDE DEF formats, list, levels, n, V
<1> DEFINE Ok(i) == GlobalFirst(g[i]) /\ \A j \in 1..i : levels[j] \in Plain => Compiled(g[i], levels[j])
           T == {i \in Nat : i + 1 <= n => Ok(i + 1)}
<1>7. 0 \in T
  <2>1. 1 \in 1..n /\ 0 + 1 = 1 /\ 1 - 1 = 0 BY <1>2
  <2> DEFINE value == LogFormat("Global", list.value["Global"])
  <2>2. value.level = "Global" BY LevelOfFormat
  <2>3. g[1] = Put(<< >>, "Global", value)
    <3>1. g[1] = SetValue(g[0], "Global", value) BY <1>1, <1>6, <2>1
    <3> QED BY <1>6, <3>1 DEF SetValue
  <2>4. Put(<< >>, "Global", value)
          = [x \in {"Global"} \cup DOMAIN << >> |-> IF x = "Global" THEN value ELSE << >>[x]]
    BY PutIs
  <2> HIDE DEF value
  <2>5. "Global" \in DOMAIN g[1] /\ g[1]["Global"] = value BY <2>3, <2>4
  <2>6. \A j \in 1..1 : levels[j] \notin Plain BY <1>1, PlainLevels
  <2>7. Ok(1) BY <2>2, <2>5, <2>6 DEF GlobalFirst
  <2> QED BY <2>1, <2>7
<1>8. ASSUME NEW i \in Nat, i \in T PROVE i + 1 \in T
  <2> SUFFICES ASSUME (i + 1) + 1 <= n PROVE Ok((i + 1) + 1) OBVIOUS
  <2> DEFINE k == (i + 1) + 1
             l == levels[k]
             name == list.value[l]
  <2>1. k \in 1..n /\ k - 1 = i + 1 /\ i + 1 <= n BY <1>2
  <2>2. Ok(i + 1) BY <1>8, <2>1
  <2>3. l \in Plain => name = "default" BY <1>1
  <2>4. g[k] = SetValue(g[i + 1], l, LogFormat(l, name)) BY <1>6, <2>1
  <2>5. /\ GlobalFirst(g[k])
        /\ \A x \in Plain : Compiled(g[i + 1], x) \/ x = l => Compiled(g[k], x)
    <3> HIDE DEF k, l, name
    <3> QED BY <2>2, <2>3, <2>4, FormatCompiled
  <2>6. \A j \in 1..k : j \in 1..(i + 1) \/ j = k BY <2>1
  <2> HIDE DEF k
  <2>7. ASSUME NEW j \in 1..k, levels[j] \in Plain PROVE Compiled(g[k], levels[j])
    BY <2>2, <2>5, <2>6, <2>7
  <2>8. Ok(k) BY <2>5, <2>7
  <2> QED BY <2>8 DEF k
<1> HIDE DEF T
<1>9. Nat \subseteq T BY <1>7, <1>8, SetInduction
<1>10. n - 1 \in T /\ (n - 1) + 1 = n BY <1>2, <1>9
<1>11. Ok(n) BY <1>10 DEF T
<1>12. level \in DOMAIN formats /\ formats[level] = LogFormat(level, "default")
  <2>1. level \in ToSet(levels) BY <1>1, PlainLevels
  <2>2. PICK i \in 1..n : levels[i] = level BY <1>2, <2>1
  <2> QED BY <1>5, <1>11, <2>2 DEF Compiled
<1> DEFINE resolved == ResolveLoggers(formats, "default")
<1>13. level \in DOMAIN resolved /\ resolved[level] = ResolveLogger(LogFormat(level, "default"), "default")
  <2>1. level # "Global" BY PlainLevels
  <2>2. \A x : Whole(x) = x BY WholeIs
  <2> QED BY <1>12, <2>1, <2>2 DEF ResolveLoggers
<1>14. Build(conf, "default", o)["Format"] = resolved BY DEF Build, formats
<1> HIDE DEF resolved
<1> QED BY <1>13, <1>14 DEF Lookup

-----------------------------------------------------------------------------
(* Lines.                                                                  *)

\* Members put together one by one.
LEMMA FlattenSingles ==
  ASSUME NEW S, NEW t \in Seq(S), t # <<>>
  PROVE  FlattenSeq([i \in DOMAIN t |-> <<t[i]>>]) = t
<1> DEFINE n == Len(t)
           seqs == [i \in DOMAIN t |-> <<t[i]>>]
           g == [k \in 1..n |-> [i \in 1..k |-> t[i]]]
<1>1. n \in Nat \ {0} /\ DOMAIN t = 1..n /\ \A i \in 1..n : t[i] \in S
  BY EmptySeq, LenProperties, ElementOfSeq
<1>2. seqs \in Seq(Seq(S)) /\ Len(seqs) = n
  <2>1. \A i \in 1..n : <<t[i]>> \in Seq(S) BY <1>1
  <2>2. seqs \in [1..n -> Seq(S)] BY <1>1, <2>1
  <2> HIDE DEF seqs
  <2> QED BY <1>1, <2>2, SeqDef, LenProperties
<1>3. \A k \in 1..n : g[k] \in Seq(S) /\ Len(g[k]) = k /\ \A i \in 1..k : g[k][i] = t[i]
  <2> TAKE k \in 1..n
  <2>1. g[k] \in [1..k -> S] /\ k \in Nat BY <1>1
  <2>2. \A i \in 1..k : g[k][i] = t[i] OBVIOUS
  <2> HIDE DEF g
  <2> QED BY <2>1, <2>2, SeqDef, LenProperties
<1>4. g[1] = seqs[1]
  <2>1. 1 \in 1..n /\ seqs[1] = <<t[1]>> BY <1>1
  <2> DEFINE a == g[1]
             b == <<t[1]>>
  <2>2. b \in Seq(S) /\ Len(b) = 1 /\ b[1] = t[1] BY <1>1, <2>1
  <2>3. a \in Seq(S) /\ Len(a) = 1 /\ a[1] = t[1] BY <1>3, <2>1
  <2> HIDE DEF a, b
  <2>4. a = b BY <2>2, <2>3, SeqEqual
  <2> QED BY <2>1, <2>4 DEF a, b
<1>5. \A k \in 2..n : g[k] = g[k - 1] \o seqs[k]
  <2> TAKE k \in 2..n
  <2>1. k \in 1..n /\ k - 1 \in 1..n /\ seqs[k] = <<t[k]>> BY <1>1
  <2> DEFINE a == g[k]
             b == g[k - 1]
             c == <<t[k]>>
  <2>2. a \in Seq(S) /\ Len(a) = k /\ \A i \in 1..k : a[i] = t[i] BY <1>3, <2>1
  <2>3. b \in Seq(S) /\ Len(b) = k - 1 /\ \A i \in 1..(k - 1) : b[i] = t[i] BY <1>3, <2>1
  <2>4. c \in Seq(S) /\ Len(c) = 1 /\ c[1] = t[k] BY <1>1, <2>1
  <2> HIDE DEF a, b, c, g
  <2>5. b \o c \in Seq(S) /\ Len(b \o c) = k /\ \A i \in 1..k : (b \o c)[i] = t[i]
    <3>0. k \in Nat BY <1>1
    <3>1. /\ b \o c \in Seq(S) /\ Len(b \o c) = Len(b) + Len(c)
          /\ \A i \in 1..(Len(b) + Len(c)) : (b \o c)[i] = IF i <= Len(b) THEN b[i] ELSE c[i - Len(b)]
      BY <2>3, <2>4, ConcatProperties
    <3>2. Len(b \o c) = k BY <2>3, <2>4, <3>0, <3>1
    <3>3. ASSUME NEW i \in 1..k PROVE (b \o c)[i] = t[i]
      <4>1. CASE i = k BY <2>3, <2>4, <3>0, <3>1, <4>1
      <4>2. CASE i # k BY <2>3, <2>4, <3>0, <3>1, <4>2
      <4> QED BY <4>1, <4>2
    <3> QED BY <3>1, <3>2, <3>3
  <2>6. a = b \o c BY <2>2, <2>5, SeqEqual
  <2> QED BY <2>1, <2>6 DEF a, b, c
<1>6. g \in Joins(S, seqs, Len(seqs))
  <2>1. g \in [1..n -> Seq(S)]
    <3>1. DOMAIN g = 1..n /\ g = [k \in DOMAIN g |-> g[k]] OBVIOUS
    <3> HIDE DEF g
    <3> QED BY <1>3, <3>1
  <2> HIDE DEF g, seqs, n
  <2> QED BY <1>2, <1>4, <1>5, <2>1 DEF Joins
<1>7. g[n] = t
  <2> DEFINE a == g[n]
  <2>1. a \in Seq(S) /\ Len(a) = Len(t) /\ \A i \in 1..Len(t) : a[i] = t[i] BY <1>1, <1>3
  <2> HIDE DEF a
  <2>2. a = t BY <2>1, SeqEqual
  <2> QED BY <2>2 DEF a
<1> HIDE DEF g, seqs
<1>8. FlattenSeq(seqs) = g[n] BY <1>1, <1>2, <1>6, FlattenBy
<1> QED BY <1>7, <1>8 DEF seqs

\* The tokens of a text, one of them replaced.
Pieces(text, k, with) == [i \in DOMAIN text |-> IF i = k THEN with ELSE <<text[i]>>]

\* In a text without escapes the first occurrence is replaced.
LEMMA ReplacesFirst ==
  ASSUME NEW S, Escape \notin S, NEW text \in Seq(S), NEW specifier, NEW with,
         NEW k \in DOMAIN text, text[k] = specifier, \A j \in 1..(k - 1) : text[j] # specifier
  PROVE  ReplaceFirst(text, specifier, with) = FlattenSeq(Pieces(text, k, with))
<1> DEFINE At(i)   == text[i] = specifier
           Esc(i)  == i > 1 /\ text[i - 1] = Escape
           plain   == {i \in DOMAIN text : At(i) /\ ~Esc(i)}
           first   == IF plain = {} THEN Len(text) + 1 ELSE CHOOSE i \in plain : \A j \in plain : i <= j
           removed == {i - 1 : i \in {j \in DOMAIN text : At(j) /\ Esc(j) /\ j < first}}
<1>1. DOMAIN text = 1..Len(text) /\ Len(text) \in Nat /\ \A i \in DOMAIN text : text[i] \in S
  BY LenProperties, ElementOfSeq
<1>2. \A i \in DOMAIN text : ~Esc(i)
  <2> SUFFICES ASSUME NEW i \in DOMAIN text, i > 1 PROVE text[i - 1] # Escape OBVIOUS
  <2>1. i - 1 \in DOMAIN text BY <1>1
  <2> QED BY <1>1, <2>1
<1>3. removed = {} BY <1>2
<1>4. k \in plain /\ \A j \in plain : k <= j
  <2>1. \A j \in plain : j \in DOMAIN text /\ j \notin 1..(k - 1) OBVIOUS
  <2>2. k \in plain BY <1>2
  <2> HIDE DEF plain
  <2> QED BY <1>1, <2>1, <2>2
<1>5. first = k
  <2>1. \A j \in plain : j \in Nat BY <1>1
  <2> HIDE DEF plain
  <2>2. \A i \in plain : (\A j \in plain : i <= j) => i = k BY <1>4, <2>1
  <2> QED BY <1>4, <2>2
<1>6. ReplaceFirst(text, specifier, with) =
        FlattenSeq([i \in DOMAIN text |-> IF i \in removed THEN <<>>
                                          ELSE IF i = first THEN with ELSE <<text[i]>>])
  BY DEF ReplaceFirst
<1> HIDE DEF removed, first
<1> QED BY <1>3, <1>5, <1>6 DEF Pieces

\* ... and by one token, in its place.
LEMMA ReplacesToken ==
  ASSUME NEW S, Escape \notin S, NEW text \in Seq(S), NEW specifier, NEW x \in S,
         NEW k \in DOMAIN text, text[k] = specifier, \A j \in 1..(k - 1) : text[j] # specifier,
         NEW new \in Seq(S), DOMAIN new = DOMAIN text, new[k] = x,
         \A i \in DOMAIN text : i # k => new[i] = text[i]
  PROVE  ReplaceFirst(text, specifier, <<x>>) = new
<1>1. DOMAIN text = 1..Len(text) /\ Len(text) \in Nat /\ \A i \in DOMAIN text : text[i] \in S
  BY LenProperties, ElementOfSeq
<1>2. Pieces(text, k, <<x>>) = [i \in DOMAIN new |-> <<new[i]>>]
  BY DEF Pieces
<1>3. new # <<>> BY EmptySeq
<1>4. FlattenSeq([i \in DOMAIN new |-> <<new[i]>>]) = new BY <1>3, FlattenSingles
<1>5. ReplaceFirst(text, specifier, <<x>>) = FlattenSeq(Pieces(text, k, <<x>>)) BY ReplacesFirst
<1> QED BY <1>2, <1>4, <1>5

\* The default format, for a plain level: its specifiers, and with the level's and the
\* logger's name.
Specifiers == <<"%datetime", "%level", "%logger", "%msg">>
Named(name) == <<"%datetime", name, "default", "%msg">>
PlainNames == {"FATAL", "ERROR", "WARNING", "INFO"}
Tokens == ToSet(Specifiers) \cup PlainNames \cup {"default", "now"}

LEMMA TokensAre ==
  /\ Tokens = {"%datetime", "%level", "%logger", "%msg", "FATAL", "ERROR", "WARNING", "INFO", "default", "now"}
  /\ Escape \notin Tokens
<1> DEFINE s == Specifiers
<1>1. DOMAIN s = 1..4 /\ s[1] = "%datetime" /\ s[2] = "%level" /\ s[3] = "%logger" /\ s[4] = "%msg"
  BY DEF Specifiers
<1> HIDE DEF s
<1>2. ToSet(s) = {"%datetime", "%level", "%logger", "%msg"}
  <2>1. ToSet(s) = {s[1], s[2], s[3], s[4]} BY <1>1 DEF ToSet
  <2> QED BY <1>1, <2>1
<1>3. Tokens = {"%datetime", "%level", "%logger", "%msg", "FATAL", "ERROR", "WARNING", "INFO", "default", "now"}
  BY <1>2 DEF Tokens, s, PlainNames
<1> QED BY <1>3 DEF Escape

\* The names of the plain levels.
LEMMA PlainLevelNames == \A level \in Plain : LevelName[level] \in PlainNames
BY DEF Plain, LevelName, PlainNames

\* The default format as a plain level has it.
LEMMA DefaultFormat ==
  ASSUME NEW level \in Plain
  PROVE  LET resolved == ResolveLogger(LogFormat(level, "default"), "default")
         IN  /\ resolved.format = Named(LevelName[level])
             /\ resolved.flags = {"%datetime", "%level", "%logger", "%msg"}
<1> DEFINE name == LevelName[level]
           text == Formats["default"]
           flags == Flags(text)
           half == <<"%datetime", name, "%logger", "%msg">>
<1>1. name \in PlainNames /\ level # "Global" BY PlainLevelNames, PlainLevels
<1> HIDE DEF name
<1>2. text = Specifiers BY DEF Formats, Specifiers
<1>3. /\ text \in Seq(Tokens) /\ DOMAIN text = 1..4 /\ text[1] = "%datetime"
      /\ text[2] = "%level" /\ text[3] = "%logger" /\ text[4] = "%msg"
  BY <1>2, TokensAre DEF Specifiers
<1>4. flags = {"%datetime", "%level", "%logger", "%msg"}
  <2> HIDE DEF text
  <2>1. \A j \in 1..4 : j = 1 \/ j - 1 \in 1..4 OBVIOUS
  <2>2. \A j \in 1..4 : text[j] # Escape BY <1>3 DEF Escape
  <2>3. {j \in DOMAIN text : j = 1 \/ text[j - 1] # Escape} = 1..4 BY <1>3, <2>1, <2>2
  <2>4. flags = {text[i] : i \in 1..4} BY <2>3 DEF Flags
  <2>5. {text[i] : i \in 1..4} = {text[1], text[2], text[3], text[4]} OBVIOUS
  <2> HIDE DEF flags
  <2> QED BY <1>3, <2>4, <2>5
<1> HIDE DEF text, flags
<1>5. half \in Seq(Tokens) /\ DOMAIN half = 1..4 /\ half[1] = "%datetime" /\ half[2] = name
      /\ half[3] = "%logger" /\ half[4] = "%msg"
  BY <1>1, TokensAre DEF PlainNames
<1>6. ReplaceFirst(text, "%level", <<name>>) = half
  <2> HIDE DEF half
  <2>1. 2 \in DOMAIN text /\ \A j \in 1..(2 - 1) : text[j] # "%level" BY <1>3
  <2>2. \A i \in DOMAIN text : i # 2 => half[i] = text[i] BY <1>3, <1>5
  <2>3. name \in Tokens BY <1>1 DEF Tokens
  <2>4. Escape \notin Tokens BY TokensAre
  <2> QED BY <1>3, <1>5, <2>1, <2>2, <2>3, <2>4, ReplacesToken
<1>7. UpdateFormatSpec(level, text) = half
  <2>1. "%user" \notin flags /\ "%host" \notin flags BY <1>4
  <2> QED BY <1>1, <1>6, <2>1 DEF UpdateFormatSpec, flags, name
<1>8. ReplaceFirst(half, "%logger", <<"default">>) = Named(name)
  <2> DEFINE r == Named(name)
  <2>1. r \in Seq(Tokens) /\ DOMAIN r = 1..4 /\ r[1] = "%datetime" /\ r[2] = name /\ r[3] = "default"
        /\ r[4] = "%msg"
    BY <1>1, TokensAre DEF PlainNames, Named
  <2> HIDE DEF half, r
  <2>2. 3 \in DOMAIN half /\ \A j \in 1..(3 - 1) : half[j] # "%logger"
    BY <1>1, <1>5 DEF PlainNames
  <2>3. \A i \in DOMAIN half : i # 3 => r[i] = half[i] BY <1>5, <2>1
  <2>4. "default" \in Tokens BY DEF Tokens
  <2>5. Escape \notin Tokens BY TokensAre
  <2>6. ReplaceFirst(half, "%logger", <<"default">>) = r
    BY <1>5, <2>1, <2>2, <2>3, <2>4, <2>5, ReplacesToken
  <2> QED BY <2>6 DEF r
<1> HIDE DEF half
<1>9. LogFormat(level, "default") =
        [level |-> level, userFormat |-> "default", flags |-> flags, format |-> half]
  BY <1>7 DEF LogFormat, flags, text
<1> QED BY <1>4, <1>8, <1>9 DEF ResolveLogger, name

\* The builder replaces what the default format has left: the date, and the message.
LEMMA BuildsLine ==
  ASSUME NEW logFormat, NEW message, NEW dated, NEW line,
         logFormat.flags = {"%datetime", "%level", "%logger", "%msg"},
         dated = ReplaceFirst(logFormat.format, "%datetime", <<"now">>),
         line = ReplaceFirst(dated, "%msg", message)
  PROVE  BuildLine(logFormat, message) = line
<1> DEFINE parts == Parts(message)
           n == Len(parts)
           Do(i, text) == IF parts[i][1] \in logFormat.flags
                          THEN ReplaceFirst(text, parts[i][1], parts[i][2]) ELSE text
           F(f) == [i \in 0..n |-> IF i = 0 THEN {logFormat.format} ELSE {Do(i, text) : text \in f[i - 1]}]
           P(f) == f = F(f)
           h == CHOOSE f : P(f)
<1>1. BuildLine(logFormat, message) = The(h[n]) BY DEF BuildLine
<1>2. /\ n = 5 /\ parts[1][1] = "%datetime" /\ parts[1][2] = <<"now">> /\ parts[2][1] = "%func"
      /\ parts[3][1] = "%loc" /\ parts[4][1] = "%vlevel" /\ parts[5][1] = "%msg" /\ parts[5][2] = message
  BY DEF Parts
<1> HIDE DEF parts, n
<1> DEFINE V(i) == IF i = 0 THEN logFormat.format ELSE IF i = 5 THEN line ELSE dated
<1>3. \A i \in 1..5 : Do(i, V(i - 1)) = V(i)
  <2>1. Do(1, logFormat.format) = dated BY <1>2
  <2>2. Do(5, dated) = line BY <1>2
  <2>3. \A i \in {2, 3, 4} : Do(i, dated) = dated
    <3>1. \A i \in {2, 3, 4} : parts[i][1] \notin logFormat.flags BY <1>2
    <3> QED BY <3>1
  <2> HIDE DEF Do
  <2> TAKE i \in 1..5
  <2>4. CASE i = 1 BY <2>1, <2>4
  <2>5. CASE i \in {2, 3, 4} BY <2>3, <2>5
  <2>6. CASE i = 5 BY <2>2, <2>6
  <2> QED BY <2>4, <2>5, <2>6
<1> HIDE DEF Do
<1>4. V(0) = logFormat.format /\ V(5) = line OBVIOUS
<1> HIDE DEF V
<1> DEFINE G == [i \in 0..n |-> {V(i)}]
<1>5. P(G)
  <2>1. \A i \in 0..n : G[i] = F(G)[i]
    <3> TAKE i \in 0..n
    <3>1. CASE i = 0 BY <1>4, <3>1
    <3>2. CASE i # 0
      <4>1. i \in 1..5 /\ i - 1 \in 0..n BY <1>2, <3>2
      <4>2. G[i - 1] = {V(i - 1)} /\ G[i] = {V(i)} BY <4>1
      <4> QED BY <1>3, <3>2, <4>1, <4>2
    <3> QED BY <3>1, <3>2
  <2>2. G = [i \in 0..n |-> G[i]] OBVIOUS
  <2> HIDE DEF G
  <2>3. F(G) = [i \in 0..n |-> F(G)[i]] OBVIOUS
  <2> QED BY <2>1, <2>2, <2>3
<1>6. P(h)
  <2> HIDE DEF P
  <2> QED BY <1>5
<1> HIDE DEF h, G
<1>7. h[0] = {V(0)} BY <1>2, <1>4, <1>6
<1>8. \A i \in 1..5 : h[i] = {Do(i, text) : text \in h[i - 1]} BY <1>2, <1>6
<1> HIDE DEF P, F
<1>9. \A i \in 1..5 : h[i - 1] = {V(i - 1)} => h[i] = {V(i)} BY <1>3, <1>8
<1>10. h[5] = {V(5)}
  <2>1. 1 - 1 = 0 /\ 2 - 1 = 1 /\ 3 - 1 = 2 /\ 4 - 1 = 3 /\ 5 - 1 = 4 OBVIOUS
  <2>2. {1, 2, 3, 4, 5} \subseteq 1..5 OBVIOUS
  <2>3. h[1] = {V(1)} BY <1>7, <1>9, <2>1, <2>2
  <2>4. h[2] = {V(2)} BY <1>9, <2>1, <2>2, <2>3
  <2>5. h[3] = {V(3)} BY <1>9, <2>1, <2>2, <2>4
  <2>6. h[4] = {V(4)} BY <1>9, <2>1, <2>2, <2>5
  <2> QED BY <1>9, <2>1, <2>2, <2>6
<1> QED BY <1>1, <1>2, <1>4, <1>10 DEF The

\* The line of a message: what its format's specifiers stand for, in their order.
LineOf(level, message) ==
  FlattenSeq([i \in DOMAIN Formats.default |-> Replaced(Formats.default[i], level, message)])

\* A line that the default format makes is readable.
LEMMA DefaultLine ==
  ASSUME NEW level \in Plain, NEW message
  PROVE  BuildLine(ResolveLogger(LogFormat(level, "default"), "default"), message)
           = LineOf(level, message)
<1> DEFINE name == LevelName[level]
           format == ResolveLogger(LogFormat(level, "default"), "default")
           named == Named(name)
           dated == <<"now", name, "default", "%msg">>
<1>1. name \in PlainNames BY PlainLevelNames
<1>2. format.format = named /\ format.flags = {"%datetime", "%level", "%logger", "%msg"}
  BY DefaultFormat
<1> HIDE DEF name, format
<1>3. /\ named \in Seq(Tokens) /\ DOMAIN named = 1..4 /\ named[1] = "%datetime" /\ named[2] = name
      /\ named[3] = "default" /\ named[4] = "%msg"
  BY <1>1, TokensAre DEF PlainNames, Named
<1>4. /\ dated \in Seq(Tokens) /\ DOMAIN dated = 1..4 /\ dated[1] = "now" /\ dated[2] = name
      /\ dated[3] = "default" /\ dated[4] = "%msg"
  BY <1>1, TokensAre DEF PlainNames
<1> HIDE DEF named, dated
<1>5. Escape \notin Tokens BY TokensAre
<1>6. ReplaceFirst(named, "%datetime", <<"now">>) = dated
  <2>1. 1 \in DOMAIN named /\ \A j \in 1..(1 - 1) : named[j] # "%datetime" BY <1>3
  <2>2. \A i \in DOMAIN named : i # 1 => dated[i] = named[i] BY <1>3, <1>4
  <2>3. "now" \in Tokens BY DEF Tokens
  <2>4. /\ named \in Seq(Tokens) /\ dated \in Seq(Tokens) /\ DOMAIN dated = DOMAIN named
        /\ named[1] = "%datetime" /\ dated[1] = "now"
    BY <1>3, <1>4
  <2> QED BY <1>5, <2>1, <2>2, <2>3, <2>4, ReplacesToken
<1> DEFINE pieces == Pieces(dated, 4, message)
<1>7. ReplaceFirst(dated, "%msg", message) = FlattenSeq(pieces)
  <2>1. 4 \in DOMAIN dated /\ dated[4] = "%msg" /\ \A j \in 1..(4 - 1) : dated[j] # "%msg"
    BY <1>1, <1>4 DEF PlainNames
  <2> QED BY <1>4, <1>5, <2>1, ReplacesFirst
<1> DEFINE text == Formats.default
           meant == [i \in DOMAIN text |-> Replaced(text[i], level, message)]
<1>8. pieces = meant
  <2>1. /\ DOMAIN text = 1..4 /\ text[1] = "%datetime" /\ text[2] = "%level" /\ text[3] = "%logger"
        /\ text[4] = "%msg"
    BY DEF Formats
  <2>2. /\ Replaced("%datetime", level, message) = <<"now">>
        /\ Replaced("%level", level, message) = <<name>>
        /\ Replaced("%logger", level, message) = <<"default">>
        /\ Replaced("%msg", level, message) = message
    BY DEF Replaced, name
  <2>3. DOMAIN pieces = 1..4 /\ pieces[1] = <<"now">> /\ pieces[2] = <<name>>
        /\ pieces[3] = <<"default">> /\ pieces[4] = message
    BY <1>4 DEF Pieces
  <2> HIDE DEF text
  <2>4. DOMAIN meant = 1..4 /\ meant[1] = <<"now">> /\ meant[2] = <<name>>
        /\ meant[3] = <<"default">> /\ meant[4] = message
    BY <2>1, <2>2
  <2>5. pieces = [i \in 1..4 |-> pieces[i]] /\ meant = [i \in 1..4 |-> meant[i]] BY <1>4, <2>1 DEF Pieces
  <2> HIDE DEF pieces, meant
  <2>6. \A i \in 1..4 : pieces[i] = meant[i]
    <3> TAKE i \in 1..4
    <3>1. i = 1 \/ i = 2 \/ i = 3 \/ i = 4 OBVIOUS
    <3> QED BY <2>3, <2>4, <3>1
  <2> QED BY <2>5, <2>6
<1> HIDE DEF pieces
<1>9. BuildLine(format, message) = FlattenSeq(pieces) BY <1>2, <1>6, <1>7, BuildsLine
<1> QED BY <1>8, <1>9 DEF LineOf, format

-----------------------------------------------------------------------------
(* Readable lines.                                                         *)

\* What is logged: by the programs, and by the library's handler.
Logged == {m[2] : m \in Messages} \cup {<<"crash">>, <<"aborting">>}
Readable(w) == \E message \in Logged : stmt[w].line = LineOf(stmt[w].level, message)

LEMMA ReadableLines == LinesReadable <=> \A w \in Writers : Busy(w) => Readable(w)
BY DEF LinesReadable, Readable, Logged, LineOf

\* The line of a statement that begins.
LEMMA DispatchedLine ==
  ASSUME DefinedInv, NEW w, w[1] \in Programs, NEW level \in Plain, NEW message
  PROVE  LET s == Dispatched(w, Typed(w[1], "default"), level, message)
         IN  s.level = level /\ s.line = LineOf(level, message)
<1> DEFINE p == w[1]
           n == NoDefaultFile(p)
           c == IsConfigured(p)
           o == opened[p]
           typed == Typed(p, "default")
<1>1. n \in BOOLEAN /\ c \in BOOLEAN BY DEF NoDefaultFile, IsConfigured
<1>2. o \in SUBSET {DefaultLogFile, SharedLogFile} BY DEF DefinedInv
<1>3. typed = TypedConf[n][c]["default"][o] BY DEF Typed
<1> HIDE DEF n, c, o
<1> DEFINE conf == Conf[n][c]["default"]
<1>4. typed = Build(conf, "default", o) /\ conf \in Confs BY <1>1, <1>2, <1>3, DefaultLogger
<1>5. conf["Format"] \in Defaults BY <1>1, FormatsAreDefault
<1> HIDE DEF conf
<1>6. Lookup(typed, "Format", level) = ResolveLogger(LogFormat(level, "default"), "default")
  BY <1>4, <1>5, FormatsBuilt
<1>7. BuildLine(Lookup(typed, "Format", level), message) = LineOf(level, message)
  BY <1>6, DefaultLine
<1> HIDE DEF typed
<1>8. LET s == Dispatched(w, typed, level, message)
      IN  s.level = level /\ s.line = BuildLine(Lookup(typed, "Format", level), message)
  BY DEF Dispatched
<1> QED BY <1>7, <1>8 DEF typed

\* A statement of a level that has the default format begins.
LEMMA BeginReadable ==
  ASSUME Typing, DefinedInv, LinesReadable, NEW w \in Writers, NEW level \in Plain,
         NEW message \in Logged, Begin(w, level, message)
  PROVE  LinesReadable'
<1> DEFINE s == Dispatched(w, Typed(w[1], "default"), level, message)
<1>1. w[1] \in Programs BY WriterShape
<1>2. s.level = level /\ s.line = LineOf(level, message) BY <1>1, DispatchedLine
<1>3. \/ stmt' = [v \in Writers |-> IF v[1] = w[1] THEN Idle ELSE stmt[v]]
      \/ stmt' = [stmt EXCEPT ![w] = s]
  BY DEF Begin
<1> HIDE DEF s
<1>4. stmt = [v \in Writers |-> stmt[v]] BY DEF Typing
<1>5. ASSUME NEW v \in Writers, Busy(v)' PROVE Readable(v)'
  <2>1. CASE stmt' = [u \in Writers |-> IF u[1] = w[1] THEN Idle ELSE stmt[u]]
    <3>1. stmt'[v] = stmt[v] BY <1>5, <2>1 DEF Busy, Idle
    <3>2. Readable(v) BY <1>5, <3>1, ReadableLines DEF Busy
    <3> QED BY <3>1, <3>2 DEF Readable
  <2>2. CASE stmt' = [stmt EXCEPT ![w] = s]
    <3>1. CASE v = w BY <1>2, <1>4, <2>2, <3>1 DEF Readable
    <3>2. CASE v # w
      <4>1. stmt'[v] = stmt[v] BY <1>4, <2>2, <3>2
      <4>2. Readable(v) BY <1>5, <4>1, ReadableLines DEF Busy
      <4> QED BY <4>1, <4>2 DEF Readable
    <3> QED BY <3>1, <3>2
  <2> QED BY <1>3, <2>1, <2>2
<1> QED BY <1>5 DEF LinesReadable, Readable, Logged, LineOf

\* No statement begins, and those there are keep their lines.
KeepsLines ==
  \A v \in Writers :
    Busy(v)' => Busy(v) /\ stmt'[v].line = stmt[v].line /\ stmt'[v].level = stmt[v].level

LEMMA KeptReadable == ASSUME LinesReadable, KeepsLines PROVE LinesReadable'
<1>1. ASSUME NEW v \in Writers, Busy(v)' PROVE Readable(v)'
  BY <1>1, ReadableLines DEF KeepsLines, Readable
<1> QED BY <1>1 DEF LinesReadable, Readable, Logged, LineOf

\* The other steps.
LEMMA OthersKeepLines ==
  ASSUME Typing
  PROVE  /\ \A p \in Programs :
              \/ Construct(p) \/ ConfigureLogging(p) \/ RegisterHandler(p) \/ SetupRedirection(p)
              \/ Abort(p) \/ End(p)
              => KeepsLines
         /\ \A w \in Writers : SeekEnd(w) \/ WriteFile(w) \/ WriteFails(w) \/ Show(w) => KeepsLines
         /\ UNCHANGED vars => KeepsLines
<1>1. ASSUME stmt' = stmt PROVE KeepsLines BY <1>1 DEF KeepsLines, Busy
<1>2. ASSUME NEW p \in Programs,
             Construct(p) \/ ConfigureLogging(p) \/ RegisterHandler(p) \/ SetupRedirection(p)
      PROVE  KeepsLines
  BY <1>1, <1>2 DEF Construct, ConfigureLogging, RegisterHandler, SetupRedirection, StatementsUnchanged
<1>3. ASSUME NEW p \in Programs, Abort(p) \/ End(p) PROVE KeepsLines
  <2>1. Ends(p) BY <1>3 DEF Abort, End, Ends
  <2>2. \A v \in Writers : IF v[1] = p THEN stmt'[v].phase = "idle" ELSE stmt'[v] = stmt[v]
    BY <2>1, EndsFacts
  <2> QED BY <2>2 DEF KeepsLines, Busy
<1>4. ASSUME NEW w \in Writers, SeekEnd(w) \/ WriteFile(w) \/ WriteFails(w) \/ Show(w) PROVE KeepsLines
  <2>1. stmt = [v \in Writers |-> stmt[v]] /\ stmt[w].phase # "idle"
    BY <1>4 DEF Typing, SeekEnd, WriteFile, WriteFails, Show
  <2>2. stmt'[w] = Idle \/ (stmt'[w].line = stmt[w].line /\ stmt'[w].level = stmt[w].level)
    <3>1. CASE SeekEnd(w) BY <2>1, <3>1 DEF SeekEnd, Typing, Statement
    <3>2. CASE WriteFile(w) BY <2>1, <3>2 DEF WriteFile, Typing, Statement
    <3>3. CASE WriteFails(w) BY <2>1, <3>3 DEF WriteFails, Goto, Typing, Statement
    <3>4. CASE Show(w) BY <2>1, <3>4 DEF Show
    <3> QED BY <1>4, <3>1, <3>2, <3>3, <3>4
  <2>3. \E s : stmt' = [stmt EXCEPT ![w] = s]
    BY <1>4 DEF SeekEnd, WriteFile, WriteFails, Show, Goto
  <2>4. \A v \in Writers : v # w => stmt'[v] = stmt[v] BY <2>1, <2>3
  <2> QED BY <2>1, <2>2, <2>4 DEF KeepsLines, Busy, Idle
<1>5. ASSUME UNCHANGED vars PROVE KeepsLines BY <1>1, <1>5 DEF vars
<1> QED BY <1>2, <1>3, <1>4, <1>5

\* Every step keeps the lines readable.
LEMMA LinesStep == Typing /\ DefinedInv /\ LinesReadable /\ [Next]_vars => LinesReadable'
<1> SUFFICES ASSUME Typing, DefinedInv, LinesReadable, [Next]_vars PROVE LinesReadable' OBVIOUS
<1>1. CASE KeepsLines BY <1>1, KeptReadable
<1>2. ASSUME NEW w \in Writers, Log(w) PROVE LinesReadable'
  <2>1. PICK m \in Messages : Begin(w, m[1], m[2]) BY <1>2 DEF Log
  <2>2. m[1] \in Plain /\ m[2] \in Logged
    <3>1. m[1] \in {"Error", "Warning", "Info"} BY LoggingAssumption DEF LoggingAssumption
    <3> QED BY <3>1 DEF Plain, Logged
  <2>3. \A level \in Plain, message \in Logged : Begin(w, level, message) => LinesReadable'
    BY BeginReadable
  <2> QED BY <2>1, <2>2, <2>3
<1>3. ASSUME NEW p \in Programs, Interrupt(p) \/ LogAbort(p) PROVE LinesReadable'
  <2> DEFINE w == <<p, "handler">>
  <2>1. PICK level \in {"Fatal", "Warning"}, message \in {<<"crash">>, <<"aborting">>} :
          Begin(w, level, message) /\ KindOf[p] = "client"
    BY <1>3 DEF Interrupt, LogAbort
  <2>2. level \in Plain /\ message \in Logged BY DEF Plain, Logged
  <2>3. w \in Writers BY <2>1, HandlerIsWriter
  <2> HIDE DEF w
  <2>4. \A l \in Plain, m \in Logged : Begin(w, l, m) => LinesReadable' BY <2>3, BeginReadable
  <2> QED BY <2>1, <2>2, <2>4
<1> QED BY <1>1, <1>2, <1>3, OthersKeepLines DEF Next

\* Every line that is made, of whatever message and in whatever program, configured or
\* not, has the level's name, the logger's name and the message in the places of their
\* specifiers, and no other specifier is replaced: not even in a message that looks
\* like a format.
THEOREM LinesCorrect == Spec => []LinesReadable
<1>1. Init => Typing /\ DefinedInv /\ LinesReadable
  <2> SUFFICES ASSUME Init PROVE Typing /\ DefinedInv /\ LinesReadable OBVIOUS
  <2>1. Typing BY FileInvInit
  <2>2. \A w \in Writers : ~Busy(w) /\ done[w] = 0 BY DEF Init, Busy, Idle
  <2>3. LinesReadable BY <2>2, ReadableLines
  <2> QED BY <2>1, <2>2, <2>3, HandlerIsWriter DEF Init, DefinedInv
<1>2. (Typing /\ FileInv) /\ DefinedInv /\ LinesReadable /\ [Next]_vars
        => (Typing /\ FileInv)' /\ DefinedInv' /\ LinesReadable'
  BY FileInvStep, DefinedStep, LinesStep
<1>3. Init => Typing /\ FileInv BY FileInvInit
<1> QED BY <1>1, <1>2, <1>3, PTL DEF Spec
=============================================================================
