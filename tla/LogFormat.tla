------------------------------ MODULE LogFormat ------------------------------
(***************************************************************************)
(* How a log line is made from a format (LogFormat, DefaultLogBuilder and  *)
(* Str::replaceFirstWithEscape of the logging library).  Part of the       *)
(* specifiers is replaced when a logger is configured, the rest one after  *)
(* the other for every line.                                               *)
(*                                                                         *)
(* A text is a sequence of tokens: a specifier, the escape character, or   *)
(* anything else.                                                          *)
(***************************************************************************)
EXTENDS Naturals, Sequences, SequencesExt

The(S) == CHOOSE x \in S : TRUE

\* A value as it is.  TLC compares what is put into a set, and has to evaluate a
\* function completely to do so.
Whole(x) == The({x, x})

Escape == "%"

\* Names of the formats and their text, without what is between specifiers.
Formats == [
  default     |-> <<"%datetime", "%level", "%logger", "%msg">>,
  debug       |-> <<"%datetime", "%level", "%logger", "%user", "%host", "%func", "%loc", "%msg">>,
  verbose     |-> <<"%datetime", "%level", "%vlevel", "%logger", "%msg">>,
  trace       |-> <<"%datetime", "%level", "%logger", "%func", "%loc", "%msg">>,
  performance |-> <<"%datetime", "%level", "%msg">>]

\* Replaces the first occurrence that is not escaped; the escape characters of
\* those before it are removed.
ReplaceFirst(text, specifier, with) ==
  LET At(i)   == text[i] = specifier
      Esc(i)  == i > 1 /\ text[i - 1] = Escape
      plain   == {i \in DOMAIN text : At(i) /\ ~Esc(i)}
      first   == IF plain = {} THEN Len(text) + 1 ELSE CHOOSE i \in plain : \A j \in plain : i <= j
      removed == {i - 1 : i \in {j \in DOMAIN text : At(j) /\ Esc(j) /\ j < first}}
  IN  FlattenSeq([i \in DOMAIN text |-> IF i \in removed THEN <<>>
                                        ELSE IF i = first THEN with ELSE <<text[i]>>])

\* parseFromFormat: a flag for each specifier that occurs without an escape.
Flags(text) ==
  {text[i] : i \in {j \in DOMAIN text : j = 1 \/ text[j - 1] # Escape}}

\* convertToString.
LevelName == [Trace |-> "TRACE", Debug |-> "DEBUG", Fatal |-> "FATAL", Error |-> "ERROR",
              Warning |-> "WARNING", Verbose |-> "VERBOSE", Info |-> "INFO"]

\* updateFormatSpec: the level, unless it is Global, the user and the host.
UpdateFormatSpec(level, text) ==
  LET named == IF level = "Global" THEN text ELSE ReplaceFirst(text, "%level", <<LevelName[level]>>)
      user  == IF "%user" \in Flags(text) THEN ReplaceFirst(named, "%user", <<"user">>) ELSE named
  IN  IF "%host" \in Flags(text) THEN ReplaceFirst(user, "%host", <<"host">>) ELSE user

\* Mutant: formats of two levels are equal if their text is.
LogFormatOfAnyLevel(level, name) ==
  [level |-> "Global", userFormat |-> name, flags |-> Flags(Formats[name]),
   format |-> UpdateFormatSpec("Global", Formats[name])]

\* A LogFormat; its level is part of it, and so of what == compares.
LogFormat(level, name) ==
  [level |-> level, userFormat |-> name, flags |-> Flags(Formats[name]),
   format |-> UpdateFormatSpec(level, Formats[name])]

\* resolveLoggerFormatSpec, for one level.
ResolveLogger(logFormat, logger) ==
  [logFormat EXCEPT !.format = ReplaceFirst(@, "%logger", <<logger>>)]

\* What the builder puts for each specifier, in its order; the message is last.
Parts(message) ==
  << <<"%datetime", <<"now">>>>, <<"%func", <<"function">>>>, <<"%loc", <<"location">>>>,
     <<"%vlevel", <<"0">>>>, <<"%msg", message>> >>

\* DefaultLogBuilder::build.
BuildLine(logFormat, message) ==
  LET parts == Parts(message)
      lines[i \in 0..Len(parts)] ==
        IF i = 0 THEN {logFormat.format}
        ELSE {IF parts[i][1] \in logFormat.flags THEN ReplaceFirst(line, parts[i][1], parts[i][2])
              ELSE line : line \in lines[i - 1]}
  IN  The(lines[Len(parts)])
=============================================================================
