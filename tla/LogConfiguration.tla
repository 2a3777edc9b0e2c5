--------------------------- MODULE LogConfiguration ---------------------------
(***************************************************************************)
(* The configuration of the loggers (Configurations, TypedConfigurations   *)
(* of the logging library), as ConsoleAgent uses it.                       *)
(*                                                                         *)
(* Configurations is a list of (level, type, value) without duplicates;    *)
(* types do not affect each other, so it is here one list per type: its    *)
(* levels in their order and a function from them to values.  For use it   *)
(* is compiled into one map from levels to values per type, which leaves   *)
(* out what is equal to the value of level Global.                         *)
(*                                                                         *)
(* A loop is a recursive function from the steps done to the set of the    *)
(* one result: TLC evaluates what is taken from a set once.                *)
(***************************************************************************)
EXTENDS LogFormat

\* In the order of their numbers, which is that of forEachLevel.
Levels == <<"Trace", "Debug", "Fatal", "Error", "Warning", "Verbose", "Info">>
AllLevels == ToSet(Levels) \cup {"Global"}

ConfigurationTypes == {"Enabled", "ToFile", "ToStandardOutput", "Format", "Filename",
  "MillisecondsWidth", "PerformanceTracking", "MaxLogFileSize", "LogFlushThreshold"}
\* Types that have one value for all levels once compiled.
GlobalOnly == {"MillisecondsWidth", "PerformanceTracking"}

DefaultLogFile == "myeasylog.log"
SharedLogFile  == "ConsoleAgent.log"

\* A function that says more than another, or something else.
Over(f, g) == Whole([x \in DOMAIN f \cup DOMAIN g |-> IF x \in DOMAIN f THEN f[x] ELSE g[x]])

-----------------------------------------------------------------------------
(* Configurations.                                                         *)

Empty == Whole([type \in ConfigurationTypes |-> [levels |-> <<>>, value |-> << >>]])

\* The levels that are not in the list, in their order.
Missing(list, levels) ==
  FlattenSeq([i \in DOMAIN levels |-> IF levels[i] \in DOMAIN list.value THEN <<>> ELSE <<levels[i]>>])

\* Mutant: what is set already is kept.
UnsafeSetOnce(list, levels, value) ==
  [levels |-> list.levels \o Missing(list, levels),
   value  |-> Over(list.value, [l \in ToSet(levels) |-> value])]

\* unsafeSet of several levels: a value is replaced where there is one, and
\* otherwise appended to the list.
UnsafeSet(list, levels, value) ==
  [levels |-> list.levels \o Missing(list, levels),
   value  |-> Over([l \in ToSet(levels) |-> value], list.value)]

\* A value for level Global is set for all levels.
SetLevel(list, level, value) ==
  UnsafeSet(list, IF level = "Global" THEN <<"Global">> \o Levels ELSE <<level>>, value)
Set(conf, level, type, value) == [conf EXCEPT ![type] = SetLevel(@, level, value)]

\* setGlobally without level Global.
SetGlobally(conf, type, value) == [conf EXCEPT ![type] = UnsafeSet(@, Levels, value)]

\* The list is gone through in its order, and each entry set as by a caller.
SetLevels(list, base) ==
  LET lists[i \in 0..Len(base.levels)] ==
        IF i = 0 THEN {list}
        ELSE {SetLevel(l, base.levels[i], base.value[base.levels[i]]) : l \in lists[i - 1]}
  IN  The(lists[Len(base.levels)])
SetFromBase(conf, base) ==
  Whole([type \in ConfigurationTypes |-> SetLevels(conf[type], base[type])])

\* The calls of setToDefault; a program compiled with ELPP_NO_DEFAULT_LOG_FILE
\* has no default file.
DefaultCalls(noDefaultFile) ==
  << <<"Global", "Enabled", "true">> >>
  \o (IF noDefaultFile THEN <<>> ELSE << <<"Global", "Filename", DefaultLogFile>> >>)
  \o << <<"Global", "ToFile", "true">>,
        <<"Global", "ToStandardOutput", "true">>,
        <<"Global", "MillisecondsWidth", "3">>,
        <<"Global", "PerformanceTracking", "true">>,
        <<"Global", "MaxLogFileSize", "0">>,
        <<"Global", "LogFlushThreshold", "0">>,
        <<"Global", "Format", "default">>,
        <<"Debug",   "Format", "debug">>,
        <<"Error",   "Format", "default">>,
        <<"Fatal",   "Format", "default">>,
        <<"Verbose", "Format", "verbose">>,
        <<"Trace",   "Format", "trace">> >>

Apply(conf, calls) ==
  LET confs[i \in 0..Len(calls)] ==
        IF i = 0 THEN {conf} ELSE {Set(c, calls[i][1], calls[i][2], calls[i][3]) : c \in confs[i - 1]}
  IN  The(confs[Len(calls)])

SetToDefault(noDefaultFile) == Apply(Empty, DefaultCalls(noDefaultFile))

-----------------------------------------------------------------------------
(* TypedConfigurations.                                                    *)

\* A map of one type: a function from some levels to values.
Put(map, level, value) == Over([l \in {level} |-> value], map)

\* The first value is that of level Global, and no level repeats it.
SetValue(map, level, value) ==
  IF map = << >> THEN Put(map, "Global", value)
  ELSE IF "Global" \in DOMAIN map /\ map["Global"] = value THEN map
  ELSE Put(map, level, value)

\* The first loop of build, for one type.
BuildMap(conf, type) ==
  LET Value(l) == IF type = "Format" THEN LogFormat(l, conf[type].value[l]) ELSE conf[type].value[l]
      Level(l) == IF type \in GlobalOnly THEN "Global" ELSE l
      levels   == conf[type].levels
      maps[i \in 0..Len(levels)] ==
        IF i = 0 THEN {<< >>}
        ELSE {SetValue(map, Level(levels[i]), Value(levels[i])) : map \in maps[i - 1]}
  IN  The(maps[Len(levels)])

\* insertFile: the stream of a file is shared, and was opened or not when the file
\* was named first.  std::map::insert replaces nothing.  Maps of files hold names.
InsertFile(maps, level, name, writable) ==
  [files  |-> IF level \in DOMAIN maps.files THEN maps.files ELSE Put(maps.files, level, name),
   toFile |-> IF name \in writable THEN maps.toFile ELSE SetValue(maps.toFile, level, "false")]

\* The second loop of build; the first file is that of level Global.
InsertFiles(list, toFile, writable) ==
  LET levels  == list.levels
      both[i \in 0..Len(levels)] ==
        IF i = 0 THEN {[files |-> << >>, toFile |-> toFile]}
        ELSE {InsertFile(maps, IF maps.files = << >> THEN "Global" ELSE levels[i],
                         list.value[levels[i]], writable) : maps \in both[i - 1]}
  IN  The(both[Len(levels)])

\* Every level resolves the format it uses, its own or that of level Global.
ResolveLoggers(formats, logger) ==
  LET Uses(l) == l # "Global" \/ \E k \in ToSet(Levels) : k \notin DOMAIN formats
  IN  Whole([l \in DOMAIN formats |->
         IF Uses(l) THEN ResolveLogger(formats[l], logger) ELSE formats[l]])

\* build, and resolveLoggerFormatSpec of Logger::configure.
Build(conf, logger, writable) ==
  LET filed == InsertFiles(conf["Filename"], BuildMap(conf, "ToFile"), writable)
  IN  [Enabled             |-> BuildMap(conf, "Enabled"),
       ToFile              |-> filed.toFile,
       ToStandardOutput    |-> BuildMap(conf, "ToStandardOutput"),
       Format              |-> ResolveLoggers(BuildMap(conf, "Format"), logger),
       Filename            |-> filed.files,
       MillisecondsWidth   |-> BuildMap(conf, "MillisecondsWidth"),
       PerformanceTracking |-> BuildMap(conf, "PerformanceTracking"),
       MaxLogFileSize      |-> BuildMap(conf, "MaxLogFileSize"),
       LogFlushThreshold   |-> BuildMap(conf, "LogFlushThreshold")]

\* unsafeGetConfigByVal and ByRef: the level's value or that of level Global.  By
\* reference there is nothing to return if both are missing.
Nothing == "nothing"
Lookup(typed, type, level) ==
  LET map == typed[type]
  IN  IF level \in DOMAIN map THEN map[level]
      ELSE IF "Global" \in DOMAIN map THEN map["Global"] ELSE Nothing
=============================================================================
