--------------------------- MODULE Startup_proofs ---------------------------
(***************************************************************************)
(* For any texts, any command line and any configuration file: the types,   *)
(* ConfigServed, StartFate and SearchOrder of Startup.                      *)
(***************************************************************************)
EXTENDS Startup, FiniteSetTheorems, SequenceTheorems, TLAPS

\* The settings before the n-th, once loaded.
LoadedTo(n) ==
    \A i \in 1..(n - 1) :
        config[Settings[i]] \in
            IF Settings[i] = "router" THEN PathJoin(Chosen("root"), Chosen("router"))
            ELSE {Chosen(Settings[i])}

\* What the Lua stack tells of the settings that are missing: with a nil on
\* top the one just loaded, or the file had nothing.
StackInv ==
    /\ top = "nil" => IF slot = 1 THEN file = NoFile ELSE file[Settings[slot - 1]] = None
    /\ top = "other" => file = NoFile

ConfigInv ==
    /\ pc = "load" => slot \in 1..4 /\ LoadedTo(slot) /\ StackInv
    /\ pc \in {"init", "accept", "request"} => LoadedTo(5)

-----------------------------------------------------------------------------
(* Types.                                                                  *)

LEMMA OneElement == ASSUME NEW S, NEW a \in S PROVE <<a>> \in Seq(S)
OBVIOUS

LEMMA ThreeElements ==
    ASSUME NEW S, NEW a \in S, NEW b \in S, NEW c \in S PROVE <<a, b, c>> \in Seq(S)
OBVIOUS

LEMMA Prefix ==
    ASSUME NEW S, NEW s \in Seq(S), NEW n \in 1..Len(s) PROVE SubSeq(s, 1, n - 1) \in Seq(S)
OBVIOUS

LEMMA FunctionIsSeq ==
    ASSUME NEW S, NEW n \in Nat, NEW f \in [1..n -> S] PROVE f \in Seq(S)
BY SeqDef

\* Texts can be joined, and what a search path can be is a list of texts.
LEMMA TextConcat == \A x, y \in Text : x \o y \in Text
BY DEF Text

LEMMA PiecesAreText ==
    /\ Junk \in Text /\ DefaultDevice \in Text /\ <<>> \in Text
    /\ <<"/">> \in Text /\ <<"?.lua">> \in Text /\ <<".">> \in Text
<1>1. /\ "junk" \in Piece /\ ":8000" \in Piece /\ "/" \in Piece
      /\ "?.lua" \in Piece /\ "." \in Piece
    BY StartupAssumption
<1>2. <<>> \in Text
    BY DEF Text
<1> QED BY <1>1, <1>2, OneElement DEF Text, Junk, DefaultDevice

LEMMA DefaultsAreText == \A s \in Names : Default[s] \in Text
<1>1. Names = {"root", "router", "fcgi_query", "fcgi_header_prefix"}
    BY DEF Names, Settings
<1>2. "/" \in Piece /\ "www" \in Piece /\ "reqhandler.lua" \in Piece
      /\ "QUERY_STRING" \in Piece /\ "HTTP_" \in Piece
    BY StartupAssumption
<1>3. <<"/", "www", "/">> \in Text
    BY <1>2, ThreeElements DEF Text
<1>4. <<"reqhandler.lua">> \in Text /\ <<"QUERY_STRING">> \in Text /\ <<"HTTP_">> \in Text
    BY <1>2, OneElement DEF Text
<1> QED BY <1>1, <1>3, <1>4 DEF Default

LEMMA SeparatedText == \A x \in Text : Separated(x) \subseteq Text
<1> SUFFICES ASSUME NEW x \in Text, NEW s \in Separated(x) PROVE s \in Text
    OBVIOUS
<1>1. PICK h \in EndsWithPathSeparator(x) : s = x \o (IF h THEN <<>> ELSE <<"/">>)
    BY DEF Separated
<1> QED BY <1>1, TextConcat, PiecesAreText

LEMMA PathJoinText == \A x, y \in Text : PathJoin(x, y) \subseteq Text
BY SeparatedText, TextConcat DEF PathJoin

LEMMA AppendText == \A x \in Text : AppendLuaDbPath(x) \subseteq Text
BY SeparatedText, TextConcat, PiecesAreText DEF AppendLuaDbPath

LEMMA DirnameText == \A p \in Text : Dirname(p) \subseteq Text
<1> SUFFICES ASSUME NEW p \in Text, NEW d \in Dirname(p) PROVE d \in Text
    OBVIOUS
<1>1. d \in {<<".">>, <<"/">>} \/ \E n \in 1..Len(p) : d = SubSeq(p, 1, n - 1)
    BY DEF Dirname
<1> QED BY <1>1, PiecesAreText, Prefix DEF Text

LEMMA SearchesText ==
    ASSUME NEW dirs \in Seq(Text), NEW s \in Searches(dirs)
    PROVE  s \in Seq(Text)
<1>1. CASE overrun
    BY <1>1, PiecesAreText, OneElement DEF Searches
<1>2. CASE ~overrun
  <2>1. s \in [1..Len(dirs) -> UNION {AppendLuaDbPath(dirs[i]) : i \in 1..Len(dirs)}]
      BY <1>2 DEF Searches
  <2>2. \A i \in 1..Len(dirs) : s[i] \in AppendLuaDbPath(dirs[i])
      BY <1>2 DEF Searches
  <2>3. \A i \in 1..Len(dirs) : s[i] \in Text
      BY <2>2, AppendText
  <2>4. s \in [1..Len(dirs) -> Text]
      BY <2>1, <2>3
  <2>5. Len(dirs) \in Nat
      OBVIOUS
  <2> QED BY <2>4, <2>5, FunctionIsSeq
<1> QED BY <1>1, <1>2

LEMMA SettingsAre ==
    /\ Len(Settings) = 4
    /\ Settings[1] = "root" /\ Settings[2] = "router"
    /\ Settings[3] = "fcgi_query" /\ Settings[4] = "fcgi_header_prefix"
    /\ Names = {"root", "router", "fcgi_query", "fcgi_header_prefix"}
    /\ \A i \in 1..4 : Settings[i] \in Names
    /\ \A i, j \in 1..4 : Settings[i] = Settings[j] => i = j
<1>1. /\ Len(Settings) = 4
      /\ Settings[1] = "root" /\ Settings[2] = "router"
      /\ Settings[3] = "fcgi_query" /\ Settings[4] = "fcgi_header_prefix"
      /\ Names = {"root", "router", "fcgi_query", "fcgi_header_prefix"}
    BY DEF Settings, Names
<1>2. 1..4 = {1, 2, 3, 4}
    OBVIOUS
<1> QED BY <1>1, <1>2

LEMMA GivenArg ==
    ASSUME TypeOK, NEW o, Given(o)
    PROVE  /\ optind' \in 1..(Len(argv) + 1)
           /\ o = "p" => optarg \in Devices \cup {None}
           /\ o = "i" => optarg \in Text
<1>1. argv \in Seq(Option) /\ optind \in 1..Len(argv) /\ argv[optind][1] = o
    BY DEF TypeOK, Given
<1>2. argv[optind] \in Option
    BY <1>1
<1>3. o = "p" => optarg \in Devices \cup {None}
    BY <1>1, <1>2 DEF Option, optarg
<1>4. o = "i" => optarg \in Paths
    BY <1>1, <1>2 DEF Option, optarg
<1> QED BY <1>1, <1>3, <1>4, StartupAssumption DEF Given

LEMMA TypeInit == Init => TypeOK
<1> SUFFICES ASSUME Init PROVE TypeOK
    OBVIOUS
<1>1. PICK n \in 0..MaxArgs : argv \in [1..n -> Option]
    BY DEF Init
<1>2. argv \in Seq(Option) /\ Len(argv) = n
    BY <1>1, FunctionIsSeq, StartupAssumption
<1>3. paths \in Seq(Text) /\ search \in Seq(Text)
    BY DEF Init
<1>4. NoFile \in [Names -> Values \cup {None}] /\ NoFile \in [Names -> Text \cup {None}]
    BY DEF NoFile
<1>5. /\ optind \in 1..(Len(argv) + 1) /\ slot \in 1..(Len(Settings) + 1)
      /\ maxpaths \in Nat /\ room \in Nat
    BY <1>2, SettingsAre, StartupAssumption DEF Init
<1> QED BY <1>2, <1>3, <1>4, <1>5 DEF Init, TypeOK, Status

\* A setting that was loaded is a text.
LEMMA LoadedText ==
    ASSUME TypeOK, LoadedTo(2)
    PROVE  config["root"] \in Text
<1>1. config["root"] = Chosen("root")
    BY SettingsAre DEF LoadedTo
<1>2. Chosen("root") \in Text
    BY DefaultsAreText, SettingsAre, StartupAssumption DEF Chosen, TypeOK
<1> QED BY <1>1, <1>2

LEMMA TypeStep == TypeOK /\ ConfigInv /\ [Next]_vars => TypeOK'
<1> SUFFICES ASSUME TypeOK, ConfigInv, [Next]_vars PROVE TypeOK'
    OBVIOUS
<1> USE DEF TypeOK
<1>1. CASE OptionHelp
    BY <1>1, GivenArg DEF OptionHelp, Given, Stop, Status, pathVars, configVars
<1>2. CASE OptionInvalid
    BY <1>2, GivenArg DEF OptionInvalid, Given, Stop, Status, pathVars, configVars
<1>3. CASE OptionDevice
    BY <1>3, GivenArg DEF OptionDevice, pathVars, configVars, fateVars
<1>4. CASE OptionNoFork
  <2>1. optind' \in 1..(Len(argv) + 1) /\ shouldFork' \in BOOLEAN
      BY <1>4, GivenArg DEF OptionNoFork, Given
  <2>2. /\ UNCHANGED <<pc, argv, fname, device, search, paths, maxpaths, room, overrun>>
        /\ UNCHANGED <<file, top, slot, config, exit, launched, fault>>
      BY <1>4 DEF OptionNoFork, pathVars, configVars, fateVars
  <2> QED BY <2>1, <2>2
<1>5. CASE OptionPath
  <2>1. optarg \in Text
      BY <1>5, GivenArg DEF OptionPath
  <2>2. optarg \o <<>> \in Text /\ optarg \o Junk \in Text
      BY <2>1, TextConcat, PiecesAreText
  <2>3. paths' = paths \/ paths' = Append(paths, optarg \o <<>>)
            \/ paths' = Append(paths, optarg \o Junk)
      BY <1>5 DEF OptionPath
  <2>4. paths' \in Seq(Text)
    <3>1. paths \in Seq(Text)
        OBVIOUS
    <3>2. \A t \in Text : Append(paths, t) \in Seq(Text)
        BY <3>1
    <3> QED BY <2>2, <2>3, <3>1, <3>2
  <2>5. maxpaths' \in Nat /\ room' \in Nat /\ overrun' \in BOOLEAN
      BY <1>5 DEF OptionPath, PointerSize
  <2>6. /\ UNCHANGED <<pc, argv, fname, device, shouldFork, search>>
        /\ UNCHANGED <<file, top, slot, config, exit, launched, fault>>
      BY <1>5 DEF OptionPath, configVars, fateVars
  <2>7. optind' \in 1..(Len(argv) + 1)
      BY <1>5, GivenArg DEF OptionPath, Given
  <2> QED BY <2>4, <2>5, <2>6, <2>7
<1>6. CASE StartLuaRepl
  <2>1. search' \in Seq(Text)
      BY <1>6, SearchesText DEF StartLuaRepl
  <2> QED BY <1>6, <2>1 DEF StartLuaRepl, Stop, Status, argVars, pathVars, configVars, fateVars
<1>7. CASE EndOfInput
    BY <1>7 DEF EndOfInput, Stop, Status, argVars, pathVars, configVars
<1>8. CASE RunLuaScript
  <2>1. \A dir \in Dirname(fname) : Append(paths, dir) \in Seq(Text)
      BY <1>8, DirnameText, StartupAssumption DEF RunLuaScript
  <2>2. search' \in Seq(Text)
      BY <1>8, <2>1, SearchesText DEF RunLuaScript
  <2>3. /\ UNCHANGED <<argv, optind, fname, device, shouldFork, paths, maxpaths, room>>
        /\ UNCHANGED <<file, top, slot, config>>
      BY <1>8 DEF RunLuaScript, argVars, configVars
  <2>4. /\ overrun' \in BOOLEAN /\ pc' \in {"script", "stopped"}
        /\ exit' \in Status /\ launched' \in Status /\ fault' \in {fault, "state"}
      BY <1>8 DEF RunLuaScript, Stop, Status, fateVars
  <2> QED BY <2>2, <2>3, <2>4
<1>9. CASE ScriptEnds
    BY <1>9 DEF ScriptEnds, Stop, Status, argVars, pathVars, configVars
<1>10. CASE StartFcgiWorker
    BY <1>10 DEF StartFcgiWorker, Stop, Status, argVars, pathVars, configVars
<1>11. CASE ReadEnvironmentConfig
  <2>1. NoFile \in [Names -> Values \cup {None}]
      BY DEF NoFile
  <2> QED BY <1>11, <2>1, SettingsAre
          DEF ReadEnvironmentConfig, Stop, Status, argVars, pathVars, configVars, fateVars
<1>12. CASE LoadConfigSetting
  <2>1. CASE top \in {"table", "string"}
    <3> DEFINE s == Settings[slot]
               val == IF file[s] = None THEN Default[s] ELSE file[s]
    <3>1. PICK v \in Formatted(s, val) : config' = [config EXCEPT ![s] = v]
        BY <1>12, <2>1 DEF LoadConfigSetting
    <3>2. slot \in 1..4 /\ s \in Names /\ LoadedTo(slot)
        BY <1>12, SettingsAre DEF LoadConfigSetting, ConfigInv
    <3>3. val \in Text
        BY <3>2, DefaultsAreText, StartupAssumption
    <3>4. ASSUME s = "router" PROVE v \in Text
      <4>1. slot = 2
          BY <3>2, <3>4, SettingsAre
      <4>2. LoadedTo(2)
          BY <3>2, <4>1
      <4>3. v \in PathJoin(config["root"], val)
          BY <3>1, <3>4 DEF Formatted
      <4> QED BY <3>3, <4>2, <4>3, LoadedText, PathJoinText
    <3>5. ASSUME s # "router" PROVE v \in Text
        BY <3>1, <3>3, <3>5 DEF Formatted
    <3>6. v \in Text
        BY <3>1, <3>3, <3>4, <3>5
    <3>7. config' \in [Names -> Text \cup {None}]
        BY <3>1, <3>2, <3>6
    <3>8. slot' \in 1..(Len(Settings) + 1) /\ top' \in {"table", "string", "nil", "other"}
          /\ pc' \in {"init", "load"} /\ UNCHANGED <<file, fateVars>>
        BY <1>12, <2>1, <3>2, SettingsAre DEF LoadConfigSetting
    <3> QED BY <1>12, <3>7, <3>8 DEF LoadConfigSetting, argVars, pathVars, fateVars
  <2>2. CASE top \in {"nil", "other"}
      BY <1>12, <2>2 DEF LoadConfigSetting, Stop, Status, argVars, pathVars, configVars
  <2> QED BY <1>12, <2>1, <2>2 DEF LoadConfigSetting
<1>13. CASE InitFcgxRequest
    BY <1>13 DEF InitFcgxRequest, Stop, Status, argVars, pathVars, configVars, fateVars
<1>14. CASE FCGX_Accept_r
  <2>1. LoadedTo(2)
      BY <1>14 DEF FCGX_Accept_r, ConfigInv, LoadedTo
  <2>2. Append(paths, config["root"]) \in Seq(Text)
      BY <2>1, LoadedText
  <2>3. search' \in Seq(Text)
      BY <1>14, <2>2, SearchesText DEF FCGX_Accept_r
  <2> QED BY <1>14, <2>3 DEF FCGX_Accept_r, Stop, Status, argVars, pathVars, configVars, fateVars
<1>15. CASE ProcessFcgxRequest
    BY <1>15 DEF ProcessFcgxRequest, argVars, pathVars, configVars, fateVars
<1>16. CASE Crash
    BY <1>16 DEF Crash, Stop, Status, argVars, pathVars, configVars
<1>17. CASE UNCHANGED vars
    BY <1>17 DEF vars, argVars, pathVars, configVars, fateVars
<1> QED BY <1>1, <1>2, <1>3, <1>4, <1>5, <1>6, <1>7, <1>8, <1>9, <1>10, <1>11, <1>12,
           <1>13, <1>14, <1>15, <1>16, <1>17 DEF Next

-----------------------------------------------------------------------------
(* The settings.                                                           *)

LEMMA ConfigInit == Init => ConfigInv
BY DEF Init, ConfigInv

\* ConfigInv looks at the configuration and at pc only.
LEMMA ConfigKept ==
    ASSUME ConfigInv, UNCHANGED configVars,
           pc' \in {"load", "init", "accept", "request"} =>
              \/ pc' = pc
              \/ {pc, pc'} \subseteq {"init", "accept", "request"}
    PROVE  ConfigInv'
BY DEF ConfigInv, configVars, LoadedTo, StackInv, Chosen

LEMMA LoadStep == TypeOK /\ ConfigInv /\ LoadConfigSetting => ConfigInv'
<1> SUFFICES ASSUME TypeOK, ConfigInv, LoadConfigSetting PROVE ConfigInv'
    OBVIOUS
<1>1. slot \in 1..4 /\ LoadedTo(slot) /\ StackInv
    BY DEF LoadConfigSetting, ConfigInv
<1>2. CASE top \in {"table", "string"}
  <2> DEFINE s == Settings[slot]
  <2>1. PICK v \in Formatted(s, Chosen(s)) : config' = [config EXCEPT ![s] = v]
      BY <1>2 DEF LoadConfigSetting, Chosen
  <2>2. file' = file /\ slot' = slot + 1 /\ top' = IF file[s] = None THEN "nil" ELSE top
      BY <1>2 DEF LoadConfigSetting
  <2>3. s = "router" => config["root"] = Chosen("root")
    <3>1. s = "router" => slot = 2
        BY <1>1, SettingsAre
    <3>2. LoadedTo(2) => config["root"] = Chosen("root")
        BY SettingsAre DEF LoadedTo
    <3> QED BY <1>1, <3>1, <3>2
  <2>4. v \in IF s = "router" THEN PathJoin(Chosen("root"), Chosen("router")) ELSE {Chosen(s)}
      BY <2>1, <2>3 DEF Formatted
  <2>5. ASSUME NEW i \in 1..slot
        PROVE  config'[Settings[i]] \in
                   IF Settings[i] = "router" THEN PathJoin(Chosen("root"), Chosen("router"))
                   ELSE {Chosen(Settings[i])}
    <3>1. CASE i = slot
        BY <1>1, <2>1, <2>4, <3>1, SettingsAre DEF TypeOK
    <3>2. CASE i # slot
      <4>1. i \in 1..(slot - 1) /\ Settings[i] # s
          BY <1>1, <3>2, SettingsAre
      <4>2. config'[Settings[i]] = config[Settings[i]]
          BY <1>1, <2>1, <4>1, SettingsAre DEF TypeOK
      <4> QED BY <1>1, <4>1, <4>2 DEF LoadedTo
    <3> QED BY <3>1, <3>2
  <2>6. LoadedTo(slot)'
    <3>1. 1..(slot' - 1) = 1..slot
        BY <1>1, <2>2
    <3>2. Chosen("root")' = Chosen("root") /\ Chosen("router")' = Chosen("router")
        BY <2>2 DEF Chosen
    <3>3. \A i \in 1..slot : Chosen(Settings[i])' = Chosen(Settings[i])
        BY <2>2 DEF Chosen
    <3> QED BY <2>5, <3>1, <3>2, <3>3 DEF LoadedTo
  <2>8. CASE slot = 4
    <3>1. pc' = "init" /\ slot' = 5
        BY <1>2, <2>2, <2>8, SettingsAre DEF LoadConfigSetting
    <3> QED BY <2>2, <2>6, <2>8, <3>1 DEF ConfigInv, LoadedTo
  <2>9. CASE slot # 4
    <3>1. pc' = "load" /\ slot' \in 1..4
        BY <1>1, <1>2, <2>2, <2>9, SettingsAre DEF LoadConfigSetting
    <3>2. StackInv'
        BY <1>1, <1>2, <2>2 DEF StackInv
    <3> QED BY <2>2, <2>6, <3>1, <3>2 DEF ConfigInv
  <2> QED BY <2>8, <2>9
<1>3. CASE top \in {"nil", "other"}
    BY <1>3, ConfigKept DEF LoadConfigSetting, Stop
<1> QED BY <1>2, <1>3 DEF LoadConfigSetting

LEMMA ConfigStep == TypeOK /\ ConfigInv /\ [Next]_vars => ConfigInv'
<1> SUFFICES ASSUME TypeOK, ConfigInv, [Next]_vars PROVE ConfigInv'
    OBVIOUS
<1>1. CASE LoadConfigSetting
    BY <1>1, LoadStep
<1>2. CASE ReadEnvironmentConfig
  <2>1. CASE pc' = "load"
    <3>1. slot' = 1 /\ top' \in {"table", "string", "nil", "other"}
          /\ (top' # "table" => file' = NoFile)
        BY <1>2, <2>1 DEF ReadEnvironmentConfig, Stop
    <3>2. LoadedTo(slot)' /\ StackInv'
        BY <3>1 DEF LoadedTo, StackInv
    <3> QED BY <2>1, <3>1, <3>2 DEF ConfigInv
  <2>2. CASE pc' # "load"
      BY <1>2, <2>2 DEF ReadEnvironmentConfig, Stop, ConfigInv
  <2> QED BY <2>1, <2>2
<1>3. CASE OptionHelp \/ OptionInvalid \/ OptionDevice \/ OptionNoFork \/ OptionPath
    BY <1>3, ConfigKept DEF OptionHelp, OptionInvalid, OptionDevice, OptionNoFork, OptionPath,
                            Given, Stop
<1>4. CASE StartLuaRepl \/ EndOfInput \/ RunLuaScript \/ ScriptEnds \/ StartFcgiWorker
    BY <1>4, ConfigKept DEF StartLuaRepl, EndOfInput, RunLuaScript, ScriptEnds,
                            StartFcgiWorker, Stop
<1>5. CASE InitFcgxRequest \/ FCGX_Accept_r \/ ProcessFcgxRequest \/ Crash
    BY <1>5, ConfigKept DEF InitFcgxRequest, FCGX_Accept_r, ProcessFcgxRequest, Crash, Stop
<1>6. CASE UNCHANGED vars
    BY <1>6, ConfigKept DEF vars
<1> QED BY <1>1, <1>2, <1>3, <1>4, <1>5, <1>6 DEF Next

LEMMA SettingsInvariant == Spec => [](TypeOK /\ ConfigInv)
<1>1. Init => TypeOK /\ ConfigInv
    BY TypeInit, ConfigInit
<1>2. TypeOK /\ ConfigInv /\ [Next]_vars => (TypeOK /\ ConfigInv)'
    BY TypeStep, ConfigStep
<1> QED BY <1>1, <1>2, PTL DEF Spec

\* The variables keep their types.
THEOREM TypeCorrect == Spec => []TypeOK
BY SettingsInvariant, PTL

\* A worker takes requests only with the settings of the file or their
\* defaults, whatever the file has.
THEOREM ServesItsConfig == Spec => []ConfigServed
<1>1. TypeOK /\ ConfigInv => ConfigServed
  <2> SUFFICES ASSUME TypeOK, ConfigInv, Serving PROVE ConfigServed
      BY DEF ConfigServed
  <2>1. LoadedTo(5)
      BY DEF ConfigInv, Serving
  <2>2. \A s \in Names \ {"router"} : config[s] = Chosen(s)
    <3> SUFFICES ASSUME NEW s \in Names \ {"router"} PROVE config[s] = Chosen(s)
        OBVIOUS
    <3>1. PICK i \in 1..4 : s = Settings[i]
        BY SettingsAre
    <3> QED BY <2>1, <3>1 DEF LoadedTo
  <2>3. config["router"] \in PathJoin(Chosen("root"), Chosen("router"))
      BY <2>1, SettingsAre DEF LoadedTo
  <2> QED BY <2>1, <2>2, <2>3, SettingsAre DEF ConfigServed
<1> QED BY <1>1, SettingsInvariant, PTL

-----------------------------------------------------------------------------
(* How a start ends.                                                       *)

\* Why the number of copied paths tells that there were too many: each has its
\* option, and the block keeps the size it had until it is overrun.
TooMany == \E i \in Asked : Cardinality({j \in Asked : j < i}) >= MaxPaths

PathInv ==
    /\ Len(paths) <= Cardinality(Asked)
    /\ maxpaths >= MaxPaths
    /\ ~overrun => room = MaxPaths
    /\ overrun => TooMany \/ (pc # "options" /\ device = None /\ fname = <<>>)

LEMMA AskedFinite ==
    ASSUME TypeOK
    PROVE  IsFiniteSet(Asked) /\ Asked \subseteq 1..(optind - 1) /\ Cardinality(Asked) \in Nat
<1>1. IsFiniteSet(1..(optind - 1)) /\ Asked \subseteq 1..(optind - 1)
  <2>1. optind - 1 \in Int
      BY DEF TypeOK
  <2>2. IsFiniteSet(1..(optind - 1))
      BY <2>1, FS_Interval
  <2>3. Asked \subseteq 1..(optind - 1)
      BY DEF Asked
  <2> QED BY <2>2, <2>3
<1> QED BY <1>1, FS_Subset, FS_CardinalityType

\* After one more option there are at least as many paths asked for, and too
\* many remain too many.
LEMMA AskedGrows ==
    ASSUME TypeOK, TypeOK', argv' = argv, optind' \in {optind, optind + 1}
    PROVE  /\ Cardinality(Asked) <= Cardinality(Asked')
           /\ TooMany => TooMany'
           /\ Cardinality(Asked') \in Nat
<1>1. Asked \subseteq Asked'
    BY DEF Asked, TypeOK
<1>2. ASSUME NEW i \in Asked PROVE {j \in Asked : j < i} = {j \in Asked' : j < i}
    BY <1>1 DEF Asked, TypeOK
<1>3. IsFiniteSet(Asked')
  <2>1. optind' - 1 \in Int /\ Asked' \subseteq 1..(optind' - 1)
      BY DEF Asked, TypeOK
  <2>2. IsFiniteSet(1..(optind' - 1))
      BY <2>1, FS_Interval
  <2> QED BY <2>1, <2>2, FS_Subset
<1> QED BY <1>1, <1>2, <1>3, FS_Subset, FS_CardinalityType DEF TooMany

\* What an action that reads no option keeps.
LEMMA PathKept ==
    ASSUME PathInv, UNCHANGED <<argv, optind, fname, device, pathVars>>,
           pc' = "options" => pc = "options"
    PROVE  PathInv'
BY DEF PathInv, pathVars, Asked, TooMany

LEMMA OptionPathStep == TypeOK /\ TypeOK' /\ PathInv /\ OptionPath => PathInv'
<1> SUFFICES ASSUME TypeOK, TypeOK', PathInv, OptionPath PROVE PathInv'
    OBVIOUS
<1>1. optind' = optind + 1 /\ optind \in 1..Len(argv) /\ argv[optind][1] = "i"
      /\ UNCHANGED <<argv, fname, device>>
    BY DEF OptionPath, Given, TypeOK
<1>2. Asked' = Asked \cup {optind} /\ optind \notin Asked
  <2>1. optind \in Nat /\ optind' - 1 = optind /\ 1..optind = (1..(optind - 1)) \cup {optind}
    <3>1. Len(argv) \in Nat
        BY DEF TypeOK
    <3> QED BY <1>1, <3>1
  <2>2. Asked' = {i \in 1..optind : argv[i][1] = "i"}
      BY <1>1, <2>1 DEF Asked
  <2> QED BY <1>1, <2>1, <2>2 DEF Asked
<1>3. Cardinality(Asked') = Cardinality(Asked) + 1
    BY <1>2, AskedFinite, FS_AddElement
<1>4. Len(paths') <= Len(paths) + 1 /\ Len(paths) \in Nat
    BY DEF OptionPath, TypeOK
<1>5. PICK moved \in (IF Len(paths) >= maxpaths THEN BOOLEAN ELSE {FALSE}) :
          /\ maxpaths' = IF moved THEN maxpaths * 2 ELSE maxpaths
          /\ room' = IF moved THEN (Len(paths) * 2) \div PointerSize ELSE room
          /\ overrun' = (overrun \/ Len(paths) >= room')
    BY DEF OptionPath
<1>6. MaxPaths \in Nat /\ maxpaths \in Nat /\ room \in Nat /\ maxpaths' \in Nat
    BY StartupAssumption DEF TypeOK
<1>7. maxpaths' >= MaxPaths
    BY <1>5, <1>6 DEF PathInv
<1>8. moved => Len(paths) >= MaxPaths /\ Len(paths) >= room'
  <2> SUFFICES ASSUME moved PROVE Len(paths) >= MaxPaths /\ Len(paths) >= room'
      OBVIOUS
  <2>1. Len(paths) >= maxpaths /\ room' = (Len(paths) * 2) \div PointerSize
      BY <1>5
  <2>2. \A n \in Nat : n >= (n * 2) \div 8
      OBVIOUS
  <2> QED BY <1>4, <1>6, <2>1, <2>2 DEF PathInv, PointerSize
<1>9. ~overrun' => room' = MaxPaths
    BY <1>5, <1>8 DEF PathInv
<1>10. Len(paths) >= MaxPaths => TooMany'
  <2>1. {j \in Asked' : j < optind} = Asked
      BY <1>2 DEF Asked, TypeOK
  <2>2. Len(paths) >= MaxPaths => Cardinality({j \in Asked' : j < optind}) >= MaxPaths
    <3>1. Len(paths) <= Cardinality(Asked) /\ Cardinality(Asked) \in Nat
        BY AskedFinite DEF PathInv
    <3>2. Len(paths) >= MaxPaths => Cardinality(Asked) >= MaxPaths
        BY <1>4, <1>6, <3>1
    <3> QED BY <2>1, <3>2
  <2>3. optind \in Asked'
      BY <1>2
  <2> QED BY <2>2, <2>3 DEF TooMany
<1>11. overrun' => TooMany'
  <2>1. CASE overrun
      BY <1>1, <2>1, AskedGrows DEF PathInv, OptionPath, Given
  <2>2. CASE ~overrun
    <3>1. overrun' => Len(paths) >= MaxPaths
        BY <1>5, <1>8, <2>2 DEF PathInv
    <3> QED BY <3>1, <1>10
  <2> QED BY <2>1, <2>2
<1> QED BY <1>3, <1>4, <1>7, <1>9, <1>11, AskedFinite DEF PathInv

LEMMA PathStep == TypeOK /\ TypeOK' /\ PathInv /\ [Next]_vars => PathInv'
<1> SUFFICES ASSUME TypeOK, TypeOK', PathInv, [Next]_vars PROVE PathInv'
    OBVIOUS
<1>1. CASE OptionPath
    BY <1>1, OptionPathStep
<1>2. CASE OptionHelp \/ OptionInvalid \/ OptionNoFork \/ OptionDevice
  <2>1. optind' = optind + 1 /\ UNCHANGED <<argv, fname, pathVars>> /\ optind \in Nat
        /\ pc = "options"
      BY <1>2 DEF OptionHelp, OptionInvalid, OptionNoFork, OptionDevice, Given, TypeOK
  <2>2. Len(paths) <= Cardinality(Asked') /\ (TooMany => TooMany')
      BY <2>1, AskedGrows, AskedFinite DEF PathInv, TypeOK, pathVars
  <2> QED BY <2>1, <2>2 DEF PathInv, pathVars
<1>3. CASE RunLuaScript
  <2>1. UNCHANGED <<argVars, paths, maxpaths, room>> /\ device = None
        /\ (overrun' = (overrun \/ fname = <<>>) \/ UNCHANGED overrun)
      BY <1>3 DEF RunLuaScript
  <2>2. Asked' = Asked /\ (TooMany <=> TooMany')
      BY <2>1 DEF argVars, Asked, TooMany
  <2>3. pc' # "options"
      BY <1>3 DEF RunLuaScript, Stop
  <2>4. Len(paths') <= Cardinality(Asked') /\ maxpaths' >= MaxPaths
      BY <2>1, <2>2 DEF PathInv
  <2>5. ~overrun' => room' = MaxPaths
      BY <2>1 DEF PathInv, TypeOK
  <2>6. overrun' => TooMany' \/ (pc' # "options" /\ device' = None /\ fname' = <<>>)
      BY <2>1, <2>2, <2>3 DEF PathInv, TypeOK, argVars
  <2> QED BY <2>4, <2>5, <2>6 DEF PathInv
<1>4. CASE StartLuaRepl \/ EndOfInput \/ ScriptEnds \/ StartFcgiWorker
    BY <1>4, PathKept DEF StartLuaRepl, EndOfInput, ScriptEnds, StartFcgiWorker, argVars, Stop
<1>5. CASE ReadEnvironmentConfig \/ LoadConfigSetting \/ InitFcgxRequest
    BY <1>5, PathKept DEF ReadEnvironmentConfig, LoadConfigSetting, InitFcgxRequest, argVars, Stop
<1>6. CASE FCGX_Accept_r \/ ProcessFcgxRequest \/ Crash
    BY <1>6, PathKept DEF FCGX_Accept_r, ProcessFcgxRequest, Crash, argVars, Stop
<1>7. CASE UNCHANGED vars
    BY <1>7, PathKept DEF vars, argVars
<1> QED BY <1>1, <1>2, <1>3, <1>4, <1>5, <1>6, <1>7 DEF Next

LEMMA PathInit == Init => PathInv
<1> SUFFICES ASSUME Init PROVE PathInv
    OBVIOUS
<1>1. TypeOK /\ Len(paths) = 0
    BY TypeInit DEF Init
<1> QED BY <1>1, AskedFinite, StartupAssumption DEF Init, PathInv

\* StartFate without its last but one conjunct, and what is true before the end.
FateInv ==
    /\ pc # "stopped" => exit = "running" /\ fault = "none"
    /\ exit = "success" => fault = "none"
    /\ exit = "failure" => fault # "none"
    /\ exit = "panic" => \E i \in 1..3 : file[Settings[i]] = None
    /\ exit = "crash" => TooMany \/ (device = None /\ (fname = <<>> \/ (fname = None /\ fault = "state")))
    /\ launched = "success" => exit = "success" \/ (device # None /\ shouldFork)
    /\ pc = "options" => launched = "running"

LEMMA FateInit == Init => FateInv
BY DEF Init, FateInv

LEMMA FateKept ==
    ASSUME FateInv, UNCHANGED <<argv, optind, fname, device, shouldFork, file, fateVars>>,
           pc # "stopped", pc' # "options"
    PROVE  FateInv'
BY DEF FateInv, TooMany, Asked, fateVars

\* Ending with a status that says what happened, and keeping everything else.
LEMMA FateStops ==
    ASSUME FateInv, UNCHANGED <<argv, optind, fname, device, shouldFork, file>>,
           pc # "stopped", NEW status, Stop(status, fault'),
           status = "success" => fault' = "none",
           status = "failure" => fault' # "none",
           status = "panic" => \E i \in 1..3 : file[Settings[i]] = None,
           status = "crash" =>
              TooMany \/ (device = None /\ (fname = <<>> \/ (fname = None /\ fault' = "state")))
    PROVE  FateInv'
BY DEF FateInv, TooMany, Asked, Stop

LEMMA FateStep == TypeOK /\ ConfigInv /\ PathInv /\ FateInv /\ [Next]_vars => FateInv'
<1> SUFFICES ASSUME TypeOK, ConfigInv, PathInv, FateInv, [Next]_vars PROVE FateInv'
    OBVIOUS
<1>1. CASE OptionHelp \/ OptionInvalid
    BY <1>1 DEF OptionHelp, OptionInvalid, Given, Stop, FateInv, configVars
<1>2. CASE OptionDevice \/ OptionNoFork \/ OptionPath
    BY <1>2 DEF OptionDevice, OptionNoFork, OptionPath, Given, FateInv, fateVars, configVars
<1>3. CASE StartLuaRepl
  <2>1. CASE UNCHANGED fateVars /\ pc' = "repl"
      BY <1>3, <2>1, FateKept DEF StartLuaRepl, Parsed, argVars, configVars
  <2>2. CASE Stop("crash", "state")
      BY <1>3, <2>2, FateStops DEF StartLuaRepl, Parsed, argVars, configVars, Stop
  <2> QED BY <1>3, <2>1, <2>2 DEF StartLuaRepl
<1>4. CASE EndOfInput
    BY <1>4, FateStops DEF EndOfInput, argVars, configVars, Stop, FateInv
<1>5. CASE RunLuaScript
  <2>1. CASE UNCHANGED fateVars /\ pc' = "script"
      BY <1>5, <2>1, FateKept DEF RunLuaScript, Parsed, argVars, configVars
  <2>2. CASE Stop("failure", "state")
      BY <1>5, <2>2, FateStops DEF RunLuaScript, Parsed, argVars, configVars, Stop
  <2> QED BY <1>5, <2>1, <2>2 DEF RunLuaScript
<1>6. CASE ScriptEnds
    BY <1>6, FateStops DEF ScriptEnds, argVars, configVars, Stop, FateInv
<1>7. CASE StartFcgiWorker
    BY <1>7 DEF StartFcgiWorker, Parsed, argVars, configVars, Stop, FateInv
<1>8. CASE ReadEnvironmentConfig
    BY <1>8 DEF ReadEnvironmentConfig, argVars, Stop, FateInv, TooMany, Asked, fateVars, configVars
<1>9. CASE LoadConfigSetting
  <2>1. CASE UNCHANGED <<file, fateVars>> /\ pc' \in {"init", "load"}
      BY <1>9, <2>1, FateKept DEF LoadConfigSetting, argVars
  <2>2. CASE Stop("panic", fault) /\ UNCHANGED configVars /\ top \in {"nil", "other"}
    <3>1. slot \in 1..4 /\ StackInv
        BY <1>9 DEF LoadConfigSetting, ConfigInv
    <3>2. CASE file = NoFile
      <4>1. file[Settings[1]] = None
          BY <3>2, SettingsAre DEF NoFile
      <4> QED BY <1>9, <2>2, <4>1, FateStops DEF LoadConfigSetting, argVars, configVars, Stop
    <3>3. CASE slot # 1 /\ file[Settings[slot - 1]] = None
      <4>1. \E i \in 1..3 : file[Settings[i]] = None
          BY <3>1, <3>3
      <4> QED BY <1>9, <2>2, <4>1, FateStops DEF LoadConfigSetting, argVars, configVars, Stop
    <3> QED BY <2>2, <3>1, <3>2, <3>3 DEF StackInv
  <2> QED BY <1>9, <2>1, <2>2 DEF LoadConfigSetting
<1>10. CASE InitFcgxRequest
  <2>1. CASE UNCHANGED fateVars /\ pc' = "accept"
      BY <1>10, <2>1, FateKept DEF InitFcgxRequest, argVars, configVars
  <2>2. CASE Stop("failure", "fcgi")
      BY <1>10, <2>2, FateStops DEF InitFcgxRequest, argVars, configVars, Stop
  <2> QED BY <1>10, <2>1, <2>2 DEF InitFcgxRequest
<1>11. CASE FCGX_Accept_r
  <2>1. CASE UNCHANGED fateVars /\ pc' = "request"
      BY <1>11, <2>1, FateKept DEF FCGX_Accept_r, argVars, configVars
  <2>2. CASE Stop("success", fault)
      BY <1>11, <2>2, FateStops DEF FCGX_Accept_r, argVars, configVars, Stop, FateInv
  <2> QED BY <1>11, <2>1, <2>2 DEF FCGX_Accept_r
<1>12. CASE ProcessFcgxRequest
    BY <1>12, FateKept DEF ProcessFcgxRequest, argVars, configVars
<1>13. CASE Crash
  <2>1. TooMany \/ (device = None /\ fname = <<>>)
      BY <1>13 DEF Crash, PathInv
  <2> QED BY <1>13, <2>1, FateStops DEF Crash, argVars, configVars, Stop
<1>14. CASE UNCHANGED vars
    BY <1>14 DEF vars, argVars, configVars, fateVars, FateInv, TooMany, Asked
<1> QED BY <1>1, <1>2, <1>3, <1>4, <1>5, <1>6, <1>7, <1>8, <1>9, <1>10, <1>11, <1>12,
           <1>13, <1>14 DEF Next

\* How a start ends, for any number of options, any room for paths and any file.
THEOREM StartsEndAsSaid == Spec => []StartFate
<1> DEFINE Inv == TypeOK /\ ConfigInv /\ PathInv /\ FateInv
<1>1. Init => Inv
    BY TypeInit, ConfigInit, PathInit, FateInit
<1>2. Inv /\ [Next]_vars => Inv'
    BY TypeStep, ConfigStep, PathStep, FateStep
<1>3. Inv => StartFate
    BY SettingsAre DEF FateInv, StartFate, TooMany, Serving
<1> QED BY <1>1, <1>2, <1>3, PTL DEF Spec
-----------------------------------------------------------------------------
(* Where modules are looked for.                                           *)

\* The texts of a list stem from options -i, in their order: from says which,
\* and each is a copy of the argument, with or without bytes after it, or is
\* made of such a copy by AppendLuaDbPath.
InOrder(from, n) == \A k \in 1..n : \A l \in 1..(k - 1) : from[l] < from[k]

Copied(from, asked, options, list) ==
    /\ from \in [1..Len(list) -> asked]
    /\ InOrder(from, Len(list))
    /\ \A k \in 1..Len(list) :
          \E end \in {<<>>, Junk} : list[k] = options[from[k]][2] \o end

Below(from, n, asked, options, list) ==
    /\ from \in [1..n -> asked]
    /\ InOrder(from, n)
    /\ \A k \in 1..n : \E end \in {<<>>, Junk} :
          list[k] \in AppendLuaDbPath(options[from[k]][2] \o end)

CopyInv == (~overrun => \E from : Copied(from, Asked, argv, paths)) /\ SearchOrder

LEMMA CopyInit == Init => CopyInv
<1> SUFFICES ASSUME Init PROVE CopyInv
    OBVIOUS
<1>1. paths = <<>> /\ pc = "options"
    BY DEF Init
<1>2. <<>> \in [1..Len(paths) -> Asked] /\ Len(paths) = 0
    BY <1>1
<1>3. Copied(<<>>, Asked, argv, paths)
    BY <1>2 DEF Copied, InOrder
<1> QED BY <1>1, <1>3 DEF CopyInv, SearchOrder

\* Options already read are still asked for when the next one is.
LEMMA CopiesStay ==
    ASSUME TypeOK, TypeOK', NEW from, Copied(from, Asked, argv, paths),
           UNCHANGED <<argv, paths>>, optind' \in {optind, optind + 1}
    PROVE  Copied(from, Asked', argv', paths')
<1>1. Asked \subseteq Asked'
    BY DEF Asked, TypeOK
<1> QED BY <1>1 DEF Copied, InOrder

\* A copy comes from the option just read, which is behind all before it.
LEMMA CopyAdded ==
    ASSUME TypeOK, TypeOK', NEW from, Copied(from, Asked, argv, paths), Given("i"), argv' = argv,
           NEW end \in {<<>>, Junk}, paths' = Append(paths, optarg \o end)
    PROVE  \E g : Copied(g, Asked', argv', paths')
<1> DEFINE n == Len(paths)
           g == [k \in 1..(n + 1) |-> IF k = n + 1 THEN optind ELSE from[k]]
<1>1. optarg \o end \in Text /\ paths \in Seq(Text) /\ n \in Nat
    BY GivenArg, TextConcat, PiecesAreText DEF TypeOK
<1>2. /\ Len(paths') = n + 1 /\ paths'[n + 1] = optarg \o end
      /\ \A k \in 1..n : paths'[k] = paths[k]
    BY <1>1
<1>a. optind \in Nat \ {0} /\ optind' = optind + 1 /\ argv[optind][1] = "i" /\ argv' = argv
    BY DEF Given, TypeOK
<1>b. optind \in Asked'
  <2>1. optind \in 1..(optind' - 1)
      BY <1>a
  <2>2. argv'[optind][1] = "i"
      BY <1>a
  <2> QED BY <2>1, <2>2 DEF Asked
<1>c. Asked \subseteq Asked'
  <2>1. 1..(optind - 1) \subseteq 1..(optind' - 1)
      BY <1>a
  <2> QED BY <1>a, <2>1 DEF Asked
<1>d. \A i \in Asked : i < optind
    BY <1>a DEF Asked
<1>3. optind \in Asked' /\ Asked \subseteq Asked' /\ \A i \in Asked : i < optind
    BY <1>b, <1>c, <1>d
<1>4. g \in [1..(n + 1) -> Asked']
    BY <1>1, <1>3 DEF Copied
<1>5. InOrder(g, n + 1)
  <2> SUFFICES ASSUME NEW k \in 1..(n + 1), NEW l \in 1..(k - 1) PROVE g[l] < g[k]
      BY DEF InOrder
  <2>1. l \in 1..n /\ g[l] = from[l] /\ from[l] \in Asked /\ from[l] < optind
      BY <1>1, <1>3 DEF Copied
  <2>2. CASE k = n + 1
      BY <1>1, <2>1, <2>2
  <2>3. CASE k # n + 1
    <3>1. k \in 1..n /\ g[k] = from[k]
        BY <1>1, <2>3
    <3>2. from[l] < from[k]
        BY <3>1 DEF Copied, InOrder
    <3> QED BY <2>1, <3>1, <3>2
  <2> QED BY <2>2, <2>3
<1>6. \A k \in 1..(n + 1) : \E e \in {<<>>, Junk} : paths'[k] = argv[g[k]][2] \o e
  <2> SUFFICES ASSUME NEW k \in 1..(n + 1)
               PROVE  \E e \in {<<>>, Junk} : paths'[k] = argv[g[k]][2] \o e
      OBVIOUS
  <2>1. CASE k = n + 1
      BY <1>1, <1>2, <2>1 DEF optarg
  <2>2. CASE k # n + 1
    <3>1. k \in 1..n /\ g[k] = from[k] /\ paths'[k] = paths[k]
        BY <1>1, <1>2, <2>2
    <3> QED BY <3>1 DEF Copied
  <2> QED BY <2>1, <2>2
<1> HIDE DEF g
<1>7. Copied(g, Asked', argv', paths')
  <2>1. Len(paths') = n + 1 /\ argv' = argv
      BY <1>2
  <2> QED BY <1>4, <1>5, <1>6, <2>1 DEF Copied
<1> QED BY <1>7

\* The search path is the copied paths and, behind them, what is added.
LEMMA BelowCopies ==
    ASSUME NEW from, NEW asked, NEW options, NEW list, Copied(from, asked, options, list),
           NEW found, \A k \in 1..Len(list) : found[k] \in AppendLuaDbPath(list[k])
    PROVE  Below(from, Len(list), asked, options, found)
<1>1. ASSUME NEW k \in 1..Len(list)
      PROVE  \E end \in {<<>>, Junk} : found[k] \in AppendLuaDbPath(options[from[k]][2] \o end)
    BY DEF Copied
<1> QED BY <1>1 DEF Copied, Below

\* What an action keeps that neither starts the user's code nor copies a path.
LEMMA CopyKept ==
    ASSUME TypeOK, TypeOK', CopyInv, UNCHANGED <<argv, paths, overrun>>,
           optind' \in {optind, optind + 1}, pc' \notin {"repl", "script", "request"}
    PROVE  CopyInv'
<1>1. ASSUME ~overrun PROVE \E from : Copied(from, Asked, argv, paths)'
  <2>1. PICK from : Copied(from, Asked, argv, paths)
      BY <1>1 DEF CopyInv
  <2> QED BY <2>1, CopiesStay
<1> QED BY <1>1 DEF CopyInv, SearchOrder

\* The user's code is started with the copied paths and a directory of its own.
LEMMA OwnDirectory ==
    ASSUME TypeOK, TypeOK', NEW from, Copied(from, Asked, argv, paths), ~overrun,
           UNCHANGED <<argv, optind, paths>>,
           NEW dir \in Text, search' \in Searches(Append(paths, dir))
    PROVE  /\ Len(search') = Len(paths) + 1 /\ Len(paths) \in Nat
           /\ Below(from, Len(paths), Asked', argv', search')
           /\ search'[Len(paths) + 1] \in AppendLuaDbPath(dir)
<1> DEFINE dirs == Append(paths, dir)
<1>1. /\ Len(paths) \in Nat /\ Len(dirs) = Len(paths) + 1 /\ dirs[Len(paths) + 1] = dir
      /\ \A k \in 1..Len(paths) : dirs[k] = paths[k]
    BY DEF TypeOK
<1> HIDE DEF dirs
<1>2. /\ search' \in [1..Len(dirs) -> UNION {AppendLuaDbPath(dirs[i]) : i \in 1..Len(dirs)}]
      /\ \A k \in 1..Len(dirs) : search'[k] \in AppendLuaDbPath(dirs[k])
    BY DEF Searches, dirs
<1>3. Len(search') = Len(dirs)
    BY <1>1, <1>2 DEF TypeOK
<1>4. \A k \in 1..Len(paths) : search'[k] \in AppendLuaDbPath(paths[k])
    BY <1>1, <1>2
<1>5. Asked' = Asked
    BY DEF Asked
<1> QED BY <1>1, <1>2, <1>3, <1>4, <1>5, BelowCopies

LEMMA CopyStep ==
    TypeOK /\ TypeOK' /\ ConfigInv /\ CopyInv /\ [Next]_vars => CopyInv'
<1> SUFFICES ASSUME TypeOK, TypeOK', ConfigInv, CopyInv, [Next]_vars PROVE CopyInv'
    OBVIOUS
<1>1. CASE OptionPath
  <2>1. /\ Given("i") /\ argv' = argv /\ optind' = optind + 1 /\ pc' = pc /\ pc = "options"
        /\ ~overrun' => ~overrun
        /\ paths' = paths \/ \E end \in {<<>>, Junk} : paths' = Append(paths, optarg \o end)
      BY <1>1 DEF OptionPath, Given
  <2>2. ASSUME ~overrun PROVE \E g : Copied(g, Asked', argv', paths')
    <3>1. PICK from : Copied(from, Asked, argv, paths)
        BY <2>2 DEF CopyInv
    <3>2. CASE paths' = paths
        BY <2>1, <3>1, <3>2, CopiesStay
    <3>3. CASE \E end \in {<<>>, Junk} : paths' = Append(paths, optarg \o end)
        BY <2>1, <3>1, <3>3, CopyAdded
    <3> QED BY <2>1, <3>2, <3>3
  <2> QED BY <2>1, <2>2 DEF CopyInv, SearchOrder
<1>2. CASE OptionHelp \/ OptionInvalid \/ OptionNoFork \/ OptionDevice
  <2>1. /\ optind' = optind + 1 /\ UNCHANGED <<argv, paths, overrun>>
        /\ pc' \in {"options", "stopped"}
      BY <1>2 DEF OptionHelp, OptionInvalid, OptionNoFork, OptionDevice, Given, Stop, pathVars
  <2> QED BY <2>1, CopyKept
<1>3. CASE StartLuaRepl
  <2>1. UNCHANGED <<argv, optind, paths, overrun>> /\ pc' \in {"repl", "stopped"}
      BY <1>3 DEF StartLuaRepl, Stop, argVars, pathVars
  <2>2. CASE pc' = "repl" /\ search' \in Searches(paths) /\ ~overrun
    <3>1. PICK from : Copied(from, Asked, argv, paths)
        BY <2>2 DEF CopyInv
    <3>2. Len(search') = Len(paths) /\ \A k \in 1..Len(paths) : search'[k] \in AppendLuaDbPath(paths[k])
        BY <2>2 DEF Searches, TypeOK
    <3>3. Copied(from, Asked', argv', paths')
        BY <2>1, <3>1, CopiesStay
    <3>4. Below(from, Len(search'), Asked', argv', search')
        BY <2>1, <3>2, <3>3, BelowCopies
    <3>5. Len(search') - 0 = Len(search')
        BY DEF TypeOK
    <3> QED BY <2>2, <3>3, <3>4, <3>5 DEF CopyInv, SearchOrder, Below, InOrder
  <2>3. CASE pc' = "stopped"
      BY <2>1, <2>3, CopyKept
  <2>4. CASE overrun
      BY <2>1, <2>4 DEF CopyInv, SearchOrder
  <2> QED BY <1>3, <2>1, <2>2, <2>3, <2>4 DEF StartLuaRepl, Stop
<1>4. ASSUME UNCHANGED <<argv, optind, paths>>, overrun' = FALSE, ~overrun,
             pc' \in {"script", "request"},
             NEW dir \in IF pc' = "script" THEN Dirname(fname') ELSE {Chosen("root")'},
             dir \in Text, search' \in Searches(Append(paths, dir))
      PROVE  CopyInv'
  <2>1. PICK from : Copied(from, Asked, argv, paths)
      BY <1>4 DEF CopyInv
  <2>2. Copied(from, Asked', argv', paths')
      BY <1>4, <2>1, CopiesStay
  <2> DEFINE n == Len(paths)
  <2>3. /\ Len(search') = n + 1 /\ n \in Nat
        /\ Below(from, n, Asked', argv', search')
        /\ search'[n + 1] \in AppendLuaDbPath(dir)
      BY <1>4, <2>1, OwnDirectory
  <2>4. Len(search') - 1 = n
      BY <2>3
  <2>5. SearchOrder'
      BY <1>4, <2>3, <2>4 DEF SearchOrder, Below, InOrder
  <2> QED BY <2>2, <2>5 DEF CopyInv
<1>5. CASE RunLuaScript
  <2>1. /\ UNCHANGED <<argv, optind, fname, paths>> /\ fname # None
        /\ overrun' \in BOOLEAN /\ (overrun => overrun') /\ pc' \in {"script", "stopped"}
      BY <1>5 DEF RunLuaScript, Stop, argVars, TypeOK
  <2>2. CASE pc' = "script" /\ ~overrun'
    <3>1. PICK dir \in Dirname(fname) : search' \in Searches(Append(paths, dir))
        BY <1>5, <2>2 DEF RunLuaScript, Stop
    <3>2. dir \in Text
        BY <2>1, <3>1, DirnameText, StartupAssumption DEF TypeOK
    <3> QED BY <1>4, <2>1, <2>2, <3>1, <3>2
  <2>3. CASE overrun'
      BY <2>3 DEF CopyInv, SearchOrder
  <2>4. CASE pc' = "stopped" /\ ~overrun'
      BY <2>1, <2>4, CopyKept DEF TypeOK
  <2> QED BY <2>1, <2>2, <2>3, <2>4
<1>6. CASE FCGX_Accept_r
  <2>1. /\ UNCHANGED <<argv, optind, paths, overrun, file, config>>
        /\ pc' \in {"request", "stopped"} /\ pc = "accept"
      BY <1>6 DEF FCGX_Accept_r, Stop, argVars, pathVars, configVars
  <2>2. CASE pc' = "request" /\ ~overrun
    <3>1. search' \in Searches(Append(paths, config["root"]))
        BY <1>6, <2>2 DEF FCGX_Accept_r, Stop
    <3>2. config["root"] = Chosen("root")' /\ config["root"] \in Text
      <4>1. LoadedTo(5)
          BY <2>1 DEF ConfigInv
      <4>2. config["root"] = Chosen("root")
          BY <4>1, SettingsAre DEF LoadedTo
      <4>3. Chosen("root") \in Text
          BY DefaultsAreText, SettingsAre, StartupAssumption DEF Chosen, TypeOK
      <4> QED BY <2>1, <4>2, <4>3 DEF Chosen
    <3>3. overrun' = FALSE
        BY <2>1, <2>2 DEF TypeOK
    <3> QED BY <1>4, <2>1, <2>2, <3>1, <3>2, <3>3
  <2>3. CASE overrun
      BY <2>1, <2>3 DEF CopyInv, SearchOrder
  <2>4. CASE pc' = "stopped"
      BY <2>1, <2>4, CopyKept
  <2> QED BY <2>1, <2>2, <2>3, <2>4
<1>7. CASE EndOfInput \/ ScriptEnds \/ StartFcgiWorker \/ Crash
  <2>1. UNCHANGED <<argv, optind, paths, overrun>> /\ pc' \in {"stopped", "config"}
      BY <1>7 DEF EndOfInput, ScriptEnds, StartFcgiWorker, Crash, Stop, argVars, pathVars
  <2> QED BY <2>1, CopyKept
<1>8. CASE ReadEnvironmentConfig \/ LoadConfigSetting \/ InitFcgxRequest \/ ProcessFcgxRequest
  <2>1. /\ UNCHANGED <<argv, optind, paths, overrun>>
        /\ pc' \in {"stopped", "load", "init", "accept"}
      BY <1>8 DEF ReadEnvironmentConfig, LoadConfigSetting, InitFcgxRequest, ProcessFcgxRequest,
                  Stop, argVars, pathVars
  <2> QED BY <2>1, CopyKept
<1>9. CASE UNCHANGED vars
  <2>1. UNCHANGED <<pc, argv, optind, fname, paths, overrun, file, search>>
      BY <1>9 DEF vars, argVars, pathVars, configVars
  <2>2. Asked' = Asked /\ Chosen("root")' = Chosen("root")
      BY <2>1 DEF Asked, Chosen
  <2> QED BY <2>1, <2>2 DEF CopyInv, SearchOrder
<1> QED BY <1>1, <1>2, <1>3, <1>5, <1>6, <1>7, <1>8, <1>9 DEF Next

\* The user's code finds modules below the -i paths, in their order, and then
\* below its own directory, for any number of paths and of options.
THEOREM PathsSearchedInOrder == Spec => []SearchOrder
<1> DEFINE Inv == TypeOK /\ ConfigInv /\ CopyInv
<1>1. Init => Inv
    BY TypeInit, ConfigInit, CopyInit
<1>2. Inv /\ [Next]_vars => Inv'
    BY TypeStep, ConfigStep, CopyStep
<1>3. Inv => SearchOrder
    BY DEF CopyInv
<1> QED BY <1>1, <1>2, <1>3, PTL DEF Spec
=============================================================================
