------------------------------- MODULE Startup -------------------------------
(***************************************************************************)
(* The luadb command, from its arguments to a script, the prompt, or a      *)
(* FastCGI worker that takes requests: option parsing (src/src/main.c), the *)
(* configuration file (config.c), the search path of each Lua state         *)
(* (state.c), joined paths (util.c) and the start of the worker (fcgi.c).   *)
(* A request is one step here; FcgiWorker has what happens inside it.       *)
(*                                                                         *)
(* Text is a sequence of pieces, "/" being one. Lines typed at the prompt   *)
(* and the printed messages are left out.                                   *)
(***************************************************************************)
EXTENDS Integers, Sequences, FiniteSets

CONSTANTS Piece,     \* what texts are made of
          Paths,     \* arguments of -i
          Devices,   \* arguments of -p
          Scripts,   \* file arguments
          Values,    \* what the configuration file may set a setting to
          None,      \* NULL, nil, or not yet set
          MaxPaths,  \* room for -i paths before the first realloc: 5
          MaxArgs    \* bound: options on the command line

PointerSize == 8
DefaultDevice == <<":8000">>
Junk == <<"junk">>         \* bytes up to the first NUL where none was written

Text == Seq(Piece)

ASSUME StartupAssumption ==
    /\ {"/", ".", "?.lua", "junk", ":8000", "www", "reqhandler.lua",
        "QUERY_STRING", "HTTP_"} \subseteq Piece
    /\ Paths \subseteq Text /\ Devices \subseteq Text
    /\ Scripts \subseteq Text /\ Values \subseteq Text
    /\ None \notin Text
    /\ MaxPaths \in Nat \ {0} /\ MaxArgs \in Nat

\* default_cfg: the settings in the order in which they are loaded.
Settings == <<"root", "router", "fcgi_query", "fcgi_header_prefix">>
Default == [root |-> <<"/", "www", "/">>, router |-> <<"reqhandler.lua">>,
            fcgi_query |-> <<"QUERY_STRING">>, fcgi_header_prefix |-> <<"HTTP_">>]
Names == {Settings[i] : i \in 1..Len(Settings)}

VARIABLES
    pc,         \* where the process is
    argv,       \* the options on the command line
    optind,     \* the next one getopt gives
    fname,      \* the file argument, or None
    device,     \* fcgi_dev; not None: is_fcgi
    shouldFork,
    paths,      \* the copied -i paths
    maxpaths,   \* how many the code takes room for
    room,       \* how many pointers the block has room for
    overrun,    \* something was written past a block
    file,       \* the table the configuration file returned
    top,        \* what is on top of the Lua stack of the configuration
    slot,       \* next of Settings
    config,
    search,     \* what the Lua state that runs the user's code has added to
                \* package.path
    exit,       \* exit status of the process
    launched,   \* exit status of the command the user typed
    fault       \* history: what failed

argVars == <<argv, optind, fname, device, shouldFork>>
pathVars == <<paths, maxpaths, room, overrun>>
configVars == <<file, top, slot, config>>
fateVars == <<exit, launched, fault>>
vars == <<pc, argVars, pathVars, configVars, search, fateVars>>

Option == ({"h", "f", "?"} \X {None}) \cup ({"p"} \X (Devices \cup {None}))
            \cup ({"i"} \X Paths)
Status == {"running", "success", "failure", "panic", "crash"}

TypeOK ==
    /\ pc \in {"options", "repl", "script", "config", "load", "init", "accept",
               "request", "stopped"}
    /\ argv \in Seq(Option) /\ optind \in 1..(Len(argv) + 1)
    /\ fname \in Scripts \cup {None}
    /\ device \in Devices \cup {DefaultDevice, None} /\ shouldFork \in BOOLEAN
    /\ paths \in Seq(Text) /\ maxpaths \in Nat /\ room \in Nat /\ overrun \in BOOLEAN
    /\ file \in [Names -> Values \cup {None}]
    /\ top \in {"table", "string", "nil", "other"}
    /\ slot \in 1..(Len(Settings) + 1) /\ config \in [Names -> Text \cup {None}]
    /\ search \in Seq(Text)
    /\ exit \in Status /\ launched \in Status
    /\ fault \in {"none", "option", "fork", "state", "config", "fcgi", "script"}

NoFile == [s \in Names |-> None]

Init ==
    /\ pc = "options"
    /\ (\E n \in 0..MaxArgs : argv \in [1..n -> Option]) /\ optind = 1
    /\ fname \in Scripts \cup {None} /\ device = None /\ shouldFork = TRUE
    /\ paths = <<>> /\ maxpaths = MaxPaths /\ room = MaxPaths /\ overrun = FALSE
    /\ file = NoFile /\ top = "nil" /\ slot = 1 /\ config = NoFile
    /\ search = <<>>
    /\ exit = "running" /\ launched = "running" /\ fault = "none"

\* The process ends. A forked worker's end is not that of the command.
Stop(status, why) ==
    /\ pc' = "stopped" /\ exit' = status /\ fault' = why
    /\ launched' = IF launched = "running" THEN status ELSE launched

-----------------------------------------------------------------------------
(* Text.                                                                   *)

\* Of an empty string the byte before it is looked at: either may come out.
EndsWithPathSeparator(x) == IF x = <<>> THEN BOOLEAN ELSE {x[Len(x)] = "/"}

Separated(x) == {x \o (IF h THEN <<>> ELSE <<"/">>) : h \in EndsWithPathSeparator(x)}

PathJoin(x, y) == {s \o y : s \in Separated(x)}

\* dirname(3), of paths that do not end with a separator: the one before the
\* last separator.
Dirname(p) ==
    LET cuts == {n \in 1..Len(p) : p[n] = "/"}
        last == {n \in cuts : \A m \in cuts : m <= n}
    IN IF cuts = {} THEN {<<".">>}
       ELSE {IF n = 1 THEN <<"/">> ELSE SubSeq(p, 1, n - 1) : n \in last}

\* The entries AppendLuaDbPath can make of a directory.
AppendLuaDbPath(dir) == {s \o <<"?.lua">> : s \in Separated(dir)}

\* Mutant: each directory is put before those that are there.
SearchesBefore(dirs) ==
    LET n == Len(dirs)
    IN IF overrun THEN {<<Junk>>}
       ELSE {s \in [1..n -> UNION {AppendLuaDbPath(dirs[i]) : i \in 1..n}] :
                \A i \in 1..n : s[i] \in AppendLuaDbPath(dirs[n + 1 - i])}

\* What adding directories to package.path one after the other can give. Once
\* a block was overrun the array of paths may hold anything.
Searches(dirs) ==
    IF overrun THEN {<<Junk>>}
    ELSE {s \in [1..Len(dirs) -> UNION {AppendLuaDbPath(dirs[i]) : i \in 1..Len(dirs)}] :
              \A i \in 1..Len(dirs) : s[i] \in AppendLuaDbPath(dirs[i])}

-----------------------------------------------------------------------------
(* ParseCommandLineArguments: the option loop.                             *)

\* getopt gives the option o.
Given(o) ==
    /\ pc = "options" /\ optind <= Len(argv) /\ argv[optind][1] = o
    /\ optind' = optind + 1

optarg == argv[optind][2]

OptionHelp ==
    /\ Given("h") /\ Stop("success", fault)
    /\ UNCHANGED <<argv, fname, device, shouldFork, pathVars, configVars, search>>

OptionInvalid ==
    /\ Given("?") /\ Stop("failure", "option")
    /\ UNCHANGED <<argv, fname, device, shouldFork, pathVars, configVars, search>>

OptionDevice ==
    /\ Given("p")
    /\ device' = IF optarg = None THEN DefaultDevice ELSE optarg
    /\ UNCHANGED <<pc, argv, fname, shouldFork, pathVars, configVars, search, fateVars>>

OptionNoFork ==
    /\ Given("f") /\ shouldFork' = FALSE
    /\ UNCHANGED <<pc, argv, fname, device, pathVars, configVars, search, fateVars>>

\* Mutant: npaths goes up whether or not there is a copy.
OptionPathNull ==
    /\ Given("i")
    /\ \/ \E end \in {<<>>, Junk} : paths' = Append(paths, optarg \o end)
       \/ paths' = Append(paths, None)
    /\ UNCHANGED <<pc, argv, fname, device, shouldFork, maxpaths, room, overrun,
                   configVars, search, fateVars>>

\* realloc is asked for twice the number of paths, in bytes; whether it gives
\* a block or not, the pointer to the copy is written. The copy has no NUL.
\* A copy for which there is no memory is left out.
OptionPath ==
    /\ Given("i")
    /\ \E moved \in IF Len(paths) >= maxpaths THEN BOOLEAN ELSE {FALSE} :
          /\ maxpaths' = IF moved THEN maxpaths * 2 ELSE maxpaths
          /\ room' = IF moved THEN (Len(paths) * 2) \div PointerSize ELSE room
          /\ overrun' = (overrun \/ Len(paths) >= room')
    /\ \/ \E end \in {<<>>, Junk} : paths' = Append(paths, optarg \o end)
       \/ UNCHANGED paths
    /\ UNCHANGED <<pc, argv, fname, device, shouldFork, configVars, search, fateVars>>

-----------------------------------------------------------------------------
(* Scripts and the prompt.                                                 *)

Parsed == pc = "options" /\ optind = Len(argv) + 1

\* Without a Lua state lua_close follows a null pointer.
StartLuaRepl ==
    /\ Parsed /\ device = None /\ fname = None
    /\ \/ pc' = "repl" /\ search' \in Searches(paths) /\ UNCHANGED fateVars
       \/ Stop("crash", "state") /\ UNCHANGED search
    /\ UNCHANGED <<argVars, pathVars, configVars>>

EndOfInput ==
    /\ pc = "repl" /\ Stop("success", fault)
    /\ UNCHANGED <<argVars, pathVars, configVars, search>>

\* The directory of the empty name is longer than the name, and the room for
\* the new package.path is reckoned from the name.
RunLuaScript ==
    /\ Parsed /\ device = None /\ fname # None
    /\ \/ /\ pc' = "script"
          /\ \E dir \in Dirname(fname) : search' \in Searches(Append(paths, dir))
          /\ overrun' = (overrun \/ fname = <<>>)
          /\ UNCHANGED fateVars
       \/ Stop("failure", "state") /\ UNCHANGED <<search, overrun>>
    /\ UNCHANGED <<argVars, paths, maxpaths, room, configVars>>

ScriptEnds ==
    /\ pc = "script"
    /\ \/ fname # <<>> /\ Stop("success", fault)
       \/ Stop("failure", "script")
    /\ UNCHANGED <<argVars, pathVars, configVars, search>>

-----------------------------------------------------------------------------
(* The worker. After the fork the model follows the child.                 *)

StartFcgiWorker ==
    /\ Parsed /\ device # None
    /\ \/ pc' = "config" /\ UNCHANGED <<exit, fault>>
          /\ launched' = IF shouldFork THEN "success" ELSE launched
       \/ shouldFork /\ Stop("failure", "fork")
    /\ UNCHANGED <<argVars, pathVars, configVars, search>>

\* LuaDB_ReadEnvironmentConfig. The file may return a table, a string, whose
\* fields are the functions of the string library, or something else; if it
\* returns nothing, what is indexed is the nil below.
ReadEnvironmentConfig ==
    /\ pc = "config"
    /\ \/ /\ pc' = "load" /\ slot' = 1
          /\ \/ top' = "table" /\ file' \in [Names -> Values \cup {None}]
             \/ top' \in {"string", "nil", "other"} /\ file' = NoFile
          /\ UNCHANGED <<config, fateVars>>
       \/ Stop("failure", "config") /\ UNCHANGED configVars
    /\ UNCHANGED <<argVars, pathVars, search>>

\* Mutant: the router as it is given.
FormattedNot(s, val) == {val}

\* def->fmt: the router is joined to the root read before it.
Formatted(s, val) == IF s = "router" THEN PathJoin(config["root"], val) ELSE {val}

\* Indexing anything but a table or a string raises outside of any protected
\* call. A value found is popped; a nil found stays where the table was.
LoadConfigSetting ==
    /\ pc = "load"
    /\ \/ /\ top \in {"table", "string"}
          /\ LET s == Settings[slot]
             IN /\ \E v \in Formatted(s, IF file[s] = None THEN Default[s] ELSE file[s]) :
                      config' = [config EXCEPT ![s] = v]
                /\ top' = IF file[s] = None THEN "nil" ELSE top
          /\ slot' = slot + 1
          /\ pc' = IF slot = Len(Settings) THEN "init" ELSE "load"
          /\ UNCHANGED <<file, fateVars>>
       \/ top \in {"nil", "other"} /\ Stop("panic", fault) /\ UNCHANGED configVars
    /\ UNCHANGED <<argVars, pathVars, search>>

\* Mutant: the failure is not seen.
InitFcgxRequestIgnored ==
    /\ pc = "init" /\ pc' = "accept" /\ fault' \in {fault, "fcgi"}
    /\ UNCHANGED <<argVars, pathVars, configVars, search, exit, launched>>

\* FCGX_Init, FCGX_OpenSocket and FCGX_InitRequest.
InitFcgxRequest ==
    /\ pc = "init"
    /\ \/ pc' = "accept" /\ UNCHANGED fateVars
       \/ Stop("failure", "fcgi")
    /\ UNCHANGED <<argVars, pathVars, configVars, search>>

\* LuaDB_FcgiStartWorkerWithPaths waits for a request, or stops when none can
\* be accepted any more.
FCGX_Accept_r ==
    /\ pc = "accept"
    /\ \/ pc' = "request" /\ search' \in Searches(Append(paths, config["root"]))
          /\ UNCHANGED fateVars
       \/ Stop("success", fault) /\ UNCHANGED search
    /\ UNCHANGED <<argVars, pathVars, configVars>>

\* ProcessFcgxRequest never returns LUADB_FCGX_FATAL: the worker goes on.
ProcessFcgxRequest ==
    /\ pc = "request" /\ pc' = "accept" /\ search' = <<>>
    /\ UNCHANGED <<argVars, pathVars, configVars, fateVars>>

\* After a write past a block the process may end at any time.
Crash ==
    /\ overrun /\ pc # "stopped" /\ Stop("crash", fault)
    /\ UNCHANGED <<argVars, pathVars, configVars, search>>

Next ==
    \/ OptionHelp \/ OptionInvalid \/ OptionDevice \/ OptionNoFork \/ OptionPath
    \/ StartLuaRepl \/ EndOfInput \/ RunLuaScript \/ ScriptEnds
    \/ StartFcgiWorker \/ ReadEnvironmentConfig \/ LoadConfigSetting
    \/ InitFcgxRequest \/ FCGX_Accept_r \/ ProcessFcgxRequest \/ Crash

Spec == Init /\ [][Next]_vars

-----------------------------------------------------------------------------
(* Properties.                                                             *)

Serving == pc \in {"accept", "request"}
Chosen(s) == IF file[s] = None THEN Default[s] ELSE file[s]

\* A worker takes requests only with every setting as the configuration file
\* has it, or its default, the router below the root that is in force
\* (config.c:125-175).
ConfigServed ==
    Serving =>
        /\ \A s \in Names \ {"router"} : config[s] = Chosen(s)
        /\ config["router"] \in PathJoin(Chosen("root"), Chosen("router"))

\* "No value found, use defaults" (config.c:159): a setting missing from the
\* file takes its default, so that no file with settings aborts the process.
\* The code breaks it: the nil that the missing setting leaves on the Lua
\* stack is indexed for the next one.
MissingTakesDefault == file # NoFile => exit # "panic"

Asked == {i \in 1..(optind - 1) : argv[i][1] = "i"}

\* Whatever runs the user's code looks for modules below the -i paths, in the
\* order of the command line, and then below the directory of the script, or
\* the web root for a request. A path may be missing, or have bytes after it
\* that nobody gave, but no directory comes from elsewhere (state.c:44-102).
SearchOrder ==
    pc \in {"repl", "script", "request"} /\ ~overrun =>
        LET own == IF pc = "repl" THEN 0 ELSE 1
            n == Len(search) - own
        IN /\ \E from \in [1..n -> Asked] :
                 /\ \A k \in 1..n : \A l \in 1..(k - 1) : from[l] < from[k]
                 /\ \A k \in 1..n : \E end \in {<<>>, Junk} :
                        search[k] \in AppendLuaDbPath(argv[from[k]][2] \o end)
           /\ own = 1 =>
                 \E dir \in IF pc = "script" THEN Dirname(fname) ELSE {Chosen("root")} :
                     search[n + 1] \in AppendLuaDbPath(dir)

\* How a start ends. It fails when something it depends on failed, and a worker
\* that takes requests has had no failure; the process is aborted only for a
\* setting that is missing before the last; it crashes only with more -i
\* paths than there was room for, an empty file name, or a prompt without a
\* Lua state; and the command succeeds when its process does or goes on forked
\* (main.c:76-235, fcgi.c:66-128).
StartFate ==
    /\ exit = "success" \/ Serving => fault = "none"
    /\ exit = "failure" => fault # "none"
    /\ exit = "panic" => \E i \in 1..(Len(Settings) - 1) : file[Settings[i]] = None
    /\ exit = "crash" =>
          \/ \E i \in Asked : Cardinality({j \in Asked : j < i}) >= MaxPaths
          \/ device = None /\ (fname = <<>> \/ (fname = None /\ fault = "state"))
    /\ launched = "success" => exit = "success" \/ (device # None /\ shouldFork)
=============================================================================
