------------------------------- MODULE MCHost -------------------------------
(***************************************************************************)
(* Programs on a user's machine: engc commands that run side by side in    *)
(* one directory (Driver), one of them merging a program out of its        *)
(* modules (ImportResolution), an application with widgets (Gui), the      *)
(* watcher that rebuilds and tests (Watch), the language server of engc    *)
(* (LanguageServer), the editor's extension and its server (Editor).  They *)
(* share no state; `subject` says which one runs.                          *)
(***************************************************************************)
EXTENDS Gui, LanguageServer, Editor, Driver, ImportResolution, TLC

VARIABLES subject,
          version, good, events, armed, phase, tried, binary, tested

T(word) == <<word>>
F(name, ext) == <<".", name, ext>>
Ec(t) == [format |-> "ec", text |-> t]
Directory == Content("dir", "")
EcToml(spaced) == [format |-> "toml", text |-> "", target |-> [spaced |-> spaced, value |-> T("js")],
                   board |-> [spaced |-> spaced, value |-> T("uno")]]

TwoSources == F("a", "ec") :> Ec("good1") @@ F("b", "ec") :> Ec("good2")

NativeRuns ==
    [ lines |-> { <<T("run"), F("a", "ec")>>,
                  <<T("build"), F("b", "ec"), <<".", "b">>>>,
                  <<T("test"), T("tests")>>,
                  <<T("run"), T("--dynamic"), F("b", "ec"), <<"out", "b">>>> },
      disk |-> TwoSources @@ <<"tests", "x", "ec">> :> Ec("fails") @@ <<"tests", "y", "ec">> :> Ec("good1"),
      tools |-> {{"clang"}, {"zig", "cc", "."}, {"llvm-as", "llc", "cc", "b"}, {"clang", "EC_KEEP_IR"}} ]

AllTools == {"clang", "cmake", "clang++", "objcopy", "avr-gcc", "avrdude"}
Targets ==
    [ lines |-> { <<T("build"), T("--target"), T("js"), F("a", "ec")>>,
                  <<T("build"), T("--target"), T("python"), F("b", "ec"), T("out")>>,
                  <<T("build"), T("--target"), T("wasm"), F("b", "ec"), F("b", "wat")>>,
                  <<T("run"), F("a", "ec"), T("--target"), T("vm"), T("--output"), F("a", "ecvm")>>,
                  <<T("run"), T("--target"), T("arduino"), F("a", "ec"), F("a", "ino")>>,
                  <<T("build"), T("--target"), T("x86"), F("a", "ec")>>,
                  <<T("build"), T("--dynamic"), F("a", "ec")>>,
                  <<T("lint"), F("a", "ec")>>, <<T("fmt"), F("a", "ec")>>,
                  <<T("flash"), T("--board"), T("uno"), T("--firmware"), F("a", "js")>> },
      disk |-> TwoSources @@ T("out") :> Directory @@ F("ec", "toml") :> EcToml(FALSE),
      tools |-> {AllTools} ]

Metal ==
    [ lines |-> { <<T("build"), T("--target"), T("baremetal"), F("a", "ec")>>,
                  <<T("build"), T("--target"), T("kernel"), F("b", "ec"), <<"out", "b", "elf">>>>,
                  <<T("build"), F("b", "ec"), F("firmware", "elf")>>,
                  <<T("build"), T("--target"), T("arduino"), F("b", "ec")>>,
                  <<T("flash")>>, <<T("monitor")>>, <<T("doctor")>>,
                  <<T("flash"), T("--board"), T("uno")>>, <<T("flash"), T("--board"), T("c3")>> },
      disk |-> TwoSources @@ F("ec", "toml") :> EcToml(TRUE),
      tools |-> {AllTools, {"clang-20", "esptool.py"}, {"clang", "xtensa-esp32-elf-gcc"}} ]

News ==
    [ lines |-> { <<T("new"), T("p")>>, <<T("new"), T("p"), T("--target"), T("arduino")>>,
                  <<T("new"), T("q"), T("--target"), T("esp32")>>, <<T("new")>>, <<T("help")>>,
                  <<T("version")>>, <<T("doc"), F("a", "ec")>> },
      disk |-> <<>>, tools |-> {{}} ]

MCEngcs == {"e1", "e2"}
MCScenarios == {NativeRuns, Targets, Metal, News}
MCBoards == T("uno") :> "avr" @@ T("devkit") :> "xtensa" @@ T("c3") :> "riscv"
MCSources == {F("a", "ec")}
MCEdited == {"bad", "lexbad", "cgbad", "empty", "fails"}

-----------------------------------------------------------------------------
(* One directory: main, a and b next to each other, all import lists of at  *)
(* most two statements.                                                     *)

MCModules == {"main", "a", "b"}
MCFiles == MCModules \cup {"none"}
MCDirs == {"dir", "std", "pkgs"}
MCDirOf == [f \in MCFiles |-> "dir"]
MCFileAt == [d \in MCDirs |-> [n \in MCModules |-> IF d = "dir" THEN n ELSE "none"]]
MCPackagesIn == [d \in MCDirs |-> "pkgs"]
MCFileSystems == {{"main"} \cup S : S \in SUBSET {"a", "b"}}
UpToTwo == {<<>>} \cup {<<m>> : m \in MCModules} \cup {<<m, n>> : m, n \in MCModules}
MCImportLists == {g @@ "none" :> <<>> : g \in [MCModules -> UpToTwo]}

-----------------------------------------------------------------------------
Effect(do, to) == [ok |-> [do |-> do, to |-> to]]
MCTrees ==
    { [children |-> [root |-> <<"panel", "name", "volume">>, panel |-> <<"ok", "pass">>],
       effect |-> Effect("toggle", "pass")],
      [children |-> [root |-> <<"ok", "name", "volume", "pass">>, panel |-> <<>>],
       effect |-> Effect("remove", "name")],
      [children |-> [root |-> <<"ok", "pass", "panel">>, panel |-> <<"name", "volume">>],
       effect |-> Effect("none", "")] }

MCRoot == "root"
MCKind == [root |-> "box", panel |-> "box", name |-> "text", pass |-> "text", volume |-> "slider",
           ok |-> "button"]

-----------------------------------------------------------------------------
Watcher == INSTANCE Watch WITH MaxEdits <- 3

-----------------------------------------------------------------------------
Requests == {"completion", "hover", "definition", "documentSymbol", "diagnostic", "signatureHelp"}
Syncs == {"didOpen", "didChange", "didSave", "didClose"}
MCMethods == {"initialize", "initialized", "shutdown", "exit"}
             \cup {"textDocument/" \o m : m \in Requests \cup Syncs}

-----------------------------------------------------------------------------
\* "broken" does not compile, "odd" neither but engc says nothing a server reads,
\* "endless" compiles and runs for ever
MCContent == [ broken |-> <<"f", "{", "quote", "backslash", "quote", "quote", "newline", "}">>,
               odd |-> <<"f", "{", "//", "quote", "newline", "f", "}", "}", "/*", "{", "*/",
                         "{", "quote", "newline">>,
               endless |-> <<"f", "{", "}">> ]
MCBegins(word, name) == word = name

MCTexts == DOMAIN MCContent
MCCode == [broken |-> "fails", odd |-> "fails", endless |-> "never"]
MCStderr == [broken |-> <<"error", "other">>, odd |-> <<"other">>, endless |-> <<>>]

-----------------------------------------------------------------------------
watchVars == <<version, good, events, armed, phase, tried, binary, tested>>

\* Those that do not run are at rest.
NoCommands == /\ disk = "" /\ tools = "" /\ engc = [p \in Engcs |-> Idle] /\ met = ""
              /\ device = "" /\ edits = "" /\ lines = ""
NoWatcher == /\ version = "" /\ good = "" /\ events = "" /\ armed = "" /\ phase = "" /\ tried = ""
             /\ binary = "" /\ tested = ""
NoWindow == GuiInit /\ effect = Effect("none", "")
NoServer == /\ sent = <<Message(1, "initialize", "u", 3, "params")>> /\ unread = <<>> /\ reading = "header"
            /\ openDocuments = <<>> /\ replies = <<>>
NoImports == /\ exists = {} /\ readable = {} /\ imports = <<>> /\ stack = <<>> /\ visited = {}
             /\ errors = {} /\ bringer = <<>> /\ done = FALSE
NoExtension == Init /\ open = {} /\ text = [d \in Documents |-> "odd"] /\ installed

HostInit ==
    \/ subject = "commands" /\ DriverInit
       /\ NoWindow /\ NoWatcher /\ NoServer /\ NoExtension /\ NoImports
    \/ subject = "window" /\ GuiInit
       /\ NoCommands /\ NoWatcher /\ NoServer /\ NoExtension /\ NoImports
    \/ subject = "watch" /\ Watcher!WatchInit
       /\ NoCommands /\ NoWindow /\ NoServer /\ NoExtension /\ NoImports
    \/ subject = "server" /\ ServerInit
       /\ NoCommands /\ NoWindow /\ NoWatcher /\ NoExtension /\ NoImports
    \/ subject = "editor" /\ Init /\ open = {"a"} /\ text["b"] = "broken"
       /\ NoCommands /\ NoWindow /\ NoWatcher /\ NoServer /\ NoImports
    \/ subject = "imports" /\ ImportInit
       /\ NoCommands /\ NoWindow /\ NoWatcher /\ NoServer /\ NoExtension

HostNext ==
    \/ subject = "commands" /\ DriverNext
       /\ UNCHANGED <<guiVars, watchVars, serverVars, editorVars, importVars>>
    \/ subject = "window" /\ GuiNext
       /\ UNCHANGED <<dvars, watchVars, serverVars, editorVars, importVars>>
    \/ subject = "watch" /\ Watcher!WatchNext
       /\ UNCHANGED <<dvars, guiVars, serverVars, editorVars, importVars>>
    \/ subject = "server" /\ ServerNext
       /\ UNCHANGED <<dvars, guiVars, watchVars, editorVars, importVars>>
    \/ subject = "editor" /\ Next
       /\ UNCHANGED <<dvars, guiVars, watchVars, serverVars, importVars>>
    \/ subject = "imports" /\ ImportNext
       /\ UNCHANGED <<dvars, guiVars, watchVars, serverVars, editorVars>>

hostVars == <<subject, dvars, guiVars, watchVars, serverVars, editorVars, importVars>>

\* The event loop of the watcher serves its events and timers, and its processes end;
\* nobody has to edit.
WatcherRuns == WF_hostVars(/\ subject = "watch" /\ UNCHANGED subject
                           /\ Watcher!Notice \/ Watcher!Build \/ Watcher!Compile \/ Watcher!RunSmoke
                           /\ UNCHANGED <<dvars, guiVars, serverVars, editorVars, importVars>>)

\* One thread does nothing else until the recursion is over.
ImportsRun == WF_hostVars(/\ subject = "imports" /\ UNCHANGED subject
                          /\ ImportNext
                          /\ UNCHANGED <<dvars, guiVars, watchVars, serverVars, editorVars>>)

HostSpec == HostInit /\ [][HostNext /\ UNCHANGED subject]_hostVars /\ WatcherRuns /\ ImportsRun

\* The watcher comes to rest, and on the sources as they were saved last (Watch).
UpToDate == /\ [](subject = "watch" /\ Watcher!AtRest => Watcher!UpToDate)
            /\ <>[](subject = "watch" => Watcher!AtRest)

\* Whatever the imports, cycles included, the recursion comes to an end (ImportResolution).
ImportsEnd == <>(subject = "imports" => done)
=============================================================================
