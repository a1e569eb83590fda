------------------------------- MODULE Driver -------------------------------
(***************************************************************************)
(* Commands of engc on one directory (compiler/driver, targets): how a     *)
(* command line becomes a job, and the files each job reads, writes and    *)
(* removes on its way.  Every command is a process of its own, so steps of *)
(* two of them interleave; outputs and temporary files are named after the *)
(* output path, some only after its stem.                                  *)
(*                                                                         *)
(* A token of a command line is a tuple: <<"--target">>, <<"js">>, or a    *)
(* path <<directory, stem, extension, ...>>.  What is in a source file is  *)
(* its name: a program, "empty", or one of the classes of bad ones below.  *)
(***************************************************************************)
EXTENDS Integers, Sequences, SequencesExt, FiniteSets

CONSTANTS Engcs,        \* the processes, each runs one command
          Scenarios,    \* [lines: what users type, disk: the files there are, tools: sets of tools]
          Boards,       \* the definitions in boards/: board |-> architecture
          Sources,      \* files a user may edit
          Edited,       \* what a user may save there
          MaxSourceEdits \* bound on the edits

VARIABLES disk,    \* path |-> content
          tools,   \* the programs installed
          engc,    \* process |-> what it is doing
          met,     \* process |-> the processes it ran together with
          device,  \* board |-> what was uploaded to it
          edits,
          lines    \* the command lines of this scenario

\* a command line is a sequence of tokens, a token a tuple of strings
ASSUME LinesAssumption == \A s \in Scenarios : \A a \in s.lines : a \in Seq(Seq(STRING)) \ {<<>>}

dvars == <<disk, tools, engc, met, device, edits, lines>>

LexicallyBad == {"lexbad"}
Bad == {"bad"}
NotGenerated == {"cgbad"}
Failing == {"fails"}

Content(format, text) == [format |-> format, text |-> text]
Missing == Content("missing", "")
At(path) == IF path \in DOMAIN disk THEN disk[path] ELSE Missing
Text(path) == IF At(path).format \in {"dir", "toml"} THEN "empty" ELSE At(path).text

\* fs::path::stem: the file name without its directory and last extension
Stem(path) == <<".">> \o SubSeq(path, IF Len(path) = 1 THEN 1 ELSE 2,
                                IF Len(path) > 2 THEN Len(path) - 1 ELSE Len(path))
WithEnding(path, ext) == IF Last(path) = ext THEN path ELSE Append(path, ext)

Main == <<".", "main">>
Firmware == <<".", "firmware", "elf">>
Toml == <<".", "ec", "toml">>
Script == <<"tmp", "eng_baremetal", "ld">>
Temporary == "tmp/engtest_"
None == <<>>

-----------------------------------------------------------------------------
(***************************************************************************)
(* Command lines.                                                          *)
(***************************************************************************)
Has(a, flag) == \E i \in 1..Len(a) : a[i] = flag
IsFlag(t) == t[1] \in {"--target", "--board", "--src", "--output", "--runtime", "--firmware",
                       "--port", "--baud", "--dynamic"}

\* getArgValue: the token after the first occurrence of the flag
ArgValueOr(a, flag, default) ==
    LET at == {i \in 1..Len(a) - 1 : a[i] = flag}
    IN  IF at = {} THEN default ELSE a[1 + CHOOSE i \in at : \A j \in at : i <= j]

\* the tokens at these positions
Kept(a, positions) ==
    LET upTo[i \in 0..Len(a)] == IF i = 0 THEN <<>>
                                 ELSE IF i \in positions THEN Append(upTo[i - 1], a[i]) ELSE upTo[i - 1]
    IN  upTo[Len(a)]

\* a flag takes the next token with it, --dynamic too, which has no value
Positional(a) ==
    LET flag[i \in 0..Len(a)] == i > 0 /\ IsFlag(a[i]) /\ ~flag[i - 1]
    IN  Kept(a, {i \in 1..Len(a) : ~flag[i] /\ ~flag[i - 1]})

NthOr(s, n, default) == IF Len(s) >= n THEN s[n] ELSE default

\* ecconfig: unquote() sees the blank after the equals sign first, so a value
\* written like `board = "x"` keeps its quotes
Value(line) == IF line.spaced /\ line.value # None THEN <<"quoted">> \o line.value ELSE line.value
Config == IF At(Toml).format = "toml"
          THEN [target |-> Value(At(Toml).target), board |-> Value(At(Toml).board)]
          ELSE [target |-> None, board |-> None]
DefaultConfigToml(target, board) ==
    [format |-> "toml", text |-> "", target |-> [spaced |-> TRUE, value |-> target],
     board |-> [spaced |-> TRUE, value |-> board]]

Handler(target) ==
    CASE target \in {<<"arduino">>, <<"avr">>} -> "avr"
      [] target = <<"esp32">> -> "esp32"
      [] target \in {<<"baremetal">>, <<"kernel">>} -> "baremetal"
      [] target \in {<<"web">>, <<"js">>, <<"javascript">>} -> "js"
      [] target \in {<<"python">>, <<"py">>} -> "py"
      [] target \in {<<"wasm">>, <<"webassembly">>} -> "wat"
      [] target \in {<<"vm">>, <<"bytecode">>} -> "ecvm"
      [] OTHER -> "stub"

Job(does, src, out, target, board) ==
    [does |-> does, src |-> src, out |-> out, target |-> target, board |-> board]

BuildEmbedded(a) ==
    LET asked == ArgValueOr(a, <<"--target">>, <<"x86">>)
        target == IF asked = <<"x86">> /\ Config.target # None THEN Config.target ELSE asked
        pos == Positional(a)
    IN  Job(Handler(target),
            ArgValueOr(a, <<"--src">>, NthOr(pos, 1, <<"src", "main", "ec">>)),
            ArgValueOr(a, <<"--output">>, NthOr(pos, 2, Firmware)),
            target, ArgValueOr(a, <<"--board">>, Config.board))

NewEmbedded(a) ==
    LET target == ArgValueOr(a, <<"--target">>, <<"esp32">>)
    IN  Job("new", a[1], a[1], target,
            ArgValueOr(a, <<"--board">>, CASE target = <<"arduino">> -> <<"arduino-uno">>
                                           [] target = <<"esp32">> -> <<"esp32-devkit">>
                                           [] OTHER -> <<"unknown">>))

Usage == Job("usage", None, None, None, None)

RunLine(a) ==
    LET pos == Kept(a, {i \in 2..Len(a) : a[i] # <<"--dynamic">>})
        flagged == Len(pos) > 1 /\ pos[1] = <<"--target">>
        i == IF flagged THEN 3 ELSE 1
    IN  IF pos = <<>> THEN Usage
        ELSE IF flagged /\ pos[2] \in {<<"arduino">>, <<"esp32">>}
        THEN Job("ino", pos[i], NthOr(pos, i + 1, <<".", "main", "ino">>), pos[2], None)
        ELSE IF ~flagged /\ ~Has(a, <<"--target">>)
        THEN Job("native", pos[i], NthOr(pos, i + 1, Main), None, None)
        ELSE BuildEmbedded(Tail(a))

\* EngCompiler::run; `build` runs what it built, as `run` does
Dispatch(a) ==
    LET cmd == a[1][1]  rest == Tail(a)
    IN  CASE cmd = "new" /\ rest # <<>> ->
                 IF Has(a, <<"--target">>) THEN NewEmbedded(rest) ELSE Job("new", a[2], a[2], None, None)
          [] cmd = "run" -> RunLine(a)
          [] cmd = "build" /\ Has(a, <<"--target">>) -> BuildEmbedded(rest)
          [] cmd = "build" /\ ~Has(a, <<"--target">>) /\ rest # <<>> ->
                 Job("native", a[2], NthOr(a, 3, Main), None, None)
          [] cmd = "flash" -> Job("flash", ArgValueOr(rest, <<"--firmware">>, Firmware), None, None,
                                  ArgValueOr(rest, <<"--board">>, Config.board))
          [] cmd = "monitor" -> Job("monitor", ArgValueOr(rest, <<"--baud">>, <<"115200">>), None, None,
                                    ArgValueOr(rest, <<"--port">>, Config.board))
          [] cmd = "test" -> Job("test", NthOr(rest, 1, <<".">>), None, None, None)
          [] cmd \in {"fmt", "lint", "doc"} /\ rest # <<>> -> Job(cmd, a[2], None, None, None)
          [] cmd \in {"doctor", "help", "version"} -> Job(cmd, None, None, None, None)
          [] OTHER -> Usage

-----------------------------------------------------------------------------
(***************************************************************************)
(* Steps of a command.                                                     *)
(***************************************************************************)
Idle == [at |-> "idle", job |-> Usage, text |-> "", ran |-> "", exit |-> 0,
         left |-> <<>>, failed |-> 0]
Is(p, at) == engc[p].at = at
Does(p) == engc[p].job.does
Src(p) == engc[p].job.src
Out(p) == engc[p].job.out
Bug_Beside(p, ext) == Append(Main, ext)
Beside(p, ext) == Append(Out(p), ext)

Goto(p, at) == engc' = [engc EXCEPT ![p].at = at]
\* cmdTest calls cmdRun for each file and goes on with its result
End(p, rc) == engc' = [engc EXCEPT ![p].exit = rc, ![p].at = IF engc[p].left # <<>> THEN "tested" ELSE "done"]
Write(path, content) ==
    disk' = [f \in DOMAIN disk \cup {path} |-> IF f = path THEN content ELSE disk[f]]
Delete(paths) == disk' = [q \in DOMAIN disk \ paths |-> disk[q]]
Keep == UNCHANGED <<disk, device>>
Env == UNCHANGED <<tools, met, edits, lines>>

First(does) ==
    CASE does \in {"native", "ino", "js", "py", "wat", "ecvm", "fmt", "lint"} -> "read"
      [] does = "stub" -> "stub"
      [] OTHER -> does

DriverInit ==
    /\ \E s \in Scenarios : lines = s.lines /\ disk = s.disk /\ tools \in s.tools
    /\ engc = [p \in Engcs |-> Idle]
    /\ met = [p \in Engcs |-> {}]
    /\ device = [b \in DOMAIN Boards |-> Missing]
    /\ edits = 0

Running(p) == engc[p].at \notin {"idle", "done"}

Start(p) ==
    /\ Is(p, "idle")
    /\ \E a \in lines :
          engc' = [engc EXCEPT ![p].job = Dispatch(a), ![p].at = First(Dispatch(a).does)]
    /\ met' = [q \in Engcs |-> IF q = p THEN {r \in Engcs : Running(r)}
                               ELSE IF Running(q) THEN met[q] \cup {p} ELSE met[q]]
    /\ Keep /\ UNCHANGED <<tools, edits, lines>>

\* readFile: a file that is missing and one that is empty are the same
Read(p) ==
    /\ Is(p, "read")
    /\ IF Text(Src(p)) \in {"", "empty"} THEN End(p, 1)
       ELSE engc' = [engc EXCEPT ![p].text = Text(Src(p)),
                                 ![p].at = IF Does(p) \in {"fmt", "lint"} THEN Does(p) ELSE "analyze"]
    /\ Keep /\ Env

\* every diagnostic, the lexer's too, before anything is written
Analyze(p) ==
    /\ Is(p, "analyze")
    /\ IF engc[p].text \in LexicallyBad \cup Bad THEN End(p, 1)
       ELSE Goto(p, IF Does(p) = "test" THEN "native" ELSE IF Does(p) = "baremetal" THEN "ir" ELSE Does(p))
    /\ Keep /\ Env

Fmt(p) == Is(p, "fmt") /\ End(p, 0) /\ Keep /\ Env
\* lint does not look at the lexer's diagnostics
Lint(p) == Is(p, "lint") /\ End(p, IF engc[p].text \in Bad THEN 1 ELSE 0) /\ Keep /\ Env

Emit(p, path, format) ==
    /\ Write(path, Content(format, engc[p].text))
    /\ End(p, 0)
    /\ UNCHANGED device /\ Env

Sketch(p) == Is(p, "ino") /\ Emit(p, Append(Stem(Out(p)), "ino"), "ino")

\* into a directory the output is named after the source
Target(p, ext) == IF At(Out(p)).format = "dir"
                  THEN <<Out(p)[1], Src(p)[2], ext>> ELSE WithEnding(Out(p), ext)
EmitJS(p) == Is(p, "js") /\ Emit(p, Target(p, "js"), "js")
EmitPython(p) == Is(p, "py") /\ Emit(p, Target(p, "py"), "py")
EmitWasm(p) == Is(p, "wat") /\ Emit(p, WithEnding(Out(p), "wat"), "wat")

\* the bytecode is run before the command says that it is done; its result is dropped
EmitBytecode(p) ==
    /\ Is(p, "ecvm")
    /\ Write(WithEnding(Out(p), "ecvm"), Content("ecvm", engc[p].text))
    /\ engc' = [engc EXCEPT ![p].at = "done", ![p].ran = engc[p].text]
    /\ UNCHANGED device /\ Env

\* boards: nothing is built, and that is reported as a success
Stub(p) ==
    /\ Does(p) \in {"avr", "esp32", "stub"} /\ Is(p, Does(p))
    /\ End(p, IF \/ Does(p) = "avr" /\ "avr-gcc" \notin tools
                 \/ Does(p) = "esp32" /\ "xtensa-esp32-elf-gcc" \notin tools THEN 1 ELSE 0)
    /\ Keep /\ Env

-----------------------------------------------------------------------------
(***************************************************************************)
(* LLVMIRGenerator::compile: through clang, zig, or llvm-as, llc and cc.   *)
(***************************************************************************)
Generate(p) ==
    /\ Is(p, "native")
    /\ IF engc[p].text \in NotGenerated THEN End(p, 1) /\ Keep
       ELSE Write(Beside(p, "ll"), Content("ll", engc[p].text)) /\ Goto(p, "shim") /\ UNCHANGED device
    /\ Env

WriteShim(p) ==
    /\ Is(p, "shim")
    /\ Write(Append(Beside(p, "ecshim"), "c"), Content("c", "shim"))
    /\ Goto(p, IF "clang" \notin tools /\ ("zig" \notin tools \/ {"llvm-as", "llc"} \subseteq tools)
               THEN "as" ELSE "compile")
    /\ UNCHANGED device /\ Env

\* what a tool makes of a file as it is now; it may fail, and does without one
Tool(p, from, to, format, onSuccess, onFailure) ==
    /\ \/ At(from).format # "missing" /\ Write(to, Content(format, Text(from))) /\ onSuccess
       \/ UNCHANGED disk /\ onFailure
    /\ UNCHANGED device /\ Env

CompileIR(p) == Is(p, "compile") /\ Tool(p, Beside(p, "ll"), Out(p), "exe", Goto(p, "tidy"), End(p, 1))

Assemble(p) ==
    /\ Is(p, "as")
    /\ IF {"llvm-as", "llc"} \subseteq tools /\ tools \cap {"cc", "gcc"} # {}
       THEN Tool(p, Beside(p, "ll"), Beside(p, "bc"), "bc", Goto(p, "llc"), Goto(p, "unmade"))
       ELSE End(p, 1) /\ Keep /\ Env
Lower(p) == Is(p, "llc") /\ Tool(p, Beside(p, "bc"), Beside(p, "o"), "o", Goto(p, "cc"), Goto(p, "unmade"))
Link(p) == Is(p, "cc") /\ Tool(p, Beside(p, "o"), Out(p), "exe", Goto(p, "made"), Goto(p, "unmade"))

CleanUp(p) ==
    /\ engc[p].at \in {"made", "unmade"}
    /\ Delete({Beside(p, "bc"), Beside(p, "o")})
    /\ IF Is(p, "made") THEN Goto(p, "tidy") ELSE End(p, 1)
    /\ UNCHANGED device /\ Env

Tidy(p) ==
    /\ Is(p, "tidy")
    /\ IF "EC_KEEP_IR" \in tools THEN UNCHANGED disk ELSE Delete({Beside(p, "ll")})
    /\ Goto(p, "program") /\ UNCHANGED device /\ Env

\* The shell is given the output's name in quotes: in the working directory, where
\* names are written without one, it is looked up in PATH.  `tools` has what PATH
\* leads to, and "." if the working directory is in it.
Reached(path) == (Len(path) > 1 /\ path[1] # ".") \/ "." \in tools
Found(path) == IF Reached(path) THEN At(path)
               ELSE IF \E t \in tools : path \in {<<t>>, <<".", t>>} THEN Content("exe", "another") ELSE Missing

\* std::system returns a wait status: exit code 1 is 256, no such program 127 * 256
WaitStatus(program) == IF program.format # "exe" THEN 127 * 256
                       ELSE IF program.text \in Failing THEN 256 ELSE 0

RunProgram(p) ==
    /\ Is(p, "program")
    /\ engc' = [engc EXCEPT ![p].ran = IF Found(Out(p)).format = "exe" THEN Found(Out(p)).text ELSE "",
                            ![p].exit = WaitStatus(Found(Out(p))),
                            ![p].at = IF engc[p].left # <<>> THEN "tested" ELSE "done"]
    /\ Keep /\ Env

-----------------------------------------------------------------------------
(* cmdTest: every .ec file of the directory, one after the other.          *)
FilesIn(dir) == {f \in DOMAIN disk : f[1] = dir[1] /\ Len(f) = 3 /\ Last(f) = "ec"}

FindTests(p) ==
    /\ Is(p, "test")
    /\ IF FilesIn(Src(p)) = {} THEN End(p, IF At(Src(p)).format = "dir" THEN 0 ELSE 1)
       ELSE engc' = [engc EXCEPT ![p].left = SetToSeq(FilesIn(Src(p))), ![p].at = "next"]
    /\ Keep /\ Env

NextTest(p) ==
    /\ Is(p, "next")
    /\ engc' = [engc EXCEPT ![p].at = "read", ![p].job.src = Head(engc[p].left),
                            ![p].job.out = <<Temporary, Head(engc[p].left)[2]>>]
    /\ Keep /\ Env

Tested(p) ==
    /\ Is(p, "tested")
    /\ LET failed == engc[p].failed + (IF engc[p].exit = 0 THEN 0 ELSE 1)
           left == Tail(engc[p].left)
       IN  engc' = [engc EXCEPT ![p].left = left, ![p].failed = failed,
                                ![p].at = IF left = <<>> THEN "done" ELSE "next",
                                ![p].exit = IF left = <<>> /\ failed > 0 THEN 1 ELSE 0]
    /\ Delete({Out(p)}) /\ UNCHANGED device /\ Env

-----------------------------------------------------------------------------
(***************************************************************************)
(* Bare metal: the IR and the object are named after the stem, in the      *)
(* working directory; the linker script is one file for every build.       *)
(***************************************************************************)
Intermediate(p, ext) == Append(Stem(Out(p)), ext)

FindClang(p) ==
    /\ Is(p, "baremetal")
    /\ IF tools \cap {"clang++", "clang-21", "clang-20"} = {} THEN End(p, 1) ELSE Goto(p, "read")
    /\ Keep /\ Env

WriteIR(p) ==
    /\ Is(p, "ir")
    /\ IF engc[p].text \in NotGenerated THEN End(p, 1) /\ Keep
       ELSE /\ Write(Intermediate(p, "ll"), Content("ll", engc[p].text))
            /\ Goto(p, "assemble") /\ UNCHANGED device
    /\ Env

AssembleIR(p) ==
    Is(p, "assemble") /\ Tool(p, Intermediate(p, "ll"), Intermediate(p, "o"), "o", Goto(p, "script"), End(p, 1))

\* opening truncates the script, closing writes it
OpenScript(p) == Is(p, "script") /\ Write(Script, Content("ld", "")) /\ Goto(p, "layout") /\ UNCHANGED device /\ Env
WriteScript(p) == Is(p, "layout") /\ Write(Script, Content("ld", "sections")) /\ Goto(p, "elf") /\ UNCHANGED device /\ Env

LinkElf(p) ==
    /\ Is(p, "elf")
    /\ Tool(p, Intermediate(p, "o"), Out(p), IF Text(Script) = "sections" THEN "elf" ELSE "flat",
            Goto(p, "extract"), End(p, 1))

\* findObjcopy names a tool even when there is none
ExtractBinary(p) ==
    /\ Is(p, "extract")
    /\ IF "objcopy" \in tools THEN Write(Beside(p, "bin"), Content("bin", Text(Out(p)))) ELSE UNCHANGED disk
    /\ End(p, 0) /\ UNCHANGED device /\ Env

-----------------------------------------------------------------------------
(* Boards, projects, and commands that only report.                        *)
Backends == {"avr", "xtensa", "x86"}
Uploader(arch) == CASE arch = "avr" -> "avrdude" [] arch = "xtensa" -> "esptool.py" [] OTHER -> "none"

Flash(p) ==
    /\ Is(p, "flash")
    /\ LET board == engc[p].job.board
       IN  IF \/ board \notin DOMAIN Boards \/ Boards[board] \notin Backends
              \/ At(Src(p)).format = "missing" \/ Uploader(Boards[board]) \notin tools
           THEN End(p, 1) /\ UNCHANGED device
           ELSE \/ device' = [device EXCEPT ![board] = At(Src(p))] /\ End(p, 0)
                \/ UNCHANGED device /\ End(p, 1)
    /\ UNCHANGED disk /\ Env

\* without --port the board of ec.toml is taken for the port
Monitor(p) ==
    /\ Is(p, "monitor")
    /\ End(p, IF Src(p) \in {<<"115200">>, <<"9600">>} /\ engc[p].job.board # None THEN 0 ELSE 1)
    /\ Keep /\ Env

Report(p) ==
    /\ engc[p].at \in {"doctor", "help", "version", "doc", "usage"}
    /\ End(p, IF Is(p, "usage") \/ (Is(p, "doctor") /\ ~({"cmake", "clang"} \subseteq tools)) THEN 1 ELSE 0)
    /\ Keep /\ Env

Project(p) == [dir |-> Out(p), config |-> Out(p) \o <<"config">>, main |-> Out(p) \o <<"src", "main", "ec">>]

MakeDirectories(p) ==
    /\ Is(p, "new")
    /\ IF At(Project(p).dir).format # "missing" THEN End(p, 1) /\ Keep
       ELSE Write(Project(p).dir, Content("dir", "")) /\ Goto(p, "config") /\ UNCHANGED device
    /\ Env

WriteConfig(p) ==
    /\ Is(p, "config")
    /\ Write(Project(p).config, IF engc[p].job.target = None THEN Content("engc", "")
                                ELSE DefaultConfigToml(engc[p].job.target, engc[p].job.board))
    /\ Goto(p, "main") /\ UNCHANGED device /\ Env

Template(target) == CASE target = None -> "hello" [] target = <<"arduino">> -> "blink13" [] OTHER -> "blink2"
WriteMain(p) ==
    /\ Is(p, "main")
    /\ Write(Project(p).main, Content("ec", Template(engc[p].job.target)))
    /\ End(p, 0) /\ UNCHANGED device /\ Env

-----------------------------------------------------------------------------
EditSource ==
    /\ edits < MaxSourceEdits
    /\ \E f \in Sources, t \in Edited : t # Text(f) /\ Write(f, Content("ec", t))
    /\ edits' = edits + 1
    /\ UNCHANGED <<tools, engc, met, device, lines>>

Native(p) == \/ Generate(p) \/ WriteShim(p) \/ CompileIR(p) \/ Assemble(p) \/ Lower(p) \/ Link(p)
             \/ CleanUp(p) \/ Tidy(p) \/ RunProgram(p)
Test(p) == FindTests(p) \/ NextTest(p) \/ Tested(p)
BareMetal(p) == \/ FindClang(p) \/ WriteIR(p) \/ AssembleIR(p) \/ OpenScript(p) \/ WriteScript(p)
                \/ LinkElf(p) \/ ExtractBinary(p)
New(p) == MakeDirectories(p) \/ WriteConfig(p) \/ WriteMain(p)
Translate(p) == Sketch(p) \/ EmitJS(p) \/ EmitPython(p) \/ EmitWasm(p) \/ EmitBytecode(p) \/ Stub(p)
Other(p) == Fmt(p) \/ Lint(p) \/ Flash(p) \/ Monitor(p) \/ Report(p)
Step(p) == \/ Read(p) \/ Analyze(p) \/ Native(p) \/ Test(p) \/ BareMetal(p)
           \/ New(p) \/ Translate(p) \/ Other(p)

\* the files a job may write; those of a test run are in its temporary directory
Files(job) ==
    LET does == job.does  out == job.out
    IN  CASE does = "native" -> {out, Append(Append(out, "ecshim"), "c")}
                                  \cup {Append(out, ext) : ext \in {"ll", "bc", "o"}}
          [] does = "test" -> {<<Temporary>>}
          [] does = "ino" -> {Append(Stem(out), "ino")}
          [] does \in {"js", "py"} -> {WithEnding(out, does), <<out[1], job.src[2], does>>}
          [] does \in {"wat", "ecvm"} -> {WithEnding(out, does)}
          [] does = "baremetal" -> {out, Append(out, "bin"), Script}
                                     \cup {Append(Stem(out), ext) : ext \in {"ll", "o"}}
          [] does = "new" -> {out, out \o <<"config">>, out \o <<"src", "main", "ec">>}
          [] OTHER -> {}
PlaceOf(path) == IF path[1] = Temporary THEN <<Temporary>> ELSE path
Written(p) == {PlaceOf(f) : f \in Files(engc[p].job)}

\* no other process it met writes its files, and no user saves a source over them
Apart(p, q) == Written(p) \cap Written(q) = {}
Alone(p) == (\A q \in met[p] : Apart(p, q)) /\ \A f \in Sources : PlaceOf(f) \notin Written(p)

\* what a process that reports no error leaves, of the text that it read
Made(p) ==
    LET own(path, format) == At(path) = Content(format, engc[p].text)
    IN  CASE Does(p) = "native" -> own(Out(p), "exe") /\ (Reached(Out(p)) => engc[p].ran = engc[p].text)
          [] Does(p) = "test" -> engc[p].failed = 0
          [] Does(p) = "ino" -> own(Append(Stem(Out(p)), "ino"), "ino")
          [] Does(p) \in {"js", "py"} -> own(Target(p, Does(p)), Does(p))
          [] Does(p) \in {"wat", "ecvm"} -> own(WithEnding(Out(p), Does(p)), Does(p))
          [] Does(p) = "baremetal" -> own(Out(p), "elf")
          [] Does(p) = "flash" -> device[engc[p].job.board].format # "missing"
          [] Does(p) = "new" -> At(Project(p).config).format # "missing"
          [] OTHER -> TRUE

(***************************************************************************)
(* A command that reports no error has made what it was asked for, of the  *)
(* text that it read, whatever other engc it ran together with, as long as *)
(* none writes a file of its own.  The native program it ran is that one   *)
(* if the shell reaches it (an output in the working directory it may not, *)
(* see ReportsExitCode), and each test passes for what its own program did.*)
(***************************************************************************)
MadeWhatItSays ==
    \A p \in Engcs :
        Running(p) /\ engc'[p].at \in {"done", "tested"} /\ engc'[p].exit = 0
           /\ Alone(p)
        => IF engc'[p].at = "tested" THEN engc'[p].ran = engc[p].text /\ engc[p].text \notin Failing
           ELSE Made(p)'

EndsTruthfully == [][MadeWhatItSays]_dvars

(***************************************************************************)
(* What the changelog says of `engc run`: it executes the program that it  *)
(* produced and reports its exit code.  The exit code of engc is what main *)
(* returns, modulo 256.                                                    *)
(***************************************************************************)
ReportsExitCode ==
    [][\A p \in Engcs :
           RunProgram(p) /\ Does(p) = "native" /\ met[p] = {} /\ edits = 0
           => /\ engc'[p].ran = engc[p].text
              /\ engc'[p].exit % 256 = IF engc[p].text \in Failing THEN 1 ELSE 0]_dvars

-----------------------------------------------------------------------------
DriverNext == EditSource \/ \E p \in Engcs : Start(p) \/ Step(p)
DriverSpec == DriverInit /\ [][DriverNext]_dvars
=============================================================================
