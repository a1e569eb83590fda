# EnginotechC++: a TLA+ model

EnginotechC++ (`engc`) compiles the language EC to LLVM IR, JavaScript, Python,
WebAssembly, a bytecode and Arduino sketches; around the compiler stand a package
manager, a GUI toolkit, a language server and a standard library for
microcontrollers.  This directory holds a TLA+ model of the parts of it whose
behaviour is hard to test: TLC checks them on small instances, and TLAPS proves
what matters most for all of them.

    tlc -config PackageCrash.cfg MCPackageManager   # one of the runs listed below
    tlapm PackageManagerProofs.tla                  # one of the proof modules

## 1. Inventory

What the system consists of, the state each part keeps, what operates on it, how it
interacts with the others, what is hard about it and what makes it correct.

| part | state | operations | hard | correct when |
|---|---|---|---|---|
| package manager (`packages/manager`) | `.ec_packages/manifest.json`, files below `.ec_packages/<name>/`; shared by all `engc` processes in a project | `init`, `add` (recursive over dependencies), `remove`, `list` | kills between disk accesses, errors of one copy of several, processes that interleave, a manifest that is emptied before it is written | what the manifest lists is there, dependencies included |
| package registry (`packages/registry`) | a constant table | `findPackage`, `getDependencies`, searches | dependencies it does not know | it has no dependency cycle |
| driver: import resolution (`compiler/driver/main.cpp`) | the visited set, the recursion, the program merged so far | `resolveImportsRec` | cycles, diamonds, missing and unreadable files, order of splicing | every reachable module once, or a diagnostic |
| driver: commands and pipelines (`main.cpp`, `embedded.cpp`, `targets`) | intermediate and output files of the working directory, `ec.toml` | `run`, `build`, `lint`, `test`, `new`, embedded builds, `flash`, `monitor`, `doctor` | tools that fail half way, processes that share names | a command that reports no error has made what it was asked for |
| lexer | position, line, diagnostics | `tokenize` | unterminated comments and strings, the end of the text | every character is a token's, passed over for a reason, or diagnosed |
| parser | position in the tokens | one function per construct, `synchronize` | error recovery: progress at every nesting | it ends, silent only on what is well formed |
| semantic analysis, type checker | flat symbol tables | one visit per node | names declared again, what is left unchecked | what it accepts is emitted with operands of the right types |
| LLVM IR generator (`compiler/codegen/irgen.cpp`) | text written so far, loop stack, `hasReturn_`, slots, tables of functions and texts | one `emit` per statement and expression, passes over the top level | nested control flow, conversions, passes that must agree, buffers of the runtime prelude | valid IR that behaves as the source |
| bytecode emitter and machine | code, patched jumps; program counter, stack, memory | `emit*`, `execute` | jump targets, stack effects | it behaves as the source |
| JavaScript, Python emitters, Arduino sketches | text, nesting | `emit*` | what the target language nests otherwise | it nests, and behaves, as the source |
| embedded std: timer | a vector of timers, `nextId` | `every`, `once`, `stop`, `tick`, `clearAll` | callbacks that change the vector `tick` iterates over | one-shots once, periodic ones again and again, stopped ones never |
| GUI (`gui`) | tree of widgets, focus, text and cursor, drags | dispatch of events, `add`, `remove` | callbacks that change the tree, keys that fall through | cursor in the text, drags that end with the button |
| language server (`langserver`) | the input stream, documents | `run`, `handleRequest` | framing | every message is answered, in order |
| editor extension (`tools/vscode-ec`) | documents, servers, compiles under way, diagnostics shown | listeners, requests, restarts | processes that end in any order, restarts | what is shown is the verdict on the text sent last |
| watcher (`tools/ec-watch.js`) | a timer | `fs.watch` events, builds, smoke runs | changes during a build | it comes to rest on the last version |
| ETS front end, platform layer, engine core, runtime, other HAL modules, formatter, linter, REPL, scripts | little | text functions, wrappers | the operating system's | |

How they interact.  The driver calls the front end in sequence (lexer, parser, imports,
semantic analysis, type checker) and the back ends after it; the phases share the program
and the list of diagnostics.  `import` reads what the package manager has put on disk.
Embedded programs call the std modules, whose callbacks call back into them.  The GUI
calls widgets' callbacks.  Processes of `engc` meet in the project directory; the editor's
server and the watcher start such processes.  Nothing in the compiler runs in several
threads: the hard behaviours are those of the columns above, listed line by line as
the hazards of `PROJECT.json`.

## 2. Plan

Done: the modules of section 3, and the theorems of section 5, which state every property of the runs that the end
of section 5 does not name.

Abstract specifications: `PackageStore`; the source's own order of events (`EmittedFunction`,
`Backends`, `Sketch`), next to which the generated code runs; the definitions of what a
builtin returns (`RuntimePrelude`) and of what a text scans to (`FrontEnd`).

Modules that are proved about use no RECURSIVE operator; their constants carry named
assumptions; each operation is an action.

## 3. Modules

### PackageManager, PackageStore, MCPackageManager

`engc add`, `remove` and `init` as processes `Procs` on one project directory.  A step of a
process is one access to the disk: `pc` names the next access, `pkg`, `deps`, `todo` and
`snap` are the local variables of the innermost call (`package_name`, the loop over
dependencies, the files left to copy, the map read from the manifest), `stack` the `add()`
calls that wait for a dependency.

| action | code (`packages/manager/manager.cpp`) |
|---|---|
| `CmdAdd`, `CmdRemove`, `CmdInit` | the driver's commands; `init()` writes an empty manifest |
| `AddEnter` | registry lookup, "already installed" |
| `AddDependency` | one turn of the loop, a recursive call if the dependency is not listed |
| `AddDirectories`, `AddCopyOpen`, `AddCopyClose`, `AddCopied` | the copy loop; `copy_file` empties the destination, then fills it |
| `AddReadManifest` | the manifest is read after the dependencies were written |
| `RemoveCheck`, `RemoveFile`, `RemoveAllDone`, `RemoveReadManifest` | `remove_all`, then the entry |
| `WriteTruncate`, `WriteClose` | opening the stream empties the file, closing it writes all |
| `Crash` | a kill, or a `filesystem_error` nobody catches |

Abstractions: a package's version and path are left out (they follow from its name), so is
whether directories exist; the manifest is the set of names a reader finds in it, and `Junk`
stands for entries made of two texts written over each other.  `search`, `show` and `list` do
not change state.

`PackageStore` is what the header promises: a set that changes by one package at a time, in
which a package is installed after what it depends on.  `RefinesStore` maps it to the manifest,
or, while that is emptied, to what is about to be written.

### ImportResolution

`resolveImportsRec` as a stack of calls.  A step is one turn of the loop over the imports of
the innermost call (`CannotResolve`, `AlreadyVisited`, `CannotOpen`, `Descend`), or its return
(`Splice`: what it merged goes to the very front of its caller; `Finish`).  The file system and
the import lists are chosen in `Init`, from `FileSystems` and `ImportLists`.  Names resolve
against the importing file's directory, the working directory, `std/` and `.ec_packages/`, in
the code's order.  The declarations a file makes itself stand together wherever they move, so
`decls` is a sequence of files.  Paths are canonical; lexing and parsing an imported file is its
list of imports (`FrontEnd` models how a text is lexed and parsed).

### SoftTimer

The vector of timers down to its buffer: `tick()` holds references and iterators into it while
callbacks run.  `buffer` includes what `clear()` has destroyed, `size` and `capacity` are the
vector's, `loop` is where `tick()` is; `loop.detached` says that a `push_back` has moved the
timers away.  Touching a destroyed timer is undefined behaviour: it may work (`Fire`) or end
the program (`UseDestroyed`, `loop.pc = "aborted"`).  Writes into a freed buffer are lost.
Timestamps are ages, the milliseconds since `lastFired`; the unsigned difference of a timer that
is younger than `tick()`'s `now` is huge, hence due.  Callbacks call whatever they like; `called` remembers
what they have (`add`, `stop`, `clear`), since two of the properties end where callbacks add or clear.

### FunctionEmitter

The generator walks the syntax tree once.  The model does not enumerate trees: a step is the
beginning, a turn or the end of a statement, so that every tree within the bounds is a
behaviour.  `out` is the text of the function as lines, `open` the C++ call stack of `emitIf`,
`emitFor`, `emitWhile`, `emitMatch` with the labels each has yet to write, `loopStack`,
`hasReturn`, `hasError`, `counter` are the members of those names, `source` records the tokens
met.  `code` stands for the straight-line instructions of an expression or simple statement;
short blocks that an expression makes on its own (string and list helpers) begin and end inside
it, and it never ends in a terminator.  `for` over ranges and over lists make the same blocks
and share an action.

### EmittedFunction

Extends `FunctionEmitter`: when a function is done and would be accepted, its lines are run,
with every outcome of the conditions, next to the source.  `Reach` and `After` say in the
language's terms which event comes next; `SameBehaviour` says that the line about to run is
that event.  `Accepted` stands for the assembler: no errors, blocks end, returns have the
function's type, and no numbered value is defined after a block without a label (fixes #009,
#011, #014 of `CHANGELOG_FIXES.md` record these rejections).  It may refuse too much, and the
runs then say nothing of what it refuses.

### Lexer, SourceParser, FrontEnd, MCFrontEnd

`Lexer`: `text`, `at`, `line`, `lexemes`, `complaints` are `source_`, `pos_`, `line_`, `tokens_` and
the diagnostics; a step is a turn of the loop of `tokenize()` (`Skip`, `LineComment`, `BlockComment`,
`Identifier`, `Prefixed`, `Number`, `CharLiteral`, `Double`, `Single`, `Unexpected`) or of the loop
inside `tokenizeString()` (`Open`, `StringChar`, `Close`).  Every keyword of the table is there, and every name the parser
compares with a word (`Spoken`); such a word is one symbol of a text, other names are made of the letters `b`, `f` and `x`,
which numbers need.  Columns and the contents of literals are left out.

`SourceParser`: every parse function of `parser.cpp` is the sequence of its steps, in the code's
order and under the code's name (`parseForStmt == ...`).  `todo` is the C++ call stack; each kind of
step (`take`, `expect`, a choice on tokens ahead, a loop, a call, a return) is an action.  A call leaves an
"end" that remembers `pos_`, to which some functions rewind; `Recover` and `Synchronize` are
`parseBlock`'s handler and `synchronize()`, `Nudge` what a loop does about an item that consumed nothing,
`Crash` the null that `parseLetStmt` follows.  The tree is reduced to whether there is a node.

`FrontEnd` extends both and runs one after the other on the same text, with what the parser's constructor drops and
what the parser sees in a token besides its type (`AsToken`).
Lexing long texts character by character is out of TLC's reach, so a source is a short text or a
list of tokens.

### TypeChecker, ExpressionEmitter, TypedFunction

One function's body on its way through `typechecker.cpp` and the values of `irgen.cpp`.  The body
is written node by node in postfix order, any nodes of a topic in any order; `TypedFunction!Check` lets the
type checker (`symbols`, `types`, `rejected`) and the generator's prescan (`slots`, `inferred`) look
at each node, `Emit` emits it.  There is an operator for each `case` of the two programs'
switches.  What is emitted is kept as far as the types of operands go: the
type each operand is said to have and the type its register has; there are no numbers of registers, so that whether
they come in order is not a question to this model (`EmittedFunction!Accepted` asks it of blocks without a label).
Parameters are stored in their cells as a function begins.  `Loose`, `Misdeclared`, `CallsVoid`, `Narrow` and
`Retyped` name the accepted functions of which the types are known to go wrong.

### Backends

The other emitters, fed by the same kind of writer: items in the order the parser would deliver
them, statements opened and closed.  `code`, `locals`, `currentLocal` are the bytecode `Emitter`'s;
`CloseIf`, `CloseThen`, `CloseElse`, `CloseLoop` patch jumps as the code does.  `Step` is one turn of
`VM::execute()` on that code.  `python` and `js` are lines with their nesting only.  `source` follows what the
program means, as long as it is `plain`: see *What the models show*.

### Sketch

`compiler/targets`: `SketchBuilder` makes a C++ sketch of a program.  `Built` is the builder,
`EmitStatement` and `Emitted` the statement emitter (`Bodies`, `cppTypeOf`, `Inclusive` its parts).  The board
runs the sketch (`PowerOn`, at any time, and `Round`, one pass of Arduino's `loop()`), with any readings, next to what
the program says.  One variable, one pin, which is named or bound by a `let`; a helper is declared `-> void` (`Void`) or without
a result, and returns bare or with a value; numbers count halves, because a fraction is what an `int` loses.

### ModuleAssembly

The passes of `LLVMIRGenerator::generate()`: `declareTopLevel`, `collectStrings`, `EmitImpls`, `EmitInline`, `EmitMain`, `Flush`, in that order, over any short sequence of
top-level items (`ItemsAssumption`: functions, structs, impls and methods have names, a declaration at top level is no
statement).  Each pass fills one table (`functions`, `methods`, `owners`, `strings`, `pending`) or adds to
`module`: names defined, names referred to, texts.  The source has a pass for global variables, `declareGlobals()`
(`irgen.cpp:2920`), which nothing calls; so there is no table of globals, and a variable of the top level is known only
to the statements of the top level (`Unknown`).

### RuntimePrelude

The IR that `generate()` writes in front of every program, as text in the C++ source.  Pure
functions (`eng_str_concat`, `eng_substr`, `eng_path_join`, ...) are operators on buffers that have a
size and the cells that were written; those that read are actions with the locals of the function in `call`
(`Gets` for `fgets`, `Collect` for the loop over a command's output, `ReadByte` for the serial line,
which bytes reach at any time), those on files two accesses each.  Any call may have any of the strings, a base for
`eng_path_join` included; a program that has written outside a buffer has no defined behaviour and calls no more.

### MCCodegen

One state space for the five above: `subject` says which one runs, the variables of the others
keep a value of their own.

### Driver

The commands of `main.cpp` and `embedded.cpp` as processes in one directory.  `RunLine`, `Dispatch`, `BuildEmbedded`, ...
make a `Job` of a command line as the code's parsing of arguments and of `ec.toml` does; from then on a
step is one access to the disk or one tool that runs (`Read`, `Analyze`, `Generate`, `CompileIR`, `Assemble`,
`Link`, `CleanUp`, `RunProgram`, ...).  `disk` maps paths to contents: a format and the text it was made of.
`tools` are the programs installed; a tool fails where the real one would, for want of an input or because of what
is in it.  `RunProgram` hands the output's name to the shell, which finds a bare name in PATH only (`Found`); what it
returns is a wait status (`WaitStatus`: the exit code times 256), and a process ends with that modulo 256.
Users may edit sources meanwhile.  `Files` are the files a job may write, `met` the commands a command ran beside.

### Gui

A tree of boxes, text boxes, sliders and plain widgets under `MouseDown`, `MouseUp`, `KeyDown`,
`TextInput` and `Draw`, each the whole of a dispatch from the root, callbacks included.  Geometry
is reduced to rows, texts to lengths.  A key that would go through a pointer to a removed widget
(`Dangling`) has no defined effect and is left out.

### Watch

`Notice`, `Build`, `Compile`, `RunSmoke` are the watcher's event, timer and synchronous calls,
`Edit` is the user.

### LanguageServer

The stream is a sequence of units (headers, blank lines, pieces of bodies); `SkipHeaders` and
`ReadMessage` are `run()`, `handleRequest` its handlers.  Any member may be the last of a message (`last`): the framing loses the
end of a body, which leaves a method without its last quote unread, and an id with a digit less (`Received`; `std::stoi`
throws on none, `Unreadable`).  `openDocuments` holds contents that the code always leaves empty.

### Editor

`client.js` and `ec-lsp.js`: the user's actions (`Edit`, `Save`, `Toggle`, `Restart`, `Request`), the
server's (`handleMessage`, and for each compile under way `ReadSource`, `Ended`, `Timeout`), the client's
(`Deliver`).  `compiles` are `engc` processes that end in any order.  Each restart makes a new collection of diagnostics and disposes
of none: `shown` has one for each server, the editor shows them all (`Visible`), and `leftover` remembers what they
showed when the last server was started.  `doubt` holds documents whose last compile was disturbed (a shared temporary file, a timeout),
ended before one of an earlier text (`Overtakes`), or began while something the former server had printed was still on its way (`Haunted`).

### MCHost

One state space for `Driver`, `ImportResolution`, `Gui`, `Watch`, `LanguageServer` and `Editor`, as `MCCodegen` is.  Those that do not run stay
in a state of theirs, so that the invariants it checks are those of the modules, about which the theorems are.

## 4. Runs

| run | question | instance |
|---|---|---|
| `package_crash` | one process at a time, killed anywhere: are listed packages whole and their dependencies listed? | `mqtt`, `webserver` -> `wifi` (no sources), `bme280` -> `i2c` (unknown): every shape of the registry; 4 commands, 2 kills |
| `package_store` | do the commands implement `PackageStore`, and do they end? | the same, no kills |
| `package_shared` | two processes and a kill: is anything listed that was never copied? | two packages, one depending on the other, one file each; 3 commands |
| `timer` | whatever callbacks do, does `tick()` stay in its bounds and are ids unique; do one-shots fire once, stopped timers never, the others in the end? | 3 timers of period 1, callbacks that add, stop, clear; the vector grows twice |
| `emit_program` | do blocks end, branches land, labels stand once, whatever is nested, and what leaks from one function to the next? | 2 functions of 3 statements of every kind, types `i32` and `void` |
| `emit_run` | does the emitted function do what its source does? | 4 statements of every kind but match |
| `emit_match` | as `emit_run`, with match | violated |
| `parse` | does the front end end, take what is well formed, keep errors in their function, and stay silent only where strings and braces are closed? | each statement and item of the language as it is, and with one token dropped, replaced or put in; every list of up to 3 tokens that open and close; texts of up to 4 characters of a kind, every known word alone, called and before a body, and bodies of every construct that passes over braces |
| `codegen` | are operands of the types the instructions name; do bytecode and sketch do what is written; do Python and JavaScript nest it; do the prelude's functions return what they stand for; is a module whole? | functions of 5 to 8 nodes from nine topics, programs of 5 to 9 items, sketches of 4 statements, modules of 4 items, 2 calls into the prelude |
| `module_globals` | are the variables of the top level shared by functions? | violated; the instance of `codegen` |
| `host` | do commands that report success leave what they promise; what do imports merge, how often, in which order, with which diagnostics, and does it end; does the cursor stay in its text and a drag end with its button; does the watcher come to rest on the last version; is each message answered in order; is what is shown the verdict on the text sent last? | two `engc` side by side in four directories, one edit; all import graphs over a root and two modules with up to two imports each, each module missing, unreadable or there; three trees of widgets; 3 edits; 3 messages; 2 documents, 3 texts, 2 uses and any restarts among them |
| `engc_run` | does `engc run` run the program it made and report its exit code? | violated; the instance of `host` |

What the properties of `timer`, `parse`, `codegen` and `host` mean, and leave out:

- `OneShotOnce` holds as long as no callback has made a timer, `DroppedIsSilent` as long as none has cleared them, `TimersFire` unless
  one does either; `IdsUnique` whatever they call.
- `ScansAsWritten`: each lexeme stands in code, not in a comment or a string, by a definition that
  reads the text once from the left; `LinesFollow`: lines are counted except inside strings.
- `AcceptedTextIsPaired`, `SilentMeansBalanced`: no diagnostic means that braces pair, but for sources with a
  bytecode or interface body, which passes over braces unread up to one that closes (`parser.cpp:435-438`, `885-889`), or with
  a test, which takes one brace more than it closes (`parser.cpp:1447-1448`); and, of texts, those that end in a comment that
  the lexer does not report as open.  The texts of the run hold all of these.
  `GuardsHold`: no loop begins where its last turn began.
- `AcceptsWellFormed`: one item that ends where the next begins, no diagnostic.  `ErrorsStayInFunction`: with an
  error in one function the next is still an item, unless the statement has an `if`, `match`, `try`,
  `<` or nested function, or parentheses are open: these may take the following function for their own.
- `Ends` leaves out the sources of `GivesBack`: an unclosed struct literal in a match arm or block expression
  is given back again and again, and the parser hangs.
- `WellTypedIR` speaks of functions both the checker and the generator accept.  Except: an index of what is no list, and elements of a
  list without a name, taken for ints (`Loose`); a declaration from an index, a cast or a field, taken for an int by the prescan
  (`Misdeclared`); a call of a void function, whose result is named (`CallsVoid`); reading an `i64` or an `f32`, which a `Val` does not
  know (`Narrow`); a parameter declared again with another type, and a list or text declared again as a number (`Retyped`).  The topics
  of the run contain each of these; without any one of the exceptions the property is violated.
- `PrintsAsWritten` speaks of programs that are `plain`, `NestsAsWritten` leaves empty Python
  bodies out, `BuiltinsSayWhatTheyMean` the status of a program that a signal ended, and a path that is joined to a base
  (`JoinedToBase`), whose second part `eng_path_join` writes behind a gap and in part outside the buffer, against
  `tests/smoke/14_os_helpers.expected:3`.
- `SketchDoesAsWritten`: the sketch compiles, and while power is on, pin and output are what the program says, for sources whose functions
  are each a `PlainFunction`: a pin that is bound has a declared type, a bare return stands in `-> void` helpers only.
- `ModuleLinks`: a module not reported bad has one `main`, defines each name it refers to once, and has each text in its pool once,
  for programs whose names are `Distinct`.
- `EndsTruthfully`: each command that reports no error (its result is 0; the shell may see 0 for other results too, which is `engc_run`'s
  question), whatever others it ran with, as long as it was `Alone` with the files it
  writes: no other command it met writes one of them, and no user saves a source over them.  Bare-metal builds share the
  linker script, tests the temporary directory; outputs of one stem share what comes between.  The program that a
  native command ran is the one it made if the shell reaches it (`Reached`); if not, `engc_run` shows what happens.
- `MergesReachable`, `NoFileTwice`, `BroughtInBefore`, `SilenceMeansComplete`, `ImportsEnd`: what is merged are the reachable
  modules, each once but for a root that is imported, each before the one that brought it in; no diagnostic means
  that nothing is missing; the recursion ends, cycles or not.
- `AnswersInOrder` speaks of clients that do not write the id of a message last (`IdsReadable`).
- `ShownIsCurrent`: once nothing is under way, each open document that is not in `doubt` shows the verdict on the text sent last, and
  besides it exactly what it showed when the server was last started, which is never taken away.
- `UpToDate`: the watcher comes to rest for good once edits stop, and whenever it is at rest (`AtRest`) the last version has been
  built and, if it compiles, tested.

**Bounds.**  Two kills are one more than it takes to leave an entry and then work with it; four
commands allow `add`, `remove`, `add` of a package and its dependency.  Three files with two
imports each make every cycle, diamond and repetition of an import there is between a root and
two modules.  Ages are capped at `MaxAge`, from where every timer is due.  Three timers of one period grow
the vector from 1 to 2 to 4, and are two that act on a third.  Three statements make every pair of nested statements with something inside, and
a match with two arms; four make loops in loops with a break in the inner one and something after it.
One token less, more or other is what an edit leaves behind; three tokens put every opener inside every
other; four characters hold a comment or a string with something in it and behind it, and a body with up to three things in it.  Five nodes are two
operands, an operator, a declaration and its use; lists need eight to be made, indexed and used.
Nine items are a chain of `if`, `else if`, `else` with something in each branch; the machine stops after
`MaxPrinted` outputs, which a loop reaches at once.  `MaxRounds` ends a sketch's loop that does not end by itself.
Buffers in the prelude are of 3 or 4 characters, so that streams are shorter, as long and longer.
Two commands make every pair of steps; three edits are one before, one during and one after a build; three messages
show what one leaves behind for the next, and the next for the third.  `MaxCommands`, `MaxCrashes`, `MaxTimers`,
`MaxTick`, `MaxStatements`, `MaxFunctions`, `MaxDigits`, `MaxPrinted`, `MaxRounds`, `MaxItems`, `MaxCalls`, `MaxBytes`, `MaxEdits`, `MaxText`,
`MaxMessages`, `MaxUses`, `MaxShort`, `MaxSourceEdits` and the `max` of topics and programs are the only bounds, and each is in a guard or bounds an
input.  Deadlock is not checked: the programs do stop.

**Fairness.**  `PackageManager!FairSpec`: the operating system keeps running a process that is not
done.  `MCHost!ImportsRun`, `FrontEnd!FrontSpec`: one thread does nothing else.  `SoftTimer!FairSpec`: the main
loop calls `tick()` again and again and time passes, which is how `timer.h` says it is to be used;
`Tick` is weakly fair as a whole, so a callback that is under way returns.  `MCHost!WatcherRuns`: Node's event loop serves
events and timers, and compilers and tests end; nobody has to edit.  Nothing else is assumed of what users and
callbacks call.

**What the violated runs show.**  `emit_match`: `ret i32 0` follows `match.end`, so nothing after a match runs; the smoke
test `05_enum_match` expects otherwise.  `module_globals` (`GlobalsAreShared`): a function that reads a variable of the top level is
refused for using one that is not declared, since `declareGlobals()` is never called; `tests/smoke/10_globals.ec:1` has
"global variables & constants shared across functions".  `engc_run` (`ReportsExitCode`): `engc run a.ec`, alone, makes `main` and has the
shell look for a command `main` in PATH; nothing is run, the status 32512 is returned from `main()`, and `engc` ends with 0.
`CHANGELOG.md:41` has "`engc run` executes the produced binary after compiling and reports its exit code".

### What the models show

Each of these was met while modelling; properties leave them out by a named condition, or the
modules say so.

*Packages.*  Two processes lose each other's manifest entries; a `remove()` killed half-way leaves an entry without files
(`ListedIsWhole` leaves out what was being removed); `add` puts a package's files into `.ec_packages/<name>/`, but
`import` looks for `.ec_packages/<name>.ec` (`README.md:261` says otherwise).

*Imports.*  The root of a cyclic import graph is merged twice (`NoFileTwice` leaves out the root);
a module imported twice may come after a module that needs it (`BroughtInBefore` speaks of the import that
brought it in).

*Timers.*  A one-shot whose callback makes a timer when the vector is full fires again (`timer.cpp:65`, against `timer.h:29`);
`clearAll()` in a callback does not keep `tick()` from calling timers it destroyed;
stopped timers stay in the vector; `remaining()` wraps for an overdue timer.

*Control flow in IR.*  `hasReturn_` is the whole function's: with a return in one branch only, the last block
stays open (`irgen.cpp:1020`, against `CHANGELOG_FIXES.md:409`); statements after a `return` follow the terminator; the
return after a match is an `i32` whatever the function's type.

*Front end.*  `expect` and `test` statements are never accepted (the first expression takes the `==`; the brace of a test is consumed
twice); `let a : = [1]` crashes; `fn` as the last token reads past the tokens; a stray `}` at top level
takes the following `fn` with it; most unterminated comments go unreported; newlines in strings are not
counted, so that lines after them are too small; `~` is passed over in silence.

*Values in IR.*  All declarations of a name share one cell with the type of the last, a parameter's included; `float` and `f32` slots are not emitted validly; the prescan takes `1.5 + 1` for an
int; elements of unnamed lists are ints; both branches of `?:` are evaluated, and so are both
operands of `and` and `or`; `i8` and `i64` slots are used as `i32`; calls of void functions get a
name; arguments, returns and assignments are not compared by the checker.  As they stand,
`typechecker.cpp`, `parser.cpp` and `gui/widgets.cpp` do not compile: braces, a declaration and members are missing.

*Modules.*  Statements at top level are dropped when there is a `main`; a function `Point_make` clashes with
the method `make` of `Point`; no function knows a variable of the top level, not even the program's own `main()`;
functions defined twice are not reported before the assembler does.

*Bytecode, JavaScript, Python, WebAssembly.*  Jumps on a condition are taken when it is true; braced bodies and functions
emit nothing; an `if` without an `else` skips the next instruction; `for` compares with 0
and ends at once; integers are cut to 16 bits; every expression statement prints; JavaScript drops
assignments and writes `true` for a false literal; Python refuses empty bodies; WebAssembly is malformed throughout.
So `plain` programs are straight lines and such conditionals as survive this.

*Sketches.*  What comes after the first argument of a print is dropped; a fraction without a type
becomes an `int`; loops over lists run from 0 to 0; a match whose first arm is the wildcard does not compile; a `return` in
`setup` or `loop` ends `main()`; a `main` that calls `setup()` and `loop()`, as in
`docs/embedded/arduino.md:54-69`, is made without them; `let led = gpio.output(13)` there becomes an `int` made from a void call,
which does not compile, and neither does a bare `return` in `main` or in a helper without `-> void`, which are `int` functions; globals are dropped; unsupported expressions become 0.

*Runtime prelude.*  `path_join` writes its second part behind a gap, outside the buffer; command output of 65 535 bytes
makes the program wait for ever; a program killed by a signal counts as a success; a file written to a
full disk too; `serial_open` leaves the port open when it reports failure; long lines are split.

*Commands.*  Two `engc` in one directory share `main`, its temporary files and the bare-metal linker script; a program with a bare
name is looked up in PATH, and what `engc run` reports of any program's failure is 0, as a wait status has its exit
code in the upper byte; `build` runs the program as well; `--dynamic` may be taken for the source; options after
the source are read differently from options before it; quoted values in `ec.toml` keep their quotes; targets without a backend
report success and write nothing; `lint` passes over lexical errors; a half-made project is in the way of
the next `new`.

*Windows.*  A plain widget takes every click wherever it falls; Tab without a focus goes to the second
child, and a nested box then takes every Tab; a text box gets keys only if it was both clicked and
tabbed to; two text boxes may be focused; Backspace at the beginning of a text deletes behind the cursor;
`remove()` leaves a pointer to what it removed.

*Language server, editor, watcher.*  The first request, `initialize`, is never answered, so a client that waits for the answer waits
for ever; a request that ends in its id is answered under another id, or ends the server (`langserver.cpp:509`); texts are always empty, so nothing is found in them; completions lack a closing brace; notifications are
answered.  Every restart doubles the editor's listeners, and what was shown before it stays for ever; diagnostics of closed documents stay; the last compile to
end wins; diagnosing a text runs it, and one that runs for ever is never diagnosed; two compiles in one millisecond share
a file; a `didChange` is stored and then ends in a `ReferenceError`, so only the `didOpen` that a save sends with it is
published.  The watcher's smoke run may use another binary than the one built.

## 5. Proofs

For every value of the constants that satisfies the modules' assumptions.

**PackageManagerProofs.**  `TypeCorrect`.  `OnlyCopiedIsListed` (`ListedWasCopied`, any number of
processes): `ListedWasCopied` alone is not inductive, because a write lists what was read before;
`CopiedInv` adds that maps about to be written hold only copied names and that an `add()` past
its copy loop has copied.  `KilledAddLeavesNoHole` (`ListedIsWhole`) assumes `OneProcess`, that
`Procs` has at most one element: two processes can remove each other's files.  It needs `WholeInv`,
which follows the files of listed packages through the steps of `add()` and `remove()`, and
`StackInv`: suspended calls are on packages that are not listed and lie further and further from the bottom of the registry, so the
innermost `add()` never empties a file of a listed package.  That is where `AcyclicAssumption`
is used.  `DependenciesComeAlong` (`DependenciesListed`, `OneProcess`, any kills) carries the same claim for the map about to
be written (`ListedInv`), and `AddInv`, which says how far each suspended call's loop over its dependencies has come.
`ImplementsStore` (`RefinesStore`) shows that every step is one of `PackageStore`'s or a stutter under
`Intended`: opening the file for the write is the step at which the set changes, `AddInv` says by one package, and with its
dependencies there.  It assumes `MaxCrashes = 0`, as the run does: a kill between the two accesses leaves
an empty manifest, which no step of the store explains.

**RuntimeProofs.**  *Timer.*  `TypeCorrect` and `AnIdMeansOneTimer` (`IdsUnique`), inductive together: the
type invariant bounds the loop unless the vector has moved, and new ids are beyond all
in the vector.  `StoppedTimersAreSilent` (`DroppedIsSilent`) needs that a dropped timer still in the vector is not running
(`DroppedStopped`) and that each serial stands once (`SerialsOnce`), as long as no callback has cleared: `tick()`
does go on into timers that `clearAll()` destroyed.  `OneShotsFireOnce` (`OneShotOnce`) needs that a one-shot that
fired is stopped unless its callback is under way (`OneShotsStop`), as long as no callback has added:
a vector that moves loses the stop.  Both are about every program; what callbacks have called is in the properties, no
assumption of the theorems.

*Builtins.*  `BuiltinsMean` (`BuiltinsSayWhatTheyMean`), for all strings and numbers and every call but of `eng_path_join` with a base, buffers of any size, streams of any
length, and other processes that write the files meanwhile.  `Filled` says that a buffer of some size begins with a text, and that nothing was written
outside; `Stored`, `FillsOn`, `Ended` are what `memcpy` and the final zero make of that, `RepeatHolds` carries it through the loop of `eng_repeat`.
For the functions that read, `PreludeInv` says of a call under way (`Runs`) what it has taken so far: the front of what it read,
in a buffer that begins with it; `Line` is what `fgets` takes.

*Texts.*  `NestsAlike` (`NestsAsWritten`), for programs of any length and depth.  `NestInv` says that both texts are indented as deep as the
constructs that are open (`Depths`: one or two steps each), and `Followed` what Python makes of the lines: if no body but the
last is empty, it has found no error, and its stack of indentations is increasing and has the depths of the constructs the last line stands in, as far as they
are still open.  `NestDeeper` and `NestBack` are the two things a line does to that stack, `LineFollows` that it then describes the next
line; constructs that end write nothing (`FollowedStill`), and an `else if` chain, which ends at once, has one step per link (`ChainIs`).

**FunctionEmitterProofs.**  `TypeCorrect`: every label in the text and the stacks was handed out.
`EveryBlockEnds` (`BlocksEnd`): most labels are written right after a jump; those of a match's
arms are not, and `ArmsFollowJumps` says that between arms the text ends in a terminator.
`EveryBranchLands` (`BranchesLand`): `JumpsKnown` says that branches and the loop stack name labels that are
written or that an open statement will write; what is left at the end is
written.  `EveryLabelOnce` (`LabelsOnce`): `LabelsOwed` says that what an open statement has still to write is
in no line yet, and that no other will write it.  `ReturnIsAdded` (`ReturnlessEnd`): `ReturnKept` says that
`hasReturn_` is set by a return of this function.

*Modules.*  `ModulesAreWhole` (`ModuleLinks`), for programs of any length made of any items.  `AssemblyInv` says after each pass what the module
has because of the program alone: the tables are what the top level declares (`Registered`), the symbols defined are those of the passes so
far and no call names anything unregistered (`Defines`), and each text used is in the pool or waits for the end, once (`TextsKept`).  `Selected` says what a pass that picks items by kind finds,
`FlatElements` and `JoinRange` what putting such lists together keeps; registration and emission walk the methods in different orders, and
`DefinedOnce` shows that they name the same symbols, once each if the program does (`Distinct`).

**FrontEndProofs.**  For every text without the mark that `Char` finds behind its end (`TextsAssumption`).  `LinesAreCounted`
(`LinesFollow`): `Since` says that the lines counted since the last token are the newlines between, over comments and
blanks.  `TokensLieInCode` (`ScansAsWritten`): the reference definition `Contexts` reads the text character by character, the lexer
jumps over whole comments, numbers and names; `ReadsOn` says that where the lexer is, the reading is in code (or in the string that is open), as
long as nothing was reported.  For each action a lemma says how far the characters it passes over are read.
`Contexts` is a recursive function: `ContextsRead` shows that it exists and reads one character at a time, and
`Along`, induction on the position by a least counterexample (`WFMin`), carries a fact over a range of characters.  The parser's own variables
do not matter here.  `RoundsAdvance` (`GuardsHold`), for every sequence of tokens, however it was made: the loops of `parseTopLevel` and
`parseBlock` never begin two rounds at one token.  `RoutinesSound` says that every parse function is made of steps of the forms
the parser knows (`Sound`), and that a call of a loop's round stands in that loop only.  `Stack` describes the call stack: calls
return to positions that descend from the top (`EndsDescend`), `parseTopLevel`'s loop lies at the bottom (`Bottom`), and each
guarded loop that has begun is at one of a few places of its round (`Round`): before the call, at the item, over it and looking
at what it consumed, recovering, about to be nudged, or done and beyond where it began.  An item under way keeps the five frames
below it whole (`Deep`), which `break` and `return` do not reach, as they stop at the first loop or call.  Each action keeps `Stack` (`ParserStep`).

**BalanceProofs.**  `SilenceMeansBalance` (`SilentMeansBalanced`), for every token list without an end-of-file token inside (`InputsAssumption`; `HandedOver` shows
that the lexer makes no other).  It is a proof system for parse functions: a `Place` is a point in a function, where its own brace is open or shut, it has
consumed something or not, what was called last returned a node or null, and some of the next tokens are known; `Leads(s, P, Q)` says that a step taken at P
without an error ends at Q: some set of such triples justifies each of its members by the rule for its kind of step (`LeadsSimply`, choices, loops) from
others, which spares an induction over the code.  `FunctionsLead` derives that each of some sixty functions leads from its `Entry` to its `Exit`, where every brace it opened is shut.
`Placed` then gives every frame on the call stack a place of its own, from which the rest of the frame leads to its end, with the braces open
below it counted (`Opened`); each action takes the stack from places to places (`SilentStep`), one form of step after another.  A crash is
an outcome that no place reaches, so what is accepted in silence was not given up.
`AcceptedTextsPair` (`AcceptedTextIsPaired`), for every text, over all keywords, that makes no token of a bytecode block, an interface or a test and
ends in no open comment, carries that over to the characters: as long as nothing is reported, the braces
in code that the lexer has passed are as many as the brace tokens it has made, of either kind (`Marked`).  `LexReads` knows of each action that
it passes over no brace in code (`Braceless`) but for the one that makes a token of a single character, `LexNames` that no other makes a brace
token, and `CurlyTypes` which one that action makes; `KeptAre`, by `Along`, that dropping the comments loses none, and `Handed` that the parser's
list has as many.

**HostProofs.**  For every tree of widgets, `CursorStaysInText` (`CursorInText`) and `ReleaseEndsDrag` (`DragMeansButton`) are
inductive with the types of the fields they speak of (`FieldsTyped`).  The type of `children`, which `remove` filters with
`SelectSeq`, plays no part.  `AnswersComeInOrder` (`AnswersInOrder`), for whatever messages a client sends, their number and lengths:
`Laid` says where in the stream the units of each message lie (`FirstLaid`, from `Flattened`: what flattening makes of a
sequence of sequences), `Progress` that the server is always between two messages, a whole body short of the second header at first and one
piece short ever after (`Left`), with the replies to what it has read; `NextLine` and `NextBody` say what it then
reads, the header on the line behind that rest, and a message without its last piece.  `RestsUpToDate` is the safety half of
`UpToDate`, for any number of edits: `WatchInv` says that unless a change waits to be noticed, for the timer or for the build, the last
version has been tried, and the smoke tests have seen it or are about to.
*Imports.*  `TypeCorrect`.  `NothingImportedTwice` (`NoFileTwice`) is inductive
with `MergedVisited`: what has been merged has been visited, so `Descend` brings in only files
that are nowhere yet.  `MergesWhatIsReachable`, `ModulesComeFirst` and `SilentMergeIsComplete` (`MergesReachable`,
`BroughtInBefore`, `SilenceMeansComplete`) rest on `MergeInv`, which says of each suspended call that its file was brought in by
the one below (`Callers`), that its program ends with its own declarations (`OwnLast`), that those in front are of files that are
over and done with (`MergedBefore`), that its imports are dealt with or still to come (`Pending`), and that what was visited stands in some
program or was reported (`VisitedHeld`).  `Reachable` is the least set closed under imports, so that no induction
is needed: what has been merged at the end is closed, and every program holds reachable files only.

**ToolProofs.**  `CommandsEndTruthfully` (`EndsTruthfully`), for any command lines, tools (whether the shell looks in the working
directory or not), files and contents, and any number of processes, with the wait statuses that `system()` returns.
`DriverInv` says of each process that its stage is one of its kind of job (`Routes`), where its output lies, and, as long as it was `Alone`,
what it has made so far (`Progress`): which of its files hold which format of the text it read.  A step writes only files of its own job
(`InPlace`), and processes that run at the same time have met (`Acquainted`), so what an undisturbed process has made stays as it is
(`Undisturbed`, `KeepsProgress`); its own step takes it from one stage to the next.  `DispatchJob` says which jobs command lines make.
`ShownStaysCurrent` (`ShownIsCurrent`), for finitely many documents (a restart sends each of them once, in some
order).  It speaks of the collections of all servers.  `AllCurrent` says that the last `didOpen` due for a document has the text sent last, and that once
none is due and nothing is in doubt, what former servers printed is the verdict on that text (`Unhaunted`), every compile that was not superseded
is of it (`Fresh`), and either there is one (`Working`) or the verdict is shown or will be the last to arrive (`Over`);
`AllLeft` that `leftover` is what the former servers' collections hold.  `Queues` and `Records` are what this needs of types.

`SharedLemmas` has the facts that these share: sequences as stacks, flattened sequences, ranges of numbers (`Along`), and functions defined by
recursion (`Iterated`: a first value and steps from each value to the next make one; a recursive definition equals its body only
once some function does).

**Only model-checked.**  Liveness (`CommandsEnd`, `Ends`, `ImportsEnd`, `TimersFire`, and of `UpToDate` that the watcher comes to rest) and everything that depends
on ENABLED are beyond the prover, and so are induction over trees and RECURSIVE operators: `SketchDoesAsWritten` runs a program by one.
`SameBehaviour` and `PrintsAsWritten` compare two runs, whose invariants would be longer than the models.
`WellTypedIR` speaks of what two passes over a tree agree on, `AcceptsWellFormed` and `ErrorsStayInFunction` of the language
that some sixty parse functions accept together; no invariant shorter than those functions is known.  The `TypeOK` of `PackageManager`,
`ImportResolution` and `FunctionEmitter` is proved and needs no run of its own.

## 6. Not modelled

- **Semantic analysis, AST, diagnostics**: data types, and a symbol table that is filled and then read by nothing.
- **ETS front end**: included by no part of `engc`.
- **WebAssembly**: what it writes is malformed for every program with a branch, a call of a local or a statement
  outside a function; there is no behaviour to compare.
- **Platform layer, engine core, embedded runtime, runtime and standard library, packages, other HAL modules**:
  wrappers of system or vendor calls, or values that are set and read back; compiled programs are not linked with
  the C++ library, what they call is the prelude.
- **Interrupt module**: handlers attached are called by nothing, so nothing interleaves with a critical section.  (A
  section whose body throws leaves interrupts disabled, `interrupt.h:39`.)
- **GUI rendering and native drivers, formatter, linter, build system, REPL, scripts, installer, examples**:
  pixels, line-by-line text functions, placeholders, glue.

Of the modelled parts: what is printed; columns of tokens; versions and paths of packages; enums, generics,
`Result` and `Option` in checker and generator; lists that `append` moves while a loop or another name holds the old buffer
(`irgen.cpp:2225`); number formatting, sleeping and the environment in the prelude; the size in an array type, on which `std::stoi` throws when it is too large (`parser.cpp:1327`); the parser of an interpolated expression,
which is taken to end; names in a text made of other letters than `b`, `f`, `x`; a bare `return` in `TypedFunction`; slider values and hovering; callbacks of an application that assign a text box's `text`, which is a plain member;
ids of requests that are strings, in the language server; messages to the editor's server that the pipe cuts in pieces; the contents of a file on a full disk; time beyond the
ages of timers.  Undefined effects that no property could speak of (a key through a dangling pointer, a column beyond an
empty text, a tree changed while a slider's callback iterates over it) are left out of the actions, and the modules say where.
