--------------------------- MODULE PackageManager ---------------------------
(***************************************************************************)
(* The package manager of engc: packages/manager/manager.cpp over the      *)
(* registry of packages/registry/registry.cpp, as any number of `engc add  *)
(* | remove | init` processes working on one project directory.            *)
(*                                                                         *)
(* The disk is the manifest (.ec_packages/manifest.json, here the set of   *)
(* names a reader parses out of it) and the files copied below             *)
(* .ec_packages/<name>/.  Directories themselves are left out: every       *)
(* operation creates the ones it needs.  A step of a process is one access *)
(* to the disk, because that is where other processes and kills interleave.*)
(***************************************************************************)
EXTENDS Naturals, Sequences, FiniteSets

CONSTANTS
    Names,        \* names a user or a dependency list may mention
    Registered,   \* the names findPackage() knows
    Deps,         \* Deps[n]: the dependency names of registered package n
    Files,        \* names of the source files of packages
    SrcFiles,     \* SrcFiles[n]: files below std/embedded/packages/<n>
    Junk,         \* what a reader makes of bytes two writers left mixed up
    Procs,        \* concurrent engc processes
    MaxCommands,  \* bound: commands started in a behaviour
    MaxCrashes    \* bound: processes that die half-way in a behaviour

ASSUME NamesAssumption ==
    /\ Names # {} /\ Registered \subseteq Names
    /\ Junk \notin Names
    /\ Deps \in [Registered -> SUBSET Names]
    /\ SrcFiles \in [Registered -> SUBSET Files]

\* The registry has no dependency cycles; add() has no guard against one.
ASSUME AcyclicAssumption ==
    \E rank \in [Registered -> 0..Cardinality(Registered)] :
        \A n \in Registered : \A d \in Deps[n] \cap Registered : rank[d] < rank[n]

ASSUME BoundsAssumption == MaxCommands \in Nat /\ MaxCrashes \in Nat

VARIABLES
    manifest,   \* the names the manifest file lists right now
    files,      \* files[n]: the files of n whose installed copy is whole
    pc,         \* pc[p]: the next disk access of process p
    pkg,        \* pkg[p]: package_name of the innermost call of p
    deps,       \* deps[p]: dependencies the innermost add() has yet to visit
    todo,       \* todo[p]: source files the innermost add() has yet to copy
    snap,       \* snap[p]: the map p read and edited, about to be written
    stack,      \* stack[p]: suspended add() calls, innermost first
    copied,     \* history: names whose copy loop has ended once
    removed,    \* history: names remove() was let loose on, not listed since
    started, crashes

disk == <<manifest, files>>
local == <<pkg, deps, todo, snap, stack>>
history == <<copied, removed>>
bounds == <<started, crashes>>
vars == <<manifest, files, pc, pkg, deps, todo, snap, stack,
          copied, removed, started, crashes>>

Locations == {"idle", "enter", "deps", "copy", "copying", "read",
              "check", "unlink", "reread", "truncate", "write"}

Listable == Names \cup {Junk}
Frames == [pkg : Registered, deps : SUBSET Names]

TypeOK ==
    /\ manifest \in SUBSET Listable
    /\ files \in [Names -> SUBSET Files]
    /\ pc \in [Procs -> Locations]
    /\ pkg \in [Procs -> Names]
    /\ deps \in [Procs -> SUBSET Names]
    /\ todo \in [Procs -> SUBSET Files]
    /\ snap \in [Procs -> SUBSET Listable]
    /\ stack \in [Procs -> Seq(Frames)]
    /\ copied \in SUBSET Names
    /\ removed \in SUBSET Names
    /\ started \in 0..MaxCommands
    /\ crashes \in 0..MaxCrashes
    /\ \A p \in Procs :
          /\ pc[p] \in {"deps", "copy", "copying", "read"} => pkg[p] \in Registered
          /\ pc[p] = "copying" => todo[p] # {}

Init ==
    /\ manifest = {}
    /\ files = [n \in Names |-> {}]
    /\ pc = [p \in Procs |-> "idle"]
    /\ pkg = [p \in Procs |-> CHOOSE n \in Names : TRUE]
    /\ deps = [p \in Procs |-> {}]
    /\ todo = [p \in Procs |-> {}]
    /\ snap = [p \in Procs |-> {}]
    /\ stack = [p \in Procs |-> <<>>]
    /\ copied = {}
    /\ removed = {}
    /\ started = 0
    /\ crashes = 0

-----------------------------------------------------------------------------
(* Commands.  The driver hands the argument over unchecked, so any name     *)
(* may be asked for.                                                        *)

Start(p, location, name) ==
    /\ pc[p] = "idle"
    /\ started < MaxCommands
    /\ started' = started + 1
    /\ pc' = [pc EXCEPT ![p] = location]
    /\ pkg' = [pkg EXCEPT ![p] = name]
    /\ stack' = [stack EXCEPT ![p] = <<>>]
    /\ UNCHANGED <<disk, deps, todo, history, crashes>>

CmdAdd(p, name) == Start(p, "enter", name) /\ UNCHANGED snap

CmdRemove(p, name) == Start(p, "check", name) /\ UNCHANGED snap

\* init() writes a manifest without packages, whatever was there before.
CmdInit(p) ==
    /\ Start(p, "truncate", pkg[p])
    /\ snap' = [snap EXCEPT ![p] = {}]

\* The innermost call returns.  add() ignores what add(dep) returned.
Return(p) ==
    IF stack[p] = <<>>
    THEN /\ pc' = [pc EXCEPT ![p] = "idle"]
         /\ UNCHANGED <<pkg, deps, stack>>
    ELSE /\ pc' = [pc EXCEPT ![p] = "deps"]
         /\ pkg' = [pkg EXCEPT ![p] = Head(stack[p]).pkg]
         /\ deps' = [deps EXCEPT ![p] = Head(stack[p]).deps]
         /\ stack' = [stack EXCEPT ![p] = Tail(stack[p])]

-----------------------------------------------------------------------------
(* add(): look the package up, install what it depends on, copy, list.      *)

AddEnter(p) ==
    /\ pc[p] = "enter"
    /\ \/ /\ pkg[p] \notin Registered \/ pkg[p] \in manifest
          /\ Return(p)
       \/ /\ pkg[p] \in Registered \ manifest
          /\ pc' = [pc EXCEPT ![p] = "deps"]
          /\ deps' = [deps EXCEPT ![p] = Deps[pkg[p]]]
          /\ UNCHANGED <<pkg, stack>>
    /\ UNCHANGED <<disk, todo, snap, history, bounds>>

\* Seeded fault: dependencies are named to the user and not installed.
Bug_AddDependency(p) ==
    /\ pc[p] = "deps"
    /\ \E d \in deps[p] : deps' = [deps EXCEPT ![p] = @ \ {d}]
    /\ UNCHANGED <<disk, pc, pkg, stack, todo, snap, history, bounds>>

\* Seeded fault: a dependency is tried until it is installed.
Bug_RetryDependency(p) ==
    /\ pc[p] = "deps"
    /\ \E d \in deps[p] :
          IF d \in manifest
          THEN /\ deps' = [deps EXCEPT ![p] = @ \ {d}]
               /\ UNCHANGED <<pc, pkg, stack>>
          ELSE /\ stack' = [stack EXCEPT ![p] =
                     <<[pkg |-> pkg[p], deps |-> deps[p]]>> \o @]
               /\ pkg' = [pkg EXCEPT ![p] = d]
               /\ pc' = [pc EXCEPT ![p] = "enter"]
               /\ UNCHANGED deps
    /\ UNCHANGED <<disk, todo, snap, history, bounds>>

\* One turn of the dependency loop, in any order of the list.
AddDependency(p) ==
    /\ pc[p] = "deps"
    /\ \E d \in deps[p] :
          IF d \in manifest
          THEN /\ deps' = [deps EXCEPT ![p] = @ \ {d}]
               /\ UNCHANGED <<pc, pkg, stack>>
          ELSE /\ stack' = [stack EXCEPT ![p] =
                     <<[pkg |-> pkg[p], deps |-> deps[p] \ {d}]>> \o @]
               /\ pkg' = [pkg EXCEPT ![p] = d]
               /\ pc' = [pc EXCEPT ![p] = "enter"]
               /\ UNCHANGED deps
    /\ UNCHANGED <<disk, todo, snap, history, bounds>>

\* Seeded fault: the manifest is brought up to date before the copying.
Bug_AddDirectories(p) ==
    /\ pc[p] = "deps"
    /\ deps[p] = {}
    /\ pc' = [pc EXCEPT ![p] = "read"]
    /\ UNCHANGED <<disk, local, history, bounds>>

AddDirectories(p) ==
    /\ pc[p] = "deps"
    /\ deps[p] = {}
    /\ todo' = [todo EXCEPT ![p] = SrcFiles[pkg[p]]]
    /\ pc' = [pc EXCEPT ![p] = "copy"]
    /\ UNCHANGED <<disk, pkg, deps, snap, stack, history, bounds>>

\* The directory iteration yields the files in some fixed order.
NextFile(p) == CHOOSE f \in todo[p] : TRUE

\* copy_file(overwrite_existing) first empties the destination ...
AddCopyOpen(p) ==
    /\ pc[p] = "copy"
    /\ todo[p] # {}
    /\ files' = [files EXCEPT ![pkg[p]] = @ \ {NextFile(p)}]
    /\ pc' = [pc EXCEPT ![p] = "copying"]
    /\ UNCHANGED <<manifest, local, history, bounds>>

\* ... and then fills it.
AddCopyClose(p) ==
    /\ pc[p] = "copying"
    /\ files' = [files EXCEPT ![pkg[p]] = @ \cup {NextFile(p)}]
    /\ todo' = [todo EXCEPT ![p] = @ \ {NextFile(p)}]
    /\ pc' = [pc EXCEPT ![p] = "copy"]
    /\ UNCHANGED <<manifest, pkg, deps, snap, stack, history, bounds>>

\* Seeded fault: an error of copy_file is swallowed and ends the loop.
Bug_AddCopied(p) ==
    /\ pc[p] = "copy"
    /\ pc' = [pc EXCEPT ![p] = "read"]
    /\ copied' = copied \cup {pkg[p]}
    /\ UNCHANGED <<disk, local, removed, bounds>>

AddCopied(p) ==
    /\ pc[p] = "copy"
    /\ todo[p] = {}
    /\ pc' = [pc EXCEPT ![p] = "read"]
    /\ copied' = copied \cup {pkg[p]}
    /\ UNCHANGED <<disk, local, removed, bounds>>

\* Seeded fault: the manifest is not read again before it is written.
Bug_AddReadManifest(p) ==
    /\ pc[p] = "read"
    /\ snap' = [snap EXCEPT ![p] = {pkg[p]}]
    /\ pc' = [pc EXCEPT ![p] = "truncate"]
    /\ UNCHANGED <<disk, pkg, deps, todo, stack, history, bounds>>

\* The manifest is read again: the dependencies have been listed meanwhile.
AddReadManifest(p) ==
    /\ pc[p] = "read"
    /\ snap' = [snap EXCEPT ![p] = manifest \cup {pkg[p]}]
    /\ pc' = [pc EXCEPT ![p] = "truncate"]
    /\ UNCHANGED <<disk, pkg, deps, todo, stack, history, bounds>>

-----------------------------------------------------------------------------
(* remove(): the files go first, then the entry of the manifest.  What      *)
(* other packages depend on is not looked at.                               *)

RemoveCheck(p) ==
    /\ pc[p] = "check"
    /\ IF pkg[p] \in manifest
       THEN /\ pc' = [pc EXCEPT ![p] = "unlink"]
            /\ removed' = removed \cup {pkg[p]}
            /\ UNCHANGED <<pkg, deps, stack>>
       ELSE Return(p) /\ UNCHANGED removed
    /\ UNCHANGED <<disk, todo, snap, copied, bounds>>

RemoveFile(p) ==
    /\ pc[p] = "unlink"
    /\ \E f \in files[pkg[p]] :
          files' = [files EXCEPT ![pkg[p]] = @ \ {f}]
    /\ UNCHANGED <<manifest, pc, local, history, bounds>>

RemoveAllDone(p) ==
    /\ pc[p] = "unlink"
    /\ files[pkg[p]] = {}
    /\ pc' = [pc EXCEPT ![p] = "reread"]
    /\ UNCHANGED <<disk, local, history, bounds>>

RemoveReadManifest(p) ==
    /\ pc[p] = "reread"
    /\ snap' = [snap EXCEPT ![p] = manifest \ {pkg[p]}]
    /\ pc' = [pc EXCEPT ![p] = "truncate"]
    /\ UNCHANGED <<disk, pkg, deps, todo, stack, history, bounds>>

-----------------------------------------------------------------------------
(* writeManifest() opens the file, which empties it, and hands all bytes    *)
(* over when the stream is closed.                                          *)

WriteTruncate(p) ==
    /\ pc[p] = "truncate"
    /\ manifest' = {}
    /\ pc' = [pc EXCEPT ![p] = "write"]
    /\ UNCHANGED <<files, local, history, bounds>>

\* Over the bytes of a writer that came in between, the tail of the longer
\* text survives: some of its entries and, where it was cut, junk.
WriteClose(p) ==
    /\ pc[p] = "write"
    /\ IF manifest = {}
       THEN manifest' = snap[p]
       ELSE \E tail \in SUBSET (manifest \cup {Junk}) : manifest' = snap[p] \cup tail
    /\ removed' = removed \ ({pkg[p]} \cap snap[p])
    /\ Return(p)
    /\ UNCHANGED <<files, todo, snap, copied, bounds>>

-----------------------------------------------------------------------------
\* A process is killed, or dies of a filesystem_error nobody catches.
Crash(p) ==
    /\ pc[p] # "idle"
    /\ crashes < MaxCrashes
    /\ crashes' = crashes + 1
    /\ pc' = [pc EXCEPT ![p] = "idle"]
    /\ stack' = [stack EXCEPT ![p] = <<>>]
    /\ UNCHANGED <<disk, pkg, deps, todo, snap, history, started>>

Work(p) ==
    \/ AddEnter(p)
    \/ AddDependency(p)
    \/ AddDirectories(p)
    \/ AddCopyOpen(p)
    \/ AddCopyClose(p)
    \/ AddCopied(p)
    \/ AddReadManifest(p)
    \/ RemoveCheck(p)
    \/ RemoveFile(p)
    \/ RemoveAllDone(p)
    \/ RemoveReadManifest(p)
    \/ WriteTruncate(p)
    \/ WriteClose(p)

Next == \E p \in Procs :
    \/ \E name \in Names : CmdAdd(p, name)
    \/ \E name \in Names : CmdRemove(p, name)
    \/ CmdInit(p)
    \/ Work(p)
    \/ Crash(p)

Spec == Init /\ [][Next]_vars

\* The operating system keeps running a process that is not done.
FairSpec == Spec /\ \A p \in Procs : WF_vars(Work(p))

-----------------------------------------------------------------------------
(* Properties.                                                              *)

\* Every installed copy of a source file of n is there and whole.
Complete(n) == SrcFiles[n] \subseteq files[n]

\* No process, however many work on the directory and wherever they are
\* killed, makes the manifest list a package before the copy loop of add()
\* has gone through all of its files.
ListedWasCopied == manifest \subseteq copied \cup {Junk}

\* ... because a name gets into a map about to be written only from the
\* manifest or from an add() past its copy loop.
CopiedInv ==
    /\ ListedWasCopied
    /\ \A p \in Procs :
          /\ pc[p] = "read" => pkg[p] \in copied
          /\ pc[p] \in {"truncate", "write"} => snap[p] \subseteq copied \cup {Junk}

\* One process at a time: a package the manifest lists has all its files,
\* except where a remove() of that package was killed before it got to the
\* manifest; a killed add() leaves no such entry, nor does add() after init.
ListedIsWhole ==
    \A n \in manifest \cap Registered : Complete(n) \/ n \in removed

\* How far from the bottom of the registry a package is.
DepRank ==
    CHOOSE rank \in [Registered -> 0..Cardinality(Registered)] :
        \A n \in Registered : \A d \in Deps[n] \cap Registered : rank[d] < rank[n]

\* One process at a time: suspended add() calls are on packages further and
\* further from the bottom, none of which is listed, so that the innermost
\* add() never copies over the files of a package that is.
StackInv ==
    \A p \in Procs :
        /\ \A i \in DOMAIN stack[p] :
              /\ stack[p][i].pkg \notin manifest
              /\ stack[p][i].deps \subseteq Deps[stack[p][i].pkg]
              /\ pc[p] # "idle" /\ pkg[p] \in Registered
                    => DepRank[pkg[p]] < DepRank[stack[p][i].pkg]
              /\ pc[p] \in {"truncate", "write"} => stack[p][i].pkg \notin snap[p]
              /\ \A j \in DOMAIN stack[p] :
                    i < j => DepRank[stack[p][i].pkg] < DepRank[stack[p][j].pkg]
        /\ pc[p] = "deps" => deps[p] \subseteq Deps[pkg[p]]
        /\ pc[p] \in {"deps", "copy", "copying", "read"} => pkg[p] \notin manifest
        /\ pc[p] \in {"idle", "check", "unlink", "reread"} => stack[p] = <<>>
        /\ pc[p] = "write" => manifest = {}

\* One process at a time: where every file of every listed package is, at
\* each step of add() and remove().
WholeInv ==
    /\ ListedIsWhole
    /\ \A p \in Procs :
          /\ pc[p] \in {"copy", "copying"} => SrcFiles[pkg[p]] \ todo[p] \subseteq files[pkg[p]]
          /\ pc[p] = "read" => Complete(pkg[p])
          /\ pc[p] \in {"truncate", "write"} =>
                \A n \in snap[p] \cap Registered :
                    Complete(n) \/ n \in removed \ {pkg[p]}
          /\ pc[p] \in {"unlink", "reread"} => pkg[p] \in removed

\* One process at a time: what a listed package depends on is listed with it
\* if the registry knows it, unless the user removed it; a killed command
\* breaks this no more than a finished one does.
DependenciesListed ==
    \A n \in manifest \cap Registered :
        Deps[n] \cap Registered \subseteq manifest \cup removed

\* Every command comes to its end, dependencies of dependencies included.
CommandsEnd == \A p \in Procs : pc[p] # "idle" ~> pc[p] = "idle"

\* The installed set as one process means it: a manifest it has emptied and
\* not yet filled counts as what it is about to write.
Intended ==
    LET writing == {p \in Procs : pc[p] = "write"}
    IN  IF writing = {} THEN manifest ELSE snap[CHOOSE p \in writing : TRUE]

Store == INSTANCE PackageStore WITH installed <- Intended

\* One process at a time, none killed: the commands act on the manifest as
\* the operations of PackageStore act on a set, each in one step, and a
\* package is never installed before what it depends on.
RefinesStore == Store!Spec
=============================================================================
