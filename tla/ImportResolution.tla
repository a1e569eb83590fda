-------------------------- MODULE ImportResolution --------------------------
(***************************************************************************)
(* How engc merges a program out of its modules: resolveImportsRec of      *)
(* compiler/driver/main.cpp.  The recursion is a stack of calls, innermost *)
(* first; a step is one turn of the loop over the imports of the innermost *)
(* call, or its return.  The declarations a file makes itself stand        *)
(* together wherever they are moved to, so the name of the file stands for *)
(* them.  A file is named by its canonical path.                           *)
(***************************************************************************)
EXTENDS Naturals, Sequences

CONSTANTS
    EcFiles,      \* canonical paths of .ec files
    Root,         \* the file given on the command line
    ModuleNames,  \* module paths in import statements
    Dirs,
    DirOf,        \* DirOf[f]: the directory of file f
    FileAt,       \* FileAt[d][n]: the canonical path of d/<n>.ec
    Cwd, StdDir,  \* the working directory and its std/
    PackagesIn,   \* PackagesIn[d]: d/.ec_packages
    FileSystems,  \* which files may exist
    ImportLists   \* which imports the files may make, statement by statement

ASSUME PathsAssumption ==
    /\ Root \in EcFiles
    /\ {Cwd, StdDir} \subseteq Dirs
    /\ DirOf \in [EcFiles -> Dirs]
    /\ FileAt \in [Dirs -> [ModuleNames -> EcFiles]]
    /\ PackagesIn \in [Dirs -> Dirs]

ASSUME InputsAssumption ==
    /\ FileSystems \subseteq SUBSET EcFiles
    /\ ImportLists \subseteq [EcFiles -> Seq(ModuleNames)]

VARIABLES
    exists,    \* the files that exist
    readable,  \* those that can be opened
    imports,   \* imports[f]: the import statements of f, in order
    stack,     \* the calls under way: file, imports to go, merged program
    visited,   \* files some import has been resolved to
    errors,    \* diagnostics: code, importing file, imported name
    bringer,   \* history: bringer[f] is the file whose import brought f in
    done

input == <<exists, readable, imports>>
importVars == <<exists, readable, imports, stack, visited, errors, bringer, done>>

Calls == [file : EcFiles, todo : Seq(ModuleNames), decls : Seq(EcFiles)]
Errors == {"M000", "M001"} \X EcFiles \X ModuleNames

TypeOK ==
    /\ exists \in SUBSET EcFiles
    /\ readable \in SUBSET EcFiles
    /\ imports \in [EcFiles -> Seq(ModuleNames)]
    /\ stack \in Seq(Calls)
    /\ stack # <<>>
    /\ visited \in SUBSET EcFiles
    /\ errors \in SUBSET Errors
    /\ bringer \in [EcFiles -> EcFiles]
    /\ done \in BOOLEAN

\* A call starts with the declarations of the file that are no imports.
Call(f) == [file |-> f, todo |-> imports[f], decls |-> <<f>>]

\* The driver has read and parsed the root by then.
ImportInit ==
    /\ exists \in FileSystems
    /\ readable \in SUBSET exists
    /\ Root \in readable
    /\ imports \in ImportLists
    /\ stack = <<Call(Root)>>
    /\ visited = {}
    /\ errors = {}
    /\ bringer = [f \in EcFiles |-> Root]
    /\ done = FALSE

-----------------------------------------------------------------------------
\* Where an import of n is looked for from directory d, first match first.
Candidates(d, n) ==
    <<FileAt[d][n], FileAt[Cwd][n], FileAt[StdDir][n], FileAt[PackagesIn[d]][n]>>

Present(d, n) == {i \in 1..4 : Candidates(d, n)[i] \in exists}

Resolved(d, n) ==
    Candidates(d, n)[CHOOSE i \in Present(d, n) : \A j \in Present(d, n) : i <= j]

Top == Head(stack)
Import == Head(Top.todo)
Dir == DirOf[Top.file]
Wanted == Resolved(Dir, Import)

\* The innermost call is at an import statement ...
AtImport == ~done /\ Top.todo # <<>>
Resolves == AtImport /\ Present(Dir, Import) # {}

\* ... and has dealt with it.
Advanced == [Top EXCEPT !.todo = Tail(@)]

Complain(code) ==
    /\ errors' = errors \cup {<<code, Top.file, Import>>}
    /\ stack' = <<Advanced>> \o Tail(stack)

\* Seeded fault: break for continue, an unknown module ends the loop.
Bug_CannotResolve ==
    /\ AtImport
    /\ Present(Dir, Import) = {}
    /\ errors' = errors \cup {<<"M000", Top.file, Import>>}
    /\ stack' = <<[Top EXCEPT !.todo = <<>>]>> \o Tail(stack)
    /\ UNCHANGED <<input, visited, bringer, done>>

CannotResolve ==
    /\ AtImport
    /\ Present(Dir, Import) = {}
    /\ Complain("M000")
    /\ UNCHANGED <<input, visited, bringer, done>>

\* Seeded fault: the statement stays in the program and is met again.
Bug_AlreadyVisited ==
    /\ Resolves
    /\ Wanted \in visited
    /\ UNCHANGED importVars

AlreadyVisited ==
    /\ Resolves
    /\ Wanted \in visited
    /\ stack' = <<Advanced>> \o Tail(stack)
    /\ UNCHANGED <<input, visited, errors, bringer, done>>

\* Seeded fault: a file that cannot be opened is passed over in silence.
Bug_CannotOpen ==
    /\ Resolves
    /\ Wanted \notin visited \cup readable
    /\ visited' = visited \cup {Wanted}
    /\ stack' = <<Advanced>> \o Tail(stack)
    /\ UNCHANGED <<input, errors, bringer, done>>

\* The file counts as visited even so: a second import of it says nothing.
CannotOpen ==
    /\ Resolves
    /\ Wanted \notin visited \cup readable
    /\ visited' = visited \cup {Wanted}
    /\ Complain("M001")
    /\ UNCHANGED <<input, bringer, done>>

\* Seeded fault: the guard is not told of the file that is entered.
Bug_Descend ==
    /\ Resolves
    /\ Wanted \in readable \ visited
    /\ bringer' = [bringer EXCEPT ![Wanted] = Top.file]
    /\ stack' = <<Call(Wanted), Advanced>> \o Tail(stack)
    /\ UNCHANGED <<input, visited, errors, done>>

Descend ==
    /\ Resolves
    /\ Wanted \in readable \ visited
    /\ visited' = visited \cup {Wanted}
    /\ bringer' = [bringer EXCEPT ![Wanted] = Top.file]
    /\ stack' = <<Call(Wanted), Advanced>> \o Tail(stack)
    /\ UNCHANGED <<input, errors, done>>

\* Seeded fault: spliced at the end.
Bug_SpliceEnd ==
    /\ ~done
    /\ Top.todo = <<>>
    /\ Len(stack) > 1
    /\ stack' = [Tail(stack) EXCEPT ![1].decls = @ \o Top.decls]
    /\ UNCHANGED <<input, visited, errors, bringer, done>>

\* A call returns: what it merged goes before all its caller has so far.
Splice ==
    /\ ~done
    /\ Top.todo = <<>>
    /\ Len(stack) > 1
    /\ stack' = [Tail(stack) EXCEPT ![1].decls = Top.decls \o @]
    /\ UNCHANGED <<input, visited, errors, bringer, done>>

Finish ==
    /\ ~done
    /\ Top.todo = <<>>
    /\ Len(stack) = 1
    /\ done' = TRUE
    /\ UNCHANGED <<input, stack, visited, errors, bringer>>

ImportNext ==
    \/ CannotResolve
    \/ AlreadyVisited
    \/ CannotOpen
    \/ Descend
    \/ Splice
    \/ Finish

ImportSpec == ImportInit /\ [][ImportNext]_importVars

-----------------------------------------------------------------------------
(* Properties.                                                              *)

\* The merged program, once there is one.
Merged == stack[1].decls

\* The files that imports lead to from f, whatever the order of visits.
Imported(f) ==
    {Resolved(DirOf[f], imports[f][i]) :
        i \in {j \in DOMAIN imports[f] : Present(DirOf[f], imports[f][j]) # {}}}

\* The files that can be reached over readable files: the least set that has
\* the root and, with a file, what it imports.
Reachable ==
    {f \in EcFiles : \A S \in SUBSET EcFiles :
        /\ Root \in S
        /\ \A g \in S : Imported(g) \cap readable \subseteq S
        => f \in S}

\* A missing or unreadable import costs its own declarations only: in the end
\* the program has those of every file that can be reached, and no other.
MergesReachable ==
    done => {Merged[i] : i \in DOMAIN Merged} = Reachable

\* Nothing is imported twice: at no time do two places of the programs under
\* way hold the declarations of the same file, the root's apart.
NoFileTwice ==
    \A i, j \in DOMAIN stack :
        \A k \in DOMAIN stack[i].decls : \A l \in DOMAIN stack[j].decls :
            /\ stack[i].decls[k] = stack[j].decls[l]
            /\ stack[i].decls[k] # Root
            => i = j /\ k = l

\* ... because what is merged so far, the root apart, has been visited.
MergedVisited ==
    \A i \in DOMAIN stack : \A k \in DOMAIN stack[i].decls :
        stack[i].decls[k] \in visited \cup {Root}

\* The declarations of a module are there before those of the module whose
\* import brought it in, and the root's come last.
BroughtInBefore ==
    done =>
        /\ Merged[Len(Merged)] = Root
        /\ \A k \in DOMAIN Merged : k < Len(Merged) =>
              \E l \in DOMAIN Merged : k < l /\ Merged[l] = bringer[Merged[k]]

\* A program merged without a diagnostic has all it asked for: every import
\* of every merged file led to a merged file.
SilenceMeansComplete ==
    done /\ errors = {} =>
        \A k \in DOMAIN Merged : \A i \in DOMAIN imports[Merged[k]] :
            LET d == DirOf[Merged[k]]
                n == imports[Merged[k]][i]
            IN  /\ Present(d, n) # {}
                /\ \E l \in DOMAIN Merged : Merged[l] = Resolved(d, n)
=============================================================================
