------------------------ MODULE PackageManagerProofs ------------------------
(***************************************************************************)
(* Proofs about PackageManager, for every registry, every number of        *)
(* processes and every bound.                                              *)
(***************************************************************************)
EXTENDS PackageManager, SharedLemmas, TLAPS

\* Returning from a call gives back a frame that was put away well-typed:
\* used wherever the code of add() or remove() returns.
LEMMA ReturnType ==
    ASSUME TypeOK, NEW p \in Procs, Return(p)
    PROVE  /\ pc' \in [Procs -> Locations]
           /\ pkg' \in [Procs -> Names]
           /\ deps' \in [Procs -> SUBSET Names]
           /\ stack' \in [Procs -> Seq(Frames)]
           /\ \A q \in Procs :
                 /\ pc'[q] \in {"deps", "copy", "copying", "read"} => pkg'[q] \in Registered
                 /\ pc'[q] = "copying" => pc[q] = "copying"
<1>1. CASE stack[p] = <<>>
  BY <1>1 DEF Return, TypeOK, Locations
<1>2. CASE stack[p] # <<>>
  <2>1. stack[p] \in Seq(Frames)
    BY DEF TypeOK
  <2>2. /\ Head(stack[p]) \in Frames
        /\ Tail(stack[p]) \in Seq(Frames)
    BY <1>2, <2>1, HeadTailProperties
  <2>3. /\ Head(stack[p]).pkg \in Registered
        /\ Head(stack[p]).deps \in SUBSET Names
    BY <2>2 DEF Frames
  <2>4. /\ pc' = [pc EXCEPT ![p] = "deps"]
        /\ pkg' = [pkg EXCEPT ![p] = Head(stack[p]).pkg]
        /\ deps' = [deps EXCEPT ![p] = Head(stack[p]).deps]
        /\ stack' = [stack EXCEPT ![p] = Tail(stack[p])]
    BY <1>2 DEF Return
  <2>5. /\ stack' \in [Procs -> Seq(Frames)]
        /\ pc' \in [Procs -> Locations]
        /\ deps' \in [Procs -> SUBSET Names]
    BY <2>2, <2>3, <2>4 DEF TypeOK, Locations
  <2>6. pkg' \in [Procs -> Names]
    BY <2>3, <2>4, NamesAssumption DEF TypeOK
  <2>7. ASSUME NEW q \in Procs,
               pc'[q] \in {"deps", "copy", "copying", "read"}
        PROVE  pkg'[q] \in Registered
    BY <2>3, <2>4, <2>7 DEF TypeOK
  <2>8. ASSUME NEW q \in Procs, pc'[q] = "copying"
        PROVE  pc[q] = "copying"
    BY <2>4, <2>8 DEF TypeOK
  <2>9. QED
    BY <2>5, <2>6, <2>7, <2>8
<1>3. QED
  BY <1>1, <1>2

LEMMA InitType == Init => TypeOK
<1>1. (CHOOSE n \in Names : TRUE) \in Names
  BY NamesAssumption
<1>2. <<>> \in Seq(Frames)
  BY EmptySeq
<1>3. QED
  BY <1>1, <1>2, NamesAssumption, BoundsAssumption
  DEF Init, TypeOK, Locations, Listable

LEMMA StartType ==
    ASSUME TypeOK, NEW p \in Procs, NEW name \in Names,
           CmdAdd(p, name) \/ CmdRemove(p, name) \/ CmdInit(p)
    PROVE  TypeOK'
<1>1. <<>> \in Seq(Frames)
  BY EmptySeq
<1>2. CASE CmdAdd(p, name)
  BY <1>1, <1>2, BoundsAssumption
  DEF CmdAdd, Start, TypeOK, Locations, disk, history
<1>3. CASE CmdRemove(p, name)
  BY <1>1, <1>3, BoundsAssumption
  DEF CmdRemove, Start, TypeOK, Locations, disk, history
<1>4. CASE CmdInit(p)
  BY <1>1, <1>4, BoundsAssumption
  DEF CmdInit, Start, TypeOK, Locations, disk, history
<1>5. QED
  BY <1>2, <1>3, <1>4

LEMMA WorkType ==
    ASSUME TypeOK, NEW p \in Procs, Work(p)
    PROVE  TypeOK'
<1>1. CASE AddEnter(p)
  <2>1. CASE Return(p)
    BY <1>1, <2>1, ReturnType DEF AddEnter, TypeOK, disk, history, bounds
  <2>2. CASE ~Return(p)
    BY <1>1, <2>2, NamesAssumption
    DEF AddEnter, TypeOK, Locations, disk, history, bounds
  <2>3. QED
    BY <2>1, <2>2
<1>2. CASE AddDependency(p)
  <2>1. PICK d \in deps[p] : AddDependency(p)!2!(d)
    BY <1>2 DEF AddDependency
  <2>2. CASE d \in manifest
    <3>1. /\ deps' = [deps EXCEPT ![p] = deps[p] \ {d}]
          /\ UNCHANGED <<pc, pkg, stack>>
          /\ UNCHANGED <<disk, todo, snap, history, bounds>>
      BY <1>2, <2>1, <2>2 DEF AddDependency
    <3>2. QED
      BY <3>1 DEF TypeOK, disk, history, bounds
  <2>3. CASE d \notin manifest
    <3>1. [pkg |-> pkg[p], deps |-> deps[p] \ {d}] \in Frames
      BY <1>2 DEF AddDependency, TypeOK, Frames
    <3>2. <<[pkg |-> pkg[p], deps |-> deps[p] \ {d}]>> \o stack[p] \in Seq(Frames)
      BY <3>1, ConcatProperties DEF TypeOK
    <3>3. d \in Names
      BY DEF TypeOK
    <3>4. QED
      BY <1>2, <2>1, <2>3, <3>2, <3>3
      DEF AddDependency, TypeOK, Locations, disk, history, bounds
  <2>4. QED
    BY <2>2, <2>3
<1>3. CASE AddDirectories(p)
  BY <1>3, NamesAssumption
  DEF AddDirectories, TypeOK, Locations, disk, history, bounds
<1>4. CASE AddCopyOpen(p)
  BY <1>4 DEF AddCopyOpen, TypeOK, Locations, local, history, bounds
<1>5. CASE AddCopyClose(p)
  <2>1. NextFile(p) \in todo[p]
    BY <1>5 DEF AddCopyClose, TypeOK, NextFile
  <2>2. /\ files' = [files EXCEPT ![pkg[p]] = files[pkg[p]] \cup {NextFile(p)}]
        /\ todo' = [todo EXCEPT ![p] = todo[p] \ {NextFile(p)}]
        /\ pc' = [pc EXCEPT ![p] = "copy"]
        /\ UNCHANGED <<manifest, pkg, deps, snap, stack, history, bounds>>
        /\ pc[p] = "copying"
    BY <1>5 DEF AddCopyClose
  <2>3. NextFile(p) \in Files
    BY <2>1 DEF TypeOK
  <2>4. /\ files' \in [Names -> SUBSET Files]
        /\ todo' \in [Procs -> SUBSET Files]
        /\ pc' \in [Procs -> Locations]
    BY <2>2, <2>3 DEF TypeOK, Locations
  <2>5. QED
    BY <2>2, <2>4 DEF TypeOK, history, bounds
<1>6. CASE AddCopied(p)
  BY <1>6 DEF AddCopied, TypeOK, Locations, disk, local, bounds
<1>7. CASE AddReadManifest(p)
  BY <1>7 DEF AddReadManifest, TypeOK, Locations, Listable, disk, history, bounds
<1>8. CASE RemoveCheck(p)
  <2>1. CASE pkg[p] \in manifest
    <3>1. /\ pc' = [pc EXCEPT ![p] = "unlink"]
          /\ removed' = removed \cup {pkg[p]}
          /\ UNCHANGED <<pkg, deps, stack>>
          /\ UNCHANGED <<disk, todo, snap, copied, bounds>>
      BY <1>8, <2>1 DEF RemoveCheck
    <3>2. QED
      BY <3>1 DEF TypeOK, Locations, disk, bounds
  <2>2. CASE pkg[p] \notin manifest
    BY <1>8, <2>2, ReturnType DEF RemoveCheck, TypeOK, disk, bounds
  <2>3. QED
    BY <2>1, <2>2
<1>9. CASE RemoveFile(p)
  BY <1>9 DEF RemoveFile, TypeOK, local, history, bounds
<1>10. CASE RemoveAllDone(p)
  BY <1>10 DEF RemoveAllDone, TypeOK, Locations, disk, local, history, bounds
<1>11. CASE RemoveReadManifest(p)
  BY <1>11 DEF RemoveReadManifest, TypeOK, Locations, disk, history, bounds
<1>12. CASE WriteTruncate(p)
  BY <1>12 DEF WriteTruncate, TypeOK, Locations, local, history, bounds
<1>13. CASE WriteClose(p)
  <2>1. manifest' \in SUBSET Listable
    BY <1>13 DEF WriteClose, TypeOK, Listable
  <2>2. Return(p) /\ removed' \in SUBSET Names
    BY <1>13 DEF WriteClose, TypeOK
  <2>3. QED
    BY <1>13, <2>1, <2>2, ReturnType DEF WriteClose, TypeOK, bounds
<1>14. QED
  BY <1>1, <1>2, <1>3, <1>4, <1>5, <1>6, <1>7, <1>8, <1>9, <1>10, <1>11,
     <1>12, <1>13 DEF Work

LEMMA NextType == TypeOK /\ [Next]_vars => TypeOK'
<1> SUFFICES ASSUME TypeOK, [Next]_vars
             PROVE  TypeOK'
  OBVIOUS
<1>1. ASSUME NEW p \in Procs, Crash(p)
      PROVE  TypeOK'
  <2>1. <<>> \in Seq(Frames)
    BY EmptySeq
  <2>2. QED
    BY <1>1, <2>1, BoundsAssumption DEF Crash, TypeOK, Locations, disk, history
<1>2. CASE UNCHANGED vars
  BY <1>2 DEF TypeOK, vars
<1>3. QED
  BY <1>1, <1>2, StartType, WorkType, NamesAssumption DEF Next

\* The variables keep the types the structures of manager.cpp give them, and
\* add() works on a registered package from its dependency loop on.
THEOREM TypeCorrect == Spec => []TypeOK
<1>1. QED
  BY InitType, NextType, PTL DEF Spec

-----------------------------------------------------------------------------
\* After a return no call is in the states CopiedInv speaks of but those that
\* were there before, with the same package and the same map.
LEMMA ReturnLocations ==
    ASSUME TypeOK, NEW p \in Procs, Return(p), NEW q \in Procs,
           pc'[q] \in {"copy", "copying", "read", "unlink", "reread", "truncate", "write"}
    PROVE  q # p /\ pc'[q] = pc[q] /\ pkg'[q] = pkg[q]
<1>1. CASE stack[p] = <<>>
  BY <1>1 DEF Return, TypeOK
<1>2. CASE stack[p] # <<>>
  <2>1. /\ pc' = [pc EXCEPT ![p] = "deps"]
        /\ pkg' = [pkg EXCEPT ![p] = Head(stack[p]).pkg]
    BY <1>2 DEF Return
  <2>2. QED
    BY <2>1 DEF TypeOK
<1>3. QED
  BY <1>1, <1>2

LEMMA NextCopied == TypeOK /\ CopiedInv /\ [Next]_vars => CopiedInv'
<1> SUFFICES ASSUME TypeOK, CopiedInv, [Next]_vars
             PROVE  CopiedInv'
  OBVIOUS
<1> USE DEF CopiedInv, ListedWasCopied
<1>1. CASE UNCHANGED vars
  BY <1>1 DEF vars
<1>2. ASSUME NEW p \in Procs, NEW name \in Names, CmdAdd(p, name) \/ CmdRemove(p, name)
      PROVE  CopiedInv'
  BY <1>2 DEF CmdAdd, CmdRemove, Start, TypeOK, disk, history
<1>3. ASSUME NEW p \in Procs, CmdInit(p)
      PROVE  CopiedInv'
  BY <1>3 DEF CmdInit, Start, TypeOK, disk, history
<1>4. ASSUME NEW p \in Procs, Crash(p)
      PROVE  CopiedInv'
  BY <1>4 DEF Crash, TypeOK, disk, history
<1>5. ASSUME NEW p \in Procs, Work(p)
      PROVE  CopiedInv'
  <2>1. CASE AddEnter(p)
    <3>1. CASE Return(p)
      BY <2>1, <3>1, ReturnLocations DEF AddEnter, disk, history
    <3>2. CASE ~Return(p)
      BY <2>1, <3>2 DEF AddEnter, TypeOK, disk, history
    <3>3. QED
      BY <3>1, <3>2
  <2>2. CASE AddDependency(p)
    <3>1. /\ UNCHANGED <<manifest, copied, snap>>
          /\ pc[p] = "deps"
          /\ \A q \in Procs : q # p => pc'[q] = pc[q] /\ pkg'[q] = pkg[q]
          /\ pc'[p] \in {"deps", "enter"}
      BY <2>2 DEF AddDependency, TypeOK, disk, history
    <3>2. QED
      BY <3>1
  <2>3. CASE AddDirectories(p)
    BY <2>3 DEF AddDirectories, TypeOK, disk, history
  <2>4. CASE AddCopyOpen(p)
    BY <2>4 DEF AddCopyOpen, TypeOK, local, history
  <2>5. CASE AddCopyClose(p)
    BY <2>5 DEF AddCopyClose, TypeOK, history
  <2>6. CASE AddCopied(p)
    BY <2>6 DEF AddCopied, TypeOK, disk, local
  <2>7. CASE AddReadManifest(p)
    BY <2>7 DEF AddReadManifest, TypeOK, disk, history
  <2>8. CASE RemoveCheck(p)
    <3>1. CASE pkg[p] \in manifest
      BY <2>8, <3>1 DEF RemoveCheck, TypeOK, disk
    <3>2. CASE pkg[p] \notin manifest
      BY <2>8, <3>2, ReturnLocations DEF RemoveCheck, disk
    <3>3. QED
      BY <3>1, <3>2
  <2>9. CASE RemoveFile(p)
    BY <2>9 DEF RemoveFile, local, history
  <2>10. CASE RemoveAllDone(p)
    BY <2>10 DEF RemoveAllDone, TypeOK, disk, local, history
  <2>11. CASE RemoveReadManifest(p)
    BY <2>11 DEF RemoveReadManifest, TypeOK, disk, history
  <2>12. CASE WriteTruncate(p)
    BY <2>12 DEF WriteTruncate, TypeOK, local, history
  <2>13. CASE WriteClose(p)
    <3>1. manifest' \subseteq copied \cup {Junk}
      BY <2>13 DEF WriteClose
    <3>2. Return(p) /\ UNCHANGED <<snap, copied>>
      BY <2>13 DEF WriteClose
    <3>3. QED
      BY <3>1, <3>2, ReturnLocations
  <2>14. QED
    BY <1>5, <2>1, <2>2, <2>3, <2>4, <2>5, <2>6, <2>7, <2>8, <2>9, <2>10,
       <2>11, <2>12, <2>13 DEF Work
<1>6. QED
  BY <1>1, <1>2, <1>3, <1>4, <1>5 DEF Next

\* However many processes work on one project directory and wherever they are
\* killed, the manifest never lists a package add() has not copied.
THEOREM OnlyCopiedIsListed == Spec => []ListedWasCopied
<1>1. Init => CopiedInv
  BY DEF Init, CopiedInv, ListedWasCopied
<1>2. CopiedInv => ListedWasCopied
  BY DEF CopiedInv
<1>3. QED
  BY <1>1, <1>2, NextCopied, TypeCorrect, PTL DEF Spec

-----------------------------------------------------------------------------
(* One engc process at a time.                                              *)

OneProcess == \A p, q \in Procs : p = q

LEMMA DepRankDecreases ==
    /\ DepRank \in [Registered -> Int]
    /\ \A n \in Registered : \A d \in Deps[n] \cap Registered : DepRank[d] < DepRank[n]
<1> DEFINE Rank(r) == \A n \in Registered : \A d \in Deps[n] \cap Registered : r[d] < r[n]
<1>1. \E r \in [Registered -> 0..Cardinality(Registered)] : Rank(r)
  BY AcyclicAssumption
<1>2. DepRank = CHOOSE r \in [Registered -> 0..Cardinality(Registered)] : Rank(r)
  BY DEF DepRank
<1> HIDE DEF Rank
<1>3. DepRank \in [Registered -> 0..Cardinality(Registered)] /\ Rank(DepRank)
  BY <1>1, <1>2
<1>4. \A c : 0..c \subseteq Int
  OBVIOUS
<1>5. QED
  BY <1>3, <1>4 DEF Rank

\* What StackInv says of the stack s of a process at location at, whose
\* innermost call is on package n and whose map is map, beside a manifest.
StackOf(s, at, n, map, listed) ==
    \A i \in DOMAIN s :
        /\ s[i].pkg \notin listed
        /\ s[i].deps \subseteq Deps[s[i].pkg]
        /\ at # "idle" /\ n \in Registered => DepRank[n] < DepRank[s[i].pkg]
        /\ at \in {"truncate", "write"} => s[i].pkg \notin map
        /\ \A j \in DOMAIN s : i < j => DepRank[s[i].pkg] < DepRank[s[j].pkg]

\* StackInv for one process, with the stack set apart.
StackInvOf(p) ==
    /\ StackOf(stack[p], pc[p], pkg[p], snap[p], manifest)
    /\ pc[p] = "deps" => deps[p] \subseteq Deps[pkg[p]]
    /\ pc[p] \in {"deps", "copy", "copying", "read"} => pkg[p] \notin manifest
    /\ pc[p] \in {"idle", "check", "unlink", "reread"} => stack[p] = <<>>
    /\ pc[p] = "write" => manifest = {}

LEMMA StackInvSplit == StackInv <=> \A p \in Procs : StackInvOf(p)
BY DEF StackInv, StackInvOf, StackOf

\* A return hands the invariant of the suspended call to the resumed one.
LEMMA ReturnStack ==
    ASSUME TypeOK, NEW p \in Procs, Return(p),
           NEW listed,
           StackOf(stack[p], "enter", pkg[p], {}, listed)
    PROVE  /\ StackOf(stack'[p], pc'[p], pkg'[p], snap'[p], listed)
           /\ pc'[p] \in {"idle", "deps"}
           /\ pc'[p] = "deps" => deps'[p] \subseteq Deps[pkg'[p]] /\ pkg'[p] \notin listed
           /\ pc'[p] = "idle" => stack'[p] = <<>>
<1>1. CASE stack[p] = <<>>
  BY <1>1 DEF Return, TypeOK, StackOf
<1>2. CASE stack[p] # <<>>
  <2> DEFINE s == stack[p]
  <2>1. s \in Seq(Frames)
    BY DEF TypeOK
  <2>2. /\ pc'[p] = "deps"
        /\ pkg'[p] = s[1].pkg
        /\ deps'[p] = s[1].deps
        /\ stack'[p] = Tail(s)
    BY <1>2, <2>1, PopFrame DEF Return, TypeOK
  <2>3. s[1] \in Frames
    BY <1>2, <2>1, PopFrame
  <2>4. s[1].pkg \notin listed /\ s[1].deps \subseteq Deps[s[1].pkg]
    BY <1>2, <2>1, PopFrame DEF StackOf
  <2>5. ASSUME NEW i \in DOMAIN Tail(s)
        PROVE  /\ Tail(s)[i].pkg \notin listed
               /\ Tail(s)[i].deps \subseteq Deps[Tail(s)[i].pkg]
               /\ DepRank[s[1].pkg] < DepRank[Tail(s)[i].pkg]
               /\ \A j \in DOMAIN Tail(s) :
                     i < j => DepRank[Tail(s)[i].pkg] < DepRank[Tail(s)[j].pkg]
    <3>1. i + 1 \in DOMAIN s /\ Tail(s)[i] = s[i + 1] /\ 1 \in DOMAIN s /\ i \in Nat /\ 1 < i + 1
      BY <1>2, <2>1, PopFrame
    <3>2. ASSUME NEW j \in DOMAIN Tail(s), i < j
          PROVE  DepRank[Tail(s)[i].pkg] < DepRank[Tail(s)[j].pkg]
      <4>1. j + 1 \in DOMAIN s /\ Tail(s)[j] = s[j + 1] /\ j \in Nat
        BY <1>2, <2>1, PopFrame
      <4>2. i + 1 < j + 1
        BY <3>1, <3>2, <4>1
      <4>3. QED
        BY <3>1, <4>1, <4>2 DEF StackOf
    <3>3. QED
      BY <3>1, <3>2 DEF StackOf
  <2>6. QED
    BY <2>2, <2>4, <2>5 DEF StackOf
<1>3. QED
  BY <1>1, <1>2

LEMMA InitStack == Init => StackInv
<1> SUFFICES ASSUME Init
             PROVE  StackInv
  OBVIOUS
<1>1. DOMAIN <<>> = {}
  OBVIOUS
<1>2. QED
  BY <1>1 DEF Init, StackInv

LEMMA NextStack ==
    ASSUME OneProcess
    PROVE  TypeOK /\ TypeOK' /\ StackInv /\ [Next]_vars => StackInv'
<1> SUFFICES ASSUME TypeOK, TypeOK', StackInv, [Next]_vars
             PROVE  StackInv'
  OBVIOUS
<1>1. CASE UNCHANGED vars
  BY <1>1 DEF vars, StackInv
<1>2. ASSUME NEW p \in Procs, StackInvOf(p)'
      PROVE  StackInv'
  BY <1>2 DEF OneProcess, StackInv, StackInvOf, StackOf
<1>3. ASSUME NEW p \in Procs
      PROVE  StackInvOf(p)
  BY StackInvSplit
<1>4. DOMAIN <<>> = {}
  OBVIOUS
<1>5. ASSUME NEW p \in Procs, NEW name \in Names,
             CmdAdd(p, name) \/ CmdRemove(p, name) \/ CmdInit(p) \/ Crash(p)
      PROVE  StackInv'
  <2>1. /\ stack'[p] = <<>>
        /\ pc'[p] \in {"idle", "enter", "check", "truncate"}
    BY <1>5 DEF CmdAdd, CmdRemove, CmdInit, Start, Crash, TypeOK
  <2>2. StackInvOf(p)'
    BY <1>4, <2>1 DEF StackInvOf, StackOf
  <2>3. QED
    BY <1>2, <2>2
<1>6. ASSUME NEW p \in Procs, Work(p)
      PROVE  StackInv'
  <2> SUFFICES StackInvOf(p)'
    BY <1>2
  <2>1. StackInvOf(p)
    BY <1>3
  <2>2. CASE AddEnter(p)
    <3>1. CASE Return(p)
      <4>1. UNCHANGED manifest /\ pc[p] = "enter"
        BY <2>2 DEF AddEnter, disk
      <4>2. StackOf(stack[p], "enter", pkg[p], {}, manifest)
        BY <2>1, <4>1 DEF StackInvOf, StackOf
      <4>3. QED
        BY <3>1, <4>1, <4>2, ReturnStack DEF StackInvOf
    <3>2. CASE ~Return(p)
      <4>1. /\ UNCHANGED <<manifest, stack, pkg, snap>>
            /\ pc[p] = "enter" /\ pc'[p] = "deps"
            /\ deps'[p] = Deps[pkg[p]]
            /\ pkg[p] \notin manifest
        BY <2>2, <3>2 DEF AddEnter, TypeOK, disk
      <4>2. QED
        BY <2>1, <4>1 DEF StackInvOf, StackOf
    <3>3. QED
      BY <3>1, <3>2
  <2>3. CASE AddDependency(p)
    <3>1. PICK d \in deps[p] : AddDependency(p)!2!(d)
      BY <2>3 DEF AddDependency
    <3>2. UNCHANGED <<manifest, snap>> /\ pc[p] = "deps"
      BY <2>3 DEF AddDependency, disk
    <3>3. CASE d \in manifest
      <4>1. UNCHANGED <<pc, pkg, stack>> /\ deps'[p] = deps[p] \ {d}
        BY <3>1, <3>3 DEF TypeOK
      <4>2. QED
        BY <2>1, <3>2, <4>1 DEF StackInvOf, StackOf
    <3>4. CASE d \notin manifest
      <4> DEFINE f == [pkg |-> pkg[p], deps |-> deps[p] \ {d}]
                 s == stack[p]
      <4>1. /\ stack'[p] = <<f>> \o s
            /\ pkg'[p] = d
            /\ pc'[p] = "enter"
        BY <3>1, <3>4 DEF TypeOK
      <4>2. /\ pkg[p] \in Registered \ manifest
            /\ deps[p] \subseteq Deps[pkg[p]]
            /\ f \in Frames /\ s \in Seq(Frames)
        BY <2>1, <3>2 DEF StackInvOf, TypeOK, Frames
      <4>3. f.pkg = pkg[p] /\ f.deps = deps[p] \ {d}
        OBVIOUS
      <4>4. \A i \in DOMAIN s : DepRank[pkg[p]] < DepRank[s[i].pkg]
        BY <2>1, <3>2, <4>2 DEF StackInvOf, StackOf
      <4>5. d \in Registered => DepRank[d] < DepRank[pkg[p]]
        BY <4>2, DepRankDecreases
      <4>6. ASSUME NEW i \in DOMAIN s
            PROVE  s[i].pkg \in Registered
        <5>1. i \in 1..Len(s)
          BY <4>2, <4>6, LenProperties
        <5>2. s[i] \in Frames
          BY <4>2, <5>1, ElementOfSeq
        <5>3. QED
          BY <5>2 DEF Frames
      <4> HIDE DEF f, s
      <4>7. ASSUME NEW i \in DOMAIN (<<f>> \o s)
            PROVE  /\ (<<f>> \o s)[i].pkg \notin manifest
                   /\ (<<f>> \o s)[i].deps \subseteq Deps[(<<f>> \o s)[i].pkg]
                   /\ d \in Registered => DepRank[d] < DepRank[(<<f>> \o s)[i].pkg]
        <5>1. CASE i = 1
          BY <4>2, <4>3, <4>5, <5>1, PushFrame
        <5>2. CASE i # 1
          <6>1. i - 1 \in DOMAIN s /\ (<<f>> \o s)[i] = s[i - 1]
            BY <4>2, <4>7, <5>2, PushFrame
          <6>2. s[i - 1].pkg \notin manifest /\ s[i - 1].deps \subseteq Deps[s[i - 1].pkg]
            BY <2>1, <6>1 DEF StackInvOf, StackOf, s
          <6>3. d \in Registered => DepRank[d] < DepRank[s[i - 1].pkg]
            BY <4>2, <4>4, <4>5, <4>6, <6>1, DepRankDecreases
          <6>4. QED
            BY <6>1, <6>2, <6>3
        <5>3. QED
          BY <5>1, <5>2
      <4>8. ASSUME NEW i \in DOMAIN (<<f>> \o s), NEW j \in DOMAIN (<<f>> \o s), i < j
            PROVE  DepRank[(<<f>> \o s)[i].pkg] < DepRank[(<<f>> \o s)[j].pkg]
        <5>1. i \in Nat /\ j \in Nat /\ j # 1 /\ j - 1 \in DOMAIN s /\ (<<f>> \o s)[j] = s[j - 1]
          BY <4>2, <4>8, PushFrame
        <5>2. CASE i = 1
          BY <4>2, <4>3, <4>4, <5>1, <5>2, PushFrame
        <5>3. CASE i # 1
          <6>1. i - 1 \in DOMAIN s /\ (<<f>> \o s)[i] = s[i - 1] /\ i - 1 < j - 1
            BY <4>2, <4>8, <5>1, <5>3, PushFrame
          <6>2. QED
            BY <2>1, <5>1, <6>1 DEF StackInvOf, StackOf, s
        <5>4. QED
          BY <5>2, <5>3
      <4>9. StackOf(stack'[p], "enter", d, snap'[p], manifest')
        BY <3>2, <4>1, <4>7, <4>8 DEF StackOf
      <4>10. QED
        BY <4>1, <4>9 DEF StackInvOf
    <3>5. QED
      BY <3>3, <3>4
  <2>4. CASE AddDirectories(p)
    BY <2>1, <2>4 DEF AddDirectories, StackInvOf, StackOf, TypeOK, disk
  <2>5. CASE AddCopyOpen(p)
    BY <2>1, <2>5 DEF AddCopyOpen, StackInvOf, StackOf, TypeOK, local
  <2>6. CASE AddCopyClose(p)
    BY <2>1, <2>6 DEF AddCopyClose, StackInvOf, StackOf, TypeOK
  <2>7. CASE AddCopied(p)
    BY <2>1, <2>7 DEF AddCopied, StackInvOf, StackOf, TypeOK, disk, local
  <2>8. CASE AddReadManifest(p)
    <3>1. /\ UNCHANGED <<manifest, pkg, stack>>
          /\ pc[p] = "read" /\ pc'[p] = "truncate"
          /\ snap'[p] = manifest \cup {pkg[p]}
          /\ pkg[p] \in Registered
      BY <2>8 DEF AddReadManifest, TypeOK, disk
    <3>2. \A i \in DOMAIN stack[p] : stack[p][i].pkg # pkg[p]
      <4>1. ASSUME NEW i \in DOMAIN stack[p]
            PROVE  DepRank[pkg[p]] < DepRank[stack[p][i].pkg]
        BY <2>1, <3>1 DEF StackInvOf, StackOf
      <4>2. QED
        BY <3>1, <4>1, DepRankDecreases
    <3>3. QED
      BY <2>1, <3>1, <3>2 DEF StackInvOf, StackOf
  <2>9. CASE RemoveCheck(p)
    <3>1. stack[p] = <<>>
      BY <2>1, <2>9 DEF RemoveCheck, StackInvOf
    <3>2. stack'[p] = <<>> /\ pc'[p] \in {"unlink", "idle"}
      BY <2>9, <3>1 DEF RemoveCheck, Return, TypeOK
    <3>3. QED
      BY <1>4, <3>2 DEF StackInvOf, StackOf
  <2>10. CASE RemoveFile(p)
    BY <2>1, <2>10 DEF RemoveFile, StackInvOf, StackOf, local
  <2>11. CASE RemoveAllDone(p)
    BY <2>1, <2>11 DEF RemoveAllDone, StackInvOf, StackOf, TypeOK, disk, local
  <2>12. CASE RemoveReadManifest(p)
    <3>1. stack'[p] = <<>> /\ pc'[p] = "truncate"
      BY <2>1, <2>12 DEF RemoveReadManifest, StackInvOf, TypeOK
    <3>2. QED
      BY <1>4, <3>1 DEF StackInvOf, StackOf
  <2>13. CASE WriteTruncate(p)
    <3>1. /\ UNCHANGED <<pkg, stack, snap>>
          /\ manifest' = {}
          /\ pc[p] = "truncate" /\ pc'[p] = "write"
      BY <2>13 DEF WriteTruncate, TypeOK, local
    <3>2. QED
      BY <2>1, <3>1 DEF StackInvOf, StackOf
  <2>14. CASE WriteClose(p)
    <3>1. manifest' = snap[p] /\ pc[p] = "write" /\ Return(p)
      BY <2>1, <2>14 DEF WriteClose, StackInvOf
    <3>2. StackOf(stack[p], "enter", pkg[p], {}, manifest')
      BY <2>1, <3>1 DEF StackInvOf, StackOf
    <3>3. QED
      BY <3>1, <3>2, ReturnStack DEF StackInvOf
  <2>15. QED
    BY <1>6, <2>2, <2>3, <2>4, <2>5, <2>6, <2>7, <2>8, <2>9, <2>10, <2>11,
       <2>12, <2>13, <2>14 DEF Work
<1>7. QED
  BY <1>1, <1>5, <1>6, NamesAssumption DEF Next

LEMMA InitWhole == Init => WholeInv
BY DEF Init, WholeInv, ListedIsWhole

\* What WholeInv says of one process.
WholeInvOf(p) ==
    /\ pc[p] \in {"copy", "copying"} => SrcFiles[pkg[p]] \ todo[p] \subseteq files[pkg[p]]
    /\ pc[p] = "read" => Complete(pkg[p])
    /\ pc[p] \in {"truncate", "write"} =>
          \A n \in snap[p] \cap Registered : Complete(n) \/ n \in removed \ {pkg[p]}
    /\ pc[p] \in {"unlink", "reread"} => pkg[p] \in removed

LEMMA NextWhole ==
    ASSUME OneProcess
    PROVE  TypeOK /\ StackInv /\ WholeInv /\ [Next]_vars => WholeInv'
<1> SUFFICES ASSUME TypeOK, StackInv, WholeInv, [Next]_vars
             PROVE  WholeInv'
  OBVIOUS
<1> USE DEF ListedIsWhole, Complete
<1>1. CASE UNCHANGED vars
  BY <1>1 DEF vars, WholeInv
<1>2. ASSUME NEW p \in Procs, ListedIsWhole', WholeInvOf(p)'
      PROVE  WholeInv'
  BY <1>2 DEF OneProcess, WholeInv, WholeInvOf
<1>3. ASSUME NEW p \in Procs
      PROVE  ListedIsWhole /\ WholeInvOf(p)
  BY DEF WholeInv, WholeInvOf
<1>4. ASSUME NEW p \in Procs, NEW name \in Names, CmdAdd(p, name) \/ CmdRemove(p, name)
      PROVE  WholeInv'
  <2>1. pc'[p] \in {"enter", "check"} /\ UNCHANGED <<manifest, files, removed>>
    BY <1>4 DEF CmdAdd, CmdRemove, Start, TypeOK, disk, history
  <2>2. QED
    BY <1>2, <1>3, <2>1 DEF WholeInvOf
<1>5. ASSUME NEW p \in Procs, CmdInit(p)
      PROVE  WholeInv'
  <2>1. /\ pc'[p] = "truncate" /\ snap'[p] = {}
        /\ UNCHANGED <<manifest, files, removed>>
    BY <1>5 DEF CmdInit, Start, TypeOK, disk, history
  <2>2. QED
    BY <1>2, <1>3, <2>1 DEF WholeInvOf
<1>6. ASSUME NEW p \in Procs, Crash(p)
      PROVE  WholeInv'
  <2>1. pc'[p] = "idle" /\ UNCHANGED <<manifest, files, removed>>
    BY <1>6 DEF Crash, TypeOK, disk, history
  <2>2. QED
    BY <1>2, <1>3, <2>1 DEF WholeInvOf
<1>7. ASSUME NEW p \in Procs, Work(p)
      PROVE  WholeInv'
  <2> SUFFICES ListedIsWhole' /\ WholeInvOf(p)'
    BY <1>2
  <2>1. ListedIsWhole /\ WholeInvOf(p)
    BY <1>3
  <2>2. CASE AddEnter(p)
    <3>1. UNCHANGED <<manifest, files, removed>>
      BY <2>2 DEF AddEnter, disk, history
    <3>2. pc'[p] \in {"idle", "deps"}
      BY <2>2 DEF AddEnter, Return, TypeOK
    <3>3. QED
      BY <2>1, <3>1, <3>2 DEF WholeInvOf
  <2>3. CASE AddDependency(p)
    <3>1. /\ UNCHANGED <<manifest, files, removed>>
          /\ pc'[p] \in {"deps", "enter"}
      BY <2>3 DEF AddDependency, TypeOK, disk, history
    <3>2. QED
      BY <2>1, <3>1 DEF WholeInvOf
  <2>4. CASE AddDirectories(p)
    <3>1. /\ UNCHANGED <<manifest, files, removed, pkg>>
          /\ pc'[p] = "copy"
          /\ todo'[p] = SrcFiles[pkg[p]]
      BY <2>4 DEF AddDirectories, TypeOK, disk, history
    <3>2. QED
      BY <2>1, <3>1 DEF WholeInvOf
  <2>5. CASE AddCopyOpen(p)
    <3>1. /\ UNCHANGED <<manifest, removed, pkg, todo>>
          /\ pc[p] = "copy" /\ pc'[p] = "copying"
          /\ files' = [files EXCEPT ![pkg[p]] = files[pkg[p]] \ {NextFile(p)}]
          /\ todo[p] # {}
      BY <2>5 DEF AddCopyOpen, TypeOK, local, history
    <3>2. NextFile(p) \in todo[p]
      BY <3>1 DEF NextFile
    <3>3. pkg[p] \notin manifest
      BY <3>1 DEF StackInv
    <3>4. \A n \in Names \ {pkg[p]} : files'[n] = files[n]
      BY <3>1 DEF TypeOK
    <3>5. ListedIsWhole'
      BY <2>1, <3>1, <3>3, <3>4, NamesAssumption
    <3>6. SrcFiles[pkg[p]] \ todo[p] \subseteq files'[pkg[p]]
      BY <2>1, <3>1, <3>2 DEF WholeInvOf, TypeOK
    <3>7. QED
      BY <3>1, <3>5, <3>6 DEF WholeInvOf
  <2>6. CASE AddCopyClose(p)
    <3>1. /\ UNCHANGED <<manifest, removed, pkg>>
          /\ pc[p] = "copying" /\ pc'[p] = "copy"
          /\ files' = [files EXCEPT ![pkg[p]] = files[pkg[p]] \cup {NextFile(p)}]
          /\ todo'[p] = todo[p] \ {NextFile(p)}
      BY <2>6 DEF AddCopyClose, TypeOK, history
    <3>2. \A n \in Names : files[n] \subseteq files'[n]
      BY <3>1 DEF TypeOK
    <3>3. ListedIsWhole'
      BY <2>1, <3>1, <3>2, NamesAssumption
    <3>4. SrcFiles[pkg[p]] \ todo'[p] \subseteq files'[pkg[p]]
      BY <2>1, <3>1 DEF WholeInvOf, TypeOK
    <3>5. QED
      BY <3>1, <3>3, <3>4 DEF WholeInvOf
  <2>7. CASE AddCopied(p)
    <3>1. /\ UNCHANGED <<manifest, files, removed, pkg>>
          /\ pc[p] = "copy" /\ pc'[p] = "read" /\ todo[p] = {}
      BY <2>7 DEF AddCopied, TypeOK, disk, local
    <3>2. QED
      BY <2>1, <3>1 DEF WholeInvOf
  <2>8. CASE AddReadManifest(p)
    <3>1. /\ UNCHANGED <<manifest, files, removed, pkg>>
          /\ pc[p] = "read" /\ pc'[p] = "truncate"
          /\ snap'[p] = manifest \cup {pkg[p]}
      BY <2>8 DEF AddReadManifest, TypeOK, disk, history
    <3>2. pkg[p] \notin manifest
      BY <3>1 DEF StackInv
    <3>3. QED
      BY <2>1, <3>1, <3>2 DEF WholeInvOf
  <2>9. CASE RemoveCheck(p)
    <3>1. CASE pkg[p] \in manifest
      <4>1. /\ UNCHANGED <<manifest, files, pkg>>
            /\ pc'[p] = "unlink"
            /\ removed' = removed \cup {pkg[p]}
        BY <2>9, <3>1 DEF RemoveCheck, TypeOK, disk
      <4>2. QED
        BY <2>1, <4>1 DEF WholeInvOf
    <3>2. CASE pkg[p] \notin manifest
      <4>1. UNCHANGED <<manifest, files, removed>>
        BY <2>9, <3>2 DEF RemoveCheck, disk
      <4>2. pc'[p] \in {"idle", "deps"}
        BY <2>9, <3>2 DEF RemoveCheck, Return, TypeOK
      <4>3. QED
        BY <2>1, <4>1, <4>2 DEF WholeInvOf
    <3>3. QED
      BY <3>1, <3>2
  <2>10. CASE RemoveFile(p)
    <3>1. /\ UNCHANGED <<manifest, removed, pc, pkg>>
          /\ pc[p] = "unlink" /\ pkg[p] \in removed
          /\ \A n \in Names \ {pkg[p]} : files'[n] = files[n]
      BY <2>1, <2>10 DEF RemoveFile, WholeInvOf, TypeOK, local, history
    <3>2. QED
      BY <2>1, <3>1, NamesAssumption DEF WholeInvOf
  <2>11. CASE RemoveAllDone(p)
    <3>1. /\ UNCHANGED <<manifest, files, removed, pkg>>
          /\ pc[p] = "unlink" /\ pc'[p] = "reread"
      BY <2>11 DEF RemoveAllDone, TypeOK, disk, local, history
    <3>2. QED
      BY <2>1, <3>1 DEF WholeInvOf
  <2>12. CASE RemoveReadManifest(p)
    <3>1. /\ UNCHANGED <<manifest, files, removed, pkg>>
          /\ pc[p] = "reread" /\ pc'[p] = "truncate"
          /\ snap'[p] = manifest \ {pkg[p]}
      BY <2>12 DEF RemoveReadManifest, TypeOK, disk, history
    <3>2. QED
      BY <2>1, <3>1 DEF WholeInvOf
  <2>13. CASE WriteTruncate(p)
    <3>1. /\ UNCHANGED <<files, removed, pkg, snap>>
          /\ manifest' = {}
          /\ pc[p] = "truncate" /\ pc'[p] = "write"
      BY <2>13 DEF WriteTruncate, TypeOK, local, history
    <3>2. QED
      BY <2>1, <3>1 DEF WholeInvOf
  <2>14. CASE WriteClose(p)
    <3>1. pc[p] = "write" /\ manifest = {}
      BY <2>14 DEF WriteClose, StackInv
    <3>2. /\ manifest' = snap[p]
          /\ removed' = removed \ ({pkg[p]} \cap snap[p])
          /\ UNCHANGED files
      BY <2>14, <3>1 DEF WriteClose
    <3>3. pc'[p] \in {"idle", "deps"}
      BY <2>14 DEF WriteClose, Return, TypeOK
    <3>4. ListedIsWhole'
      BY <2>1, <3>1, <3>2 DEF WholeInvOf
    <3>5. QED
      BY <3>3, <3>4 DEF WholeInvOf
  <2>15. QED
    BY <1>7, <2>2, <2>3, <2>4, <2>5, <2>6, <2>7, <2>8, <2>9, <2>10, <2>11,
       <2>12, <2>13, <2>14 DEF Work
<1>8. QED
  BY <1>1, <1>4, <1>5, <1>6, <1>7 DEF Next

\* With one engc process at a time on a registry without cycles, a listed
\* package lacks a file only where a remove() of it was killed, however many
\* commands run and however many of them are killed.
THEOREM KilledAddLeavesNoHole ==
    ASSUME OneProcess
    PROVE  Spec => []ListedIsWhole
<1>1. WholeInv => ListedIsWhole
  BY DEF WholeInv
<1>2. TypeOK /\ TypeOK' /\ StackInv /\ [Next]_vars => StackInv'
  BY NextStack
<1>3. TypeOK /\ StackInv /\ WholeInv /\ [Next]_vars => WholeInv'
  BY NextWhole
<1>4. QED
  BY <1>1, <1>2, <1>3, InitStack, InitWhole, TypeCorrect, PTL DEF Spec

-----------------------------------------------------------------------------
(* One engc process at a time: dependencies are listed first.               *)

\* What the suspended calls of stack s have visited of their dependencies is
\* listed, the dependency whose add() each waits for apart: the innermost call
\* is on n.
DepsOf(s, n, listed) ==
    \A i \in DOMAIN s :
        (Deps[s[i].pkg] \ s[i].deps) \cap Registered
            \subseteq listed \cup {IF i = 1 THEN n ELSE s[i - 1].pkg}

\* The manifest file is about to be replaced by the map.
Writing(p) == pc[p] \in {"truncate", "write"}

\* Where one process is with what depends on what; truncating the manifest it
\* is about to start over, or to add or take away one package.
AddInvOf(p) ==
    /\ Writing(p) => snap[p] \subseteq Registered
    /\ pc[p] = "deps" => (Deps[pkg[p]] \ deps[p]) \cap Registered \subseteq manifest
    /\ pc[p] \in {"copy", "copying", "read"} => Deps[pkg[p]] \cap Registered \subseteq manifest
    /\ pc[p] \in {"unlink", "reread"} => pkg[p] \in manifest
    /\ DepsOf(stack[p], pkg[p], IF Writing(p) THEN snap[p] ELSE manifest)
    /\ Writing(p) /\ stack[p] # <<>> => pkg[p] \in snap[p]
    /\ pc[p] = "truncate" =>
          \/ snap[p] = {}
          \/ /\ pkg[p] \in Registered
             /\ Deps[pkg[p]] \cap Registered \subseteq manifest
             /\ snap[p] = manifest \cup {pkg[p]}
          \/ /\ pkg[p] \in manifest
             /\ snap[p] = manifest \ {pkg[p]}

AddInv == manifest \subseteq Registered /\ \A p \in Procs : AddInvOf(p)

\* A return hands over what the suspended call has visited: its callee too.
LEMMA ReturnDeps ==
    ASSUME TypeOK, NEW p \in Procs, Return(p), NEW listed,
           DepsOf(stack[p], pkg[p], listed),
           pkg[p] \in listed \/ pkg[p] \notin Registered
    PROVE  /\ DepsOf(stack'[p], pkg'[p], listed)
           /\ pc'[p] \in {"idle", "deps"}
           /\ pc'[p] = "deps" => (Deps[pkg'[p]] \ deps'[p]) \cap Registered \subseteq listed
<1>1. CASE stack[p] = <<>>
  BY <1>1 DEF Return, TypeOK, DepsOf
<1>2. CASE stack[p] # <<>>
  <2> DEFINE s == stack[p]
  <2>1. s \in Seq(Frames)
    BY DEF TypeOK
  <2>2. /\ pc'[p] = "deps"
        /\ pkg'[p] = s[1].pkg
        /\ deps'[p] = s[1].deps
        /\ stack'[p] = Tail(s)
    BY <1>2, <2>1, PopFrame DEF Return, TypeOK
  <2>3. (Deps[s[1].pkg] \ s[1].deps) \cap Registered \subseteq listed
    <3>1. 1 \in DOMAIN s
      BY <1>2, <2>1, PopFrame
    <3>2. (Deps[s[1].pkg] \ s[1].deps) \cap Registered \subseteq listed \cup {pkg[p]}
      BY <3>1 DEF DepsOf
    <3>3. QED
      BY <3>2
  <2>4. ASSUME NEW i \in DOMAIN Tail(s)
        PROVE  (Deps[Tail(s)[i].pkg] \ Tail(s)[i].deps) \cap Registered
                  \subseteq listed \cup {IF i = 1 THEN s[1].pkg ELSE Tail(s)[i - 1].pkg}
    <3>1. i + 1 \in DOMAIN s /\ Tail(s)[i] = s[i + 1] /\ i \in Nat /\ 1 < i + 1
      BY <1>2, <2>1, PopFrame
    <3>2. i + 1 - 1 = i /\ i + 1 # 1
      BY <3>1
    <3>3. (Deps[Tail(s)[i].pkg] \ Tail(s)[i].deps) \cap Registered \subseteq listed \cup {s[i].pkg}
      BY <3>1, <3>2 DEF DepsOf
    <3>4. CASE i = 1
      BY <3>3, <3>4
    <3>5. CASE i # 1
      <4>1. DOMAIN Tail(s) = 1..Len(Tail(s)) /\ Len(Tail(s)) \in Nat
        BY <1>2, <2>1, PopFrame, LenProperties
      <4>2. i - 1 \in DOMAIN Tail(s)
        BY <3>1, <3>5, <4>1
      <4>3. Tail(s)[i - 1] = s[i - 1 + 1] /\ i - 1 + 1 = i
        BY <1>2, <2>1, <3>1, <4>2, PopFrame
      <4>4. QED
        BY <3>3, <3>5, <4>3
    <3>6. QED
      BY <3>4, <3>5
  <2>5. DepsOf(Tail(s), s[1].pkg, listed)
    BY <2>4 DEF DepsOf
  <2>6. QED
    BY <2>2, <2>3, <2>5
<1>3. QED
  BY <1>1, <1>2

\* Suspending a call: the dependency it took off its list is the one it waits for.
LEMMA SuspendDeps ==
    ASSUME NEW s \in Seq(Frames), NEW f \in Frames, NEW d, NEW listed,
           DepsOf(s, f.pkg, listed),
           (Deps[f.pkg] \ (f.deps \cup {d})) \cap Registered \subseteq listed
    PROVE  DepsOf(<<f>> \o s, d, listed)
<1> DEFINE t == <<f>> \o s
<1>1. /\ t \in Seq(Frames)
      /\ DOMAIN t = 1..(Len(s) + 1)
      /\ DOMAIN s = 1..Len(s)
      /\ Len(s) \in Nat
      /\ t[1] = f
      /\ \A i \in 2..(Len(s) + 1) : t[i] = s[i - 1]
  BY PushFrame
<1> HIDE DEF t
<1>2. ASSUME NEW i \in DOMAIN t
      PROVE  (Deps[t[i].pkg] \ t[i].deps) \cap Registered
                \subseteq listed \cup {IF i = 1 THEN d ELSE t[i - 1].pkg}
  <2>1. CASE i = 1
    BY <2>1, <1>1
  <2>2. CASE i # 1
    <3>1. i - 1 \in DOMAIN s /\ t[i] = s[i - 1] /\ i \in Nat
      BY <2>2, <1>1
    <3>2. (Deps[t[i].pkg] \ t[i].deps) \cap Registered
             \subseteq listed \cup {IF i - 1 = 1 THEN f.pkg ELSE s[i - 1 - 1].pkg}
      BY <3>1 DEF DepsOf
    <3>3. CASE i = 2
      BY <3>2, <3>3, <1>1
    <3>4. CASE i # 2
      <4>1. i - 1 \in 2..(Len(s) + 1) /\ i - 1 # 1
        BY <2>2, <3>1, <3>4, <1>1
      <4>2. t[i - 1] = s[i - 1 - 1]
        BY <4>1, <1>1
      <4>3. QED
        BY <2>2, <3>2, <4>1, <4>2
    <3>5. QED
      BY <3>3, <3>4
  <2>3. QED
    BY <2>1, <2>2
<1>3. QED
  BY <1>2 DEF DepsOf, t

LEMMA InitAdd == Init => AddInv
<1>1. DOMAIN <<>> = {}
  OBVIOUS
<1>2. QED
  BY <1>1 DEF Init, AddInv, AddInvOf, DepsOf, Writing

LEMMA NextAdd ==
    ASSUME OneProcess
    PROVE  TypeOK /\ TypeOK' /\ StackInv /\ AddInv /\ [Next]_vars => AddInv'
<1> SUFFICES ASSUME TypeOK, TypeOK', StackInv, AddInv, [Next]_vars
             PROVE  AddInv'
  OBVIOUS
<1>1. CASE UNCHANGED vars
  BY <1>1 DEF vars, AddInv, AddInvOf, Writing
<1>2. ASSUME NEW p \in Procs, manifest' \subseteq Registered, AddInvOf(p)'
      PROVE  AddInv'
  BY <1>2 DEF OneProcess, AddInv
<1>3. DOMAIN <<>> = {}
  OBVIOUS
<1>4. ASSUME NEW p \in Procs, NEW name \in Names,
             CmdAdd(p, name) \/ CmdRemove(p, name) \/ CmdInit(p) \/ Crash(p)
      PROVE  AddInv'
  <2>1. /\ stack'[p] = <<>> /\ manifest' = manifest
        /\ \/ pc'[p] \in {"idle", "enter", "check"}
           \/ pc'[p] = "truncate" /\ snap'[p] = {}
    BY <1>4 DEF CmdAdd, CmdRemove, CmdInit, Start, Crash, TypeOK, disk
  <2>2. AddInvOf(p)' /\ manifest' \subseteq Registered
    BY <1>3, <2>1 DEF AddInv, AddInvOf, DepsOf, Writing
  <2>3. QED
    BY <1>2, <2>2
<1>5. ASSUME NEW p \in Procs, Work(p)
      PROVE  AddInv'
  <2> SUFFICES manifest' \subseteq Registered /\ AddInvOf(p)'
    BY <1>2
  <2>1. AddInvOf(p) /\ manifest \subseteq Registered
    BY DEF AddInv
  <2>2. StackInvOf(p)
    BY StackInvSplit
  <2>3. CASE AddEnter(p)
    <3>1. UNCHANGED <<manifest, snap>> /\ pc[p] = "enter"
      BY <2>3 DEF AddEnter, disk
    <3>2. DepsOf(stack[p], pkg[p], manifest)
      BY <2>1, <3>1 DEF AddInvOf, Writing
    <3>3. CASE Return(p) /\ (pkg[p] \notin Registered \/ pkg[p] \in manifest)
      <4>1. /\ DepsOf(stack'[p], pkg'[p], manifest)
            /\ pc'[p] \in {"idle", "deps"}
            /\ pc'[p] = "deps" => (Deps[pkg'[p]] \ deps'[p]) \cap Registered \subseteq manifest
        BY <3>2, <3>3, ReturnDeps
      <4>2. QED
        BY <2>1, <3>1, <4>1 DEF AddInvOf, Writing
    <3>4. CASE ~(Return(p) /\ (pkg[p] \notin Registered \/ pkg[p] \in manifest))
      <4>1. /\ UNCHANGED <<pkg, stack>> /\ pc'[p] = "deps"
            /\ deps'[p] = Deps[pkg[p]]
        BY <2>3, <3>4 DEF AddEnter, TypeOK
      <4>2. QED
        BY <2>1, <3>1, <3>2, <4>1 DEF AddInvOf, Writing
    <3>5. QED
      BY <3>3, <3>4
  <2>4. CASE AddDependency(p)
    <3>1. PICK d \in deps[p] : AddDependency(p)!2!(d)
      BY <2>4 DEF AddDependency
    <3>2. UNCHANGED <<manifest, snap>> /\ pc[p] = "deps"
      BY <2>4 DEF AddDependency, disk
    <3>3. /\ DepsOf(stack[p], pkg[p], manifest)
          /\ (Deps[pkg[p]] \ deps[p]) \cap Registered \subseteq manifest
      BY <2>1, <3>2 DEF AddInvOf, Writing
    <3>4. CASE d \in manifest
      <4>1. UNCHANGED <<pc, pkg, stack>> /\ deps'[p] = deps[p] \ {d}
        BY <3>1, <3>4 DEF TypeOK
      <4>2. (Deps[pkg[p]] \ deps'[p]) \cap Registered \subseteq manifest
        BY <3>3, <3>4, <4>1
      <4>3. QED
        BY <2>1, <3>2, <3>3, <4>1, <4>2 DEF AddInvOf, Writing
    <3>5. CASE d \notin manifest
      <4> DEFINE f == [pkg |-> pkg[p], deps |-> deps[p] \ {d}]
      <4>1. /\ stack'[p] = <<f>> \o stack[p]
            /\ pkg'[p] = d
            /\ pc'[p] = "enter"
        BY <3>1, <3>5 DEF TypeOK
      <4>2. f \in Frames /\ stack[p] \in Seq(Frames)
        BY <3>2 DEF TypeOK, Frames
      <4>3. f.pkg = pkg[p] /\ (Deps[f.pkg] \ (f.deps \cup {d})) \cap Registered \subseteq manifest
        BY <3>3
      <4> HIDE DEF f
      <4>4. DepsOf(<<f>> \o stack[p], d, manifest)
        BY <3>3, <4>2, <4>3, SuspendDeps
      <4>5. QED
        BY <2>1, <3>2, <4>1, <4>4 DEF AddInvOf, Writing
    <3>6. QED
      BY <3>4, <3>5
  <2>5. CASE AddDirectories(p)
    <3>1. /\ UNCHANGED <<manifest, snap, pkg, stack>>
          /\ pc[p] = "deps" /\ pc'[p] = "copy" /\ deps[p] = {}
      BY <2>5 DEF AddDirectories, TypeOK, disk
    <3>2. QED
      BY <2>1, <3>1 DEF AddInvOf, Writing
  <2>6. CASE AddCopyOpen(p) \/ AddCopyClose(p) \/ AddCopied(p)
    <3>1. /\ UNCHANGED <<manifest, snap, pkg, stack>>
          /\ pc[p] \in {"copy", "copying"} /\ pc'[p] \in {"copy", "copying", "read"}
      BY <2>6 DEF AddCopyOpen, AddCopyClose, AddCopied, TypeOK, disk, local
    <3>2. QED
      BY <2>1, <3>1 DEF AddInvOf, Writing
  <2>7. CASE AddReadManifest(p)
    <3>1. /\ UNCHANGED <<manifest, pkg, stack>>
          /\ pc[p] = "read" /\ pc'[p] = "truncate"
          /\ snap'[p] = manifest \cup {pkg[p]}
          /\ pkg[p] \in Registered
      BY <2>7 DEF AddReadManifest, TypeOK, disk
    <3>2. DepsOf(stack[p], pkg[p], manifest) /\ Deps[pkg[p]] \cap Registered \subseteq manifest
      BY <2>1, <3>1 DEF AddInvOf, Writing
    <3>3. DepsOf(stack[p], pkg[p], manifest \cup {pkg[p]})
      BY <3>2 DEF DepsOf
    <3>4. QED
      BY <2>1, <3>1, <3>2, <3>3 DEF AddInvOf, Writing
  <2>8. CASE RemoveCheck(p)
    <3>1. stack[p] = <<>> /\ UNCHANGED manifest
      BY <2>2, <2>8 DEF RemoveCheck, StackInvOf, disk
    <3>2. /\ stack'[p] = <<>>
          /\ \/ pc'[p] = "idle"
             \/ pc'[p] = "unlink" /\ pkg'[p] \in manifest
      BY <2>8, <3>1 DEF RemoveCheck, Return, TypeOK
    <3>3. QED
      BY <1>3, <2>1, <3>1, <3>2 DEF AddInvOf, DepsOf, Writing
  <2>9. CASE RemoveFile(p) \/ RemoveAllDone(p)
    <3>1. /\ UNCHANGED <<manifest, pkg, stack>>
          /\ pc[p] = "unlink" /\ pc'[p] \in {"unlink", "reread"}
      BY <2>9 DEF RemoveFile, RemoveAllDone, TypeOK, disk, local
    <3>2. QED
      BY <2>1, <3>1 DEF AddInvOf, Writing
  <2>10. CASE RemoveReadManifest(p)
    <3>1. /\ UNCHANGED <<manifest, pkg, stack>>
          /\ stack[p] = <<>> /\ pkg[p] \in manifest
          /\ pc'[p] = "truncate"
          /\ snap'[p] = manifest \ {pkg[p]}
      BY <2>1, <2>2, <2>10 DEF RemoveReadManifest, StackInvOf, AddInvOf, TypeOK, disk
    <3>2. QED
      BY <1>3, <2>1, <3>1 DEF AddInvOf, DepsOf, Writing
  <2>11. CASE WriteTruncate(p)
    <3>1. /\ UNCHANGED <<pkg, stack, snap>>
          /\ manifest' = {}
          /\ pc[p] = "truncate" /\ pc'[p] = "write"
      BY <2>11 DEF WriteTruncate, TypeOK, local
    <3>2. QED
      BY <2>1, <3>1 DEF AddInvOf, Writing
  <2>12. CASE WriteClose(p)
    <3>1. manifest' = snap[p] /\ pc[p] = "write" /\ Return(p)
      BY <2>2, <2>12 DEF WriteClose, StackInvOf
    <3>2. snap[p] \subseteq Registered /\ DepsOf(stack[p], pkg[p], snap[p])
      BY <2>1, <3>1 DEF AddInvOf, Writing
    <3>3. CASE stack[p] = <<>>
      <4>1. stack'[p] = <<>> /\ pc'[p] = "idle"
        BY <3>1, <3>3 DEF Return, TypeOK
      <4>2. QED
        BY <1>3, <3>1, <3>2, <4>1 DEF AddInvOf, DepsOf, Writing
    <3>4. CASE stack[p] # <<>>
      <4>1. pkg[p] \in snap[p]
        BY <2>1, <3>1, <3>4 DEF AddInvOf, Writing
      <4>2. /\ DepsOf(stack'[p], pkg'[p], snap[p])
            /\ pc'[p] \in {"idle", "deps"}
            /\ pc'[p] = "deps" => (Deps[pkg'[p]] \ deps'[p]) \cap Registered \subseteq snap[p]
        BY <3>1, <3>2, <4>1, ReturnDeps
      <4>3. QED
        BY <3>1, <3>2, <4>2 DEF AddInvOf, Writing
    <3>5. QED
      BY <3>3, <3>4
  <2>13. QED
    BY <1>5, <2>3, <2>4, <2>5, <2>6, <2>7, <2>8, <2>9, <2>10, <2>11, <2>12 DEF Work
<1>6. QED
  BY <1>1, <1>4, <1>5, NamesAssumption DEF Next

\* DependenciesListed, and what it means for a map about to be written.
ListedInv ==
    /\ DependenciesListed
    /\ \A p \in Procs : Writing(p) =>
          \A n \in snap[p] \cap Registered :
              Deps[n] \cap Registered \subseteq snap[p] \cup removed

LEMMA NextListed ==
    ASSUME OneProcess
    PROVE  TypeOK /\ StackInv /\ WholeInv /\ AddInv /\ ListedInv /\ [Next]_vars => ListedInv'
<1> SUFFICES ASSUME TypeOK, StackInv, WholeInv, AddInv, ListedInv, [Next]_vars
             PROVE  ListedInv'
  OBVIOUS
<1> DEFINE Closed(m, r) == \A n \in m \cap Registered : Deps[n] \cap Registered \subseteq m \cup r
<1>1. CASE UNCHANGED vars
  BY <1>1 DEF vars, ListedInv, DependenciesListed, Writing
<1>2. /\ Closed(manifest, removed)
      /\ \A p \in Procs : Writing(p) => Closed(snap[p], removed)
  BY DEF ListedInv, DependenciesListed
<1>3. ASSUME NEW p \in Procs, Closed(manifest', removed'),
             pc'[p] \in {"truncate", "write"} => Closed(snap'[p], removed')
      PROVE  ListedInv'
  BY <1>3 DEF OneProcess, ListedInv, DependenciesListed, Writing
<1>4. ASSUME NEW m, NEW r, NEW s, Closed(m, r), r \subseteq s
      PROVE  Closed(m, s)
  BY <1>4
<1> HIDE DEF Closed
<1>5. ASSUME NEW p \in Procs, NEW name \in Names,
             CmdAdd(p, name) \/ CmdRemove(p, name) \/ CmdInit(p) \/ Crash(p)
      PROVE  ListedInv'
  <2>1. /\ UNCHANGED <<manifest, removed>>
        /\ \/ pc'[p] \in {"idle", "enter", "check"}
           \/ pc'[p] = "truncate" /\ snap'[p] = {}
    BY <1>5 DEF CmdAdd, CmdRemove, CmdInit, Start, Crash, TypeOK, disk, history
  <2>2. Closed({}, removed)
    BY DEF Closed
  <2>3. QED
    BY <1>2, <1>3, <2>1, <2>2
<1>6. ASSUME NEW p \in Procs, Work(p)
      PROVE  ListedInv'
  <2>1. AddInvOf(p)
    BY DEF AddInv
  <2>2. CASE AddEnter(p) \/ AddDependency(p)
    <3>1. UNCHANGED <<manifest, removed>> /\ pc'[p] \in {"idle", "deps", "enter"}
      BY <2>2 DEF AddEnter, AddDependency, Return, TypeOK, disk, history
    <3>2. QED
      BY <1>2, <1>3, <3>1
  <2>3. CASE \/ AddDirectories(p) \/ AddCopyOpen(p) \/ AddCopyClose(p) \/ AddCopied(p)
             \/ RemoveFile(p) \/ RemoveAllDone(p)
    <3>1. /\ UNCHANGED <<manifest, removed>>
          /\ pc'[p] \in {"copy", "copying", "read", "unlink", "reread"}
      BY <2>3 DEF AddDirectories, AddCopyOpen, AddCopyClose, AddCopied, RemoveFile,
            RemoveAllDone, TypeOK, disk, local, history
    <3>2. QED
      BY <1>2, <1>3, <3>1
  <2>4. CASE AddReadManifest(p)
    <3>1. /\ UNCHANGED <<manifest, removed>>
          /\ pc[p] = "read"
          /\ snap'[p] = manifest \cup {pkg[p]}
      BY <2>4 DEF AddReadManifest, TypeOK, disk, history
    <3>2. Deps[pkg[p]] \cap Registered \subseteq manifest
      BY <2>1, <3>1 DEF AddInvOf
    <3>3. Closed(manifest \cup {pkg[p]}, removed)
      BY <1>2, <3>2 DEF Closed
    <3>4. QED
      BY <1>2, <1>3, <3>1, <3>3
  <2>5. CASE RemoveCheck(p)
    <3>1. /\ UNCHANGED manifest /\ removed \subseteq removed'
          /\ pc'[p] \in {"idle", "deps", "unlink"}
      BY <2>5 DEF RemoveCheck, Return, TypeOK, disk
    <3>2. Closed(manifest, removed')
      BY <1>2, <1>4, <3>1
    <3>3. QED
      BY <1>3, <3>1, <3>2
  <2>6. CASE RemoveReadManifest(p)
    <3>1. /\ UNCHANGED <<manifest, removed>>
          /\ pc[p] = "reread"
          /\ snap'[p] = manifest \ {pkg[p]}
      BY <2>6 DEF RemoveReadManifest, TypeOK, disk, history
    <3>2. pkg[p] \in removed
      BY <3>1 DEF WholeInv
    <3>3. Closed(manifest \ {pkg[p]}, removed)
      BY <1>2, <3>2 DEF Closed
    <3>4. QED
      BY <1>2, <1>3, <3>1, <3>3
  <2>7. CASE WriteTruncate(p)
    <3>1. /\ UNCHANGED <<removed, snap>> /\ manifest' = {} /\ pc[p] = "truncate"
      BY <2>7 DEF WriteTruncate, TypeOK, local, history
    <3>2. Closed({}, removed) /\ Closed(snap[p], removed)
      BY <1>2, <3>1 DEF Closed, Writing
    <3>3. QED
      BY <1>3, <3>1, <3>2
  <2>8. CASE WriteClose(p)
    <3>1. pc[p] = "write" /\ manifest = {}
      BY <2>8 DEF WriteClose, StackInv
    <3>2. /\ manifest' = snap[p]
          /\ removed' = removed \ ({pkg[p]} \cap snap[p])
      BY <2>8, <3>1 DEF WriteClose
    <3>3. pc'[p] \in {"idle", "deps"}
      BY <2>8 DEF WriteClose, Return, TypeOK
    <3>4. Closed(snap[p], removed)
      BY <1>2, <3>1 DEF Writing
    <3>5. Closed(snap[p], removed')
      BY <3>2, <3>4 DEF Closed
    <3>6. QED
      BY <1>3, <3>2, <3>3, <3>5
  <2>9. QED
    BY <1>6, <2>2, <2>3, <2>4, <2>5, <2>6, <2>7, <2>8 DEF Work
<1>7. QED
  BY <1>1, <1>5, <1>6, NamesAssumption DEF Next

\* With one engc process at a time on a registry without cycles, a listed
\* package is listed with every registered package it depends on, those the
\* user let remove() loose on apart, however commands and kills follow.
THEOREM DependenciesComeAlong ==
    ASSUME OneProcess
    PROVE  Spec => []DependenciesListed
<1>1. Init => ListedInv
  BY DEF Init, ListedInv, DependenciesListed, Writing
<1>2. ListedInv => DependenciesListed
  BY DEF ListedInv
<1>3. /\ TypeOK /\ TypeOK' /\ StackInv /\ [Next]_vars => StackInv'
      /\ TypeOK /\ StackInv /\ WholeInv /\ [Next]_vars => WholeInv'
      /\ TypeOK /\ TypeOK' /\ StackInv /\ AddInv /\ [Next]_vars => AddInv'
      /\ TypeOK /\ StackInv /\ WholeInv /\ AddInv /\ ListedInv /\ [Next]_vars => ListedInv'
  BY NextStack, NextWhole, NextAdd, NextListed
<1>4. QED
  BY <1>1, <1>2, <1>3, InitStack, InitWhole, InitAdd, TypeCorrect, PTL DEF Spec

-----------------------------------------------------------------------------
(* One engc process at a time, none killed: the commands implement the      *)
(* operations of PackageStore.                                              *)

\* What the one process means the manifest to be.
LEMMA IntendedOf ==
    ASSUME OneProcess, NEW p \in Procs
    PROVE  /\ Intended = IF pc[p] = "write" THEN snap[p] ELSE manifest
           /\ Intended' = IF pc'[p] = "write" THEN snap'[p] ELSE manifest'
<1>1. ASSUME NEW W, W \subseteq Procs
      PROVE  /\ p \in W => W # {} /\ (CHOOSE q \in W : TRUE) = p
             /\ p \notin W => W = {}
  <2>1. p \in W => W = {p}
    BY <1>1 DEF OneProcess
  <2>2. p \notin W => W = {}
    BY <1>1 DEF OneProcess
  <2>3. (CHOOSE q \in {p} : TRUE) = p
    OBVIOUS
  <2>4. QED
    BY <2>1, <2>2, <2>3
<1>2. Intended = IF pc[p] = "write" THEN snap[p] ELSE manifest
  <2> DEFINE W == {q \in Procs : pc[q] = "write"}
  <2>1. W \subseteq Procs /\ (p \in W <=> pc[p] = "write")
    OBVIOUS
  <2>2. Intended = IF W = {} THEN manifest ELSE snap[CHOOSE q \in W : TRUE]
    BY DEF Intended
  <2> HIDE DEF W
  <2>3. CASE p \in W
    <3>1. W # {} /\ (CHOOSE q \in W : TRUE) = p
      BY <1>1, <2>1, <2>3
    <3>2. QED
      BY <2>1, <2>2, <2>3, <3>1
  <2>4. CASE p \notin W
    <3>1. W = {}
      BY <1>1, <2>1, <2>4
    <3>2. QED
      BY <2>1, <2>2, <2>4, <3>1
  <2>5. QED
    BY <2>3, <2>4
<1>3. Intended' = IF pc'[p] = "write" THEN snap'[p] ELSE manifest'
  <2> DEFINE W == {q \in Procs : pc'[q] = "write"}
  <2>1. W \subseteq Procs /\ (p \in W <=> pc'[p] = "write")
    OBVIOUS
  <2>2. Intended' = IF W = {} THEN manifest' ELSE snap'[CHOOSE q \in W : TRUE]
    BY DEF Intended
  <2> HIDE DEF W
  <2>3. CASE p \in W
    <3>1. W # {} /\ (CHOOSE q \in W : TRUE) = p
      BY <1>1, <2>1, <2>3
    <3>2. QED
      BY <2>1, <2>2, <2>3, <3>1
  <2>4. CASE p \notin W
    <3>1. W = {}
      BY <1>1, <2>1, <2>4
    <3>2. QED
      BY <2>1, <2>2, <2>4, <3>1
  <2>5. QED
    BY <2>3, <2>4
<1>4. QED
  BY <1>2, <1>3

\* Whatever does not truncate the manifest changes nothing in the store; what
\* truncates it installs, uninstalls or resets.
LEMMA NextStore ==
    ASSUME OneProcess, MaxCrashes = 0
    PROVE  TypeOK /\ TypeOK' /\ StackInv /\ AddInv /\ [Next]_vars => [Store!Next]_Intended
<1> SUFFICES ASSUME TypeOK, TypeOK', StackInv, AddInv, [Next]_vars
             PROVE  [Store!Next]_Intended
  OBVIOUS
<1>1. CASE UNCHANGED vars
  BY <1>1 DEF vars, Intended
<1>2. ASSUME NEW p \in Procs, UNCHANGED manifest, pc[p] # "write", pc'[p] # "write"
      PROVE  UNCHANGED Intended
  BY <1>2, IntendedOf
<1>3. ASSUME NEW p \in Procs, NEW name \in Names,
             CmdAdd(p, name) \/ CmdRemove(p, name) \/ CmdInit(p)
      PROVE  UNCHANGED Intended
  <2>1. UNCHANGED manifest /\ pc[p] # "write" /\ pc'[p] # "write"
    BY <1>3 DEF CmdAdd, CmdRemove, CmdInit, Start, TypeOK, disk
  <2>2. QED
    BY <1>2, <2>1
<1>4. ASSUME NEW p \in Procs, Crash(p)
      PROVE  FALSE
  BY <1>4 DEF Crash, TypeOK
<1>5. ASSUME NEW p \in Procs, Work(p)
      PROVE  [Store!Next]_Intended
  <2>1. AddInvOf(p) /\ StackInvOf(p) /\ manifest \subseteq Registered
    BY StackInvSplit DEF AddInv
  <2>2. CASE WriteTruncate(p)
    <3>1. pc[p] = "truncate" /\ pc'[p] = "write" /\ snap' = snap
      BY <2>2 DEF WriteTruncate, TypeOK, local
    <3>2. Intended = manifest /\ Intended' = snap[p]
      BY <3>1, IntendedOf
    <3>3. CASE snap[p] = {}
      BY <3>2, <3>3 DEF Store!Next, Store!Reset
    <3>4. CASE /\ pkg[p] \in Registered
               /\ Deps[pkg[p]] \cap Registered \subseteq manifest
               /\ snap[p] = manifest \cup {pkg[p]}
      <4>1. Store!Install(pkg[p])
        BY <3>2, <3>4 DEF Store!Install
      <4>2. QED
        BY <3>4, <4>1 DEF Store!Next
    <3>5. CASE pkg[p] \in manifest /\ snap[p] = manifest \ {pkg[p]}
      <4>1. Store!Uninstall(pkg[p])
        BY <3>2, <3>5 DEF Store!Uninstall
      <4>2. QED
        BY <2>1, <3>5, <4>1 DEF Store!Next
    <3>6. QED
      BY <2>1, <3>1, <3>3, <3>4, <3>5 DEF AddInvOf
  <2>3. CASE WriteClose(p)
    <3>1. /\ manifest' = snap[p] /\ pc[p] = "write" /\ Return(p)
      BY <2>1, <2>3 DEF WriteClose, StackInvOf
    <3>2. pc'[p] # "write"
      BY <3>1 DEF Return, TypeOK
    <3>3. QED
      BY <3>1, <3>2, IntendedOf
  <2>4. CASE ~WriteTruncate(p) /\ ~WriteClose(p)
    <3>1. CASE AddEnter(p) \/ AddDependency(p) \/ RemoveCheck(p)
      <4>1. UNCHANGED manifest /\ pc[p] # "write" /\ pc'[p] # "write"
        BY <3>1 DEF AddEnter, AddDependency, RemoveCheck, Return, TypeOK, disk
      <4>2. QED
        BY <1>2, <4>1
    <3>2. CASE \/ AddDirectories(p) \/ AddCopyOpen(p) \/ AddCopyClose(p) \/ AddCopied(p)
               \/ AddReadManifest(p)
      <4>1. UNCHANGED manifest /\ pc[p] # "write" /\ pc'[p] # "write"
        BY <3>2 DEF AddDirectories, AddCopyOpen, AddCopyClose, AddCopied,
              AddReadManifest, TypeOK, disk
      <4>2. QED
        BY <1>2, <4>1
    <3>3. CASE RemoveFile(p) \/ RemoveAllDone(p) \/ RemoveReadManifest(p)
      <4>1. UNCHANGED manifest /\ pc[p] # "write" /\ pc'[p] # "write"
        BY <3>3 DEF RemoveFile, RemoveAllDone, RemoveReadManifest, TypeOK, disk
      <4>2. QED
        BY <1>2, <4>1
    <3>4. QED
      BY <1>5, <2>4, <3>1, <3>2, <3>3 DEF Work
  <2>5. QED
    BY <2>2, <2>3, <2>4
<1>6. QED
  BY <1>1, <1>3, <1>4, <1>5, NamesAssumption DEF Next

\* With one engc process at a time and none killed, add(), remove() and init()
\* do to the manifest what the operations of the abstract store do to a set of
\* packages, each in one step, whatever the registry and the commands.
THEOREM ImplementsStore ==
    ASSUME OneProcess, MaxCrashes = 0
    PROVE  Spec => RefinesStore
<1>1. Init => Store!Init
  BY DEF Init, Intended, Store!Init
<1>2. /\ TypeOK /\ TypeOK' /\ StackInv /\ [Next]_vars => StackInv'
      /\ TypeOK /\ TypeOK' /\ StackInv /\ AddInv /\ [Next]_vars => AddInv'
      /\ TypeOK /\ TypeOK' /\ StackInv /\ AddInv /\ [Next]_vars => [Store!Next]_Intended
  BY NextStack, NextAdd, NextStore
<1>3. QED
  BY <1>1, <1>2, InitStack, InitAdd, TypeCorrect, PTL DEF Spec, RefinesStore, Store!Spec
=============================================================================
