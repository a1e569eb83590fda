----------------------------- MODULE ToolProofs -----------------------------
(***************************************************************************)
(* Proofs about Driver and Editor: for any command lines, files and any    *)
(* processes at once, a command that reports no error has made what it     *)
(* says; for any texts, any finite set of documents and whatever engc says *)
(* of them, the editor shows what belongs to the text that was sent last,  *)
(* and besides it just what earlier servers left.                          *)
(***************************************************************************)
EXTENDS Editor, Driver, SharedLemmas, FiniteSetTheorems, FunctionTheorems, SequenceTheorems, TLAPS

NativeStages == {"native", "shim", "compile", "as", "llc", "cc", "made", "unmade", "tidy", "program"}
MetalStages == {"baremetal", "ir", "assemble", "script", "layout", "elf", "extract"}
Translated == {"ino", "js", "py", "wat", "ecvm"}
OneStage == Translated \cup {"avr", "esp32", "stub", "fmt", "lint", "flash", "monitor",
                             "doctor", "help", "version", "doc", "usage"}

\* The stages that a job of each kind passes.
Routes(does, at) ==
    \/ at = "done"
    \/ at = "idle" /\ does = "usage"
    \/ at = "read" /\ does \in Translated \cup {"native", "test", "baremetal", "fmt", "lint"}
    \/ at = "analyze" /\ does \in Translated \cup {"native", "test", "baremetal"}
    \/ at \in NativeStages /\ does \in {"native", "test"}
    \/ at \in {"test", "next", "tested"} /\ does = "test"
    \/ at \in MetalStages /\ does = "baremetal"
    \/ at \in {"new", "config", "main"} /\ does = "new"
    \/ at \in OneStage /\ does = at

IsPath(f) == \E S : f \in Seq(S)

\* Outputs are paths, those of a test in the temporary directory.
Tests(p) == engc[p].at \in NativeStages \cup {"read", "analyze", "tested"}
Placed(p) ==
    /\ Does(p) \in {"native", "baremetal"} => IsPath(Out(p))
    /\ Does(p) = "test" /\ Tests(p) => Out(p) = <<Temporary, Out(p)[2]>>

\* Only test runs have files left to do, and count failures until the last one.
Counted(p) ==
    /\ engc[p].failed \in Nat
    /\ Does(p) # "test" \/ Is(p, "test") => engc[p].left = <<>>
    /\ engc[p].left = <<>> /\ (Does(p) # "test" \/ Running(p)) => engc[p].failed = 0

Fits(p) == Routes(Does(p), engc[p].at) /\ Placed(p) /\ Counted(p)

\* Who runs together has met.
Acquainted(p, q) ==
    /\ Running(p) /\ Running(q) /\ p # q => q \in met[p]
    /\ q \in met[p] => ~Is(q, "idle")

Own(p, path, format) == At(path) = Content(format, engc[p].text)

\* What one that nobody disturbs has made so far.
Progress(p) ==
    /\ engc[p].at \in {"shim", "compile", "as"} => Own(p, Append(Out(p), "ll"), "ll")
    /\ Is(p, "llc") => Own(p, Append(Out(p), "bc"), "bc")
    /\ Is(p, "cc") => Own(p, Append(Out(p), "o"), "o")
    /\ engc[p].at \in {"made", "tidy", "program"} => Own(p, Out(p), "exe")
    /\ Is(p, "tested") /\ engc[p].exit = 0 => engc[p].ran = engc[p].text /\ engc[p].text \notin Failing
    /\ Is(p, "assemble") => Own(p, Append(Stem(Out(p)), "ll"), "ll")
    /\ engc[p].at \in {"script", "layout", "elf"} => Own(p, Append(Stem(Out(p)), "o"), "o")
    /\ Is(p, "elf") => At(Script) = Content("ld", "sections")
    /\ Is(p, "extract") => Own(p, Out(p), "elf")
    /\ Is(p, "main") => At(Project(p).config).format # "missing"

IsEngc(r) ==
    /\ r = [at |-> r.at, job |-> r.job, text |-> r.text, ran |-> r.ran, exit |-> r.exit,
            left |-> r.left, failed |-> r.failed]
    /\ r.job = Job(r.job.does, r.job.src, r.job.out, r.job.target, r.job.board)

DriverTyped ==
    /\ engc = [p \in Engcs |-> engc[p]]
    /\ \A p \in Engcs : IsEngc(engc[p])
    /\ met \in [Engcs -> SUBSET Engcs]
    /\ device = [b \in DOMAIN Boards |-> device[b]]
    /\ \A a \in lines : a \in Seq(Seq(STRING)) \ {<<>>}

DriverInv ==
    /\ DriverTyped
    /\ \A p \in Engcs : Fits(p)
    /\ \A p, q \in Engcs : Acquainted(p, q)
    /\ \A p \in Engcs : Running(p) /\ Alone(p) => Progress(p)

-----------------------------------------------------------------------------
(* What a step of one process changes.                                     *)

\* Nothing of the others.
Alters(p) ==
    /\ engc' = [q \in Engcs |-> engc'[q]]
    /\ \A q \in Engcs : q # p => engc'[q] = engc[q]
    /\ IsEngc(engc'[p])

\* Of the disk only the files of its job.
InPlace(p) == \A f : At(f)' = At(f) \/ PlaceOf(f) \in Written(p)

\* What the property says of one that ends.
Ends(p) ==
    engc'[p].at \in {"done", "tested"} /\ engc'[p].exit = 0
    => IF engc'[p].at = "tested" THEN engc'[p].ran = engc[p].text /\ engc[p].text \notin Failing
       ELSE Made(p)'

Works(p) ==
    /\ Alters(p)
    /\ Running(p) /\ ~Is(p, "idle")' /\ Files(engc[p].job)' = Files(engc[p].job)
    /\ UNCHANGED <<met, lines>>
    /\ Fits(p)'
    /\ InPlace(p)
    /\ Progress(p) => (Running(p)' => Progress(p)') /\ Ends(p)

LEMMA AtWritten ==
    ASSUME NEW path, NEW content, Write(path, content)
    PROVE  \A f : At(f)' = IF f = path THEN content ELSE At(f)
  BY DEF Write, At

LEMMA AtDeleted ==
    ASSUME NEW paths, Delete(paths)
    PROVE  \A f : At(f)' = IF f \in paths THEN Missing ELSE At(f)
  BY DEF Delete, At, Missing

LEMMA AtKept ==
    ASSUME UNCHANGED disk
    PROVE  \A f : At(f)' = At(f)
  BY DEF At

LEMMA Goes ==
    ASSUME DriverTyped, NEW p \in Engcs, NEW at, Goto(p, at)
    PROVE  /\ Alters(p)
           /\ engc'[p].at = at
           /\ engc'[p].job = engc[p].job /\ engc'[p].text = engc[p].text
           /\ engc'[p].ran = engc[p].ran /\ engc'[p].exit = engc[p].exit
           /\ engc'[p].left = engc[p].left /\ engc'[p].failed = engc[p].failed
<1>1. engc = [q \in Engcs |-> engc[q]] /\ IsEngc(engc[p])
  BY DEF DriverTyped
<1>2. engc' = [engc EXCEPT ![p].at = at]
  BY DEF Goto
<1>3. /\ engc' = [q \in Engcs |-> engc'[q]]
      /\ \A q \in Engcs : q # p => engc'[q] = engc[q]
      /\ engc'[p] = [engc[p] EXCEPT !.at = at]
  BY <1>1, <1>2
<1>4. engc'[p] = [at |-> at, job |-> engc[p].job, text |-> engc[p].text, ran |-> engc[p].ran,
                  exit |-> engc[p].exit, left |-> engc[p].left, failed |-> engc[p].failed]
  BY <1>1, <1>3 DEF IsEngc
<1>5. QED
  BY <1>1, <1>3, <1>4 DEF Alters, IsEngc

LEMMA Exits ==
    ASSUME DriverTyped, NEW p \in Engcs, NEW rc, End(p, rc)
    PROVE  /\ Alters(p)
           /\ engc'[p].at = IF engc[p].left # <<>> THEN "tested" ELSE "done"
           /\ engc'[p].job = engc[p].job /\ engc'[p].text = engc[p].text
           /\ engc'[p].ran = engc[p].ran /\ engc'[p].exit = rc
           /\ engc'[p].left = engc[p].left /\ engc'[p].failed = engc[p].failed
<1> DEFINE at == IF engc[p].left # <<>> THEN "tested" ELSE "done"
<1>1. engc = [q \in Engcs |-> engc[q]] /\ IsEngc(engc[p])
  BY DEF DriverTyped
<1>2. engc' = [engc EXCEPT ![p].exit = rc, ![p].at = at]
  BY DEF End
<1>3. /\ engc' = [q \in Engcs |-> engc'[q]]
      /\ \A q \in Engcs : q # p => engc'[q] = engc[q]
      /\ engc'[p] = [engc[p] EXCEPT !.exit = rc, !.at = at]
  BY <1>1, <1>2
<1>4. engc'[p] = [at |-> at, job |-> engc[p].job, text |-> engc[p].text, ran |-> engc[p].ran,
                  exit |-> rc, left |-> engc[p].left, failed |-> engc[p].failed]
  BY <1>1, <1>3 DEF IsEngc
<1>5. QED
  BY <1>1, <1>3, <1>4 DEF Alters, IsEngc

LEMMA GoesOn ==
    ASSUME DriverTyped, NEW p \in Engcs, Fits(p), Running(p), NEW at, Goto(p, at),
           Routes(Does(p), at), at \notin {"idle", "done", "test", "tested", "next"},
           Does(p) = "test" => Tests(p)
    PROVE  /\ Alters(p) /\ Fits(p)'
           /\ engc'[p].at = at /\ engc'[p].job = engc[p].job /\ engc'[p].text = engc[p].text
           /\ engc'[p].failed = engc[p].failed /\ engc'[p].ran = engc[p].ran
           /\ ~Is(p, "idle")' /\ Files(engc[p].job)' = Files(engc[p].job)
<1>1. /\ Alters(p)
      /\ engc'[p].at = at
      /\ engc'[p].job = engc[p].job /\ engc'[p].text = engc[p].text
      /\ engc'[p].ran = engc[p].ran /\ engc'[p].exit = engc[p].exit
      /\ engc'[p].left = engc[p].left /\ engc'[p].failed = engc[p].failed
  BY Goes
<1>2. Routes(Does(p), at)'
  BY <1>1 DEF Does, Routes
<1>3. Placed(p)'
  BY <1>1 DEF Fits, Placed, Does, Out, Tests
<1>4. Counted(p)'
  <2>1. /\ engc[p].failed \in Nat
        /\ Does(p) # "test" => engc[p].left = <<>>
        /\ engc[p].left = <<>> => engc[p].failed = 0
    BY DEF Fits, Counted
  <2>2. Does(p)' = Does(p) /\ ~Is(p, "test")'
    BY <1>1 DEF Does, Is
  <2>3. QED
    BY <1>1, <2>1, <2>2 DEF Counted
<1>5. Files(engc[p].job)' = Files(engc[p].job)
  BY <1>1 DEF Files
<1>6. Fits(p)'
  BY <1>1, <1>2, <1>3, <1>4 DEF Fits, Does
<1>7. QED
  BY <1>1, <1>5, <1>6 DEF Is

LEMMA Finishes ==
    ASSUME DriverTyped, NEW p \in Engcs, Fits(p), Running(p), NEW rc, End(p, rc),
           Does(p) = "test" => Tests(p) \/ Is(p, "test")
    PROVE  /\ Alters(p) /\ Fits(p)'
           /\ engc'[p].at \in {"done", "tested"} /\ engc'[p].exit = rc
           /\ Does(p) # "test" => engc'[p].at = "done"
           /\ engc'[p].job = engc[p].job /\ engc'[p].text = engc[p].text
           /\ engc'[p].ran = engc[p].ran
           /\ engc'[p].at = "done" /\ Does(p) = "test" => engc'[p].failed = 0
           /\ ~Is(p, "idle")' /\ Files(engc[p].job)' = Files(engc[p].job)
<1>1. /\ Alters(p)
      /\ engc'[p].at = IF engc[p].left # <<>> THEN "tested" ELSE "done"
      /\ engc'[p].job = engc[p].job /\ engc'[p].text = engc[p].text
      /\ engc'[p].ran = engc[p].ran /\ engc'[p].exit = rc
      /\ engc'[p].left = engc[p].left /\ engc'[p].failed = engc[p].failed
  BY Exits
<1>2. /\ Does(p) # "test" \/ Is(p, "test") => engc[p].left = <<>>
      /\ engc[p].failed \in Nat
      /\ engc[p].left = <<>> => engc[p].failed = 0
  BY DEF Fits, Counted
<1>3. Routes(Does(p), engc[p].at)'
  BY <1>1, <1>2 DEF Does, Routes
<1>4. Placed(p)'
  <2>1. Does(p) = "test" /\ Tests(p)' => Tests(p)
    BY <1>1, <1>2 DEF Tests, NativeStages
  <2>2. QED
    BY <1>1, <2>1 DEF Fits, Placed, Does, Out
<1>5. Counted(p)'
  BY <1>1, <1>2 DEF Counted, Does, Is, Running
<1>6. Files(engc[p].job)' = Files(engc[p].job)
  BY <1>1 DEF Files
<1>7. Fits(p)'
  BY <1>3, <1>4, <1>5 DEF Fits
<1>8. QED
  BY <1>1, <1>2, <1>6, <1>7 DEF Is

-----------------------------------------------------------------------------
(* The three ways a step ends.                                             *)

\* It goes on to its next stage,
LEMMA Continues ==
    ASSUME DriverTyped, NEW p \in Engcs, Fits(p), Running(p), NEW at, Goto(p, at),
           Routes(Does(p), at), at \notin {"idle", "done", "test", "tested", "next"},
           Does(p) = "test" => Tests(p),
           UNCHANGED <<met, lines>>, InPlace(p),
           Progress(p) => Progress(p)'
    PROVE  Works(p)
<1>1. /\ Alters(p) /\ Fits(p)'
      /\ engc'[p].at = at
      /\ ~Is(p, "idle")' /\ Files(engc[p].job)' = Files(engc[p].job)
  BY GoesOn
<1>2. Ends(p)
  BY <1>1 DEF Ends
<1>3. QED
  BY <1>1, <1>2 DEF Works

\* fails,
LEMMA Fails ==
    ASSUME DriverTyped, NEW p \in Engcs, Fits(p), Running(p), NEW rc, rc # 0, End(p, rc),
           Does(p) = "test" => Tests(p) \/ Is(p, "test"),
           UNCHANGED <<met, lines>>, InPlace(p)
    PROVE  Works(p)
<1>1. /\ Alters(p) /\ Fits(p)'
      /\ engc'[p].at \in {"done", "tested"} /\ engc'[p].exit = rc
      /\ ~Is(p, "idle")' /\ Files(engc[p].job)' = Files(engc[p].job)
  BY Finishes
<1>2. Ends(p)
  BY <1>1 DEF Ends
<1>3. Progress(p)'
  BY <1>1 DEF Progress, Is
<1>4. QED
  BY <1>1, <1>2, <1>3 DEF Works

\* or succeeds.
LEMMA Succeeds ==
    ASSUME DriverTyped, NEW p \in Engcs, Fits(p), Running(p), End(p, 0),
           Does(p) = "test" => Is(p, "test"),
           UNCHANGED <<met, lines>>, InPlace(p),
           Progress(p) /\ Does(p) # "test" => Made(p)'
    PROVE  Works(p)
<1>1. /\ Alters(p) /\ Fits(p)'
      /\ engc'[p].at \in {"done", "tested"}
      /\ Does(p) # "test" => engc'[p].at = "done"
      /\ engc'[p].job = engc[p].job
      /\ engc'[p].at = "done" /\ Does(p) = "test" => engc'[p].failed = 0
      /\ ~Is(p, "idle")' /\ Files(engc[p].job)' = Files(engc[p].job)
  BY Finishes
<1>2. engc'[p].at = "done"
  <2>1. CASE Is(p, "test")
    <3>1. engc[p].left = <<>>
      BY <2>1 DEF Fits, Counted
    <3>2. QED
      BY <3>1, Exits
  <2>2. QED
    BY <1>1, <2>1
<1>3. ~Running(p)'
  BY <1>2 DEF Running
<1>4. ASSUME Progress(p) PROVE Ends(p)
  <2>1. CASE Does(p) = "test"
    <3>1. Made(p)'
      BY <1>1, <1>2, <2>1 DEF Made, Does
    <3>2. QED
      BY <1>2, <3>1 DEF Ends
  <2>2. CASE Does(p) # "test"
    BY <1>2, <1>4, <2>2 DEF Ends
  <2>3. QED
    BY <2>1, <2>2
<1>5. QED
  BY <1>1, <1>3, <1>4 DEF Works

-----------------------------------------------------------------------------
(* Which files are told apart by their names.                              *)

\* A path with one more part is another path, in the same directory.
LEMMA Longer ==
    ASSUME NEW f, IsPath(f), NEW e
    PROVE  /\ IsPath(Append(f, e)) /\ Append(f, e) # <<>>
           /\ Len(f) \in Nat /\ Len(Append(f, e)) = Len(f) + 1
           /\ f # <<>> => Append(f, e)[1] = f[1]
<1>1. PICK S : f \in Seq(S)
  BY DEF IsPath
<1> DEFINE U == S \cup {e}
<1>2. f \in Seq(U) /\ e \in U
  BY <1>1
<1> HIDE DEF U
<1>3. /\ Append(f, e) \in Seq(U) /\ Append(f, e) # <<>> /\ Len(f) \in Nat
      /\ Len(Append(f, e)) = Len(f) + 1
      /\ \A i \in 1..Len(f) : Append(f, e)[i] = f[i]
  BY <1>2, AppendProperties, LenProperties
<1>4. f # <<>> => 1 \in 1..Len(f)
  BY <1>2, <1>3, EmptySeq
<1>5. QED
  BY <1>3, <1>4 DEF IsPath

LEMMA NamesDiffer ==
    ASSUME NEW out, IsPath(out)
    PROVE  /\ \A e : Append(out, e) # out
           /\ Append(Append(out, "ecshim"), "c") # Append(out, "ll")
<1>1. \A e : Len(out) \in Nat /\ Len(Append(out, e)) = Len(out) + 1 /\ IsPath(Append(out, e))
  BY Longer
<1>2. Len(Append(Append(out, "ecshim"), "c")) = Len(Append(out, "ecshim")) + 1
  BY <1>1, Longer
<1>3. ASSUME NEW n \in Nat PROVE n + 1 # n /\ (n + 1) + 1 # n + 1
  OBVIOUS
<1>4. QED
  BY <1>1, <1>2, <1>3

NativeEndings == {"ll", "bc", "o"}

\* The files of a native build, and of a test in its directory, are its own.
LEMMA NativeFiles ==
    ASSUME NEW p, Placed(p), Tests(p), Does(p) \in {"native", "test"}
    PROVE  /\ IsPath(Out(p))
           /\ PlaceOf(Out(p)) \in Written(p)
           /\ \A e \in NativeEndings : PlaceOf(Append(Out(p), e)) \in Written(p)
           /\ PlaceOf(Append(Append(Out(p), "ecshim"), "c")) \in Written(p)
<1> DEFINE out == Out(p)
<1>1. CASE Does(p) = "native"
  <2>1. IsPath(out)
    BY <1>1 DEF Placed
  <2>2. Files(engc[p].job) = {out, Append(Append(out, "ecshim"), "c")}
                             \cup {Append(out, ext) : ext \in {"ll", "bc", "o"}}
    BY <1>1 DEF Files, Does, Out
  <2>3. QED
    BY <2>1, <2>2 DEF Written, NativeEndings
<1>2. CASE Does(p) = "test"
  <2>1. out = <<Temporary, out[2]>>
    BY <1>2 DEF Placed
  <2>2. ASSUME NEW x, NEW y PROVE IsPath(<<y, x>>) /\ <<y, x>> # <<>> /\ <<y, x>>[1] = y
    <3>1. <<y, x>> \in Seq({y, x})
      OBVIOUS
    <3>2. QED
      BY <3>1 DEF IsPath
  <2>3. IsPath(out) /\ out # <<>> /\ out[1] = Temporary
    BY ONLY <2>1, <2>2, Zenon
  <2> HIDE DEF out
  <2>4. \A e : IsPath(Append(out, e)) /\ Append(out, e) # <<>> /\ Append(out, e)[1] = Temporary
    BY <2>3, Longer
  <2>5. Append(Append(out, "ecshim"), "c")[1] = Temporary
    BY <2>4, Longer
  <2>6. Written(p) = {<<Temporary>>}
    <3>1. Files(engc[p].job) = {<<Temporary>>}
      BY <1>2 DEF Files, Does
    <3>2. PlaceOf(<<Temporary>>) = <<Temporary>>
      BY DEF PlaceOf
    <3>3. QED
      BY <3>1, <3>2 DEF Written
  <2>7. \A f : f[1] = Temporary => PlaceOf(f) \in Written(p)
    BY <2>6 DEF PlaceOf
  <2>8. QED
    BY <2>3, <2>4, <2>5, <2>7 DEF out
<1>3. QED
  BY <1>1, <1>2

\* Those of a bare-metal build.
LEMMA MetalFiles ==
    ASSUME NEW p, Placed(p), Does(p) = "baremetal"
    PROVE  /\ IsPath(Out(p))
           /\ PlaceOf(Out(p)) \in Written(p)
           /\ PlaceOf(Append(Out(p), "bin")) \in Written(p)
           /\ PlaceOf(Script) \in Written(p)
           /\ PlaceOf(Append(Stem(Out(p)), "ll")) \in Written(p)
           /\ PlaceOf(Append(Stem(Out(p)), "o")) \in Written(p)
           /\ Append(Out(p), "bin") # Out(p)
           /\ Append(Stem(Out(p)), "o") # Script
<1> DEFINE out == Out(p)
<1>1. IsPath(out)
  BY DEF Placed
<1>2. Files(engc[p].job) = {out, Append(out, "bin"), Script}
                           \cup {Append(Stem(out), ext) : ext \in {"ll", "o"}}
  BY DEF Files, Does, Out
<1>3. Append(out, "bin") # out
  BY <1>1, NamesDiffer
<1>4. Append(Stem(out), "o") # Script
  <2> DEFINE m == IF Len(out) = 1 THEN 1 ELSE 2
             n == IF Len(out) > 2 THEN Len(out) - 1 ELSE Len(out)
             middle == SubSeq(out, m, n)
  <2>1. Stem(out) = <<".">> \o middle
    BY DEF Stem
  <2>2. IsPath(middle)
    <3>1. PICK S : out \in Seq(S)
      BY <1>1 DEF IsPath
    <3>2. Len(out) \in Nat
      BY <3>1, LenProperties
    <3>3. m \in Int /\ n \in Int /\ \A i \in m..n : i \in 1..Len(out)
      BY <3>2
    <3>4. \A i \in m..n : out[i] \in S
      BY <3>1, <3>3, LenProperties
    <3> HIDE DEF m, n, out
    <3>5. QED
      BY <3>3, <3>4, SubSeqProperties DEF IsPath
  <2> HIDE DEF middle, out
  <2>3. IsPath(Stem(out)) /\ Stem(out)[1] = "." /\ Stem(out) # <<>>
    <3>1. PICK S : middle \in Seq(S)
      BY <2>2 DEF IsPath
    <3> DEFINE U == S \cup {"."}
    <3>2. middle \in Seq(U) /\ "." \in U
      BY <3>1
    <3> HIDE DEF U
    <3>3. /\ <<".">> \o middle \in Seq(U) /\ (<<".">> \o middle)[1] = "."
          /\ DOMAIN (<<".">> \o middle) = 1..(Len(middle) + 1) /\ Len(middle) \in Nat
      BY <3>2, PushFrame
    <3>4. 1 \in 1..(Len(middle) + 1)
      BY <3>3
    <3>5. <<".">> \o middle # <<>>
      BY <3>3, <3>4
    <3>6. QED
      BY <2>1, <3>3, <3>5 DEF IsPath
  <2>4. Append(Stem(out), "o")[1] = "."
    BY <2>3, Longer
  <2>5. Script[1] = "tmp"
    BY DEF Script
  <2>6. QED
    BY <2>4, <2>5
<1>5. QED
  BY <1>1, <1>2, <1>3, <1>4 DEF Written

-----------------------------------------------------------------------------
(* One lemma for each step.                                                *)
LEMMA KeptInPlace ==
    ASSUME NEW p, UNCHANGED disk
    PROVE  InPlace(p)
  BY AtKept DEF InPlace

LEMMA WrittenInPlace ==
    ASSUME NEW p, NEW path, PlaceOf(path) \in Written(p), NEW content, Write(path, content)
    PROVE  InPlace(p)
  BY AtWritten DEF InPlace

LEMMA DeletedInPlace ==
    ASSUME NEW p, NEW paths, \A f \in paths : PlaceOf(f) \in Written(p), Delete(paths)
    PROVE  InPlace(p)
  BY AtDeleted DEF InPlace

LEMMA ReadWorks ==
    ASSUME DriverTyped, NEW p \in Engcs, Fits(p), Read(p)
    PROVE  Works(p)
<1>1. Running(p) /\ Tests(p) /\ UNCHANGED <<met, lines>> /\ InPlace(p)
  BY KeptInPlace DEF Read, Is, Running, Tests, Keep, Env
<1>2. CASE Text(Src(p)) \in {"", "empty"}
  <2>1. End(p, 1)
    BY <1>2 DEF Read
  <2>2. QED
    BY <1>1, <2>1, Fails
<1>3. CASE Text(Src(p)) \notin {"", "empty"}
  <2> DEFINE at == IF Does(p) \in {"fmt", "lint"} THEN Does(p) ELSE "analyze"
  <2>1. engc' = [engc EXCEPT ![p].text = Text(Src(p)), ![p].at = at]
    BY <1>3 DEF Read
  <2>2. engc = [q \in Engcs |-> engc[q]] /\ IsEngc(engc[p])
    BY DEF DriverTyped
  <2> HIDE DEF at
  <2>3. /\ engc' = [q \in Engcs |-> engc'[q]]
        /\ \A q \in Engcs : q # p => engc'[q] = engc[q]
        /\ engc'[p] = [engc[p] EXCEPT !.text = Text(Src(p)), !.at = at]
    BY <2>1, <2>2
  <2>4. engc'[p] = [at |-> at, job |-> engc[p].job, text |-> Text(Src(p)), ran |-> engc[p].ran,
                    exit |-> engc[p].exit, left |-> engc[p].left, failed |-> engc[p].failed]
    BY <2>2, <2>3 DEF IsEngc
  <2>5. /\ engc'[p].at = at /\ engc'[p].job = engc[p].job
        /\ engc'[p].left = engc[p].left /\ engc'[p].failed = engc[p].failed
    BY <2>4
  <2>6. Alters(p)
    BY <2>2, <2>3, <2>4 DEF Alters, IsEngc
  <2>7. Does(p) \in Translated \cup {"native", "test", "baremetal", "fmt", "lint"}
    BY DEF Fits, Routes, Read, Is, NativeStages, MetalStages, OneStage, Translated
  <2>8. Fits(p)'
    <3>1. Routes(Does(p), engc[p].at)'
      BY <2>5, <2>7 DEF Routes, Does, OneStage, at, Translated
    <3>2. Placed(p)'
      BY <1>1, <2>5 DEF Fits, Placed, Does, Out
    <3>3. Counted(p)'
      BY <1>1, <2>5, <2>7 DEF Fits, Counted, Does, at, Is, Translated
    <3>4. QED
      BY <3>1, <3>2, <3>3 DEF Fits
  <2>9. engc'[p].at \in {"fmt", "lint", "analyze"}
    BY <2>5 DEF at
  <2>10. Ends(p) /\ ~Is(p, "idle")' /\ Files(engc[p].job)' = Files(engc[p].job)
    BY <2>5, <2>9 DEF Ends, Is, Files
  <2>11. Progress(p)'
    BY <2>9 DEF Progress, Is
  <2>12. QED
    BY <1>1, <2>6, <2>8, <2>10, <2>11 DEF Works
<1>4. QED
  BY <1>2, <1>3

LEMMA AnalyzeWorks ==
    ASSUME DriverTyped, NEW p \in Engcs, Fits(p), Analyze(p)
    PROVE  Works(p)
<1>1. Running(p) /\ Tests(p) /\ UNCHANGED <<met, lines>> /\ InPlace(p)
  BY KeptInPlace DEF Analyze, Is, Running, Tests, Keep, Env
<1>2. CASE End(p, 1)
  BY <1>1, <1>2, Fails
<1> DEFINE at == IF Does(p) = "test" THEN "native" ELSE IF Does(p) = "baremetal" THEN "ir" ELSE Does(p)
<1>3. CASE Goto(p, at)
  <2>1. Does(p) \in Translated \cup {"native", "test", "baremetal"}
    BY DEF Fits, Routes, Analyze, Is, NativeStages, MetalStages, OneStage, Translated
  <2>2. at \in Translated \cup {"native", "ir"} /\ Routes(Does(p), at)
    BY <2>1 DEF Translated, Routes, OneStage, NativeStages, MetalStages
  <2>3. engc'[p].at = at
    BY <1>3, Goes
  <2>4. Progress(p)'
    BY <2>2, <2>3 DEF Progress, Is, Translated
  <2>5. at \notin {"idle", "done", "test", "tested", "next"}
    BY <2>2 DEF Translated
  <2> HIDE DEF at
  <2>6. QED
    BY <1>1, <1>3, <2>2, <2>4, <2>5, Continues
<1>4. QED
  BY <1>2, <1>3 DEF Analyze

\* Commands of one step that touch nothing.
LEMMA OneStepWorks ==
    ASSUME DriverTyped, NEW p \in Engcs, Fits(p), Fmt(p) \/ Lint(p) \/ Stub(p) \/ Monitor(p) \/ Report(p)
    PROVE  Works(p)
<1>1. PICK rc \in {0, 1} : End(p, rc)
  BY DEF Fmt, Lint, Stub, Monitor, Report
<1>2. /\ engc[p].at \in {"fmt", "lint", "avr", "esp32", "stub", "monitor", "doctor", "help", "version", "doc", "usage"}
      /\ UNCHANGED <<disk, met, lines>>
  BY DEF Fmt, Lint, Stub, Monitor, Report, Is, Keep, Env
<1>3. Running(p) /\ Does(p) = engc[p].at /\ InPlace(p)
  BY <1>2, KeptInPlace DEF Running, Fits, Routes, NativeStages, MetalStages, OneStage, Translated
<1>4. Does(p) # "test"
  BY <1>2, <1>3
<1>5. CASE rc = 1
  <2>1. rc # 0
    BY <1>5
  <2>2. QED
    BY <1>1, <1>2, <1>3, <1>4, <2>1, Fails
<1>6. CASE rc = 0
  <2>1. engc'[p].job = engc[p].job
    BY <1>1, Exits
  <2>2. Made(p)'
    BY <1>2, <1>3, <2>1 DEF Made, Does
  <2>3. QED
    BY <1>1, <1>2, <1>3, <1>4, <1>6, <2>2, Succeeds
<1>7. QED
  BY <1>5, <1>6

LEMMA FlashWorks ==
    ASSUME DriverTyped, NEW p \in Engcs, Fits(p), Flash(p)
    PROVE  Works(p)
<1>1. /\ Running(p) /\ Does(p) = "flash" /\ InPlace(p) /\ UNCHANGED <<met, lines>>
  BY KeptInPlace DEF Flash, Is, Running, Env, Fits, Routes, NativeStages, MetalStages, OneStage, Translated
<1>2. CASE End(p, 1)
  BY <1>1, <1>2, Fails
<1> DEFINE board == engc[p].job.board
<1>3. CASE /\ board \in DOMAIN Boards /\ At(Src(p)).format # "missing"
           /\ device' = [device EXCEPT ![board] = At(Src(p))] /\ End(p, 0)
  <2>1. engc'[p].job = engc[p].job
    BY <1>3, Exits
  <2>2. device'[board] = At(Src(p))
    BY <1>3 DEF DriverTyped
  <2>3. Made(p)'
    BY <1>1, <1>3, <2>1, <2>2 DEF Made, Does
  <2>4. QED
    BY <1>1, <1>3, <2>3, Succeeds
<1>4. QED
  BY <1>2, <1>3 DEF Flash

-----------------------------------------------------------------------------
(* Translations.                                                           *)
LEMMA EmitWorks ==
    ASSUME DriverTyped, NEW p \in Engcs, Fits(p), engc[p].at \in Translated,
           NEW path, NEW format, Write(path, Content(format, engc[p].text)), End(p, 0),
           UNCHANGED <<met, lines>>, path \in Files(engc[p].job),
           Does(p) = "ino" => path = Append(Stem(Out(p)), "ino") /\ format = "ino",
           Does(p) \in {"js", "py"} => path = Target(p, Does(p)) /\ format = Does(p),
           Does(p) \in {"wat", "ecvm"} => path = WithEnding(Out(p), Does(p)) /\ format = Does(p)
    PROVE  Works(p)
<1>1. Running(p) /\ Does(p) \in Translated /\ Does(p) # "test"
  BY DEF Running, Fits, Routes, NativeStages, MetalStages, OneStage, Translated
<1>2. PlaceOf(path) \in Written(p)
  BY DEF Written
<1>3. InPlace(p)
  BY <1>2, WrittenInPlace
<1>4. engc'[p].job = engc[p].job /\ engc'[p].text = engc[p].text
  BY Exits
<1>5. \A f : At(f)' = IF f = path THEN Content(format, engc[p].text) ELSE At(f)
  BY AtWritten
<1>6. Made(p)'
  <2>1. CASE Does(p) = "ino"
    BY <1>4, <1>5, <2>1 DEF Made, Does, Out
  <2>2. CASE Does(p) \in {"wat", "ecvm"}
    BY <1>4, <1>5, <2>2 DEF Made, Does, Out
  <2>3. CASE Does(p) \in {"js", "py"}
    <3>1. Target(p, Does(p))' = path
      <4>1. CASE At(Out(p)).format = "dir"
        <5>1. path = <<Out(p)[1], Src(p)[2], Does(p)>>
          BY <2>3, <4>1 DEF Target
        <5>2. CASE path = Out(p)
          <6>1. At(Out(p))'.format # "dir"
            BY <1>4, <1>5, <2>3, <5>2 DEF Content, Out
          <6>2. Last(Out(p)) = Does(p)
            <7>1. ASSUME NEW a, NEW b, NEW c PROVE Last(<<a, b, c>>) = c
              BY DEF Last
            <7>2. QED
              BY <5>1, <5>2, <7>1
          <6>3. QED
            BY <1>4, <5>2, <6>1, <6>2 DEF Target, WithEnding, Out, Does
        <5>3. CASE path # Out(p)
          <6>1. At(Out(p))'.format = "dir"
            BY <1>4, <1>5, <4>1, <5>3 DEF Out
          <6>2. QED
            BY <1>4, <5>1, <6>1 DEF Target, Out, Src, Does
        <5>4. QED
          BY <5>2, <5>3
      <4>2. CASE At(Out(p)).format # "dir"
        <5>1. path = WithEnding(Out(p), Does(p))
          BY <2>3, <4>2 DEF Target
        <5>2. At(Out(p))'.format # "dir"
          <6>1. CASE path = Out(p)
            BY <1>4, <1>5, <2>3, <6>1 DEF Content, Out
          <6>2. CASE path # Out(p)
            BY <1>4, <1>5, <4>2, <6>2 DEF Out
          <6>3. QED
            BY <6>1, <6>2
        <5>3. QED
          BY <1>4, <5>1, <5>2 DEF Target, Out, Does
      <4>3. QED
        BY <4>1, <4>2
    <3>2. QED
      BY <1>4, <1>5, <2>3, <3>1 DEF Made, Does
  <2>4. QED
    BY <1>1, <2>1, <2>2, <2>3 DEF Translated
<1>7. QED
  BY <1>1, <1>3, <1>6, Succeeds

LEMMA TranslateWorks ==
    ASSUME DriverTyped, NEW p \in Engcs, Fits(p), Translate(p)
    PROVE  Works(p)
<1>1. ASSUME engc[p].at \in Translated PROVE Does(p) = engc[p].at
  BY <1>1 DEF Fits, Routes, NativeStages, MetalStages, OneStage, Translated
<1>2. CASE Sketch(p)
  <2>1. engc[p].at = "ino" /\ Does(p) = "ino" /\ engc[p].at \in Translated
    BY <1>1, <1>2 DEF Sketch, Is, Translated
  <2>2. Append(Stem(Out(p)), "ino") \in Files(engc[p].job)
    BY <2>1 DEF Files, Does, Out
  <2>3. QED
    BY <1>2, <2>1, <2>2, EmitWorks DEF Sketch, Emit, Env
<1>3. CASE EmitJS(p) \/ EmitPython(p)
  <2>1. PICK ext \in {"js", "py"} : Is(p, ext) /\ Emit(p, Target(p, ext), ext)
    BY <1>3 DEF EmitJS, EmitPython
  <2>2. engc[p].at \in Translated /\ Does(p) = ext
    BY <1>1, <2>1 DEF Is, Translated
  <2>3. Target(p, ext) \in Files(engc[p].job)
    BY <2>2 DEF Files, Does, Out, Src, Target
  <2>4. QED
    BY <2>1, <2>2, <2>3, EmitWorks DEF Emit, Env
<1>4. CASE EmitWasm(p)
  <2>1. Does(p) = "wat" /\ engc[p].at \in Translated
    BY <1>1, <1>4 DEF EmitWasm, Is, Translated
  <2>2. WithEnding(Out(p), "wat") \in Files(engc[p].job)
    BY <2>1 DEF Files, Does, Out
  <2>3. QED
    BY <1>4, <2>1, <2>2, EmitWorks DEF EmitWasm, Emit, Env
<1>5. CASE EmitBytecode(p)
  <2>1. Does(p) = "ecvm" /\ engc[p].at = "ecvm"
    BY <1>1, <1>5 DEF EmitBytecode, Is, Translated
  <2> DEFINE path == WithEnding(Out(p), "ecvm")
  <2>2. Write(path, Content("ecvm", engc[p].text))
    BY <1>5 DEF EmitBytecode
  <2>3. path \in Files(engc[p].job)
    BY <2>1 DEF Files, Does, Out
  <2> HIDE DEF path
  <2>4. InPlace(p)
    BY <2>2, <2>3, WrittenInPlace DEF Written
  <2>5. engc = [q \in Engcs |-> engc[q]] /\ IsEngc(engc[p])
    BY DEF DriverTyped
  <2>6. /\ engc' = [q \in Engcs |-> engc'[q]]
        /\ \A q \in Engcs : q # p => engc'[q] = engc[q]
        /\ engc'[p] = [engc[p] EXCEPT !.at = "done", !.ran = engc[p].text]
    BY <1>5, <2>5 DEF EmitBytecode
  <2>7. engc'[p] = [at |-> "done", job |-> engc[p].job, text |-> engc[p].text, ran |-> engc[p].text,
                    exit |-> engc[p].exit, left |-> engc[p].left, failed |-> engc[p].failed]
    BY <2>5, <2>6 DEF IsEngc
  <2>8. Alters(p)
    BY <2>5, <2>6, <2>7 DEF Alters, IsEngc
  <2>9. Fits(p)'
    BY <2>1, <2>7 DEF Fits, Routes, Placed, Counted, Does, Out, Is, Running
  <2>10. Made(p)'
    <3>1. \A f : At(f)' = IF f = path THEN Content("ecvm", engc[p].text) ELSE At(f)
      BY <2>2, AtWritten
    <3>2. WithEnding(Out(p), "ecvm")' = path
      BY <2>7 DEF WithEnding, Out, path
    <3>3. engc'[p].text = engc[p].text /\ engc'[p].job = engc[p].job
      BY <2>7
    <3>4. QED
      BY <2>1, <3>1, <3>2, <3>3 DEF Made, Does
  <2>11. Ends(p) /\ ~Running(p)' /\ ~Is(p, "idle")' /\ Running(p)
    BY <2>1, <2>7, <2>10 DEF Ends, Running, Is
  <2>12. Files(engc[p].job)' = Files(engc[p].job) /\ UNCHANGED <<met, lines>>
    <3>1. engc'[p].job = engc[p].job
      BY <2>7
    <3>2. UNCHANGED <<met, lines>>
      BY <1>5 DEF EmitBytecode, Env
    <3>3. QED
      BY <3>1, <3>2 DEF Files
  <2>13. QED
    BY <2>4, <2>8, <2>9, <2>11, <2>12 DEF Works
<1>6. CASE Stub(p)
  BY <1>6, OneStepWorks
<1>7. QED
  BY <1>2, <1>3, <1>4, <1>5, <1>6 DEF Translate

-----------------------------------------------------------------------------
(* Native programs.                                                        *)

\* Where a native build is, and what it may touch there.
LEMMA NativeAt ==
    ASSUME NEW p \in Engcs, Fits(p), engc[p].at \in NativeStages
    PROVE  /\ Running(p) /\ Tests(p) /\ Does(p) \in {"native", "test"}
           /\ IsPath(Out(p))
           /\ PlaceOf(Out(p)) \in Written(p)
           /\ \A e \in NativeEndings : PlaceOf(Append(Out(p), e)) \in Written(p)
           /\ PlaceOf(Append(Append(Out(p), "ecshim"), "c")) \in Written(p)
<1>1. Running(p) /\ Tests(p) /\ Does(p) \in {"native", "test"}
  BY DEF Fits, Routes, Running, Tests, NativeStages, MetalStages, OneStage, Translated
<1>2. QED
  BY <1>1, NativeFiles DEF Fits

\* From one of its stages to another.
LEMMA NativeContinues ==
    ASSUME DriverTyped, NEW p \in Engcs, Fits(p), engc[p].at \in NativeStages,
           NEW at \in NativeStages, Goto(p, at), InPlace(p), UNCHANGED <<met, lines>>,
           Progress(p) => Progress(p)'
    PROVE  Works(p)
<1>1. Running(p) /\ Tests(p) /\ Does(p) \in {"native", "test"}
  BY NativeAt
<1>2. Routes(Does(p), at) /\ at \notin {"idle", "done", "test", "tested", "next"}
  BY <1>1 DEF Routes, NativeStages
<1>3. QED
  BY <1>1, <1>2, Continues

LEMMA NativeFails ==
    ASSUME DriverTyped, NEW p \in Engcs, Fits(p), engc[p].at \in NativeStages,
           End(p, 1), InPlace(p), UNCHANGED <<met, lines>>
    PROVE  Works(p)
<1>1. Running(p) /\ Tests(p)
  BY NativeAt
<1>2. QED
  BY <1>1, Fails

LEMMA GenerateWorks ==
    ASSUME DriverTyped, NEW p \in Engcs, Fits(p), Generate(p)
    PROVE  Works(p)
<1>1. engc[p].at \in NativeStages /\ UNCHANGED <<met, lines>>
  BY DEF Generate, Is, NativeStages, Env
<1>2. CASE End(p, 1) /\ Keep
  BY <1>1, <1>2, KeptInPlace, NativeFails DEF Keep
<1>3. CASE Write(Beside(p, "ll"), Content("ll", engc[p].text)) /\ Goto(p, "shim")
  <2>1. PlaceOf(Beside(p, "ll")) \in Written(p)
    BY <1>1, NativeAt DEF Beside, NativeEndings
  <2>2. InPlace(p)
    BY <1>3, <2>1, WrittenInPlace
  <2>3. \A f : At(f)' = IF f = Beside(p, "ll") THEN Content("ll", engc[p].text) ELSE At(f)
    BY <1>3, AtWritten
  <2>4. engc'[p].at = "shim" /\ engc'[p].job = engc[p].job /\ engc'[p].text = engc[p].text
    BY <1>3, Goes
  <2>5. Progress(p)'
    BY <2>3, <2>4 DEF Progress, Own, Is, Out, Beside
  <2>6. QED
    BY <1>1, <1>3, <2>2, <2>5, NativeContinues DEF NativeStages
<1>4. QED
  BY <1>2, <1>3 DEF Generate

LEMMA WriteShimWorks ==
    ASSUME DriverTyped, NEW p \in Engcs, Fits(p), WriteShim(p)
    PROVE  Works(p)
<1>1. engc[p].at \in NativeStages /\ UNCHANGED <<met, lines>> /\ Is(p, "shim")
  BY DEF WriteShim, Is, NativeStages, Env
<1> DEFINE shim == Append(Beside(p, "ecshim"), "c")
<1>2. PICK at \in {"as", "compile"} : Goto(p, at)
  BY DEF WriteShim
<1>3. Write(shim, Content("c", "shim"))
  BY DEF WriteShim
<1>4. PlaceOf(shim) \in Written(p) /\ shim # Append(Out(p), "ll")
  BY <1>1, NativeAt, NamesDiffer DEF Beside
<1> HIDE DEF shim
<1>5. InPlace(p)
  BY <1>3, <1>4, WrittenInPlace
<1>6. \A f : At(f)' = IF f = shim THEN Content("c", "shim") ELSE At(f)
  BY <1>3, AtWritten
<1>7. engc'[p].at = at /\ engc'[p].job = engc[p].job /\ engc'[p].text = engc[p].text
  BY <1>2, Goes
<1>8. ASSUME Progress(p) PROVE Progress(p)'
  <2>1. Own(p, Append(Out(p), "ll"), "ll")
    BY <1>1, <1>8 DEF Progress, Is
  <2>2. QED
    BY <1>2, <1>4, <1>6, <1>7, <2>1 DEF Progress, Own, Is, Out
<1>9. QED
  BY <1>1, <1>2, <1>5, <1>8, NativeContinues DEF NativeStages

\* What a tool makes of a file of the text is of the text.
LEMMA TextOfOwn ==
    ASSUME NEW p, NEW path, NEW format \in {"ll", "bc", "o", "exe"}, Own(p, path, format)
    PROVE  Text(path) = engc[p].text /\ At(path).format = format
  BY DEF Own, Text, Content

LEMMA ToolWorks ==
    ASSUME DriverTyped, NEW p \in Engcs, Fits(p), engc[p].at \in NativeStages,
           NEW from, NEW to, NEW format, NEW at \in {"tidy", "llc", "cc", "made"},
           Write(to, Content(format, Text(from))), Goto(p, at), UNCHANGED <<met, lines>>,
           PlaceOf(to) \in Written(p),
           Progress(p) => \E f \in {"ll", "bc", "o"} : Own(p, from, f),
           at \in {"tidy", "made"} => to = Out(p) /\ format = "exe",
           at = "llc" => to = Append(Out(p), "bc") /\ format = "bc",
           at = "cc" => to = Append(Out(p), "o") /\ format = "o"
    PROVE  Works(p)
<1>1. InPlace(p)
  BY WrittenInPlace
<1>2. \A f : At(f)' = IF f = to THEN Content(format, Text(from)) ELSE At(f)
  BY AtWritten
<1>3. engc'[p].at = at /\ engc'[p].job = engc[p].job /\ engc'[p].text = engc[p].text
  BY Goes
<1>4. ASSUME Progress(p) PROVE Progress(p)'
  <2>1. Text(from) = engc[p].text
    BY <1>4, TextOfOwn
  <2>2. QED
    BY <1>2, <1>3, <2>1 DEF Progress, Own, Is, Out
<1>5. QED
  BY <1>1, <1>4, NativeContinues DEF NativeStages

LEMMA ChainWorks ==
    ASSUME DriverTyped, NEW p \in Engcs, Fits(p), CompileIR(p) \/ Assemble(p) \/ Lower(p) \/ Link(p)
    PROVE  Works(p)
<1>1. engc[p].at \in {"compile", "as", "llc", "cc"} /\ UNCHANGED <<met, lines>>
  BY DEF CompileIR, Assemble, Lower, Link, Is, Tool, Env
<1>2. engc[p].at \in NativeStages
  BY <1>1 DEF NativeStages
<1>3. /\ PlaceOf(Out(p)) \in Written(p) /\ PlaceOf(Append(Out(p), "bc")) \in Written(p)
      /\ PlaceOf(Append(Out(p), "o")) \in Written(p)
  BY <1>2, NativeAt DEF NativeEndings
<1>4. CASE UNCHANGED disk /\ End(p, 1)
  BY <1>1, <1>2, <1>4, KeptInPlace, NativeFails
<1>5. CASE UNCHANGED disk /\ Goto(p, "unmade")
  <2>1. engc'[p].at = "unmade"
    BY <1>5, Goes
  <2>2. Progress(p)'
    BY <2>1 DEF Progress, Is
  <2>3. QED
    BY <1>1, <1>2, <1>5, <2>2, KeptInPlace, NativeContinues DEF NativeStages
<1>6. CASE /\ Is(p, "compile") /\ Goto(p, "tidy")
           /\ Write(Out(p), Content("exe", Text(Append(Out(p), "ll"))))
  <2>1. Progress(p) => Own(p, Append(Out(p), "ll"), "ll")
    BY <1>6 DEF Progress, Is
  <2>2. QED
    BY <1>1, <1>2, <1>3, <1>6, <2>1, ToolWorks
<1>7. CASE /\ Is(p, "as") /\ Goto(p, "llc")
           /\ Write(Append(Out(p), "bc"), Content("bc", Text(Append(Out(p), "ll"))))
  <2>1. Progress(p) => Own(p, Append(Out(p), "ll"), "ll")
    BY <1>7 DEF Progress, Is
  <2>2. QED
    BY <1>1, <1>2, <1>3, <1>7, <2>1, ToolWorks
<1>8. CASE /\ Is(p, "llc") /\ Goto(p, "cc")
           /\ Write(Append(Out(p), "o"), Content("o", Text(Append(Out(p), "bc"))))
  <2>1. Progress(p) => Own(p, Append(Out(p), "bc"), "bc")
    BY <1>8 DEF Progress
  <2>2. QED
    BY <1>1, <1>2, <1>3, <1>8, <2>1, ToolWorks
<1>9. CASE /\ Is(p, "cc") /\ Goto(p, "made")
           /\ Write(Out(p), Content("exe", Text(Append(Out(p), "o"))))
  <2>1. Progress(p) => Own(p, Append(Out(p), "o"), "o")
    BY <1>9 DEF Progress
  <2>2. QED
    BY <1>1, <1>2, <1>3, <1>9, <2>1, ToolWorks
<1>10. QED
  BY <1>4, <1>5, <1>6, <1>7, <1>8, <1>9 DEF CompileIR, Assemble, Lower, Link, Tool, Beside, Keep

LEMMA CleanUpWorks ==
    ASSUME DriverTyped, NEW p \in Engcs, Fits(p), CleanUp(p)
    PROVE  Works(p)
<1> DEFINE gone == {Append(Out(p), "bc"), Append(Out(p), "o")}
<1>1. /\ engc[p].at \in {"made", "unmade"} /\ engc[p].at \in NativeStages
      /\ Delete(gone) /\ UNCHANGED <<met, lines>>
  BY DEF CleanUp, Env, NativeStages, Beside
<1>2. \A f \in gone : PlaceOf(f) \in Written(p)
  BY <1>1, NativeAt DEF NativeEndings
<1>3. Out(p) \notin gone
  BY <1>1, NativeAt, NamesDiffer
<1> HIDE DEF gone
<1>4. InPlace(p)
  BY <1>1, <1>2, DeletedInPlace
<1>5. CASE Is(p, "made") /\ Goto(p, "tidy")
  <2>1. engc'[p].at = "tidy" /\ engc'[p].job = engc[p].job /\ engc'[p].text = engc[p].text
    BY <1>5, Goes
  <2>2. \A f : At(f)' = IF f \in gone THEN Missing ELSE At(f)
    BY <1>1, AtDeleted
  <2>3. Progress(p) => Progress(p)'
    BY <1>3, <1>5, <2>1, <2>2 DEF Progress, Own, Is, Out
  <2>4. QED
    BY <1>1, <1>4, <1>5, <2>3, NativeContinues DEF NativeStages
<1>6. CASE End(p, 1)
  BY <1>1, <1>4, <1>6, NativeFails
<1>7. QED
  BY <1>5, <1>6 DEF CleanUp

LEMMA TidyWorks ==
    ASSUME DriverTyped, NEW p \in Engcs, Fits(p), Tidy(p)
    PROVE  Works(p)
<1> DEFINE gone == {Append(Out(p), "ll")}
<1>1. /\ Is(p, "tidy") /\ engc[p].at \in NativeStages /\ Goto(p, "program")
      /\ UNCHANGED <<met, lines>>
  BY DEF Tidy, Env, NativeStages, Is
<1>2. UNCHANGED disk \/ Delete(gone)
  BY DEF Tidy, Beside
<1>3. (\A f \in gone : PlaceOf(f) \in Written(p)) /\ Out(p) \notin gone
  BY <1>1, NativeAt, NamesDiffer DEF NativeEndings
<1> HIDE DEF gone
<1>4. InPlace(p)
  BY <1>2, <1>3, DeletedInPlace, KeptInPlace
<1>5. \A f : f \notin gone => At(f)' = At(f)
  BY <1>2, AtDeleted, AtKept
<1>6. engc'[p].at = "program" /\ engc'[p].job = engc[p].job /\ engc'[p].text = engc[p].text
  BY <1>1, Goes
<1>7. Progress(p) => Progress(p)'
  BY <1>1, <1>3, <1>5, <1>6 DEF Progress, Own, Is, Out
<1>8. QED
  BY <1>1, <1>4, <1>7, NativeContinues DEF NativeStages

LEMMA RunProgramWorks ==
    ASSUME DriverTyped, NEW p \in Engcs, Fits(p), RunProgram(p)
    PROVE  Works(p)
<1> DEFINE rc == WaitStatus(Found(Out(p)))
           at == IF engc[p].left # <<>> THEN "tested" ELSE "done"
           ran == IF Found(Out(p)).format = "exe" THEN Found(Out(p)).text ELSE ""
<1>1. /\ Is(p, "program") /\ engc[p].at \in NativeStages /\ UNCHANGED <<disk, tools, met, lines>>
      /\ engc' = [engc EXCEPT ![p].ran = ran, ![p].exit = rc, ![p].at = at]
  BY DEF RunProgram, Keep, Env, NativeStages, Is
<1>2. Running(p) /\ Tests(p) /\ Does(p) \in {"native", "test"}
  BY <1>1, NativeAt
<1>3. ASSUME rc = 0 PROVE ran \notin Failing
  <2>1. CASE Found(Out(p)).format # "exe"
    BY <2>1 DEF Failing
  <2>2. CASE Found(Out(p)).format = "exe"
    BY <1>3, <2>2 DEF WaitStatus
  <2>3. QED
    BY <2>1, <2>2
<1>4. /\ at = "tested" => engc[p].left # <<>>
      /\ at = "done" => engc[p].left = <<>>
      /\ at \in {"tested", "done"}
  OBVIOUS
<1> HIDE DEF rc, at, ran
<1>5. engc = [q \in Engcs |-> engc[q]] /\ IsEngc(engc[p])
  BY DEF DriverTyped
<1>6. /\ engc' = [q \in Engcs |-> engc'[q]]
      /\ \A q \in Engcs : q # p => engc'[q] = engc[q]
      /\ engc'[p] = [engc[p] EXCEPT !.ran = ran, !.exit = rc, !.at = at]
  BY <1>1, <1>5
<1>7. engc'[p] = [at |-> at, job |-> engc[p].job, text |-> engc[p].text, ran |-> ran,
                  exit |-> rc, left |-> engc[p].left, failed |-> engc[p].failed]
  BY <1>5, <1>6 DEF IsEngc
<1>8. /\ engc'[p].at = at /\ engc'[p].job = engc[p].job /\ engc'[p].text = engc[p].text
      /\ engc'[p].ran = ran /\ engc'[p].exit = rc
      /\ engc'[p].left = engc[p].left /\ engc'[p].failed = engc[p].failed
  BY <1>7
<1>9. Alters(p)
  BY <1>5, <1>6, <1>7 DEF Alters, IsEngc
<1>10. Fits(p)'
  <2>1. /\ Does(p) # "test" => engc[p].left = <<>>
        /\ engc[p].failed \in Nat
        /\ engc[p].left = <<>> => engc[p].failed = 0
    BY <1>2 DEF Fits, Counted, Running
  <2>2. Routes(Does(p), engc[p].at)'
    BY <1>2, <1>4, <1>8, <2>1 DEF Does, Routes
  <2>3. Placed(p)'
    BY <1>2, <1>8 DEF Fits, Placed, Does, Out
  <2>4. Counted(p)'
    BY <1>4, <1>8, <2>1 DEF Counted, Does, Is
  <2>5. QED
    BY <2>2, <2>3, <2>4 DEF Fits
<1>11. Files(engc[p].job)' = Files(engc[p].job) /\ ~Is(p, "idle")'
  BY <1>4, <1>8 DEF Files, Is
<1>12. InPlace(p)
  BY <1>1, KeptInPlace
<1>13. ASSUME Progress(p) PROVE (Running(p)' => Progress(p)') /\ Ends(p)
  <2>1. Reached(Out(p)) => ran = engc[p].text
    <3>1. Own(p, Out(p), "exe")
      BY <1>1, <1>13 DEF Progress, Is
    <3>2. ASSUME Reached(Out(p)) PROVE Found(Out(p)) = At(Out(p))
      BY <3>2 DEF Found
    <3>3. At(Out(p)).format = "exe" /\ At(Out(p)).text = engc[p].text
      BY <3>1 DEF Own, Content
    <3>4. QED
      BY <3>2, <3>3 DEF ran
  <2>5. Does(p) = "test" => Reached(Out(p))
    <3>1. Does(p) = "test" => Out(p) = <<Temporary, Out(p)[2]>>
      BY <1>2 DEF Fits, Placed
    <3>2. \A x : Reached(<<Temporary, x>>)
      BY DEF Reached, Temporary
    <3>3. QED
      BY <3>1, <3>2
  <2>6. Does(p) = "native" => at = "done"
    BY <1>4 DEF Fits, Counted
  <2>2. Progress(p)'
    BY <1>2, <1>3, <1>4, <1>8, <2>1, <2>5, <2>6 DEF Progress, Is
  <2>3. Ends(p)
    <3>1. CASE at = "tested"
      BY <1>2, <1>3, <1>8, <2>1, <2>5, <2>6, <3>1 DEF Ends
    <3>2. CASE at = "done"
      <4>1. CASE Does(p) = "native"
        <5>1. Own(p, Out(p), "exe")
          BY <1>1, <1>13 DEF Progress, Is
        <5>2. \A f : At(f)' = At(f)
          BY <1>1, AtKept
        <5>3. Made(p)'
          BY <1>1, <1>8, <2>1, <4>1, <5>1, <5>2 DEF Made, Does, Own, Out, Reached
        <5>4. QED
          BY <1>8, <3>2, <5>3 DEF Ends
      <4>2. CASE Does(p) = "test"
        <5>1. engc'[p].failed = 0
          BY <1>2, <1>4, <1>8, <3>2, <4>2 DEF Fits, Counted
        <5>2. Made(p)'
          BY <1>8, <4>2, <5>1 DEF Made, Does
        <5>3. QED
          BY <1>8, <3>2, <5>2 DEF Ends
      <4>3. QED
        BY <1>2, <4>1, <4>2
    <3>3. QED
      BY <1>4, <3>1, <3>2
  <2>4. QED
    BY <2>2, <2>3
<1>14. QED
  BY <1>1, <1>2, <1>9, <1>10, <1>11, <1>12, <1>13 DEF Works

LEMMA NativeWorks ==
    ASSUME DriverTyped, NEW p \in Engcs, Fits(p), Native(p)
    PROVE  Works(p)
  BY GenerateWorks, WriteShimWorks, ChainWorks, CleanUpWorks, TidyWorks, RunProgramWorks DEF Native

-----------------------------------------------------------------------------
(* Test runs.                                                              *)
LEMMA FindTestsWorks ==
    ASSUME DriverTyped, NEW p \in Engcs, Fits(p), FindTests(p)
    PROVE  Works(p)
<1>1. /\ Is(p, "test") /\ Running(p) /\ Does(p) = "test" /\ UNCHANGED <<met, lines>> /\ InPlace(p)
      /\ engc[p].left = <<>> /\ engc[p].failed = 0
  BY KeptInPlace DEF FindTests, Is, Running, Keep, Env, Fits, Routes, Counted,
                     NativeStages, MetalStages, OneStage, Translated
<1>2. CASE End(p, 1)
  BY <1>1, <1>2, Fails
<1>3. CASE End(p, 0)
  BY <1>1, <1>3, Succeeds
<1> DEFINE left == SetToSeq(FilesIn(Src(p)))
<1>4. CASE engc' = [engc EXCEPT ![p].left = left, ![p].at = "next"]
  <2> HIDE DEF left
  <2>1. engc = [q \in Engcs |-> engc[q]] /\ IsEngc(engc[p])
    BY DEF DriverTyped
  <2>2. /\ engc' = [q \in Engcs |-> engc'[q]]
        /\ \A q \in Engcs : q # p => engc'[q] = engc[q]
        /\ engc'[p] = [engc[p] EXCEPT !.left = left, !.at = "next"]
    BY <1>4, <2>1
  <2>3. engc'[p] = [at |-> "next", job |-> engc[p].job, text |-> engc[p].text, ran |-> engc[p].ran,
                    exit |-> engc[p].exit, left |-> left, failed |-> engc[p].failed]
    BY <2>1, <2>2 DEF IsEngc
  <2>4. engc'[p].at = "next" /\ engc'[p].job = engc[p].job /\ engc'[p].failed = 0
    BY <1>1, <2>3
  <2>5. Alters(p)
    BY <2>1, <2>2, <2>3 DEF Alters, IsEngc
  <2>6. Fits(p)'
    BY <1>1, <2>4 DEF Fits, Routes, Placed, Counted, Does, Out, Is, Tests, NativeStages
  <2>7. Ends(p) /\ ~Is(p, "idle")' /\ Files(engc[p].job)' = Files(engc[p].job)
    BY <2>4 DEF Ends, Is, Files
  <2>8. Progress(p)'
    BY <2>4 DEF Progress, Is
  <2>9. QED
    BY <1>1, <2>5, <2>6, <2>7, <2>8 DEF Works
<1>5. QED
  BY <1>2, <1>3, <1>4 DEF FindTests

LEMMA NextTestWorks ==
    ASSUME DriverTyped, NEW p \in Engcs, Fits(p), NextTest(p)
    PROVE  Works(p)
<1> DEFINE src == Head(engc[p].left)
           out == <<Temporary, src[2]>>
<1>1. /\ Is(p, "next") /\ Running(p) /\ Does(p) = "test" /\ UNCHANGED <<met, lines>> /\ InPlace(p)
      /\ engc' = [engc EXCEPT ![p].at = "read", ![p].job.src = src, ![p].job.out = out]
  BY KeptInPlace DEF NextTest, Is, Running, Keep, Env, Fits, Routes, NativeStages, MetalStages,
                     OneStage, Translated
<1>2. out = <<Temporary, out[2]>>
  OBVIOUS
<1> HIDE DEF src, out
<1>3. engc = [q \in Engcs |-> engc[q]] /\ IsEngc(engc[p])
  BY DEF DriverTyped
<1> DEFINE job == [engc[p].job EXCEPT !.src = src, !.out = out]
<1>4. job = Job(Does(p), src, out, engc[p].job.target, engc[p].job.board)
  <2> DEFINE mid == [engc[p].job EXCEPT !.src = src]
  <2>1. job = [mid EXCEPT !.out = out]
    OBVIOUS
  <2>2. mid = Job(Does(p), src, Out(p), engc[p].job.target, engc[p].job.board)
    BY <1>3 DEF IsEngc, Job, Does, Out
  <2> HIDE DEF mid, job
  <2>3. QED
    BY <2>1, <2>2 DEF Job
<1>5. /\ engc' = [q \in Engcs |-> engc'[q]]
      /\ \A q \in Engcs : q # p => engc'[q] = engc[q]
      /\ engc'[p] = [engc[p] EXCEPT !.at = "read", !.job = job]
  BY <1>1, <1>3 DEF IsEngc
<1> HIDE DEF job
<1>6. engc'[p] = [at |-> "read", job |-> job, text |-> engc[p].text, ran |-> engc[p].ran,
                  exit |-> engc[p].exit, left |-> engc[p].left, failed |-> engc[p].failed]
  BY <1>3, <1>5 DEF IsEngc
<1>7. /\ engc'[p].at = "read" /\ engc'[p].job = job
      /\ engc'[p].left = engc[p].left /\ engc'[p].failed = engc[p].failed
  BY <1>6
<1>8. /\ job.does = "test" /\ job.out = out
      /\ job = Job(job.does, job.src, job.out, job.target, job.board)
  BY <1>1, <1>4 DEF Job
<1>9. Alters(p)
  <2>1. IsEngc(engc'[p])
    BY <1>6, <1>7, <1>8 DEF IsEngc
  <2>2. QED
    BY <1>5, <2>1 DEF Alters
<1>10. Fits(p)'
  <2>1. Routes(Does(p), engc[p].at)'
    BY <1>7, <1>8 DEF Routes, Does
  <2>2. Placed(p)'
    BY <1>2, <1>7, <1>8 DEF Placed, Does, Out
  <2>3. Counted(p)'
    BY <1>1, <1>7, <1>8 DEF Fits, Counted, Does, Is, Running
  <2>4. QED
    BY <2>1, <2>2, <2>3 DEF Fits
<1>11. Files(engc[p].job)' = Files(engc[p].job)
  BY <1>1, <1>7, <1>8 DEF Files, Does
<1>12. Ends(p) /\ ~Is(p, "idle")' /\ Progress(p)'
  BY <1>7 DEF Ends, Is, Progress
<1>13. QED
  BY <1>1, <1>9, <1>10, <1>11, <1>12 DEF Works

LEMMA TestedWorks ==
    ASSUME DriverTyped, NEW p \in Engcs, Fits(p), Tested(p)
    PROVE  Works(p)
<1> DEFINE failed == engc[p].failed + (IF engc[p].exit = 0 THEN 0 ELSE 1)
           left == Tail(engc[p].left)
           at == IF left = <<>> THEN "done" ELSE "next"
           rc == IF left = <<>> /\ failed > 0 THEN 1 ELSE 0
<1>1. /\ Is(p, "tested") /\ UNCHANGED <<met, lines>> /\ Delete({Out(p)})
      /\ engc' = [engc EXCEPT ![p].left = left, ![p].failed = failed, ![p].at = at, ![p].exit = rc]
  BY DEF Tested, Env
<1>2. Running(p) /\ Does(p) = "test" /\ Tests(p)
  BY <1>1 DEF Is, Running, Tests, Fits, Routes, NativeStages, MetalStages, OneStage, Translated
<1>3. InPlace(p)
  <2>1. PlaceOf(Out(p)) \in Written(p)
    BY <1>2, NativeFiles DEF Fits
  <2>2. \A f \in {Out(p)} : PlaceOf(f) \in Written(p)
    BY <2>1
  <2>3. QED
    BY <1>1, <2>2, DeletedInPlace
<1>4. failed \in Nat
  BY DEF Fits, Counted
<1>5. /\ at = "done" <=> left = <<>>
      /\ at \in {"done", "next"}
      /\ at = "done" /\ rc = 0 => failed = 0
  BY <1>4
<1> HIDE DEF failed, left, at, rc
<1>6. engc = [q \in Engcs |-> engc[q]] /\ IsEngc(engc[p])
  BY DEF DriverTyped
<1>7. /\ engc' = [q \in Engcs |-> engc'[q]]
      /\ \A q \in Engcs : q # p => engc'[q] = engc[q]
      /\ engc'[p] = [engc[p] EXCEPT !.left = left, !.failed = failed, !.at = at, !.exit = rc]
  BY <1>1, <1>6
<1>8. engc'[p] = [at |-> at, job |-> engc[p].job, text |-> engc[p].text, ran |-> engc[p].ran,
                  exit |-> rc, left |-> left, failed |-> failed]
  BY <1>6, <1>7 DEF IsEngc
<1>9. /\ engc'[p].at = at /\ engc'[p].job = engc[p].job /\ engc'[p].exit = rc
      /\ engc'[p].left = left /\ engc'[p].failed = failed
  BY <1>8
<1>10. Alters(p)
  BY <1>6, <1>7, <1>8 DEF Alters, IsEngc
<1>11. Fits(p)'
  <2>1. Routes(Does(p), engc[p].at)' /\ Placed(p)'
    BY <1>2, <1>5, <1>9 DEF Routes, Placed, Does, Out, Tests, NativeStages
  <2>2. Counted(p)'
    BY <1>2, <1>4, <1>5, <1>9 DEF Counted, Does, Is, Running
  <2>3. QED
    BY <2>1, <2>2 DEF Fits
<1>12. Files(engc[p].job)' = Files(engc[p].job) /\ ~Is(p, "idle")'
  BY <1>5, <1>9 DEF Files, Is
<1>13. Ends(p)
  <2>1. CASE at = "done" /\ rc = 0
    <3>1. Made(p)'
      BY <1>2, <1>5, <1>9, <2>1 DEF Made, Does
    <3>2. QED
      BY <1>9, <2>1, <3>1 DEF Ends
  <2>2. QED
    BY <1>5, <1>9, <2>1 DEF Ends
<1>14. Running(p)' => Progress(p)'
  BY <1>5, <1>9 DEF Running, Progress, Is
<1>15. QED
  BY <1>1, <1>2, <1>3, <1>10, <1>11, <1>12, <1>13, <1>14 DEF Works

-----------------------------------------------------------------------------
(* Bare metal.                                                             *)
LEMMA MetalAt ==
    ASSUME NEW p \in Engcs, Fits(p), engc[p].at \in MetalStages
    PROVE  /\ Running(p) /\ Does(p) = "baremetal"
           /\ PlaceOf(Out(p)) \in Written(p)
           /\ PlaceOf(Append(Out(p), "bin")) \in Written(p)
           /\ PlaceOf(Script) \in Written(p)
           /\ PlaceOf(Append(Stem(Out(p)), "ll")) \in Written(p)
           /\ PlaceOf(Append(Stem(Out(p)), "o")) \in Written(p)
           /\ Append(Out(p), "bin") # Out(p)
           /\ Append(Stem(Out(p)), "o") # Script
<1>1. Running(p) /\ Does(p) = "baremetal"
  BY DEF Fits, Routes, Running, NativeStages, MetalStages, OneStage, Translated
<1>2. QED
  BY <1>1, MetalFiles DEF Fits

LEMMA MetalContinues ==
    ASSUME DriverTyped, NEW p \in Engcs, Fits(p), engc[p].at \in MetalStages,
           NEW at \in MetalStages, Goto(p, at), InPlace(p), UNCHANGED <<met, lines>>,
           Progress(p) => Progress(p)'
    PROVE  Works(p)
<1>1. Running(p) /\ Does(p) = "baremetal"
  BY MetalAt
<1>2. Routes(Does(p), at) /\ at \notin {"idle", "done", "test", "tested", "next"}
  BY <1>1 DEF Routes, MetalStages
<1>3. QED
  BY <1>1, <1>2, Continues

LEMMA MetalFails ==
    ASSUME DriverTyped, NEW p \in Engcs, Fits(p), engc[p].at \in MetalStages,
           End(p, 1), InPlace(p), UNCHANGED <<met, lines>>
    PROVE  Works(p)
<1>1. Running(p) /\ Does(p) = "baremetal"
  BY MetalAt
<1>2. QED
  BY <1>1, Fails

LEMMA FindClangWorks ==
    ASSUME DriverTyped, NEW p \in Engcs, Fits(p), FindClang(p)
    PROVE  Works(p)
<1>1. engc[p].at \in MetalStages /\ UNCHANGED <<met, lines>> /\ InPlace(p)
  BY KeptInPlace DEF FindClang, Is, MetalStages, Env, Keep
<1>2. Running(p) /\ Does(p) = "baremetal"
  BY <1>1, MetalAt
<1>3. CASE End(p, 1)
  BY <1>1, <1>3, MetalFails
<1>4. CASE Goto(p, "read")
  <2>1. engc'[p].at = "read"
    BY <1>4, Goes
  <2>2. Progress(p)'
    BY <2>1 DEF Progress, Is
  <2>3. Routes(Does(p), "read")
    BY <1>2 DEF Routes
  <2>4. QED
    BY <1>1, <1>2, <1>4, <2>2, <2>3, Continues
<1>5. QED
  BY <1>3, <1>4 DEF FindClang

LEMMA WriteIRWorks ==
    ASSUME DriverTyped, NEW p \in Engcs, Fits(p), WriteIR(p)
    PROVE  Works(p)
<1>1. engc[p].at \in MetalStages /\ UNCHANGED <<met, lines>>
  BY DEF WriteIR, Is, MetalStages, Env
<1>2. CASE End(p, 1) /\ Keep
  BY <1>1, <1>2, KeptInPlace, MetalFails DEF Keep
<1> DEFINE to == Append(Stem(Out(p)), "ll")
<1>3. CASE Write(to, Content("ll", engc[p].text)) /\ Goto(p, "assemble")
  <2>1. PlaceOf(to) \in Written(p)
    BY <1>1, MetalAt
  <2>2. InPlace(p)
    BY <1>3, <2>1, WrittenInPlace
  <2>3. \A f : At(f)' = IF f = to THEN Content("ll", engc[p].text) ELSE At(f)
    BY <1>3, AtWritten
  <2>4. engc'[p].at = "assemble" /\ engc'[p].job = engc[p].job /\ engc'[p].text = engc[p].text
    BY <1>3, Goes
  <2>5. Stem(Out(p))' = Stem(Out(p))
    BY <2>4 DEF Stem, Out
  <2>6. Progress(p)'
    BY <2>3, <2>4, <2>5 DEF Progress, Own, Is
  <2>7. QED
    BY <1>1, <1>3, <2>2, <2>6, MetalContinues DEF MetalStages
<1>4. QED
  BY <1>2, <1>3 DEF WriteIR, Intermediate

LEMMA AssembleIRWorks ==
    ASSUME DriverTyped, NEW p \in Engcs, Fits(p), AssembleIR(p)
    PROVE  Works(p)
<1>1. engc[p].at \in MetalStages /\ Is(p, "assemble") /\ UNCHANGED <<met, lines>>
  BY DEF AssembleIR, Is, MetalStages, Tool, Env
<1>2. CASE UNCHANGED disk /\ End(p, 1)
  BY <1>1, <1>2, KeptInPlace, MetalFails
<1> DEFINE from == Append(Stem(Out(p)), "ll")
           to == Append(Stem(Out(p)), "o")
<1>3. CASE Write(to, Content("o", Text(from))) /\ Goto(p, "script")
  <2>1. PlaceOf(to) \in Written(p)
    BY <1>1, MetalAt
  <2>2. InPlace(p)
    BY <1>3, <2>1, WrittenInPlace
  <2>3. \A f : At(f)' = IF f = to THEN Content("o", Text(from)) ELSE At(f)
    BY <1>3, AtWritten
  <2>4. engc'[p].at = "script" /\ engc'[p].job = engc[p].job /\ engc'[p].text = engc[p].text
    BY <1>3, Goes
  <2>5. Stem(Out(p))' = Stem(Out(p))
    BY <2>4 DEF Stem, Out
  <2>6. ASSUME Progress(p) PROVE Progress(p)'
    <3>1. Text(from) = engc[p].text
      BY <1>1, <2>6, TextOfOwn DEF Progress
    <3>2. QED
      BY <2>3, <2>4, <2>5, <3>1 DEF Progress, Own, Is
  <2>7. QED
    BY <1>1, <1>3, <2>2, <2>6, MetalContinues DEF MetalStages
<1>4. QED
  BY <1>2, <1>3 DEF AssembleIR, Intermediate, Tool

\* The linker script is written in two steps, the object stays.
LEMMA ScriptWorks ==
    ASSUME DriverTyped, NEW p \in Engcs, Fits(p), OpenScript(p) \/ WriteScript(p)
    PROVE  Works(p)
<1>1. /\ engc[p].at \in MetalStages /\ engc[p].at \in {"script", "layout"} /\ UNCHANGED <<met, lines>>
  BY DEF OpenScript, WriteScript, Is, MetalStages, Env
<1>2. \E at \in {"layout", "elf"}, t \in {"", "sections"} :
          /\ Write(Script, Content("ld", t)) /\ Goto(p, at)
          /\ at = "elf" => t = "sections"
  <2>1. CASE OpenScript(p)
    BY <2>1 DEF OpenScript
  <2>2. CASE WriteScript(p)
    BY <2>2 DEF WriteScript
  <2>3. QED
    BY <2>1, <2>2
<1> PICK at \in {"layout", "elf"}, t \in {"", "sections"} :
          /\ Write(Script, Content("ld", t)) /\ Goto(p, at)
          /\ at = "elf" => t = "sections"
  BY <1>2
<1>3. InPlace(p)
  BY <1>1, MetalAt, WrittenInPlace
<1>4. \A f : At(f)' = IF f = Script THEN Content("ld", t) ELSE At(f)
  BY AtWritten
<1>5. engc'[p].at = at /\ engc'[p].job = engc[p].job /\ engc'[p].text = engc[p].text
  BY Goes
<1>6. Stem(Out(p))' = Stem(Out(p))
  BY <1>5 DEF Stem, Out
<1>7. Append(Stem(Out(p)), "o") # Script
  BY <1>1, MetalAt
<1>8. ASSUME Progress(p) PROVE Progress(p)'
  <2>1. Own(p, Append(Stem(Out(p)), "o"), "o")
    BY <1>1, <1>8 DEF Progress
  <2>2. Own(p, Append(Stem(Out(p)), "o"), "o")'
    BY <1>4, <1>5, <1>6, <1>7, <2>1 DEF Own
  <2>3. at = "elf" => At(Script)' = Content("ld", "sections")
    BY <1>4 DEF Script
  <2>4. QED
    BY <1>5, <2>2, <2>3 DEF Progress, Is
<1>9. QED
  BY <1>1, <1>3, <1>8, MetalContinues DEF MetalStages

LEMMA LinkElfWorks ==
    ASSUME DriverTyped, NEW p \in Engcs, Fits(p), LinkElf(p)
    PROVE  Works(p)
<1>1. engc[p].at \in MetalStages /\ Is(p, "elf") /\ UNCHANGED <<met, lines>>
  BY DEF LinkElf, Is, MetalStages, Tool, Env
<1>2. CASE UNCHANGED disk /\ End(p, 1)
  BY <1>1, <1>2, KeptInPlace, MetalFails
<1> DEFINE from == Append(Stem(Out(p)), "o")
           format == IF Text(Script) = "sections" THEN "elf" ELSE "flat"
<1>3. CASE Write(Out(p), Content(format, Text(from))) /\ Goto(p, "extract")
  <2>1. InPlace(p)
    BY <1>1, <1>3, MetalAt, WrittenInPlace
  <2>2. \A f : At(f)' = IF f = Out(p) THEN Content(format, Text(from)) ELSE At(f)
    BY <1>3, AtWritten
  <2>3. engc'[p].at = "extract" /\ engc'[p].job = engc[p].job /\ engc'[p].text = engc[p].text
    BY <1>3, Goes
  <2>4. ASSUME Progress(p) PROVE Progress(p)'
    <3>1. Text(from) = engc[p].text
      BY <1>1, <2>4, TextOfOwn DEF Progress, Is
    <3>2. Text(Script) = "sections"
      BY <1>1, <2>4 DEF Progress, Text, Content
    <3>3. QED
      BY <2>2, <2>3, <3>1, <3>2 DEF Progress, Own, Is, Out
  <2>5. QED
    BY <1>1, <1>3, <2>1, <2>4, MetalContinues DEF MetalStages
<1>4. QED
  BY <1>2, <1>3 DEF LinkElf, Intermediate, Tool

LEMMA ExtractBinaryWorks ==
    ASSUME DriverTyped, NEW p \in Engcs, Fits(p), ExtractBinary(p)
    PROVE  Works(p)
<1> DEFINE to == Append(Out(p), "bin")
<1>1. engc[p].at \in MetalStages /\ Is(p, "extract") /\ UNCHANGED <<met, lines>> /\ End(p, 0)
  BY DEF ExtractBinary, Is, MetalStages, Env
<1>2. UNCHANGED disk \/ Write(to, Content("bin", Text(Out(p))))
  BY DEF ExtractBinary, Beside
<1>3. Running(p) /\ Does(p) = "baremetal" /\ PlaceOf(to) \in Written(p) /\ to # Out(p)
  BY <1>1, MetalAt
<1> HIDE DEF to
<1>4. InPlace(p)
  BY <1>2, <1>3, KeptInPlace, WrittenInPlace
<1>5. \A f : f # to => At(f)' = At(f)
  BY <1>2, AtKept, AtWritten
<1>6. engc'[p].job = engc[p].job /\ engc'[p].text = engc[p].text
  BY <1>1, Exits
<1>7. ASSUME Progress(p) PROVE Made(p)'
  <2>1. Own(p, Out(p), "elf")
    BY <1>1, <1>7 DEF Progress
  <2>2. Own(p, Out(p), "elf")'
    BY <1>3, <1>5, <1>6, <2>1 DEF Own, Out
  <2>3. QED
    BY <1>3, <1>6, <2>2 DEF Made, Own, Does
<1>8. QED
  BY <1>1, <1>3, <1>4, <1>7, Succeeds

LEMMA BareMetalWorks ==
    ASSUME DriverTyped, NEW p \in Engcs, Fits(p), BareMetal(p)
    PROVE  Works(p)
  BY FindClangWorks, WriteIRWorks, AssembleIRWorks, ScriptWorks, LinkElfWorks, ExtractBinaryWorks
     DEF BareMetal

-----------------------------------------------------------------------------
(* New projects.                                                           *)
LEMMA NewWorks ==
    ASSUME DriverTyped, NEW p \in Engcs, Fits(p), New(p)
    PROVE  Works(p)
<1>1. engc[p].at \in {"new", "config", "main"} /\ UNCHANGED <<met, lines>>
  BY DEF New, MakeDirectories, WriteConfig, WriteMain, Is, Env
<1>2. Running(p) /\ Does(p) = "new"
  BY <1>1 DEF Fits, Routes, Running, NativeStages, MetalStages, OneStage, Translated
<1> DEFINE dir == Project(p).dir
           config == Project(p).config
           main == Project(p).main
<1>3. PlaceOf(dir) \in Written(p) /\ PlaceOf(config) \in Written(p) /\ PlaceOf(main) \in Written(p)
  BY <1>2 DEF Written, Files, Does, Project, Out
<1> HIDE DEF dir, config, main
<1>4. ASSUME engc'[p].job = engc[p].job PROVE Project(p)' = Project(p)
  BY <1>4 DEF Project, Out
<1>5. CASE End(p, 1) /\ Keep
  BY <1>1, <1>2, <1>5, KeptInPlace, Fails DEF Keep
<1>6. CASE Write(dir, Content("dir", "")) /\ Goto(p, "config")
  <2>1. engc'[p].at = "config"
    BY <1>6, Goes
  <2>2. Progress(p)'
    BY <2>1 DEF Progress, Is
  <2>3. InPlace(p)
    BY <1>3, <1>6, WrittenInPlace
  <2>4. QED
    BY <1>1, <1>2, <1>6, <2>2, <2>3, Continues DEF Routes
<1>7. CASE Goto(p, "main") /\ \E c : Write(config, c) /\ c.format # "missing"
  <2>1. PICK c : Write(config, c) /\ c.format # "missing"
    BY <1>7
  <2>2. \A f : At(f)' = IF f = config THEN c ELSE At(f)
    BY <2>1, AtWritten
  <2>3. engc'[p].at = "main" /\ engc'[p].job = engc[p].job
    BY <1>7, Goes
  <2>4. At(Project(p).config)'.format # "missing"
    BY <1>4, <2>1, <2>2, <2>3 DEF config
  <2>5. Progress(p)'
    BY <2>3, <2>4 DEF Progress, Is
  <2>6. InPlace(p)
    BY <1>3, <2>1, WrittenInPlace
  <2>7. QED
    BY <1>1, <1>2, <1>7, <2>5, <2>6, Continues DEF Routes
<1>8. CASE /\ Is(p, "main") /\ End(p, 0)
           /\ \E t : Write(main, Content("ec", t))
  <2>1. PICK t : Write(main, Content("ec", t))
    BY <1>8
  <2>2. \A f : At(f)' = IF f = main THEN Content("ec", t) ELSE At(f)
    BY <2>1, AtWritten
  <2>3. engc'[p].job = engc[p].job
    BY <1>8, Exits
  <2>4. ASSUME Progress(p) PROVE Made(p)'
    <3>1. At(config).format # "missing"
      BY <1>8, <2>4 DEF Progress, config
    <3>2. At(Project(p).config)'.format # "missing"
      BY <1>4, <2>2, <2>3, <3>1 DEF config, Content
    <3>3. QED
      BY <1>2, <2>3, <3>2 DEF Made, Does
  <2>5. InPlace(p)
    BY <1>3, <2>1, WrittenInPlace
  <2>6. QED
    BY <1>1, <1>2, <1>8, <2>4, <2>5, Succeeds
<1>9. QED
  <2>1. CASE MakeDirectories(p)
    BY <1>5, <1>6, <2>1 DEF MakeDirectories, dir
  <2>2. CASE WriteConfig(p)
    <3> DEFINE c == IF engc[p].job.target = None THEN Content("engc", "")
                    ELSE DefaultConfigToml(engc[p].job.target, engc[p].job.board)
    <3>1. c.format # "missing"
      BY DEF Content, DefaultConfigToml
    <3>2. Write(config, c) /\ Goto(p, "main")
      BY <2>2 DEF WriteConfig, config
    <3> HIDE DEF c
    <3>3. QED
      BY <1>7, <3>1, <3>2
  <2>3. CASE WriteMain(p)
    BY <1>8, <2>3 DEF WriteMain, main
  <2>4. QED
    BY <2>1, <2>2, <2>3 DEF New

\* Every step works.
LEMMA StepWorks ==
    ASSUME DriverTyped, NEW p \in Engcs, Fits(p), Step(p)
    PROVE  Works(p)
<1>1. CASE Read(p) \/ Analyze(p) \/ Native(p) \/ BareMetal(p) \/ New(p) \/ Translate(p)
  BY <1>1, ReadWorks, AnalyzeWorks, NativeWorks, BareMetalWorks, NewWorks, TranslateWorks
<1>2. CASE Test(p)
  BY <1>2, FindTestsWorks, NextTestWorks, TestedWorks DEF Test
<1>3. CASE Other(p)
  BY <1>3, OneStepWorks, FlashWorks DEF Other
<1>4. QED
  BY <1>1, <1>2, <1>3 DEF Step

-----------------------------------------------------------------------------
(* Command lines become jobs.                                              *)
Tokens == Seq(STRING)

LEMMA KeptTokens ==
    ASSUME NEW a \in Seq(Tokens), NEW positions
    PROVE  Kept(a, positions) \in Seq(Tokens)
<1> DEFINE N == Len(a)
           X == Seq(Tokens)
           Step1(i, x) == IF i \in positions THEN Append(x, a[i]) ELSE x
           Body(f) == [i \in 0..Len(a) |-> IF i = 0 THEN <<>>
                                          ELSE IF i \in positions THEN Append(f[i - 1], a[i]) ELSE f[i - 1]]
           G == [q \in (1..N) \X X |-> Step1(q[1], q[2])]
           upTo == CHOOSE f : f = Body(f)
           x0 == <<>>
<1>1. N \in Nat /\ \A i \in 1..N : a[i] \in Tokens
  BY LenProperties
<1>2. ASSUME NEW i \in 1..N, NEW x \in X PROVE Step1(i, x) \in X
  <2>1. Append(x, a[i]) \in X
    BY <1>1, AppendProperties
  <2>2. QED
    BY <2>1
<1>3. x0 \in X
  OBVIOUS
<1>4. G \in [(1..N) \X X -> X]
  <2> HIDE DEF Step1, X
  <2>1. QED
    BY <1>2
<1>5. PICK g \in [0..N -> X] : g[0] = x0 /\ \A i \in 1..N : g[i] = G[<<i, g[i - 1]>>]
  <2> HIDE DEF G, X, x0, N
  <2>1. Iterates(N, X, x0, G)
    BY <1>1, <1>3, <1>4, Iterated
  <2>2. QED
    BY <2>1 DEF Iterates
<1>6. ASSUME NEW i \in 1..N PROVE g[i] = Step1(i, g[i - 1]) /\ i # 0
  <2> HIDE DEF Step1, X, G
  <2>1. i - 1 \in 0..N /\ i # 0
    BY <1>1
  <2>2. g[i - 1] \in X /\ <<i, g[i - 1]>> \in (1..N) \X X
    BY <1>5, <2>1
  <2>3. g[i] = Step1(i, g[i - 1])
    BY <1>5, <2>2 DEF G
  <2>4. QED
    BY <2>1, <2>3
<1>7. g = Body(g)
  <2>1. ASSUME NEW i \in 0..N PROVE g[i] = Body(g)[i]
    <3>1. CASE i = 0
      BY <1>5, <3>1
    <3>2. CASE i # 0
      <4>1. i \in 1..N
        BY <1>1, <3>2
      <4>2. QED
        BY <1>6, <3>2, <4>1
    <3>3. QED
      BY <3>1, <3>2
  <2>2. DOMAIN g = 0..N /\ DOMAIN Body(g) = 0..N
    OBVIOUS
  <2> DEFINE B == Body(g)
  <2>3. B = [i \in 0..N |-> B[i]] /\ g = [i \in 0..N |-> g[i]]
    OBVIOUS
  <2> HIDE DEF Body
  <2>4. QED
    BY <2>1, <2>3
<1>8. upTo = Body(upTo)
  <2> HIDE DEF Body
  <2>1. QED
    BY <1>7
<1>9. upTo[0] = x0 /\ \A i \in 1..N : upTo[i] = Step1(i, upTo[i - 1])
  <2> HIDE DEF upTo
  <2>1. 0 \in 0..N /\ \A i \in 1..N : i \in 0..N /\ i # 0
    BY <1>1
  <2>2. QED
    BY <1>8, <2>1
<1>10. Kept(a, positions) = upTo[N]
  BY DEF Kept
<1>11. upTo[N] \in X
  <2> HIDE DEF upTo, Step1, X
  <2> DEFINE T == {k \in Nat : upTo[k] \in X}
  <2>1. 0 \in T
    BY <1>3, <1>9
  <2>2. ASSUME NEW i \in 0 + 1 .. N, i - 1 \in T PROVE i \in T
    BY <1>1, <1>2, <1>9, <2>2
  <2>3. 0..N \subseteq T
    <3> HIDE DEF T
    <3>1. \A k \in 0 + 1 .. N : k - 1 \in T => k \in T
      BY <2>2
    <3>2. QED
      BY <1>1, <2>1, <3>1, Along
  <2>4. QED
    BY <1>1, <2>3
<1>12. QED
  BY <1>10, <1>11

LEMMA NthPath ==
    ASSUME NEW s \in Seq(Tokens), NEW n \in Nat \ {0}, NEW default, IsPath(default)
    PROVE  IsPath(NthOr(s, n, default))
<1>1. Len(s) >= n => s[n] \in Tokens
  BY LenProperties
<1>2. QED
  BY <1>1 DEF NthOr, IsPath, Tokens

LEMMA ArgPath ==
    ASSUME NEW a \in Seq(Tokens), NEW flag, NEW default, IsPath(default)
    PROVE  IsPath(ArgValueOr(a, flag, default))
<1> DEFINE at == {i \in 1..Len(a) - 1 : a[i] = flag}
<1>1. CASE at = {}
  BY <1>1 DEF ArgValueOr
<1>2. CASE at # {}
  <2>1. Len(a) \in Nat
    BY LenProperties
  <2>2. at \subseteq Nat /\ \A i \in at : 1 + i \in 1..Len(a)
    BY <2>1
  <2>3. \E i \in at : \A j \in at : i <= j
    BY <1>2, <2>2, LeastElement
  <2> DEFINE least == CHOOSE i \in at : \A j \in at : i <= j
  <2>4. ArgValueOr(a, flag, default) = a[1 + least]
    BY <1>2 DEF ArgValueOr
  <2> HIDE DEF at
  <2>5. least \in at
    BY <2>3
  <2>6. a[1 + least] \in Tokens
    BY <2>2, <2>5, LenProperties
  <2>7. QED
    BY <2>4, <2>6 DEF IsPath, Tokens
<1>3. QED
  BY <1>1, <1>2

LEMMA DefaultPaths == IsPath(Main) /\ IsPath(Firmware) /\ IsPath(<<".", "main", "ino">>)
<1>1. ASSUME NEW x, NEW y, NEW z PROVE <<x, y>> \in Seq({x, y}) /\ <<x, y, z>> \in Seq({x, y, z})
  OBVIOUS
<1>2. QED
  BY <1>1 DEF IsPath, Main, Firmware

\* What kinds of jobs there are, and that those with files have a path for them.
Kinds == OneStage \cup {"native", "baremetal", "new", "test"}
IsJob(job) ==
    /\ job = Job(job.does, job.src, job.out, job.target, job.board)
    /\ job.does \in Kinds
    /\ job.does \in {"native", "baremetal"} => IsPath(job.out)

LEMMA BuildJob ==
    ASSUME NEW a \in Seq(Tokens)
    PROVE  IsJob(BuildEmbedded(a))
<1> DEFINE job == BuildEmbedded(a)
           out == ArgValueOr(a, <<"--output">>, NthOr(Positional(a), 2, Firmware))
<1>1. IsPath(out)
  <2>1. Positional(a) \in Seq(Tokens)
    BY KeptTokens DEF Positional
  <2>2. IsPath(NthOr(Positional(a), 2, Firmware))
    BY <2>1, NthPath, DefaultPaths
  <2>3. QED
    BY <2>2, ArgPath
<1> HIDE DEF out
<1>2. job.out = out /\ job = Job(job.does, job.src, job.out, job.target, job.board)
  BY DEF BuildEmbedded, Job, out
<1>3. \E target : job.does = Handler(target)
  BY DEF BuildEmbedded, Job
<1>4. job.does \in Kinds
  BY <1>3 DEF Handler, Kinds, OneStage, Translated
<1>5. QED
  BY <1>1, <1>2, <1>4 DEF IsJob

LEMMA OtherJob ==
    ASSUME NEW does \in Kinds, NEW src, NEW out, NEW target, NEW board,
           does \in {"native", "baremetal"} => IsPath(out)
    PROVE  IsJob(Job(does, src, out, target, board))
  BY DEF IsJob, Job

LEMMA RunJob ==
    ASSUME NEW a \in Seq(Tokens), a # <<>>
    PROVE  IsJob(RunLine(a))
<1> DEFINE pos == Kept(a, {i \in 2..Len(a) : a[i] # <<"--dynamic">>})
           flagged == Len(pos) > 1 /\ pos[1] = <<"--target">>
           n == IF flagged THEN 3 ELSE 1
<1>1. pos \in Seq(Tokens) /\ Tail(a) \in Seq(Tokens) /\ n + 1 \in Nat \ {0}
  BY KeptTokens, HeadTailProperties
<1>2. IsPath(NthOr(pos, n + 1, Main))
  <2> HIDE DEF pos, n
  <2>1. QED
    BY <1>1, NthPath, DefaultPaths
<1>3. \/ RunLine(a) = Usage
      \/ RunLine(a) = BuildEmbedded(Tail(a))
      \/ RunLine(a) = Job("ino", pos[n], NthOr(pos, n + 1, <<".", "main", "ino">>), pos[2], None)
      \/ RunLine(a) = Job("native", pos[n], NthOr(pos, n + 1, Main), None, None)
  BY DEF RunLine
<1> HIDE DEF pos, n
<1>4. IsJob(Usage) /\ IsJob(BuildEmbedded(Tail(a)))
  BY <1>1, BuildJob, OtherJob DEF Usage, Kinds, OneStage
<1>5. IsJob(Job("ino", pos[n], NthOr(pos, n + 1, <<".", "main", "ino">>), pos[2], None))
  BY OtherJob DEF Kinds, OneStage, Translated
<1>6. IsJob(Job("native", pos[n], NthOr(pos, n + 1, Main), None, None))
  BY <1>2, OtherJob DEF Kinds
<1>7. QED
  BY <1>3, <1>4, <1>5, <1>6

LEMMA DispatchJob ==
    ASSUME NEW a \in Seq(Tokens) \ {<<>>}
    PROVE  IsJob(Dispatch(a))
<1> DEFINE rest == Tail(a)
<1>1. rest \in Seq(Tokens)
  BY HeadTailProperties
<1>2. IsJob(RunLine(a)) /\ IsJob(BuildEmbedded(rest))
  BY <1>1, RunJob, BuildJob
<1>3. \A does \in Kinds : \A src, out, target, board :
          does \notin {"native", "baremetal"} => IsJob(Job(does, src, out, target, board))
  BY OtherJob
<1>4. \A src : IsJob(Job("native", src, NthOr(a, 3, Main), None, None))
  <2>1. a \in Seq(Tokens) /\ 3 \in Nat \ {0}
    OBVIOUS
  <2>2. IsPath(NthOr(a, 3, Main))
    BY <2>1, NthPath, DefaultPaths
  <2>3. QED
    BY <2>2, OtherJob DEF Kinds
<1>5. IsJob(NewEmbedded(rest))
  BY OtherJob DEF NewEmbedded, Kinds
<1>6. IsJob(Usage)
  BY OtherJob DEF Usage, Kinds, OneStage
<1> HIDE DEF rest
<1>7. \/ \E does \in Kinds : \E src, out, target, board :
            does \notin {"native", "baremetal"} /\ Dispatch(a) = Job(does, src, out, target, board)
      \/ \E src : Dispatch(a) = Job("native", src, NthOr(a, 3, Main), None, None)
      \/ Dispatch(a) \in {RunLine(a), BuildEmbedded(rest), NewEmbedded(rest), Usage}
  <2> DEFINE cmd == a[1][1]
  <2>1. CASE cmd = "new"
    <3>1. \/ Dispatch(a) \in {NewEmbedded(rest), Usage}
          \/ Dispatch(a) = Job("new", a[2], a[2], None, None)
      BY <2>1 DEF Dispatch, rest
    <3>2. QED
      BY <3>1 DEF Kinds
  <2>2. CASE cmd = "run"
    BY <2>2 DEF Dispatch
  <2>3. CASE cmd = "build"
    <3>1. \/ Dispatch(a) = BuildEmbedded(rest)
          \/ Dispatch(a) = Job("native", a[2], NthOr(a, 3, Main), None, None)
          \/ Dispatch(a) = Usage
      BY <2>3 DEF Dispatch, rest
    <3>2. QED
      BY <3>1
  <2>4. CASE cmd = "flash"
    <3>1. \E src, board : Dispatch(a) = Job("flash", src, None, None, board)
      BY <2>4 DEF Dispatch
    <3>2. QED
      BY <3>1 DEF Kinds, OneStage
  <2>5. CASE cmd = "monitor"
    <3>1. \E src, board : Dispatch(a) = Job("monitor", src, None, None, board)
      BY <2>5 DEF Dispatch
    <3>2. QED
      BY <3>1 DEF Kinds, OneStage
  <2>6. CASE cmd = "test"
    <3>1. \E src : Dispatch(a) = Job("test", src, None, None, None)
      BY <2>6 DEF Dispatch
    <3>2. QED
      BY <3>1 DEF Kinds
  <2>7. CASE cmd \in {"fmt", "lint", "doc"}
    BY <2>7 DEF Dispatch, Kinds, OneStage
  <2>8. CASE cmd \in {"doctor", "help", "version"}
    BY <2>8 DEF Dispatch, Kinds, OneStage
  <2>9. CASE cmd \notin {"new", "run", "build", "flash", "monitor", "test", "fmt", "lint", "doc",
                         "doctor", "help", "version"}
    BY <2>9 DEF Dispatch
  <2>10. QED
    BY <2>1, <2>2, <2>3, <2>4, <2>5, <2>6, <2>7, <2>8, <2>9
<1>8. QED
  BY <1>2, <1>3, <1>4, <1>5, <1>6, <1>7

-----------------------------------------------------------------------------
(* What the steps of others leave alone.                                   *)
Undisturbed(p) ==
    /\ engc'[p] = engc[p]
    /\ \A f : PlaceOf(f) \in Written(p) => At(f)' = At(f)

LEMMA KeepsOwn ==
    ASSUME NEW p, Undisturbed(p), NEW path, PlaceOf(path) \in Written(p), NEW format
    PROVE  Own(p, path, format)' <=> Own(p, path, format)
<1>1. At(path)' = At(path) /\ engc'[p] = engc[p]
  BY DEF Undisturbed
<1>2. QED
  BY <1>1 DEF Own

\* An undisturbed process has still made what it had.
LEMMA KeepsProgress ==
    ASSUME NEW p \in Engcs, Fits(p), Progress(p), Undisturbed(p)
    PROVE  Progress(p)'
<1>1. /\ engc'[p] = engc[p] /\ Out(p)' = Out(p) /\ Project(p)' = Project(p)
      /\ \A at : Is(p, at)' <=> Is(p, at)
  BY DEF Undisturbed, Out, Project, Is
<1>2. CASE engc[p].at \in NativeStages
  <2>1. /\ Own(p, Out(p), "exe")' <=> Own(p, Out(p), "exe")
        /\ \A e \in NativeEndings : Own(p, Append(Out(p), e), e)' <=> Own(p, Append(Out(p), e), e)
    BY <1>1, <1>2, NativeAt, KeepsOwn
  <2>2. QED
    BY <1>1, <1>2, <2>1 DEF Progress, Is, NativeStages, NativeEndings
<1>3. CASE engc[p].at \in MetalStages
  <2>1. /\ Own(p, Out(p), "elf")' <=> Own(p, Out(p), "elf")
        /\ Own(p, Append(Stem(Out(p)), "ll"), "ll")' <=> Own(p, Append(Stem(Out(p)), "ll"), "ll")
        /\ Own(p, Append(Stem(Out(p)), "o"), "o")' <=> Own(p, Append(Stem(Out(p)), "o"), "o")
    BY <1>1, <1>3, MetalAt, KeepsOwn
  <2>2. At(Script)' = At(Script)
    BY <1>3, MetalAt DEF Undisturbed
  <2>3. QED
    BY <1>1, <1>3, <2>1, <2>2 DEF Progress, Is, MetalStages
<1>4. CASE Is(p, "main")
  <2>1. Does(p) = "new"
    BY <1>4 DEF Fits, Routes, Is, NativeStages, MetalStages, OneStage, Translated
  <2>2. PlaceOf(Project(p).config) \in Written(p)
    BY <2>1 DEF Written, Files, Does, Project, Out
  <2>3. At(Project(p).config)' = At(Project(p).config)
    BY <1>1, <2>2 DEF Undisturbed
  <2>4. QED
    BY <1>1, <1>4, <2>3 DEF Progress, Is
<1>5. CASE engc[p].at \notin NativeStages \cup MetalStages /\ ~Is(p, "main")
  BY <1>1, <1>5 DEF Progress, Is, NativeStages, MetalStages
<1>6. QED
  BY <1>2, <1>3, <1>4, <1>5

LEMMA StepUploads ==
    ASSUME device = [b \in DOMAIN Boards |-> device[b]], NEW p, Step(p)
    PROVE  device' = [b \in DOMAIN Boards |-> device'[b]]
<1>1. CASE Flash(p)
  BY <1>1 DEF Flash
<1>2. CASE Native(p) \/ Test(p)
  <2>1. UNCHANGED device
    BY <1>2 DEF Native, Generate, WriteShim, CompileIR, Assemble, Lower, Link, CleanUp, Tidy,
                RunProgram, Test, FindTests, NextTest, Tested, Tool, Keep
  <2>2. QED
    BY <2>1
<1>3. CASE BareMetal(p) \/ New(p)
  <2>1. UNCHANGED device
    BY <1>3 DEF BareMetal, FindClang, WriteIR, AssembleIR, OpenScript, WriteScript, LinkElf,
                ExtractBinary, New, MakeDirectories, WriteConfig, WriteMain, Tool, Keep
  <2>2. QED
    BY <2>1
<1>4. CASE Read(p) \/ Analyze(p) \/ Translate(p) \/ Fmt(p) \/ Lint(p) \/ Monitor(p) \/ Report(p)
  <2>1. UNCHANGED device
    BY <1>4 DEF Read, Analyze, Translate, Sketch, EmitJS, EmitPython, EmitWasm, EmitBytecode, Stub,
                Fmt, Lint, Monitor, Report, Emit, Keep
  <2>2. QED
    BY <2>1
<1>5. QED
  BY <1>1, <1>2, <1>3, <1>4 DEF Step, Other

-----------------------------------------------------------------------------
(* The invariant.                                                          *)
LEMMA DriverBegins ==
    ASSUME DriverInit PROVE DriverInv
<1>1. /\ engc = [p \in Engcs |-> Idle] /\ met = [p \in Engcs |-> {}]
      /\ device = [b \in DOMAIN Boards |-> Missing]
      /\ \E s \in Scenarios : lines = s.lines
  BY DEF DriverInit
<1>2. \A p \in Engcs : engc[p] = Idle
  BY <1>1
<1>3. DriverTyped
  <2>1. \A a \in lines : a \in Seq(Seq(STRING)) \ {<<>>}
    BY <1>1, LinesAssumption
  <2>2. IsEngc(Idle)
    BY DEF IsEngc, Idle, Usage, Job
  <2>3. \A p \in Engcs : IsEngc(engc[p])
    BY ONLY <1>2, <2>2
  <2>4. QED
    BY <1>1, <2>1, <2>3 DEF DriverTyped
<1>4. ASSUME NEW p \in Engcs PROVE Fits(p) /\ ~Running(p)
  <2>1. /\ engc[p].at = "idle" /\ engc[p].job.does = "usage"
        /\ engc[p].left = <<>> /\ engc[p].failed = 0
    <3>1. /\ Idle.at = "idle" /\ Idle.job.does = "usage"
          /\ Idle.left = <<>> /\ Idle.failed = 0
      BY DEF Idle, Usage, Job
    <3>2. engc[p] = Idle
      BY <1>2
    <3>3. QED
      BY ONLY <3>1, <3>2
  <2>2. QED
    BY <2>1 DEF Fits, Routes, Placed, Counted, Does, Is, Tests, Running, NativeStages
<1>5. \A p, q \in Engcs : Acquainted(p, q)
  BY <1>1, <1>4 DEF Acquainted
<1>6. QED
  BY <1>3, <1>4, <1>5 DEF DriverInv

LEMMA StepKeeps ==
    ASSUME DriverInv, NEW q \in Engcs, Step(q)
    PROVE  DriverInv' /\ MadeWhatItSays
<1>1. /\ DriverTyped
      /\ \A p \in Engcs : Fits(p)
      /\ \A p, r \in Engcs : Acquainted(p, r)
      /\ \A p \in Engcs : Running(p) /\ Alone(p) => Progress(p)
  BY DEF DriverInv
<1>2. Works(q)
  BY <1>1, StepWorks
<1>3. /\ engc' = [p \in Engcs |-> engc'[p]] /\ IsEngc(engc'[q])
      /\ \A p \in Engcs : p # q => engc'[p] = engc[p]
      /\ Running(q) /\ ~Is(q, "idle")' /\ Files(engc[q].job)' = Files(engc[q].job)
      /\ met' = met /\ lines' = lines /\ Fits(q)' /\ InPlace(q)
      /\ Progress(q) => (Running(q)' => Progress(q)') /\ Ends(q)
  BY <1>2 DEF Works, Alters
<1>4. \A p \in Engcs : Written(p)' = Written(p)
  <2>1. ASSUME NEW p \in Engcs PROVE Files(engc[p].job)' = Files(engc[p].job)
    <3>1. CASE p # q
      <4>1. engc'[p] = engc[p]
        BY <1>3, <3>1
      <4>2. QED
        BY <4>1 DEF Files
    <3>2. QED
      BY <1>3, <3>1
  <2>2. QED
    BY <2>1 DEF Written
<1>5. \A p \in Engcs : Alone(p)' <=> Alone(p)
  <2>1. met \in [Engcs -> SUBSET Engcs]
    BY <1>1 DEF DriverTyped
  <2>2. QED
    BY <1>3, <1>4, <2>1 DEF Alone, Apart
<1>6. ASSUME NEW p \in Engcs, p # q, Running(p), Alone(p)
      PROVE  Undisturbed(p)
  <2>1. Apart(p, q)
    BY <1>1, <1>3, <1>6 DEF Acquainted, Alone
  <2>2. QED
    BY <1>3, <1>6, <2>1 DEF Undisturbed, InPlace, Apart
<1>7. DriverTyped'
  <2>1. device' = [b \in DOMAIN Boards |-> device'[b]]
    BY <1>1, StepUploads DEF DriverTyped
  <2>2. \A p \in Engcs : IsEngc(engc'[p])
    BY <1>1, <1>3 DEF DriverTyped
  <2>3. QED
    BY <1>1, <1>3, <2>1, <2>2 DEF DriverTyped
<1>8. ASSUME NEW p \in Engcs PROVE Fits(p)'
  <2>1. CASE p # q
    <3>1. engc'[p] = engc[p]
      BY <1>3, <2>1
    <3>2. QED
      BY <1>1, <3>1 DEF Fits, Routes, Placed, Counted, Does, Is, Tests, Running, Out
  <2>2. QED
    BY <1>3, <2>1
<1>9. ASSUME NEW p \in Engcs, NEW r \in Engcs PROVE Acquainted(p, r)'
  <2>1. \A x \in Engcs : (Running(x)' => Running(x)) /\ (~Is(x, "idle") => ~Is(x, "idle")')
    BY <1>3 DEF Running, Is
  <2>2. QED
    BY <1>1, <1>3, <2>1 DEF Acquainted
<1>10. ASSUME NEW p \in Engcs, Running(p)', Alone(p)' PROVE Progress(p)'
  <2>1. CASE p = q
    BY <1>1, <1>3, <1>5, <1>10, <2>1
  <2>2. CASE p # q
    <3>1. Running(p)
      BY <1>3, <1>10, <2>2 DEF Running
    <3>2. QED
      BY <1>1, <1>5, <1>6, <1>10, <2>2, <3>1, KeepsProgress
  <2>3. QED
    BY <2>1, <2>2
<1>11. ASSUME NEW p \in Engcs, Running(p), engc'[p].at \in {"done", "tested"}, engc'[p].exit = 0, Alone(p)
       PROVE  IF engc'[p].at = "tested" THEN engc'[p].ran = engc[p].text /\ engc[p].text \notin Failing
              ELSE Made(p)'
  <2>1. Progress(p)
    BY <1>1, <1>11
  <2>2. CASE p = q
    BY <1>3, <1>11, <2>1, <2>2 DEF Ends
  <2>3. CASE p # q
    <3>1. engc'[p] = engc[p]
      BY <1>3, <2>3
    <3>2. engc[p].at = "tested"
      BY <1>11, <3>1 DEF Running
    <3>3. QED
      BY <1>11, <2>1, <3>1, <3>2 DEF Progress, Is
  <2>4. QED
    BY <2>2, <2>3
<1>12. QED
  BY <1>7, <1>8, <1>9, <1>10, <1>11 DEF DriverInv, MadeWhatItSays

\* A job begins with its first stage.
LEMMA JobBegins ==
    ASSUME DriverTyped, NEW p \in Engcs, Fits(p), Start(p)
    PROVE  /\ Alters(p) /\ Fits(p)' /\ Running(p)' /\ Progress(p)'
<1>1. PICK a \in lines :
          engc' = [engc EXCEPT ![p].job = Dispatch(a), ![p].at = First(Dispatch(a).does)]
  BY DEF Start
<1> DEFINE job == Dispatch(a)
           at == First(job.does)
<1>2. IsJob(job)
  <2>1. a \in Seq(Tokens) \ {<<>>}
    BY DEF DriverTyped, Tokens
  <2>2. QED
    BY <2>1, DispatchJob
<1> HIDE DEF job
<1>3. engc = [q \in Engcs |-> engc[q]] /\ IsEngc(engc[p])
  BY DEF DriverTyped
<1>4. at \notin {"idle", "done"} /\ Routes(job.does, at) /\ at \notin {"tested", "main"}
      /\ at \notin {"shim", "compile", "as", "llc", "cc", "made", "tidy", "program", "assemble",
                    "script", "layout", "elf", "extract"}
      /\ (job.does = "test" => at = "test") /\ (at = "test" => job.does = "test")
  BY <1>2 DEF IsJob, Kinds, OneStage, Translated, First, Routes, NativeStages, MetalStages
<1> HIDE DEF at
<1>5. engc' = [engc EXCEPT ![p].job = job, ![p].at = at]
  BY <1>1 DEF job, at
<1>6. /\ engc' = [q \in Engcs |-> engc'[q]]
      /\ \A q \in Engcs : q # p => engc'[q] = engc[q]
      /\ engc'[p] = [engc[p] EXCEPT !.job = job, !.at = at]
  BY <1>3, <1>5
<1>7. engc'[p] = [at |-> at, job |-> job, text |-> engc[p].text, ran |-> engc[p].ran,
                  exit |-> engc[p].exit, left |-> engc[p].left, failed |-> engc[p].failed]
  BY <1>3, <1>6 DEF IsEngc
<1>8. /\ engc'[p].at = at /\ engc'[p].job = job
      /\ engc'[p].left = engc[p].left /\ engc'[p].failed = engc[p].failed
  BY <1>7
<1>9. Alters(p)
  BY <1>2, <1>6, <1>7 DEF Alters, IsEngc, IsJob
<1>10. Running(p)' /\ Progress(p)'
  BY <1>4, <1>8 DEF Running, Progress, Is
<1>11. engc[p].left = <<>> /\ engc[p].failed = 0
  <2>1. Does(p) = "usage"
    BY DEF Start, Is, Fits, Routes, NativeStages, MetalStages, OneStage, Translated
  <2>2. QED
    BY <2>1 DEF Fits, Counted
<1>12. Fits(p)'
  <2>1. Placed(p)'
    BY <1>2, <1>4, <1>8 DEF Placed, Does, Out, Tests, NativeStages, IsJob
  <2>2. Counted(p)'
    BY <1>8, <1>11 DEF Counted
  <2>3. Routes(Does(p), engc[p].at)'
    BY <1>4, <1>8 DEF Does, Routes
  <2>4. QED
    BY <2>1, <2>2, <2>3 DEF Fits
<1>13. QED
  BY <1>9, <1>10, <1>12

LEMMA StartKeeps ==
    ASSUME DriverInv, NEW q \in Engcs, Start(q)
    PROVE  DriverInv' /\ MadeWhatItSays
<1>1. /\ DriverTyped
      /\ \A p \in Engcs : Fits(p)
      /\ \A p, r \in Engcs : Acquainted(p, r)
      /\ \A p \in Engcs : Running(p) /\ Alone(p) => Progress(p)
  BY DEF DriverInv
<1>2. /\ Is(q, "idle") /\ ~Running(q)
      /\ met' = [p \in Engcs |-> IF p = q THEN {r \in Engcs : Running(r)}
                                 ELSE IF Running(p) THEN met[p] \cup {q} ELSE met[p]]
      /\ disk' = disk /\ device' = device /\ lines' = lines
  BY DEF Start, Keep, Is, Running
<1>3. /\ engc' = [p \in Engcs |-> engc'[p]] /\ IsEngc(engc'[q])
      /\ \A p \in Engcs : p # q => engc'[p] = engc[p]
      /\ Fits(q)' /\ Running(q)' /\ Progress(q)'
  BY <1>1, JobBegins DEF Alters
<1>4. met \in [Engcs -> SUBSET Engcs]
  BY <1>1 DEF DriverTyped
<1>5. DriverTyped'
  <2>1. \A p \in Engcs : IsEngc(engc'[p])
    BY <1>1, <1>3 DEF DriverTyped
  <2>2. met' \in [Engcs -> SUBSET Engcs]
    BY <1>2, <1>4
  <2>3. QED
    BY <1>1, <1>2, <1>3, <2>1, <2>2 DEF DriverTyped
<1>6. ASSUME NEW p \in Engcs PROVE Fits(p)'
  <2>1. CASE p # q
    <3>1. engc'[p] = engc[p]
      BY <1>3, <2>1
    <3>2. QED
      BY <1>1, <3>1 DEF Fits, Routes, Placed, Counted, Does, Is, Tests, Running, Out
  <2>2. QED
    BY <1>3, <2>1
<1>7. \A x \in Engcs : x # q => (Running(x)' <=> Running(x)) /\ (Is(x, "idle")' <=> Is(x, "idle"))
  BY <1>3 DEF Running, Is
<1>8. ASSUME NEW p \in Engcs, NEW r \in Engcs PROVE Acquainted(p, r)'
  <2>1. CASE p = q
    <3>1. met'[p] = {x \in Engcs : Running(x)}
      BY <1>2, <2>1
    <3>2. Running(r) => ~Is(r, "idle")' /\ r # q
      BY <1>2, <1>7 DEF Running, Is
    <3>3. QED
      BY <1>7, <2>1, <3>1, <3>2 DEF Acquainted
  <2>2. CASE p # q
    <3>1. met'[p] = IF Running(p) THEN met[p] \cup {q} ELSE met[p]
      BY <1>2, <2>2
    <3>2. ~Is(q, "idle")'
      BY <1>3 DEF Running, Is
    <3>3. QED
      BY <1>1, <1>7, <2>2, <3>1, <3>2 DEF Acquainted
  <2>3. QED
    BY <2>1, <2>2
<1>9. ASSUME NEW p \in Engcs, p # q, Running(p), Alone(p)' PROVE Alone(p)
  <2>1. \A r \in Engcs : r # q => Written(r)' = Written(r)
    BY <1>3 DEF Written, Files
  <2>2. \A r \in met[p] : r \in met'[p] /\ r \in Engcs /\ r # q
    <3>1. q \notin met[p]
      BY <1>1, <1>2 DEF Acquainted
    <3>2. met'[p] = met[p] \cup {q}
      BY <1>2, <1>9
    <3>3. QED
      BY <1>4, <3>1, <3>2
  <2>3. QED
    BY <1>9, <2>1, <2>2 DEF Alone, Apart
<1>10. ASSUME NEW p \in Engcs, Running(p)', Alone(p)' PROVE Progress(p)'
  <2>1. CASE p # q
    <3>1. Running(p) /\ Progress(p)
      BY <1>1, <1>7, <1>9, <1>10, <2>1
    <3>2. Undisturbed(p)
      BY <1>2, <1>3, <2>1, AtKept DEF Undisturbed
    <3>3. QED
      BY <1>1, <3>1, <3>2, KeepsProgress
  <2>2. QED
    BY <1>3, <2>1
<1>11. ASSUME NEW p \in Engcs, Running(p), engc'[p].at \in {"done", "tested"}, engc'[p].exit = 0, Alone(p)
       PROVE  IF engc'[p].at = "tested" THEN engc'[p].ran = engc[p].text /\ engc[p].text \notin Failing
              ELSE Made(p)'
  <2>1. Progress(p)
    BY <1>1, <1>11
  <2>2. engc'[p] = engc[p]
    BY <1>2, <1>3, <1>11
  <2>3. engc[p].at = "tested"
    BY <1>11, <2>2 DEF Running
  <2>4. QED
    BY <1>11, <2>1, <2>2, <2>3 DEF Progress, Is
<1>12. QED
  BY <1>5, <1>6, <1>8, <1>10, <1>11 DEF DriverInv, MadeWhatItSays

\* Saving a source disturbs only those that write it.
LEMMA EditKeepsAll ==
    ASSUME DriverInv, EditSource \/ UNCHANGED dvars
    PROVE  DriverInv' /\ MadeWhatItSays
<1>1. /\ DriverTyped
      /\ \A p \in Engcs : Fits(p)
      /\ \A p, r \in Engcs : Acquainted(p, r)
      /\ \A p \in Engcs : Running(p) /\ Alone(p) => Progress(p)
  BY DEF DriverInv
<1>2. engc' = engc /\ met' = met /\ device' = device /\ lines' = lines
  BY DEF EditSource, dvars
<1>3. \A f : f \notin Sources => At(f)' = At(f)
  <2>1. CASE EditSource
    <3>1. PICK f \in Sources : \E t : Write(f, Content("ec", t))
      BY <2>1 DEF EditSource
    <3>2. QED
      BY <3>1, AtWritten
  <2>2. CASE UNCHANGED dvars
    BY <2>2, AtKept DEF dvars
  <2>3. QED
    BY <2>1, <2>2
<1>4. ASSUME NEW p \in Engcs, Alone(p) PROVE Undisturbed(p)
  BY <1>2, <1>3, <1>4 DEF Undisturbed, Alone
<1>5. DriverTyped'
  BY <1>1, <1>2 DEF DriverTyped, IsEngc
<1>6. \A p \in Engcs : Fits(p)'
  BY <1>1, <1>2 DEF Fits, Routes, Placed, Counted, Does, Is, Tests, Running, Out
<1>7. \A p, r \in Engcs : Acquainted(p, r)'
  BY <1>1, <1>2 DEF Acquainted, Running, Is
<1>8. ASSUME NEW p \in Engcs PROVE (Running(p)' <=> Running(p)) /\ (Alone(p)' <=> Alone(p))
  BY <1>2 DEF Running, Alone, Apart, Written, Files
<1>9. ASSUME NEW p \in Engcs, Running(p), Alone(p) PROVE Progress(p)'
  BY <1>1, <1>4, <1>9, KeepsProgress
<1>10. ASSUME NEW p \in Engcs, Running(p), engc'[p].at \in {"done", "tested"}, engc'[p].exit = 0, Alone(p)
       PROVE  engc'[p].at = "tested" /\ engc'[p].ran = engc[p].text /\ engc[p].text \notin Failing
  BY <1>1, <1>2, <1>10 DEF Progress, Is, Running
<1>11. QED
  BY <1>5, <1>6, <1>7, <1>8, <1>9, <1>10 DEF DriverInv, MadeWhatItSays

\* A command that reports no error has made what it was asked for, of the text that it read,
\* whatever the others do, as long as none writes a file of its own; what it ran is that
\* program where the shell reaches it (cmdRunEmbedded, cmdRun, cmdTest).
THEOREM CommandsEndTruthfully == DriverSpec => EndsTruthfully
<1>1. ASSUME DriverInv, [DriverNext]_dvars PROVE DriverInv' /\ MadeWhatItSays
  <2>1. CASE EditSource \/ UNCHANGED dvars
    BY <1>1, <2>1, EditKeepsAll
  <2>2. ASSUME NEW p \in Engcs, Start(p) \/ Step(p) PROVE DriverInv' /\ MadeWhatItSays
    BY <1>1, <2>2, StartKeeps, StepKeeps
  <2>3. QED
    BY <1>1, <2>1, <2>2 DEF DriverNext
<1>2. QED
  BY <1>1, DriverBegins, PTL DEF DriverSpec, EndsTruthfully

-----------------------------------------------------------------------------
(* The editor.                                                             *)

\* Of the didOpen messages of d that the server has still to read, the last one has the
\* text that was sent last.
Opens(m, d) == m.method = "didOpen" /\ m.doc = d
Due(d) == \E i \in DOMAIN toServer : Opens(toServer[i], d)
SentLast(d) ==
    \A i \in DOMAIN toServer :
        Opens(toServer[i], d) /\ (\A j \in DOMAIN toServer : Opens(toServer[j], d) => j <= i)
        => toServer[i].text = last[d]

\* What is said of d in a queue: nothing, or v at last.
Says(m, d) == "diagnostics" \in DOMAIN m /\ m.doc = d
SaysNothing(q, d) == \A i \in DOMAIN q : ~Says(q[i], d)
SaysAtLast(q, d, v) ==
    \A i \in DOMAIN q :
        Says(q[i], d) /\ (\A j \in DOMAIN q : Says(q[j], d) => j <= i) => q[i].diagnostics = v

\* Once no didOpen is due, and no compile of d was disturbed or overtaken, what former
\* servers printed says the same as this one will; a compile that was not superseded has
\* the text that was sent last; and there is such a compile, or none of d at all, and
\* then the verdict on that text is shown, or the last that will arrive.
Unhaunted(d) ==
    \A k \in 1..servers - 1 : \A i \in DOMAIN toClient[k] :
        Says(toClient[k][i], d) => toClient[k][i].diagnostics = Verdict(last[d])
Fresh(d) == \A c \in compiles : c.doc = d /\ ~c.superseded => c.text = last[d]
Working(d) == \E c \in compiles : c.doc = d /\ ~c.superseded
Shows(d) == d \in DOMAIN shown[servers] /\ shown[servers][d] = Verdict(last[d])
Over(d) ==
    /\ \A c \in compiles : c.doc # d
    /\ SaysAtLast(toClient[servers], d, Verdict(last[d]))
    /\ SaysNothing(toClient[servers], d) => Shows(d)

Current(d) ==
    /\ SentLast(d)
    /\ ~Due(d) /\ d \notin doubt => Unhaunted(d) /\ Fresh(d) /\ (Working(d) \/ Over(d))
AllCurrent == \A d \in DOMAIN last : Current(d)

\* What was left when this server was started is what its predecessors' collections hold.
Former(d) == UNION {ToSet(shown[k][d]) : k \in {i \in 1..servers - 1 : d \in DOMAIN shown[i]}}
AllLeft == \A d \in Documents : leftover[d] = Former(d)

\* What is left of a type invariant: messages and diagnostics may be anything.
Queues ==
    /\ \E S : toServer \in Seq(S)
    /\ \E S : toClient \in Seq(Seq(S))
    /\ \E S : shown \in Seq(S)
    /\ servers \in Nat \ {0} /\ Len(toClient) = servers /\ Len(shown) = servers
    /\ open \subseteq Documents
Records ==
    \A c \in compiles :
        /\ c = [id |-> c.id, doc |-> c.doc, text |-> c.text, file |-> c.file, read |-> c.read,
                superseded |-> c.superseded]
        /\ c.superseded \in BOOLEAN

EditorInv == Queues /\ Records /\ AllCurrent /\ AllLeft

-----------------------------------------------------------------------------
(* The greeting of a new server opens every open document.                 *)

\* SetToSeq leaves nothing out.
LEMMA AllInOrder ==
    ASSUME NEW O, IsFiniteSet(O)
    PROVE  /\ Cardinality(O) \in Nat
           /\ SetToSeq(O) \in [1..Cardinality(O) -> O]
           /\ \A d \in O : \E i \in 1..Cardinality(O) : SetToSeq(O)[i] = d
<1> DEFINE n == Cardinality(O)
           s == SetToSeq(O)
<1>1. n \in Nat /\ ExistsBijection(1..n, O)
  BY FS_CardinalityType
<1>2. \E f \in [1..n -> O] : IsInjective(f)
  BY <1>1 DEF ExistsBijection, Bijection, Injection
<1>3. s \in [1..n -> O] /\ IsInjective(s)
  BY <1>2 DEF SetToSeq
<1>4. s \in Injection(1..n, O)
  BY <1>3 DEF Injection
<1>5. Cardinality(1..n) = n
  BY <1>1, FS_Interval
<1>6. s \in Surjection(1..n, O)
  <2> HIDE DEF s, n
  <2>1. n = Cardinality(O)
    BY DEF n
  <2>2. QED
    BY <1>4, <1>5, <2>1, FS_Injection
<1>7. QED
  BY <1>1, <1>3, <1>6 DEF Surjection

\* A greeting holds, for each of the documents, a didOpen with its text.
LEMMA GreetingIs ==
    ASSUME NEW O, IsFiniteSet(O), NEW g, g = Greeting(SetToSeq(O))
    PROVE  /\ \E S : g \in Seq(S)
           /\ \A i \in DOMAIN g : g[i].method = "didOpen" => g[i].text = text[g[i].doc]
           /\ \A d \in O : \E i \in DOMAIN g : Opens(g[i], d)
<1> DEFINE n == Cardinality(O)
           s == SetToSeq(O)
           hello == <<[method |-> "initialize"], [method |-> "initialized"]>>
           rest == [i \in DOMAIN s |-> DidOpen(s[i])]
           S == {DidOpen(d) : d \in O} \cup {[method |-> "initialize"], [method |-> "initialized"]}
<1>1. /\ n \in Nat /\ s \in [1..n -> O]
      /\ \A d \in O : \E i \in 1..n : s[i] = d
  BY AllInOrder
<1>2. g = hello \o rest
  BY DEF Greeting
<1>3. rest \in Seq(S) /\ Len(rest) = n /\ \A i \in 1..n : rest[i] = DidOpen(s[i])
  <2>1. DOMAIN s = 1..n /\ \A i \in 1..n : s[i] \in O
    BY <1>1
  <2> HIDE DEF s, n
  <2>2. rest \in [1..n -> S]
    BY <2>1
  <2>3. QED
    BY <1>1, <2>1, <2>2
<1>4. hello \in Seq(S) /\ Len(hello) = 2
  OBVIOUS
<1> HIDE DEF S, rest, s, n
<1>5. /\ g \in Seq(S) /\ Len(g) = n + 2
      /\ \A i \in 1..n : g[i + 2] = rest[i]
      /\ g[1] = hello[1] /\ g[2] = hello[2]
  <2> HIDE DEF hello
  <2>1. /\ hello \o rest \in Seq(S)
        /\ Len(hello \o rest) = Len(hello) + Len(rest)
        /\ \A i \in 1..Len(hello) + Len(rest) :
               (hello \o rest)[i] = IF i <= Len(hello) THEN hello[i] ELSE rest[i - Len(hello)]
    BY <1>3, <1>4, ConcatProperties
  <2>2. g \in Seq(S) /\ Len(g) = n + 2
    BY <1>1, <1>2, <1>3, <1>4, <2>1
  <2>3. \A i \in 1..2 + n : g[i] = IF i <= 2 THEN hello[i] ELSE rest[i - 2]
    BY <1>2, <1>3, <1>4, <2>1
  <2>4. QED
    BY <1>1, <2>2, <2>3
<1>6. g[1].method = "initialize" /\ g[2].method = "initialized"
  BY <1>5
<1>7. \A i \in 1..n : g[i + 2] = [method |-> "didOpen", doc |-> s[i], text |-> text[s[i]]]
  BY <1>3, <1>5 DEF DidOpen
<1>8. \A i \in DOMAIN g : i = 1 \/ i = 2 \/ i - 2 \in 1..n
  BY <1>1, <1>5
<1>9. ASSUME NEW i \in DOMAIN g, g[i].method = "didOpen" PROVE g[i].text = text[g[i].doc]
  <2>1. i - 2 \in 1..n
    BY <1>6, <1>8, <1>9
  <2>2. i \in Int
    BY <1>5
  <2>3. g[i] = [method |-> "didOpen", doc |-> s[i - 2], text |-> text[s[i - 2]]]
    <3>1. PICK j \in 1..n : j = i - 2
      BY <2>1
    <3>2. j + 2 = i
      BY <3>1, <2>2, <1>1
    <3>3. QED
      BY <1>7, <3>1, <3>2
  <2>4. QED
    BY <2>3
<1>10. ASSUME NEW d \in O PROVE \E i \in DOMAIN g : Opens(g[i], d)
  <2>1. PICK i \in 1..n : s[i] = d
    BY <1>1
  <2>2. i + 2 \in DOMAIN g
    BY <1>1, <1>5
  <2>3. g[i + 2] = [method |-> "didOpen", doc |-> d, text |-> text[d]]
    BY <1>7, <2>1
  <2>4. Opens(g[i + 2], d)
    BY <2>3 DEF Opens
  <2>5. QED
    BY <2>2, <2>4
<1>11. QED
  BY <1>5, <1>9, <1>10

-----------------------------------------------------------------------------

\* The queue of the server gets shorter by its first message.
LEMMA QueueShrinks ==
    ASSUME NEW S, toServer \in Seq(S), toServer # <<>>, toServer' = Tail(toServer),
           NEW d, last'[d] = last[d], SentLast(d)
    PROVE  /\ toServer' \in Seq(S)
           /\ SentLast(d)'
           /\ Due(d) => Due(d)' \/ Opens(Head(toServer), d)
           /\ Opens(Head(toServer), d) /\ ~Due(d)' => Head(toServer).text = last[d]
<1> DEFINE n == Len(toServer)
<1>1. /\ n \in Nat \ {0} /\ toServer' \in Seq(S) /\ Len(toServer') = n - 1
      /\ \A i \in 1..n - 1 : toServer'[i] = toServer[i + 1]
      /\ Head(toServer) = toServer[1]
  BY HeadTailProperties, LenProperties
<1>2. DOMAIN toServer = 1..n /\ DOMAIN toServer' = 1..n - 1
  BY <1>1, LenProperties
<1> HIDE DEF n
<1>3. ASSUME NEW i \in DOMAIN toServer', Opens(toServer'[i], d),
             \A j \in DOMAIN toServer' : Opens(toServer'[j], d) => j <= i
      PROVE  toServer'[i].text = last[d]
  <2>1. i + 1 \in DOMAIN toServer /\ toServer'[i] = toServer[i + 1]
    BY <1>1, <1>2
  <2>2. ASSUME NEW j \in DOMAIN toServer, Opens(toServer[j], d) PROVE j <= i + 1
    <3>1. CASE j = 1
      BY <3>1, <1>1, <1>2
    <3>2. CASE j # 1
      <4>1. j - 1 \in DOMAIN toServer' /\ toServer'[j - 1] = toServer[j]
        BY <3>2, <1>1, <1>2
      <4>2. j - 1 <= i
        BY <1>3, <2>2, <4>1
      <4>3. QED
        BY <4>2, <1>1, <1>2
    <3>3. QED
      BY <3>1, <3>2
  <2>3. QED
    BY <1>3, <2>1, <2>2 DEF SentLast
<1>4. SentLast(d)'
  BY <1>3 DEF SentLast, Opens
<1>5. ASSUME NEW i \in DOMAIN toServer, Opens(toServer[i], d), ~Opens(Head(toServer), d)
      PROVE  Due(d)'
  <2>1. i # 1
    BY <1>1, <1>5
  <2>2. i - 1 \in DOMAIN toServer' /\ toServer'[i - 1] = toServer[i]
    BY <2>1, <1>1, <1>2
  <2>3. QED
    BY <2>2, <1>5 DEF Due, Opens
<1>6. ASSUME Opens(Head(toServer), d), ~Due(d)' PROVE Head(toServer).text = last[d]
  <2>1. 1 \in DOMAIN toServer /\ Opens(toServer[1], d)
    BY <1>1, <1>2, <1>6
  <2>2. ASSUME NEW j \in DOMAIN toServer, Opens(toServer[j], d), ~(j <= 1) PROVE FALSE
    <3>1. j - 1 \in DOMAIN toServer' /\ toServer'[j - 1] = toServer[j]
      BY <2>2, <1>1, <1>2
    <3>2. QED
      BY <3>1, <2>2, <1>6 DEF Due, Opens
  <2>3. toServer[1].text = last[d]
    BY <2>1, <2>2 DEF SentLast
  <2>4. QED
    BY <2>3, <1>1
<1>7. QED
  BY <1>1, <1>4, <1>5, <1>6 DEF Due

\* More messages for the server that do not open d.
LEMMA QueueGrows ==
    ASSUME NEW S, toServer \in Seq(S), NEW more \in Seq(S), toServer' = toServer \o more,
           NEW d, last'[d] = last[d], \A i \in DOMAIN more : ~Opens(more[i], d), SentLast(d)
    PROVE  SentLast(d)' /\ (Due(d) => Due(d)')
<1> DEFINE n == Len(toServer)
<1>1. /\ n \in Nat /\ Len(more) \in Nat /\ Len(toServer') = n + Len(more)
      /\ \A i \in 1..n + Len(more) :
             toServer'[i] = IF i <= n THEN toServer[i] ELSE more[i - n]
      /\ toServer' \in Seq(S)
  BY ConcatProperties, LenProperties
<1>2. /\ DOMAIN toServer = 1..n /\ DOMAIN more = 1..Len(more)
      /\ DOMAIN toServer' = 1..n + Len(more)
  BY <1>1, LenProperties
<1> HIDE DEF n
<1>3. \A i \in DOMAIN toServer : i \in DOMAIN toServer' /\ toServer'[i] = toServer[i]
  BY <1>1, <1>2
<1>4. ASSUME NEW i \in DOMAIN toServer', Opens(toServer'[i], d) PROVE i \in DOMAIN toServer
  <2>1. CASE i <= n
    BY <2>1, <1>1, <1>2
  <2>2. CASE ~(i <= n)
    <3>1. i - n \in DOMAIN more /\ toServer'[i] = more[i - n]
      BY <2>2, <1>1, <1>2
    <3>2. QED
      BY <3>1, <1>4
  <2>3. QED
    BY <2>1, <2>2
<1>5. ASSUME NEW i \in DOMAIN toServer', Opens(toServer'[i], d),
             \A j \in DOMAIN toServer' : Opens(toServer'[j], d) => j <= i
      PROVE  toServer'[i].text = last[d]
  <2>1. i \in DOMAIN toServer /\ toServer'[i] = toServer[i] /\ Opens(toServer[i], d)
    BY <1>3, <1>4, <1>5
  <2>2. \A j \in DOMAIN toServer : Opens(toServer[j], d) => j <= i
    BY <1>3, <1>5
  <2>3. QED
    BY <2>1, <2>2 DEF SentLast
<1>6. SentLast(d)'
  BY <1>5 DEF SentLast, Opens
<1>7. QED
  BY <1>3, <1>6 DEF Due, Opens

\* What Save(d) sends.
Saving(d) == [i \in 1..2 * servers |-> IF i % 2 = 1 THEN DidOpen(d) ELSE DidChange(d)]

\* The didOpen and didChange of every server that was started.
LEMMA SavingIs ==
    ASSUME servers \in Nat \ {0}, NEW d
    PROVE  /\ Saving(d) \in Seq({DidOpen(d), DidChange(d)})
           /\ DOMAIN Saving(d) = 1..2 * servers
           /\ Saving(d)[1] = DidOpen(d)
           /\ \A i \in DOMAIN Saving(d) : Saving(d)[i] \in {DidOpen(d), DidChange(d)}
<1> DEFINE n == 2 * servers
           M == {DidOpen(d), DidChange(d)}
           s == [i \in 1..n |-> IF i % 2 = 1 THEN DidOpen(d) ELSE DidChange(d)]
<1>1. n \in Nat /\ 1 \in 1..n
  OBVIOUS
<1>2. Saving(d) = s
  BY DEF Saving
<1>3. 1 % 2 = 1
  OBVIOUS
<1> HIDE DEF n
<1>4. s \in [1..n -> M] /\ s[1] = DidOpen(d)
  BY <1>1, <1>3
<1>5. s \in Seq(M)
  BY <1>1, <1>4
<1>6. QED
  BY <1>1, <1>2, <1>4, <1>5 DEF n

\* Saving d opens it once more, with its text.
LEMMA SaveSends ==
    ASSUME NEW S, toServer \in Seq(S), servers \in Nat \ {0}, NEW d,
           toServer' = toServer \o Saving(d), last'[d] = text[d]
    PROVE  SentLast(d)' /\ Due(d)'
<1> DEFINE n == Len(toServer)
           more == Saving(d)
           U == S \cup {DidOpen(d), DidChange(d)}
<1>1. /\ toServer \in Seq(U) /\ more \in Seq(U)
      /\ DOMAIN more = 1..2 * servers /\ more[1] = DidOpen(d)
      /\ \A i \in 1..2 * servers : more[i] \in {DidOpen(d), DidChange(d)}
      /\ toServer' = toServer \o more
  <2>1. /\ more \in Seq({DidOpen(d), DidChange(d)})
        /\ DOMAIN more = 1..2 * servers /\ more[1] = DidOpen(d)
        /\ \A i \in DOMAIN more : more[i] \in {DidOpen(d), DidChange(d)}
    BY SavingIs
  <2> HIDE DEF more
  <2>2. more \in Seq(U)
    BY <2>1, SeqMonotonic, {DidOpen(d), DidChange(d)} \subseteq U
  <2>3. toServer \in Seq(U)
    BY SeqMonotonic, S \subseteq U
  <2>4. QED
    BY <2>1, <2>2, <2>3 DEF more
<1>2. /\ n \in Nat /\ Len(more) = 2 * servers /\ Len(toServer') = n + 2 * servers
      /\ \A i \in 1..n + 2 * servers :
             toServer'[i] = IF i <= n THEN toServer[i] ELSE more[i - n]
      /\ toServer' \in Seq(U)
  <2> HIDE DEF more, U
  <2>1. /\ toServer' \in Seq(U) /\ Len(toServer') = n + Len(more)
        /\ \A i \in 1..n + Len(more) :
             toServer'[i] = IF i <= n THEN toServer[i] ELSE more[i - n]
        /\ n \in Nat
    BY <1>1, ConcatProperties, LenProperties
  <2>2. DOMAIN more = 1..2 * servers /\ 2 * servers \in Nat
    BY <1>1
  <2>3. Len(more) = 2 * servers
    BY <1>1, <2>2, LenProperties
  <2>4. QED
    BY <2>1, <2>3
<1>3. /\ DOMAIN toServer' = 1..n + 2 * servers
      /\ \A i \in 1..2 * servers : more[i] \in {DidOpen(d), DidChange(d)}
      /\ more[1] = DidOpen(d)
  BY <1>1, <1>2, LenProperties
<1> HIDE DEF n, more, U
<1>4. n + 1 \in DOMAIN toServer' /\ toServer'[n + 1] = DidOpen(d)
  <2>1. PICK i \in Int : i = n + 1
    BY <1>2
  <2>2. i \in 1..n + 2 * servers /\ ~(i <= n) /\ i - n = 1
    BY <1>2, <2>1
  <2>3. toServer'[i] = more[1]
    BY <1>2, <2>2
  <2>4. QED
    BY <1>3, <2>1, <2>2, <2>3
<1>5. Opens(toServer'[n + 1], d)
  BY <1>4 DEF Opens, DidOpen
<1>6. Due(d)'
  BY <1>4, <1>5 DEF Due, Opens
<1>7. ASSUME NEW i \in DOMAIN toServer', Opens(toServer'[i], d),
             \A j \in DOMAIN toServer' : Opens(toServer'[j], d) => j <= i
      PROVE  toServer'[i].text = last'[d]
  <2>1. n + 1 <= i
    BY <1>4, <1>5, <1>7
  <2>2. i - n \in 1..2 * servers /\ toServer'[i] = more[i - n]
    BY <2>1, <1>2, <1>3
  <2>3. toServer'[i] \in {DidOpen(d), DidChange(d)}
    BY <2>2, <1>3
  <2>4. toServer'[i].text = text[d]
    BY <2>3 DEF DidOpen, DidChange
  <2>5. QED
    BY <2>4
<1>8. SentLast(d)'
  BY <1>7 DEF SentLast, Opens
<1>9. QED
  BY <1>6, <1>8

-----------------------------------------------------------------------------
\* A function on an initial segment is a sequence.
LEMMA FunctionIsSequence ==
    ASSUME NEW n \in Nat, NEW T, NEW f \in [1..n -> T]
    PROVE  f \in Seq(T) /\ Len(f) = n
  OBVIOUS

\* A message is printed by the server that runs.
LEMMA SentIs ==
    ASSUME NEW S, toClient \in Seq(Seq(S)), servers \in 1..Len(toClient), NEW new, Send(new)
    PROVE  /\ toClient' \in Seq(Seq(S \cup {new})) /\ Len(toClient') = Len(toClient)
           /\ toClient'[servers] = Append(toClient[servers], new)
           /\ \A k \in 1..Len(toClient) : k # servers => toClient'[k] = toClient[k]
<1> DEFINE U == S \cup {new}
           T == Seq(U)
           q == toClient[servers]
           n == Len(toClient)
<1>1. /\ DOMAIN toClient = 1..n /\ n \in Nat
      /\ \A k \in DOMAIN toClient : toClient[k] \in Seq(S)
  BY LenProperties, ElementOfSeq
<1>2. toClient' = [toClient EXCEPT ![servers] = Append(q, new)]
  BY DEF Send
<1>3. \A s \in Seq(S) : s \in T
  BY SeqMonotonic
<1>4. Append(q, new) \in T
  <2>1. q \in T /\ new \in U
    BY <1>1, <1>3
  <2> HIDE DEF U, q
  <2>2. QED
    BY <2>1, AppendProperties
<1> HIDE DEF U, q, T
<1>5. /\ DOMAIN toClient' = 1..n /\ toClient'[servers] = Append(q, new)
      /\ \A k \in 1..n : k # servers => toClient'[k] = toClient[k]
  BY <1>1, <1>2
<1>6. toClient' \in [1..n -> T]
  <2>1. \A k \in 1..n : toClient'[k] \in T
    BY <1>1, <1>3, <1>4, <1>5
  <2>2. toClient' = [k \in 1..n |-> toClient'[k]]
    BY <1>1, <1>2, <1>5
  <2> HIDE DEF n
  <2>3. QED
    BY <2>1, <2>2
<1>7. toClient' \in Seq(T) /\ Len(toClient') = n
  <2> HIDE DEF n
  <2>1. QED
    BY <1>1, <1>6, FunctionIsSequence
<1>8. QED
  BY <1>5, <1>7 DEF U, T, q

\* A message arrives.
LEMMA ArrivedIs ==
    ASSUME NEW S, toClient \in Seq(Seq(S)), NEW k \in 1..Len(toClient), toClient[k] # <<>>,
           toClient' = [toClient EXCEPT ![k] = Tail(@)]
    PROVE  /\ toClient' \in Seq(Seq(S)) /\ Len(toClient') = Len(toClient)
           /\ toClient'[k] = Tail(toClient[k])
           /\ \A l \in 1..Len(toClient) : l # k => toClient'[l] = toClient[l]
           /\ toClient[k] \in Seq(S)
<1> DEFINE T == Seq(S)
           q == toClient[k]
           n == Len(toClient)
<1>1. /\ DOMAIN toClient = 1..n /\ n \in Nat
      /\ \A l \in DOMAIN toClient : toClient[l] \in T
  BY LenProperties, ElementOfSeq
<1>2. toClient' = [toClient EXCEPT ![k] = Tail(q)]
  OBVIOUS
<1>3. Tail(q) \in T
  <2>1. q \in Seq(S) /\ q # <<>>
    BY <1>1
  <2> HIDE DEF q
  <2>2. QED
    BY <2>1, HeadTailProperties
<1> HIDE DEF q, T
<1>4. /\ DOMAIN toClient' = 1..n /\ toClient'[k] = Tail(q)
      /\ \A l \in 1..n : l # k => toClient'[l] = toClient[l]
  BY <1>1, <1>2
<1>5. toClient' \in [1..n -> T]
  <2>1. \A l \in 1..n : toClient'[l] \in T
    BY <1>1, <1>3, <1>4
  <2>2. toClient' = [l \in 1..n |-> toClient'[l]]
    BY <1>1, <1>2, <1>4
  <2> HIDE DEF n
  <2>3. QED
    BY <2>1, <2>2
<1>6. toClient' \in Seq(T) /\ Len(toClient') = n
  <2> HIDE DEF n
  <2>1. QED
    BY <1>1, <1>5, FunctionIsSequence
<1>7. QED
  BY <1>1, <1>4, <1>6 DEF T, q

\* What is said at last when the first message is gone.
LEMMA TailSays ==
    ASSUME NEW S, NEW q \in Seq(S), q # <<>>, NEW d, NEW v
    PROVE  /\ SaysAtLast(q, d, v) => SaysAtLast(Tail(q), d, v)
           /\ SaysAtLast(q, d, v) /\ Says(Head(q), d) /\ SaysNothing(Tail(q), d)
              => Head(q).diagnostics = v
           /\ ~Says(Head(q), d) /\ SaysNothing(Tail(q), d) => SaysNothing(q, d)
<1> DEFINE n == Len(q)
           t == Tail(q)
<1>1. /\ Head(q) = q[1] /\ n \in Nat \ {0} /\ t \in Seq(S) /\ Len(t) = n - 1
      /\ \A i \in 1..n - 1 : t[i] = q[i + 1]
  BY HeadTailProperties, LenProperties
<1>2. DOMAIN q = 1..n /\ DOMAIN t = 1..n - 1
  BY <1>1, LenProperties
<1> HIDE DEF n, t
<1>3. \A i \in 1..n : i = 1 \/ (i - 1 \in 1..n - 1 /\ t[i - 1] = q[i])
  BY <1>1
<1>4. ASSUME SaysAtLast(q, d, v), NEW i \in DOMAIN t, Says(t[i], d),
             \A j \in DOMAIN t : Says(t[j], d) => j <= i
      PROVE  t[i].diagnostics = v
  <2>1. i + 1 \in DOMAIN q /\ q[i + 1] = t[i] /\ i \in Int
    BY <1>1, <1>2
  <2>2. ASSUME NEW j \in DOMAIN q, Says(q[j], d) PROVE j <= i + 1
    <3>1. CASE j = 1
      BY <3>1, <1>1, <1>2
    <3>2. CASE j # 1
      <4>1. j - 1 \in DOMAIN t /\ t[j - 1] = q[j]
        BY <3>2, <1>2, <1>3
      <4>2. j - 1 <= i
        BY <1>4, <2>2, <4>1
      <4>3. QED
        BY <4>2, <2>1, <1>1, <1>2
    <3>3. QED
      BY <3>1, <3>2
  <2>3. QED
    BY <1>4, <2>1, <2>2 DEF SaysAtLast
<1>5. ASSUME SaysAtLast(q, d, v), Says(Head(q), d), SaysNothing(t, d)
      PROVE  Head(q).diagnostics = v
  <2>1. 1 \in DOMAIN q /\ Says(q[1], d)
    BY <1>1, <1>2, <1>5
  <2>2. ASSUME NEW j \in DOMAIN q, Says(q[j], d) PROVE j <= 1
    <3>1. CASE j = 1
      BY <3>1
    <3>2. CASE j # 1
      <4>1. j - 1 \in DOMAIN t /\ t[j - 1] = q[j]
        BY <3>2, <1>2, <1>3
      <4>2. QED
        BY <1>5, <2>2, <4>1 DEF SaysNothing
    <3>3. QED
      BY <3>1, <3>2
  <2>3. q[1].diagnostics = v
    BY <1>5, <2>1, <2>2 DEF SaysAtLast
  <2>4. QED
    BY <1>1, <2>3
<1>6. ASSUME ~Says(Head(q), d), SaysNothing(t, d) PROVE SaysNothing(q, d)
  BY <1>1, <1>2, <1>3, <1>6 DEF SaysNothing
<1>7. SaysAtLast(q, d, v) => SaysAtLast(t, d, v)
  BY <1>4 DEF SaysAtLast
<1>8. QED
  BY <1>5, <1>6, <1>7 DEF t

\* What is said at last when a message is added.
LEMMA AppendSays ==
    ASSUME NEW S, NEW q \in Seq(S), NEW m, NEW d, NEW v
    PROVE  /\ ~Says(m, d) /\ SaysAtLast(q, d, v) => SaysAtLast(Append(q, m), d, v)
           /\ ~Says(m, d) /\ SaysNothing(Append(q, m), d) => SaysNothing(q, d)
           /\ Says(m, d) => ~SaysNothing(Append(q, m), d)
           /\ Says(m, d) /\ m.diagnostics = v => SaysAtLast(Append(q, m), d, v)
<1> DEFINE n == Len(q)
           t == Append(q, m)
           U == S \cup {m}
<1>1. q \in Seq(U) /\ m \in U
  BY SeqMonotonic
<1> HIDE DEF U
<1>2. /\ n \in Nat /\ t \in Seq(U) /\ Len(t) = n + 1 /\ t[n + 1] = m
      /\ \A i \in 1..n : t[i] = q[i]
  BY <1>1, AppendProperties, LenProperties
<1>3. DOMAIN q = 1..n /\ DOMAIN t = 1..n + 1
  BY <1>1, <1>2, LenProperties
<1> HIDE DEF n, t
<1>4. /\ \A i \in DOMAIN t : i \in DOMAIN q \/ i = n + 1
      /\ \A i \in DOMAIN q : i \in DOMAIN t /\ t[i] = q[i]
      /\ n + 1 \in DOMAIN t
      /\ \A i \in DOMAIN t : n + 1 <= i => i = n + 1
  BY <1>2, <1>3
<1>5. ASSUME ~Says(m, d), SaysAtLast(q, d, v), NEW i \in DOMAIN t, Says(t[i], d),
             \A j \in DOMAIN t : Says(t[j], d) => j <= i
      PROVE  t[i].diagnostics = v
  <2>1. i \in DOMAIN q
    BY <1>2, <1>4, <1>5
  <2>2. Says(q[i], d) /\ \A j \in DOMAIN q : Says(q[j], d) => j <= i
    BY <1>4, <1>5, <2>1
  <2>3. QED
    BY <1>4, <1>5, <2>1, <2>2 DEF SaysAtLast
<1>6. ~Says(m, d) /\ SaysAtLast(q, d, v) => SaysAtLast(t, d, v)
  BY <1>5 DEF SaysAtLast
<1>7. SaysNothing(t, d) => SaysNothing(q, d)
  BY <1>4 DEF SaysNothing
<1>8. Says(m, d) => ~SaysNothing(t, d)
  BY <1>2, <1>4 DEF SaysNothing
<1>9. ASSUME Says(m, d), m.diagnostics = v, NEW i \in DOMAIN t, Says(t[i], d),
             \A j \in DOMAIN t : Says(t[j], d) => j <= i
      PROVE  t[i].diagnostics = v
  <2>1. n + 1 <= i
    BY <1>2, <1>4, <1>9
  <2>2. QED
    BY <1>2, <1>4, <1>9, <2>1
<1>10. Says(m, d) /\ m.diagnostics = v => SaysAtLast(t, d, v)
  BY <1>9 DEF SaysAtLast
<1>11. QED
  BY <1>6, <1>7, <1>8, <1>10 DEF t

-----------------------------------------------------------------------------
\* A document stays current where a step takes nothing of it away.
LEMMA StaysCurrent ==
    ASSUME NEW d, Current(d), SentLast(d)', Due(d) => Due(d)', d \in doubt => d \in doubt',
           Unhaunted(d) => Unhaunted(d)', Fresh(d) => Fresh(d)', Working(d) => Working(d)',
           Over(d) => Over(d)'
    PROVE  Current(d)'
  BY DEF Current

\* A compile as far as it is told apart here.
Alike(c, v) == c.doc = v.doc /\ c.text = v.text /\ (c.superseded <=> v.superseded)

\* Where the compiles of d are the same, and all else.
LEMMA CompilesAlike ==
    ASSUME NEW d, last'[d] = last[d], UNCHANGED <<servers, toClient, shown, installed>>,
           \A c \in compiles' : c.doc = d => \E v \in compiles : Alike(c, v),
           \A v \in compiles : v.doc = d => \E c \in compiles' : Alike(c, v)
    PROVE  /\ Unhaunted(d) => Unhaunted(d)'
           /\ Fresh(d) => Fresh(d)'
           /\ Working(d) => Working(d)'
           /\ Over(d) => Over(d)'
<1>1. Verdict(last[d])' = Verdict(last[d])
  BY DEF Verdict, Output
<1>2. \A m : Says(m, d)' <=> Says(m, d)
  BY DEF Says
<1>3. Unhaunted(d) => Unhaunted(d)'
  BY <1>1, <1>2 DEF Unhaunted
<1>4. Fresh(d) => Fresh(d)'
  BY DEF Fresh, Alike
<1>5. Working(d) => Working(d)'
  BY DEF Working, Alike
<1>6. Shows(d) => Shows(d)'
  BY <1>1 DEF Shows
<1>7. (\A c \in compiles : c.doc # d) => (\A c \in compiles' : c.doc # d)
  BY DEF Alike
<1>8. /\ SaysAtLast(toClient[servers], d, Verdict(last[d]))'
             <=> SaysAtLast(toClient[servers], d, Verdict(last[d]))
      /\ SaysNothing(toClient[servers], d)' <=> SaysNothing(toClient[servers], d)
  BY <1>1, <1>2 DEF SaysAtLast, SaysNothing
<1>9. Over(d) => Over(d)'
  BY <1>6, <1>7, <1>8 DEF Over
<1>10. QED
  BY <1>3, <1>4, <1>5, <1>9

-----------------------------------------------------------------------------

\* A text that was not saved is nobody's concern.
LEMMA LeftStays ==
    ASSUME AllLeft, UNCHANGED <<leftover, shown, servers>>
    PROVE  AllLeft'
  BY DEF AllLeft, Former

LEMMA EditKeeps ==
    ASSUME EditorInv, NEW e, Edit(e)
    PROVE  EditorInv'
<1>1. UNCHANGED <<open, last, servers, toServer, compiles, toClient, shown, leftover, installed, doubt>>
  BY DEF Edit
<1>2. AllLeft'
  BY <1>1, LeftStays DEF EditorInv
<1>3. ASSUME NEW d \in DOMAIN last PROVE Current(d)'
  <2>1. Current(d)
    BY DEF EditorInv, AllCurrent
  <2>2. SentLast(d)' /\ (Due(d) => Due(d)')
    BY <1>1, <2>1 DEF Current, SentLast, Due, Opens
  <2>3. QED
    BY <1>1, <2>1, <2>2, CompilesAlike, StaysCurrent DEF Alike
<1>4. QED
  BY <1>1, <1>2, <1>3 DEF EditorInv, Queues, Records, AllCurrent

\* Messages that open no document change nothing for any.
LEMMA MoreKeeps ==
    ASSUME NEW S, toServer \in Seq(S), NEW more \in Seq(S), toServer' = toServer \o more,
           UNCHANGED <<compiles, toClient, shown, servers, installed, doubt>>,
           NEW d, Current(d), last'[d] = last[d], \A i \in DOMAIN more : ~Opens(more[i], d)
    PROVE  Current(d)'
<1>1. SentLast(d)' /\ (Due(d) => Due(d)')
  BY QueueGrows DEF Current
<1>2. QED
  BY <1>1, CompilesAlike, StaysCurrent DEF Alike

\* A save supersedes all that was said of the document.
LEMMA SaveKeeps ==
    ASSUME EditorInv, NEW e \in Documents, Save(e)
    PROVE  EditorInv'
<1>1. PICK S : toServer \in Seq(S)
  BY DEF EditorInv, Queues
<1> DEFINE U == S \cup {DidOpen(e), DidChange(e)}
           more == Saving(e)
<1>2. /\ toServer' = toServer \o more
      /\ last' = Update(last, e, text[e])
      /\ UNCHANGED <<compiles, toClient, shown, leftover, servers, installed, doubt, open>>
  BY DEF Save, Saving
<1>3. servers \in Nat \ {0}
  BY DEF EditorInv, Queues
<1>4. toServer \in Seq(U) /\ more \in Seq(U)
  <2>1. more \in Seq({DidOpen(e), DidChange(e)})
    BY <1>3, SavingIs
  <2> HIDE DEF more
  <2>2. QED
    BY <1>1, <2>1, SeqMonotonic, S \subseteq U, {DidOpen(e), DidChange(e)} \subseteq U
<1>5. \A i \in DOMAIN more : more[i] \in {DidOpen(e), DidChange(e)}
  BY <1>3, SavingIs
<1>6. ASSUME NEW d \in DOMAIN last' PROVE Current(d)'
  <2>1. CASE d = e
    <3>1. last'[d] = text[d]
      BY <1>2, <2>1 DEF Update
    <3>2. SentLast(d)' /\ Due(d)'
      BY <1>1, <1>2, <1>3, <2>1, <3>1, SaveSends
    <3>3. QED
      BY <3>2 DEF Current
  <2>2. CASE d # e
    <3>1. d \in DOMAIN last /\ last'[d] = last[d]
      BY <1>2, <2>2 DEF Update
    <3>2. \A i \in DOMAIN more : ~Opens(more[i], d)
      BY <1>5, <2>2 DEF Opens, DidOpen, DidChange
    <3>3. Current(d)
      BY <3>1 DEF EditorInv, AllCurrent
    <3> HIDE DEF more, U
    <3>4. QED
      BY <1>2, <1>4, <3>1, <3>2, <3>3, MoreKeeps
  <2>3. QED
    BY <2>1, <2>2
<1> HIDE DEF more, U
<1>7. toServer' \in Seq(U)
  BY <1>2, <1>4, ConcatProperties
<1>8. QED
  <2>1. AllCurrent'
    BY <1>6 DEF AllCurrent
  <2>2. Queues'
    BY <1>2, <1>7 DEF EditorInv, Queues
  <2>3. Records'
    BY <1>2 DEF EditorInv, Records
  <2>4. AllLeft'
    BY <1>2, LeftStays DEF EditorInv
  <2>5. QED
    BY <2>1, <2>2, <2>3, <2>4 DEF EditorInv

\* So does a step that only sends such messages.
LEMMA SendingKeeps ==
    ASSUME EditorInv, NEW M, NEW more \in Seq(M), toServer' = toServer \o more,
           \A i \in DOMAIN more : more[i].method # "didOpen",
           UNCHANGED <<last, compiles, toClient, shown, leftover, servers, installed, doubt>>,
           open' \subseteq Documents
    PROVE  EditorInv'
<1>1. PICK S : toServer \in Seq(S)
  BY DEF EditorInv, Queues
<1> DEFINE U == S \cup M
<1>2. toServer \in Seq(U) /\ more \in Seq(U)
  BY <1>1, SeqMonotonic, S \subseteq U, M \subseteq U
<1> HIDE DEF U
<1>3. toServer' \in Seq(U)
  BY <1>2, ConcatProperties
<1>4. ASSUME NEW d \in DOMAIN last PROVE Current(d)'
  <2>1. Current(d) /\ \A i \in DOMAIN more : ~Opens(more[i], d)
    BY DEF EditorInv, AllCurrent, Opens
  <2>2. QED
    BY <1>2, <2>1, MoreKeeps
<1>5. AllCurrent'
  BY <1>4 DEF AllCurrent
<1>6. Queues'
  BY <1>3 DEF EditorInv, Queues
<1>7. Records'
  BY DEF EditorInv, Records
<1>8. AllLeft'
  BY LeftStays DEF EditorInv
<1>9. QED
  BY <1>5, <1>6, <1>7, <1>8 DEF EditorInv

LEMMA ToggleKeeps ==
    ASSUME EditorInv, NEW e \in Documents, Toggle(e)
    PROVE  EditorInv'
<1> DEFINE m == [method |-> "didClose", doc |-> e]
           more == [i \in 1..servers |-> m]
<1>1. UNCHANGED <<last, compiles, toClient, shown, leftover, servers, installed, doubt>>
  BY DEF Toggle
<1>2. open' \subseteq Documents
  BY DEF Toggle, EditorInv, Queues
<1>3. CASE e \in open
  <2>1. toServer' = toServer \o more
    BY <1>3 DEF Toggle
  <2>2. servers \in Nat
    BY DEF EditorInv, Queues
  <2>3. more \in Seq({m})
    <3> HIDE DEF m
    <3>1. QED
      BY <2>2
  <2>4. \A i \in DOMAIN more : more[i].method # "didOpen"
    OBVIOUS
  <2> HIDE DEF more, m
  <2>5. QED
    BY <1>1, <1>2, <2>1, <2>3, <2>4, SendingKeeps
<1>4. CASE e \notin open
  <2>1. UNCHANGED toServer
    BY <1>4 DEF Toggle
  <2>2. toServer' = toServer \o <<>> /\ <<>> \in Seq({m})
    BY <2>1, ConcatEmptySeq DEF EditorInv, Queues
  <2>3. \A i \in DOMAIN <<>> : <<>>[i].method # "didOpen"
    OBVIOUS
  <2> HIDE DEF m
  <2>4. QED
    BY <1>1, <1>2, <2>2, <2>3, SendingKeeps
<1>5. QED
  BY <1>3, <1>4

LEMMA RequestKeeps ==
    ASSUME EditorInv, NEW e \in Documents, Request(e)
    PROVE  EditorInv'
<1>1. PICK method \in {"completion", "hover", "definition"}, word \in Words :
          toServer' = Append(toServer, [method |-> method, doc |-> e, word |-> word])
  BY DEF Request
<1>2. UNCHANGED <<last, compiles, toClient, shown, leftover, servers, installed, doubt, open>>
  BY DEF Request
<1> DEFINE m == [method |-> method, doc |-> e, word |-> word]
<1>3. m.method # "didOpen"
  OBVIOUS
<1>4. toServer' = Append(toServer, m)
  BY <1>1
<1> HIDE DEF m
<1>5. PICK S : toServer \in Seq(S)
  BY DEF EditorInv, Queues
<1>6. toServer \in Seq(S \cup {m})
  BY <1>5, SeqMonotonic
<1>7. toServer' = toServer \o <<m>>
  BY <1>4, <1>6, AppendIsConcat
<1>8. <<m>> \in Seq({m}) /\ \A i \in DOMAIN <<m>> : <<m>>[i].method # "didOpen"
  BY <1>3
<1>9. open' \subseteq Documents
  BY <1>2 DEF EditorInv, Queues
<1>10. QED
  BY <1>2, <1>7, <1>8, <1>9, SendingKeeps

\* What arrives, from whichever server, is shown.
LEMMA DeliverKeeps ==
    ASSUME EditorInv, NEW k \in 1..servers, Deliver(k)
    PROVE  EditorInv'
<1> DEFINE m == Head(toClient[k])
           q == toClient[servers]
<1>1. /\ UNCHANGED <<last, toServer, compiles, servers, leftover, installed, doubt, open>>
      /\ toClient[k] # <<>> /\ toClient' = [toClient EXCEPT ![k] = Tail(@)]
  BY DEF Deliver
<1>2. shown' = IF "diagnostics" \in DOMAIN m
               THEN [shown EXCEPT ![servers] = Update(@, m.doc, m.diagnostics)] ELSE shown
  BY DEF Deliver
<1>3. PICK S : toClient \in Seq(Seq(S))
  BY DEF EditorInv, Queues
<1>4. PICK T : shown \in Seq(T)
  BY DEF EditorInv, Queues
<1>5. servers \in Nat \ {0} /\ Len(toClient) = servers /\ Len(shown) = servers
  BY DEF EditorInv, Queues
<1>6. DOMAIN shown = 1..servers /\ servers \in DOMAIN shown
  BY <1>4, <1>5, LenProperties
<1> HIDE DEF m
<1>7. /\ toClient' \in Seq(Seq(S)) /\ Len(toClient') = Len(toClient)
      /\ toClient'[k] = Tail(toClient[k])
      /\ \A l \in 1..servers : l # k => toClient'[l] = toClient[l]
      /\ toClient[k] \in Seq(S)
  BY <1>1, <1>3, <1>5, ArrivedIs
<1>8. /\ \A i \in DOMAIN toClient'[k] : \E j \in DOMAIN toClient[k] : toClient'[k][i] = toClient[k][j]
      /\ \E j \in DOMAIN toClient[k] : m = toClient[k][j]
  <2>1. /\ m = toClient[k][1] /\ Len(toClient[k]) \in Nat \ {0}
        /\ Tail(toClient[k]) \in Seq(S) /\ Len(Tail(toClient[k])) = Len(toClient[k]) - 1
        /\ \A i \in 1..Len(toClient[k]) - 1 : Tail(toClient[k])[i] = toClient[k][i + 1]
    BY <1>1, <1>7, HeadTailProperties, LenProperties DEF m
  <2>2. DOMAIN toClient[k] = 1..Len(toClient[k]) /\ DOMAIN toClient'[k] = 1..Len(toClient[k]) - 1
    BY <1>7, <2>1, LenProperties
  <2>3. QED
    BY <1>7, <2>1, <2>2
<1>9. ASSUME NEW d \in DOMAIN last PROVE Current(d)'
  <2> DEFINE v == Verdict(last[d])
  <2>1. Current(d)
    BY DEF EditorInv, AllCurrent
  <2>2. SentLast(d)' /\ (Due(d)' <=> Due(d))
    BY <1>1, <2>1 DEF Current, SentLast, Due, Opens
  <2>3. Verdict(last[d])' = v /\ (\A x : Says(x, d)' <=> Says(x, d))
    BY <1>1 DEF Verdict, Output, Says
  <2> HIDE DEF v
  <2>4. SUFFICES ASSUME ~Due(d), d \notin doubt
                 PROVE  Unhaunted(d)' /\ Fresh(d)' /\ (Working(d)' \/ Over(d)')
    BY <1>1, <2>2 DEF Current
  <2>5. Unhaunted(d) /\ Fresh(d) /\ (Working(d) \/ Over(d))
    BY <2>1, <2>4 DEF Current
  <2>6. Fresh(d)' /\ (Working(d) => Working(d)')
    BY <1>1, <2>5 DEF Fresh, Working
  <2>7. ASSUME NEW l \in 1..servers - 1, NEW i \in DOMAIN toClient'[l], Says(toClient'[l][i], d)
        PROVE  toClient'[l][i].diagnostics = v
    <3>1. PICK j \in DOMAIN toClient[l] : toClient'[l][i] = toClient[l][j]
      <4>1. CASE l = k
        BY <1>8, <2>7, <4>1
      <4>2. CASE l # k
        BY <1>5, <1>7, <2>7, <4>2
      <4>3. QED
        BY <4>1, <4>2
    <3>2. QED
      BY <2>5, <2>7, <3>1 DEF Unhaunted, v
  <2>8. Unhaunted(d)'
    BY <1>1, <2>3, <2>7 DEF Unhaunted
  <2>9. CASE Over(d)
    <3>1. /\ \A c \in compiles : c.doc # d
          /\ SaysAtLast(q, d, v)
          /\ SaysNothing(q, d) => Shows(d)
      BY <2>9 DEF Over, v
    <3>2. SaysAtLast(toClient'[servers], d, v)
      BY <1>1, <1>7, <3>1, TailSays
    <3>3. ASSUME SaysNothing(toClient'[servers], d) PROVE Shows(d)'
      <4>1. CASE Says(m, d)
        <5>1. m.diagnostics = v
          <6>1. CASE k = servers
            BY <1>1, <1>7, <3>1, <3>3, <4>1, <6>1, TailSays DEF m
          <6>2. CASE k # servers
            <7>1. k \in 1..servers - 1
              BY <1>5, <6>2
            <7>2. QED
              BY <1>8, <2>5, <4>1, <7>1 DEF Unhaunted, v
          <6>3. QED
            BY <6>1, <6>2
        <5>2. shown'[servers] = Update(shown[servers], d, m.diagnostics)
          BY <1>2, <1>6, <4>1 DEF Says
        <5>3. d \in DOMAIN shown'[servers] /\ shown'[servers][d] = m.diagnostics
          BY <5>2 DEF Update
        <5>4. QED
          BY <1>1, <2>3, <5>1, <5>3 DEF Shows
      <4>2. CASE ~Says(m, d)
        <5>1. SaysNothing(q, d)
          <6>1. CASE k = servers
            BY <1>1, <1>7, <3>3, <4>2, <6>1, TailSays DEF m
          <6>2. CASE k # servers
            BY <1>5, <1>7, <3>3, <6>2
          <6>3. QED
            BY <6>1, <6>2
        <5>2. shown'[servers] = shown[servers]
              \/ (m.doc # d /\ shown'[servers] = Update(shown[servers], m.doc, m.diagnostics))
          BY <1>2, <1>6, <4>2 DEF Says
        <5>3. d \in DOMAIN shown[servers]
              => d \in DOMAIN shown'[servers] /\ shown'[servers][d] = shown[servers][d]
          BY <5>2 DEF Update
        <5>4. QED
          BY <1>1, <2>3, <3>1, <5>1, <5>3 DEF Shows, v
      <4>3. QED
        BY <4>1, <4>2
    <3>4. QED
      <4>1. SaysAtLast(toClient[servers], d, Verdict(last[d]))'
        BY <1>1, <2>3, <3>2 DEF SaysAtLast
      <4>2. (SaysNothing(toClient[servers], d) => Shows(d))'
        BY <1>1, <2>3, <3>3 DEF SaysNothing
      <4>3. Over(d)'
        BY <1>1, <3>1, <4>1, <4>2 DEF Over
      <4>4. QED
        BY <2>6, <2>8, <4>3
  <2>10. QED
    BY <2>5, <2>6, <2>8, <2>9
<1>10. \E V : shown' \in Seq(V) /\ Len(shown') = servers
  <2> DEFINE v == Update(shown[servers], m.doc, m.diagnostics)
             V == T \cup {v}
  <2>1. shown \in Seq(V)
    BY <1>4, SeqMonotonic, T \subseteq V
  <2>2. v \in V
    OBVIOUS
  <2>3. shown' = shown \/ shown' = [shown EXCEPT ![servers] = v]
    BY <1>2
  <2> HIDE DEF V, v
  <2>4. shown' \in Seq(V) /\ Len(shown') = servers
    BY <1>5, <1>6, <2>1, <2>2, <2>3, ExceptSeq
  <2>5. QED
    BY <2>4
<1>11. AllCurrent'
  BY <1>1, <1>9 DEF AllCurrent
<1>12. Queues'
  BY <1>1, <1>5, <1>7, <1>10 DEF EditorInv, Queues
<1>13. Records'
  BY <1>1 DEF EditorInv, Records
<1>14. AllLeft'
  <2>1. \A i \in 1..servers - 1 : shown'[i] = shown[i]
    BY <1>2, <1>5, <1>6
  <2>2. ASSUME NEW d PROVE Former(d)' = Former(d)
    BY <1>1, <2>1 DEF Former
  <2>3. QED
    BY <1>1, <2>2 DEF EditorInv, AllLeft
<1>15. QED
  BY <1>11, <1>12, <1>13, <1>14 DEF EditorInv

\* A new server is told everything; what its predecessors printed may still come.
LEMMA RestartKeeps ==
    ASSUME IsFiniteSet(Documents), EditorInv, Restart
    PROVE  EditorInv'
<1>1. /\ toServer' = Greeting(SetToSeq(open)) /\ last' = [d \in open |-> text[d]]
      /\ compiles' = {} /\ servers' = servers + 1
      /\ toClient' = Append(toClient, <<>>) /\ shown' = Append(shown, <<>>)
      /\ open' = open /\ leftover' = [d \in Documents |-> Visible(d)]
  BY DEF Restart, Started
<1>2. IsFiniteSet(open)
  BY FS_Subset DEF EditorInv, Queues
<1>3. /\ \E S : toServer' \in Seq(S)
      /\ \A i \in DOMAIN toServer' : toServer'[i].method = "didOpen" => toServer'[i].text = text[toServer'[i].doc]
      /\ \A d \in open : \E i \in DOMAIN toServer' : Opens(toServer'[i], d)
  BY <1>1, <1>2, GreetingIs
<1>4. ASSUME NEW d \in DOMAIN last' PROVE Current(d)'
  <2>1. d \in open /\ last'[d] = text[d]
    BY <1>1
  <2>2. Due(d)'
    BY <1>3, <2>1 DEF Due, Opens
  <2>3. SentLast(d)'
    BY <1>3, <2>1 DEF SentLast, Opens
  <2>4. QED
    BY <2>2, <2>3 DEF Current
<1>5. Queues'
  <2>1. PICK S : toClient \in Seq(Seq(S))
    BY DEF EditorInv, Queues
  <2>2. PICK T : shown \in Seq(T)
    BY DEF EditorInv, Queues
  <2>3. servers \in Nat \ {0} /\ Len(toClient) = servers /\ Len(shown) = servers /\ open \subseteq Documents
    BY DEF EditorInv, Queues
  <2>4. toClient' \in Seq(Seq(S)) /\ Len(toClient') = servers'
    <3> DEFINE U == Seq(S)
    <3>1. toClient \in Seq(U) /\ <<>> \in U
      BY <2>1
    <3> HIDE DEF U
    <3>2. toClient' \in Seq(U) /\ Len(toClient') = Len(toClient) + 1
      BY <1>1, <3>1, AppendProperties
    <3>3. QED
      BY <1>1, <2>3, <3>2 DEF U
  <2>5. shown' \in Seq(T \cup {<<>>}) /\ Len(shown') = servers'
    <3> DEFINE U == T \cup {<<>>}
    <3>1. shown \in Seq(U) /\ <<>> \in U
      BY <2>2, SeqMonotonic, T \subseteq U
    <3> HIDE DEF U
    <3>2. shown' \in Seq(U) /\ Len(shown') = Len(shown) + 1
      BY <1>1, <3>1, AppendProperties
    <3>3. QED
      BY <1>1, <2>3, <3>2 DEF U
  <2>6. servers' \in Nat \ {0}
    BY <1>1, <2>3
  <2>7. QED
    BY <1>1, <1>3, <2>3, <2>4, <2>5, <2>6 DEF Queues
<1>6. Records'
  BY <1>1 DEF Records
<1>7. AllLeft'
  <2>1. PICK T : shown \in Seq(T)
    BY DEF EditorInv, Queues
  <2>2. servers \in Nat \ {0} /\ Len(shown) = servers
    BY DEF EditorInv, Queues
  <2>3. /\ DOMAIN shown = 1..servers
        /\ \A i \in 1..servers : shown'[i] = shown[i]
    <3> DEFINE U == T \cup {<<>>}
    <3>1. shown \in Seq(U) /\ <<>> \in U
      BY <2>1, SeqMonotonic, T \subseteq U
    <3> HIDE DEF U
    <3>2. \A i \in 1..servers : shown'[i] = shown[i]
      BY <1>1, <2>2, <3>1, AppendProperties
    <3>3. QED
      BY <2>1, <2>2, <3>2, LenProperties
  <2>4. servers' - 1 = servers
    BY <1>1, <2>2
  <2>5. ASSUME NEW d PROVE Former(d)' = Visible(d)
    BY <2>3, <2>4 DEF Former, Visible
  <2>6. QED
    BY <1>1, <2>5 DEF AllLeft
<1>8. QED
  BY <1>4, <1>5, <1>6, <1>7 DEF EditorInv, AllCurrent

LEMMA EditorInvInit ==
    ASSUME IsFiniteSet(Documents), Init
    PROVE  EditorInv
<1>1. /\ toServer = Greeting(SetToSeq(open)) /\ last = [d \in open |-> text[d]]
      /\ compiles = {} /\ servers = 1 /\ toClient = <<<<>>>> /\ shown = <<<<>>>>
      /\ open \subseteq Documents /\ leftover = [d \in Documents |-> {}]
  BY DEF Init
<1>2. IsFiniteSet(open)
  BY <1>1, FS_Subset
<1>3. /\ \E S : toServer \in Seq(S)
      /\ \A i \in DOMAIN toServer : toServer[i].method = "didOpen" => toServer[i].text = text[toServer[i].doc]
      /\ \A d \in open : \E i \in DOMAIN toServer : Opens(toServer[i], d)
  BY <1>1, <1>2, GreetingIs
<1>4. ASSUME NEW d \in DOMAIN last PROVE Current(d)
  BY <1>1, <1>3 DEF Current, Due, SentLast, Opens
<1>5. <<<<>>>> \in Seq(Seq({})) /\ <<<<>>>> \in Seq({<<>>}) /\ Len(<<<<>>>>) = 1
  OBVIOUS
<1>6. Queues
  <2>1. (\E S : toClient \in Seq(Seq(S))) /\ (\E S : shown \in Seq(S))
    BY <1>1, <1>5
  <2>2. Len(toClient) = servers /\ Len(shown) = servers /\ servers \in Nat \ {0}
    BY <1>1, <1>5
  <2>3. QED
    BY <1>1, <1>3, <2>1, <2>2 DEF Queues
<1>7. Records
  BY <1>1 DEF Records
<1>8. AllLeft
  <2>1. 1..servers - 1 = {}
    BY <1>1
  <2>2. QED
    BY <1>1, <2>1 DEF AllLeft, Former
<1>9. QED
  BY <1>4, <1>6, <1>7, <1>8 DEF EditorInv, AllCurrent

\* The server takes a message that opens nothing, perhaps with a reply.
LEMMA TakingKeeps ==
    ASSUME EditorInv, toServer # <<>>, toServer' = Tail(toServer),
           Head(toServer).method # "didOpen",
           UNCHANGED <<last, open, compiles, shown, leftover, servers, installed, doubt>>,
           UNCHANGED toClient \/ \E reply : Send([reply |-> reply])
    PROVE  EditorInv'
<1>1. PICK S : toServer \in Seq(S)
  BY DEF EditorInv, Queues
<1>2. PICK T : toClient \in Seq(Seq(T))
  BY DEF EditorInv, Queues
<1>3. servers \in 1..Len(toClient) /\ Len(toClient) = servers /\ servers \in Nat \ {0}
  BY DEF EditorInv, Queues
<1>4. toClient[servers] \in Seq(T)
  BY <1>2, <1>3, ElementOfSeq
<1>5. /\ \A k \in 1..servers - 1 : toClient'[k] = toClient[k]
      /\ \A d, v : /\ SaysAtLast(toClient[servers], d, v) => SaysAtLast(toClient'[servers], d, v)
                   /\ SaysNothing(toClient'[servers], d) => SaysNothing(toClient[servers], d)
      /\ \E U : toClient' \in Seq(Seq(U)) /\ Len(toClient') = Len(toClient)
  <2>1. CASE UNCHANGED toClient
    BY <2>1, <1>2
  <2>2. CASE \E reply : Send([reply |-> reply])
    <3>1. PICK reply : Send([reply |-> reply])
      BY <2>2
    <3> DEFINE new == [reply |-> reply]
    <3>2. \A d : ~Says(new, d)
      BY DEF Says
    <3>3. Send(new)
      BY <3>1
    <3> HIDE DEF new
    <3>4. /\ toClient'[servers] = Append(toClient[servers], new)
          /\ \A k \in 1..Len(toClient) : k # servers => toClient'[k] = toClient[k]
          /\ toClient' \in Seq(Seq(T \cup {new})) /\ Len(toClient') = Len(toClient)
      BY <1>2, <1>3, <3>3, SentIs
    <3>5. \A k \in 1..servers - 1 : toClient'[k] = toClient[k]
      BY <1>3, <3>4
    <3>6. ASSUME NEW d, NEW v
          PROVE  /\ SaysAtLast(toClient[servers], d, v) => SaysAtLast(toClient'[servers], d, v)
                 /\ SaysNothing(toClient'[servers], d) => SaysNothing(toClient[servers], d)
      <4>1. ~Says(new, d)
        BY <3>2
      <4>2. toClient'[servers] = Append(toClient[servers], new)
        BY <3>4
      <4> DEFINE q == toClient[servers]
      <4>3. q \in Seq(T)
        BY <1>4
      <4> HIDE DEF q
      <4>4. /\ SaysAtLast(q, d, v) => SaysAtLast(Append(q, new), d, v)
            /\ SaysNothing(Append(q, new), d) => SaysNothing(q, d)
        BY <4>1, <4>3, AppendSays
      <4>5. QED
        BY <4>2, <4>4 DEF q
    <3>7. QED
      BY <3>4, <3>5, <3>6
  <2>3. QED
    BY <2>1, <2>2
<1>6. ASSUME NEW d \in DOMAIN last PROVE Current(d)'
  <2>1. Current(d)
    BY DEF EditorInv, AllCurrent
  <2>2. /\ SentLast(d)' /\ (Due(d) => Due(d)')
    BY <1>1, <2>1, QueueShrinks DEF Current, Opens
  <2>3. Verdict(last[d])' = Verdict(last[d]) /\ (\A x : Says(x, d)' <=> Says(x, d))
    BY DEF Verdict, Output, Says
  <2>4. Unhaunted(d) => Unhaunted(d)'
    BY <1>5, <2>3 DEF Unhaunted
  <2>5. (Fresh(d) => Fresh(d)') /\ (Working(d) => Working(d)')
    BY DEF Fresh, Working
  <2>6. ASSUME Over(d) PROVE Over(d)'
    <3>1. SaysAtLast(toClient'[servers], d, Verdict(last[d]))
      BY <1>5, <2>6 DEF Over
    <3>2. SaysNothing(toClient'[servers], d) => Shows(d)
      BY <1>5, <2>6 DEF Over
    <3>3. SaysAtLast(toClient[servers], d, Verdict(last[d]))'
      BY <2>3, <3>1 DEF SaysAtLast
    <3>4. (SaysNothing(toClient[servers], d) => Shows(d))'
      BY <2>3, <3>2 DEF SaysNothing, Shows
    <3>5. QED
      BY <2>6, <3>3, <3>4 DEF Over
  <2>7. QED
    BY <2>1, <2>2, <2>4, <2>5, <2>6, StaysCurrent
<1>7. toServer' \in Seq(S)
  BY <1>1, HeadTailProperties
<1>8. Queues'
  BY <1>3, <1>5, <1>7 DEF EditorInv, Queues
<1>9. AllLeft'
  BY LeftStays DEF EditorInv
<1>10. QED
  BY <1>6, <1>8, <1>9 DEF EditorInv, Records, AllCurrent

\* A compile of t supersedes those of other texts of e.
LEMMA SupersededIs ==
    ASSUME Records, NEW e, NEW t
    PROVE  /\ \A v \in Superseded(e, t) : \E c \in compiles :
                  /\ v.doc = c.doc /\ v.text = c.text
                  /\ v.superseded <=> c.superseded \/ (c.doc = e /\ c.text # t)
                  /\ v.superseded \in BOOLEAN
                  /\ v = [id |-> v.id, doc |-> v.doc, text |-> v.text, file |-> v.file, read |-> v.read,
                          superseded |-> v.superseded]
           /\ \A c \in compiles : \E v \in Superseded(e, t) :
                  /\ v.doc = c.doc /\ v.text = c.text
                  /\ v.superseded <=> c.superseded \/ (c.doc = e /\ c.text # t)
<1> DEFINE after(c) == [c EXCEPT !.superseded = @ \/ (c.doc = e /\ c.text # t)]
<1>1. Superseded(e, t) = {after(c) : c \in compiles}
  BY DEF Superseded
<1>2. ASSUME NEW c \in compiles
      PROVE  /\ after(c).doc = c.doc /\ after(c).text = c.text
             /\ after(c).superseded <=> c.superseded \/ (c.doc = e /\ c.text # t)
             /\ after(c).superseded \in BOOLEAN
             /\ after(c) = [id |-> after(c).id, doc |-> after(c).doc, text |-> after(c).text,
                            file |-> after(c).file, read |-> after(c).read,
                            superseded |-> after(c).superseded]
  <2>1. /\ c = [id |-> c.id, doc |-> c.doc, text |-> c.text, file |-> c.file, read |-> c.read,
                superseded |-> c.superseded]
        /\ c.superseded \in BOOLEAN
    BY DEF Records
  <2>2. PICK b \in BOOLEAN : b = (c.superseded \/ (c.doc = e /\ c.text # t))
    BY <2>1
  <2>3. after(c) = [c EXCEPT !.superseded = b]
    BY <2>2
  <2>4. after(c) = [id |-> c.id, doc |-> c.doc, text |-> c.text, file |-> c.file, read |-> c.read,
                    superseded |-> b]
    <3> HIDE DEF after
    <3>1. QED
      BY <2>1, <2>3
  <2> HIDE DEF after
  <2>5. /\ after(c).doc = c.doc /\ after(c).text = c.text /\ after(c).superseded = b
        /\ after(c) = [id |-> after(c).id, doc |-> after(c).doc, text |-> after(c).text,
                       file |-> after(c).file, read |-> after(c).read,
                       superseded |-> after(c).superseded]
    BY <2>4
  <2>6. b <=> c.superseded \/ (c.doc = e /\ c.text # t)
    BY <2>1, <2>2
  <2>7. QED
    BY <2>2, <2>5, <2>6
<1> HIDE DEF after
<1>3. QED
  BY <1>1, <1>2

\* The server takes a didOpen and starts a compile of its text.
LEMMA OpeningKeeps ==
    ASSUME EditorInv, NEW m, toServer # <<>>, toServer' = Tail(toServer), m = Head(toServer),
           m.method = "didOpen", Compile(m),
           UNCHANGED <<last, open, toClient, shown, leftover, servers, installed>>
    PROVE  EditorInv'
<1>1. PICK S : toServer \in Seq(S)
  BY DEF EditorInv, Queues
<1> DEFINE older == Superseded(m.doc, m.text)
<1>2. PICK new : /\ compiles' = older \cup {new}
                 /\ new.doc = m.doc /\ new.text = m.text /\ new.superseded = FALSE
                 /\ new = [id |-> new.id, doc |-> new.doc, text |-> new.text, file |-> new.file,
                           read |-> new.read, superseded |-> new.superseded]
  <2>1. PICK id : compiles' = older \cup
                      {[id |-> id, doc |-> m.doc, text |-> m.text, file |-> now', read |-> "nothing",
                        superseded |-> FALSE]}
    BY DEF Compile
  <2> DEFINE v == [id |-> id, doc |-> m.doc, text |-> m.text, file |-> now', read |-> "nothing",
                   superseded |-> FALSE]
  <2> HIDE DEF older
  <2>2. /\ v.doc = m.doc /\ v.text = m.text /\ v.superseded = FALSE
        /\ v = [id |-> v.id, doc |-> v.doc, text |-> v.text, file |-> v.file, read |-> v.read,
                superseded |-> v.superseded]
    OBVIOUS
  <2>3. compiles' = older \cup {v}
    BY <2>1
  <2> HIDE DEF v
  <2>4. QED
    BY <2>2, <2>3
<1>3. doubt' = IF Haunted(m.doc, m.text) THEN doubt \cup {m.doc} ELSE doubt \ {m.doc}
  BY DEF Compile
<1>4. Records
  BY DEF EditorInv
<1>5. /\ \A v \in older : \E c \in compiles :
             /\ v.doc = c.doc /\ v.text = c.text
             /\ v.superseded <=> c.superseded \/ (c.doc = m.doc /\ c.text # m.text)
             /\ v.superseded \in BOOLEAN
             /\ v = [id |-> v.id, doc |-> v.doc, text |-> v.text, file |-> v.file, read |-> v.read,
                     superseded |-> v.superseded]
      /\ \A c \in compiles : \E v \in older :
             /\ v.doc = c.doc /\ v.text = c.text
             /\ v.superseded <=> c.superseded \/ (c.doc = m.doc /\ c.text # m.text)
  BY <1>4, SupersededIs
<1> HIDE DEF older
<1>6. ASSUME NEW d \in DOMAIN last PROVE Current(d)'
  <2>1. Current(d)
    BY DEF EditorInv, AllCurrent
  <2>2. /\ SentLast(d)'
        /\ Due(d) => Due(d)' \/ Opens(m, d)
        /\ Opens(m, d) /\ ~Due(d)' => m.text = last[d]
    BY <1>1, <2>1, QueueShrinks DEF Current
  <2>3. CASE d # m.doc
    <3>1. Due(d) => Due(d)'
      BY <2>2, <2>3 DEF Opens
    <3>2. d \in doubt => d \in doubt'
      BY <1>3, <2>3
    <3>3. \A c \in compiles' : c.doc = d => \E v \in compiles : Alike(c, v)
      BY <1>2, <1>5, <2>3 DEF Alike
    <3>4. \A v \in compiles : v.doc = d => \E c \in compiles' : Alike(c, v)
      BY <1>2, <1>5, <2>3 DEF Alike
    <3>5. QED
      BY <2>1, <2>2, <3>1, <3>2, <3>3, <3>4, CompilesAlike, StaysCurrent
  <2>4. CASE d = m.doc
    <3>1. SUFFICES ASSUME ~Due(d)', d \notin doubt'
                   PROVE  Unhaunted(d)' /\ Fresh(d)' /\ Working(d)'
      BY <2>2 DEF Current
    <3>2. m.text = last[d]
      BY <2>2, <2>4, <3>1 DEF Opens
    <3>3. ~Haunted(d, last[d])
      BY <1>3, <2>4, <3>1, <3>2
    <3>4. Fresh(d)'
      BY <1>2, <1>5, <2>4, <3>2 DEF Fresh
    <3>5. ASSUME NEW k \in 1..servers - 1, NEW i \in DOMAIN toClient[k], Says(toClient[k][i], d)
          PROVE  toClient[k][i].diagnostics = Verdict(last[d])
      <4>1. toClient[k][i] \in ToSet(toClient[k])
        BY DEF ToSet
      <4>2. QED
        BY <3>3, <3>5, <4>1 DEF Haunted, Says
    <3>6. Unhaunted(d)'
      <4>1. Verdict(last[d])' = Verdict(last[d])
        BY DEF Verdict, Output
      <4>2. QED
        BY <3>5, <4>1 DEF Unhaunted, Says
    <3>7. Working(d)'
      BY <1>2, <2>4 DEF Working
    <3>8. QED
      BY <3>4, <3>6, <3>7
  <2>5. QED
    BY <2>3, <2>4
<1>7. toServer' \in Seq(S)
  BY <1>1, HeadTailProperties
<1>8. Queues'
  BY <1>7 DEF EditorInv, Queues
<1>9. Records'
  BY <1>2, <1>5 DEF Records
<1>10. AllLeft'
  BY LeftStays DEF EditorInv
<1>11. QED
  BY <1>6, <1>8, <1>9, <1>10 DEF EditorInv, AllCurrent

LEMMA HandlingKeeps ==
    ASSUME EditorInv, handleMessage
    PROVE  EditorInv'
<1> DEFINE m == Head(toServer)
<1>1. /\ toServer # <<>> /\ toServer' = Tail(toServer)
      /\ UNCHANGED <<last, open, servers, shown, leftover, installed>>
      /\ Synchronize(m) \/ Answer(m)
  BY DEF handleMessage
<1> HIDE DEF m
<1>2. CASE Synchronize(m)
  <2>1. \/ m.method = "didOpen" /\ Compile(m)
        \/ m.method # "didOpen" /\ UNCHANGED <<compiles, doubt>>
    BY <1>2 DEF Synchronize
  <2>2. UNCHANGED toClient
    BY <1>2 DEF Synchronize
  <2>3. QED
    BY <1>1, <2>1, <2>2, OpeningKeeps, TakingKeeps DEF m
<1>3. CASE Answer(m)
  <2>1. m.method # "didOpen" /\ UNCHANGED <<compiles, doubt>>
    BY <1>3 DEF Answer
  <2>2. \E reply : Send([reply |-> reply])
    BY <1>3 DEF Answer
  <2>3. QED
    BY <1>1, <2>1, <2>2, TakingKeeps DEF m
<1>4. QED
  BY <1>1, <1>2, <1>3

\* engc reads its source.
LEMMA ReadingKeeps ==
    ASSUME EditorInv, NEW c \in compiles, ReadSource(c)
    PROVE  EditorInv'
<1>1. UNCHANGED <<last, open, toServer, toClient, shown, leftover, servers, installed, doubt>>
  BY DEF ReadSource
<1>2. PICK read : compiles' = (compiles \ {c}) \cup {[c EXCEPT !.read = read]}
  BY DEF ReadSource
<1> DEFINE new == [c EXCEPT !.read = read]
<1>3. /\ new.doc = c.doc /\ new.text = c.text /\ new.superseded = c.superseded
      /\ new = [id |-> new.id, doc |-> new.doc, text |-> new.text, file |-> new.file, read |-> new.read,
                superseded |-> new.superseded]
      /\ c.superseded \in BOOLEAN
  BY DEF EditorInv, Records
<1>4. compiles' = (compiles \ {c}) \cup {new}
  BY <1>2
<1> HIDE DEF new
<1>5. ASSUME NEW d \in DOMAIN last PROVE Current(d)'
  <2>1. Current(d)
    BY DEF EditorInv, AllCurrent
  <2>2. SentLast(d)' /\ (Due(d) => Due(d)')
    BY <1>1, <2>1 DEF Current, SentLast, Due, Opens
  <2>3. \A v \in compiles' : v.doc = d => \E old \in compiles : Alike(v, old)
    BY <1>3, <1>4 DEF Alike
  <2>4. \A old \in compiles : old.doc = d => \E v \in compiles' : Alike(v, old)
    BY <1>3, <1>4 DEF Alike
  <2>5. QED
    BY <1>1, <2>1, <2>2, <2>3, <2>4, CompilesAlike, StaysCurrent
<1>6. Queues'
  BY <1>1 DEF EditorInv, Queues
<1>7. Records'
  BY <1>3, <1>4 DEF EditorInv, Records
<1>8. AllLeft'
  BY <1>1, LeftStays DEF EditorInv
<1>9. QED
  BY <1>1, <1>5, <1>6, <1>7, <1>8 DEF EditorInv, AllCurrent

\* An engc ends, or is stopped: its document is in doubt, or a later compile of it is still
\* to end, or this was the last one and says what is to be said of the text sent last.
LEMMA PublishKeeps ==
    ASSUME EditorInv, NEW c \in compiles, NEW said, Publish(c, said)
    PROVE  EditorInv'
<1> DEFINE diagnostics == Diagnostics(said, c.text)
           new == [doc |-> c.doc, diagnostics |-> diagnostics]
           q == toClient[servers]
<1>1. /\ UNCHANGED <<last, open, toServer, shown, leftover, servers, installed>>
      /\ compiles' = compiles \ {c}
      /\ Send(new)
      /\ doubt' = IF diagnostics = Verdict(c.text) /\ ~Overtakes(c) THEN doubt
                  ELSE doubt \cup {c.doc}
  BY DEF Publish
<1>2. /\ \A d : Says(new, d) <=> c.doc = d
      /\ new.diagnostics = diagnostics
  BY DEF Says
<1> HIDE DEF new, diagnostics
<1>3. PICK T : toClient \in Seq(Seq(T))
  BY DEF EditorInv, Queues
<1>4. servers \in 1..Len(toClient) /\ Len(toClient) = servers /\ servers \in Nat \ {0}
  BY DEF EditorInv, Queues
<1>5. q \in Seq(T)
  BY <1>3, <1>4, ElementOfSeq
<1>6. /\ toClient'[servers] = Append(q, new)
      /\ \A k \in 1..Len(toClient) : k # servers => toClient'[k] = toClient[k]
      /\ toClient' \in Seq(Seq(T \cup {new})) /\ Len(toClient') = Len(toClient)
  BY <1>1, <1>3, <1>4, SentIs
<1>7. \A k \in 1..servers - 1 : toClient'[k] = toClient[k]
  BY <1>4, <1>6
<1>8. ASSUME NEW d \in DOMAIN last PROVE Current(d)'
  <2> DEFINE v == Verdict(last[d])
  <2>1. Current(d)
    BY DEF EditorInv, AllCurrent
  <2>2. SentLast(d)' /\ (Due(d)' <=> Due(d)) /\ (d \in doubt => d \in doubt')
    BY <1>1, <2>1 DEF Current, SentLast, Due, Opens
  <2>3. Verdict(last[d])' = v /\ (\A x : Says(x, d)' <=> Says(x, d))
    BY <1>1 DEF Verdict, Output, Says
  <2> HIDE DEF v
  <2>4. SUFFICES ASSUME ~Due(d), d \notin doubt'
                 PROVE  Unhaunted(d)' /\ Fresh(d)' /\ (Working(d)' \/ Over(d)')
    BY <1>1, <2>2 DEF Current
  <2>5. Unhaunted(d) /\ Fresh(d) /\ (Working(d) \/ Over(d))
    BY <2>1, <2>2, <2>4 DEF Current
  <2>6. Fresh(d)'
    BY <1>1, <2>5 DEF Fresh
  <2>7. Unhaunted(d)'
    BY <1>1, <1>7, <2>3, <2>5 DEF Unhaunted, v
  <2>8. CASE d # c.doc
    <3>1. Working(d) => Working(d)'
      BY <1>1, <2>8 DEF Working
    <3>2. ASSUME Over(d) PROVE Over(d)'
      <4>1. ~Says(new, d) /\ SaysAtLast(q, d, v) /\ (SaysNothing(q, d) => Shows(d))
        BY <1>2, <2>8, <3>2 DEF Over, v
      <4>2. /\ SaysAtLast(toClient'[servers], d, v)
            /\ SaysNothing(toClient'[servers], d) => SaysNothing(q, d)
        <5> HIDE DEF q
        <5>1. /\ SaysAtLast(Append(q, new), d, v)
              /\ SaysNothing(Append(q, new), d) => SaysNothing(q, d)
          BY <1>5, <4>1, AppendSays
        <5>2. QED
          BY <1>6, <5>1
      <4>3. SaysAtLast(toClient[servers], d, Verdict(last[d]))'
        BY <1>1, <2>3, <4>2 DEF SaysAtLast
      <4>4. (SaysNothing(toClient[servers], d) => Shows(d))'
        BY <1>1, <2>3, <4>1, <4>2 DEF SaysNothing, Shows, v
      <4>5. QED
        BY <1>1, <3>2, <4>3, <4>4 DEF Over
    <3>3. QED
      BY <2>5, <2>6, <2>7, <3>1, <3>2
  <2>9. CASE d = c.doc
    <3>1. diagnostics = Verdict(c.text) /\ ~Overtakes(c)
      BY <1>1, <2>4, <2>9
    <3>2. CASE Working(d)'
      BY <2>6, <2>7, <3>2
    <3>3. CASE ~Working(d)'
      <4>1. PICK w \in compiles : w.doc = d /\ ~w.superseded
        BY <2>5, <2>9 DEF Over, Working
      <4>2. w = c /\ ~c.superseded
        BY <1>1, <3>3, <4>1 DEF Working
      <4>3. ASSUME NEW old \in compiles', old.doc = d PROVE FALSE
        <5>1. old.superseded
          BY <3>3, <4>3 DEF Working
        <5>2. QED
          BY <1>1, <2>9, <3>1, <4>2, <4>3, <5>1 DEF Overtakes
      <4>4. Says(new, d) /\ new.diagnostics = v
        BY <1>2, <2>5, <2>9, <3>1, <4>2 DEF Fresh, v
      <4>5. SaysAtLast(toClient'[servers], d, v) /\ ~SaysNothing(toClient'[servers], d)
        BY <1>5, <1>6, <4>4, AppendSays
      <4>6. SaysAtLast(toClient[servers], d, Verdict(last[d]))'
        BY <1>1, <2>3, <4>5 DEF SaysAtLast
      <4>7. (SaysNothing(toClient[servers], d) => Shows(d))'
        BY <1>1, <2>3, <4>5 DEF SaysNothing
      <4>8. Over(d)'
        BY <4>3, <4>6, <4>7 DEF Over
      <4>9. QED
        BY <2>6, <2>7, <4>8
    <3>4. QED
      BY <3>2, <3>3
  <2>10. QED
    BY <2>8, <2>9
<1>9. Queues'
  BY <1>1, <1>4, <1>6 DEF EditorInv, Queues
<1>10. Records'
  BY <1>1 DEF EditorInv, Records
<1>11. AllLeft'
  BY <1>1, LeftStays DEF EditorInv
<1>12. QED
  BY <1>1, <1>8, <1>9, <1>10, <1>11 DEF EditorInv, AllCurrent

-----------------------------------------------------------------------------

LEMMA EditorInvStep ==
    ASSUME IsFiniteSet(Documents), EditorInv, [Next]_editorVars
    PROVE  EditorInv'
<1>1. CASE UNCHANGED editorVars
  <2>1. UNCHANGED <<open, last, servers, toServer, compiles, toClient, shown, leftover, installed, doubt>>
    BY <1>1 DEF editorVars
  <2>2. ASSUME NEW d \in DOMAIN last PROVE Current(d)'
    <3>1. Current(d)
      BY DEF EditorInv, AllCurrent
    <3>2. SentLast(d)' /\ (Due(d) => Due(d)')
      BY <2>1, <3>1 DEF Current, SentLast, Due, Opens
    <3>3. QED
      BY <2>1, <3>1, <3>2, CompilesAlike, StaysCurrent DEF Alike
  <2>3. AllLeft'
    BY <2>1, LeftStays DEF EditorInv
  <2>4. QED
    BY <2>1, <2>2, <2>3 DEF EditorInv, Queues, Records, AllCurrent
<1>2. CASE \E d \in Documents : Edit(d) \/ Save(d) \/ Toggle(d) \/ Request(d)
  BY <1>2, EditKeeps, SaveKeeps, ToggleKeeps, RequestKeeps
<1>3. CASE Restart
  BY <1>3, RestartKeeps
<1>4. CASE \E k \in 1..servers : Deliver(k)
  BY <1>4, DeliverKeeps
<1>5. CASE handleMessage
  BY <1>5, HandlingKeeps
<1>6. CASE \E c \in compiles : ReadSource(c) \/ Ended(c) \/ Timeout(c)
  <2>1. PICK c \in compiles : ReadSource(c) \/ Ended(c) \/ Timeout(c)
    BY <1>6
  <2>2. ReadSource(c) \/ \E said : Publish(c, said)
    BY <2>1 DEF Ended, Timeout
  <2>3. QED
    BY <2>2, ReadingKeeps, PublishKeeps
<1>7. QED
  BY <1>1, <1>2, <1>3, <1>4, <1>5, <1>6 DEF Next

\* Nothing under way, nothing in doubt: what is shown is what is to be said, and what
\* was left.
LEMMA InvShowsCurrent == EditorInv => ShownIsCurrent
<1>1. SUFFICES ASSUME EditorInv, NEW d \in (open \cap DOMAIN last) \ doubt, Settled(d)
               PROVE  Visible(d) = ToSet(Verdict(last[d])) \cup leftover[d]
  BY DEF ShownIsCurrent
<1>2. Current(d)
  BY <1>1 DEF EditorInv, AllCurrent
<1>3. servers \in Nat \ {0} /\ d \in Documents
  BY <1>1 DEF EditorInv, Queues
<1>4. SaysNothing(toClient[servers], d)
  BY <1>1, <1>3 DEF Settled, SaysNothing
<1>5. ~Due(d) /\ ~Working(d)
  BY <1>1 DEF Settled, Due, Working
<1>6. Shows(d)
  BY <1>1, <1>2, <1>4, <1>5 DEF Current, Over
<1>7. PICK T : shown \in Seq(T)
  BY <1>1 DEF EditorInv, Queues
<1>8. DOMAIN shown = 1..servers
  BY <1>1, <1>7, LenProperties DEF EditorInv, Queues
<1>9. leftover[d] = Former(d)
  BY <1>1, <1>3 DEF EditorInv, AllLeft
<1>10. \A k : k \in 1..servers <=> k \in 1..servers - 1 \/ k = servers
  BY <1>3
<1>11. Visible(d) = ToSet(shown[servers][d]) \cup Former(d)
  BY <1>6, <1>8, <1>10 DEF Visible, Former, Shows
<1>12. QED
  BY <1>6, <1>9, <1>11 DEF Shows

\* However saves, restarts, compiles and messages interleave, once nothing of an open
\* document is under way the editor shows what is to be said of the text it sent last, and
\* besides it just what it showed when its server was started, unless a compile of it was
\* disturbed or overtaken (ec-lsp.js: publishDiagnostics, client.js: handle, startServer).
THEOREM ShownStaysCurrent ==
    ASSUME IsFiniteSet(Documents)
    PROVE  Spec => []ShownIsCurrent
<1>1. Init => EditorInv
  BY EditorInvInit
<1>2. EditorInv /\ [Next]_editorVars => EditorInv'
  BY EditorInvStep
<1>3. QED
  BY <1>1, <1>2, InvShowsCurrent, PTL DEF Spec
=============================================================================
