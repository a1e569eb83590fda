------------------------ MODULE FunctionEmitterProofs ------------------------
(***************************************************************************)
(* Proofs about FunctionEmitter, for functions of any length and nesting,  *)
(* and about ModuleAssembly, for programs of any items.                    *)
(***************************************************************************)
EXTENDS FunctionEmitter, ModuleAssembly, SharedLemmas, FiniteSetTheorems, TLAPS

-----------------------------------------------------------------------------
(* FunctionEmitter.                                                        *)

LEMMA MoreNames ==
    ASSUME NEW c \in Nat, NEW d \in Nat
    PROVE  /\ Names(c) \subseteq Names(c + d)
           /\ LineType(c) \subseteq LineType(c + d)
           /\ FrameType(c) \subseteq FrameType(c + d)
           /\ LoopType(c) \subseteq LoopType(c + d)
<1>1. Names(c) \subseteq Names(c + d)
  BY DEF Names
<1>2. LineType(c) \subseteq LineType(c + d)
  BY <1>1 DEF LineType
<1>3. FrameType(c) \subseteq FrameType(c + d)
  BY <1>1 DEF FrameType
<1>4. LoopType(c) \subseteq LoopType(c + d)
  BY <1>1 DEF LoopType
<1>5. QED
  BY <1>1, <1>2, <1>3, <1>4

LEMMA SeqGrows ==
    ASSUME NEW S, NEW T, S \subseteq T
    PROVE  Seq(S) \subseteq Seq(T)
<1> SUFFICES ASSUME NEW s \in Seq(S) PROVE s \in Seq(T)
  OBVIOUS
<1>1. /\ Len(s) \in Nat /\ DOMAIN s = 1 .. Len(s)
      /\ s \in [1 .. Len(s) -> S]
  BY LenProperties
<1>2. s \in [1 .. Len(s) -> T]
  BY <1>1
<1>3. QED
  BY <1>1, <1>2, SeqDef

LEMMA MoreSeqs ==
    ASSUME NEW c \in Nat, NEW d \in Nat
    PROVE  /\ Seq(LineType(c)) \subseteq Seq(LineType(c + d))
           /\ Seq(FrameType(c)) \subseteq Seq(FrameType(c + d))
           /\ Seq(LoopType(c)) \subseteq Seq(LoopType(c + d))
  BY MoreNames, SeqGrows

LEMMA LinesTyped ==
    ASSUME NEW c \in Nat
    PROVE  /\ \A n \in Names(c) : Label(n) \in LineType(c) /\ Br(n) \in LineType(c)
           /\ \A n, m \in Names(c), i \in Nat : CondBr(n, m, <<i, "test">>) \in LineType(c)
           /\ \A r \in ReturnTypes \cup {"void", "malformed", "i32"}, i \in Nat :
                 Ret(r, <<i, "ret">>) \in LineType(c)
           /\ \A i \in Nat, w \in {"do", "enter", "step"} : Code(<<i, w>>) \in LineType(c)
<1>1. ASSUME NEW n \in Names(c) PROVE Label(n) \in LineType(c) /\ Br(n) \in LineType(c)
  BY DEF Label, Br, LineType
<1>2. ASSUME NEW n \in Names(c), NEW m \in Names(c), NEW i \in Nat
      PROVE  CondBr(n, m, <<i, "test">>) \in LineType(c)
  BY DEF CondBr, LineType
<1>3. ASSUME NEW r \in ReturnTypes \cup {"void", "malformed", "i32"}, NEW i \in Nat
      PROVE  Ret(r, <<i, "ret">>) \in LineType(c)
  BY DEF Ret, LineType
<1>4. ASSUME NEW i \in Nat, NEW w \in {"do", "enter", "step"}
      PROVE  Code(<<i, w>>) \in LineType(c)
  BY DEF Code, LineType
<1>5. QED
  BY <1>1, <1>2, <1>3, <1>4

\* Appending lines, as every step does, appends to the type.
LEMMA EmitType ==
    ASSUME TypeOK, NEW c \in Nat, out \in Seq(LineType(c)),
           NEW t \in Seq(LineType(c)), Emit(t)
    PROVE  out' \in Seq(LineType(c)) /\ Len(out') > 0
<1>1. out \o t \in Seq(LineType(c)) /\ Len(out \o t) = Len(out) + Len(t)
  BY ConcatProperties
<1>2. Len(t) \in Nat /\ Len(out) \in Nat /\ Len(out) > 0
  BY LenProperties DEF TypeOK
<1>3. QED
  BY <1>1, <1>2 DEF Emit

LEMMA JumpTyped ==
    ASSUME NEW c \in Nat, NEW n \in Names(c), NEW t \in Seq(LineType(c))
    PROVE  JumpTo(n) \in Seq(LineType(c)) /\ JumpTo(n) \o t \in Seq(LineType(c))
<1>1. Br(n) \in LineType(c)
  BY DEF Br, LineType
<1>2. <<>> \in Seq(LineType(c)) /\ <<Br(n)>> \in Seq(LineType(c))
  BY <1>1
<1>3. JumpTo(n) \in Seq(LineType(c))
  BY <1>2 DEF JumpTo
<1>4. QED
  BY <1>3, ConcatProperties

\* The innermost statement, and the stack with it taken off or changed.
LEMMA TopType ==
    ASSUME TypeOK, open # <<>>
    PROVE  /\ Top \in FrameType(counter)
           /\ Below \in Seq(FrameType(counter))
           /\ Len(open) \in Nat \ {0}
           /\ DOMAIN open = 1 .. Len(open)
           /\ Len(Below) = Len(open) - 1
           /\ DOMAIN Below = 1 .. Len(open) - 1
           /\ \A i \in 1 .. Len(open) - 1 : Below[i] = open[i]
<1>1. open \in Seq(FrameType(counter)) /\ Len(open) \in Nat \ {0}
  BY EmptySeq DEF TypeOK
<1>2. Top \in FrameType(counter)
  BY <1>1, ElementOfSeq DEF Top
<1> DEFINE n == Len(open) - 1
<1>a. \A i \in 1 .. n : open[i] \in FrameType(counter)
  BY <1>1, ElementOfSeq
<1>n. n \in Nat
  BY <1>1
<1>b. /\ 1 \in Int /\ n \in Int /\ n - 1 + 1 = n /\ (~ 1 <= n => n = 0)
      /\ \A i \in 1 .. n : 1 + i - 1 = i
  <2> HIDE DEF n
  <2> QED
    BY <1>n
<1>3. /\ Below \in Seq(FrameType(counter))
      /\ Len(Below) = n
      /\ \A i \in 1 .. n : Below[i] = open[i]
  BY <1>a, <1>b, SubSeqProperties DEF Below
<1>4. QED
  BY <1>1, <1>2, <1>3, LenProperties

LEMMA MeetType ==
    ASSUME TypeOK, NEW token \in AllKinds \cup {"else", "end"}, Meet(token)
    PROVE  /\ source' \in Seq(AllKinds \cup {"else", "end"})
           /\ retType' \in ReturnTypes /\ begun' \in Nat
           /\ phase' \in {"emit", "done"}
           /\ phase = "emit" /\ phase' = "emit" /\ retType' = retType
           /\ Len(source) + 1 \in Nat
  BY AppendProperties, LenProperties DEF TypeOK, Meet

\* What a step leaves to show of the type invariant when it meets a token,
\* hands out d labels, writes t and sets the stacks.
LEMMA StepType ==
    ASSUME TypeOK,
           NEW token \in AllKinds \cup {"else", "end"}, Meet(token),
           NEW d \in Nat, counter' = counter + d,
           NEW t \in Seq(LineType(counter + d)), Emit(t),
           open' \in Seq(FrameType(counter + d)),
           loopStack' \in Seq(LoopType(counter + d)),
           hasReturn' \in BOOLEAN, hasError' \in BOOLEAN
    PROVE  TypeOK'
<1>1. counter + d \in Nat \ {0} /\ counter \in Nat
  BY DEF TypeOK
<1>2. out \in Seq(LineType(counter + d))
  BY <1>1, MoreSeqs DEF TypeOK
<1>3. out' \in Seq(LineType(counter + d)) /\ Len(out') > 0
  BY <1>1, <1>2, EmitType
<1>4. QED
  BY <1>1, <1>3, MeetType DEF TypeOK

\* A step that keeps both stacks and the flags that are not errors.
LEMMA QuietStepType ==
    ASSUME TypeOK,
           NEW token \in AllKinds \cup {"else", "end"}, Meet(token),
           NEW d \in Nat, counter' = counter + d,
           NEW t \in Seq(LineType(counter + d)), Emit(t),
           UNCHANGED <<open, loopStack>>,
           hasReturn' \in BOOLEAN, hasError' \in BOOLEAN
    PROVE  TypeOK'
<1>1. counter \in Nat /\ open \in Seq(FrameType(counter)) /\ loopStack \in Seq(LoopType(counter))
  BY DEF TypeOK
<1>2. open' \in Seq(FrameType(counter + d)) /\ loopStack' \in Seq(LoopType(counter + d))
  BY <1>1, MoreSeqs
<1>3. QED
  BY <1>2, StepType

\* Lines of known labels and events make up a type-correct text.
LEMMA SimpleType == ASSUME TypeOK, Simple PROVE TypeOK'
<1>1. "do" \in AllKinds /\ Meet("do")
  BY DEF Simple, MeetStatement, AllKinds
<1>2. counter \in Nat /\ counter + 0 = counter /\ Len(source) + 1 \in Nat
  BY <1>1, MeetType DEF TypeOK
<1>a. Code(Here("do")) \in LineType(counter + 0)
  BY <1>2, LinesTyped DEF Here
<1>3. <<Code(Here("do"))>> \in Seq(LineType(counter + 0))
  BY <1>a
<1>4. QED
  BY <1>1, <1>2, <1>3, QuietStepType DEF Simple, TypeOK

LEMMA ReturnType == ASSUME TypeOK, Return \/ ReturnBare PROVE TypeOK'
<1>1. PICK token \in {"return", "bare"} : Meet(token)
  BY DEF Return, ReturnBare, MeetStatement
<1>2. counter \in Nat /\ counter + 0 = counter /\ Len(source) + 1 \in Nat
  BY <1>1, MeetType DEF TypeOK, AllKinds
<1>3. PICK type \in ReturnTypes \cup {"void", "malformed", "i32"} :
         Emit(<<Ret(type, Here("ret"))>>)
  BY DEF Return, ReturnBare, TypeOK
<1>a. Ret(type, Here("ret")) \in LineType(counter + 0)
  BY <1>2, LinesTyped DEF Here
<1>4. <<Ret(type, Here("ret"))>> \in Seq(LineType(counter + 0))
  BY <1>a
<1>5. token \in AllKinds
  BY DEF AllKinds
<1>6. counter' = counter + 0 /\ UNCHANGED <<open, loopStack>> /\ hasReturn' = TRUE /\ hasError' = hasError
  BY <1>2 DEF Return, ReturnBare
<1>7. QED
  BY <1>1, <1>2, <1>3, <1>4, <1>5, <1>6, QuietStepType DEF TypeOK

\* Break and continue take the last entry of a loop stack that is not empty.
LEMMA LoopTopType ==
    ASSUME TypeOK, loopStack # <<>>
    PROVE  loopStack[Len(loopStack)] \in LoopType(counter) /\ Len(loopStack) \in DOMAIN loopStack
<1>1. loopStack \in Seq(LoopType(counter)) /\ Len(loopStack) \in Nat \ {0}
  BY EmptySeq DEF TypeOK
<1>2. QED
  BY <1>1, ElementOfSeq, LenProperties

LEMMA JumpOutType == ASSUME TypeOK, Break \/ Continue PROVE TypeOK'
<1>1. PICK token \in {"break", "continue"} : Meet(token)
  BY DEF Break, Continue, MeetStatement
<1>2. counter \in Nat /\ counter + 0 = counter /\ token \in AllKinds
  BY DEF TypeOK, AllKinds
<1>3. CASE loopStack = <<>>
  <2>1. hasError' = TRUE /\ out' = out /\ counter' = counter + 0
        /\ UNCHANGED <<open, loopStack, hasReturn>>
    BY <1>2, <1>3 DEF Break, Continue
  <2>2. QED
    BY <1>1, <1>2, <2>1, MeetType DEF TypeOK
<1>4. CASE loopStack # <<>>
  <2>1. PICK n \in Names(counter) : Emit(<<Br(n)>>)
    <3>1. loopStack[Len(loopStack)] \in LoopType(counter)
      BY <1>4, LoopTopType
    <3>2. QED
      BY <1>4, <3>1 DEF Break, Continue, LoopType
  <2>2. <<Br(n)>> \in Seq(LineType(counter + 0))
    BY <1>2 DEF Br, LineType
  <2>3. counter' = counter + 0 /\ UNCHANGED <<open, loopStack, hasReturn, hasError>>
    BY <1>2, <1>4 DEF Break, Continue
  <2>4. QED
    BY <1>1, <1>2, <2>1, <2>2, <2>3, QuietStepType DEF TypeOK
<1>5. QED
  BY <1>3, <1>4

LEMMA BadForType == ASSUME TypeOK, BadFor PROVE TypeOK'
<1>1. Meet("bad") /\ "bad" \in AllKinds
  BY DEF BadFor, MeetStatement, AllKinds
<1>2. QED
  BY <1>1, MeetType DEF TypeOK, BadFor

LEMMA EmptyMatchType == ASSUME TypeOK, EmptyMatch PROVE TypeOK'
<1>1. "empty" \in AllKinds /\ Meet("empty")
  BY DEF EmptyMatch, MeetStatement, AllKinds
<1>2. counter \in Nat /\ counter + 1 \in Nat /\ counter \in Names(counter + 1) /\ Len(source) + 1 \in Nat
  BY <1>1, MeetType DEF TypeOK, Names
<1>3. /\ Code(Here("do")) \in LineType(counter + 1)
      /\ Br(counter) \in LineType(counter + 1)
      /\ Label(counter) \in LineType(counter + 1)
  BY <1>2, LinesTyped DEF Here
<1>4. <<Code(Here("do")), Br(counter), Label(counter)>> \in Seq(LineType(counter + 1))
  BY <1>3
<1>5. QED
  BY <1>1, <1>2, <1>4, QuietStepType DEF EmptyMatch, Fresh, TypeOK

\* Statements with a body: the new frame and the new loop have fresh labels.
LEMMA PushType ==
    ASSUME TypeOK, NEW d \in Nat, NEW kind \in AllKinds,
           NEW next \in Names(counter + d), NEW end \in Names(counter + d),
           NEW back \in Names(counter + d),
           Push(kind, next, end, back)
    PROVE  open' \in Seq(FrameType(counter + d))
<1>1. open \in Seq(FrameType(counter + d))
  BY MoreSeqs DEF TypeOK
<1>2. Len(source) + 1 \in Nat
  BY LenProperties DEF TypeOK
<1>3. [kind |-> kind, next |-> next, end |-> end, back |-> back, at |-> Len(source) + 1]
        \in FrameType(counter + d)
  BY <1>2 DEF FrameType
<1>4. QED
  BY <1>1, <1>3, AppendProperties DEF Push

LEMMA PushLoopType ==
    ASSUME TypeOK, NEW d \in Nat,
           NEW brk \in Names(counter + d), NEW cont \in Names(counter + d),
           PushLoop(brk, cont)
    PROVE  loopStack' \in Seq(LoopType(counter + d))
<1>1. loopStack \in Seq(LoopType(counter + d))
  BY MoreSeqs DEF TypeOK
<1>2. [brk |-> brk, cont |-> cont] \in LoopType(counter + d)
  BY DEF LoopType
<1>3. QED
  BY <1>1, <1>2, AppendProperties DEF PushLoop

LEMMA IfType == ASSUME TypeOK, If PROVE TypeOK'
<1>1. PICK kind \in {"if", "ifelse"} : BeginIf(kind)
  BY DEF If
<1> DEFINE d == IF kind = "ifelse" THEN 3 ELSE 2
           else == IF kind = "ifelse" THEN counter + 2 ELSE counter + 1
<1>2. kind \in AllKinds /\ Meet(kind)
  BY <1>1 DEF BeginIf, MeetStatement, AllKinds
<1>3. counter \in Nat /\ d \in Nat /\ counter + d \in Nat /\ Len(source) + 1 \in Nat
  BY <1>2, MeetType DEF TypeOK
<1>4. /\ counter \in Names(counter + d)
      /\ counter + 1 \in Names(counter + d)
      /\ else \in Names(counter + d)
  BY <1>3 DEF Names
<1>5. /\ Emit(<<CondBr(counter, else, Here("test")), Label(counter)>>)
      /\ Push(kind, else, counter + 1, counter + 1)
      /\ counter' = counter + d
      /\ UNCHANGED <<loopStack, hasReturn, hasError>>
  BY <1>1 DEF BeginIf, Fresh
<1> HIDE DEF d, else
<1>6. /\ CondBr(counter, else, Here("test")) \in LineType(counter + d)
      /\ Label(counter) \in LineType(counter + d)
  BY <1>3, <1>4, LinesTyped DEF Here
<1>7. <<CondBr(counter, else, Here("test")), Label(counter)>> \in Seq(LineType(counter + d))
  BY <1>6
<1>8. open' \in Seq(FrameType(counter + d)) /\ loopStack' \in Seq(LoopType(counter + d))
  BY <1>2, <1>3, <1>4, <1>5, PushType, MoreSeqs DEF TypeOK
<1>9. QED
  BY <1>2, <1>3, <1>5, <1>7, <1>8, StepType DEF TypeOK

LEMMA BeginWhileType == ASSUME TypeOK, BeginWhile PROVE TypeOK'
<1>1. "while" \in AllKinds /\ Meet("while")
  BY DEF BeginWhile, MeetStatement, AllKinds
<1>2. counter \in Nat /\ counter + 3 \in Nat /\ Len(source) + 1 \in Nat
  BY <1>1, MeetType DEF TypeOK
<1>3. {counter, counter + 1, counter + 2} \subseteq Names(counter + 3)
  BY <1>2 DEF Names
<1> DEFINE t == <<Br(counter), Label(counter),
                  CondBr(counter + 1, counter + 2, Here("test")), Label(counter + 1)>>
<1>4. /\ Br(counter) \in LineType(counter + 3)
      /\ Label(counter) \in LineType(counter + 3)
      /\ CondBr(counter + 1, counter + 2, Here("test")) \in LineType(counter + 3)
      /\ Label(counter + 1) \in LineType(counter + 3)
  BY <1>2, <1>3, LinesTyped DEF Here
<1>5. t \in Seq(LineType(counter + 3))
  BY <1>4
<1>6. open' \in Seq(FrameType(counter + 3))
  BY <1>1, <1>3, PushType DEF BeginWhile
<1>7. loopStack' \in Seq(LoopType(counter + 3))
  BY <1>3, PushLoopType DEF BeginWhile
<1>8. Emit(t) /\ counter' = counter + 3 /\ UNCHANGED <<hasReturn, hasError>>
  BY DEF BeginWhile, Fresh
<1> HIDE DEF t
<1>9. QED
  BY <1>1, <1>5, <1>6, <1>7, <1>8, StepType DEF TypeOK

LEMMA BeginForType == ASSUME TypeOK, BeginFor PROVE TypeOK'
<1>1. "for" \in AllKinds /\ Meet("for")
  BY DEF BeginFor, MeetStatement, AllKinds
<1>2. counter \in Nat /\ counter + 4 \in Nat /\ Len(source) + 1 \in Nat
  BY <1>1, MeetType DEF TypeOK
<1>3. {counter, counter + 1, counter + 2, counter + 3} \subseteq Names(counter + 4)
  BY <1>2 DEF Names
<1> DEFINE t == <<Code(Here("enter")), Br(counter), Label(counter),
                  CondBr(counter + 1, counter + 3, Here("test")), Label(counter + 1)>>
<1>4. /\ Code(Here("enter")) \in LineType(counter + 4)
      /\ Br(counter) \in LineType(counter + 4)
      /\ Label(counter) \in LineType(counter + 4)
      /\ CondBr(counter + 1, counter + 3, Here("test")) \in LineType(counter + 4)
      /\ Label(counter + 1) \in LineType(counter + 4)
  BY <1>2, <1>3, LinesTyped DEF Here
<1>5. t \in Seq(LineType(counter + 4))
  BY <1>4
<1>6. open' \in Seq(FrameType(counter + 4))
  BY <1>1, <1>3, PushType DEF BeginFor
<1>7. loopStack' \in Seq(LoopType(counter + 4))
  BY <1>3, PushLoopType DEF BeginFor
<1>8. Emit(t) /\ counter' = counter + 4 /\ UNCHANGED <<hasReturn, hasError>>
  BY DEF BeginFor, Fresh
<1> HIDE DEF t
<1>9. QED
  BY <1>1, <1>5, <1>6, <1>7, <1>8, StepType DEF TypeOK

LEMMA BeginMatchType == ASSUME TypeOK, BeginMatch PROVE TypeOK'
<1>1. "match" \in AllKinds /\ Meet("match")
  BY DEF BeginMatch, MeetStatement, AllKinds
<1>2. counter \in Nat /\ counter + 2 \in Nat /\ Len(source) + 1 \in Nat
  BY <1>1, MeetType DEF TypeOK
<1>3. {counter, counter + 1} \subseteq Names(counter + 2)
  BY <1>2 DEF Names
<1>4. /\ Code(Here("enter")) \in LineType(counter + 2)
      /\ Br(counter + 1) \in LineType(counter + 2)
  BY <1>2, <1>3, LinesTyped DEF Here
<1>5. <<Code(Here("enter")), Br(counter + 1)>> \in Seq(LineType(counter + 2))
  BY <1>4
<1>6. open' \in Seq(FrameType(counter + 2))
  BY <1>1, <1>3, PushType DEF BeginMatch
<1>7. loopStack' \in Seq(LoopType(counter + 2))
  BY MoreSeqs DEF BeginMatch, TypeOK
<1>8. /\ Emit(<<Code(Here("enter")), Br(counter + 1)>>)
      /\ counter' = counter + 2 /\ UNCHANGED <<hasReturn, hasError>>
  BY DEF BeginMatch, Fresh
<1>9. QED
  BY <1>1, <1>5, <1>6, <1>7, <1>8, StepType DEF TypeOK

\* Steps that end or turn a statement: no labels are handed out, and the labels
\* they write are those of the innermost frame.
LEMMA TopLabels ==
    ASSUME TypeOK, open # <<>>
    PROVE  /\ counter \in Nat /\ counter + 0 = counter
           /\ Top.next \in Names(counter) /\ Top.end \in Names(counter)
           /\ Top.back \in Names(counter) /\ Top.at \in Nat
           /\ Label(Top.next) \in LineType(counter) /\ Label(Top.end) \in LineType(counter)
           /\ Br(Top.end) \in LineType(counter) /\ Br(Top.back) \in LineType(counter)
           /\ Below \in Seq(FrameType(counter))
<1>1. Top \in FrameType(counter) /\ Below \in Seq(FrameType(counter))
  BY TopType
<1>2. counter \in Nat /\ counter + 0 = counter
  BY DEF TypeOK
<1>3. /\ Top.next \in Names(counter) /\ Top.end \in Names(counter)
      /\ Top.back \in Names(counter) /\ Top.at \in Nat
  BY <1>1 DEF FrameType
<1>4. QED
  BY <1>1, <1>2, <1>3, LinesTyped

\* The innermost frame replaced by another one.
LEMMA ReplaceType ==
    ASSUME TypeOK, open # <<>>, NEW f \in FrameType(counter),
           open' = Append(Below, f)
    PROVE  open' \in Seq(FrameType(counter))
  BY TopType, AppendProperties

LEMMA PopLoopType ==
    ASSUME TypeOK, PopLoop
    PROVE  loopStack' \in Seq(LoopType(counter))
<1>1. loopStack \in Seq(LoopType(counter)) /\ Len(loopStack) \in Nat
  BY LenProperties DEF TypeOK
<1>2. \A i \in 1 .. Len(loopStack) - 1 : loopStack[i] \in LoopType(counter)
  BY <1>1, ElementOfSeq
<1>3. SubSeq(loopStack, 1, Len(loopStack) - 1) \in Seq(LoopType(counter))
  BY <1>1, <1>2, SubSeqProperties
<1>4. QED
  BY <1>3 DEF PopLoop

LEMMA EndStepType ==
    ASSUME TypeOK, NEW token \in {"else", "end"}, Meet(token), counter' = counter,
           NEW t \in Seq(LineType(counter)), Emit(t),
           open' \in Seq(FrameType(counter)),
           loopStack' \in Seq(LoopType(counter)),
           UNCHANGED <<hasReturn, hasError>>
    PROVE  TypeOK'
<1>1. counter + 0 = counter
  BY DEF TypeOK
<1>2. hasReturn' \in BOOLEAN /\ hasError' \in BOOLEAN
  BY DEF TypeOK
<1>3. QED
  BY <1>1, <1>2, StepType

LEMMA ElseType == ASSUME TypeOK, Else PROVE TypeOK'
<1>1. open # <<>> /\ Meet("else") /\ Emit(JumpTo(Top.end) \o <<Label(Top.next)>>)
      /\ counter' = counter /\ UNCHANGED <<loopStack, hasReturn, hasError>>
  BY DEF Else
<1>2. <<Label(Top.next)>> \in Seq(LineType(counter))
  BY <1>1, TopLabels
<1>3. JumpTo(Top.end) \o <<Label(Top.next)>> \in Seq(LineType(counter))
  BY <1>1, <1>2, TopLabels, JumpTyped
<1>4. [Top EXCEPT !.kind = "else", !.next = Top.end] \in FrameType(counter)
  BY <1>1, TopType DEF FrameType
<1>5. open' \in Seq(FrameType(counter))
  BY <1>1, <1>4, ReplaceType DEF Else
<1>6. QED
  BY <1>1, <1>3, <1>5, EndStepType DEF TypeOK

LEMMA EndIfType == ASSUME TypeOK, EndIf PROVE TypeOK'
<1>1. open # <<>> /\ Meet("end") /\ Emit(JumpTo(Top.end) \o <<Label(Top.end)>>)
      /\ counter' = counter /\ UNCHANGED <<loopStack, hasReturn, hasError>> /\ open' = Below
  BY DEF EndIf, Pop
<1>2. <<Label(Top.end)>> \in Seq(LineType(counter))
  BY <1>1, TopLabels
<1>3. JumpTo(Top.end) \o <<Label(Top.end)>> \in Seq(LineType(counter))
  BY <1>1, <1>2, TopLabels, JumpTyped
<1>4. QED
  BY <1>1, <1>3, TopLabels, EndStepType DEF TypeOK

LEMMA EndWhileType == ASSUME TypeOK, EndWhile PROVE TypeOK'
<1>1. open # <<>> /\ Meet("end") /\ Emit(JumpTo(Top.next) \o <<Label(Top.end)>>)
      /\ counter' = counter /\ UNCHANGED <<hasReturn, hasError>> /\ open' = Below /\ PopLoop
  BY DEF EndWhile, Pop
<1>2. <<Label(Top.end)>> \in Seq(LineType(counter))
  BY <1>1, TopLabels
<1>3. JumpTo(Top.next) \o <<Label(Top.end)>> \in Seq(LineType(counter))
  BY <1>1, <1>2, TopLabels, JumpTyped
<1>4. QED
  BY <1>1, <1>3, TopLabels, PopLoopType, EndStepType

LEMMA EndForType == ASSUME TypeOK, EndFor PROVE TypeOK'
<1> DEFINE t == <<Label(Top.next), Code(<<Top.at, "step">>), Br(Top.back), Label(Top.end)>>
<1>1. open # <<>> /\ Meet("end") /\ Emit(JumpTo(Top.next) \o t)
      /\ counter' = counter /\ UNCHANGED <<hasReturn, hasError>> /\ open' = Below /\ PopLoop
  BY DEF EndFor, Pop
<1>2. Code(<<Top.at, "step">>) \in LineType(counter)
  BY <1>1, TopLabels, LinesTyped
<1>3. t \in Seq(LineType(counter))
  BY <1>1, <1>2, TopLabels
<1> HIDE DEF t
<1>4. JumpTo(Top.next) \o t \in Seq(LineType(counter))
  BY <1>1, <1>3, TopLabels, JumpTyped
<1>5. QED
  BY <1>1, <1>4, TopLabels, PopLoopType, EndStepType

LEMMA ArmType == ASSUME TypeOK, Arm PROVE TypeOK'
<1>1. PICK kind \in {"arm", "wild"} : BeginArm(kind)
  BY DEF Arm
<1>2. kind \in AllKinds /\ Meet(kind) /\ open # <<>>
  BY <1>1 DEF BeginArm, AllKinds
<1>3. counter \in Nat /\ counter + 2 \in Nat /\ Len(source) + 1 \in Nat
  BY <1>2, MeetType DEF TypeOK
<1>4. /\ counter \in Names(counter + 2) /\ counter + 1 \in Names(counter + 2)
      /\ Top.next \in Names(counter + 2)
  BY <1>2, <1>3, TopLabels, MoreNames DEF Names
<1> DEFINE jump == IF kind = "wild" THEN Br(counter)
                   ELSE CondBr(counter, counter + 1, Here("test"))
           t == <<Label(Top.next), jump, Label(counter)>>
<1>5. /\ Label(Top.next) \in LineType(counter + 2)
      /\ Label(counter) \in LineType(counter + 2)
      /\ Br(counter) \in LineType(counter + 2)
      /\ CondBr(counter, counter + 1, Here("test")) \in LineType(counter + 2)
  BY <1>3, <1>4, LinesTyped DEF Here
<1>6. t \in Seq(LineType(counter + 2))
  BY <1>5
<1>7. [Top EXCEPT !.kind = "arm", !.next = counter + 1] \in FrameType(counter + 2)
  BY <1>2, <1>3, <1>4, TopType, MoreNames DEF FrameType, AllKinds
<1>8. Below \in Seq(FrameType(counter + 2))
  BY <1>2, <1>3, TopLabels, MoreSeqs
<1>9. /\ open' = Append(Below, [Top EXCEPT !.kind = "arm", !.next = counter + 1])
      /\ Emit(t) /\ counter' = counter + 2 /\ UNCHANGED <<loopStack, hasReturn, hasError>>
  BY <1>1 DEF BeginArm, Fresh
<1> HIDE DEF t
<1>10. open' \in Seq(FrameType(counter + 2))
  BY <1>7, <1>8, <1>9, AppendProperties
<1>11. loopStack' \in Seq(LoopType(counter + 2))
  BY <1>9, MoreSeqs DEF TypeOK
<1>12. QED
  BY <1>2, <1>6, <1>9, <1>10, <1>11, StepType DEF TypeOK

LEMMA EndArmType == ASSUME TypeOK, EndArm PROVE TypeOK'
<1>1. open # <<>> /\ Meet("end") /\ Emit(JumpTo(Top.end))
      /\ counter' = counter /\ UNCHANGED <<loopStack, hasReturn, hasError>>
  BY DEF EndArm
<1>2. <<>> \in Seq(LineType(counter))
  OBVIOUS
<1>3. JumpTo(Top.end) \in Seq(LineType(counter))
  BY <1>1, <1>2, TopLabels, JumpTyped
<1>4. [Top EXCEPT !.kind = "match"] \in FrameType(counter)
  BY <1>1, TopType DEF FrameType, AllKinds
<1>5. open' \in Seq(FrameType(counter))
  BY <1>1, <1>4, ReplaceType DEF EndArm
<1>6. QED
  BY <1>1, <1>3, <1>5, EndStepType DEF TypeOK

LEMMA EndMatchType == ASSUME TypeOK, EndMatch PROVE TypeOK'
<1> DEFINE t == <<Label(Top.next), Br(Top.end), Label(Top.end), Ret("i32", Unwritten)>>
<1>1. open # <<>> /\ Meet("end") /\ Emit(t)
      /\ counter' = counter /\ UNCHANGED <<loopStack, hasReturn, hasError>> /\ open' = Below
  BY DEF EndMatch, Pop
<1>2. Ret("i32", Unwritten) \in LineType(counter)
  BY <1>1, TopLabels, LinesTyped DEF Unwritten
<1>3. t \in Seq(LineType(counter))
  BY <1>1, <1>2, TopLabels
<1> HIDE DEF t
<1>4. QED
  BY <1>1, <1>3, TopLabels, EndStepType DEF TypeOK

LEMMA EndFunctionType == ASSUME TypeOK, EndFunction PROVE TypeOK'
<1> DEFINE t == IF hasReturn THEN <<>> ELSE <<Ret(retType, Unwritten)>>
<1>1. counter \in Nat /\ Ret(retType, Unwritten) \in LineType(counter)
  BY LinesTyped DEF Unwritten, TypeOK
<1>2. t \in Seq(LineType(counter))
  BY <1>1
<1>3. Emit(t)
  BY DEF EndFunction
<1> HIDE DEF t
<1>4. out' \in Seq(LineType(counter)) /\ Len(out') > 0
  BY <1>1, <1>2, <1>3, EmitType DEF TypeOK
<1>5. QED
  BY <1>4 DEF EndFunction, TypeOK

LEMMA NextFunctionType == ASSUME TypeOK, NextFunction PROVE TypeOK'
<1>1. counter \in Nat \ {0} /\ 0 \in Names(counter)
  BY DEF TypeOK, Names
<1>2. Label(0) \in LineType(counter)
  BY <1>1, LinesTyped
<1>3. <<Label(0)>> \in Seq(LineType(counter)) /\ Len(<<Label(0)>>) > 0
  BY <1>2
<1>4. /\ <<>> \in Seq(FrameType(counter)) /\ <<>> \in Seq(LoopType(counter))
      /\ <<>> \in Seq(AllKinds \cup {"else", "end"})
  OBVIOUS
<1>5. /\ counter' = counter /\ out' = <<Label(0)>> /\ open' = <<>>
      /\ loopStack' = <<>> /\ source' = <<>>
  BY DEF NextFunction
<1>6. /\ out' \in Seq(LineType(counter')) /\ Len(out') > 0
      /\ open' \in Seq(FrameType(counter'))
      /\ loopStack' \in Seq(LoopType(counter'))
      /\ source' \in Seq(AllKinds \cup {"else", "end"})
  BY <1>3, <1>4, <1>5
<1>7. hasReturn' \in BOOLEAN
  BY Zenon DEF NextFunction
<1>8. hasError' = hasError /\ retType' \in ReturnTypes /\ begun' = begun + 1
      /\ phase' = "emit"
  BY DEF NextFunction
<1>9. hasError \in BOOLEAN /\ begun \in Nat
  BY DEF TypeOK
<1>10. hasError' \in BOOLEAN
  BY <1>8, <1>9, Zenon
<1>11. QED
  BY <1>1, <1>5, <1>6, <1>7, <1>8, <1>9, <1>10 DEF TypeOK

\* The text, the stacks and the flags keep their types, and every label in them was
\* handed out by label(), for functions of any size.
THEOREM TypeCorrect == Spec => []TypeOK
<1>1. Init => TypeOK
  <2> SUFFICES ASSUME Init PROVE TypeOK
    OBVIOUS
  <2>1. Label(0) \in LineType(1)
    BY LinesTyped DEF Names
  <2>2. <<Label(0)>> \in Seq(LineType(1)) /\ Len(<<Label(0)>>) > 0
    BY <2>1
  <2>3. /\ <<>> \in Seq(FrameType(1)) /\ <<>> \in Seq(LoopType(1))
        /\ <<>> \in Seq(AllKinds \cup {"else", "end"})
    OBVIOUS
  <2>4. counter = 1 /\ out = <<Label(0)>> /\ open = <<>> /\ loopStack = <<>> /\ source = <<>>
    BY DEF Init
  <2>5. /\ out \in Seq(LineType(counter)) /\ Len(out) > 0
        /\ open \in Seq(FrameType(counter))
        /\ loopStack \in Seq(LoopType(counter))
        /\ source \in Seq(AllKinds \cup {"else", "end"})
    BY <2>2, <2>3, <2>4
  <2>6. hasReturn \in BOOLEAN /\ hasError \in BOOLEAN
    BY Zenon DEF Init
  <2>7. retType \in ReturnTypes /\ begun = 1 /\ phase = "emit"
    BY DEF Init
  <2>8. QED
    BY <2>4, <2>5, <2>6, <2>7 DEF TypeOK
<1>2. TypeOK /\ [Next]_vars => TypeOK'
  <2> SUFFICES ASSUME TypeOK, [Next]_vars PROVE TypeOK'
    OBVIOUS
  <2>1. CASE Next
    BY <2>1, SimpleType, ReturnType, JumpOutType, BadForType, IfType, ElseType, EndIfType,
       BeginWhileType, EndWhileType, BeginForType, EndForType, BeginMatchType, EmptyMatchType,
       ArmType, EndArmType, EndMatchType, EndFunctionType, NextFunctionType DEF Next
  <2>2. CASE UNCHANGED vars
    BY <2>2 DEF vars, TypeOK
  <2>3. QED
    BY <2>1, <2>2
<1>3. QED
  BY <1>1, <1>2, PTL DEF Spec

----------------------------------------------------------------------------

\* The text after lines were appended to it.
LEMMA EmitLines ==
    ASSUME TypeOK, NEW T, NEW t \in Seq(T), Emit(t)
    PROVE  /\ Len(out) \in Nat \ {0} /\ Len(t) \in Nat
           /\ DOMAIN out = 1 .. Len(out) /\ DOMAIN t = 1 .. Len(t)
           /\ Len(out') = Len(out) + Len(t)
           /\ DOMAIN out' = 1 .. Len(out')
           /\ \A i \in 1 .. Len(out) : out'[i] = out[i]
           /\ \A i \in 1 .. Len(t) : out'[Len(out) + i] = t[i]
<1> DEFINE S == LineType(counter) \cup T
<1>1. out \in Seq(S) /\ t \in Seq(S)
  BY SeqGrows DEF TypeOK
<1>2. Len(out) \in Nat \ {0} /\ Len(t) \in Nat
  BY <1>1, LenProperties DEF TypeOK
<1>3. /\ out' \in Seq(S)
      /\ Len(out') = Len(out) + Len(t)
      /\ \A i \in 1 .. Len(out) + Len(t) :
            out'[i] = IF i <= Len(out) THEN out[i] ELSE t[i - Len(out)]
  BY <1>1, ConcatProperties DEF Emit
<1>4. DOMAIN out = 1 .. Len(out) /\ DOMAIN t = 1 .. Len(t) /\ DOMAIN out' = 1 .. Len(out')
  BY <1>1, <1>3, LenProperties
<1> HIDE DEF S
<1>5. \A i \in 1 .. Len(out) : out'[i] = out[i]
  BY <1>2, <1>3
<1>6. \A i \in 1 .. Len(t) : out'[Len(out) + i] = t[i]
  BY <1>2, <1>3
<1>7. QED
  BY <1>2, <1>3, <1>4, <1>5, <1>6

\* Lines that may follow the text, a label only where a block has just ended.
Follows(t) ==
    \A i \in 1 .. Len(t) :
        t[i].op = "label" => IF i = 1 THEN Terminated ELSE IsTerminator(t[i - 1])

LEMMA EmitEnds ==
    ASSUME TypeOK, BlocksEnd, NEW T, NEW t \in Seq(T), Emit(t), Follows(t)
    PROVE  BlocksEnd'
<1>1. SUFFICES ASSUME NEW i \in 2 .. Len(out'), out'[i].op = "label"
               PROVE  IsTerminator(out'[i - 1])
  BY DEF BlocksEnd, IsTerminator
<1>2. CASE i <= Len(out)
  <2>1. /\ Len(out) \in Nat \ {0}
        /\ \A k \in 1 .. Len(out) : out'[k] = out[k]
    BY EmitLines
  <2>2. i \in 2 .. Len(out) /\ i \in 1 .. Len(out) /\ i - 1 \in 1 .. Len(out)
    BY <1>2, <2>1
  <2>3. out'[i] = out[i] /\ out'[i - 1] = out[i - 1]
    BY <2>1, <2>2
  <2>4. QED
    BY <1>1, <2>2, <2>3 DEF BlocksEnd
<1>3. CASE i = Len(out) + 1
  <2>1. t[1].op = "label" /\ 1 \in 1 .. Len(t) /\ out'[i - 1] = out[Len(out)]
    BY <1>1, <1>3, EmitLines
  <2>2. QED
    BY <2>1 DEF Follows, Terminated
<1>4. CASE i > Len(out) + 1
  <2>1. PICK j \in 2 .. Len(t) : i = Len(out) + j
    <3>1. i - Len(out) \in 2 .. Len(t) /\ i = Len(out) + (i - Len(out))
      BY <1>1, <1>4, EmitLines
    <3>2. QED
      BY <3>1
  <2>2. /\ j \in 1 .. Len(t) /\ j - 1 \in 1 .. Len(t) /\ j # 1
        /\ i - 1 = Len(out) + (j - 1) /\ Len(out) \in Nat
    BY <2>1, EmitLines
  <2>3. out'[i] = t[j] /\ out'[i - 1] = t[j - 1]
    BY <2>1, <2>2, EmitLines
  <2>4. QED
    BY <1>1, <2>2, <2>3 DEF Follows
<1>5. QED
  BY <1>1, <1>2, <1>3, <1>4, EmitLines

\* if (!terminated()) br: whatever follows it may begin with a label.
LEMMA JumpFollows ==
    ASSUME NEW n, NEW T, NEW t \in Seq(T),
           \A i \in 2 .. Len(t) : t[i].op = "label" => IsTerminator(t[i - 1])
    PROVE  Follows(JumpTo(n) \o t)
<1>1. Len(t) \in Nat
  BY LenProperties
<1>2. CASE Terminated
  <2>1. JumpTo(n) \o t = t
    BY <1>2, ConcatEmptySeq DEF JumpTo
  <2>2. QED
    BY <1>1, <1>2, <2>1 DEF Follows
<1>3. CASE ~ Terminated
  <2> DEFINE u == <<Br(n)>> \o t
  <2>0. t \in Seq(T \cup {Br(n)})
    BY SeqGrows
  <2>1. <<Br(n)>> \in Seq(T \cup {Br(n)}) /\ Len(<<Br(n)>>) = 1 /\ <<Br(n)>>[1] = Br(n)
    OBVIOUS
  <2>2. /\ Len(u) = 1 + Len(t)
        /\ \A i \in 1 .. 1 + Len(t) : u[i] = IF i <= 1 THEN Br(n) ELSE t[i - 1]
    BY <2>0, <2>1, ConcatProperties
  <2>3. u[1] = Br(n) /\ \A i \in 2 .. 1 + Len(t) : u[i] = t[i - 1]
    BY <1>1, <2>2
  <2> HIDE DEF u
  <2>4. IsTerminator(Br(n)) /\ Br(n).op # "label"
    BY DEF IsTerminator, Br
  <2>5. ASSUME NEW i \in 1 .. Len(u), u[i].op = "label"
        PROVE  i # 1 /\ IsTerminator(u[i - 1])
    <3>1. i \in 2 .. 1 + Len(t)
      BY <1>1, <2>2, <2>3, <2>4, <2>5
    <3>2. CASE i = 2
      BY <2>3, <2>4, <3>2
    <3>3. CASE i > 2
      BY <1>1, <2>3, <2>5, <3>1, <3>3
    <3>4. QED
      BY <3>1, <3>2, <3>3
  <2>6. JumpTo(n) \o t = u
    BY <1>3 DEF JumpTo, u
  <2>7. QED
    BY <2>5, <2>6 DEF Follows
<1>4. QED
  BY <1>2, <1>3

\* A jump and then t is a sequence, of whatever elements.
LEMMA JumpSeq ==
    ASSUME NEW n, NEW T, NEW t \in Seq(T)
    PROVE  JumpTo(n) \o t \in Seq(T \cup {Br(n)})
<1>1. t \in Seq(T \cup {Br(n)})
  BY SeqGrows
<1>2. JumpTo(n) \in Seq(T \cup {Br(n)})
  <2>1. <<>> \in Seq(T \cup {Br(n)}) /\ <<Br(n)>> \in Seq(T \cup {Br(n)})
    OBVIOUS
  <2>2. QED
    BY <2>1 DEF JumpTo
<1>3. QED
  BY <1>1, <1>2, ConcatProperties

\* The same for the steps that write the rest of a statement after its body.
LEMMA JumpEnds ==
    ASSUME TypeOK, BlocksEnd, NEW n, NEW T, NEW t \in Seq(T), Emit(JumpTo(n) \o t),
           \A i \in 2 .. Len(t) : t[i].op = "label" => IsTerminator(t[i - 1])
    PROVE  BlocksEnd'
<1>1. Follows(JumpTo(n) \o t)
  BY JumpFollows
<1>2. QED
  BY <1>1, JumpSeq, EmitEnds

LEMMA LeafEnds ==
    ASSUME TypeOK, BlocksEnd, Simple \/ Return \/ ReturnBare \/ Break \/ Continue \/ BadFor
    PROVE  BlocksEnd'
<1>1. CASE out' = out
  BY <1>1 DEF BlocksEnd
<1>2. CASE \E line : line.op # "label" /\ Emit(<<line>>)
  <2>1. PICK line : line.op # "label" /\ Emit(<<line>>)
    BY <1>2
  <2>2. <<line>> \in Seq({line}) /\ Len(<<line>>) = 1 /\ <<line>>[1] = line
    OBVIOUS
  <2>3. Follows(<<line>>)
    BY <2>1, <2>2 DEF Follows
  <2>4. QED
    BY <2>1, <2>2, <2>3, EmitEnds
<1>3. CASE Simple
  BY <1>2, <1>3 DEF Simple, Code
<1>4. CASE Return \/ ReturnBare
  BY <1>2, <1>4 DEF Return, ReturnBare, Ret
<1>5. CASE Break \/ Continue
  BY <1>1, <1>2, <1>5 DEF Break, Continue, Br
<1>6. CASE BadFor
  BY <1>1, <1>6 DEF BadFor
<1>7. QED
  BY <1>3, <1>4, <1>5, <1>6

LEMMA BeginEnds ==
    ASSUME TypeOK, BlocksEnd, If \/ BeginWhile \/ BeginFor \/ BeginMatch \/ EmptyMatch
    PROVE  BlocksEnd'
<1>1. CASE If
  <2>1. PICK yes, no, e : Emit(<<CondBr(yes, no, e), Label(yes)>>)
    BY <1>1 DEF If, BeginIf
  <2> DEFINE t == <<CondBr(yes, no, e), Label(yes)>>
  <2>2. t \in Seq({CondBr(yes, no, e), Label(yes)})
    OBVIOUS
  <2>3. Follows(t)
    BY DEF Follows, CondBr, Label, IsTerminator
  <2> HIDE DEF t
  <2>4. QED
    BY <2>1, <2>2, <2>3, EmitEnds DEF t
<1>2. CASE BeginWhile
  <2> DEFINE test == CondBr(counter + 1, counter + 2, Here("test"))
             t == <<Br(counter), Label(counter), test, Label(counter + 1)>>
  <2>1. t \in Seq({Br(counter), Label(counter), test, Label(counter + 1)})
    OBVIOUS
  <2>2. Follows(t)
    BY DEF Follows, CondBr, Br, Label, IsTerminator
  <2>3. Emit(t)
    BY <1>2 DEF BeginWhile
  <2> HIDE DEF t
  <2>4. QED
    BY <2>1, <2>2, <2>3, EmitEnds
<1>3. CASE BeginFor
  <2> DEFINE test == CondBr(counter + 1, counter + 3, Here("test"))
             t == <<Code(Here("enter")), Br(counter), Label(counter), test, Label(counter + 1)>>
  <2>1. t \in Seq({Code(Here("enter")), Br(counter), Label(counter), test, Label(counter + 1)})
    OBVIOUS
  <2>2. Follows(t)
    BY DEF Follows, Code, CondBr, Br, Label, IsTerminator
  <2>3. Emit(t)
    BY <1>3 DEF BeginFor
  <2> HIDE DEF t
  <2>4. QED
    BY <2>1, <2>2, <2>3, EmitEnds
<1>4. CASE BeginMatch
  <2> DEFINE t == <<Code(Here("enter")), Br(counter + 1)>>
  <2>1. t \in Seq({Code(Here("enter")), Br(counter + 1)})
    OBVIOUS
  <2>2. Follows(t)
    BY DEF Follows, Code, Br
  <2>3. Emit(t)
    BY <1>4 DEF BeginMatch
  <2> HIDE DEF t
  <2>4. QED
    BY <2>1, <2>2, <2>3, EmitEnds
<1>5. CASE EmptyMatch
  <2> DEFINE t == <<Code(Here("do")), Br(counter), Label(counter)>>
  <2>1. t \in Seq({Code(Here("do")), Br(counter), Label(counter)})
    OBVIOUS
  <2>2. Follows(t)
    BY DEF Follows, Code, Br, Label, IsTerminator
  <2>3. Emit(t)
    BY <1>5 DEF EmptyMatch
  <2> HIDE DEF t
  <2>4. QED
    BY <2>1, <2>2, <2>3, EmitEnds
<1>6. QED
  BY <1>1, <1>2, <1>3, <1>4, <1>5

LEMMA TurnEnds ==
    ASSUME TypeOK, BlocksEnd, Else \/ EndIf \/ EndWhile \/ EndFor \/ EndArm
    PROVE  BlocksEnd'
<1>1. CASE Else \/ EndIf \/ EndWhile
  <2>1. PICK n, m : Emit(JumpTo(n) \o <<Label(m)>>)
    BY <1>1 DEF Else, EndIf, EndWhile
  <2> DEFINE t == <<Label(m)>>
  <2>2. t \in Seq({Label(m)}) /\ \A i \in 2 .. Len(t) : FALSE
    OBVIOUS
  <2>3. Emit(JumpTo(n) \o t)
    BY <2>1
  <2> HIDE DEF t
  <2>4. QED
    BY <2>2, <2>3, JumpEnds
<1>2. CASE EndFor
  <2> DEFINE t == <<Label(Top.next), Code(<<Top.at, "step">>), Br(Top.back), Label(Top.end)>>
  <2>1. t \in Seq({Label(Top.next), Code(<<Top.at, "step">>), Br(Top.back), Label(Top.end)})
    OBVIOUS
  <2>2. \A i \in 2 .. Len(t) : t[i].op = "label" => IsTerminator(t[i - 1])
    BY DEF Label, Code, Br, IsTerminator
  <2>3. Emit(JumpTo(Top.next) \o t)
    BY <1>2 DEF EndFor
  <2> HIDE DEF t
  <2>4. QED
    BY <2>1, <2>2, <2>3, JumpEnds
<1>3. CASE EndArm
  <2>0. <<>> \in Seq({Br(Top.end)}) /\ <<Br(Top.end)>> \in Seq({Br(Top.end)})
    OBVIOUS
  <2>1. Emit(JumpTo(Top.end)) /\ JumpTo(Top.end) \in Seq({Br(Top.end)})
    BY <1>3, <2>0 DEF EndArm, JumpTo
  <2>2. Follows(JumpTo(Top.end))
    BY DEF JumpTo, Follows, Br
  <2>3. QED
    BY <2>1, <2>2, EmitEnds
<1>4. QED
  BY <1>1, <1>2, <1>3


LEMMA ArmEnds ==
    ASSUME TypeOK, BlocksEnd, ArmsFollowJumps, Arm \/ EndMatch
    PROVE  BlocksEnd'
<1>1. Terminated
  BY DEF ArmsFollowJumps, Arm, BeginArm, EndMatch
<1>2. CASE Arm
  <2>1. PICK jump : /\ IsTerminator(jump) /\ jump.op # "label"
                    /\ Emit(<<Label(Top.next), jump, Label(counter)>>)
    <3>1. \A e : /\ IsTerminator(Br(counter)) /\ Br(counter).op # "label"
                 /\ IsTerminator(CondBr(counter, counter + 1, e))
                 /\ CondBr(counter, counter + 1, e).op # "label"
      BY DEF IsTerminator, Br, CondBr
    <3>2. QED
      BY <1>2, <3>1 DEF Arm, BeginArm
  <2> DEFINE t == <<Label(Top.next), jump, Label(counter)>>
  <2>2. t \in Seq({Label(Top.next), jump, Label(counter)})
    OBVIOUS
  <2>3. Follows(t)
    BY <1>1, <2>1 DEF Follows
  <2>4. Emit(t)
    BY <2>1
  <2> HIDE DEF t
  <2>5. QED
    BY <2>2, <2>3, <2>4, EmitEnds
<1>3. CASE EndMatch
  <2> DEFINE t == <<Label(Top.next), Br(Top.end), Label(Top.end), Ret("i32", Unwritten)>>
  <2>1. t \in Seq({Label(Top.next), Br(Top.end), Label(Top.end), Ret("i32", Unwritten)})
    OBVIOUS
  <2>2. Follows(t)
    BY <1>1 DEF Follows, Label, Br, Ret, IsTerminator
  <2>3. Emit(t)
    BY <1>3 DEF EndMatch
  <2> HIDE DEF t
  <2>4. QED
    BY <2>1, <2>2, <2>3, EmitEnds
<1>4. QED
  BY <1>2, <1>3

LEMMA FunctionEnds ==
    ASSUME TypeOK, BlocksEnd, EndFunction \/ NextFunction
    PROVE  BlocksEnd'
<1>1. CASE EndFunction
  <2> DEFINE t == IF hasReturn THEN <<>> ELSE <<Ret(retType, Unwritten)>>
  <2>0. <<>> \in Seq({Ret(retType, Unwritten)})
        /\ <<Ret(retType, Unwritten)>> \in Seq({Ret(retType, Unwritten)})
    OBVIOUS
  <2>1. t \in Seq({Ret(retType, Unwritten)})
    BY <2>0
  <2>2. Follows(t)
    BY DEF Follows, Ret
  <2>3. Emit(t)
    BY <1>1 DEF EndFunction
  <2> HIDE DEF t
  <2>4. QED
    BY <2>1, <2>2, <2>3, EmitEnds
<1>2. CASE NextFunction
  BY <1>2 DEF NextFunction, BlocksEnd
<1>3. QED
  BY <1>1, <1>2

\* ArmsFollowJumps depends on what becomes of the stack and on the last line.
LEMMA PushedArms ==
    ASSUME TypeOK, ArmsFollowJumps, open = <<>> \/ Top.kind # "match",
           NEW f, open' = Append(open, f), f.kind = "match" => Terminated',
           phase' = "emit"
    PROVE  ArmsFollowJumps'
<1>1. open \in Seq({open[i] : i \in DOMAIN open} \cup {f}) /\ Len(open) \in Nat
  BY LenProperties, SeqDef DEF TypeOK
<1>2. /\ Len(open') = Len(open) + 1 /\ open' # <<>>
      /\ DOMAIN open' = 1 .. Len(open) + 1
      /\ \A i \in 1 .. Len(open) : open'[i] = open[i]
      /\ open'[Len(open) + 1] = f
  BY <1>1, AppendProperties, LenProperties
<1>3. DOMAIN open = 1 .. Len(open) /\ (open = <<>> => Len(open) = 0)
  BY LenProperties DEF TypeOK
<1>4. \A i \in DOMAIN open : open[i].kind # "match"
  BY <1>1, <1>3 DEF ArmsFollowJumps, Top
<1>5. QED
  BY <1>1, <1>2, <1>3, <1>4 DEF ArmsFollowJumps, Top

\* The frames after the innermost one was replaced by f.
LEMMA ReplacedFrames ==
    ASSUME TypeOK, open # <<>>, NEW f, open' = Append(Below, f)
    PROVE  /\ DOMAIN open' = 1 .. Len(open) /\ Len(open') = Len(open)
           /\ open' # <<>>
           /\ \A i \in 1 .. Len(open) - 1 : open'[i] = open[i]
           /\ open'[Len(open)] = f
<1> DEFINE S == FrameType(counter) \cup {f}
           n == Len(open) - 1
<1>1. /\ Len(open) \in Nat \ {0} /\ Len(Below) = n
      /\ \A i \in 1 .. n : Below[i] = open[i]
  BY TopType
<1>2. Below \in Seq(S) /\ f \in S
  BY TopType, SeqGrows
<1> HIDE DEF S
<1>3. /\ open' \in Seq(S) /\ open' # <<>>
      /\ Len(open') = n + 1
      /\ \A i \in 1 .. n : open'[i] = Below[i]
      /\ open'[n + 1] = f
  BY <1>1, <1>2, AppendProperties
<1>4. DOMAIN open' = 1 .. Len(open')
  BY <1>3, LenProperties
<1>5. n + 1 = Len(open)
  BY <1>1
<1>6. QED
  BY <1>1, <1>3, <1>4, <1>5

LEMMA PoppedArms ==
    ASSUME TypeOK, ArmsFollowJumps, open # <<>>, open' = Below, phase' = "emit"
    PROVE  ArmsFollowJumps'
<1>1. /\ DOMAIN open = 1 .. Len(open) /\ Len(open) \in Nat \ {0}
      /\ DOMAIN open' = 1 .. Len(open) - 1
      /\ Len(open') = Len(open) - 1
      /\ \A i \in 1 .. Len(open) - 1 : open'[i] = open[i]
      /\ open' \in Seq(FrameType(counter))
  BY TopType
<1>2. open' # <<>> => Len(open') \in DOMAIN open'
  BY <1>1, EmptySeq
<1>3. \A i \in DOMAIN open' : open'[i].kind # "match"
  BY <1>1 DEF ArmsFollowJumps
<1>4. QED
  BY <1>1, <1>2, <1>3 DEF ArmsFollowJumps, Top

LEMMA ReplacedArms ==
    ASSUME TypeOK, ArmsFollowJumps, open # <<>>,
           NEW f, open' = Append(Below, f), f.kind = "match" => Terminated',
           phase' = "emit"
    PROVE  ArmsFollowJumps'
<1>1. DOMAIN open = 1 .. Len(open) /\ Len(open) \in Nat \ {0}
  BY TopType
<1>2. \A i \in 1 .. Len(open) - 1 : open[i].kind # "match"
  BY <1>1 DEF ArmsFollowJumps
<1>3. /\ DOMAIN open' = 1 .. Len(open) /\ Len(open') = Len(open)
      /\ \A i \in 1 .. Len(open) - 1 : open'[i] = open[i]
      /\ open'[Len(open)] = f
  BY ReplacedFrames
<1>4. ASSUME NEW i \in DOMAIN open', open'[i].kind = "match" PROVE i = Len(open')
  <2>1. i \in 1 .. Len(open) - 1 \/ i = Len(open)
    <3>1. i \in 1 .. Len(open)
      BY <1>3, <1>4
    <3>2. QED
      BY <1>1, <3>1
  <2>2. QED
    BY <1>2, <1>3, <1>4, <2>1
<1>5. Top' = f
  BY <1>3 DEF Top
<1>6. QED
  BY <1>4, <1>5 DEF ArmsFollowJumps

LEMMA SameArms ==
    ASSUME ArmsFollowJumps, open = <<>> \/ Top.kind # "match",
           open' = open, phase' = "emit"
    PROVE  ArmsFollowJumps'
  BY DEF ArmsFollowJumps, Top

\* The last line of the text is the last of those a step writes.
LEMMA LastLine ==
    ASSUME TypeOK, NEW T, NEW t \in Seq(T), Emit(t), t # <<>>, IsTerminator(t[Len(t)])
    PROVE  Terminated'
<1>1. Len(t) \in Nat \ {0} /\ out'[Len(out')] = t[Len(t)]
  BY EmitLines, EmptySeq
<1>2. QED
  BY <1>1 DEF Terminated, IsTerminator

LEMMA ArmsKept ==
    ASSUME TypeOK, ArmsFollowJumps, Next
    PROVE  ArmsFollowJumps'
<1>1. CASE Simple \/ Return \/ ReturnBare \/ Break \/ Continue \/ BadFor \/ EmptyMatch
  <2>1. (open = <<>> \/ Top.kind # "match") /\ open' = open /\ phase' = "emit"
    BY <1>1 DEF Simple, Return, ReturnBare, Break, Continue, BadFor, EmptyMatch,
       MeetStatement, Meet
  <2>2. QED
    BY <2>1, SameArms
<1>2. CASE If \/ BeginWhile \/ BeginFor
  <2>1. PICK f : open' = Append(open, f) /\ f.kind # "match"
    BY <1>2 DEF If, BeginIf, BeginWhile, BeginFor, Push
  <2>2. (open = <<>> \/ Top.kind # "match") /\ phase' = "emit"
    BY <1>2 DEF If, BeginIf, BeginWhile, BeginFor, MeetStatement, Meet
  <2>3. QED
    BY <2>1, <2>2, PushedArms
<1>3. CASE BeginMatch
  <2> DEFINE t == <<Code(Here("enter")), Br(counter + 1)>>
  <2>1. t \in Seq({Code(Here("enter")), Br(counter + 1)}) /\ t # <<>> /\ t[Len(t)] = Br(counter + 1)
    OBVIOUS
  <2>2. Emit(t)
    BY <1>3 DEF BeginMatch
  <2>3. IsTerminator(Br(counter + 1))
    BY DEF IsTerminator, Br
  <2> HIDE DEF t
  <2>4. Terminated'
    BY <2>1, <2>2, <2>3, LastLine
  <2>5. PICK f : open' = Append(open, f)
    BY <1>3 DEF BeginMatch, Push
  <2>6. (open = <<>> \/ Top.kind # "match") /\ phase' = "emit"
    BY <1>3 DEF BeginMatch, MeetStatement, Meet
  <2>7. QED
    BY <2>4, <2>5, <2>6, PushedArms
<1>4. CASE EndIf \/ EndWhile \/ EndFor \/ EndMatch
  <2>1. open # <<>> /\ open' = Below /\ phase' = "emit"
    BY <1>4 DEF EndIf, EndWhile, EndFor, EndMatch, Pop, Meet
  <2>2. QED
    BY <2>1, PoppedArms
<1>5. CASE Else \/ Arm
  <2>1. open # <<>> /\ phase' = "emit" /\ Top \in FrameType(counter)
    BY <1>5, TopType DEF Else, Arm, BeginArm, Meet
  <2>2. CASE Else
    <3> DEFINE f == [Top EXCEPT !.kind = "else", !.next = Top.end]
    <3>1. open' = Append(Below, f) /\ f.kind # "match"
      BY <2>1, <2>2 DEF Else, FrameType
    <3>2. QED
      BY <2>1, <3>1, ReplacedArms
  <2>3. CASE Arm
    <3> DEFINE f == [Top EXCEPT !.kind = "arm", !.next = counter + 1]
    <3>1. open' = Append(Below, f) /\ f.kind # "match"
      BY <2>1, <2>3 DEF Arm, BeginArm, FrameType
    <3>2. QED
      BY <2>1, <3>1, ReplacedArms
  <2>4. QED
    BY <1>5, <2>2, <2>3
<1>6. CASE EndArm
  <2>1. open # <<>> /\ phase' = "emit" /\ open' = Append(Below, [Top EXCEPT !.kind = "match"])
    BY <1>6 DEF EndArm, Meet
  <2>2. Emit(JumpTo(Top.end))
    BY <1>6 DEF EndArm
  <2>3. CASE Terminated
    <3>1. out \in Seq(LineType(counter)) /\ out' = out
      BY <2>2, <2>3, ConcatEmptySeq DEF Emit, JumpTo, TypeOK
    <3>2. QED
      BY <2>1, <2>3, <3>1, ReplacedArms DEF Terminated
  <2>4. CASE ~ Terminated
    <3> DEFINE t == <<Br(Top.end)>>
    <3>1. t \in Seq({Br(Top.end)}) /\ t # <<>> /\ t[Len(t)] = Br(Top.end)
      OBVIOUS
    <3>2. Emit(t)
      BY <2>2, <2>4 DEF JumpTo
    <3>3. IsTerminator(Br(Top.end))
      BY DEF IsTerminator, Br
    <3> HIDE DEF t
    <3>4. Terminated'
      BY <3>1, <3>2, <3>3, LastLine
    <3>5. QED
      BY <2>1, <3>4, ReplacedArms
  <2>5. QED
    BY <2>3, <2>4
<1>7. CASE EndFunction \/ NextFunction
  BY <1>7 DEF EndFunction, NextFunction, ArmsFollowJumps
<1>8. QED
  BY <1>1, <1>2, <1>3, <1>4, <1>5, <1>6, <1>7 DEF Next

\* In the text of a function every label follows a terminator, however its
\* statements are nested: LLVM's blocks do not fall through.
THEOREM EveryBlockEnds == Spec => []BlocksEnd
<1> DEFINE Inv == BlocksEnd /\ ArmsFollowJumps
<1>1. Init => Inv
  BY DEF Init, BlocksEnd, ArmsFollowJumps
<1>2. TypeOK /\ Inv /\ [Next]_vars => Inv'
  <2> SUFFICES ASSUME TypeOK, BlocksEnd, ArmsFollowJumps, [Next]_vars PROVE Inv'
    OBVIOUS
  <2>1. CASE Next
    <3>1. BlocksEnd'
      BY <2>1, LeafEnds, BeginEnds, TurnEnds, ArmEnds, FunctionEnds DEF Next
    <3>2. QED
      BY <2>1, <3>1, ArmsKept
  <2>2. CASE UNCHANGED vars
    BY <2>2 DEF vars, BlocksEnd, ArmsFollowJumps, Top, Terminated
  <2>3. QED
    BY <2>1, <2>2
<1>3. QED
  BY <1>1, <1>2, TypeCorrect, PTL DEF Spec

----------------------------------------------------------------------------

\* What the text defines once t was written.
LEMMA NewLines ==
    ASSUME TypeOK, NEW T, NEW t \in Seq(T), Emit(t)
    PROVE  /\ Lines' = Lines \cup {t[i] : i \in DOMAIN t}
           /\ Defined \subseteq Defined'
           /\ \A i \in DOMAIN t : t[i].op = "label" => t[i].name \in Defined'
<1>1. /\ DOMAIN out' = 1 .. Len(out) + Len(t)
      /\ Len(out) \in Nat /\ Len(t) \in Nat
      /\ DOMAIN out = 1 .. Len(out) /\ DOMAIN t = 1 .. Len(t)
      /\ \A i \in 1 .. Len(out) : out'[i] = out[i]
      /\ \A i \in 1 .. Len(t) : out'[Len(out) + i] = t[i]
  BY EmitLines
<1>2. ASSUME NEW line \in Lines' PROVE line \in Lines \cup {t[i] : i \in DOMAIN t}
  <2>1. PICK k \in 1 .. Len(out) + Len(t) : line = out'[k]
    BY <1>1, <1>2 DEF Lines
  <2>2. CASE k <= Len(out)
    BY <1>1, <2>1, <2>2 DEF Lines
  <2>3. CASE k > Len(out)
    <3>1. k - Len(out) \in 1 .. Len(t) /\ k = Len(out) + (k - Len(out))
      BY <1>1, <2>1, <2>3
    <3>2. QED
      BY <1>1, <2>1, <3>1
  <2>4. QED
    BY <1>1, <2>1, <2>2, <2>3
<1>3. ASSUME NEW i \in DOMAIN out PROVE out[i] \in Lines'
  <2>1. i \in DOMAIN out' /\ out'[i] = out[i]
    BY <1>1, <1>3
  <2>2. QED
    BY <2>1 DEF Lines
<1>4. ASSUME NEW i \in DOMAIN t PROVE t[i] \in Lines'
  <2>1. Len(out) + i \in DOMAIN out' /\ out'[Len(out) + i] = t[i]
    BY <1>1, <1>4
  <2>2. QED
    BY <2>1 DEF Lines
<1>5. Lines' = Lines \cup {t[i] : i \in DOMAIN t}
  BY <1>2, <1>3, <1>4 DEF Lines
<1>6. QED
  BY <1>4, <1>5 DEF Defined

\* What a step leaves to show of JumpsKnown.
LEMMA JumpStep ==
    ASSUME TypeOK, JumpsKnown, NEW T, NEW t \in Seq(T), Emit(t),
           Known \subseteq Known',
           \A i \in DOMAIN t : Targets(t[i]) \subseteq Known',
           \A i \in DOMAIN loopStack' :
              {loopStack'[i].brk, loopStack'[i].cont} \subseteq Known',
           \A i \in DOMAIN open' : FrameKnown(open'[i], Defined')
    PROVE  JumpsKnown'
<1>1. \A line \in Lines' : Targets(line) \subseteq Known'
  BY NewLines DEF JumpsKnown
<1>2. QED
  BY <1>1 DEF JumpsKnown

LEMMA FrameStays ==
    ASSUME NEW f, NEW d, NEW e, d \subseteq e, FrameKnown(f, d)
    PROVE  FrameKnown(f, e)
  BY DEF FrameKnown

\* A new frame adds its two labels to those that will be written.
LEMMA PushedPending ==
    ASSUME TypeOK, NEW f, open' = Append(open, f)
    PROVE  /\ Pending' = Pending \cup {f.next, f.end}
           /\ \A i \in DOMAIN open' : open'[i] = f \/ \E j \in DOMAIN open : open'[i] = open[j]
<1> DEFINE S == FrameType(counter) \cup {f}
<1>1. open \in Seq(S) /\ f \in S
  BY SeqGrows DEF TypeOK
<1> HIDE DEF S
<1>2. /\ Len(open) \in Nat /\ DOMAIN open = 1 .. Len(open)
      /\ DOMAIN open' = 1 .. Len(open) + 1
      /\ \A i \in 1 .. Len(open) : open'[i] = open[i]
      /\ open'[Len(open) + 1] = f
  BY <1>1, AppendProperties, LenProperties
<1>3. \A i \in DOMAIN open' : i \in DOMAIN open \/ i = Len(open) + 1
  BY <1>2
<1>4. \A i \in DOMAIN open : i \in DOMAIN open' /\ open'[i] = open[i]
  BY <1>2
<1>5. Len(open) + 1 \in DOMAIN open'
  BY <1>2
<1>6. QED
  BY <1>2, <1>3, <1>4, <1>5 DEF Pending

\* A frame taken off takes only its own labels with it.
LEMMA PoppedPending ==
    ASSUME TypeOK, open # <<>>, open' = Below
    PROVE  /\ Pending \subseteq Pending' \cup {Top.next, Top.end}
           /\ \A i \in DOMAIN open' : \E j \in DOMAIN open : open'[i] = open[j]
           /\ \E j \in DOMAIN open : Top = open[j]
<1>1. /\ DOMAIN open = 1 .. Len(open) /\ Len(open) \in Nat \ {0}
      /\ DOMAIN open' = 1 .. Len(open) - 1
      /\ \A i \in 1 .. Len(open) - 1 : open'[i] = open[i]
  BY TopType
<1>2. \A i \in DOMAIN open : i = Len(open) \/ (i \in DOMAIN open' /\ open'[i] = open[i])
  BY <1>1
<1>3. \A i \in DOMAIN open' : i \in DOMAIN open /\ open'[i] = open[i]
  BY <1>1
<1>4. Len(open) \in DOMAIN open /\ Top = open[Len(open)]
  BY <1>1 DEF Top
<1>5. QED
  BY <1>2, <1>3, <1>4 DEF Pending

LEMMA ReplacedPending ==
    ASSUME TypeOK, open # <<>>, NEW f, open' = Append(Below, f)
    PROVE  /\ Pending \subseteq Pending' \cup {Top.next, Top.end}
           /\ {f.next, f.end} \subseteq Pending'
           /\ \A i \in DOMAIN open' : open'[i] = f \/ \E j \in DOMAIN open : open'[i] = open[j]
           /\ \E j \in DOMAIN open : Top = open[j]
<1>1. DOMAIN open = 1 .. Len(open) /\ Len(open) \in Nat \ {0}
  BY TopType
<1>2. /\ DOMAIN open' = 1 .. Len(open)
      /\ \A i \in 1 .. Len(open) - 1 : open'[i] = open[i]
      /\ open'[Len(open)] = f
  BY ReplacedFrames
<1>0. Len(open) \in Nat \ {0}
  BY <1>1
<1>3. \A i \in 1 .. Len(open) : i = Len(open) \/ i \in 1 .. Len(open) - 1
  BY <1>0
<1>4. Len(open) \in DOMAIN open /\ Top = open[Len(open)]
  BY <1>1 DEF Top
<1>5. QED
  BY <1>1, <1>2, <1>3, <1>4 DEF Pending

LEMMA PushedLoops ==
    ASSUME TypeOK, NEW brk, NEW cont, PushLoop(brk, cont)
    PROVE  \A i \in DOMAIN loopStack' :
              \/ loopStack'[i].brk = brk /\ loopStack'[i].cont = cont
              \/ \E j \in DOMAIN loopStack : loopStack'[i] = loopStack[j]
<1> DEFINE f == [brk |-> brk, cont |-> cont]
           S == LoopType(counter) \cup {f}
<1>1. loopStack \in Seq(S) /\ f \in S
  BY SeqGrows DEF TypeOK
<1>2. f.brk = brk /\ f.cont = cont /\ loopStack' = Append(loopStack, f)
  BY DEF PushLoop
<1> HIDE DEF S, f
<1>3. /\ Len(loopStack) \in Nat /\ DOMAIN loopStack = 1 .. Len(loopStack)
      /\ DOMAIN loopStack' = 1 .. Len(loopStack) + 1
      /\ \A i \in 1 .. Len(loopStack) : loopStack'[i] = loopStack[i]
      /\ loopStack'[Len(loopStack) + 1] = f
  BY <1>1, <1>2, AppendProperties, LenProperties
<1>4. \A i \in DOMAIN loopStack' : i \in DOMAIN loopStack \/ i = Len(loopStack) + 1
  BY <1>3
<1>5. QED
  BY <1>2, <1>3, <1>4

LEMMA PoppedLoops ==
    ASSUME TypeOK, PopLoop
    PROVE  \A i \in DOMAIN loopStack' : \E j \in DOMAIN loopStack : loopStack'[i] = loopStack[j]
<1> DEFINE n == Len(loopStack) - 1
<1>1. /\ loopStack \in Seq(LoopType(counter)) /\ Len(loopStack) \in Nat
      /\ DOMAIN loopStack = 1 .. Len(loopStack)
  BY LenProperties DEF TypeOK
<1>2. \A i \in 1 .. n : loopStack[i] \in LoopType(counter)
  BY <1>1, ElementOfSeq
<1>3. n \in Int /\ 1 \in Int /\ n - 1 + 1 = n
  BY <1>1
<1>4. loopStack' = SubSeq(loopStack, 1, n)
  BY DEF PopLoop
<1> HIDE DEF n
<1>5. /\ loopStack' \in Seq(LoopType(counter))
      /\ Len(loopStack') = IF 1 <= n THEN n - 1 + 1 ELSE 0
      /\ \A i \in 1 .. n - 1 + 1 : loopStack'[i] = loopStack[1 + i - 1]
  BY <1>2, <1>3, <1>4, SubSeqProperties
<1>6. DOMAIN loopStack' = 1 .. Len(loopStack')
  BY <1>5, LenProperties
<1>7. \A i \in DOMAIN loopStack' : i \in 1 .. n /\ loopStack'[i] = loopStack[i]
  BY <1>3, <1>5, <1>6
<1>8. QED
  BY <1>1, <1>7 DEF n

LEMMA TargetsOf ==
    /\ \A n : Targets(Label(n)) = {} /\ Targets(Br(n)) = {n}
    /\ \A n, m, e : Targets(CondBr(n, m, e)) = {n, m}
    /\ \A r, e : Targets(Ret(r, e)) = {}
    /\ \A e : Targets(Code(e)) = {}
<1>1. \A n : Targets(Label(n)) = {} /\ Targets(Br(n)) = {n}
  BY DEF Targets, Label, Br
<1>2. \A n, m, e : Targets(CondBr(n, m, e)) = {n, m}
  BY DEF Targets, CondBr
<1>3. /\ \A r, e : Targets(Ret(r, e)) = {}
      /\ \A e : Targets(Code(e)) = {}
  BY DEF Targets, Ret, Code
<1>4. QED
  BY <1>1, <1>2, <1>3

\* A label that is written is defined.
LEMMA Written ==
    ASSUME TypeOK, NEW T, NEW t \in Seq(T), Emit(t)
    PROVE  \A n : (\E i \in DOMAIN t : t[i] = Label(n)) => n \in Defined'
<1>1. \A n : Label(n).op = "label" /\ Label(n).name = n
  BY DEF Label
<1>2. QED
  BY <1>1, NewLines

\* The lines of a jump followed by t are those of t and the jump itself.
LEMMA JumpLines ==
    ASSUME NEW n, NEW T, NEW t \in Seq(T)
    PROVE  /\ \A i \in DOMAIN (JumpTo(n) \o t) :
                 \/ (JumpTo(n) \o t)[i] = Br(n)
                 \/ \E j \in DOMAIN t : (JumpTo(n) \o t)[i] = t[j]
           /\ \A j \in DOMAIN t : \E i \in DOMAIN (JumpTo(n) \o t) : (JumpTo(n) \o t)[i] = t[j]
<1>1. CASE Terminated
  <2>1. JumpTo(n) \o t = t
    BY <1>1, ConcatEmptySeq DEF JumpTo
  <2>2. QED
    BY <2>1
<1>2. CASE ~ Terminated
  <2> DEFINE S == T \cup {Br(n)}
  <2>1. t \in Seq(S) /\ Br(n) \in S
    BY SeqGrows
  <2> HIDE DEF S
  <2>2. /\ DOMAIN t = 1 .. Len(t) /\ Len(t) \in Nat
        /\ DOMAIN (<<Br(n)>> \o t) = 1 .. Len(t) + 1
        /\ (<<Br(n)>> \o t)[1] = Br(n)
        /\ \A i \in 2 .. Len(t) + 1 : (<<Br(n)>> \o t)[i] = t[i - 1]
    BY <2>1, PushFrame
  <2> DEFINE u == <<Br(n)>> \o t
  <2> HIDE DEF u
  <2>3. ASSUME NEW i \in DOMAIN u
        PROVE  u[i] = Br(n) \/ \E j \in DOMAIN t : u[i] = t[j]
    <3>1. i \in 1 .. Len(t) + 1
      BY <2>2, <2>3 DEF u
    <3>2. i = 1 \/ (i \in 2 .. Len(t) + 1 /\ i - 1 \in 1 .. Len(t))
      BY <2>2, <3>1
    <3>3. QED
      BY <2>2, <3>2 DEF u
  <2>4. ASSUME NEW j \in DOMAIN t
        PROVE  \E i \in DOMAIN u : u[i] = t[j]
    <3>1. j \in 1 .. Len(t)
      BY <2>2, <2>4
    <3>2. j + 1 \in 1 .. Len(t) + 1 /\ j + 1 \in 2 .. Len(t) + 1 /\ (j + 1) - 1 = j
      BY <2>2, <3>1
    <3>3. QED
      BY <2>2, <3>2 DEF u
  <2>5. JumpTo(n) \o t = u
    BY <1>2 DEF JumpTo, u
  <2>6. QED
    BY <2>3, <2>4, <2>5
<1>3. QED
  BY <1>1, <1>2

\* Steps that leave the stacks alone.
LEMMA LeafJumps ==
    ASSUME TypeOK, JumpsKnown, NEW T, NEW t \in Seq(T), Emit(t),
           UNCHANGED <<open, loopStack>>,
           \A i \in DOMAIN t : Targets(t[i]) \subseteq Known'
    PROVE  JumpsKnown'
<1>1. Defined \subseteq Defined'
  BY NewLines
<1>2. Known \subseteq Known'
  BY <1>1 DEF Known, Pending
<1>3. \A i \in DOMAIN open' : FrameKnown(open'[i], Defined')
  BY <1>1, FrameStays DEF JumpsKnown
<1>4. \A i \in DOMAIN loopStack' : {loopStack'[i].brk, loopStack'[i].cont} \subseteq Known'
  BY <1>2 DEF JumpsKnown
<1>5. QED
  BY <1>2, <1>3, <1>4, JumpStep

\* Steps that put a frame on the stack, and a loop with labels of that frame or of
\* the text.
LEMMA PushJumps ==
    ASSUME TypeOK, JumpsKnown, NEW T, NEW t \in Seq(T), Emit(t),
           NEW f, open' = Append(open, f), FrameKnown(f, Defined'),
           \A i \in DOMAIN t : Targets(t[i]) \subseteq Known',
           \/ UNCHANGED loopStack
           \/ \E brk, cont \in Known' : PushLoop(brk, cont)
    PROVE  JumpsKnown'
<1>1. Defined \subseteq Defined'
  BY NewLines
<1>2. Known \subseteq Known'
  BY <1>1, PushedPending DEF Known
<1>3. \A i \in DOMAIN open' : FrameKnown(open'[i], Defined')
  BY <1>1, FrameStays, PushedPending DEF JumpsKnown
<1>4. \A i \in DOMAIN loopStack' : {loopStack'[i].brk, loopStack'[i].cont} \subseteq Known'
  <2>1. CASE UNCHANGED loopStack
    BY <1>2, <2>1 DEF JumpsKnown
  <2>2. CASE \E brk, cont \in Known' : PushLoop(brk, cont)
    <3>1. PICK brk, cont \in Known' : PushLoop(brk, cont)
      BY <2>2
    <3>2. \A i \in DOMAIN loopStack' :
             \/ loopStack'[i].brk = brk /\ loopStack'[i].cont = cont
             \/ \E j \in DOMAIN loopStack : loopStack'[i] = loopStack[j]
      BY <3>1, PushedLoops
    <3>3. QED
      BY <1>2, <3>1, <3>2 DEF JumpsKnown
  <2>3. QED
    BY <2>1, <2>2
<1>5. QED
  BY <1>2, <1>3, <1>4, JumpStep

\* Steps that take the innermost frame off once its labels are written.
LEMMA PopJumps ==
    ASSUME TypeOK, JumpsKnown, NEW T, NEW t \in Seq(T), Emit(t),
           open # <<>>, open' = Below,
           {Top.next, Top.end} \subseteq Defined',
           \A i \in DOMAIN t : Targets(t[i]) \subseteq Known',
           UNCHANGED loopStack \/ PopLoop
    PROVE  JumpsKnown'
<1>1. Defined \subseteq Defined'
  BY NewLines
<1>2. Known \subseteq Known'
  BY <1>1, PoppedPending DEF Known
<1>3. \A i \in DOMAIN open' : FrameKnown(open'[i], Defined')
  BY <1>1, FrameStays, PoppedPending DEF JumpsKnown
<1>4. \A i \in DOMAIN loopStack' : {loopStack'[i].brk, loopStack'[i].cont} \subseteq Known'
  BY <1>2, PoppedLoops DEF JumpsKnown
<1>5. QED
  BY <1>2, <1>3, <1>4, JumpStep

\* Steps that turn from one part of a statement to the next.
LEMMA ReplaceJumps ==
    ASSUME TypeOK, JumpsKnown, NEW T, NEW t \in Seq(T), Emit(t),
           open # <<>>, NEW f, open' = Append(Below, f),
           FrameKnown(f, Defined'),
           {Top.next, Top.end} \subseteq Defined' \cup {f.next, f.end},
           \A i \in DOMAIN t : Targets(t[i]) \subseteq Known',
           UNCHANGED loopStack
    PROVE  JumpsKnown'
<1>1. Defined \subseteq Defined'
  BY NewLines
<1>2. Known \subseteq Known'
  BY <1>1, ReplacedPending DEF Known
<1>3. \A i \in DOMAIN open' : FrameKnown(open'[i], Defined')
  BY <1>1, FrameStays, ReplacedPending DEF JumpsKnown
<1>4. \A i \in DOMAIN loopStack' : {loopStack'[i].brk, loopStack'[i].cont} \subseteq Known'
  BY <1>2 DEF JumpsKnown
<1>5. QED
  BY <1>2, <1>3, <1>4, JumpStep

LEMMA SimpleJumps ==
    ASSUME TypeOK, JumpsKnown,
           Simple \/ Return \/ ReturnBare \/ Break \/ Continue \/ BadFor \/ EmptyMatch
    PROVE  JumpsKnown'
<1>1. UNCHANGED <<open, loopStack>>
  BY DEF Simple, Return, ReturnBare, Break, Continue, BadFor, EmptyMatch
<1>2. CASE out' = out
  BY <1>1, <1>2 DEF JumpsKnown, Known, Defined, Pending, Lines
<1>3. CASE \E line : Emit(<<line>>) /\ Targets(line) \subseteq Known
  <2>1. PICK line : Emit(<<line>>) /\ Targets(line) \subseteq Known
    BY <1>3
  <2> DEFINE t == <<line>>
  <2>2. t \in Seq({line}) /\ \A i \in DOMAIN t : t[i] = line
    OBVIOUS
  <2> HIDE DEF t
  <2>3. Emit(t)
    BY <2>1 DEF t
  <2>4. Known \subseteq Known'
    BY <1>1, <2>2, <2>3, NewLines DEF Known, Pending
  <2>5. QED
    BY <1>1, <2>1, <2>2, <2>3, <2>4, LeafJumps
<1>4. CASE Simple \/ Return \/ ReturnBare
  <2>1. \E line : Emit(<<line>>) /\ Targets(line) = {}
    BY <1>4, TargetsOf DEF Simple, Return, ReturnBare
  <2>2. QED
    BY <1>3, <2>1
<1>5. CASE Break \/ Continue
  <2>1. CASE loopStack = <<>>
    BY <1>2, <1>5, <2>1 DEF Break, Continue
  <2>2. CASE loopStack # <<>>
    <3>1. Len(loopStack) \in DOMAIN loopStack
      BY <2>2, LoopTopType
    <3>2. PICK n \in Known : Emit(<<Br(n)>>)
      BY <1>5, <2>2, <3>1 DEF Break, Continue, JumpsKnown
    <3>3. QED
      BY <1>3, <3>2, TargetsOf
  <2>3. QED
    BY <2>1, <2>2
<1>6. CASE BadFor
  BY <1>2, <1>6 DEF BadFor
<1>7. CASE EmptyMatch
  <2> DEFINE code == Code(Here("do"))
             t == <<code, Br(counter), Label(counter)>>
  <2>1. t \in Seq({code, Br(counter), Label(counter)})
    OBVIOUS
  <2>2. DOMAIN t = 1 .. 3 /\ t[1] = code /\ t[2] = Br(counter) /\ t[3] = Label(counter)
    OBVIOUS
  <2>3. Emit(t)
    BY <1>7 DEF EmptyMatch
  <2> HIDE DEF t
  <2>4. counter \in Known'
    <3>1. 3 \in DOMAIN t
      BY <2>2
    <3>2. QED
      BY <2>1, <2>2, <2>3, <3>1, Written DEF Known
  <2>5. Targets(code) = {} /\ Targets(Br(counter)) = {counter} /\ Targets(Label(counter)) = {}
    BY TargetsOf
  <2>6. \A i \in DOMAIN t : Targets(t[i]) \subseteq Known'
    BY <2>2, <2>4, <2>5
  <2>7. QED
    BY <1>1, <2>1, <2>3, <2>6, LeafJumps
<1>8. QED
  BY <1>4, <1>5, <1>6, <1>7

LEMMA IfJumps == ASSUME TypeOK, JumpsKnown, If PROVE JumpsKnown'
<1>1. PICK kind \in {"if", "ifelse"} : BeginIf(kind)
  BY DEF If
<1> DEFINE else == IF kind = "ifelse" THEN counter + 2 ELSE counter + 1
           test == CondBr(counter, else, Here("test"))
           t == <<test, Label(counter)>>
           f == [kind |-> kind, next |-> else, end |-> counter + 1, back |-> counter + 1,
                 at |-> Len(source) + 1]
<1>2. Emit(t) /\ open' = Append(open, f) /\ UNCHANGED loopStack
  BY <1>1 DEF BeginIf, Push
<1>3. FrameKnown(f, Defined') /\ f.next = else
  BY DEF FrameKnown
<1>4. t \in Seq({test, Label(counter)}) /\ DOMAIN t = 1 .. 2 /\ t[1] = test /\ t[2] = Label(counter)
  OBVIOUS
<1>5. Targets(test) = {counter, else} /\ Targets(Label(counter)) = {}
  BY TargetsOf
<1> HIDE DEF f, t, test, else
<1>6. else \in Known'
  BY <1>2, <1>3, PushedPending DEF Known
<1>7. counter \in Known'
  <2>1. 2 \in DOMAIN t
    BY <1>4
  <2>2. QED
    BY <1>2, <1>4, <2>1, Written DEF Known
<1>8. \A i \in DOMAIN t : Targets(t[i]) \subseteq Known'
  BY <1>4, <1>5, <1>6, <1>7
<1>9. QED
  BY <1>2, <1>3, <1>4, <1>8, PushJumps

LEMMA BeginWhileJumps == ASSUME TypeOK, JumpsKnown, BeginWhile PROVE JumpsKnown'
<1> DEFINE body == counter + 1
           end == counter + 2
           test == CondBr(body, end, Here("test"))
           t == <<Br(counter), Label(counter), test, Label(body)>>
           f == [kind |-> "while", next |-> counter, end |-> end, back |-> counter,
                 at |-> Len(source) + 1]
<1>1. Emit(t) /\ open' = Append(open, f) /\ PushLoop(end, counter)
  BY DEF BeginWhile, Push
<1>2. /\ t \in Seq({Br(counter), Label(counter), test, Label(body)})
      /\ DOMAIN t = 1 .. 4
      /\ t[1] = Br(counter) /\ t[2] = Label(counter) /\ t[3] = test /\ t[4] = Label(body)
  OBVIOUS
<1>3. f.kind = "while" /\ f.next = counter /\ f.end = end
  OBVIOUS
<1>4. /\ Targets(Br(counter)) = {counter} /\ Targets(Label(counter)) = {}
      /\ Targets(test) = {body, end} /\ Targets(Label(body)) = {}
  BY TargetsOf
<1> HIDE DEF f, t, test, end, body
<1>5. counter \in Defined' /\ body \in Defined'
  <2>1. 2 \in DOMAIN t /\ 4 \in DOMAIN t
    BY <1>2
  <2>2. QED
    BY <1>1, <1>2, <2>1, Written
<1>6. end \in Known' /\ counter \in Known' /\ body \in Known'
  BY <1>1, <1>3, <1>5, PushedPending DEF Known
<1>7. \A i \in DOMAIN t : Targets(t[i]) \subseteq Known'
  BY <1>2, <1>4, <1>6
<1>8. FrameKnown(f, Defined')
  BY <1>3, <1>5 DEF FrameKnown
<1>9. QED
  BY <1>1, <1>2, <1>6, <1>7, <1>8, PushJumps

LEMMA BeginForJumps == ASSUME TypeOK, JumpsKnown, BeginFor PROVE JumpsKnown'
<1> DEFINE body == counter + 1
           inc == counter + 2
           end == counter + 3
           enter == Code(Here("enter"))
           test == CondBr(body, end, Here("test"))
           t == <<enter, Br(counter), Label(counter), test, Label(body)>>
           f == [kind |-> "for", next |-> inc, end |-> end, back |-> counter,
                 at |-> Len(source) + 1]
<1>1. Emit(t) /\ open' = Append(open, f) /\ PushLoop(end, inc)
  BY DEF BeginFor, Push
<1>2. /\ t \in Seq({enter, Br(counter), Label(counter), test, Label(body)})
      /\ DOMAIN t = 1 .. 5
      /\ t[1] = enter /\ t[2] = Br(counter) /\ t[3] = Label(counter) /\ t[4] = test
      /\ t[5] = Label(body)
  OBVIOUS
<1>3. f.kind = "for" /\ f.next = inc /\ f.end = end /\ f.back = counter
  OBVIOUS
<1>4. /\ Targets(enter) = {} /\ Targets(Br(counter)) = {counter}
      /\ Targets(Label(counter)) = {}
      /\ Targets(test) = {body, end} /\ Targets(Label(body)) = {}
  BY TargetsOf
<1> HIDE DEF f, t, test, enter, inc, end, body
<1>5. counter \in Defined' /\ body \in Defined'
  <2>1. 3 \in DOMAIN t /\ 5 \in DOMAIN t
    BY <1>2
  <2>2. QED
    BY <1>1, <1>2, <2>1, Written
<1>6. end \in Known' /\ inc \in Known' /\ counter \in Known' /\ body \in Known'
  BY <1>1, <1>3, <1>5, PushedPending DEF Known
<1>7. \A i \in DOMAIN t : Targets(t[i]) \subseteq Known'
  BY <1>2, <1>4, <1>6
<1>8. FrameKnown(f, Defined')
  BY <1>3, <1>5 DEF FrameKnown
<1>9. QED
  BY <1>1, <1>2, <1>6, <1>7, <1>8, PushJumps

LEMMA BeginMatchJumps == ASSUME TypeOK, JumpsKnown, BeginMatch PROVE JumpsKnown'
<1> DEFINE next == counter + 1
           enter == Code(Here("enter"))
           t == <<enter, Br(next)>>
           f == [kind |-> "match", next |-> next, end |-> counter, back |-> counter,
                 at |-> Len(source) + 1]
<1>1. Emit(t) /\ open' = Append(open, f) /\ UNCHANGED loopStack
  BY DEF BeginMatch, Push
<1>2. t \in Seq({enter, Br(next)}) /\ DOMAIN t = 1 .. 2 /\ t[1] = enter /\ t[2] = Br(next)
  OBVIOUS
<1>3. f.kind = "match" /\ f.next = next
  OBVIOUS
<1>4. Targets(enter) = {} /\ Targets(Br(next)) = {next}
  BY TargetsOf
<1> HIDE DEF f, t, enter, next
<1>5. next \in Known'
  BY <1>1, <1>3, PushedPending DEF Known
<1>6. \A i \in DOMAIN t : Targets(t[i]) \subseteq Known'
  BY <1>2, <1>4, <1>5
<1>7. FrameKnown(f, Defined')
  BY <1>3 DEF FrameKnown
<1>8. QED
  BY <1>1, <1>2, <1>6, <1>7, PushJumps

\* What a jump and the rest of a statement define and where they go.
LEMMA JumpWrites ==
    ASSUME TypeOK, NEW n, NEW T, NEW t \in Seq(T), Emit(JumpTo(n) \o t)
    PROVE  /\ \A m : (\E i \in DOMAIN t : t[i] = Label(m)) => m \in Defined'
           /\ (/\ n \in Known'
               /\ \A i \in DOMAIN t : Targets(t[i]) \subseteq Known')
              => \A i \in DOMAIN (JumpTo(n) \o t) : Targets((JumpTo(n) \o t)[i]) \subseteq Known'
<1> DEFINE u == JumpTo(n) \o t
<1>1. u \in Seq(T \cup {Br(n)}) /\ Emit(u)
  BY JumpSeq
<1>2. /\ \A i \in DOMAIN u : u[i] = Br(n) \/ \E j \in DOMAIN t : u[i] = t[j]
      /\ \A j \in DOMAIN t : \E i \in DOMAIN u : u[i] = t[j]
  BY JumpLines
<1> HIDE DEF u
<1>3. \A m : (\E i \in DOMAIN u : u[i] = Label(m)) => m \in Defined'
  BY <1>1, Written
<1>4. \A m : (\E i \in DOMAIN t : t[i] = Label(m)) => m \in Defined'
  BY <1>2, <1>3
<1>5. ASSUME n \in Known', \A i \in DOMAIN t : Targets(t[i]) \subseteq Known',
             NEW i \in DOMAIN u
      PROVE  Targets(u[i]) \subseteq Known'
  BY <1>2, <1>5, TargetsOf
<1>6. QED
  BY <1>4, <1>5 DEF u

LEMMA ElseJumps == ASSUME TypeOK, JumpsKnown, Else PROVE JumpsKnown'
<1> DEFINE f == [Top EXCEPT !.kind = "else", !.next = Top.end]
           t == <<Label(Top.next)>>
<1>1. open # <<>> /\ Emit(JumpTo(Top.end) \o t) /\ open' = Append(Below, f) /\ UNCHANGED loopStack
  BY DEF Else
<1>2. Top \in FrameType(counter)
  BY <1>1, TopType
<1>3. f.kind = "else" /\ f.next = Top.end /\ f.end = Top.end
  BY <1>2 DEF FrameType
<1>4. t \in Seq({Label(Top.next)}) /\ DOMAIN t = 1 .. 1 /\ t[1] = Label(Top.next)
  OBVIOUS
<1> HIDE DEF f, t
<1>5. Top.next \in Defined'
  <2>1. 1 \in DOMAIN t
    BY <1>4
  <2>2. QED
    BY <1>1, <1>4, <2>1, JumpWrites
<1>6. Top.end \in Known'
  BY <1>1, <1>3, ReplacedPending DEF Known
<1>7. \A i \in DOMAIN t : Targets(t[i]) \subseteq Known'
  BY <1>4, TargetsOf
<1>8. FrameKnown(f, Defined')
  BY <1>3 DEF FrameKnown
<1> DEFINE u == JumpTo(Top.end) \o t
<1>9. \A i \in DOMAIN u : Targets(u[i]) \subseteq Known'
  BY <1>1, <1>4, <1>6, <1>7, JumpWrites
<1>10. u \in Seq({Label(Top.next)} \cup {Br(Top.end)}) /\ Emit(u)
  BY <1>1, <1>4, JumpSeq
<1> HIDE DEF u
<1>11. QED
  BY <1>1, <1>3, <1>5, <1>8, <1>9, <1>10, ReplaceJumps

\* The frame of the statement that ends is known to be well formed.
LEMMA TopKnown ==
    ASSUME TypeOK, JumpsKnown, open # <<>>
    PROVE  FrameKnown(Top, Defined)
<1>1. Len(open) \in DOMAIN open
  BY TopType
<1>2. QED
  BY <1>1 DEF JumpsKnown, Top

LEMMA EndIfJumps == ASSUME TypeOK, JumpsKnown, EndIf PROVE JumpsKnown'
<1> DEFINE t == <<Label(Top.end)>>
<1>1. open # <<>> /\ Emit(JumpTo(Top.end) \o t) /\ open' = Below /\ UNCHANGED loopStack
  BY DEF EndIf, Pop
<1>2. Top.next = Top.end
  BY TopKnown DEF EndIf, FrameKnown
<1>4. t \in Seq({Label(Top.end)}) /\ DOMAIN t = 1 .. 1 /\ t[1] = Label(Top.end)
  OBVIOUS
<1> HIDE DEF t
<1>5. Top.end \in Defined'
  <2>1. 1 \in DOMAIN t
    BY <1>4
  <2>2. QED
    BY <1>1, <1>4, <2>1, JumpWrites
<1>6. \A i \in DOMAIN t : Targets(t[i]) \subseteq Known'
  BY <1>4, TargetsOf
<1> DEFINE u == JumpTo(Top.end) \o t
<1>7. \A i \in DOMAIN u : Targets(u[i]) \subseteq Known'
  BY <1>1, <1>4, <1>5, <1>6, JumpWrites DEF Known
<1>8. u \in Seq({Label(Top.end)} \cup {Br(Top.end)}) /\ Emit(u)
  BY <1>1, <1>4, JumpSeq
<1> HIDE DEF u
<1>9. QED
  BY <1>1, <1>2, <1>5, <1>7, <1>8, PopJumps

LEMMA EndWhileJumps == ASSUME TypeOK, JumpsKnown, EndWhile PROVE JumpsKnown'
<1> DEFINE t == <<Label(Top.end)>>
<1>1. open # <<>> /\ Emit(JumpTo(Top.next) \o t) /\ open' = Below /\ PopLoop
  BY DEF EndWhile, Pop
<1>2. Top.next \in Defined
  BY TopKnown DEF EndWhile, FrameKnown
<1>4. t \in Seq({Label(Top.end)}) /\ DOMAIN t = 1 .. 1 /\ t[1] = Label(Top.end)
  OBVIOUS
<1> HIDE DEF t
<1>5. Top.end \in Defined'
  <2>1. 1 \in DOMAIN t
    BY <1>4
  <2>2. QED
    BY <1>1, <1>4, <2>1, JumpWrites
<1>6. \A i \in DOMAIN t : Targets(t[i]) \subseteq Known'
  BY <1>4, TargetsOf
<1> DEFINE u == JumpTo(Top.next) \o t
<1>7. u \in Seq({Label(Top.end)} \cup {Br(Top.next)}) /\ Emit(u)
  BY <1>1, <1>4, JumpSeq
<1>8. Top.next \in Defined'
  BY <1>2, <1>7, NewLines
<1>9. \A i \in DOMAIN u : Targets(u[i]) \subseteq Known'
  BY <1>1, <1>4, <1>6, <1>8, JumpWrites DEF Known
<1> HIDE DEF u
<1>10. QED
  BY <1>1, <1>5, <1>7, <1>8, <1>9, PopJumps

LEMMA EndForJumps == ASSUME TypeOK, JumpsKnown, EndFor PROVE JumpsKnown'
<1> DEFINE step == Code(<<Top.at, "step">>)
           t == <<Label(Top.next), step, Br(Top.back), Label(Top.end)>>
           T == {Label(Top.next), step, Br(Top.back), Label(Top.end)}
<1>1. open # <<>> /\ Emit(JumpTo(Top.next) \o t) /\ open' = Below /\ PopLoop
  BY DEF EndFor, Pop
<1>2. Top.back \in Defined
  BY TopKnown DEF EndFor, FrameKnown
<1>3. Targets(step) = {}
  BY TargetsOf
<1>4. /\ t \in Seq(T) /\ DOMAIN t = 1 .. 4
      /\ t[1] = Label(Top.next) /\ t[2] = step /\ t[3] = Br(Top.back) /\ t[4] = Label(Top.end)
  OBVIOUS
<1> HIDE DEF t, T, step
<1>5. Top.next \in Defined' /\ Top.end \in Defined'
  <2>1. 1 \in DOMAIN t /\ 4 \in DOMAIN t
    BY <1>4
  <2>2. QED
    BY <1>1, <1>4, <2>1, JumpWrites
<1> DEFINE u == JumpTo(Top.next) \o t
<1>6. u \in Seq(T \cup {Br(Top.next)}) /\ Emit(u)
  BY <1>1, <1>4, JumpSeq
<1>7. Top.back \in Defined'
  BY <1>2, <1>6, NewLines
<1>8. \A i \in DOMAIN t : Targets(t[i]) \subseteq Known'
  BY <1>3, <1>4, <1>7, TargetsOf DEF Known
<1>9. \A i \in DOMAIN u : Targets(u[i]) \subseteq Known'
  BY <1>1, <1>4, <1>5, <1>8, JumpWrites DEF Known
<1> HIDE DEF u
<1>10. QED
  BY <1>1, <1>5, <1>6, <1>9, PopJumps

LEMMA ArmJumps == ASSUME TypeOK, JumpsKnown, Arm PROVE JumpsKnown'
<1>1. PICK kind \in {"arm", "wild"} : BeginArm(kind)
  BY DEF Arm
<1> DEFINE fall == counter + 1
           f == [Top EXCEPT !.kind = "arm", !.next = fall]
           test == CondBr(counter, fall, Here("test"))
           jump == IF kind = "wild" THEN Br(counter) ELSE test
           t == <<Label(Top.next), jump, Label(counter)>>
<1>2. open # <<>> /\ Emit(t) /\ open' = Append(Below, f) /\ UNCHANGED loopStack
  BY <1>1 DEF BeginArm
<1>3. Top \in FrameType(counter)
  BY <1>2, TopType
<1>4. f.kind = "arm" /\ f.next = fall /\ f.end = Top.end
  BY <1>3 DEF FrameType
<1>5. /\ t \in Seq({Label(Top.next), jump, Label(counter)}) /\ DOMAIN t = 1 .. 3
      /\ t[1] = Label(Top.next) /\ t[2] = jump /\ t[3] = Label(counter)
  OBVIOUS
<1>6. Targets(jump) \subseteq {counter, fall}
  BY TargetsOf
<1> HIDE DEF t, jump, test, f, fall
<1>7. Top.next \in Defined' /\ counter \in Defined'
  <2>1. 1 \in DOMAIN t /\ 3 \in DOMAIN t
    BY <1>5
  <2>2. QED
    BY <1>2, <1>5, <2>1, Written
<1>8. fall \in Known' /\ counter \in Known'
  BY <1>2, <1>4, <1>7, ReplacedPending DEF Known
<1>9. \A i \in DOMAIN t : Targets(t[i]) \subseteq Known'
  BY <1>5, <1>6, <1>8, TargetsOf
<1>10. FrameKnown(f, Defined')
  BY <1>4 DEF FrameKnown
<1>11. QED
  BY <1>2, <1>4, <1>5, <1>7, <1>9, <1>10, ReplaceJumps

LEMMA EndArmJumps == ASSUME TypeOK, JumpsKnown, EndArm PROVE JumpsKnown'
<1> DEFINE f == [Top EXCEPT !.kind = "match"]
           u == JumpTo(Top.end)
<1>1. open # <<>> /\ Emit(u) /\ open' = Append(Below, f) /\ UNCHANGED loopStack
  BY DEF EndArm
<1>2. Top \in FrameType(counter)
  BY <1>1, TopType
<1>3. f.kind = "match" /\ f.next = Top.next /\ f.end = Top.end
  BY <1>2 DEF FrameType
<1>4. <<>> \in Seq({Br(Top.end)}) /\ <<Br(Top.end)>> \in Seq({Br(Top.end)})
  OBVIOUS
<1>5. u \in Seq({Br(Top.end)}) /\ \A i \in DOMAIN u : u[i] = Br(Top.end)
  BY <1>4 DEF JumpTo
<1> HIDE DEF f, u
<1>6. Top.end \in Known'
  BY <1>1, <1>3, ReplacedPending DEF Known
<1>7. \A i \in DOMAIN u : Targets(u[i]) \subseteq Known'
  BY <1>5, <1>6, TargetsOf
<1>8. FrameKnown(f, Defined')
  BY <1>3 DEF FrameKnown
<1>9. QED
  BY <1>1, <1>3, <1>5, <1>7, <1>8, ReplaceJumps

LEMMA EndMatchJumps == ASSUME TypeOK, JumpsKnown, EndMatch PROVE JumpsKnown'
<1> DEFINE ret == Ret("i32", Unwritten)
           t == <<Label(Top.next), Br(Top.end), Label(Top.end), ret>>
<1>1. open # <<>> /\ Emit(t) /\ open' = Below /\ UNCHANGED loopStack
  BY DEF EndMatch, Pop
<1>2. Targets(ret) = {}
  BY TargetsOf
<1>3. /\ t \in Seq({Label(Top.next), Br(Top.end), Label(Top.end), ret}) /\ DOMAIN t = 1 .. 4
      /\ t[1] = Label(Top.next) /\ t[2] = Br(Top.end) /\ t[3] = Label(Top.end) /\ t[4] = ret
  OBVIOUS
<1> HIDE DEF t, ret
<1>4. Top.next \in Defined' /\ Top.end \in Defined'
  <2>1. 1 \in DOMAIN t /\ 3 \in DOMAIN t
    BY <1>3
  <2>2. QED
    BY <1>1, <1>3, <2>1, Written
<1>5. \A i \in DOMAIN t : Targets(t[i]) \subseteq Known'
  BY <1>2, <1>3, <1>4, TargetsOf DEF Known
<1>6. QED
  BY <1>1, <1>3, <1>4, <1>5, PopJumps

LEMMA EndFunctionJumps == ASSUME TypeOK, JumpsKnown, EndFunction PROVE JumpsKnown'
<1> DEFINE ret == Ret(retType, Unwritten)
           t == IF hasReturn THEN <<>> ELSE <<ret>>
<1>1. Emit(t) /\ UNCHANGED <<open, loopStack>>
  BY DEF EndFunction
<1>2. <<>> \in Seq({ret}) /\ <<ret>> \in Seq({ret})
  OBVIOUS
<1>3. t \in Seq({ret}) /\ \A i \in DOMAIN t : t[i] = ret
  BY <1>2
<1>4. Targets(ret) = {}
  BY TargetsOf
<1> HIDE DEF t, ret
<1>5. \A i \in DOMAIN t : Targets(t[i]) \subseteq Known'
  BY <1>3, <1>4
<1>6. QED
  BY <1>1, <1>3, <1>5, LeafJumps

LEMMA NewFunctionJumps ==
    ASSUME out = <<Label(0)>>, open = <<>>, loopStack = <<>>
    PROVE  JumpsKnown
<1>1. Lines = {Label(0)}
  BY DEF Lines
<1>2. DOMAIN open = {} /\ DOMAIN loopStack = {}
  OBVIOUS
<1>3. QED
  BY <1>1, <1>2, TargetsOf DEF JumpsKnown

\* A finished function branches only to labels in its own text, breaks and
\* continues from any depth included.
THEOREM EveryBranchLands == Spec => []BranchesLand
<1> DEFINE Inv == JumpsKnown /\ ArmsFollowJumps
<1>1. Init => Inv
  BY NewFunctionJumps DEF Init, ArmsFollowJumps
<1>2. TypeOK /\ Inv /\ [Next]_vars => Inv'
  <2> SUFFICES ASSUME TypeOK, JumpsKnown, ArmsFollowJumps, [Next]_vars PROVE Inv'
    OBVIOUS
  <2>1. CASE Next
    <3>1. CASE NextFunction
      <4>1. out' = <<Label(0)>> /\ open' = <<>> /\ loopStack' = <<>>
        BY <3>1 DEF NextFunction
      <4>2. Lines' = {Label(0)} /\ DOMAIN open' = {} /\ DOMAIN loopStack' = {}
        BY <4>1 DEF Lines
      <4>3. JumpsKnown'
        BY <4>2, TargetsOf DEF JumpsKnown
      <4>4. QED
        BY <2>1, <4>3, ArmsKept
    <3>2. CASE ~ NextFunction
      <4>1. JumpsKnown'
        BY <2>1, <3>2, SimpleJumps, IfJumps, ElseJumps, EndIfJumps, BeginWhileJumps,
           EndWhileJumps, BeginForJumps, EndForJumps, BeginMatchJumps, ArmJumps, EndArmJumps,
           EndMatchJumps, EndFunctionJumps DEF Next
      <4>2. QED
        BY <2>1, <4>1, ArmsKept
    <3>3. QED
      BY <3>1, <3>2
  <2>2. CASE UNCHANGED vars
    BY <2>2 DEF vars, JumpsKnown, Known, Defined, Pending, Lines, ArmsFollowJumps, Top, Terminated
  <2>3. QED
    BY <2>1, <2>2
<1>3. Inv => BranchesLand
  <2> SUFFICES ASSUME JumpsKnown, ArmsFollowJumps, phase = "done" PROVE BranchesLand
    BY DEF BranchesLand
  <2>1. DOMAIN open = {}
    BY DEF ArmsFollowJumps
  <2>2. Pending = {}
    BY <2>1 DEF Pending
  <2>3. QED
    BY <2>2 DEF BranchesLand, JumpsKnown, Known
<1>4. QED
  BY <1>1, <1>2, <1>3, TypeCorrect, PTL DEF Spec

----------------------------------------------------------------------------

\* Why ReturnlessEnd holds: hasReturn_ is set by a return of this function only.
ReturnKept ==
    /\ hasReturn => \E i \in DOMAIN source : source[i] \in {"return", "bare"}
    /\ (phase = "done" /\ ~ hasReturn) => Terminated

\* The walk only appends to what it met.
LEMMA SourceGrows ==
    ASSUME TypeOK, NEW token \in AllKinds \cup {"else", "end"}, Meet(token)
    PROVE  /\ \A i \in DOMAIN source : i \in DOMAIN source' /\ source'[i] = source[i]
           /\ \E i \in DOMAIN source' : source'[i] = token
           /\ phase' = "emit"
<1> DEFINE S == AllKinds \cup {"else", "end"}
<1>1. source \in Seq(S) /\ token \in S /\ source' = Append(source, token)
  BY DEF TypeOK, Meet
<1> HIDE DEF S
<1>2. /\ Len(source) \in Nat /\ DOMAIN source = 1 .. Len(source)
      /\ DOMAIN source' = 1 .. Len(source) + 1
      /\ \A i \in 1 .. Len(source) : source'[i] = source[i]
      /\ source'[Len(source) + 1] = token
  BY <1>1, AppendProperties, LenProperties
<1>3. Len(source) + 1 \in DOMAIN source'
  BY <1>2
<1>4. \A i \in DOMAIN source : i \in DOMAIN source' /\ source'[i] = source[i]
  BY <1>2
<1>5. QED
  BY <1>2, <1>3, <1>4 DEF Meet

LEMMA ReturnStep ==
    ASSUME TypeOK, ReturnKept, NEW token \in AllKinds \cup {"else", "end"}, Meet(token),
           hasReturn' = hasReturn \/ (hasReturn' = TRUE /\ token \in {"return", "bare"})
    PROVE  ReturnKept'
<1>1. /\ \A i \in DOMAIN source : i \in DOMAIN source' /\ source'[i] = source[i]
      /\ \E i \in DOMAIN source' : source'[i] = token
      /\ phase' = "emit"
  BY SourceGrows
<1>2. hasReturn' => \E i \in DOMAIN source' : source'[i] \in {"return", "bare"}
  <2>1. CASE token \in {"return", "bare"}
    BY <1>1, <2>1
  <2>2. CASE hasReturn' = hasReturn
    BY <1>1, <2>2 DEF ReturnKept
  <2>3. QED
    BY <2>1, <2>2
<1>3. QED
  BY <1>1, <1>2 DEF ReturnKept

\* A step of the walk that is no return meets a token and keeps hasReturn_.
LEMMA WalkSteps ==
    ASSUME Next, ~ (EndFunction \/ NextFunction)
    PROVE  \E token \in AllKinds \cup {"else", "end"} :
              /\ Meet(token)
              /\ hasReturn' = hasReturn \/ (hasReturn' = TRUE /\ token \in {"return", "bare"})
<1>1. CASE Simple \/ Break \/ Continue \/ BadFor \/ BeginWhile \/ BeginFor \/ BeginMatch
           \/ EmptyMatch
  BY <1>1 DEF Simple, Break, Continue, BadFor, BeginWhile, BeginFor, BeginMatch, EmptyMatch,
     MeetStatement, AllKinds
<1>2. CASE Return \/ ReturnBare
  BY <1>2 DEF Return, ReturnBare, MeetStatement, AllKinds
<1>3. CASE If
  BY <1>3 DEF If, BeginIf, MeetStatement, AllKinds
<1>4. CASE Arm
  BY <1>4 DEF Arm, BeginArm, AllKinds
<1>5. CASE Else \/ EndIf \/ EndWhile \/ EndFor \/ EndArm \/ EndMatch
  BY <1>5 DEF Else, EndIf, EndWhile, EndFor, EndArm, EndMatch
<1>6. QED
  BY <1>1, <1>2, <1>3, <1>4, <1>5 DEF Next

\* A function whose statements never return ends with the return added at its end,
\* whatever the functions before it had: hasReturn_ does not leak.
THEOREM ReturnIsAdded == Spec => []ReturnlessEnd
<1>1. Init => ReturnKept
  BY DEF Init, ReturnKept
<1>2. TypeOK /\ ReturnKept /\ [Next]_vars => ReturnKept'
  <2> SUFFICES ASSUME TypeOK, ReturnKept, [Next]_vars PROVE ReturnKept'
    OBVIOUS
  <2>1. CASE Next /\ ~ (EndFunction \/ NextFunction)
    BY <2>1, WalkSteps, ReturnStep
  <2>2. CASE EndFunction /\ hasReturn
    BY <2>2 DEF EndFunction, ReturnKept
  <2>3. CASE EndFunction /\ ~ hasReturn
    <3> DEFINE t == <<Ret(retType, Unwritten)>>
    <3>1. /\ t \in Seq({Ret(retType, Unwritten)}) /\ t # <<>>
          /\ t[Len(t)] = Ret(retType, Unwritten)
      OBVIOUS
    <3>2. Emit(t) /\ hasReturn' = hasReturn
      BY <2>3 DEF EndFunction
    <3>3. IsTerminator(Ret(retType, Unwritten))
      BY DEF IsTerminator, Ret
    <3> HIDE DEF t
    <3>4. Terminated'
      BY <3>1, <3>2, <3>3, LastLine
    <3>5. QED
      BY <2>3, <3>2, <3>4 DEF ReturnKept
  <2>4. CASE NextFunction
    BY <2>4 DEF NextFunction, ReturnKept
  <2>5. CASE UNCHANGED vars
    BY <2>5 DEF vars, ReturnKept, Terminated
  <2>6. QED
    BY <2>1, <2>2, <2>3, <2>4, <2>5
<1>3. ReturnKept => ReturnlessEnd
  BY DEF ReturnKept, ReturnlessEnd
<1>4. QED
  BY <1>1, <1>2, <1>3, TypeCorrect, PTL DEF Spec

----------------------------------------------------------------------------

\* The labels that the emission of a statement made and has still to write.
Owed(f) == IF f.kind = "while" THEN {f.end} ELSE {f.next, f.end}

Apart(f) == f.kind \in {"ifelse", "for", "match", "arm"} => f.next # f.end

\* Why LabelsOnce holds: what an open statement has still to write is in no line yet
\* and no other open statement will write it.
LabelsOwed ==
    /\ \A i \in DOMAIN open : Owed(open[i]) \cap Defined = {} /\ Apart(open[i])
    /\ \A i, j \in DOMAIN open : i # j => Owed(open[i]) \cap Owed(open[j]) = {}

\* The labels among the lines t are in W and differ.
Writes(t, W) ==
    \A i \in DOMAIN t : t[i].op = "label" =>
        /\ t[i].name \in W
        /\ \A j \in DOMAIN t : (t[j].op = "label" /\ t[j].name = t[i].name) => i = j

LEMMA LabelsWritten ==
    ASSUME TypeOK, LabelsOnce, NEW T, NEW t \in Seq(T), Emit(t), NEW W, Writes(t, W),
           W \cap Defined = {}
    PROVE  LabelsOnce' /\ Defined' \subseteq Defined \cup W
<1>1. /\ Len(out) \in Nat /\ Len(t) \in Nat
      /\ DOMAIN out = 1 .. Len(out) /\ DOMAIN t = 1 .. Len(t)
      /\ DOMAIN out' = 1 .. Len(out) + Len(t)
      /\ \A i \in 1 .. Len(out) : out'[i] = out[i]
      /\ \A i \in 1 .. Len(t) : out'[Len(out) + i] = t[i]
  BY EmitLines
<1>2. \A i \in DOMAIN out' :
         \/ i \in DOMAIN out /\ out'[i] = out[i]
         \/ \E k \in DOMAIN t : i = Len(out) + k /\ out'[i] = t[k]
  <2> SUFFICES ASSUME NEW i \in DOMAIN out', i \notin DOMAIN out
               PROVE  \E k \in DOMAIN t : i = Len(out) + k /\ out'[i] = t[k]
    BY <1>1
  <2>1. i - Len(out) \in DOMAIN t /\ i = Len(out) + (i - Len(out))
    BY <1>1
  <2>2. QED
    BY <1>1, <2>1
<1>3. \A i \in DOMAIN out : out[i].op = "label" => out[i].name \in Defined
  BY DEF Defined, Lines
<1>4. \A k \in DOMAIN t : t[k].op = "label" => t[k].name \in W /\ t[k].name \notin Defined
  BY DEF Writes
<1>5. LabelsOnce'
  <2> SUFFICES ASSUME NEW i \in DOMAIN out', NEW j \in DOMAIN out',
                      out'[i].op = "label", out'[i] = out'[j]
               PROVE  i = j
    BY DEF LabelsOnce
  <2>1. CASE i \in DOMAIN out /\ out'[i] = out[i] /\ j \in DOMAIN out /\ out'[j] = out[j]
    BY <2>1 DEF LabelsOnce
  <2>2. CASE i \in DOMAIN out /\ out'[i] = out[i]
             /\ \E k \in DOMAIN t : j = Len(out) + k /\ out'[j] = t[k]
    BY <1>3, <1>4, <2>2
  <2>3. CASE j \in DOMAIN out /\ out'[j] = out[j]
             /\ \E k \in DOMAIN t : i = Len(out) + k /\ out'[i] = t[k]
    BY <1>3, <1>4, <2>3
  <2>4. CASE /\ \E k \in DOMAIN t : i = Len(out) + k /\ out'[i] = t[k]
             /\ \E k \in DOMAIN t : j = Len(out) + k /\ out'[j] = t[k]
    BY <2>4 DEF Writes
  <2>5. QED
    BY <1>2, <2>1, <2>2, <2>3, <2>4
<1>6. Lines' = Lines \cup {t[i] : i \in DOMAIN t}
  BY NewLines
<1>7. Defined' \subseteq Defined \cup W
  BY <1>4, <1>6 DEF Defined
<1>8. QED
  BY <1>5, <1>7

\* A jump ahead of the lines adds no label.
LEMMA JumpNames ==
    ASSUME NEW n, NEW T, NEW t \in Seq(T), NEW W, Writes(t, W)
    PROVE  Writes(JumpTo(n) \o t, W)
<1>1. CASE Terminated
  <2>1. JumpTo(n) \o t = t
    BY <1>1, ConcatEmptySeq DEF JumpTo
  <2>2. QED
    BY <2>1
<1>2. CASE ~ Terminated
  <2> DEFINE S == T \cup {Br(n)}
             u == <<Br(n)>> \o t
  <2>1. t \in Seq(S) /\ Br(n) \in S
    BY SeqGrows
  <2> HIDE DEF S
  <2>2. /\ DOMAIN t = 1 .. Len(t) /\ Len(t) \in Nat
        /\ DOMAIN u = 1 .. Len(t) + 1
        /\ u[1] = Br(n)
        /\ \A i \in 2 .. Len(t) + 1 : u[i] = t[i - 1]
    BY <2>1, PushFrame
  <2>3. Br(n).op # "label"
    BY DEF Br
  <2>4. JumpTo(n) \o t = u
    BY <1>2 DEF JumpTo
  <2> HIDE DEF u
  <2>5. \A i \in DOMAIN u : u[i].op = "label" => i - 1 \in DOMAIN t /\ u[i] = t[i - 1] /\ i \in Nat
    <3> SUFFICES ASSUME NEW i \in DOMAIN u, u[i].op = "label"
                 PROVE  i - 1 \in DOMAIN t /\ u[i] = t[i - 1] /\ i \in Nat
      OBVIOUS
    <3>1. i \in 2 .. Len(t) + 1
      BY <2>2, <2>3
    <3>2. QED
      BY <2>2, <3>1
  <2>6. \A i, j \in DOMAIN u : i - 1 = j - 1 => i = j
    BY <2>2
  <2>7. Writes(u, W)
    BY <2>5, <2>6 DEF Writes
  <2>8. QED
    BY <2>4, <2>7
<1>3. QED
  BY <1>1, <1>2

\* Labels not yet handed out are in no line and no frame.
NewNames == {n \in Nat : n >= counter}

LEMMA NamesUsed ==
    ASSUME TypeOK
    PROVE  /\ NewNames \cap Defined = {}
           /\ \A i \in DOMAIN open : NewNames \cap Owed(open[i]) = {}
<1>1. counter \in Nat /\ NewNames \cap Names(counter) = {}
  BY DEF TypeOK, NewNames, Names
<1>2. ASSUME NEW i \in DOMAIN out, out[i].op = "label" PROVE out[i].name \in Names(counter)
  <2>1. out[i] \in LineType(counter)
    BY <1>2, ElementOfSeq, LenProperties DEF TypeOK
  <2>2. QED
    BY <1>2, <2>1 DEF LineType
<1>3. Defined \subseteq Names(counter)
  BY <1>2 DEF Defined, Lines
<1>4. ASSUME NEW i \in DOMAIN open PROVE Owed(open[i]) \subseteq Names(counter)
  <2>1. open[i] \in FrameType(counter)
    BY ElementOfSeq, LenProperties DEF TypeOK
  <2>2. open[i].next \in Names(counter) /\ open[i].end \in Names(counter)
    BY <2>1 DEF FrameType
  <2>3. QED
    BY <2>2 DEF Owed
<1>5. QED
  BY <1>1, <1>3, <1>4

\* A step keeps k frames, writes labels of the next one or new ones and leaves the
\* rest of them, or other new ones, to the frame it puts there, if it does.
LEMMA OwedStep ==
    ASSUME TypeOK, LabelsOnce, LabelsOwed, NEW T, NEW t \in Seq(T), Emit(t),
           NEW k \in Nat, DOMAIN open \subseteq 1 .. k + 1, DOMAIN open' \subseteq 1 .. k + 1,
           \A i \in 1 .. k : i \in DOMAIN open /\ open'[i] = open[i],
           NEW W, Writes(t, W),
           \A n \in W : n \in NewNames \/ (k + 1 \in DOMAIN open /\ n \in Owed(open[k + 1])),
           NEW f, k + 1 \in DOMAIN open' => open'[k + 1] = f,
           k + 1 \in DOMAIN open' =>
              /\ Apart(f)
              /\ Owed(f) \cap W = {}
              /\ \A n \in Owed(f) :
                    n \in NewNames \/ (k + 1 \in DOMAIN open /\ n \in Owed(open[k + 1]))
    PROVE  LabelsOnce' /\ LabelsOwed'
<1>1. W \cap Defined = {}
  BY NamesUsed DEF LabelsOwed
<1>2. LabelsOnce' /\ Defined' \subseteq Defined \cup W
  BY <1>1, LabelsWritten
<1>3. \A i \in DOMAIN open' : (i \in 1 .. k /\ i # k + 1) \/ (i = k + 1 /\ open'[i] = f)
  OBVIOUS
<1>4. \A i \in 1 .. k : Owed(open[i]) \cap W = {}
  <2> SUFFICES ASSUME NEW i \in 1 .. k, NEW n \in Owed(open[i]), n \in W PROVE FALSE
    OBVIOUS
  <2>1. n \notin NewNames /\ i \in DOMAIN open /\ i # k + 1
    BY NamesUsed
  <2>2. QED
    BY <2>1 DEF LabelsOwed
<1>5. k + 1 \in DOMAIN open' => \A i \in 1 .. k : Owed(open[i]) \cap Owed(f) = {}
  <2> SUFFICES ASSUME k + 1 \in DOMAIN open', NEW i \in 1 .. k, NEW n \in Owed(open[i]),
                      n \in Owed(f)
               PROVE FALSE
    OBVIOUS
  <2>1. n \notin NewNames /\ i \in DOMAIN open /\ i # k + 1
    BY NamesUsed
  <2>2. QED
    BY <2>1 DEF LabelsOwed
<1>6. k + 1 \in DOMAIN open' => Owed(f) \cap Defined = {}
  BY NamesUsed DEF LabelsOwed
<1>7. ASSUME NEW i \in DOMAIN open'
      PROVE  Owed(open'[i]) \cap Defined' = {} /\ Apart(open'[i])
  <2>1. CASE i \in 1 .. k
    BY <1>2, <1>4, <2>1 DEF LabelsOwed
  <2>2. CASE i = k + 1
    BY <1>2, <1>6, <2>2
  <2>3. QED
    BY <1>3, <2>1, <2>2
<1>8. ASSUME NEW i \in DOMAIN open', NEW j \in DOMAIN open', i # j
      PROVE  Owed(open'[i]) \cap Owed(open'[j]) = {}
  <2>1. CASE i \in 1 .. k /\ j \in 1 .. k
    BY <1>8, <2>1 DEF LabelsOwed
  <2>2. CASE i \in 1 .. k /\ j = k + 1
    BY <1>5, <2>2
  <2>3. CASE i = k + 1 /\ j \in 1 .. k
    BY <1>5, <2>3
  <2>4. QED
    BY <1>3, <1>8, <2>1, <2>2, <2>3
<1>9. LabelsOwed'
  <2>1. /\ \A i \in DOMAIN open' : Owed(open'[i]) \cap Defined' = {} /\ Apart(open'[i])
        /\ \A i, j \in DOMAIN open' : i # j => Owed(open'[i]) \cap Owed(open'[j]) = {}
    BY <1>7, <1>8
  <2>2. QED
    BY <2>1 DEF LabelsOwed, Owed, Apart
<1>10. QED
  BY <1>2, <1>9

\* The step that leaves the stack alone, pushes, pops, or replaces the innermost frame.
LEMMA StayOwed ==
    ASSUME TypeOK, LabelsOnce, LabelsOwed, NEW T, NEW t \in Seq(T), Emit(t), open' = open,
           Writes(t, NewNames)
    PROVE  LabelsOnce' /\ LabelsOwed'
<1>1. Len(open) \in Nat /\ DOMAIN open = 1 .. Len(open)
  BY LenProperties DEF TypeOK
<1> DEFINE k == Len(open)
<1>2. /\ k \in Nat /\ DOMAIN open \subseteq 1 .. k + 1 /\ k + 1 \notin DOMAIN open
      /\ \A i \in 1 .. k : i \in DOMAIN open
  BY <1>1
<1> HIDE DEF k
<1>3. DOMAIN open' = DOMAIN open /\ \A i \in 1 .. k : open'[i] = open[i]
  OBVIOUS
<1>4. QED
  BY <1>2, <1>3, OwedStep

LEMMA PushOwed ==
    ASSUME TypeOK, LabelsOnce, LabelsOwed, NEW T, NEW t \in Seq(T), Emit(t),
           NEW f, open' = Append(open, f), NEW W, Writes(t, W), W \subseteq NewNames,
           Apart(f), Owed(f) \subseteq NewNames, Owed(f) \cap W = {}
    PROVE  LabelsOnce' /\ LabelsOwed'
<1> DEFINE S == FrameType(counter) \cup {f}
<1>1. open \in Seq(S) /\ f \in S
  BY SeqGrows DEF TypeOK
<1> HIDE DEF S
<1> DEFINE k == Len(open)
<1>2. /\ k \in Nat /\ DOMAIN open = 1 .. k /\ DOMAIN open' = 1 .. k + 1
      /\ \A i \in 1 .. k : open'[i] = open[i]
      /\ open'[k + 1] = f
  BY <1>1, AppendProperties, LenProperties
<1> HIDE DEF k
<1>3. DOMAIN open \subseteq 1 .. k + 1 /\ \A i \in 1 .. k : i \in DOMAIN open
  BY <1>2
<1>4. QED
  BY <1>2, <1>3, OwedStep

LEMMA PopOwed ==
    ASSUME TypeOK, LabelsOnce, LabelsOwed, NEW T, NEW t \in Seq(T), Emit(t),
           open # <<>>, open' = Below, Writes(t, Owed(Top))
    PROVE  LabelsOnce' /\ LabelsOwed'
<1> DEFINE k == Len(open) - 1
<1>1. /\ DOMAIN open = 1 .. Len(open) /\ Len(open) \in Nat \ {0}
      /\ DOMAIN open' = 1 .. k
      /\ \A i \in 1 .. k : open'[i] = open[i]
      /\ k + 1 = Len(open)
  BY TopType
<1>2. /\ k \in Nat /\ k + 1 \in DOMAIN open /\ k + 1 \notin DOMAIN open'
      /\ DOMAIN open \subseteq 1 .. k + 1 /\ DOMAIN open' \subseteq 1 .. k + 1
      /\ \A i \in 1 .. k : i \in DOMAIN open
  BY <1>1
<1>3. Top = open[k + 1]
  BY <1>1 DEF Top
<1> HIDE DEF k
<1>4. \A n \in Owed(Top) : k + 1 \in DOMAIN open /\ n \in Owed(open[k + 1])
  BY <1>2, <1>3
<1>5. QED
  BY <1>1, <1>2, <1>4, OwedStep

LEMMA ReplaceOwed ==
    ASSUME TypeOK, LabelsOnce, LabelsOwed, NEW T, NEW t \in Seq(T), Emit(t),
           open # <<>>, NEW f, open' = Append(Below, f), NEW W, Writes(t, W),
           W \subseteq NewNames \cup Owed(Top),
           Apart(f), Owed(f) \subseteq NewNames \cup Owed(Top), Owed(f) \cap W = {}
    PROVE  LabelsOnce' /\ LabelsOwed'
<1> DEFINE k == Len(open) - 1
<1>1. /\ Len(open) \in Nat \ {0} /\ DOMAIN open = 1 .. Len(open)
      /\ k + 1 = Len(open)
  BY TopType
<1>2. /\ DOMAIN open' = 1 .. k + 1
      /\ \A i \in 1 .. k : open'[i] = open[i]
      /\ open'[k + 1] = f
  BY <1>1, ReplacedFrames
<1>3. /\ k \in Nat /\ k + 1 \in DOMAIN open
      /\ DOMAIN open \subseteq 1 .. k + 1
      /\ \A i \in 1 .. k : i \in DOMAIN open
  BY <1>1
<1>4. Top = open[k + 1]
  BY <1>1 DEF Top
<1> HIDE DEF k
<1>5. QED
  BY <1>2, <1>3, <1>4, OwedStep

\* The frame of the statement that ends or turns.
LEMMA TopApart ==
    ASSUME TypeOK, LabelsOwed, open # <<>>
    PROVE  Apart(Top)
<1>1. Len(open) \in DOMAIN open
  BY TopType
<1>2. QED
  BY <1>1 DEF LabelsOwed, Top

LEMMA NamesAhead ==
    ASSUME TypeOK, NEW d \in Nat
    PROVE  counter + d \in NewNames
  BY DEF TypeOK, NewNames

LEMMA LeafOwed ==
    ASSUME TypeOK, LabelsOnce, LabelsOwed,
           Simple \/ Return \/ ReturnBare \/ Break \/ Continue \/ BadFor \/ EmptyMatch
    PROVE  LabelsOnce' /\ LabelsOwed'
<1>1. open' = open
  BY DEF Simple, Return, ReturnBare, Break, Continue, BadFor, EmptyMatch
<1>2. CASE out' = out
  BY <1>1, <1>2 DEF LabelsOnce, LabelsOwed, Defined, Lines
<1>3. CASE \E line : Emit(<<line>>) /\ line.op # "label"
  <2>1. PICK line : Emit(<<line>>) /\ line.op # "label"
    BY <1>3
  <2> DEFINE t == <<line>>
  <2>2. t \in Seq({line}) /\ \A i \in DOMAIN t : t[i] = line
    OBVIOUS
  <2> HIDE DEF t
  <2>3. Emit(t)
    BY <2>1 DEF t
  <2>4. Writes(t, NewNames)
    BY <2>1, <2>2 DEF Writes
  <2>5. QED
    BY <1>1, <2>2, <2>3, <2>4, StayOwed
<1>4. CASE Simple \/ Return \/ ReturnBare
  <2>1. \E line : Emit(<<line>>) /\ line.op # "label"
    BY <1>4 DEF Simple, Return, ReturnBare, Code, Ret
  <2>2. QED
    BY <1>3, <2>1
<1>5. CASE Break \/ Continue
  BY <1>2, <1>3, <1>5 DEF Break, Continue, Br
<1>6. CASE BadFor
  BY <1>2, <1>6 DEF BadFor
<1>7. CASE EmptyMatch
  <2> DEFINE t == <<Code(Here("do")), Br(counter), Label(counter)>>
  <2>1. t \in Seq({Code(Here("do")), Br(counter), Label(counter)})
    OBVIOUS
  <2>2. DOMAIN t = 1 .. 3 /\ t[1] = Code(Here("do")) /\ t[2] = Br(counter) /\ t[3] = Label(counter)
    OBVIOUS
  <2>3. Emit(t)
    BY <1>7 DEF EmptyMatch
  <2> HIDE DEF t
  <2>4. t[1].op # "label" /\ t[2].op # "label" /\ t[3].name = counter
    BY <2>2 DEF Code, Br, Label
  <2>5. counter \in NewNames
    BY DEF TypeOK, NewNames
  <2>6. \A i \in DOMAIN t : t[i].op = "label" => i = 3
    BY <2>2, <2>4
  <2>7. Writes(t, NewNames)
    BY <2>4, <2>5, <2>6 DEF Writes
  <2>8. QED
    BY <1>1, <2>1, <2>3, <2>7, StayOwed
<1>8. QED
  BY <1>4, <1>5, <1>6, <1>7

LEMMA IfOwed == ASSUME TypeOK, LabelsOnce, LabelsOwed, If PROVE LabelsOnce' /\ LabelsOwed'
<1>1. PICK kind \in {"if", "ifelse"} : BeginIf(kind)
  BY DEF If
<1> DEFINE else == IF kind = "ifelse" THEN counter + 2 ELSE counter + 1
           test == CondBr(counter, else, Here("test"))
           t == <<test, Label(counter)>>
           f == [kind |-> kind, next |-> else, end |-> counter + 1, back |-> counter + 1,
                 at |-> Len(source) + 1]
<1>2. Emit(t) /\ open' = Append(open, f)
  BY <1>1 DEF BeginIf, Push
<1>3. f.kind = kind /\ f.next = else /\ f.end = counter + 1
  OBVIOUS
<1>4. t \in Seq({test, Label(counter)}) /\ DOMAIN t = 1 .. 2 /\ t[1] = test /\ t[2] = Label(counter)
  OBVIOUS
<1>5. test.op # "label" /\ Label(counter).name = counter
  BY DEF CondBr, Label
<1>6. counter \in Nat
  BY DEF TypeOK
<1>7. /\ else \in {counter + 1, counter + 2} /\ (kind = "ifelse" => else = counter + 2)
      /\ kind # "while" /\ kind \notin {"for", "match", "arm"}
  OBVIOUS
<1> HIDE DEF f, t, test, else
<1>8. Writes(t, {counter})
  BY <1>4, <1>5 DEF Writes
<1>9. /\ Apart(f) /\ Owed(f) \subseteq {counter + 1, counter + 2}
  BY <1>3, <1>6, <1>7 DEF Apart, Owed
<1>10. /\ {counter} \subseteq NewNames /\ {counter + 1, counter + 2} \subseteq NewNames
       /\ counter \notin {counter + 1, counter + 2}
  BY <1>6 DEF NewNames
<1>11. QED
  BY <1>2, <1>4, <1>8, <1>9, <1>10, PushOwed

LEMMA BeginWhileOwed ==
    ASSUME TypeOK, LabelsOnce, LabelsOwed, BeginWhile PROVE LabelsOnce' /\ LabelsOwed'
<1> DEFINE body == counter + 1
           end == counter + 2
           test == CondBr(body, end, Here("test"))
           t == <<Br(counter), Label(counter), test, Label(body)>>
           f == [kind |-> "while", next |-> counter, end |-> end, back |-> counter,
                 at |-> Len(source) + 1]
<1>1. Emit(t) /\ open' = Append(open, f)
  BY DEF BeginWhile, Push
<1>2. /\ t \in Seq({Br(counter), Label(counter), test, Label(body)})
      /\ DOMAIN t = 1 .. 4
      /\ t[1] = Br(counter) /\ t[2] = Label(counter) /\ t[3] = test /\ t[4] = Label(body)
  OBVIOUS
<1>3. f.kind = "while" /\ f.end = end
  OBVIOUS
<1>4. /\ Br(counter).op # "label" /\ test.op # "label"
      /\ Label(counter).name = counter /\ Label(body).name = body
  BY DEF Br, CondBr, Label
<1>5. counter \in Nat
  BY DEF TypeOK
<1>6. /\ {counter, body} \subseteq NewNames /\ end \in NewNames
      /\ counter # body /\ end \notin {counter, body}
  BY <1>5 DEF NewNames
<1> HIDE DEF f, t, test, end, body
<1>7. Writes(t, {counter, body})
  BY <1>2, <1>4, <1>6 DEF Writes
<1>8. Apart(f) /\ Owed(f) = {end}
  BY <1>3 DEF Apart, Owed
<1>9. QED
  BY <1>1, <1>2, <1>6, <1>7, <1>8, PushOwed

LEMMA BeginForOwed ==
    ASSUME TypeOK, LabelsOnce, LabelsOwed, BeginFor PROVE LabelsOnce' /\ LabelsOwed'
<1> DEFINE body == counter + 1
           inc == counter + 2
           end == counter + 3
           enter == Code(Here("enter"))
           test == CondBr(body, end, Here("test"))
           t == <<enter, Br(counter), Label(counter), test, Label(body)>>
           f == [kind |-> "for", next |-> inc, end |-> end, back |-> counter,
                 at |-> Len(source) + 1]
<1>1. Emit(t) /\ open' = Append(open, f)
  BY DEF BeginFor, Push
<1>2. /\ t \in Seq({enter, Br(counter), Label(counter), test, Label(body)})
      /\ DOMAIN t = 1 .. 5
      /\ t[1] = enter /\ t[2] = Br(counter) /\ t[3] = Label(counter) /\ t[4] = test
      /\ t[5] = Label(body)
  OBVIOUS
<1>3. f.kind = "for" /\ f.next = inc /\ f.end = end
  OBVIOUS
<1>4. /\ Br(counter).op # "label" /\ test.op # "label" /\ enter.op # "label"
      /\ Label(counter).name = counter /\ Label(body).name = body
  BY DEF Br, CondBr, Label, Code
<1>5. counter \in Nat
  BY DEF TypeOK
<1>6. /\ {counter, body} \subseteq NewNames /\ {inc, end} \subseteq NewNames
      /\ counter # body /\ inc # end /\ {inc, end} \cap {counter, body} = {}
  BY <1>5 DEF NewNames
<1> HIDE DEF f, t, test, enter, inc, end, body
<1>7. Writes(t, {counter, body})
  BY <1>2, <1>4, <1>6 DEF Writes
<1>8. Apart(f) /\ Owed(f) = {inc, end}
  BY <1>3, <1>6 DEF Apart, Owed
<1>9. QED
  BY <1>1, <1>2, <1>6, <1>7, <1>8, PushOwed

LEMMA BeginMatchOwed ==
    ASSUME TypeOK, LabelsOnce, LabelsOwed, BeginMatch PROVE LabelsOnce' /\ LabelsOwed'
<1> DEFINE next == counter + 1
           enter == Code(Here("enter"))
           t == <<enter, Br(next)>>
           f == [kind |-> "match", next |-> next, end |-> counter, back |-> counter,
                 at |-> Len(source) + 1]
<1>1. Emit(t) /\ open' = Append(open, f)
  BY DEF BeginMatch, Push
<1>2. t \in Seq({enter, Br(next)}) /\ DOMAIN t = 1 .. 2 /\ t[1] = enter /\ t[2] = Br(next)
  OBVIOUS
<1>3. f.kind = "match" /\ f.next = next /\ f.end = counter
  OBVIOUS
<1>4. enter.op # "label" /\ Br(next).op # "label"
  BY DEF Code, Br
<1>5. {counter, next} \subseteq NewNames /\ counter # next
  BY DEF TypeOK, NewNames
<1> HIDE DEF f, t, enter, next
<1>6. Writes(t, {})
  BY <1>2, <1>4 DEF Writes
<1>7. Apart(f) /\ Owed(f) = {next, counter}
  BY <1>3, <1>5 DEF Apart, Owed
<1>8. QED
  BY <1>1, <1>2, <1>5, <1>6, <1>7, PushOwed

LEMMA ElseOwed == ASSUME TypeOK, LabelsOnce, LabelsOwed, Else PROVE LabelsOnce' /\ LabelsOwed'
<1> DEFINE f == [Top EXCEPT !.kind = "else", !.next = Top.end]
           t == <<Label(Top.next)>>
           u == JumpTo(Top.end) \o t
<1>1. open # <<>> /\ Emit(u) /\ open' = Append(Below, f) /\ Top.kind = "ifelse"
  BY DEF Else
<1>2. Top \in FrameType(counter)
  BY <1>1, TopType
<1>3. f.kind = "else" /\ f.next = Top.end /\ f.end = Top.end
  BY <1>2 DEF FrameType
<1>4. t \in Seq({Label(Top.next)}) /\ DOMAIN t = 1 .. 1 /\ t[1] = Label(Top.next)
  OBVIOUS
<1>5. Label(Top.next).name = Top.next
  BY DEF Label
<1> HIDE DEF f, t
<1>6. Writes(t, {Top.next})
  BY <1>4, <1>5 DEF Writes
<1>7. u \in Seq({Label(Top.next)} \cup {Br(Top.end)}) /\ Writes(u, {Top.next})
  BY <1>4, <1>6, JumpSeq, JumpNames
<1> HIDE DEF u
<1>8. Top.next # Top.end
  BY <1>1, TopApart DEF Apart
<1>9. Owed(Top) = {Top.next, Top.end} /\ Owed(f) = {Top.end} /\ Apart(f)
  BY <1>1, <1>3 DEF Owed, Apart
<1>10. QED
  BY <1>1, <1>7, <1>8, <1>9, ReplaceOwed

LEMMA EndIfOwed ==
    ASSUME TypeOK, LabelsOnce, LabelsOwed, EndIf \/ EndWhile PROVE LabelsOnce' /\ LabelsOwed'
<1> DEFINE t == <<Label(Top.end)>>
<1>1. PICK n : Emit(JumpTo(n) \o t)
  BY DEF EndIf, EndWhile
<1>2. open # <<>> /\ open' = Below
  BY DEF EndIf, EndWhile, Pop
<1>3. t \in Seq({Label(Top.end)}) /\ DOMAIN t = 1 .. 1 /\ t[1] = Label(Top.end)
  OBVIOUS
<1>4. Label(Top.end).name = Top.end /\ Top.end \in Owed(Top)
  BY DEF Label, Owed
<1> HIDE DEF t
<1>5. Writes(t, Owed(Top))
  BY <1>3, <1>4 DEF Writes
<1> DEFINE u == JumpTo(n) \o t
<1>6. u \in Seq({Label(Top.end)} \cup {Br(n)}) /\ Writes(u, Owed(Top)) /\ Emit(u)
  BY <1>1, <1>3, <1>5, JumpSeq, JumpNames
<1> HIDE DEF u
<1>7. QED
  BY <1>2, <1>6, PopOwed

LEMMA EndForOwed == ASSUME TypeOK, LabelsOnce, LabelsOwed, EndFor PROVE LabelsOnce' /\ LabelsOwed'
<1> DEFINE step == Code(<<Top.at, "step">>)
           t == <<Label(Top.next), step, Br(Top.back), Label(Top.end)>>
           T == {Label(Top.next), step, Br(Top.back), Label(Top.end)}
           u == JumpTo(Top.next) \o t
<1>1. open # <<>> /\ Emit(u) /\ open' = Below /\ Top.kind = "for"
  BY DEF EndFor, Pop
<1>2. /\ t \in Seq(T) /\ DOMAIN t = 1 .. 4
      /\ t[1] = Label(Top.next) /\ t[2] = step /\ t[3] = Br(Top.back) /\ t[4] = Label(Top.end)
  OBVIOUS
<1>3. /\ Label(Top.next).name = Top.next /\ Label(Top.end).name = Top.end
      /\ step.op # "label" /\ Br(Top.back).op # "label"
  BY DEF Label, Code, Br
<1>4. Top.next # Top.end /\ Owed(Top) = {Top.next, Top.end}
  BY <1>1, TopApart DEF Apart, Owed
<1> HIDE DEF t, T, step
<1>5. Writes(t, Owed(Top))
  BY <1>2, <1>3, <1>4 DEF Writes
<1>6. u \in Seq(T \cup {Br(Top.next)}) /\ Writes(u, Owed(Top))
  BY <1>2, <1>5, JumpSeq, JumpNames
<1> HIDE DEF u
<1>7. QED
  BY <1>1, <1>6, PopOwed

LEMMA ArmOwed == ASSUME TypeOK, LabelsOnce, LabelsOwed, Arm PROVE LabelsOnce' /\ LabelsOwed'
<1>1. PICK kind \in {"arm", "wild"} : BeginArm(kind)
  BY DEF Arm
<1> DEFINE fall == counter + 1
           f == [Top EXCEPT !.kind = "arm", !.next = fall]
           test == CondBr(counter, fall, Here("test"))
           jump == IF kind = "wild" THEN Br(counter) ELSE test
           t == <<Label(Top.next), jump, Label(counter)>>
<1>2. open # <<>> /\ Emit(t) /\ open' = Append(Below, f) /\ Top.kind = "match"
  BY <1>1 DEF BeginArm
<1>3. Top \in FrameType(counter)
  BY <1>2, TopType
<1>4. f.kind = "arm" /\ f.next = fall /\ f.end = Top.end
  BY <1>3 DEF FrameType
<1>5. /\ t \in Seq({Label(Top.next), jump, Label(counter)}) /\ DOMAIN t = 1 .. 3
      /\ t[1] = Label(Top.next) /\ t[2] = jump /\ t[3] = Label(counter)
  OBVIOUS
<1>6. /\ jump.op # "label"
      /\ Label(Top.next).name = Top.next /\ Label(counter).name = counter
  BY DEF Br, CondBr, Label
<1>7. /\ {counter, fall} \subseteq NewNames /\ counter # fall
  BY DEF TypeOK, NewNames
<1> HIDE DEF t, jump, test, f, fall
<1>8. Top.next # Top.end /\ Owed(Top) = {Top.next, Top.end}
  BY <1>2, TopApart DEF Apart, Owed
<1>9. NewNames \cap Owed(Top) = {}
  <2>1. Len(open) \in DOMAIN open
    BY <1>2, TopType
  <2>2. QED
    BY <2>1, NamesUsed DEF Top
<1>10. Owed(f) = {fall, Top.end} /\ Apart(f)
  BY <1>4, <1>7, <1>8, <1>9 DEF Owed, Apart
<1>11. Writes(t, {Top.next, counter})
  BY <1>5, <1>6, <1>7, <1>8, <1>9 DEF Writes
<1>12. Owed(f) \cap {Top.next, counter} = {}
  BY <1>7, <1>8, <1>9, <1>10
<1>13. /\ {Top.next, counter} \subseteq NewNames \cup Owed(Top)
       /\ Owed(f) \subseteq NewNames \cup Owed(Top)
  BY <1>7, <1>8, <1>10
<1>14. QED
  BY <1>2, <1>5, <1>10, <1>11, <1>12, <1>13, ReplaceOwed

\* At most one line, x.
LEMMA FewLines ==
    ASSUME NEW x, NEW t, t = <<>> \/ t = <<x>>
    PROVE  t \in Seq({x}) /\ \A i \in DOMAIN t : t[i] = x
<1>1. <<>> \in Seq({x}) /\ DOMAIN <<>> = {}
  OBVIOUS
<1>2. <<x>> \in Seq({x}) /\ DOMAIN <<x>> = {1} /\ <<x>>[1] = x
  OBVIOUS
<1>3. CASE t = <<>>
  BY <1>1, <1>3
<1>4. CASE t = <<x>>
  BY <1>2, <1>4
<1>5. QED
  BY <1>3, <1>4

LEMMA EndArmOwed == ASSUME TypeOK, LabelsOnce, LabelsOwed, EndArm PROVE LabelsOnce' /\ LabelsOwed'
<1> DEFINE f == [Top EXCEPT !.kind = "match"]
           u == JumpTo(Top.end)
<1>1. open # <<>> /\ Emit(u) /\ open' = Append(Below, f) /\ Top.kind = "arm"
  BY DEF EndArm
<1>2. Top \in FrameType(counter)
  BY <1>1, TopType
<1>3. f.kind = "match" /\ f.next = Top.next /\ f.end = Top.end
  BY <1>2 DEF FrameType
<1>4. JumpTo(Top.end) = <<>> \/ JumpTo(Top.end) = <<Br(Top.end)>>
  BY DEF JumpTo
<1>5. u \in Seq({Br(Top.end)}) /\ \A i \in DOMAIN u : u[i] = Br(Top.end)
  BY <1>4, FewLines
<1>6. Br(Top.end).op # "label"
  BY DEF Br
<1> HIDE DEF f, u
<1>7. Writes(u, {})
  BY <1>5, <1>6 DEF Writes
<1>8. Owed(f) = Owed(Top) /\ Apart(f)
  BY <1>1, <1>3, TopApart DEF Owed, Apart
<1>9. QED
  BY <1>1, <1>5, <1>7, <1>8, ReplaceOwed

LEMMA EndMatchOwed ==
    ASSUME TypeOK, LabelsOnce, LabelsOwed, EndMatch PROVE LabelsOnce' /\ LabelsOwed'
<1> DEFINE ret == Ret("i32", Unwritten)
           t == <<Label(Top.next), Br(Top.end), Label(Top.end), ret>>
<1>1. open # <<>> /\ Emit(t) /\ open' = Below /\ Top.kind = "match"
  BY DEF EndMatch, Pop
<1>2. /\ t \in Seq({Label(Top.next), Br(Top.end), Label(Top.end), ret}) /\ DOMAIN t = 1 .. 4
      /\ t[1] = Label(Top.next) /\ t[2] = Br(Top.end) /\ t[3] = Label(Top.end) /\ t[4] = ret
  OBVIOUS
<1>3. /\ Label(Top.next).name = Top.next /\ Label(Top.end).name = Top.end
      /\ Br(Top.end).op # "label" /\ ret.op # "label"
  BY DEF Label, Br, Ret
<1>4. Top.next # Top.end /\ Owed(Top) = {Top.next, Top.end}
  BY <1>1, TopApart DEF Apart, Owed
<1> HIDE DEF t, ret
<1>5. Writes(t, Owed(Top))
  BY <1>2, <1>3, <1>4 DEF Writes
<1>6. QED
  BY <1>1, <1>2, <1>5, PopOwed

LEMMA EndFunctionOwed ==
    ASSUME TypeOK, LabelsOnce, LabelsOwed, EndFunction PROVE LabelsOnce' /\ LabelsOwed'
<1> DEFINE ret == Ret(retType, Unwritten)
           t == IF hasReturn THEN <<>> ELSE <<ret>>
<1>1. Emit(t) /\ open' = open
  BY DEF EndFunction
<1>2. t = <<>> \/ t = <<ret>>
  OBVIOUS
<1>3. t \in Seq({ret}) /\ \A i \in DOMAIN t : t[i] = ret
  BY <1>2, FewLines
<1>4. ret.op # "label"
  BY DEF Ret
<1> HIDE DEF t, ret
<1>5. Writes(t, NewNames)
  BY <1>3, <1>4 DEF Writes
<1>6. QED
  BY <1>1, <1>3, <1>5, StayOwed

\* Every label is written at most once, whatever the statements that made the labels
\* are nested in.
THEOREM EveryLabelOnce == Spec => []LabelsOnce
<1> DEFINE Inv == LabelsOnce /\ LabelsOwed
<1>1. Init => Inv
  <2> SUFFICES ASSUME Init PROVE Inv
    OBVIOUS
  <2>1. out = <<Label(0)>> /\ open = <<>>
    BY DEF Init
  <2>2. DOMAIN out = {1} /\ DOMAIN open = {}
    BY <2>1
  <2>3. QED
    BY <2>2 DEF LabelsOnce, LabelsOwed
<1>2. TypeOK /\ Inv /\ [Next]_vars => Inv'
  <2> SUFFICES ASSUME TypeOK, LabelsOnce, LabelsOwed, [Next]_vars PROVE Inv'
    OBVIOUS
  <2>1. CASE Next /\ ~ NextFunction
    BY <2>1, LeafOwed, IfOwed, ElseOwed, EndIfOwed, BeginWhileOwed, BeginForOwed, EndForOwed,
       BeginMatchOwed, ArmOwed, EndArmOwed, EndMatchOwed, EndFunctionOwed DEF Next
  <2>2. CASE NextFunction
    <3>1. out' = <<Label(0)>> /\ open' = <<>>
      BY <2>2 DEF NextFunction
    <3>2. DOMAIN out' = {1} /\ DOMAIN open' = {}
      BY <3>1
    <3>3. QED
      BY <3>2 DEF LabelsOnce, LabelsOwed
  <2>3. CASE UNCHANGED vars
    BY <2>3 DEF vars, LabelsOnce, LabelsOwed, Defined, Lines
  <2>4. QED
    BY <2>1, <2>2, <2>3
<1>3. QED
  BY <1>1, <1>2, TypeCorrect, PTL DEF Spec

-----------------------------------------------------------------------------
(* ModuleAssembly.  A module is made of selections from the program, put   *)
(* one after the other.                                                    *)

\* t consists of the elements of s at the positions P, in their order.
Picks(s, P, t, T) ==
    /\ t \in Seq(T)
    /\ \E at \in [1..Len(t) -> P] :
          /\ \A k \in 1..Len(t) : t[k] = s[at[k]]
          /\ \A j, k \in 1..Len(t) : j < k => at[j] < at[k]
          /\ \A p \in P : \E k \in 1..Len(t) : at[k] = p

\* One more element is selected or not.
LEMMA PicksOneMore ==
    ASSUME NEW T, NEW s \in Seq(T), NEW P, P \subseteq 1..Len(s), NEW i \in 1..Len(s),
           NEW t, Picks(s, P \cap (1..i - 1), t, T)
    PROVE  Picks(s, P \cap (1..i), IF i \in P THEN Append(t, s[i]) ELSE t, T)
<1>1. CASE i \notin P
  <2>1. P \cap (1..i) = P \cap (1..i - 1)
    BY <1>1
  <2>2. QED
    BY <1>1, <2>1
<1>2. CASE i \in P
  <2> DEFINE Q == P \cap (1..i - 1)
             R == P \cap (1..i)
             n == Len(t)
             u == Append(t, s[i])
  <2>1. PICK at \in [1..n -> Q] :
          /\ \A k \in 1..n : t[k] = s[at[k]]
          /\ \A j, k \in 1..n : j < k => at[j] < at[k]
          /\ \A p \in Q : \E k \in 1..n : at[k] = p
    BY DEF Picks
  <2>2. t \in Seq(T) /\ n \in Nat /\ s[i] \in T /\ i \in Nat
    BY LenProperties DEF Picks
  <2>3. /\ u \in Seq(T) /\ Len(u) = n + 1
        /\ \A k \in 1..n : u[k] = t[k]
        /\ u[n + 1] = s[i]
    BY <2>2, AppendProperties
  <2> DEFINE h == [k \in 1..n + 1 |-> IF k = n + 1 THEN i ELSE at[k]]
  <2>4. \A k \in 1..n : at[k] \in Q /\ at[k] \in R /\ at[k] < i /\ h[k] = at[k] /\ k # n + 1
    <3> SUFFICES ASSUME NEW k \in 1..n PROVE at[k] \in Q /\ at[k] \in R /\ at[k] < i /\ h[k] = at[k] /\ k # n + 1
      OBVIOUS
    <3>1. at[k] \in Q
      BY <2>1
    <3>2. k \in 1..n + 1 /\ k # n + 1
      BY <2>2
    <3>3. h[k] = at[k]
      BY <3>2
    <3>4. at[k] \in P /\ at[k] \in 1..i - 1
      BY <3>1
    <3>5. at[k] \in 1..i /\ at[k] < i
      BY <2>2, <3>4
    <3>6. QED
      BY <3>1, <3>2, <3>3, <3>4, <3>5
  <2>5. h[n + 1] = i /\ i \in R
    BY <1>2, <2>2
  <2>6. h \in [1..n + 1 -> R]
    <3>1. \A k \in 1..n + 1 : k # n + 1 => k \in 1..n
      BY <2>2
    <3>2. QED
      BY <2>4, <2>5, <3>1
  <2> HIDE DEF h, u, Q, R
  <2>7. \A k \in 1..n + 1 : k \in 1..n \/ k = n + 1
    BY <2>2
  <2>8. \A k \in 1..n + 1 : u[k] = s[h[k]]
    BY <2>1, <2>3, <2>4, <2>5, <2>7
  <2>9. ASSUME NEW j \in 1..n + 1, NEW k \in 1..n + 1, j < k PROVE h[j] < h[k]
    <3>1. j \in 1..n
      BY <2>2, <2>9
    <3>2. CASE k \in 1..n
      BY <2>1, <2>4, <2>9, <3>1, <3>2
    <3>3. CASE k = n + 1
      BY <2>4, <2>5, <3>1, <3>3
    <3>4. QED
      BY <2>7, <3>2, <3>3
  <2>10. ASSUME NEW p \in R PROVE \E k \in 1..n + 1 : h[k] = p
    <3>1. CASE p = i
      BY <2>2, <2>5, <3>1
    <3>2. CASE p # i
      <4>1. p \in Q
        BY <2>2, <3>2 DEF Q, R
      <4>2. PICK k \in 1..n : at[k] = p
        BY <2>1, <4>1
      <4>3. k \in 1..n + 1
        BY <2>2
      <4>4. QED
        BY <2>4, <4>2, <4>3
    <3>3. QED
      BY <3>1, <3>2
  <2> DEFINE m == n + 1
  <2>13. Len(u) = m /\ u \in Seq(T)
    BY <2>3
  <2>14. /\ h \in [1..m -> R]
         /\ \A k \in 1..m : u[k] = s[h[k]]
         /\ \A j, k \in 1..m : j < k => h[j] < h[k]
         /\ \A p \in R : \E k \in 1..m : h[k] = p
    BY <2>6, <2>8, <2>9, <2>10
  <2> HIDE DEF m
  <2>11. Picks(s, R, u, T)
    BY <2>13, <2>14, Zenon DEF Picks
  <2>12. QED
    BY <1>2, <2>11 DEF R, u
<1>3. QED
  BY <1>1, <1>2

\* A selection does.
LEMMA Selected ==
    ASSUME NEW T, NEW s \in Seq(T), NEW P, P \subseteq 1..Len(s)
    PROVE  Picks(s, P, Selection(s, P), T)
<1> DEFINE N == Len(s)
           Body(f) == [i \in 0..N |-> IF i = 0 THEN <<>>
                                      ELSE IF i \in P THEN Append(f[i - 1], s[i]) ELSE f[i - 1]]
           upTo == CHOOSE f : f = Body(f)
           G == [p \in (1..N) \X Seq(T) |-> IF p[1] \in P THEN Append(p[2], s[p[1]]) ELSE p[2]]
<1>1. N \in Nat /\ \A i \in 1..N : s[i] \in T
  BY LenProperties
<1>2. G \in [(1..N) \X Seq(T) -> Seq(T)]
  <2>1. ASSUME NEW p \in (1..N) \X Seq(T) PROVE (IF p[1] \in P THEN Append(p[2], s[p[1]]) ELSE p[2]) \in Seq(T)
    <3>1. p[1] \in 1..N /\ p[2] \in Seq(T) /\ s[p[1]] \in T
      BY <1>1
    <3>2. Append(p[2], s[p[1]]) \in Seq(T)
      BY <3>1, AppendProperties
    <3>3. QED
      BY <3>1, <3>2
  <2>2. QED
    BY <2>1
<1>3. \E f : f = Body(f)
  <2> DEFINE X == Seq(T)
             x == << >>
  <2>1. x \in X
    OBVIOUS
  <2>6. G \in [(1..N) \X X -> X] /\ N \in Nat
    BY <1>1, <1>2
  <2> HIDE DEF G, N, X, x
  <2>2. PICK g \in [0..N -> X] : g[0] = x /\ \A i \in 1..N : g[i] = G[<<i, g[i - 1]>>]
    <3>1. Iterates(N, X, x, G)
      BY <2>1, <2>6, Iterated
    <3>2. QED
      BY <3>1 DEF Iterates
  <2>3. ASSUME NEW i \in 0..N PROVE g[i] = IF i = 0 THEN <<>>
                                          ELSE IF i \in P THEN Append(g[i - 1], s[i]) ELSE g[i - 1]
    <3>1. CASE i = 0
      BY <2>2, <3>1 DEF x
    <3>2. CASE i # 0
      <4>1. i \in 1..N /\ i - 1 \in 0..N
        BY <2>6, <3>2
      <4>2. g[i - 1] \in Seq(T) /\ <<i, g[i - 1]>> \in (1..N) \X Seq(T)
        BY <2>2, <4>1 DEF X
      <4>3. G[<<i, g[i - 1]>>] = IF i \in P THEN Append(g[i - 1], s[i]) ELSE g[i - 1]
        BY <4>2 DEF G
      <4>4. QED
        BY <2>2, <3>2, <4>1, <4>3
    <3>3. QED
      BY <3>1, <3>2
  <2>4. g = Body(g)
    BY <2>2, <2>3
  <2> HIDE DEF Body
  <2>5. QED
    BY <2>4
<1>4. upTo = Body(upTo)
  <2> HIDE DEF Body
  <2>1. QED
    BY <1>3
<1> HIDE DEF upTo, G
<1>5. /\ upTo[0] = <<>>
      /\ \A i \in 1..N : upTo[i] = IF i \in P THEN Append(upTo[i - 1], s[i]) ELSE upTo[i - 1]
  <2>1. \A i \in 0..N : upTo[i] = IF i = 0 THEN <<>>
                                  ELSE IF i \in P THEN Append(upTo[i - 1], s[i]) ELSE upTo[i - 1]
    BY <1>4
  <2>2. \A i \in 1..N : i \in 0..N /\ i # 0
    BY <1>1
  <2>3. 0 \in 0..N
    BY <1>1
  <2> HIDE DEF N
  <2>4. QED
    BY <2>1, <2>2, <2>3
<1>6. Selection(s, P) = upTo[N]
  BY DEF Selection, upTo
<1> HIDE DEF Body, N
<1> DEFINE S == {i \in 0..N : Picks(s, P \cap (1..i), upTo[i], T)}
<1>7. 0 \in S
  <2>1. Picks(s, P \cap (1..0), <<>>, T)
    <3>1. P \cap (1..0) = {}
      OBVIOUS
    <3>2. Picks(s, {}, <<>>, T)
      <4>1. <<>> \in Seq(T) /\ Len(<<>>) = 0 /\ 1..0 = {}
        OBVIOUS
      <4>2. [k \in {} |-> 0] \in [{} -> {}]
        OBVIOUS
      <4>3. \E at \in [{} -> {}] : TRUE
        BY <4>2
      <4>4. QED
        BY <4>1, <4>3 DEF Picks
    <3>3. QED
      BY <3>1, <3>2
  <2>2. QED
    BY <1>1, <1>5, <2>1
<1>8. ASSUME NEW i \in 0 + 1 .. N, i - 1 \in S PROVE i \in S
  <2>1. i \in 1..N /\ i \in 0..N /\ i \in 1..Len(s)
    BY <1>1 DEF N
  <2>2. Picks(s, P \cap (1..i - 1), upTo[i - 1], T)
    BY <1>8
  <2>3. Picks(s, P \cap (1..i), IF i \in P THEN Append(upTo[i - 1], s[i]) ELSE upTo[i - 1], T)
    BY <2>1, <2>2, PicksOneMore
  <2>4. QED
    BY <1>5, <2>1, <2>3
<1>9. N \in S
  <2> HIDE DEF S
  <2>1. \A i \in 0 + 1 .. N : i - 1 \in S => i \in S
    BY <1>8
  <2>2. 0..N \subseteq S
    BY <1>1, <1>7, <2>1, Along
  <2>3. QED
    BY <1>1, <2>2
<1>10. P \cap (1..N) = P
  BY DEF N
<1>11. QED
  BY <1>6, <1>9, <1>10

\* A bounded set of positions that is not empty has a greatest element.
LEMMA GreatestElement ==
    ASSUME NEW n \in Nat, NEW T, T \subseteq 1..n, T # {}
    PROVE  \E x \in T : \A y \in T : y <= x
<1> DEFINE U == {n - x : x \in T}
<1>1. U \subseteq Nat /\ U # {}
  <2>1. ASSUME NEW x \in T PROVE n - x \in Nat
    <3>1. x \in 1..n
      OBVIOUS
    <3>2. QED
      BY <3>1
  <2>2. QED
    BY <2>1
<1>2. PICK u \in U : \A v \in U : u <= v
  <2> HIDE DEF U
  <2>1. QED
    BY <1>1, LeastElement
<1>3. PICK x \in T : u = n - x
  BY <1>2
<1>4. ASSUME NEW y \in T PROVE y <= x
  <2>1. n - y \in U /\ x \in Nat /\ y \in Nat
    OBVIOUS
  <2>2. n - x <= n - y
    BY <1>2, <1>3, <2>1
  <2>3. QED
    BY <2>1, <2>2
<1>5. QED
  BY <1>4

\* What a concatenation consists of; it repeats nothing if neither part does and
\* they share nothing.
LEMMA JoinRange ==
    ASSUME NEW S, NEW a \in Seq(S), NEW b \in Seq(S)
    PROVE  /\ a \o b \in Seq(S)
           /\ Range(a \o b) = Range(a) \cup Range(b)
           /\ IsInjective(a \o b) <=> IsInjective(a) /\ IsInjective(b) /\ Range(a) \cap Range(b) = {}
<1> DEFINE m == Len(a)
           n == Len(b)
           c == a \o b
<1>1. /\ m \in Nat /\ DOMAIN a = 1..m
      /\ n \in Nat /\ DOMAIN b = 1..n
      /\ DOMAIN c = 1..(m + n)
      /\ \A k \in 1..(m + n) : c[k] = IF k <= m THEN a[k] ELSE b[k - m]
  BY JoinElements
<1>2. c \in Seq(S)
  BY ConcatProperties
<1> HIDE DEF m, n, c
<1>3. \A k \in 1..m : k \in 1..(m + n) /\ c[k] = a[k]
  BY <1>1
<1>4. \A k \in 1..n : k + m \in 1..(m + n) /\ c[k + m] = b[k]
  <2> SUFFICES ASSUME NEW k \in 1..n PROVE k + m \in 1..(m + n) /\ c[k + m] = b[k]
    OBVIOUS
  <2>1. k + m \in 1..(m + n) /\ ~(k + m <= m) /\ (k + m) - m = k
    BY <1>1
  <2>2. QED
    BY <1>1, <2>1
<1>5. \A k \in 1..(m + n) : k \in 1..m \/ \E j \in 1..n : k = j + m
  <2> SUFFICES ASSUME NEW k \in 1..(m + n), k \notin 1..m PROVE \E j \in 1..n : k = j + m
    OBVIOUS
  <2>1. k - m \in 1..n /\ k = (k - m) + m
    BY <1>1
  <2>2. QED
    BY <2>1
<1>6. Range(c) = Range(a) \cup Range(b)
  <2>1. ASSUME NEW x \in Range(c) PROVE x \in Range(a) \cup Range(b)
    <3>1. PICK k \in 1..(m + n) : x = c[k]
      BY <1>1 DEF Range
    <3>2. CASE k \in 1..m
      BY <1>1, <1>3, <3>1, <3>2 DEF Range
    <3>3. CASE \E j \in 1..n : k = j + m
      BY <1>1, <1>4, <3>1, <3>3 DEF Range
    <3>4. QED
      BY <1>5, <3>2, <3>3
  <2>2. ASSUME NEW x \in Range(a) PROVE x \in Range(c)
    BY <1>1, <1>3 DEF Range
  <2>3. ASSUME NEW x \in Range(b) PROVE x \in Range(c)
    BY <1>1, <1>4 DEF Range
  <2>4. QED
    BY <2>1, <2>2, <2>3
<1>7. ASSUME IsInjective(c)
      PROVE  IsInjective(a) /\ IsInjective(b) /\ Range(a) \cap Range(b) = {}
  <2>1. IsInjective(a)
    BY <1>1, <1>3, <1>7 DEF IsInjective
  <2>2. ASSUME NEW i \in 1..n, NEW j \in 1..n, b[i] = b[j] PROVE i = j
    <3>1. i + m = j + m
      BY <1>1, <1>4, <1>7, <2>2 DEF IsInjective
    <3>2. QED
      BY <1>1, <3>1
  <2>3. ASSUME NEW x \in Range(a), x \in Range(b) PROVE FALSE
    <3>1. PICK i \in 1..m : x = a[i]
      BY <1>1 DEF Range
    <3>2. PICK j \in 1..n : x = b[j]
      BY <1>1, <2>3 DEF Range
    <3>3. i = j + m
      <4>1. i \in 1..(m + n) /\ j + m \in 1..(m + n) /\ c[i] = c[j + m]
        BY <1>3, <1>4, <3>1, <3>2
      <4>2. QED
        BY <1>1, <1>7, <4>1 DEF IsInjective
    <3>4. QED
      BY <1>1, <3>3
  <2>4. QED
    BY <1>1, <2>1, <2>2, <2>3 DEF IsInjective
<1>8. ASSUME IsInjective(a), IsInjective(b), Range(a) \cap Range(b) = {}
      PROVE  IsInjective(c)
  <2>1. ASSUME NEW i \in 1..(m + n), NEW j \in 1..(m + n), c[i] = c[j] PROVE i = j
    <3>1. CASE i \in 1..m /\ j \in 1..m
      BY <1>1, <1>3, <1>8, <2>1, <3>1 DEF IsInjective
    <3>2. CASE i \in 1..m /\ \E k \in 1..n : j = k + m
      BY <1>1, <1>3, <1>4, <1>8, <2>1, <3>2 DEF Range
    <3>3. CASE j \in 1..m /\ \E k \in 1..n : i = k + m
      BY <1>1, <1>3, <1>4, <1>8, <2>1, <3>3 DEF Range
    <3>4. CASE (\E k \in 1..n : i = k + m) /\ (\E k \in 1..n : j = k + m)
      <4>1. PICK k \in 1..n : i = k + m
        BY <3>4
      <4>2. PICK l \in 1..n : j = l + m
        BY <3>4
      <4>3. b[k] = b[l]
        BY <1>4, <2>1, <4>1, <4>2
      <4>4. k = l
        BY <1>1, <1>8, <4>3 DEF IsInjective
      <4>5. QED
        BY <4>1, <4>2, <4>4
    <3>5. QED
      BY <1>5, <3>1, <3>2, <3>3, <3>4
  <2>2. QED
    BY <1>1, <2>1 DEF IsInjective
<1>9. QED
  BY <1>2, <1>6, <1>7, <1>8 DEF c

\* The elements of a flattened sequence are those of its parts.
LEMMA FlatElements ==
    ASSUME NEW T, NEW seqs \in Seq(Seq(T))
    PROVE  /\ FlattenSeq(seqs) \in Seq(T)
           /\ Range(FlattenSeq(seqs)) = UNION {Range(seqs[k]) : k \in 1..Len(seqs)}
<1> DEFINE all == FlattenSeq(seqs)
           N == Len(seqs)
<1>1. N \in Nat /\ \A k \in 1..N : seqs[k] \in Seq(T) /\ Len(seqs[k]) \in Nat /\ DOMAIN seqs[k] = 1..Len(seqs[k])
  BY LenProperties
<1>2. CASE seqs = <<>>
  <2>1. N = 0 /\ 1..N = {} /\ all = <<>>
    BY <1>2, EmptySeq DEF FlattenSeq
  <2>2. Range(<<>>) = {} /\ <<>> \in Seq(T)
    BY DEF Range
  <2>3. QED
    BY <2>1, <2>2
<1>3. CASE seqs # <<>>
  <2>1. InTurn(seqs, all, T)
    BY <1>3, Flattened
  <2> HIDE DEF all
  <2>2. all \in Seq(T) /\ DOMAIN all = 1..Len(all) /\ Len(all) \in Nat
    BY <2>1, LenProperties DEF InTurn
  <2>3. PICK ends \in [0..N -> Nat] :
            /\ ends[0] = 0 /\ ends[N] = Len(all)
            /\ \A k \in 1..N :
                  /\ ends[k] = ends[k - 1] + Len(seqs[k])
                  /\ \A j \in 1..Len(seqs[k]) : all[ends[k - 1] + j] = seqs[k][j]
    BY <2>1 DEF InTurn
  <2>4. ASSUME NEW k \in 1..N PROVE k - 1 \in 0..N /\ k \in 0..N /\ ends[k - 1] \in Nat /\ ends[k] \in Nat
    <3> HIDE DEF N
    <3>1. k - 1 \in 0..N /\ k \in 0..N
      BY <1>1
    <3>2. QED
      BY <2>3, <3>1
  <2>5. ASSUME NEW k \in 1..N PROVE ends[k] <= Len(all)
    <3> DEFINE S == {n \in 1..N : ends[k] <= ends[n]}
    <3>1. k \in S /\ k \in Nat
      BY <2>4
    <3>2. ASSUME NEW n \in k + 1 .. N, n - 1 \in S PROVE n \in S
      <4>1. n \in 1..N
        BY <1>1
      <4>2. ends[n] = ends[n - 1] + Len(seqs[n]) /\ Len(seqs[n]) \in Nat /\ ends[n - 1] \in Nat /\ ends[k] \in Nat
        BY <1>1, <2>3, <2>4, <4>1
      <4>3. QED
        BY <3>2, <4>1, <4>2
    <3>3. k..N \subseteq S
      <4> HIDE DEF S
      <4>1. \A n \in k + 1 .. N : n - 1 \in S => n \in S
        BY <3>2
      <4>2. QED
        BY <1>1, <3>1, <4>1, Along
    <3>4. N \in S
      BY <1>1, <3>3
    <3>5. QED
      BY <2>3, <3>4
  <2>6. ASSUME NEW k \in 1..N, NEW x \in Range(seqs[k]) PROVE x \in Range(all)
    <3>1. PICK j \in 1..Len(seqs[k]) : x = seqs[k][j]
      BY <1>1 DEF Range
    <3>2. x = all[ends[k - 1] + j]
      BY <2>3, <3>1
    <3>3. ends[k - 1] + j \in 1..Len(all)
      <4>1. ends[k] = ends[k - 1] + Len(seqs[k])
        BY <2>3
      <4>2. QED
        BY <1>1, <2>2, <2>4, <2>5, <4>1
    <3>4. QED
      BY <2>2, <3>2, <3>3 DEF Range
  <2>7. ASSUME NEW x \in Range(all) PROVE \E k \in 1..N : x \in Range(seqs[k])
    <3>1. PICK p \in 1..Len(all) : x = all[p]
      BY <2>2 DEF Range
    <3> DEFINE S == {k \in 0..N : p <= ends[k]}
    <3>2. S \subseteq Nat /\ N \in S
      BY <1>1, <2>3
    <3>3. PICK k \in S : \A n \in S : k <= n
      <4> HIDE DEF S
      <4>1. QED
        BY <3>2, LeastElement
    <3>4. k \in 1..N
      BY <1>1, <2>3
    <3>5. k - 1 \notin S /\ k - 1 \in 0..N
      <4>1. ~(k <= k - 1)
        BY <3>4
      <4>2. QED
        BY <2>4, <3>3, <3>4, <4>1
    <3>6. ~(p <= ends[k - 1]) /\ p <= ends[k]
      BY <3>5
    <3> DEFINE j == p - ends[k - 1]
    <3>7. j \in 1..Len(seqs[k]) /\ ends[k - 1] + j = p
      <4>1. ends[k] = ends[k - 1] + Len(seqs[k]) /\ ends[k - 1] \in Nat /\ Len(seqs[k]) \in Nat
        BY <1>1, <2>3, <2>4, <3>4
      <4>2. QED
        BY <2>2, <3>6, <4>1
    <3>8. x = seqs[k][j]
      <4> HIDE DEF j
      <4>1. all[ends[k - 1] + j] = seqs[k][j]
        BY <2>3, <3>4, <3>7
      <4>2. QED
        BY <3>1, <3>7, <4>1
    <3> HIDE DEF j
    <3>9. x \in Range(seqs[k])
      BY <1>1, <3>4, <3>7, <3>8 DEF Range
    <3>10. QED
      BY <3>4, <3>9
  <2>8. Range(all) = UNION {Range(seqs[k]) : k \in 1..N}
    BY <2>6, <2>7
  <2>9. QED
    BY <2>2, <2>8 DEF all
<1>4. QED
  BY <1>2, <1>3

\* One part is the whole.
LEMMA FlatOne ==
    ASSUME NEW T, NEW s \in Seq(T)
    PROVE  FlattenSeq(<<s>>) = s
<1> DEFINE Body(f) == [i \in 1..1 |-> IF i = 1 THEN <<s>>[i] ELSE f[i - 1] \o <<s>>[i]]
           flat == CHOOSE f : f = Body(f)
           h == [i \in 1..1 |-> s]
<1>1. Len(<<s>>) = 1 /\ <<s>>[1] = s
  OBVIOUS
<1>2. h = Body(h)
  OBVIOUS
<1>3. flat = Body(flat)
  <2> HIDE DEF Body, h
  <2>1. QED
    BY <1>2
<1>4. FlattenSeq(<<s>>) = flat[1]
  BY <1>1 DEF FlattenSeq
<1> HIDE DEF flat
<1>5. flat[1] = s
  BY <1>3
<1>6. QED
  BY <1>4, <1>5

\* The elements of a finite set in some order, each once.
LEMMA SetInOrder ==
    ASSUME NEW S, IsFiniteSet(S)
    PROVE  SetToSeq(S) \in Seq(S) /\ IsInjective(SetToSeq(S)) /\ Range(SetToSeq(S)) = S
<1> DEFINE n == Cardinality(S)
           f == SetToSeq(S)
<1>1. n \in Nat /\ ExistsBijection(1..n, S)
  BY FS_CardinalityType
<1>2. PICK b : b \in Bijection(1..n, S)
  BY <1>1 DEF ExistsBijection
<1>3. b \in [1..n -> S] /\ IsInjective(b)
  BY <1>2 DEF Bijection, Injection
<1>4. f \in [1..n -> S] /\ IsInjective(f)
  BY <1>3 DEF SetToSeq
<1> HIDE DEF f
<1>5. IsFiniteSet(1..n) /\ Cardinality(1..n) = n
  <2>1. 1 \in Int /\ n \in Int /\ (1 > n => n = 0) /\ n - 1 + 1 = n
    BY <1>1
  <2> HIDE DEF n
  <2>2. QED
    BY <2>1, FS_Interval
<1>6. f \in Surjection(1..n, S)
  <2>1. f \in Injection(1..n, S)
    BY <1>4 DEF Injection
  <2> DEFINE m == n
  <2>2. Cardinality(1..n) = Cardinality(S)
    BY <1>5
  <2> HIDE DEF n
  <2>3. QED
    BY <2>1, <2>2, FS_Injection
<1> HIDE DEF n
<1>7. Range(f) = S
  BY <1>4, <1>6 DEF Surjection, Range
<1>8. f \in Seq(S)
  BY <1>1, <1>4, SeqDef
<1>9. QED
  BY <1>4, <1>7, <1>8 DEF f

\* What a function has for the numbers up to some number is finite.
LEMMA FiniteImage ==
    ASSUME NEW n \in Nat, NEW g, DOMAIN g = 1..n, g = [i \in 1..n |-> g[i]]
    PROVE  IsFiniteSet(Range(g))
<1>1. IsFiniteSet(1..n)
  BY FS_Interval
<1>2. g \in Surjection(1..n, Range(g))
  BY DEF Surjection, Range
<1>3. QED
  BY <1>1, <1>2, FS_Surjection

-----------------------------------------------------------------------------
(* What a program consists of.                                             *)

\* A sequence ends and consists of its own elements,
LEMMA InRange ==
    ASSUME NEW S, NEW s \in Seq(S)
    PROVE  /\ Finite(s) /\ Len(s) \in Nat /\ DOMAIN s = 1..Len(s)
           /\ \A i \in 1..Len(s) : s[i] \in Range(s)
<1>1. Len(s) \in Nat /\ DOMAIN s = 1..Len(s) /\ s \in [1..Len(s) -> S]
  BY LenProperties
<1>2. \A i \in 1..Len(s) : s[i] \in Range(s)
  BY <1>1 DEF Range
<1>3. s \in [1..Len(s) -> Range(s)]
  BY <1>1, <1>2
<1>4. s \in Seq(Range(s))
  <2> DEFINE R == Range(s)
             n == Len(s)
  <2>1. s \in [1..n -> R] /\ n \in Nat
    BY <1>1, <1>3
  <2> HIDE DEF R, n
  <2>2. s \in Seq(R)
    BY <2>1, SeqDef
  <2>3. QED
    BY <2>2 DEF R
<1>5. QED
  BY <1>1, <1>2, <1>4 DEF Finite

\* each of them at some position.
LEMMA FiniteSeqs ==
    ASSUME NEW s, Finite(s)
    PROVE  /\ s \in Seq(Range(s)) /\ Len(s) \in Nat /\ DOMAIN s = 1..Len(s)
           /\ \A i \in 1..Len(s) : s[i] \in Range(s)
           /\ \A x \in Range(s) : \E i \in 1..Len(s) : x = s[i]
<1>1. s \in Seq(Range(s))
  BY DEF Finite
<1>2. Len(s) \in Nat /\ DOMAIN s = 1..Len(s) /\ \A i \in 1..Len(s) : s[i] \in Range(s)
  <2> DEFINE R == Range(s)
  <2> HIDE DEF R
  <2>1. s \in Seq(R)
    BY <1>1 DEF R
  <2>2. QED
    BY <2>1, InRange
<1>3. \A x \in Range(s) : \E i \in 1..Len(s) : x = s[i]
  BY <1>2 DEF Range
<1>4. QED
  BY <1>1, <1>2, <1>3

\* A sequence made of another one's elements, one for each.
LEMMA Mapped ==
    ASSUME NEW s, Finite(s), NEW t, t = [i \in DOMAIN s |-> t[i]]
    PROVE  Finite(t) /\ Len(t) = Len(s) /\ DOMAIN t = 1..Len(s)
<1> DEFINE n == Len(s)
           R == Range(t)
<1>1. n \in Nat /\ DOMAIN s = 1..n
  BY FiniteSeqs
<1>2. t = [i \in 1..n |-> t[i]]
  BY <1>1
<1> HIDE DEF n
<1>3. t \in [1..n -> R]
  BY <1>2 DEF Range, R
<1> HIDE DEF R
<1>4. t \in Seq(R)
  BY <1>1, <1>3, SeqDef
<1>5. Len(t) = n
  <2>1. DOMAIN t = 1..n /\ DOMAIN t = 1..Len(t) /\ Len(t) \in Nat
    BY <1>3, <1>4, LenProperties
  <2>2. QED
    BY <1>1, <2>1
<1>6. QED
  BY <1>2, <1>4, <1>5 DEF n, R, Finite

\* The items of some kinds, in the order of the text.
LEMMA OfPicks ==
    ASSUME items \in Seq(Items), NEW kinds
    PROVE  /\ Picks(items, Places(kinds), Of(kinds), Items)
           /\ Finite(Of(kinds))
           /\ \A i \in 1..Len(Of(kinds)) : \E p \in Places(kinds) : Of(kinds)[i] = items[p]
           /\ \A p \in Places(kinds) : \E i \in 1..Len(Of(kinds)) : Of(kinds)[i] = items[p]
<1>1. Places(kinds) \subseteq 1..Len(items)
  BY LenProperties DEF Places
<1> DEFINE P == Places(kinds)
           s == Of(kinds)
<1>2. Picks(items, P, s, Items)
  BY <1>1, Selected DEF Of
<1> HIDE DEF P, s
<1>3. s \in Seq(Items)
  BY <1>2 DEF Picks
<1>4. PICK at \in [1..Len(s) -> P] :
          /\ \A k \in 1..Len(s) : s[k] = items[at[k]]
          /\ \A p \in P : \E k \in 1..Len(s) : at[k] = p
  BY <1>2 DEF Picks
<1>5. Finite(s)
  BY <1>3, InRange
<1>6. \A i \in 1..Len(s) : \E p \in P : s[i] = items[p]
  BY <1>4
<1>7. \A p \in P : \E i \in 1..Len(s) : s[i] = items[p]
  BY <1>4
<1>8. QED
  BY <1>2, <1>5, <1>6, <1>7 DEF P, s

\* Functions that are emitted have a body that ends.
Emitted(fs) == Finite(fs) /\ \A f \in Range(fs) : Finite(f.body)

\* The free functions are the program's, under their own names.
LEMMA FreeAre ==
    ASSUME items \in Seq(Items)
    PROVE  /\ Emitted(FreeFunctions)
           /\ \A f \in Range(FreeFunctions) :
                 /\ f = [owner |-> <<>>, name |-> f.name, body |-> f.body]
                 /\ f.name \in NamesOf("function") /\ Named(f.name) /\ Symbol(f) = f.name
           /\ \A x \in NamesOf("function") : \E f \in Range(FreeFunctions) : f.name = x
<1> DEFINE K == {"function"}
           fs == Of(K)
           free == FreeFunctions
<1>1. /\ Finite(fs)
      /\ \A i \in 1..Len(fs) : \E p \in Places(K) : fs[i] = items[p]
      /\ \A p \in Places(K) : \E i \in 1..Len(fs) : fs[i] = items[p]
  <2> HIDE DEF K
  <2>1. QED
    BY OfPicks
<1>2. DOMAIN fs = 1..Len(fs)
  <2> HIDE DEF fs
  <2>1. QED
    BY <1>1, FiniteSeqs
<1>3. free = [i \in DOMAIN fs |-> Function(<<>>, fs[i])]
  BY DEF FreeFunctions
<1> HIDE DEF fs, free
<1>4. Finite(free) /\ DOMAIN free = 1..Len(fs) /\ \A i \in 1..Len(fs) : free[i] = Function(<<>>, fs[i])
  <2>1. free = [i \in DOMAIN fs |-> free[i]]
    BY <1>3
  <2>2. QED
    BY <1>1, <1>2, <1>3, <2>1, Mapped
<1>5. ASSUME NEW p \in Places(K)
      PROVE  items[p].name \in NamesOf("function") /\ Named(items[p].name) /\ Finite(items[p].body)
  <2>1. items[p] \in Items /\ items[p].kind = "function"
    BY LenProperties DEF Places, K
  <2>2. items[p].name \in NamesOf("function")
    BY DEF NamesOf
  <2>3. QED
    BY <2>1, <2>2, ItemsAssumption
<1>6. ASSUME NEW f \in Range(free)
      PROVE  /\ f = [owner |-> <<>>, name |-> f.name, body |-> f.body] /\ Finite(f.body)
             /\ f.name \in NamesOf("function") /\ Named(f.name) /\ Symbol(f) = f.name
  <2>1. PICK i \in 1..Len(fs) : f = Function(<<>>, fs[i])
    BY <1>4 DEF Range
  <2>2. PICK p \in Places(K) : fs[i] = items[p]
    BY <1>1
  <2>3. f.owner = <<>> /\ f.name = items[p].name /\ f.body = items[p].body
    BY <2>1, <2>2 DEF Function
  <2>4. f = [owner |-> <<>>, name |-> f.name, body |-> f.body]
    BY <2>1, <2>2, <2>3 DEF Function
  <2>5. Named(f.name) /\ f.name \in NamesOf("function") /\ Finite(f.body)
    BY <1>5, <2>3
  <2>6. <<>> \o f.name = f.name
    BY <2>5, ConcatEmptySeq DEF Named
  <2>7. Symbol(f) = f.name
    BY <2>3, <2>6 DEF Symbol
  <2>8. QED
    BY <2>4, <2>5, <2>7
<1>7. ASSUME NEW x \in NamesOf("function") PROVE \E f \in Range(free) : f.name = x
  <2>1. PICK p \in Places(K) : items[p].name = x
    BY DEF NamesOf, K
  <2>2. PICK i \in 1..Len(fs) : fs[i] = items[p]
    BY <1>1
  <2>3. free[i] \in Range(free) /\ free[i].name = x
    BY <1>4, <2>1, <2>2 DEF Function, Range
  <2>4. QED
    BY <2>3
<1>8. QED
  BY <1>4, <1>6, <1>7 DEF Emitted, free

\* Methods are those of the structs or impls; none has the symbol of main().
LEMMA MethodsAre ==
    ASSUME items \in Seq(Items), NEW kinds, kinds \subseteq {"struct", "impl"}
    PROVE  /\ Emitted(MethodsOf(kinds))
           /\ \A f \in Range(MethodsOf(kinds)) :
                 /\ Named(f.owner) /\ Named(f.name) /\ Symbol(f) # Main
           /\ \A f : f \in Range(MethodsOf(kinds))
                     <=> \E p \in Places(kinds) : \E j \in DOMAIN items[p].methods :
                            f = Function(items[p].name, items[p].methods[j])
<1> DEFINE types == Of(kinds)
           A == {item.name : item \in Items}
           B == UNION {Range(item.methods) : item \in Items}
           T == {Function(o, m) : o \in A, m \in B}
           seqs == [i \in DOMAIN types |-> [j \in DOMAIN types[i].methods |-> Function(types[i].name, types[i].methods[j])]]
<1>1. /\ Finite(types)
      /\ \A i \in 1..Len(types) : \E p \in Places(kinds) : types[i] = items[p]
      /\ \A p \in Places(kinds) : \E i \in 1..Len(types) : types[i] = items[p]
  BY OfPicks
<1>2. MethodsOf(kinds) = FlattenSeq(seqs)
  BY DEF MethodsOf
<1> HIDE DEF types
<1>3. DOMAIN types = 1..Len(types)
  BY <1>1, FiniteSeqs
<1>4. ASSUME NEW p \in Places(kinds)
      PROVE  /\ items[p] \in Items /\ Named(items[p].name) /\ Finite(items[p].methods)
             /\ \A j \in DOMAIN items[p].methods :
                   LET m == items[p].methods[j] IN Named(m.name) /\ Finite(m.body) /\ m \in Range(items[p].methods)
  <2>1. items[p] \in Items /\ items[p].kind \in {"struct", "impl"}
    BY LenProperties DEF Places
  <2>2. \A j \in DOMAIN items[p].methods : items[p].methods[j] \in Range(items[p].methods)
    BY DEF Range
  <2>3. QED
    BY <2>1, <2>2, ItemsAssumption
<1>5. ASSUME NEW i \in 1..Len(types)
      PROVE  /\ types[i] \in Items /\ Finite(types[i].methods) /\ Named(types[i].name)
             /\ seqs[i] = [j \in DOMAIN types[i].methods |-> Function(types[i].name, types[i].methods[j])]
             /\ seqs[i] \in Seq(T) /\ DOMAIN seqs[i] = DOMAIN types[i].methods
  <2>1. types[i] \in Items /\ Named(types[i].name) /\ Finite(types[i].methods)
    BY <1>1, <1>4
  <2>2. seqs[i] = [j \in DOMAIN types[i].methods |-> Function(types[i].name, types[i].methods[j])]
    BY <1>3
  <2>3. ASSUME NEW j \in DOMAIN types[i].methods PROVE Function(types[i].name, types[i].methods[j]) \in T
    <3>1. types[i].methods[j] \in Range(types[i].methods)
      BY DEF Range
    <3>2. types[i].name \in A /\ types[i].methods[j] \in B
      BY <2>1, <3>1
    <3> DEFINE o == types[i].name
               m == types[i].methods[j]
    <3>5. o \in A /\ m \in B
      BY <3>2
    <3> HIDE DEF o, m, A, B
    <3>3. Function(o, m) \in T
      BY <3>5
    <3>4. QED
      BY <3>3 DEF o, m
  <2> DEFINE ms == types[i].methods
             n == Len(ms)
             s == seqs[i]
  <2>4. n \in Nat /\ DOMAIN ms = 1..n
    BY <2>1, FiniteSeqs
  <2>5. s = [j \in 1..n |-> s[j]] /\ \A j \in 1..n : s[j] \in T
    <3>1. \A j \in DOMAIN ms : s[j] = Function(types[i].name, ms[j])
      BY <2>2
    <3> HIDE DEF T, s
    <3>2. s = [j \in 1..n |-> s[j]]
      BY <2>2, <2>4 DEF s
    <3>3. QED
      BY <2>3, <2>4, <3>1, <3>2
  <2> HIDE DEF T, s, n
  <2>6. s \in [1..n -> T]
    BY <2>5
  <2>7. s \in Seq(T)
    BY <2>4, <2>6, SeqDef
  <2>8. QED
    BY <2>1, <2>2, <2>7 DEF s
<1>6. seqs \in Seq(Seq(T)) /\ Len(seqs) = Len(types)
  <2> DEFINE X == Seq(T)
             n == Len(types)
  <2>1. \A i \in 1..n : seqs[i] \in X
    <3> HIDE DEF T, seqs
    <3>1. QED
      BY <1>5
  <2>2. seqs = [i \in DOMAIN types |-> seqs[i]]
    OBVIOUS
  <2> HIDE DEF seqs
  <2>3. Len(seqs) = n /\ Finite(seqs) /\ DOMAIN seqs = 1..n /\ n \in Nat
    BY <1>1, <2>2, Mapped, FiniteSeqs
  <2>4. seqs \in [1..n -> X]
    BY <2>1, <2>2, <1>3
  <2> HIDE DEF X, n
  <2>5. seqs \in Seq(X)
    BY <2>3, <2>4, SeqDef
  <2>6. QED
    BY <2>3, <2>5 DEF X, n
<1> HIDE DEF seqs, T
<1> DEFINE all == FlattenSeq(seqs)
<1>7. all \in Seq(T) /\ Range(all) = UNION {Range(seqs[k]) : k \in 1..Len(types)}
  BY <1>6, FlatElements
<1> HIDE DEF all
<1>8. ASSUME NEW f \in Range(all)
      PROVE  \E p \in Places(kinds) : \E j \in DOMAIN items[p].methods : f = Function(items[p].name, items[p].methods[j])
  <2>1. PICK k \in 1..Len(types) : f \in Range(seqs[k])
    BY <1>7
  <2>2. PICK j \in DOMAIN types[k].methods : f = Function(types[k].name, types[k].methods[j])
    BY <1>5, <2>1 DEF Range
  <2>3. PICK p \in Places(kinds) : types[k] = items[p]
    BY <1>1
  <2>4. QED
    BY <2>2, <2>3
<1>9. ASSUME NEW p \in Places(kinds), NEW j \in DOMAIN items[p].methods
      PROVE  Function(items[p].name, items[p].methods[j]) \in Range(all)
  <2>1. PICK k \in 1..Len(types) : types[k] = items[p]
    BY <1>1
  <2>2. Function(types[k].name, types[k].methods[j]) \in Range(seqs[k])
    BY <1>5, <2>1 DEF Range
  <2>3. QED
    BY <1>7, <2>1, <2>2
<1>10. ASSUME NEW f \in Range(all)
       PROVE  Named(f.owner) /\ Named(f.name) /\ Finite(f.body) /\ Symbol(f) # Main
  <2>5. PICK p \in Places(kinds) : \E j \in DOMAIN items[p].methods : f = Function(items[p].name, items[p].methods[j])
    BY <1>8
  <2>1. PICK j \in DOMAIN items[p].methods : f = Function(items[p].name, items[p].methods[j])
    BY <2>5
  <2>2. f.owner = items[p].name /\ f.name = items[p].methods[j].name /\ f.body = items[p].methods[j].body
    BY <2>1 DEF Function
  <2>3. Named(f.owner) /\ Named(f.name) /\ Finite(f.body)
    BY <1>4, <2>2
  <2>4. Symbol(f) # Main
    <3> DEFINE a == f.owner
               b == f.name
    <3>1. a \in Seq(STRING) /\ b \in Seq(STRING) /\ a # <<>> /\ b # <<>>
      BY <2>3 DEF Named
    <3> HIDE DEF a, b
    <3>2. Len(a \o b) = Len(a) + Len(b) /\ Len(a) \in Nat \ {0} /\ Len(b) \in Nat \ {0}
      BY <3>1, ConcatProperties, EmptySeq
    <3>3. Len(Main) = 1
      BY DEF Main
    <3>6. Len(a \o b) # 1
      BY <3>2
    <3>4. a \o b # Main
      <4> DEFINE c == a \o b
      <4>1. Len(c) # 1
        BY <3>6
      <4> HIDE DEF c
      <4>2. c # Main
        BY <3>3, <4>1, Zenon
      <4>3. QED
        BY <4>2 DEF c
    <3>5. QED
      BY <3>4 DEF a, b, Symbol
  <2>6. QED
    BY <2>3, <2>4
<1>11. Finite(all)
  BY <1>7, InRange
<1>12. all = MethodsOf(kinds)
  BY <1>2 DEF all
<1>13. QED
  BY <1>8, <1>9, <1>10, <1>11, <1>12 DEF Emitted

\* The implicit main() ends, too.
LEMMA ScriptIs ==
    ASSUME items \in Seq(Items)
    PROVE  Script.owner = <<>> /\ Script.name = Main /\ Finite(Script.body)
<1> DEFINE K == {"let", "do"}
           lines == Of(K)
           b == Script.body
<1>1. b = [i \in DOMAIN lines |-> IF lines[i].kind = "let" THEN <<"let", lines[i].name, lines[i].init>>
                                                           ELSE lines[i].init]
  BY DEF Script
<1>2. Finite(lines)
  <2> HIDE DEF K
  <2>1. QED
    BY OfPicks
<1>3. b = [i \in DOMAIN lines |-> b[i]]
  BY <1>1
<1> HIDE DEF lines, b
<1>4. Finite(b)
  BY <1>2, <1>3, Mapped
<1>5. QED
  BY <1>4 DEF b, Script

-----------------------------------------------------------------------------
(* The invariant: what the passes so far have left in the module.          *)

Symbols(fs) == [i \in DOMAIN fs |-> Symbol(fs[i])]
AllMethods == {<<f.owner, f.name>> : f \in Range(MethodsOf({"struct", "impl"}))}
FreeSymbols == Symbols(FreeFunctions)
ImplSymbols == Symbols(MethodsOf({"impl"}))
InlineSymbols == Symbols(MethodsOf({"struct"}))
Registry == <<NamesOf("function"), AllMethods>>

Passes == {"writing", "strings", "functions", "impls", "inline", "main", "flush", "done"}
BeforeBodies == {"writing", "strings", "functions"}

\* What the passes register is what the program has, and
Registered ==
    /\ items \in Seq(Items)
    /\ pass \in Passes
    /\ module = [defined |-> module.defined, strings |-> module.strings, calls |-> module.calls, texts |-> module.texts]
    /\ pass # "writing" => <<functions, methods>> = Registry

\* they define what they have come to.
Defines ==
    /\ pass \in BeforeBodies => module.defined = <<>> /\ module.calls = {}
    /\ pass = "impls" => module.defined = FreeSymbols
    /\ pass = "inline" => module.defined = FreeSymbols \o ImplSymbols
    /\ pass = "main" => module.defined = (FreeSymbols \o ImplSymbols) \o InlineSymbols
    /\ pass \in {"flush", "done"} =>
          module.defined = IF Main \in functions THEN (FreeSymbols \o ImplSymbols) \o InlineSymbols
                           ELSE ((FreeSymbols \o ImplSymbols) \o InlineSymbols) \o <<Main>>
    /\ module.calls \subseteq functions \cup {p[1] \o p[2] : p \in methods}

\* Every text is in the module already or is kept for its end.
TextsHeld ==
    /\ IsFiniteSet(strings)
    /\ module.texts \subseteq strings
    /\ module.strings \in Seq(strings) /\ pending \in Seq(strings)
    /\ IsInjective(module.strings) /\ IsInjective(pending)
    /\ Range(module.strings) \cup Range(pending) = strings
    /\ Range(module.strings) \cap Range(pending) = {}

TextsKept ==
    /\ TextsHeld
    /\ pass \in {"writing", "strings"} => strings = {} /\ pending = <<>>
    /\ pass = "done" => pending = <<>>

AssemblyInv == Registered /\ Defines /\ TextsKept

-----------------------------------------------------------------------------
(* What emitting functions does to the module.                             *)

\* What a body refers to is finite,
LEMMA TextsFinite ==
    ASSUME NEW f, Finite(f.body)
    PROVE  IsFiniteSet(Texts(f))
<1> DEFINE b == f.body
           n == Len(b)
           g == [i \in 1..n |-> Inner(b[i])[2]]
           R == Range(g)
<1>1. n \in Nat /\ DOMAIN b = 1..n /\ \A x \in Range(b) : \E i \in 1..n : x = b[i]
  BY FiniteSeqs
<1>2. IsFiniteSet(R)
  <2> HIDE DEF n
  <2>1. DOMAIN g = 1..n /\ g = [i \in 1..n |-> g[i]]
    OBVIOUS
  <2> HIDE DEF g
  <2>2. QED
    BY <1>1, <2>1, FiniteImage
<1>3. ASSUME NEW x \in Texts(f) PROVE x \in R
  <2>1. PICK e \in Parts(b) : x = e[2]
    BY DEF Texts
  <2>2. PICK y \in Range(b) : e = Inner(y)
    BY DEF Parts
  <2>3. PICK i \in 1..n : y = b[i]
    BY <1>1
  <2>4. x = g[i] /\ i \in DOMAIN g
    BY <2>1, <2>2, <2>3
  <2> HIDE DEF g
  <2>5. QED
    BY <2>4 DEF Range
<1> HIDE DEF R
<1>4. Texts(f) \in SUBSET R
  BY <1>3
<1>5. QED
  BY <1>2, <1>4, FS_Subset

\* and so is what all of them do.
LEMMA AllTextsFinite ==
    ASSUME NEW fs, Emitted(fs)
    PROVE  IsFiniteSet(UNION {Texts(fs[i]) : i \in DOMAIN fs})
<1> DEFINE n == Len(fs)
           g == [i \in 1..n |-> Texts(fs[i])]
           R == Range(g)
<1>1. Finite(fs)
  BY DEF Emitted
<1>2. n \in Nat /\ DOMAIN fs = 1..n /\ \A i \in 1..n : fs[i] \in Range(fs)
  BY <1>1, FiniteSeqs
<1>3. \A i \in 1..n : IsFiniteSet(Texts(fs[i]))
  BY <1>2, TextsFinite DEF Emitted
<1> HIDE DEF n
<1>4. R = {Texts(fs[i]) : i \in DOMAIN fs}
  BY <1>2 DEF Range
<1>5. DOMAIN g = 1..n /\ \A x \in R : IsFiniteSet(x)
  BY <1>3 DEF Range
<1>6. IsFiniteSet(R)
  <2>1. g = [i \in 1..n |-> g[i]]
    OBVIOUS
  <2> HIDE DEF g
  <2>2. QED
    BY <1>2, <1>5, <2>1, FiniteImage
<1> HIDE DEF R
<1>7. IsFiniteSet(UNION R)
  BY <1>5, <1>6, FS_UNION
<1>8. QED
  BY <1>4, <1>7

\* New texts are put after those that wait.
LEMMA TextsAdded ==
    ASSUME TextsHeld, NEW texts, IsFiniteSet(texts), StringConstants(texts),
           module'.strings = module.strings, module'.texts = module.texts \cup texts
    PROVE  TextsHeld'
<1> DEFINE new == texts \ strings
           u == strings \cup new
           more == SetToSeq(new)
           ms == module.strings
<1>1. strings' = u /\ pending' = pending \o more
  BY DEF StringConstants
<1>2. IsFiniteSet(new) /\ IsFiniteSet(strings)
  BY FS_Difference DEF TextsHeld
<1>3. IsFiniteSet(u)
  <2> HIDE DEF new
  <2>1. QED
    BY <1>2, FS_Union
<1>4. more \in Seq(new) /\ IsInjective(more) /\ Range(more) = new
  <2> HIDE DEF new
  <2>1. QED
    BY <1>2, SetInOrder
<1>5. new \cap strings = {} /\ new \subseteq u /\ strings \subseteq u /\ texts \subseteq u
  OBVIOUS
<1>6. /\ module.texts \subseteq strings
      /\ ms \in Seq(strings) /\ pending \in Seq(strings)
      /\ IsInjective(ms) /\ IsInjective(pending)
      /\ Range(ms) \cup Range(pending) = strings
      /\ Range(ms) \cap Range(pending) = {}
  BY DEF TextsHeld
<1> HIDE DEF u, more, ms
<1>7. ms \in Seq(u) /\ pending \in Seq(u) /\ more \in Seq(u)
  <2> HIDE DEF new
  <2>1. QED
    BY <1>4, <1>5, <1>6, SeqMonotonic
<1>8. /\ pending \o more \in Seq(u)
      /\ Range(pending \o more) = Range(pending) \cup Range(more)
      /\ IsInjective(pending \o more) <=> IsInjective(pending) /\ IsInjective(more) /\ Range(pending) \cap Range(more) = {}
  BY <1>7, JoinRange
<1> DEFINE p == pending \o more
<1>9. pending' = p /\ Range(p) = Range(pending) \cup Range(more) /\ p \in Seq(u)
  BY <1>1, <1>8
<1> HIDE DEF p
<1>10. Range(pending) \cap Range(more) = {}
  BY <1>4, <1>5, <1>6
<1>11. IsInjective(p)
  BY <1>4, <1>6, <1>8, <1>10 DEF p
<1>12. Range(ms) \cup Range(p) = u /\ Range(ms) \cap Range(p) = {}
  <2>1. Range(ms) \cup Range(p) = strings \cup new
    BY <1>4, <1>6, <1>9
  <2>2. Range(ms) \cap Range(more) = {}
    BY <1>4, <1>5, <1>6
  <2>3. QED
    BY <1>6, <1>9, <2>1, <2>2 DEF u
<1>13. module'.strings = ms /\ module'.texts \subseteq u
  BY <1>5, <1>6 DEF ms
<1> DEFINE q == pending'
           v == strings'
           ms2 == module'.strings
<1>14. q = p /\ v = u /\ ms2 = ms
  BY <1>1, <1>9, <1>13
<1> HIDE DEF q, v, ms2
<1>15. IsFiniteSet(v) /\ ms2 \in Seq(v) /\ q \in Seq(v) /\ IsInjective(ms2) /\ IsInjective(q)
       /\ Range(ms2) \cup Range(q) = v /\ Range(ms2) \cap Range(q) = {}
  BY <1>3, <1>6, <1>7, <1>9, <1>11, <1>12, <1>14
<1>16. module'.texts \subseteq v
  BY <1>13, <1>14
<1>17. QED
  BY <1>15, <1>16 DEF TextsHeld, q, v, ms2

\* A call is recorded only if the program or a struct has the function.
LEMMA CallsKnown ==
    ASSUME NEW f
    PROVE  Calls(f) \subseteq functions \cup {p[1] \o p[2] : p \in methods}
<1> SUFFICES ASSUME NEW c \in Calls(f) PROVE c \in functions \/ \E p \in methods : c = p[1] \o p[2]
  OBVIOUS
<1> DEFINE A == {e[2] : e \in {p \in Parts(f.body) : p[1] = "call" /\ p[2] \in functions}}
           Q == {p \in Parts(f.body) : CallsMethod(p) /\ MethodCalled(f, p) \in methods}
           B == {MethodCalled(f, e)[1] \o MethodCalled(f, e)[2] : e \in Q}
<1>1. c \in A \cup B
  BY DEF Calls
<1>2. ASSUME c \in A PROVE c \in functions
  BY <1>2
<1>3. ASSUME c \in B PROVE \E p \in methods : c = p[1] \o p[2]
  <2>1. PICK e \in Q : c = MethodCalled(f, e)[1] \o MethodCalled(f, e)[2]
    BY <1>3
  <2> DEFINE m == MethodCalled(f, e)
  <2>2. m \in methods /\ c = m[1] \o m[2]
    BY <2>1
  <2> HIDE DEF m
  <2>3. QED
    BY <2>2
<1>4. QED
  BY <1>1, <1>2, <1>3

\* emitFunction adds symbols, calls to what is registered, and texts.
LEMMA Emits ==
    ASSUME Registered, TextsHeld, NEW fs, Emitted(fs), EmitAll(fs)
    PROVE  /\ module'.defined = module.defined \o Symbols(fs)
           /\ module'.calls \subseteq module.calls \cup functions \cup {p[1] \o p[2] : p \in methods}
           /\ module' = [defined |-> module'.defined, strings |-> module'.strings,
                         calls |-> module'.calls, texts |-> module'.texts]
           /\ TextsHeld'
<1> DEFINE d == module.defined \o [i \in DOMAIN fs |-> Symbol(fs[i])]
           more == UNION {Calls(fs[i]) : i \in DOMAIN fs}
           c == module.calls \cup more
           texts == UNION {Texts(fs[i]) : i \in DOMAIN fs}
           t == module.texts \cup texts
<1>1. module' = [module EXCEPT !.defined = d, !.calls = c, !.texts = t]
  BY DEF EmitAll
<1>2. StringConstants(texts)
  BY DEF EmitAll
<1>3. more \subseteq functions \cup {p[1] \o p[2] : p \in methods}
  <2> DEFINE K == functions \cup {p[1] \o p[2] : p \in methods}
  <2>1. \A i \in DOMAIN fs : Calls(fs[i]) \subseteq K
    BY CallsKnown
  <2> HIDE DEF K
  <2>2. more \subseteq K
    BY <2>1
  <2>3. QED
    BY <2>2 DEF K
<1>4. IsFiniteSet(texts)
  BY AllTextsFinite
<1>5. d = module.defined \o Symbols(fs)
  BY DEF Symbols
<1> HIDE DEF d, more, texts
<1>6. /\ module'.defined = d /\ module'.strings = module.strings
      /\ module'.calls = c /\ module'.texts = t
      /\ module' = [defined |-> d, strings |-> module.strings, calls |-> c, texts |-> t]
  BY <1>1 DEF Registered
<1>7. TextsHeld'
  BY <1>2, <1>4, <1>6, TextsAdded
<1>8. QED
  BY <1>3, <1>5, <1>6, <1>7

-----------------------------------------------------------------------------
(* The passes keep the invariant.                                          *)

\* What nothing is put before or after is the same.
LEMMA NothingBefore ==
    ASSUME NEW s, Finite(s)
    PROVE  <<>> \o s = s /\ s \o <<>> = s
<1>1. s \in Seq(Range(s))
  BY DEF Finite
<1> DEFINE R == Range(s)
<1> HIDE DEF R
<1>2. s \in Seq(R)
  BY <1>1 DEF R
<1>3. QED
  BY <1>2, ConcatEmptySeq

\* All of this is read off the program, which only writing changes.
LEMMA SameProgram ==
    ASSUME UNCHANGED items
    PROVE  /\ Registry' = Registry
           /\ FreeSymbols' = FreeSymbols /\ ImplSymbols' = ImplSymbols /\ InlineSymbols' = InlineSymbols
<1>1. Registry' = Registry
  BY DEF Registry, NamesOf, AllMethods, MethodsOf, Of, Places
<1>2. FreeSymbols' = FreeSymbols
  BY DEF FreeSymbols, FreeFunctions, Of, Places
<1>3. ImplSymbols' = ImplSymbols
  BY DEF ImplSymbols, MethodsOf, Of, Places
<1>4. InlineSymbols' = InlineSymbols
  BY DEF InlineSymbols, MethodsOf, Of, Places
<1>5. QED
  BY <1>1, <1>2, <1>3, <1>4

\* An empty program has the invariant.
LEMMA AssemblyStarts ==
    ASSUME AssemblyInit
    PROVE  AssemblyInv
<1>1. items \in Seq(Items)
  BY EmptySeq DEF AssemblyInit
<1>2. Registered
  BY <1>1 DEF AssemblyInit, Registered, Passes, Empty
<1>3. Defines
  BY DEF AssemblyInit, Defines, Empty, BeforeBodies
<1>4. Range(<<>>) = {} /\ IsInjective(<<>>) /\ <<>> \in Seq({}) /\ IsFiniteSet({})
  BY FS_EmptySet, EmptySeq DEF Range, IsInjective
<1>5. TextsKept
  BY <1>4 DEF AssemblyInit, TextsKept, TextsHeld, Empty
<1>6. QED
  BY <1>2, <1>3, <1>5 DEF AssemblyInv

\* Before bodies are emitted, the module has nothing to say about most of it.
LEMMA NothingYet ==
    ASSUME AssemblyInv, pass \in {"writing", "strings"}, pass' \in BeforeBodies,
           module'.defined = module.defined, module'.calls = module.calls
    PROVE  Defines'
<1>1. pass \in BeforeBodies
  BY DEF BeforeBodies
<1>2. module.defined = <<>> /\ module.calls = {}
  BY <1>1 DEF AssemblyInv, Defines
<1>3. pass' \notin {"impls", "inline", "main", "flush", "done"}
  BY DEF BeforeBodies
<1>4. QED
  BY <1>2, <1>3 DEF Defines

\* An item more is only program text.
LEMMA WriteKeeps ==
    ASSUME AssemblyInv, NEW item \in Items, Write(item)
    PROVE  AssemblyInv'
<1>1. /\ pass = "writing" /\ pass' = "writing" /\ module' = module
      /\ items' = Append(items, item)
      /\ UNCHANGED <<functions, methods, strings, pending>>
  BY DEF Write
<1>2. items' \in Seq(Items)
  BY <1>1, AppendProperties DEF AssemblyInv, Registered
<1>3. Registered'
  BY <1>1, <1>2 DEF AssemblyInv, Registered
<1>4. TextsKept'
  BY <1>1 DEF AssemblyInv, TextsKept, TextsHeld
<1>5. Defines'
  BY <1>1, NothingYet DEF AssemblyInv, Registered, BeforeBodies
<1>6. QED
  BY <1>3, <1>4, <1>5 DEF AssemblyInv

\* Functions and methods are registered from the program as it stands;
LEMMA TopLevelKeeps ==
    ASSUME AssemblyInv, declareTopLevel
    PROVE  AssemblyInv'
<1> DEFINE ms == MethodsOf({"struct", "impl"})
           found == {<<ms[i].owner, ms[i].name>> : i \in DOMAIN ms}
<1>1. /\ pass = "writing" /\ pass' = "strings" /\ module' = module
      /\ functions' = NamesOf("function") /\ methods' = found
      /\ UNCHANGED <<items, strings, pending>>
  BY DEF declareTopLevel
<1>2. found = AllMethods
  <2> HIDE DEF ms
  <2>1. found = {<<f.owner, f.name>> : f \in Range(ms)}
    BY DEF Range
  <2>2. QED
    BY <2>1 DEF AllMethods, ms
<1> HIDE DEF found
<1>3. <<functions', methods'>> = Registry'
  BY <1>1, <1>2, SameProgram DEF Registry
<1>4. Registered'
  BY <1>1, <1>3 DEF AssemblyInv, Registered, Passes
<1>5. TextsKept'
  BY <1>1 DEF AssemblyInv, TextsKept, TextsHeld
<1>6. Defines'
  BY <1>1, NothingYet DEF AssemblyInv, Registered, BeforeBodies
<1>7. QED
  BY <1>4, <1>5, <1>6 DEF AssemblyInv

\* Every body of the program ends,
LEMMA BodiesAre ==
    ASSUME items \in Seq(Items)
    PROVE  LET own == (FreeFunctions \o MethodsOf({"struct"})) \o MethodsOf({"impl"})
           IN  /\ Emitted(Bodies)
               /\ Finite(own) /\ Len(Bodies) = Len(own) + 1
               /\ \A i \in 1..Len(own) : Bodies[i] = own[i]
<1> DEFINE a == FreeFunctions
           b == MethodsOf({"struct"})
           c == MethodsOf({"impl"})
           d == <<Script>>
<1>1. Emitted(a) /\ Emitted(b) /\ Emitted(c)
  <2>1. Emitted(a)
    BY FreeAre
  <2>2. {"struct"} \subseteq {"struct", "impl"} /\ {"impl"} \subseteq {"struct", "impl"}
    OBVIOUS
  <2>3. QED
    BY <2>1, <2>2, MethodsAre
<1>2. Finite(Script.body)
  BY ScriptIs
<1>3. Range(d) = {Script}
  BY DEF Range
<1>4. Bodies = ((a \o b) \o c) \o d
  BY DEF Bodies
<1> DEFINE T == ((Range(a) \cup Range(b)) \cup Range(c)) \cup {Script}
<1>5. d \in Seq(T) /\ Len(d) = 1
  OBVIOUS
<1> HIDE DEF a, b, c, d
<1>6. a \in Seq(T) /\ b \in Seq(T) /\ c \in Seq(T)
  <2> DEFINE A == Range(a)
             B == Range(b)
             C == Range(c)
  <2>1. a \in Seq(A) /\ b \in Seq(B) /\ c \in Seq(C)
    BY <1>1 DEF Emitted, Finite
  <2>2. A \subseteq T /\ B \subseteq T /\ C \subseteq T
    OBVIOUS
  <2> HIDE DEF A, B, C, T
  <2>3. QED
    BY <2>1, <2>2, SeqMonotonic
<1>7. \A f \in T : Finite(f.body)
  <2>1. \A f \in Range(a) \cup Range(b) \cup Range(c) : Finite(f.body)
    BY <1>1 DEF Emitted
  <2>2. QED
    BY <1>2, <2>1
<1> HIDE DEF T
<1> DEFINE ab == a \o b
           abc == ab \o c
           all == abc \o d
<1>8. ab \in Seq(T)
  BY <1>6, ConcatProperties
<1> HIDE DEF ab
<1>9. abc \in Seq(T)
  BY <1>6, <1>8, ConcatProperties
<1> HIDE DEF abc
<1>10. /\ all \in Seq(T) /\ Len(all) = Len(abc) + Len(d)
       /\ \A i \in 1..(Len(abc) + Len(d)) : all[i] = IF i <= Len(abc) THEN abc[i] ELSE d[i - Len(abc)]
  BY <1>5, <1>9, ConcatProperties
<1>11. Len(abc) \in Nat /\ Finite(abc)
  BY <1>9, InRange
<1> HIDE DEF all
<1>12. Len(all) = Len(abc) + 1 /\ \A i \in 1..Len(abc) : all[i] = abc[i]
  <2>1. \A i \in 1..Len(abc) : i \in 1..(Len(abc) + Len(d)) /\ i <= Len(abc)
    BY <1>5, <1>11
  <2>2. QED
    BY <1>5, <1>10, <2>1
<1>13. Emitted(all)
  <2>1. all \in [1..Len(all) -> T] /\ Finite(all)
    BY <1>10, LenProperties, InRange
  <2>2. \A f \in Range(all) : f \in T
    BY <2>1 DEF Range
  <2>3. QED
    BY <1>7, <2>1, <2>2 DEF Emitted
<1>14. Bodies = all /\ (FreeFunctions \o MethodsOf({"struct"})) \o MethodsOf({"impl"}) = abc
  BY <1>4 DEF all, abc, ab, a, b, c
<1>15. QED
  BY <1>11, <1>12, <1>13, <1>14

\* so their texts are finite.
LEMMA CollectedFinite ==
    ASSUME items \in Seq(Items)
    PROVE  IsFiniteSet(PoolTexts \cup {e[2] : e \in {p \in UNION {Parts(f.body) : f \in Range(Bodies)} : p[1] = "text"}})
<1> DEFINE all == Bodies
           n == Len(all)
           h == [i \in 1..n |-> {e[2] : e \in {p \in Parts(all[i].body) : p[1] = "text"}}]
           C == {e[2] : e \in {p \in UNION {Parts(f.body) : f \in Range(all)} : p[1] = "text"}}
<1>1. Emitted(all)
  BY BodiesAre
<1>2. n \in Nat /\ DOMAIN all = 1..n /\ (\A x \in Range(all) : \E i \in 1..n : x = all[i]) /\ \A i \in 1..n : all[i] \in Range(all)
  BY <1>1, FiniteSeqs DEF Emitted
<1> HIDE DEF all, n
<1>3. ASSUME NEW i \in 1..n PROVE IsFiniteSet(h[i])
  <2> DEFINE b == all[i].body
             m == Len(b)
             g == [j \in 1..m |-> Inner(b[j])[2]]
             R == Range(g)
  <2>1. Finite(b)
    BY <1>1, <1>2 DEF Emitted
  <2>2. m \in Nat /\ DOMAIN b = 1..m /\ \A x \in Range(b) : \E j \in 1..m : x = b[j]
    BY <2>1, FiniteSeqs
  <2>3. IsFiniteSet(R)
    <3> HIDE DEF m, b
    <3>1. DOMAIN g = 1..m /\ g = [j \in 1..m |-> g[j]]
      OBVIOUS
    <3> HIDE DEF g
    <3>2. QED
      BY <2>2, <3>1, FiniteImage
  <2>4. h[i] = {e[2] : e \in {p \in Parts(b) : p[1] = "text"}}
    OBVIOUS
  <2> HIDE DEF b, h
  <2>5. ASSUME NEW x \in h[i] PROVE x \in R
    <3>1. PICK e \in Parts(b) : x = e[2]
      BY <2>4, <2>5
    <3>2. PICK y \in Range(b) : e = Inner(y)
      BY DEF Parts
    <3>3. PICK j \in 1..m : y = b[j]
      BY <2>2
    <3>4. x = g[j] /\ j \in DOMAIN g
      BY <3>1, <3>2, <3>3
    <3> HIDE DEF g
    <3>5. QED
      BY <3>4 DEF Range
  <2> HIDE DEF R
  <2>6. h[i] \in SUBSET R
    BY <2>5
  <2>7. QED
    BY <2>3, <2>6, FS_Subset
<1>4. ASSUME NEW x \in C PROVE \E i \in 1..n : x \in h[i]
  <2>1. PICK e \in UNION {Parts(f.body) : f \in Range(all)} : x = e[2] /\ e[1] = "text"
    OBVIOUS
  <2>2. PICK f \in Range(all) : e \in Parts(f.body)
    BY <2>1
  <2>3. PICK i \in 1..n : f = all[i]
    BY <1>2
  <2>4. h[i] = {q[2] : q \in {p \in Parts(all[i].body) : p[1] = "text"}}
    OBVIOUS
  <2> HIDE DEF h
  <2>5. x \in h[i]
    BY <2>1, <2>2, <2>3, <2>4
  <2>6. QED
    BY <2>5
<1> DEFINE H == Range(h)
<1>5. DOMAIN h = 1..n /\ h = [i \in 1..n |-> h[i]]
  OBVIOUS
<1> HIDE DEF h, C
<1>6. IsFiniteSet(H) /\ (\A s \in H : IsFiniteSet(s)) /\ \A i \in 1..n : h[i] \in H
  <2>1. IsFiniteSet(H)
    BY <1>2, <1>5, FiniteImage
  <2>2. QED
    BY <1>3, <1>5, <2>1 DEF Range
<1> HIDE DEF H
<1>7. IsFiniteSet(UNION H)
  BY <1>6, FS_UNION
<1>8. C \in SUBSET UNION H
  BY <1>4, <1>6
<1>9. IsFiniteSet(C)
  BY <1>7, <1>8, FS_Subset
<1>10. IsFiniteSet(PoolTexts \cup C)
  BY <1>9, PoolAssumption, FS_Union
<1>11. QED
  BY <1>10 DEF C, all

\* The pool has each text once.
LEMMA StringsKeep ==
    ASSUME AssemblyInv, collectStrings
    PROVE  AssemblyInv'
<1> DEFINE u == PoolTexts \cup {e[2] : e \in {p \in UNION {Parts(f.body) : f \in Range(Bodies)} : p[1] = "text"}}
           s == SetToSeq(u)
<1>1. /\ pass = "strings" /\ pass' = "functions" /\ strings' = u
      /\ module' = [module EXCEPT !.strings = s]
      /\ UNCHANGED <<items, functions, methods, pending>>
  BY DEF collectStrings
<1>2. IsFiniteSet(u)
  BY CollectedFinite DEF AssemblyInv, Registered
<1> HIDE DEF u
<1>3. s \in Seq(u) /\ IsInjective(s) /\ Range(s) = u
  BY <1>2, SetInOrder
<1> HIDE DEF s
<1>4. /\ module'.defined = module.defined /\ module'.strings = s
      /\ module'.calls = module.calls /\ module'.texts = module.texts
      /\ module' = [defined |-> module'.defined, strings |-> module'.strings, calls |-> module'.calls, texts |-> module'.texts]
  BY <1>1 DEF AssemblyInv, Registered
<1>5. Registered'
  <2>1. Registry' = Registry
    BY <1>1, SameProgram
  <2>2. /\ items' \in Seq(Items) /\ pass' \in Passes /\ <<functions', methods'>> = Registry'
    BY <1>1, <1>4, <2>1 DEF AssemblyInv, Registered, Passes
  <2>3. QED
    BY <1>4, <2>2 DEF Registered
<1>6. TextsKept'
  <2>1. pending = <<>> /\ strings = {} /\ module.texts = {}
    BY <1>1 DEF AssemblyInv, TextsKept, TextsHeld
  <2>2. pending' = <<>> /\ module'.texts = {}
    BY <1>1, <1>4, <2>1
  <2>3. <<>> \in Seq(u) /\ IsInjective(<<>>) /\ Range(<<>>) = {}
    BY EmptySeq DEF IsInjective, Range
  <2>4. TextsHeld'
    BY <1>1, <1>2, <1>3, <1>4, <2>2, <2>3 DEF TextsHeld
  <2>5. QED
    BY <1>1, <2>4 DEF TextsKept
<1>7. Defines'
  BY <1>1, <1>4, NothingYet DEF BeforeBodies
<1>8. QED
  BY <1>5, <1>6, <1>7 DEF AssemblyInv

\* What all passes over bodies have in common.
LEMMA PassKeeps ==
    ASSUME AssemblyInv, pass \notin {"writing", "strings"},
           pass' \in {"impls", "inline", "main", "flush"},
           NEW fs, Emitted(fs), EmitAll(fs),
           UNCHANGED <<items, functions, methods, owners>>
    PROVE  /\ Registered' /\ TextsKept'
           /\ module'.defined = module.defined \o Symbols(fs)
           /\ module'.calls \subseteq functions' \cup {p[1] \o p[2] : p \in methods'}
<1>1. Registered /\ TextsHeld
  BY DEF AssemblyInv, TextsKept
<1> DEFINE K == functions \cup {p[1] \o p[2] : p \in methods}
<1>2. module.calls \subseteq K
  BY DEF AssemblyInv, Defines
<1>3. /\ module'.defined = module.defined \o Symbols(fs)
      /\ module'.calls \subseteq module.calls \cup functions \cup {p[1] \o p[2] : p \in methods}
      /\ module' = [defined |-> module'.defined, strings |-> module'.strings,
                    calls |-> module'.calls, texts |-> module'.texts]
      /\ TextsHeld'
  BY <1>1, Emits
<1>4. module'.calls \subseteq K /\ K' = K
  BY <1>2, <1>3
<1>5. Registered'
  <2>1. Registry' = Registry
    BY SameProgram
  <2>2. items' \in Seq(Items) /\ pass' \in Passes /\ <<functions', methods'>> = Registry'
    BY <1>1, <2>1 DEF Registered, Passes
  <2>3. QED
    BY <1>3, <2>2 DEF Registered
<1>6. TextsKept'
  BY <1>3 DEF TextsKept
<1>7. QED
  BY <1>3, <1>4, <1>5, <1>6

\* Free functions come first.
LEMMA EmitFunctionsKeeps ==
    ASSUME AssemblyInv, EmitFunctions
    PROVE  AssemblyInv'
<1> DEFINE fs == FreeFunctions
<1>1. /\ pass = "functions" /\ pass' = "impls" /\ EmitAll(fs)
      /\ UNCHANGED <<items, functions, methods, owners>>
  BY DEF EmitFunctions
<1>2. items \in Seq(Items)
  BY DEF AssemblyInv, Registered
<1>3. Emitted(fs) /\ Symbols(fs) = FreeSymbols
  BY <1>2, FreeAre DEF FreeSymbols
<1>4. Finite(FreeSymbols)
  <2>1. FreeSymbols = [i \in DOMAIN fs |-> FreeSymbols[i]]
    BY DEF FreeSymbols, Symbols
  <2> HIDE DEF fs
  <2>2. QED
    BY <1>3, <2>1, Mapped DEF Emitted
<1> HIDE DEF fs
<1>5. /\ Registered' /\ TextsKept'
      /\ module'.defined = module.defined \o Symbols(fs)
      /\ module'.calls \subseteq functions' \cup {p[1] \o p[2] : p \in methods'}
  BY <1>1, <1>3, PassKeeps
<1>6. module.defined = <<>>
  BY <1>1 DEF AssemblyInv, Defines, BeforeBodies
<1>7. module'.defined = FreeSymbols'
  <2>1. FreeSymbols' = FreeSymbols
    BY <1>1, SameProgram
  <2>2. QED
    BY <1>3, <1>4, <1>5, <1>6, <2>1, NothingBefore
<1>8. Defines'
  BY <1>1, <1>5, <1>7 DEF Defines, BeforeBodies
<1>9. QED
  BY <1>5, <1>8 DEF AssemblyInv

\* Methods add their symbols.
LEMMA MethodsKeep ==
    ASSUME AssemblyInv, NEW kind \in {"struct", "impl"},
           pass = IF kind = "impl" THEN "impls" ELSE "inline",
           pass' = IF kind = "impl" THEN "inline" ELSE "main",
           EmitAll(MethodsOf({kind})),
           UNCHANGED <<items, functions, methods, owners>>
    PROVE  AssemblyInv'
<1> DEFINE fs == MethodsOf({kind})
<1>1. items \in Seq(Items) /\ {kind} \subseteq {"struct", "impl"}
  BY DEF AssemblyInv, Registered
<1>2. Emitted(fs)
  BY <1>1, MethodsAre
<1>3. Symbols(fs) = IF kind = "impl" THEN ImplSymbols ELSE InlineSymbols
  BY DEF ImplSymbols, InlineSymbols
<1>4. EmitAll(fs)
  OBVIOUS
<1> HIDE DEF fs
<1>5. /\ Registered' /\ TextsKept'
      /\ module'.defined = module.defined \o Symbols(fs)
      /\ module'.calls \subseteq functions' \cup {p[1] \o p[2] : p \in methods'}
  BY <1>2, <1>4, PassKeeps
<1>6. FreeSymbols' = FreeSymbols /\ ImplSymbols' = ImplSymbols /\ InlineSymbols' = InlineSymbols
  BY SameProgram
<1>7. Defines'
  <2>1. CASE kind = "impl"
    <3>1. module.defined = FreeSymbols
      BY <2>1 DEF AssemblyInv, Defines
    <3>2. module'.defined = FreeSymbols' \o ImplSymbols'
      BY <1>3, <1>5, <1>6, <2>1, <3>1
    <3>3. QED
      BY <1>5, <2>1, <3>2 DEF Defines, BeforeBodies
  <2>2. CASE kind = "struct"
    <3>1. module.defined = FreeSymbols \o ImplSymbols
      BY <2>2 DEF AssemblyInv, Defines
    <3>2. module'.defined = (FreeSymbols' \o ImplSymbols') \o InlineSymbols'
      BY <1>3, <1>5, <1>6, <2>2, <3>1
    <3>3. QED
      BY <1>5, <2>2, <3>2 DEF Defines, BeforeBodies
  <2>3. QED
    BY <2>1, <2>2
<1>8. QED
  BY <1>5, <1>7 DEF AssemblyInv

\* The implicit main() is defined where the program has none.
LEMMA MainKeeps ==
    ASSUME AssemblyInv, EmitMain
    PROVE  AssemblyInv'
<1>1. /\ pass = "main" /\ pass' = "flush"
      /\ UNCHANGED <<items, functions, methods, owners>>
  BY DEF EmitMain
<1>2. items \in Seq(Items)
  BY <1>1 DEF AssemblyInv, Registered
<1> DEFINE three == (FreeSymbols \o ImplSymbols) \o InlineSymbols
<1>3. Registry' = Registry /\ three' = three
  BY <1>1, SameProgram
<1>4. module.defined = three
  BY <1>1 DEF AssemblyInv, Defines
<1>5. CASE Main \in functions
  <2>1. UNCHANGED <<strings, pending, module>>
    BY <1>5 DEF EmitMain
  <2>2. Registered'
    BY <1>1, <1>3, <2>1 DEF AssemblyInv, Registered, Passes
  <2>3. TextsKept'
    BY <1>1, <2>1 DEF AssemblyInv, TextsKept, TextsHeld
  <2>4. Defines'
    <3>1. module'.defined = three' /\ functions' = functions
      BY <1>1, <1>3, <1>4, <2>1
    <3>2. module'.calls \subseteq functions' \cup {p[1] \o p[2] : p \in methods'}
      BY <1>1, <2>1 DEF AssemblyInv, Defines
    <3>3. QED
      BY <1>1, <1>5, <3>1, <3>2 DEF Defines, BeforeBodies
  <2>5. QED
    BY <2>2, <2>3, <2>4 DEF AssemblyInv
<1>6. CASE Main \notin functions
  <2> DEFINE fs == <<Script>>
  <2>1. EmitAll(fs)
    BY <1>6 DEF EmitMain
  <2>2. Finite(Script.body) /\ Script.owner = <<>> /\ Script.name = Main
    BY <1>2, ScriptIs
  <2>3. DOMAIN fs = {1} /\ fs[1] = Script /\ Range(fs) = {Script}
    BY DEF Range
  <2>4. Emitted(fs)
    <3>1. fs \in Seq({Script})
      OBVIOUS
    <3>2. QED
      BY <2>2, <2>3, <3>1 DEF Emitted, Finite
  <2>5. Symbols(fs) = <<Main>>
    <3>1. Symbol(Script) = Main
      <4>1. <<>> \o Main = Main
        BY DEF Main
      <4>2. QED
        BY <2>2, <4>1 DEF Symbol
    <3>2. QED
      BY <2>3, <3>1 DEF Symbols
  <2> HIDE DEF fs
  <2>6. /\ Registered' /\ TextsKept'
        /\ module'.defined = module.defined \o Symbols(fs)
        /\ module'.calls \subseteq functions' \cup {p[1] \o p[2] : p \in methods'}
    BY <1>1, <2>1, <2>4, PassKeeps
  <2>7. module'.defined = three' \o <<Main>> /\ functions' = functions
    BY <1>1, <1>3, <1>4, <2>5, <2>6
  <2>8. Defines'
    BY <1>1, <1>6, <2>6, <2>7 DEF Defines, BeforeBodies
  <2>9. QED
    BY <2>6, <2>8 DEF AssemblyInv
<1>7. QED
  BY <1>5, <1>6

\* The late texts complete the pool.
LEMMA FlushKeeps ==
    ASSUME AssemblyInv, Flush
    PROVE  AssemblyInv'
<1> DEFINE s == module.strings \o pending
<1>1. /\ pass = "flush" /\ pass' = "done" /\ pending' = <<>>
      /\ module' = [module EXCEPT !.strings = s]
      /\ UNCHANGED <<items, functions, methods, strings>>
  BY DEF Flush
<1> DEFINE a == module.strings
           u == strings
<1>2. /\ a \in Seq(u) /\ pending \in Seq(u) /\ IsInjective(a) /\ IsInjective(pending)
      /\ Range(a) \cup Range(pending) = u /\ Range(a) \cap Range(pending) = {}
      /\ IsFiniteSet(u) /\ module.texts \subseteq u
  BY DEF AssemblyInv, TextsKept, TextsHeld
<1>3. s \in Seq(u) /\ Range(s) = u /\ IsInjective(s)
  BY <1>2, JoinRange
<1> HIDE DEF s
<1>4. /\ module'.defined = module.defined /\ module'.strings = s
      /\ module'.calls = module.calls /\ module'.texts = module.texts
      /\ module' = [defined |-> module'.defined, strings |-> module'.strings, calls |-> module'.calls, texts |-> module'.texts]
  BY <1>1 DEF AssemblyInv, Registered
<1>5. /\ FreeSymbols' = FreeSymbols /\ ImplSymbols' = ImplSymbols /\ InlineSymbols' = InlineSymbols
      /\ Registry' = Registry
  BY <1>1, SameProgram
<1>6. Registered'
  <2>1. /\ items' \in Seq(Items) /\ pass' \in Passes /\ <<functions', methods'>> = Registry'
    BY <1>1, <1>4, <1>5 DEF AssemblyInv, Registered, Passes
  <2>2. QED
    BY <1>4, <2>1 DEF Registered
<1>7. TextsKept'
  <2>1. <<>> \in Seq(u) /\ IsInjective(<<>>) /\ Range(<<>>) = {}
    BY EmptySeq DEF IsInjective, Range
  <2>2. TextsHeld'
    BY <1>1, <1>2, <1>3, <1>4, <2>1 DEF TextsHeld
  <2>3. QED
    BY <1>1, <2>2 DEF TextsKept
<1>8. Defines'
  BY <1>1, <1>4, <1>5 DEF AssemblyInv, Defines, BeforeBodies
<1>9. QED
  BY <1>6, <1>7, <1>8 DEF AssemblyInv

-----------------------------------------------------------------------------
(* The module at the end.                                                  *)

\* Steps that are no pass leave it.
LEMMA RestsAlike ==
    ASSUME AssemblyInv, UNCHANGED assemblyVars
    PROVE  AssemblyInv'
<1>1. UNCHANGED <<items, pass, functions, methods, strings, pending, module>>
  BY DEF assemblyVars
<1>2. /\ FreeSymbols' = FreeSymbols /\ ImplSymbols' = ImplSymbols /\ InlineSymbols' = InlineSymbols
      /\ Registry' = Registry
  BY <1>1, SameProgram
<1>3. Registered'
  BY <1>1, <1>2 DEF AssemblyInv, Registered
<1>4. TextsKept'
  BY <1>1 DEF AssemblyInv, TextsKept, TextsHeld
<1>5. Defines'
  BY <1>1, <1>2 DEF AssemblyInv, Defines
<1>6. QED
  BY <1>3, <1>4, <1>5 DEF AssemblyInv

\* So every step keeps the invariant,
LEMMA AssemblyKeeps ==
    ASSUME AssemblyInv, [AssemblyNext]_assemblyVars
    PROVE  AssemblyInv'
<1>1. CASE \E item \in Items : Write(item)
  BY <1>1, WriteKeeps
<1>2. CASE declareTopLevel
  BY <1>2, TopLevelKeeps
<1>3. CASE collectStrings
  BY <1>3, StringsKeep
<1>4. CASE EmitFunctions
  BY <1>4, EmitFunctionsKeeps
<1>5. CASE EmitImpls
  <2> DEFINE kind == "impl"
  <2>1. /\ pass = "impls" /\ pass' = "inline" /\ EmitAll(MethodsOf({kind}))
        /\ UNCHANGED <<items, functions, methods, owners>>
    BY <1>5 DEF EmitImpls
  <2>2. kind \in {"struct", "impl"} /\ kind = "impl"
    OBVIOUS
  <2> HIDE DEF kind
  <2>3. QED
    BY <2>1, <2>2, MethodsKeep
<1>6. CASE EmitInline
  <2> DEFINE kind == "struct"
  <2>1. /\ pass = "inline" /\ pass' = "main" /\ EmitAll(MethodsOf({kind}))
        /\ UNCHANGED <<items, functions, methods, owners>>
    BY <1>6 DEF EmitInline
  <2>2. kind \in {"struct", "impl"} /\ kind # "impl"
    OBVIOUS
  <2> HIDE DEF kind
  <2>3. QED
    BY <2>1, <2>2, MethodsKeep
<1>7. CASE EmitMain
  BY <1>7, MainKeeps
<1>8. CASE Flush
  BY <1>8, FlushKeeps
<1>9. CASE UNCHANGED assemblyVars
  BY <1>9, RestsAlike
<1>10. QED
  BY <1>1, <1>2, <1>3, <1>4, <1>5, <1>6, <1>7, <1>8, <1>9 DEF AssemblyNext

\* The symbols of two lists of functions, one after the other.
LEMMA SymbolsJoin ==
    ASSUME NEW a, NEW b, Finite(a), Finite(b)
    PROVE  /\ Symbols(a \o b) = Symbols(a) \o Symbols(b)
           /\ Finite(a \o b) /\ Finite(Symbols(a)) /\ Finite(Symbols(b))
<1> DEFINE A == Range(a)
           B == Range(b)
           S == A \cup B
           m == Len(a)
           n == Len(b)
           sa == Symbols(a)
           sb == Symbols(b)
           c == a \o b
<1>1. a \in Seq(A) /\ b \in Seq(B) /\ A \subseteq S /\ B \subseteq S
  BY DEF Finite
<1>2. a \in Seq(S) /\ b \in Seq(S)
  <2> HIDE DEF A, B, S
  <2>1. QED
    BY <1>1, SeqMonotonic
<1>3. /\ m \in Nat /\ DOMAIN a = 1..m /\ n \in Nat /\ DOMAIN b = 1..n
      /\ DOMAIN c = 1..(m + n)
      /\ \A k \in 1..(m + n) : c[k] = IF k <= m THEN a[k] ELSE b[k - m]
  <2> HIDE DEF S
  <2>1. QED
    BY <1>2, JoinElements
<1>4. c \in Seq(S)
  <2> HIDE DEF S
  <2>1. QED
    BY <1>2, ConcatProperties
<1>5. Finite(c)
  <2> HIDE DEF S, c
  <2>1. QED
    BY <1>4, InRange
<1>6. /\ sa = [i \in DOMAIN a |-> sa[i]] /\ sb = [i \in DOMAIN b |-> sb[i]]
      /\ \A i \in DOMAIN a : sa[i] = Symbol(a[i])
      /\ \A i \in DOMAIN b : sb[i] = Symbol(b[i])
  BY DEF Symbols
<1>7. Finite(sa) /\ Len(sa) = m /\ Finite(sb) /\ Len(sb) = n
  <2> HIDE DEF sa, sb
  <2>1. QED
    BY <1>6, Mapped
<1> HIDE DEF sa, sb, c, S
<1> DEFINE X == Range(sa)
           Y == Range(sb)
           Z == X \cup Y
<1>8. sa \in Seq(X) /\ sb \in Seq(Y) /\ X \subseteq Z /\ Y \subseteq Z
  BY <1>7 DEF Finite
<1> HIDE DEF X, Y, Z
<1>9. sa \in Seq(Z) /\ sb \in Seq(Z)
  BY <1>8, SeqMonotonic
<1> DEFINE sc == sa \o sb
<1>10. /\ sc = [k \in 1..(m + n) |-> sc[k]]
       /\ \A k \in 1..(m + n) : sc[k] = IF k <= m THEN sa[k] ELSE sb[k - m]
  <2>1. sc \in Seq(Z) /\ DOMAIN sc = 1..(m + n) /\ \A k \in 1..(m + n) : sc[k] = IF k <= m THEN sa[k] ELSE sb[k - m]
    <3>1. /\ sc \in Seq(Z)
          /\ DOMAIN sc = 1..(Len(sa) + Len(sb))
          /\ \A k \in 1..(Len(sa) + Len(sb)) : sc[k] = IF k <= Len(sa) THEN sa[k] ELSE sb[k - Len(sa)]
      BY <1>9, ConcatProperties, JoinElements
    <3> HIDE DEF sc
    <3>2. QED
      BY <1>7, <3>1
  <2> HIDE DEF sc, m, n
  <2>2. sc = [k \in DOMAIN sc |-> sc[k]]
    BY <2>1, LenProperties
  <2>3. QED
    BY <2>1, <2>2
<1> HIDE DEF sc, m, n
<1>11. ASSUME NEW k \in 1..(m + n) PROVE sc[k] = Symbol(c[k])
  <2>1. CASE k <= m
    <3>1. k \in 1..m
      BY <1>3, <2>1
    <3>2. QED
      BY <1>3, <1>6, <1>10, <2>1, <3>1
  <2>2. CASE ~(k <= m)
    <3>1. k - m \in 1..n
      BY <1>3, <2>2
    <3>2. QED
      BY <1>3, <1>6, <1>10, <2>2, <3>1
  <2>3. QED
    BY <2>1, <2>2
<1>12. Symbols(c) = [k \in 1..(m + n) |-> Symbol(c[k])]
  BY <1>3 DEF Symbols
<1>13. Symbols(c) = sc
  BY <1>10, <1>11, <1>12
<1>14. QED
  BY <1>5, <1>7, <1>13 DEF c, sc, sa, sb

\* What a program declares, by symbol.
LEMMA OwnIs ==
    ASSUME items \in Seq(Items)
    PROVE  /\ Own = (FreeSymbols \o InlineSymbols) \o ImplSymbols
           /\ Finite(FreeSymbols) /\ Finite(InlineSymbols) /\ Finite(ImplSymbols)
<1> DEFINE a == FreeFunctions
           b == MethodsOf({"struct"})
           c == MethodsOf({"impl"})
           all == Bodies
<1>1. Finite(a) /\ Finite(b) /\ Finite(c)
  <2>1. {"struct"} \subseteq {"struct", "impl"} /\ {"impl"} \subseteq {"struct", "impl"}
    OBVIOUS
  <2>2. QED
    BY <2>1, FreeAre, MethodsAre DEF Emitted
<1>2. FreeSymbols = Symbols(a) /\ InlineSymbols = Symbols(b) /\ ImplSymbols = Symbols(c)
  BY DEF FreeSymbols, InlineSymbols, ImplSymbols
<1>3. /\ Finite((a \o b) \o c) /\ Len(all) = Len((a \o b) \o c) + 1
      /\ \A i \in 1..Len((a \o b) \o c) : all[i] = ((a \o b) \o c)[i]
  BY BodiesAre
<1>4. Own = [i \in 1..(Len(all) - 1) |-> Symbol(all[i])]
  BY DEF Own
<1> HIDE DEF a, b, c, all
<1> DEFINE ab == a \o b
<1>5. Symbols(ab) = Symbols(a) \o Symbols(b) /\ Finite(ab) /\ Finite(Symbols(a)) /\ Finite(Symbols(b))
  BY <1>1, SymbolsJoin
<1> HIDE DEF ab
<1> DEFINE abc == ab \o c
<1>6. Symbols(abc) = Symbols(ab) \o Symbols(c) /\ Finite(Symbols(c))
  BY <1>1, <1>5, SymbolsJoin
<1>7. Finite(abc) /\ Len(all) = Len(abc) + 1 /\ \A i \in 1..Len(abc) : all[i] = abc[i]
  BY <1>3 DEF ab
<1> HIDE DEF abc
<1>8. Len(abc) \in Nat /\ DOMAIN abc = 1..Len(abc)
  BY <1>7, FiniteSeqs
<1>9. Len(all) - 1 = Len(abc)
  BY <1>7, <1>8
<1>10. Own = [i \in 1..Len(abc) |-> Symbol(abc[i])]
  BY <1>4, <1>7, <1>9
<1>11. Own = Symbols(abc)
  BY <1>8, <1>10 DEF Symbols
<1>12. QED
  BY <1>2, <1>5, <1>6, <1>11

\* Every method that is registered is defined by one of the two passes over methods.
LEMMA MethodSymbols ==
    ASSUME items \in Seq(Items), NEW p \in AllMethods
    PROVE  p[1] \o p[2] \in Range(InlineSymbols) \cup Range(ImplSymbols)
<1> DEFINE both == {"struct", "impl"}
<1>1. PICK f \in Range(MethodsOf(both)) : p = <<f.owner, f.name>>
  BY DEF AllMethods
<1>2. p[1] \o p[2] = Symbol(f)
  BY <1>1 DEF Symbol
<1>3. PICK q \in Places(both) : \E j \in DOMAIN items[q].methods : f = Function(items[q].name, items[q].methods[j])
  <2> HIDE DEF both
  <2>1. both \subseteq {"struct", "impl"}
    BY DEF both
  <2>2. \A g : g \in Range(MethodsOf(both))
              <=> \E q \in Places(both) : \E j \in DOMAIN items[q].methods :
                     g = Function(items[q].name, items[q].methods[j])
    BY <2>1, MethodsAre
  <2>3. f \in Range(MethodsOf(both))
    BY <1>1
  <2>4. QED
    BY <2>2, <2>3
<1>4. q \in Places({"struct"}) \/ q \in Places({"impl"})
  BY DEF Places
<1>5. ASSUME NEW kind \in both, q \in Places({kind})
      PROVE  Symbol(f) \in Range(Symbols(MethodsOf({kind})))
  <2> DEFINE K == {kind}
             fs == MethodsOf(K)
  <2>1. K \subseteq {"struct", "impl"}
    OBVIOUS
  <2>2. q \in Places(K)
    BY <1>5
  <2> HIDE DEF K
  <2>3. f \in Range(fs)
    BY <1>3, <2>1, <2>2, MethodsAre
  <2> HIDE DEF fs
  <2>4. Symbol(f) \in Range(Symbols(fs))
    BY <2>3 DEF Symbols, Range
  <2>5. QED
    BY <2>4 DEF fs, K
<1>6. QED
  BY <1>2, <1>4, <1>5 DEF InlineSymbols, ImplSymbols

\* A program that repeats no name has all its functions and one main() in the module,
\* each once, and every call reaches one.
LEMMA DefinedOnce ==
    ASSUME AssemblyInv, pass = "done", IsInjective(Own)
    PROVE  /\ Main \in Range(module.defined) /\ IsInjective(module.defined)
           /\ module.calls \subseteq Range(module.defined)
<1> DEFINE f == FreeSymbols
           n == InlineSymbols
           m == ImplSymbols
           F == Range(f)
           N == Range(n)
           M == Range(m)
           T == ((F \cup N) \cup M) \cup {Main}
<1>1. items \in Seq(Items) /\ functions = NamesOf("function") /\ methods = AllMethods
  BY DEF AssemblyInv, Registered, Registry
<1>2. Own = (f \o n) \o m /\ Finite(f) /\ Finite(n) /\ Finite(m)
  BY <1>1, OwnIs
<1>3. /\ module.defined = IF Main \in functions THEN (f \o m) \o n ELSE ((f \o m) \o n) \o <<Main>>
      /\ module.calls \subseteq functions \cup {p[1] \o p[2] : p \in methods}
  BY DEF AssemblyInv, Defines
<1>4. ASSUME NEW x \in functions PROVE x \in F
  <2>1. PICK g \in Range(FreeFunctions) : g.name = x
    BY <1>1, FreeAre
  <2>2. Symbol(g) = x
    BY <1>1, <2>1, FreeAre
  <2>3. QED
    BY <2>1, <2>2 DEF FreeSymbols, Symbols, Range
<1>5. ASSUME NEW p \in methods PROVE p[1] \o p[2] \in N \cup M
  BY <1>1, MethodSymbols
<1>6. Main \in F => Main \in functions
  <2>1. ASSUME Main \in F PROVE Main \in functions
    <3>1. PICK g \in Range(FreeFunctions) : Main = Symbol(g)
      BY <2>1 DEF FreeSymbols, Symbols, Range
    <3>2. QED
      BY <1>1, <3>1, FreeAre
  <2>2. QED
    BY <2>1
<1>7. Main \notin N /\ Main \notin M
  <2>1. ASSUME NEW kind \in {"struct", "impl"}, Main \in Range(Symbols(MethodsOf({kind}))) PROVE FALSE
    <3> DEFINE K == {kind}
    <3>1. PICK g \in Range(MethodsOf(K)) : Main = Symbol(g)
      BY <2>1 DEF Symbols, Range
    <3>2. K \subseteq {"struct", "impl"}
      OBVIOUS
    <3> HIDE DEF K
    <3>3. QED
      BY <1>1, <3>1, <3>2, MethodsAre
  <2>2. QED
    BY <2>1 DEF InlineSymbols, ImplSymbols
<1>8. f \in Seq(T) /\ n \in Seq(T) /\ m \in Seq(T) /\ <<Main>> \in Seq(T)
  <2>1. f \in Seq(F) /\ n \in Seq(N) /\ m \in Seq(M)
    BY <1>2 DEF Finite
  <2>2. F \subseteq T /\ N \subseteq T /\ M \subseteq T /\ Main \in T
    OBVIOUS
  <2> HIDE DEF f, n, m, F, N, M, T
  <2>3. QED
    BY <2>1, <2>2, SeqMonotonic
<1> HIDE DEF f, n, m, T
<1> DEFINE fn == f \o n
           fm == f \o m
<1>9. /\ fn \in Seq(T) /\ Range(fn) = F \cup N
      /\ IsInjective(fn) <=> IsInjective(f) /\ IsInjective(n) /\ F \cap N = {}
      /\ fm \in Seq(T) /\ Range(fm) = F \cup M
      /\ IsInjective(fm) <=> IsInjective(f) /\ IsInjective(m) /\ F \cap M = {}
  BY <1>8, JoinRange
<1> HIDE DEF fn, fm
<1>10. Own = fn \o m
  BY <1>2 DEF fn
<1>11. IsInjective(fn \o m) <=> IsInjective(fn) /\ IsInjective(m) /\ Range(fn) \cap M = {}
  BY <1>8, <1>9, JoinRange
<1>12. /\ IsInjective(fm) /\ IsInjective(n) /\ Range(fm) \cap N = {}
  BY <1>9, <1>10, <1>11
<1> DEFINE fmn == fm \o n
<1>13. fmn \in Seq(T) /\ Range(fmn) = (F \cup M) \cup N /\ IsInjective(fmn)
  <2>1. /\ fmn \in Seq(T) /\ Range(fmn) = Range(fm) \cup N
        /\ IsInjective(fmn) <=> IsInjective(fm) /\ IsInjective(n) /\ Range(fm) \cap N = {}
    BY <1>8, <1>9, JoinRange
  <2>2. QED
    BY <1>9, <1>12, <2>1
<1> HIDE DEF fmn, F, N, M
<1>14. module.calls \subseteq Range(fmn)
  BY <1>3, <1>4, <1>5, <1>13
<1>15. module.defined = IF Main \in functions THEN fmn ELSE fmn \o <<Main>>
  BY <1>3 DEF fmn, fm
<1>16. CASE Main \in functions
  <2>1. Main \in Range(fmn)
    BY <1>4, <1>13, <1>16
  <2>2. QED
    BY <1>13, <1>14, <1>15, <1>16, <2>1
<1>17. CASE Main \notin functions
  <2> DEFINE one == <<Main>>
             whole == fmn \o one
  <2>1. Range(one) = {Main} /\ IsInjective(one)
    BY DEF Range, IsInjective
  <2>2. one \in Seq(T)
    BY <1>8
  <2> HIDE DEF one
  <2>3. /\ Range(whole) = Range(fmn) \cup Range(one)
        /\ IsInjective(whole) <=> IsInjective(fmn) /\ IsInjective(one) /\ Range(fmn) \cap Range(one) = {}
    BY <1>13, <2>2, JoinRange
  <2>4. Range(fmn) \cap Range(one) = {}
    BY <1>6, <1>7, <1>13, <1>17, <2>1
  <2>5. module.defined = whole
    BY <1>15, <1>17 DEF one
  <2> HIDE DEF whole
  <2>6. QED
    BY <1>13, <1>14, <2>1, <2>3, <2>4, <2>5
<1>18. QED
  BY <1>16, <1>17

\* which says at the end what a whole module is.
LEMMA AssemblySafe ==
    ASSUME AssemblyInv
    PROVE  ModuleLinks
<1> SUFFICES ASSUME pass = "done", Distinct
             PROVE  /\ Main \in Range(module.defined) /\ IsInjective(module.defined)
                    /\ module.calls \subseteq Range(module.defined)
                    /\ module.texts \subseteq Range(module.strings) /\ IsInjective(module.strings)
  BY DEF ModuleLinks
<1>1. /\ Main \in Range(module.defined) /\ IsInjective(module.defined)
      /\ module.calls \subseteq Range(module.defined)
  BY DefinedOnce DEF Distinct
<1>2. module.texts \subseteq Range(module.strings) /\ IsInjective(module.strings)
  <2>1. Range(<<>>) = {}
    BY DEF Range
  <2>2. QED
    BY <2>1 DEF AssemblyInv, TextsKept, TextsHeld
<1>3. QED
  BY <1>1, <1>2

\* A module that is reported good defines once every function and text it uses, main()
\* among them: whatever programs have at top level, however many items there are, what
\* one pass of generate registers or collects, another one emits (ModuleLinks).  Of
\* variables it says nothing: a function has its own only.
THEOREM ModulesAreWhole == AssemblySpec => []ModuleLinks
<1>1. AssemblyInit => AssemblyInv
  BY AssemblyStarts
<1>2. AssemblyInv /\ [AssemblyNext]_assemblyVars => AssemblyInv'
  BY AssemblyKeeps
<1>3. AssemblyInv => ModuleLinks
  BY AssemblySafe
<1>4. QED
  BY <1>1, <1>2, <1>3, PTL DEF AssemblySpec
=============================================================================
