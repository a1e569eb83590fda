-------------------------- MODULE FunctionEmitter --------------------------
(***************************************************************************)
(* The control flow of compiler/codegen/irgen.cpp: how LLVMIRGenerator     *)
(* turns the statements of a function into the text of an LLVM function.   *)
(*                                                                         *)
(* The generator walks the syntax tree once and appends lines to           *)
(* irStream_.  Here the tree is whatever the walk meets: a step is the     *)
(* beginning, a turn (else, the next arm) or the end of a statement, and   *)
(* `open` is the C++ call stack of emitIf, emitFor, emitWhile and          *)
(* emitMatch, each frame holding the labels the call made and has not      *)
(* written yet.  `source` records what was met.                            *)
(*                                                                         *)
(* A line is a label, a branch, a return or `code`, the instructions of    *)
(* one expression or simple statement; `event` says which part of the      *)
(* source the line carries out.  Labels are the numbers of the generator's *)
(* counter, the entry block is 0.                                          *)
(***************************************************************************)
EXTENDS Integers, Sequences, FiniteSets

CONSTANTS
    Kinds,          \* the statements that functions are made of
    ReturnTypes,    \* the LLVM types that functions return
    MaxStatements,  \* bound: statements (and match arms) of a function
    MaxFunctions    \* bound: functions of a program

AllKinds == {"do", "return", "bare", "break", "continue", "bad",
             "if", "ifelse", "while", "for", "match", "empty", "arm", "wild"}

ASSUME KindsAssumption == Kinds \subseteq AllKinds
ASSUME ReturnTypesAssumption == ReturnTypes # {}
ASSUME BoundsAssumption == MaxStatements \in Nat /\ MaxFunctions \in Nat

VARIABLES
    out,        \* irStream_: the lines of the function being written
    open,       \* the statements being emitted, the innermost last
    loopStack,  \* loopStack_: where break and continue go
    hasReturn,  \* hasReturn_
    hasError,   \* hasError_
    retType,    \* curRetTy_
    counter,    \* the static counter of label()
    source,     \* what the walk has met in this function
    begun,      \* functions begun
    phase       \* "emit", or "done" after the closing brace

vars == <<out, open, loopStack, hasReturn, hasError, retType, counter,
          source, begun, phase>>

Label(n) == [op |-> "label", name |-> n]
Br(n) == [op |-> "br", to |-> n]
CondBr(yes, no, e) == [op |-> "cbr", yes |-> yes, no |-> no, event |-> e]
Ret(type, e) == [op |-> "ret", type |-> type, event |-> e]
Code(e) == [op |-> "code", event |-> e]

\* What the next line of the walk carries out: part w of the next token.
Here(w) == <<Len(source) + 1, w>>

\* A return of zero that no statement of the source asks for.
Unwritten == <<0, "ret">>

IsTerminator(line) == line.op \in {"br", "cbr", "ret"}

\* terminated(): the last line of the text, whatever block it is in.
Terminated == IsTerminator(out[Len(out)])

\* if (!terminated()) br label %n
JumpTo(n) == IF Terminated THEN <<>> ELSE <<Br(n)>>

Top == open[Len(open)]
Below == SubSeq(open, 1, Len(open) - 1)
Push(kind, next, end, back) ==
    open' = Append(open, [kind |-> kind, next |-> next, end |-> end, back |-> back,
                          at |-> Len(source) + 1])
Pop == open' = Below

PushLoop(brk, cont) == loopStack' = Append(loopStack, [brk |-> brk, cont |-> cont])
PopLoop == loopStack' = SubSeq(loopStack, 1, Len(loopStack) - 1)

Emit(lines) == out' = out \o lines
Fresh(n) == counter' = counter + n

Statements == Cardinality({i \in DOMAIN source : source[i] \notin {"else", "end"}})

\* emitStmt: the walk meets a token; a statement only where one may stand.
Meet(token) ==
    /\ phase = "emit"
    /\ source' = Append(source, token)
    /\ UNCHANGED <<retType, begun, phase>>

MeetStatement(kind) ==
    /\ kind \in Kinds
    /\ Statements < MaxStatements
    /\ open # <<>> => Top.kind # "match"
    /\ Meet(kind)

----------------------------------------------------------------------------

Init ==
    /\ out = <<Label(0)>>
    /\ open = <<>>
    /\ loopStack = <<>>
    /\ hasReturn = FALSE
    /\ hasError = FALSE
    /\ retType \in ReturnTypes
    /\ counter = 1
    /\ source = <<>>
    /\ begun = 1
    /\ phase = "emit"

\* Let, Mut, Assign and expression statements: straight-line code.
Simple ==
    /\ MeetStatement("do")
    /\ Emit(<<Code(Here("do"))>>)
    /\ UNCHANGED <<open, loopStack, hasReturn, hasError, counter>>

Return ==
    /\ MeetStatement("return")
    /\ Emit(<<Ret(retType, Here("ret"))>>)
    /\ hasReturn' = TRUE
    /\ UNCHANGED <<open, loopStack, hasError, counter>>

\* return without a value writes `ret T zero`, which is no LLVM constant.
ReturnBare ==
    /\ MeetStatement("bare")
    /\ Emit(<<Ret(IF retType = "void" THEN "void" ELSE "malformed", Here("ret"))>>)
    /\ hasReturn' = TRUE
    /\ UNCHANGED <<open, loopStack, hasError, counter>>

Break ==
    /\ MeetStatement("break")
    /\ IF loopStack = <<>>
       THEN hasError' = TRUE /\ UNCHANGED out
       ELSE Emit(<<Br(loopStack[Len(loopStack)].brk)>>) /\ UNCHANGED hasError
    /\ UNCHANGED <<open, loopStack, hasReturn, counter>>

Continue ==
    /\ MeetStatement("continue")
    /\ IF loopStack = <<>>
       THEN hasError' = TRUE /\ UNCHANGED out
       ELSE Emit(<<Br(loopStack[Len(loopStack)].cont)>>) /\ UNCHANGED hasError
    /\ UNCHANGED <<open, loopStack, hasReturn, counter>>

\* A for over something that is neither a range nor a list: its body is skipped.
BadFor ==
    /\ MeetStatement("bad")
    /\ hasError' = TRUE
    /\ UNCHANGED <<out, open, loopStack, hasReturn, counter>>

----------------------------------------------------------------------------

\* emitIf: labels then, end and, when there is an else branch, else.
BeginIf(kind) ==
    LET then == counter
        end  == counter + 1
        else == IF kind = "ifelse" THEN counter + 2 ELSE end
    IN  /\ MeetStatement(kind)
        /\ Emit(<<CondBr(then, else, Here("test")), Label(then)>>)
        /\ Push(kind, else, end, end)
        /\ Fresh(IF kind = "ifelse" THEN 3 ELSE 2)
        /\ UNCHANGED <<loopStack, hasReturn, hasError>>

If == BeginIf("if") \/ BeginIf("ifelse")

Else ==
    /\ open # <<>> /\ Top.kind = "ifelse"
    /\ Meet("else")
    /\ Emit(JumpTo(Top.end) \o <<Label(Top.next)>>)
    /\ open' = Append(Below, [Top EXCEPT !.kind = "else", !.next = Top.end])
    /\ UNCHANGED <<loopStack, hasReturn, hasError, counter>>

\* Seeded fault: the end label is left out when the last branch needs no jump to it.
Bug_EndIf ==
    /\ open # <<>> /\ Top.kind \in {"if", "else"}
    /\ Meet("end")
    /\ Emit(IF Terminated THEN <<>> ELSE <<Br(Top.end), Label(Top.end)>>)
    /\ Pop
    /\ UNCHANGED <<loopStack, hasReturn, hasError, counter>>

EndIf ==
    /\ open # <<>> /\ Top.kind \in {"if", "else"}
    /\ Meet("end")
    /\ Emit(JumpTo(Top.end) \o <<Label(Top.end)>>)
    /\ Pop
    /\ UNCHANGED <<loopStack, hasReturn, hasError, counter>>

\* emitWhile: labels cond, body and end.
BeginWhile ==
    LET cond == counter
        body == counter + 1
        end  == counter + 2
    IN  /\ MeetStatement("while")
        /\ Emit(<<Br(cond), Label(cond), CondBr(body, end, Here("test")), Label(body)>>)
        /\ Push("while", cond, end, cond)
        /\ PushLoop(end, cond)
        /\ Fresh(3)
        /\ UNCHANGED <<hasReturn, hasError>>

EndWhile ==
    /\ open # <<>> /\ Top.kind = "while"
    /\ Meet("end")
    /\ Emit(JumpTo(Top.next) \o <<Label(Top.end)>>)
    /\ Pop
    /\ PopLoop
    /\ UNCHANGED <<hasReturn, hasError, counter>>

\* Seeded fault: continue goes to the test and skips the increment.
Bug_BeginFor ==
    LET cond == counter
        body == counter + 1
        inc  == counter + 2
        end  == counter + 3
    IN  /\ MeetStatement("for")
        /\ Emit(<<Code(Here("enter")), Br(cond), Label(cond),
                  CondBr(body, end, Here("test")), Label(body)>>)
        /\ Push("for", inc, end, cond)
        /\ PushLoop(end, cond)
        /\ Fresh(4)
        /\ UNCHANGED <<hasReturn, hasError>>

\* emitFor and emitListFor: labels cond, body, inc (or cont) and end; the
\* bounds, or the buffer and length of the list, are read once, on entry.
BeginFor ==
    LET cond == counter
        body == counter + 1
        inc  == counter + 2
        end  == counter + 3
    IN  /\ MeetStatement("for")
        /\ Emit(<<Code(Here("enter")), Br(cond), Label(cond),
                  CondBr(body, end, Here("test")), Label(body)>>)
        /\ Push("for", inc, end, cond)
        /\ PushLoop(end, inc)
        /\ Fresh(4)
        /\ UNCHANGED <<hasReturn, hasError>>

\* Seeded fault: the body falls through into the increment (fix #011).
Bug_EndFor ==
    /\ open # <<>> /\ Top.kind = "for"
    /\ Meet("end")
    /\ Emit(<<Label(Top.next), Code(<<Top.at, "step">>), Br(Top.back), Label(Top.end)>>)
    /\ Pop
    /\ PopLoop
    /\ UNCHANGED <<hasReturn, hasError, counter>>

EndFor ==
    /\ open # <<>> /\ Top.kind = "for"
    /\ Meet("end")
    /\ Emit(JumpTo(Top.next) \o <<Label(Top.next), Code(<<Top.at, "step">>),
                                  Br(Top.back), Label(Top.end)>>)
    /\ Pop
    /\ PopLoop
    /\ UNCHANGED <<hasReturn, hasError, counter>>

----------------------------------------------------------------------------

\* emitMatch: label end, then one `case` label ahead of the arm it belongs to.
BeginMatch ==
    LET end  == counter
        next == counter + 1
    IN  /\ MeetStatement("match")
        /\ Statements + 1 < MaxStatements  \* room for an arm
        /\ Emit(<<Code(Here("enter")), Br(next)>>)
        /\ Push("match", next, end, end)
        /\ Fresh(2)
        /\ UNCHANGED <<loopStack, hasReturn, hasError>>

\* A match without arms.
EmptyMatch ==
    /\ MeetStatement("empty")
    /\ Emit(<<Code(Here("do")), Br(counter), Label(counter)>>)
    /\ Fresh(1)
    /\ UNCHANGED <<open, loopStack, hasReturn, hasError>>

\* Seeded fault: nextL is not moved on to the case after this arm.
Bug_BeginArm(kind) ==
    LET body == counter
        fall == counter + 1
    IN  /\ open # <<>> /\ Top.kind = "match"
        /\ kind \in Kinds
        /\ Statements < MaxStatements
        /\ Meet(kind)
        /\ Emit(<<Label(Top.next),
                  IF kind = "wild" THEN Br(body) ELSE CondBr(body, fall, Here("test")),
                  Label(body)>>)
        /\ open' = Append(Below, [Top EXCEPT !.kind = "arm"])
        /\ Fresh(2)
        /\ UNCHANGED <<loopStack, hasReturn, hasError>>

\* An arm tests its pattern; the wildcard `_` jumps to its body.
BeginArm(kind) ==
    LET body == counter
        fall == counter + 1
    IN  /\ open # <<>> /\ Top.kind = "match"
        /\ kind \in Kinds
        /\ Statements < MaxStatements
        /\ Meet(kind)
        /\ Emit(<<Label(Top.next),
                  IF kind = "wild" THEN Br(body) ELSE CondBr(body, fall, Here("test")),
                  Label(body)>>)
        /\ open' = Append(Below, [Top EXCEPT !.kind = "arm", !.next = fall])
        /\ Fresh(2)
        /\ UNCHANGED <<loopStack, hasReturn, hasError>>

Arm == BeginArm("arm") \/ BeginArm("wild")

EndArm ==
    /\ open # <<>> /\ Top.kind = "arm"
    /\ Meet("end")
    /\ Emit(JumpTo(Top.end))
    /\ open' = Append(Below, [Top EXCEPT !.kind = "match"])
    /\ UNCHANGED <<loopStack, hasReturn, hasError, counter>>

\* No arm left: the last case falls out, and a `ret i32 0` follows the end.
EndMatch ==
    /\ open # <<>> /\ Top.kind = "match"
    /\ source[Len(source)] # "match"
    /\ Meet("end")
    /\ Emit(<<Label(Top.next), Br(Top.end), Label(Top.end), Ret("i32", Unwritten)>>)
    /\ Pop
    /\ UNCHANGED <<loopStack, hasReturn, hasError, counter>>

----------------------------------------------------------------------------

\* The end of emitFunction: a return is added when there was none anywhere.
EndFunction ==
    /\ phase = "emit"
    /\ open = <<>>
    /\ phase' = "done"
    /\ Emit(IF hasReturn THEN <<>> ELSE <<Ret(retType, Unwritten)>>)
    /\ UNCHANGED <<open, loopStack, hasReturn, hasError, retType, counter, source, begun>>

\* Seeded fault: hasReturn_ is not reset.
Bug_NextFunction ==
    /\ phase = "done"
    /\ begun < MaxFunctions
    /\ phase' = "emit"
    /\ begun' = begun + 1
    /\ out' = <<Label(0)>>
    /\ open' = <<>>
    /\ loopStack' = <<>>
    /\ retType' \in ReturnTypes
    /\ source' = <<>>
    /\ UNCHANGED <<hasReturn, hasError, counter>>

\* The beginning of emitFunction; the labels of a program count on.
NextFunction ==
    /\ phase = "done"
    /\ begun < MaxFunctions
    /\ phase' = "emit"
    /\ begun' = begun + 1
    /\ out' = <<Label(0)>>
    /\ open' = <<>>
    /\ loopStack' = <<>>
    /\ hasReturn' = FALSE
    /\ retType' \in ReturnTypes
    /\ source' = <<>>
    /\ UNCHANGED <<hasError, counter>>

Next ==
    \/ Simple \/ Return \/ ReturnBare \/ Break \/ Continue \/ BadFor
    \/ If \/ Else \/ EndIf
    \/ BeginWhile \/ EndWhile \/ BeginFor \/ EndFor
    \/ BeginMatch \/ EmptyMatch \/ Arm \/ EndArm \/ EndMatch
    \/ EndFunction \/ NextFunction

Spec == Init /\ [][Next]_vars

----------------------------------------------------------------------------
(* Properties *)

Targets(line) ==
    CASE line.op = "br" -> {line.to}
      [] line.op = "cbr" -> {line.yes, line.no}
      [] OTHER -> {}

Lines == {out[i] : i \in DOMAIN out}
Defined == {line.name : line \in {x \in Lines : x.op = "label"}}
Pending == UNION {{open[i].next, open[i].end} : i \in DOMAIN open}

Names(c) == 0 .. c - 1

LineType(c) ==
    [op : {"label"}, name : Names(c)]
    \cup [op : {"br"}, to : Names(c)]
    \cup [op : {"cbr"}, yes : Names(c), no : Names(c), event : Nat \X {"test"}]
    \cup [op : {"ret"}, type : ReturnTypes \cup {"void", "malformed", "i32"},
          event : Nat \X {"ret"}]
    \cup [op : {"code"}, event : Nat \X {"do", "enter", "step"}]

FrameType(c) ==
    [kind : AllKinds \cup {"else"}, next : Names(c), end : Names(c),
     back : Names(c), at : Nat]

LoopType(c) == [brk : Names(c), cont : Names(c)]

\* The state has its types; every label in the text and in the stacks was
\* handed out by label() (irgen.cpp:3172).
TypeOK ==
    /\ out \in Seq(LineType(counter)) /\ Len(out) > 0
    /\ open \in Seq(FrameType(counter))
    /\ loopStack \in Seq(LoopType(counter))
    /\ hasReturn \in BOOLEAN /\ hasError \in BOOLEAN
    /\ retType \in ReturnTypes
    /\ counter \in Nat \ {0}
    /\ source \in Seq(AllKinds \cup {"else", "end"})
    /\ begun \in Nat
    /\ phase \in {"emit", "done"}

\* LLVM has no implicit fall-through (CHANGELOG_FIXES.md, fix #011): whatever
\* the bodies of a statement end with, the line before a label is a terminator.
BlocksEnd ==
    \A i \in 2 .. Len(out) : out[i].op = "label" => IsTerminator(out[i - 1])

\* A finished function branches only to labels that are in its text: also
\* breaks and continues out of nested statements, and after errors.
BranchesLand ==
    phase = "done" => \A line \in Lines : Targets(line) \subseteq Defined

\* No label is written twice, whatever is nested in what: in particular each
\* `case` label of a match is written once, by the arm after the one that made it.
LabelsOnce ==
    \A i, j \in DOMAIN out :
        (out[i].op = "label" /\ out[i] = out[j]) => i = j

\* Why BlocksEnd holds where no jump is written ahead of a label: between the arms
\* of a match the last line is a terminator, and only arms stand there.
ArmsFollowJumps ==
    /\ \A i \in DOMAIN open : open[i].kind = "match" => i = Len(open)
    /\ (open # <<>> /\ Top.kind = "match") => Terminated
    /\ phase = "done" => open = <<>>

\* Why BranchesLand holds: while a function is written, branches and the loop
\* stack name labels that are written or that an open statement will write.
Known == Defined \cup Pending

FrameKnown(f, defined) ==
    /\ f.kind \in {"if", "else"} => f.next = f.end
    /\ f.kind = "while" => f.next \in defined
    /\ f.kind = "for" => f.back \in defined

JumpsKnown ==
    /\ \A line \in Lines : Targets(line) \subseteq Known
    /\ \A i \in DOMAIN loopStack : {loopStack[i].brk, loopStack[i].cont} \subseteq Known
    /\ \A i \in DOMAIN open : FrameKnown(open[i], Defined)

\* A function without a return statement gets one at its end, whatever the
\* functions before it had: hasReturn_ does not leak from one to the next.
ReturnlessEnd ==
    (phase = "done" /\ \A i \in DOMAIN source : source[i] \notin {"return", "bare"})
        => Terminated

\* CHANGELOG_FIXES.md, fix #044, on the return after a match: "Match codegen must
\* always emit valid return for non-void functions": returns have the type of the
\* function.
ReturnsAgree == \A line \in Lines : line.op = "ret" => line.type = retType
=============================================================================
