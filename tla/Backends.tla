------------------------------ MODULE Backends ------------------------------
(***************************************************************************)
(* The backends that translate a program statement by statement: bytecode  *)
(* and the machine that runs it (compiler/codegen/vm), Python and          *)
(* JavaScript (compiler/codegen/python, compiler/codegen/js).  The program *)
(* is written as the parser would deliver it, expressions in postfix       *)
(* order, and every emitter handles an item as it comes; then the machine  *)
(* runs its code.  Of the two texts only what nests is kept: indentation   *)
(* and braces.                                                             *)
(*                                                                         *)
(* What the source means is followed while it is `plain` (Expressions).    *)
(***************************************************************************)
EXTENDS Integers, Sequences, SequencesExt, FiniteSets, TLC

CONSTANTS Names,
          Programs,  \* kinds of programs: name -> [items, max: how many are written]
          MaxPrinted

VARIABLES program, stage,
          count,     \* items written
          open,      \* constructs that are open: [k, braced, at, cond]
          tail,      \* what must come next: "close" or "if", the name whose
                     \* initial value is being written, or ""
          source,    \* its meaning: [ops, env, printed, plain, returned]
          code, locals, currentLocal,   \* Emitter::code_, localMap_, currentLocal_
          python, js,     \* [ind, lines] and [depth, lines]
          machine    \* the VM: [pc, stack, memory, printed]

bvars == <<program, stage, count, open, tail, source, code, locals, currentLocal, python, js, machine>>

IntV(n) == [t |-> "int", n |-> n]
BoolV(b) == [t |-> "bool", n |-> IF b THEN 1 ELSE 0]
Null == [t |-> "null", n |-> 0]

\* PUSH_INT and PUSH_BOOL have an int16_t operand.
Int16(n) == ((n + 32768) % 65536) - 32768

Instr(op, n) == [op |-> op, n |-> n]
PushOp(v) == CASE v.t = "int" -> Instr("PUSH_INT", Int16(v.n))
               [] v.t = "bool" -> Instr("PUSH_BOOL", v.n)
               [] v.t = "string" -> Instr("PUSH_STR", v.n)

Marker(o) == o.k = "elseif"

\* emitStmt knows neither Block nor what a function's body is.
SilentIn(os) == \E i \in DOMAIN os : os[i].braced
Silent == SilentIn(open)
Append2Code(is) == code' = IF Silent THEN code ELSE code \o is

-----------------------------------------------------------------------------
(* Operators, as the source and as the machine have them.                  *)

ArithOps == {"ADD", "SUB", "MUL", "DIV", "MOD"}
Comparisons == {"EQ", "NEQ", "LT", "GT", "LTE", "GTE"}

Truth(op, a, b) ==
    CASE op = "EQ" -> a = b [] op = "NEQ" -> a # b
      [] op = "LT" -> a < b [] op = "GT" -> a > b
      [] op = "LTE" -> a <= b [] op = "GTE" -> a >= b

\* Division truncates; by zero it gives zero.
Abs(n) == IF n < 0 THEN -n ELSE n
Quotient(a, b) ==
    LET q == IF b = 0 THEN 0 ELSE Abs(a) \div Abs(b)
    IN  IF (a < 0) = (b < 0) THEN q ELSE -q
Arith(op, a, b) ==
    CASE op = "ADD" -> a + b [] op = "SUB" -> a - b [] op = "MUL" -> a * b
      [] op = "DIV" -> Quotient(a, b)
      [] op = "MOD" -> IF b = 0 THEN 0 ELSE a - b * Quotient(a, b)

binOp(op, a, b) ==
    IF a.t # "int" \/ b.t # "int" THEN IntV(0)
    ELSE IF op \in ArithOps THEN IntV(Arith(op, a.n, b.n))
    ELSE BoolV(Truth(op, a.n, b.n))

Logical(op, a, b) == BoolV(IF op = "AND" THEN a.n = 1 /\ b.n = 1 ELSE a.n = 1 \/ b.n = 1)

-----------------------------------------------------------------------------
(* The texts.                                                              *)

Blank == [ind |-> 0, lines |-> <<>>]
Written(text, head, depth) ==
    [text EXCEPT !.lines = Append(@, [ind |-> text.ind, head |-> head, depth |-> depth])]
In(text, by) == [text EXCEPT !.ind = @ + by]

\* A braced body is a Block inside the construct, a function's is not.
Steps(o) == IF o.braced /\ o.k # "fn" THEN 2 ELSE 1

\* how deep the text is in the first i of these constructs
Depths(os) == LET upTo[i \in 0..Len(os)] == IF i = 0 THEN 0 ELSE upTo[i - 1] + Steps(os[i])
              IN  upTo
Braces == Depths(open)[Len(open)]

Statement == /\ python' = Written(python, FALSE, Len(open))
             /\ js' = Written(js, FALSE, Braces)
Header(o) == /\ python' = In(Written(python, TRUE, Len(open)), Steps(o))
             /\ js' = In(Written(js, TRUE, Braces), Steps(o))

-----------------------------------------------------------------------------
(* Expressions.  `plain` notes whether the machine can be held to the      *)
(* meaning: it has 16-bit literals, no unary minus, no text operators, and *)
(* logic for truth values only.                                            *)

Item == /\ stage = "writing"
        /\ count < Programs[program].max
        /\ count' = count + 1
        /\ UNCHANGED <<program, stage, machine>>

Expression == /\ Item
              /\ tail \in Names \cup {"", "if"}
              /\ UNCHANGED <<open, tail, locals, currentLocal, python, js>>

Top(i) == source.ops[Len(source.ops) + 1 - i]
Reduce(n, v, ok) ==
    source' = [source EXCEPT !.ops = Append(SubSeq(@, 1, Len(@) - n), v),
                             !.plain = @ /\ ok]

Push(v) == /\ Expression
           /\ Append2Code(<<PushOp(v)>>)
           /\ Reduce(0, v, v.t = "string" \/ PushOp(v).n = v.n)

Ident(x) == /\ Expression
            /\ Append2Code(<<IF locals[x] # 0 THEN Instr("GET_LOCAL", locals[x]) ELSE Instr("PUSH_INT", 0)>>)
            /\ Reduce(0, source.env[x], source.env[x] # Null /\ tail # x)

Binary(op) ==
    /\ Expression
    /\ Len(source.ops) >= 2
    /\ Append2Code(<<Instr(op, 0)>>)
    /\ LET a == Top(2)
           b == Top(1)
       IN  IF op \in {"AND", "OR"}
           THEN Reduce(2, IF {a.t, b.t} = {"bool"} THEN Logical(op, a, b) ELSE Null, {a.t, b.t} = {"bool"})
           ELSE Reduce(2, binOp(op, a, b), a.t = "int" /\ b.t = "int" /\ ~(op \in {"DIV", "MOD"} /\ b.n = 0))

\* x, 0, SUB
Minus == /\ Expression
         /\ Len(source.ops) >= 1
         /\ Append2Code(<<Instr("PUSH_INT", 0), Instr("SUB", 0)>>)
         /\ Reduce(1, IntV(-Top(1).n), FALSE)

\* A call leaves its argument where its result should be.
Call == /\ Expression
        /\ Len(source.ops) >= 1
        /\ Append2Code(<<Instr("CALL", 0)>>)
        /\ Reduce(1, [t |-> "printed", n |-> 0, value |-> Top(1)], Top(1).t # "printed")

-----------------------------------------------------------------------------
(* Statements.                                                             *)

\* The statement that ends here may be the whole body of what is open.
Ends == tail' = IF open # <<>> /\ ~Last(open).braced THEN "close" ELSE ""

Simple(n) == /\ Item
             /\ tail = ""
             /\ Len(source.ops) = n
             /\ Ends
             /\ Statement
             /\ UNCHANGED <<open, locals, currentLocal>>

\* What stands at the top level is followed; functions are not called.
Follow(change, ok) ==
    source' = CASE source.returned -> [source EXCEPT !.ops = <<>>]
                [] ~source.returned /\ (\A i \in DOMAIN open : Marker(open[i])) ->
                       [change EXCEPT !.ops = <<>>, !.plain = @ /\ ok]
                [] OTHER -> [source EXCEPT !.ops = <<>>, !.plain = @ /\ open[1].k = "fn"]

NewLocal(x) == /\ locals' = IF Silent THEN locals ELSE [locals EXCEPT ![x] = currentLocal + 1]
               /\ currentLocal' = IF Silent THEN currentLocal ELSE currentLocal + 1

Zeroed == <<Instr("PUSH_INT", 0), Instr("SET_LOCAL", currentLocal + 1)>>

\* The name is bound to its new local before its value is computed.
BeginLet(x) ==
    /\ Item
    /\ tail = ""
    /\ source.ops = <<>>
    /\ tail' = x
    /\ NewLocal(x)
    /\ Append2Code(Zeroed)
    /\ UNCHANGED <<open, source, python, js>>

Let ==
    /\ Item
    /\ tail \in Names
    /\ Len(source.ops) = 1
    /\ Ends
    /\ Statement
    /\ Append2Code(<<Instr("SET_LOCAL", currentLocal)>>)
    /\ Follow([source EXCEPT !.env[tail] = Top(1)], Top(1).t # "printed")
    /\ UNCHANGED <<open, locals, currentLocal>>

Printed(v) == IF v.t = "printed" THEN v.value ELSE Null

\* Every expression that is a statement prints.
Expr ==
    /\ Simple(1)
    /\ Append2Code(<<Instr("PRINT", 0)>>)
    /\ Follow([source EXCEPT !.printed = Append(@, Printed(Top(1)))], Top(1).t = "printed")

ReturnStmt(n) ==
    /\ Simple(n)
    /\ Append2Code(<<Instr("RETURN", 0)>>)
    /\ Follow([source EXCEPT !.returned = TRUE], TRUE)

Opened(k, braced) == [k |-> k, braced |-> braced, at |-> Len(code), cond |-> Null]
Open(o) == /\ open' = Append(open, o)
           /\ tail' = ""
           /\ Header(o)

\* The condition jumps away when it holds; so do those of the loops.
OpenIf(braced) ==
    /\ Item
    /\ tail \in {"", "if"}
    /\ Len(source.ops) = 1
    /\ Open([Opened("if", braced) EXCEPT !.cond = Top(1)])
    /\ Append2Code(<<Instr("JUMP_IF", 0)>>)
    /\ Follow(source, Top(1).t = "bool" /\ braced)
    /\ UNCHANGED <<locals, currentLocal>>

OpenWhile(cond, braced) ==
    /\ Item
    /\ tail = "" /\ source.ops = <<>>
    /\ Open([Opened("while", braced) EXCEPT !.at = Len(code) + 1])
    /\ Append2Code(<<PushOp(BoolV(cond)), Instr("JUMP_IF", 0)>>)
    /\ Follow(source, FALSE)
    /\ UNCHANGED <<locals, currentLocal>>

\* What is iterated over is not looked at: the counter is compared with 0.
OpenFor(x, braced) ==
    /\ Item
    /\ tail = "" /\ source.ops = <<>>
    /\ Open([Opened("for", braced) EXCEPT !.at = Len(code) + 5])
    /\ NewLocal(x)
    /\ Append2Code(Zeroed \o <<Instr("GET_LOCAL", currentLocal + 1), Instr("PUSH_INT", 0),
                              Instr("GTE", 0), Instr("JUMP_IF", 0)>>)
    /\ Follow([source EXCEPT !.env[x] = Null], braced)

OpenFn == /\ Item
          /\ tail = "" /\ open = <<>> /\ source.ops = <<>>
          /\ Open(Opened("fn", TRUE))
          /\ UNCHANGED <<source, code, locals, currentLocal>>

Closable == IF Last(open).braced THEN tail = "" /\ source.ops = <<>> ELSE tail = "close"

Patch(is, ats, target) ==
    [i \in DOMAIN is |-> IF i - 1 \in ats THEN [is[i] EXCEPT !.n = target] ELSE is[i]]

\* With an if statement end those it is the else branch of.
Chain(os) == {i \in DOMAIN os : \A j \in i..Len(os) : Marker(os[j])}
Ats(os) == {os[i].at : i \in Chain(os)}
Bug_EndStatement(closed) ==
    LET outer == SubSeq(Front(open), 1, Len(open) - 1 - Cardinality(Chain(Front(open))))
    IN  /\ open' = outer
        /\ tail' = IF outer # <<>> /\ ~Last(outer).braced THEN "close" ELSE ""
        /\ python' = In(python, -Steps(closed))
        /\ js' = In(js, -Steps(closed))

EndStatement(closed) ==
    LET outer == SubSeq(Front(open), 1, Len(open) - 1 - Cardinality(Chain(Front(open))))
        by == -(Steps(closed) + Cardinality(Chain(Front(open))))
    IN  /\ open' = outer
        /\ tail' = IF outer # <<>> /\ ~Last(outer).braced THEN "close" ELSE ""
        /\ python' = In(python, by)
        /\ js' = In(js, by)

CloseIf ==
    /\ Item
    /\ open # <<>> /\ Last(open).k = "if" /\ Closable
    /\ EndStatement(Last(open))
    /\ code' = IF SilentIn(Front(open)) THEN code
               ELSE Patch(Patch(code, {Last(open).at}, Len(code) + 1), Ats(Front(open)), Len(code))
    /\ source' = [source EXCEPT !.plain = @ /\ (SilentIn(Front(open)) \/ Last(open).cond # BoolV(TRUE))]
    /\ UNCHANGED <<locals, currentLocal>>

\* k is "else", or "elseif" before the condition of another if.
CloseThen(k, braced) ==
    /\ Item
    /\ open # <<>> /\ Last(open).k = "if" /\ Closable
    /\ open' = Append(Front(open), Opened(k, braced))
    /\ tail' = IF k = "elseif" THEN "if" ELSE ""
    /\ python' = In(Written(In(python, -Steps(Last(open))), TRUE, Len(open) - 1), Steps(Last(open')))
    /\ js' = In(Written(In(js, -Steps(Last(open))), TRUE, Braces - Steps(Last(open))), Steps(Last(open')))
    /\ code' = IF SilentIn(Front(open)) THEN code
               ELSE Append(Patch(code, {Last(open).at}, Len(code) + 1), Instr("JUMP", 0))
    /\ UNCHANGED <<source, locals, currentLocal>>

Bug_CloseElse ==
    /\ Item
    /\ open # <<>> /\ Last(open).k = "else" /\ Closable
    /\ EndStatement(Last(open))
    /\ code' = IF SilentIn(Front(open)) THEN code
               ELSE Patch(code, {Last(open).at} \cup Ats(Front(open)), Len(code) + 1)
    /\ UNCHANGED <<source, locals, currentLocal>>

CloseElse ==
    /\ Item
    /\ open # <<>> /\ Last(open).k = "else" /\ Closable
    /\ EndStatement(Last(open))
    /\ code' = IF SilentIn(Front(open)) THEN code
               ELSE Patch(code, {Last(open).at} \cup Ats(Front(open)), Len(code))
    /\ UNCHANGED <<source, locals, currentLocal>>

\* A for loop counts in the local declared last.
CloseLoop ==
    /\ Item
    /\ open # <<>> /\ Last(open).k \in {"for", "while"} /\ Closable
    /\ EndStatement(Last(open))
    /\ LET at == Last(open).at
           again == IF Last(open).k = "while" THEN <<Instr("JUMP", at - 1)>>
                    ELSE <<Instr("GET_LOCAL", currentLocal), Instr("PUSH_INT", 1), Instr("ADD", 0),
                           Instr("SET_LOCAL", currentLocal), Instr("JUMP", at - 3)>>
       IN  code' = IF SilentIn(Front(open)) THEN code
                   ELSE Patch(code \o again, {at}, Len(code \o again))
    /\ UNCHANGED <<source, locals, currentLocal>>

CloseFn == /\ Item
           /\ open # <<>> /\ Last(open).k = "fn" /\ Closable
           /\ EndStatement(Last(open))
           /\ UNCHANGED <<source, code, locals, currentLocal>>

-----------------------------------------------------------------------------
(* The machine.                                                            *)

Start == /\ stage = "writing"
         /\ open = <<>> /\ tail = "" /\ source.ops = <<>> /\ count > 0
         /\ stage' = "running"
         /\ code' = Append(code, Instr("RETURN", 0))
         /\ UNCHANGED <<program, count, open, tail, source, locals, currentLocal, python, js, machine>>

Pop(st) == IF st = <<>> THEN st ELSE Front(st)
Peek(st) == IF st = <<>> THEN Null ELSE Last(st)

Pushed(v) == [machine EXCEPT !.stack = Append(@, v), !.pc = @ + 1]
TwoFor(v) == [machine EXCEPT !.stack = Append(Pop(Pop(@)), v), !.pc = @ + 1]
Memory(n) == IF n \in DOMAIN machine.memory THEN machine.memory[n] ELSE IntV(0)

Running == stage = "running" /\ machine.pc < Len(code) /\ Len(machine.printed) < MaxPrinted
Fetched == code[machine.pc + 1]

Goes(m) == /\ machine' = m
           /\ stage' = stage
Throws == /\ stage' = "threw"
          /\ machine' = machine

Execute(i) ==
    LET b == Peek(machine.stack)
        a == Peek(Pop(machine.stack))
    IN  CASE i.op = "PUSH_INT" -> Goes(Pushed(IntV(i.n)))
          [] i.op = "PUSH_BOOL" -> Goes(Pushed(BoolV(i.n # 0)))
          [] i.op = "PUSH_STR" -> Goes(Pushed([t |-> "string", n |-> i.n]))
          [] i.op = "GET_LOCAL" -> Goes(Pushed(Memory(i.n)))
          [] i.op = "SET_LOCAL" -> Goes([machine EXCEPT !.memory = (i.n :> b) @@ @,
                                                        !.stack = Pop(@), !.pc = @ + 1])
          [] i.op \in ArithOps \cup Comparisons -> Goes(TwoFor(binOp(i.op, a, b)))
          [] i.op \in {"AND", "OR"} -> IF {a.t, b.t} = {"bool"} THEN Goes(TwoFor(Logical(i.op, a, b))) ELSE Throws
          [] i.op = "PRINT" -> Goes([machine EXCEPT !.printed = Append(@, b), !.stack = Pop(@), !.pc = @ + 1])
          [] i.op = "JUMP" -> Goes([machine EXCEPT !.pc = i.n])
          [] i.op = "JUMP_IF" -> IF b.t # "bool" THEN Throws
                                 ELSE Goes([machine EXCEPT !.stack = Pop(@), !.pc = IF b.n = 1 THEN i.n ELSE @ + 1])
          [] i.op = "CALL" -> Goes([machine EXCEPT !.pc = @ + 1])
          [] i.op = "RETURN" -> /\ stage' = "halted"
                                /\ machine' = [machine EXCEPT !.stack = Pop(@)]

Step == /\ Running
        /\ Execute(Fetched)
        /\ UNCHANGED <<program, count, open, tail, source, code, locals, currentLocal, python, js>>

Halt == /\ stage = "running" /\ machine.pc >= Len(code)
        /\ stage' = "halted"
        /\ UNCHANGED <<program, count, open, tail, source, code, locals, currentLocal, python, js, machine>>

-----------------------------------------------------------------------------
BackendInit ==
    /\ program \in DOMAIN Programs
    /\ stage = "writing"
    /\ count = 0
    /\ open = <<>> /\ tail = ""
    /\ source = [ops |-> <<>>, env |-> [x \in Names |-> Null], printed |-> <<>>,
                 plain |-> TRUE, returned |-> FALSE]
    /\ code = <<>> /\ locals = [x \in Names |-> 0] /\ currentLocal = 0
    /\ python = Blank /\ js = Blank
    /\ machine = [pc |-> 0, stack |-> <<>>, memory |-> <<>>, printed |-> <<>>]

Has(item) == item \in Programs[program].items

LiteralValues == {IntV(1), IntV(65537), BoolV(TRUE), BoolV(FALSE), [t |-> "string", n |-> 0]}

WriteExpression ==
    \/ \E v \in LiteralValues : Has(<<"push", v>>) /\ Push(v)
    \/ \E x \in Names : Has(<<"ident", x>>) /\ Ident(x)
    \/ \E op \in ArithOps \cup Comparisons \cup {"AND", "OR"} : Has(<<"binary", op>>) /\ Binary(op)
    \/ Has(<<"minus">>) /\ Minus
    \/ Has(<<"call">>) /\ Call

WriteStatement ==
    \/ \E x \in Names : Has(<<"let", x>>) /\ BeginLet(x)
    \/ Let
    \/ Has(<<"expr">>) /\ Expr
    \/ \E n \in 0..1 : Has(<<"return">>) /\ ReturnStmt(n)

WriteConstruct ==
    \E braced \in BOOLEAN :
        \/ Has(<<"if", braced>>) /\ OpenIf(braced)
        \/ Has(<<"while", braced>>) /\ \E c \in BOOLEAN : OpenWhile(c, braced)
        \/ \E x \in Names : Has(<<"for", braced>>) /\ OpenFor(x, braced)
        \/ Has(<<"else", braced>>) /\ CloseThen("else", braced)

Close == CloseIf \/ CloseElse \/ CloseLoop \/ CloseFn

BackendNext ==
        \/ WriteExpression
        \/ WriteStatement
        \/ WriteConstruct
        \/ Has(<<"elseif">>) /\ CloseThen("elseif", FALSE)
        \/ Has(<<"fn">>) /\ OpenFn
        \/ Close
        \/ Start \/ Step \/ Halt

BackendSpec == BackendInit /\ [][BackendNext]_bvars
-----------------------------------------------------------------------------
\* The machine prints what the program says, and nothing is left over.
PrintsAsWritten ==
    source.plain =>
        /\ stage # "threw"
        /\ stage = "halted" => /\ machine.printed = source.printed
                               /\ machine.stack = <<>>

\* How Python nests lines: the indentations of the open blocks, innermost
\* last, after each line, and whether there was no error.
Nest(acc, l) ==
    LET kept == SubSeq(acc.stack, 1, Cardinality({i \in DOMAIN acc.stack : acc.stack[i] <= l.ind}))
    IN  IF acc.head
        THEN [stack |-> Append(acc.stack, l.ind), ok |-> acc.ok /\ l.ind > Last(acc.stack), head |-> l.head]
        ELSE [stack |-> kept, ok |-> acc.ok /\ Last(kept) = l.ind, head |-> l.head]
Reading(lines) == LET upTo[i \in 0..Len(lines)] ==
                          IF i = 0 THEN [stack |-> <<0>>, ok |-> TRUE, head |-> FALSE]
                          ELSE Nest(upTo[i - 1], lines[i])
                  IN  upTo

EmptyBody ==
    \E i \in DOMAIN python.lines :
        /\ python.lines[i].head
        /\ i = Len(python.lines) \/ python.lines[i + 1].depth <= python.lines[i].depth

\* Python and JavaScript nest the statements as the program does.
NestsAsWritten ==
    stage = "running" /\ machine.pc = 0 =>
        /\ \A i \in DOMAIN js.lines : js.lines[i].ind = js.lines[i].depth
        /\ js.ind = 0
        /\ ~EmptyBody => LET read == Reading(python.lines)
                         IN  \A n \in DOMAIN python.lines :
                                 read[n].ok /\ Len(read[n].stack) = python.lines[n].depth + 1
=============================================================================
