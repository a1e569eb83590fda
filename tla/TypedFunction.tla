--------------------------- MODULE TypedFunction ---------------------------
(***************************************************************************)
(* One function on its way from the type checker through the IR generator. *)
(* The body is written node by node, in postfix order, as any program can  *)
(* be; the checker and the generator's prescan look at each node when it   *)
(* is written, and emission begins when the function is complete.          *)
(* Elements of lists and structs are leaves, because the checker does not  *)
(* visit them and the generator does.                                      *)
(***************************************************************************)
EXTENDS TypeChecker

CONSTANTS Names, FunctionSigs,
          Topics       \* functions to be written: [nodes: the nodes of the body,
                       \*   params: name -> type name, ret: type name, max: nodes]

VARIABLES body, phase, next, topic, slots, inferred, vals, ir

vars == <<symbols, types, rejected, body, phase, next, topic, slots, inferred, vals, ir>>

Emitter == INSTANCE ExpressionEmitter

-----------------------------------------------------------------------------
(* A node: kind k, operation, name or type a, field or declared type b,    *)
(* operands n.                                                             *)

Leaves == {"literal", "ident", "field"}
Statements == {"let", "mut", "assign", "setField", "setIndex", "return", "expr"}

LeavesOnTop(n) ==
    \A i \in 1..n : body[Len(body) + 1 - i].node.k \in Leaves

CheckNode(d) ==
    CASE d.k = "literal" -> CheckLiteral(d.a)
      [] d.k = "ident" -> CheckIdent(d.a)
      [] d.k = "binary" -> CheckBinary(d.a)
      [] d.k = "unary" -> CheckUnary
      [] d.k = "conditional" -> CheckConditional
      [] d.k = "call" -> CheckCall(d.a, d.n)
      [] d.k = "cast" -> CheckCast(d.a)
      [] d.k = "array" -> CheckArray(d.n)
      [] d.k = "index" -> CheckIndex
      [] d.k = "append" -> CheckCall("append", 1)
      [] d.k = "struct" -> CheckStruct(d.a)
      [] d.k = "field" -> CheckField(d.a, d.b)
      [] d.k = "interpolation" -> CheckInterpolation(d.n)
      [] d.k \in {"let", "mut"} -> CheckDeclaration(d.a, Type(d.b))
      [] d.k \in {"assign", "setField", "setIndex", "return", "expr"} -> CheckUse(d.n)

PrescanNode(d) ==
    CASE d.k = "literal" -> Emitter!Infer(0, d.a)
      [] d.k = "ident" -> Emitter!InferIdent(d.a)
      [] d.k = "binary" -> Emitter!InferBinary
      [] d.k = "unary" -> Emitter!Infer(1, Last(inferred))
      [] d.k = "conditional" -> Emitter!InferConditional
      [] d.k = "call" -> Emitter!InferCall(d.a, d.n)
      [] d.k = "array" -> Emitter!Infer(d.n, "array")
      [] d.k = "struct" -> Emitter!Infer(d.n, d.a)
      [] d.k = "interpolation" -> Emitter!Infer(d.n, "string")
      [] d.k \in {"cast", "index", "append", "field"} -> Emitter!Infer(d.n, "")
      [] d.k \in {"let", "mut"} -> Emitter!Prescan(d.a, d.b)
      [] d.k \in Statements \ {"let", "mut"} -> Emitter!Skip(d.n)

EmitNode(d) ==
    CASE d.k = "literal" -> Emitter!EmitLiteral(d.a)
      [] d.k = "ident" -> Emitter!EmitIdent(d.a)
      [] d.k = "binary" -> Emitter!EmitBinary(d.a)
      [] d.k = "unary" -> Emitter!EmitUnary(d.a)
      [] d.k = "conditional" -> Emitter!EmitConditional
      [] d.k = "call" -> Emitter!EmitCallee(d.a, d.n)
      [] d.k = "cast" -> Emitter!EmitCast(d.a)
      [] d.k = "array" -> Emitter!EmitArray(d.n)
      [] d.k = "index" -> Emitter!EmitIndex
      [] d.k = "append" -> Emitter!EmitAppend(d.a)
      [] d.k = "struct" -> Emitter!EmitStruct(d.a)
      [] d.k = "field" -> Emitter!EmitField(d.a, d.b)
      [] d.k = "interpolation" -> Emitter!EmitInterpolation(d.n)
      [] d.k = "let" -> Emitter!EmitLet(d.a)
      [] d.k \in {"mut", "assign"} -> Emitter!EmitStore(d.a)
      [] d.k = "setField" -> Emitter!EmitSetField(d.a, d.b)
      [] d.k = "setIndex" -> Emitter!EmitSetIndex
      [] d.k = "return" -> Emitter!EmitReturn(Topics[topic].ret)
      [] d.k = "expr" -> Emitter!EmitExpression

-----------------------------------------------------------------------------
Init ==
    /\ topic \in DOMAIN Topics
    /\ symbols = [x \in Names |-> IF x \in DOMAIN Topics[topic].params THEN Type(Topics[topic].params[x]) ELSE NoType]
    /\ slots = [x \in Names |-> IF x \in DOMAIN Topics[topic].params THEN Emitter!Slot(Topics[topic].params[x])
                                ELSE Emitter!NoSlot]
    /\ types = <<>>
    /\ rejected = FALSE
    /\ body = <<>>
    /\ phase = "checking"
    /\ next = 1
    /\ inferred = <<>>
    /\ vals = <<>>
    /\ ir = Emitter!NoCode

Check(d) ==
    /\ phase = "checking"
    /\ d \in Topics[topic].nodes
    /\ Len(types) >= d.n
    /\ d.k \in Statements => Len(types) = d.n
    /\ d.k \in {"array", "struct"} => LeavesOnTop(d.n)
    /\ d.k = "setIndex" => LeavesOnTop(2)
    /\ Len(body) + Len(types) - d.n < Topics[topic].max
    /\ CheckNode(d)
    /\ PrescanNode(d)
    /\ body' = Append(body, [node |-> d,
                             type |-> CASE d.k \in {"let", "mut"} -> symbols'[d.a]
                                        [] d.k \in Statements \ {"let", "mut"} -> NoType
                                        [] OTHER -> Last(types'),
                             slot |-> IF d.k \in {"let", "mut"} THEN slots'[d.a] ELSE Emitter!NoSlot])
    /\ UNCHANGED <<phase, next, topic>>

\* main() generates code only if nothing has been reported.  A function begins
\* by storing its parameters in their cells.
BeginEmission ==
    /\ phase = "checking"
    /\ types = <<>>
    /\ body # <<>>
    /\ phase' = IF rejected THEN "rejected" ELSE "emitting"
    /\ ir' = Emitter!StoreParameters(Topics[topic].params)
    /\ UNCHANGED <<symbols, types, rejected, body, next, topic, slots, inferred, vals>>

Emit ==
    /\ phase = "emitting"
    /\ next <= Len(body)
    /\ EmitNode(body[next].node)
    /\ next' = next + 1
    /\ UNCHANGED <<symbols, types, rejected, body, phase, topic>>

Next == (\E d \in UNION {Topics[t].nodes : t \in DOMAIN Topics} : Check(d)) \/ BeginEmission \/ Emit

Spec == Init /\ [][Next]_vars

Accepted == /\ phase = "emitting"
            /\ next > Len(body)
            /\ ~ir.failed
-----------------------------------------------------------------------------
Indexed(t) == t.name \in {"array", "string"}
Declares(n) == n.k \in {"let", "mut"}

\* The checker lets through an index of what is no list, and types the
\* elements of a list that has no name, which the generator takes for ints.
Loose(i) ==
    \/ body[i].node.k = "index" /\ body[i].type = Unknown
    \/ body[i].node.k = "setIndex" /\ ~Indexed(body[i - 2].type)
    \/ body[i].node.k \in {"index", "setIndex"} /\ \E j \in 1..i-1 :
           /\ body[j].node.k = "index" /\ body[j].type.name = "string"
           /\ \A l \in j..i-1 : body[l].node.k \notin Statements

\* The prescan takes indexes, casts and fields for ints.
Misdeclared(i) ==
    /\ Declares(body[i].node)
    /\ Emitter!TypeStr(body[i].type.name) = "ptr"
    /\ body[i].slot.llvm # "ptr"

\* The result of a call is named, and that of a void function cannot be.
CallsVoid(n) == /\ n.k = "call" /\ n.a \in DOMAIN FunctionSigs
                /\ FunctionSigs[n.a].ret = "void"

\* A Val knows no widths: i64 is an int for it, and f32 a double.
Odd(t) == t # "void" /\ Emitter!TypeStr(t) # Emitter!VtLLVM(Emitter!VtOfType(t))

\* Where a value of such a type is read.
Narrow(n) ==
    CASE n.k = "ident" -> Odd(slots[n.a].name)
      [] n.k = "field" -> Odd(Structs[slots[n.a].name][n.b])
      [] n.k = "cast" -> Odd(n.a)
      [] n.k = "call" /\ n.a \in DOMAIN FunctionSigs -> Odd(FunctionSigs[n.a].ret)
      [] OTHER -> FALSE

\* One cell serves all declarations of a name, with the type of the last: what
\* it was declared as before is not what it is read as.  A parameter is stored
\* there as if it had that type, and a list or a text that becomes a number is
\* no longer taken for a pointer.
Retyped(x) ==
    \/ /\ x \in DOMAIN Topics[topic].params
       /\ Emitter!TypeStr(Topics[topic].params[x]) # slots[x].llvm
    \/ \E i \in DOMAIN body : /\ Declares(body[i].node) /\ body[i].node.a = x
                              /\ body[i].slot.llvm = "ptr" /\ slots[x].llvm # "ptr"

\* What the generator makes of an accepted function is assembled: every operand
\* has the type its instruction names, also where a local name is declared again
\* with another type (irgen.cpp:2550-2570).  Not so, and therefore excepted: the
\* cases above, each of which the runs contain.
WellTypedIR ==
    /\ Accepted
    /\ \A i \in DOMAIN body : /\ ~Loose(i) /\ ~Misdeclared(i)
                              /\ ~CallsVoid(body[i].node) /\ ~Narrow(body[i].node)
    /\ \A x \in Names : ~Retyped(x)
    => ir.uses = {}

=============================================================================
