------------------------- MODULE ExpressionEmitter -------------------------
(***************************************************************************)
(* LLVMIRGenerator's expressions and simple statements                     *)
(* (compiler/codegen/irgen.cpp): of what it writes the types are kept, of  *)
(* each operand the one its register has and the one its instruction       *)
(* names.  The numbers of the registers are not kept.  As in TypeChecker   *)
(* the tree is visited in postfix order.  An operand is a Val with, in     *)
(* `real`, the type its register really has.                               *)
(*                                                                         *)
(* First the prescan declares a slot for every name of the body, then      *)
(* the body is emitted; a name declared twice has the slot of the last.    *)
(* Left out: enums, methods, generic functions.                            *)
(***************************************************************************)
EXTENDS Integers, Sequences, SequencesExt, FiniteSetsExt, TLC

CONSTANTS Structs,      \* struct name -> (field name -> type name)
          FunctionSigs  \* function name -> [params: Seq(type name), ret: type name]

VARIABLES slots,     \* name -> [llvm, vt, name, elem], NoSlot before its declaration
          inferred,  \* the prescan's inferTypeOf of the operands, "" for nullptr
          vals,      \* the Vals of the operands not yet used
          ir         \* what was written: see NoCode

emitterVars == <<slots, inferred, vals, ir>>

-----------------------------------------------------------------------------
(* Types *)

TypeStr(t) ==
    CASE t \in {"int8", "i8", "uint8", "u8", "byte"} -> "i8"
      [] t \in {"int16", "i16", "uint16", "u16"} -> "i16"
      [] t \in {"int64", "i64", "uint64", "u64"} -> "i64"
      [] t \in {"float", "float32", "f32"} -> "float"
      [] t \in {"float64", "f64", "double"} -> "double"
      [] t = "bool" -> "i1"
      [] t \in {"string", "str", "array", "vector", "map"} \cup DOMAIN Structs -> "ptr"
      [] t = "void" -> "void"
      [] OTHER -> "i32"

VtOfType(t) ==
    CASE t \in {"", "int", "int8", "int16", "int32", "int64", "uint", "uint8",
                "uint16", "uint32", "uint64", "char", "byte"} -> "Int"
      [] t \in {"float", "float32", "float64", "f32", "f64", "double"} -> "Float"
      [] t = "bool" -> "Bool"
      [] t \in {"string", "str"} -> "Str"
      [] t \in DOMAIN Structs -> "StructPtr"
      [] t \in {"array", "vector", "map"} -> "ArrayPtr"
      [] t = "void" -> "Void"
      [] OTHER -> "Unknown"

VtLLVM(vt) ==
    CASE vt = "Float" -> "double"
      [] vt = "Bool" -> "i1"
      [] vt \in {"Str", "StructPtr", "ArrayPtr"} -> "ptr"
      [] OTHER -> "i32"

\* `id` is the name when the expression is an identifier, `class` what
\* classifyElemVT says of it as the first element of a list.
Val(vt, name, real) ==
    [vt |-> vt, name |-> name, real |-> real, id |-> "", class |-> "Int", list |-> FALSE]
V(vt) == Val(vt, "", VtLLVM(vt))
ZeroInt == V("Int")

Slot(t) == [llvm |-> IF TypeStr(t) = "void" THEN "i32" ELSE TypeStr(t),
            vt |-> VtOfType(t), name |-> t, elem |-> "Int"]
NoSlot == [llvm |-> "", vt |-> "Unknown", name |-> "", elem |-> "Int"]

-----------------------------------------------------------------------------
(* What is written: `uses` are the pairs <<type of the operand, type the   *)
(* instruction names>> that differ.                                        *)

NoCode == [uses |-> {}, failed |-> FALSE]

Use(e, us) == [e EXCEPT !.uses = @ \cup {u \in us : u[1] # u[2]}]
Error(e) == [e EXCEPT !.failed = TRUE]

As(v, ty) == <<v.real, ty>>

Conversions ==
    {<<"i32", "i1">>, <<"i32", "i64">>, <<"i64", "i32">>, <<"i1", "i32">>,
     <<"i8", "i32">>, <<"i32", "i8">>, <<"i32", "double">>, <<"i1", "double">>,
     <<"double", "i32">>, <<"double", "i1">>, <<"ptr", "i32">>, <<"i32", "ptr">>}

ConvertedVt(ty) ==
    CASE ty = "i1" -> "Bool" [] ty = "double" -> "Float" [] ty = "ptr" -> "Str" [] OTHER -> "Int"

Bug_materialize(e, v, ty) ==
    LET have == VtLLVM(v.vt)
    IN  CASE have = ty -> [e |-> e, v |-> v]
          [] <<have, ty>> \in Conversions -> [e |-> Use(e, {As(v, have)}), v |-> v]
          [] OTHER -> [e |-> Error(e), v |-> ZeroInt]

\* A value that already has the type by its VT is used as it is.
materialize(e, v, ty) ==
    LET have == VtLLVM(v.vt)
    IN  CASE have = ty -> [e |-> e, v |-> v]
          [] <<have, ty>> \in Conversions ->
                 [e |-> Use(e, {As(v, have)}), v |-> Val(ConvertedVt(ty), "", ty)]
          [] OTHER -> [e |-> Error(e), v |-> ZeroInt]

toStringVal(e, v) ==
    CASE v.vt = "Str" -> [e |-> e, v |-> v]
      [] v.vt \in {"Int", "Float", "Bool"} ->
             [e |-> Use(e, {As(v, VtLLVM(v.vt))}), v |-> V("Str")]
      [] OTHER -> [e |-> Error(e), v |-> V("Str")]

\* "string" as a type asks for toStringVal, "" for no conversion.
Convert(e, v, ty) ==
    CASE ty = "string" -> toStringVal(e, v)
      [] ty = "" -> [e |-> e, v |-> v]
      [] OTHER -> materialize(e, v, ty)

\* Convert the operands vs to the types tys and use them there.
ConvertAll(e, vs, tys) ==
    FoldLeftDomain(LAMBDA acc, i :
                     LET c == Convert(acc, vs[i], tys[i])
                     IN  Use(c.e, {As(c.v, CASE tys[i] = "string" -> "ptr"
                                             [] tys[i] = "" -> VtLLVM(vs[i].vt)
                                             [] OTHER -> tys[i])}),
                   e, vs)

Operands(n) == SubSeq(vals, Len(vals) + 1 - n, Len(vals))
Without(n) == SubSeq(vals, 1, Len(vals) - n)

\* n operands become the Val v, and e is what has been written.
GiveNode(n, v, e) == /\ vals' = Append(Without(n), v)
                     /\ ir' = e
                     /\ UNCHANGED <<slots, inferred>>
Give(n, v, e) == GiveNode(n, Val(v.vt, v.name, v.real), e)

-----------------------------------------------------------------------------
(* The prescan: inferTypeOf and declareSlot.  A declaration replaces what the *)
(* name's slot was declared as before; both keep one cell.                    *)

InferredCalls ==
    [f \in {"int", "abs", "min", "max", "len", "ord", "run_command", "serial_close"} |-> "int"]
    @@ [f \in {"float", "sqrt", "pow", "floor", "ceil"} |-> "float64"]
    @@ [f \in {"str", "input", "upper", "lower", "chr", "read_file", "substring", "repeat",
               "exec_output", "serial_read_line", "env_get", "cwd", "path_join"} |-> "string"]
    @@ [f \in {"contains", "write_file", "append_file", "file_exists", "delete_file",
               "open_app", "serial_open", "serial_write"} |-> "bool"]
    @@ ("sleep" :> "void")

Infer(n, t) == /\ inferred' = Append(SubSeq(inferred, 1, Len(inferred) - n), t)
               /\ UNCHANGED <<slots, vals, ir>>

InferredOperand(i) == inferred[Len(inferred) + 1 - i]
FirstKnown(t, u) == IF t # "" THEN t ELSE u

InferIdent(x) == Infer(0, slots[x].name)

InferBinary ==
    LET l == InferredOperand(2)
        r == InferredOperand(1)
    IN  Infer(2, IF l = "string" THEN l ELSE FirstKnown(r, l))

InferConditional == Infer(3, FirstKnown(InferredOperand(2), InferredOperand(1)))

InferCall(f, n) == Infer(n, IF f \in DOMAIN InferredCalls THEN InferredCalls[f]
                            ELSE IF f \in DOMAIN FunctionSigs THEN FunctionSigs[f].ret
                            ELSE "")

Prescan(x, declared) ==
    /\ slots' = [slots EXCEPT ![x] = Slot(FirstKnown(declared, InferredOperand(1)))]
    /\ inferred' = SubSeq(inferred, 1, Len(inferred) - 1)
    /\ UNCHANGED <<vals, ir>>

Skip(n) == /\ inferred' = SubSeq(inferred, 1, Len(inferred) - n)
           /\ UNCHANGED <<slots, vals, ir>>

-----------------------------------------------------------------------------
(* Expressions *)

\* v made of operands that were converted to the types tys.
Compute(vs, tys, v) == Give(Len(vs), v, ConvertAll(ir, vs, tys))
Refuse(n) == Give(n, ZeroInt, Error(ir))

EmitLiteral(t) ==
    LET vt == CASE t = "float64" -> "Float" [] t = "bool" -> "Bool"
                [] t = "string" -> "Str" [] OTHER -> "Int"
    IN  GiveNode(0, [V(vt) EXCEPT !.class = vt], ir)

Load(x) == [Val(slots[x].vt, slots[x].name, slots[x].llvm) EXCEPT !.id = x]

EmitIdent(x) == IF slots[x] = NoSlot THEN Refuse(0)
                ELSE GiveNode(0, Load(x), ir)

Comparisons == {"EQ", "NEQ", "LT", "GT", "LTE", "GTE"}

EmitBinary(op) ==
    LET vs == Operands(2)
        vts == {vs[1].vt, vs[2].vt}
        cmp == op \in Comparisons
        Both(ty, vt) == Compute(vs, <<ty, ty>>, V(IF cmp THEN "Bool" ELSE vt))
    IN  CASE "Str" \in vts ->
                 IF cmp \/ op = "PLUS" THEN Both("string", "Str") ELSE Refuse(2)
          [] "Str" \notin vts /\ "Float" \in vts ->
                 IF op \in {"MOD", "AND", "OR"} THEN Refuse(2) ELSE Both("double", "Float")
          [] vts \cap {"Str", "Float"} = {} ->
                 IF op \in {"AND", "OR"} THEN Both("i1", "Bool") ELSE Both("i32", "Int")

EmitUnary(op) ==
    LET vs == Operands(1)
    IN  CASE op = "NOT" -> Compute(vs, <<"i1">>, V("Bool"))
          [] op = "MINUS" /\ vs[1].vt = "Float" -> Compute(vs, <<"double">>, V("Float"))
          [] op = "MINUS" /\ vs[1].vt # "Float" -> Compute(vs, <<"i32">>, V("Int"))
          [] op = "PLUS" -> Give(1, vs[1], ir)

\* Both values are computed, whatever the condition.
EmitConditional ==
    LET vs == Operands(3)
        vts == {vs[2].vt, vs[3].vt}
        common == CASE "Str" \in vts -> "Str"
                    [] "Str" \notin vts /\ "Float" \in vts -> "Float"
                    [] vts = {"Bool"} -> "Bool"
                    [] OTHER -> "Int"
    IN  Compute(vs, <<"i1", VtLLVM(common), VtLLVM(common)>>, V(common))

\* The builtins with fixed types: operands and result.
Takes(args, vt) == [args |-> args, vt |-> vt]
Builtins ==
    [f \in {"sqrt", "floor", "ceil"} |-> Takes(<<"double">>, "Float")]
    @@ [f \in {"str", "upper", "lower", "read_file", "exec_output", "env_get"} |->
            Takes(<<"string">>, "Str")]
    @@ [f \in {"file_exists", "delete_file", "open_app", "serial_write"} |->
            Takes(<<"string">>, "Bool")]
    @@ [f \in {"write_file", "append_file", "contains"} |->
            Takes(<<"string", "string">>, "Bool")]
    @@ [f \in {"input", "serial_read_line", "cwd"} |-> Takes(<<>>, "Str")]
    @@ [f \in {"ord", "run_command"} |-> Takes(<<"string">>, "Int")]
    @@ ("pow" :> Takes(<<"double", "double">>, "Float"))
    @@ ("chr" :> Takes(<<"i32">>, "Str"))
    @@ ("serial_open" :> Takes(<<"string", "i32">>, "Bool"))
    @@ ("serial_close" :> Takes(<<>>, "Int"))
    @@ ("sleep" :> Takes(<<"i32">>, "Void"))
    @@ ("path_join" :> Takes(<<"string", "string">>, "Str"))
    @@ ("substring" :> Takes(<<"string", "i64", "i64">>, "Str"))
    @@ ("repeat" :> Takes(<<"string", "i64">>, "Str"))
    @@ ("assert" :> Takes(<<"i1">>, "Int"))

EmitBuiltin(f) == Compute(Operands(Len(Builtins[f].args)), Builtins[f].args, V(Builtins[f].vt))

Texts(n) == [i \in 1..n |-> "string"]

EmitPrint(n) == Compute(Operands(n), Texts(n), V("Int"))

EmitLen ==
    LET v == Operands(1)[1]
    IN  IF v.vt \in {"ArrayPtr", "Str"} THEN Give(1, V("Int"), Use(ir, {As(v, "ptr")}))
        ELSE Refuse(1)

\* int() and float() parse a text and convert everything else.
EmitNumber(ty) ==
    LET v == Operands(1)[1]
        c == materialize(ir, v, ty)
    IN  IF v.vt = "Str" THEN Give(1, V(ConvertedVt(ty)), Use(ir, {As(v, "ptr")}))
        ELSE Give(1, c.v, c.e)

\* abs, min and max compute in double if an operand is one.
EmitPick(n) ==
    LET vt == IF \E i \in 1..n : Operands(n)[i].vt = "Float" THEN "Float" ELSE "Int"
    IN  Compute(Operands(n), [i \in 1..n |-> VtLLVM(vt)], V(vt))

\* The result of a call is named, also that of a function that returns nothing.
EmitCall(f) ==
    LET sig == FunctionSigs[f]
        n == Len(sig.params)
        args == ConvertAll(ir, Operands(n), [i \in 1..n |-> TypeStr(sig.params[i])])
    IN  IF TypeStr(sig.ret) = "void" THEN Give(n, V("Void"), Use(args, {<<"void", "named">>}))
        ELSE Give(n, Val(VtOfType(sig.ret), sig.ret, TypeStr(sig.ret)), args)

EmitCallee(f, n) ==
    IF f \in {"print", "println"} THEN EmitPrint(n)
    ELSE IF <<f, n>> = <<"len", 1>> THEN EmitLen
    ELSE IF <<f, n>> = <<"int", 1>> THEN EmitNumber("i32")
    ELSE IF <<f, n>> = <<"float", 1>> THEN EmitNumber("double")
    ELSE IF <<f, n>> \in {<<"abs", 1>>, <<"min", 2>>, <<"max", 2>>} THEN EmitPick(n)
    ELSE IF f \in DOMAIN Builtins /\ n = Len(Builtins[f].args) THEN EmitBuiltin(f)
    ELSE IF f \in DOMAIN FunctionSigs THEN EmitCall(f)
    ELSE Refuse(n)

EmitCast(t) ==
    LET v == Operands(1)[1]
        c == Convert(ir, v, IF t = "string" THEN "string" ELSE TypeStr(t))
    IN  Give(1, IF t = "string" THEN c.v ELSE Val(VtOfType(t), t, c.v.real), c.e)

EmitInterpolation(n) == Compute(Operands(n), Texts(n), V("Str"))

\* A list has the type of its first element.
EmitArray(n) ==
    LET vs == Operands(n)
    IN  GiveNode(n, [Val("ArrayPtr", "array", "ptr") EXCEPT !.list = TRUE, !.class = vs[1].class],
                 ConvertAll(ir, vs, [i \in 1..n |-> VtLLVM(vs[1].vt)]))

\* The base is taken for a pointer, whatever it is.
EmitIndex ==
    LET base == Operands(2)[1]
        e == Use(ConvertAll(ir, Operands(2), <<"", "i64">>), {As(base, "ptr")})
        elem == IF base.id # "" THEN slots[base.id].elem ELSE "Int"
    IN  Give(2, V(IF base.vt = "Str" THEN "Int" ELSE elem), e)

EmitAppend(x) ==
    IF slots[x].vt = "ArrayPtr"
    THEN Compute(Operands(1), <<VtLLVM(slots[x].elem)>>, ZeroInt)
    ELSE Refuse(1)

FieldTypes(s, fs) == [i \in DOMAIN fs |-> TypeStr(Structs[s][fs[i]])]

EmitStruct(s) ==
    LET fs == SetToSeq(DOMAIN Structs[s])
    IN  Compute(Operands(Len(fs)), FieldTypes(s, fs), Val("StructPtr", s, "ptr"))

\* The type a field is loaded with: by its name, then by its VT.
FieldLLVM(t) ==
    CASE VtOfType(t) = "Float" -> "double"
      [] VtOfType(t) = "Bool" -> "i1"
      [] VtOfType(t) \in {"Str", "StructPtr"} -> "ptr"
      [] OTHER -> TypeStr(t)

IsField(x, f) == /\ slots[x].name \in DOMAIN Structs
                 /\ f \in DOMAIN Structs[slots[x].name]

EmitField(x, f) ==
    LET t == Structs[slots[x].name][f]
    IN  IF IsField(x, f)
        THEN Give(0, Val(VtOfType(t), t, FieldLLVM(t)), ir)
        ELSE Refuse(0)

-----------------------------------------------------------------------------
(* Statements *)

Store(n, vs, tys, e) == /\ vals' = Without(n)
                        /\ ir' = ConvertAll(e, vs, tys)
                        /\ UNCHANGED inferred

StoreParameters(params) ==
    Use(ir, {<<TypeStr(params[x]), slots[x].llvm>> : x \in DOMAIN params})

\* let notes the class of a list's first element, mut does not.
EmitLet(x) ==
    LET v == Operands(1)[1]
    IN  /\ Store(1, <<v>>, <<slots[x].llvm>>, ir)
        /\ slots' = IF v.list THEN [slots EXCEPT ![x].elem = v.class] ELSE slots

EmitStore(x) == /\ IF slots[x] = NoSlot THEN Store(1, <<>>, <<>>, Error(ir))
                   ELSE Store(1, Operands(1), <<slots[x].llvm>>, ir)
                /\ UNCHANGED slots

EmitSetField(x, f) ==
    /\ IF IsField(x, f)
       THEN Store(1, Operands(1), <<TypeStr(Structs[slots[x].name][f])>>, ir)
       ELSE Store(1, <<>>, <<>>, Error(ir))
    /\ UNCHANGED slots

\* xs[i] = v stores an int, whatever the elements are.  Value, base, index.
EmitSetIndex ==
    LET vs == Operands(3)
        e == ConvertAll(ir, SubSeq(vs, 2, 3), <<"", "i64">>)
    IN  /\ Store(3, <<vs[1]>>, <<"i32">>, Use(e, {As(vs[2], "ptr")}))
        /\ UNCHANGED slots

EmitReturn(ret) == /\ Store(1, Operands(1), IF ret = "void" THEN <<"">> ELSE <<TypeStr(ret)>>, ir)
                   /\ UNCHANGED slots

EmitExpression == /\ Store(1, <<>>, <<>>, ir)
                  /\ UNCHANGED slots
=============================================================================
