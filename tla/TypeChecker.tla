---------------------------- MODULE TypeChecker ----------------------------
(***************************************************************************)
(* What TypeChecker (compiler/types/typechecker.cpp) makes of one function *)
(* body.  The tree is visited in postfix order: an action per kind of      *)
(* expression takes the types of its operands off `types` and puts its own *)
(* there, an action per statement ends it.  `symbols` is the one flat      *)
(* table; blocks neither open nor close anything in it.                    *)
(*                                                                         *)
(* The file lacks two closing braces in the case of a field access (lines  *)
(* 336 and 349) and does not compile as it stands; they are read where the *)
(* indentation puts them.  Left out: enums, generics, Result and Option.   *)
(***************************************************************************)
EXTENDS Integers, Sequences, SequencesExt, FiniteSets, TLC

CONSTANTS Structs,    \* struct name -> (field name -> type name)
          Signatures  \* name of a function declared before -> [params, ret]

VARIABLES symbols,    \* name -> type, NoType where it is not in the table
          types,      \* the types of the operands not yet used
          rejected    \* E2001 or E2002 was reported

checkerVars == <<symbols, types, rejected>>

Type(n) == [name |-> n, elem |-> ""]
ArrayOf(t) == [name |-> "array", elem |-> t.name]
NoType == Type("")
Unknown == Type("unknown")

Arithmetic == {"PLUS", "MINUS", "STAR", "SLASH", "MOD"}
Comparison == {"EQ", "NEQ", "LT", "GT", "LTE", "GTE"}
Logic == {"AND", "OR"}

Normalize(n) ==
    CASE n \in {"f32", "f64", "float"} -> "float64"
      [] n = "vector" -> "array"
      [] OTHER -> n

BuiltinTypes ==
    [n \in {"str", "input", "chr", "read_line"} |-> "string"]
    @@ [n \in {"len", "abs", "min", "max"} |-> "int"]
    @@ [n \in {"sqrt", "pow", "floor", "ceil"} |-> "float64"]
    @@ [n \in {"print", "println"} |-> "void"]

Drop(n) == SubSeq(types, 1, Len(types) - n)
Operand(i) == types[Len(types) + 1 - i]     \* the i-th from the top

Yield(n, t) == /\ types' = Append(Drop(n), t)
               /\ UNCHANGED <<symbols, rejected>>

CheckLiteral(t) == Yield(0, Type(t))

CheckIdent(x) ==
    Yield(0, IF symbols[x] # NoType THEN symbols[x] ELSE Unknown)

BinaryType(op, l, r) ==
    LET names == {l.name, r.name}
    IN  IF "" \in names THEN NoType
        ELSE IF "string" \in names /\ names \subseteq {"string", "int"} THEN Type("string")
        ELSE IF names \subseteq {"bool", "int"} /\ op \in Logic THEN Type("bool")
        ELSE IF names \subseteq {"int", "float64"}
        THEN Type(IF op \in Comparison THEN "bool"
                  ELSE IF "float64" \in names THEN "float64" ELSE "int")
        ELSE Unknown

CheckBinary(op) ==
    LET l == Operand(2)
        r == Operand(1)
    IN  /\ types' = Append(Drop(2), BinaryType(op, l, r))
        /\ rejected' = (rejected \/ BinaryType(op, l, r) = Unknown)
        /\ UNCHANGED symbols

CheckUnary == Yield(1, Operand(1))

CheckConditional == Yield(3, Operand(2))

CheckCall(f, n) ==
    Yield(n, IF f \in DOMAIN BuiltinTypes THEN Type(BuiltinTypes[f])
             ELSE IF f \in DOMAIN Signatures THEN Type(Signatures[f].ret)
             ELSE Unknown)

CheckCast(t) == Yield(1, Type(t))

\* Only the first element is visited.
CheckArray(n) == Yield(n, ArrayOf(Operand(n)))

CheckIndex ==
    LET base == Operand(2)
    IN  Yield(2, IF base.name = "array" /\ base.elem # "" THEN Type(base.elem)
                 ELSE IF Normalize(base.name) \in {"array", "string"} THEN Type("int")
                 ELSE Unknown)

CheckStruct(s) == Yield(Cardinality(DOMAIN Structs[s]), Type(s))

CheckField(x, f) ==
    LET s == symbols[x].name
    IN  Yield(0, IF s \in DOMAIN Structs /\ f \in DOMAIN Structs[s]
                 THEN Type(Structs[s][f]) ELSE Unknown)

CheckInterpolation(n) == Yield(n, Type("string"))

\* let and mut differ in mutableVars_, which nothing reads.
Mismatch(declared, init) ==
    /\ declared # NoType /\ init # NoType
    /\ LET d == Normalize(declared.name)
           i == Normalize(init.name)
       IN  d # i /\ ~(d = "float64" /\ i = "int")

CheckDeclaration(x, declared) ==
    LET init == Operand(1)
    IN  /\ types' = Drop(1)
        /\ rejected' = (rejected \/ Mismatch(declared, init))
        /\ symbols' = IF Mismatch(declared, init) \/ (declared = NoType /\ init = NoType)
                      THEN symbols
                      ELSE [symbols EXCEPT ![x] = IF declared # NoType THEN declared ELSE init]

\* Assignments and returns look at their value only, not at what it is for.
CheckUse(n) == /\ types' = Drop(n)
               /\ UNCHANGED <<symbols, rejected>>
=============================================================================
