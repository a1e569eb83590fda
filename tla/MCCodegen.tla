----------------------------- MODULE MCCodegen -----------------------------
(***************************************************************************)
(* What becomes of values: TypedFunction (the checker and the IR           *)
(* generator), Backends (bytecode, Python and JavaScript), Sketch and      *)
(* ModuleAssembly for small programs, RuntimePrelude for what a running    *)
(* program calls.  They share no state; `subject` says which one runs.     *)
(***************************************************************************)
EXTENDS Backends, RuntimePrelude, ModuleAssembly, TLC

VARIABLES subject,
          symbols, types, rejected, body, phase, next, topic, slots, inferred, vals, ir,
          written, power, sketch, meant, board

N(k, a, b, n) == [k |-> k, a |-> a, b |-> b, n |-> n]
Literals(ts) == {N("literal", t, "", 0) : t \in ts}
Idents(xs) == {N("ident", x, "", 0) : x \in xs}
BinaryNodes(ops) == {N("binary", op, "", 2) : op \in ops}
CallNodes(fs, n) == {N("call", f, "", n) : f \in fs}
LetNodes(xs, ts) == {N("let", x, t, 1) : x \in xs, t \in ts}
Unary(ops) == {N("unary", op, "", 1) : op \in ops}
Use == N("expr", "", "", 1)

MCStructs == [Point |-> [label |-> "string", size |-> "int"]]
MCFunctionSigs == [half |-> [params |-> <<"int">>, ret |-> "float64"],
                   later |-> [params |-> <<"string">>, ret |-> "string"],
                   wide |-> [params |-> <<"i64">>, ret |-> "i64"],
                   note |-> [params |-> <<"string">>, ret |-> "void"]]
MCSignatures == [f \in {"half", "wide", "note"} |-> MCFunctionSigs[f]]

Topic(nodes, params, ret, max) ==
    [nodes |-> nodes \cup {Use}, params |-> params, ret |-> ret, max |-> max]
MCTopics ==
    [ arithmetic |-> Topic(Literals({"int", "float64", "string"}) \cup Idents({"x"})
                           \cup BinaryNodes({"PLUS", "LT", "AND"}) \cup Unary({"MINUS", "NOT"})
                           \cup LetNodes({"x"}, {"", "float64"}), [x |-> "int"], "int", 5),
      choices |-> Topic(Literals({"int", "bool"}) \cup Idents({"x"})
                        \cup {N("conditional", "", "", 3), N("interpolation", "", "", 2),
                              N("return", "", "", 1), N("assign", "x", "", 1)},
                        [x |-> "string"], "float64", 5),
      calls |-> Topic(Literals({"int", "string"}) \cup Idents({"x"})
                      \cup CallNodes({"half", "later", "print", "abs", "len", "str", "int", "sqrt"}, 1)
                      \cup CallNodes({"min"}, 2)
                      \cup {N("cast", "float64", "", 1)} \cup LetNodes({"x"}, {""}), <<>>, "void", 5),
      elements |-> Topic(Literals({"int", "string"}) \cup Idents({"x", "y"})
                         \cup {N("array", "", "", 1), N("index", "", "", 2)}
                         \cup LetNodes({"x", "y"}, {""}), <<>>, "void", 8),
      lists |-> Topic(Literals({"int", "string"}) \cup Idents({"x", "y"})
                      \cup {N("array", "", "", 2), N("index", "", "", 2),
                            N("append", "x", "", 1), N("setIndex", "", "", 3)}
                      \cup LetNodes({"x"}, {"", "array"}) \cup {N("mut", "y", "", 1)}, <<>>, "void", 5),
      widths |-> Topic(Literals({"int", "string"}) \cup Idents({"x", "y"}) \cup CallNodes({"wide", "note"}, 1)
                       \cup {N("cast", "i64", "", 1), N("return", "", "", 1), N("assign", "x", "", 1)}
                       \cup LetNodes({"y"}, {"", "f32"}), [x |-> "i64"], "i64", 5),
      again |-> Topic(Literals({"int", "float64", "string"}) \cup Idents({"x"}) \cup BinaryNodes({"PLUS"})
                      \cup LetNodes({"x"}, {""}) \cup {N("mut", "x", "", 1)}, <<>>, "void", 7),
      casts |-> Topic(Literals({"int"}) \cup Idents({"x"}) \cup LetNodes({"x"}, {""})
                      \cup {N("cast", "string", "", 1), N("index", "", "", 2)}, <<>>, "void", 7),
      structs |-> Topic(Literals({"int", "string"}) \cup Idents({"x"})
                        \cup {N("struct", "Point", "", 2), N("field", "x", "label", 0),
                              N("field", "x", "size", 0), N("setField", "x", "label", 1)}
                        \cup BinaryNodes({"PLUS"}) \cup LetNodes({"x"}, {""}), <<>>, "void", 6) ]

MCNames == {"x", "y"}

Typed == INSTANCE TypedFunction WITH
             Names <- MCNames, Structs <- MCStructs, FunctionSigs <- MCFunctionSigs,
             Signatures <- MCSignatures, Topics <- MCTopics

-----------------------------------------------------------------------------
Number(n) == [t |-> "int", n |-> n]
TruthValue(b) == [t |-> "bool", n |-> IF b THEN 1 ELSE 0]
Text == [t |-> "string", n |-> 0]
PushItems(vs) == {<<"push", v>> : v \in vs}
Ops(ops) == {<<"binary", op>> : op \in ops}
Prints == {<<"call">>, <<"expr">>}

MCPrograms ==
    [ values |-> [items |-> PushItems({Number(1)}) \cup Ops({"SUB", "LT"}) \cup Prints
                            \cup {<<"ident", "x">>, <<"let", "x">>},
                  max |-> 7],
      kinds |-> [items |-> PushItems({Number(65537), TruthValue(TRUE), Text}) \cup Prints \cup {<<"minus">>}
                           \cup Ops({"ADD", "DIV", "EQ", "GTE", "AND", "OR"}),
                 max |-> 5],
      branches |-> [items |-> PushItems({TruthValue(TRUE), TruthValue(FALSE)}) \cup Prints
                              \cup {<<"if", TRUE>>, <<"if", FALSE>>, <<"else", TRUE>>, <<"elseif">>},
                    max |-> 9],
      loops |-> [items |-> PushItems({Number(1)}) \cup Prints
                           \cup {<<"fn">>, <<"while", TRUE>>, <<"while", FALSE>>,
                                 <<"for", TRUE>>, <<"for", FALSE>>, <<"return">>},
                 max |-> 6] ]

-----------------------------------------------------------------------------
MCStrings == BoundedSeq({"a", "A"}, 2)
MCNumbers == -1..3
MCStreams == {<<>>, <<"a", "newline", "A", "a">>, <<"a", "A", "newline">>}

-----------------------------------------------------------------------------
X == <<"x">>
Put(e) == [do |-> "print", args |-> <<e>>]
Set(n) == [do |-> "set", e |-> <<"n", n>>]
Do(what) == [do |-> what]
Back(bare) == [do |-> "return", bare |-> bare]
Pin(t) == [do |-> "bind", type |-> t]
LetOf(t, e) == [do |-> "let", type |-> t, e |-> e]
If(v, yes, no) == [do |-> "if", value |-> v, then |-> <<yes>>, else |-> no]
For(inclusive, list, b) == [do |-> "for", to |-> 2, inclusive |-> inclusive, list |-> list,
                            body |-> <<If(0, b, <<Set(0)>>), Put(X)>>]
While(v, b) == [do |-> "while", value |-> v, body |-> b]
Match(p, b, q) == [do |-> "match", arms |-> <<[pattern |-> p, body |-> <<b>>],
                                              [pattern |-> q, body |-> <<Put(X)>>]>>]
CallOf(f) == [do |-> "call", f |-> f]
MCBody == {LetOf("", <<"n", 1>>), LetOf("float64", <<"n", 1>>), LetOf("", <<"read">>), LetOf("f64", <<"read">>),
           Put(X), [do |-> "print", args |-> <<X, X>>], Set(1), Do("toggle"), CallOf("step"),
           Pin(""), If(2, Set(1), <<Do("toggle")>>), If(2, Back(TRUE), <<>>), If(2, Back(FALSE), <<>>),
           For(FALSE, FALSE, Do("break")), For(FALSE, FALSE, Do("continue")), For(TRUE, FALSE, Do("toggle")),
           For(TRUE, FALSE, Back(FALSE)), For(FALSE, TRUE, Do("break")),
           While(2, <<Do("toggle"), If(2, Set(0), <<Do("break")>>)>>), While(0, <<Put(X)>>),
           Match(<<2>>, Do("toggle"), <<>>), Match(<<2>>, Back(FALSE), <<2>>),
           Match(<<2>>, Set(0), <<0>>), Match(<<>>, Do("toggle"), <<0>>)}
MCStatements == [main |-> MCBody \cup {CallOf("setup"), CallOf("both")}, loop |-> MCBody,
                 setup |-> {LetOf("", <<"read">>), [do |-> "write", level |-> 1], Pin(""), Pin("EcOutPin"),
                            If(2, Back(FALSE), <<>>)},
                 step |-> {LetOf("", <<"read">>), Do("toggle"), If(2, Back(TRUE), <<>>)},
                 both |-> {LetOf("", <<"read">>), Do("toggle"), Back(TRUE),
                           If(2, Back(FALSE), <<Do("toggle"), Back(FALSE)>>)}]
MCShapes == {{"main"}, {"main", "step"}, {"main", "both"}, {"setup", "loop"}, {"loop", "step"}, {"main", "setup"}}

Sketches == INSTANCE Sketch WITH
                source <- written, phase <- power, Shapes <- MCShapes, Void <- {"step"}, Statements <- MCStatements,
                MaxStatements <- 4, Readings <- {0, 2}, MaxRounds <- 2

-----------------------------------------------------------------------------
TopLevel(kind, name, ms, b) == [kind |-> kind, name |-> name, methods |-> ms, body |-> b, init |-> <<"n">>]
Fn(name, b) == TopLevel("function", name, <<>>, b)
Method(name, b) == [name |-> <<name>>, body |-> b]
Global(x, e) == [TopLevel("let", x, <<>>, <<>>) EXCEPT !.init = e]
Line(e) == [TopLevel("do", <<>>, <<>>, <<>>) EXCEPT !.init = e]
CallHalf == <<"call", <<"half">>>>
MCItems ==
    {Fn(<<"main">>, <<CallHalf, <<"text", "a">>>>),
     Fn(<<"main">>, <<<<"let", "x", <<"late", "b">>>>, <<"read", "x">>>>),
     Fn(<<"half">>, <<<<"let", "x", <<"text", "b">>>>, <<"read", "x">>, <<"late", "a">>>>),
     Fn(<<"Point", "make">>, <<<<"late", "b">>>>), Fn(<<"bump">>, <<<<"read", "x">>>>),
     TopLevel("struct", <<"Point">>, <<>>, <<>>),
     TopLevel("struct", <<"Point">>, <<Method("make", <<<<"text", "b">>, <<"self", <<"show">>>>>>)>>, <<>>),
     TopLevel("struct", <<"Box">>, <<Method("show", <<<<"late", "a">>>>)>>, <<>>),
     TopLevel("impl", <<"Point">>, <<Method("show", <<CallHalf, <<"late", "b">>>>), Method("main", <<<<"late", "c">>>>)>>, <<>>),
     Global("x", <<"text", "a">>), Global("x", CallHalf), Global("y", <<"read", "x">>),
     Line(<<"static", <<"Point">>, <<"make">>>>), Line(<<"method", <<"show">>>>), Line(<<"late", "c">>)}

MCPrelude == {<<"eng", "str", "concat">>}

-----------------------------------------------------------------------------
typedVars == <<symbols, types, rejected, body, phase, next, topic, slots, inferred, vals, ir>>
sketchVars == <<written, power, sketch, meant, board>>

NoFunction == /\ symbols = "" /\ types = "" /\ rejected = "" /\ body = "" /\ phase = "" /\ next = ""
              /\ topic = "" /\ slots = "" /\ inferred = "" /\ vals = "" /\ ir = ""
NoProgram == BackendInit /\ program = "values"
NoRuntime == PreludeInit /\ stdin = <<>> /\ files = <<>>
NoSketch == written = "" /\ power = "" /\ sketch = "" /\ meant = "" /\ board = ""
NoAssembly == AssemblyInit

CodegenInit ==
    \/ subject = "typed" /\ Typed!Init /\ NoProgram /\ NoRuntime /\ NoSketch /\ NoAssembly
    \/ subject = "backends" /\ BackendInit /\ NoFunction /\ NoRuntime /\ NoSketch /\ NoAssembly
    \/ subject = "runtime" /\ PreludeInit /\ NoFunction /\ NoProgram /\ NoSketch /\ NoAssembly
    \/ subject = "sketch" /\ Sketches!Init /\ NoFunction /\ NoProgram /\ NoRuntime /\ NoAssembly
    \/ subject = "assembly" /\ AssemblyInit /\ NoFunction /\ NoProgram /\ NoRuntime /\ NoSketch

CodegenNext ==
    /\ UNCHANGED subject
    /\ \/ subject = "typed" /\ Typed!Next /\ UNCHANGED <<bvars, preludeVars, sketchVars, assemblyVars>>
       \/ subject = "backends" /\ BackendNext /\ UNCHANGED <<typedVars, preludeVars, sketchVars, assemblyVars>>
       \/ subject = "runtime" /\ PreludeNext /\ UNCHANGED <<typedVars, bvars, sketchVars, assemblyVars>>
       \/ subject = "sketch" /\ Sketches!Next /\ UNCHANGED <<typedVars, bvars, preludeVars, assemblyVars>>
       \/ subject = "assembly" /\ AssemblyNext /\ UNCHANGED <<typedVars, bvars, preludeVars, sketchVars>>

CodegenSpec == CodegenInit /\ [][CodegenNext]_<<subject, typedVars, bvars, preludeVars, sketchVars, assemblyVars>>

\* An accepted function is emitted with operands of the types the instructions name.
WellTypedIR == subject = "typed" => Typed!WellTypedIR

\* The board does what the program for it says.
SketchDoesAsWritten == subject = "sketch" => Sketches!SketchDoesAsWritten
=============================================================================
