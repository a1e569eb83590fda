--------------------------- MODULE ModuleAssembly ---------------------------
(***************************************************************************)
(* LLVMIRGenerator::generate (compiler/codegen/irgen.cpp): how one IR      *)
(* module is put together from a program, pass after pass over its top     *)
(* level.  A pass registers, names or defines what another one refers to;  *)
(* all that holds them together is that they walk the same things.         *)
(*                                                                         *)
(* Of a body the parts are kept that refer to something: elements <<"text",*)
(* s>>, <<"late", s>> (a text where collectStringsFromExpr does not look:  *)
(* in a list, in an index, or of the generator's own), <<"call", f>>,      *)
(* <<"static", S, m>>, <<"method", m>> (of a receiver of no known type),   *)
(* <<"self", m>>, <<"read", x>> and <<"let", x, element>>.  A name is a    *)
(* tuple of words; that of a method's function is the struct's and the     *)
(* method's together.                                                      *)
(***************************************************************************)
EXTENDS Integers, Sequences, SequencesExt, FiniteSets

CONSTANTS Items,      \* what programs have at top level
          MaxItems,
          Prelude,    \* the names that generate defines by itself
          PoolTexts   \* the texts it always has

VARIABLES items,      \* sequence of items [kind, name, methods, body]
          pass,
          functions,  \* the names in functions_
          methods,    \* the pairs <<struct, method>> in methods_
          owners,     \* sequence of such pairs: methodOwner_ has the first of each method
          strings,    \* texts of stringConsts_
          pending,    \* pendingStrings_
          module,     \* what is in the text: see Empty
          failed      \* error() was called

assemblyVars == <<items, pass, functions, methods, owners, strings, pending, module, failed>>

\* Functions, structs, impls and methods have names; a declaration is its own kind
\* of item.
Named(name) == name \in Seq(STRING) \ {<<>>}
Finite(seq) == seq \in Seq(Range(seq))
ASSUME ItemsAssumption ==
    \A item \in Items :
        /\ item.kind \in {"function", "struct", "impl"} => Named(item.name)
        /\ item.kind = "do" => item.init[1] # "let"
        /\ Finite(item.body) /\ Finite(item.methods)
        /\ \A method \in Range(item.methods) : Named(method.name) /\ Finite(method.body)
ASSUME PoolAssumption == IsFiniteSet(PoolTexts)

Main == <<"main">>
Empty == [defined |-> <<>>, strings |-> <<>>, calls |-> {}, texts |-> {}]

\* the elements of s at these positions, in their order
Selection(s, positions) ==
    LET upTo[i \in 0..Len(s)] == IF i = 0 THEN <<>>
                                 ELSE IF i \in positions THEN Append(upTo[i - 1], s[i]) ELSE upTo[i - 1]
    IN  upTo[Len(s)]

Places(kinds) == {i \in DOMAIN items : items[i].kind \in kinds}
Of(kinds) == Selection(items, Places(kinds))
NamesOf(kind) == {items[i].name : i \in Places({kind})}
Structs == NamesOf("struct")

\* Functions as they are emitted: owner is <<>> for a free one.
Function(owner, f) == [owner |-> owner, name |-> f.name, body |-> f.body]
FreeFunctions == LET fs == Of({"function"}) IN [i \in DOMAIN fs |-> Function(<<>>, fs[i])]
MethodsOf(kinds) ==
    LET types == Of(kinds)
    IN  FlattenSeq([i \in DOMAIN types |->
                       [j \in DOMAIN types[i].methods |-> Function(types[i].name, types[i].methods[j])]])
Symbol(f) == f.owner \o f.name

-----------------------------------------------------------------------------
(* What an element refers to, emitted in function f.                       *)

Inner(e) == IF e[1] = "let" THEN e[3] ELSE e
Parts(body) == {Inner(e) : e \in Range(body)}
Locals(body) == {e[2] : e \in {b \in Range(body) : b[1] = "let"}}

OwnerOf(m) == LET of == SelectSeq(owners, LAMBDA p : p[2] = m)
              IN  IF of = <<>> THEN <<>> ELSE Head(of)[1]

\* The owner that emitCall finds for a call of a method.
Receiver(f, e) == CASE e[1] = "static" -> IF e[2] \in Structs THEN e[2] ELSE <<>>
                    [] e[1] = "self" -> f.owner
                    [] e[1] = "method" -> OwnerOf(e[2])
MethodCalled(f, e) == <<Receiver(f, e), IF e[1] = "static" THEN e[3] ELSE e[2]>>

CallsMethod(e) == e[1] \in {"static", "self", "method"}
IsText(e) == e[1] \in {"text", "late"}

Calls(f) == {e[2] : e \in {p \in Parts(f.body) : p[1] = "call" /\ p[2] \in functions}}
            \cup {MethodCalled(f, e)[1] \o MethodCalled(f, e)[2] :
                  e \in {p \in Parts(f.body) : CallsMethod(p) /\ MethodCalled(f, p) \in methods}}
Texts(f) == {e[2] : e \in {p \in Parts(f.body) : IsText(p)}}
\* A variable is one of the function's own: there are cells for globals, but nothing
\* calls declareGlobals, and injectGlobalSlots and emitGlobalInits find none.
Unknown(f) ==
    \E e \in Parts(f.body) :
        \/ e[1] = "call" /\ e[2] \notin functions
        \/ CallsMethod(e) /\ MethodCalled(f, e) \notin methods
        \/ e[1] = "read" /\ e[2] \notin Locals(f.body)

\* A text seen for the first time while bodies are emitted is kept for the end.
StringConstants(texts) ==
    LET new == texts \ strings
    IN  /\ strings' = strings \cup new
        /\ pending' = pending \o SetToSeq(new)

\* emitFunction, for each of a pass
EmitAll(fs) ==
    /\ module' = [module EXCEPT !.defined = @ \o [i \in DOMAIN fs |-> Symbol(fs[i])],
                                !.calls = @ \cup UNION {Calls(fs[i]) : i \in DOMAIN fs},
                                !.texts = @ \cup UNION {Texts(fs[i]) : i \in DOMAIN fs}]
    /\ StringConstants(UNION {Texts(fs[i]) : i \in DOMAIN fs})
    /\ failed' = (failed \/ \E i \in DOMAIN fs : Unknown(fs[i]))

\* The implicit main(): the statements of the top level.
Script == LET lines == Of({"let", "do"})
          IN  [owner |-> <<>>, name |-> Main,
               body |-> [i \in DOMAIN lines |->
                            IF lines[i].kind = "let" THEN <<"let", lines[i].name, lines[i].init>>
                                                     ELSE lines[i].init]]

-----------------------------------------------------------------------------
AssemblyInit ==
    /\ items = <<>> /\ pass = "writing"
    /\ functions = {} /\ methods = {} /\ owners = <<>>
    /\ strings = {} /\ pending = <<>> /\ module = Empty /\ failed = FALSE

Write(item) == /\ pass = "writing"
               /\ Len(items) < MaxItems
               /\ items' = Append(items, item)
               /\ UNCHANGED <<pass, functions, methods, owners, strings, pending, module, failed>>

\* Methods of structs and of impls are registered in the order of the text.
declareTopLevel ==
    /\ pass = "writing" /\ items # <<>>
    /\ pass' = "strings"
    /\ functions' = NamesOf("function")
    /\ LET ms == MethodsOf({"struct", "impl"})
       IN  /\ methods' = {<<ms[i].owner, ms[i].name>> : i \in DOMAIN ms}
           /\ owners' = [i \in DOMAIN ms |-> <<ms[i].owner, ms[i].name>>]
    /\ UNCHANGED <<items, strings, pending, module, failed>>

\* All bodies, where collectStrings looks.
Bodies == FreeFunctions \o MethodsOf({"struct"}) \o MethodsOf({"impl"}) \o <<Script>>

collectStrings ==
    /\ pass = "strings"
    /\ pass' = "functions"
    /\ strings' = PoolTexts \cup {e[2] : e \in {p \in UNION {Parts(f.body) : f \in Range(Bodies)} : p[1] = "text"}}
    /\ module' = [module EXCEPT !.strings = SetToSeq(strings')]
    /\ UNCHANGED <<items, functions, methods, owners, pending, failed>>

EmitFunctions ==
    /\ pass = "functions"
    /\ pass' = "impls"
    /\ EmitAll(FreeFunctions)
    /\ UNCHANGED <<items, functions, methods, owners>>

EmitImpls == /\ pass = "impls"
             /\ pass' = "inline"
             /\ EmitAll(MethodsOf({"impl"}))
             /\ UNCHANGED <<items, functions, methods, owners>>

EmitInline == /\ pass = "inline"
              /\ pass' = "main"
              /\ EmitAll(MethodsOf({"struct"}))
              /\ UNCHANGED <<items, functions, methods, owners>>

\* Where there is a main(), the statements of the top level are in no function.
EmitMain == /\ pass = "main"
            /\ pass' = "flush"
            /\ IF Main \in functions THEN UNCHANGED <<strings, pending, module, failed>>
                                     ELSE EmitAll(<<Script>>)
            /\ UNCHANGED <<items, functions, methods, owners>>

\* Seeded fault: the late texts are forgotten.
Bug_Flush == /\ pass = "flush" /\ pass' = "done"
             /\ pending' = <<>>
             /\ UNCHANGED <<items, functions, methods, owners, strings, module, failed>>

\* The late texts are written at the end of the module.
Flush == /\ pass = "flush"
         /\ pass' = "done"
         /\ pending' = <<>>
         /\ module' = [module EXCEPT !.strings = @ \o pending]
         /\ UNCHANGED <<items, functions, methods, owners, strings, failed>>

AssemblyNext ==
    \/ \E item \in Items : Write(item)
    \/ declareTopLevel \/ collectStrings
    \/ EmitFunctions \/ EmitImpls \/ EmitInline \/ EmitMain \/ Flush

AssemblySpec == AssemblyInit /\ [][AssemblyNext]_assemblyVars

-----------------------------------------------------------------------------
(* A program that declares no function twice or with a name of the         *)
(* prelude's.  A name of two words is that of a struct's method as well.   *)

Own == LET all == Bodies IN [i \in 1..(Len(all) - 1) |-> Symbol(all[i])]
Distinct == IsInjective(Own) /\ Range(Own) \cap Prelude = {}

\* A module that is reported good is whole: it has one main(), and it defines once all
\* functions and texts it uses (generate: what one pass registers or collects, another emits).
ModuleLinks ==
    (pass = "done" /\ ~failed /\ Distinct) =>
        /\ Main \in Range(module.defined) /\ IsInjective(module.defined)
        /\ module.calls \subseteq Range(module.defined)
        /\ module.texts \subseteq Range(module.strings) /\ IsInjective(module.strings)

Lets(body) == Selection(body, {i \in DOMAIN body : body[i][1] = "let"})
Shared(f) == [f EXCEPT !.body = @ \o Lets(Script.body)]

\* tests/smoke/10_globals.ec:1, "global variables & constants shared across functions": a
\* program is refused only if some function uses a variable that neither it nor the top
\* level declares.  generate() never calls declareGlobals(), so this does not hold.
GlobalsAreShared ==
    (pass = "done" /\ failed) => \E f \in Range(Bodies) : Unknown(Shared(f))
=============================================================================
