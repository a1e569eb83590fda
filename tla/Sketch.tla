------------------------------- MODULE Sketch -------------------------------
(***************************************************************************)
(* Arduino sketches (compiler/targets: sketch_builder.cpp, stmt_emitter    *)
(* .cpp, expr_emitter.cpp).  A program for a board is written; SketchBuilder *)
(* makes a C++ text of it; the board runs that, with readings from outside *)
(* and resets at any time, next to what the program means.                 *)
(*                                                                         *)
(* The text keeps the program's nesting, so a sketch is statements too,    *)
(* with an `else` of its own where the text has one.  Numbers count        *)
(* halves.  One variable and one pin are kept, and each function declares  *)
(* the variable first.                                                     *)
(***************************************************************************)
EXTENDS Integers, Sequences, SequencesExt, FiniteSetsExt

CONSTANTS Shapes,          \* the sets of functions that programs have
          Void,            \* the helpers declared `-> void`; the others declare no result
          Statements,      \* function name -> the statements it is written from
          MaxStatements,   \* in all functions
          Readings,        \* what an input may read
          MaxRounds        \* of a while loop; one that makes more hangs

VARIABLES source,  \* function name -> statements
          phase,   \* "writing", "off", "running"
          sketch,  \* what main() does first, what again and again, the helpers
          meant,   \* the state of the program, as EC has it: see Fresh
          board    \* and as the sketch makes it

Entries == {"main", "setup", "loop"}
Helpers == DOMAIN source \ Entries

-----------------------------------------------------------------------------
(* StmtEmitter and ExprEmitter.                                            *)

\* The bodies of a statement.
Bodies(s) == CASE s.do = "if" -> <<s.then, s.else>>
               [] s.do \in {"while", "for", "else"} -> <<s.body>>
               [] s.do = "match" -> [i \in DOMAIN s.arms |-> s.arms[i].body]
               [] OTHER -> <<>>

cppTypeOf(t) == CASE t = "" -> "int" [] t = "float64" -> "double" [] OTHER -> t

\* Seeded fault: every loop is emitted with `<`.
Bug_Inclusive(s) == FALSE

\* A list has no bounds: the loop over it goes from 0 to 0.
Inclusive(s) == ~s.list /\ s.inclusive

RECURSIVE Emitted(_)
EmitStatement(s) ==
    CASE s.do = "print" -> <<[s EXCEPT !.args = SubSeq(@, 1, 1)]>>
      [] s.do \in {"let", "bind"} -> <<[s EXCEPT !.type = cppTypeOf(@)]>>
      [] s.do = "if" ->
             <<[s EXCEPT !.then = Emitted(@), !.else = <<>>]>>
             \o (IF s.else = <<>> THEN <<>> ELSE <<[do |-> "else", body |-> Emitted(s.else)]>>)
      [] s.do = "while" -> <<[s EXCEPT !.body = Emitted(@)]>>
      [] s.do = "for" ->
             <<[s EXCEPT !.to = IF s.list THEN 0 ELSE @, !.inclusive = Inclusive(s),
                         !.list = FALSE, !.body = Emitted(@)]>>
      [] s.do = "match" ->
             [i \in DOMAIN s.arms |->
                 IF s.arms[i].pattern = <<>>
                 THEN [do |-> "else", body |-> Emitted(s.arms[i].body)]
                 ELSE [do |-> "if", value |-> s.arms[i].pattern[1],
                       then |-> Emitted(s.arms[i].body), else |-> <<>>]]
      [] OTHER -> <<s>>
Emitted(ss) == FlattenSeq([i \in DOMAIN ss |-> EmitStatement(ss[i])])

\* SketchBuilder::build.  Without a main(), setup() is written into it, and loop()
\* into an endless loop after it; with one, neither is written at all.
BodyOf(f) == IF f \in DOMAIN source THEN Emitted(source[f]) ELSE <<>>
HasMain == "main" \in DOMAIN source
Built == [first |-> BodyOf(IF HasMain THEN "main" ELSE "setup"),
          again |-> IF HasMain THEN <<>> ELSE BodyOf("loop"),
          helpers |-> [f \in Helpers |-> BodyOf(f)]]

\* What C++ takes in function f: an else after its if, types and functions that there are,
\* a pin in a variable of its type, and a bare return where the function gives nothing
\* back.  Without a declared result, as main() is, a function is emitted as int.
RECURSIVE Compiles(_, _)
Compiles(f, ss) ==
    \A i \in DOMAIN ss :
        /\ ss[i].do = "else" => i > 1 /\ ss[i - 1].do = "if"
        /\ ss[i].do = "let" => ss[i].type \in {"int", "double"}
        /\ ss[i].do = "bind" => ss[i].type = "EcOutPin"
        /\ ss[i].do = "return" => (ss[i].bare <=> f \in Void)
        /\ ss[i].do = "call" => ss[i].f \in DOMAIN sketch.helpers
        /\ \A j \in DOMAIN Bodies(ss[i]) : Compiles(f, Bodies(ss[i])[j])
SketchCompiles == /\ Compiles("main", sketch.first) /\ Compiles("main", sketch.again)
                  /\ \A f \in DOMAIN sketch.helpers : Compiles(f, sketch.helpers[f])

-----------------------------------------------------------------------------
(* What statements do, in EC and in C++, to the variable and its type, the *)
(* pin, what was put out in this round, the last condition; and how        *)
(* control goes on.  c has the functions' bodies, and says which of them   *)
(* may run to their end: of C++ what others do is undefined.               *)

Fresh(pin) == [x |-> 0, type |-> "int", pin |-> pin, out |-> <<>>, taken |-> FALSE, how |-> "next"]
GoesOn(s) == [s EXCEPT !.how = "next"]

Value(e, s, r) == CASE e = <<"x">> -> s.x [] e = <<"read">> -> r [] OTHER -> e[2]
Fits(v, type) == IF type = "int" THEN v - (v % 2) ELSE v
\* EC gives a variable the type of its first value.
Type(s) == CASE s.type # "" -> s.type
             [] s.e[1] = "n" /\ s.e[2] % 2 = 1 -> "float64"
             [] OTHER -> "int"

\* The first arm that fits.
Arm(arms, v) ==
    LET fits == {i \in DOMAIN arms : arms[i].pattern \in {<<>>, <<v>>}}
    IN  IF fits = {} THEN <<>> ELSE arms[Min(fits)].body

RECURSIVE Run(_, _, _, _), Rounds(_, _, _, _, _)
Once(c, s, state, r) ==
    CASE s.do = "print" ->
             [state EXCEPT !.out = @ \o [i \in DOMAIN s.args |-> Value(s.args[i], state, r)]]
      [] s.do = "write" -> [state EXCEPT !.pin = s.level]
      [] s.do = "toggle" -> [state EXCEPT !.pin = 1 - @]
      [] s.do = "let" -> [state EXCEPT !.type = Type(s), !.x = Fits(Value(s.e, state, r), Type(s))]
      [] s.do = "set" -> [state EXCEPT !.x = Fits(Value(s.e, state, r), state.type)]
      [] s.do = "if" ->
             LET yes == state.x = s.value
             IN  [Run(c, IF yes THEN s.then ELSE s.else, state, r) EXCEPT !.taken = yes]
      [] s.do = "else" -> IF state.taken THEN state ELSE Run(c, s.body, state, r)
      [] s.do = "match" -> Run(c, Arm(s.arms, state.x), state, r)
      [] s.do = "while" -> Rounds(c, s, MaxRounds, state, r)
      [] s.do = "for" -> Rounds(c, s, IF s.list THEN 2 ELSE s.to + (IF s.inclusive THEN 1 ELSE 0), state, r)
      [] s.do = "call" ->
             LET after == Run(c, c.bodies[s.f], state, r)
             IN  [after EXCEPT !.x = state.x, !.type = state.type,
                               !.how = CASE @ = "return" -> "next"
                                         [] @ = "next" /\ s.f \notin c.ends -> "undefined"
                                         [] OTHER -> @]
      [] s.do = "bind" -> state
      [] OTHER -> [state EXCEPT !.how = s.do]   \* break, continue, return

Run(c, ss, state, r) ==
    IF ss = <<>> \/ state.how # "next" THEN state
    ELSE Run(c, Tail(ss), Once(c, Head(ss), state, r), r)

\* n rounds at most of a loop
Rounds(c, s, n, state, r) ==
    IF s.do = "while" /\ state.x # s.value THEN state
    ELSE IF n = 0 THEN (IF s.do = "while" THEN [state EXCEPT !.how = "hangs"] ELSE state)
    ELSE LET after == Run(c, s.body, state, r)
         IN  CASE after.how \in {"next", "continue"} -> Rounds(c, s, n - 1, GoesOn(after), r)
               [] after.how = "break" -> GoesOn(after)
               [] OTHER -> after

OnBoard(body, state, r) == Run([bodies |-> sketch.helpers, ends |-> Void], body, state, r)

\* A function of EC that returns is done, whichever it is.
Called(f, state, r) ==
    LET c == [bodies |-> source, ends |-> DOMAIN source]
        after == IF f \in DOMAIN source THEN Run(c, source[f], state, r) ELSE state
    IN  IF after.how = "return" THEN GoesOn(after) ELSE after

-----------------------------------------------------------------------------
Init == /\ source \in {[f \in fs |-> <<>>] : fs \in Shapes}
        /\ phase = "writing"
        /\ sketch = <<>>
        /\ meant = Fresh(0) /\ board = Fresh(0)

Write(f, s) ==
    /\ phase = "writing"
    /\ MapThenSumSet(LAMBDA g : Len(source[g]), DOMAIN source) < MaxStatements
    /\ s.do = "let" <=> source[f] = <<>>
    /\ s.do = "call" => s.f \in DOMAIN source
    /\ source' = [source EXCEPT ![f] = Append(@, s)]
    /\ UNCHANGED <<phase, sketch, meant, board>>

Build == /\ phase = "writing"
         /\ \A f \in DOMAIN source : source[f] # <<>>
         /\ sketch' = Built
         /\ phase' = "off"
         /\ UNCHANGED <<source, meant, board>>

\* After power-on and after a reset the pins are low.
PowerOn(r) ==
    /\ phase # "writing"
    /\ SketchCompiles
    /\ phase' = "running"
    /\ board' = OnBoard(sketch.first, Fresh(0), r)
    /\ meant' = Called(IF HasMain THEN "main" ELSE "setup", Fresh(0), r)
    /\ UNCHANGED <<source, sketch>>

\* Another round of loop(), while each gets to its end.
Round(r) ==
    /\ phase = "running" /\ ~HasMain
    /\ {board.how, meant.how} \cap {"hangs", "undefined"} = {}
    /\ board' = IF board.how = "return" THEN [board EXCEPT !.out = <<>>]
                ELSE OnBoard(sketch.again, [board EXCEPT !.out = <<>>], r)
    /\ meant' = Called("loop", [meant EXCEPT !.out = <<>>], r)
    /\ UNCHANGED <<source, phase, sketch>>

Next == \/ \E f \in DOMAIN source : \E s \in Statements[f] : Write(f, s)
        \/ Build
        \/ \E r \in Readings : PowerOn(r) \/ Round(r)

-----------------------------------------------------------------------------
(* What is lost on the way, and said to be in the README: arguments of     *)
(* print after the first, a fraction that a variable is declared with      *)
(* unless its type is, loops over lists, most of match (the first arms     *)
(* stand alone, so that only the last `if` has the `else`, and each looks  *)
(* at the variable again), return in setup() and loop(), the type f64,     *)
(* calls of setup() and loop() from main().  What does not compile: a pin  *)
(* in a variable without a type, as docs/embedded/arduino.md has it, and a *)
(* bare return in main() or in a helper that declares no result; such a    *)
(* helper must give something back on every way through it.                *)

RECURSIVE Assigns(_)
Assigns(ss) == \E i \in DOMAIN ss : \/ ss[i].do = "set"
                                    \/ \E j \in DOMAIN Bodies(ss[i]) : Assigns(Bodies(ss[i])[j])

PlainMatch(arms) ==
    \A i \in DOMAIN arms :
        /\ arms[i].pattern = <<>> => i = 2 /\ Len(arms) = 2
        /\ \A j \in 1..(i - 1) : arms[j].pattern # arms[i].pattern
        /\ i < Len(arms) => ~Assigns(arms[i].body)

RECURSIVE Plain(_, _)
Plain(f, ss) ==
    \A i \in DOMAIN ss :
        /\ ss[i].do = "print" => Len(ss[i].args) = 1
        /\ ss[i].do = "let" => ss[i].type # "f64" /\ (ss[i].type = "" => Type(ss[i]) = "int")
        /\ ss[i].do = "for" => ~ss[i].list
        /\ ss[i].do = "match" => PlainMatch(ss[i].arms)
        /\ ss[i].do = "bind" => ss[i].type # ""
        /\ ss[i].do = "return" => f \notin {"setup", "loop"} /\ (ss[i].bare <=> f \in Void)
        /\ ss[i].do = "call" => ss[i].f \in Helpers
        /\ \A j \in DOMAIN Bodies(ss[i]) : Plain(f, Bodies(ss[i])[j])

RECURSIVE GivesBack(_)
GivesBack(ss) == \/ Last(ss).do = "return"
                 \/ Last(ss).do = "if" /\ \A body \in {Last(ss).then, Last(ss).else} : body # <<>> /\ GivesBack(body)
PlainFunction(f) == /\ Plain(f, source[f])
                    /\ f \in Helpers \ Void => GivesBack(source[f])

\* A sketch of a plain program compiles, and after each round of it the board has put
\* out and set what the program says, from power-on and from a reset at any time.
SketchDoesAsWritten ==
    (phase # "writing" /\ \A f \in DOMAIN source : PlainFunction(f)) =>
        /\ SketchCompiles
        /\ phase = "running" => /\ board.out = meant.out
                                /\ board.pin = meant.pin
                                /\ board.how # "undefined"
                                /\ board.how = "hangs" <=> meant.how = "hangs"
=============================================================================
