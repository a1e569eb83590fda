-------------------------- MODULE EmittedFunction --------------------------
(***************************************************************************)
(* A function that FunctionEmitter wrote, run next to its source.          *)
(*                                                                         *)
(* The lines run one at a time from the entry, conditions going either     *)
(* way.  `expected` is the part of the source that is to happen next in    *)
(* the language's own terms: blocks in order, loops tested before each     *)
(* round, break and continue out of the innermost loop, the first matching *)
(* arm of a match and then what follows the match.                         *)
(***************************************************************************)
EXTENDS FunctionEmitter

VARIABLES
    at,        \* the line to run next, 0 when the function is not running
    expected   \* the event the source has next

runVars == <<at, expected>>

Nothing == <<0, "none">>

(* The source: tokens that nest. *)

Openers == {"if", "ifelse", "while", "for", "match", "arm", "wild"}

Count(tokens, i, j) == Cardinality({k \in i .. j : source[k] \in tokens})

\* The `end` of the statement that opens at i.
Close(i) ==
    CHOOSE j \in i .. Len(source) :
        /\ Count(Openers, i, j) = Count({"end"}, i, j)
        /\ \A k \in i .. j - 1 : Count(Openers, i, k) > Count({"end"}, i, k)

\* The innermost statement of the given kinds around (or ending at) i.
Around(i, kinds) ==
    LET around == {o \in 1 .. i - 1 : source[o] \in kinds /\ i <= Close(o)}
    IN  CHOOSE o \in around : \A p \in around : p <= o

ElseOf(i) == CHOOSE j \in i .. Close(i) :
                source[j] = "else" /\ Around(j, {"ifelse"}) = i

LoopAround(i) == Around(i, {"while", "for"})

\* What a loop does after its body.
Again(loop) == <<loop, IF source[loop] = "while" THEN "test" ELSE "step">>

\* Reach[i]: the first event when control comes to token i.
\* (An arm's token is come to when the arms before it did not match.)
Reach[i \in 1 .. Len(source) + 1] ==
    IF i > Len(source) THEN Unwritten
    ELSE LET token == source[i] IN
         CASE token \in {"do", "empty"} -> <<i, "do">>
           [] token \in {"return", "bare"} -> <<i, "ret">>
           [] token \in {"if", "ifelse", "while", "arm"} -> <<i, "test">>
           [] token \in {"for", "match"} -> <<i, "enter">>
           [] token = "wild" -> Reach[i + 1]
           [] token = "else" -> Reach[Close(Around(i, {"ifelse"})) + 1]
           [] token = "break" -> Reach[Close(LoopAround(i)) + 1]
           [] token = "continue" -> Again(LoopAround(i))
           [] token = "end" ->
                LET opener == Around(i, Openers) IN
                IF source[opener] \in {"while", "for"} THEN Again(opener)
                ELSE IF source[opener] \in {"arm", "wild"}
                     THEN Reach[Close(Around(opener, {"match"})) + 1]
                     ELSE Reach[i + 1]

\* The event after e, a test having come out as yes.
After(e, yes) ==
    LET i == e[1] IN
    CASE e[2] = "do" -> Reach[i + 1]
      [] e[2] = "ret" -> Nothing
      [] e[2] = "step" -> <<i, "test">>
      [] e[2] = "enter" -> IF source[i] = "for" THEN <<i, "test">> ELSE Reach[i + 1]
      [] e[2] = "test" ->
            IF yes THEN Reach[i + 1]
            ELSE IF source[i] = "ifelse" THEN Reach[ElseOf(i) + 1]
            ELSE Reach[Close(i) + 1]

(* The emitted lines. *)

\* The assembler: blocks end, returns have the function's type, and after a block
\* without a label no value is numbered (fixes #009, #011 and #014): code and
\* tests define numbered values, a return or a branch need not.
Unlabelled(i) == out[i].op # "label" /\ IsTerminator(out[i - 1])
Accepted ==
    /\ ~ hasError
    /\ Terminated
    /\ ReturnsAgree
    /\ \A i \in 2 .. Len(out) :
        Unlabelled(i) => \A j \in i .. Len(out) : out[j].op \notin {"code", "cbr"}

LineOf(label) == CHOOSE i \in DOMAIN out : out[i] = Label(label)

HasEvent(line) == line.op \in {"code", "cbr", "ret"}

RunInit == Init /\ at = 0 /\ expected = Nothing

Emitting == at = 0 /\ Next /\ UNCHANGED runVars

Enter ==
    /\ phase = "done" /\ at = 0 /\ Accepted
    /\ at' = 1
    /\ expected' = Reach[1]
    /\ UNCHANGED vars

Running == at > 0 /\ UNCHANGED vars

RunLabel ==
    /\ Running /\ out[at].op = "label"
    /\ at' = at + 1
    /\ UNCHANGED expected

RunCode ==
    /\ Running /\ out[at].op = "code"
    /\ at' = at + 1
    /\ expected' = After(expected, TRUE)

RunBranch ==
    /\ Running /\ out[at].op = "br"
    /\ at' = LineOf(out[at].to)
    /\ UNCHANGED expected

RunTest ==
    /\ Running /\ out[at].op = "cbr"
    /\ \E yes \in BOOLEAN :
        /\ at' = LineOf(IF yes THEN out[at].yes ELSE out[at].no)
        /\ expected' = After(expected, yes)

RunReturn ==
    /\ Running /\ out[at].op = "ret"
    /\ at' = 0
    /\ expected' = Nothing

RunNext == Emitting \/ Enter \/ RunLabel \/ RunCode \/ RunBranch \/ RunTest \/ RunReturn

RunSpec == RunInit /\ [][RunNext]_<<vars, runVars>>

----------------------------------------------------------------------------

\* Whatever the conditions are, the emitted function does what its source does, in
\* the same order: tests/integration/test_while_break_cont.ec (break, continue) and
\* tests/integration/test_control.ec (if, while, for) for every nesting of them.
SameBehaviour ==
    (at > 0 /\ HasEvent(out[at])) => out[at].event = expected
=============================================================================
