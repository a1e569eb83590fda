------------------------------ MODULE FrontEnd ------------------------------
(***************************************************************************)
(* The lexer and the parser one after the other, as cmdRunEmbedded() of    *)
(* compiler/driver/main.cpp calls them: the parser runs on what the lexer  *)
(* has made of the text, errors or not, and both report to one engine.     *)
(* Sources longer than TLC can lex are given as lists of tokens.           *)
(***************************************************************************)
EXTENDS SourceParser, Lexer

VARIABLE phase

frontVars == <<vars, phase, lexVars>>

\* The tokens the parser's constructor keeps.
Kept ==
    LET f[n \in 0 .. Len(lexemes)] ==
            IF n = 0 THEN <<>>
            ELSE IF lexemes[n].type = "COMMENT" THEN f[n - 1] ELSE Append(f[n - 1], lexemes[n])
    IN f[Len(lexemes)]

\* What the parser sees in a token besides its type: an `if` on another line than
\* the token before it, a name that is one of its words, a string with "${" in
\* what its escapes stand for.
BeginsLine(i) == i = 1 \/ Kept[i - 1].line # Kept[i].line
HasExpression(l) ==
    \E i \in l.from .. l.to - 1 :
        Char(i) = "$" /\ (Char(i + 1) = "{" \/ (Char(i + 1) = "\\" /\ Char(i + 2) = "{"))
AsToken(i) ==
    LET l == Kept[i]
    IN  CASE l.type = "IF" /\ BeginsLine(i) -> "IF_NL"
          [] l.type = "IDENT" /\ l.to = l.from + 1 /\ Char(l.from) \in Words -> Char(l.from)
          [] l.type = "STRING_LITERAL" /\ HasExpression(l) -> "INTERPOLATED"
          [] OTHER -> l.type

ParserAtRest ==
    /\ pos = 1 /\ todo = parseTopLevel /\ ret = "node"
    /\ reported = FALSE /\ skipped = FALSE /\ stalled = FALSE /\ items = {}

FrontInit ==
    \/ /\ phase = "lexing"
       /\ LexInit
       /\ tokens = <<>> /\ ParserAtRest
    \/ /\ phase = "parsing"
       /\ Init
       /\ text = <<>> /\ at = 1 /\ line = 1 /\ opened = 0 /\ lexemes = <<>> /\ complaints = {}

Lexing ==
    /\ phase = "lexing"
    /\ LexNext
    /\ UNCHANGED <<vars, phase>>

HandOver ==
    /\ phase = "lexing" /\ Lexed
    /\ phase' = "parsing"
    /\ tokens' = [i \in DOMAIN Kept |-> AsToken(i)]
    /\ UNCHANGED <<pos, todo, ret, reported, skipped, stalled, items, lexVars>>

Parsing ==
    /\ phase = "parsing"
    /\ Next
    /\ UNCHANGED <<phase, lexVars>>

FrontNext == Lexing \/ HandOver \/ Parsing

\* One thread, which does nothing else.
FrontSpec == FrontInit /\ [][FrontNext]_frontVars /\ WF_frontVars(FrontNext)

----------------------------------------------------------------------------
(* Properties *)

\* The braces of a text that are neither in a string nor in a comment.
Braces(c) == {i \in DOMAIN text : text[i] = c /\ Contexts[i - 1] \in {"code", "slash"}}

\* A text that lexer and parser take without a word has its braces paired.  Not
\* so, and therefore excepted: a text that ends in a comment which the lexer does
\* not report as open; and one with a bytecode or interface body, whose braces are
\* passed over unread up to one that closes, if there is any, or with a test, which
\* takes one brace more than it closes (parser.cpp:435-438, 885-889, 1447-1448).
AcceptedTextIsPaired ==
    phase = "parsing" /\ Ended /\ complaints = {} /\ ~reported
          /\ Contexts[Len(text)] \notin {"block", "star"}
          /\ {"BYTECODE", "INTERFACE", "TEST"} \cap ToSet(tokens) = {}
        => Cardinality(Braces("{")) = Cardinality(Braces("}"))
=============================================================================
