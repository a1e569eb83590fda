------------------------------- MODULE Lexer -------------------------------
(***************************************************************************)
(* Lexer::tokenize() of compiler/lexer/lexer.cpp: which characters become  *)
(* which token, what is passed over in silence and what is reported.       *)
(*                                                                         *)
(* A step is one turn of the loop of tokenize(), or of the loop inside     *)
(* tokenizeString(), whose escapes decide where the string ends.           *)
(***************************************************************************)
EXTENDS Integers, Sequences, FiniteSets

CONSTANTS
    Texts,      \* the source texts, as sequences of characters
    MaxDigits   \* an integer with more digits is out of range of std::stoll

\* "end" is no character: it is what Char finds behind the last one.
ASSUME TextsAssumption ==
    \A t \in Texts : t \in Seq(STRING) /\ \A i \in DOMAIN t : t[i] # "end"

VARIABLES
    text,       \* source_
    at,         \* pos_, counted from 1
    line,       \* line_
    opened,     \* where the string that is being read began; 0 outside of strings
    lexemes,    \* tokens_: [type, from, to, line], the characters from .. to - 1
    complaints  \* the kinds of diagnostics

lexVars == <<text, at, line, opened, lexemes, complaints>>

----------------------------------------------------------------------------
(* Characters.  A word that the lexer or the parser knows is one symbol of  *)
(* a text; of other letters those that a number may hold are enough.        *)

Keywords ==
    {<<"fn", "FN">>, <<"let", "LET">>, <<"mut", "MUT">>, <<"const", "CONST">>, <<"if", "IF">>,
     <<"else", "ELSE">>, <<"for", "FOR">>, <<"while", "WHILE">>, <<"return", "RETURN">>,
     <<"break", "BREAK">>, <<"continue", "CONTINUE">>, <<"match", "MATCH">>, <<"struct", "STRUCT">>,
     <<"enum", "ENUM">>, <<"impl", "IMPL">>, <<"interface", "INTERFACE">>, <<"import", "IMPORT">>,
     <<"pub", "PUB">>, <<"as", "AS">>, <<"in", "IN">>, <<"elif", "ELIF">>, <<"module", "MODULE">>,
     <<"export", "EXPORT">>, <<"load", "LOAD">>, <<"try", "TRY">>, <<"catch", "CATCH">>,
     <<"throw", "THROW">>, <<"except", "EXCEPT">>, <<"finally", "FINALLY">>,
     <<"bytecode", "BYTECODE">>, <<"vm", "VM">>, <<"op", "OP">>, <<"test", "TEST">>,
     <<"assert", "ASSERT">>, <<"expect", "EXPECT">>, <<"requires", "REQUIRES">>,
     <<"ensures", "ENSURES">>, <<"invariant", "INVARIANT">>, <<"hot", "HOT">>, <<"reload", "RELOAD">>,
     <<"coroutine", "COROUTINE">>, <<"yield", "YIELD">>, <<"await", "AWAIT">>, <<"length", "LENGTH">>,
     <<"time", "TIME">>, <<"mass", "MASS">>, <<"force", "FORCE">>, <<"and", "AND">>, <<"or", "OR">>,
     <<"not", "NOT">>, <<"true", "TRUE">>, <<"false", "FALSE">>, <<"none", "NONE">>, <<"int", "INT_T">>,
     <<"int8", "INT8">>, <<"int16", "INT16">>, <<"int32", "INT32">>, <<"int64", "INT64">>,
     <<"uint", "UINT">>, <<"uint8", "UINT8">>, <<"uint16", "UINT16">>, <<"uint32", "UINT32">>,
     <<"uint64", "UINT64">>, <<"float32", "F32">>, <<"float64", "F64">>, <<"bool", "BOOL_T">>,
     <<"char", "CHAR_T">>, <<"string", "STRING">>, <<"byte", "BYTE">>, <<"void", "VOID">>,
     <<"option", "OPTION">>, <<"result", "RESULT">>, <<"print", "PRINT">>, <<"output", "OUTPUT">>,
     <<"say", "SAY">>, <<"input", "INPUT">>}
\* Names that the parser compares with a word.
Spoken == {"function", "give", "ask", "set", "repeat", "loop", "to", "times", "is"}
Letters == {"b", "f", "x"} \cup Spoken \cup {k[1] : k \in Keywords}
Digits == {"0", "1"}
HexDigits == Digits \cup {"b", "f"}
Blanks == {" ", "nl"}

Doubles ==
    {<<"+", "=", "PLUS_EQ">>, <<"-", "=", "MINUS_EQ">>, <<"*", "=", "STAR_EQ">>,
     <<"/", "=", "SLASH_EQ">>, <<"-", ">", "ARROW">>, <<"=", "=", "EQ">>, <<"!", "=", "NEQ">>,
     <<"<", "=", "LTE">>, <<">", "=", "GTE">>, <<"&", "&", "AND">>, <<"|", "|", "OR">>,
     <<".", ".", "DOTDOT">>}
Singles ==
    {<<"*", "STAR">>, <<"/", "SLASH">>, <<"%", "MOD">>, <<"=", "EQUAL">>, <<"<", "LT">>,
     <<">", "GT">>, <<"!", "NOT">>, <<"+", "PLUS">>, <<"-", "MINUS">>, <<"&", "AMPERSAND">>,
     <<",", "COMMA">>, <<";", "SEMICOLON">>, <<":", "COLON">>, <<"?", "QUESTION">>,
     <<"|", "PIPE">>, <<".", "DOT">>, <<"{", "LBRACE">>, <<"}", "RBRACE">>, <<"[", "LBRACKET">>,
     <<"]", "RBRACKET">>, <<"(", "LPAREN">>, <<")", "RPAREN">>, <<"@", "AT">>}

Char(i) == IF i <= Len(text) THEN text[i] ELSE "end"
\* The first place from i on that does not hold one of cs.
After(cs, i) ==
    CHOOSE j \in i .. Len(text) + 1 : Char(j) \notin cs /\ \A k \in i .. j - 1 : Char(k) \in cs
Newlines(i, j) == Cardinality({k \in i .. j - 1 : Char(k) = "nl"})

Code == opened = 0 /\ at <= Len(text)

\* advanceChar() up to j.
Advance(j) == at' = j /\ line' = line + Newlines(at, j)
Emit(type, from, to) ==
    lexemes' = Append(lexemes, [type |-> type, from |-> from, to |-> to, line |-> line'])
Lexeme(type, to) ==
    Advance(to) /\ Emit(type, at, to) /\ UNCHANGED <<text, opened, complaints>>
Unknown(kind, to) ==
    /\ Advance(to) /\ Emit("UNKNOWN", at, to)
    /\ complaints' = complaints \cup {kind}
    /\ UNCHANGED <<text, opened>>

----------------------------------------------------------------------------

LexInit ==
    /\ text \in Texts
    /\ at = 1 /\ line = 1 /\ opened = 0
    /\ lexemes = <<>> /\ complaints = {}

\* Blanks, and the tilde, which is skipped without a word.
Skip ==
    /\ Code /\ Char(at) \in Blanks \cup {"~"}
    /\ Advance(IF Char(at) = "~" THEN at + 1 ELSE After(Blanks, at))
    /\ UNCHANGED <<text, opened, lexemes, complaints>>

LineComment ==
    /\ Code /\ Char(at) = "/" /\ Char(at + 1) = "/"
    /\ Lexeme("COMMENT", After({text[i] : i \in DOMAIN text} \ {"nl"}, at))

Closings(i) == {j \in i .. Len(text) - 1 : Char(j) = "*" /\ Char(j + 1) = "/"}
First(s) == CHOOSE i \in s : \A j \in s : i <= j

Bug_BlockComment ==
    /\ Code /\ Char(at) = "/" /\ Char(at + 1) = "*"
    /\ LET closed == Closings(at + 2) # {}
           to == IF closed THEN First(Closings(at + 2)) + 2 ELSE Len(text) + 1
       IN at' = to /\ UNCHANGED line /\ Emit("COMMENT", at, to)
    /\ UNCHANGED <<text, opened, complaints>>

\* The loop ends before the last character (source_.size() - 1): what is left
\* open is only reported when nothing follows its opening.
BlockComment ==
    /\ Code /\ Char(at) = "/" /\ Char(at + 1) = "*"
    /\ LET closed == Closings(at + 2) # {}
           to == IF closed THEN First(Closings(at + 2)) + 2
                 ELSE IF at + 2 > Len(text) THEN at + 2 ELSE Len(text)
       IN /\ Advance(to) /\ Emit("COMMENT", at, to)
          /\ complaints' = complaints \cup (IF to > Len(text) /\ ~closed THEN {"comment"} ELSE {})
    /\ UNCHANGED <<text, opened>>

Identifier ==
    /\ Code /\ Char(at) \in Letters
    /\ LET to == After(Letters \cup Digits, at)
           IsWord(k) == k[1] = Char(at) /\ to = at + 1
       IN Lexeme(IF \E k \in Keywords : IsWord(k)
                 THEN (CHOOSE k \in Keywords : IsWord(k))[2] ELSE "IDENT", to)

\* 0x and 0b, with or without digits behind them.
Prefixed ==
    /\ Code /\ Char(at) = "0" /\ Char(at + 1) \in {"x", "b"}
    /\ LET to == After(IF Char(at + 1) = "x" THEN HexDigits ELSE Digits, at + 2)
       IN IF to = at + 2 THEN Unknown("prefix", to) ELSE Lexeme("INT_LITERAL", to)

\* A float takes every digit and every point behind its first.
Number ==
    /\ Code /\ Char(at) \in Digits /\ ~(Char(at) = "0" /\ Char(at + 1) \in {"x", "b"})
    /\ LET to == After(Digits, at)
           float == Char(to) = "." /\ Char(to + 1) \in Digits
       IN IF float THEN Lexeme("FLOAT_LITERAL", After(Digits \cup {"."}, at))
          ELSE /\ Advance(to) /\ Emit("INT_LITERAL", at, to)
               /\ complaints' = complaints \cup (IF to - at > MaxDigits THEN {"range"} ELSE {})
               /\ UNCHANGED <<text, opened>>

Open ==
    /\ Code /\ Char(at) = "quote"
    /\ opened' = at /\ at' = at + 1
    /\ UNCHANGED <<text, line, lexemes, complaints>>

Bug_StringChar ==
    /\ opened # 0 /\ at <= Len(text) /\ Char(at) # "quote"
    /\ at' = at + 1
    /\ UNCHANGED <<text, line, opened, lexemes, complaints>>

\* pos_ moves on without advanceChar(): newlines in a string do not count.
StringChar ==
    /\ opened # 0 /\ at <= Len(text) /\ Char(at) # "quote"
    /\ at' = IF Char(at) = "\\" /\ at < Len(text) THEN at + 2 ELSE at + 1
    /\ UNCHANGED <<text, line, opened, lexemes, complaints>>

Close ==
    /\ opened # 0 /\ (at > Len(text) \/ Char(at) = "quote")
    /\ LET to == IF at > Len(text) THEN at ELSE at + 1
       IN at' = to /\ UNCHANGED line /\ Emit("STRING_LITERAL", opened, to)
    /\ complaints' = complaints \cup (IF at > Len(text) THEN {"string"} ELSE {})
    /\ opened' = 0
    /\ UNCHANGED text

CharLiteral ==
    /\ Code /\ Char(at) = "'"
    /\ LET last == IF at + 1 > Len(text) THEN at
                   ELSE IF Char(at + 1) = "\\" /\ at + 1 < Len(text) THEN at + 2 ELSE at + 1
           closed == last > at /\ Char(last + 1) = "'"
           to == IF closed THEN last + 2 ELSE last + 1
       IN /\ at' = to /\ UNCHANGED line /\ Emit("CHAR_LITERAL", at, to)
          /\ complaints' = complaints \cup (IF closed THEN {} ELSE {"char"})
    /\ UNCHANGED <<text, opened>>

IsDouble(i) == \E d \in Doubles : d[1] = Char(i) /\ d[2] = Char(i + 1)
Double ==
    /\ Code /\ IsDouble(at)
    /\ Lexeme((CHOOSE d \in Doubles : d[1] = Char(at) /\ d[2] = Char(at + 1))[3], at + 2)

BeginsComment == Char(at) = "/" /\ Char(at + 1) \in {"/", "*"}
IsSingle(c) == \E s \in Singles : s[1] = c
Single ==
    /\ Code /\ IsSingle(Char(at)) /\ ~IsDouble(at) /\ ~BeginsComment
    /\ Lexeme((CHOOSE s \in Singles : s[1] = Char(at))[2], at + 1)

Unexpected ==
    /\ Code
    /\ Char(at) \notin Blanks \cup Letters \cup Digits \cup {"~", "quote", "'"}
    /\ ~IsSingle(Char(at))
    /\ Unknown("character", at + 1)

LexNext ==
    \/ Skip \/ LineComment \/ BlockComment \/ Identifier \/ Prefixed \/ Number
    \/ Open \/ StringChar \/ Close \/ CharLiteral \/ Double \/ Single \/ Unexpected

Lexed == opened = 0 /\ at > Len(text)

LexSpec == LexInit /\ [][LexNext]_lexVars

----------------------------------------------------------------------------
(* Properties *)

\* The context of a text, one character at a time: the lexical rules of the
\* language without the lexer's way of looking ahead.
Read(context, c) ==
    CASE context \in {"code", "slash"} ->
            (CASE context = "slash" /\ c = "/" -> "line"
               [] context = "slash" /\ c = "*" -> "block"
               [] context = "code" /\ c = "/" -> "slash"
               [] c = "quote" -> "string"
               [] c = "'" -> "char"
               [] OTHER -> "code")
      [] context = "line" -> IF c = "nl" THEN "code" ELSE "line"
      [] context \in {"block", "star"} ->
            (CASE c = "*" -> "star" [] context = "star" /\ c = "/" -> "code" [] OTHER -> "block")
      [] context = "string" ->
            (CASE c = "\\" -> "escape" [] c = "quote" -> "code" [] OTHER -> "string")
      [] context = "escape" -> "string"
      [] context = "char" -> IF c = "\\" THEN "escaped" ELSE "closing"
      [] context = "escaped" -> "closing"
      [] context = "closing" -> "code"
Contexts ==
    LET f[i \in 0 .. Len(text)] == IF i = 0 THEN "code" ELSE Read(f[i - 1], text[i]) IN f

\* When nothing is reported, every token begins in code, and the text ends in
\* code: no string, character or comment is left open.  An open comment is not
\* always reported, see BlockComment.
ScansAsWritten ==
    Lexed /\ complaints = {} /\ Contexts[Len(text)] \notin {"block", "star"}
        => /\ Contexts[Len(text)] \in {"code", "slash", "line"}
           /\ \A i \in DOMAIN lexemes : Contexts[lexemes[i].from - 1] \in {"code", "slash"}

\* Tokens that the parser compares by their lines (an `if` on the line of the
\* token before it belongs to that one's expression) differ by the newlines
\* between them, comments included, though newlines in strings do not count.
LinesFollow ==
    \A i, j \in DOMAIN lexemes :
        /\ i < j
        /\ \A k \in i .. j : lexemes[k].type = "COMMENT" <=> k \in i + 1 .. j - 1
        => lexemes[j].line - lexemes[i].line = Newlines(lexemes[i].to, lexemes[j].from)
=============================================================================
