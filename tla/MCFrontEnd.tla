----------------------------- MODULE MCFrontEnd -----------------------------
(***************************************************************************)
(* Sources for FrontEnd.  As token lists: well formed programs that        *)
(* together use every parse function, the same with one token dropped,     *)
(* replaced or put in, and every list of up to MaxShort tokens that open   *)
(* and close things.  As texts: all of up to MaxText characters of a kind. *)
(***************************************************************************)
EXTENDS FrontEnd

CONSTANTS
    Intruders,  \* tokens that an edit puts in
    Openers,    \* tokens of the short lists
    MaxShort,   \* bound: length of the short lists
    MaxText     \* bound: length of the texts

x == <<"IDENT">>
one == <<"INT_LITERAL">>
semi == <<"SEMICOLON">>
empty == <<"LBRACE", "RBRACE">>
block == <<"LBRACE", "IDENT", "SEMICOLON", "RBRACE">>
function == <<"FN", "IDENT", "LPAREN", "RPAREN">> \o empty

\* Statements that may stand in a block.
Statements == {
    <<"LET", "IDENT", "COLON", "INT_T", "EQUAL", "LBRACKET", "INT_LITERAL", "COMMA", "INT_LITERAL", "RBRACKET">> \o semi,
    <<"LET", "MUT", "IDENT", "EQUAL", "MINUS", "IDENT", "PLUS", "IDENT", "STAR", "IDENT">> \o semi,
    <<"MUT", "IDENT", "EQUAL", "IDENT", "IF", "TRUE", "ELSE", "IDENT">> \o semi,
    <<"CONST", "IDENT", "EQUAL", "STRING_LITERAL">> \o semi,
    <<"IDENT", "LBRACKET", "INT_LITERAL", "RBRACKET", "DOT", "IDENT", "PLUS_EQ", "IDENT">> \o semi,
    <<"IDENT", "LPAREN", "IDENT", "COMMA", "IDENT", "RPAREN", "QUESTION", "DOT", "IDENT">> \o semi,
    <<"LET", "IDENT", "EQUAL", "IDENT", "LBRACE", "IDENT", "COLON", "INT_LITERAL", "RBRACE">> \o semi,
    <<"LET", "IDENT", "EQUAL", "FN", "LPAREN", "IDENT", "COLON", "INT_T", "RPAREN", "ARROW", "INT_T", "LPAREN", "IDENT", "RPAREN">> \o semi,
    <<"LET", "IDENT", "COLON", "OPTION", "LT", "INT_T", "GT", "EQUAL", "NONE">> \o semi,
    <<"LET", "IDENT", "COLON", "LBRACKET", "INT_T", "SEMICOLON", "INT_LITERAL", "RBRACKET">> \o semi,
    <<"LET", "IDENT", "COLON", "RESULT", "LT", "INT_T", "COMMA", "STRING", "GT">> \o semi,
    <<"LET", "IDENT", "COLON", "IDENT", "LT", "INT_T", "GT", "EQUAL", "IDENT">> \o semi,
    <<"IF", "IDENT", "is", "INT_LITERAL">> \o block \o <<"ELIF", "IDENT">> \o empty \o <<"ELSE">> \o block,
    <<"FOR", "IDENT", "IN", "INT_LITERAL", "DOTDOT", "INT_LITERAL">> \o block,
    <<"WHILE", "IDENT", "LT", "INT_LITERAL">> \o block,
    <<"loop", "LBRACE", "BREAK", "SEMICOLON", "CONTINUE", "SEMICOLON", "RBRACE">>,
    <<"RETURN", "INT_T", "LPAREN", "IDENT", "RPAREN">> \o semi,
    <<"give", "IDENT">> \o semi,
    <<"set", "IDENT", "to", "INT_LITERAL">> \o semi \o <<"ask", "IDENT">> \o semi \o <<"SAY", "IDENT">> \o semi,
    <<"repeat", "INT_LITERAL", "times">> \o block,
    <<"MATCH", "IDENT", "LBRACE", "INT_LITERAL", "DOUBLE_ARROW", "IDENT", "COMMA", "IDENT", "IF_NL", "TRUE", "EQUAL", "GT">> \o block \o <<"RBRACE">>,
    <<"TRY">> \o block \o <<"CATCH", "LPAREN", "IDENT", "COLON", "IDENT", "RPAREN">> \o block \o <<"FINALLY">> \o empty,
    <<"THROW", "IDENT">> \o semi,
    <<"OP", "IDENT", "INT_LITERAL", "COMMA", "IDENT">> \o semi,
    <<"ASSERT", "IDENT", "COMMA", "STRING_LITERAL">> \o semi,
    <<"REQUIRES", "NOT", "IDENT">> \o semi,
    <<"HOT", "RELOAD", "IDENT">> \o semi,
    <<"PRINT", "LPAREN", "IDENT", "RPAREN">> \o semi }

\* An interpolated string may be in error itself.  expect and test are never
\* accepted: the == of an expect belongs to its first expression, and the brace
\* of a test is consumed before parseBlock expects it.
Questionable == {
    <<"LET", "IDENT", "EQUAL", "INTERPOLATED">> \o semi,
    <<"EXPECT", "IDENT", "EQ", "INT_LITERAL">> \o semi,
    <<"TEST", "IDENT", "LPAREN", "RPAREN">> \o block }

\* Items that stand at top level only, or matter there.
Items == {
    <<"FN", "IDENT", "LT", "IDENT", "GT", "LPAREN", "IDENT", "COLON", "INT_T", "COMMA", "IDENT", "RPAREN", "ARROW", "INT_T">> \o block,
    <<"function", "IDENT", "LPAREN", "RPAREN">> \o block,
    <<"PUB", "STRUCT", "IDENT", "LBRACE", "IDENT", "COLON", "INT_T", "COMMA">> \o function \o <<"RBRACE">>,
    <<"ENUM", "IDENT", "LBRACE", "IDENT", "LPAREN", "INT_T", "RPAREN", "COMMA", "IDENT", "RBRACE">>,
    <<"IMPL", "IDENT", "LBRACE">> \o function \o <<"RBRACE">>,
    <<"INTERFACE", "IDENT", "LBRACE", "IDENT", "RBRACE">>,
    <<"IMPORT", "IDENT", "DOT", "IDENT">> \o semi,
    <<"MODULE", "IDENT">> \o block,
    <<"EXPORT", "IDENT", "EQUAL", "IDENT">> \o semi,
    <<"LOAD", "IDENT", "DOT", "IDENT">> \o semi,
    <<"BYTECODE", "LBRACE", "IDENT", "INT_LITERAL", "RBRACE">>,
    <<"COROUTINE", "IDENT", "LPAREN", "IDENT", "COLON", "INT_T", "RPAREN", "ARROW", "INT_T">> \o block }

Opening == <<"FN", "IDENT", "LPAREN", "RPAREN", "LBRACE">>
Following == <<"RBRACE">> \o function
InFunction(body) == Opening \o body \o Following

Dropped(s) == {RemoveAt(s, i) : i \in DOMAIN s}
Replaced(s) == {ReplaceAt(s, i, t) : i \in DOMAIN s, t \in Intruders}
Inserted(s) == {InsertAt(s, i, t) : i \in DOMAIN s, t \in Intruders}
Edits(s) == {s} \cup Dropped(s) \cup Replaced(s) \cup Inserted(s)

MCInputs ==
    UNION {{InFunction(e) : e \in Edits(s)} : s \in Statements \cup Questionable}
        \cup UNION {{e \o function : e \in Edits(s)} : s \in Items}
        \cup BoundedSeq(Openers, MaxShort)

Comments == {"/", "*", "nl", "f", "quote"}
Numbers == {"0", "1", "x", "."}
Strings == {"quote", "'", "\\", "f", "{"}
Phrases == {"if", "f", "nl", "{", "}"}
Interpolated == {"$", "\\", "{", "}", "f"}
Operators == {"+", "-", "*", "/", "=", "<", ">", "!", "&", "|", ".", "~", "#", "b"}
\* An `if` behind a token, with everything that may stand between them.
Befores == {<<"f">>, <<"quote", "nl", "quote">>, <<"'", "nl", "'">>}
Gaps == {<<" ">>, <<"nl">>, <<"/", "*", "nl", "*", "/">>, <<"/", "/", "f", "nl">>, <<"~", "nl", "nl">>}
\* What has a body, and bodies that open and close more.
Heads ==
    {<<"fn", " ", "f", "(", ")">>, <<"f", " ", "=", " ", "f">>, <<"loop">>, <<"match", " ", "f">>, <<"while", " ", "f">>,
     <<"struct", " ", "f">>, <<"enum", " ", "f">>, <<"impl", " ", "f">>, <<"module", " ", "f">>, <<"try">>,
     <<"interface", " ", "f">>, <<"bytecode">>, <<"test", " ", "f", "(", ")">>}
Braced == {"{", "}", "f", "quote", ":"}
MCTexts ==
    BoundedSeq(Operators, 2) \cup BoundedSeq(Phrases, MaxText)
        \cup UNION {BoundedSeq(cs, MaxText) : cs \in {Comments, Numbers, Strings}}
        \cup {b \o g \o <<"if", "{">> : b \in Befores, g \in Gaps}
        \cup {h \o <<"{">> \o b \o e : h \in Heads, b \in BoundedSeq(Braced, MaxText - 1), e \in {<<>>, <<"}">>}}
        \cup {<<"quote">> \o i \o <<"quote">> : i \in BoundedSeq(Interpolated, 3)}
        \cup {<<w>> \o e : w \in Letters, e \in {<<>>, <<"1">>, <<" ", "f", "{", "}">>, <<"(", "f", ")">>}}

\* Every construct of the language is accepted in its proper form, as one item
\* that ends where the next begins.
AcceptsWellFormed ==
    Ended /\ (\/ \E s \in Statements : tokens = InFunction(s)
              \/ \E s \in Items : tokens = s \o function)
        => ~reported /\ items = {1, Len(tokens) - Len(function) + 1}

\* The statements of the first function, when a second follows it.
Body == SubSeq(tokens, Len(Opening) + 1, Len(tokens) - Len(Following))
TwoFunctions ==
    /\ Len(tokens) > Len(Opening \o Following)
    /\ IsPrefix(Opening, tokens) /\ IsSuffix(Following, tokens)

\* What takes a following brace or angle bracket for its own.
Nesting == If \cup {"MATCH", "TRY", "CATCH", "LT", "FN", "DOTDOT"}
Count(t) == Cardinality({i \in DOMAIN Body : Body[i] = t})

\* An error in a statement, whatever was dropped from it or put into it, does not
\* reach the function that follows: that one is an item of the program.
ErrorsStayInFunction ==
    Ended /\ ret # "crash" /\ TwoFunctions /\ Balanced(Len(tokens))
          /\ Last(Body) \in {"SEMICOLON", "RBRACE"} /\ ToSet(Body) \cap Nesting = {}
          /\ Count("LPAREN") = Count("RPAREN")
        => Len(tokens) - Len(function) + 1 \in items
=============================================================================
