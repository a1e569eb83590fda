---------------------------- MODULE SourceParser ----------------------------
(***************************************************************************)
(* The recursive descent of compiler/parser/parser.cpp over a token list:  *)
(* which tokens each parse function consumes, when it reports, when it     *)
(* gives up (null), and how the parser goes on after an error.             *)
(*                                                                         *)
(* A parse function is written down as the sequence of its steps, in the   *)
(* order of the code, under the code's name.  `todo` is the C++ call       *)
(* stack: the steps still to be taken, of the innermost call first; a call *)
(* puts the callee's steps in front, closed by an "end" that remembers     *)
(* pos_ at the call.  Each kind of step is an action.  Tokens are the      *)
(* token types of lexer/token.h; words that the parser recognises by their *)
(* lexeme are tokens of their own, and IF_NL is an `if` that begins a      *)
(* line.  The tree is reduced to whether a function returned a node.       *)
(***************************************************************************)
EXTENDS Integers, Sequences, FiniteSets, SequencesExt

CONSTANT Inputs     \* the token lists to parse, without the end-of-file token

\* The end of the file is what Token finds behind the last one.
ASSUME InputsAssumption ==
    \A s \in Inputs : s \in Seq(STRING) /\ "TOKEN_EOF" \notin ToSet(s)

VARIABLES
    tokens,     \* tokens_, comments dropped, TOKEN_EOF left out
    pos,        \* pos_
    todo,       \* the call stack
    ret,        \* what the last call returned: "node" or "null"
    reported,   \* the DiagnosticEngine holds an error
    skipped,    \* recovery has passed over a token
    stalled,    \* a loop has begun where its last iteration began
    items       \* where the items of program_.topLevel begin

vars == <<tokens, pos, todo, ret, reported, skipped, stalled, items>>

----------------------------------------------------------------------------
(* Token classes *)

Words == {"function", "give", "ask", "set", "repeat", "loop", "to", "times", "is"}
Idents == Words \cup {"IDENT"}
If == {"IF", "IF_NL"}
Says == {"SAY", "PRINT", "OUTPUT"}
Types == {"INT_T", "INT8", "INT16", "INT32", "INT64", "UINT", "UINT8", "UINT16", "UINT32",
          "UINT64", "F32", "F64", "BOOL_T", "CHAR_T", "STRING", "BYTE", "VOID"}
Literals == {"INT_LITERAL", "FLOAT_LITERAL", "STRING_LITERAL", "TRUE", "FALSE", "NONE",
             "CHAR_LITERAL"}
Compound == {"PLUS_EQ", "MINUS_EQ", "STAR_EQ", "SLASH_EQ"}
Unary == {"NOT", "MINUS", "PLUS"}

\* synchronize(): the statement boundaries it stops at.
Boundaries == {"RBRACE", "FN", "STRUCT", "ENUM", "LET", "MUT", "CONST", "IMPORT", "IMPL",
               "MODULE", "WHILE", "FOR", "RETURN"} \cup If

P_UNARY == 8
P_NONE == 0
P_OR == 2
P_ADD == 6

Bug_precedenceFor(t) == IF t \in {"PLUS", "MINUS"} THEN P_ADD ELSE P_NONE

precedenceFor(t) ==
    CASE t = "OR" -> P_OR
      [] t = "AND" -> 3
      [] t \in {"EQ", "NEQ", "is"} -> 4
      [] t \in {"LT", "GT", "LTE", "GTE"} -> 5
      [] t \in {"PLUS", "MINUS"} -> P_ADD
      [] t \in {"STAR", "SLASH", "MOD"} -> 7
      [] OTHER -> P_NONE

----------------------------------------------------------------------------
(* Steps.  A pattern is a sequence of token sets, for current() and what   *)
(* follows it; <<>> fits everything.                                       *)

Take == <<"take">>                          \* pos_++
Error == <<"error">>                        \* errorAt
Expect(t) == <<"expect", t>>                \* expect, whatever it returns
Must(t) == <<"must", t, "null">>            \* if (!expect) return nullptr
MustOrRewind(t) == <<"must", t, "rewind">>  \* if (!expect) { pos_ = save; return nullptr; }
Opt(t) == <<"opt", t>>                      \* if (current() is t) pos_++
Call(f) == <<"call", f, P_NONE>>
Expr(prec) == <<"call", "parseExpression", prec>>
Choose(cases) == <<"choose", cases>>        \* if, else if, else, switch
When(pattern, steps) == Choose(<<<<pattern, steps>>>>)
Else(steps) == <<<<>>, steps>>
OnNull(yes, no) == <<"onNull", yes, no>>
While(stop, body) == <<"while", stop, body, -1>>  \* until stop or the end of the file
Break == <<"break">>
Return(r) == <<"return", r>>

Node == Return("node")
Null == Return("null")
Same == Return("same")      \* return what the call before returned

parseIdentifier == <<Choose(<< <<<<Idents>>, <<Take>>>>, Else(<<Error, Take>>) >>)>>
Ident == Call("parseIdentifier")
Type == Call("parseType")
Block == Call("parseBlock")
Stmt == Call("parseStatement")
Semi == Opt("SEMICOLON")
Eof == {"TOKEN_EOF"}

\* A list of arguments: an expression, then a comma or the end.
Commas(close) == <<While({close}, <<Expr(P_NONE), Choose(<< <<<<{"COMMA"}>>, <<Take>>>>, Else(<<Break>>) >>)>>),
                   Expect(close)>>
Typed == When(<<{"COLON"}>>, <<Take, Type>>)
Valued == When(<<{"EQUAL"}>>, <<Take, Expr(P_NONE)>>)
Arrow == When(<<{"ARROW"}>>, <<Take, Type>>)

----------------------------------------------------------------------------
(* Declarations *)

parseTopLevel == <<While({}, <<Call("topLevelStep")>>)>>
topLevelStep == <<Call("parseTopLevelItem"), <<"keep">>, <<"stalled", TRUE>>>>

parseTypeParams ==
    <<When(<<{"LT"}>>,
        <<Take,
          While({"GT"}, <<Choose(<< <<<<Idents>>, <<Ident>>>>, Else(<<Error, Take>>) >>), Opt("COMMA")>>),
          Opt("GT")>>)>>

parseFunctionDecl ==
    <<Choose(<< <<<<{"function"}>>, <<Take>>>>, Else(<<Expect("FN")>>) >>),
      Ident, Call("parseTypeParams"), Must("LPAREN"),
      While({"RPAREN"},
        <<Ident, Typed,
          Choose(<< <<<<{"COMMA"}>>, <<Take>>>>, <<<<{"RPAREN"}>>, <<Break>>>>,
                    Else(<<Error, Break>>) >>)>>),
      Expect("RPAREN"), Arrow, Block, Node>>

parseStructDecl ==
    <<Expect("STRUCT"), Ident, Call("parseTypeParams"), Must("LBRACE"),
      While({"RBRACE"},
        <<Choose(<<
            <<<<{"FN"}>>, <<Call("parseFunctionDecl"), OnNull(<<Take>>, <<>>)>>>>,
            Else(<<Ident,
                   Choose(<< <<<<{"COLON"}>>, <<Take, Type>>>>, Else(<<Error>>) >>),
                   Choose(<< <<<<{"SEMICOLON", "COMMA"}>>, <<Take>>>>,
                             <<<<{"RBRACE"}>>, <<>>>>, Else(<<Error>>) >>)>>) >>)>>),
      Expect("RBRACE"), Node>>

parseEnumDecl ==
    <<Expect("ENUM"), Ident, Call("parseTypeParams"), Must("LBRACE"),
      While({"RBRACE"},
        <<Ident,
          When(<<{"LPAREN"}>>,
            <<Take,
              While({"RPAREN"},
                <<Type, Choose(<< <<<<{"COMMA"}>>, <<Take>>>>, <<<<{"RPAREN"}>>, <<>>>>,
                                  Else(<<Break>>) >>)>>),
              Expect("RPAREN")>>),
          Choose(<< <<<<{"COMMA"}>>, <<Take>>>>, <<<<{"RBRACE"}>>, <<>>>>,
                    Else(<<Error, Break>>) >>)>>),
      Expect("RBRACE"), Node>>

parseImplBlock ==
    <<Expect("IMPL"), Ident, Call("parseTypeParams"), Must("LBRACE"),
      While({"RBRACE"},
        <<Choose(<< <<<<{"FN"}>>, <<Call("parseFunctionDecl")>>>>, Else(<<Error, Take>>) >>)>>),
      Expect("RBRACE"), Node>>

parseInterfaceDecl ==
    <<Expect("INTERFACE"), Ident, Must("LBRACE"), While({"RBRACE"}, <<Take>>),
      Expect("RBRACE"), Node>>

\* A dot at the beginning of the path, or after another, is reported.
parseImportStmt ==
    <<Expect("IMPORT"), When(<<{"DOT"}>>, <<Error>>),
      While({},
        <<Choose(<< <<<<{"DOT"}, {"DOT"}>>, <<Error, Take>>>>,
                    <<<<Idents \cup {"DOT"}>>, <<Take>>>>, Else(<<Break>>) >>)>>),
      Semi, Node>>

parseConstDecl == <<Expect("CONST"), Ident, Must("EQUAL"), Expr(P_NONE), Semi, Node>>

parseModuleDecl == <<Expect("MODULE"), Ident, Block, Node>>
parseExportDecl == <<Expect("EXPORT"), Ident, Valued, Semi, Node>>
parseLoadStmt ==
    <<Expect("LOAD"),
      While({}, <<Choose(<< <<<<Idents \cup {"DOT"}>>, <<Take>>>>, Else(<<Break>>) >>)>>),
      Semi, Node>>

parseParamList ==
    <<Must("LPAREN"),
      While({"RPAREN"},
        <<Ident, Choose(<< <<<<{"COLON"}>>, <<Take, Type, Opt("COMMA")>>>>, Else(<<Error>>) >>)>>),
      Expect("RPAREN")>>
parseCoroutineDecl ==
    <<Expect("COROUTINE"), Ident, Call("parseParamList"), Arrow, Block, Node>>

----------------------------------------------------------------------------
(* Statements *)

Bug_parseBlock ==
    <<Expect("LBRACE"), While({"RBRACE"}, <<Call("blockStep")>>), Opt("RBRACE"), Node>>
parseBlock ==
    <<Expect("LBRACE"), While({"RBRACE"}, <<Call("blockStep")>>), Expect("RBRACE"), Node>>
Bug_blockStep == <<Stmt, Take, <<"stalled", FALSE>>>>
blockStep == <<Stmt, Semi, <<"stalled", FALSE>>>>

parseLetStmt ==
    <<Expect("LET"), Opt("MUT"), Ident, Typed, Valued, Semi, Node>>
parseMutStmt == <<Expect("MUT"), Ident, Typed, Valued, Semi, Node>>

parseExprStmt ==
    <<When(<<{"loop"}, {"LBRACE"}>>, <<Take, Block, Node>>),
      When(<<Idents>>, <<Call("tryParseAssignment"), OnNull(<<>>, <<Node>>)>>),
      Expr(P_NONE), Semi, OnNull(<<Error, Null>>, <<Node>>)>>

tryParseAssignment ==
    <<Take,
      While({},
        <<Choose(<< <<<<{"DOT"}, Idents>>, <<Take, Take>>>>,
                    <<<<{"LBRACKET"}>>, <<Take, Expr(P_NONE), MustOrRewind("RBRACKET")>>>>,
                    Else(<<Break>>) >>)>>),
      When(<<Compound \cup {"EQUAL"}>>, <<Take, Expr(P_NONE), Semi, Node>>),
      Return("rewind")>>

\* parseIfStmt, and parseIfStmtElif for the elif that takes the place of if.
IfTail ==
    <<Expr(P_NONE), Stmt,
      Choose(<< <<<<{"ELIF"}>>, <<Call("parseIfStmtElif")>>>>,
                <<<<{"ELSE"}>>, <<Take, Stmt>>>> >>), Node>>
parseIfStmt == <<Choose(<< <<<<If>>, <<Take>>>>, Else(<<Error>>) >>)>> \o IfTail
parseIfStmtElif == <<Take>> \o IfTail

parseForStmt ==
    <<Expect("FOR"), Ident, Must("IN"), Expr(P_NONE),
      When(<<{"DOTDOT"}>>, <<Take, Opt("EQUAL"), Expr(P_ADD)>>), Stmt, Node>>
parseWhileStmt == <<Expect("WHILE"), Expr(P_NONE), Stmt, Node>>

\* What follows return or give.
Result ==
    <<Choose(<< <<<<{"SEMICOLON", "RBRACE", "TOKEN_EOF"}>>, <<>>>>, Else(<<Expr(P_NONE)>>) >>),
      Semi, Node>>
parseReturnStmt == <<Expect("RETURN")>> \o Result
parseBreakStmt == <<Expect("BREAK"), Semi, Node>>
parseContinueStmt == <<Expect("CONTINUE"), Semi, Node>>

parseTryCatchStmt ==
    <<Expect("TRY"), Block,
      While({},
        <<Choose(<< <<<<{"CATCH"}>>,
            <<Take,
              When(<<{"LPAREN"}>>,
                <<Take, Ident, When(<<{"COLON"}>>, <<Take, Ident>>), Must("RPAREN")>>),
              Block>>>>, Else(<<Break>>) >>)>>),
      When(<<{"FINALLY"}>>, <<Take, Block>>), Node>>
parseThrowStmt == <<Expect("THROW"), Expr(P_NONE), Semi, Node>>

parseBytecodeStmt ==
    <<Expect("BYTECODE"), Must("LBRACE"), While({"RBRACE"}, <<Take>>), Opt("RBRACE"), Node>>
parseOpStmt ==
    <<Expect("OP"), Ident,
      While({}, <<Choose(<< <<<<Idents \cup {"COMMA", "INT_LITERAL", "FLOAT_LITERAL"}>>, <<Take>>>>,
                            Else(<<Break>>) >>)>>),
      Semi, Node>>

\* The arms' loop has no guard against an arm that consumes nothing.
parseMatchStmt ==
    <<Expect("MATCH"), Expr(P_NONE), Must("LBRACE"),
      While({"RBRACE"},
        <<Expr(P_NONE), When(<<If>>, <<Take, Expr(P_NONE)>>),
          Choose(<< <<<<{"EQUAL"}, {"GT"}>>, <<Take, Take>>>>, <<<<{"DOUBLE_ARROW"}>>, <<Take>>>>,
                    Else(<<Error>>) >>),
          Choose(<< <<<<{"LBRACE"}>>, <<Block>>>>, Else(<<Expr(P_NONE)>>) >>),
          Opt("COMMA")>>),
      Expect("RBRACE"), Node>>

\* Its LBRACE is consumed before parseBlock expects one.
parseTestStmt ==
    <<Expect("TEST"), Ident, Must("LPAREN"), Must("RPAREN"), Must("LBRACE"), Block, Node>>
parseAssertStmt ==
    <<Expect("ASSERT"), Expr(P_NONE), When(<<{"COMMA"}>>, <<Take, Expr(P_NONE)>>), Semi, Node>>
parseExpectStmt ==
    <<Expect("EXPECT"), Expr(P_NONE), Must("EQ"), Expr(P_NONE), Semi, Node>>
\* parseRequiresStmt, parseEnsuresStmt, parseInvariantStmt
parseContract == <<Take, Expr(P_NONE), Semi, Node>>
parseHotReloadStmt == <<Expect("HOT"), Expect("RELOAD"), Ident, Semi, Node>>

\* The switch that statements and top-level items have in common.
Dispatch ==
    << <<<<{"FN"}>>, <<Call("parseFunctionDecl")>>>>,
       <<<<{"STRUCT"}>>, <<Call("parseStructDecl")>>>>,
       <<<<{"ENUM"}>>, <<Call("parseEnumDecl")>>>>,
       <<<<{"IMPL"}>>, <<Call("parseImplBlock")>>>>,
       <<<<{"LET"}>>, <<Call("parseLetStmt")>>>>,
       <<<<{"MUT"}>>, <<Call("parseMutStmt")>>>>,
       <<<<{"CONST"}>>, <<Call("parseConstDecl")>>>>,
       <<<<If>>, <<Call("parseIfStmt")>>>>,
       <<<<{"FOR"}>>, <<Call("parseForStmt")>>>>,
       <<<<{"WHILE"}>>, <<Call("parseWhileStmt")>>>>,
       <<<<{"RETURN"}>>, <<Call("parseReturnStmt")>>>>,
       <<<<{"BREAK"}>>, <<Call("parseBreakStmt")>>>>,
       <<<<{"CONTINUE"}>>, <<Call("parseContinueStmt")>>>>,
       <<<<{"MATCH"}>>, <<Call("parseMatchStmt")>>>>,
       <<<<{"MODULE"}>>, <<Call("parseModuleDecl")>>>>,
       <<<<{"EXPORT"}>>, <<Call("parseExportDecl")>>>>,
       <<<<{"LOAD"}>>, <<Call("parseLoadStmt")>>>>,
       <<<<{"TRY"}>>, <<Call("parseTryCatchStmt")>>>>,
       <<<<{"THROW"}>>, <<Call("parseThrowStmt")>>>>,
       <<<<{"BYTECODE"}>>, <<Call("parseBytecodeStmt")>>>>,
       <<<<{"OP"}>>, <<Call("parseOpStmt")>>>>,
       <<<<{"TEST"}>>, <<Call("parseTestStmt")>>>>,
       <<<<{"ASSERT"}>>, <<Call("parseAssertStmt")>>>>,
       <<<<{"EXPECT"}>>, <<Call("parseExpectStmt")>>>>,
       <<<<{"HOT"}>>, <<Call("parseHotReloadStmt")>>>> >>

parseStatement ==
    <<Choose(<<
        <<<<{"function"}>>, <<Call("parseFunctionDecl")>>>>,
        <<<<{"give"}>>, <<Take>> \o Result>>,
        <<<<Says \cup {"INPUT", "ask"}, {"LPAREN"}>>, <<Call("parseExprStmt")>>>>,
        <<<<Says>>, <<Take, Expr(P_NONE), Semi, Node>>>>,
        <<<<{"INPUT", "ask"}>>, <<Take, Ident, Semi, Node>>>>,
        <<<<{"set"}>>,
          <<Take, Ident, Choose(<< <<<<{"to", "EQUAL"}>>, <<Take>>>>, Else(<<Error>>) >>),
            Expr(P_NONE), Semi, Node>>>>,
        <<<<{"repeat"}>>, <<Take, Expr(P_ADD), Opt("times"), Stmt, Node>>>>,
        <<<<{"REQUIRES", "ENSURES", "INVARIANT"}>>, <<Call("parseContract")>>>>,
        <<<<{"LBRACE"}>>, <<Block>>>> >> \o Dispatch \o <<Else(<<Call("parseExprStmt")>>)>>)>>

\* An expression at top level; without one the token is passed over once more.
Script == <<Expr(P_NONE), OnNull(<<Error, Take, Null>>, <<Semi, Node>>)>>

parseTopLevelItem ==
    <<Choose(<<
        <<<<{"function"}>>, <<Call("parseFunctionDecl")>>>>,
        <<<<Says \cup {"INPUT"}, {"LPAREN"}>>, Script>>,
        <<<<Says \cup {"INPUT", "ask", "set", "repeat", "give"}>>, <<Stmt>>>>,
        <<<<{"INTERFACE"}>>, <<Call("parseInterfaceDecl")>>>>,
        <<<<{"IMPORT"}>>, <<Call("parseImportStmt")>>>>,
        <<<<{"COROUTINE"}>>, <<Call("parseCoroutineDecl")>>>>,
        <<<<{"REQUIRES", "ENSURES", "INVARIANT"}>>, <<Call("parseContract")>>>>,
        <<<<{"PUB"}>>,
          <<Take, Choose(<< <<<<{"FN"}>>, <<Call("parseFunctionDecl")>>>>,
                            <<<<{"STRUCT"}>>, <<Call("parseStructDecl")>>>>,
                            Else(<<Error, Take, Null>>) >>)>>>> >> \o Dispatch \o
        <<<<<<Idents>>, <<Call("tryParseAssignment"), OnNull(Script, <<>>)>>>>, Else(Script)>>)>>

----------------------------------------------------------------------------
(* Expressions and types *)

\* The operand of a unary operator binds as tightly as P_UNARY.
parseExpression(minPrec) ==
    <<Choose(<< <<<<Unary>>, <<Take, Expr(P_UNARY), <<"made">>>>>>, Else(<<Call("parsePrimary")>>) >>),
      <<"climb", minPrec>>>>

\* What is left of an expression at full level: value if condition else value.
Conditional(left) ==
    <<Take, Expr(P_OR), <<"must", "ELSE", left>>, Expr(P_NONE), Node>>

parsePrimary == <<Call("parseAtom"), OnNull(<<Null>>, <<Call("parsePostfix")>>)>>

parsePostfix ==
    <<While({},
        <<Choose(<<
            <<<<{"DOT"}>>, <<Take, Choose(<< <<<<Idents>>, <<Take>>>>, Else(<<Error, Node>>) >>)>>>>,
            <<<<{"LPAREN"}>>, <<Take>> \o Commas("RPAREN")>>,
            <<<<{"LBRACKET"}>>, <<Take, Expr(P_NONE), Expect("RBRACKET")>>>>,
            <<<<{"QUESTION"}>>, <<Take>>>>,
            Else(<<Break>>) >>)>>),
      Node>>

\* Ident { field: expr, ... }; a literal that is not closed is given back.
StructLiteral ==
    <<Take, Take,
      While({"RBRACE"},
        <<Ident, Must("COLON"), Expr(P_NONE),
          Choose(<< <<<<{"COMMA"}>>, <<Take>>>>, Else(<<Break>>) >>)>>),
      MustOrRewind("RBRACE"), Node>>

Lambda ==
    <<Take, Must("LPAREN"),
      While({"RPAREN"},
        <<Ident, Typed, Choose(<< <<<<{"COMMA"}>>, <<Take>>>>, Else(<<Break>>) >>)>>),
      Expect("RPAREN"), Arrow,
      Choose(<< <<<<{"LBRACE"}>>, <<Block, Node>>>>, Else(<<Expr(P_NONE), Same>>) >>)>>

parseAtom ==
    <<Choose(<<
        <<<<{"INT_T", "F32", "F64", "INPUT", "ASSERT", "EXPECT", "TEST"} \cup Says, {"LPAREN"}>>,
          <<Take, Node>>>>,
        <<<<Literals>>, <<Take, Node>>>>,
        <<<<{"INTERPOLATED"}>>, <<<<"interpolate">>, Node>>>>,
        <<<<{"LPAREN"}>>, <<Take, Expr(P_NONE), Expect("RPAREN"), Same>>>>,
        <<<<Idents, {"LBRACE"}, Idents, {"COLON"}>>, StructLiteral>>,
        <<<<Idents>>, <<Take, Node>>>>,
        <<<<{"LBRACKET"}>>, <<Take>> \o Commas("RBRACKET") \o <<Node>>>>,
        <<<<{"LBRACE"}>>, <<Take, While({"RBRACE"}, <<Stmt, Semi>>), Expect("RBRACE"), Null>>>>,
        <<<<If>>, <<Call("parseIfStmt"), Node>>>>,
        <<<<{"MATCH"}>>, <<Call("parseMatchStmt"), Node>>>>,
        <<<<{"FN"}>>, Lambda>>,
        Else(<<Error, Take, Null>>) >>)>>

parseSimpleType ==
    <<Choose(<<
        <<<<Idents \cup Types>>, <<Take, Node>>>>,
        <<<<{"LBRACKET"}>>,
          <<Take, Type, Expect("SEMICOLON"), Opt("INT_LITERAL"), Expect("RBRACKET"), Node>>>>,
        <<<<{"OPTION"}>>, <<Take, Must("LT"), Type, Expect("GT"), Node>>>>,
        <<<<{"RESULT"}>>, <<Take, Must("LT"), Type, Opt("COMMA"), Type, Expect("GT"), Node>>>>,
        Else(<<Error, Take, Null>>) >>)>>

\* base->getName() of a type that was not parsed ends the process.
Arguments(close, end) == <<Take, While({close}, <<Type, Opt("COMMA")>>), Opt(close), end>>
Generic(end) ==
    <<Choose(<< <<<<{"LT"}>>, Arguments("GT", end)>>,
                <<<<{"LBRACKET"}>>, Arguments("RBRACKET", end)>> >>)>>
parseGenericType ==
    <<Call("parseSimpleType"), OnNull(Generic(<<"crash">>), Generic(Node))>>

\* The steps of every function; only parseExpression has an argument.
Routine ==
    [parseTopLevel |-> parseTopLevel, topLevelStep |-> topLevelStep,
     parseTopLevelItem |-> parseTopLevelItem, parseFunctionDecl |-> parseFunctionDecl,
     parseTypeParams |-> parseTypeParams, parseParamList |-> parseParamList,
     parseStructDecl |-> parseStructDecl, parseEnumDecl |-> parseEnumDecl,
     parseImplBlock |-> parseImplBlock, parseInterfaceDecl |-> parseInterfaceDecl,
     parseImportStmt |-> parseImportStmt, parseConstDecl |-> parseConstDecl,
     parseModuleDecl |-> parseModuleDecl, parseExportDecl |-> parseExportDecl,
     parseLoadStmt |-> parseLoadStmt, parseCoroutineDecl |-> parseCoroutineDecl,
     parseStatement |-> parseStatement, parseBlock |-> parseBlock, blockStep |-> blockStep,
     parseLetStmt |-> parseLetStmt, parseMutStmt |-> parseMutStmt,
     parseExprStmt |-> parseExprStmt, tryParseAssignment |-> tryParseAssignment,
     parseIfStmt |-> parseIfStmt, parseIfStmtElif |-> parseIfStmtElif,
     parseForStmt |-> parseForStmt, parseWhileStmt |-> parseWhileStmt,
     parseReturnStmt |-> parseReturnStmt, parseBreakStmt |-> parseBreakStmt,
     parseContinueStmt |-> parseContinueStmt, parseTryCatchStmt |-> parseTryCatchStmt,
     parseThrowStmt |-> parseThrowStmt, parseBytecodeStmt |-> parseBytecodeStmt,
     parseOpStmt |-> parseOpStmt, parseMatchStmt |-> parseMatchStmt,
     parseTestStmt |-> parseTestStmt, parseAssertStmt |-> parseAssertStmt,
     parseExpectStmt |-> parseExpectStmt, parseContract |-> parseContract,
     parseHotReloadStmt |-> parseHotReloadStmt, parsePrimary |-> parsePrimary,
     parsePostfix |-> parsePostfix, parseAtom |-> parseAtom,
     parseSimpleType |-> parseSimpleType, parseIdentifier |-> parseIdentifier,
     parseType |-> parseGenericType]
Steps(f, prec) == IF f = "parseExpression" THEN parseExpression(prec) ELSE Routine[f]

----------------------------------------------------------------------------

\* current() and the tokens behind it: beyond the end is the end of the file.
Token(i) == IF i <= Len(tokens) THEN tokens[i] ELSE "TOKEN_EOF"
Current == Token(pos)
Fits(pattern) == \A i \in DOMAIN pattern : Token(pos + i - 1) \in pattern[i]

Step == todo[1]
Rest == Tail(todo)
At(op) == todo # <<>> /\ Step[1] = op

\* The rest of the list behind the first step of kind op.
FirstAt(op) == SelectInSeq(todo, LAMBDA s : s[1] = op)
Behind(op) == SubSeq(todo, FirstAt(op) + 1, Len(todo))
Saved == todo[FirstAt("end")][2]    \* pos_ when the innermost call began

Go(steps) == todo' = steps
Consume == pos' = pos + 1
Report == reported' = TRUE

ReturnFrom(r) ==
    /\ Go(Behind("end"))
    /\ ret' = CASE r = "same" -> ret [] r = "rewind" -> "null" [] OTHER -> r
    /\ pos' = IF r = "rewind" THEN Saved ELSE pos

----------------------------------------------------------------------------

Init ==
    /\ tokens \in Inputs
    /\ pos = 1
    /\ todo = parseTopLevel
    /\ ret = "node"
    /\ reported = FALSE
    /\ skipped = FALSE
    /\ stalled = FALSE
    /\ items = {}

DoTake ==
    /\ At("take")
    /\ Consume /\ Go(Rest)
    /\ UNCHANGED <<tokens, ret, reported, skipped, stalled, items>>

DoError ==
    /\ At("error")
    /\ Report /\ Go(Rest)
    /\ UNCHANGED <<tokens, pos, ret, skipped, stalled, items>>

\* expect(): consumes the token it wants and nothing else.
DoExpect ==
    /\ At("expect") \/ At("opt")
    /\ IF Current = Step[2]
       THEN Consume /\ UNCHANGED reported
       ELSE UNCHANGED pos /\ (IF At("expect") THEN Report ELSE UNCHANGED reported)
    /\ Go(Rest)
    /\ UNCHANGED <<tokens, ret, skipped, stalled, items>>

DoMust ==
    /\ At("must")
    /\ IF Current = Step[2]
       THEN Consume /\ Go(Rest) /\ UNCHANGED <<ret, reported>>
       ELSE Report /\ ReturnFrom(Step[3])
    /\ UNCHANGED <<tokens, skipped, stalled, items>>

\* The interpolated expressions have a parser of their own, which may report.
Interpolate ==
    /\ At("interpolate")
    /\ \E bad \in BOOLEAN : reported' = (reported \/ bad)
    /\ Consume /\ Go(Rest)
    /\ UNCHANGED <<tokens, ret, skipped, stalled, items>>

Branch ==
    /\ At("choose")
    /\ LET i == SelectInSeq(Step[2], LAMBDA c : Fits(c[1]))
       IN Go(IF i = 0 THEN Rest ELSE Step[2][i][2] \o Rest)
    /\ UNCHANGED <<tokens, pos, ret, reported, skipped, stalled, items>>

BranchOnNull ==
    /\ At("onNull")
    /\ Go((IF ret = "null" THEN Step[2] ELSE Step[3]) \o Rest)
    /\ UNCHANGED <<tokens, pos, ret, reported, skipped, stalled, items>>

Loop ==
    /\ At("while")
    /\ IF Current \in Step[2] \cup Eof
       THEN Go(Rest) /\ UNCHANGED stalled
       ELSE /\ Go(Step[3] \o <<[Step EXCEPT ![4] = pos]>> \o Rest)
            /\ stalled' = (stalled \/ Step[4] = pos)
    /\ UNCHANGED <<tokens, pos, ret, reported, skipped, items>>

LeaveLoop ==
    /\ At("break")
    /\ Go(Behind("while"))
    /\ UNCHANGED <<tokens, pos, ret, reported, skipped, stalled, items>>

Enter ==
    /\ At("call")
    /\ Go(Steps(Step[2], Step[3]) \o <<<<"end", pos>>>> \o Rest)
    /\ UNCHANGED <<tokens, pos, ret, reported, skipped, stalled, items>>

DoReturn ==
    /\ At("return")
    /\ ReturnFrom(Step[2])
    /\ UNCHANGED <<tokens, reported, skipped, stalled, items>>

\* A function that ends with a call returns what the call returned.
End ==
    /\ At("end")
    /\ Go(Rest)
    /\ UNCHANGED <<tokens, pos, ret, reported, skipped, stalled, items>>

\* Operators that bind as tightly as the caller allows, then a conditional.
Climb ==
    /\ At("climb")
    /\ LET prec == precedenceFor(Current)
       IN IF prec > P_NONE /\ prec >= Step[2]
          THEN Go(<<Take, Expr(prec + 1), <<"made">>>> \o todo)
          ELSE Go(IF Current = "IF" /\ Step[2] = P_NONE THEN Conditional(ret) \o Rest ELSE Rest)
    /\ UNCHANGED <<tokens, pos, ret, reported, skipped, stalled, items>>

\* An operator has made a node of its operands, whatever they were.
Made ==
    /\ At("made")
    /\ ret' = "node" /\ Go(Rest)
    /\ UNCHANGED <<tokens, pos, reported, skipped, stalled, items>>

Keep ==
    /\ At("keep")
    /\ items' = IF ret = "node" THEN items \cup {Saved} ELSE items
    /\ Go(Rest)
    /\ UNCHANGED <<tokens, pos, ret, reported, skipped, stalled>>

Bug_Recover ==
    /\ At("stalled")
    /\ LET stop == IF Step[2] THEN Eof ELSE Eof \cup {"RBRACE"}
       IN Go(IF ret = "null" /\ Step[2] /\ Current \notin stop THEN <<<<"sync">>, <<"nudge">>>> \o Rest ELSE Rest)
    /\ UNCHANGED <<tokens, pos, ret, reported, skipped, stalled, items>>

\* What the loops of parseBlock and parseTopLevel do after an item that
\* consumed nothing; at top level also after one that failed.
Recover ==
    /\ At("stalled")
    /\ LET stop == IF Step[2] THEN Eof ELSE Eof \cup {"RBRACE"}
           failed == pos = Saved \/ (Step[2] /\ ret = "null")
       IN Go(IF failed /\ Current \notin stop THEN <<<<"sync">>, <<"nudge">>>> \o Rest ELSE Rest)
    /\ UNCHANGED <<tokens, pos, ret, reported, skipped, stalled, items>>

Bug_Synchronize ==
    /\ At("sync")
    /\ IF Current \in Boundaries \cup Eof
       THEN Go(Rest) /\ UNCHANGED <<pos, skipped>>
       ELSE IF Current = "SEMICOLON"
       THEN Go(todo) /\ UNCHANGED <<pos, skipped>>
       ELSE Consume /\ skipped' = TRUE /\ Go(todo)
    /\ UNCHANGED <<tokens, ret, reported, stalled, items>>

Synchronize ==
    /\ At("sync")
    /\ IF Current \in Boundaries \cup Eof
       THEN Go(Rest) /\ UNCHANGED <<pos, skipped>>
       ELSE /\ Consume /\ skipped' = TRUE
            /\ Go(IF Current = "SEMICOLON" THEN Rest ELSE todo)
    /\ UNCHANGED <<tokens, ret, reported, stalled, items>>

\* The absolute guarantee of progress.
Nudge ==
    /\ At("nudge")
    /\ IF pos = Saved /\ Current \notin Eof
       THEN Consume /\ skipped' = TRUE
       ELSE UNCHANGED <<pos, skipped>>
    /\ Go(Rest)
    /\ UNCHANGED <<tokens, ret, reported, stalled, items>>

Crash ==
    /\ At("crash")
    /\ ret' = "crash" /\ Go(<<>>)
    /\ UNCHANGED <<tokens, pos, reported, skipped, stalled, items>>

Next ==
    \/ DoTake \/ DoError \/ DoExpect \/ DoMust \/ Interpolate
    \/ Branch \/ BranchOnNull \/ Loop \/ LeaveLoop
    \/ Enter \/ DoReturn \/ End \/ Climb \/ Made
    \/ Keep \/ Recover \/ Synchronize \/ Nudge \/ Crash

Spec == Init /\ [][Next]_vars
FairSpec == Spec /\ WF_vars(Next)

----------------------------------------------------------------------------
(* Properties *)

Ended == todo = <<>>

\* parseTopLevel and parseBlock never begin two rounds at the same token
\* (their "absolute progress guarantee"): a statement that gave everything
\* back is passed over, at every depth of calls between them.
GuardsHold ==
    At("while") /\ Step[4] = pos /\ Current \notin Step[2] \cup Eof
        => Step[3][1] \notin {Call("topLevelStep"), Call("blockStep")}

\* What an unclosed struct literal may be made of; it is given back whole.
GivesBack ==
    \E i \in 1 .. Len(tokens) - 3 :
        /\ {tokens[i], tokens[i + 2]} \subseteq Idents
        /\ tokens[i + 1] = "LBRACE" /\ tokens[i + 3] = "COLON"

\* The parser comes to an end on every list of tokens; match arms and block
\* expressions, whose loops have no such guard, can only go round in place
\* on a struct literal that they are given back.
Ends == <>(Ended \/ GivesBack)

\* How many blocks tokens 1..n leave open.
Depth(n) ==
    Cardinality({i \in 1..n : tokens[i] = "LBRACE"}) - Cardinality({i \in 1..n : tokens[i] = "RBRACE"})
Balanced(n) == Depth(n) = 0 /\ \A i \in 1..n : Depth(i) >= 0

\* A source that is accepted without an error has its braces balanced, but for
\* what bytecode and interface bodies swallow unread, and for tests, which are
\* accepted with one brace too many.
SilentMeansBalanced ==
    Ended /\ ~reported /\ {"BYTECODE", "INTERFACE", "TEST"} \cap ToSet(tokens) = {}
        => Balanced(Len(tokens))

=============================================================================
