--------------------------- MODULE FrontEndProofs ---------------------------
(***************************************************************************)
(* For every text: the lexer counts the lines between two tokens           *)
(* (LinesFollow), and it takes a character for code, string or comment     *)
(* when the lexical rules do (ScansAsWritten).  First what the operators   *)
(* of Lexer return, then what each turn of its loop does, in one of three  *)
(* ways, then the two invariants.  For every sequence of tokens: the loops *)
(* of parseTopLevel and parseBlock never begin two rounds at one token     *)
(* (GuardsHold).  First that every parse function is made of steps of the  *)
(* forms the parser knows, then what the call stack looks like, then what  *)
(* each action makes of it.                                                *)
(***************************************************************************)
EXTENDS FrontEnd, SharedLemmas, FiniteSetTheorems, TLAPS

----------------------------------------------------------------------------
(* Operators *)

\* Newlines are counted, and counted piece by piece.
LEMMA NewlinesNat ==
    ASSUME NEW i \in Int, NEW j \in Int
    PROVE  Newlines(i, j) \in Nat /\ IsFiniteSet({k \in i .. j - 1 : Char(k) = "nl"})
<1> DEFINE A == {k \in i .. j - 1 : Char(k) = "nl"}
<1>1. IsFiniteSet(i .. j - 1) /\ A \subseteq i .. j - 1
  BY FS_Interval
<1> HIDE DEF A
<1>2. IsFiniteSet(A)
  BY <1>1, FS_Subset
<1>3. QED
  BY <1>2, FS_CardinalityType DEF A, Newlines

LEMMA NewlinesAdd ==
    ASSUME NEW i \in Int, NEW j \in Int, NEW k \in Int, i <= j, j <= k
    PROVE  Newlines(i, k) = Newlines(i, j) + Newlines(j, k)
<1> DEFINE A == {n \in i .. j - 1 : Char(n) = "nl"}
           B == {n \in j .. k - 1 : Char(n) = "nl"}
           C == {n \in i .. k - 1 : Char(n) = "nl"}
<1>1. IsFiniteSet(A) /\ IsFiniteSet(B)
  BY NewlinesNat
<1>2. A \cap B = {} /\ A \cup B = C
  OBVIOUS
<1>3. Newlines(i, j) = Cardinality(A) /\ Newlines(j, k) = Cardinality(B) /\ Newlines(i, k) = Cardinality(C)
  BY DEF Newlines
<1>4. Newlines(i, j) \in Nat /\ Newlines(j, k) \in Nat
  BY NewlinesNat
<1> HIDE DEF A, B, C
<1>5. Cardinality(C) = Cardinality(A) + Cardinality(B) - Cardinality({})
  BY <1>1, <1>2, FS_Union
<1>6. Cardinality({}) = 0
  BY FS_EmptySet
<1>7. QED
  BY <1>3, <1>4, <1>5, <1>6

LEMMA NoNewlines ==
    ASSUME NEW i \in Int, NEW j \in Int, \A k \in i .. j - 1 : Char(k) # "nl"
    PROVE  Newlines(i, j) = 0
<1>1. {k \in i .. j - 1 : Char(k) = "nl"} = {}
  OBVIOUS
<1>2. QED
  BY <1>1, FS_EmptySet DEF Newlines

\* After finds the place it looks for, at the latest behind the text.
LEMMA AfterStops ==
    ASSUME text \in Seq(STRING), NEW cs, "end" \notin cs, NEW i \in Nat, i <= Len(text) + 1
    PROVE  /\ After(cs, i) \in i .. Len(text) + 1
           /\ Char(After(cs, i)) \notin cs
           /\ \A k \in i .. After(cs, i) - 1 : Char(k) \in cs
<1> DEFINE T == {j \in i .. Len(text) + 1 : Char(j) \notin cs}
<1>1. Len(text) \in Nat
  OBVIOUS
<1>2. Char(Len(text) + 1) = "end"
  BY <1>1 DEF Char
<1>3. T \subseteq Nat /\ Len(text) + 1 \in T
  BY <1>1, <1>2
<1> HIDE DEF T
<1>4. PICK j \in T : \A k \in T : j <= k
  BY <1>3, LeastElement
<1>5. j \in i .. Len(text) + 1 /\ Char(j) \notin cs
  BY <1>4 DEF T
<1>6. ASSUME NEW k \in i .. j - 1 PROVE Char(k) \in cs
  <2>1. k \in i .. Len(text) + 1 /\ ~(j <= k)
    BY <1>1, <1>5
  <2>2. k \notin T
    BY <1>4, <2>1
  <2>3. QED
    BY <2>1, <2>2 DEF T
<1>7. QED
  BY <1>5, <1>6 DEF After

\* Nor does the end of a block comment lie before its beginning.
LEMMA FirstClosing ==
    ASSUME text \in Seq(STRING), NEW i \in Nat, Closings(i) # {}
    PROVE  /\ First(Closings(i)) \in Nat
           /\ First(Closings(i)) \in i .. Len(text) - 1
           /\ Char(First(Closings(i))) = "*" /\ Char(First(Closings(i)) + 1) = "/"
           /\ \A j \in Closings(i) : First(Closings(i)) <= j
<1>1. Closings(i) \subseteq Nat
  BY DEF Closings
<1>2. PICK j \in Closings(i) : \A k \in Closings(i) : j <= k
  BY <1>1, LeastElement
<1>3. First(Closings(i)) \in Closings(i) /\ \A k \in Closings(i) : First(Closings(i)) <= k
  BY <1>2 DEF First
<1>4. QED
  BY <1>1, <1>3 DEF Closings

\* The contexts are the one function that Read makes of the text.
LEMMA ContextsRead ==
    ASSUME text \in Seq(STRING)
    PROVE  /\ Contexts[0] = "code"
           /\ \A i \in 1 .. Len(text) : Contexts[i] = Read(Contexts[i - 1], text[i])
<1> DEFINE N == Len(text)
           Is(g, n) == g = [i \in 0 .. n |-> g[i]] /\ g[0] = "code" /\ \A i \in 1 .. n : g[i] = Read(g[i - 1], text[i])
           S == {n \in Nat : \E g : Is(g, n)}
<1>1. N \in Nat
  OBVIOUS
<1>2. 0 \in S
  <2> DEFINE g == [i \in 0 .. 0 |-> "code"]
  <2>1. Is(g, 0)
    OBVIOUS
  <2> HIDE DEF Is, g
  <2>2. QED
    BY <2>1
<1>3. ASSUME NEW n \in 1 .. N, n - 1 \in S PROVE n \in S
  <2>1. PICK g : Is(g, n - 1)
    BY <1>3
  <2> DEFINE h == [i \in 0 .. n |-> IF i = n THEN Read(g[n - 1], text[n]) ELSE g[i]]
  <2>2. n \in Nat /\ n # 0 /\ 0 \in 0 .. n /\ n \in 0 .. n
    OBVIOUS
  <2>3. h[0] = "code"
    BY <2>1, <2>2
  <2>4. ASSUME NEW i \in 1 .. n PROVE h[i] = Read(h[i - 1], text[i])
    <3>1. i \in 0 .. n /\ i - 1 \in 0 .. n /\ i - 1 # n /\ h[i - 1] = g[i - 1]
      BY <2>2
    <3>2. CASE i = n
      BY <3>1, <3>2
    <3>3. CASE i # n
      <4>1. i \in 1 .. n - 1 /\ h[i] = g[i]
        BY <2>2, <3>1, <3>3
      <4>2. QED
        BY <2>1, <3>1, <4>1
    <3>4. QED
      BY <3>2, <3>3
  <2>5. h = [i \in 0 .. n |-> h[i]]
    OBVIOUS
  <2> HIDE DEF h
  <2>6. Is(h, n)
    BY <2>3, <2>4, <2>5
  <2> HIDE DEF Is
  <2>7. QED
    BY <2>2, <2>6
<1>4. 0 .. N \subseteq S
  <2> HIDE DEF S
  <2>1. \A k \in 0 + 1 .. N : k - 1 \in S => k \in S
    BY <1>3
  <2>2. QED
    BY <1>1, <1>2, <2>1, Along
<1>5. PICK g : Is(g, N)
  <2> HIDE DEF Is
  <2>1. N \in S
    BY <1>1, <1>4
  <2>2. QED
    BY <2>1
<1> DEFINE Body(f) == [i \in 0 .. N |-> IF i = 0 THEN "code" ELSE Read(f[i - 1], text[i])]
<1>6. g = Body(g)
  <2>1. \A i \in 0 .. N : g[i] = IF i = 0 THEN "code" ELSE Read(g[i - 1], text[i])
    BY <1>1, <1>5
  <2>2. g = [i \in 0 .. N |-> g[i]]
    BY <1>5
  <2>3. QED
    BY <2>1, <2>2
<1>7. Contexts = Body(Contexts)
  <2>1. Contexts = CHOOSE f : f = Body(f)
    BY DEF Contexts
  <2> HIDE DEF Body
  <2>2. QED
    BY <1>6, <2>1
<1> HIDE DEF N
<1>8. \A i \in 0 .. N : Contexts[i] = IF i = 0 THEN "code" ELSE Read(Contexts[i - 1], text[i])
  BY <1>7
<1>9. Contexts[0] = "code"
  BY <1>1, <1>8
<1>10. \A i \in 1 .. N : i \in 0 .. N /\ i # 0
  BY <1>1
<1>11. QED
  BY <1>8, <1>9, <1>10 DEF N

----------------------------------------------------------------------------
(* A turn of the loop *)

LexTyped ==
    /\ text \in Seq(STRING) /\ \A i \in DOMAIN text : text[i] # "end"
    /\ at \in Nat \ {0} /\ at <= Len(text) + 1 /\ line \in Int
    /\ opened \in Nat /\ opened <= at
    /\ \E S : lexemes \in Seq(S)
    /\ \A i \in DOMAIN lexemes :
          lexemes[i].from \in Nat /\ lexemes[i].to \in Nat /\ lexemes[i].line \in Int

\* Where what is being read begins.
Begin == IF opened = 0 THEN at ELSE opened

\* A turn of the loop passes over characters, makes a comment of them, or
\* makes a token of them; the newlines of a token are not counted.
Passes == lexemes' = lexemes /\ line' = line + Newlines(Begin, Begin')
Comments ==
    /\ lexemes' = Append(lexemes, [type |-> "COMMENT", from |-> Begin, to |-> Begin', line |-> line'])
    /\ line' = line + Newlines(Begin, Begin')
Scans ==
    /\ \E t : t # "COMMENT" /\ lexemes' =
          Append(lexemes, [type |-> t, from |-> Begin, to |-> Begin', line |-> line'])
    /\ line' = line
Turn ==
    /\ text' = text
    /\ at' \in Nat \ {0} /\ at' <= Len(text) + 1 /\ opened' \in Nat /\ opened' <= at'
    /\ Begin <= Begin'
    /\ Passes \/ Comments \/ Scans

\* The character under the cursor of an action that reads one is of the text.
LEMMA CharOfText ==
    ASSUME LexTyped, NEW i \in Nat \ {0}
    PROVE  /\ Len(text) \in Nat
           /\ i <= Len(text) => Char(i) = text[i] /\ Char(i) # "end"
           /\ i > Len(text) => Char(i) = "end"
<1>1. Len(text) \in Nat /\ DOMAIN text = 1..Len(text)
  BY LenProperties DEF LexTyped
<1>2. QED
  BY <1>1 DEF LexTyped, Char

\* A token without a newline leaves the count of the lines alone.
LEMMA LexemeScans ==
    ASSUME LexTyped, opened = 0, NEW t, t # "COMMENT", NEW to \in Nat, at <= to, to <= Len(text) + 1,
           \A k \in at .. to - 1 : Char(k) # "nl",
           Advance(to), Emit(t, at, to), text' = text, opened' = opened
    PROVE  Turn
<1>1. Newlines(at, to) = 0
  BY NoNewlines DEF LexTyped
<1>2. line' = line /\ at' = to
  BY <1>1 DEF LexTyped, Advance
<1>3. Begin = at /\ Begin' = to
  BY <1>2 DEF Begin
<1>4. Scans
  BY <1>2, <1>3 DEF Scans, Emit
<1>5. QED
  BY <1>2, <1>3, <1>4 DEF Turn, LexTyped

LEMMA SkipTurns == LexTyped /\ Skip => Turn
<1> SUFFICES ASSUME LexTyped, Skip PROVE Turn
  OBVIOUS
<1> DEFINE to == IF Char(at) = "~" THEN at + 1 ELSE After(Blanks, at)
<1>1. opened = 0 /\ at <= Len(text) /\ at \in Nat \ {0} /\ Len(text) \in Nat
  BY CharOfText DEF LexTyped, Skip, Code
<1>2. After(Blanks, at) \in at .. Len(text) + 1
  <2>1. "end" \notin Blanks /\ at \in Nat /\ at <= Len(text) + 1 /\ text \in Seq(STRING)
    BY <1>1 DEF Blanks, LexTyped
  <2>2. QED
    BY <2>1, AfterStops
<1>3. to \in Nat /\ at <= to /\ to <= Len(text) + 1
  BY <1>1, <1>2
<1>4. at' = to /\ line' = line + Newlines(at, to) /\ lexemes' = lexemes /\ text' = text /\ opened' = 0
  BY <1>1 DEF Skip, Advance
<1> HIDE DEF to
<1>5. Begin = at /\ Begin' = to
  BY <1>1, <1>4 DEF Begin
<1>6. QED
  BY <1>1, <1>3, <1>4, <1>5 DEF Turn, Passes

LEMMA LineCommentTurns == LexTyped /\ LineComment => Turn
<1> SUFFICES ASSUME LexTyped, LineComment PROVE Turn
  OBVIOUS
<1> DEFINE cs == {text[i] : i \in DOMAIN text} \ {"nl"}
           to == After(cs, at)
<1>1. opened = 0 /\ at <= Len(text) /\ at \in Nat \ {0} /\ Len(text) \in Nat
  BY CharOfText DEF LexTyped, LineComment, Code
<1>2. to \in at .. Len(text) + 1
  <2>1. "end" \notin cs /\ at \in Nat /\ at <= Len(text) + 1 /\ text \in Seq(STRING)
    BY <1>1 DEF LexTyped
  <2> HIDE DEF cs
  <2>2. QED
    BY <2>1, AfterStops
<1>3. to \in Nat /\ at <= to /\ to <= Len(text) + 1
  BY <1>1, <1>2
<1>4. Lexeme("COMMENT", to)
  BY DEF LineComment
<1> HIDE DEF to
<1>5. /\ at' = to /\ line' = line + Newlines(at, to) /\ text' = text /\ opened' = 0
      /\ lexemes' = Append(lexemes, [type |-> "COMMENT", from |-> at, to |-> to, line |-> line'])
  BY <1>1, <1>4 DEF Lexeme, Advance, Emit
<1>6. Begin = at /\ Begin' = to
  BY <1>1, <1>5 DEF Begin
<1>7. QED
  BY <1>1, <1>3, <1>5, <1>6 DEF Turn, Comments

LEMMA BlockCommentTurns == LexTyped /\ BlockComment => Turn
<1> SUFFICES ASSUME LexTyped, BlockComment PROVE Turn
  OBVIOUS
<1> DEFINE to == IF Closings(at + 2) # {} THEN First(Closings(at + 2)) + 2
                 ELSE IF at + 2 > Len(text) THEN at + 2 ELSE Len(text)
<1>1. opened = 0 /\ at <= Len(text) /\ at \in Nat \ {0} /\ Len(text) \in Nat
  BY CharOfText DEF LexTyped, BlockComment, Code
<1>2. Closings(at + 2) # {} => First(Closings(at + 2)) \in Nat /\ First(Closings(at + 2)) \in at + 2 .. Len(text) - 1
  <2>1. at + 2 \in Nat /\ text \in Seq(STRING)
    BY <1>1 DEF LexTyped
  <2>2. QED
    BY <2>1, FirstClosing
<1>3. at + 1 <= Len(text)
  <2>1. Char(at + 1) # "end" /\ at + 1 \in Nat \ {0}
    BY <1>1 DEF BlockComment
  <2>2. QED
    BY <1>1, <2>1, CharOfText
<1>4. to \in Nat /\ at <= to /\ to <= Len(text) + 1
  BY <1>1, <1>2, <1>3
<1>5. Advance(to) /\ Emit("COMMENT", at, to) /\ text' = text /\ opened' = opened
  BY DEF BlockComment
<1> HIDE DEF to
<1>6. /\ at' = to /\ line' = line + Newlines(at, to) /\ opened' = 0
      /\ lexemes' = Append(lexemes, [type |-> "COMMENT", from |-> at, to |-> to, line |-> line'])
  BY <1>1, <1>5 DEF Advance, Emit
<1>7. Begin = at /\ Begin' = to
  BY <1>1, <1>6 DEF Begin
<1>8. QED
  BY <1>1, <1>4, <1>5, <1>6, <1>7 DEF Turn, Comments

\* What a word is made of is nothing the lexer looks for elsewhere, and no keyword
\* has the type of a comment, of a brace or of the end.
LEMMA WordsApart ==
    /\ (Letters \cup Digits) \cap {"end", "nl", "/", "*", "quote", "'"} = {}
    /\ \A k \in Keywords : k[2] \notin {"COMMENT", "TOKEN_EOF", "LBRACE", "RBRACE"}
<1> DEFINE Signs == {"end", "nl", "/", "*", "quote", "'"}
<1>1. \A k \in Keywords : k[1] \notin Signs
  BY DEF Keywords
<1>2. ({"b", "f", "x"} \cup Spoken \cup Digits) \cap Signs = {}
  BY DEF Spoken, Digits
<1>3. \A k \in Keywords : k[2] \notin {"COMMENT", "TOKEN_EOF", "LBRACE", "RBRACE"}
  BY DEF Keywords
<1> HIDE DEF Signs
<1>4. (Letters \cup Digits) \cap Signs = {}
  BY <1>1, <1>2 DEF Letters
<1>5. QED
  BY <1>3, <1>4 DEF Signs

LEMMA IdentifierTurns == LexTyped /\ Identifier => Turn
<1> SUFFICES ASSUME LexTyped, Identifier PROVE Turn
  OBVIOUS
<1> DEFINE cs == Letters \cup Digits
           to == After(cs, at)
           IsWord(k) == k[1] = Char(at) /\ to = at + 1
           t == IF \E k \in Keywords : IsWord(k)
                THEN (CHOOSE k \in Keywords : IsWord(k))[2] ELSE "IDENT"
<1>1. opened = 0 /\ at <= Len(text) /\ at \in Nat \ {0} /\ Len(text) \in Nat
  BY CharOfText DEF LexTyped, Identifier, Code
<1>2. to \in at .. Len(text) + 1 /\ \A k \in at .. to - 1 : Char(k) \in cs
  <2>1. "end" \notin cs /\ at \in Nat /\ at <= Len(text) + 1 /\ text \in Seq(STRING)
    BY <1>1, WordsApart DEF LexTyped
  <2> HIDE DEF cs
  <2>2. QED
    BY <2>1, AfterStops
<1>3. to \in Nat /\ at <= to /\ to <= Len(text) + 1 /\ \A k \in at .. to - 1 : Char(k) # "nl"
  <2>1. "nl" \notin cs
    BY WordsApart
  <2> HIDE DEF cs
  <2>2. QED
    BY <1>1, <1>2, <2>1
<1>4. Lexeme(t, to)
  BY DEF Identifier
<1>5. t # "COMMENT"
  <2> HIDE DEF IsWord
  <2>1. \A k \in Keywords : k[2] # "COMMENT"
    BY WordsApart
  <2>2. QED
    BY <2>1
<1> HIDE DEF to, t
<1>6. QED
  BY <1>1, <1>3, <1>4, <1>5, LexemeScans DEF Lexeme

LEMMA PrefixedTurns == LexTyped /\ Prefixed => Turn
<1> SUFFICES ASSUME LexTyped, Prefixed PROVE Turn
  OBVIOUS
<1> DEFINE cs == IF Char(at + 1) = "x" THEN HexDigits ELSE Digits
           to == After(cs, at + 2)
<1>1. opened = 0 /\ at <= Len(text) /\ at \in Nat \ {0} /\ Len(text) \in Nat
  BY CharOfText DEF LexTyped, Prefixed, Code
<1>2. at + 1 <= Len(text)
  <2>1. Char(at + 1) # "end" /\ at + 1 \in Nat \ {0}
    BY <1>1 DEF Prefixed
  <2>2. QED
    BY <1>1, <2>1, CharOfText
<1>3. to \in at + 2 .. Len(text) + 1 /\ \A k \in at + 2 .. to - 1 : Char(k) \in cs
  <2>1. "end" \notin cs /\ at + 2 \in Nat /\ at + 2 <= Len(text) + 1 /\ text \in Seq(STRING)
    BY <1>1, <1>2 DEF HexDigits, Digits, LexTyped
  <2> HIDE DEF cs
  <2>2. QED
    BY <2>1, AfterStops
<1>4. to \in Nat /\ at <= to /\ to <= Len(text) + 1 /\ \A k \in at .. to - 1 : Char(k) # "nl"
  <2>1. "nl" \notin cs /\ Char(at) # "nl" /\ Char(at + 1) # "nl"
    BY DEF HexDigits, Digits, Prefixed
  <2> HIDE DEF cs
  <2>2. \A k \in at .. to - 1 : k = at \/ k = at + 1 \/ k \in at + 2 .. to - 1
    BY <1>1, <1>3
  <2>3. QED
    BY <1>1, <1>3, <2>1, <2>2
<1>5. \E t : t # "COMMENT" /\ Advance(to) /\ Emit(t, at, to) /\ text' = text /\ opened' = opened
  <2>1. (IF to = at + 2 THEN Unknown("prefix", to) ELSE Lexeme("INT_LITERAL", to))
    BY DEF Prefixed
  <2> HIDE DEF to
  <2>2. CASE to = at + 2
    BY <2>1, <2>2 DEF Unknown
  <2>3. CASE to # at + 2
    BY <2>1, <2>3 DEF Lexeme
  <2>4. QED
    BY <2>2, <2>3
<1> HIDE DEF to
<1>6. QED
  BY <1>1, <1>4, <1>5, LexemeScans

LEMMA NumberTurns == LexTyped /\ Number => Turn
<1> SUFFICES ASSUME LexTyped, Number PROVE Turn
  OBVIOUS
<1> DEFINE to == After(Digits, at)
           float == Char(to) = "." /\ Char(to + 1) \in Digits
           end == After(Digits \cup {"."}, at)
<1>1. opened = 0 /\ at <= Len(text) /\ at \in Nat \ {0} /\ Len(text) \in Nat
  BY CharOfText DEF LexTyped, Number, Code
<1>2. ASSUME NEW cs, "end" \notin cs, "nl" \notin cs
      PROVE  /\ After(cs, at) \in at .. Len(text) + 1 /\ After(cs, at) \in Nat
             /\ \A k \in at .. After(cs, at) - 1 : Char(k) # "nl"
  <2>1. at \in Nat /\ at <= Len(text) + 1 /\ text \in Seq(STRING)
    BY <1>1 DEF LexTyped
  <2>2. After(cs, at) \in at .. Len(text) + 1 /\ \A k \in at .. After(cs, at) - 1 : Char(k) \in cs
    BY <1>2, <2>1, AfterStops
  <2>3. QED
    BY <1>1, <1>2, <2>2
<1>3. /\ to \in Nat /\ at <= to /\ to <= Len(text) + 1 /\ \A k \in at .. to - 1 : Char(k) # "nl"
      /\ end \in Nat /\ at <= end /\ end <= Len(text) + 1 /\ \A k \in at .. end - 1 : Char(k) # "nl"
  <2>1. "end" \notin Digits /\ "nl" \notin Digits
    BY DEF Digits
  <2>2. "end" \notin Digits \cup {"."} /\ "nl" \notin Digits \cup {"."}
    BY DEF Digits
  <2>3. QED
    BY <1>2, <2>1, <2>2
<1>4. \/ Advance(end) /\ Emit("FLOAT_LITERAL", at, end) /\ text' = text /\ opened' = opened
      \/ Advance(to) /\ Emit("INT_LITERAL", at, to) /\ text' = text /\ opened' = opened
  <2>1. IF float THEN Lexeme("FLOAT_LITERAL", end)
        ELSE Advance(to) /\ Emit("INT_LITERAL", at, to) /\ text' = text /\ opened' = opened
    BY DEF Number
  <2> HIDE DEF float, to, end
  <2>2. QED
    BY <2>1 DEF Lexeme
<1> HIDE DEF to, end
<1>5. "FLOAT_LITERAL" # "COMMENT" /\ "INT_LITERAL" # "COMMENT"
  OBVIOUS
<1>6. QED
  BY <1>1, <1>3, <1>4, <1>5, LexemeScans

\* In a string nothing is counted and nothing begins.
LEMMA OpenTurns == LexTyped /\ Open => Turn
<1> SUFFICES ASSUME LexTyped, Open PROVE Turn
  OBVIOUS
<1>1. /\ opened = 0 /\ at \in Nat \ {0} /\ at <= Len(text) /\ Len(text) \in Nat /\ line \in Int
      /\ opened' = at /\ at' = at + 1 /\ line' = line /\ lexemes' = lexemes /\ text' = text
  BY DEF Open, Code, LexTyped
<1>2. Begin = at /\ Begin' = at
  BY <1>1 DEF Begin
<1>3. Newlines(at, at) = 0
  <2>1. \A k \in at .. at - 1 : Char(k) # "nl"
    BY <1>1
  <2>2. QED
    BY <1>1, <2>1, NoNewlines
<1>4. QED
  BY <1>1, <1>2, <1>3 DEF Turn, Passes

LEMMA StringCharTurns == LexTyped /\ StringChar => Turn
<1> SUFFICES ASSUME LexTyped, StringChar PROVE Turn
  OBVIOUS
<1>1. /\ opened # 0 /\ opened \in Nat /\ opened <= at /\ at \in Nat \ {0} /\ line \in Int
      /\ Len(text) \in Nat /\ at <= Len(text) /\ at' <= Len(text) + 1
      /\ opened' = opened /\ at' \in {at + 1, at + 2} /\ line' = line /\ lexemes' = lexemes /\ text' = text
  BY DEF StringChar, LexTyped
<1>2. Begin = opened /\ Begin' = opened
  BY <1>1 DEF Begin
<1>3. Newlines(opened, opened) = 0
  <2>1. \A k \in opened .. opened - 1 : Char(k) # "nl"
    BY <1>1
  <2>2. QED
    BY <1>1, <2>1, NoNewlines
<1>4. QED
  BY <1>1, <1>2, <1>3 DEF Turn, Passes

LEMMA CloseTurns == LexTyped /\ Close => Turn
<1> SUFFICES ASSUME LexTyped, Close PROVE Turn
  OBVIOUS
<1> DEFINE to == IF at > Len(text) THEN at ELSE at + 1
<1>1. /\ opened # 0 /\ opened \in Nat /\ opened <= at /\ at \in Nat \ {0}
      /\ Len(text) \in Nat /\ at <= Len(text) + 1 /\ opened' = 0 /\ at' = to /\ line' = line /\ text' = text
      /\ lexemes' = Append(lexemes, [type |-> "STRING_LITERAL", from |-> opened, to |-> to, line |-> line'])
  BY DEF Close, Emit, LexTyped
<1>2. to \in Nat \ {0} /\ opened <= to /\ to <= Len(text) + 1
  BY <1>1
<1> HIDE DEF to
<1>3. Begin = opened /\ Begin' = to
  BY <1>1 DEF Begin
<1>4. "STRING_LITERAL" # "COMMENT"
  OBVIOUS
<1>5. Scans
  BY <1>1, <1>3, <1>4 DEF Scans
<1>6. QED
  BY <1>1, <1>2, <1>3, <1>5 DEF Turn

LEMMA CharLiteralTurns == LexTyped /\ CharLiteral => Turn
<1> SUFFICES ASSUME LexTyped, CharLiteral PROVE Turn
  OBVIOUS
<1> DEFINE last == IF at + 1 > Len(text) THEN at
                   ELSE IF Char(at + 1) = "\\" /\ at + 1 < Len(text) THEN at + 2 ELSE at + 1
           to == IF last > at /\ Char(last + 1) = "'" THEN last + 2 ELSE last + 1
<1>1. /\ opened = 0 /\ at \in Nat \ {0} /\ at <= Len(text) /\ Len(text) \in Nat
      /\ opened' = opened /\ at' = to /\ line' = line /\ text' = text
      /\ lexemes' = Append(lexemes, [type |-> "CHAR_LITERAL", from |-> at, to |-> to, line |-> line'])
  BY DEF CharLiteral, Emit, LexTyped, Code
<1>2. to \in Nat \ {0} /\ at <= to /\ to <= Len(text) + 1
  <2>1. last \in Nat /\ at <= last /\ last <= Len(text)
    BY <1>1
  <2> HIDE DEF last
  <2>2. Char(last + 1) = "'" => last + 1 <= Len(text)
    <3>1. last + 1 \in Nat \ {0}
      BY <2>1
    <3>2. QED
      BY <2>1, <3>1, CharOfText
  <2>3. QED
    BY <1>1, <2>1, <2>2
<1> HIDE DEF to
<1>3. Begin = at /\ Begin' = to
  BY <1>1 DEF Begin
<1>4. "CHAR_LITERAL" # "COMMENT"
  OBVIOUS
<1>5. Scans
  BY <1>1, <1>3, <1>4 DEF Scans
<1>6. QED
  BY <1>1, <1>2, <1>3, <1>5 DEF Turn

LEMMA DoubleTurns == LexTyped /\ Double => Turn
<1> SUFFICES ASSUME LexTyped, Double PROVE Turn
  OBVIOUS
<1> DEFINE Both(d) == d[1] = Char(at) /\ d[2] = Char(at + 1)
<1>1. opened = 0 /\ at \in Nat \ {0} /\ Len(text) \in Nat
  BY CharOfText DEF LexTyped, Double, Code
<1>2. \A d \in Doubles : d[1] # "nl" /\ d[2] # "nl" /\ d[2] # "end" /\ d[3] # "COMMENT"
  BY DEF Doubles
<1>3. \E d \in Doubles : Both(d)
  BY DEF Double, IsDouble
<1>4. Lexeme((CHOOSE d \in Doubles : Both(d))[3], at + 2)
  BY DEF Double
<1>5. PICK d \in Doubles : Both(d) /\ d = CHOOSE e \in Doubles : Both(e)
  BY <1>3
<1>6. \A k \in at .. at + 2 - 1 : Char(k) # "nl"
  BY <1>1, <1>2, <1>5
<1>0. at + 1 <= Len(text)
  <2>1. Char(at + 1) # "end" /\ at + 1 \in Nat \ {0}
    BY <1>1, <1>2, <1>5
  <2>2. QED
    BY <1>1, <2>1, CharOfText
<1> HIDE DEF Both
<1>7. Lexeme(d[3], at + 2) /\ d[3] # "COMMENT"
  BY <1>2, <1>4, <1>5
<1>8. at + 2 \in Nat /\ at <= at + 2 /\ at + 2 <= Len(text) + 1
  BY <1>0, <1>1
<1>9. QED
  BY <1>1, <1>6, <1>7, <1>8, LexemeScans DEF Lexeme

\* No single character is a newline or opens anything.  What the provers cannot
\* write down as a string goes by a name.
LEMMA SinglesArePlain ==
    \A s \in Singles : s[1] \notin {"quote", "'", "nl"} /\ s[2] # "COMMENT"
<1> DEFINE comma == ","
           semicolon == ";"
           left == "{"
           right == "}"
           Apart == {<<comma, "COMMA">>, <<semicolon, "SEMICOLON">>, <<left, "LBRACE">>, <<right, "RBRACE">>}
           Others ==
               {<<"*", "STAR">>, <<"/", "SLASH">>, <<"%", "MOD">>, <<"=", "EQUAL">>, <<"<", "LT">>,
                <<">", "GT">>, <<"!", "NOT">>, <<"+", "PLUS">>, <<"-", "MINUS">>, <<"&", "AMPERSAND">>,
                <<":", "COLON">>, <<"?", "QUESTION">>, <<"|", "PIPE">>, <<".", "DOT">>,
                <<"[", "LBRACKET">>, <<"]", "RBRACKET">>, <<"(", "LPAREN">>, <<")", "RPAREN">>, <<"@", "AT">>}
<1>1. Singles \subseteq Others \cup Apart
  BY Zenon DEF Singles
<1>2. /\ comma # "nl" /\ semicolon # "nl" /\ left # "nl" /\ right # "nl"
      /\ comma # "quote" /\ semicolon # "quote" /\ left # "quote" /\ right # "quote"
      /\ comma # "'" /\ semicolon # "'" /\ left # "'" /\ right # "'"
  BY Zenon
<1> HIDE DEF comma, semicolon, left, right
<1>3. \A s \in Others : s[1] \notin {"quote", "'", "nl"} /\ s[2] # "COMMENT"
  OBVIOUS
<1>4. \A s \in Apart : s[1] \notin {"quote", "'", "nl"} /\ s[2] # "COMMENT"
  BY <1>2
<1> HIDE DEF Apart, Others
<1>5. QED
  BY <1>1, <1>3, <1>4

LEMMA SingleTurns == LexTyped /\ Single => Turn
<1> SUFFICES ASSUME LexTyped, Single PROVE Turn
  OBVIOUS
<1> DEFINE Is(s) == s[1] = Char(at)
<1>1. opened = 0 /\ at \in Nat \ {0} /\ at <= Len(text) /\ Len(text) \in Nat
  BY CharOfText DEF LexTyped, Single, Code
<1>2. \A s \in Singles : s[1] # "nl" /\ s[2] # "COMMENT"
  BY SinglesArePlain
<1>3. \E s \in Singles : Is(s)
  BY DEF Single, IsSingle
<1>4. Lexeme((CHOOSE s \in Singles : Is(s))[2], at + 1)
  BY DEF Single
<1>5. PICK s \in Singles : Is(s) /\ s = CHOOSE e \in Singles : Is(e)
  BY <1>3
<1>6. \A k \in at .. at + 1 - 1 : Char(k) # "nl"
  BY <1>1, <1>2, <1>5
<1> HIDE DEF Is
<1>7. Lexeme(s[2], at + 1) /\ s[2] # "COMMENT"
  BY <1>2, <1>4, <1>5
<1>8. at + 1 \in Nat /\ at <= at + 1 /\ at + 1 <= Len(text) + 1
  BY <1>1
<1>9. QED
  BY <1>1, <1>6, <1>7, <1>8, LexemeScans DEF Lexeme

LEMMA UnexpectedTurns == LexTyped /\ Unexpected => Turn
<1> SUFFICES ASSUME LexTyped, Unexpected PROVE Turn
  OBVIOUS
<1>1. opened = 0 /\ at \in Nat \ {0} /\ at <= Len(text) /\ Char(at) # "nl"
  BY DEF LexTyped, Unexpected, Code, Blanks
<1>2. \A k \in at .. at + 1 - 1 : Char(k) # "nl"
  BY <1>1
<1>3. at + 1 \in Nat /\ at <= at + 1 /\ at + 1 <= Len(text) + 1 /\ Len(text) \in Nat /\ "UNKNOWN" # "COMMENT"
  BY <1>1
<1>4. Advance(at + 1) /\ Emit("UNKNOWN", at, at + 1) /\ text' = text /\ opened' = opened
  BY DEF Unexpected, Unknown
<1>5. QED
  BY <1>1, <1>2, <1>3, <1>4, LexemeScans

\* Whatever the lexer does, it does in one of the three ways.
LEMMA LexTurns == LexTyped /\ LexNext => Turn
  BY SkipTurns, LineCommentTurns, BlockCommentTurns, IdentifierTurns, PrefixedTurns, NumberTurns,
     OpenTurns, StringCharTurns, CloseTurns, CharLiteralTurns, DoubleTurns, SingleTurns,
     UnexpectedTurns DEF LexNext

----------------------------------------------------------------------------
(* Lines *)

\* What has been read ends where the reading goes on.
InOrder ==
    \A i \in DOMAIN lexemes : lexemes[i].from <= lexemes[i].to /\ lexemes[i].to <= Begin

\* The lines counted since the last token, over comments and blanks.
Since ==
    \A i \in DOMAIN lexemes :
        /\ lexemes[i].type # "COMMENT"
        /\ \A k \in DOMAIN lexemes : i < k => lexemes[k].type = "COMMENT"
        => line - lexemes[i].line = Newlines(lexemes[i].to, Begin)

LineInv == LexTyped /\ InOrder /\ Since /\ LinesFollow

LEMMA NewlinesStay == text' = text => \A i, j : Newlines(i, j)' = Newlines(i, j)
  BY DEF Newlines, Char

\* A lexeme that is added comes last, the others stay what they are.
LEMMA AddedLast ==
    ASSUME \E S : lexemes \in Seq(S), NEW e, lexemes' = Append(lexemes, e)
    PROVE  /\ \E S : lexemes' \in Seq(S)
           /\ Len(lexemes) \in Nat /\ DOMAIN lexemes = 1 .. Len(lexemes)
           /\ DOMAIN lexemes' = 1 .. Len(lexemes) + 1
           /\ lexemes'[Len(lexemes) + 1] = e
           /\ \A i \in 1 .. Len(lexemes) : lexemes'[i] = lexemes[i]
<1>1. PICK S : lexemes \in Seq(S)
  OBVIOUS
<1>2. lexemes \in Seq(S \cup {e})
  <2>1. S \subseteq S \cup {e}
    OBVIOUS
  <2>2. QED
    BY <1>1, <2>1, SeqMonotonic
<1>3. /\ Append(lexemes, e) \in Seq(S \cup {e})
      /\ Len(Append(lexemes, e)) = Len(lexemes) + 1
      /\ \A i \in 1 .. Len(lexemes) : Append(lexemes, e)[i] = lexemes[i]
      /\ Append(lexemes, e)[Len(lexemes) + 1] = e
  BY <1>2, AppendProperties
<1>4. Len(lexemes) \in Nat /\ DOMAIN lexemes = 1 .. Len(lexemes)
  BY <1>1, LenProperties
<1>5. DOMAIN lexemes' = 1 .. Len(lexemes')
  BY <1>3, LenProperties
<1>6. QED
  BY <1>3, <1>4, <1>5

\* What a turn reads, as numbers, and what that means for the lines.
LEMMA TurnReads ==
    ASSUME LexTyped, Turn
    PROVE  \E b, c \in Nat :
              /\ b = Begin /\ c = Begin' /\ b <= c
              /\ Newlines(b, c) \in Nat /\ Newlines(c, c) = 0
              /\ \A a \in Nat : a <= b => Newlines(a, c) = Newlines(a, b) + Newlines(b, c)
<1>1. Begin \in Nat /\ Begin' \in Nat /\ Begin <= Begin'
  BY DEF LexTyped, Turn, Begin
<1>2. PICK b \in Nat, c \in Nat : b = Begin /\ c = Begin' /\ b <= c
  BY <1>1
<1>3. b \in Int /\ c \in Int /\ c .. c - 1 = {}
  OBVIOUS
<1>4. Newlines(b, c) \in Nat /\ Newlines(c, c) = 0
  BY <1>3, NewlinesNat, NoNewlines
<1>5. ASSUME NEW a \in Nat, a <= b PROVE Newlines(a, c) = Newlines(a, b) + Newlines(b, c)
  <2>1. a \in Int
    OBVIOUS
  <2>2. QED
    BY <1>2, <1>3, <1>5, <2>1, NewlinesAdd
<1>6. QED
  BY <1>2, <1>4, <1>5

LEMMA TypedTurn ==
    ASSUME LexTyped, InOrder, Turn
    PROVE  LexTyped' /\ InOrder'
<1>1. PICK b \in Nat, c \in Nat : b = Begin /\ c = Begin' /\ b <= c /\ Newlines(b, c) \in Nat
  BY TurnReads
<1>2. line' \in Int
  BY <1>1 DEF LexTyped, Turn, Passes, Comments, Scans
<1>3. /\ text' \in Seq(STRING) /\ \A i \in DOMAIN text' : text'[i] # "end"
      /\ at' \in Nat \ {0} /\ at' <= Len(text') + 1 /\ opened' \in Nat /\ opened' <= at'
  BY DEF LexTyped, Turn
<1>4. CASE lexemes' = lexemes
  BY <1>1, <1>2, <1>3, <1>4 DEF LexTyped, InOrder
<1>5. CASE lexemes' # lexemes
  <2>1. PICK t : lexemes' = Append(lexemes, [type |-> t, from |-> Begin, to |-> Begin', line |-> line'])
    BY <1>5 DEF Turn, Passes, Comments, Scans
  <2> DEFINE e == [type |-> t, from |-> Begin, to |-> Begin', line |-> line']
  <2>2. e.from = Begin /\ e.to = Begin' /\ e.line = line'
    OBVIOUS
  <2>3. lexemes' = Append(lexemes, e) /\ \E S : lexemes \in Seq(S)
    BY <2>1 DEF LexTyped
  <2> HIDE DEF e
  <2>4. /\ \E S : lexemes' \in Seq(S)
        /\ Len(lexemes) \in Nat /\ DOMAIN lexemes = 1 .. Len(lexemes)
        /\ DOMAIN lexemes' = 1 .. Len(lexemes) + 1
        /\ lexemes'[Len(lexemes) + 1] = e
        /\ \A i \in 1 .. Len(lexemes) : lexemes'[i] = lexemes[i]
    BY <2>3, AddedLast
  <2>5. ASSUME NEW i \in DOMAIN lexemes'
        PROVE  /\ lexemes'[i].from \in Nat /\ lexemes'[i].to \in Nat /\ lexemes'[i].line \in Int
               /\ lexemes'[i].from <= lexemes'[i].to /\ lexemes'[i].to <= Begin'
    <3>1. CASE i = Len(lexemes) + 1
      BY <1>1, <1>2, <2>2, <2>4, <3>1
    <3>2. CASE i \in 1 .. Len(lexemes)
      BY <1>1, <2>4, <3>2 DEF LexTyped, InOrder
    <3>3. QED
      BY <2>4, <3>1, <3>2
  <2>6. QED
    BY <1>2, <1>3, <2>4, <2>5 DEF LexTyped, InOrder
<1>6. QED
  BY <1>4, <1>5

LEMMA SinceTurn ==
    ASSUME LexTyped, InOrder, Since, Turn
    PROVE  Since'
<1>1. PICK b \in Nat, c \in Nat :
          /\ b = Begin /\ c = Begin'
          /\ Newlines(b, c) \in Nat /\ Newlines(c, c) = 0
          /\ \A a \in Nat : a <= b => Newlines(a, c) = Newlines(a, b) + Newlines(b, c)
  BY TurnReads
<1>2. \A i, j : Newlines(i, j)' = Newlines(i, j)
  BY NewlinesStay DEF Turn
<1>3. ASSUME NEW i \in DOMAIN lexemes, line - lexemes[i].line = Newlines(lexemes[i].to, Begin),
             line' = line + Newlines(Begin, Begin')
      PROVE  line' - lexemes[i].line = Newlines(lexemes[i].to, Begin')
  <2>1. lexemes[i].to \in Nat /\ lexemes[i].to <= b /\ lexemes[i].line \in Int /\ line \in Int
    BY <1>1 DEF LexTyped, InOrder
  <2>2. Newlines(lexemes[i].to, c) = Newlines(lexemes[i].to, b) + Newlines(b, c)
    BY <1>1, <2>1
  <2>3. /\ line - lexemes[i].line = Newlines(lexemes[i].to, b)
        /\ line' = line + Newlines(b, c)
    BY <1>1, <1>3
  <2>4. line' - lexemes[i].line = Newlines(lexemes[i].to, c)
    BY <1>1, <2>1, <2>2, <2>3
  <2>5. QED
    BY <1>1, <2>4
<1>4. CASE Passes
  BY <1>2, <1>3, <1>4 DEF Passes, Since
<1>5. ASSUME NEW t, lexemes' = Append(lexemes, [type |-> t, from |-> Begin, to |-> Begin', line |-> line']),
             IF t = "COMMENT" THEN line' = line + Newlines(Begin, Begin') ELSE line' = line
      PROVE  Since'
  <2> DEFINE e == [type |-> t, from |-> Begin, to |-> Begin', line |-> line']
             n == Len(lexemes)
  <2>1. e.type = t /\ e.to = Begin' /\ e.line = line'
    OBVIOUS
  <2>2. lexemes' = Append(lexemes, e) /\ \E S : lexemes \in Seq(S)
    BY <1>5 DEF LexTyped
  <2> HIDE DEF e
  <2>3. /\ n \in Nat /\ DOMAIN lexemes = 1 .. n
        /\ DOMAIN lexemes' = 1 .. n + 1
        /\ lexemes'[n + 1] = e
        /\ \A i \in 1 .. n : lexemes'[i] = lexemes[i]
    BY <2>2, AddedLast
  <2> HIDE DEF n
  <2> SUFFICES ASSUME NEW i \in DOMAIN lexemes', lexemes'[i].type # "COMMENT",
                      \A k \in DOMAIN lexemes' : i < k => lexemes'[k].type = "COMMENT"
               PROVE  line' - lexemes'[i].line = Newlines(lexemes'[i].to, Begin')
    BY <1>2 DEF Since
  <2>4. CASE i = n + 1
    <3>1. Newlines(Begin', Begin') = 0
      BY <1>1
    <3>2. line' \in Int
      BY <1>1, <1>5 DEF LexTyped
    <3>3. QED
      BY <2>1, <2>3, <2>4, <3>1, <3>2
  <2>5. CASE i \in 1 .. n
    <3>1. t = "COMMENT"
      <4>1. n + 1 \in DOMAIN lexemes' /\ i < n + 1
        BY <2>3, <2>5
      <4>2. QED
        BY <2>1, <2>3, <4>1
    <3>2. \A k \in DOMAIN lexemes : i < k => lexemes[k].type = "COMMENT"
      BY <2>3
    <3>3. line - lexemes[i].line = Newlines(lexemes[i].to, Begin)
      BY <2>3, <2>5, <3>2 DEF Since
    <3>4. QED
      BY <1>3, <1>5, <2>3, <2>5, <3>1, <3>3
  <2>6. QED
    BY <2>3, <2>4, <2>5
<1>6. CASE Comments
  BY <1>5, <1>6 DEF Comments
<1>7. CASE Scans
  BY <1>5, <1>7 DEF Scans
<1>8. QED
  BY <1>4, <1>6, <1>7 DEF Turn

LEMMA FollowTurn ==
    ASSUME LexTyped, InOrder, Since, LinesFollow, Turn
    PROVE  LinesFollow'
<1>1. \A i, j : Newlines(i, j)' = Newlines(i, j)
  BY NewlinesStay DEF Turn
<1>2. CASE lexemes' = lexemes
  BY <1>1, <1>2 DEF LinesFollow
<1>3. CASE lexemes' # lexemes
  <2>1. PICK t : /\ lexemes' = Append(lexemes, [type |-> t, from |-> Begin, to |-> Begin', line |-> line'])
                 /\ t # "COMMENT" => line' = line
    BY <1>3 DEF Turn, Passes, Comments, Scans
  <2> DEFINE e == [type |-> t, from |-> Begin, to |-> Begin', line |-> line']
             n == Len(lexemes)
  <2>2. e.type = t /\ e.from = Begin /\ e.line = line'
    OBVIOUS
  <2>3. lexemes' = Append(lexemes, e) /\ \E S : lexemes \in Seq(S)
    BY <2>1 DEF LexTyped
  <2> HIDE DEF e
  <2>4. /\ n \in Nat /\ DOMAIN lexemes = 1 .. n
        /\ DOMAIN lexemes' = 1 .. n + 1
        /\ lexemes'[n + 1] = e
        /\ \A i \in 1 .. n : lexemes'[i] = lexemes[i]
    BY <2>3, AddedLast
  <2> HIDE DEF n
  <2> SUFFICES ASSUME NEW i \in DOMAIN lexemes', NEW j \in DOMAIN lexemes', i < j,
                      \A k \in i .. j : lexemes'[k].type = "COMMENT" <=> k \in i + 1 .. j - 1
               PROVE  lexemes'[j].line - lexemes'[i].line = Newlines(lexemes'[i].to, lexemes'[j].from)
    BY <1>1 DEF LinesFollow
  <2>5. i \in 1 .. n /\ i \in Int /\ j \in Int
    BY <2>4
  <2>6. CASE j \in 1 .. n
    <3>1. \A k \in i .. j : lexemes[k].type = "COMMENT" <=> k \in i + 1 .. j - 1
      BY <2>4, <2>5, <2>6
    <3>2. QED
      BY <2>4, <2>5, <2>6, <3>1 DEF LinesFollow
  <2>7. CASE j = n + 1
    <3>1. lexemes[i].type # "COMMENT" /\ t # "COMMENT"
      <4>1. i \in i .. j /\ j \in i .. j /\ i \notin i + 1 .. j - 1 /\ j \notin i + 1 .. j - 1
        BY <2>5
      <4>2. QED
        BY <2>2, <2>4, <2>5, <2>7, <4>1
    <3>2. \A k \in DOMAIN lexemes : i < k => lexemes[k].type = "COMMENT"
      <4> SUFFICES ASSUME NEW k \in 1 .. n, i < k PROVE lexemes[k].type = "COMMENT"
        BY <2>4
      <4>1. k \in i .. j /\ k \in i + 1 .. j - 1
        BY <2>4, <2>5, <2>7
      <4>2. QED
        BY <2>4, <4>1
    <3>3. line - lexemes[i].line = Newlines(lexemes[i].to, Begin)
      BY <2>4, <2>5, <3>1, <3>2 DEF Since
    <3>4. QED
      BY <2>1, <2>2, <2>4, <2>5, <2>7, <3>1, <3>3
  <2>8. QED
    BY <2>4, <2>6, <2>7
<1>4. QED
  BY <1>2, <1>3

LEMMA LineInvInit == FrontInit => LineInv
<1> SUFFICES ASSUME FrontInit PROVE LineInv
  OBVIOUS
<1>1. /\ text \in Seq(STRING) /\ \A i \in DOMAIN text : text[i] # "end"
      /\ Len(text) \in Nat /\ at = 1 /\ line = 1 /\ opened = 0 /\ lexemes = <<>>
  <2>1. CASE LexInit
    BY <2>1, TextsAssumption DEF LexInit
  <2>2. CASE text = <<>> /\ at = 1 /\ line = 1 /\ opened = 0 /\ lexemes = <<>>
    BY <2>2, EmptySeq
  <2>3. QED
    BY <2>1, <2>2 DEF FrontInit
<1>2. DOMAIN lexemes = {} /\ lexemes \in Seq({})
  BY <1>1, EmptySeq
<1>3. QED
  BY <1>1, <1>2 DEF LineInv, LexTyped, InOrder, Since, LinesFollow

LEMMA LineInvNext == LineInv /\ [FrontNext]_frontVars => LineInv'
<1> SUFFICES ASSUME LineInv, [FrontNext]_frontVars PROVE LineInv'
  OBVIOUS
<1>1. CASE Lexing
  <2>1. Turn
    BY <1>1, LexTurns DEF Lexing, LineInv
  <2>2. QED
    BY <2>1, TypedTurn, SinceTurn, FollowTurn DEF LineInv
<1>2. CASE UNCHANGED lexVars
  <2>1. UNCHANGED <<text, at, line, opened, lexemes>>
    BY <1>2 DEF lexVars
  <2>2. \A i, j : Newlines(i, j)' = Newlines(i, j)
    BY <2>1, NewlinesStay
  <2>3. QED
    BY <2>1, <2>2 DEF LineInv, LexTyped, InOrder, Since, LinesFollow, Begin
<1>3. CASE HandOver \/ Parsing \/ UNCHANGED frontVars
  BY <1>2, <1>3 DEF HandOver, Parsing, frontVars
<1>4. QED
  BY <1>1, <1>3 DEF FrontNext

\* Tokens that follow one another, comments aside, differ in their lines by the
\* newlines between them: for every text, whatever its strings and characters hold.
THEOREM LinesAreCounted == FrontSpec => []LinesFollow
<1>1. LineInv => LinesFollow
  BY DEF LineInv
<1>2. QED
  BY LineInvInit, LineInvNext, <1>1, PTL DEF FrontSpec

----------------------------------------------------------------------------
(* Contexts *)

InCode(i) == Contexts[i] \in {"code", "slash"}

\* No brace that stands in code is passed over from a up to b.
Curly == {"{", "}"}
Braceless(a, b) == \A k \in a .. b - 1 : InCode(k - 1) => Char(k) \notin Curly

\* Braces are none of the characters that the lexer looks for elsewhere.
LEMMA CurlyApart ==
    /\ Curly \cap {"/", "*", "quote", "'", "nl", "end", "~", "."} = {}
    /\ Curly \cap (Letters \cup Digits \cup Blanks \cup HexDigits) = {}
    /\ \A d \in Doubles : d[1] \notin Curly /\ d[2] \notin Curly
<1>1. Curly \cap {"/", "*", "quote", "'", "nl", "end", "~", "."} = {}
  BY Zenon DEF Curly
<1>2. Curly \cap (Letters \cup Digits \cup Blanks \cup HexDigits) = {}
  <2> DEFINE Early ==
               {"fn", "let", "mut", "const", "if", "else", "for", "while", "return",
                "break", "continue", "match", "struct", "enum", "impl", "interface",
                "import", "pub", "as", "in", "elif", "module", "export", "load", "try",
                "catch", "throw", "except", "finally", "bytecode", "vm", "op", "test",
                "assert", "expect", "requires", "ensures", "invariant", "hot", "reload"}
             Late ==
               {"coroutine", "yield", "await", "length", "time", "mass", "force", "and",
                "or", "not", "true", "false", "none", "int", "int8", "int16", "int32",
                "int64", "uint", "uint8", "uint16", "uint32", "uint64", "float32",
                "float64", "bool", "char", "string", "byte", "void", "option", "result",
                "print", "output", "say", "input"}
  <2>4. \A k \in Keywords : k[1] \in Early \cup Late
    BY DEF Keywords
  <2>5. (\A c \in Curly : c \notin Early) /\ \A c \in Curly : c \notin Late
    BY Zenon DEF Curly
  <2> HIDE DEF Early, Late
  <2>1. \A k \in Keywords : k[1] \notin Curly
    BY <2>4, <2>5
  <2>2. Curly \cap ({"b", "f", "x"} \cup Spoken \cup Digits \cup Blanks \cup HexDigits) = {}
    BY Zenon DEF Curly, Spoken, Digits, Blanks, HexDigits
  <2>3. QED
    BY <2>1, <2>2 DEF Letters
<1> DEFINE Signs == {"+", "-", "*", "/", "=", "!", "<", ">", "&", "|", "."}
<1>3. Curly \cap Signs = {}
  BY Zenon DEF Curly
<1>4. \A d \in Doubles : d[1] \in Signs /\ d[2] \in Signs
  BY DEF Doubles
<1> HIDE DEF Signs
<1>5. QED
  BY <1>1, <1>2, <1>3, <1>4

\* Where a blank, a comment or a token may begin: in code, and not in the middle
\* of the two characters that begin a comment.
MayBegin(a) ==
    \/ Contexts[a - 1] = "code"
    \/ Contexts[a - 1] = "slash" /\ Char(a) \notin {"/", "*"}
    \/ Contexts[a - 1] = "line" /\ Char(a) \in {"nl", "end"}

\* The lexer, at a with a string opened at o, is where the context says it is.
ReadsOn(a, o) ==
    IF o = 0 THEN MayBegin(a)
    ELSE InCode(o - 1) /\ (Contexts[a - 1] = "string" \/ a > Len(text))

\* Nothing reported, and no comment open that ought to be.
Quiet == complaints = {} /\ Contexts[Len(text)] \notin {"block", "star"}

\* What reading one character makes of the context.
LEMMA ReadOne ==
    ASSUME LexTyped, NEW k \in Nat \ {0}, k <= Len(text)
    PROVE  /\ Contexts[k] = Read(Contexts[k - 1], Char(k))
           /\ k - 1 \in Nat /\ Char(k) # "end"
<1>1. k \in 1 .. Len(text)
  BY LenProperties DEF LexTyped
<1>2. Char(k) = text[k] /\ Char(k) # "end"
  BY CharOfText
<1>3. text \in Seq(STRING)
  BY DEF LexTyped
<1>4. QED
  BY <1>1, <1>2, <1>3, ContextsRead

LEMMA ReadPlain ==
    ASSUME NEW c, c \notin {"/", "quote", "'"}
    PROVE  /\ Read("code", c) = "code"
           /\ c # "*" => Read("slash", c) = "code"
           /\ Read("line", "nl") = "code" /\ (c # "nl" => Read("line", c) = "line")
  BY DEF Read

LEMMA ReadSpecial ==
    ASSUME NEW c
    PROVE  /\ c = "/" => Read("code", c) = "slash" /\ Read("slash", c) = "line"
           /\ c = "*" => Read("slash", c) = "block"
           /\ c = "quote" => Read("code", c) = "string" /\ Read("slash", c) = "string"
           /\ c = "'" => Read("code", c) = "char" /\ Read("slash", c) = "char"
<1>1. c = "/" => Read("code", c) = "slash" /\ Read("slash", c) = "line"
  BY DEF Read
<1>2. c = "*" => Read("slash", c) = "block"
  BY DEF Read
<1>3. c = "quote" => Read("code", c) = "string" /\ Read("slash", c) = "string"
  BY DEF Read
<1>4. c = "'" => Read("code", c) = "char" /\ Read("slash", c) = "char"
  BY DEF Read
<1>5. QED
  BY <1>1, <1>2, <1>3, <1>4

LEMMA ReadString ==
    ASSUME NEW c
    PROVE  /\ c \notin {"quote", "\\"} => Read("string", c) = "string"
           /\ Read("string", "quote") = "code" /\ Read("string", "\\") = "escape"
           /\ Read("escape", c) = "string"
           /\ Read("char", c) = (IF c = "\\" THEN "escaped" ELSE "closing")
           /\ Read("escaped", c) = "closing" /\ Read("closing", c) = "code"
  BY DEF Read

LEMMA ReadBlock ==
    ASSUME NEW c
    PROVE  /\ Read("block", c) = (IF c = "*" THEN "star" ELSE "block")
           /\ Read("star", c) = (IF c = "*" THEN "star" ELSE IF c = "/" THEN "code" ELSE "block")
  BY DEF Read

\* Characters that mean nothing to the context leave it in code.
LEMMA PlainRun ==
    ASSUME LexTyped, NEW a \in Nat \ {0}, NEW b \in Nat, a < b, b <= Len(text) + 1, MayBegin(a),
           \A k \in a .. b - 1 : Char(k) \notin {"/", "quote", "'"}
    PROVE  MayBegin(b) /\ (Char(a) # "nl" => InCode(a - 1))
<1> DEFINE S == {k \in Nat : Contexts[k] = "code"}
<1>1. Len(text) \in Nat
  BY LenProperties DEF LexTyped
<1>2. a \in a .. b - 1 /\ a <= Len(text) /\ b - 1 \in Nat /\ b - 1 \in a .. b - 1
  BY <1>1
<1>3. a \in S /\ (Char(a) # "nl" => InCode(a - 1))
  <2>1. Contexts[a] = Read(Contexts[a - 1], Char(a)) /\ Char(a) # "end"
    BY <1>2, ReadOne
  <2>2. Char(a) \notin {"/", "quote", "'"}
    BY <1>2
  <2>3. QED
    BY <2>1, <2>2, ReadPlain DEF MayBegin, InCode
<1>4. ASSUME NEW k \in a + 1 .. b - 1, k - 1 \in S PROVE k \in S
  <2>1. k \in Nat \ {0} /\ k <= Len(text) /\ k \in a .. b - 1
    BY <1>1
  <2>2. Contexts[k] = Read(Contexts[k - 1], Char(k))
    BY <2>1, ReadOne
  <2>3. Char(k) \notin {"/", "quote", "'"}
    BY <2>1
  <2>4. QED
    BY <1>4, <2>1, <2>2, <2>3, ReadPlain
<1> HIDE DEF S
<1>5. a .. b - 1 \subseteq S
  BY <1>2, <1>3, <1>4, Along
<1>6. Contexts[b - 1] = "code"
  BY <1>2, <1>5 DEF S
<1>7. QED
  BY <1>3, <1>6 DEF MayBegin

\* The position of an action that reads code.
LEMMA CodeAt ==
    ASSUME LexTyped, Code
    PROVE  /\ opened = 0 /\ at \in Nat \ {0} /\ at <= Len(text) /\ Len(text) \in Nat
           /\ text \in Seq(STRING) /\ Char(at) # "end"
           /\ Contexts[at] = Read(Contexts[at - 1], Char(at))
           /\ Begin = at
<1>1. opened = 0 /\ at \in Nat \ {0} /\ at <= Len(text)
  BY DEF LexTyped, Code
<1>2. QED
  BY <1>1, CharOfText, ReadOne DEF LexTyped, Begin

\* What becomes one of the plain tokens is plain text.
LEMMA PlainScan ==
    ASSUME LexTyped, Code, MayBegin(at), NEW to \in Nat, at < to, to <= Len(text) + 1,
           \A k \in at .. to - 1 : Char(k) \notin {"/", "quote", "'"},
           at' = to, opened' = opened
    PROVE  ReadsOn(at', opened') /\ (Char(at) # "nl" => InCode(Begin - 1))
<1>1. opened = 0 /\ at \in Nat \ {0} /\ Begin = at
  BY CodeAt
<1>2. MayBegin(to) /\ (Char(at) # "nl" => InCode(at - 1))
  BY <1>1, PlainRun
<1>3. QED
  BY <1>1, <1>2 DEF ReadsOn

\* A run that After measures is not empty if it has a beginning.
LEMMA AfterRun ==
    ASSUME text \in Seq(STRING), NEW cs, "end" \notin cs, NEW i \in Nat, i <= Len(text), Char(i) \in cs
    PROVE  /\ After(cs, i) \in Nat /\ i < After(cs, i) /\ After(cs, i) <= Len(text) + 1
           /\ Char(After(cs, i)) \notin cs
           /\ \A k \in i .. After(cs, i) - 1 : Char(k) \in cs
<1>1. Len(text) \in Nat /\ i <= Len(text) + 1
  OBVIOUS
<1>2. /\ After(cs, i) \in i .. Len(text) + 1 /\ Char(After(cs, i)) \notin cs
      /\ \A k \in i .. After(cs, i) - 1 : Char(k) \in cs
  BY <1>1, AfterStops
<1>3. After(cs, i) # i
  BY <1>2
<1> HIDE DEF After
<1>4. QED
  BY <1>1, <1>2, <1>3

LEMMA SkipReads == LexTyped /\ ReadsOn(at, opened) /\ Skip => ReadsOn(at', opened') /\ Braceless(at, at')
<1> SUFFICES ASSUME LexTyped, ReadsOn(at, opened), Skip PROVE ReadsOn(at', opened') /\ Braceless(at, at')
  OBVIOUS
<1> DEFINE to == IF Char(at) = "~" THEN at + 1 ELSE After(Blanks, at)
<1>1. Code /\ at' = to /\ opened' = opened /\ Char(at) \in Blanks \cup {"~"}
  BY DEF Skip, Advance
<1>2. /\ opened = 0 /\ at \in Nat \ {0} /\ at <= Len(text) /\ Len(text) \in Nat
      /\ text \in Seq(STRING)
  BY <1>1, CodeAt
<1>3. to \in Nat /\ at < to /\ to <= Len(text) + 1 /\ \A k \in at .. to - 1 : Char(k) \in Blanks \cup {"~"}
  <2>1. CASE Char(at) = "~"
    BY <1>2, <2>1
  <2>2. CASE Char(at) # "~"
    <3>1. Char(at) \in Blanks /\ "end" \notin Blanks /\ at \in Nat
      BY <1>1, <1>2, <2>2 DEF Blanks
    <3>2. /\ After(Blanks, at) \in Nat /\ at < After(Blanks, at) /\ After(Blanks, at) <= Len(text) + 1
          /\ \A k \in at .. After(Blanks, at) - 1 : Char(k) \in Blanks
      BY <1>2, <3>1, AfterRun
    <3>3. QED
      BY <2>2, <3>2
  <2>3. QED
    BY <2>1, <2>2
<1> HIDE DEF to
<1>4. \A k \in at .. to - 1 : Char(k) \notin {"/", "quote", "'"}
  BY <1>3 DEF Blanks
<1>5. MayBegin(at)
  BY <1>2 DEF ReadsOn
<1>6. Braceless(at, at')
  BY <1>1, <1>3, CurlyApart DEF Braceless
<1>7. QED
  BY <1>1, <1>3, <1>4, <1>5, <1>6, PlainScan

LEMMA IdentifierReads ==
    LexTyped /\ ReadsOn(at, opened) /\ Identifier => ReadsOn(at', opened') /\ InCode(Begin - 1) /\ Braceless(at, at')
<1> SUFFICES ASSUME LexTyped, ReadsOn(at, opened), Identifier
             PROVE  ReadsOn(at', opened') /\ InCode(Begin - 1) /\ Braceless(at, at')
  OBVIOUS
<1> DEFINE cs == Letters \cup Digits
           to == After(cs, at)
<1>1. Code /\ at' = to /\ opened' = opened /\ Char(at) \in cs
  BY DEF Identifier, Lexeme, Advance
<1>2. /\ opened = 0 /\ at \in Nat \ {0} /\ at <= Len(text) /\ Len(text) \in Nat
      /\ text \in Seq(STRING)
  BY <1>1, CodeAt
<1>3. "end" \notin cs /\ "nl" \notin cs /\ cs \cap {"/", "quote", "'"} = {}
  BY WordsApart
<1>8. cs \cap Curly = {}
  BY CurlyApart
<1> HIDE DEF cs
<1>4. to \in Nat /\ at < to /\ to <= Len(text) + 1 /\ \A k \in at .. to - 1 : Char(k) \in cs
  BY <1>1, <1>2, <1>3, AfterRun
<1> HIDE DEF to
<1>5. Char(at) # "nl" /\ \A k \in at .. to - 1 : Char(k) \notin {"/", "quote", "'"}
  BY <1>1, <1>3, <1>4
<1>6. MayBegin(at)
  BY <1>2 DEF ReadsOn
<1>7. Braceless(at, at')
  BY <1>1, <1>4, <1>8 DEF Braceless
<1>9. QED
  BY <1>1, <1>4, <1>5, <1>6, <1>7, PlainScan

LEMMA PrefixedReads ==
    LexTyped /\ ReadsOn(at, opened) /\ Prefixed => ReadsOn(at', opened') /\ InCode(Begin - 1) /\ Braceless(at, at')
<1> SUFFICES ASSUME LexTyped, ReadsOn(at, opened), Prefixed
             PROVE  ReadsOn(at', opened') /\ InCode(Begin - 1) /\ Braceless(at, at')
  OBVIOUS
<1> DEFINE cs == IF Char(at + 1) = "x" THEN HexDigits ELSE Digits
           to == After(cs, at + 2)
<1>1. Code /\ at' = to /\ opened' = opened
  BY DEF Prefixed, Lexeme, Unknown, Advance
<1>2. /\ opened = 0 /\ at \in Nat \ {0} /\ at <= Len(text) /\ Len(text) \in Nat
      /\ text \in Seq(STRING)
  BY <1>1, CodeAt
<1>3. Char(at) = "0" /\ Char(at + 1) \in {"x", "b"}
  BY DEF Prefixed
<1>4. at + 1 <= Len(text)
  <2>1. Char(at + 1) # "end" /\ at + 1 \in Nat \ {0}
    BY <1>2, <1>3
  <2>2. QED
    BY <1>2, <2>1, CharOfText
<1>5. "end" \notin cs /\ cs \cap {"/", "quote", "'"} = {}
  BY DEF HexDigits, Digits
<1>10. cs \cap Curly = {}
  BY CurlyApart
<1> HIDE DEF cs
<1>6. to \in at + 2 .. Len(text) + 1 /\ \A k \in at + 2 .. to - 1 : Char(k) \in cs
  <2>1. at + 2 \in Nat /\ at + 2 <= Len(text) + 1
    BY <1>2, <1>4
  <2>2. QED
    BY <1>2, <1>5, <2>1, AfterStops
<1> HIDE DEF to
<1>7. \A k \in at .. to - 1 : Char(k) \notin {"/", "quote", "'"}
  <2>1. \A k \in at .. to - 1 : k = at \/ k = at + 1 \/ k \in at + 2 .. to - 1
    BY <1>2, <1>6
  <2>2. QED
    BY <1>3, <1>5, <1>6, <2>1
<1>8. MayBegin(at) /\ Char(at) # "nl" /\ to \in Nat /\ at < to /\ to <= Len(text) + 1
  BY <1>2, <1>3, <1>6 DEF ReadsOn
<1>9. Braceless(at, at')
  <2>1. \A k \in at .. to - 1 : k = at \/ k = at + 1 \/ k \in at + 2 .. to - 1
    BY <1>2, <1>6
  <2>2. Char(at) \notin Curly /\ Char(at + 1) \notin Curly
    BY <1>3, CurlyApart DEF Letters, Digits
  <2>3. QED
    BY <1>1, <1>6, <1>10, <2>1, <2>2 DEF Braceless
<1>11. QED
  BY <1>1, <1>7, <1>8, <1>9, PlainScan

LEMMA NumberReads ==
    LexTyped /\ ReadsOn(at, opened) /\ Number => ReadsOn(at', opened') /\ InCode(Begin - 1) /\ Braceless(at, at')
<1> SUFFICES ASSUME LexTyped, ReadsOn(at, opened), Number
             PROVE  ReadsOn(at', opened') /\ InCode(Begin - 1) /\ Braceless(at, at')
  OBVIOUS
<1>1. /\ Code /\ opened' = opened /\ Char(at) \in Digits
      /\ \E cs \in {Digits, Digits \cup {"."}} : at' = After(cs, at)
  BY DEF Number, Lexeme, Advance
<1>2. /\ opened = 0 /\ at \in Nat \ {0} /\ at <= Len(text) /\ Len(text) \in Nat
      /\ text \in Seq(STRING)
  BY <1>1, CodeAt
<1>3. PICK cs \in {Digits, Digits \cup {"."}} : at' = After(cs, at)
  BY <1>1
<1>4. Char(at) \in cs /\ "end" \notin cs /\ "nl" \notin cs /\ cs \cap {"/", "quote", "'"} = {}
  BY <1>1 DEF Digits
<1>10. cs \cap Curly = {}
  BY CurlyApart
<1> DEFINE to == After(cs, at)
<1>5. to \in Nat /\ at < to /\ to <= Len(text) + 1 /\ \A k \in at .. to - 1 : Char(k) \in cs
  BY <1>2, <1>4, AfterRun
<1>6. at' = to
  BY <1>3
<1> HIDE DEF to
<1>7. Char(at) # "nl" /\ \A k \in at .. to - 1 : Char(k) \notin {"/", "quote", "'"}
  BY <1>4, <1>5
<1>8. MayBegin(at)
  BY <1>2 DEF ReadsOn
<1>9. Braceless(at, at')
  BY <1>5, <1>6, <1>10 DEF Braceless
<1>11. QED
  BY <1>1, <1>5, <1>6, <1>7, <1>8, <1>9, PlainScan

\* A character that stands for itself: a slash, or one that means nothing.
LEMMA DoubleReads ==
    LexTyped /\ ReadsOn(at, opened) /\ Double => ReadsOn(at', opened') /\ InCode(Begin - 1) /\ Braceless(at, at')
<1> SUFFICES ASSUME LexTyped, ReadsOn(at, opened), Double
             PROVE  ReadsOn(at', opened') /\ InCode(Begin - 1) /\ Braceless(at, at')
  OBVIOUS
<1>1. Code /\ at' = at + 2 /\ opened' = opened
  BY DEF Double, Lexeme, Advance
<1>2. /\ opened = 0 /\ at \in Nat \ {0} /\ at <= Len(text) /\ Len(text) \in Nat /\ Begin = at
      /\ Contexts[at] = Read(Contexts[at - 1], Char(at))
  BY <1>1, CodeAt
<1>3. /\ Char(at) \notin {"quote", "'", "nl", "end"}
      /\ Char(at + 1) \notin {"/", "*", "quote", "'", "end"}
  <2>1. \A d \in Doubles : /\ d[1] \notin {"quote", "'", "nl", "end"}
                           /\ d[2] \notin {"/", "*", "quote", "'", "end"}
    BY DEF Doubles
  <2>2. QED
    BY <2>1 DEF Double, IsDouble
<1>4. at + 1 <= Len(text) /\ at + 1 \in Nat \ {0}
  BY <1>2, <1>3, CharOfText
<1>5. Contexts[at + 1] = Read(Contexts[at], Char(at + 1))
  BY <1>2, <1>4, ReadOne
<1>6. MayBegin(at)
  BY <1>2 DEF ReadsOn
<1>7. InCode(at - 1) /\ Contexts[at] \in {"code", "slash"}
  BY <1>2, <1>3, <1>6, ReadPlain, ReadSpecial DEF MayBegin, InCode
<1>8. Contexts[at + 1] = "code"
  BY <1>3, <1>5, <1>7, ReadPlain
<1>9. Contexts[(at + 2) - 1] = "code"
  BY <1>2, <1>8
<1>10. Braceless(at, at')
  <2>1. Char(at) \notin Curly /\ Char(at + 1) \notin Curly
    BY CurlyApart DEF Double, IsDouble
  <2>2. \A k \in at .. at' - 1 : k = at \/ k = at + 1
    BY <1>1, <1>2
  <2>3. QED
    BY <2>1, <2>2 DEF Braceless
<1>11. QED
  BY <1>1, <1>2, <1>7, <1>9, <1>10 DEF ReadsOn, MayBegin

\* One character that is not the first of a comment.
LEMMA OneReads ==
    ASSUME LexTyped, Code, MayBegin(at), Char(at) \notin {"quote", "'", "nl"},
           Char(at) = "/" => Char(at + 1) \notin {"/", "*"},
           at' = at + 1, opened' = opened
    PROVE  ReadsOn(at', opened') /\ InCode(Begin - 1)
<1>1. /\ opened = 0 /\ at \in Nat \ {0} /\ at <= Len(text) /\ Begin = at /\ Char(at) # "end"
      /\ Contexts[at] = Read(Contexts[at - 1], Char(at))
  BY CodeAt
<1>2. InCode(at - 1)
  BY <1>1 DEF MayBegin, InCode
<1>3. \/ Contexts[at] = "code"
      \/ Contexts[at] = "slash" /\ Char(at) = "/"
  BY <1>1, ReadPlain, ReadSpecial DEF MayBegin
<1>4. (at + 1) - 1 = at
  BY <1>1
<1>5. MayBegin(at + 1)
  BY <1>3, <1>4 DEF MayBegin
<1>6. QED
  BY <1>1, <1>2, <1>5 DEF ReadsOn

LEMMA SingleReads ==
    LexTyped /\ ReadsOn(at, opened) /\ Single => ReadsOn(at', opened') /\ InCode(Begin - 1)
<1> SUFFICES ASSUME LexTyped, ReadsOn(at, opened), Single
             PROVE  ReadsOn(at', opened') /\ InCode(Begin - 1)
  OBVIOUS
<1>1. /\ Code /\ at' = at + 1 /\ opened' = opened /\ opened = 0
      /\ Char(at) = "/" => Char(at + 1) \notin {"/", "*"}
  BY DEF Single, Lexeme, Advance, BeginsComment, Code
<1>2. Char(at) \notin {"quote", "'", "nl"}
  BY SinglesArePlain DEF Single, IsSingle
<1>3. MayBegin(at)
  BY <1>1 DEF ReadsOn
<1>4. QED
  BY <1>1, <1>2, <1>3, OneReads

LEMMA UnexpectedReads ==
    LexTyped /\ ReadsOn(at, opened) /\ Unexpected => ReadsOn(at', opened') /\ InCode(Begin - 1) /\ Braceless(at, at')
<1> SUFFICES ASSUME LexTyped, ReadsOn(at, opened), Unexpected
             PROVE  ReadsOn(at', opened') /\ InCode(Begin - 1) /\ Braceless(at, at')
  OBVIOUS
<1>1. /\ Code /\ at' = at + 1 /\ opened' = opened /\ opened = 0
      /\ Char(at) \notin {"quote", "'", "nl"}
  BY DEF Unexpected, Unknown, Advance, Code, Blanks
<1>2. Char(at) # "/"
  <2>1. <<"/", "SLASH">> \in Singles /\ <<"/", "SLASH">>[1] = "/"
    BY Zenon DEF Singles
  <2>2. QED
    BY <2>1 DEF Unexpected, IsSingle
<1>3. MayBegin(at)
  BY <1>1 DEF ReadsOn
<1>4. Char(at) \notin Curly
  <2>1. <<"{", "LBRACE">> \in Singles /\ <<"}", "RBRACE">> \in Singles
    BY Zenon DEF Singles
  <2>2. \A c \in Curly : IsSingle(c)
    BY <2>1, Zenon DEF IsSingle, Curly
  <2>3. QED
    BY <2>2 DEF Unexpected
<1>5. Braceless(at, at')
  <2>1. \A k \in at .. at' - 1 : k = at
    BY <1>1 DEF LexTyped
  <2>2. QED
    BY <1>4, <2>1 DEF Braceless
<1>6. QED
  BY <1>1, <1>2, <1>3, <1>5, OneReads

LEMMA OpenReads == LexTyped /\ ReadsOn(at, opened) /\ Open => ReadsOn(at', opened') /\ Braceless(at, at')
<1> SUFFICES ASSUME LexTyped, ReadsOn(at, opened), Open PROVE ReadsOn(at', opened') /\ Braceless(at, at')
  OBVIOUS
<1>1. Code /\ Char(at) = "quote" /\ opened' = at /\ at' = at + 1
  BY DEF Open
<1>2. /\ opened = 0 /\ at \in Nat \ {0}
      /\ Contexts[at] = Read(Contexts[at - 1], Char(at))
  BY <1>1, CodeAt
<1>3. Contexts[at] = "string" /\ InCode(at - 1)
  BY <1>1, <1>2, ReadSpecial DEF ReadsOn, MayBegin, InCode
<1>4. Contexts[(at + 1) - 1] = "string" /\ at # 0
  BY <1>2, <1>3
<1>5. Braceless(at, at')
  <2>1. \A k \in at .. at' - 1 : k = at
    BY <1>1, <1>2
  <2>2. QED
    BY <1>1, <2>1, CurlyApart DEF Braceless
<1>6. QED
  BY <1>1, <1>3, <1>4, <1>5 DEF ReadsOn

LEMMA StringCharReads == LexTyped /\ ReadsOn(at, opened) /\ StringChar => ReadsOn(at', opened') /\ Braceless(at, at')
<1> SUFFICES ASSUME LexTyped, ReadsOn(at, opened), StringChar PROVE ReadsOn(at', opened') /\ Braceless(at, at')
  OBVIOUS
<1>1. /\ opened # 0 /\ opened' = opened /\ at \in Nat \ {0} /\ at <= Len(text) /\ Len(text) \in Nat
      /\ Char(at) # "quote"
      /\ at' = IF Char(at) = "\\" /\ at < Len(text) THEN at + 2 ELSE at + 1
  BY CharOfText DEF StringChar, LexTyped
<1>2. Contexts[at - 1] = "string" /\ InCode(opened - 1)
  BY <1>1 DEF ReadsOn
<1>3. Contexts[at] = Read("string", Char(at))
  BY <1>1, <1>2, ReadOne
<1>4. CASE Char(at) # "\\"
  <2>1. Contexts[at] = "string"
    BY <1>1, <1>3, <1>4, ReadString
  <2>2. Contexts[(at + 1) - 1] = "string"
    BY <1>1, <2>1
  <2>3. \A k \in at .. at' - 1 : k = at
    BY <1>1, <1>4
  <2>4. Braceless(at, at')
    BY <1>2, <2>3 DEF Braceless, InCode
  <2>5. QED
    BY <1>1, <1>2, <1>4, <2>2, <2>4 DEF ReadsOn
<1>5. CASE Char(at) = "\\" /\ at < Len(text)
  <2>1. Contexts[at] = "escape"
    BY <1>3, <1>5, ReadString
  <2>2. at + 1 \in Nat \ {0} /\ at + 1 <= Len(text) /\ (at + 1) - 1 = at /\ (at + 2) - 1 = at + 1
    BY <1>1, <1>5
  <2>3. Contexts[at + 1] = Read(Contexts[at], Char(at + 1))
    BY <2>2, ReadOne
  <2>4. Contexts[(at + 2) - 1] = "string"
    BY <2>1, <2>2, <2>3, ReadString
  <2>5. \A k \in at .. at' - 1 : k = at \/ (k = at + 1 /\ k - 1 = at)
    BY <1>1, <1>5
  <2>6. Braceless(at, at')
    BY <1>2, <2>1, <2>5 DEF Braceless, InCode
  <2>7. QED
    BY <1>1, <1>2, <1>5, <2>4, <2>6 DEF ReadsOn
<1>6. CASE Char(at) = "\\" /\ ~(at < Len(text))
  <2>1. \A k \in at .. at' - 1 : k = at
    BY <1>1, <1>6
  <2>2. Braceless(at, at')
    BY <1>2, <2>1 DEF Braceless, InCode
  <2>3. QED
    BY <1>1, <1>2, <1>6, <2>2 DEF ReadsOn
<1>7. QED
  BY <1>4, <1>5, <1>6

LEMMA CloseReads ==
    LexTyped /\ ReadsOn(at, opened) /\ Close /\ complaints' = {}
       => ReadsOn(at', opened') /\ InCode(Begin - 1) /\ Braceless(at, at')
<1> SUFFICES ASSUME LexTyped, ReadsOn(at, opened), Close, complaints' = {}
             PROVE  ReadsOn(at', opened') /\ InCode(Begin - 1) /\ Braceless(at, at')
  OBVIOUS
<1>1. at <= Len(text) /\ at \in Nat \ {0} /\ Len(text) \in Nat
  <2>1. at \in Nat \ {0} /\ Len(text) \in Nat
    BY CharOfText DEF LexTyped
  <2>2. ~(at > Len(text))
    BY DEF Close
  <2>3. QED
    BY <2>1, <2>2
<1>2. opened # 0 /\ opened' = 0 /\ Char(at) = "quote" /\ at' = at + 1 /\ Begin = opened
  BY <1>1 DEF Close, Begin
<1>3. Contexts[at - 1] = "string" /\ InCode(opened - 1)
  BY <1>1, <1>2 DEF ReadsOn
<1>4. Contexts[at] = Read("string", Char(at))
  BY <1>1, <1>3, ReadOne
<1>5. Contexts[at] = "code"
  BY <1>2, <1>4, ReadString
<1>6. Contexts[(at + 1) - 1] = "code"
  BY <1>1, <1>5
<1>7. Braceless(at, at')
  <2>1. \A k \in at .. at' - 1 : k = at
    BY <1>1, <1>2
  <2>2. QED
    BY <1>3, <2>1 DEF Braceless, InCode
<1>8. QED
  BY <1>2, <1>3, <1>6, <1>7 DEF ReadsOn, MayBegin

LEMMA CharLiteralReads ==
    LexTyped /\ ReadsOn(at, opened) /\ CharLiteral /\ complaints' = {}
       => ReadsOn(at', opened') /\ InCode(Begin - 1) /\ Braceless(at, at')
<1> SUFFICES ASSUME LexTyped, ReadsOn(at, opened), CharLiteral, complaints' = {}
             PROVE  ReadsOn(at', opened') /\ InCode(Begin - 1) /\ Braceless(at, at')
  OBVIOUS
<1> DEFINE last == IF at + 1 > Len(text) THEN at
                   ELSE IF Char(at + 1) = "\\" /\ at + 1 < Len(text) THEN at + 2 ELSE at + 1
<1>1. /\ Code /\ Char(at) = "'" /\ opened' = opened
      /\ last > at /\ Char(last + 1) = "'" /\ at' = last + 2
  BY DEF CharLiteral
<1>2. /\ opened = 0 /\ at \in Nat \ {0} /\ at <= Len(text) /\ Len(text) \in Nat /\ Begin = at
      /\ Contexts[at] = Read(Contexts[at - 1], Char(at))
  BY <1>1, CodeAt
<1>3. Contexts[at] = "char" /\ InCode(at - 1)
  BY <1>1, <1>2, ReadSpecial DEF ReadsOn, MayBegin, InCode
<1>4. at + 1 <= Len(text) /\ at + 1 \in Nat \ {0} /\ (at + 1) - 1 = at
  BY <1>1, <1>2
<1>5. Contexts[at + 1] = IF Char(at + 1) = "\\" THEN "escaped" ELSE "closing"
  <2>1. Contexts[at + 1] = Read("char", Char(at + 1))
    BY <1>3, <1>4, ReadOne
  <2>2. QED
    BY <2>1, ReadString
<1>6. last \in Nat \ {0} /\ last + 1 \in Nat \ {0} /\ last + 1 <= Len(text) /\ (last + 1) - 1 = last /\ (last + 2) - 1 = last + 1
  <2>1. last \in Nat
    BY <1>2
  <2> HIDE DEF last
  <2>2. last + 1 \in Nat \ {0} /\ last \in Nat \ {0}
    BY <1>1, <1>2, <2>1
  <2>3. QED
    BY <1>1, <1>2, <2>1, <2>2, CharOfText
<1>7. Contexts[last] = "closing"
  <2>1. CASE Char(at + 1) = "\\" /\ at + 1 < Len(text)
    <3>1. last = at + 2 /\ at + 2 \in Nat \ {0} /\ at + 2 <= Len(text) /\ (at + 2) - 1 = at + 1
      BY <1>2, <1>4, <2>1
    <3>2. Contexts[at + 2] = Read(Contexts[at + 1], Char(at + 2))
      BY <3>1, ReadOne
    <3>3. QED
      BY <1>5, <2>1, <3>1, <3>2, ReadString
  <2>2. CASE Char(at + 1) # "\\"
    BY <1>2, <1>4, <1>5, <2>2
  <2>3. CASE Char(at + 1) = "\\" /\ ~(at + 1 < Len(text))
    BY <1>2, <1>4, <1>6, <2>3
  <2>4. QED
    BY <2>1, <2>2, <2>3
<1> HIDE DEF last
<1>8. Contexts[last + 1] = Read(Contexts[last], Char(last + 1))
  BY <1>6, ReadOne
<1>9. Contexts[(last + 2) - 1] = "code"
  BY <1>6, <1>7, <1>8, ReadString
<1>10. Braceless(at, at')
  <2>1. last = at + 1 \/ last = at + 2
    BY <1>1, <1>2 DEF last
  <2>2. \A k \in at .. at' - 1 : k = at \/ k - 1 = at \/ k - 1 = at + 1 \/ k - 1 = last
    BY <1>1, <1>2, <1>6, <2>1
  <2>3. Contexts[at + 1] \notin {"code", "slash"}
    BY <1>5
  <2>4. Char(at) \notin Curly
    BY <1>1, CurlyApart
  <2>5. QED
    BY <1>3, <1>7, <2>2, <2>3, <2>4 DEF Braceless, InCode
<1>11. QED
  BY <1>1, <1>2, <1>3, <1>9, <1>10 DEF ReadsOn, MayBegin

\* Two slashes open a line, a slash and a star open a block.
LEMMA CommentOpens ==
    ASSUME LexTyped, Code, MayBegin(at), Char(at) = "/", Char(at + 1) \in {"/", "*"}
    PROVE  /\ at + 1 <= Len(text) /\ InCode(at - 1)
           /\ Contexts[at + 1] = IF Char(at + 1) = "/" THEN "line" ELSE "block"
<1>1. /\ at \in Nat \ {0} /\ Len(text) \in Nat
      /\ Contexts[at] = Read(Contexts[at - 1], Char(at))
  BY CodeAt
<1>2. Contexts[at] = "slash" /\ InCode(at - 1)
  BY <1>1, ReadSpecial DEF MayBegin, InCode
<1>3. at + 1 \in Nat \ {0} /\ at + 1 <= Len(text) /\ (at + 1) - 1 = at
  <2>1. Char(at + 1) # "end" /\ at + 1 \in Nat \ {0}
    BY <1>1
  <2>2. QED
    BY <1>1, <2>1, CharOfText
<1>4. Contexts[at + 1] = Read(Contexts[at], Char(at + 1))
  BY <1>3, ReadOne
<1>5. QED
  BY <1>2, <1>3, <1>4, ReadSpecial

LEMMA LineCommentReads ==
    LexTyped /\ ReadsOn(at, opened) /\ LineComment => ReadsOn(at', opened') /\ InCode(Begin - 1) /\ Braceless(at, at')
<1> SUFFICES ASSUME LexTyped, ReadsOn(at, opened), LineComment
             PROVE  ReadsOn(at', opened') /\ InCode(Begin - 1) /\ Braceless(at, at')
  OBVIOUS
<1> DEFINE cs == {text[i] : i \in DOMAIN text} \ {"nl"}
           to == After(cs, at)
           S == {k \in Nat : Contexts[k] = "line"}
<1>1. Code /\ Char(at) = "/" /\ Char(at + 1) = "/" /\ at' = to /\ opened' = opened
  BY DEF LineComment, Lexeme, Advance
<1>2. /\ opened = 0 /\ at \in Nat \ {0} /\ at <= Len(text) /\ Len(text) \in Nat
      /\ text \in Seq(STRING) /\ Begin = at /\ MayBegin(at)
  BY <1>1, CodeAt DEF ReadsOn
<1>3. at + 1 <= Len(text) /\ InCode(at - 1) /\ Contexts[at + 1] = "line"
  BY <1>1, <1>2, CommentOpens
<1>4. \A k \in 1 .. Len(text) : Char(k) \in cs <=> Char(k) # "nl"
  BY <1>2 DEF Char
<1>5. "end" \notin cs /\ "nl" \notin cs
  BY DEF LexTyped
<1> HIDE DEF cs
<1>6. /\ to \in Nat /\ at <= to /\ to <= Len(text) + 1 /\ Char(to) \notin cs
      /\ \A k \in at .. to - 1 : Char(k) \in cs
  <2>1. at \in Nat /\ at <= Len(text) + 1
    BY <1>2
  <2>2. /\ to \in at .. Len(text) + 1 /\ Char(to) \notin cs
        /\ \A k \in at .. to - 1 : Char(k) \in cs
    BY <1>2, <1>5, <2>1, AfterStops
  <2> HIDE DEF to
  <2>3. QED
    BY <1>2, <2>2
<1> HIDE DEF to
<1>7. at + 2 <= to
  <2>1. Char(at) \in cs /\ Char(at + 1) \in cs
    <3>1. at \in 1 .. Len(text) /\ at + 1 \in 1 .. Len(text)
      BY <1>2, <1>3
    <3>2. QED
      BY <1>1, <1>4, <3>1
  <2>2. to # at /\ to # at + 1
    BY <1>6, <2>1
  <2>3. QED
    BY <1>2, <1>6, <2>2
<1>8. Char(to) \in {"nl", "end"}
  <2>1. CASE to <= Len(text)
    BY <1>2, <1>4, <1>6, <1>7, <2>1
  <2>2. CASE to = Len(text) + 1
    BY <1>2, <2>2 DEF Char
  <2>3. QED
    BY <1>2, <1>6, <2>1, <2>2
<1>9. ASSUME NEW k \in (at + 1) + 1 .. to - 1, k - 1 \in S PROVE k \in S
  <2>1. k \in Nat \ {0} /\ k <= Len(text) /\ k \in at .. to - 1
    BY <1>2, <1>6
  <2>2. Contexts[k] = Read(Contexts[k - 1], Char(k))
    BY <2>1, ReadOne
  <2>3. Char(k) # "nl"
    BY <1>5, <1>6, <2>1
  <2>4. Read("line", Char(k)) = "line"
    BY <2>3 DEF Read
  <2>5. QED
    BY <1>9, <2>1, <2>2, <2>4
<1>10. at + 1 \in S /\ at + 1 \in Nat /\ to - 1 \in Nat /\ to - 1 \in at + 1 .. to - 1
  BY <1>2, <1>3, <1>6, <1>7
<1> HIDE DEF S
<1>11. at + 1 .. to - 1 \subseteq S
  BY <1>9, <1>10, Along
<1>12. Contexts[to - 1] = "line"
  BY <1>10, <1>11 DEF S
<1>13. Braceless(at, at')
  <2>1. \A k \in at .. to - 1 : k = at \/ k = at + 1 \/ (k - 1 \in at + 1 .. to - 1)
    BY <1>2, <1>6
  <2>2. \A k \in at + 1 .. to - 1 : Contexts[k] = "line"
    BY <1>11 DEF S
  <2>3. Char(at) \notin Curly /\ Char(at + 1) \notin Curly
    BY <1>1, CurlyApart
  <2>4. QED
    BY <1>1, <2>1, <2>2, <2>3 DEF Braceless, InCode
<1>14. QED
  BY <1>1, <1>2, <1>3, <1>8, <1>12, <1>13 DEF ReadsOn, MayBegin

\* A block lasts until its first closing.
LEMMA BlockLasts ==
    ASSUME LexTyped, NEW a \in Nat \ {0}, Contexts[a] = "block", NEW b \in Nat, a <= b, b <= Len(text),
           \A j \in Closings(a + 1) : b <= j
    PROVE  \A k \in a .. b : /\ Contexts[k] \in {"block", "star"}
                             /\ k > a => (Contexts[k] = "star" <=> Char(k) = "*")
<1> DEFINE S == {k \in Nat : /\ Contexts[k] \in {"block", "star"}
                             /\ k > a => (Contexts[k] = "star" <=> Char(k) = "*")
                             /\ k = a => Contexts[k] = "block"}
<1>1. Len(text) \in Nat
  BY LenProperties DEF LexTyped
<1>2. a \in S /\ a \in Nat
  OBVIOUS
<1>3. ASSUME NEW k \in a + 1 .. b, k - 1 \in S PROVE k \in S
  <2>1. k \in Nat \ {0} /\ k <= Len(text) /\ k > a /\ k # a
    BY <1>1
  <2>2. Contexts[k] = Read(Contexts[k - 1], Char(k))
    BY <2>1, ReadOne
  <2>3. ~(Contexts[k - 1] = "star" /\ Char(k) = "/")
    <3>1. SUFFICES ASSUME Contexts[k - 1] = "star", Char(k) = "/" PROVE FALSE
      OBVIOUS
    <3>2. k - 1 # a
      BY <1>3, <3>1
    <3>3. k - 1 > a /\ (k - 1) + 1 = k /\ k - 1 \in a + 1 .. Len(text) - 1
      BY <1>1, <2>1, <3>2
    <3>4. Char(k - 1) = "*"
      BY <1>3, <3>1, <3>3
    <3>5. k - 1 \in Closings(a + 1)
      BY <3>1, <3>3, <3>4 DEF Closings
    <3>6. QED
      BY <2>1, <3>5
  <2>4. Contexts[k - 1] \in {"block", "star"}
    BY <1>3
  <2>5. Contexts[k] = IF Char(k) = "*" THEN "star" ELSE "block"
    BY <2>2, <2>3, <2>4, ReadBlock
  <2>6. QED
    BY <2>1, <2>5
<1> HIDE DEF S
<1>4. a .. b \subseteq S
  BY <1>2, <1>3, Along
<1>5. QED
  BY <1>4 DEF S

LEMMA BlockCommentReads ==
    LexTyped /\ ReadsOn(at, opened) /\ BlockComment /\ complaints' = {}
          /\ Contexts[Len(text)] \notin {"block", "star"}
       => ReadsOn(at', opened') /\ InCode(Begin - 1) /\ Braceless(at, at')
<1> SUFFICES ASSUME LexTyped, ReadsOn(at, opened), BlockComment, complaints' = {},
                    Contexts[Len(text)] \notin {"block", "star"}
             PROVE  ReadsOn(at', opened') /\ InCode(Begin - 1) /\ Braceless(at, at')
  OBVIOUS
<1>1. Code /\ Char(at) = "/" /\ Char(at + 1) = "*" /\ opened' = opened
  BY DEF BlockComment
<1>2. /\ opened = 0 /\ at \in Nat \ {0} /\ at <= Len(text) /\ Len(text) \in Nat
      /\ text \in Seq(STRING) /\ Begin = at /\ MayBegin(at)
  BY <1>1, CodeAt DEF ReadsOn
<1>3. at + 1 <= Len(text) /\ InCode(at - 1) /\ Contexts[at + 1] = "block"
  BY <1>1, <1>2, CommentOpens
<1>4. at + 1 \in Nat \ {0} /\ (at + 1) + 1 = at + 2 /\ at + 2 \in Nat
  BY <1>2
<1>5. Closings(at + 2) # {}
  <2>1. SUFFICES ASSUME Closings(at + 2) = {} PROVE FALSE
    OBVIOUS
  <2>2. \A k \in at + 1 .. Len(text) : Contexts[k] \in {"block", "star"}
    <3>1. \A j \in Closings((at + 1) + 1) : Len(text) <= j
      BY <1>4, <2>1
    <3>2. QED
      BY <1>2, <1>3, <1>4, <3>1, BlockLasts
  <2>3. Len(text) \in at + 1 .. Len(text)
    BY <1>2, <1>3
  <2>4. QED
    BY <2>2, <2>3
<1> DEFINE j == First(Closings(at + 2))
<1>6. /\ j \in Nat /\ j \in at + 2 .. Len(text) - 1 /\ Char(j) = "*" /\ Char(j + 1) = "/"
      /\ \A k \in Closings(at + 2) : j <= k
  BY <1>2, <1>4, <1>5, FirstClosing
<1>7. at' = j + 2
  BY <1>5 DEF BlockComment, Advance
<1> HIDE DEF j
<1>8. j \in at + 1 .. j /\ j > at + 1 /\ j + 1 \in Nat \ {0} /\ j + 1 <= Len(text) /\ (j + 1) - 1 = j /\ (j + 2) - 1 = j + 1
  BY <1>2, <1>6
<1>9. Contexts[j] = "star" /\ \A k \in at + 1 .. j : Contexts[k] \in {"block", "star"}
  <2>1. at + 1 <= j /\ j <= Len(text) /\ \A k \in Closings((at + 1) + 1) : j <= k
    BY <1>2, <1>4, <1>6
  <2>2. \A k \in at + 1 .. j : /\ k > at + 1 => (Contexts[k] = "star" <=> Char(k) = "*")
                               /\ Contexts[k] \in {"block", "star"}
    BY <1>3, <1>4, <1>6, <2>1, BlockLasts
  <2>3. QED
    BY <1>6, <1>8, <2>2
<1>10. Contexts[j + 1] = Read("star", "/")
  BY <1>6, <1>8, <1>9, ReadOne
<1>11. Read("star", "/") = "code"
  BY DEF Read
<1>12. Contexts[(j + 2) - 1] = "code"
  BY <1>8, <1>10, <1>11
<1>13. Braceless(at, at')
  <2>1. \A k \in at .. at' - 1 : k = at \/ k = at + 1 \/ (k - 1 \in at + 1 .. j)
    BY <1>2, <1>6, <1>7
  <2>2. Char(at) \notin Curly /\ Char(at + 1) \notin Curly
    BY <1>1, CurlyApart
  <2>3. QED
    BY <1>9, <2>1, <2>2 DEF Braceless, InCode
<1>14. QED
  BY <1>1, <1>2, <1>3, <1>7, <1>12, <1>13 DEF ReadsOn, MayBegin

\* A complaint is never taken back.
LEMMA ComplaintsStay == LexNext /\ complaints' = {} => complaints = {}
  BY DEF LexNext, Skip, LineComment, BlockComment, Identifier, Prefixed, Number, Open, StringChar,
         Close, CharLiteral, Double, Single, Unexpected, Lexeme, Unknown

\* As long as nothing is reported, the lexer reads on in step with the contexts.
LEMMA LexReads ==
    ASSUME LexTyped, ReadsOn(at, opened), LexNext, complaints' = {},
           Contexts[Len(text)] \notin {"block", "star"}
    PROVE  /\ ReadsOn(at', opened') /\ (lexemes' = lexemes \/ InCode(Begin - 1))
           /\ Single \/ Braceless(at, at')
<1>1. CASE Skip
  BY <1>1, SkipReads DEF Skip
<1>2. CASE Open
  BY <1>2, OpenReads DEF Open
<1>3. CASE StringChar
  BY <1>3, StringCharReads DEF StringChar
<1>4. CASE ~Skip /\ ~Open /\ ~StringChar
  BY <1>4, LineCommentReads, BlockCommentReads, IdentifierReads, PrefixedReads, NumberReads,
     CloseReads, CharLiteralReads, DoubleReads, SingleReads, UnexpectedReads DEF LexNext
<1>5. QED
  BY <1>1, <1>2, <1>3, <1>4

\* Every lexeme begins in code.
AllInCode == \A i \in DOMAIN lexemes : InCode(lexemes[i].from - 1)
ScanInv == LexTyped /\ InOrder /\ (Quiet => ReadsOn(at, opened) /\ AllInCode)

LEMMA ContextsStay == text' = text => Contexts' = Contexts
  BY DEF Contexts, Read

LEMMA ScanInvInit == FrontInit => ScanInv
<1> SUFFICES ASSUME FrontInit PROVE ScanInv
  OBVIOUS
<1>1. LexTyped /\ InOrder
  BY LineInvInit DEF LineInv
<1>2. at = 1 /\ opened = 0 /\ lexemes = <<>>
  BY DEF FrontInit, LexInit
<1>3. Contexts[0] = "code"
  BY <1>1, ContextsRead DEF LexTyped
<1>4. ReadsOn(at, opened)
  BY <1>2, <1>3 DEF ReadsOn, MayBegin
<1>5. AllInCode
  BY <1>2, EmptySeq DEF AllInCode
<1>6. QED
  BY <1>1, <1>4, <1>5 DEF ScanInv

LEMMA ScanInvNext == ScanInv /\ [FrontNext]_frontVars => ScanInv'
<1> SUFFICES ASSUME ScanInv, [FrontNext]_frontVars PROVE ScanInv'
  OBVIOUS
<1>1. CASE Lexing
  <2>1. LexNext /\ Turn /\ text' = text
    BY <1>1, LexTurns DEF Lexing, ScanInv, Turn
  <2>2. LexTyped' /\ InOrder'
    BY <2>1, TypedTurn DEF ScanInv
  <2>3. Contexts' = Contexts
    BY <2>1, ContextsStay
  <2>4. ASSUME Quiet' PROVE ReadsOn(at, opened)' /\ AllInCode'
    <3>1. complaints' = {} /\ Contexts[Len(text)] \notin {"block", "star"}
      BY <2>1, <2>3, <2>4 DEF Quiet
    <3>2. Quiet
      BY <2>1, <3>1, ComplaintsStay DEF Quiet
    <3>3. LexTyped /\ ReadsOn(at, opened) /\ AllInCode
      BY <3>2 DEF ScanInv
    <3>4. ReadsOn(at', opened') /\ (lexemes' = lexemes \/ InCode(Begin - 1))
      BY <2>1, <3>1, <3>3, LexReads
    <3>5. ReadsOn(at, opened)'
      BY <2>1, <2>3, <3>4 DEF ReadsOn, MayBegin, InCode, Char
    <3>6. AllInCode'
      <4>1. CASE lexemes' = lexemes
        BY <2>3, <3>3, <4>1 DEF AllInCode, InCode
      <4>2. CASE lexemes' # lexemes
        <5>1. PICK t : lexemes' = Append(lexemes, [type |-> t, from |-> Begin, to |-> Begin', line |-> line'])
          BY <2>1, <4>2 DEF Turn, Passes, Comments, Scans
        <5> DEFINE e == [type |-> t, from |-> Begin, to |-> Begin', line |-> line']
        <5>2. e.from = Begin
          OBVIOUS
        <5>3. lexemes' = Append(lexemes, e) /\ \E S : lexemes \in Seq(S)
          BY <3>3, <5>1 DEF LexTyped
        <5> HIDE DEF e
        <5>4. /\ Len(lexemes) \in Nat /\ DOMAIN lexemes = 1 .. Len(lexemes)
              /\ DOMAIN lexemes' = 1 .. Len(lexemes) + 1
              /\ lexemes'[Len(lexemes) + 1] = e
              /\ \A i \in 1 .. Len(lexemes) : lexemes'[i] = lexemes[i]
          BY <5>3, AddedLast
        <5>5. ASSUME NEW i \in DOMAIN lexemes' PROVE InCode(lexemes'[i].from - 1)
          <6>1. CASE i = Len(lexemes) + 1
            BY <3>4, <4>2, <5>2, <5>4, <6>1
          <6>2. CASE i \in 1 .. Len(lexemes)
            BY <3>3, <5>4, <6>2 DEF AllInCode
          <6>3. QED
            BY <5>4, <6>1, <6>2
        <5>6. QED
          BY <2>3, <5>5 DEF AllInCode, InCode
      <4>3. QED
        BY <4>1, <4>2
    <3>7. QED
      BY <3>5, <3>6
  <2>5. QED
    BY <2>2, <2>4 DEF ScanInv
<1>2. CASE UNCHANGED lexVars
  <2>1. UNCHANGED <<text, at, line, opened, lexemes, complaints>>
    BY <1>2 DEF lexVars
  <2>2. Contexts' = Contexts
    BY <2>1, ContextsStay
  <2>3. QED
    BY <2>1, <2>2 DEF ScanInv, LexTyped, InOrder, Begin, Quiet, ReadsOn, MayBegin, InCode, AllInCode, Char
<1>3. CASE HandOver \/ Parsing \/ UNCHANGED frontVars
  BY <1>2, <1>3 DEF HandOver, Parsing, frontVars
<1>4. QED
  BY <1>1, <1>3 DEF FrontNext

\* A text that is lexed without a word, and does not end in a block comment,
\* ends in code, and every token of it begins in code: the lexer, which looks
\* ahead and takes what it finds piece by piece, never takes the inside of a
\* string, a character or a comment for code, nor the other way round.
THEOREM TokensLieInCode == FrontSpec => []ScansAsWritten
<1>1. ScanInv => ScansAsWritten
  <2> SUFFICES ASSUME ScanInv, Lexed, complaints = {}, Contexts[Len(text)] \notin {"block", "star"}
               PROVE  /\ Contexts[Len(text)] \in {"code", "slash", "line"}
                      /\ \A i \in DOMAIN lexemes : Contexts[lexemes[i].from - 1] \in {"code", "slash"}
    BY DEF ScansAsWritten
  <2>1. LexTyped /\ ReadsOn(at, opened) /\ AllInCode
    BY DEF ScanInv, Quiet
  <2>2. opened = 0 /\ at - 1 = Len(text)
    <3>1. Len(text) \in Nat
      BY <2>1, LenProperties DEF LexTyped
    <3>2. QED
      BY <2>1, <3>1 DEF Lexed, LexTyped
  <2>3. QED
    BY <2>1, <2>2 DEF ReadsOn, MayBegin, AllInCode, InCode
<1>2. QED
  BY ScanInvInit, ScanInvNext, <1>1, PTL DEF FrontSpec

-----------------------------------------------------------------------------

(* The guards of the loops *)

\* Steps that are over when they are taken.
Simple == {"take", "error", "expect", "must", "opt", "break", "return", "interpolate", "made",
           "climb", "crash", "keep", "stalled", "sync", "nudge"}
Functions == DOMAIN Routine \cup {"parseExpression"}
RoundSteps == {Call("topLevelStep"), Call("blockStep")}
WellGuarded(stop, body) ==
    body[1] \in RoundSteps =>
        body = <<body[1]>> /\ stop = IF body[1] = Call("topLevelStep") THEN {} ELSE {"RBRACE"}

IsList(l) == \E T : l \in Seq(T)

\* A set of steps as they are written down: it has what they consist of.
Closed(S) ==
    \A s \in S :
        \/ s[1] \in Simple
        \/ \E f, p : s = <<"call", f, p>> /\ f \in Functions
        \/ \E cs : s = <<"choose", cs>> /\ IsList(cs) /\ \A i \in DOMAIN cs : cs[i][2] \in Seq(S)
        \/ \E y, n : s = <<"onNull", y, n>> /\ y \in Seq(S) /\ n \in Seq(S)
        \/ \E stop, body : /\ s = <<"while", stop, body, -1>>
                           /\ body \in Seq(S) /\ WellGuarded(stop, body)

Sound(s) == \E S : s \in S /\ Closed(S)
SoundList(l) == \E S : l \in Seq(S) /\ Closed(S)
SoundCases(cs) == IsList(cs) /\ \E S : Closed(S) /\ \A i \in DOMAIN cs : cs[i][2] \in Seq(S)

\* A list of steps is one over any larger set of steps.
LEMMA SeqGrows ==
    ASSUME NEW S, NEW T, S \subseteq T, NEW l \in Seq(S)
    PROVE  l \in Seq(T)
  OBVIOUS

\* Sets of such steps can be joined.
LEMMA ClosedJoin ==
    ASSUME NEW F, \A S \in F : Closed(S)
    PROVE  Closed(UNION F)
<1> DEFINE U == UNION F
<1> SUFFICES ASSUME NEW s \in U
             PROVE  \/ s[1] \in Simple
                    \/ \E f, p : s = <<"call", f, p>> /\ f \in Functions
                    \/ \E cs : s = <<"choose",
                       cs>> /\ IsList(cs) /\ \A i \in DOMAIN cs : cs[i][2] \in Seq(U)
                    \/ \E y, n : s = <<"onNull", y, n>> /\ y \in Seq(U) /\ n \in Seq(U)
                    \/ \E stop, body : /\ s = <<"while", stop, body, -1>>
                                       /\ body \in Seq(U) /\ WellGuarded(stop, body)
  BY DEF Closed
<1>1. PICK S \in F : s \in S
  OBVIOUS
<1>2. S \subseteq U
  BY <1>1
<1> HIDE DEF U
<1>3. \A l : l \in Seq(S) => l \in Seq(U)
  BY <1>2, SeqGrows
<1>4. Closed(S)
  OBVIOUS
<1>5. QED
  BY <1>1, <1>3, <1>4, Zenon DEF Closed

\* A list of sound steps is sound: their sets are joined.
LEMMA SoundLists ==
    ASSUME NEW l, NEW T, l \in Seq(T), \A i \in DOMAIN l : Sound(l[i])
    PROVE  SoundList(l)
<1> DEFINE F == {CHOOSE S : l[i] \in S /\ Closed(S) : i \in DOMAIN l}
<1>1. \A S \in F : Closed(S)
  <2>1. \A i \in DOMAIN l : l[i] \in (CHOOSE S : l[i] \in S /\ Closed(S))
     /\ Closed(CHOOSE S : l[i] \in S /\ Closed(S))
    BY Zenon DEF Sound
  <2>2. QED
    BY <2>1
<1>2. \A i \in DOMAIN l : l[i] \in UNION F
  <2>1. \A i \in DOMAIN l : l[i] \in (CHOOSE S : l[i] \in S /\ Closed(S))
    BY Zenon DEF Sound
  <2>2. QED
    BY <2>1, Zenon
<1> HIDE DEF F
<1>3. l \in Seq(UNION F)
  BY <1>2
<1>4. QED
  BY <1>1, <1>3, ClosedJoin DEF SoundList

\* The cases of a choice are sound when their lists are.
LEMMA SoundChoice ==
    ASSUME NEW cs, IsList(cs), \A i \in DOMAIN cs : SoundList(cs[i][2])
    PROVE  SoundCases(cs)
<1> DEFINE F == {CHOOSE S : cs[i][2] \in Seq(S) /\ Closed(S) : i \in DOMAIN cs}
<1>1. \A i \in DOMAIN cs : cs[i][2] \in Seq(CHOOSE S : cs[i][2] \in Seq(S) /\ Closed(S))
                           /\ Closed(CHOOSE S : cs[i][2] \in Seq(S) /\ Closed(S))
  BY Zenon DEF SoundList
<1>2. \A S \in F : Closed(S)
  BY <1>1, Zenon
<1>3. \A i \in DOMAIN cs : \E S \in F : cs[i][2] \in Seq(S)
  BY <1>1, Zenon
<1> HIDE DEF F
<1>4. \A i \in DOMAIN cs : cs[i][2] \in Seq(UNION F)
  <2> SUFFICES ASSUME NEW i \in DOMAIN cs PROVE cs[i][2] \in Seq(UNION F)
    OBVIOUS
  <2>1. PICK S \in F : cs[i][2] \in Seq(S)
    BY <1>3
  <2>2. S \subseteq UNION F
    OBVIOUS
  <2>3. QED
    BY <2>1, <2>2, SeqGrows
<1>5. QED
  BY <1>2, <1>4, ClosedJoin DEF SoundCases

\* What is made of sound parts is sound.
LEMMA SoundSteps ==
    /\ \A s : s[1] \in Simple => Sound(s)
    /\ \A f, p : f \in Functions => Sound(<<"call", f, p>>)
    /\ \A cs : SoundCases(cs) => Sound(<<"choose", cs>>)
    /\ \A y, n : SoundList(y) /\ SoundList(n) => Sound(<<"onNull", y, n>>)
    /\ \A stop, body : SoundList(body) /\ WellGuarded(stop, body) => Sound(<<"while", stop, body, -1>>)
<1>1. ASSUME NEW s, s[1] \in Simple PROVE Sound(s)
  <2>1. s \in {s} /\ Closed({s})
    BY <1>1 DEF Closed
  <2>2. QED
    BY <2>1 DEF Sound
<1>2. ASSUME NEW f, NEW p, f \in Functions PROVE Sound(<<"call", f, p>>)
  <2>1. Closed({<<"call", f, p>>})
    BY <1>2, Zenon DEF Closed
  <2>2. QED
    BY <2>1, Zenon DEF Sound
<1>3. ASSUME NEW cs, SoundCases(cs) PROVE Sound(<<"choose", cs>>)
  <2>0. IsList(cs)
    BY <1>3 DEF SoundCases
  <2>1. PICK S : Closed(S) /\ \A i \in DOMAIN cs : cs[i][2] \in Seq(S)
    BY <1>3 DEF SoundCases
  <2> DEFINE U == UNION {S, {<<"choose", cs>>}}
  <2>2. S \subseteq U /\ <<"choose", cs>> \in U /\ \A s \in U : s \in S \/ s = <<"choose", cs>>
    OBVIOUS
  <2> HIDE DEF U
  <2>3. \A l : l \in Seq(S) => l \in Seq(U)
    BY <2>2, SeqGrows
  <2>4. Closed(U)
    BY <2>0, <2>1, <2>2, <2>3, Zenon DEF Closed
  <2>5. QED
    BY <2>2, <2>4 DEF Sound
<1>4. ASSUME NEW y, NEW n, SoundList(y), SoundList(n) PROVE Sound(<<"onNull", y, n>>)
  <2>1. PICK S : y \in Seq(S) /\ Closed(S)
    BY <1>4 DEF SoundList
  <2>2. PICK T : n \in Seq(T) /\ Closed(T)
    BY <1>4 DEF SoundList
  <2> DEFINE s == <<"onNull", y, n>>
             U == UNION {S, T, {s}}
  <2>3. S \subseteq U /\ T \subseteq U /\ s \in U /\ \A x \in U : x \in S \/ x \in T \/ x = s
    OBVIOUS
  <2> HIDE DEF U
  <2>4. \A l : l \in Seq(S) \/ l \in Seq(T) => l \in Seq(U)
    BY <2>3, SeqGrows
  <2>5. Closed(U)
    BY <2>1, <2>2, <2>3, <2>4, Zenon DEF Closed
  <2>6. QED
    BY <2>3, <2>5 DEF Sound
<1>5. ASSUME NEW stop, NEW body, SoundList(body), WellGuarded(stop, body)
      PROVE  Sound(<<"while", stop, body, -1>>)
  <2>1. PICK S : body \in Seq(S) /\ Closed(S)
    BY <1>5 DEF SoundList
  <2> DEFINE s == <<"while", stop, body, -1>>
             U == UNION {S, {s}}
  <2>2. S \subseteq U /\ s \in U /\ \A x \in U : x \in S \/ x = s
    OBVIOUS
  <2> HIDE DEF U
  <2>3. \A l : l \in Seq(S) => l \in Seq(U)
    BY <2>2, SeqGrows
  <2>4. Closed(U)
    BY <1>5, <2>1, <2>2, <2>3, Zenon DEF Closed
  <2>5. QED
    BY <2>2, <2>4 DEF Sound
<1>6. QED
  BY <1>1, <1>2, <1>3, <1>4, <1>5, Zenon

SoundCase(c) == SoundList(c[2])
NoRound(s) == s \notin RoundSteps

\* The tuples that parse functions are made of.
LEMMA SoundTuples ==
    /\ SoundList(<<>>)
    /\ \A s1 : Sound(s1)
          => SoundList(<<s1>>)
    /\ \A s1, s2 : Sound(s1) /\ Sound(s2)
          => SoundList(<<s1, s2>>)
    /\ \A s1, s2, s3 : Sound(s1) /\ Sound(s2) /\ Sound(s3)
          => SoundList(<<s1, s2, s3>>)
    /\ \A s1, s2, s3, s4 : Sound(s1) /\ Sound(s2) /\ Sound(s3) /\ Sound(s4)
          => SoundList(<<s1, s2, s3, s4>>)
    /\ \A s1, s2, s3, s4, s5 : Sound(s1) /\ Sound(s2) /\ Sound(s3) /\ Sound(s4) /\ Sound(s5)
          => SoundList(<<s1, s2, s3, s4, s5>>)
<1>0. SoundList(<<>>)
  <2>1. <<>> \in Seq({}) /\ DOMAIN <<>> = {}
    OBVIOUS
  <2>2. QED
    BY <2>1, SoundLists, Zenon
<1>1. ASSUME NEW s1, Sound(s1)
      PROVE  SoundList(<<s1>>)
  <2>1. <<s1>> \in Seq({s1})
    OBVIOUS
  <2>2. \A i \in DOMAIN <<s1>> : Sound(<<s1>>[i])
    BY <1>1
  <2>3. QED
    BY <2>1, <2>2, SoundLists, Zenon
<1>2. ASSUME NEW s1, NEW s2, Sound(s1), Sound(s2)
      PROVE  SoundList(<<s1, s2>>)
  <2>1. <<s1, s2>> \in Seq({s1, s2})
    OBVIOUS
  <2>2. \A i \in DOMAIN <<s1, s2>> : Sound(<<s1, s2>>[i])
    BY <1>2
  <2>3. QED
    BY <2>1, <2>2, SoundLists, Zenon
<1>3. ASSUME NEW s1, NEW s2, NEW s3, Sound(s1), Sound(s2), Sound(s3)
      PROVE  SoundList(<<s1, s2, s3>>)
  <2>1. <<s1, s2, s3>> \in Seq({s1, s2, s3})
    OBVIOUS
  <2>2. \A i \in DOMAIN <<s1, s2, s3>> : Sound(<<s1, s2, s3>>[i])
    BY <1>3
  <2>3. QED
    BY <2>1, <2>2, SoundLists, Zenon
<1>4. ASSUME NEW s1, NEW s2, NEW s3, NEW s4, Sound(s1), Sound(s2), Sound(s3), Sound(s4)
      PROVE  SoundList(<<s1, s2, s3, s4>>)
  <2>1. <<s1, s2, s3, s4>> \in Seq({s1, s2, s3, s4})
    OBVIOUS
  <2>2. \A i \in DOMAIN <<s1, s2, s3, s4>> : Sound(<<s1, s2, s3, s4>>[i])
    BY <1>4
  <2>3. QED
    BY <2>1, <2>2, SoundLists, Zenon
<1>5. ASSUME NEW s1, NEW s2, NEW s3, NEW s4, NEW s5, Sound(s1), Sound(s2), Sound(s3), Sound(s4),
             Sound(s5)
      PROVE  SoundList(<<s1, s2, s3, s4, s5>>)
  <2>1. <<s1, s2, s3, s4, s5>> \in Seq({s1, s2, s3, s4, s5})
    OBVIOUS
  <2>2. \A i \in DOMAIN <<s1, s2, s3, s4, s5>> : Sound(<<s1, s2, s3, s4, s5>>[i])
    BY <1>5
  <2>3. QED
    BY <2>1, <2>2, SoundLists, Zenon
<1>6. QED
  BY <1>0, <1>1, <1>2, <1>3, <1>4, <1>5

\* The longer ones.
LEMMA SoundLongTuples ==
    /\ \A s1, s2, s3, s4, s5, s6 : Sound(s1) /\ Sound(s2) /\ Sound(s3) /\ Sound(s4) /\ Sound(s5)
          /\ Sound(s6)
          => SoundList(<<s1, s2, s3, s4, s5, s6>>)
    /\ \A s1, s2, s3, s4, s5, s6, s7 : Sound(s1) /\ Sound(s2) /\ Sound(s3) /\ Sound(s4)
          /\ Sound(s5) /\ Sound(s6) /\ Sound(s7)
          => SoundList(<<s1, s2, s3, s4, s5, s6, s7>>)
    /\ \A s1, s2, s3, s4, s5, s6, s7, s8 : Sound(s1) /\ Sound(s2) /\ Sound(s3) /\ Sound(s4)
          /\ Sound(s5) /\ Sound(s6) /\ Sound(s7) /\ Sound(s8)
          => SoundList(<<s1, s2, s3, s4, s5, s6, s7, s8>>)
    /\ \A s1, s2, s3, s4, s5, s6, s7, s8, s9 : Sound(s1) /\ Sound(s2) /\ Sound(s3) /\ Sound(s4)
          /\ Sound(s5) /\ Sound(s6) /\ Sound(s7) /\ Sound(s8) /\ Sound(s9)
          => SoundList(<<s1, s2, s3, s4, s5, s6, s7, s8, s9>>)
<1>6. ASSUME NEW s1, NEW s2, NEW s3, NEW s4, NEW s5, NEW s6, Sound(s1), Sound(s2), Sound(s3),
             Sound(s4), Sound(s5), Sound(s6)
      PROVE  SoundList(<<s1, s2, s3, s4, s5, s6>>)
  <2>1. <<s1, s2, s3, s4, s5, s6>> \in Seq({s1, s2, s3, s4, s5, s6})
    OBVIOUS
  <2>2. \A i \in DOMAIN <<s1, s2, s3, s4, s5, s6>> : Sound(<<s1, s2, s3, s4, s5, s6>>[i])
    BY <1>6
  <2>3. QED
    BY <2>1, <2>2, SoundLists, Zenon
<1>7. ASSUME NEW s1, NEW s2, NEW s3, NEW s4, NEW s5, NEW s6, NEW s7, Sound(s1), Sound(s2), Sound(s3),
             Sound(s4), Sound(s5), Sound(s6), Sound(s7)
      PROVE  SoundList(<<s1, s2, s3, s4, s5, s6, s7>>)
  <2>1. <<s1, s2, s3, s4, s5, s6, s7>> \in Seq({s1, s2, s3, s4, s5, s6, s7})
    OBVIOUS
  <2>2. \A i \in DOMAIN <<s1, s2, s3, s4, s5, s6, s7>> : Sound(<<s1, s2, s3, s4, s5, s6, s7>>[i])
    BY <1>7
  <2>3. QED
    BY <2>1, <2>2, SoundLists, Zenon
<1>8. ASSUME NEW s1, NEW s2, NEW s3, NEW s4, NEW s5, NEW s6, NEW s7, NEW s8, Sound(s1), Sound(s2),
             Sound(s3), Sound(s4), Sound(s5), Sound(s6), Sound(s7), Sound(s8)
      PROVE  SoundList(<<s1, s2, s3, s4, s5, s6, s7, s8>>)
  <2>1. <<s1, s2, s3, s4, s5, s6, s7, s8>> \in Seq({s1, s2, s3, s4, s5, s6, s7, s8})
    OBVIOUS
  <2>2. \A i \in DOMAIN <<s1, s2, s3, s4, s5, s6, s7, s8>> : Sound(<<s1, s2, s3, s4, s5, s6, s7,
     s8>>[i])
    BY <1>8
  <2>3. QED
    BY <2>1, <2>2, SoundLists, Zenon
<1>9. ASSUME NEW s1, NEW s2, NEW s3, NEW s4, NEW s5, NEW s6, NEW s7, NEW s8, NEW s9, Sound(s1),
             Sound(s2), Sound(s3), Sound(s4), Sound(s5), Sound(s6), Sound(s7), Sound(s8), Sound(s9)
      PROVE  SoundList(<<s1, s2, s3, s4, s5, s6, s7, s8, s9>>)
  <2>1. <<s1, s2, s3, s4, s5, s6, s7, s8, s9>> \in Seq({s1, s2, s3, s4, s5, s6, s7, s8, s9})
    OBVIOUS
  <2>2. \A i \in DOMAIN <<s1, s2, s3, s4, s5, s6, s7, s8, s9>> : Sound(<<s1, s2, s3, s4, s5, s6, s7,
     s8, s9>>[i])
    BY <1>9
  <2>3. QED
    BY <2>1, <2>2, SoundLists, Zenon
<1>10. QED
  BY <1>6, <1>7, <1>8, <1>9

\* The choices that parse functions are made of.
LEMMA SoundChoices ==
    /\ \A c1 : SoundCase(c1)
          => SoundCases(<<c1>>)
    /\ \A c1, c2 : SoundCase(c1) /\ SoundCase(c2)
          => SoundCases(<<c1, c2>>)
    /\ \A c1, c2, c3 : SoundCase(c1) /\ SoundCase(c2) /\ SoundCase(c3)
          => SoundCases(<<c1, c2, c3>>)
    /\ \A c1, c2, c3, c4 : SoundCase(c1) /\ SoundCase(c2) /\ SoundCase(c3) /\ SoundCase(c4)
          => SoundCases(<<c1, c2, c3, c4>>)
    /\ \A c1, c2, c3, c4, c5 : SoundCase(c1) /\ SoundCase(c2) /\ SoundCase(c3) /\ SoundCase(c4)
          /\ SoundCase(c5)
          => SoundCases(<<c1, c2, c3, c4, c5>>)
<1>1. ASSUME NEW c1, SoundCase(c1)
      PROVE  SoundCases(<<c1>>)
  <2>1. \A i \in DOMAIN <<c1>> : SoundList(<<c1>>[i][2])
    BY <1>1 DEF SoundCase
  <2>2. <<c1>> \in Seq({c1})
    OBVIOUS
  <2>3. QED
    BY <2>1, <2>2, SoundChoice, Zenon DEF IsList
<1>2. ASSUME NEW c1, NEW c2, SoundCase(c1), SoundCase(c2)
      PROVE  SoundCases(<<c1, c2>>)
  <2>1. \A i \in DOMAIN <<c1, c2>> : SoundList(<<c1, c2>>[i][2])
    BY <1>2 DEF SoundCase
  <2>2. <<c1, c2>> \in Seq({c1, c2})
    OBVIOUS
  <2>3. QED
    BY <2>1, <2>2, SoundChoice, Zenon DEF IsList
<1>3. ASSUME NEW c1, NEW c2, NEW c3, SoundCase(c1), SoundCase(c2), SoundCase(c3)
      PROVE  SoundCases(<<c1, c2, c3>>)
  <2>1. \A i \in DOMAIN <<c1, c2, c3>> : SoundList(<<c1, c2, c3>>[i][2])
    BY <1>3 DEF SoundCase
  <2>2. <<c1, c2, c3>> \in Seq({c1, c2, c3})
    OBVIOUS
  <2>3. QED
    BY <2>1, <2>2, SoundChoice, Zenon DEF IsList
<1>4. ASSUME NEW c1, NEW c2, NEW c3, NEW c4, SoundCase(c1), SoundCase(c2), SoundCase(c3), SoundCase(c4)
      PROVE  SoundCases(<<c1, c2, c3, c4>>)
  <2>1. \A i \in DOMAIN <<c1, c2, c3, c4>> : SoundList(<<c1, c2, c3, c4>>[i][2])
    BY <1>4 DEF SoundCase
  <2>2. <<c1, c2, c3, c4>> \in Seq({c1, c2, c3, c4})
    OBVIOUS
  <2>3. QED
    BY <2>1, <2>2, SoundChoice, Zenon DEF IsList
<1>5. ASSUME NEW c1, NEW c2, NEW c3, NEW c4, NEW c5, SoundCase(c1), SoundCase(c2), SoundCase(c3),
             SoundCase(c4), SoundCase(c5)
      PROVE  SoundCases(<<c1, c2, c3, c4, c5>>)
  <2>1. \A i \in DOMAIN <<c1, c2, c3, c4, c5>> : SoundList(<<c1, c2, c3, c4, c5>>[i][2])
    BY <1>5 DEF SoundCase
  <2>2. <<c1, c2, c3, c4, c5>> \in Seq({c1, c2, c3, c4, c5})
    OBVIOUS
  <2>3. QED
    BY <2>1, <2>2, SoundChoice, Zenon DEF IsList
<1>6. QED
  BY <1>1, <1>2, <1>3, <1>4, <1>5

\* The functions that calls name, from the table of Routine.
LEMMA FunctionsAre ==
    /\ {"parseTopLevelItem", "parseFunctionDecl", "parseTypeParams", "parseParamList",
          "parseStructDecl",
        "parseEnumDecl", "parseImplBlock", "parseInterfaceDecl", "parseImportStmt", "parseConstDecl",
        "parseModuleDecl", "parseExportDecl", "parseLoadStmt", "parseCoroutineDecl", "parseStatement",
        "parseBlock", "blockStep", "topLevelStep", "parseLetStmt", "parseMutStmt", "parseExprStmt",
        "tryParseAssignment", "parseIfStmt", "parseIfStmtElif", "parseForStmt", "parseWhileStmt",
        "parseReturnStmt", "parseBreakStmt", "parseContinueStmt", "parseTryCatchStmt", "parseThrowStmt",
        "parseBytecodeStmt", "parseOpStmt", "parseMatchStmt", "parseTestStmt", "parseAssertStmt",
        "parseExpectStmt", "parseContract", "parseHotReloadStmt", "parsePrimary", "parsePostfix",
        "parseAtom", "parseSimpleType", "parseIdentifier", "parseType", "parseExpression"}
       \subseteq Functions
  BY DEF Functions, Routine

\* The steps that are over when they are taken, by their names in SourceParser.
LEMMA SimpleSteps ==
    /\ Sound(Take) /\ Sound(Error) /\ Sound(Break) /\ Sound(Node) /\ Sound(Null) /\ Sound(Same)
    /\ \A t : Sound(Expect(t)) /\ Sound(Must(t)) /\ Sound(MustOrRewind(t)) /\ Sound(Opt(t))
    /\ \A r : Sound(Return(r))
    /\ Sound(Semi)
<1> USE SoundSteps DEF Simple
<1>1. Sound(Take) /\ Sound(Error) /\ Sound(Break)
  BY DEF Take, Error, Break
<1>2. \A r : Sound(Return(r))
  BY DEF Return
<1>3. \A t : Sound(Expect(t)) /\ Sound(Must(t)) /\ Sound(MustOrRewind(t)) /\ Sound(Opt(t))
  BY DEF Expect, Must, MustOrRewind, Opt
<1>4. QED
  BY <1>1, <1>2, <1>3, Zenon DEF Node, Null, Same, Semi

\* Calls, by their names in SourceParser.
LEMMA CallSteps ==
    /\ \A f : f \in Functions => Sound(Call(f))
    /\ \A p : Sound(Expr(p))
    /\ Sound(Ident) /\ Sound(Type) /\ Sound(Block) /\ Sound(Stmt)
<1>1. \A f : f \in Functions => Sound(Call(f))
  BY SoundSteps, Zenon DEF Call
<1>2. "parseExpression" \in Functions
  BY FunctionsAre
<1>3. \A p : Sound(Expr(p))
  BY <1>2, SoundSteps, Zenon DEF Expr
<1>4. "parseIdentifier" \in Functions /\ "parseType" \in Functions /\ "parseBlock" \in Functions
             /\ "parseStatement" \in Functions
  BY FunctionsAre
<1>5. QED
  BY <1>1, <1>3, <1>4, Zenon DEF Ident, Type, Block, Stmt

\* Choices, by their names in SourceParser.
LEMMA BranchSteps ==
    /\ \A cs : SoundCases(cs) => Sound(Choose(cs))
    /\ \A p, l : SoundList(l) => SoundCase(<<p, l>>) /\ SoundCase(Else(l)) /\ Sound(When(p, l))
    /\ \A y, n : SoundList(y) /\ SoundList(n) => Sound(OnNull(y, n))
<1>1. \A cs : SoundCases(cs) => Sound(Choose(cs))
  BY SoundSteps, Zenon DEF Choose
<1>2. \A p, l : SoundList(l) => SoundCase(<<p, l>>)
  BY DEF SoundCase
<1>3. \A l : SoundList(l) => SoundCase(Else(l))
  BY DEF Else, SoundCase
<1>4. ASSUME NEW p, NEW l, SoundList(l) PROVE Sound(When(p, l))
  <2>1. SoundCases(<<<<p, l>>>>)
    BY <1>2, <1>4, SoundChoices, Zenon
  <2>2. QED
    BY <1>1, <2>1, Zenon DEF When
<1>5. \A y, n : SoundList(y) /\ SoundList(n) => Sound(OnNull(y, n))
  BY SoundSteps, Zenon DEF OnNull
<1>6. QED
  BY <1>1, <1>2, <1>3, <1>4, <1>5, Zenon

\* Steps that are not the round of a guarded loop.
LEMMA NoRoundSteps ==
    /\ NoRound(Take) /\ NoRound(Ident) /\ NoRound(Type) /\ NoRound(Stmt) /\ \A p : NoRound(Expr(p))
    /\ \A cs : NoRound(Choose(cs))
<1> USE DEF NoRound, RoundSteps, Call
<1>1. NoRound(Take)
  BY DEF Take
<1>2. NoRound(Ident) /\ NoRound(Type) /\ NoRound(Stmt)
  BY DEF Ident, Type, Stmt
<1>3. \A p : NoRound(Expr(p))
  BY DEF Expr
<1>4. \A cs : NoRound(Choose(cs))
  BY DEF Choose
<1>5. QED
  BY <1>1, <1>2, <1>3, <1>4, Zenon

\* Loops without a guard: what they begin with is not a guarded round.
LEMMA LoopSteps ==
    /\ \A stop, a : Sound(a) /\ NoRound(a) => Sound(While(stop, <<a>>))
    /\ \A stop, a, b : Sound(a) /\ Sound(b) /\ NoRound(a) => Sound(While(stop, <<a, b>>))
    /\ \A stop, a, b, c : Sound(a) /\ Sound(b) /\ Sound(c) /\ NoRound(a) => Sound(While(stop, <<a, b,
          c>>))
    /\ \A stop, a, b, c, d : Sound(a) /\ Sound(b) /\ Sound(c) /\ Sound(d) /\ NoRound(a)
          => Sound(While(stop, <<a, b, c, d>>))
    /\ \A stop, a, b, c, d, e : Sound(a) /\ Sound(b) /\ Sound(c) /\ Sound(d) /\ Sound(e) /\ NoRound(a)
          => Sound(While(stop, <<a, b, c, d, e>>))
<1>1. ASSUME NEW stop, NEW body, SoundList(body), NoRound(body[1]) PROVE Sound(While(stop, body))
  BY <1>1, SoundSteps, Zenon DEF While, WellGuarded, NoRound
<1>2. ASSUME NEW stop, NEW a, Sound(a), NoRound(a) PROVE Sound(While(stop, <<a>>))
  <2>1. SoundList(<<a>>) /\ <<a>>[1] = a
    BY <1>2, SoundTuples
  <2>2. QED
    BY <1>1, <1>2, <2>1, Zenon
<1>3. ASSUME NEW stop, NEW a, NEW b, Sound(a), Sound(b), NoRound(a) PROVE Sound(While(stop, <<a, b>>))
  <2>1. SoundList(<<a, b>>) /\ <<a, b>>[1] = a
    BY <1>3, SoundTuples
  <2>2. QED
    BY <1>1, <1>3, <2>1, Zenon
<1>4. ASSUME NEW stop, NEW a, NEW b, NEW c, Sound(a), Sound(b), Sound(c), NoRound(a)
      PROVE  Sound(While(stop, <<a, b, c>>))
  <2>1. SoundList(<<a, b, c>>) /\ <<a, b, c>>[1] = a
    BY <1>4, SoundTuples
  <2>2. QED
    BY <1>1, <1>4, <2>1, Zenon
<1>5. ASSUME NEW stop, NEW a, NEW b, NEW c, NEW d, Sound(a), Sound(b), Sound(c), Sound(d), NoRound(a)
      PROVE  Sound(While(stop, <<a, b, c, d>>))
  <2>1. SoundList(<<a, b, c, d>>) /\ <<a, b, c, d>>[1] = a
    BY <1>5, SoundTuples
  <2>2. QED
    BY <1>1, <1>5, <2>1, Zenon
<1>6. ASSUME NEW stop, NEW a, NEW b, NEW c, NEW d, NEW e, Sound(a), Sound(b), Sound(c), Sound(d),
             Sound(e), NoRound(a)
      PROVE  Sound(While(stop, <<a, b, c, d, e>>))
  <2>1. SoundList(<<a, b, c, d, e>>) /\ <<a, b, c, d, e>>[1] = a
    BY <1>6, SoundTuples
  <2>2. QED
    BY <1>1, <1>6, <2>1, Zenon
<1>7. QED
  BY <1>2, <1>3, <1>4, <1>5, <1>6, Zenon

\* Lists one after the other.
LEMMA SoundJoin ==
    ASSUME NEW a, NEW b, SoundList(a), SoundList(b)
    PROVE  SoundList(a \o b)
<1>1. PICK S : a \in Seq(S) /\ Closed(S)
  BY DEF SoundList
<1>2. PICK T : b \in Seq(T) /\ Closed(T)
  BY DEF SoundList
<1> DEFINE U == UNION {S, T}
<1>3. S \subseteq U /\ T \subseteq U
  OBVIOUS
<1>4. Closed(U)
  BY <1>1, <1>2, ClosedJoin
<1> HIDE DEF U
<1>5. a \in Seq(U) /\ b \in Seq(U)
  BY <1>1, <1>2, <1>3, SeqGrows
<1>6. a \o b \in Seq(U)
  BY <1>5
<1>7. QED
  BY <1>4, <1>6, Zenon DEF SoundList

\* Every parse function but the largest ones, one by one.
LEMMA RoutineLists ==
  /\ SoundList(parseIdentifier)
  /\ SoundList(parseTypeParams)
  /\ SoundList(parseFunctionDecl)
  /\ SoundList(parseStructDecl)
  /\ SoundList(parseEnumDecl)
  /\ SoundList(parseImplBlock)
  /\ SoundList(parseInterfaceDecl)
  /\ SoundList(parseImportStmt)
  /\ SoundList(parseConstDecl)
  /\ SoundList(parseModuleDecl)
  /\ SoundList(parseExportDecl)
  /\ SoundList(parseLoadStmt)
  /\ SoundList(parseParamList)
  /\ SoundList(parseCoroutineDecl)
  /\ SoundList(parseLetStmt)
  /\ SoundList(parseMutStmt)
  /\ SoundList(parseExprStmt)
  /\ SoundList(tryParseAssignment)
  /\ SoundList(IfTail)
  /\ SoundList(parseIfStmt)
  /\ SoundList(parseIfStmtElif)
  /\ SoundList(parseForStmt)
  /\ SoundList(parseWhileStmt)
  /\ SoundList(Result)
  /\ SoundList(parseReturnStmt)
  /\ SoundList(parseBreakStmt)
  /\ SoundList(parseContinueStmt)
  /\ SoundList(parseTryCatchStmt)
  /\ SoundList(parseThrowStmt)
  /\ SoundList(parseBytecodeStmt)
  /\ SoundList(parseOpStmt)
  /\ SoundList(parseMatchStmt)
  /\ SoundList(parseTestStmt)
  /\ SoundList(parseAssertStmt)
  /\ SoundList(parseExpectStmt)
  /\ SoundList(parseContract)
  /\ SoundList(parseHotReloadStmt)
  /\ SoundList(Script)
  /\ SoundList(parsePrimary)
  /\ SoundList(parsePostfix)
  /\ SoundList(StructLiteral)
  /\ SoundList(Lambda)
  /\ SoundList(parseSimpleType)
<1> USE FunctionsAre, SimpleSteps, CallSteps, BranchSteps, NoRoundSteps, LoopSteps, SoundTuples,
             SoundLongTuples, SoundChoices
<1>a. Sound(Typed) /\ Sound(Valued) /\ Sound(Arrow)
  BY DEF Typed, Valued, Arrow
<1>b. \A close : SoundList(Commas(close))
  BY DEF Commas

<1>1. SoundList(parseIdentifier)
  BY <1>a, <1>b, SoundJoin DEF parseIdentifier
<1>2. SoundList(parseTypeParams)
  BY <1>a, <1>b, SoundJoin DEF parseTypeParams
<1>3. SoundList(parseFunctionDecl)
  BY <1>a, <1>b, SoundJoin DEF parseFunctionDecl
<1>4. SoundList(parseStructDecl)
  BY <1>a, <1>b, SoundJoin DEF parseStructDecl
<1>5. SoundList(parseEnumDecl)
  BY <1>a, <1>b, SoundJoin DEF parseEnumDecl
<1>6. SoundList(parseImplBlock)
  BY <1>a, <1>b, SoundJoin DEF parseImplBlock
<1>7. SoundList(parseInterfaceDecl)
  BY <1>a, <1>b, SoundJoin DEF parseInterfaceDecl
<1>8. SoundList(parseImportStmt)
  BY <1>a, <1>b, SoundJoin DEF parseImportStmt
<1>9. SoundList(parseConstDecl)
  BY <1>a, <1>b, SoundJoin DEF parseConstDecl
<1>10. SoundList(parseModuleDecl)
  BY <1>a, <1>b, SoundJoin DEF parseModuleDecl
<1>11. SoundList(parseExportDecl)
  BY <1>a, <1>b, SoundJoin DEF parseExportDecl
<1>12. SoundList(parseLoadStmt)
  BY <1>a, <1>b, SoundJoin DEF parseLoadStmt
<1>13. SoundList(parseParamList)
  BY <1>a, <1>b, SoundJoin DEF parseParamList
<1>14. SoundList(parseCoroutineDecl)
  BY <1>a, <1>b, SoundJoin DEF parseCoroutineDecl
<1>15. SoundList(parseLetStmt)
  BY <1>a, <1>b, SoundJoin DEF parseLetStmt
<1>16. SoundList(parseMutStmt)
  BY <1>a, <1>b, SoundJoin DEF parseMutStmt
<1>17. SoundList(parseExprStmt)
  BY <1>a, <1>b, SoundJoin DEF parseExprStmt
<1>18. SoundList(tryParseAssignment)
  BY <1>a, <1>b, SoundJoin DEF tryParseAssignment
<1>19. SoundList(IfTail)
  BY <1>a, <1>b, SoundJoin DEF IfTail
<1>20. SoundList(parseIfStmt)
  BY <1>a, <1>b, SoundJoin, <1>19 DEF parseIfStmt
<1>21. SoundList(parseIfStmtElif)
  BY <1>a, <1>b, SoundJoin, <1>19 DEF parseIfStmtElif
<1>22. SoundList(parseForStmt)
  BY <1>a, <1>b, SoundJoin DEF parseForStmt
<1>23. SoundList(parseWhileStmt)
  BY <1>a, <1>b, SoundJoin DEF parseWhileStmt
<1>24. SoundList(Result)
  BY <1>a, <1>b, SoundJoin DEF Result
<1>25. SoundList(parseReturnStmt)
  BY <1>a, <1>b, SoundJoin, <1>24 DEF parseReturnStmt
<1>26. SoundList(parseBreakStmt)
  BY <1>a, <1>b, SoundJoin DEF parseBreakStmt
<1>27. SoundList(parseContinueStmt)
  BY <1>a, <1>b, SoundJoin DEF parseContinueStmt
<1>28. SoundList(parseTryCatchStmt)
  BY <1>a, <1>b, SoundJoin DEF parseTryCatchStmt
<1>29. SoundList(parseThrowStmt)
  BY <1>a, <1>b, SoundJoin DEF parseThrowStmt
<1>30. SoundList(parseBytecodeStmt)
  BY <1>a, <1>b, SoundJoin DEF parseBytecodeStmt
<1>31. SoundList(parseOpStmt)
  BY <1>a, <1>b, SoundJoin DEF parseOpStmt
<1>32. SoundList(parseMatchStmt)
  BY <1>a, <1>b, SoundJoin DEF parseMatchStmt
<1>33. SoundList(parseTestStmt)
  BY <1>a, <1>b, SoundJoin DEF parseTestStmt
<1>34. SoundList(parseAssertStmt)
  BY <1>a, <1>b, SoundJoin DEF parseAssertStmt
<1>35. SoundList(parseExpectStmt)
  BY <1>a, <1>b, SoundJoin DEF parseExpectStmt
<1>36. SoundList(parseContract)
  BY <1>a, <1>b, SoundJoin DEF parseContract
<1>37. SoundList(parseHotReloadStmt)
  BY <1>a, <1>b, SoundJoin DEF parseHotReloadStmt
<1>38. SoundList(Script)
  BY <1>a, <1>b, SoundJoin DEF Script
<1>39. SoundList(parsePrimary)
  BY <1>a, <1>b, SoundJoin DEF parsePrimary
<1>40. SoundList(parsePostfix)
  BY <1>a, <1>b, SoundJoin DEF parsePostfix
<1>41. SoundList(StructLiteral)
  BY <1>a, <1>b, SoundJoin DEF StructLiteral
<1>42. SoundList(Lambda)
  BY <1>a, <1>b, SoundJoin DEF Lambda
<1>43. SoundList(parseSimpleType)
  BY <1>a, <1>b, SoundJoin DEF parseSimpleType
<1> QED
  BY <1>1, <1>2, <1>3, <1>4, <1>5, <1>6, <1>7, <1>8, <1>9, <1>10, <1>11, <1>12, <1>13, <1>14, <1>15,
     <1>16, <1>17, <1>18, <1>19, <1>20, <1>21, <1>22, <1>23, <1>24, <1>25, <1>26, <1>27, <1>28,
     <1>29, <1>30, <1>31, <1>32, <1>33, <1>34, <1>35, <1>36, <1>37, <1>38, <1>39, <1>40, <1>41,
     <1>42, <1>43

\* The two loops that have a guard.
LEMMA GuardedLoops ==
    /\ Sound(While({}, <<Call("topLevelStep")>>))
    /\ Sound(While({"RBRACE"}, <<Call("blockStep")>>))
<1>1. Sound(Call("topLevelStep")) /\ Sound(Call("blockStep"))
  BY FunctionsAre, CallSteps
<1>2. SoundList(<<Call("topLevelStep")>>) /\ SoundList(<<Call("blockStep")>>)
  BY <1>1, SoundTuples, Zenon
<1>3. WellGuarded({}, <<Call("topLevelStep")>>)
  BY DEF WellGuarded
<1>4. WellGuarded({"RBRACE"}, <<Call("blockStep")>>)
  BY DEF WellGuarded, Call
<1>5. QED
  BY <1>2, <1>3, <1>4, SoundSteps, Zenon DEF While

\* The functions that hold the guarded loops, and their rounds.
LEMMA RoundLists ==
    SoundList(parseTopLevel) /\ SoundList(topLevelStep) /\ SoundList(parseBlock) /\ SoundList(blockStep)
<1>1. \A b : Sound(<<"keep">>) /\ Sound(<<"stalled", b>>)
  BY SoundSteps DEF Simple
<1> USE FunctionsAre, SimpleSteps, CallSteps, SoundTuples, GuardedLoops, <1>1
<1>2. SoundList(parseTopLevel)
  BY DEF parseTopLevel
<1>3. SoundList(topLevelStep)
  BY DEF topLevelStep
<1>4. SoundList(parseBlock)
  BY DEF parseBlock
<1>5. SoundList(blockStep)
  BY DEF blockStep
<1>6. QED
  BY <1>2, <1>3, <1>4, <1>5

\* Cases one after the other.
CaseList(cs) == /\ \E T : cs \in Seq(T)
                /\ \A i \in DOMAIN cs : SoundList(cs[i][2])

\* Lists of cases, put together.
LEMMA CaseJoin ==
    ASSUME NEW a, NEW b, CaseList(a), CaseList(b)
    PROVE  CaseList(a \o b)
<1>1. PICK S : a \in Seq(S)
  BY DEF CaseList
<1>2. PICK T : b \in Seq(T)
  BY DEF CaseList
<1>3. a \in Seq(S \cup T) /\ b \in Seq(S \cup T)
  BY <1>1, <1>2, SeqGrows
<1>4. a \o b \in Seq(S \cup T)
  BY <1>3
<1>5. ASSUME NEW k \in DOMAIN (a \o b) PROVE SoundList((a \o b)[k][2])
  <2>1. /\ Len(a) \in Nat /\ DOMAIN a = 1..Len(a) /\ Len(b) \in Nat /\ DOMAIN b = 1..Len(b)
        /\ k \in 1..(Len(a) + Len(b))
        /\ (a \o b)[k] = IF k <= Len(a) THEN a[k] ELSE b[k - Len(a)]
    BY <1>3, JoinElements
  <2>2. CASE k <= Len(a)
    <3>1. k \in DOMAIN a /\ (a \o b)[k] = a[k]
      BY <2>1, <2>2
    <3>2. QED
      BY <3>1, Zenon DEF CaseList
  <2>3. CASE ~(k <= Len(a))
    <3>1. k - Len(a) \in DOMAIN b /\ (a \o b)[k] = b[k - Len(a)]
      BY <2>1, <2>3
    <3>2. QED
      BY <3>1, Zenon DEF CaseList
  <2>4. QED
    BY <2>2, <2>3
<1>6. QED
  BY <1>4, <1>5, Zenon DEF CaseList

\* Lists of cases of the lengths that occur.
LEMMA CaseList1 ==
    ASSUME NEW c1,
           SoundCase(c1)
    PROVE  CaseList(<<c1>>)
<1>1. <<c1>> \in Seq({c1})
  OBVIOUS
<1>2. \A i \in DOMAIN <<c1>> : SoundList(<<c1>>[i][2])
  BY DEF SoundCase
<1>3. QED
  BY <1>1, <1>2 DEF CaseList

LEMMA CaseList2 ==
    ASSUME NEW c1, NEW c2,
           SoundCase(c1), SoundCase(c2)
    PROVE  CaseList(<<c1, c2>>)
<1>1. <<c1, c2>> \in Seq({c1, c2})
  OBVIOUS
<1>2. \A i \in DOMAIN <<c1, c2>> : SoundList(<<c1, c2>>[i][2])
  BY DEF SoundCase
<1>3. QED
  BY <1>1, <1>2 DEF CaseList

LEMMA CaseList8 ==
    ASSUME NEW c1, NEW c2, NEW c3, NEW c4, NEW c5, NEW c6, NEW c7, NEW c8,
           SoundCase(c1), SoundCase(c2), SoundCase(c3), SoundCase(c4), SoundCase(c5), SoundCase(c6),
              SoundCase(c7), SoundCase(c8)
    PROVE  CaseList(<<c1, c2, c3, c4, c5, c6, c7, c8>>)
<1>1. <<c1, c2, c3, c4, c5, c6, c7, c8>> \in Seq({c1, c2, c3, c4, c5, c6, c7, c8})
  OBVIOUS
<1>2. \A i \in DOMAIN <<c1, c2, c3, c4, c5, c6, c7, c8>> : SoundList(<<c1, c2, c3, c4, c5, c6, c7,
             c8>>[i][2])
  BY DEF SoundCase
<1>3. QED
  BY <1>1, <1>2 DEF CaseList

LEMMA CaseList9 ==
    ASSUME NEW c1, NEW c2, NEW c3, NEW c4, NEW c5, NEW c6, NEW c7, NEW c8, NEW c9,
           SoundCase(c1), SoundCase(c2), SoundCase(c3), SoundCase(c4), SoundCase(c5), SoundCase(c6),
              SoundCase(c7), SoundCase(c8), SoundCase(c9)
    PROVE  CaseList(<<c1, c2, c3, c4, c5, c6, c7, c8, c9>>)
<1>1. <<c1, c2, c3, c4, c5, c6, c7, c8, c9>> \in Seq({c1, c2, c3, c4, c5, c6, c7, c8, c9})
  OBVIOUS
<1>2. \A i \in DOMAIN <<c1, c2, c3, c4, c5, c6, c7, c8, c9>> : SoundList(<<c1, c2, c3, c4, c5, c6,
             c7, c8, c9>>[i][2])
  BY DEF SoundCase
<1>3. QED
  BY <1>1, <1>2 DEF CaseList

LEMMA CaseList12 ==
    ASSUME NEW c1, NEW c2, NEW c3, NEW c4, NEW c5, NEW c6, NEW c7, NEW c8, NEW c9, NEW c10, NEW c11,
           NEW c12,
           SoundCase(c1), SoundCase(c2), SoundCase(c3), SoundCase(c4), SoundCase(c5), SoundCase(c6),
              SoundCase(c7), SoundCase(c8), SoundCase(c9), SoundCase(c10), SoundCase(c11),
              SoundCase(c12)
    PROVE  CaseList(<<c1, c2, c3, c4, c5, c6, c7, c8, c9, c10, c11, c12>>)
<1>1. <<c1, c2, c3, c4, c5, c6, c7, c8, c9, c10, c11, c12>> \in Seq({c1, c2, c3, c4, c5, c6, c7, c8,
             c9, c10, c11, c12})
  OBVIOUS
<1>2. ASSUME NEW i \in DOMAIN <<c1, c2, c3, c4, c5, c6, c7, c8, c9, c10, c11,
             c12>> PROVE SoundList(<<c1, c2, c3, c4, c5, c6, c7, c8, c9, c10, c11, c12>>[i][2])
  <2>1. i \in {1, 2, 3, 4, 5, 6, 7, 8, 9, 10, 11, 12}
    OBVIOUS
  <2>2. QED
    BY <2>1 DEF SoundCase
<1>3. QED
  BY <1>1, <1>2 DEF CaseList

LEMMA CaseList25 ==
    ASSUME NEW c1, NEW c2, NEW c3, NEW c4, NEW c5, NEW c6, NEW c7, NEW c8, NEW c9, NEW c10, NEW c11,
           NEW c12, NEW c13, NEW c14, NEW c15, NEW c16, NEW c17, NEW c18, NEW c19, NEW c20, NEW c21,
           NEW c22, NEW c23, NEW c24, NEW c25,
           SoundCase(c1), SoundCase(c2), SoundCase(c3), SoundCase(c4), SoundCase(c5), SoundCase(c6),
              SoundCase(c7), SoundCase(c8), SoundCase(c9), SoundCase(c10), SoundCase(c11),
              SoundCase(c12), SoundCase(c13), SoundCase(c14), SoundCase(c15), SoundCase(c16),
              SoundCase(c17), SoundCase(c18), SoundCase(c19), SoundCase(c20), SoundCase(c21),
              SoundCase(c22), SoundCase(c23), SoundCase(c24), SoundCase(c25)
    PROVE  CaseList(<<c1, c2, c3, c4, c5, c6, c7, c8, c9, c10, c11, c12, c13, c14, c15, c16, c17,
           c18, c19, c20, c21, c22, c23, c24, c25>>)
<1>1. <<c1, c2, c3, c4, c5, c6, c7, c8, c9, c10, c11, c12, c13, c14, c15, c16, c17, c18, c19, c20,
             c21, c22, c23, c24, c25>> \in Seq({c1, c2, c3, c4, c5, c6, c7, c8, c9, c10, c11, c12,
             c13, c14, c15, c16, c17, c18, c19, c20, c21, c22, c23, c24, c25})
  OBVIOUS
<1>2. ASSUME NEW i \in DOMAIN <<c1, c2, c3, c4, c5, c6, c7, c8, c9, c10, c11, c12, c13, c14, c15,
             c16, c17, c18, c19, c20, c21, c22, c23, c24, c25>> PROVE SoundList(<<c1, c2, c3, c4, c5,
             c6, c7, c8, c9, c10, c11, c12, c13, c14, c15, c16, c17, c18, c19, c20, c21, c22, c23,
             c24, c25>>[i][2])
  <2>1. i \in {1, 2, 3, 4, 5, 6, 7, 8, 9, 10, 11, 12, 13, 14, 15, 16, 17, 18, 19, 20, 21, 22, 23, 24,
     25}
    OBVIOUS
  <2>2. QED
    BY <2>1 DEF SoundCase
<1>3. QED
  BY <1>1, <1>2 DEF CaseList

\* A choice among such cases.
LEMMA ChooseOf == \A cs : CaseList(cs) => Sound(Choose(cs))
  BY SoundChoice, BranchSteps, Zenon DEF CaseList, IsList

\* The table of parseStatement.
LEMMA DispatchList == CaseList(Dispatch)
  BY FunctionsAre, CallSteps, SoundTuples, BranchSteps, CaseList25 DEF Dispatch

\* parseStatement: its table and the cases before and after it.
LEMMA StatementSound == SoundList(parseStatement)
<1> USE FunctionsAre, SimpleSteps, CallSteps, BranchSteps, SoundTuples, SoundChoices, SoundJoin,
             RoutineLists
<1> DEFINE setting == <<Take, Ident, Choose(<< <<<<{"to", "EQUAL"}>>, <<Take>>>>, Else(<<Error>>) >>),
                        Expr(P_NONE), Semi, Node>>
           A == << <<<<{"function"}>>, <<Call("parseFunctionDecl")>>>>,
        <<<<{"give"}>>, <<Take>> \o Result>>,
        <<<<Says \cup {"INPUT", "ask"}, {"LPAREN"}>>, <<Call("parseExprStmt")>>>>,
        <<<<Says>>, <<Take, Expr(P_NONE), Semi, Node>>>>,
        <<<<{"INPUT", "ask"}>>, <<Take, Ident, Semi, Node>>>>,
        <<<<{"set"}>>, setting>>,
        <<<<{"repeat"}>>, <<Take, Expr(P_ADD), Opt("times"), Stmt, Node>>>>,
        <<<<{"REQUIRES", "ENSURES", "INVARIANT"}>>, <<Call("parseContract")>>>>,
        <<<<{"LBRACE"}>>, <<Block>>>> >>
           B == <<Else(<<Call("parseExprStmt")>>)>>
<1>1. parseStatement = <<Choose(A \o Dispatch \o B)>>
  BY Zenon DEF parseStatement
<1>2. SoundList(setting)
  BY SoundLongTuples
<1> HIDE DEF setting
<1>3. CaseList(A)
  BY <1>2, CaseList9
<1>4. CaseList(B)
  BY CaseList1
<1> HIDE DEF A, B
<1>5. CaseList(A \o Dispatch \o B)
  BY ONLY <1>3, <1>4, DispatchList, CaseJoin, Zenon
<1>6. QED
  BY <1>1, <1>5, ChooseOf, Zenon

\* parseTopLevelItem, parseAtom and parseGenericType, the other large ones.
LEMMA TopLevelItemSound == SoundList(parseTopLevelItem)
<1> USE FunctionsAre, SimpleSteps, CallSteps, BranchSteps, SoundTuples, SoundChoices, SoundJoin,
             RoutineLists
<1> DEFINE public == <<Take, Choose(<< <<<<{"FN"}>>, <<Call("parseFunctionDecl")>>>>,
                                       <<<<{"STRUCT"}>>, <<Call("parseStructDecl")>>>>,
                                       Else(<<Error, Take, Null>>) >>)>>
           A == <<
        <<<<{"function"}>>, <<Call("parseFunctionDecl")>>>>,
        <<<<Says \cup {"INPUT"}, {"LPAREN"}>>, Script>>,
        <<<<Says \cup {"INPUT", "ask", "set", "repeat", "give"}>>, <<Stmt>>>>,
        <<<<{"INTERFACE"}>>, <<Call("parseInterfaceDecl")>>>>,
        <<<<{"IMPORT"}>>, <<Call("parseImportStmt")>>>>,
        <<<<{"COROUTINE"}>>, <<Call("parseCoroutineDecl")>>>>,
        <<<<{"REQUIRES", "ENSURES", "INVARIANT"}>>, <<Call("parseContract")>>>>,
        <<<<{"PUB"}>>, public>> >>
           B == <<<<<<Idents>>, <<Call("tryParseAssignment"), OnNull(Script, <<>>)>>>>, Else(Script)>>
<1>1. parseTopLevelItem = <<Choose(A \o Dispatch \o B)>>
  BY Zenon DEF parseTopLevelItem
<1>2. SoundList(public)
  OBVIOUS
<1> HIDE DEF public
<1>3. CaseList(A)
  BY <1>2, CaseList8
<1>4. CaseList(B)
  BY CaseList2
<1> HIDE DEF A, B
<1>5. CaseList(A \o Dispatch \o B)
  BY ONLY <1>3, <1>4, DispatchList, CaseJoin, Zenon
<1>6. QED
  BY <1>1, <1>5, ChooseOf, Zenon

LEMMA AtomSound == SoundList(parseAtom)
<1> USE FunctionsAre, SimpleSteps, CallSteps, BranchSteps, LoopSteps, NoRoundSteps, SoundTuples,
             SoundChoices, SoundJoin, RoutineLists
<1>1. Sound(<<"interpolate">>)
  BY SoundSteps DEF Simple
<1>2. \A close : SoundList(Commas(close))
  BY DEF Commas
<1> DEFINE blockExpression == <<Take, While({"RBRACE"}, <<Stmt, Semi>>), Expect("RBRACE"), Null>>
           A == <<
        <<<<{"INT_T", "F32", "F64", "INPUT", "ASSERT", "EXPECT", "TEST"} \cup Says, {"LPAREN"}>>,
          <<Take, Node>>>>,
        <<<<Literals>>, <<Take, Node>>>>,
        <<<<{"INTERPOLATED"}>>, <<<<"interpolate">>, Node>>>>,
        <<<<{"LPAREN"}>>, <<Take, Expr(P_NONE), Expect("RPAREN"), Same>>>>,
        <<<<Idents, {"LBRACE"}, Idents, {"COLON"}>>, StructLiteral>>,
        <<<<Idents>>, <<Take, Node>>>>,
        <<<<{"LBRACKET"}>>, <<Take>> \o Commas("RBRACKET") \o <<Node>>>>,
        <<<<{"LBRACE"}>>, blockExpression>>,
        <<<<If>>, <<Call("parseIfStmt"), Node>>>>,
        <<<<{"MATCH"}>>, <<Call("parseMatchStmt"), Node>>>>,
        <<<<{"FN"}>>, Lambda>>,
        Else(<<Error, Take, Null>>) >>
<1>3. parseAtom = <<Choose(A)>>
  BY Zenon DEF parseAtom
<1>4. SoundList(blockExpression)
  OBVIOUS
<1> HIDE DEF blockExpression
<1>5. CaseList(A)
  BY <1>1, <1>2, <1>4, CaseList12
<1> HIDE DEF A
<1>6. QED
  BY <1>3, <1>5, ChooseOf

LEMMA TypeSound == SoundList(parseGenericType)
<1> USE FunctionsAre, SimpleSteps, CallSteps, BranchSteps, LoopSteps, NoRoundSteps, SoundTuples,
             SoundChoices, SoundJoin
<1>1. Sound(<<"crash">>)
  BY SoundSteps DEF Simple
<1>2. \A close, end : Sound(end) => SoundList(Arguments(close, end))
  BY DEF Arguments
<1>3. \A end : Sound(end) => SoundList(Generic(end))
  BY <1>2 DEF Generic
<1>4. QED
  BY <1>1, <1>3 DEF parseGenericType

\* parseExpression, whatever the precedence, and what climbing puts on the stack.
LEMMA ExpressionSound ==
    /\ \A p : SoundList(parseExpression(p))
    /\ \A r : SoundList(Conditional(r))
    /\ \A p : SoundList(<<Take, Expr(p), <<"made">>>>)
<1> USE FunctionsAre, SimpleSteps, CallSteps, BranchSteps, SoundTuples, SoundChoices
<1>1. Sound(<<"made">>) /\ (\A p : Sound(<<"climb", p>>)) /\ (\A r : Sound(<<"must", "ELSE", r>>))
  BY SoundSteps DEF Simple
<1>2. \A p : SoundList(parseExpression(p))
  BY <1>1 DEF parseExpression
<1>3. \A r : SoundList(Conditional(r))
  BY <1>1 DEF Conditional
<1>4. \A p : SoundList(<<Take, Expr(p), <<"made">>>>)
  BY <1>1
<1>5. QED
  BY <1>2, <1>3, <1>4

\* Every function the parser calls is made of sound steps.
LEMMA RoutinesSound ==
    ASSUME NEW f \in Functions, NEW p
    PROVE  SoundList(Steps(f, p))
<1>1. CASE f = "parseExpression"
  BY <1>1, ExpressionSound DEF Steps
<1>2. CASE f # "parseExpression"
  <2>1. f \in DOMAIN Routine /\ Steps(f, p) = Routine[f]
    BY <1>2 DEF Functions, Steps
  <2>2. SoundList(Routine[f])
    BY <2>1, RoutineLists, RoundLists, TopLevelItemSound, StatementSound, AtomSound,
       TypeSound DEF Routine
  <2>3. QED
    BY <2>1, <2>2
<1>3. QED
  BY <1>1, <1>2

Guarded(s) == s[1] = "while" /\ s[3][1] \in RoundSteps
Top(s) == s[3][1] = Call("topLevelStep")
Begun(s) == Guarded(s) /\ s[4] # -1

\* What the call stack holds: steps as they are written down, calls to return
\* from, loops that have begun.
Frame(s) ==
    \/ Sound(s)
    \/ s = <<"end", s[2]>> /\ s[2] \in Nat
    \/ /\ s = <<"while", s[2], s[3], s[4]>> /\ s[4] \in Nat
       /\ Sound(<<"while", s[2], s[3], -1>>)

\* What a sound step consists of.
LEMMA SoundKinds ==
    ASSUME NEW s, Sound(s)
    PROVE  /\ s[1] # "end"
           /\ s[1] = "choose" => IsList(s[2]) /\ \A i \in DOMAIN s[2] : SoundList(s[2][i][2])
           /\ s[1] = "onNull" => SoundList(s[2]) /\ SoundList(s[3])
           /\ s[1] = "while" => /\ s = <<"while", s[2], s[3], -1>>
                                /\ SoundList(s[3]) /\ WellGuarded(s[2], s[3])
           /\ s[1] = "call" => s[2] \in Functions
<1>1. PICK S : s \in S /\ Closed(S)
  BY DEF Sound
<1>2. \A l : l \in Seq(S) => SoundList(l)
  BY <1>1 DEF SoundList
<1>3. CASE s[1] \in Simple
  BY <1>3 DEF Simple
<1>4. CASE \E f, p : s = <<"call", f, p>> /\ f \in Functions
  BY <1>4
<1>5. CASE \E cs : s = <<"choose", cs>> /\ IsList(cs) /\ \A i \in DOMAIN cs : cs[i][2] \in Seq(S)
  <2>1. PICK cs : s = <<"choose", cs>> /\ IsList(cs) /\ \A i \in DOMAIN cs : cs[i][2] \in Seq(S)
    BY <1>5
  <2>2. s[1] = "choose" /\ s[2] = cs
    BY <2>1
  <2>3. \A i \in DOMAIN cs : SoundList(cs[i][2])
    BY <1>2, <2>1
  <2>4. QED
    BY <2>1, <2>2, <2>3
<1>6. CASE \E y, n : s = <<"onNull", y, n>> /\ y \in Seq(S) /\ n \in Seq(S)
  BY <1>2, <1>6
<1>7. CASE \E stop, body : s = <<"while", stop, body, -1>> /\ body \in Seq(S) /\ WellGuarded(stop, body)
  <2>1. PICK stop, body : s = <<"while", stop, body, -1>> /\ body \in Seq(S) /\ WellGuarded(stop, body)
    BY <1>7
  <2>2. s[1] = "while" /\ s[2] = stop /\ s[3] = body
    BY <2>1
  <2>3. QED
    BY <1>2, <2>1, <2>2
<1>8. QED
  BY <1>1, <1>3, <1>4, <1>5, <1>6, <1>7, Zenon DEF Closed

\* What a frame consists of.
LEMMA FrameKinds ==
    ASSUME NEW s, Frame(s)
    PROVE  /\ s[1] = "end" => s = <<"end", s[2]>> /\ s[2] \in Nat
           /\ s[1] = "choose" => IsList(s[2]) /\ \A i \in DOMAIN s[2] : SoundList(s[2][i][2])
           /\ s[1] = "onNull" => SoundList(s[2]) /\ SoundList(s[3])
           /\ s[1] = "while" => /\ s = <<"while", s[2], s[3], s[4]>>
                                /\ s[4] \in Nat \cup {-1}
                                /\ SoundList(s[3]) /\ WellGuarded(s[2], s[3])
                                /\ Sound(<<"while", s[2], s[3], -1>>)
           /\ s[1] = "call" => s[2] \in Functions
<1>1. CASE Sound(s)
  <2>1. s[1] = "while" => s = <<"while", s[2], s[3], -1>>
    BY <1>1, SoundKinds
  <2>2. s[1] = "while" => s[4] = -1 /\ s = <<"while", s[2], s[3], s[4]>> /\ Sound(<<"while", s[2],
     s[3], -1>>)
    BY <1>1, <2>1
  <2>3. QED
    BY <1>1, <2>2, SoundKinds
<1>2. CASE s = <<"end", s[2]>> /\ s[2] \in Nat
  <2>1. s[1] = "end"
    BY <1>2
  <2>2. QED
    BY <1>2, <2>1
<1>3. CASE s = <<"while", s[2], s[3], s[4]>> /\ s[4] \in Nat /\ Sound(<<"while", s[2], s[3], -1>>)
  <2>1. s[1] = "while"
    BY <1>3
  <2> DEFINE w == <<"while", s[2], s[3], -1>>
  <2>2. w[1] = "while" /\ w[2] = s[2] /\ w[3] = s[3] /\ Sound(w)
    BY <1>3
  <2> HIDE DEF w
  <2>3. SoundList(w[3]) /\ WellGuarded(w[2], w[3])
    BY <2>2, SoundKinds
  <2>4. SoundList(s[3]) /\ WellGuarded(s[2], s[3])
    BY <2>2, <2>3
  <2>5. QED
    BY <1>3, <2>1, <2>4
<1>4. QED
  BY <1>1, <1>2, <1>3 DEF Frame

\* What a list as it is written down consists of: nothing has begun in it.
LEMMA ListKinds ==
    ASSUME NEW l, SoundList(l)
    PROVE  /\ \E S : l \in Seq(S)
           /\ Len(l) \in Nat /\ DOMAIN l = 1..Len(l)
           /\ \A i \in DOMAIN l : Sound(l[i]) /\ Frame(l[i]) /\ l[i][1] # "end" /\ ~Begun(l[i])
<1>1. PICK S : l \in Seq(S) /\ Closed(S)
  BY DEF SoundList
<1>2. Len(l) \in Nat /\ DOMAIN l = 1..Len(l) /\ \A i \in DOMAIN l : l[i] \in S
  BY <1>1, LenProperties, ElementOfSeq
<1>3. ASSUME NEW i \in DOMAIN l PROVE Sound(l[i]) /\ Frame(l[i]) /\ l[i][1] # "end" /\ ~Begun(l[i])
  <2>1. Sound(l[i])
    BY <1>1, <1>2 DEF Sound
  <2>2. l[i][1] # "end" /\ (l[i][1] = "while" => l[i] = <<"while", l[i][2], l[i][3], -1>>)
    BY <2>1, SoundKinds
  <2>3. ~Begun(l[i])
    BY <2>2 DEF Begun, Guarded
  <2>4. QED
    BY <2>1, <2>2, <2>3 DEF Frame
<1>4. QED
  BY <1>1, <1>2, <1>3

\* A guarded loop stops where the code says, and its round is a call.
LEMMA GuardedForm ==
    ASSUME NEW s, Frame(s), Guarded(s)
    PROVE  /\ s[3] = <<s[3][1]>> /\ s[2] = (IF Top(s) THEN {} ELSE {"RBRACE"})
           /\ s[3][1] = Call(IF Top(s) THEN "topLevelStep" ELSE "blockStep")
<1>1. s[3][1] \in RoundSteps /\ WellGuarded(s[2], s[3])
  BY FrameKinds DEF Guarded
<1>2. QED
  BY <1>1 DEF WellGuarded, RoundSteps, Top, Call

Ending(t, k) == t[k - 1] = <<"end", t[k][4]>>
Watching(t, k) ==
    /\ Ending(t, k)
    /\ t[k - 2] = IF Top(t[k]) THEN <<"stalled", TRUE>> ELSE <<"stalled", FALSE>>
Between(s) == IF Top(s) THEN <<"keep">> ELSE Semi
Item(s) == IF Top(s) THEN Call("parseTopLevelItem") ELSE Call("parseStatement")
Spacing(t, k) == Watching(t, k) /\ t[k - 3] = Between(t[k])
Beyond(s, p, c) == p > s[4] \/ c \in s[2] \cup Eof

\* Where the round of the guarded loop t[k] has come to, at position p and
\* token c: it is over, or its call, its end, what follows its item, or its
\* item is what comes next, or its item is under way.
Near(t, p, c, k) ==
    \/ k = 1 /\ Beyond(t[1], p, c)
    \/ k = 2 /\ t[1] = t[2][3][1] /\ p = t[2][4]
    \/ k = 2 /\ Ending(t, 2) /\ Beyond(t[2], p, c)
    \/ k = 3 /\ t[1] = <<"nudge">> /\ Ending(t, 3)
    \/ k = 3 /\ Watching(t, 3)
    \/ k = 4 /\ t[1] = <<"sync">> /\ t[2] = <<"nudge">> /\ Ending(t, 4)
    \/ k = 4 /\ Spacing(t, 4)
    \/ k = 5 /\ t[1] = Item(t[5]) /\ Spacing(t, 5)
Deep(t, k) == k > 4 /\ t[k - 4][1] = "end" /\ Spacing(t, k)
Round(t, p, c, k) == Near(t, p, c, k) \/ Deep(t, k)

EndsDescend(t, p) ==
    \A e \in DOMAIN t : t[e][1] = "end" =>
        /\ t[e][2] \in 1..p
        /\ \A f \in 1..e : t[f][1] = "end" => t[e][2] <= t[f][2]

\* The last on the stack is the loop of parseTopLevel.
Bottom(t) ==
    t # <<>> => /\ Guarded(t[Len(t)]) /\ Top(t[Len(t)])
                /\ t[Len(t)][4] = -1 => Len(t) = 1

Stack(t, p, c) ==
    /\ \E S : t \in Seq(S)
    /\ \A k \in DOMAIN t : Frame(t[k])
    /\ p \in Nat \ {0}
    /\ EndsDescend(t, p)
    /\ \A k \in DOMAIN t : Begun(t[k]) => Round(t, p, c, k)
    /\ Bottom(t)

\* The first n frames of t make room for the list l.
Spliced(t, n, l) == l \o SubSeq(t, n + 1, Len(t))

\* Which frame of t is which frame of the spliced stack.
LEMMA SplicedIs ==
    ASSUME NEW S, NEW T, NEW t \in Seq(S), NEW l \in Seq(T), NEW n \in Nat, n <= Len(t)
    PROVE  LET u == Spliced(t, n, l)
           IN /\ \E U : u \in Seq(U)
              /\ Len(u) = Len(l) + Len(t) - n /\ Len(u) \in Nat /\ DOMAIN u = 1..Len(u)
              /\ Len(l) \in Nat /\ DOMAIN l = 1..Len(l)
              /\ Len(t) \in Nat /\ DOMAIN t = 1..Len(t)
              /\ \A k \in 1..Len(l) : u[k] = l[k]
              /\ \A k \in Len(l) + 1 .. Len(u) : u[k] = t[k - Len(l) + n]
                    /\ k - Len(l) + n \in n + 1 .. Len(t)
<1> DEFINE b == SubSeq(t, n + 1, Len(t))
           U == S \cup T
<1>1. Len(t) \in Nat /\ DOMAIN t = 1..Len(t) /\ Len(l) \in Nat /\ DOMAIN l = 1..Len(l)
  BY LenProperties
<1>2. n + 1 \in 1 .. Len(t) + 1 /\ Len(t) \in n .. Len(t)
  BY <1>1
<1>0. \A i \in n + 1 .. Len(t) : t[i] \in S
  BY <1>1, ElementOfSeq
<1>2a. /\ b \in Seq(S)
       /\ Len(b) = IF n + 1 <= Len(t) THEN Len(t) - (n + 1) + 1 ELSE 0
       /\ \A i \in 1 .. Len(t) - (n + 1) + 1 : b[i] = t[(n + 1) + i - 1]
  BY <1>0, <1>1, SubSeqProperties
<1> HIDE DEF b
<1>2b. \A k \in 1 .. Len(t) - n : k \in 1 .. Len(t) - (n + 1) + 1 /\ (n + 1) + k - 1 = n + k
  BY <1>1, SMTT(60)
<1>2c. Len(b) = Len(t) - n
  <2>1. ASSUME NEW N \in Nat, NEW x, n <= N, x = IF n + 1 <= N THEN N - (n + 1) + 1 ELSE 0
        PROVE  x = N - n
    BY <2>1
  <2>2. QED
    BY <1>1, <1>2a, <2>1
<1>3. b \in Seq(S) /\ Len(b) = Len(t) - n /\ \A k \in 1 .. Len(t) - n : b[k] = t[n + k]
  BY <1>2a, <1>2b, <1>2c
<1> HIDE DEF b
<1>4. b \in Seq(U) /\ l \in Seq(U)
  BY <1>3, SeqGrows
<1> HIDE DEF U
<1>5. /\ l \o b \in Seq(U)
      /\ Len(l \o b) = Len(l) + Len(b)
      /\ \A k \in 1..(Len(l) + Len(b)) : (l \o b)[k] = IF k <= Len(l) THEN l[k] ELSE b[k - Len(l)]
  BY <1>4, ConcatProperties
<1>6. DOMAIN (l \o b) = 1..Len(l \o b) /\ Len(l \o b) \in Nat
  BY <1>5, LenProperties
<1>7. Spliced(t, n, l) = l \o b
  BY DEF Spliced, b
<1> DEFINE u == l \o b
<1>8. /\ u \in Seq(U) /\ Len(u) = Len(l) + Len(b) /\ DOMAIN u = 1..Len(u) /\ Len(u) \in Nat
      /\ \A k \in 1..(Len(l) + Len(b)) : u[k] = IF k <= Len(l) THEN l[k] ELSE b[k - Len(l)]
  BY <1>5, <1>6
<1> HIDE DEF u
<1>9. \A k \in 1..Len(l) : u[k] = l[k]
  BY <1>1, <1>3, <1>8
<1>10. ASSUME NEW k \in Len(l) + 1 .. Len(u)
       PROVE  u[k] = t[k - Len(l) + n] /\ k - Len(l) + n \in n + 1 .. Len(t)
  <2>1. k \in 1..(Len(l) + Len(b)) /\ ~(k <= Len(l)) /\ k - Len(l) \in 1 .. Len(t) - n
    BY <1>1, <1>3, <1>8
  <2>2. u[k] = b[k - Len(l)] /\ b[k - Len(l)] = t[n + (k - Len(l))]
    BY <1>3, <1>8, <2>1
  <2>3. n + (k - Len(l)) = k - Len(l) + n
    BY <1>1, <2>1
  <2>4. QED
    BY <1>1, <2>1, <2>2, <2>3
<1>11. u = Spliced(t, n, l)
  BY <1>7 DEF u
<1>12. Len(u) = Len(l) + Len(t) - n
  BY <1>1, <1>3, <1>8
<1>13. QED
  BY <1>1, <1>8, <1>9, <1>10, <1>11, <1>12

\* A stack is one again when a list replaces its first frames, if the ends in
\* the list remember the position and the guarded loops are still in a round.
Splices(t, n, l, q, d) ==
    /\ n \in Nat /\ n <= Len(t) /\ n > 0 /\ q \in Nat \ {0}
    /\ \E T : l \in Seq(T)
    /\ \A k \in DOMAIN l : Frame(l[k])
    /\ \A k \in DOMAIN l : l[k][1] = "end" => l[k][2] = q
    /\ \A e \in DOMAIN t : e > n /\ t[e][1] = "end" => t[e][2] <= q
    /\ \A k \in DOMAIN l : Begun(l[k]) => Round(Spliced(t, n, l), q, d, k)
    /\ \A k \in DOMAIN t : k > n /\ Begun(t[k]) => Round(Spliced(t, n, l), q, d, k - n + Len(l))
    /\ n = Len(t) /\ l # <<>> => Bottom(l)

LEMMA Respliced ==
    ASSUME NEW t, NEW p, NEW c, Stack(t, p, c), NEW n, NEW l, NEW q, NEW d, Splices(t, n, l, q, d)
    PROVE  Stack(Spliced(t, n, l), q, d)
<1> DEFINE u == Spliced(t, n, l)
           m == Len(l)
<1>0. n \in Nat /\ n > 0 /\ n <= Len(t) /\ q \in Nat \ {0} /\ \E T : l \in Seq(T)
  BY DEF Splices
<1>1. PICK S : t \in Seq(S)
  BY DEF Stack
<1>1a. PICK T : l \in Seq(T)
  BY <1>0
<1>2. /\ \E U : u \in Seq(U)
      /\ Len(u) = m + Len(t) - n /\ Len(u) \in Nat /\ DOMAIN u = 1..Len(u)
      /\ m \in Nat /\ DOMAIN l = 1..m
      /\ Len(t) \in Nat /\ DOMAIN t = 1..Len(t)
      /\ \A k \in 1..m : u[k] = l[k]
      /\ \A k \in m + 1 .. Len(u) : u[k] = t[k - m + n] /\ k - m + n \in n + 1 .. Len(t)
  BY <1>0, <1>1, <1>1a, SplicedIs
<1>3. \A k \in DOMAIN t : k > n /\ Begun(t[k]) => Round(u, q, d, k - n + m)
  BY Zenon DEF Splices
<1>4. \A k \in DOMAIN l : Begun(l[k]) => Round(u, q, d, k)
  BY Zenon DEF Splices
<1> HIDE DEF u, m
<1>2n. /\ n \in Int /\ m \in Nat /\ Len(t) \in Nat /\ n > 0 /\ n <= Len(t)
       /\ Len(u) = m + Len(t) - n /\ Len(u) \in Nat
  BY <1>0, <1>2
<1>4a. ASSUME NEW k \in DOMAIN u, k \notin 1..m
       PROVE  /\ k \in m + 1 .. Len(u) /\ k - m + n \in DOMAIN t /\ k - m + n > n
              /\ u[k] = t[k - m + n] /\ (k - m + n) - n + m = k
  <2>1. k \in m + 1 .. Len(u)
    BY <1>2, <1>4a
  <2>2. u[k] = t[k - m + n] /\ k - m + n \in n + 1 .. Len(t)
    BY <1>2, <2>1
  <2>3. k \in Int /\ m \in Int /\ n \in Int
    BY <1>0, <1>2, <2>1
  <2>4. QED
    BY <1>0, <1>2, <2>1, <2>2, <2>3
<1>5. \A k \in DOMAIN u : Frame(u[k])
  <2> SUFFICES ASSUME NEW k \in DOMAIN u PROVE Frame(u[k])
    OBVIOUS
  <2>1. CASE k \in 1..m
    BY <1>2, <2>1 DEF Splices
  <2>2. CASE k \notin 1..m
    <3>1. k - m + n \in DOMAIN t /\ u[k] = t[k - m + n]
      BY <1>4a, <2>2
    <3>2. QED
      BY <3>1 DEF Stack
  <2>3. QED
    BY <2>1, <2>2
<1>6. EndsDescend(u, q)
  <2>1. ASSUME NEW e \in DOMAIN t, t[e][1] = "end"
        PROVE  t[e][2] \in Nat /\ t[e][2] >= 1 /\ \A f \in 1..e : t[f][1] = "end" => t[e][2] <= t[f][2]
    <3>1. t[e][2] \in 1..p /\ p \in Nat
      BY <2>1 DEF Stack, EndsDescend
    <3>2. QED
      BY <2>1, <3>1 DEF Stack, EndsDescend
  <2> SUFFICES ASSUME NEW e \in DOMAIN u, u[e][1] = "end"
               PROVE  u[e][2] \in 1..q /\ \A f \in 1..e : u[f][1] = "end" => u[e][2] <= u[f][2]
    BY DEF EndsDescend
  <2>2. CASE e \in 1..m
    <3>1. \A f \in 1..e : f \in 1..m
      BY <1>2, <2>2, SMTT(60)
    <3>2. \A f \in 1..e : u[f][1] = "end" => u[f][2] = q
      BY <1>2, <3>1 DEF Splices
    <3>3. e \in 1..e
      BY <2>2
    <3>4. QED
      BY <1>0, <2>2, <3>2, <3>3
  <2>3. CASE e \notin 1..m
    <3> DEFINE i == e - m + n
    <3>1. e \in m + 1 .. Len(u) /\ i \in DOMAIN t /\ i > n /\ u[e] = t[i]
      BY <1>4a, <2>3
    <3>2. t[i][1] = "end" /\ t[i][2] <= q /\ t[i][2] \in Nat /\ t[i][2] >= 1
      BY <2>1, <3>1 DEF Splices
    <3>3. ASSUME NEW f \in 1..e, u[f][1] = "end" PROVE u[e][2] <= u[f][2]
      <4>1. CASE f \in 1..m
        <5>1. u[f] = l[f] /\ f \in DOMAIN l
          BY <1>2, <4>1
        <5>2. u[f][2] = q
          BY <3>3, <5>1 DEF Splices
        <5>3. QED
          BY <3>1, <3>2, <5>2
      <4>2. CASE f \notin 1..m
        <5>1. f \in DOMAIN u /\ f \in Int /\ e \in Int /\ f <= e
          BY <1>2, <3>1
        <5>2. f - m + n \in DOMAIN t /\ f - m + n > n /\ u[f] = t[f - m + n]
          BY <1>4a, <4>2, <5>1
        <5>3. f - m + n \in 1..i
          BY <1>0, <1>2, <3>1, <5>1, <5>2
        <5>4. QED
          BY <2>1, <3>1, <3>2, <3>3, <5>2, <5>3
      <4>3. QED
        BY <4>1, <4>2
    <3>4. u[e][2] \in 1..q
      BY <1>0, <3>1, <3>2
    <3> HIDE DEF i
    <3>5. QED
      BY <3>3, <3>4
  <2>4. QED
    BY <2>2, <2>3
<1>7. ASSUME NEW k \in DOMAIN u, Begun(u[k]) PROVE Round(u, q, d, k)
  <2>1. CASE k \in 1..m
    BY <1>2, <1>4, <1>7, <2>1
  <2>2. CASE k \notin 1..m
    <3> DEFINE i == k - m + n
    <3>1. i \in DOMAIN t /\ i > n /\ u[k] = t[i] /\ i - n + m = k
      <4>1. k - m + n \in DOMAIN t /\ k - m + n > n /\ u[k] = t[k - m + n] /\ (k - m + n) - n + m = k
        BY <1>4a, <2>2, Zenon
      <4>2. QED
        BY <4>1, Zenon
    <3> HIDE DEF i
    <3>2. Round(u, q, d, i - n + m)
      BY <1>3, <1>7, <3>1
    <3>3. QED
      BY <3>1, <3>2
  <2>3. QED
    BY <2>1, <2>2
<1>8. Bottom(u)
  <2> SUFFICES ASSUME u # <<>>
               PROVE  /\ Guarded(u[Len(u)]) /\ Top(u[Len(u)])
                      /\ u[Len(u)][4] = -1 => Len(u) = 1
    BY DEF Bottom
  <2>1. CASE n = Len(t)
    <3>1. Len(u) = m
      BY <1>2, <2>1
    <3>0. PICK U : u \in Seq(U)
      BY <1>2
    <3> DEFINE W == U \cup T
    <3>5. u \in Seq(W) /\ l \in Seq(W)
      BY <1>1a, <3>0, SeqGrows
    <3>6. Len(u) = Len(l) /\ \A i \in 1..Len(u) : u[i] = l[i]
      BY <1>2, <3>1 DEF m
    <3> HIDE DEF W
    <3>2. u = l
      BY <3>5, <3>6, SeqEqual
    <3>3. Bottom(l)
      BY <2>1, <3>2 DEF Splices
    <3>4. QED
      BY <3>2, <3>3 DEF Bottom
  <2>2. CASE n # Len(t)
    <3>1. Len(u) \in m + 1 .. Len(u) /\ Len(u) - m + n = Len(t) /\ Len(t) # 1 /\ Len(t) # 0
      <4>1. ASSUME NEW N \in Nat, NEW M \in Nat, NEW x, n <= N, n # N, x = M + N - n
            PROVE  x \in M + 1 .. x /\ x - M + n = N /\ N # 1 /\ N # 0
        BY <1>2n, <4>1
      <4>2. QED
        BY <1>2n, <2>2, <4>1
    <3>0. t # <<>>
      BY <3>1, EmptySeq
    <3>2. u[Len(u)] = t[Len(t)]
      BY <1>2, <3>1
    <3>3. QED
      BY <3>0, <3>1, <3>2 DEF Stack, Bottom
  <2>3. QED
    BY <2>1, <2>2
<1>9. Stack(u, q, d)
  BY <1>0, <1>2, <1>5, <1>6, <1>7, <1>8 DEF Stack
<1>10. QED
  BY <1>9 DEF u

\* The first frame of a stack, and what takes its place.
LEMMA StackTop ==
    ASSUME NEW t, NEW p, NEW c, Stack(t, p, c), t # <<>>
    PROVE  /\ Len(t) \in Nat /\ Len(t) >= 1 /\ DOMAIN t = 1..Len(t) /\ 1 \in DOMAIN t
           /\ p \in Nat /\ p >= 1 /\ Frame(t[1])
           /\ \A l : SoundList(l) => l \o Tail(t) = Spliced(t, 1, l)
           /\ Tail(t) = Spliced(t, 1, <<>>)
           /\ DOMAIN Tail(t) = 1 .. Len(t) - 1
           /\ \A k \in 2..Len(t) : Tail(t)[k - 1] = t[k]
           /\ t[1][1] # "while" => Len(t) > 1
<1>1. PICK S : t \in Seq(S)
  BY DEF Stack
<1>2. Len(t) \in Nat /\ DOMAIN t = 1..Len(t) /\ Len(t) # 0
  BY <1>1, LenProperties, EmptySeq
<1>3. Tail(t) = SubSeq(t, 2, Len(t))
  BY <1>1, <1>2
<1>4. 1 + 1 = 2
  OBVIOUS
<1>5. \A l : l \o Tail(t) = Spliced(t, 1, l)
  BY <1>3, <1>4 DEF Spliced
<1>6. /\ Tail(t) \in Seq(S)
      /\ Len(Tail(t)) = Len(t) - 1
      /\ \A i \in 1..Len(Tail(t)) : Tail(t)[i] = t[i + 1]
  BY <1>1, HeadTailProperties
<1>7. <<>> \o Tail(t) = Tail(t)
  BY <1>6
<1>8. DOMAIN Tail(t) = 1 .. Len(t) - 1
  BY <1>2, <1>6, LenProperties
<1>9. \A k \in 2..Len(t) : k - 1 \in 1..Len(Tail(t)) /\ (k - 1) + 1 = k
  BY <1>2, <1>6
<1>10. Len(t) >= 1 /\ 1 \in DOMAIN t /\ p \in Nat /\ p >= 1
  BY <1>2 DEF Stack
<1>11. t[1][1] # "while" => Len(t) > 1
  <2>1. Guarded(t[Len(t)])
    BY DEF Stack, Bottom
  <2>2. t[1][1] # "while" => Len(t) # 1
    BY <2>1 DEF Guarded
  <2>3. QED
    BY <1>2, <1>10, <2>2
<1>12. Frame(t[1])
  BY <1>10 DEF Stack
<1>13. QED
  BY <1>2, <1>5, <1>6, <1>7, <1>8, <1>9, <1>10, <1>11, <1>12

\* A loop whose item is under way has nothing of its own among the first n
\* frames, if they do not hold the end of its item.
LEMMA DeepShift ==
    ASSUME NEW t, NEW p, NEW c, Stack(t, p, c), NEW S, NEW l \in Seq(S),
           NEW n \in Nat, n <= Len(t), NEW k \in DOMAIN t, Deep(t, k), k - 4 > n
    PROVE  Deep(Spliced(t, n, l), k - n + Len(l))
<1> DEFINE u == Spliced(t, n, l)
           m == Len(l)
           j == k - n + m
<1>1. PICK T : t \in Seq(T)
  BY DEF Stack
<1>2. /\ Len(u) = m + Len(t) - n /\ Len(u) \in Nat
      /\ m \in Nat
      /\ Len(t) \in Nat /\ DOMAIN t = 1..Len(t)
      /\ \A i \in m + 1 .. Len(u) : u[i] = t[i - m + n]
  BY <1>1, SplicedIs
<1> HIDE DEF u, m
<1>3. k \in Nat /\ k <= Len(t)
  BY <1>2
<1>a. ASSUME NEW M \in Nat, NEW N \in Nat, NEW K \in Nat, NEW L \in Nat, K <= L, K - 4 > N
      PROVE  LET J == K - N + M
             IN /\ \A i \in 0..4 : J - i \in M + 1 .. (M + L - N) /\ (J - i) - M + N = K - i
                /\ J > 4
  BY <1>a
<1>b. k - 4 > n /\ n \in Nat
  OBVIOUS
<1>4. j > 4 /\ \A i \in 0..4 : j - i \in m + 1 .. Len(u) /\ (j - i) - m + n = k - i
  <2>1. m \in Nat /\ n \in Nat /\ k \in Nat /\ Len(t) \in Nat /\ k <= Len(t) /\ k - 4 > n
    BY <1>b, <1>2, <1>3
  <2>2. LET J == k - n + m
        IN /\ \A i \in 0..4 : J - i \in m + 1 .. (m + Len(t) - n) /\ (J - i) - m + n = k - i
           /\ J > 4
    BY <1>a, <2>1, Zenon
  <2>3. Len(u) = m + Len(t) - n
    BY <1>2
  <2>4. QED
    BY <2>2, <2>3, Zenon
<1> HIDE DEF j
<1>5. \A i \in 0..4 : u[j - i] = t[k - i]
  BY <1>2, <1>4
<1>c. j - 0 = j /\ k - 0 = k
  <2>1. k \in Int /\ j \in Int
    BY <1>2, <1>3, <1>b DEF j
  <2>2. QED
    BY <2>1
<1>6. u[j] = t[k] /\ u[j - 1] = t[k - 1] /\ u[j - 2] = t[k - 2] /\ u[j - 3] = t[k - 3]
             /\ u[j - 4] = t[k - 4]
  BY <1>5, <1>c
<1>7. Deep(u, j)
  BY <1>4, <1>6 DEF Deep, Spacing, Watching, Ending
<1>8. QED
  BY <1>7 DEF u, m, j

Busy == {"call", "end", "nudge", "stalled", "sync", "keep", "opt"}

\* A loop that is between two of its own steps has one of them on top.
LEMMA NearHead ==
    ASSUME NEW t, NEW p, NEW c, NEW k, Near(t, p, c, k), k # 1, Frame(t[k]), Begun(t[k])
    PROVE  t[1][1] \in Busy
<1>1. t[k][3][1] = Call("topLevelStep") \/ t[k][3][1] = Call("blockStep")
  BY DEF Begun, Guarded, RoundSteps
<1>2. Between(t[k])[1] \in {"keep", "opt"} /\ Item(t[k])[1] = "call" /\ t[k][3][1][1] = "call"
  BY <1>1 DEF Between, Item, Call, Semi, Opt
<1>3. QED
  BY <1>2 DEF Near, Ending, Watching, Spacing, Busy

\* Below a step that is none of the loops' own, every guarded loop has its item under way.
LEMMA UnderWay ==
    ASSUME NEW t, NEW p, NEW c, Stack(t, p, c), NEW k \in DOMAIN t, k # 1, Begun(t[k]),
           t[1][1] \notin Busy
    PROVE  Deep(t, k) /\ k - 4 > 1
<1>1. Frame(t[k]) /\ Round(t, p, c, k)
  BY DEF Stack
<1>2. Deep(t, k)
  BY <1>1, NearHead DEF Round
<1>3. k - 4 # 1
  BY <1>2 DEF Deep, Busy
<1>4. k \in Nat
  <2>1. t # <<>>
    OBVIOUS
  <2>2. QED
    BY <2>1, StackTop
<1>5. QED
  BY <1>2, <1>3, <1>4 DEF Deep

\* A step that is none of the loops' own may be replaced by what is written
\* down, and consume tokens.
LEMMA Replaced ==
    ASSUME NEW t, NEW p, NEW c, Stack(t, p, c), t # <<>>, t[1][1] \notin Busy,
           NEW l, SoundList(l), NEW q \in Nat, q >= p, NEW d,
           Len(t) = 1 => l = <<>>
    PROVE  Stack(l \o Tail(t), q, d)
<1>1. PICK S : l \in Seq(S)
  BY ListKinds
<1>2. \A k \in DOMAIN l : Frame(l[k]) /\ l[k][1] # "end" /\ ~Begun(l[k])
  BY ListKinds
<1>3. ASSUME NEW e \in DOMAIN t, t[e][1] = "end" PROVE t[e][2] <= q
  <2>1. t[e][2] \in 1..p /\ p \in Nat
    BY <1>3 DEF Stack, EndsDescend
  <2>2. QED
    BY <2>1
<1>4. ASSUME NEW k \in DOMAIN t, k > 1, Begun(t[k])
      PROVE  Round(Spliced(t, 1, l), q, d, k - 1 + Len(l))
  <2>1. k # 1 /\ 1 \in Nat /\ 1 <= Len(t)
    BY <1>4, StackTop
  <2>2. Deep(t, k) /\ k - 4 > 1
    BY <1>4, <2>1, UnderWay
  <2>3. Deep(Spliced(t, 1, l), k - 1 + Len(l))
    BY <1>1, <2>1, <2>2, DeepShift
  <2>4. QED
    BY <2>3 DEF Round
<1>5. Len(t) >= 1 /\ p >= 1 /\ p \in Nat /\ l \o Tail(t) = Spliced(t, 1, l)
  BY StackTop
<1>6. Splices(t, 1, l, q, d)
  BY <1>1, <1>2, <1>3, <1>4, <1>5 DEF Splices
<1>7. QED
  BY <1>5, <1>6, Respliced

\* The empty list.
LEMMA NoSteps == SoundList(<<>>)
  BY SoundTuples

\* No call began beyond the parser's position.
LEMMA EndsBelow ==
    ASSUME NEW t, NEW p, NEW c, Stack(t, p, c), NEW e \in DOMAIN t, t[e][1] = "end"
    PROVE  t[e] = <<"end", t[e][2]>> /\ t[e][2] \in Nat /\ t[e][2] <= p
<1>1. t[e][2] \in 1..p /\ p \in Nat /\ Frame(t[e])
  BY DEF Stack, EndsDescend
<1>2. t[e] = <<"end", t[e][2]>> /\ t[e][2] \in Nat
  BY <1>1, FrameKinds
<1>3. QED
  BY <1>1, <1>2

\* Taking the first step off, if the guarded loops are still in a round.
LEMMA Popped ==
    ASSUME NEW t, NEW p, NEW c, Stack(t, p, c), t # <<>>, NEW q \in Nat, q >= p, NEW d,
           \A k \in DOMAIN t : k > 1 /\ Begun(t[k]) => Round(Tail(t), q, d, k - 1)
    PROVE  Stack(Tail(t), q, d)
<1>1. Tail(t) = Spliced(t, 1, <<>>) /\ Len(t) >= 1 /\ Len(t) \in Nat /\ p >= 1 /\ p \in Nat
  BY StackTop
<1>2. \A e \in DOMAIN t : e > 1 /\ t[e][1] = "end" => t[e][2] <= q
  BY <1>1, EndsBelow
<1>3. <<>> \in Seq({}) /\ Len(<<>>) = 0 /\ DOMAIN <<>> = {}
  OBVIOUS
<1>4. \A k \in DOMAIN t : k > 1 /\ Begun(t[k]) => Round(Spliced(t, 1, <<>>), q, d, k - 1 + Len(<<>>))
  <2> SUFFICES ASSUME NEW k \in DOMAIN t, k > 1, Begun(t[k])
               PROVE  Round(Spliced(t, 1, <<>>), q, d, k - 1 + Len(<<>>))
    OBVIOUS
  <2>1. k \in Nat
    BY StackTop
  <2>2. k - 1 + Len(<<>>) = k - 1
    BY <1>3, <2>1
  <2>3. QED
    BY <1>1, <2>2
<1>5. Splices(t, 1, <<>>, q, d)
  BY <1>1, <1>2, <1>3, <1>4 DEF Splices
<1>6. QED
  BY <1>1, <1>5, Respliced

\* How the rounds look when the first step has gone.
LEMMA PoppedView ==
    ASSUME NEW t, NEW p, NEW c, Stack(t, p, c), t # <<>>, NEW k \in DOMAIN t, k > 1
    PROVE  /\ k \in Nat /\ Frame(t[k]) /\ Tail(t)[k - 1] = t[k]
           /\ Begun(t[k]) => Round(t, p, c, k)
           /\ k > 2 /\ Ending(t, k) => Ending(Tail(t), k - 1)
           /\ k > 3 /\ Watching(t, k) => Watching(Tail(t), k - 1)
           /\ k > 4 /\ Spacing(t, k) => Spacing(Tail(t), k - 1)
           /\ k > 5 /\ Deep(t, k) => Deep(Tail(t), k - 1)
           /\ k > 2 => Tail(t)[k - 2] = t[k - 1] /\ Tail(t)[1] = t[2]
           /\ Guarded(t[k]) => /\ t[k][3][1] = Call("topLevelStep") \/ t[k][3][1] = Call("blockStep")
                               /\ t[k][2] = IF Top(t[k]) THEN {} ELSE {"RBRACE"}
<1> DEFINE u == Tail(t)
<1>1. Len(t) \in Nat /\ DOMAIN t = 1..Len(t) /\ \A i \in 2..Len(t) : u[i - 1] = t[i]
  BY StackTop
<1>2. k \in Nat /\ k <= Len(t)
  BY <1>1
<1> HIDE DEF u
<1>3. u[k - 1] = t[k] /\ (k > 2 => u[k - 1 - 1] = t[k - 1]) /\ (k > 3 => u[k - 1 - 2] = t[k - 2])
      /\ (k > 4 => u[k - 1 - 3] = t[k - 3]) /\ (k > 5 => u[k - 1 - 4] = t[k - 4])
  <2>1. u[k - 1] = t[k]
    BY <1>1, <1>2
  <2>2. ASSUME k > 2 PROVE u[k - 1 - 1] = t[k - 1]
    BY <1>1, <1>2, <2>2
  <2>3. ASSUME k > 3 PROVE u[k - 1 - 2] = t[k - 2]
    <3>1. k - 2 \in 2..Len(t) /\ (k - 2) - 1 = k - 1 - 2
      BY <1>2, <2>3, <1>1
    <3>2. QED
      BY <1>1, <3>1
  <2>4. ASSUME k > 4 PROVE u[k - 1 - 3] = t[k - 3]
    <3>1. k - 3 \in 2..Len(t) /\ (k - 3) - 1 = k - 1 - 3
      BY <1>2, <2>4, <1>1
    <3>2. QED
      BY <1>1, <3>1
  <2>5. ASSUME k > 5 PROVE u[k - 1 - 4] = t[k - 4]
    <3>1. k - 4 \in 2..Len(t) /\ (k - 4) - 1 = k - 1 - 4
      BY <1>2, <2>5, <1>1
    <3>2. QED
      BY <1>1, <3>1
  <2>6. QED
    BY <2>1, <2>2, <2>3, <2>4, <2>5
<1>4. Frame(t[k]) /\ (Begun(t[k]) => Round(t, p, c, k))
  BY DEF Stack
<1>5. k > 2 /\ Ending(t, k) => Ending(u, k - 1)
  BY <1>3 DEF Ending
<1>6. k > 3 /\ Watching(t, k) => Watching(u, k - 1)
  BY <1>2, <1>3, <1>5 DEF Watching
<1>7. k > 4 /\ Spacing(t, k) => Spacing(u, k - 1)
  BY <1>2, <1>3, <1>6 DEF Spacing
<1>8. k > 5 /\ Deep(t, k) => Deep(u, k - 1)
  BY <1>2, <1>3, <1>7 DEF Deep
<1>9. k > 2 => u[1] = t[2] /\ u[k - 2] = t[k - 1]
  BY <1>1, <1>2, <1>3
<1>10. Guarded(t[k]) => /\ t[k][3][1] = Call("topLevelStep") \/ t[k][3][1] = Call("blockStep")
                        /\ t[k][2] = IF Top(t[k]) THEN {} ELSE {"RBRACE"}
  <2>1. Guarded(t[k]) => t[k][3][1] \in RoundSteps
    BY DEF Guarded
  <2>2. QED
    BY <1>4, <2>1, GuardedForm DEF RoundSteps
<1>11. QED
  BY <1>2, <1>3, <1>4, <1>5, <1>6, <1>7, <1>8, <1>9, <1>10 DEF u

\* An item under way stays under way when a step of it has gone.
LEMMA StillUnderWay ==
    ASSUME NEW t, NEW p, NEW c, Stack(t, p, c), t # <<>>, NEW k \in DOMAIN t, k > 1, Deep(t, k), k # 5
    PROVE  Deep(Tail(t), k - 1)
<1>1. k \in Nat /\ (k > 5 /\ Deep(t, k) => Deep(Tail(t), k - 1))
  BY PoppedView
<1>2. k > 4
  BY DEF Deep
<1>3. k > 5
  BY <1>1, <1>2
<1>4. QED
  BY <1>1, <1>3

\* The step between an item and the look at its progress.
LEMMA BetweenTaken ==
    ASSUME NEW t, NEW p, NEW c, Stack(t, p, c), t # <<>>, t[1][1] \in {"keep", "opt"},
           NEW q \in Nat, q >= p, NEW d
    PROVE  Stack(Tail(t), q, d)
<1>1. ASSUME NEW k \in DOMAIN t, k > 1, Begun(t[k]) PROVE Round(Tail(t), q, d, k - 1)
  <2>1. Round(t, p, c, k) /\ Guarded(t[k]) /\ k \in Nat
    BY <1>1, PoppedView DEF Begun
  <2>2. t[k][3][1][1] = "call" /\ Item(t[k])[1] = "call"
    BY <1>1, <2>1, PoppedView DEF Call, Item
  <2>3. (k = 4 /\ Spacing(t, 4)) \/ (Deep(t, k) /\ k # 5)
    BY <1>1, <2>1, <2>2 DEF Round, Near, Deep, Ending, Watching
  <2>4. CASE k = 4 /\ Spacing(t, 4)
    <3>1. Watching(Tail(t), 3)
      BY <1>1, <2>4, PoppedView DEF Spacing
    <3>2. QED
      BY <2>4, <3>1 DEF Round, Near
  <2>5. CASE Deep(t, k) /\ k # 5
    <3>1. Deep(Tail(t), k - 1)
      BY <1>1, <2>5, StillUnderWay
    <3>2. QED
      BY <3>1 DEF Round
  <2>6. QED
    BY <2>3, <2>4, <2>5
<1>2. QED
  BY <1>1, Popped

\* The end of a call.
LEMMA EndTaken ==
    ASSUME NEW t, NEW p, NEW c, Stack(t, p, c), t # <<>>, t[1][1] = "end"
    PROVE  Stack(Tail(t), p, c)
<1>1. ASSUME NEW k \in DOMAIN t, k > 1, Begun(t[k]) PROVE Round(Tail(t), p, c, k - 1)
  <2>1. Round(t, p, c, k) /\ Guarded(t[k]) /\ k \in Nat
    BY <1>1, PoppedView DEF Begun
  <2>2. t[k][3][1][1] = "call" /\ Item(t[k])[1] = "call" /\ Between(t[k])[1] \in {"keep", "opt"}
    BY <1>1, <2>1, PoppedView DEF Call, Item, Between, Semi, Opt
  <2>3. (k = 2 /\ Beyond(t[2], p, c)) \/ (Deep(t, k))
    BY <1>1, <2>1, <2>2 DEF Round, Near, Ending, Watching, Spacing
  <2>4. CASE k = 2 /\ Beyond(t[2], p, c)
    <3>1. Tail(t)[1] = t[2]
      BY <1>1, <2>4, PoppedView
    <3>2. QED
      BY <2>4, <3>1 DEF Round, Near
  <2>5. CASE Deep(t, k) /\ k = 5
    <3>1. Spacing(Tail(t), 4)
      BY <1>1, <2>5, PoppedView DEF Deep
    <3>2. QED
      BY <2>5, <3>1 DEF Round, Near
  <2>6. CASE Deep(t, k) /\ k # 5
    <3>1. Deep(Tail(t), k - 1)
      BY <1>1, <2>6, StillUnderWay
    <3>2. QED
      BY <3>1 DEF Round
  <2>7. QED
    BY <2>3, <2>4, <2>5, <2>6
<1>2. p \in Nat /\ p >= p
  BY StackTop
<1>3. QED
  BY <1>1, <1>2, Popped

\* After an item that made progress, or that stands before the loop's end.
LEMMA ProgressSeen ==
    ASSUME NEW t, NEW p, NEW c, Stack(t, p, c), t # <<>>, t[1][1] = "stalled",
           \/ t[2][1] = "end" => p # t[2][2]
           \/ c \in IF t[1][2] THEN Eof ELSE Eof \cup {"RBRACE"}
    PROVE  Stack(Tail(t), p, c)
<1>1. ASSUME NEW k \in DOMAIN t, k > 1, Begun(t[k]) PROVE Round(Tail(t), p, c, k - 1)
  <2>1. Round(t, p, c, k) /\ Guarded(t[k]) /\ k \in Nat
    BY <1>1, PoppedView DEF Begun
  <2>2. t[k][3][1][1] = "call" /\ Item(t[k])[1] = "call" /\ Between(t[k])[1] \in {"keep", "opt"}
    BY <1>1, <2>1, PoppedView DEF Call, Item, Between, Semi, Opt
  <2>3. (k = 3 /\ Watching(t, 3)) \/ (Deep(t, k) /\ k # 5)
    BY <1>1, <2>1, <2>2 DEF Round, Near, Ending, Deep, Watching, Spacing
  <2>4. CASE k = 3 /\ Watching(t, 3)
    <3>1. Ending(Tail(t), 2) /\ Tail(t)[2] = t[3]
      BY <1>1, <2>4, PoppedView DEF Watching
    <3>2. t[2] = <<"end", t[3][4]>> /\ 2 \in DOMAIN t
      <4>1. t[2] = <<"end", t[3][4]>>
        BY <2>4 DEF Watching, Ending
      <4>2. 2 \in DOMAIN t
        BY <1>1, <2>4, StackTop
      <4>3. QED
        BY <4>1, <4>2
    <3>3. t[2][1] = "end" /\ t[2][2] = t[3][4]
      BY <3>2
    <3>4. t[2][2] \in Nat /\ t[2][2] <= p
      BY <3>2, <3>3, EndsBelow
    <3>5. t[1] = IF Top(t[3]) THEN <<"stalled", TRUE>> ELSE <<"stalled", FALSE>>
      BY <2>4 DEF Watching
    <3>6. t[3][2] = IF Top(t[3]) THEN {} ELSE {"RBRACE"}
      BY <1>1, <2>1, <2>4, PoppedView
    <3>7. Beyond(t[3], p, c)
      <4>1. CASE p # t[2][2]
        <5>1. p > t[3][4]
          BY <3>3, <3>4, <4>1, StackTop
        <5>2. QED
          BY <5>1 DEF Beyond
      <4>2. CASE c \in IF t[1][2] THEN Eof ELSE Eof \cup {"RBRACE"}
        <5>1. CASE Top(t[3])
          <6>1. t[1] = <<"stalled", TRUE>>
            BY <3>5, <5>1
          <6>2. c \in Eof
            BY <4>2, <6>1
          <6>3. QED
            BY <6>2 DEF Beyond
        <5>2. CASE ~Top(t[3])
          <6>1. t[1] = <<"stalled", FALSE>>
            BY <3>5, <5>2
          <6>2. c \in Eof \cup {"RBRACE"}
            BY <4>2, <6>1
          <6>3. QED
            BY <3>6, <5>2, <6>2 DEF Beyond
        <5>3. QED
          BY <5>1, <5>2
      <4>3. QED
        BY <3>3, <4>1, <4>2
    <3>8. QED
      BY <2>4, <3>1, <3>7 DEF Round, Near
  <2>5. CASE Deep(t, k) /\ k # 5
    <3>1. Deep(Tail(t), k - 1)
      BY <1>1, <2>5, StillUnderWay
    <3>2. QED
      BY <3>1 DEF Round
  <2>6. QED
    BY <2>3, <2>4, <2>5
<1>2. p \in Nat /\ p >= p
  BY StackTop
<1>3. QED
  BY <1>1, <1>2, Popped

\* Recovery that has come to a statement boundary.
LEMMA SyncOver ==
    ASSUME NEW t, NEW p, NEW c, Stack(t, p, c), t # <<>>, t[1][1] = "sync", NEW q \in Nat, q >= p, NEW d
    PROVE  Stack(Tail(t), q, d)
<1>1. ASSUME NEW k \in DOMAIN t, k > 1, Begun(t[k]) PROVE Round(Tail(t), q, d, k - 1)
  <2>1. Round(t, p, c, k) /\ Guarded(t[k]) /\ k \in Nat
    BY <1>1, PoppedView DEF Begun
  <2>2. t[k][3][1][1] = "call" /\ Item(t[k])[1] = "call" /\ Between(t[k])[1] \in {"keep", "opt"}
    BY <1>1, <2>1, PoppedView DEF Call, Item, Between, Semi, Opt
  <2>3. (k = 4 /\ t[2] = <<"nudge">> /\ Ending(t, 4)) \/ (Deep(t, k) /\ k # 5)
    BY <1>1, <2>1, <2>2 DEF Round, Near, Ending, Deep, Watching, Spacing
  <2>4. CASE k = 4 /\ t[2] = <<"nudge">> /\ Ending(t, 4)
    <3>1. Ending(Tail(t), 3) /\ Tail(t)[1] = <<"nudge">>
      BY <1>1, <2>4, PoppedView
    <3>2. QED
      BY <2>4, <3>1 DEF Round, Near
  <2>5. CASE Deep(t, k) /\ k # 5
    <3>1. Deep(Tail(t), k - 1)
      BY <1>1, <2>5, StillUnderWay
    <3>2. QED
      BY <3>1 DEF Round
  <2>6. QED
    BY <2>3, <2>4, <2>5
<1>2. QED
  BY <1>1, Popped

\* Recovery that passes over a token.
LEMMA SyncGoesOn ==
    ASSUME NEW t, NEW p, NEW c, Stack(t, p, c), t # <<>>, t[1][1] = "sync", NEW q \in Nat, q >= p, NEW d
    PROVE  Stack(t, q, d)
<1>1. ASSUME NEW k \in DOMAIN t, Begun(t[k]) PROVE Round(t, q, d, k)
  <2>1. k # 1
    BY <1>1 DEF Begun, Guarded
  <2>2. Round(t, p, c, k) /\ Guarded(t[k]) /\ k \in Nat /\ k > 1
    BY <1>1, <2>1, PoppedView, StackTop DEF Begun
  <2>3. t[k][3][1][1] = "call" /\ Item(t[k])[1] = "call" /\ Between(t[k])[1] \in {"keep", "opt"}
    BY <1>1, <2>2, PoppedView DEF Call, Item, Between, Semi, Opt
  <2>4. (k = 4 /\ t[1] = <<"sync">> /\ t[2] = <<"nudge">> /\ Ending(t, 4)) \/ Deep(t, k)
    BY <1>1, <2>2, <2>3 DEF Round, Near, Ending, Deep, Watching, Spacing
  <2>5. QED
    BY <2>4 DEF Round, Near
<1>2. EndsDescend(t, q)
  <2>1. ASSUME NEW e \in DOMAIN t, t[e][1] = "end"
        PROVE  t[e][2] \in 1..q /\ \A f \in 1..e : t[f][1] = "end" => t[e][2] <= t[f][2]
    <3>1. t[e][2] \in 1..p /\ p \in Nat
      BY <2>1 DEF Stack, EndsDescend
    <3>2. t[e][2] \in 1..q
      BY <3>1
    <3>3. QED
      BY <2>1, <3>2 DEF Stack, EndsDescend
  <2>2. QED
    BY <2>1 DEF EndsDescend
<1>3. q \in Nat \ {0}
  BY StackTop
<1>4. QED
  BY <1>1, <1>2, <1>3 DEF Stack

\* The nudge after recovery: the loop's item has consumed something now.
LEMMA Nudged ==
    ASSUME NEW t, NEW p, NEW c, Stack(t, p, c), t # <<>>, t[1][1] = "nudge", NEW q \in Nat, q >= p,
           NEW d,
           t[2][1] = "end" => q > t[2][2] \/ d \in Eof
    PROVE  Stack(Tail(t), q, d)
<1>1. ASSUME NEW k \in DOMAIN t, k > 1, Begun(t[k]) PROVE Round(Tail(t), q, d, k - 1)
  <2>1. Round(t, p, c, k) /\ Guarded(t[k]) /\ k \in Nat
    BY <1>1, PoppedView DEF Begun
  <2>2. t[k][3][1][1] = "call" /\ Item(t[k])[1] = "call" /\ Between(t[k])[1] \in {"keep", "opt"}
    BY <1>1, <2>1, PoppedView DEF Call, Item, Between, Semi, Opt
  <2>3. (k = 3 /\ Ending(t, 3)) \/ (Deep(t, k) /\ k # 5)
    BY <1>1, <2>1, <2>2 DEF Round, Near, Ending, Deep, Watching, Spacing
  <2>4. CASE k = 3 /\ Ending(t, 3)
    <3>1. Ending(Tail(t), 2) /\ Tail(t)[2] = t[3]
      BY <1>1, <2>4, PoppedView
    <3>2. t[2] = <<"end", t[3][4]>>
      BY <2>4 DEF Ending
    <3>3. q > t[3][4] \/ d \in Eof
      BY <3>2
    <3>4. Beyond(t[3], q, d)
      BY <3>3 DEF Beyond
    <3>5. QED
      BY <2>4, <3>1, <3>4 DEF Round, Near
  <2>5. CASE Deep(t, k) /\ k # 5
    <3>1. Deep(Tail(t), k - 1)
      BY <1>1, <2>5, StillUnderWay
    <3>2. QED
      BY <3>1 DEF Round
  <2>6. QED
    BY <2>3, <2>4, <2>5
<1>2. QED
  BY <1>1, Popped

\* The frames of a stack whose first frame makes room for l.
LEMMA SplicedAt ==
    ASSUME NEW t, NEW p, NEW c, Stack(t, p, c), t # <<>>, NEW S, NEW l \in Seq(S)
    PROVE  /\ Len(l) \in Nat /\ DOMAIN l = 1..Len(l)
           /\ \A i \in 1..Len(l) : Spliced(t, 1, l)[i] = l[i]
           /\ \A k \in 2..Len(t) : Spliced(t, 1, l)[k - 1 + Len(l)] = t[k]
<1> DEFINE u == Spliced(t, 1, l)
           m == Len(l)
<1>1. PICK T : t \in Seq(T)
  BY DEF Stack
<1>2. Len(t) \in Nat /\ 1 <= Len(t) /\ 1 \in Nat
  BY StackTop
<1>3. /\ Len(u) = m + Len(t) - 1 /\ Len(u) \in Nat
      /\ m \in Nat /\ DOMAIN l = 1..m
      /\ \A k \in 1..m : u[k] = l[k]
      /\ \A k \in m + 1 .. Len(u) : u[k] = t[k - m + 1]
  <2>1. Len(u) = m + Len(t) - 1 /\ Len(u) \in Nat /\ m \in Nat /\ DOMAIN l = 1..m
    BY <1>1, <1>2, SplicedIs
  <2>2. \A k \in 1..m : u[k] = l[k]
    BY <1>1, <1>2, SplicedIs
  <2>3. \A k \in m + 1 .. Len(u) : u[k] = t[k - m + 1]
    BY <1>1, <1>2, SplicedIs
  <2>4. QED
    BY <2>1, <2>2, <2>3
<1> HIDE DEF u, m
<1>4. ASSUME NEW k \in 2..Len(t) PROVE u[k - 1 + m] = t[k]
  <2>1. k \in Int /\ m \in Int /\ k - 1 + m \in m + 1 .. m + Len(t) - 1 /\ (k - 1 + m) - m + 1 = k
    BY <1>2, <1>3
  <2>2. k - 1 + m \in m + 1 .. Len(u)
    BY <1>3, <2>1
  <2>3. u[k - 1 + m] = t[(k - 1 + m) - m + 1]
    BY <1>3, <2>2
  <2>4. QED
    BY <2>1, <2>3
<1>5. QED
  BY <1>3, <1>4 DEF u, m

\* A list and one step more.
LEMMA ListAnd ==
    ASSUME NEW r, SoundList(r), NEW e
    PROVE  /\ \E S : r \o <<e>> \in Seq(S)
           /\ Len(r) \in Nat /\ Len(r \o <<e>>) = Len(r) + 1
           /\ DOMAIN (r \o <<e>>) = 1 .. Len(r) + 1
           /\ \A i \in 1..Len(r) : (r \o <<e>>)[i] = r[i] /\ Frame(r[i]) /\ r[i][1] # "end"
                 /\ ~Begun(r[i])
           /\ (r \o <<e>>)[Len(r) + 1] = e
<1>1. PICK S : r \in Seq(S)
  BY ListKinds
<1>2. Len(r) \in Nat /\ \A i \in 1..Len(r) : Frame(r[i]) /\ r[i][1] # "end" /\ ~Begun(r[i])
  BY ListKinds
<1> DEFINE U == S \cup {e}
           x == <<e>>
<1>3. r \in Seq(U)
  BY <1>1, SeqGrows
<1>4. x \in Seq(U) /\ Len(x) = 1 /\ x[1] = e
  OBVIOUS
<1> HIDE DEF U, x
<1>5. /\ r \o x \in Seq(U) /\ Len(r \o x) = Len(r) + Len(x)
      /\ \A i \in 1..(Len(r) + Len(x)) : (r \o x)[i] = IF i <= Len(r) THEN r[i] ELSE x[i - Len(r)]
  BY <1>3, <1>4, ConcatProperties
<1>6. DOMAIN (r \o x) = 1 .. Len(r) + 1
  BY <1>4, <1>5, LenProperties
<1>7. (r \o x)[Len(r) + 1] = e
  <2>1. Len(r) + 1 \in 1..(Len(r) + Len(x)) /\ ~(Len(r) + 1 <= Len(r)) /\ Len(r) + 1 - Len(r) = 1
    BY <1>2, <1>4
  <2>2. QED
    BY <1>4, <1>5, <2>1
<1>8. \A i \in 1..Len(r) : (r \o x)[i] = r[i]
  BY <1>2, <1>4, <1>5
<1>9. QED
  BY <1>2, <1>4, <1>5, <1>6, <1>7, <1>8 DEF x

\* What the loops' own steps put on the stack.
LEMMA Pushed ==
    ASSUME NEW t, NEW p, NEW c, Stack(t, p, c), t # <<>>,
           NEW l, \E S : l \in Seq(S), \A k \in DOMAIN l : Frame(l[k]),
           \A k \in DOMAIN l : l[k][1] = "end" => l[k][2] = p,
           \A k \in DOMAIN l : Begun(l[k]) => Round(l \o Tail(t), p, c, k),
           \A k \in DOMAIN t : k > 1 /\ Begun(t[k]) =>
                Round(l \o Tail(t), p, c, k - 1 + Len(l)) \/ (Deep(t, k) /\ k - 4 > 1),
           Len(t) = 1 /\ l # <<>> => Bottom(l)
    PROVE  Stack(l \o Tail(t), p, c)
<1>1. PICK S : l \in Seq(S)
  OBVIOUS
<1>2. l \o Tail(t) = Spliced(t, 1, l)
  <2>1. PICK T : t \in Seq(T)
    BY DEF Stack
  <2>2. Tail(t) = SubSeq(t, 2, Len(t)) /\ 1 + 1 = 2
    BY <2>1
  <2>3. QED
    BY <2>2 DEF Spliced
<1>3. \A e \in DOMAIN t : e > 1 /\ t[e][1] = "end" => t[e][2] <= p
  BY EndsBelow
<1>4. Len(t) \in Nat /\ Len(t) >= 1 /\ p \in Nat /\ p >= 1
  BY StackTop
<1>5. ASSUME NEW k \in DOMAIN t, k > 1, Begun(t[k])
      PROVE  Round(Spliced(t, 1, l), p, c, k - 1 + Len(l))
  <2>1. CASE Round(l \o Tail(t), p, c, k - 1 + Len(l))
    BY <1>2, <2>1
  <2>2. CASE Deep(t, k) /\ k - 4 > 1
    <3>1. Deep(Spliced(t, 1, l), k - 1 + Len(l))
      BY <1>1, <1>4, <2>2, DeepShift
    <3>2. QED
      BY <3>1 DEF Round
  <2>3. QED
    BY <1>5, <2>1, <2>2
<1>6. Splices(t, 1, l, p, c)
  <2>1. 1 \in Nat /\ 1 <= Len(t) /\ 1 > 0 /\ p \in Nat \ {0}
    BY <1>4
  <2>2. \A k \in DOMAIN l : Begun(l[k]) => Round(Spliced(t, 1, l), p, c, k)
    BY <1>2
  <2>3. \A k \in DOMAIN t : k > 1 /\ Begun(t[k]) => Round(Spliced(t, 1, l), p, c, k - 1 + Len(l))
    BY <1>5
  <2>4. 1 = Len(t) /\ l # <<>> => Bottom(l)
    OBVIOUS
  <2>5. QED
    BY <1>3, <2>1, <2>2, <2>3, <2>4, Zenon DEF Splices
<1>7. QED
  BY <1>2, <1>6, Respliced

\* An item without progress: recovery, and the nudge after it.
LEMMA RecoveryBegins ==
    ASSUME NEW t, NEW p, NEW c, Stack(t, p, c), t # <<>>, t[1][1] = "stalled"
    PROVE  Stack(<<<<"sync">>, <<"nudge">>>> \o Tail(t), p, c)
<1> DEFINE l == <<<<"sync">>, <<"nudge">>>>
<1>1. /\ \E S : l \in Seq(S)
      /\ Len(l) = 2 /\ DOMAIN l = 1..2 /\ l[1] = <<"sync">> /\ l[2] = <<"nudge">> /\ l # <<>>
  <2>1. l \in Seq({<<"sync">>, <<"nudge">>})
    OBVIOUS
  <2>2. Len(l) = 2 /\ DOMAIN l = 1..2 /\ l[1] = <<"sync">> /\ l[2] = <<"nudge">>
    OBVIOUS
  <2> HIDE DEF l
  <2>3. l # <<>>
    BY <2>2
  <2>4. QED
    BY <2>1, <2>2, <2>3
<1>2. \A k \in DOMAIN l : Frame(l[k]) /\ l[k][1] # "end" /\ ~Begun(l[k])
  <2>1. Sound(<<"sync">>) /\ Sound(<<"nudge">>)
    BY SoundSteps DEF Simple
  <2>2. \A k \in DOMAIN l : l[k] = <<"sync">> \/ l[k] = <<"nudge">>
    BY <1>1
  <2> HIDE DEF l
  <2>3. QED
    BY <2>1, <2>2 DEF Frame, Begun, Guarded
<1> HIDE DEF l
<1>3. Len(t) # 1 /\ l \o Tail(t) = Spliced(t, 1, l) /\ Len(t) \in Nat
  <2>1. PICK T : t \in Seq(T)
    BY DEF Stack
  <2>2. Tail(t) = SubSeq(t, 2, Len(t)) /\ 1 + 1 = 2
    BY <2>1
  <2>3. l \o Tail(t) = Spliced(t, 1, l)
    BY <2>2 DEF Spliced
  <2>4. Len(t) \in Nat /\ Len(t) > 1
    BY StackTop
  <2>5. QED
    BY <2>3, <2>4
<1>4. ASSUME NEW k \in DOMAIN t, k > 1, Begun(t[k])
      PROVE  Round(l \o Tail(t), p, c, k - 1 + Len(l)) \/ (Deep(t, k) /\ k - 4 > 1)
  <2>1. Round(t, p, c, k) /\ Guarded(t[k]) /\ k \in Nat
    BY <1>4, PoppedView DEF Begun
  <2>2. t[k][3][1][1] = "call" /\ Item(t[k])[1] = "call" /\ Between(t[k])[1] \in {"keep", "opt"}
    BY <1>4, <2>1, PoppedView DEF Call, Item, Between, Semi, Opt
  <2>3. (k = 3 /\ Watching(t, 3)) \/ (Deep(t, k) /\ k # 5)
    BY <1>4, <2>1, <2>2 DEF Round, Near, Ending, Deep, Watching, Spacing
  <2>4. CASE k = 3 /\ Watching(t, 3)
    <3> DEFINE u == l \o Tail(t)
    <3>1. u[1] = <<"sync">> /\ u[2] = <<"nudge">> /\ u[3] = t[2] /\ u[4] = t[3]
      <4>1. 2 \in 2..Len(t) /\ 3 \in 2..Len(t) /\ 2 - 1 + 2 = 3 /\ 3 - 1 + 2 = 4
        BY <1>4, <2>4, StackTop
      <4>2. 1 \in 1..2 /\ 2 \in 1..2
        OBVIOUS
      <4>3. Spliced(t, 1, l)[3] = t[2] /\ Spliced(t, 1, l)[4] = t[3]
        BY <1>1, <4>1, SplicedAt, SMTT(60)
      <4>4. Spliced(t, 1, l)[1] = l[1] /\ Spliced(t, 1, l)[2] = l[2]
        BY <1>1, <4>2, SplicedAt
      <4>5. QED
        BY <1>1, <1>3, <4>3, <4>4
    <3> HIDE DEF u
    <3>2. Ending(u, 4)
      BY <2>4, <3>1 DEF Watching, Ending
    <3>3. Round(u, p, c, 4)
      BY <3>1, <3>2 DEF Round, Near
    <3>4. k - 1 + Len(l) = 4
      BY <1>1, <2>4
    <3>5. QED
      BY <3>3, <3>4 DEF u
  <2>5. CASE Deep(t, k) /\ k # 5
    BY <2>1, <2>5 DEF Deep
  <2>6. QED
    BY <2>3, <2>4, <2>5
<1>5. Stack(l \o Tail(t), p, c)
  BY <1>1, <1>2, <1>3, <1>4, Pushed
<1>6. QED
  BY <1>5 DEF l

\* The two rounds, step by step.
LEMMA RoundIs ==
    ASSUME NEW s, Frame(s), Guarded(s)
    PROVE  /\ s[3][1] \in {Call("topLevelStep"), Call("blockStep")}
           /\ Steps(s[3][1][2], s[3][1][3]) =
                <<Item(s), Between(s), IF Top(s) THEN <<"stalled", TRUE>> ELSE <<"stalled", FALSE>>>>
<1>1. s[3][1] = Call(IF Top(s) THEN "topLevelStep" ELSE "blockStep")
  BY GuardedForm
<1>2. Routine["topLevelStep"] = topLevelStep /\ Routine["blockStep"] = blockStep
  BY DEF Routine
<1>3. CASE Top(s)
  <2>1. s[3][1] = Call("topLevelStep") /\ s[3][1][2] = "topLevelStep"
    BY <1>1, <1>3 DEF Call
  <2>2. QED
    BY <1>2, <1>3, <2>1 DEF Steps, topLevelStep, Item, Between
<1>4. CASE ~Top(s)
  <2>1. s[3][1] = Call("blockStep") /\ s[3][1][2] = "blockStep"
    BY <1>1, <1>4 DEF Call
  <2>2. QED
    BY <1>2, <1>4, <2>1 DEF Steps, blockStep, Item, Between, Stmt
<1>5. QED
  BY <1>3, <1>4

\* A call.
LEMMA Entered ==
    ASSUME NEW t, NEW p, NEW c, Stack(t, p, c), t # <<>>, t[1][1] = "call"
    PROVE  Stack((Steps(t[1][2], t[1][3]) \o <<<<"end", p>>>>) \o Tail(t), p, c)
<1> DEFINE r == Steps(t[1][2], t[1][3])
           e == <<"end", p>>
           l == r \o <<e>>
<1>1. Frame(t[1]) /\ p \in Nat /\ Len(t) > 1 /\ Len(t) \in Nat
  BY StackTop
<1>2. SoundList(r)
  <2>1. t[1][2] \in Functions
    BY <1>1, FrameKinds
  <2>2. QED
    BY <2>1, RoutinesSound
<1>3. e[1] = "end" /\ e[2] = p /\ Frame(e) /\ ~Begun(e)
  BY <1>1 DEF Frame, Begun, Guarded
<1> HIDE DEF r, e
<1>4. /\ \E S : l \in Seq(S)
      /\ Len(r) \in Nat /\ Len(l) = Len(r) + 1
      /\ DOMAIN l = 1 .. Len(r) + 1
      /\ \A i \in 1..Len(r) : l[i] = r[i] /\ Frame(r[i]) /\ r[i][1] # "end" /\ ~Begun(r[i])
      /\ l[Len(r) + 1] = e
  BY <1>2, ListAnd
<1> HIDE DEF l
<1>5. ASSUME NEW k \in DOMAIN l PROVE Frame(l[k]) /\ (l[k][1] = "end" => l[k][2] = p) /\ ~Begun(l[k])
  <2>1. k \in 1..Len(r) \/ k = Len(r) + 1
    BY <1>4
  <2>2. QED
    BY <1>3, <1>4, <2>1
<1>6. l \o Tail(t) = Spliced(t, 1, l)
  <2>1. PICK T : t \in Seq(T)
    BY DEF Stack
  <2>2. Tail(t) = SubSeq(t, 2, Len(t)) /\ 1 + 1 = 2
    BY <2>1
  <2>3. QED
    BY <2>2 DEF Spliced
<1>7. ASSUME NEW k \in DOMAIN t, k > 1, Begun(t[k])
      PROVE  Round(l \o Tail(t), p, c, k - 1 + Len(l)) \/ (Deep(t, k) /\ k - 4 > 1)
  <2> DEFINE u == l \o Tail(t)
             m == Len(r)
  <2>1. Round(t, p, c, k) /\ Guarded(t[k]) /\ k \in Nat /\ Frame(t[k]) /\ k <= Len(t)
    <3>1. k <= Len(t)
      BY StackTop
    <3>2. QED
      BY <1>7, <3>1, PoppedView DEF Begun
  <2>2. t[k][3][1][1] = "call" /\ Item(t[k])[1] = "call" /\ Between(t[k])[1] \in {"keep", "opt"}
    BY <1>7, <2>1, PoppedView DEF Call, Item, Between, Semi, Opt
  <2>3. \/ k = 2 /\ t[1] = t[2][3][1] /\ p = t[2][4]
        \/ k = 5 /\ Spacing(t, 5)
        \/ Deep(t, k) /\ k # 5
    BY <1>7, <2>1, <2>2 DEF Round, Near, Ending, Deep, Watching, Spacing
  <2>4. /\ \A i \in 1..Len(l) : u[i] = l[i]
        /\ \A i \in 2..Len(t) : u[i - 1 + Len(l)] = t[i]
    BY <1>4, <1>6, SplicedAt, SMTT(60)
  <2> HIDE DEF u
  <2>5. CASE k = 2 /\ t[1] = t[2][3][1] /\ p = t[2][4]
    <3>1. r = <<Item(t[2]), Between(t[2]), IF Top(t[2]) THEN <<"stalled", TRUE>> ELSE <<"stalled",
       FALSE>>>>
      BY <2>1, <2>5, RoundIs DEF r
    <3>2. Len(r) = 3 /\ r[1] = Item(t[2]) /\ r[2] = Between(t[2])
          /\ r[3] = IF Top(t[2]) THEN <<"stalled", TRUE>> ELSE <<"stalled", FALSE>>
      BY <3>1
    <3>3. 1 \in 1..3 /\ 2 \in 1..3 /\ 3 \in 1..3 /\ 3 + 1 = 4
      OBVIOUS
    <3>4. l[1] = r[1] /\ l[2] = r[2] /\ l[3] = r[3] /\ l[4] = e /\ Len(l) = 4
      BY <1>4, <3>2, <3>3
    <3>5. 1 \in 1..4 /\ 2 \in 1..4 /\ 3 \in 1..4 /\ 4 \in 1..4 /\ 2 \in 2..Len(t) /\ 2 - 1 + 4 = 5
      BY <1>1
    <3>6. u[1] = r[1] /\ u[2] = r[2] /\ u[3] = r[3] /\ u[4] = e /\ u[5] = t[2]
      BY <2>4, <3>4, <3>5
    <3>7. Ending(u, 5)
      BY <2>5, <3>6 DEF Ending, e
    <3>8. Spacing(u, 5)
      BY <3>2, <3>6, <3>7 DEF Spacing, Watching
    <3>9. Round(u, p, c, 5)
      BY <3>2, <3>6, <3>8 DEF Round, Near
    <3>10. k - 1 + Len(l) = 5
      BY <2>5, <3>4
    <3>11. QED
      BY <3>9, <3>10 DEF u
  <2>6. CASE k = 5 /\ Spacing(t, 5)
    <3>1. /\ 2 \in 2..Len(t) /\ 3 \in 2..Len(t) /\ 4 \in 2..Len(t) /\ 5 \in 2..Len(t)
      BY <2>1, <2>6
    <3>2. Len(l) = m + 1 /\ m + 1 \in 1..Len(l) /\ m \in Nat
      BY <1>4
    <3>3. u[m + 1] = e
      BY <1>4, <2>4, <3>2
    <3> HIDE DEF m
    <3>4. /\ 2 - 1 + Len(l) = (m + 5) - 3 /\ 3 - 1 + Len(l) = (m + 5) - 2
          /\ 4 - 1 + Len(l) = (m + 5) - 1 /\ 5 - 1 + Len(l) = m + 5 /\ m + 1 = (m + 5) - 4 /\ m + 5 > 4
      BY <3>2
    <3>5. u[(m + 5) - 3] = t[2] /\ u[(m + 5) - 2] = t[3] /\ u[(m + 5) - 1] = t[4] /\ u[m + 5] = t[5]
      BY <2>4, <3>1, <3>4
    <3>6. u[(m + 5) - 4] = e
      BY <3>3, <3>4
    <3>7. Spacing(u, m + 5)
      BY <2>6, <3>5 DEF Spacing, Watching, Ending
    <3>8. Deep(u, m + 5)
      BY <1>3, <3>4, <3>6, <3>7 DEF Deep
    <3>9. k - 1 + Len(l) = m + 5
      BY <2>6, <3>4
    <3>10. QED
      BY <3>8, <3>9 DEF u, Round
  <2>7. CASE Deep(t, k) /\ k # 5
    BY <2>1, <2>7 DEF Deep
  <2>8. QED
    BY <2>3, <2>5, <2>6, <2>7
<1>8. Stack(l \o Tail(t), p, c)
  <2>1. \A k \in DOMAIN l : Frame(l[k])
    BY <1>5
  <2>2. \A k \in DOMAIN l : l[k][1] = "end" => l[k][2] = p
    BY <1>5
  <2>3. \A k \in DOMAIN l : Begun(l[k]) => Round(l \o Tail(t), p, c, k)
    BY <1>5
  <2>4. Len(t) = 1 /\ l # <<>> => Bottom(l)
    BY <1>1
  <2>5. \E S : l \in Seq(S)
    BY <1>4
  <2>6. \A k \in DOMAIN t : k > 1 /\ Begun(t[k]) =>
            Round(l \o Tail(t), p, c, k - 1 + Len(l)) \/ (Deep(t, k) /\ k - 4 > 1)
    BY <1>7
  <2>7. QED
    BY <2>1, <2>2, <2>3, <2>4, <2>5, <2>6, Pushed
<1>9. QED
  BY <1>8 DEF l, e, r

\* The round of a loop, and of a guarded loop its call.
LEMMA LoopGoesRound ==
    ASSUME NEW t, NEW p, NEW c, Stack(t, p, c), t # <<>>, t[1][1] = "while"
    PROVE  Stack((t[1][3] \o <<<<"while", t[1][2], t[1][3], p>>>>) \o Tail(t), p, c)
<1> DEFINE r == t[1][3]
           e == <<"while", t[1][2], t[1][3], p>>
           l == r \o <<e>>
<1>1. Frame(t[1]) /\ p \in Nat /\ p >= 1 /\ Len(t) >= 1 /\ Len(t) \in Nat
  BY StackTop
<1>2. SoundList(r) /\ Sound(<<"while", t[1][2], t[1][3], -1>>)
  BY <1>1, FrameKinds
<1>3. e[1] = "while" /\ e[2] = t[1][2] /\ e[3] = t[1][3] /\ e[4] = p
  OBVIOUS
<1> HIDE DEF e
<1>4. Frame(e)
  BY <1>1, <1>2, <1>3 DEF Frame, e
<1> HIDE DEF r
<1>5. /\ \E S : l \in Seq(S)
      /\ Len(r) \in Nat /\ Len(l) = Len(r) + 1
      /\ DOMAIN l = 1 .. Len(r) + 1
      /\ \A i \in 1..Len(r) : l[i] = r[i] /\ Frame(r[i]) /\ r[i][1] # "end" /\ ~Begun(r[i])
      /\ l[Len(r) + 1] = e
  BY <1>2, ListAnd
<1> HIDE DEF l
<1>6. ASSUME NEW k \in DOMAIN l PROVE Frame(l[k]) /\ l[k][1] # "end" /\ (Begun(l[k]) => k = Len(r) + 1)
  <2>1. k \in 1..Len(r) \/ k = Len(r) + 1
    BY <1>5
  <2>2. QED
    BY <1>3, <1>4, <1>5, <2>1
<1>7. l \o Tail(t) = Spliced(t, 1, l)
  <2>1. PICK T : t \in Seq(T)
    BY DEF Stack
  <2>2. Tail(t) = SubSeq(t, 2, Len(t)) /\ 1 + 1 = 2
    BY <2>1
  <2>3. QED
    BY <2>2 DEF Spliced
<1>8. ASSUME NEW k \in DOMAIN l, Begun(l[k]) PROVE Round(l \o Tail(t), p, c, k)
  <2> DEFINE u == l \o Tail(t)
  <2>1. k = Len(r) + 1 /\ l[k] = e
    BY <1>5, <1>6, <1>8
  <2>2. e[3] = <<e[3][1]>>
    <3>1. Guarded(e)
      BY <1>8, <2>1 DEF Begun
    <3>2. QED
      BY <1>4, <3>1, GuardedForm
  <2>3. r = <<r[1]>>
    BY <1>3, <2>2 DEF r
  <2>4. Len(r) = 1
    <3>1. Len(<<r[1]>>) = 1
      OBVIOUS
    <3>2. QED
      BY <2>3, <3>1
  <2>5. 1 \in 1..Len(r) /\ 1 + 1 = 2 /\ 1 \in 1..Len(l) /\ 2 \in 1..Len(l)
    BY <1>5, <2>4
  <2>6. u[1] = l[1] /\ u[2] = l[2]
    BY <1>5, <1>7, <2>5, SplicedAt
  <2>7. l[1] = r[1] /\ l[2] = e
    BY <1>5, <2>4, <2>5
  <2> HIDE DEF u
  <2>8. u[1] = u[2][3][1] /\ p = u[2][4]
    BY <1>3, <2>6, <2>7 DEF r
  <2>9. k = 2
    BY <2>1, <2>4
  <2>10. Round(u, p, c, k)
    BY <2>8, <2>9 DEF Round, Near
  <2>11. QED
    BY <2>10 DEF u
<1>9. ASSUME NEW k \in DOMAIN t, k > 1, Begun(t[k])
      PROVE  Round(l \o Tail(t), p, c, k - 1 + Len(l)) \/ (Deep(t, k) /\ k - 4 > 1)
  <2>1. k # 1 /\ t[1][1] \notin Busy
    BY <1>9, StackTop DEF Busy
  <2>2. QED
    BY <1>9, <2>1, UnderWay
<1>10. Len(t) = 1 /\ l # <<>> => Bottom(l)
  <2> SUFFICES ASSUME Len(t) = 1 PROVE Bottom(l)
    OBVIOUS
  <2>1. Guarded(t[1]) /\ Top(t[1])
    BY DEF Stack, Bottom
  <2>2. Guarded(e) /\ Top(e)
    BY <1>3, <2>1 DEF Guarded, Top
  <2>3. e[4] # -1
    BY <1>1, <1>3
  <2>4. l[Len(l)] = e
    BY <1>5
  <2>5. QED
    BY <2>2, <2>3, <2>4 DEF Bottom
<1>11. Stack(l \o Tail(t), p, c)
  <2>1. \A k \in DOMAIN l : Frame(l[k])
    BY <1>6
  <2>2. \A k \in DOMAIN l : l[k][1] = "end" => l[k][2] = p
    BY <1>6
  <2>3. \A k \in DOMAIN l : Begun(l[k]) => Round(l \o Tail(t), p, c, k)
    BY <1>8
  <2>5. \E S : l \in Seq(S)
    BY <1>5
  <2>6. \A k \in DOMAIN t : k > 1 /\ Begun(t[k]) =>
            Round(l \o Tail(t), p, c, k - 1 + Len(l)) \/ (Deep(t, k) /\ k - 4 > 1)
    BY <1>9
  <2>7. QED
    BY <1>10, <2>1, <2>2, <2>3, <2>5, <2>6, Pushed
<1>12. QED
  BY <1>11 DEF l, e, r

\* The frames of a stack that has lost its first n.
LEMMA DroppedAt ==
    ASSUME NEW t, NEW p, NEW c, Stack(t, p, c), NEW n \in DOMAIN t
    PROVE  /\ n \in Nat /\ n > 0 /\ n <= Len(t) /\ Len(t) \in Nat /\ p \in Nat \ {0}
           /\ DOMAIN t = 1..Len(t) /\ t # <<>>
           /\ Spliced(t, n, <<>>) = SubSeq(t, n + 1, Len(t))
           /\ Len(SubSeq(t, n + 1, Len(t))) = 0 + Len(t) - n
           /\ \A k \in 0 + 1 .. Len(SubSeq(t, n + 1, Len(t))) : SubSeq(t, n + 1,
                 Len(t))[k] = t[k - 0 + n]
<1>1. PICK S : t \in Seq(S)
  BY DEF Stack
<1>2. DOMAIN t = 1..Len(t) /\ Len(t) \in Nat
  BY <1>1, LenProperties
<1>3. n \in Nat /\ n > 0 /\ n <= Len(t)
  BY <1>2
<1>4. t # <<>>
  BY <1>2, <1>3
<1> DEFINE b == SubSeq(t, n + 1, Len(t))
<1>5. b \in Seq(S)
  <2>1. \A i \in n + 1 .. Len(t) : t[i] \in S
    BY <1>1, <1>2, <1>3, ElementOfSeq
  <2>2. QED
    BY <1>2, <1>3, <2>1, SubSeqProperties
<1> HIDE DEF b
<1>6. <<>> \o b = b
  BY <1>5
<1>7. Spliced(t, n, <<>>) = b
  BY <1>6 DEF Spliced, b
<1>8. /\ Len(b) = 0 + Len(t) - n
      /\ \A k \in 0 + 1 .. Len(b) : b[k] = t[k - 0 + n]
  <2> DEFINE z == <<>>
  <2>1. z \in Seq({}) /\ Len(z) = 0 /\ Spliced(t, n, z) = b
    BY <1>7
  <2> HIDE DEF z
  <2>2. n \in Nat /\ n <= Len(t) /\ t \in Seq(S) /\ z \in Seq({})
    BY <1>1, <1>3, <2>1
  <2>3. LET v == Spliced(t, n, z)
        IN /\ Len(v) = Len(z) + Len(t) - n /\ Len(v) \in Nat
           /\ \A k \in Len(z) + 1 .. Len(v) : v[k] = t[k - Len(z) + n]
                 /\ k - Len(z) + n \in n + 1 .. Len(t)
    BY <2>2, SplicedIs, SMTT(60)
  <2>4. QED
    BY <2>1, <2>3
<1>9. QED
  BY <1>2, <1>3, <1>4, <1>7, <1>8 DEF b, Stack

\* The first n frames are dropped: those of the guarded loops behind them
\* whose item is under way keep what they need.
LEMMA Dropped ==
    ASSUME NEW t, NEW p, NEW c, Stack(t, p, c), NEW n \in DOMAIN t, NEW q \in Nat \ {0}, NEW d,
           \A e \in DOMAIN t : e > n /\ t[e][1] = "end" => t[e][2] <= q,
           \A k \in DOMAIN t : k > n /\ Begun(t[k]) =>
                \/ Deep(t, k) /\ k - 4 > n
                \/ Deep(t, k) /\ k - 4 = n
    PROVE  Stack(SubSeq(t, n + 1, Len(t)), q, d)
<1> DEFINE u == SubSeq(t, n + 1, Len(t))
<1>1. /\ n \in Nat /\ n > 0 /\ n <= Len(t) /\ Len(t) \in Nat /\ p \in Nat \ {0}
      /\ DOMAIN t = 1..Len(t) /\ t # <<>>
      /\ Spliced(t, n, <<>>) = u
      /\ Len(u) = 0 + Len(t) - n
      /\ \A k \in 0 + 1 .. Len(u) : u[k] = t[k - 0 + n]
  BY DroppedAt
<1> HIDE DEF u
<1>2. <<>> \in Seq({}) /\ Len(<<>>) = 0 /\ DOMAIN <<>> = {}
  OBVIOUS
<1>3. PICK T : t \in Seq(T)
  BY DEF Stack
<1>5. ASSUME NEW k \in DOMAIN t, k > n, Begun(t[k])
      PROVE  Round(u, q, d, k - n + Len(<<>>))
  <2>1. k \in Nat /\ k <= Len(t) /\ k - n + Len(<<>>) = k - n
    BY <1>1, <1>2
  <2>2. CASE Deep(t, k) /\ k - 4 > n
    <3>1. Deep(Spliced(t, n, <<>>), k - n + Len(<<>>))
      BY <1>1, <1>2, <2>2, DeepShift
    <3>2. QED
      BY <1>1, <3>1 DEF Round
  <2>3. CASE Deep(t, k) /\ k - 4 = n
    <3>1. k = n + 4 /\ Spacing(t, k)
      BY <1>1, <2>1, <2>3 DEF Deep
    <3>2. \A i \in 1..4 : i \in 0 + 1 .. Len(u) /\ i - 0 + n = k - (4 - i)
      <4>1. ASSUME NEW N \in Nat, NEW K \in Nat, NEW L \in Nat, K = N + 4, K <= L
            PROVE  \A i \in 1..4 : i \in 0 + 1 .. 0 + L - N /\ i - 0 + N = K - (4 - i)
        BY <4>1
      <4>2. \A i \in 1..4 : i \in 0 + 1 .. 0 + Len(t) - n /\ i - 0 + n = k - (4 - i)
        BY <1>1, <2>1, <3>1, <4>1
      <4>3. QED
        BY <1>1, <4>2
    <3>3. \A i \in 1..4 : u[i] = t[k - (4 - i)]
      BY <1>1, <3>2
    <3>4. 4 - 1 = 3 /\ 4 - 2 = 2 /\ 4 - 3 = 1 /\ k - (4 - 4) = k /\ k - (4 - 1) = k - 3
          /\ k - (4 - 2) = k - 2 /\ k - (4 - 3) = k - 1
      BY <2>1
    <3>5. u[1] = t[k - 3] /\ u[2] = t[k - 2] /\ u[3] = t[k - 1] /\ u[4] = t[k]
      BY <3>3, <3>4
    <3>6. Spacing(u, 4)
      BY <3>1, <3>4, <3>5 DEF Spacing, Watching, Ending
    <3>7. Round(u, q, d, 4)
      BY <3>6 DEF Round, Near
    <3>8. k - n + Len(<<>>) = 4
      BY <1>1, <2>1, <3>1
    <3>9. QED
      BY <3>7, <3>8
  <2>4. QED
    BY <1>5, <2>2, <2>3
<1>6. Splices(t, n, <<>>, q, d)
  BY <1>1, <1>2, <1>5 DEF Splices
<1>7. QED
  BY <1>1, <1>6, Respliced DEF u

\* The first step of a kind.
LEMMA FirstAtIs ==
    ASSUME NEW op, NEW S, todo \in Seq(S), NEW n \in DOMAIN todo, todo[n][1] = op
    PROVE  /\ FirstAt(op) \in DOMAIN todo /\ FirstAt(op) <= n
           /\ todo[FirstAt(op)][1] = op
           /\ \A i \in DOMAIN todo : i < FirstAt(op) => todo[i][1] # op
<1> DEFINE I == {i \in 1..Len(todo) : todo[i][1] = op}
<1>1. DOMAIN todo = 1..Len(todo) /\ Len(todo) \in Nat
  BY LenProperties
<1>2. n \in I /\ I \subseteq Nat /\ I # {}
  BY <1>1
<1>3. FirstAt(op) = CHOOSE x \in I : \A y \in I : x <= y
  BY <1>2 DEF FirstAt, SelectInSeq, Min
<1> HIDE DEF I
<1>4. \E x \in I : \A y \in I : x <= y
  BY <1>2, LeastElement
<1>5. FirstAt(op) \in I /\ \A y \in I : FirstAt(op) <= y
  BY <1>3, <1>4
<1>6. \A i \in DOMAIN todo : i < FirstAt(op) => todo[i][1] # op
  <2> SUFFICES ASSUME NEW i \in DOMAIN todo, i < FirstAt(op), todo[i][1] = op PROVE FALSE
    OBVIOUS
  <2>1. i \in I /\ i \in Nat /\ FirstAt(op) \in Nat
    BY <1>1, <1>2, <1>5 DEF I
  <2>2. QED
    BY <1>5, <2>1
<1>7. QED
  BY <1>1, <1>2, <1>5, <1>6 DEF I

\* The call stack, seen from the parser's position.
ParserInv == Stack(todo, pos, Current)

\* The first step of a kind on the call stack.
LEMMA FirstInStack ==
    ASSUME ParserInv, NEW op, NEW n \in DOMAIN todo, todo[n][1] = op
    PROVE  /\ FirstAt(op) \in DOMAIN todo /\ FirstAt(op) <= n /\ FirstAt(op) \in Nat /\ n \in Nat
           /\ todo[FirstAt(op)][1] = op
           /\ \A i \in DOMAIN todo : i < FirstAt(op) => todo[i][1] # op
<1>1. PICK S : todo \in Seq(S)
  BY DEF ParserInv, Stack
<1>2. DOMAIN todo \subseteq Nat
  BY <1>1, LenProperties
<1>3. QED
  BY <1>1, <1>2, FirstAtIs

\* break leaves the innermost loop: the round of a guarded loop that is not
\* left goes on, for its frames lie behind the loop that is.
LEMMA BreakTaken ==
    ASSUME ParserInv, todo # <<>>, todo[1][1] = "break"
    PROVE  Stack(Behind("while"), pos, Current)
<1> DEFINE n == FirstAt("while")
           L == Len(todo)
<1>1. L \in Nat /\ L > 1 /\ L \in DOMAIN todo /\ 1 \in DOMAIN todo
  BY StackTop DEF ParserInv
<1>2. todo[L][1] = "while"
  BY DEF ParserInv, Stack, Bottom, Guarded
<1>3. n \in DOMAIN todo /\ n \in Nat /\ todo[n][1] = "while"
  BY <1>1, <1>2, FirstInStack
<1> HIDE DEF n
<1>4. ASSUME NEW k \in DOMAIN todo, k > n, Begun(todo[k]) PROVE Deep(todo, k) /\ k - 4 > n
  <2>1. k # 1 /\ k \in Nat
    BY <1>3, <1>4, StackTop DEF ParserInv
  <2>2. Deep(todo, k)
    BY <1>4, <2>1, UnderWay DEF ParserInv, Busy
  <2>3. Between(todo[k])[1] \in {"keep", "opt"}
    BY DEF Between, Semi, Opt
  <2>4. k > 4 /\ todo[k - 1][1] # "while" /\ todo[k - 2][1] # "while"
        /\ todo[k - 3][1] # "while" /\ todo[k - 4][1] # "while"
    BY <2>2, <2>3 DEF Deep, Spacing, Watching, Ending
  <2>5. n # k - 1 /\ n # k - 2 /\ n # k - 3 /\ n # k - 4
    BY <1>3, <2>4
  <2>6. QED
    BY <1>3, <1>4, <2>1, <2>2, <2>5
<1>5. \A e \in DOMAIN todo : e > n /\ todo[e][1] = "end" => todo[e][2] <= pos
  BY EndsBelow DEF ParserInv
<1>6. pos \in Nat \ {0}
  BY DEF ParserInv, Stack
<1>7. Stack(SubSeq(todo, n + 1, Len(todo)), pos, Current)
  BY <1>3, <1>4, <1>5, <1>6, Dropped DEF ParserInv
<1>8. QED
  BY <1>7 DEF Behind, n

\* A return leaves the innermost call.
LEMMA ReturnTaken ==
    ASSUME ParserInv, todo # <<>>, todo[1][1] \in {"return", "must"}
    PROVE  /\ Stack(Behind("end"), pos, Current)
           /\ \A d : Stack(Behind("end"), Saved, d)
<1> DEFINE n == FirstAt("end")
           L == Len(todo)
<1>1. L \in Nat /\ L > 1 /\ L \in DOMAIN todo /\ 1 \in DOMAIN todo
  BY StackTop DEF ParserInv
<1>2. ASSUME NEW k \in DOMAIN todo, Begun(todo[k])
      PROVE  Deep(todo, k) /\ k \in Nat /\ k > 4 /\ k - 4 \in DOMAIN todo /\ todo[k - 4][1] = "end"
  <2>1. k # 1
    BY <1>2 DEF Begun, Guarded
  <2>2. Deep(todo, k)
    BY <1>2, <2>1, UnderWay DEF ParserInv, Busy
  <2>3. k > 4 /\ todo[k - 4][1] = "end"
    BY <2>2 DEF Deep
  <2>4. k \in 1..L /\ DOMAIN todo = 1..L
    BY StackTop DEF ParserInv
  <2>5. k - 4 \in 1..L
    BY <1>1, <2>3, <2>4
  <2>6. QED
    BY <2>2, <2>3, <2>4, <2>5
<1>3. Begun(todo[L])
  BY <1>1 DEF ParserInv, Stack, Bottom, Begun
<1>4. L - 4 \in DOMAIN todo /\ todo[L - 4][1] = "end"
  BY <1>1, <1>2, <1>3
<1>5. n \in DOMAIN todo /\ n \in Nat /\ todo[n][1] = "end"
  BY <1>4, FirstInStack
<1>6. ASSUME NEW k \in DOMAIN todo, k > n, Begun(todo[k])
      PROVE  \/ Deep(todo, k) /\ k - 4 > n
             \/ Deep(todo, k) /\ k - 4 = n
  <2>1. Deep(todo, k) /\ k \in Nat /\ k > 4 /\ k - 4 \in DOMAIN todo /\ todo[k - 4][1] = "end"
    BY <1>2, <1>6
  <2>2. n <= k - 4
    BY <2>1, FirstInStack
  <2>3. QED
    BY <1>5, <2>1, <2>2
<1>7. pos \in Nat \ {0} /\ todo[n][2] \in 1..pos
  BY <1>5 DEF ParserInv, Stack, EndsDescend
<1>8. \A e \in DOMAIN todo : e > n /\ todo[e][1] = "end" => todo[e][2] <= pos
             /\ todo[e][2] <= todo[n][2]
  <2> SUFFICES ASSUME NEW e \in DOMAIN todo, e > n, todo[e][1] = "end"
               PROVE  todo[e][2] <= pos /\ todo[e][2] <= todo[n][2]
    OBVIOUS
  <2>1. DOMAIN todo = 1..L
    BY StackTop DEF ParserInv
  <2>2. n \in 1..e
    BY <1>1, <1>5, <2>1
  <2>3. todo[e][2] <= todo[n][2]
    BY <1>5, <2>2 DEF ParserInv, Stack, EndsDescend
  <2>4. todo[e][2] <= pos
    BY EndsBelow DEF ParserInv
  <2>5. QED
    BY <2>3, <2>4
<1> HIDE DEF n, L
<1>9. Stack(SubSeq(todo, n + 1, Len(todo)), pos, Current)
  BY <1>5, <1>6, <1>7, <1>8, Dropped DEF ParserInv
<1>10. ASSUME NEW d PROVE Stack(SubSeq(todo, n + 1, Len(todo)), todo[n][2], d)
  <2>1. todo[n][2] \in Nat \ {0}
    BY <1>7
  <2>2. QED
    BY <1>5, <1>6, <1>8, <2>1, Dropped DEF ParserInv
<1>11. QED
  BY <1>9, <1>10 DEF Behind, Saved, n

\* A step that is none of the loops' own may be taken off.
LEMMA StepOver ==
    ASSUME NEW t, NEW p, NEW c, Stack(t, p, c), t # <<>>, t[1][1] \notin Busy, NEW q \in Nat, q >= p,
           NEW d
    PROVE  Stack(Tail(t), q, d)
<1>1. Stack(<<>> \o Tail(t), q, d)
  BY NoSteps, Replaced
<1>2. <<>> \o Tail(t) = Tail(t)
  BY NoSteps, StackTop
<1>3. QED
  BY <1>1, <1>2

\* The current token is a matter of the tokens and the position.
LEMMA SameCurrent ==
    ASSUME UNCHANGED <<tokens, pos>>
    PROVE  Current' = Current
  BY DEF Current, Token

\* What every step may use.
LEMMA AtTop ==
    ASSUME ParserInv, NEW op, At(op)
    PROVE  /\ Stack(todo, pos, Current) /\ todo # <<>> /\ todo[1][1] = op
           /\ pos \in Nat /\ pos + 1 \in Nat /\ pos + 1 >= pos /\ pos >= pos /\ Frame(todo[1])
           /\ op # "while" => Len(todo) # 1
<1>1. Stack(todo, pos, Current) /\ todo # <<>> /\ todo[1][1] = op
  BY DEF ParserInv, At, Step
<1>2. pos \in Nat /\ Frame(todo[1]) /\ Len(todo) \in Nat /\ (op # "while" => Len(todo) > 1)
  BY <1>1, StackTop
<1>3. pos + 1 \in Nat /\ pos + 1 >= pos /\ pos >= pos
  BY <1>2
<1>4. op # "while" => Len(todo) # 1
  <2>1. ASSUME NEW N \in Nat, N > 1 PROVE N # 1
    BY <2>1
  <2>2. QED
    BY <1>2, <2>1
<1>5. QED
  BY <1>1, <1>2, <1>3, <1>4

\* Actions that only take their step off the stack, and at most one token.
LEMMA QuietStep ==
    ASSUME ParserInv, NEW op, At(op), op \notin Busy, todo' = Rest, pos' = pos \/ pos' = pos + 1
    PROVE  ParserInv'
<1>1. pos' \in Nat /\ pos' >= pos
  BY AtTop
<1>2. Stack(Tail(todo), pos', Current')
  BY <1>1, AtTop, StepOver
<1>3. QED
  BY <1>2 DEF ParserInv, Rest

\* The actions, one by one.
LEMMA LoopKeeps == ASSUME ParserInv, Loop PROVE ParserInv'
<1>1. At("while") /\ UNCHANGED <<tokens, pos>>
  BY DEF Loop
<1>2. CASE todo' = Rest
  BY <1>1, <1>2, QuietStep DEF Busy
<1>3. CASE todo' = Step[3] \o <<[Step EXCEPT ![4] = pos]>> \o Rest
  <2>1. Frame(todo[1]) /\ todo[1][1] = "while"
    BY <1>1, AtTop
  <2>2. todo[1] = <<"while", todo[1][2], todo[1][3], todo[1][4]>>
    BY <2>1, FrameKinds
  <2> DEFINE a == todo[1][2]
             b == todo[1][3]
             m == todo[1][4]
  <2>3. [<<"while", a, b, m>> EXCEPT ![4] = pos] = <<"while", a, b, pos>>
    OBVIOUS
  <2>4. [todo[1] EXCEPT ![4] = pos] = <<"while", a, b, pos>>
    BY <2>2, <2>3
  <2>5. todo' = (b \o <<<<"while", a, b, pos>>>>) \o Tail(todo)
    BY <1>3, <2>4 DEF Step, Rest
  <2>6. Stack((b \o <<<<"while", a, b, pos>>>>) \o Tail(todo), pos, Current)
    BY <1>1, AtTop, LoopGoesRound
  <2>7. QED
    BY <1>1, <2>5, <2>6, SameCurrent DEF ParserInv
<1>4. QED
  BY <1>2, <1>3 DEF Loop, Go

LEMMA BranchKeeps == ASSUME ParserInv, Branch PROVE ParserInv'
<1>1. At("choose") /\ UNCHANGED <<tokens, pos>>
  BY DEF Branch
<1> DEFINE i == SelectInSeq(Step[2], LAMBDA c : Fits(c[1]))
<1>2. todo' = IF i = 0 THEN Rest ELSE Step[2][i][2] \o Rest
  BY DEF Branch, Go
<1>3. i = 0 \/ i \in 1..Len(Step[2])
  <2> DEFINE I == {j \in 1..Len(Step[2]) : Fits(Step[2][j][1])}
  <2>1. CASE I = {}
    BY <2>1 DEF SelectInSeq
  <2>2. CASE I # {}
    <3>1. i = CHOOSE x \in I : \A y \in I : x <= y
      BY <2>2 DEF SelectInSeq, Min
    <3>2. I \subseteq Nat
      OBVIOUS
    <3> HIDE DEF I
    <3>3. \E x \in I : \A y \in I : x <= y
      BY <2>2, <3>2, LeastElement
    <3>4. i \in I
      BY <3>1, <3>3
    <3>5. QED
      BY <3>4 DEF I
  <2>3. QED
    BY <2>1, <2>2
<1> HIDE DEF i
<1>4. CASE i = 0
  BY <1>1, <1>2, <1>4, QuietStep DEF Busy
<1>5. CASE i # 0
  <2>1. SoundList(Step[2][i][2])
    <3>1. IsList(Step[2]) /\ \A j \in DOMAIN Step[2] : SoundList(Step[2][j][2])
      BY <1>1, AtTop, FrameKinds DEF Step
    <3>2. DOMAIN Step[2] = 1..Len(Step[2])
      BY <3>1, LenProperties DEF IsList
    <3>3. QED
      BY <1>3, <1>5, <3>1, <3>2
  <2> DEFINE l == Step[2][i][2]
  <2>2. todo' = l \o Tail(todo)
    BY <1>2, <1>5 DEF Rest
  <2>3. SoundList(l)
    BY <2>1
  <2> HIDE DEF l
  <2>4. Stack(l \o Tail(todo), pos, Current)
    BY <1>1, <2>3, AtTop, Replaced DEF Busy
  <2>5. QED
    BY <1>1, <2>2, <2>4, SameCurrent DEF ParserInv
<1>6. QED
  BY <1>4, <1>5

\* What is put in front of the first frame.
LEMMA InFront ==
    ASSUME NEW S, NEW a \in Seq(S), NEW t \in Seq(S), t # <<>>
    PROVE  a \o t = (a \o <<t[1]>>) \o Tail(t)
<1> DEFINE h == <<t[1]>>
           b == Tail(t)
<1>1. Len(t) \in Nat /\ Len(t) >= 1 /\ Len(a) \in Nat /\ t[1] \in S
  BY LenProperties, EmptySeq, ElementOfSeq
<1>2. h \in Seq(S) /\ Len(h) = 1 /\ h[1] = t[1]
  BY <1>1
<1>3. b \in Seq(S) /\ Len(b) = Len(t) - 1 /\ \A i \in 1..Len(b) : b[i] = t[i + 1]
  BY HeadTailProperties
<1> HIDE DEF h, b
<1>4. /\ a \o t \in Seq(S) /\ Len(a \o t) = Len(a) + Len(t)
      /\ \A i \in 1..(Len(a) + Len(t)) : (a \o t)[i] = IF i <= Len(a) THEN a[i] ELSE t[i - Len(a)]
  BY ConcatProperties
<1>5. /\ a \o h \in Seq(S) /\ Len(a \o h) = Len(a) + Len(h)
      /\ \A i \in 1..(Len(a) + Len(h)) : (a \o h)[i] = IF i <= Len(a) THEN a[i] ELSE h[i - Len(a)]
  BY <1>2, ConcatProperties
<1> DEFINE x == a \o h
           u == a \o t
           v == x \o b
<1> HIDE DEF x, u
<1>6. /\ v \in Seq(S) /\ Len(v) = Len(x) + Len(b)
      /\ \A i \in 1..(Len(x) + Len(b)) : v[i] = IF i <= Len(x) THEN x[i] ELSE b[i - Len(x)]
  <2>1. x \in Seq(S) /\ b \in Seq(S)
    BY <1>3, <1>5 DEF x
  <2>2. QED
    BY <2>1, ConcatProperties
<1> HIDE DEF v
<1>7. /\ x \in Seq(S) /\ Len(x) = Len(a) + 1
      /\ \A i \in 1..(Len(a) + 1) : x[i] = IF i <= Len(a) THEN a[i] ELSE h[i - Len(a)]
  BY <1>2, <1>5 DEF x
<1>8. /\ u \in Seq(S) /\ Len(u) = Len(a) + Len(t)
      /\ \A i \in 1..(Len(a) + Len(t)) : u[i] = IF i <= Len(a) THEN a[i] ELSE t[i - Len(a)]
  BY <1>4 DEF u
<1>9. Len(u) = Len(v)
  BY <1>1, <1>3, <1>6, <1>7, <1>8
<1>10. ASSUME NEW i \in 1..Len(u) PROVE u[i] = v[i]
  <2>1. i \in 1..(Len(a) + Len(t)) /\ i \in Nat /\ i >= 1
    BY <1>1, <1>8
  <2>2. i \in 1..(Len(x) + Len(b))
    BY <1>6, <1>9
  <2>3. CASE i <= Len(a)
    <3>1. i <= Len(x) /\ i \in 1..(Len(a) + 1)
      BY <1>1, <1>7, <2>1, <2>3
    <3>2. QED
      BY <1>6, <1>7, <1>8, <2>1, <2>2, <2>3, <3>1
  <2>4. CASE i = Len(a) + 1
    <3>1. i <= Len(x) /\ i \in 1..(Len(a) + 1) /\ ~(i <= Len(a)) /\ i - Len(a) = 1
      BY <1>1, <1>7, <2>4
    <3>2. u[i] = t[1]
      BY <1>8, <2>1, <3>1
    <3>3. v[i] = h[1]
      BY <1>6, <1>7, <2>2, <3>1
    <3>4. QED
      BY <1>2, <3>2, <3>3
  <2>5. CASE i > Len(a) + 1
    <3>1. ~(i <= Len(x)) /\ ~(i <= Len(a)) /\ i - Len(x) \in 1..Len(b) /\ i - Len(x) + 1 = i - Len(a)
      BY <1>1, <1>3, <1>7, <2>1, <2>5
    <3>2. v[i] = b[i - Len(x)] /\ b[i - Len(x)] = t[i - Len(x) + 1]
      BY <1>3, <1>6, <2>2, <3>1
    <3>3. u[i] = t[i - Len(a)]
      BY <1>8, <2>1, <3>1
    <3>4. QED
      BY <3>1, <3>2, <3>3
  <2>6. QED
    BY <1>1, <2>1, <2>3, <2>4, <2>5
<1>11. u = v
  BY <1>6, <1>8, <1>9, <1>10, SeqEqual
<1>12. QED
  BY <1>11 DEF u, v, x, h, b

\* Branching on a null result, climbing and calls.
LEMMA OnNullKeeps == ASSUME ParserInv, BranchOnNull PROVE ParserInv'
<1>1. At("onNull") /\ UNCHANGED <<tokens, pos>>
  BY DEF BranchOnNull
<1> DEFINE l == IF ret = "null" THEN Step[2] ELSE Step[3]
<1>2. todo' = l \o Tail(todo)
  BY DEF BranchOnNull, Go, Rest
<1>3. SoundList(l)
  <2>1. SoundList(Step[2]) /\ SoundList(Step[3])
    BY <1>1, AtTop, FrameKinds DEF Step
  <2>2. QED
    BY <2>1
<1> HIDE DEF l
<1>4. Stack(l \o Tail(todo), pos, Current)
  BY <1>1, <1>3, AtTop, Replaced DEF Busy
<1>5. QED
  BY <1>1, <1>2, <1>4, SameCurrent DEF ParserInv

LEMMA ClimbKeeps == ASSUME ParserInv, Climb PROVE ParserInv'
<1>1. At("climb") /\ UNCHANGED <<tokens, pos>>
  BY DEF Climb
<1>2. Stack(todo, pos, Current) /\ todo # <<>> /\ todo[1][1] = "climb" /\ Frame(todo[1])
      /\ pos \in Nat /\ pos >= pos /\ Len(todo) # 1
  BY <1>1, AtTop
<1>3. ASSUME NEW l, SoundList(l), todo' = l \o Tail(todo) PROVE ParserInv'
  <2>1. Stack(l \o Tail(todo), pos, Current)
    BY <1>2, <1>3, Replaced DEF Busy
  <2>2. QED
    BY <1>1, <1>3, <2>1, SameCurrent DEF ParserInv
<1> DEFINE prec == precedenceFor(Current)
           a == <<Take, Expr(prec + 1), <<"made">>>>
<1> HIDE DEF prec
<1>4. CASE todo' = a \o todo
  <2>1. SoundList(a)
    BY ExpressionSound
  <2>2. Sound(todo[1])
    BY <1>2 DEF Frame
  <2>3. SoundList(<<todo[1]>>)
    BY <2>2, SoundTuples
  <2> HIDE DEF a
  <2>4. SoundList(a \o <<todo[1]>>)
    BY <2>1, <2>3, SoundJoin
  <2>5. PICK S, T : a \in Seq(S) /\ todo \in Seq(T)
    BY <1>2, <2>1 DEF SoundList, Stack
  <2> DEFINE U == S \cup T
  <2>6. a \in Seq(U) /\ todo \in Seq(U)
    BY <2>5, SeqGrows
  <2> HIDE DEF U
  <2>7. a \o todo = (a \o <<todo[1]>>) \o Tail(todo)
    BY <1>2, <2>6, InFront
  <2>8. QED
    BY <1>3, <1>4, <2>4, <2>7
<1>5. CASE todo' = Conditional(ret) \o Rest
  <2>1. SoundList(Conditional(ret))
    BY ExpressionSound
  <2>2. QED
    BY <1>3, <1>5, <2>1 DEF Rest
<1>6. CASE todo' = Rest
  BY <1>1, <1>6, QuietStep DEF Busy
<1>7. todo' = a \o todo \/ todo' = Conditional(ret) \o Rest \/ todo' = Rest
  BY DEF Climb, Go, prec
<1>8. QED
  BY <1>4, <1>5, <1>6, <1>7

LEMMA EnterKeeps == ASSUME ParserInv, Enter PROVE ParserInv'
<1>1. At("call") /\ UNCHANGED <<tokens, pos>>
  BY DEF Enter
<1>2. Stack(todo, pos, Current) /\ todo # <<>> /\ todo[1][1] = "call" /\ Frame(todo[1])
  BY <1>1, AtTop
<1> DEFINE r == Steps(todo[1][2], todo[1][3])
           e == <<<<"end", pos>>>>
<1>3. Stack((r \o e) \o Tail(todo), pos, Current)
  BY <1>2, Entered
<1>4. todo' = r \o e \o Rest
  BY DEF Enter, Go, Step
<1>5. todo' = (r \o e) \o Tail(todo)
  BY <1>4 DEF Rest
<1>6. QED
  BY <1>1, <1>3, <1>5, SameCurrent DEF ParserInv

\* Returns, and the expectations that return when they fail.
LEMMA ReturnKeeps ==
    ASSUME ParserInv, NEW op \in {"return", "must"}, At(op), NEW r, ReturnFrom(r), UNCHANGED tokens
    PROVE  ParserInv'
<1>1. todo # <<>> /\ todo[1][1] \in {"return", "must"}
  BY AtTop
<1>2. Stack(Behind("end"), pos, Current) /\ \A d : Stack(Behind("end"), Saved, d)
  BY <1>1, ReturnTaken
<1>3. todo' = Behind("end") /\ (pos' = Saved \/ pos' = pos)
  BY DEF ReturnFrom, Go
<1>4. CASE pos' = Saved
  BY <1>2, <1>3, <1>4 DEF ParserInv
<1>5. CASE pos' = pos
  BY <1>2, <1>3, <1>5, SameCurrent DEF ParserInv
<1>6. QED
  BY <1>3, <1>4, <1>5

LEMMA MustKeeps == ASSUME ParserInv, DoMust PROVE ParserInv'
<1>1. At("must") /\ UNCHANGED tokens
  BY DEF DoMust
<1>2. CASE Current = Step[2]
  <2>1. todo' = Rest /\ pos' = pos + 1
    BY <1>2 DEF DoMust, Consume, Go
  <2>2. QED
    BY <1>1, <2>1, QuietStep DEF Busy
<1>3. CASE Current # Step[2]
  <2>1. ReturnFrom(Step[3])
    BY <1>3 DEF DoMust
  <2>2. QED
    BY <1>1, <2>1, ReturnKeeps
<1>4. QED
  BY <1>2, <1>3

LEMMA ExpectKeeps == ASSUME ParserInv, DoExpect PROVE ParserInv'
<1>1. todo' = Rest /\ (pos' = pos \/ pos' = pos + 1)
  BY DEF DoExpect, Consume, Go
<1>2. CASE At("expect")
  BY <1>1, <1>2, QuietStep DEF Busy
<1>3. CASE At("opt")
  <2>1. pos' \in Nat /\ pos' >= pos
    BY <1>1, <1>3, AtTop
  <2>2. Stack(Tail(todo), pos', Current')
    BY <1>3, <2>1, AtTop, BetweenTaken
  <2>3. QED
    BY <1>1, <2>2 DEF ParserInv, Rest
<1>4. QED
  BY <1>2, <1>3 DEF DoExpect

\* The end of the call whose watching or nudging step is on top.
LEMMA SavedIs ==
    ASSUME ParserInv, NEW op, At(op), op \notin {"end", "while"}, todo[2][1] = "end"
    PROVE  Saved = todo[2][2] /\ Saved \in Nat /\ Saved <= pos
<1>1. Len(todo) \in Nat /\ Len(todo) > 1 /\ DOMAIN todo = 1..Len(todo)
  BY AtTop, StackTop
<1>2. 1 \in DOMAIN todo /\ 2 \in DOMAIN todo
  BY <1>1
<1>3. FirstAt("end") \in DOMAIN todo /\ FirstAt("end") <= 2 /\ FirstAt("end") \in Nat
      /\ todo[FirstAt("end")][1] = "end"
  BY <1>2, FirstInStack
<1>4. FirstAt("end") # 1
  BY <1>3, AtTop
<1>5. FirstAt("end") = 2
  BY <1>1, <1>3, <1>4
<1>6. todo[2][2] \in Nat /\ todo[2][2] <= pos
  BY <1>2, EndsBelow DEF ParserInv
<1>7. QED
  BY <1>5, <1>6 DEF Saved

\* What the guarded loops do between two items.
LEMMA RecoverKeeps == ASSUME ParserInv, Recover PROVE ParserInv'
<1> DEFINE stop == IF Step[2] THEN Eof ELSE Eof \cup {"RBRACE"}
           failed == pos = Saved \/ (Step[2] /\ ret = "null")
<1>1. At("stalled") /\ UNCHANGED <<tokens, pos>>
  BY DEF Recover
<1>2. Stack(todo, pos, Current) /\ todo # <<>> /\ todo[1][1] = "stalled"
  BY <1>1, AtTop
<1>3. CASE failed /\ Current \notin stop
  <2>1. todo' = <<<<"sync">>, <<"nudge">>>> \o Tail(todo)
    BY <1>3 DEF Recover, Go, Rest
  <2>2. Stack(<<<<"sync">>, <<"nudge">>>> \o Tail(todo), pos, Current)
    BY <1>2, RecoveryBegins
  <2>3. QED
    BY <1>1, <2>1, <2>2, SameCurrent DEF ParserInv
<1>4. CASE ~(failed /\ Current \notin stop)
  <2>1. todo' = Tail(todo)
    BY <1>4 DEF Recover, Go, Rest
  <2>2. \/ todo[2][1] = "end" => pos # todo[2][2]
        \/ Current \in IF todo[1][2] THEN Eof ELSE Eof \cup {"RBRACE"}
    <3>1. CASE Current \in stop
      BY <3>1 DEF Step
    <3>2. CASE ~failed
      <4>1. pos # Saved
        BY <3>2
      <4>2. QED
        BY <1>1, <4>1, SavedIs
    <3>3. QED
      BY <1>4, <3>1, <3>2
  <2>3. Stack(Tail(todo), pos, Current)
    BY <1>2, <2>2, ProgressSeen
  <2>4. QED
    BY <1>1, <2>1, <2>3, SameCurrent DEF ParserInv
<1>5. QED
  BY <1>3, <1>4

LEMMA SynchronizeKeeps == ASSUME ParserInv, Synchronize PROVE ParserInv'
<1>1. At("sync") /\ (pos' = pos \/ pos' = pos + 1) /\ (todo' = Rest \/ todo' = todo)
  BY DEF Synchronize, Consume, Go
<1>2. Stack(todo, pos, Current) /\ todo # <<>> /\ todo[1][1] = "sync" /\ pos' \in Nat /\ pos' >= pos
  BY <1>1, AtTop
<1>3. CASE todo' = Rest
  <2>1. Stack(Tail(todo), pos', Current')
    BY <1>2, SyncOver
  <2>2. QED
    BY <1>3, <2>1 DEF ParserInv, Rest
<1>4. CASE todo' = todo
  <2>1. Stack(todo, pos', Current')
    BY <1>2, SyncGoesOn
  <2>2. QED
    BY <1>4, <2>1 DEF ParserInv
<1>5. QED
  BY <1>1, <1>3, <1>4

LEMMA NudgeKeeps == ASSUME ParserInv, Nudge PROVE ParserInv'
<1>1. At("nudge") /\ UNCHANGED tokens /\ todo' = Tail(todo)
  BY DEF Nudge, Go, Rest
<1>2. Stack(todo, pos, Current) /\ todo # <<>> /\ todo[1][1] = "nudge" /\ pos \in Nat
  BY <1>1, AtTop
<1>3. ASSUME todo[2][1] = "end" PROVE pos' > todo[2][2] \/ Current' \in Eof
  <2>1. Saved = todo[2][2] /\ Saved \in Nat /\ Saved <= pos
    BY <1>1, <1>3, SavedIs
  <2>2. CASE pos = Saved /\ Current \notin Eof
    <3>1. pos' = pos + 1
      BY <2>2 DEF Nudge, Consume
    <3>2. QED
      BY <1>2, <2>1, <2>2, <3>1
  <2>3. CASE ~(pos = Saved /\ Current \notin Eof)
    <3>1. pos' = pos
      BY <2>3 DEF Nudge
    <3>2. CASE pos # Saved
      BY <1>2, <2>1, <3>1, <3>2
    <3>3. CASE Current \in Eof
      BY <1>1, <3>1, <3>3, SameCurrent
    <3>4. QED
      BY <2>3, <3>2, <3>3
  <2>4. QED
    BY <2>2, <2>3
<1>4. pos' \in Nat /\ pos' >= pos
  <2>1. pos' = pos \/ pos' = pos + 1
    BY DEF Nudge, Consume
  <2>2. QED
    BY <1>2, <2>1
<1>5. Stack(Tail(todo), pos', Current')
  BY <1>2, <1>3, <1>4, Nudged
<1>6. QED
  BY <1>1, <1>5 DEF ParserInv

LEMMA EndKeeps == ASSUME ParserInv, End PROVE ParserInv'
<1>1. At("end") /\ UNCHANGED <<tokens, pos>> /\ todo' = Tail(todo)
  BY DEF End, Go, Rest
<1>2. Stack(Tail(todo), pos, Current)
  BY <1>1, AtTop, EndTaken
<1>3. QED
  BY <1>1, <1>2, SameCurrent DEF ParserInv

LEMMA KeepKeeps == ASSUME ParserInv, Keep PROVE ParserInv'
<1>1. At("keep") /\ pos' = pos /\ todo' = Tail(todo)
  BY DEF Keep, Go, Rest
<1>2. Stack(Tail(todo), pos', Current')
  BY <1>1, AtTop, BetweenTaken
<1>3. QED
  BY <1>1, <1>2 DEF ParserInv

\* Leaving a loop, and leaving the parser.
LEMMA LeaveLoopKeeps == ASSUME ParserInv, LeaveLoop PROVE ParserInv'
<1>1. At("break") /\ UNCHANGED <<tokens, pos>> /\ todo' = Behind("while")
  BY DEF LeaveLoop, Go
<1>2. Stack(Behind("while"), pos, Current)
  BY <1>1, AtTop, BreakTaken
<1>3. QED
  BY <1>1, <1>2, SameCurrent DEF ParserInv

LEMMA CrashKeeps == ASSUME ParserInv, Crash PROVE ParserInv'
<1>1. todo' = <<>> /\ pos' = pos /\ pos \in Nat \ {0}
  BY DEF Crash, Go, ParserInv, Stack
<1>2. <<>> \in Seq({}) /\ DOMAIN <<>> = {}
  OBVIOUS
<1>3. Stack(<<>>, pos, Current')
  BY <1>1, <1>2 DEF Stack, EndsDescend, Bottom
<1>4. QED
  BY <1>1, <1>3 DEF ParserInv

\* The call stack stays in order, whatever the parser does.
LEMMA ParserStep ==
    ASSUME ParserInv, Next
    PROVE  ParserInv'
<1>1. CASE DoTake
  <2>1. At("take") /\ todo' = Rest /\ pos' = pos + 1
    BY <1>1 DEF DoTake, Consume, Go
  <2>2. QED
    BY <2>1, QuietStep DEF Busy
<1>2. CASE DoError
  <2>1. At("error") /\ todo' = Rest /\ pos' = pos
    BY <1>2 DEF DoError, Go
  <2>2. QED
    BY <2>1, QuietStep DEF Busy
<1>3. CASE Interpolate
  <2>1. At("interpolate") /\ todo' = Rest /\ pos' = pos + 1
    BY <1>3 DEF Interpolate, Consume, Go
  <2>2. QED
    BY <2>1, QuietStep DEF Busy
<1>4. CASE Made
  <2>1. At("made") /\ todo' = Rest /\ pos' = pos
    BY <1>4 DEF Made, Go
  <2>2. QED
    BY <2>1, QuietStep DEF Busy
<1>5. CASE DoReturn
  <2>1. At("return") /\ ReturnFrom(Step[2]) /\ UNCHANGED tokens
    BY <1>5 DEF DoReturn
  <2>2. QED
    BY <2>1, ReturnKeeps
<1>6. QED
  BY <1>1, <1>2, <1>3, <1>4, <1>5, ExpectKeeps, MustKeeps, BranchKeeps, OnNullKeeps, LoopKeeps,
     LeaveLoopKeeps, EnterKeeps, EndKeeps, ClimbKeeps, KeepKeeps, RecoverKeeps, SynchronizeKeeps,
     NudgeKeeps, CrashKeeps DEF Next

\* The parser begins with the loop of parseTopLevel, whatever the tokens are.
LEMMA AtRestAlways ==
    ASSUME NEW c
    PROVE  Stack(parseTopLevel, 1, c)
<1> DEFINE w == While({}, <<Call("topLevelStep")>>)
           t == parseTopLevel
<1>1. SoundList(t)
  BY RoundLists
<1>2. t = <<w>> /\ w[1] = "while" /\ w[3] = <<Call("topLevelStep")>> /\ w[4] = -1
  BY DEF parseTopLevel, While
<1> HIDE DEF w, t
<1>3. Len(t) = 1 /\ DOMAIN t = 1..1 /\ t[1] = w
  BY <1>2
<1>4. /\ \E S : t \in Seq(S)
      /\ \A i \in DOMAIN t : Sound(t[i]) /\ Frame(t[i]) /\ t[i][1] # "end" /\ ~Begun(t[i])
  BY <1>1, ListKinds
<1>5. Bottom(t)
  <2>1. w[3][1] = Call("topLevelStep")
    BY <1>2
  <2>2. QED
    BY <1>2, <1>3, <2>1 DEF Bottom, Guarded, Top, RoundSteps
<1>6. EndsDescend(t, 1)
  BY <1>4 DEF EndsDescend
<1>7. Stack(t, 1, c)
  BY <1>4, <1>5, <1>6 DEF Stack
<1>8. QED
  BY <1>7 DEF t

LEMMA AtRestStack ==
    ASSUME pos = 1, todo = parseTopLevel
    PROVE  ParserInv
  BY AtRestAlways DEF ParserInv

\* A guarded loop that has begun and is on top is beyond where it began.
LEMMA InvGuards ==
    ASSUME ParserInv
    PROVE  GuardsHold
<1> SUFFICES ASSUME At("while"), Step[4] = pos, Current \notin Step[2] \cup Eof,
                    Step[3][1] \in {Call("topLevelStep"), Call("blockStep")}
             PROVE  FALSE
  BY DEF GuardsHold
<1>1. Stack(todo, pos, Current) /\ todo # <<>> /\ todo[1][1] = "while" /\ pos \in Nat
  BY AtTop
<1>2. Begun(todo[1])
  BY <1>1 DEF Begun, Guarded, RoundSteps, Step
<1>3. Round(todo, pos, Current, 1)
  BY <1>1, <1>2, StackTop DEF Stack
<1>4. Beyond(todo[1], pos, Current)
  BY <1>3 DEF Round, Near, Deep
<1>5. QED
  BY <1>1, <1>4 DEF Beyond, Step

\* The call stack is in order, and it is the one of parseTopLevel as long as
\* the lexer runs.
GuardInv ==
    /\ ParserInv
    /\ phase = "lexing" => pos = 1 /\ todo = parseTopLevel

LEMMA GuardInvInit == FrontInit => GuardInv
<1> SUFFICES ASSUME FrontInit PROVE GuardInv
  OBVIOUS
<1>1. pos = 1 /\ todo = parseTopLevel
  BY DEF FrontInit, ParserAtRest, Init
<1>2. QED
  BY <1>1, AtRestStack DEF GuardInv

LEMMA GuardInvNext == GuardInv /\ [FrontNext]_frontVars => GuardInv'
<1> SUFFICES ASSUME GuardInv, [FrontNext]_frontVars PROVE GuardInv'
  OBVIOUS
<1> USE DEF GuardInv
<1>1. CASE UNCHANGED <<vars, phase>>
  <2>1. UNCHANGED <<tokens, pos, todo, phase>>
    BY <1>1 DEF vars
  <2>2. QED
    BY <2>1, SameCurrent DEF ParserInv
<1>2. CASE HandOver
  <2>1. phase' = "parsing" /\ pos' = 1 /\ todo' = parseTopLevel
    BY <1>2 DEF HandOver
  <2>2. Stack(todo', pos', Current')
    BY <2>1, AtRestAlways
  <2>3. QED
    BY <2>1, <2>2 DEF ParserInv
<1>3. CASE Parsing
  <2>1. phase' = "parsing" /\ ParserInv'
    BY <1>3, ParserStep DEF Parsing
  <2>2. QED
    BY <2>1
<1>4. QED
  BY <1>1, <1>2, <1>3 DEF FrontNext, Lexing, frontVars

\* The loops of parseTopLevel() and parseBlock() never begin two rounds at one
\* and the same token: every round consumes something, by recovery and the
\* nudge after it when the item did not, whatever the source.
THEOREM RoundsAdvance == FrontSpec => []GuardsHold
<1>1. FrontInit => GuardInv
  BY GuardInvInit
<1>2. GuardInv /\ [FrontNext]_frontVars => GuardInv'
  BY GuardInvNext
<1>3. GuardInv => GuardsHold
  BY InvGuards DEF GuardInv
<1>4. QED
  BY <1>1, <1>2, <1>3, PTL DEF FrontSpec
=============================================================================
