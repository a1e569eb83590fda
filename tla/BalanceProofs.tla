---------------------------- MODULE BalanceProofs ----------------------------
(***************************************************************************)
(* Who hears of no error has paired the braces: for every sequence of      *)
(* tokens (SilentMeansBalanced) and for every text (AcceptedTextIsPaired). *)
(* First what each step of each parse function makes of the braces, as     *)
(* places that steps lead between; then the frames of the call stack, each *)
(* with the place it goes on from; then what the lexer makes of a text.    *)
(***************************************************************************)
EXTENDS FrontEndProofs

----------------------------------------------------------------------------
(* Braces: where the steps of a parse function lead when nothing is reported *)

\* Tokens behind which braces stand that need not be paired.
Unpaired == {"BYTECODE", "INTERFACE", "TEST"}
Edges == {"LBRACE", "RBRACE", "TOKEN_EOF"}

\* How a call stands: whether it has consumed anything, and whether what was
\* called last returned null.
Anything == {"still", "stillNull", "moved", "movedNull"}
Went == {"moved", "movedNull"}
Settled == {"moved"}
Tried == {"stillNull", "moved", "movedNull"}
NullOnes == {"stillNull", "movedNull"}

Onward(x) == IF x \in NullOnes THEN "movedNull" ELSE "moved"
NotNull(x) == IF x \in Went THEN "moved" ELSE "still"
Returned(r, x) ==
    CASE r = "null" -> (IF x \in Went THEN "movedNull" ELSE "stillNull")
      [] r = "rewind" -> "stillNull"
      [] r = "same" -> x
      [] OTHER -> NotNull(x)
\* A call that stood at x, when what it called has ended at y.
Called(x, y) == IF x \in Went THEN Onward(y) ELSE y

\* What functions end in if nothing was reported, and what is known of the
\* tokens where they are called.
Outcomes(f) ==
    CASE f \in {"parseTopLevel", "topLevelStep", "blockStep", "parseTypeParams", "parseParamList",
                "parsePostfix", "parseIdentifier", "parseType"} -> Anything
      [] f \in {"parseExpression", "parsePrimary", "parseAtom"} -> Went
      [] f = "tryParseAssignment" -> Tried
      [] OTHER -> Settled
Known(f) ==
    CASE f = "tryParseAssignment" -> <<Idents>>
      [] f = "parseIfStmtElif" -> <<{"ELIF"}>>
      [] f = "parseContract" -> <<{"REQUIRES", "ENSURES", "INVARIANT"}>>
      [] OTHER -> <<>>
Pairing == Functions \ {"parseInterfaceDecl", "parseBytecodeStmt", "parseTestStmt"}

\* A place in a function: k is known of the tokens to come, the function's own
\* brace is shut or open, or the place is in the body of a loop that a break
\* leaves with s in b; it may stand as s says, and must return as r says.
Place(k, c, s, b, r) == [k |-> k, c |-> c, s |-> s, b |-> b, r |-> r]
Knowing(P, k) == Place(k, P.c, P.s, P.b, P.r)
Being(P, s) == Place(<<>>, P.c, s, P.b, P.r)
InBody(P, s) == Place(<<>>, "body", P.s, s, P.r)
Entry(f) == Place(Known(f), "shut", {"still", "stillNull"}, {}, Outcomes(f))
Exit(f) == Place(<<>>, "shut", Outcomes(f), {}, Outcomes(f))

Alike(P, Q) == Q.b = P.b /\ Q.r = P.r
Keeps(P, Q) == Alike(P, Q) /\ Q.c = P.c
Within(P, Q) == Keeps(P, Q) /\ P.s \subseteq Q.s /\ (Q.k = <<>> \/ Q.k = P.k)
Shifts(P, Q, t) ==
    /\ Alike(P, Q)
    /\ CASE t = "LBRACE" -> P.c = "shut" /\ Q.c = "open"
         [] t = "RBRACE" -> P.c = "open" /\ Q.c = "shut"
         [] OTHER -> Q.c = P.c

\* Places that are not reached in silence.
Unreached(P) == P.s = {} \/ (1 \in DOMAIN P.k /\ P.k[1] \subseteq Unpaired)

\* The list l leads from P to Q by steps of J.
RunsIn(l, P, Q, J) ==
    /\ IsList(l)
    /\ \E a : /\ Within(P, a[1]) /\ a[Len(l) + 1] = Q
              /\ \A i \in 1..Len(l) : <<l[i], a[i], a[i + 1]>> \in J

TakeLeads(P, Q) ==
    /\ P.k # <<>> /\ IsList(P.k) /\ (Q.k = <<>> \/ Q.k = Tail(P.k))
    /\ \/ P.k[1] \cap Edges = {} /\ Keeps(P, Q)
       \/ P.k[1] = {"LBRACE"} /\ Shifts(P, Q, "LBRACE")
    /\ \A x \in P.s : Onward(x) \in Q.s
WantLeads(t, P, Q) ==
    /\ t # "TOKEN_EOF" /\ Q.k = <<>> /\ Shifts(P, Q, t)
    /\ \A x \in P.s : Onward(x) \in Q.s
OptLeads(t, P, Q) ==
    /\ t \notin Edges /\ Q.k = <<>> /\ Keeps(P, Q)
    /\ \A x \in P.s : x \in Q.s /\ Onward(x) \in Q.s
CallLeads(f, P, Q) ==
    /\ f \in Pairing /\ Q.k = <<>> /\ Keeps(P, Q)
    /\ Known(f) # <<>> => 1 \in DOMAIN P.k /\ P.k[1] \subseteq Known(f)[1]
    /\ \A x \in P.s, y \in Outcomes(f) : Called(x, y) \in Q.s
ReturnLeads(r, P, Q) ==
    /\ Keeps(P, Q) /\ P.c = "shut" /\ r \in {"node", "null", "same", "rewind"}
    /\ \A x \in P.s : Returned(r, x) \in P.r

LeadsSimply(s, P, Q) ==
    \/ s[1] \notin {"end", "while"} /\ Unreached(P) /\ Keeps(P, Q)
    \/ s = Take /\ TakeLeads(P, Q)
    \/ s = Error /\ Keeps(P, Q)
    \/ \E t : s = Expect(t) /\ WantLeads(t, P, Q)
    \/ \E t, r : s = <<"must", t, r>> /\ WantLeads(t, P, Q)
    \/ \E t : s = Opt(t) /\ OptLeads(t, P, Q)
    \/ \E f, p : s = <<"call", f, p>> /\ CallLeads(f, P, Q)
    \/ s = Break /\ Keeps(P, Q) /\ P.c = "body" /\ P.s \subseteq P.b
    \/ \E r : s = Return(r) /\ ReturnLeads(r, P, Q)
    \/ /\ s = <<"interpolate">> /\ 1 \in DOMAIN P.k /\ P.k[1] = {"INTERPOLATED"} /\ Q.k = <<>> /\ Keeps(P, Q)
       /\ \A x \in P.s : Onward(x) \in Q.s
    \/ s = <<"made">> /\ Q.k = <<>> /\ Keeps(P, Q) /\ \A x \in P.s : NotNull(x) \in Q.s
    \/ \E p : /\ s = <<"climb", p>> /\ Q.k = <<>> /\ Keeps(P, Q) /\ P.c = "shut"
              /\ P.s = Went /\ Q.s = Went /\ "moved" \in P.r
    \/ s = <<"keep">> /\ Within(P, Q)
    \/ \E top : /\ s = <<"stalled", top>> /\ Within(P, Q)
                /\ P.s \subseteq (IF top THEN Settled ELSE Went)

LeadsExactly(s, P, Q, J) ==
    \/ LeadsSimply(s, P, Q)
    \/ \E cs : /\ s = <<"choose", cs>> /\ IsList(cs) /\ Keeps(P, Q) /\ Q.k = <<>>
               /\ \A i \in DOMAIN cs : RunsIn(cs[i][2], Knowing(P, cs[i][1]), Q, J)
               /\ P.s \subseteq Q.s \/ \E i \in DOMAIN cs : cs[i][1] = <<>>
    \/ \E y, n : /\ s = <<"onNull", y, n>> /\ Keeps(P, Q) /\ Q.k = <<>>
                 /\ RunsIn(y, Being(P, P.s \cap NullOnes), Q, J)
                 /\ RunsIn(n, Being(P, P.s \ NullOnes), Q, J)
    \/ \E stop, body : /\ s = <<"while", stop, body, -1>> /\ Keeps(P, Q) /\ Q.k = <<>>
                       /\ P.s \subseteq Q.s
                       /\ P.c = "body" => P.b \subseteq Q.s
                       /\ RunsIn(body, InBody(P, Q.s), InBody(P, Q.s), J)
LeadsBy(s, P, Q, J) == \E R : Within(R, Q) /\ LeadsExactly(s, P, R, J)

\* Steps with the places they lead between, and with what they consist of.
Leading(J) == \A j \in J : LeadsBy(j[1], j[2], j[3], J)
Leads(s, P, Q) == \E J : Leading(J) /\ <<s, P, Q>> \in J
Runs(l, P, Q) == \E J : Leading(J) /\ RunsIn(l, P, Q, J)

LEMMA RunsInGrows ==
    ASSUME NEW J, NEW K, J \subseteq K, NEW l, NEW P, NEW Q, RunsIn(l, P, Q, J)
    PROVE  RunsIn(l, P, Q, K)
  BY DEF RunsIn

LEMMA LeadsByGrows ==
    ASSUME NEW J, NEW K, J \subseteq K, NEW s, NEW P, NEW Q, LeadsBy(s, P, Q, J)
    PROVE  LeadsBy(s, P, Q, K)
<1>1. \A l, A, B : RunsIn(l, A, B, J) => RunsIn(l, A, B, K)
  BY RunsInGrows
<1>2. \A R : LeadsExactly(s, P, R, J) => LeadsExactly(s, P, R, K)
  BY <1>1, Zenon DEF LeadsExactly
<1>3. QED
  BY <1>2, Zenon DEF LeadsBy

LEMMA WithinItself ==
    /\ \A P : P.s \subseteq P.s /\ Within(P, P)
    /\ \A P, Q, R : Within(P, Q) /\ Within(Q, R) => Within(P, R)
  BY DEF Within, Keeps, Alike

\* Sets of such steps can be joined.
LEMMA LeadingJoin ==
    ASSUME NEW F, \A J \in F : Leading(J)
    PROVE  Leading(UNION F)
<1> SUFFICES ASSUME NEW J \in F, NEW j \in J PROVE LeadsBy(j[1], j[2], j[3], UNION F)
  BY DEF Leading
<1>1. LeadsBy(j[1], j[2], j[3], J)
  BY DEF Leading
<1>2. J \subseteq UNION F
  OBVIOUS
<1>3. QED
  BY <1>1, <1>2, LeadsByGrows

\* Steps that lead on from each other are a list that runs.
LEMMA RunsAlong ==
    ASSUME NEW l, IsList(l), NEW a, NEW P, Within(P, a[1]),
           \A i \in 1..Len(l) : Leads(l[i], a[i], a[i + 1])
    PROVE  Runs(l, P, a[Len(l) + 1])
<1> DEFINE Of(i) == CHOOSE J : Leading(J) /\ <<l[i], a[i], a[i + 1]>> \in J
           F == {Of(i) : i \in 1..Len(l)}
<1>1. \A i \in 1..Len(l) : Leading(Of(i)) /\ <<l[i], a[i], a[i + 1]>> \in Of(i)
  BY Zenon DEF Leads
<1> HIDE DEF Of
<1>2. Leading(UNION F)
  BY <1>1, LeadingJoin
<1>3. \A i \in 1..Len(l) : <<l[i], a[i], a[i + 1]>> \in UNION F
  BY <1>1, Zenon
<1>4. RunsIn(l, P, a[Len(l) + 1], UNION F)
  BY <1>3, Zenon DEF RunsIn
<1>5. QED
  BY <1>2, <1>4 DEF Runs

\* And the other way round.
LEMMA RunsOut ==
    ASSUME NEW l, NEW P, NEW Q, Runs(l, P, Q)
    PROVE  /\ IsList(l)
           /\ \E a : /\ Within(P, a[1]) /\ a[Len(l) + 1] = Q
                     /\ \A i \in 1..Len(l) : Leads(l[i], a[i], a[i + 1])
<1>1. PICK J : Leading(J) /\ RunsIn(l, P, Q, J)
  BY DEF Runs
<1>2. IsList(l)
  BY <1>1 DEF RunsIn
<1>3. PICK a : /\ Within(P, a[1]) /\ a[Len(l) + 1] = Q
               /\ \A i \in 1..Len(l) : <<l[i], a[i], a[i + 1]>> \in J
  BY <1>1, Zenon DEF RunsIn
<1>4. \A i \in 1..Len(l) : Leads(l[i], a[i], a[i + 1])
  BY <1>1, <1>3, Zenon DEF Leads
<1>5. QED
  BY <1>2, <1>3, <1>4, Zenon

\* What a step that leads consists of.
LeadsOn(s, P, Q) ==
    \/ LeadsSimply(s, P, Q)
    \/ \E cs : /\ s = <<"choose", cs>> /\ IsList(cs) /\ Keeps(P, Q) /\ Q.k = <<>>
               /\ \A i \in DOMAIN cs : Runs(cs[i][2], Knowing(P, cs[i][1]), Q)
               /\ P.s \subseteq Q.s \/ \E i \in DOMAIN cs : cs[i][1] = <<>>
    \/ \E y, n : /\ s = <<"onNull", y, n>> /\ Keeps(P, Q) /\ Q.k = <<>>
                 /\ Runs(y, Being(P, P.s \cap NullOnes), Q)
                 /\ Runs(n, Being(P, P.s \ NullOnes), Q)
    \/ \E stop, body : /\ s = <<"while", stop, body, -1>> /\ Keeps(P, Q) /\ Q.k = <<>>
                       /\ P.s \subseteq Q.s
                       /\ P.c = "body" => P.b \subseteq Q.s
                       /\ Runs(body, InBody(P, Q.s), InBody(P, Q.s))

LEMMA LeadsOut ==
    ASSUME NEW s, NEW P, NEW Q, Leads(s, P, Q)
    PROVE  \E R : Within(R, Q) /\ LeadsOn(s, P, R)
<1>1. PICK J : Leading(J) /\ <<s, P, Q>> \in J
  BY DEF Leads
<1>2. LeadsBy(s, P, Q, J)
  <2> DEFINE j == <<s, P, Q>>
  <2>1. j \in J /\ j[1] = s /\ j[2] = P /\ j[3] = Q
    BY <1>1
  <2> HIDE DEF j
  <2>2. LeadsBy(j[1], j[2], j[3], J)
    BY <1>1, <2>1 DEF Leading
  <2>3. QED
    BY <2>1, <2>2
<1>3. \A l, A, B : RunsIn(l, A, B, J) => Runs(l, A, B)
  BY <1>1 DEF Runs
<1>4. \A R : LeadsExactly(s, P, R, J) => LeadsOn(s, P, R)
  BY <1>3, Zenon DEF LeadsExactly, LeadsOn
<1>5. QED
  BY <1>2, <1>4, Zenon DEF LeadsBy

LEMMA SimplyLeads ==
    ASSUME NEW s, NEW P, NEW Q, LeadsSimply(s, P, Q)
    PROVE  Leads(s, P, Q)
<1> DEFINE j == <<s, P, Q>>
<1>1. j[1] = s /\ j[2] = P /\ j[3] = Q
  OBVIOUS
<1> HIDE DEF j
<1>2. LeadsBy(j[1], j[2], j[3], {j})
  BY <1>1, WithinItself, Zenon DEF LeadsBy, LeadsExactly
<1>3. Leading({j})
  BY <1>2 DEF Leading
<1>4. QED
  BY <1>3, Zenon DEF Leads, j

\* One more step, made of lists that run.
LEMMA LeadsWith ==
    ASSUME NEW s, NEW P, NEW Q, NEW K, Leading(K), LeadsBy(s, P, Q, K)
    PROVE  Leads(s, P, Q)
<1> DEFINE j == <<s, P, Q>>
           U == K \cup {j}
<1>1. j[1] = s /\ j[2] = P /\ j[3] = Q /\ j \in U /\ K \subseteq U /\ \A x \in U : x \in K \/ x = j
  OBVIOUS
<1> HIDE DEF j, U
<1>2. \A x \in K : LeadsBy(x[1], x[2], x[3], U)
  BY <1>1, LeadsByGrows DEF Leading
<1>3. LeadsBy(j[1], j[2], j[3], U)
  BY <1>1, LeadsByGrows
<1>4. Leading(U)
  BY <1>1, <1>2, <1>3, Zenon DEF Leading
<1>5. QED
  BY <1>1, <1>4, Zenon DEF Leads, j

LEMMA ChoiceLeads ==
    ASSUME NEW cs, IsList(cs), NEW P, NEW Q, Keeps(P, Q), Q.k = <<>>,
           \A i \in DOMAIN cs : Runs(cs[i][2], Knowing(P, cs[i][1]), Q),
           P.s \subseteq Q.s \/ \E i \in DOMAIN cs : cs[i][1] = <<>>
    PROVE  Leads(Choose(cs), P, Q)
<1> DEFINE Of(i) == CHOOSE J : Leading(J) /\ RunsIn(cs[i][2], Knowing(P, cs[i][1]), Q, J)
           F == {Of(i) : i \in DOMAIN cs}
<1>1. \A i \in DOMAIN cs : Leading(Of(i)) /\ RunsIn(cs[i][2], Knowing(P, cs[i][1]), Q, Of(i))
  BY Zenon DEF Runs
<1> HIDE DEF Of
<1>2. Leading(UNION F)
  BY <1>1, LeadingJoin
<1>3. \A i \in DOMAIN cs : Of(i) \subseteq UNION F
  BY Zenon
<1> HIDE DEF F
<1>4. \A i \in DOMAIN cs : RunsIn(cs[i][2], Knowing(P, cs[i][1]), Q, UNION F)
  BY <1>1, <1>3, RunsInGrows
<1>5. LeadsBy(Choose(cs), P, Q, UNION F)
  BY <1>4, WithinItself, Zenon DEF LeadsBy, LeadsExactly, Choose
<1>6. QED
  BY <1>2, <1>5, LeadsWith

LEMMA NullLeads ==
    ASSUME NEW y, NEW n, NEW P, NEW Q, Keeps(P, Q), Q.k = <<>>,
           Runs(y, Being(P, P.s \cap NullOnes), Q), Runs(n, Being(P, P.s \ NullOnes), Q)
    PROVE  Leads(OnNull(y, n), P, Q)
<1>1. PICK J : Leading(J) /\ RunsIn(y, Being(P, P.s \cap NullOnes), Q, J)
  BY DEF Runs
<1>2. PICK K : Leading(K) /\ RunsIn(n, Being(P, P.s \ NullOnes), Q, K)
  BY DEF Runs
<1> DEFINE U == UNION {J, K}
<1>3. J \subseteq U /\ K \subseteq U /\ Leading(U)
  BY <1>1, <1>2, LeadingJoin
<1> HIDE DEF U
<1>4. RunsIn(y, Being(P, P.s \cap NullOnes), Q, U) /\ RunsIn(n, Being(P, P.s \ NullOnes), Q, U)
  BY <1>1, <1>2, <1>3, RunsInGrows
<1>5. LeadsBy(OnNull(y, n), P, Q, U)
  BY <1>4, WithinItself, Zenon DEF LeadsBy, LeadsExactly, OnNull
<1>6. QED
  BY <1>3, <1>5, LeadsWith

LEMMA LoopLeads ==
    ASSUME NEW stop, NEW body, NEW P, NEW Q, Keeps(P, Q), Q.k = <<>>, P.s \subseteq Q.s,
           P.c = "body" => P.b \subseteq Q.s, Runs(body, InBody(P, Q.s), InBody(P, Q.s))
    PROVE  Leads(While(stop, body), P, Q)
<1>1. PICK J : Leading(J) /\ RunsIn(body, InBody(P, Q.s), InBody(P, Q.s), J)
  BY DEF Runs
<1>2. LeadsBy(While(stop, body), P, Q, J)
  BY <1>1, WithinItself, Zenon DEF LeadsBy, LeadsExactly, While
<1>3. QED
  BY <1>1, <1>2, LeadsWith

\* A step may lead to a place of which less is known.
LEMMA LeadsTo ==
    ASSUME NEW s, NEW P, NEW Q, NEW R, Leads(s, P, Q), Within(Q, R)
    PROVE  Leads(s, P, R)
<1>1. PICK J : Leading(J) /\ <<s, P, Q>> \in J
  BY DEF Leads
<1> DEFINE j == <<s, P, Q>>
<1>2. j \in J /\ j[1] = s /\ j[2] = P /\ j[3] = Q
  BY <1>1
<1> HIDE DEF j
<1>3. LeadsBy(s, P, Q, J)
  BY <1>1, <1>2 DEF Leading
<1>4. LeadsBy(s, P, R, J)
  BY <1>3, WithinItself, Zenon DEF LeadsBy
<1>5. QED
  BY <1>1, <1>4, LeadsWith

LEMMA RunsFrom ==
    ASSUME NEW l, NEW P, NEW Q, NEW R, Within(P, Q), Runs(l, Q, R)
    PROVE  Runs(l, P, R)
<1>1. IsList(l)
  BY RunsOut
<1>2. PICK a : /\ Within(Q, a[1]) /\ a[Len(l) + 1] = R
               /\ \A i \in 1..Len(l) : Leads(l[i], a[i], a[i + 1])
  BY RunsOut
<1>3. Within(P, a[1])
  BY <1>2, WithinItself
<1>4. QED
  BY <1>1, <1>2, <1>3, RunsAlong

LEMMA RunsNothing ==
    ASSUME NEW P, NEW Q, Within(P, Q)
    PROVE  Runs(<<>>, P, Q)
<1> DEFINE a == <<Q>>
           l == <<>>
<1>1. IsList(l) /\ Len(l) = 0 /\ a[1] = Q
  <2>1. <<>> \in Seq({})
    OBVIOUS
  <2>2. QED
    BY <2>1 DEF IsList
<1> HIDE DEF a, l
<1>2. Runs(l, P, a[Len(l) + 1])
  BY <1>1, RunsAlong
<1>3. QED
  BY <1>1, <1>2 DEF l

\* The same of a list.
LEMMA RunsTo ==
    ASSUME NEW l, NEW P, NEW Q, NEW R, Runs(l, P, Q), Within(Q, R)
    PROVE  Runs(l, P, R)
<1>1. IsList(l)
  BY RunsOut
<1>2. PICK a : /\ Within(P, a[1]) /\ a[Len(l) + 1] = Q
               /\ \A i \in 1..Len(l) : Leads(l[i], a[i], a[i + 1])
  BY RunsOut
<1> DEFINE n == Len(l)
<1>3. n \in Nat /\ (n = 0 => l = <<>>)
  BY <1>1, LenProperties, EmptySeq DEF IsList
<1> HIDE DEF n
<1>4. CASE n = 0
  <2>1. Within(P, R)
    BY <1>2, <1>4, WithinItself DEF n
  <2>2. QED
    BY <1>3, <1>4, <2>1, RunsNothing
<1>5. CASE n # 0
  <2> DEFINE c == [i \in 1..n + 1 |-> IF i = n + 1 THEN R ELSE a[i]]
  <2>1. n \in 1..n /\ a[n + 1] = Q /\ \A i \in 1..n : Leads(l[i], a[i], a[i + 1])
    BY <1>2, <1>3, <1>5 DEF n
  <2>2. Leads(l[n], a[n], R)
    <3>1. Leads(l[n], a[n], Q)
      BY <2>1
    <3>2. QED
      BY <3>1, LeadsTo
  <2>3. \A i \in 1..n : Leads(l[i], c[i], c[i + 1])
    <3> SUFFICES ASSUME NEW i \in 1..n PROVE Leads(l[i], c[i], c[i + 1])
      OBVIOUS
    <3>1. c[i] = a[i] /\ i + 1 \in 1..n + 1
      BY <1>3
    <3>2. CASE i = n
      <4>1. c[i + 1] = R
        BY <1>3, <3>2
      <4>2. QED
        BY <2>2, <3>1, <3>2, <4>1
    <3>3. CASE i # n
      <4>1. c[i + 1] = a[i + 1]
        BY <1>3, <3>1, <3>3
      <4>2. QED
        BY <2>1, <3>1, <4>1
    <3>4. QED
      BY <3>2, <3>3
  <2>4. c[1] = a[1] /\ c[n + 1] = R
    BY <1>3, <1>5
  <2> HIDE DEF c
  <2>5. Runs(l, P, c[n + 1])
    BY <1>1, <1>2, <2>3, <2>4, RunsAlong DEF n
  <2>6. QED
    BY <2>4, <2>5
<1>6. QED
  BY <1>4, <1>5

\* Lists one after the other.
LEMMA RunsJoin ==
    ASSUME NEW l, NEW m, NEW P, NEW Q, NEW R, Runs(l, P, Q), Runs(m, Q, R)
    PROVE  Runs(l \o m, P, R)
<1>1. IsList(l) /\ IsList(m)
  BY RunsOut
<1>2. PICK b : /\ Within(Q, b[1]) /\ b[Len(m) + 1] = R
               /\ \A i \in 1..Len(m) : Leads(m[i], b[i], b[i + 1])
  BY RunsOut
<1>3. Runs(l, P, b[1])
  BY <1>2, RunsTo
<1>4. PICK a : /\ Within(P, a[1]) /\ a[Len(l) + 1] = b[1]
               /\ \A i \in 1..Len(l) : Leads(l[i], a[i], a[i + 1])
  BY <1>3, RunsOut
<1>5. PICK S, T : l \in Seq(S) /\ m \in Seq(T)
  BY <1>1 DEF IsList
<1> DEFINE U == S \cup T
           n == Len(l)
           o == Len(m)
           j == l \o m
<1>6. l \in Seq(U) /\ m \in Seq(U)
  BY <1>5
<1>7. j \in Seq(U) /\ Len(j) = n + o /\ n \in Nat /\ o \in Nat
      /\ \A i \in 1..(n + o) : j[i] = IF i <= n THEN l[i] ELSE m[i - n]
  BY <1>6, JoinElements, ConcatProperties
<1>8. IsList(j)
  BY <1>7 DEF IsList
<1> DEFINE c == [i \in 1..(n + o + 1) |-> IF i <= n THEN a[i] ELSE b[i - n]]
<1>9. /\ a[n + 1] = b[1] /\ \A i \in 1..n : Leads(l[i], a[i], a[i + 1])
      /\ b[o + 1] = R /\ \A i \in 1..o : Leads(m[i], b[i], b[i + 1])
  BY <1>2, <1>4
<1> HIDE DEF n, o, j
<1>10. ASSUME NEW i \in 1..(n + o) PROVE Leads(j[i], c[i], c[i + 1])
  <2>1. i \in 1..(n + o + 1) /\ i + 1 \in 1..(n + o + 1)
    BY <1>7
  <2>2. CASE i <= n
    <3>1. c[i] = a[i] /\ c[i + 1] = a[i + 1] /\ j[i] = l[i] /\ i \in 1..n
      <4>1. CASE i = n
        <5>1. c[i + 1] = b[(n + 1) - n] /\ (n + 1) - n = 1
          BY <1>7, <2>1, <4>1
        <5>2. QED
          BY <1>7, <1>9, <2>1, <4>1, <5>1
      <4>2. CASE i # n
        BY <1>7, <2>1, <2>2, <4>2
      <4>3. QED
        BY <4>1, <4>2
    <3>2. QED
      BY <1>9, <3>1
  <2>3. CASE ~(i <= n)
    <3>1. c[i] = b[i - n] /\ c[i + 1] = b[(i - n) + 1] /\ j[i] = m[i - n] /\ i - n \in 1..o
      <4>1. (i + 1) - n = (i - n) + 1 /\ ~(i + 1 <= n) /\ i - n \in 1..o
        BY <1>7, <2>1, <2>3
      <4>2. QED
        BY <1>7, <2>1, <2>3, <4>1
    <3>2. QED
      BY <1>9, <3>1
  <2>4. QED
    BY <2>2, <2>3
<1>11. c[n + o + 1] = R
  <2>1. n + o + 1 \in 1..(n + o + 1) /\ ~(n + o + 1 <= n) /\ (n + o + 1) - n = o + 1
    BY <1>7
  <2>2. QED
    BY <1>9, <2>1
<1>12. Within(P, c[1])
  <2>1. 1 \in 1..(n + o + 1)
    BY <1>7
  <2>2. CASE n = 0
    <3>1. ~(1 <= n) /\ 1 - n = 1 /\ n + 1 = 1
      BY <2>2
    <3>2. c[1] = b[1] /\ a[1] = b[1]
      BY <1>9, <2>1, <3>1
    <3>3. QED
      BY <1>4, <3>2
  <2>3. CASE n # 0
    <3>1. 1 <= n
      BY <1>7, <2>3
    <3>2. c[1] = a[1]
      BY <2>1, <3>1
    <3>3. QED
      BY <1>4, <3>2
  <2>4. QED
    BY <2>2, <2>3
<1> HIDE DEF c
<1>13. Len(j) = n + o
  BY <1>7
<1>14. Runs(j, P, c[Len(j) + 1])
  BY <1>8, <1>10, <1>12, <1>13, RunsAlong
<1>15. QED
  BY <1>11, <1>13, <1>14 DEF j


\* Lists of which all but the first and the last step stay at one place.
LEMMA RunsTuples ==
    /\ \A s1, P, Q : Leads(s1, P, Q)
          => Runs(<<s1>>, P, Q)
    /\ \A s1, s2, P, M, Q : Leads(s1, P, M) /\ Leads(s2, M, Q)
          => Runs(<<s1, s2>>, P, Q)
    /\ \A s1, s2, s3, P, M, Q : Leads(s1, P, M) /\ Leads(s2, M, M) /\ Leads(s3, M, Q)
          => Runs(<<s1, s2, s3>>, P, Q)
    /\ \A s1, s2, s3, s4, P, M, Q : Leads(s1, P, M) /\ Leads(s2, M, M) /\ Leads(s3, M, M) /\
          Leads(s4, M, Q)
          => Runs(<<s1, s2, s3, s4>>, P, Q)
<1>1. ASSUME NEW s1, NEW P, NEW Q, Leads(s1, P, Q)
      PROVE  Runs(<<s1>>, P, Q)
  <2> DEFINE l == <<s1>>
             a == <<P, Q>>
  <2>1. l \in Seq({s1}) /\ Len(l) = 1
    OBVIOUS
  <2>2. a[1] = P /\ a[1 + 1] = Q /\ Within(P, P)
    BY WithinItself
  <2>3. \A i \in 1..1 : Leads(l[i], a[i], a[i + 1])
    BY <1>1
  <2> HIDE DEF l, a
  <2>4. IsList(l) /\ \A i \in 1..Len(l) : Leads(l[i], a[i], a[i + 1])
    BY <2>1, <2>3 DEF IsList
  <2>5. Runs(l, P, a[Len(l) + 1])
    BY <2>2, <2>4, RunsAlong
  <2>6. QED
    BY <2>1, <2>2, <2>5 DEF l
<1>2. ASSUME NEW s1, NEW s2, NEW P, NEW Q, NEW M, Leads(s1, P, M), Leads(s2, M, Q)
      PROVE  Runs(<<s1, s2>>, P, Q)
  <2> DEFINE l == <<s1, s2>>
             a == <<P, M, Q>>
  <2>1. l \in Seq({s1, s2}) /\ Len(l) = 2
    OBVIOUS
  <2>2. a[1] = P /\ a[2 + 1] = Q /\ Within(P, P)
    BY WithinItself
  <2>3. \A i \in 1..2 : Leads(l[i], a[i], a[i + 1])
    BY <1>2
  <2> HIDE DEF l, a
  <2>4. IsList(l) /\ \A i \in 1..Len(l) : Leads(l[i], a[i], a[i + 1])
    BY <2>1, <2>3 DEF IsList
  <2>5. Runs(l, P, a[Len(l) + 1])
    BY <2>2, <2>4, RunsAlong
  <2>6. QED
    BY <2>1, <2>2, <2>5 DEF l
<1>3. ASSUME NEW s1, NEW s2, NEW s3, NEW P, NEW Q, NEW M, Leads(s1, P, M), Leads(s2, M, M),
             Leads(s3, M, Q)
      PROVE  Runs(<<s1, s2, s3>>, P, Q)
  <2> DEFINE l == <<s1, s2, s3>>
             a == <<P, M, M, Q>>
  <2>1. l \in Seq({s1, s2, s3}) /\ Len(l) = 3
    OBVIOUS
  <2>2. a[1] = P /\ a[3 + 1] = Q /\ Within(P, P)
    BY WithinItself
  <2>3. \A i \in 1..3 : Leads(l[i], a[i], a[i + 1])
    BY <1>3
  <2> HIDE DEF l, a
  <2>4. IsList(l) /\ \A i \in 1..Len(l) : Leads(l[i], a[i], a[i + 1])
    BY <2>1, <2>3 DEF IsList
  <2>5. Runs(l, P, a[Len(l) + 1])
    BY <2>2, <2>4, RunsAlong
  <2>6. QED
    BY <2>1, <2>2, <2>5 DEF l
<1>4. ASSUME NEW s1, NEW s2, NEW s3, NEW s4, NEW P, NEW Q, NEW M, Leads(s1, P, M), Leads(s2, M, M),
             Leads(s3, M, M), Leads(s4, M, Q)
      PROVE  Runs(<<s1, s2, s3, s4>>, P, Q)
  <2> DEFINE l == <<s1, s2, s3, s4>>
             a == <<P, M, M, M, Q>>
  <2>1. l \in Seq({s1, s2, s3, s4}) /\ Len(l) = 4
    OBVIOUS
  <2>2. a[1] = P /\ a[4 + 1] = Q /\ Within(P, P)
    BY WithinItself
  <2>3. \A i \in 1..4 : Leads(l[i], a[i], a[i + 1])
    BY <1>4
  <2> HIDE DEF l, a
  <2>4. IsList(l) /\ \A i \in 1..Len(l) : Leads(l[i], a[i], a[i + 1])
    BY <2>1, <2>3 DEF IsList
  <2>5. Runs(l, P, a[Len(l) + 1])
    BY <2>2, <2>4, RunsAlong
  <2>6. QED
    BY <2>1, <2>2, <2>5 DEF l
<1>5. QED
  BY <1>1, <1>2, <1>3, <1>4

\* The longer ones.
LEMMA RunsLongTuples ==
    /\ \A s1, s2, s3, s4, s5, P, M, Q : Leads(s1, P, M) /\ Leads(s2, M, M) /\ Leads(s3, M, M) /\
          Leads(s4, M, M) /\ Leads(s5, M, Q)
          => Runs(<<s1, s2, s3, s4, s5>>, P, Q)
    /\ \A s1, s2, s3, s4, s5, s6, P, M, Q : Leads(s1, P, M) /\ Leads(s2, M, M) /\
          Leads(s3, M, M) /\ Leads(s4, M, M) /\ Leads(s5, M, M) /\ Leads(s6, M, Q)
          => Runs(<<s1, s2, s3, s4, s5, s6>>, P, Q)
    /\ \A s1, s2, s3, s4, s5, s6, s7, P, M, Q : Leads(s1, P, M) /\ Leads(s2, M, M) /\
          Leads(s3, M, M) /\ Leads(s4, M, M) /\ Leads(s5, M, M) /\ Leads(s6, M, M) /\
          Leads(s7, M, Q)
          => Runs(<<s1, s2, s3, s4, s5, s6, s7>>, P, Q)
    /\ \A s1, s2, s3, s4, s5, s6, s7, s8, P, M, Q : Leads(s1, P, M) /\ Leads(s2, M, M) /\
          Leads(s3, M, M) /\ Leads(s4, M, M) /\ Leads(s5, M, M) /\ Leads(s6, M, M) /\
          Leads(s7, M, M) /\ Leads(s8, M, Q)
          => Runs(<<s1, s2, s3, s4, s5, s6, s7, s8>>, P, Q)
    /\ \A s1, s2, s3, s4, s5, s6, s7, s8, s9, P, M, Q : Leads(s1, P, M) /\ Leads(s2, M, M) /\
          Leads(s3, M, M) /\ Leads(s4, M, M) /\ Leads(s5, M, M) /\ Leads(s6, M, M) /\
          Leads(s7, M, M) /\ Leads(s8, M, M) /\ Leads(s9, M, Q)
          => Runs(<<s1, s2, s3, s4, s5, s6, s7, s8, s9>>, P, Q)
<1>5. ASSUME NEW s1, NEW s2, NEW s3, NEW s4, NEW s5, NEW P, NEW Q, NEW M, Leads(s1, P, M),
             Leads(s2, M, M), Leads(s3, M, M), Leads(s4, M, M), Leads(s5, M, Q)
      PROVE  Runs(<<s1, s2, s3, s4, s5>>, P, Q)
  <2> DEFINE l == <<s1, s2, s3, s4, s5>>
             a == <<P, M, M, M, M, Q>>
  <2>1. l \in Seq({s1, s2, s3, s4, s5}) /\ Len(l) = 5
    OBVIOUS
  <2>2. a[1] = P /\ a[5 + 1] = Q /\ Within(P, P)
    BY WithinItself
  <2>3. \A i \in 1..5 : Leads(l[i], a[i], a[i + 1])
    BY <1>5
  <2> HIDE DEF l, a
  <2>4. IsList(l) /\ \A i \in 1..Len(l) : Leads(l[i], a[i], a[i + 1])
    BY <2>1, <2>3 DEF IsList
  <2>5. Runs(l, P, a[Len(l) + 1])
    BY <2>2, <2>4, RunsAlong
  <2>6. QED
    BY <2>1, <2>2, <2>5 DEF l
<1>6. ASSUME NEW s1, NEW s2, NEW s3, NEW s4, NEW s5, NEW s6, NEW P, NEW Q, NEW M, Leads(s1, P, M),
             Leads(s2, M, M), Leads(s3, M, M), Leads(s4, M, M), Leads(s5, M, M), Leads(s6, M, Q)
      PROVE  Runs(<<s1, s2, s3, s4, s5, s6>>, P, Q)
  <2> DEFINE l == <<s1, s2, s3, s4, s5, s6>>
             a == <<P, M, M, M, M, M, Q>>
  <2>1. l \in Seq({s1, s2, s3, s4, s5, s6}) /\ Len(l) = 6
    OBVIOUS
  <2>2. a[1] = P /\ a[6 + 1] = Q /\ Within(P, P)
    BY WithinItself
  <2>3. \A i \in 1..6 : Leads(l[i], a[i], a[i + 1])
    BY <1>6
  <2> HIDE DEF l, a
  <2>4. IsList(l) /\ \A i \in 1..Len(l) : Leads(l[i], a[i], a[i + 1])
    BY <2>1, <2>3 DEF IsList
  <2>5. Runs(l, P, a[Len(l) + 1])
    BY <2>2, <2>4, RunsAlong
  <2>6. QED
    BY <2>1, <2>2, <2>5 DEF l
<1>7. ASSUME NEW s1, NEW s2, NEW s3, NEW s4, NEW s5, NEW s6, NEW s7, NEW P, NEW Q, NEW M,
             Leads(s1, P, M), Leads(s2, M, M), Leads(s3, M, M), Leads(s4, M, M), Leads(s5, M, M),
             Leads(s6, M, M), Leads(s7, M, Q)
      PROVE  Runs(<<s1, s2, s3, s4, s5, s6, s7>>, P, Q)
  <2> DEFINE l == <<s1, s2, s3, s4, s5, s6, s7>>
             a == <<P, M, M, M, M, M, M, Q>>
  <2>1. l \in Seq({s1, s2, s3, s4, s5, s6, s7}) /\ Len(l) = 7
    OBVIOUS
  <2>2. a[1] = P /\ a[7 + 1] = Q /\ Within(P, P)
    BY WithinItself
  <2>3. \A i \in 1..7 : Leads(l[i], a[i], a[i + 1])
    BY <1>7
  <2> HIDE DEF l, a
  <2>4. IsList(l) /\ \A i \in 1..Len(l) : Leads(l[i], a[i], a[i + 1])
    BY <2>1, <2>3 DEF IsList
  <2>5. Runs(l, P, a[Len(l) + 1])
    BY <2>2, <2>4, RunsAlong
  <2>6. QED
    BY <2>1, <2>2, <2>5 DEF l
<1>8. ASSUME NEW s1, NEW s2, NEW s3, NEW s4, NEW s5, NEW s6, NEW s7, NEW s8, NEW P, NEW Q, NEW M,
             Leads(s1, P, M), Leads(s2, M, M), Leads(s3, M, M), Leads(s4, M, M), Leads(s5, M, M),
             Leads(s6, M, M), Leads(s7, M, M), Leads(s8, M, Q)
      PROVE  Runs(<<s1, s2, s3, s4, s5, s6, s7, s8>>, P, Q)
  <2> DEFINE l == <<s1, s2, s3, s4, s5, s6, s7, s8>>
             a == <<P, M, M, M, M, M, M, M, Q>>
  <2>1. l \in Seq({s1, s2, s3, s4, s5, s6, s7, s8}) /\ Len(l) = 8
    OBVIOUS
  <2>2. a[1] = P /\ a[8 + 1] = Q /\ Within(P, P)
    BY WithinItself
  <2>3. \A i \in 1..8 : Leads(l[i], a[i], a[i + 1])
    BY <1>8
  <2> HIDE DEF l, a
  <2>4. IsList(l) /\ \A i \in 1..Len(l) : Leads(l[i], a[i], a[i + 1])
    BY <2>1, <2>3 DEF IsList
  <2>5. Runs(l, P, a[Len(l) + 1])
    BY <2>2, <2>4, RunsAlong
  <2>6. QED
    BY <2>1, <2>2, <2>5 DEF l
<1>9. ASSUME NEW s1, NEW s2, NEW s3, NEW s4, NEW s5, NEW s6, NEW s7, NEW s8, NEW s9, NEW P, NEW Q,
             NEW M, Leads(s1, P, M), Leads(s2, M, M), Leads(s3, M, M), Leads(s4, M, M),
             Leads(s5, M, M), Leads(s6, M, M), Leads(s7, M, M), Leads(s8, M, M), Leads(s9, M, Q)
      PROVE  Runs(<<s1, s2, s3, s4, s5, s6, s7, s8, s9>>, P, Q)
  <2> DEFINE l == <<s1, s2, s3, s4, s5, s6, s7, s8, s9>>
             a == <<P, M, M, M, M, M, M, M, M, Q>>
  <2>1. l \in Seq({s1, s2, s3, s4, s5, s6, s7, s8, s9}) /\ Len(l) = 9
    OBVIOUS
  <2>2. a[1] = P /\ a[9 + 1] = Q /\ Within(P, P)
    BY WithinItself
  <2>3. \A i \in 1..9 : Leads(l[i], a[i], a[i + 1])
    BY <1>9
  <2> HIDE DEF l, a
  <2>4. IsList(l) /\ \A i \in 1..Len(l) : Leads(l[i], a[i], a[i + 1])
    BY <2>1, <2>3 DEF IsList
  <2>5. Runs(l, P, a[Len(l) + 1])
    BY <2>2, <2>4, RunsAlong
  <2>6. QED
    BY <2>1, <2>2, <2>5 DEF l
<1>10. QED
  BY <1>5, <1>6, <1>7, <1>8, <1>9

\* Places at which most steps leave a function.
Steady(c, s, r) == Place(<<>>, c, s, IF c = "body" THEN s ELSE {}, r)
IsSteady(M) ==
    \E c \in {"shut", "open", "body"}, s \in {Anything, Went} : \E r : M = Steady(c, s, r)
Moves(P, Q) == Q.k = <<>> /\ Keeps(P, Q) /\ \A x \in P.s : Onward(x) \in Q.s
Ordinary == {f \in Pairing : Known(f) = <<>>}

LEMMA SteadyIs ==
    ASSUME NEW M, IsSteady(M)
    PROVE  /\ M.k = <<>> /\ M.s \in {Anything, Went} /\ M.c \in {"shut", "open", "body"}
           /\ Keeps(M, M) /\ Moves(M, M) /\ Within(M, M)
           /\ M.c = "body" => M.b = M.s
           /\ IsSteady(InBody(M, M.s)) /\ InBody(M, M.s).c = "body"
           /\ \A k : IsList(k) => Within(Knowing(M, k), M)
           /\ M = Place(<<>>, M.c, M.s, M.b, M.r)
<1>0. PICK c \in {"shut", "open", "body"}, s \in {Anything, Went} : \E r : M = Steady(c, s, r)
  BY DEF IsSteady
<1>1. PICK r : M = Steady(c, s, r)
  BY <1>0
<1>2. /\ M.k = <<>> /\ M.s = s /\ M.c = c /\ M.r = r /\ (c = "body" => M.b = s)
      /\ M = Place(<<>>, M.c, M.s, M.b, M.r)
  BY <1>1 DEF Steady, Place
<1>3. Keeps(M, M) /\ Within(M, M)
  BY DEF Keeps, Alike, Within
<1>4. \A x \in s : Onward(x) \in s
  BY DEF Anything, Went, Onward, NullOnes
<1>5. InBody(M, M.s) = Steady("body", s, r) /\ InBody(M, M.s).c = "body"
  BY <1>2 DEF InBody, Steady, Place
<1>6. \A k : IsList(k) => Within(Knowing(M, k), M)
  BY <1>2 DEF Within, Knowing, Place, Keeps, Alike
<1>7. QED
  BY <1>2, <1>3, <1>4, <1>5, <1>6 DEF Moves, IsSteady

\* Steps that may stand anywhere.
LEMMA MovingSteps ==
    ASSUME NEW P, NEW Q, Moves(P, Q)
    PROVE  /\ \A t : t \notin Edges =>
                  /\ Leads(Expect(t), P, Q) /\ Leads(Must(t), P, Q) /\ Leads(MustOrRewind(t), P, Q)
                  /\ \A r : Leads(<<"must", t, r>>, P, Q)
           /\ \A k : IsList(k) /\ k # <<>> /\ k[1] \cap Edges = {} => Leads(Take, Knowing(P, k), Q)
           /\ Leads(<<"interpolate">>, Knowing(P, <<{"INTERPOLATED"}>>), Q)
<1>1. ASSUME NEW t, t \notin Edges
      PROVE  /\ Leads(Expect(t), P, Q) /\ Leads(Must(t), P, Q) /\ Leads(MustOrRewind(t), P, Q)
             /\ \A r : Leads(<<"must", t, r>>, P, Q)
  <2>1. WantLeads(t, P, Q)
    BY <1>1 DEF WantLeads, Moves, Shifts, Keeps, Edges
  <2>2. \A r : LeadsSimply(<<"must", t, r>>, P, Q)
    BY <2>1, Zenon DEF LeadsSimply
  <2>3. LeadsSimply(Expect(t), P, Q)
    BY <2>1, Zenon DEF LeadsSimply
  <2>4. QED
    BY <2>2, <2>3, SimplyLeads, Zenon DEF Must, MustOrRewind
<1>2. ASSUME NEW k, IsList(k), k # <<>>, k[1] \cap Edges = {} PROVE Leads(Take, Knowing(P, k), Q)
  <2>1. TakeLeads(Knowing(P, k), Q)
    BY <1>2 DEF TakeLeads, Moves, Keeps, Alike, Knowing, Place
  <2>2. QED
    BY <2>1, SimplyLeads, Zenon DEF LeadsSimply
<1>3. Leads(<<"interpolate">>, Knowing(P, <<{"INTERPOLATED"}>>), Q)
  <2> DEFINE R == Knowing(P, <<{"INTERPOLATED"}>>)
  <2>1. 1 \in DOMAIN R.k /\ R.k[1] = {"INTERPOLATED"} /\ Q.k = <<>> /\ Keeps(R, Q)
        /\ \A x \in R.s : Onward(x) \in Q.s
    BY DEF Moves, Keeps, Alike, Knowing, Place
  <2> HIDE DEF R
  <2>2. LeadsSimply(<<"interpolate">>, R, Q)
    BY <2>1, Zenon DEF LeadsSimply
  <2>3. QED
    BY <2>2, SimplyLeads DEF R
<1>4. QED
  BY <1>1, <1>2, <1>3

\* Steps that stay at one place.
LEMMA SteadySteps ==
    ASSUME NEW M, IsSteady(M)
    PROVE  /\ \A t : t \notin Edges =>
                  /\ Leads(Expect(t), M, M) /\ Leads(Must(t), M, M) /\ Leads(MustOrRewind(t), M, M)
                  /\ Leads(Opt(t), M, M) /\ \A r : Leads(<<"must", t, r>>, M, M)
           /\ \A k : IsList(k) /\ k # <<>> /\ k[1] \cap Edges = {} => Leads(Take, Knowing(M, k), M)
           /\ Leads(<<"interpolate">>, Knowing(M, <<{"INTERPOLATED"}>>), M)
           /\ \A f, p : f \in Ordinary => Leads(Call(f), M, M) /\ Leads(<<"call", f, p>>, M, M)
<1>1. M.k = <<>> /\ Keeps(M, M) /\ Moves(M, M) /\ M.s \in {Anything, Went}
  BY SteadyIs
<1>2. ASSUME NEW t, t \notin Edges PROVE Leads(Opt(t), M, M)
  <2>1. OptLeads(t, M, M)
    BY <1>1, <1>2 DEF OptLeads, Moves
  <2>2. QED
    BY <2>1, SimplyLeads, Zenon DEF LeadsSimply
<1>3. ASSUME NEW f, NEW p, f \in Ordinary PROVE Leads(<<"call", f, p>>, M, M)
  <2>1. \A x \in M.s, y \in Outcomes(f) : Called(x, y) \in M.s
    <3>1. Outcomes(f) \subseteq Anything
      BY DEF Outcomes, Anything, Went, Tried, Settled
    <3>2. QED
      BY <1>1, <3>1 DEF Called, Onward, Anything, Went, NullOnes
  <2>2. CallLeads(f, M, M)
    BY <1>1, <1>3, <2>1 DEF CallLeads, Ordinary
  <2>3. QED
    BY <2>2, SimplyLeads, Zenon DEF LeadsSimply
<1>4. \A f : f \in Ordinary => Leads(Call(f), M, M)
  BY <1>3, Zenon DEF Call
<1>5. QED
  BY <1>1, <1>2, <1>3, <1>4, MovingSteps

\* Functions that may be called anywhere.
LEMMA OrdinaryAre ==
    {"parseTopLevelItem", "parseFunctionDecl", "parseTypeParams", "parseParamList", "parseStructDecl",
     "parseEnumDecl", "parseImplBlock", "parseImportStmt", "parseConstDecl", "parseModuleDecl",
     "parseExportDecl", "parseLoadStmt", "parseCoroutineDecl", "parseStatement", "parseBlock",
     "blockStep", "topLevelStep", "parseLetStmt", "parseMutStmt", "parseExprStmt", "parseIfStmt",
     "parseForStmt", "parseWhileStmt", "parseReturnStmt", "parseBreakStmt", "parseContinueStmt",
     "parseTryCatchStmt", "parseThrowStmt", "parseOpStmt", "parseMatchStmt", "parseAssertStmt",
     "parseExpectStmt", "parseHotReloadStmt", "parsePrimary", "parsePostfix", "parseAtom",
     "parseSimpleType", "parseIdentifier", "parseType", "parseExpression"} \subseteq Ordinary
  BY FunctionsAre DEF Ordinary, Pairing, Known

\* The steps with names of their own.
LEMMA NamedSteps ==
    ASSUME NEW M, IsSteady(M)
    PROVE  /\ Leads(Ident, M, M) /\ Leads(Type, M, M) /\ Leads(Block, M, M) /\ Leads(Stmt, M, M)
           /\ Leads(Semi, M, M) /\ \A p : Leads(Expr(p), M, M)
<1>1. {"parseIdentifier", "parseType", "parseBlock", "parseStatement", "parseExpression"}
         \subseteq Ordinary
  BY OrdinaryAre
<1>2. "SEMICOLON" \notin Edges
  BY DEF Edges
<1>3. QED
  BY <1>1, <1>2, SteadySteps, Zenon DEF Ident, Type, Block, Stmt, Semi, Expr

\* An error, break, or return lead on to any place of the function.
LEMMA LastSteps ==
    ASSUME NEW P, NEW Q, Keeps(P, Q)
    PROVE  /\ Leads(Error, P, Q)
           /\ P.c = "body" /\ P.s \subseteq P.b => Leads(Break, P, Q)
           /\ \A r \in {"node", "null", "same", "rewind"} :
                 P.c = "shut" /\ (\A x \in P.s : Returned(r, x) \in P.r) => Leads(Return(r), P, Q)
           /\ \A s : P.s = {} /\ s[1] \notin {"end", "while"} => Leads(s, P, Q)
           /\ \A s : 1 \in DOMAIN P.k /\ P.k[1] \subseteq Unpaired /\ s[1] \notin {"end", "while"} => Leads(s, P, Q)
<1>1. LeadsSimply(Error, P, Q)
  BY Zenon DEF LeadsSimply
<1>2. P.c = "body" /\ P.s \subseteq P.b => LeadsSimply(Break, P, Q)
  BY Zenon DEF LeadsSimply
<1>3. ASSUME NEW r \in {"node", "null", "same", "rewind"}, P.c = "shut", \A x \in P.s : Returned(r, x) \in P.r
      PROVE  LeadsSimply(Return(r), P, Q)
  <2>1. ReturnLeads(r, P, Q)
    BY <1>3 DEF ReturnLeads
  <2>2. QED
    BY <2>1, Zenon DEF LeadsSimply
<1>4. \A s : Unreached(P) /\ s[1] \notin {"end", "while"} => LeadsSimply(s, P, Q)
  BY Zenon DEF LeadsSimply
<1>5. QED
  BY <1>1, <1>2, <1>3, <1>4, SimplyLeads DEF Unreached

\* The cases of a choice lead from P to Q.
CaseRuns(c, P, Q) == Runs(c[2], Knowing(P, c[1]), Q)
Cases(cs, P, Q) == IsList(cs) /\ \A i \in DOMAIN cs : CaseRuns(cs[i], P, Q)

LEMMA OneCase ==
    ASSUME NEW l, NEW P, NEW Q
    PROVE  /\ \A p : Runs(l, Knowing(P, p), Q) => CaseRuns(<<p, l>>, P, Q)
           /\ P.k = <<>> /\ Runs(l, P, Q) => /\ \A p : CaseRuns(<<p, l>>, P, Q)
                                             /\ CaseRuns(Else(l), P, Q)
           /\ Runs(l, Knowing(P, <<>>), Q) => CaseRuns(Else(l), P, Q)
<1>1. ASSUME NEW p, Runs(l, Knowing(P, p), Q) PROVE CaseRuns(<<p, l>>, P, Q)
  BY <1>1 DEF CaseRuns
<1>2. ASSUME P.k = <<>>, Runs(l, P, Q), NEW p PROVE Runs(l, Knowing(P, p), Q)
  <2>1. Within(Knowing(P, p), P)
    BY <1>2 DEF Within, Keeps, Alike, Knowing, Place
  <2>2. QED
    BY <1>2, <2>1, RunsFrom
<1>3. QED
  BY <1>1, <1>2 DEF Else

LEMMA CasesLead ==
    ASSUME NEW cs, NEW P, NEW Q, Cases(cs, P, Q), Keeps(P, Q), Q.k = <<>>,
           P.s \subseteq Q.s \/ \E i \in DOMAIN cs : cs[i][1] = <<>>
    PROVE  Leads(Choose(cs), P, Q)
  BY ChoiceLeads DEF Cases, CaseRuns

LEMMA CasesJoin ==
    ASSUME NEW x, NEW y, NEW P, NEW Q, Cases(x, P, Q), Cases(y, P, Q)
    PROVE  Cases(x \o y, P, Q)
<1>1. PICK S, T : x \in Seq(S) /\ y \in Seq(T)
  BY DEF Cases, IsList
<1>2. x \in Seq(S \cup T) /\ y \in Seq(S \cup T)
  BY <1>1
<1>3. /\ x \o y \in Seq(S \cup T)
      /\ DOMAIN x = 1..Len(x) /\ DOMAIN y = 1..Len(y) /\ Len(x) \in Nat /\ Len(y) \in Nat
      /\ DOMAIN (x \o y) = 1..(Len(x) + Len(y))
      /\ \A k \in 1..(Len(x) + Len(y)) : (x \o y)[k] = IF k <= Len(x) THEN x[k] ELSE y[k - Len(x)]
  BY <1>2, JoinElements, ConcatProperties
<1>4. ASSUME NEW k \in 1..(Len(x) + Len(y)) PROVE CaseRuns((x \o y)[k], P, Q)
  <2>1. CASE k <= Len(x)
    <3>1. k \in DOMAIN x /\ (x \o y)[k] = x[k]
      BY <1>3, <2>1
    <3>2. QED
      BY <3>1 DEF Cases
  <2>2. CASE ~(k <= Len(x))
    <3>1. k - Len(x) \in DOMAIN y /\ (x \o y)[k] = y[k - Len(x)]
      BY <1>3, <2>2
    <3>2. QED
      BY <3>1 DEF Cases
  <2>3. QED
    BY <2>1, <2>2
<1>5. QED
  BY <1>3, <1>4 DEF Cases, IsList

LEMMA CasesTuples ==
    /\ \A c1, P, Q : CaseRuns(c1, P, Q)
          => Cases(<<c1>>, P, Q)
    /\ \A c1, c2, P, Q : CaseRuns(c1, P, Q) /\ CaseRuns(c2, P, Q)
          => Cases(<<c1, c2>>, P, Q)
    /\ \A c1, c2, c3, P, Q : CaseRuns(c1, P, Q) /\ CaseRuns(c2, P, Q) /\ CaseRuns(c3, P, Q)
          => Cases(<<c1, c2, c3>>, P, Q)
    /\ \A c1, c2, c3, c4, P, Q : CaseRuns(c1, P, Q) /\ CaseRuns(c2, P, Q) /\ CaseRuns(c3, P, Q)
          /\ CaseRuns(c4, P, Q)
          => Cases(<<c1, c2, c3, c4>>, P, Q)
    /\ \A c1, c2, c3, c4, c5, P, Q : CaseRuns(c1, P, Q) /\ CaseRuns(c2, P, Q) /\ CaseRuns(c3, P, Q)
          /\ CaseRuns(c4, P, Q) /\ CaseRuns(c5, P, Q)
          => Cases(<<c1, c2, c3, c4, c5>>, P, Q)
<1>1. ASSUME NEW c1, NEW P, NEW Q,
             CaseRuns(c1, P, Q)
      PROVE  Cases(<<c1>>, P, Q)
  <2>1. <<c1>> \in Seq({c1}) /\ DOMAIN <<c1>> = 1..1
    OBVIOUS
  <2>2. \A i \in 1..1 : CaseRuns(<<c1>>[i], P, Q)
    BY <1>1
  <2>3. QED
    BY <2>1, <2>2 DEF Cases, IsList
<1>2. ASSUME NEW c1, NEW c2, NEW P, NEW Q,
             CaseRuns(c1, P, Q), CaseRuns(c2, P, Q)
      PROVE  Cases(<<c1, c2>>, P, Q)
  <2>1. <<c1, c2>> \in Seq({c1, c2}) /\ DOMAIN <<c1, c2>> = 1..2
    OBVIOUS
  <2>2. \A i \in 1..2 : CaseRuns(<<c1, c2>>[i], P, Q)
    BY <1>2
  <2>3. QED
    BY <2>1, <2>2 DEF Cases, IsList
<1>3. ASSUME NEW c1, NEW c2, NEW c3, NEW P, NEW Q,
             CaseRuns(c1, P, Q), CaseRuns(c2, P, Q), CaseRuns(c3, P, Q)
      PROVE  Cases(<<c1, c2, c3>>, P, Q)
  <2>1. <<c1, c2, c3>> \in Seq({c1, c2, c3}) /\ DOMAIN <<c1, c2, c3>> = 1..3
    OBVIOUS
  <2>2. \A i \in 1..3 : CaseRuns(<<c1, c2, c3>>[i], P, Q)
    BY <1>3
  <2>3. QED
    BY <2>1, <2>2 DEF Cases, IsList
<1>4. ASSUME NEW c1, NEW c2, NEW c3, NEW c4, NEW P, NEW Q,
             CaseRuns(c1, P, Q), CaseRuns(c2, P, Q), CaseRuns(c3, P, Q), CaseRuns(c4, P, Q)
      PROVE  Cases(<<c1, c2, c3, c4>>, P, Q)
  <2>1. <<c1, c2, c3, c4>> \in Seq({c1, c2, c3, c4}) /\ DOMAIN <<c1, c2, c3, c4>> = 1..4
    OBVIOUS
  <2>2. \A i \in 1..4 : CaseRuns(<<c1, c2, c3, c4>>[i], P, Q)
    BY <1>4
  <2>3. QED
    BY <2>1, <2>2 DEF Cases, IsList
<1>5. ASSUME NEW c1, NEW c2, NEW c3, NEW c4, NEW c5, NEW P, NEW Q,
             CaseRuns(c1, P, Q), CaseRuns(c2, P, Q), CaseRuns(c3, P, Q), CaseRuns(c4, P, Q), CaseRuns(c5, P, Q)
      PROVE  Cases(<<c1, c2, c3, c4, c5>>, P, Q)
  <2>1. <<c1, c2, c3, c4, c5>> \in Seq({c1, c2, c3, c4, c5}) /\ DOMAIN <<c1, c2, c3, c4, c5>> = 1..5
    OBVIOUS
  <2>2. \A i \in 1..5 : CaseRuns(<<c1, c2, c3, c4, c5>>[i], P, Q)
    BY <1>5
  <2>3. QED
    BY <2>1, <2>2 DEF Cases, IsList
<1>6. QED
  BY <1>1, <1>2, <1>3, <1>4, <1>5

LEMMA WhenLeads ==
    ASSUME NEW p, NEW l, NEW P, NEW Q, Runs(l, Knowing(P, p), Q), Keeps(P, Q), Q.k = <<>>,
           P.s \subseteq Q.s
    PROVE  Leads(When(p, l), P, Q)
<1>1. CaseRuns(<<p, l>>, P, Q)
  BY OneCase
<1>2. Cases(<<<<p, l>>>>, P, Q)
  BY <1>1, CasesTuples
<1>3. QED
  BY <1>2, CasesLead DEF When

\* A choice with an else, and one at a place where it stays.
LEMMA ChoiceOf ==
    ASSUME NEW cs, NEW P, NEW Q, Cases(cs, P, Q), Keeps(P, Q), Q.k = <<>>, NEW l
    PROVE  /\ P.s \subseteq Q.s => Leads(Choose(cs), P, Q)
           /\ CaseRuns(Else(l), P, Q) => Leads(Choose(cs \o <<Else(l)>>), P, Q)
<1>1. ASSUME CaseRuns(Else(l), P, Q) PROVE Leads(Choose(cs \o <<Else(l)>>), P, Q)
  <2>1. Cases(<<Else(l)>>, P, Q)
    BY <1>1, CasesTuples
  <2>2. Cases(cs \o <<Else(l)>>, P, Q)
    BY <2>1, CasesJoin
  <2>3. PICK S : cs \in Seq(S)
    BY DEF Cases, IsList
  <2> DEFINE e == <<Else(l)>>
             n == Len(cs) + 1
  <2>4. cs \in Seq(S \cup {Else(l)}) /\ e \in Seq(S \cup {Else(l)}) /\ Len(e) = 1 /\ e[1] = Else(l)
    BY <2>3
  <2> HIDE DEF e
  <2>5. n \in DOMAIN (cs \o e) /\ (cs \o e)[n] = Else(l)
    BY <2>4, JoinElements
  <2>6. Else(l)[1] = <<>>
    BY DEF Else
  <2>7. QED
    BY <2>2, <2>5, <2>6, CasesLead DEF e
<1>2. QED
  BY <1>1, CasesLead

LEMMA LoopAt ==
    ASSUME NEW M, IsSteady(M), NEW stop, NEW body, Runs(body, InBody(M, M.s), InBody(M, M.s))
    PROVE  Leads(While(stop, body), M, M)
  BY SteadyIs, LoopLeads

\* Whatever follows an error is no matter.
LEMMA ErrorRuns ==
    ASSUME NEW P, NEW Q, Keeps(P, Q)
    PROVE  /\ Runs(<<Error>>, P, Q)
           /\ \A s : s[1] \notin {"end", "while"} => Runs(<<Error, s>>, P, Q)
           /\ \A s, t : s[1] \notin {"end", "while"} /\ t[1] \notin {"end", "while"}
                 => Runs(<<Error, s, t>>, P, Q)
<1> DEFINE N == Place(<<>>, P.c, {}, P.b, P.r)
<1>1. Keeps(P, N) /\ Keeps(N, N) /\ Keeps(N, Q) /\ N.s = {}
  BY DEF Keeps, Alike, Place
<1> HIDE DEF N
<1>2. Leads(Error, P, Q) /\ Leads(Error, P, N)
  BY <1>1, LastSteps
<1>3. \A s : s[1] \notin {"end", "while"} => Leads(s, N, N) /\ Leads(s, N, Q)
  BY <1>1, LastSteps
<1>4. QED
  BY <1>2, <1>3, RunsTuples

\* Lists with a brace that is opened and shut again.
LEMMA RunsBraced ==
    /\ \A s1, s2, s3, s4, P, O, M, Q :
          Leads(s1, P, O) /\ Leads(s2, O, O)
          /\ Leads(s3, O, M) /\ Leads(s4, M, Q)
          => Runs(<<s1, s2, s3, s4>>, P, Q)
    /\ \A s1, s2, s3, s4, s5, P, R, O, M, Q :
          Leads(s1, P, R) /\ Leads(s2, R, O) /\ Leads(s3, O, O)
          /\ Leads(s4, O, M) /\ Leads(s5, M, Q)
          => Runs(<<s1, s2, s3, s4, s5>>, P, Q)
    /\ \A s1, s2, s3, s4, s5, s6, P, O, M, Q :
          Leads(s1, P, M) /\ Leads(s2, M, M) /\ Leads(s3, M, O)
          /\ Leads(s4, O, O) /\ Leads(s5, O, M) /\ Leads(s6, M, Q)
          => Runs(<<s1, s2, s3, s4, s5, s6>>, P, Q)
    /\ \A s1, s2, s3, s4, s5, s6, s7, P, O, M, Q :
          Leads(s1, P, M) /\ Leads(s2, M, M) /\ Leads(s3, M, M) /\ Leads(s4, M, O)
          /\ Leads(s5, O, O) /\ Leads(s6, O, M) /\ Leads(s7, M, Q)
          => Runs(<<s1, s2, s3, s4, s5, s6, s7>>, P, Q)
<1>4. ASSUME NEW s1, NEW s2, NEW s3, NEW s4, NEW P, NEW O, NEW M, NEW Q,
             Leads(s1, P, O), Leads(s2, O, O),
             Leads(s3, O, M), Leads(s4, M, Q)
      PROVE  Runs(<<s1, s2, s3, s4>>, P, Q)
  <2> DEFINE l == <<s1, s2, s3, s4>>
             a == <<P, O, O, M, Q>>
  <2>1. l \in Seq({s1, s2, s3, s4}) /\ Len(l) = 4
    OBVIOUS
  <2>2. a[1] = P /\ a[4 + 1] = Q /\ Within(P, P)
    BY WithinItself
  <2>3. \A i \in 1..4 : Leads(l[i], a[i], a[i + 1])
    BY <1>4
  <2> HIDE DEF l, a
  <2>4. IsList(l) /\ \A i \in 1..Len(l) : Leads(l[i], a[i], a[i + 1])
    BY <2>1, <2>3 DEF IsList
  <2>5. Runs(l, P, a[Len(l) + 1])
    BY <2>2, <2>4, RunsAlong
  <2>6. QED
    BY <2>1, <2>2, <2>5 DEF l
<1>5. ASSUME NEW s1, NEW s2, NEW s3, NEW s4, NEW s5, NEW P, NEW R, NEW O, NEW M, NEW Q,
             Leads(s1, P, R), Leads(s2, R, O), Leads(s3, O, O),
             Leads(s4, O, M), Leads(s5, M, Q)
      PROVE  Runs(<<s1, s2, s3, s4, s5>>, P, Q)
  <2> DEFINE l == <<s1, s2, s3, s4, s5>>
             a == <<P, R, O, O, M, Q>>
  <2>1. l \in Seq({s1, s2, s3, s4, s5}) /\ Len(l) = 5
    OBVIOUS
  <2>2. a[1] = P /\ a[5 + 1] = Q /\ Within(P, P)
    BY WithinItself
  <2>3. \A i \in 1..5 : Leads(l[i], a[i], a[i + 1])
    BY <1>5
  <2> HIDE DEF l, a
  <2>4. IsList(l) /\ \A i \in 1..Len(l) : Leads(l[i], a[i], a[i + 1])
    BY <2>1, <2>3 DEF IsList
  <2>5. Runs(l, P, a[Len(l) + 1])
    BY <2>2, <2>4, RunsAlong
  <2>6. QED
    BY <2>1, <2>2, <2>5 DEF l
<1>6. ASSUME NEW s1, NEW s2, NEW s3, NEW s4, NEW s5, NEW s6, NEW P, NEW O, NEW M, NEW Q,
             Leads(s1, P, M), Leads(s2, M, M), Leads(s3, M, O),
             Leads(s4, O, O), Leads(s5, O, M), Leads(s6, M, Q)
      PROVE  Runs(<<s1, s2, s3, s4, s5, s6>>, P, Q)
  <2> DEFINE l == <<s1, s2, s3, s4, s5, s6>>
             a == <<P, M, M, O, O, M, Q>>
  <2>1. l \in Seq({s1, s2, s3, s4, s5, s6}) /\ Len(l) = 6
    OBVIOUS
  <2>2. a[1] = P /\ a[6 + 1] = Q /\ Within(P, P)
    BY WithinItself
  <2>3. \A i \in 1..6 : Leads(l[i], a[i], a[i + 1])
    BY <1>6
  <2> HIDE DEF l, a
  <2>4. IsList(l) /\ \A i \in 1..Len(l) : Leads(l[i], a[i], a[i + 1])
    BY <2>1, <2>3 DEF IsList
  <2>5. Runs(l, P, a[Len(l) + 1])
    BY <2>2, <2>4, RunsAlong
  <2>6. QED
    BY <2>1, <2>2, <2>5 DEF l
<1>7. ASSUME NEW s1, NEW s2, NEW s3, NEW s4, NEW s5, NEW s6, NEW s7, NEW P, NEW O, NEW M, NEW Q,
             Leads(s1, P, M), Leads(s2, M, M), Leads(s3, M, M), Leads(s4, M, O),
             Leads(s5, O, O), Leads(s6, O, M), Leads(s7, M, Q)
      PROVE  Runs(<<s1, s2, s3, s4, s5, s6, s7>>, P, Q)
  <2> DEFINE l == <<s1, s2, s3, s4, s5, s6, s7>>
             a == <<P, M, M, M, O, O, M, Q>>
  <2>1. l \in Seq({s1, s2, s3, s4, s5, s6, s7}) /\ Len(l) = 7
    OBVIOUS
  <2>2. a[1] = P /\ a[7 + 1] = Q /\ Within(P, P)
    BY WithinItself
  <2>3. \A i \in 1..7 : Leads(l[i], a[i], a[i + 1])
    BY <1>7
  <2> HIDE DEF l, a
  <2>4. IsList(l) /\ \A i \in 1..Len(l) : Leads(l[i], a[i], a[i + 1])
    BY <2>1, <2>3 DEF IsList
  <2>5. Runs(l, P, a[Len(l) + 1])
    BY <2>2, <2>4, RunsAlong
  <2>6. QED
    BY <2>1, <2>2, <2>5 DEF l
<1>8. QED
  BY <1>4, <1>5, <1>6, <1>7

LEMMA TakeSteps ==
    ASSUME NEW P, NEW Q, Moves(P, Q), NEW T, T \cap Edges = {}, NEW U
    PROVE  /\ Leads(Take, Knowing(P, <<T>>), Q) /\ Leads(Take, Knowing(P, <<T, U>>), Q)
           /\ Leads(Take, Knowing(P, <<T, U>>), Knowing(Q, <<U>>))
<1> DEFINE k == <<T, U>>
           j == <<T>>
<1>1. IsList(k) /\ k # <<>> /\ k[1] = T /\ Tail(k) = <<U>> /\ IsList(j) /\ j # <<>> /\ j[1] = T
  <2>1. k \in Seq({T, U}) /\ j \in Seq({T})
    OBVIOUS
  <2>2. IsList(k) /\ IsList(j)
    BY <2>1 DEF IsList
  <2>3. k # <<>> /\ j # <<>> /\ k[1] = T /\ j[1] = T
    OBVIOUS
  <2>4. Tail(k) = <<U>>
    OBVIOUS
  <2>5. QED
    BY <2>2, <2>3, <2>4
<1> HIDE DEF k, j
<1>2. Leads(Take, Knowing(P, k), Q) /\ Leads(Take, Knowing(P, j), Q)
  BY <1>1, MovingSteps
<1>3. TakeLeads(Knowing(P, k), Knowing(Q, <<U>>))
  BY <1>1 DEF TakeLeads, Moves, Keeps, Alike, Knowing, Place
<1>4. Leads(Take, Knowing(P, k), Knowing(Q, <<U>>))
  BY <1>3, SimplyLeads, Zenon DEF LeadsSimply
<1>5. QED
  BY <1>2, <1>4 DEF k, j

\* Parts that many functions have.
LEMMA SteadyParts ==
    ASSUME NEW M, IsSteady(M)
    PROVE  /\ Leads(Typed, M, M) /\ Leads(Valued, M, M) /\ Leads(Arrow, M, M)
           /\ \A close : close \notin Edges => Runs(Commas(close), M, M)
           /\ \A T : T \cap Edges = {} =>
                 /\ CaseRuns(<<<<T>>, <<Take>>>>, M, M)
                 /\ Leads(When(<<T>>, <<Take, Type>>), M, M)
                 /\ Leads(When(<<T>>, <<Take, Expr(P_NONE)>>), M, M)
           /\ M.c = "body" => CaseRuns(Else(<<Break>>), M, M)
           /\ \A s : s[1] \notin {"end", "while"} => CaseRuns(Else(<<Error, s>>), M, M)
           /\ CaseRuns(Else(<<Error>>), M, M) /\ \A p : CaseRuns(<<p, <<>>>>, M, M)
<1>1. M.k = <<>> /\ Keeps(M, M) /\ Moves(M, M) /\ M.s \subseteq M.s /\ Within(M, M)
  BY SteadyIs
<1>2. ASSUME NEW T, T \cap Edges = {}
      PROVE  /\ CaseRuns(<<<<T>>, <<Take>>>>, M, M)
             /\ Leads(When(<<T>>, <<Take, Type>>), M, M)
             /\ Leads(When(<<T>>, <<Take, Expr(P_NONE)>>), M, M)
  <2>1. Leads(Take, Knowing(M, <<T>>), M)
    BY <1>1, <1>2, TakeSteps
  <2>2. /\ Runs(<<Take>>, Knowing(M, <<T>>), M)
        /\ Runs(<<Take, Type>>, Knowing(M, <<T>>), M)
        /\ Runs(<<Take, Expr(P_NONE)>>, Knowing(M, <<T>>), M)
    BY <2>1, NamedSteps, RunsTuples
  <2>3. QED
    BY <1>1, <2>2, OneCase, WhenLeads
<1>3. Leads(Typed, M, M) /\ Leads(Valued, M, M) /\ Leads(Arrow, M, M)
  <2>1. {"COLON"} \cap Edges = {} /\ {"EQUAL"} \cap Edges = {} /\ {"ARROW"} \cap Edges = {}
    BY DEF Edges
  <2>2. QED
    BY <1>2, <2>1 DEF Typed, Valued, Arrow
<1>4. ASSUME NEW N, IsSteady(N), N.c = "body" PROVE CaseRuns(Else(<<Break>>), N, N)
  <2>1. N.b = N.s /\ Keeps(N, N) /\ N.k = <<>>
    BY <1>4, SteadyIs
  <2>2. Leads(Break, N, N)
    BY <1>4, <2>1, LastSteps
  <2>3. Runs(<<Break>>, N, N)
    BY <2>2, RunsTuples
  <2>4. QED
    BY <2>1, <2>3, OneCase
<1>5. ASSUME NEW close, close \notin Edges PROVE Runs(Commas(close), M, M)
  <2> DEFINE N == InBody(M, M.s)
             ch == Choose(<< <<<<{"COMMA"}>>, <<Take>>>>, Else(<<Break>>) >>)
  <2>1. IsSteady(N) /\ N.c = "body"
    BY SteadyIs
  <2> HIDE DEF N
  <2>2. {"COMMA"} \cap Edges = {}
    BY DEF Edges
  <2>3. Keeps(N, N) /\ N.k = <<>> /\ Moves(N, N) /\ N.s \subseteq N.s
    BY <2>1, SteadyIs
  <2>4. CaseRuns(<<<<{"COMMA"}>>, <<Take>>>>, N, N)
    <3>1. Leads(Take, Knowing(N, <<{"COMMA"}>>), N)
      BY <2>2, <2>3, TakeSteps
    <3>2. QED
      BY <3>1, RunsTuples, OneCase
  <2>5. Leads(ch, N, N)
    BY <1>4, <2>1, <2>3, <2>4, CasesTuples, CasesLead
  <2> HIDE DEF ch
  <2>6. Runs(<<Expr(P_NONE), ch>>, N, N)
    BY <2>1, <2>5, NamedSteps, RunsTuples
  <2>7. Leads(While({close}, <<Expr(P_NONE), ch>>), M, M)
    BY <2>6, LoopAt DEF N
  <2>8. Leads(Expect(close), M, M)
    BY <1>5, SteadySteps
  <2>9. QED
    BY <2>7, <2>8, RunsTuples DEF Commas, ch
<1>6. CaseRuns(Else(<<Error>>), M, M) /\ \A s : s[1] \notin {"end", "while"} => CaseRuns(Else(<<Error, s>>), M, M)
  BY <1>1, ErrorRuns, OneCase
<1>7. \A p : CaseRuns(<<p, <<>>>>, M, M)
  BY <1>1, RunsNothing, OneCase
<1>8. QED
  BY <1>2, <1>3, <1>4, <1>5, <1>6, <1>7

\* Steps, lists and cases that stay at M.
Stays(s, M) == Leads(s, M, M)
StaysList(l, M) == Runs(l, M, M)
StaysCase(c, M) == CaseRuns(c, M, M)
Plain(T) == T \cap Edges = {}

LEMMA StaysTuples ==
    /\ \A s1, M : Stays(s1, M)
          => StaysList(<<s1>>, M)
    /\ \A s1, s2, M : Stays(s1, M) /\ Stays(s2, M)
          => StaysList(<<s1, s2>>, M)
    /\ \A s1, s2, s3, M : Stays(s1, M) /\ Stays(s2, M) /\ Stays(s3, M)
          => StaysList(<<s1, s2, s3>>, M)
    /\ \A s1, s2, s3, s4, M : Stays(s1, M) /\ Stays(s2, M) /\ Stays(s3, M) /\ Stays(s4, M)
          => StaysList(<<s1, s2, s3, s4>>, M)
    /\ \A s1, s2, s3, s4, s5, M :
             Stays(s1, M) /\ Stays(s2, M) /\ Stays(s3, M) /\ Stays(s4, M) /\ Stays(s5, M)
          => StaysList(<<s1, s2, s3, s4, s5>>, M)
    /\ \A s1, s2, s3, s4, s5, s6, M :
             Stays(s1, M) /\ Stays(s2, M) /\ Stays(s3, M) /\ Stays(s4, M) /\ Stays(s5, M) /\
             Stays(s6, M)
          => StaysList(<<s1, s2, s3, s4, s5, s6>>, M)
    /\ \A s1, s2, s3, s4, s5, s6, s7, M :
             Stays(s1, M) /\ Stays(s2, M) /\ Stays(s3, M) /\ Stays(s4, M) /\ Stays(s5, M) /\
             Stays(s6, M) /\ Stays(s7, M)
          => StaysList(<<s1, s2, s3, s4, s5, s6, s7>>, M)
    /\ \A s1, s2, s3, s4, s5, s6, s7, s8, M :
             Stays(s1, M) /\ Stays(s2, M) /\ Stays(s3, M) /\ Stays(s4, M) /\ Stays(s5, M) /\
             Stays(s6, M) /\ Stays(s7, M) /\ Stays(s8, M)
          => StaysList(<<s1, s2, s3, s4, s5, s6, s7, s8>>, M)
    /\ \A s1, s2, s3, s4, s5, s6, s7, s8, s9, M :
             Stays(s1, M) /\ Stays(s2, M) /\ Stays(s3, M) /\ Stays(s4, M) /\ Stays(s5, M) /\
             Stays(s6, M) /\ Stays(s7, M) /\ Stays(s8, M) /\ Stays(s9, M)
          => StaysList(<<s1, s2, s3, s4, s5, s6, s7, s8, s9>>, M)
<1>1. \A s, M : Leads(s, M, M) <=> Stays(s, M)
  BY DEF Stays
<1>2. \A l, M : Runs(l, M, M) <=> StaysList(l, M)
  BY DEF StaysList
<1>3. QED
  BY <1>1, <1>2, RunsTuples, RunsLongTuples

\* The steps that may stay anywhere.
LEMMA StaysSimply ==
    ASSUME NEW M, IsSteady(M)
    PROVE  /\ \A t : t \notin Edges => /\ Stays(Expect(t), M) /\ Stays(Must(t), M)
                                       /\ Stays(MustOrRewind(t), M) /\ Stays(Opt(t), M)
           /\ \A f : f \in Ordinary => Stays(Call(f), M)
           /\ Stays(Ident, M) /\ Stays(Type, M) /\ Stays(Block, M) /\ Stays(Stmt, M) /\ Stays(Semi, M)
           /\ \A p : Stays(Expr(p), M)
           /\ Stays(Typed, M) /\ Stays(Valued, M) /\ Stays(Arrow, M)
           /\ Stays(Error, M)
           /\ \A close : close \notin Edges => StaysList(Commas(close), M)
           /\ M.c = "body" => Stays(Break, M)
           /\ StaysList(<<>>, M)
<1>1. Keeps(M, M) /\ Within(M, M) /\ (M.c = "body" => M.b = M.s)
  BY SteadyIs
<1>2. Leads(Error, M, M) /\ (M.c = "body" => Leads(Break, M, M))
  BY <1>1, LastSteps
<1>3. Runs(<<>>, M, M)
  BY <1>1, RunsNothing
<1>4. QED
  BY <1>2, <1>3, SteadySteps, NamedSteps, SteadyParts DEF Stays, StaysList

\* Lists with a take in front.
LEMMA StaysTaking ==
    ASSUME NEW M, IsSteady(M), NEW T, Plain(T)
    PROVE  /\ StaysCase(<<<<T>>, <<Take>>>>, M)
           /\ \A l : StaysList(l, M) => StaysCase(<<<<T>>, <<Take>> \o l>>, M)
           /\ \A s1 : Stays(s1, M) => StaysCase(<<<<T>>, <<Take, s1>>>>, M)
           /\ \A s1, s2 : Stays(s1, M) /\ Stays(s2, M) => StaysCase(<<<<T>>, <<Take, s1, s2>>>>, M)
           /\ \A s1, s2, s3 : Stays(s1, M) /\ Stays(s2, M) /\ Stays(s3, M)
                 => StaysCase(<<<<T>>, <<Take, s1, s2, s3>>>>, M)
           /\ \A s1, s2, s3, s4 : Stays(s1, M) /\ Stays(s2, M) /\ Stays(s3, M) /\ Stays(s4, M)
                 => StaysCase(<<<<T>>, <<Take, s1, s2, s3, s4>>>>, M)
           /\ \A U : /\ StaysCase(<<<<T, U>>, <<Take>>>>, M)
                     /\ Plain(U) => StaysCase(<<<<T, U>>, <<Take, Take>>>>, M)
                     /\ \A s : s[1] \notin {"end", "while"} => StaysCase(<<<<T, U>>, <<Error, s>>>>, M)
<1>1. Keeps(M, M) /\ Moves(M, M) /\ M.k = <<>>
  BY SteadyIs
<1>2. /\ Leads(Take, Knowing(M, <<T>>), M)
      /\ \A U : /\ Leads(Take, Knowing(M, <<T, U>>), M)
                /\ Leads(Take, Knowing(M, <<T, U>>), Knowing(M, <<U>>))
  BY <1>1, TakeSteps DEF Plain
<1>3. ASSUME NEW l, Runs(l, Knowing(M, <<T>>), M) PROVE StaysCase(<<<<T>>, l>>, M)
  BY <1>3, OneCase DEF StaysCase
<1>4. ASSUME NEW l, NEW U, Runs(l, Knowing(M, <<T, U>>), M) PROVE StaysCase(<<<<T, U>>, l>>, M)
  BY <1>4, OneCase DEF StaysCase
<1>5. Runs(<<Take>>, Knowing(M, <<T>>), M)
  BY <1>2, RunsTuples
<1>6. ASSUME NEW l, StaysList(l, M) PROVE StaysCase(<<<<T>>, <<Take>> \o l>>, M)
  BY <1>3, <1>5, <1>6, RunsJoin DEF StaysList
<1>7. ASSUME NEW s1, Stays(s1, M) PROVE StaysCase(<<<<T>>, <<Take, s1>>>>, M)
  BY <1>2, <1>3, <1>7, RunsTuples DEF Stays
<1>8. ASSUME NEW s1, NEW s2, Stays(s1, M), Stays(s2, M) PROVE StaysCase(<<<<T>>, <<Take, s1, s2>>>>, M)
  BY <1>2, <1>3, <1>8, RunsTuples DEF Stays
<1>9. ASSUME NEW s1, NEW s2, NEW s3, Stays(s1, M), Stays(s2, M), Stays(s3, M)
      PROVE  StaysCase(<<<<T>>, <<Take, s1, s2, s3>>>>, M)
  BY <1>2, <1>3, <1>9, RunsTuples DEF Stays
<1>10. ASSUME NEW s1, NEW s2, NEW s3, NEW s4, Stays(s1, M), Stays(s2, M), Stays(s3, M), Stays(s4, M)
      PROVE  StaysCase(<<<<T>>, <<Take, s1, s2, s3, s4>>>>, M)
  <2>1. Runs(<<Take, s1, s2, s3, s4>>, Knowing(M, <<T>>), M)
    BY <1>2, <1>10, RunsLongTuples, Zenon DEF Stays
  <2>2. QED
    BY <1>3, <2>1
<1>11. ASSUME NEW U PROVE StaysCase(<<<<T, U>>, <<Take>>>>, M)
  BY <1>2, <1>4, RunsTuples
<1>12. ASSUME NEW U, Plain(U) PROVE StaysCase(<<<<T, U>>, <<Take, Take>>>>, M)
  <2>1. Leads(Take, Knowing(M, <<U>>), M)
    BY <1>1, <1>12, TakeSteps DEF Plain
  <2>2. QED
    BY <1>2, <1>4, <2>1, RunsTuples
<1>13. ASSUME NEW U, NEW s, s[1] \notin {"end", "while"} PROVE StaysCase(<<<<T, U>>, <<Error, s>>>>, M)
  <2>1. Runs(<<Error, s>>, M, M)
    BY <1>1, <1>13, ErrorRuns
  <2>2. QED
    BY <1>1, <2>1, OneCase DEF StaysCase
<1>14. QED
  BY <1>3, <1>5, <1>6, <1>7, <1>8, <1>9, <1>10, <1>11, <1>12, <1>13

\* Cases, choices and loops of what stays.
LEMMA StaysWith ==
    ASSUME NEW M, IsSteady(M)
    PROVE  /\ \A p, l : StaysList(l, M) => StaysCase(<<p, l>>, M) /\ StaysCase(Else(l), M)
           /\ \A s : s[1] \notin {"end", "while"}
                 => StaysCase(Else(<<Error, s>>), M) /\ \A p : StaysCase(<<p, <<Error, s>>>>, M)
           /\ StaysCase(Else(<<Error>>), M)
           /\ \A p, l : StaysCase(<<p, l>>, M) => Stays(When(p, l), M)
           /\ \A stop, body : StaysList(body, InBody(M, M.s)) => Stays(While(stop, body), M)
           /\ \A c1 : StaysCase(c1, M) => Stays(Choose(<<c1>>), M)
           /\ \A c1, c2 : StaysCase(c1, M) /\ StaysCase(c2, M) => Stays(Choose(<<c1, c2>>), M)
           /\ \A c1, c2, c3 : StaysCase(c1, M) /\ StaysCase(c2, M) /\ StaysCase(c3, M)
                 => Stays(Choose(<<c1, c2, c3>>), M)
           /\ \A c1, c2, c3, c4 : StaysCase(c1, M) /\ StaysCase(c2, M) /\ StaysCase(c3, M) /\ StaysCase(c4, M)
                 => Stays(Choose(<<c1, c2, c3, c4>>), M)
           /\ \A c1, c2, c3, c4, c5 :
                 /\ StaysCase(c1, M) /\ StaysCase(c2, M) /\ StaysCase(c3, M) /\ StaysCase(c4, M)
                 /\ StaysCase(c5, M)
                 => Stays(Choose(<<c1, c2, c3, c4, c5>>), M)
<1>1. Keeps(M, M) /\ M.k = <<>> /\ M.s \subseteq M.s
  BY SteadyIs
<1>2. ASSUME NEW p, NEW l, StaysList(l, M) PROVE StaysCase(<<p, l>>, M) /\ StaysCase(Else(l), M)
  BY <1>1, <1>2, OneCase DEF StaysList, StaysCase
<1>3. ASSUME NEW s, s[1] \notin {"end", "while"}, NEW p
      PROVE  StaysCase(Else(<<Error, s>>), M) /\ StaysCase(<<p, <<Error, s>>>>, M)
  <2>1. Runs(<<Error, s>>, M, M)
    BY <1>1, <1>3, ErrorRuns
  <2>2. QED
    BY <1>2, <2>1 DEF StaysList
<1>4. StaysCase(Else(<<Error>>), M)
  BY SteadyParts DEF StaysCase
<1>5. \A cs : Cases(cs, M, M) => Stays(Choose(cs), M)
  BY <1>1, ChoiceOf DEF Stays
<1>6. \A stop, body : StaysList(body, InBody(M, M.s)) => Stays(While(stop, body), M)
  BY LoopAt DEF StaysList, Stays
<1>7. \A p, l : StaysCase(<<p, l>>, M) => Stays(When(p, l), M)
  BY <1>5, CasesTuples DEF When, StaysCase
<1>8. /\ \A c1 : StaysCase(c1, M) => Stays(Choose(<<c1>>), M)
      /\ \A c1, c2 : StaysCase(c1, M) /\ StaysCase(c2, M) => Stays(Choose(<<c1, c2>>), M)
      /\ \A c1, c2, c3 : StaysCase(c1, M) /\ StaysCase(c2, M) /\ StaysCase(c3, M)
                 => Stays(Choose(<<c1, c2, c3>>), M)
  BY <1>5, CasesTuples, Zenon DEF StaysCase
<1>9. /\ \A c1, c2, c3, c4 : StaysCase(c1, M) /\ StaysCase(c2, M) /\ StaysCase(c3, M) /\ StaysCase(c4, M)
                 => Stays(Choose(<<c1, c2, c3, c4>>), M)
      /\ \A c1, c2, c3, c4, c5 :
                 /\ StaysCase(c1, M) /\ StaysCase(c2, M) /\ StaysCase(c3, M) /\ StaysCase(c4, M)
                 /\ StaysCase(c5, M)
                 => Stays(Choose(<<c1, c2, c3, c4, c5>>), M)
  BY <1>5, CasesTuples, Zenon DEF StaysCase
<1>10. QED
  BY <1>2, <1>3, <1>4, <1>6, <1>7, <1>8, <1>9

\* Where functions stand that either end with a node or report: at their
\* beginning, on the way, within braces of their own, in loops, and at the end.
SolidStart == Place(<<>>, "shut", {"still", "stillNull"}, {}, Settled)
Solid == Steady("shut", Went, Settled)
SolidOpen == Steady("open", Went, Settled)
SolidBody == Steady("body", Went, Settled)
SolidEnd == Place(<<>>, "shut", Settled, {}, Settled)
Starts(s) == Leads(s, SolidStart, Solid)

LEMMA SolidPlaces ==
    /\ IsSteady(Solid) /\ IsSteady(SolidOpen) /\ IsSteady(SolidBody) /\ SolidBody.c = "body"
    /\ InBody(Solid, Solid.s) = SolidBody /\ InBody(SolidOpen, SolidOpen.s) = SolidBody
    /\ InBody(SolidBody, SolidBody.s) = SolidBody
    /\ Moves(SolidStart, Solid) /\ Keeps(Solid, SolidEnd) /\ Keeps(SolidStart, SolidEnd)
    /\ Within(SolidEnd, Solid)
<1>1. IsSteady(Solid) /\ IsSteady(SolidOpen) /\ IsSteady(SolidBody) /\ SolidBody.c = "body"
  BY DEF IsSteady, Solid, SolidOpen, SolidBody, Steady, Place
<1>2. /\ InBody(Solid, Solid.s) = SolidBody /\ InBody(SolidOpen, SolidOpen.s) = SolidBody
      /\ InBody(SolidBody, SolidBody.s) = SolidBody
  BY DEF InBody, Solid, SolidOpen, SolidBody, Steady, Place
<1>3. Moves(SolidStart, Solid) /\ Keeps(Solid, SolidEnd) /\ Keeps(SolidStart, SolidEnd)
      /\ Within(SolidEnd, Solid)
  BY DEF Moves, Keeps, Alike, Within, SolidStart, Solid, SolidEnd, Steady, Place, Onward, Went,
       Settled, NullOnes
<1>4. QED
  BY <1>1, <1>2, <1>3

LEMMA SolidSteps ==
    /\ \A t : t \notin Edges => Starts(Expect(t))
    /\ Leads(Expect("LBRACE"), SolidStart, SolidOpen) /\ Leads(Must("LBRACE"), Solid, SolidOpen)
    /\ Leads(Expect("RBRACE"), SolidOpen, Solid)
    /\ Leads(Node, Solid, SolidEnd)
    /\ \A f, k : f \in Ordinary /\ Outcomes(f) = Settled => Leads(Call(f), Knowing(SolidStart, k), SolidEnd)
<1>1. \A t : t \notin Edges => Starts(Expect(t))
  BY SolidPlaces, MovingSteps DEF Starts
<1>2. /\ WantLeads("LBRACE", SolidStart, SolidOpen) /\ WantLeads("LBRACE", Solid, SolidOpen)
      /\ WantLeads("RBRACE", SolidOpen, Solid)
  BY DEF WantLeads, Shifts, Alike, SolidStart, Solid, SolidOpen, Steady, Place, Onward, Went, NullOnes
<1>3. /\ LeadsSimply(Expect("LBRACE"), SolidStart, SolidOpen) /\ LeadsSimply(Must("LBRACE"), Solid, SolidOpen)
      /\ LeadsSimply(Expect("RBRACE"), SolidOpen, Solid)
  <2>1. LeadsSimply(Must("LBRACE"), Solid, SolidOpen)
    BY <1>2, Zenon DEF LeadsSimply, Must
  <2>2. QED
    BY <1>2, <2>1, Zenon DEF LeadsSimply
<1>4. Leads(Node, Solid, SolidEnd)
  <2>1. Solid.c = "shut" /\ \A x \in Solid.s : Returned("node", x) \in Solid.r
    BY DEF Solid, Steady, Place, Returned, NotNull, Went, Settled
  <2>2. QED
    BY <2>1, SolidPlaces, LastSteps DEF Node
<1>5. ASSUME NEW f, NEW k, f \in Ordinary, Outcomes(f) = Settled
      PROVE  Leads(Call(f), Knowing(SolidStart, k), SolidEnd)
  <2>1. CallLeads(f, Knowing(SolidStart, k), SolidEnd)
    BY <1>5 DEF CallLeads, Ordinary, Knowing, Keeps, Alike, SolidStart, SolidEnd, Place, Called,
         Went, Settled
  <2>2. LeadsSimply(Call(f), Knowing(SolidStart, k), SolidEnd)
    BY <2>1, Zenon DEF LeadsSimply, Call
  <2>3. QED
    BY <2>2, SimplyLeads
<1>6. QED
  BY <1>1, <1>3, <1>4, <1>5, SimplyLeads

\* Tokens and sets of tokens without a brace or the end of the file.
LEMMA PlainTokens ==
    /\ \A t : t \notin Edges => Plain({t})
    /\ Plain(Idents) /\ Plain(If) /\ Plain(Says) /\ Plain(Unary) /\ Plain(Literals)
    /\ Plain(Idents \cup {"DOT"}) /\ Plain(Idents \cup Types) /\ Plain(Compound \cup {"EQUAL"})
    /\ Plain(Idents \cup {"COMMA", "INT_LITERAL", "FLOAT_LITERAL"})
    /\ Plain({"SEMICOLON", "COMMA"}) /\ Plain({"to", "EQUAL"}) /\ Plain({"INPUT", "ask"})
  BY DEF Plain, Edges, Idents, Words, If, Says, Unary, Literals, Types, Compound

\* Functions that stay on their way from the beginning to the end.
LEMMA SolidTuples ==
    /\ \A s1, s2 : Starts(s1) /\ Stays(s2, Solid)
          => Runs(<<s1, s2, Node>>, SolidStart, SolidEnd)
    /\ \A s1, s2, s3 : Starts(s1) /\ Stays(s2, Solid) /\ Stays(s3, Solid)
          => Runs(<<s1, s2, s3, Node>>, SolidStart, SolidEnd)
    /\ \A s1, s2, s3, s4 : Starts(s1) /\ Stays(s2, Solid) /\ Stays(s3, Solid) /\ Stays(s4, Solid)
          => Runs(<<s1, s2, s3, s4, Node>>, SolidStart, SolidEnd)
    /\ \A s1, s2, s3, s4, s5 :
             Starts(s1) /\ Stays(s2, Solid) /\ Stays(s3, Solid) /\ Stays(s4, Solid) /\
             Stays(s5, Solid)
          => Runs(<<s1, s2, s3, s4, s5, Node>>, SolidStart, SolidEnd)
    /\ \A s1, s2, s3, s4, s5, s6 :
             Starts(s1) /\ Stays(s2, Solid) /\ Stays(s3, Solid) /\ Stays(s4, Solid) /\
             Stays(s5, Solid) /\ Stays(s6, Solid)
          => Runs(<<s1, s2, s3, s4, s5, s6, Node>>, SolidStart, SolidEnd)
    /\ \A s1, s2, s3, s4, s5, s6, s7 :
             Starts(s1) /\ Stays(s2, Solid) /\ Stays(s3, Solid) /\ Stays(s4, Solid) /\
             Stays(s5, Solid) /\ Stays(s6, Solid) /\ Stays(s7, Solid)
          => Runs(<<s1, s2, s3, s4, s5, s6, s7, Node>>, SolidStart, SolidEnd)
    /\ \A s1, s2, s3, s4, s5, s6, s7, s8 :
             Starts(s1) /\ Stays(s2, Solid) /\ Stays(s3, Solid) /\ Stays(s4, Solid) /\
             Stays(s5, Solid) /\ Stays(s6, Solid) /\ Stays(s7, Solid) /\ Stays(s8, Solid)
          => Runs(<<s1, s2, s3, s4, s5, s6, s7, s8, Node>>, SolidStart, SolidEnd)
  BY SolidSteps, RunsTuples, RunsLongTuples, ZenonT(60) DEF Stays, Starts

LEMMA ErrorAnd ==
    ASSUME NEW M, IsSteady(M), NEW s \in {Take, Break, Node}
    PROVE  StaysCase(Else(<<Error, s>>), M) /\ \A p : StaysCase(<<p, <<Error, s>>>>, M)
<1>1. s[1] \notin {"end", "while"}
  BY DEF Take, Break, Node, Return
<1>2. QED
  BY <1>1, StaysWith

LEMMA SolidLoops ==
    \A stop, body : StaysList(body, SolidBody)
        => Stays(While(stop, body), Solid) /\ Stays(While(stop, body), SolidOpen)
           /\ Stays(While(stop, body), SolidBody)
<1>1. \A M : IsSteady(M) => \A stop, body : StaysList(body, InBody(M, M.s)) => Stays(While(stop, body), M)
  BY StaysWith
<1>2. QED
  BY <1>1, SolidPlaces

LEMMA SolidLists ==
    /\ Runs(parseConstDecl, SolidStart, SolidEnd)
    /\ Runs(parseLetStmt, SolidStart, SolidEnd)
    /\ Runs(parseMutStmt, SolidStart, SolidEnd)
    /\ Runs(parseExportDecl, SolidStart, SolidEnd)
    /\ Runs(parseLoadStmt, SolidStart, SolidEnd)
    /\ Runs(parseImportStmt, SolidStart, SolidEnd)
    /\ Runs(parseModuleDecl, SolidStart, SolidEnd)
    /\ Runs(parseCoroutineDecl, SolidStart, SolidEnd)
    /\ Runs(parseForStmt, SolidStart, SolidEnd)
    /\ Runs(parseWhileStmt, SolidStart, SolidEnd)
    /\ Runs(parseBreakStmt, SolidStart, SolidEnd)
    /\ Runs(parseContinueStmt, SolidStart, SolidEnd)
    /\ Runs(parseTryCatchStmt, SolidStart, SolidEnd)
    /\ Runs(parseThrowStmt, SolidStart, SolidEnd)
    /\ Runs(parseOpStmt, SolidStart, SolidEnd)
    /\ Runs(parseAssertStmt, SolidStart, SolidEnd)
    /\ Runs(parseExpectStmt, SolidStart, SolidEnd)
    /\ Runs(parseHotReloadStmt, SolidStart, SolidEnd)
<1> USE SolidPlaces, SolidSteps, SolidTuples, SolidLoops, StaysSimply, StaysWith, StaysTaking, StaysTuples,
             OrdinaryAre, PlainTokens DEF Edges
<1>1. Runs(parseConstDecl, SolidStart, SolidEnd)
  BY DEF parseConstDecl
<1>2. Runs(parseLetStmt, SolidStart, SolidEnd)
  BY DEF parseLetStmt
<1>3. Runs(parseMutStmt, SolidStart, SolidEnd)
  BY DEF parseMutStmt
<1>4. Runs(parseExportDecl, SolidStart, SolidEnd)
  BY DEF parseExportDecl
<1>5. Runs(parseLoadStmt, SolidStart, SolidEnd)
  BY DEF parseLoadStmt
<1>6. Runs(parseImportStmt, SolidStart, SolidEnd)
  <2>1. StaysCase(<<<<{"DOT"}, {"DOT"}>>, <<Error, Take>>>>, SolidBody)
    BY ErrorAnd
  <2>2. Stays(Choose(<< <<<<{"DOT"}, {"DOT"}>>, <<Error, Take>>>>,
                        <<<<Idents \cup {"DOT"}>>, <<Take>>>>, Else(<<Break>>) >>), SolidBody)
    BY <2>1
  <2>3. Stays(When(<<{"DOT"}>>, <<Error>>), Solid)
    OBVIOUS
  <2>4. QED
    BY <2>2, <2>3 DEF parseImportStmt
<1>7. Runs(parseModuleDecl, SolidStart, SolidEnd)
  BY DEF parseModuleDecl
<1>8. Runs(parseCoroutineDecl, SolidStart, SolidEnd)
  BY DEF parseCoroutineDecl
<1>9. Runs(parseForStmt, SolidStart, SolidEnd)
  BY DEF parseForStmt
<1>10. Runs(parseWhileStmt, SolidStart, SolidEnd)
  BY DEF parseWhileStmt
<1>11. Runs(parseBreakStmt, SolidStart, SolidEnd)
  BY DEF parseBreakStmt
<1>12. Runs(parseContinueStmt, SolidStart, SolidEnd)
  BY DEF parseContinueStmt
<1>13. Runs(parseTryCatchStmt, SolidStart, SolidEnd)
  BY DEF parseTryCatchStmt
<1>14. Runs(parseThrowStmt, SolidStart, SolidEnd)
  BY DEF parseThrowStmt
<1>15. Runs(parseOpStmt, SolidStart, SolidEnd)
  BY DEF parseOpStmt
<1>16. Runs(parseAssertStmt, SolidStart, SolidEnd)
  BY DEF parseAssertStmt
<1>17. Runs(parseExpectStmt, SolidStart, SolidEnd)
  BY DEF parseExpectStmt
<1>18. Runs(parseHotReloadStmt, SolidStart, SolidEnd)
  BY DEF parseHotReloadStmt
<1> QED
  BY <1>1, <1>2, <1>3, <1>4, <1>5, <1>6, <1>7, <1>8, <1>9, <1>10, <1>11, <1>12, <1>13, <1>14,
       <1>15, <1>16, <1>17, <1>18

\* Lists that begin as another.
LEMMA SolidMore ==
    /\ Runs(IfTail, Solid, SolidEnd)
    /\ Runs(Result, Solid, SolidEnd)
    /\ Runs(parseIfStmt, SolidStart, SolidEnd)
    /\ Runs(parseReturnStmt, SolidStart, SolidEnd)
    /\ Runs(parseFunctionDecl, SolidStart, SolidEnd)
<1> USE SolidPlaces, SolidSteps, SolidLoops, StaysSimply, StaysWith, StaysTaking, StaysTuples,
        OrdinaryAre, PlainTokens DEF Edges
<1>0. /\ \A s1, s2 : Stays(s1, Solid) /\ Stays(s2, Solid) => Runs(<<s1, s2, Node>>, Solid, SolidEnd)
      /\ \A s1, s2, s3 : Stays(s1, Solid) /\ Stays(s2, Solid) /\ Stays(s3, Solid)
             => Runs(<<s1, s2, s3, Node>>, Solid, SolidEnd)
  BY RunsTuples, Zenon DEF Stays
<1>1. StaysCase(<<<<{"ELIF"}>>, <<Call("parseIfStmtElif")>>>>, Solid)
  <2>1. CallLeads("parseIfStmtElif", Knowing(Solid, <<{"ELIF"}>>), Solid)
    <3>1. "parseIfStmtElif" \in Pairing
      BY FunctionsAre DEF Pairing
    <3>2. QED
      BY <3>1 DEF CallLeads, Knowing, Keeps, Alike, Solid, Steady, Place, Called, Went, Settled,
           Known, Outcomes, Onward, NullOnes
  <2>2. LeadsSimply(Call("parseIfStmtElif"), Knowing(Solid, <<{"ELIF"}>>), Solid)
    BY <2>1, Zenon DEF LeadsSimply, Call
  <2>3. Runs(<<Call("parseIfStmtElif")>>, Knowing(Solid, <<{"ELIF"}>>), Solid)
    BY <2>2, SimplyLeads, RunsTuples
  <2>4. QED
    BY <2>3, OneCase DEF StaysCase
<1>2. Runs(IfTail, Solid, SolidEnd)
  BY <1>0, <1>1 DEF IfTail
<1>3. Runs(Result, Solid, SolidEnd)
  BY <1>0 DEF Result
<1>4. \A s : Starts(s) => Runs(<<s>>, SolidStart, Solid)
  BY RunsTuples DEF Starts
<1>5. Runs(parseReturnStmt, SolidStart, SolidEnd)
  BY <1>3, <1>4, RunsJoin DEF parseReturnStmt
<1>6. ASSUME NEW c1, NEW c2, CaseRuns(c1, SolidStart, Solid), CaseRuns(c2, SolidStart, Solid), c2[1] = <<>>
      PROVE  Starts(Choose(<<c1, c2>>))
  <2>1. Cases(<<c1, c2>>, SolidStart, Solid)
    BY <1>6, CasesTuples
  <2>2. Keeps(SolidStart, Solid) /\ Solid.k = <<>>
    BY DEF Moves
  <2>3. 2 \in DOMAIN <<c1, c2>> /\ <<c1, c2>>[2] = c2
    OBVIOUS
  <2>4. QED
    BY <1>6, <2>1, <2>2, <2>3, CasesLead DEF Starts
<1>7. /\ CaseRuns(<<<<If>>, <<Take>>>>, SolidStart, Solid)
      /\ CaseRuns(<<<<{"function"}>>, <<Take>>>>, SolidStart, Solid)
      /\ CaseRuns(Else(<<Error>>), SolidStart, Solid) /\ CaseRuns(Else(<<Expect("FN")>>), SolidStart, Solid)
      /\ \A l : Else(l)[1] = <<>>
  <2>1. \A T : Plain(T) => Runs(<<Take>>, Knowing(SolidStart, <<T>>), Solid)
    BY TakeSteps, RunsTuples DEF Plain
  <2>2. Runs(<<Error>>, SolidStart, Solid)
    BY ErrorRuns DEF Moves
  <2>3. Runs(<<Expect("FN")>>, SolidStart, Solid)
    BY <1>4
  <2>4. SolidStart.k = <<>>
    BY DEF SolidStart, Place
  <2>5. QED
    BY <2>1, <2>2, <2>3, <2>4, OneCase DEF Else
<1>8. Runs(parseIfStmt, SolidStart, SolidEnd)
  <2>1. Starts(Choose(<< <<<<If>>, <<Take>>>>, Else(<<Error>>) >>))
    BY <1>6, <1>7
  <2>2. QED
    BY <1>2, <1>4, <2>1, RunsJoin DEF parseIfStmt
<1>9. Runs(parseFunctionDecl, SolidStart, SolidEnd)
  <2>1. Starts(Choose(<< <<<<{"function"}>>, <<Take>>>>, Else(<<Expect("FN")>>) >>))
    BY <1>6, <1>7
  <2> HIDE <1>6, <1>7
  <2>2. \A s1, s2, s3, s4, s5, s6, s7, s8 :
            /\ Starts(s1) /\ Stays(s2, Solid) /\ Stays(s3, Solid) /\ Stays(s4, Solid) /\ Stays(s5, Solid)
            /\ Stays(s6, Solid) /\ Stays(s7, Solid) /\ Stays(s8, Solid)
            => Runs(<<s1, s2, s3, s4, s5, s6, s7, s8, Node>>, SolidStart, SolidEnd)
    BY SolidTuples
  <2>3. StaysCase(Else(<<Error, Break>>), SolidBody) /\ StaysCase(<<<<{"RPAREN"}>>, <<Break>>>>, SolidBody)
    BY ErrorAnd
  <2>4. Stays(Choose(<< <<<<{"COMMA"}>>, <<Take>>>>, <<<<{"RPAREN"}>>, <<Break>>>>,
                        Else(<<Error, Break>>) >>), SolidBody)
    BY <2>3
  <2>5. Stays(While({"RPAREN"},
        <<Ident, Typed,
          Choose(<< <<<<{"COMMA"}>>, <<Take>>>>, <<<<{"RPAREN"}>>, <<Break>>>>,
                    Else(<<Error, Break>>) >>)>>), Solid)
    BY <2>4
  <2>6. QED
    BY <2>1, <2>2, <2>5 DEF parseFunctionDecl
<1> QED
  BY <1>2, <1>3, <1>5, <1>8, <1>9

\* Functions with braces of their own.
LEMMA SolidBraces ==
    /\ Runs(parseBlock, SolidStart, SolidEnd)
    /\ Runs(parseStructDecl, SolidStart, SolidEnd)
    /\ Runs(parseEnumDecl, SolidStart, SolidEnd)
    /\ Runs(parseImplBlock, SolidStart, SolidEnd)
    /\ Runs(parseMatchStmt, SolidStart, SolidEnd)
<1>1. /\ \A s : Stays(s, SolidOpen)
            => Runs(<<Expect("LBRACE"), s, Expect("RBRACE"), Node>>, SolidStart, SolidEnd)
      /\ \A s1, s2, s : Starts(s1) /\ Stays(s2, Solid) /\ Stays(s, SolidOpen)
            => Runs(<<s1, s2, Must("LBRACE"), s, Expect("RBRACE"), Node>>, SolidStart, SolidEnd)
      /\ \A s1, s2, s3, s : Starts(s1) /\ Stays(s2, Solid) /\ Stays(s3, Solid) /\ Stays(s, SolidOpen)
            => Runs(<<s1, s2, s3, Must("LBRACE"), s, Expect("RBRACE"), Node>>, SolidStart, SolidEnd)
  BY SolidSteps, RunsBraced, Zenon DEF Starts, Stays
<1> USE SolidPlaces, StaysSimply, StaysWith, StaysTaking, StaysTuples, OrdinaryAre, PlainTokens DEF Edges
<1>2. Runs(parseBlock, SolidStart, SolidEnd)
  BY <1>1, SolidLoops DEF parseBlock
<1>3. \A t : t \notin Edges => Starts(Expect(t))
  BY SolidSteps
<1>4. Runs(parseImplBlock, SolidStart, SolidEnd)
  <2>1. StaysCase(Else(<<Error, Take>>), SolidBody)
    BY ErrorAnd
  <2>2. Stays(Choose(<< <<<<{"FN"}>>, <<Call("parseFunctionDecl")>>>>, Else(<<Error, Take>>) >>), SolidBody)
    BY <2>1
  <2>3. StaysList(<<Choose(<< <<<<{"FN"}>>, <<Call("parseFunctionDecl")>>>>, Else(<<Error, Take>>) >>)>>, SolidBody)
    BY <2>2
  <2>4. QED
    BY <1>1, <1>3, <2>3, SolidLoops DEF parseImplBlock
<1>5. Runs(parseMatchStmt, SolidStart, SolidEnd)
  <2> DEFINE guard == When(<<If>>, <<Take, Expr(P_NONE)>>)
             arrow == Choose(<< <<<<{"EQUAL"}, {"GT"}>>, <<Take, Take>>>>, <<<<{"DOUBLE_ARROW"}>>, <<Take>>>>,
                                Else(<<Error>>) >>)
             arm == Choose(<< <<<<{"LBRACE"}>>, <<Block>>>>, Else(<<Expr(P_NONE)>>) >>)
             body == <<Expr(P_NONE), guard, arrow, arm, Opt("COMMA")>>
  <2>1. Stays(guard, SolidBody) /\ Stays(arrow, SolidBody) /\ Stays(arm, SolidBody)
    OBVIOUS
  <2> HIDE DEF guard, arrow, arm
  <2>2. StaysList(body, SolidBody)
    BY <2>1
  <2> HIDE DEF body
  <2>3. Stays(While({"RBRACE"}, body), SolidOpen) /\ Stays(Expr(P_NONE), Solid)
    BY <2>2, SolidLoops
  <2>4. Starts(Expect("MATCH"))
    BY <1>3
  <2>5. QED
    BY <1>1, <2>3, <2>4, Zenon DEF parseMatchStmt, body, guard, arrow, arm
<1>6. Runs(parseEnumDecl, SolidStart, SolidEnd)
  <2> DEFINE next == Choose(<< <<<<{"COMMA"}>>, <<Take>>>>, <<<<{"RPAREN"}>>, <<>>>>, Else(<<Break>>) >>)
             inner == <<Type, next>>
             fields == When(<<{"LPAREN"}>>, <<Take, While({"RPAREN"}, inner), Expect("RPAREN")>>)
             end == Choose(<< <<<<{"COMMA"}>>, <<Take>>>>, <<<<{"RBRACE"}>>, <<>>>>, Else(<<Error, Break>>) >>)
             body == <<Ident, fields, end>>
  <2>1. StaysCase(Else(<<Error, Break>>), SolidBody)
    BY ErrorAnd
  <2>2. Stays(end, SolidBody)
    BY <2>1
  <2>3. Stays(next, SolidBody)
    OBVIOUS
  <2> HIDE DEF end, next
  <2>4. StaysList(inner, SolidBody)
    BY <2>3
  <2> HIDE DEF inner
  <2>5. Stays(While({"RPAREN"}, inner), SolidBody)
    BY <2>4, SolidLoops
  <2>6. Stays(fields, SolidBody)
    BY <2>5
  <2> HIDE DEF fields
  <2>7. StaysList(body, SolidBody)
    BY <2>2, <2>6
  <2> HIDE DEF body
  <2>8. Stays(While({"RBRACE"}, body), SolidOpen) /\ Stays(Ident, Solid) /\ Stays(Call("parseTypeParams"), Solid)
    BY <2>7, SolidLoops
  <2>9. Starts(Expect("ENUM"))
    BY <1>3
  <2>10. QED
    BY <1>1, <2>8, <2>9, Zenon DEF parseEnumDecl, body, fields, inner, next, end
<1>7. Runs(parseStructDecl, SolidStart, SolidEnd)
  <2> DEFINE method == <<<<{"FN"}>>, <<Call("parseFunctionDecl"), OnNull(<<Take>>, <<>>)>>>>
             type == Choose(<< <<<<{"COLON"}>>, <<Take, Type>>>>, Else(<<Error>>) >>)
             next == Choose(<< <<<<{"SEMICOLON", "COMMA"}>>, <<Take>>>>,
                             <<<<{"RBRACE"}>>, <<>>>>, Else(<<Error>>) >>)
             member == Choose(<<method, Else(<<Ident, type, next>>)>>)
             body == <<member>>
  <2> HIDE DEF method, type, next, member, body
  <2>1. StaysCase(method, SolidBody)
    <3> DEFINE D == Being(SolidBody, Settled)
               N == Being(D, {})
    <3>1. /\ Keeps(SolidBody, D) /\ Keeps(D, SolidBody) /\ Within(D, SolidBody) /\ D.k = <<>> /\ SolidBody.k = <<>>
          /\ Being(D, D.s \cap NullOnes) = N /\ Being(D, D.s \ NullOnes) = D
          /\ N.s = {} /\ Keeps(N, SolidBody)
      BY DEF Being, SolidBody, Steady, Place, Keeps, Alike, Within, Settled, NullOnes, Went
    <3>2. CallLeads("parseFunctionDecl", SolidBody, D)
      BY <3>1 DEF CallLeads, Being, SolidBody, Steady, Place, Called, Went, Settled, Ordinary,
           Outcomes, Onward, NullOnes
    <3>3. Leads(Call("parseFunctionDecl"), SolidBody, D)
      <4>1. LeadsSimply(Call("parseFunctionDecl"), SolidBody, D)
        BY <3>2, Zenon DEF LeadsSimply, Call
      <4>2. QED
        BY <4>1, SimplyLeads
    <3> HIDE DEF D, N
    <3>4. Runs(<<Take>>, N, SolidBody)
      <4>1. Leads(Take, N, SolidBody)
        BY <3>1, LastSteps DEF Take
      <4>2. QED
        BY <4>1, RunsTuples
    <3>5. Runs(<<>>, D, SolidBody)
      BY <3>1, RunsNothing
    <3>6. Leads(OnNull(<<Take>>, <<>>), D, SolidBody)
      BY <3>1, <3>4, <3>5, NullLeads
    <3>7. Runs(<<Call("parseFunctionDecl"), OnNull(<<Take>>, <<>>)>>, SolidBody, SolidBody)
      BY <3>3, <3>6, RunsTuples
    <3>8. QED
      BY <3>1, <3>7, OneCase DEF StaysCase, method
  <2>2. Stays(type, SolidBody) /\ Stays(next, SolidBody)
    BY DEF type, next
  <2>3. StaysList(<<Ident, type, next>>, SolidBody)
    BY <2>2
  <2>4. StaysCase(Else(<<Ident, type, next>>), SolidBody)
    BY <2>3
  <2>5. Stays(member, SolidBody)
    BY <2>1, <2>4 DEF member
  <2>6. StaysList(body, SolidBody)
    BY <2>5 DEF body
  <2>7. Stays(While({"RBRACE"}, body), SolidOpen) /\ Stays(Ident, Solid) /\ Stays(Call("parseTypeParams"), Solid)
    BY <2>6, SolidLoops
  <2>8. Starts(Expect("STRUCT"))
    BY <1>3
  <2>9. QED
    BY <1>1, <2>7, <2>8, Zenon DEF parseStructDecl, body, member, method, type, next
<1> QED
  BY <1>2, <1>4, <1>5, <1>6, <1>7

\* Functions that are called at a known token.
LEMMA SolidKnown ==
    /\ Runs(parseContract, Knowing(SolidStart, <<{"REQUIRES", "ENSURES", "INVARIANT"}>>), SolidEnd)
    /\ Runs(parseIfStmtElif, Knowing(SolidStart, <<{"ELIF"}>>), SolidEnd)
<1>1. \A T : Plain(T) => Leads(Take, Knowing(SolidStart, <<T>>), Solid)
  BY SolidPlaces, TakeSteps DEF Plain
<1>2. Plain({"REQUIRES", "ENSURES", "INVARIANT"}) /\ Plain({"ELIF"})
  BY DEF Plain, Edges
<1>3. Runs(parseContract, Knowing(SolidStart, <<{"REQUIRES", "ENSURES", "INVARIANT"}>>), SolidEnd)
  <2>1. Stays(Expr(P_NONE), Solid) /\ Stays(Semi, Solid)
    BY SolidPlaces, StaysSimply
  <2>2. QED
    BY <1>1, <1>2, <2>1, SolidSteps, RunsTuples DEF Stays, parseContract
<1>4. Runs(parseIfStmtElif, Knowing(SolidStart, <<{"ELIF"}>>), SolidEnd)
  <2>1. Runs(<<Take>>, Knowing(SolidStart, <<{"ELIF"}>>), Solid)
    BY <1>1, <1>2, RunsTuples
  <2>2. QED
    BY <2>1, SolidMore, RunsJoin DEF parseIfStmtElif
<1> QED
  BY <1>3, <1>4

\* Where functions stand that may consume nothing.
LooseStart == Place(<<>>, "shut", {"still", "stillNull"}, {}, Anything)
Loose == Steady("shut", Anything, Anything)
LooseBody == Steady("body", Anything, Anything)

LEMMA LoosePlaces ==
    /\ IsSteady(Loose) /\ IsSteady(LooseBody) /\ LooseBody.c = "body"
    /\ Within(LooseStart, Loose)
    /\ Stays(Node, Loose) /\ Stays(Null, Loose)
    /\ \A stop, body : StaysList(body, LooseBody)
          => Stays(While(stop, body), Loose) /\ Stays(While(stop, body), LooseBody)
<1>1. IsSteady(Loose) /\ IsSteady(LooseBody) /\ LooseBody.c = "body" /\ Within(LooseStart, Loose)
  BY DEF IsSteady, Loose, LooseBody, LooseStart, Within, Keeps, Alike, Steady, Place, Anything
<1>2. InBody(Loose, Loose.s) = LooseBody /\ InBody(LooseBody, LooseBody.s) = LooseBody
  BY DEF InBody, Loose, LooseBody, Steady, Place
<1>3. Stays(Node, Loose) /\ Stays(Null, Loose)
  <2>1. /\ Loose.c = "shut" /\ \A x \in Loose.s : Returned("node", x) \in Loose.r
        /\ \A x \in Loose.s : Returned("null", x) \in Loose.r
    BY DEF Loose, Steady, Place, Returned, NotNull, Went, Anything
  <2>2. QED
    BY <1>1, <2>1, SteadyIs, LastSteps DEF Node, Null, Stays
<1>4. \A stop, body : StaysList(body, LooseBody)
          => Stays(While(stop, body), Loose) /\ Stays(While(stop, body), LooseBody)
  <2>1. \A M : IsSteady(M) => \A stop, body : StaysList(body, InBody(M, M.s)) => Stays(While(stop, body), M)
    BY StaysWith
  <2>2. QED
    BY <1>1, <1>2, <2>1
<1>5. QED
  BY <1>1, <1>3, <1>4

LEMMA StaysTakingMore ==
    ASSUME NEW M, IsSteady(M), NEW T, Plain(T)
    PROVE  /\ \A s1, s2, s3, s4, s5 :
                 Stays(s1, M) /\ Stays(s2, M) /\ Stays(s3, M) /\ Stays(s4, M) /\ Stays(s5, M)
                 => StaysCase(<<<<T>>, <<Take, s1, s2, s3, s4, s5>>>>, M)
           /\ \A s1, s2, s3, s4, s5, s6 :
                 /\ Stays(s1, M) /\ Stays(s2, M) /\ Stays(s3, M) /\ Stays(s4, M) /\ Stays(s5, M)
                 /\ Stays(s6, M)
                 => StaysCase(<<<<T>>, <<Take, s1, s2, s3, s4, s5, s6>>>>, M)
<1>1. Leads(Take, Knowing(M, <<T>>), M)
  BY SteadyIs, TakeSteps DEF Plain
<1>2. ASSUME NEW l, Runs(l, Knowing(M, <<T>>), M) PROVE StaysCase(<<<<T>>, l>>, M)
  BY <1>2, OneCase DEF StaysCase
<1>3. ASSUME NEW s1, NEW s2, NEW s3, NEW s4, NEW s5, Stays(s1, M), Stays(s2, M), Stays(s3, M),
             Stays(s4, M), Stays(s5, M)
      PROVE  Runs(<<Take, s1, s2, s3, s4, s5>>, Knowing(M, <<T>>), M)
  BY <1>1, <1>3, RunsLongTuples, Zenon DEF Stays
<1>4. ASSUME NEW s1, NEW s2, NEW s3, NEW s4, NEW s5, NEW s6, Stays(s1, M), Stays(s2, M), Stays(s3, M),
             Stays(s4, M), Stays(s5, M), Stays(s6, M)
      PROVE  Runs(<<Take, s1, s2, s3, s4, s5, s6>>, Knowing(M, <<T>>), M)
  BY <1>1, <1>4, RunsLongTuples, Zenon DEF Stays
<1>5. QED
  BY <1>2, <1>3, <1>4

LEMMA LooseLists ==
    /\ StaysList(parseTopLevel, Loose)
    /\ StaysList(parseTypeParams, Loose)
    /\ StaysList(parseParamList, Loose)
    /\ StaysList(parsePostfix, Loose)
    /\ StaysList(parseIdentifier, Loose)
    /\ \A end : Stays(end, Loose) => StaysList(Generic(end), Loose)
<1> USE LoosePlaces, StaysSimply, StaysWith, StaysTaking, StaysTuples, OrdinaryAre, PlainTokens DEF Edges
<1>1. StaysList(parseTopLevel, Loose)
  BY DEF parseTopLevel
<1>2. StaysCase(Else(<<Error, Take>>), Loose) /\ StaysCase(Else(<<Error, Take>>), LooseBody)
      /\ StaysCase(Else(<<Error, Node>>), LooseBody)
  BY ErrorAnd
<1>3. StaysList(parseIdentifier, Loose)
  BY <1>2 DEF parseIdentifier
<1>4. StaysList(parseTypeParams, Loose)
  <2> DEFINE name == Choose(<< <<<<Idents>>, <<Ident>>>>, Else(<<Error, Take>>) >>)
             body == <<name, Opt("COMMA")>>
  <2>1. Stays(name, LooseBody)
    BY <1>2
  <2> HIDE DEF name
  <2>2. StaysList(body, LooseBody)
    BY <2>1
  <2> HIDE DEF body
  <2>3. Stays(While({"GT"}, body), Loose)
    BY <2>2
  <2>4. QED
    BY <2>3 DEF parseTypeParams, body, name
<1>5. StaysList(parseParamList, Loose)
  <2> DEFINE type == Choose(<< <<<<{"COLON"}>>, <<Take, Type, Opt("COMMA")>>>>, Else(<<Error>>) >>)
             body == <<Ident, type>>
  <2>1. Stays(type, LooseBody)
    OBVIOUS
  <2> HIDE DEF type
  <2>2. StaysList(body, LooseBody)
    BY <2>1
  <2> HIDE DEF body
  <2>3. Stays(While({"RPAREN"}, body), Loose)
    BY <2>2
  <2>4. QED
    BY <2>3 DEF parseParamList, body, type
<1>6. StaysList(parsePostfix, Loose)
  <2> DEFINE field == Choose(<< <<<<Idents>>, <<Take>>>>, Else(<<Error, Node>>) >>)
             dot == <<<<{"DOT"}>>, <<Take, field>>>>
             call == <<<<{"LPAREN"}>>, <<Take>> \o Commas("RPAREN")>>
             index == <<<<{"LBRACKET"}>>, <<Take, Expr(P_NONE), Expect("RBRACKET")>>>>
             try == <<<<{"QUESTION"}>>, <<Take>>>>
             step == Choose(<<dot, call, index, try, Else(<<Break>>)>>)
             body == <<step>>
  <2>1. Stays(field, LooseBody)
    BY <1>2
  <2> HIDE DEF field
  <2>2. StaysCase(dot, LooseBody)
    BY <2>1
  <2>3. StaysCase(call, LooseBody) /\ StaysCase(index, LooseBody) /\ StaysCase(try, LooseBody)
    OBVIOUS
  <2>4. StaysCase(Else(<<Break>>), LooseBody)
    OBVIOUS
  <2> HIDE DEF dot, call, index, try
  <2>5. Stays(step, LooseBody)
    BY <2>2, <2>3, <2>4
  <2> HIDE DEF step
  <2>6. StaysList(body, LooseBody)
    BY <2>5
  <2> HIDE DEF body
  <2>7. Stays(While({}, body), Loose)
    BY <2>6
  <2>8. QED
    BY <2>7 DEF parsePostfix, body, step, dot, call, index, try, field
<1>7. ASSUME NEW end, Stays(end, Loose) PROVE StaysList(Generic(end), Loose)
  <2> DEFINE body == <<Type, Opt("COMMA")>>
             lt == <<<<{"LT"}>>, <<Take, While({"GT"}, body), Opt("GT"), end>>>>
             bracket == <<<<{"LBRACKET"}>>, <<Take, While({"RBRACKET"}, body), Opt("RBRACKET"), end>>>>
  <2>1. StaysList(body, LooseBody)
    OBVIOUS
  <2> HIDE DEF body
  <2>2. StaysCase(lt, Loose) /\ StaysCase(bracket, Loose)
    BY <1>7, <2>1
  <2> HIDE DEF lt, bracket
  <2>3. Stays(Choose(<<lt, bracket>>), Loose)
    BY <2>2
  <2>4. QED
    BY <2>3 DEF Generic, Arguments, lt, bracket, body
<1> QED
  BY <1>1, <1>3, <1>4, <1>5, <1>6, <1>7

\* Longer lists of cases.
LEMMA CasesLong ==
    ASSUME NEW P, NEW Q
    PROVE  /\ \A c1, c2, c3, c4, c5, c6, c7, c8 :
              CaseRuns(c1, P, Q) /\ CaseRuns(c2, P, Q) /\ CaseRuns(c3, P, Q) /\
              CaseRuns(c4, P, Q) /\ CaseRuns(c5, P, Q) /\ CaseRuns(c6, P, Q) /\
              CaseRuns(c7, P, Q) /\ CaseRuns(c8, P, Q)
              => Cases(<<c1, c2, c3, c4, c5, c6, c7, c8>>, P, Q)
           /\ \A c1, c2, c3, c4, c5, c6, c7, c8, c9 :
              CaseRuns(c1, P, Q) /\ CaseRuns(c2, P, Q) /\ CaseRuns(c3, P, Q) /\
              CaseRuns(c4, P, Q) /\ CaseRuns(c5, P, Q) /\ CaseRuns(c6, P, Q) /\
              CaseRuns(c7, P, Q) /\ CaseRuns(c8, P, Q) /\ CaseRuns(c9, P, Q)
              => Cases(<<c1, c2, c3, c4, c5, c6, c7, c8, c9>>, P, Q)
           /\ \A c1, c2, c3, c4, c5, c6, c7, c8, c9, c10, c11, c12 :
              CaseRuns(c1, P, Q) /\ CaseRuns(c2, P, Q) /\ CaseRuns(c3, P, Q) /\
              CaseRuns(c4, P, Q) /\ CaseRuns(c5, P, Q) /\ CaseRuns(c6, P, Q) /\
              CaseRuns(c7, P, Q) /\ CaseRuns(c8, P, Q) /\ CaseRuns(c9, P, Q) /\
              CaseRuns(c10, P, Q) /\ CaseRuns(c11, P, Q) /\ CaseRuns(c12, P, Q)
              => Cases(<<c1, c2, c3, c4, c5, c6, c7, c8, c9, c10, c11, c12>>, P, Q)
           /\ \A c1, c2, c3, c4, c5, c6, c7, c8, c9, c10, c11, c12, c13, c14, c15, c16, c17, c18,
                c19, c20, c21, c22, c23, c24, c25 :
              CaseRuns(c1, P, Q) /\ CaseRuns(c2, P, Q) /\ CaseRuns(c3, P, Q) /\
              CaseRuns(c4, P, Q) /\ CaseRuns(c5, P, Q) /\ CaseRuns(c6, P, Q) /\
              CaseRuns(c7, P, Q) /\ CaseRuns(c8, P, Q) /\ CaseRuns(c9, P, Q) /\
              CaseRuns(c10, P, Q) /\ CaseRuns(c11, P, Q) /\ CaseRuns(c12, P, Q) /\
              CaseRuns(c13, P, Q) /\ CaseRuns(c14, P, Q) /\ CaseRuns(c15, P, Q) /\
              CaseRuns(c16, P, Q) /\ CaseRuns(c17, P, Q) /\ CaseRuns(c18, P, Q) /\
              CaseRuns(c19, P, Q) /\ CaseRuns(c20, P, Q) /\ CaseRuns(c21, P, Q) /\
              CaseRuns(c22, P, Q) /\ CaseRuns(c23, P, Q) /\ CaseRuns(c24, P, Q) /\
              CaseRuns(c25, P, Q)
              => Cases(<<c1, c2, c3, c4, c5, c6, c7, c8, c9, c10, c11, c12, c13, c14, c15, c16, c17,
                       c18, c19, c20, c21, c22, c23, c24, c25>>, P, Q)
<1>1. ASSUME NEW c1, NEW c2, NEW c3, NEW c4, NEW c5, NEW c6, NEW c7, NEW c8, CaseRuns(c1, P, Q),
             CaseRuns(c2, P, Q), CaseRuns(c3, P, Q), CaseRuns(c4, P, Q), CaseRuns(c5, P, Q),
             CaseRuns(c6, P, Q), CaseRuns(c7, P, Q), CaseRuns(c8, P, Q)
      PROVE  Cases(<<c1, c2, c3, c4, c5, c6, c7, c8>>, P, Q)
  <2> DEFINE cs == <<c1, c2, c3, c4, c5, c6, c7, c8>>
  <2>1. cs \in Seq({c1, c2, c3, c4, c5, c6, c7, c8}) /\ DOMAIN cs = 1..8
    OBVIOUS
  <2>2. \A i \in 1..8 : CaseRuns(cs[i], P, Q)
    BY <1>1
  <2> HIDE DEF cs
  <2>3. Cases(cs, P, Q)
    BY <2>1, <2>2 DEF Cases, IsList
  <2>4. QED
    BY <2>3 DEF cs
<1>2. ASSUME NEW c1, NEW c2, NEW c3, NEW c4, NEW c5, NEW c6, NEW c7, NEW c8, NEW c9,
             CaseRuns(c1, P, Q), CaseRuns(c2, P, Q), CaseRuns(c3, P, Q), CaseRuns(c4, P, Q),
             CaseRuns(c5, P, Q), CaseRuns(c6, P, Q), CaseRuns(c7, P, Q), CaseRuns(c8, P, Q),
             CaseRuns(c9, P, Q)
      PROVE  Cases(<<c1, c2, c3, c4, c5, c6, c7, c8, c9>>, P, Q)
  <2> DEFINE cs == <<c1, c2, c3, c4, c5, c6, c7, c8, c9>>
  <2>1. cs \in Seq({c1, c2, c3, c4, c5, c6, c7, c8, c9}) /\ DOMAIN cs = 1..9
    OBVIOUS
  <2>2. \A i \in 1..9 : CaseRuns(cs[i], P, Q)
    BY <1>2
  <2> HIDE DEF cs
  <2>3. Cases(cs, P, Q)
    BY <2>1, <2>2 DEF Cases, IsList
  <2>4. QED
    BY <2>3 DEF cs
<1>3. ASSUME NEW c1, NEW c2, NEW c3, NEW c4, NEW c5, NEW c6, NEW c7, NEW c8, NEW c9, NEW c10,
             NEW c11, NEW c12, CaseRuns(c1, P, Q), CaseRuns(c2, P, Q), CaseRuns(c3, P, Q),
             CaseRuns(c4, P, Q), CaseRuns(c5, P, Q), CaseRuns(c6, P, Q), CaseRuns(c7, P, Q),
             CaseRuns(c8, P, Q), CaseRuns(c9, P, Q), CaseRuns(c10, P, Q), CaseRuns(c11, P, Q),
             CaseRuns(c12, P, Q)
      PROVE  Cases(<<c1, c2, c3, c4, c5, c6, c7, c8, c9, c10, c11, c12>>, P, Q)
  <2> DEFINE cs == <<c1, c2, c3, c4, c5, c6, c7, c8, c9, c10, c11, c12>>
  <2>1. cs \in Seq({c1, c2, c3, c4, c5, c6, c7, c8, c9, c10, c11, c12}) /\ DOMAIN cs = 1..12
    OBVIOUS
  <2>2. \A i \in 1..12 : CaseRuns(cs[i], P, Q)
    BY <1>3
  <2> HIDE DEF cs
  <2>3. Cases(cs, P, Q)
    BY <2>1, <2>2 DEF Cases, IsList
  <2>4. QED
    BY <2>3 DEF cs
<1>4. ASSUME NEW c1, NEW c2, NEW c3, NEW c4, NEW c5, NEW c6, NEW c7, NEW c8, NEW c9, NEW c10,
             NEW c11, NEW c12, NEW c13, NEW c14, NEW c15, NEW c16, NEW c17, NEW c18, NEW c19,
             NEW c20, NEW c21, NEW c22, NEW c23, NEW c24, NEW c25, CaseRuns(c1, P, Q),
             CaseRuns(c2, P, Q), CaseRuns(c3, P, Q), CaseRuns(c4, P, Q), CaseRuns(c5, P, Q),
             CaseRuns(c6, P, Q), CaseRuns(c7, P, Q), CaseRuns(c8, P, Q), CaseRuns(c9, P, Q),
             CaseRuns(c10, P, Q), CaseRuns(c11, P, Q), CaseRuns(c12, P, Q), CaseRuns(c13, P, Q),
             CaseRuns(c14, P, Q), CaseRuns(c15, P, Q), CaseRuns(c16, P, Q), CaseRuns(c17, P, Q),
             CaseRuns(c18, P, Q), CaseRuns(c19, P, Q), CaseRuns(c20, P, Q), CaseRuns(c21, P, Q),
             CaseRuns(c22, P, Q), CaseRuns(c23, P, Q), CaseRuns(c24, P, Q), CaseRuns(c25, P, Q)
      PROVE  Cases(<<c1, c2, c3, c4, c5, c6, c7, c8, c9, c10, c11, c12, c13, c14, c15, c16, c17, c18,
               c19, c20, c21, c22, c23, c24, c25>>, P, Q)
  <2> DEFINE cs == <<c1, c2, c3, c4, c5, c6, c7, c8, c9, c10, c11, c12, c13, c14, c15, c16, c17, c18,
               c19, c20, c21, c22, c23, c24, c25>>
  <2>1. cs \in Seq({c1, c2, c3, c4, c5, c6, c7, c8, c9, c10, c11, c12, c13, c14, c15, c16, c17,
                    c18, c19, c20, c21, c22, c23, c24, c25}) /\ DOMAIN cs = 1..25
    OBVIOUS
  <2>2. \A i \in 1..25 : CaseRuns(cs[i], P, Q)
    BY <1>4
  <2> HIDE DEF cs
  <2>3. Cases(cs, P, Q)
    BY <2>1, <2>2 DEF Cases, IsList
  <2>4. QED
    BY <2>3 DEF cs
<1> QED
  BY <1>1, <1>2, <1>3, <1>4

\* The rounds of the guarded loops: their items are whole.
LEMMA RoundsLead ==
    /\ Runs(topLevelStep, LooseStart, Loose)
    /\ Runs(blockStep, LooseStart, Loose)
<1> DEFINE N == Place(<<>>, "shut", Settled, {}, Anything)
<1>1. /\ Keeps(LooseStart, N) /\ Within(N, N) /\ Within(N, Loose) /\ N.k = <<>> /\ N.s = Settled
      /\ Settled \subseteq Went
      /\ \A x \in N.s : x \in N.s /\ Onward(x) \in N.s
      /\ \A x \in LooseStart.s, y \in Settled : Called(x, y) \in N.s
  BY DEF Keeps, Alike, Within, LooseStart, Loose, Steady, Place, Settled, Anything, Went, Onward,
         NullOnes, Called
<1> HIDE DEF N
<1>2. \A f \in {"parseTopLevelItem", "parseStatement"} :
         f \in Ordinary /\ Known(f) = <<>> /\ Outcomes(f) = Settled
  BY OrdinaryAre DEF Known, Outcomes
<1>3. \A f \in {"parseTopLevelItem", "parseStatement"} : Leads(Call(f), LooseStart, N)
  <2>1. \A f \in {"parseTopLevelItem", "parseStatement"} : CallLeads(f, LooseStart, N)
    BY <1>1, <1>2 DEF CallLeads, Ordinary
  <2>2. QED
    BY <2>1, SimplyLeads, Zenon DEF LeadsSimply, Call
<1>4. Leads(Semi, N, N)
  <2>1. OptLeads("SEMICOLON", N, N)
    BY <1>1 DEF OptLeads, Edges, Within
  <2>2. QED
    BY <2>1, SimplyLeads, Zenon DEF LeadsSimply, Semi
<1>5. Leads(<<"keep">>, N, N)
  BY <1>1, SimplyLeads, Zenon DEF LeadsSimply
<1>6. \A top \in BOOLEAN : Leads(<<"stalled", top>>, N, Loose)
  <2>1. \A top \in BOOLEAN : N.s \subseteq (IF top THEN Settled ELSE Went)
    BY <1>1
  <2>2. QED
    BY <1>1, <2>1, SimplyLeads, Zenon DEF LeadsSimply
<1>7. QED
  BY <1>3, <1>4, <1>5, <1>6, RunsTuples DEF topLevelStep, blockStep, Stmt

\* An attempt at an assignment is either made or given back.
TryStart == Place(<<Idents>>, "shut", {"still", "stillNull"}, {}, Tried)
TryOn == Steady("shut", Went, Tried)
TryEnd == Place(<<>>, "shut", Tried, {}, Tried)

LEMMA TryLeads == Runs(tryParseAssignment, TryStart, TryEnd)
<1> DEFINE B == Steady("body", Went, Tried)
<1>1. IsSteady(TryOn) /\ IsSteady(B) /\ B.c = "body" /\ InBody(TryOn, TryOn.s) = B
  BY DEF IsSteady, TryOn, InBody, Steady, Place
<1>2. /\ TryOn.c = "shut" /\ \A x \in TryOn.s : Returned("node", x) \in TryOn.r
      /\ \A x \in TryOn.s : Returned("rewind", x) \in TryOn.r
      /\ Keeps(TryOn, TryEnd)
  BY DEF TryOn, TryEnd, Steady, Place, Keeps, Alike, Returned, NotNull, Went, Tried
<1>3. Leads(Take, TryStart, TryOn)
  <2> DEFINE P == Place(<<>>, "shut", {"still", "stillNull"}, {}, Tried)
  <2>1. Moves(P, TryOn) /\ TryStart = Knowing(P, <<Idents>>)
    BY DEF Moves, Keeps, Alike, TryOn, TryStart, Steady, Place, Knowing, Onward, Went, NullOnes
  <2> HIDE DEF P
  <2>2. QED
    BY <2>1, TakeSteps, PlainTokens DEF Plain
<1>4. Stays(Node, TryOn) /\ Leads(Return("rewind"), TryOn, TryEnd)
  BY <1>1, <1>2, SteadyIs, LastSteps DEF Node, Stays
<1> HIDE DEF B
<1> USE StaysSimply, StaysWith, StaysTaking, StaysTuples, PlainTokens DEF Edges
<1> DEFINE dot == <<<<{"DOT"}, Idents>>, <<Take, Take>>>>
           index == <<<<{"LBRACKET"}>>, <<Take, Expr(P_NONE), MustOrRewind("RBRACKET")>>>>
           body == <<Choose(<<dot, index, Else(<<Break>>)>>)>>
           loop == While({}, body)
           assign == When(<<Compound \cup {"EQUAL"}>>, <<Take, Expr(P_NONE), Semi, Node>>)
<1>5. StaysCase(dot, B) /\ StaysCase(index, B)
  BY <1>1, ZenonT(60)
<1>6. Stays(assign, TryOn)
  BY <1>1, <1>4
<1> HIDE DEF dot, index, assign
<1>7. StaysList(body, B)
  <2>1. StaysCase(Else(<<Break>>), B)
    <3>1. Stays(Break, B)
      BY <1>1
    <3>2. StaysList(<<Break>>, B)
      BY <3>1
    <3>3. QED
      BY <1>1, <3>2
  <2>2. Stays(Choose(<<dot, index, Else(<<Break>>)>>), B)
    BY <1>1, <1>5, <2>1
  <2>3. QED
    BY <2>2
<1> HIDE DEF body
<1>8. Stays(loop, TryOn)
  BY <1>1, <1>7
<1> HIDE DEF loop
<1>9. QED
  BY <1>3, <1>4, <1>6, <1>8, RunsTuples, Zenon DEF Stays, tryParseAssignment, loop, body, dot,
       index, assign

\* A statement that begins with an expression.
LEMMA ExprStmtLeads == Runs(parseExprStmt, SolidStart, SolidEnd)
<1> DEFINE A == Place(<<>>, "shut", Anything, {}, Settled)
           T == Place(<<>>, "shut", Tried, {}, Settled)
           loop == When(<<{"loop"}, {"LBRACE"}>>, <<Take, Block, Node>>)
           assign == When(<<Idents>>, <<Call("tryParseAssignment"), OnNull(<<>>, <<Node>>)>>)
           end == OnNull(<<Error, Null>>, <<Node>>)
           l == <<loop, assign, Expr(P_NONE), Semi, end>>
           a == <<SolidStart, SolidStart, A, Solid, Solid, SolidEnd>>
<1>1. /\ Keeps(SolidStart, A) /\ Keeps(SolidStart, SolidStart) /\ Keeps(SolidStart, T) /\ Keeps(T, A)
      /\ Keeps(A, Solid) /\ Keeps(Solid, SolidStart)
      /\ SolidStart.k = <<>> /\ A.k = <<>> /\ T.k = <<>> /\ Solid.k = <<>> /\ SolidEnd.k = <<>>
      /\ SolidStart.s \subseteq A.s
  BY DEF A, T, SolidStart, Solid, SolidEnd, Steady, Place, Keeps, Alike, Anything
<1>2. Leads(loop, SolidStart, SolidStart)
  <2>1. Leads(Take, Knowing(SolidStart, <<{"loop"}, {"LBRACE"}>>), Solid)
    BY SolidPlaces, TakeSteps DEF Edges
  <2>2. Leads(Block, Solid, Solid)
    BY SolidPlaces, NamedSteps
  <2>3. Leads(Node, Solid, SolidStart)
    <3>1. Solid.c = "shut" /\ \A x \in Solid.s : Returned("node", x) \in Solid.r
      BY DEF Solid, Steady, Place, Returned, NotNull, Went, Settled
    <3>2. QED
      BY <1>1, <3>1, LastSteps DEF Node
  <2>4. Runs(<<Take, Block, Node>>, Knowing(SolidStart, <<{"loop"}, {"LBRACE"}>>), SolidStart)
    BY <2>1, <2>2, <2>3, RunsTuples
  <2>5. QED
    BY <1>1, <2>4, WhenLeads
<1>3. Leads(assign, SolidStart, A)
  <2>1. Leads(Call("tryParseAssignment"), Knowing(SolidStart, <<Idents>>), T)
    <3> DEFINE P == Knowing(SolidStart, <<Idents>>)
    <3>1. CallLeads("tryParseAssignment", P, T)
      <4>1. "tryParseAssignment" \in Pairing
        BY FunctionsAre DEF Pairing
      <4>2. QED
        BY <4>1 DEF CallLeads, Knowing, Keeps, Alike, T, SolidStart, Place, Called, Went, Known,
             Outcomes
    <3> HIDE DEF P
    <3>2. LeadsSimply(Call("tryParseAssignment"), P, T)
      BY <3>1, Zenon DEF LeadsSimply, Call
    <3>3. QED
      BY <3>2, SimplyLeads DEF P
  <2>2. Runs(<<>>, Being(T, T.s \cap NullOnes), A)
    <3>1. Within(Being(T, T.s \cap NullOnes), A)
      BY DEF Within, Being, T, A, Place, Keeps, Alike, NullOnes, Tried, Anything
    <3>2. QED
      BY <3>1, RunsNothing
  <2>3. Runs(<<Node>>, Being(T, T.s \ NullOnes), A)
    <3> DEFINE P == Being(T, T.s \ NullOnes)
    <3>1. Keeps(P, A) /\ P.c = "shut" /\ \A x \in P.s : Returned("node", x) \in P.r
      BY DEF Being, T, A, Place, Keeps, Alike, NullOnes, Tried, Returned, NotNull, Went, Settled
    <3>2. Leads(Node, P, A)
      BY <3>1, LastSteps DEF Node
    <3>3. QED
      BY <3>2, RunsTuples
  <2>4. Leads(OnNull(<<>>, <<Node>>), T, A)
    BY <1>1, <2>2, <2>3, NullLeads
  <2>5. Runs(<<Call("tryParseAssignment"), OnNull(<<>>, <<Node>>)>>, Knowing(SolidStart, <<Idents>>), A)
    BY <2>1, <2>4, RunsTuples
  <2>6. QED
    BY <1>1, <2>5, WhenLeads
<1>4. Leads(Expr(P_NONE), A, Solid)
  <2>1. CallLeads("parseExpression", A, Solid)
    <3>1. "parseExpression" \in Pairing
      BY FunctionsAre DEF Pairing
    <3>2. QED
      BY <1>1, <3>1 DEF CallLeads, A, Solid, Steady, Place, Called, Went, Known, Outcomes, Onward,
           NullOnes
  <2>2. QED
    BY <2>1, SimplyLeads, Zenon DEF LeadsSimply, Expr
<1>5. Leads(Semi, Solid, Solid)
  BY SolidPlaces, NamedSteps
<1>6. Leads(end, Solid, SolidEnd)
  <2> DEFINE P == Being(Solid, Solid.s \cap NullOnes)
             R == Being(Solid, Solid.s \ NullOnes)
  <2>1. Keeps(P, SolidEnd) /\ Keeps(R, SolidEnd) /\ R.c = "shut" /\ \A x \in R.s : Returned("node", x) \in R.r
    BY DEF Being, Solid, SolidEnd, Steady, Place, Keeps, Alike, NullOnes, Returned, NotNull, Went,
         Settled
  <2>2. Leads(Node, R, SolidEnd)
    BY <2>1, LastSteps DEF Node
  <2>3. Runs(<<Node>>, R, SolidEnd)
    BY <2>2, RunsTuples
  <2>4. Runs(<<Error, Null>>, P, SolidEnd)
    BY <2>1, ErrorRuns DEF Null, Return
  <2>5. QED
    BY <1>1, <2>3, <2>4, SolidPlaces, NullLeads
<1> HIDE DEF A, T, loop, assign, end
<1>7. l \in Seq({loop, assign, Expr(P_NONE), Semi, end}) /\ Len(l) = 5
  OBVIOUS
<1>8. a[1] = SolidStart /\ a[5 + 1] = SolidEnd /\ Within(SolidStart, SolidStart)
  BY WithinItself
<1>9. \A i \in 1..5 : Leads(l[i], a[i], a[i + 1])
  BY <1>2, <1>3, <1>4, <1>5, <1>6
<1> HIDE DEF l, a
<1>10. IsList(l) /\ \A i \in 1..Len(l) : Leads(l[i], a[i], a[i + 1])
  BY <1>7, <1>9 DEF IsList
<1>11. Runs(l, SolidStart, a[Len(l) + 1])
  BY <1>8, <1>10, RunsAlong
<1>12. QED
  BY <1>7, <1>8, <1>11 DEF l, loop, assign, end, parseExprStmt

\* What statements and top-level items begin with.
Opens(c) == CaseRuns(c, SolidStart, SolidEnd)

LEMMA OpensWith ==
    /\ \A f, p : f \in Ordinary /\ Outcomes(f) = Settled => Opens(<<p, <<Call(f)>>>>) /\ Opens(Else(<<Call(f)>>))
    /\ \A T, f : T \subseteq Unpaired => Opens(<<<<T>>, <<Call(f)>>>>)
    /\ Opens(<<<<{"REQUIRES", "ENSURES", "INVARIANT"}>>, <<Call("parseContract")>>>>)
    /\ \A T : Plain(T) =>
          /\ \A l : Runs(l, Solid, SolidEnd) => Opens(<<<<T>>, <<Take>> \o l>>)
          /\ \A s1, s2 :
                   Stays(s1, Solid) /\
                   Stays(s2, Solid) => Opens(<<<<T>>, <<Take, s1, s2, Node>>>>)
          /\ \A s1, s2, s3 : Stays(s1, Solid) /\ Stays(s2, Solid) /\ Stays(s3, Solid)
                => Opens(<<<<T>>, <<Take, s1, s2, s3, Node>>>>)
          /\ \A s1, s2, s3, s4 :
                   Stays(s1, Solid) /\ Stays(s2, Solid) /\ Stays(s3, Solid) /\ Stays(s4, Solid)
                => Opens(<<<<T>>, <<Take, s1, s2, s3, s4, Node>>>>)
          /\ \A s1 : Leads(s1, Solid, SolidEnd) => Opens(<<<<T>>, <<Take, s1>>>>)
<1>1. ASSUME NEW f, f \in Ordinary, Outcomes(f) = Settled, NEW p
      PROVE  Opens(<<p, <<Call(f)>>>>) /\ Opens(Else(<<Call(f)>>))
  <2>1. \A k : Runs(<<Call(f)>>, Knowing(SolidStart, k), SolidEnd)
    BY <1>1, SolidSteps, RunsTuples
  <2>2. QED
    BY <2>1, OneCase DEF Opens
<1>2. ASSUME NEW T, T \subseteq Unpaired, NEW f PROVE Opens(<<<<T>>, <<Call(f)>>>>)
  <2> DEFINE P == Knowing(SolidStart, <<T>>)
  <2>1. Keeps(P, SolidEnd) /\ 1 \in DOMAIN P.k /\ P.k[1] \subseteq Unpaired
    BY <1>2 DEF Knowing, Keeps, Alike, SolidStart, SolidEnd, Place
  <2> HIDE DEF P
  <2>2. Leads(Call(f), P, SolidEnd)
    BY <2>1, LastSteps DEF Call
  <2>3. Runs(<<Call(f)>>, P, SolidEnd)
    BY <2>2, RunsTuples
  <2>4. QED
    BY <2>3, OneCase DEF Opens, P
<1>3. Opens(<<<<{"REQUIRES", "ENSURES", "INVARIANT"}>>, <<Call("parseContract")>>>>)
  <2> DEFINE P == Knowing(SolidStart, <<{"REQUIRES", "ENSURES", "INVARIANT"}>>)
  <2>1. CallLeads("parseContract", P, SolidEnd)
    <3>1. "parseContract" \in Pairing
      BY FunctionsAre DEF Pairing
    <3>2. QED
      BY <3>1 DEF CallLeads, Knowing, Keeps, Alike, SolidStart, SolidEnd, Place, Called, Went,
           Settled, Known, Outcomes
  <2> HIDE DEF P
  <2>2. LeadsSimply(Call("parseContract"), P, SolidEnd)
    BY <2>1, Zenon DEF LeadsSimply, Call
  <2>3. Runs(<<Call("parseContract")>>, P, SolidEnd)
    BY <2>2, SimplyLeads, RunsTuples
  <2>4. QED
    BY <2>3, OneCase DEF Opens, P
<1>4. ASSUME NEW T, Plain(T)
      PROVE  /\ \A l : Runs(l, Solid, SolidEnd) => Opens(<<<<T>>, <<Take>> \o l>>)
             /\ \A s1, s2 :
                      Stays(s1, Solid) /\
                      Stays(s2, Solid) => Opens(<<<<T>>, <<Take, s1, s2, Node>>>>)
             /\ \A s1, s2, s3 : Stays(s1, Solid) /\ Stays(s2, Solid) /\ Stays(s3, Solid)
                   => Opens(<<<<T>>, <<Take, s1, s2, s3, Node>>>>)
             /\ \A s1, s2, s3, s4 :
                      Stays(s1, Solid) /\ Stays(s2, Solid) /\ Stays(s3, Solid) /\
                      Stays(s4, Solid)
                   => Opens(<<<<T>>, <<Take, s1, s2, s3, s4, Node>>>>)
             /\ \A s1 : Leads(s1, Solid, SolidEnd) => Opens(<<<<T>>, <<Take, s1>>>>)
  <2>1. Leads(Take, Knowing(SolidStart, <<T>>), Solid) /\ Leads(Node, Solid, SolidEnd)
    BY <1>4, SolidPlaces, SolidSteps, TakeSteps DEF Plain
  <2>2. \A l : Runs(l, Knowing(SolidStart, <<T>>), SolidEnd) => Opens(<<<<T>>, l>>)
    BY OneCase DEF Opens
  <2>3. Runs(<<Take>>, Knowing(SolidStart, <<T>>), Solid)
    BY <2>1, RunsTuples
  <2>4. \A l : Runs(l, Solid, SolidEnd) => Opens(<<<<T>>, <<Take>> \o l>>)
    BY <2>2, <2>3, RunsJoin
  <2>5. /\ \A s1, s2 : Stays(s1, Solid) /\ Stays(s2, Solid) => Opens(<<<<T>>, <<Take, s1, s2, Node>>>>)
        /\ \A s1 : Leads(s1, Solid, SolidEnd) => Opens(<<<<T>>, <<Take, s1>>>>)
    BY <2>1, <2>2, RunsTuples DEF Stays
  <2>6. /\ \A s1, s2, s3 : Stays(s1, Solid) /\ Stays(s2, Solid) /\ Stays(s3, Solid)
              => Opens(<<<<T>>, <<Take, s1, s2, s3, Node>>>>)
        /\ \A s1, s2, s3, s4 :
                 Stays(s1, Solid) /\ Stays(s2, Solid) /\ Stays(s3, Solid) /\ Stays(s4, Solid)
              => Opens(<<<<T>>, <<Take, s1, s2, s3, s4, Node>>>>)
    BY <2>1, <2>2, RunsLongTuples, Zenon DEF Stays
  <2>7. QED
    BY <2>4, <2>5, <2>6
<1> QED
  BY <1>1, <1>2, <1>3, <1>4

\* The functions that the switch calls.
LEMMA WholeFunctions ==
    \A f \in {"parseTopLevelItem", "parseFunctionDecl", "parseStructDecl", "parseEnumDecl", "parseImplBlock",
              "parseImportStmt", "parseConstDecl", "parseModuleDecl", "parseExportDecl", "parseLoadStmt",
              "parseCoroutineDecl", "parseStatement", "parseBlock", "parseLetStmt", "parseMutStmt",
              "parseExprStmt", "parseIfStmt", "parseForStmt", "parseWhileStmt", "parseReturnStmt",
              "parseBreakStmt", "parseContinueStmt", "parseTryCatchStmt", "parseThrowStmt", "parseOpStmt",
              "parseMatchStmt", "parseAssertStmt", "parseExpectStmt", "parseHotReloadStmt"} :
        f \in Ordinary /\ Outcomes(f) = Settled /\ \A p : Opens(<<p, <<Call(f)>>>>) /\ Opens(Else(<<Call(f)>>))
  BY OrdinaryAre, OpensWith DEF Outcomes

LEMMA DispatchOpens == Cases(Dispatch, SolidStart, SolidEnd)
<1>1. Opens(<<<<{"FN"}>>, <<Call("parseFunctionDecl")>>>>)
  BY WholeFunctions
<1>2. Opens(<<<<{"STRUCT"}>>, <<Call("parseStructDecl")>>>>)
  BY WholeFunctions
<1>3. Opens(<<<<{"ENUM"}>>, <<Call("parseEnumDecl")>>>>)
  BY WholeFunctions
<1>4. Opens(<<<<{"IMPL"}>>, <<Call("parseImplBlock")>>>>)
  BY WholeFunctions
<1>5. Opens(<<<<{"LET"}>>, <<Call("parseLetStmt")>>>>)
  BY WholeFunctions
<1>6. Opens(<<<<{"MUT"}>>, <<Call("parseMutStmt")>>>>)
  BY WholeFunctions
<1>7. Opens(<<<<{"CONST"}>>, <<Call("parseConstDecl")>>>>)
  BY WholeFunctions
<1>8. Opens(<<<<If>>, <<Call("parseIfStmt")>>>>)
  BY WholeFunctions
<1>9. Opens(<<<<{"FOR"}>>, <<Call("parseForStmt")>>>>)
  BY WholeFunctions
<1>10. Opens(<<<<{"WHILE"}>>, <<Call("parseWhileStmt")>>>>)
  BY WholeFunctions
<1>11. Opens(<<<<{"RETURN"}>>, <<Call("parseReturnStmt")>>>>)
  BY WholeFunctions
<1>12. Opens(<<<<{"BREAK"}>>, <<Call("parseBreakStmt")>>>>)
  BY WholeFunctions
<1>13. Opens(<<<<{"CONTINUE"}>>, <<Call("parseContinueStmt")>>>>)
  BY WholeFunctions
<1>14. Opens(<<<<{"MATCH"}>>, <<Call("parseMatchStmt")>>>>)
  BY WholeFunctions
<1>15. Opens(<<<<{"MODULE"}>>, <<Call("parseModuleDecl")>>>>)
  BY WholeFunctions
<1>16. Opens(<<<<{"EXPORT"}>>, <<Call("parseExportDecl")>>>>)
  BY WholeFunctions
<1>17. Opens(<<<<{"LOAD"}>>, <<Call("parseLoadStmt")>>>>)
  BY WholeFunctions
<1>18. Opens(<<<<{"TRY"}>>, <<Call("parseTryCatchStmt")>>>>)
  BY WholeFunctions
<1>19. Opens(<<<<{"THROW"}>>, <<Call("parseThrowStmt")>>>>)
  BY WholeFunctions
<1>20. Opens(<<<<{"BYTECODE"}>>, <<Call("parseBytecodeStmt")>>>>)
  BY OpensWith DEF Unpaired
<1>21. Opens(<<<<{"OP"}>>, <<Call("parseOpStmt")>>>>)
  BY WholeFunctions
<1>22. Opens(<<<<{"TEST"}>>, <<Call("parseTestStmt")>>>>)
  BY OpensWith DEF Unpaired
<1>23. Opens(<<<<{"ASSERT"}>>, <<Call("parseAssertStmt")>>>>)
  BY WholeFunctions
<1>24. Opens(<<<<{"EXPECT"}>>, <<Call("parseExpectStmt")>>>>)
  BY WholeFunctions
<1>25. Opens(<<<<{"HOT"}>>, <<Call("parseHotReloadStmt")>>>>)
  BY WholeFunctions
<1> QED
  BY <1>1, <1>2, <1>3, <1>4, <1>5, <1>6, <1>7, <1>8, <1>9, <1>10, <1>11, <1>12, <1>13, <1>14,
     <1>15, <1>16, <1>17, <1>18, <1>19, <1>20, <1>21, <1>22, <1>23, <1>24, <1>25, CasesLong, ZenonT(60)
     DEF Opens, Dispatch

LEMMA StatementLeads == Runs(parseStatement, SolidStart, SolidEnd)
<1>1. Opens(<<<<{"function"}>>, <<Call("parseFunctionDecl")>>>>)
  BY WholeFunctions
<1>2. Opens(<<<<{"give"}>>, <<Take>> \o Result>>)
  BY SolidMore, OpensWith, PlainTokens DEF Edges
<1>3. Opens(<<<<Says \cup {"INPUT", "ask"}, {"LPAREN"}>>, <<Call("parseExprStmt")>>>>)
  BY WholeFunctions
<1>4. Stays(Expr(P_NONE), Solid) /\ Stays(Expr(P_ADD), Solid) /\ Stays(Semi, Solid) /\ Stays(Ident, Solid)
      /\ Stays(Stmt, Solid) /\ Stays(Opt("times"), Solid)
  BY SolidPlaces, StaysSimply DEF Edges
<1>5. Opens(<<<<Says>>, <<Take, Expr(P_NONE), Semi, Node>>>>)
      /\ Opens(<<<<{"INPUT", "ask"}>>, <<Take, Ident, Semi, Node>>>>)
  BY <1>4, OpensWith, PlainTokens
<1>6. Opens(<<<<{"set"}>>,
          <<Take, Ident, Choose(<< <<<<{"to", "EQUAL"}>>, <<Take>>>>, Else(<<Error>>) >>),
            Expr(P_NONE), Semi, Node>>>>)
  <2> DEFINE to == Choose(<< <<<<{"to", "EQUAL"}>>, <<Take>>>>, Else(<<Error>>) >>)
  <2>1. Stays(to, Solid)
    BY SolidPlaces, StaysWith, StaysTaking, PlainTokens
  <2> HIDE DEF to
  <2>2. Plain({"set"})
    BY PlainTokens DEF Edges
  <2>3. Opens(<<<<{"set"}>>, <<Take, Ident, to, Expr(P_NONE), Semi, Node>>>>)
    BY <1>4, <2>1, <2>2, OpensWith
  <2>4. QED
    BY <2>3 DEF to
<1>7. Opens(<<<<{"repeat"}>>, <<Take, Expr(P_ADD), Opt("times"), Stmt, Node>>>>)
  BY <1>4, OpensWith, PlainTokens DEF Edges
<1>8. Opens(<<<<{"REQUIRES", "ENSURES", "INVARIANT"}>>, <<Call("parseContract")>>>>)
  BY OpensWith
<1>9. Opens(<<<<{"LBRACE"}>>, <<Block>>>>)
  BY WholeFunctions DEF Block
<1> DEFINE first == <<
        <<<<{"function"}>>, <<Call("parseFunctionDecl")>>>>,
        <<<<{"give"}>>, <<Take>> \o Result>>,
        <<<<Says \cup {"INPUT", "ask"}, {"LPAREN"}>>, <<Call("parseExprStmt")>>>>,
        <<<<Says>>, <<Take, Expr(P_NONE), Semi, Node>>>>,
        <<<<{"INPUT", "ask"}>>, <<Take, Ident, Semi, Node>>>>,
        <<<<{"set"}>>,
          <<Take, Ident, Choose(<< <<<<{"to", "EQUAL"}>>, <<Take>>>>, Else(<<Error>>) >>),
            Expr(P_NONE), Semi, Node>>>>,
        <<<<{"repeat"}>>, <<Take, Expr(P_ADD), Opt("times"), Stmt, Node>>>>,
        <<<<{"REQUIRES", "ENSURES", "INVARIANT"}>>, <<Call("parseContract")>>>>,
        <<<<{"LBRACE"}>>, <<Block>>>> >>
<1>10. Cases(first, SolidStart, SolidEnd)
  BY <1>1, <1>2, <1>3, <1>5, <1>6, <1>7, <1>8, <1>9, CasesLong, Zenon DEF Opens
<1> HIDE DEF first
<1>11. Cases(first \o Dispatch, SolidStart, SolidEnd)
  BY <1>10, DispatchOpens, CasesJoin
<1>12. CaseRuns(Else(<<Call("parseExprStmt")>>), SolidStart, SolidEnd)
  BY WholeFunctions DEF Opens
<1>13. Leads(Choose(first \o Dispatch \o <<Else(<<Call("parseExprStmt")>>)>>), SolidStart, SolidEnd)
  BY <1>11, <1>12, SolidPlaces, ChoiceOf DEF SolidEnd, Place
<1>14. QED
  BY <1>13, RunsTuples DEF parseStatement, first

\* A type is a token at least, and there is none without an error.
LEMMA SimpleTypeLeads == Runs(parseSimpleType, SolidStart, SolidEnd)
<1> DEFINE name == <<<<Idents \cup Types>>, <<Take, Node>>>>
           list == <<<<{"LBRACKET"}>>,
                     <<Take, Type, Expect("SEMICOLON"), Opt("INT_LITERAL"), Expect("RBRACKET"), Node>>>>
           option == <<<<{"OPTION"}>>, <<Take, Must("LT"), Type, Expect("GT"), Node>>>>
           result == <<<<{"RESULT"}>>, <<Take, Must("LT"), Type, Opt("COMMA"), Type, Expect("GT"), Node>>>>
           none == Else(<<Error, Take, Null>>)
<1>1. /\ Stays(Type, Solid) /\ Stays(Expect("SEMICOLON"), Solid) /\ Stays(Opt("INT_LITERAL"), Solid)
      /\ Stays(Expect("RBRACKET"), Solid) /\ Stays(Must("LT"), Solid) /\ Stays(Expect("GT"), Solid)
      /\ Stays(Opt("COMMA"), Solid)
  BY SolidPlaces, StaysSimply DEF Edges
<1>2. Plain(Idents \cup Types) /\ Plain({"LBRACKET"}) /\ Plain({"OPTION"}) /\ Plain({"RESULT"})
  BY PlainTokens DEF Edges
<1>3. Leads(Node, Solid, SolidEnd)
  BY SolidSteps
<1>4. \A T : Plain(T) => Leads(Take, Knowing(SolidStart, <<T>>), Solid)
  BY SolidPlaces, TakeSteps DEF Plain
<1>5. Opens(name) /\ Opens(option)
  BY <1>1, <1>2, <1>3, OpensWith
<1>6. Opens(list) /\ Opens(result)
  <2>1. \A T, l : Runs(l, Knowing(SolidStart, <<T>>), SolidEnd) => Opens(<<<<T>>, l>>)
    BY OneCase DEF Opens
  <2>2. \A T, s1, s2, s3, s4 :
           Plain(T) /\ Stays(s1, Solid) /\ Stays(s2, Solid) /\ Stays(s3, Solid) /\ Stays(s4, Solid)
           => Runs(<<Take, s1, s2, s3, s4, Node>>, Knowing(SolidStart, <<T>>), SolidEnd)
    BY <1>3, <1>4, RunsLongTuples, Zenon DEF Stays
  <2>3. \A T, s1, s2, s3, s4, s5 :
           /\ Plain(T) /\ Stays(s1, Solid) /\ Stays(s2, Solid) /\ Stays(s3, Solid)
           /\ Stays(s4, Solid) /\ Stays(s5, Solid)
           => Runs(<<Take, s1, s2, s3, s4, s5, Node>>, Knowing(SolidStart, <<T>>), SolidEnd)
    BY <1>3, <1>4, RunsLongTuples, Zenon DEF Stays
  <2>4. Opens(list)
    BY <1>1, <1>2, <2>1, <2>2
  <2>5. Opens(result)
    BY <1>1, <1>2, <2>1, <2>3
  <2>6. QED
    BY <2>4, <2>5
<1>7. CaseRuns(none, SolidStart, SolidEnd)
  <2>1. Keeps(Knowing(SolidStart, <<>>), SolidEnd)
    BY DEF Knowing, Keeps, Alike, SolidStart, SolidEnd, Place
  <2>2. Runs(<<Error, Take, Null>>, Knowing(SolidStart, <<>>), SolidEnd)
    BY <2>1, ErrorRuns DEF Take, Null, Return
  <2>3. QED
    BY <2>2, OneCase
<1> DEFINE cs == <<name, list, option, result, none>>
<1>8. Cases(cs, SolidStart, SolidEnd)
  <2> HIDE DEF name, list, option, result, none
  <2>1. QED
    BY <1>5, <1>6, <1>7, CasesTuples DEF Opens
<1>9. 5 \in DOMAIN cs /\ cs[5] = none /\ none[1] = <<>>
  BY DEF Else
<1>10. Keeps(SolidStart, SolidEnd) /\ SolidEnd.k = <<>>
  BY SolidPlaces DEF SolidEnd, Place
<1> HIDE DEF name, list, option, result, none, cs
<1>11. Leads(Choose(cs), SolidStart, SolidEnd)
  BY <1>8, <1>9, <1>10, CasesLead
<1>12. QED
  BY <1>11, RunsTuples DEF parseSimpleType, name, list, option, result, none, cs

\* Where it has a node to name, and never where it has none.
LEMMA TypeLeads == Runs(parseGenericType, LooseStart, Loose)
<1> DEFINE N == Place(<<>>, "shut", Settled, {}, Anything)
<1>1. /\ Keeps(LooseStart, N) /\ Keeps(N, Loose) /\ N.k = <<>> /\ Loose.k = <<>>
      /\ N.s \cap NullOnes = {}
      /\ Keeps(Being(N, {}), Loose) /\ Being(N, {}).s = {}
      /\ Within(Being(N, N.s \ NullOnes), Loose)
      /\ \A x \in LooseStart.s, y \in Settled : Called(x, y) \in N.s
  BY DEF Keeps, Alike, Within, Being, LooseStart, Loose, Steady, Place, Settled, Anything, Went, Onward,
         NullOnes, Called
<1> HIDE DEF N
<1>2. Leads(Call("parseSimpleType"), LooseStart, N)
  <2>1. "parseSimpleType" \in Pairing /\ Known("parseSimpleType") = <<>>
        /\ Outcomes("parseSimpleType") = Settled
    BY OrdinaryAre DEF Ordinary, Outcomes
  <2>2. CallLeads("parseSimpleType", LooseStart, N)
    BY <1>1, <2>1 DEF CallLeads
  <2>3. QED
    BY <2>2, SimplyLeads, Zenon DEF LeadsSimply, Call
<1>3. Runs(Generic(<<"crash">>), Being(N, N.s \cap NullOnes), Loose)
  <2>1. \A cs : Leads(Choose(cs), Being(N, {}), Loose)
    BY <1>1, LastSteps DEF Choose
  <2>2. QED
    BY <1>1, <2>1, RunsTuples DEF Generic
<1>4. Runs(Generic(Node), Being(N, N.s \ NullOnes), Loose)
  <2>1. StaysList(Generic(Node), Loose)
    BY LoosePlaces, LooseLists
  <2>2. QED
    BY <1>1, <2>1, RunsFrom DEF StaysList
<1>5. Leads(OnNull(Generic(<<"crash">>), Generic(Node)), N, Loose)
  BY <1>1, <1>3, <1>4, NullLeads
<1>6. QED
  BY <1>2, <1>5, RunsTuples DEF parseGenericType

\* An expression at top level, wherever its function stands.
LEMMA ScriptLeads ==
    ASSUME NEW s \in SUBSET Anything, NEW k, NEW P, P = Place(k, "shut", s, {}, Settled)
    PROVE  Runs(Script, P, SolidEnd)
<1> DEFINE end == OnNull(<<Error, Take, Null>>, <<Semi, Node>>)
<1>1. Keeps(P, Solid) /\ Solid.k = <<>> /\ SolidEnd.k = <<>>
  BY DEF Solid, SolidEnd, Steady, Place, Keeps, Alike
<1>2. Leads(Expr(P_NONE), P, Solid)
  <2>1. CallLeads("parseExpression", P, Solid)
    <3>1. "parseExpression" \in Pairing
      BY FunctionsAre DEF Pairing
    <3>2. QED
      BY <1>1, <3>1 DEF CallLeads, Solid, Steady, Place, Called, Went, Known, Outcomes, Onward, NullOnes
  <2>2. QED
    BY <2>1, SimplyLeads, Zenon DEF LeadsSimply, Expr
<1>3. Leads(end, Solid, SolidEnd)
  <2> DEFINE N == Being(Solid, Solid.s \cap NullOnes)
             R == Being(Solid, Solid.s \ NullOnes)
             R2 == Place(<<>>, "shut", Settled, {}, Settled)
  <2>1. Keeps(N, SolidEnd) /\ Keeps(R, SolidEnd) /\ R.c = "shut" /\ \A x \in R.s : Returned("node", x) \in R.r
    BY DEF Being, Solid, SolidEnd, Steady, Place, Keeps, Alike, NullOnes, Returned, NotNull, Went,
         Settled
  <2>2. Leads(Node, R, SolidEnd)
    BY <2>1, LastSteps DEF Node
  <2>3. Leads(Semi, R, R)
    <3>1. OptLeads("SEMICOLON", R, R)
      BY DEF OptLeads, Edges, Keeps, Alike, Being, Solid, Steady, Place, Went, NullOnes, Onward
    <3>2. QED
      BY <3>1, SimplyLeads, Zenon DEF LeadsSimply, Semi
  <2>4. Runs(<<Semi, Node>>, R, SolidEnd)
    BY <2>2, <2>3, RunsTuples
  <2>5. Runs(<<Error, Take, Null>>, N, SolidEnd)
    BY <2>1, ErrorRuns DEF Take, Null, Return
  <2>6. QED
    BY <1>1, <2>4, <2>5, SolidPlaces, NullLeads
<1>4. QED
  BY <1>2, <1>3, RunsTuples DEF Script

LEMMA TopLevelItemLeads == Runs(parseTopLevelItem, SolidStart, SolidEnd)
<1>1. Opens(<<<<{"function"}>>, <<Call("parseFunctionDecl")>>>>)
      /\ Opens(<<<<{"IMPORT"}>>, <<Call("parseImportStmt")>>>>)
      /\ Opens(<<<<{"COROUTINE"}>>, <<Call("parseCoroutineDecl")>>>>)
  BY WholeFunctions
<1>2. \A p : Opens(<<p, Script>>) /\ Opens(Else(Script))
  <2>1. \A k : Knowing(SolidStart, k) = Place(k, "shut", {"still", "stillNull"}, {}, Settled)
    BY DEF Knowing, SolidStart, Place
  <2>2. {"still", "stillNull"} \in SUBSET Anything
    BY DEF Anything
  <2>3. \A k : Runs(Script, Knowing(SolidStart, k), SolidEnd)
    BY <2>1, <2>2, ScriptLeads
  <2>4. QED
    BY <2>3, OneCase DEF Opens
<1>3. Opens(<<<<Says \cup {"INPUT", "ask", "set", "repeat", "give"}>>, <<Stmt>>>>)
  BY WholeFunctions DEF Stmt
<1>4. Opens(<<<<{"INTERFACE"}>>, <<Call("parseInterfaceDecl")>>>>)
  BY OpensWith DEF Unpaired
<1>5. Opens(<<<<{"REQUIRES", "ENSURES", "INVARIANT"}>>, <<Call("parseContract")>>>>)
  BY OpensWith
<1> DEFINE pub == Choose(<< <<<<{"FN"}>>, <<Call("parseFunctionDecl")>>>>,
                            <<<<{"STRUCT"}>>, <<Call("parseStructDecl")>>>>,
                            Else(<<Error, Take, Null>>) >>)
<1>6. Opens(<<<<{"PUB"}>>, <<Take, pub>>>>)
  <2>1. \A f \in {"parseFunctionDecl", "parseStructDecl"} : \A p : CaseRuns(<<p, <<Call(f)>>>>, Solid, SolidEnd)
    <3>1. \A f \in {"parseFunctionDecl", "parseStructDecl"} : f \in Ordinary /\ Outcomes(f) = Settled
      BY WholeFunctions
    <3>2. \A f \in {"parseFunctionDecl", "parseStructDecl"} : CallLeads(f, Solid, SolidEnd)
      BY <3>1 DEF CallLeads, Ordinary, Keeps, Alike, Solid, SolidEnd, Steady, Place, Called, Went,
           Settled,
                  Onward, NullOnes
    <3>3. \A f \in {"parseFunctionDecl", "parseStructDecl"} : Leads(Call(f), Solid, SolidEnd)
      BY <3>2, SimplyLeads, Zenon DEF LeadsSimply, Call
    <3>4. Solid.k = <<>>
      BY DEF Solid, Steady, Place
    <3>5. QED
      BY <3>3, <3>4, RunsTuples, OneCase
  <2>2. CaseRuns(Else(<<Error, Take, Null>>), Solid, SolidEnd)
    <3>1. Runs(<<Error, Take, Null>>, Solid, SolidEnd)
      BY SolidPlaces, ErrorRuns DEF Take, Null, Return
    <3>2. Solid.k = <<>>
      BY DEF Solid, Steady, Place
    <3>3. QED
      BY <3>1, <3>2, OneCase
  <2> DEFINE cs == << <<<<{"FN"}>>, <<Call("parseFunctionDecl")>>>>,
                      <<<<{"STRUCT"}>>, <<Call("parseStructDecl")>>>>, Else(<<Error, Take, Null>>) >>
  <2>3. Cases(cs, Solid, SolidEnd)
    BY <2>1, <2>2, CasesTuples
  <2>4. 3 \in DOMAIN cs /\ cs[3][1] = <<>>
    BY DEF Else
  <2> HIDE DEF cs
  <2>5. Leads(Choose(cs), Solid, SolidEnd)
    BY <2>3, <2>4, SolidPlaces, CasesLead DEF SolidEnd, Place
  <2>6. Plain({"PUB"})
    BY PlainTokens DEF Edges
  <2>7. QED
    BY <2>5, <2>6, OpensWith DEF cs
<1> HIDE DEF pub
<1>7. Opens(<<<<Idents>>, <<Call("tryParseAssignment"), OnNull(Script, <<>>)>>>>)
  <2> DEFINE T == Place(<<>>, "shut", Tried, {}, Settled)
             P == Knowing(SolidStart, <<Idents>>)
  <2>1. Leads(Call("tryParseAssignment"), P, T)
    <3>1. CallLeads("tryParseAssignment", P, T)
      <4>1. "tryParseAssignment" \in Pairing
        BY FunctionsAre DEF Pairing
      <4>2. QED
        BY <4>1 DEF CallLeads, Knowing, Keeps, Alike, SolidStart, Place, Called, Went, Known, Outcomes
    <3> HIDE DEF P
    <3>2. LeadsSimply(Call("tryParseAssignment"), P, T)
      BY <3>1, Zenon DEF LeadsSimply, Call
    <3>3. QED
      BY <3>2, SimplyLeads
  <2>2. Runs(Script, Being(T, T.s \cap NullOnes), SolidEnd)
    <3>1. Being(T, T.s \cap NullOnes) = Place(<<>>, "shut", Tried \cap NullOnes, {}, Settled)
      BY DEF Being, Place
    <3>2. Tried \cap NullOnes \in SUBSET Anything
      BY DEF Tried, Anything
    <3>3. QED
      BY <3>1, <3>2, ScriptLeads
  <2>3. Runs(<<>>, Being(T, T.s \ NullOnes), SolidEnd)
    <3>1. Within(Being(T, T.s \ NullOnes), SolidEnd)
      BY DEF Within, Being, SolidEnd, Place, Keeps, Alike, NullOnes, Tried, Settled
    <3>2. QED
      BY <3>1, RunsNothing
  <2>4. Keeps(T, SolidEnd) /\ SolidEnd.k = <<>>
    BY DEF Keeps, Alike, SolidEnd, Place
  <2> HIDE DEF T, P
  <2>5. Leads(OnNull(Script, <<>>), T, SolidEnd)
    BY <2>2, <2>3, <2>4, NullLeads
  <2>6. Runs(<<Call("tryParseAssignment"), OnNull(Script, <<>>)>>, P, SolidEnd)
    BY <2>1, <2>5, RunsTuples
  <2>7. QED
    BY <2>6, OneCase DEF Opens, P
<1> DEFINE first == <<
        <<<<{"function"}>>, <<Call("parseFunctionDecl")>>>>,
        <<<<Says \cup {"INPUT"}, {"LPAREN"}>>, Script>>,
        <<<<Says \cup {"INPUT", "ask", "set", "repeat", "give"}>>, <<Stmt>>>>,
        <<<<{"INTERFACE"}>>, <<Call("parseInterfaceDecl")>>>>,
        <<<<{"IMPORT"}>>, <<Call("parseImportStmt")>>>>,
        <<<<{"COROUTINE"}>>, <<Call("parseCoroutineDecl")>>>>,
        <<<<{"REQUIRES", "ENSURES", "INVARIANT"}>>, <<Call("parseContract")>>>>,
        <<<<{"PUB"}>>, <<Take, pub>>>> >>
       last == <<<<<<Idents>>, <<Call("tryParseAssignment"), OnNull(Script, <<>>)>>>>, Else(Script)>>
<1>8. Cases(first, SolidStart, SolidEnd)
  BY <1>1, <1>2, <1>3, <1>4, <1>5, <1>6, CasesLong, Zenon DEF Opens
<1>9. Cases(last, SolidStart, SolidEnd)
  BY <1>2, <1>7, CasesTuples, Zenon DEF Opens
<1>10. 2 \in DOMAIN last /\ last[2][1] = <<>>
  BY DEF Else
<1> DEFINE all == first \o Dispatch \o last
<1>11. Cases(all, SolidStart, SolidEnd)
  <2> HIDE DEF first, last
  <2>1. Cases(first \o Dispatch, SolidStart, SolidEnd)
    BY <1>8, DispatchOpens, CasesJoin
  <2>2. QED
    BY <1>9, <2>1, CasesJoin
<1>12. \E i \in DOMAIN all : all[i][1] = <<>>
  <2> HIDE DEF first, last
  <2>1. IsList(first) /\ IsList(Dispatch) /\ IsList(last)
    BY <1>8, <1>9, DispatchOpens DEF Cases
  <2>2. PICK S, T, U : first \in Seq(S) /\ Dispatch \in Seq(T) /\ last \in Seq(U)
    BY <2>1 DEF IsList
  <2> DEFINE V == S \cup T \cup U
             l == first \o Dispatch
  <2>3. first \in Seq(V) /\ Dispatch \in Seq(V) /\ last \in Seq(V)
    BY <2>2
  <2>4. l \in Seq(V)
    BY <2>3
  <2> HIDE DEF l, V
  <2>5. Len(l) + 2 \in DOMAIN (l \o last) /\ (l \o last)[Len(l) + 2] = last[2]
    BY <1>10, <2>3, <2>4, JoinElements
  <2>6. QED
    BY <1>10, <2>5 DEF l
<1> HIDE DEF all
<1>13. Leads(Choose(all), SolidStart, SolidEnd)
  BY <1>11, <1>12, SolidPlaces, CasesLead DEF SolidEnd, Place
<1>14. QED
  BY <1>13, RunsTuples DEF parseTopLevelItem, all, first, last, pub

\* Where functions stand that must consume something, but may return null.
AtomStart == Place(<<>>, "shut", {"still", "stillNull"}, {}, Went)
Atom == Steady("shut", Went, Went)
AtomOpen == Steady("open", Went, Went)
AtomBody == Steady("body", Went, Went)
OpensAtom(c) == CaseRuns(c, AtomStart, Atom)

LEMMA AtomPlaces ==
    /\ IsSteady(Atom) /\ IsSteady(AtomOpen) /\ IsSteady(AtomBody) /\ AtomBody.c = "body"
    /\ Moves(AtomStart, Atom) /\ Keeps(AtomStart, Atom) /\ AtomStart.k = <<>> /\ Atom.k = <<>>
    /\ Stays(Node, Atom) /\ Stays(Null, Atom) /\ Stays(Same, Atom)
    /\ \A stop, body : StaysList(body, AtomBody)
          => Stays(While(stop, body), Atom) /\ Stays(While(stop, body), AtomOpen)
<1>1. IsSteady(Atom) /\ IsSteady(AtomOpen) /\ IsSteady(AtomBody) /\ AtomBody.c = "body"
  BY DEF IsSteady, Atom, AtomOpen, AtomBody, Steady, Place
<1>2. InBody(Atom, Atom.s) = AtomBody /\ InBody(AtomOpen, AtomOpen.s) = AtomBody
  BY DEF InBody, Atom, AtomOpen, AtomBody, Steady, Place
<1>3. Moves(AtomStart, Atom) /\ Keeps(AtomStart, Atom) /\ AtomStart.k = <<>> /\ Atom.k = <<>>
  BY DEF Moves, Keeps, Alike, AtomStart, Atom, Steady, Place, Onward, Went, NullOnes
<1>4. Stays(Node, Atom) /\ Stays(Null, Atom) /\ Stays(Same, Atom)
  <2>1. /\ Atom.c = "shut" /\ \A x \in Atom.s : Returned("node", x) \in Atom.r
        /\ \A x \in Atom.s : Returned("null", x) \in Atom.r
        /\ \A x \in Atom.s : Returned("same", x) \in Atom.r
    BY DEF Atom, Steady, Place, Returned, NotNull, Went
  <2>2. QED
    BY <1>1, <2>1, SteadyIs, LastSteps DEF Node, Null, Same, Stays
<1>5. \A stop, body : StaysList(body, AtomBody)
          => Stays(While(stop, body), Atom) /\ Stays(While(stop, body), AtomOpen)
  <2>1. \A M : IsSteady(M) => \A stop, body : StaysList(body, InBody(M, M.s)) => Stays(While(stop, body), M)
    BY StaysWith
  <2>2. QED
    BY <1>1, <1>2, <2>1
<1>6. QED
  BY <1>1, <1>3, <1>4, <1>5

\* Cases that begin by taking a token, or with a call.
LEMMA AtomOpens ==
    /\ \A p, l : Runs(l, Knowing(AtomStart, p), Atom) => OpensAtom(<<p, l>>)
    /\ \A T : Plain(T) =>
          /\ OpensAtom(<<<<T>>, <<Take, Node>>>>) /\ \A U : OpensAtom(<<<<T, U>>, <<Take, Node>>>>)
          /\ \A l : StaysList(l, Atom) => OpensAtom(<<<<T>>, <<Take>> \o l>>)
          /\ \A s1, s2, s3 : Stays(s1, Atom) /\ Stays(s2, Atom) /\ Stays(s3, Atom)
                => OpensAtom(<<<<T>>, <<Take, s1, s2, s3>>>>)
          /\ \A s1, s2, s3, s4, s5 :
                Stays(s1, Atom) /\ Stays(s2, Atom) /\ Stays(s3, Atom) /\ Stays(s4, Atom) /\ Stays(s5, Atom)
                => OpensAtom(<<<<T>>, <<Take, s1, s2, s3, s4, s5>>>>)
    /\ \A f, p, k : f \in Ordinary /\ Outcomes(f) \subseteq Went
          => Leads(<<"call", f, p>>, Knowing(AtomStart, k), Atom)
<1>1. \A p, l : Runs(l, Knowing(AtomStart, p), Atom) => OpensAtom(<<p, l>>)
  BY OneCase DEF OpensAtom
<1>2. ASSUME NEW T, Plain(T)
      PROVE  /\ OpensAtom(<<<<T>>, <<Take, Node>>>>) /\ \A U : OpensAtom(<<<<T, U>>, <<Take, Node>>>>)
             /\ \A l : StaysList(l, Atom) => OpensAtom(<<<<T>>, <<Take>> \o l>>)
             /\ \A s1, s2, s3 : Stays(s1, Atom) /\ Stays(s2, Atom) /\ Stays(s3, Atom)
                   => OpensAtom(<<<<T>>, <<Take, s1, s2, s3>>>>)
             /\ \A s1, s2, s3, s4, s5 :
                   Stays(s1, Atom) /\ Stays(s2, Atom) /\ Stays(s3, Atom) /\ Stays(s4, Atom) /\ Stays(s5, Atom)
                   => OpensAtom(<<<<T>>, <<Take, s1, s2, s3, s4, s5>>>>)
  <2>1. Leads(Take, Knowing(AtomStart, <<T>>), Atom) /\ \A U : Leads(Take, Knowing(AtomStart, <<T, U>>), Atom)
    BY <1>2, AtomPlaces, TakeSteps DEF Plain
  <2>2. Runs(<<Take>>, Knowing(AtomStart, <<T>>), Atom)
    BY <2>1, RunsTuples
  <2>3. \A l : StaysList(l, Atom) => OpensAtom(<<<<T>>, <<Take>> \o l>>)
    BY <1>1, <2>2, RunsJoin DEF StaysList
  <2>4. OpensAtom(<<<<T>>, <<Take, Node>>>>) /\ \A U : OpensAtom(<<<<T, U>>, <<Take, Node>>>>)
    BY <1>1, <2>1, AtomPlaces, RunsTuples DEF Stays
  <2>5. \A s1, s2, s3 : Stays(s1, Atom) /\ Stays(s2, Atom) /\ Stays(s3, Atom)
           => OpensAtom(<<<<T>>, <<Take, s1, s2, s3>>>>)
    BY <1>1, <2>1, RunsTuples DEF Stays
  <2>6. ASSUME NEW s1, NEW s2, NEW s3, NEW s4, NEW s5,
               Stays(s1, Atom), Stays(s2, Atom), Stays(s3, Atom), Stays(s4, Atom), Stays(s5, Atom)
        PROVE  OpensAtom(<<<<T>>, <<Take, s1, s2, s3, s4, s5>>>>)
    <3>1. Runs(<<Take, s1, s2, s3, s4, s5>>, Knowing(AtomStart, <<T>>), Atom)
      BY <2>1, <2>6, RunsLongTuples, Zenon DEF Stays
    <3>2. QED
      BY <1>1, <3>1
  <2>7. QED
    BY <2>3, <2>4, <2>5, <2>6
<1>3. ASSUME NEW f, NEW p, NEW k, f \in Ordinary, Outcomes(f) \subseteq Went
      PROVE  Leads(<<"call", f, p>>, Knowing(AtomStart, k), Atom)
  <2>1. CallLeads(f, Knowing(AtomStart, k), Atom)
    BY <1>3 DEF CallLeads, Ordinary, Knowing, Keeps, Alike, AtomStart, Atom, Steady, Place, Called, Went
  <2>2. LeadsSimply(<<"call", f, p>>, Knowing(AtomStart, k), Atom)
    BY <2>1, Zenon DEF LeadsSimply
  <2>3. QED
    BY <2>2, SimplyLeads
<1>4. QED
  BY <1>1, <1>2, <1>3

\* An opening brace that is taken.
LEMMA BraceTaken ==
    /\ Leads(Take, Knowing(AtomStart, <<{"LBRACE"}>>), AtomOpen)
    /\ \A T, U : Leads(Take, Place(<<{"LBRACE"}, T, U>>, "shut", Went, {}, Went), AtomOpen)
    /\ Leads(Expect("RBRACE"), AtomOpen, Atom) /\ Leads(MustOrRewind("RBRACE"), AtomOpen, Atom)
<1>1. TakeLeads(Knowing(AtomStart, <<{"LBRACE"}>>), AtomOpen)
  <2> DEFINE k == <<{"LBRACE"}>>
  <2>1. k \in Seq({{"LBRACE"}}) /\ k # <<>> /\ k[1] = {"LBRACE"}
    OBVIOUS
  <2>2. IsList(k)
    BY <2>1 DEF IsList
  <2> HIDE DEF k
  <2>3. QED
    BY <2>1, <2>2 DEF TakeLeads, Shifts, Alike, Knowing, AtomStart, AtomOpen, Steady, Place,
         Onward, Went,
                      NullOnes, k
<1>2. ASSUME NEW T, NEW U
      PROVE  TakeLeads(Place(<<{"LBRACE"}, T, U>>, "shut", Went, {}, Went), AtomOpen)
  <2> DEFINE k == <<{"LBRACE"}, T, U>>
  <2>1. k \in Seq({{"LBRACE"}, T, U}) /\ k # <<>> /\ k[1] = {"LBRACE"}
    OBVIOUS
  <2>2. IsList(k)
    BY <2>1 DEF IsList
  <2> HIDE DEF k
  <2>3. QED
    BY <2>1, <2>2 DEF TakeLeads, Shifts, Alike, AtomOpen, Steady, Place, Onward, Went, NullOnes, k
<1>3. WantLeads("RBRACE", AtomOpen, Atom)
  BY DEF WantLeads, Shifts, Alike, Atom, AtomOpen, Steady, Place, Onward, Went, NullOnes
<1>4. LeadsSimply(Expect("RBRACE"), AtomOpen, Atom) /\ LeadsSimply(MustOrRewind("RBRACE"), AtomOpen, Atom)
  <2>1. LeadsSimply(MustOrRewind("RBRACE"), AtomOpen, Atom)
    BY <1>3, Zenon DEF LeadsSimply, MustOrRewind
  <2>2. QED
    BY <1>3, <2>1, Zenon DEF LeadsSimply
<1>5. \A P : TakeLeads(P, AtomOpen) => LeadsSimply(Take, P, AtomOpen)
  BY Zenon DEF LeadsSimply
<1>6. QED
  BY <1>1, <1>2, <1>4, <1>5, SimplyLeads

LEMMA AtomLeads == Runs(parseAtom, AtomStart, Atom)
<1> DEFINE T == {"INT_T", "F32", "F64", "INPUT", "ASSERT", "EXPECT", "TEST"} \cup Says
           c1 == <<<<T, {"LPAREN"}>>, <<Take, Node>>>>
           c2 == <<<<Literals>>, <<Take, Node>>>>
           c3 == <<<<{"INTERPOLATED"}>>, <<<<"interpolate">>, Node>>>>
           c4 == <<<<{"LPAREN"}>>, <<Take, Expr(P_NONE), Expect("RPAREN"), Same>>>>
           c5 == <<<<Idents, {"LBRACE"}, Idents, {"COLON"}>>, StructLiteral>>
           c6 == <<<<Idents>>, <<Take, Node>>>>
           c7 == <<<<{"LBRACKET"}>>, <<Take>> \o Commas("RBRACKET") \o <<Node>>>>
           c8 == <<<<{"LBRACE"}>>, <<Take, While({"RBRACE"}, <<Stmt, Semi>>), Expect("RBRACE"), Null>>>>
           c9 == <<<<If>>, <<Call("parseIfStmt"), Node>>>>
           c10 == <<<<{"MATCH"}>>, <<Call("parseMatchStmt"), Node>>>>
           c11 == <<<<{"FN"}>>, Lambda>>
           c12 == Else(<<Error, Take, Null>>)
<1>1. Plain(T) /\ Plain(Literals) /\ Plain(Idents) /\ \A t : t \notin Edges => Plain({t})
  BY PlainTokens DEF Plain, Says, Edges
<1>2. OpensAtom(c1) /\ OpensAtom(c2) /\ OpensAtom(c6)
  BY <1>1, AtomOpens
<1>3. OpensAtom(c3)
  <2>1. Leads(<<"interpolate">>, Knowing(AtomStart, <<{"INTERPOLATED"}>>), Atom)
    BY AtomPlaces, MovingSteps
  <2>2. Runs(<<<<"interpolate">>, Node>>, Knowing(AtomStart, <<{"INTERPOLATED"}>>), Atom)
    BY <2>1, AtomPlaces, RunsTuples DEF Stays
  <2>3. QED
    BY <2>2, AtomOpens
<1>4. OpensAtom(c4)
  <2>1. Stays(Expr(P_NONE), Atom) /\ Stays(Expect("RPAREN"), Atom)
    BY AtomPlaces, StaysSimply DEF Edges
  <2>2. Plain({"LPAREN"})
    BY <1>1 DEF Edges
  <2>3. QED
    BY <2>1, <2>2, AtomPlaces, AtomOpens
<1>5. OpensAtom(c5)
  <2> DEFINE k == <<Idents, {"LBRACE"}, Idents, {"COLON"}>>
             R == Place(<<{"LBRACE"}, Idents, {"COLON"}>>, "shut", Went, {}, Went)
             next == Choose(<< <<<<{"COMMA"}>>, <<Take>>>>, Else(<<Break>>) >>)
             body == <<Ident, Must("COLON"), Expr(P_NONE), next>>
             loop == While({"RBRACE"}, body)
  <2>1. Leads(Take, Knowing(AtomStart, k), R)
    <3>1. k \in Seq({Idents, {"LBRACE"}, {"COLON"}}) /\ k # <<>> /\ k[1] = Idents
      OBVIOUS
    <3>2. Tail(k) = <<{"LBRACE"}, Idents, {"COLON"}>>
      OBVIOUS
    <3>3. IsList(k)
      BY <3>1 DEF IsList
    <3> HIDE DEF k
    <3>4. TakeLeads(Knowing(AtomStart, k), R)
      BY <1>1, <3>1, <3>2, <3>3 DEF TakeLeads, Plain, Keeps, Alike, Knowing, AtomStart, Place,
           Onward, Went,
                                   NullOnes
    <3>5. QED
      BY <3>4, SimplyLeads, Zenon DEF LeadsSimply
  <2>2. Leads(Take, R, AtomOpen)
    BY BraceTaken
  <2>3. Leads(loop, AtomOpen, AtomOpen)
    <3>1. StaysCase(<<<<{"COMMA"}>>, <<Take>>>>, AtomBody)
      BY <1>1, AtomPlaces, StaysTaking DEF Edges
    <3>2. StaysCase(Else(<<Break>>), AtomBody)
      <4>1. Stays(Break, AtomBody)
        BY AtomPlaces, StaysSimply
      <4>2. StaysList(<<Break>>, AtomBody)
        BY <4>1, StaysTuples
      <4>3. QED
        BY <4>2, AtomPlaces, StaysWith
    <3>3. Stays(next, AtomBody)
      BY <3>1, <3>2, AtomPlaces, StaysWith
    <3>4. Stays(Ident, AtomBody) /\ Stays(Must("COLON"), AtomBody) /\ Stays(Expr(P_NONE), AtomBody)
      BY AtomPlaces, StaysSimply DEF Edges
    <3> HIDE DEF next
    <3>5. StaysList(body, AtomBody)
      BY <3>3, <3>4, StaysTuples
    <3> HIDE DEF body
    <3>6. QED
      BY <3>5, AtomPlaces DEF Stays
  <2>4. Leads(MustOrRewind("RBRACE"), AtomOpen, Atom) /\ Leads(Node, Atom, Atom)
    BY BraceTaken, AtomPlaces DEF Stays
  <2> HIDE DEF R, loop, k
  <2>5. Runs(<<Take, Take, loop, MustOrRewind("RBRACE"), Node>>, Knowing(AtomStart, k), Atom)
    BY <2>1, <2>2, <2>3, <2>4, RunsBraced, Zenon
  <2>6. QED
    BY <2>5, AtomOpens DEF StructLiteral, loop, body, next, k
<1>7. OpensAtom(c7)
  <2>1. Plain({"LBRACKET"}) /\ "RBRACKET" \notin Edges
    BY <1>1 DEF Edges
  <2>2. Runs(<<Take>>, Knowing(AtomStart, <<{"LBRACKET"}>>), Atom)
    BY <2>1, AtomPlaces, TakeSteps, RunsTuples DEF Plain
  <2>3. Runs(Commas("RBRACKET"), Atom, Atom) /\ Runs(<<Node>>, Atom, Atom)
    BY <2>1, AtomPlaces, SteadyParts, RunsTuples DEF Stays
  <2> HIDE DEF T
  <2>4. Runs(<<Take>> \o Commas("RBRACKET"), Knowing(AtomStart, <<{"LBRACKET"}>>), Atom)
    BY <2>2, <2>3, RunsJoin
  <2>5. Runs((<<Take>> \o Commas("RBRACKET")) \o <<Node>>, Knowing(AtomStart, <<{"LBRACKET"}>>), Atom)
    BY <2>3, <2>4, RunsJoin
  <2>6. QED
    BY <2>5, AtomOpens
<1>8. OpensAtom(c8)
  <2> DEFINE body == <<Stmt, Semi>>
             loop == While({"RBRACE"}, body)
  <2>1. StaysList(body, AtomBody)
    BY AtomPlaces, StaysSimply, StaysTuples
  <2> HIDE DEF body
  <2>2. Leads(loop, AtomOpen, AtomOpen)
    BY <2>1, AtomPlaces DEF Stays
  <2> HIDE DEF loop
  <2>3. Runs(<<Take, loop, Expect("RBRACE"), Null>>, Knowing(AtomStart, <<{"LBRACE"}>>), Atom)
    BY <2>2, BraceTaken, AtomPlaces, RunsBraced, Zenon DEF Stays
  <2>4. QED
    BY <2>3, AtomOpens DEF loop, body
<1>9. OpensAtom(c9) /\ OpensAtom(c10)
  <2>1. \A f \in {"parseIfStmt", "parseMatchStmt"} : f \in Ordinary /\ Outcomes(f) \subseteq Went
    BY OrdinaryAre DEF Outcomes, Settled, Went
  <2>2. \A f \in {"parseIfStmt", "parseMatchStmt"} : \A k : Leads(Call(f), Knowing(AtomStart, k), Atom)
    BY <2>1, AtomOpens DEF Call
  <2>3. \A f \in {"parseIfStmt", "parseMatchStmt"} : \A k : Runs(<<Call(f), Node>>, Knowing(AtomStart, k), Atom)
    BY <2>2, AtomPlaces, RunsTuples DEF Stays
  <2>4. QED
    BY <2>3, AtomOpens
<1>11. OpensAtom(c11)
  <2> DEFINE next == Choose(<< <<<<{"COMMA"}>>, <<Take>>>>, Else(<<Break>>) >>)
             body == <<Ident, Typed, next>>
             loop == While({"RPAREN"}, body)
             end == Choose(<< <<<<{"LBRACE"}>>, <<Block, Node>>>>, Else(<<Expr(P_NONE), Same>>) >>)
  <2>1. Stays(loop, Atom)
    <3>1. StaysCase(<<<<{"COMMA"}>>, <<Take>>>>, AtomBody)
      BY <1>1, AtomPlaces, StaysTaking DEF Edges
    <3>2. StaysCase(Else(<<Break>>), AtomBody)
      <4>1. Stays(Break, AtomBody)
        BY AtomPlaces, StaysSimply
      <4>2. StaysList(<<Break>>, AtomBody)
        BY <4>1, StaysTuples
      <4>3. QED
        BY <4>2, AtomPlaces, StaysWith
    <3>3. Stays(next, AtomBody)
      BY <3>1, <3>2, AtomPlaces, StaysWith
    <3>4. Stays(Ident, AtomBody) /\ Stays(Typed, AtomBody)
      BY AtomPlaces, StaysSimply
    <3> HIDE DEF next
    <3>5. StaysList(body, AtomBody)
      BY <3>3, <3>4, StaysTuples
    <3> HIDE DEF body
    <3>6. QED
      BY <3>5, AtomPlaces
  <2>2. Stays(end, Atom)
    <3>1. Stays(Block, Atom) /\ Stays(Expr(P_NONE), Atom)
      BY AtomPlaces, StaysSimply
    <3>2. StaysList(<<Block, Node>>, Atom) /\ StaysList(<<Expr(P_NONE), Same>>, Atom)
      BY <3>1, AtomPlaces, StaysTuples
    <3>3. QED
      BY <3>2, AtomPlaces, StaysWith
  <2>3. Stays(Must("LPAREN"), Atom) /\ Stays(Expect("RPAREN"), Atom) /\ Stays(Arrow, Atom)
    BY AtomPlaces, StaysSimply DEF Edges
  <2>4. Plain({"FN"})
    BY <1>1 DEF Edges
  <2> HIDE DEF loop, end
  <2>5. OpensAtom(<<<<{"FN"}>>, <<Take, Must("LPAREN"), loop, Expect("RPAREN"), Arrow, end>>>>)
    BY <2>1, <2>2, <2>3, <2>4, AtomOpens
  <2>6. QED
    BY <2>5 DEF Lambda, loop, end, body, next
<1>12. OpensAtom(c12)
  <2>1. Runs(<<Error, Take, Null>>, AtomStart, Atom)
    BY AtomPlaces, ErrorRuns DEF Take, Null, Return
  <2>2. QED
    BY <2>1, AtomPlaces, OneCase DEF OpensAtom
<1>13. c12[1] = <<>>
  BY DEF Else
<1> DEFINE cs == <<c1, c2, c3, c4, c5, c6, c7, c8, c9, c10, c11, c12>>
<1> HIDE DEF c1, c2, c3, c4, c5, c6, c7, c8, c9, c10, c11, c12
<1>14. Cases(cs, AtomStart, Atom)
  BY <1>2, <1>3, <1>4, <1>5, <1>7, <1>8, <1>9, <1>11, <1>12, CasesLong DEF OpensAtom
<1>15. 12 \in DOMAIN cs /\ cs[12][1] = <<>>
  BY <1>13
<1> HIDE DEF cs
<1>16. Leads(Choose(cs), AtomStart, Atom)
  BY <1>14, <1>15, AtomPlaces, CasesLead
<1>17. QED
  BY <1>16, RunsTuples DEF parseAtom, cs, c1, c2, c3, c4, c5, c6, c7, c8, c9, c10, c11, c12, T

LEMMA ExpressionLeads ==
    /\ Runs(parsePrimary, AtomStart, Atom)
    /\ \A prec : Runs(parseExpression(prec), AtomStart, Atom)
<1>1. \A k, P : AtomStart = Knowing(AtomStart, <<>>)
  BY DEF Knowing, AtomStart, Place
<1>2. \A f \in {"parseAtom", "parsePrimary"} : Leads(Call(f), AtomStart, Atom)
  <2>1. \A f \in {"parseAtom", "parsePrimary"} : f \in Ordinary /\ Outcomes(f) \subseteq Went
    BY OrdinaryAre DEF Outcomes
  <2>2. QED
    BY <1>1, <2>1, AtomOpens DEF Call
<1>3. Runs(parsePrimary, AtomStart, Atom)
  <2>1. \A s : Within(Being(Atom, Atom.s \cap s), Atom) /\ Within(Being(Atom, Atom.s \ s), Atom)
    BY DEF Within, Keeps, Alike, Being, Atom, Steady, Place
  <2>2. Stays(Call("parsePostfix"), Atom)
    BY AtomPlaces, OrdinaryAre, StaysSimply
  <2>3. Runs(<<Null>>, Atom, Atom) /\ Runs(<<Call("parsePostfix")>>, Atom, Atom)
    BY <2>2, AtomPlaces, RunsTuples DEF Stays
  <2>4. Leads(OnNull(<<Null>>, <<Call("parsePostfix")>>), Atom, Atom)
    BY <2>1, <2>3, AtomPlaces, SteadyIs, RunsFrom, NullLeads
  <2>5. QED
    BY <1>2, <2>4, RunsTuples DEF parsePrimary
<1>4. ASSUME NEW prec PROVE Runs(parseExpression(prec), AtomStart, Atom)
  <2>1. Leads(<<"made">>, Atom, Atom)
    <3>1. Atom.k = <<>> /\ Keeps(Atom, Atom) /\ \A x \in Atom.s : NotNull(x) \in Atom.s
      BY DEF Atom, Steady, Place, Keeps, Alike, NotNull, Went
    <3>2. LeadsSimply(<<"made">>, Atom, Atom)
      BY <3>1, Zenon DEF LeadsSimply
    <3>3. QED
      BY <3>2, SimplyLeads
  <2>2. OpensAtom(<<<<Unary>>, <<Take, Expr(P_UNARY), <<"made">>>>>>)
    <3>1. Leads(Take, Knowing(AtomStart, <<Unary>>), Atom)
      BY AtomPlaces, PlainTokens, TakeSteps DEF Plain
    <3>2. Leads(Expr(P_UNARY), Atom, Atom)
      BY AtomPlaces, StaysSimply DEF Stays
    <3>3. Runs(<<Take, Expr(P_UNARY), <<"made">>>>, Knowing(AtomStart, <<Unary>>), Atom)
      BY <2>1, <3>1, <3>2, RunsTuples
    <3>4. QED
      BY <3>3, AtomOpens
  <2>3. OpensAtom(Else(<<Call("parsePrimary")>>))
    BY <1>2, AtomPlaces, RunsTuples, OneCase DEF OpensAtom
  <2> DEFINE cs == << <<<<Unary>>, <<Take, Expr(P_UNARY), <<"made">>>>>>, Else(<<Call("parsePrimary")>>) >>
  <2>4. Cases(cs, AtomStart, Atom)
    BY <2>2, <2>3, CasesTuples DEF OpensAtom
  <2>5. 2 \in DOMAIN cs /\ cs[2][1] = <<>>
    BY DEF Else
  <2> HIDE DEF cs
  <2>6. Leads(Choose(cs), AtomStart, Atom)
    BY <2>4, <2>5, AtomPlaces, CasesLead
  <2>7. Leads(<<"climb", prec>>, Atom, Atom)
    <3>1. Atom.k = <<>> /\ Keeps(Atom, Atom) /\ Atom.c = "shut" /\ Atom.s = Went /\ "moved" \in Atom.r
      BY DEF Atom, Steady, Place, Keeps, Alike, Went
    <3>2. LeadsSimply(<<"climb", prec>>, Atom, Atom)
      BY <3>1, Zenon DEF LeadsSimply
    <3>3. QED
      BY <3>2, SimplyLeads
  <2>8. QED
    BY <2>6, <2>7, RunsTuples DEF parseExpression, cs
<1>5. QED
  BY <1>3, <1>4

\* Every function leads from its entry to its exit.
LEMMA Entries ==
    /\ \A f \in {"parseTopLevel", "topLevelStep", "blockStep", "parseTypeParams", "parseParamList",
                 "parsePostfix", "parseIdentifier", "parseType"} :
          Entry(f) = LooseStart /\ Exit(f) = Loose
    /\ \A f \in {"parseExpression", "parsePrimary", "parseAtom"} : Entry(f) = AtomStart /\ Exit(f) = Atom
    /\ Entry("tryParseAssignment") = TryStart /\ Exit("tryParseAssignment") = TryEnd
    /\ Entry("parseIfStmtElif") = Knowing(SolidStart, <<{"ELIF"}>>) /\ Exit("parseIfStmtElif") = SolidEnd
    /\ Entry("parseContract") = Knowing(SolidStart, <<{"REQUIRES", "ENSURES", "INVARIANT"}>>)
    /\ Exit("parseContract") = SolidEnd
    /\ \A f \in {"parseTopLevelItem", "parseFunctionDecl", "parseStructDecl", "parseEnumDecl",
              "parseImplBlock", "parseImportStmt", "parseConstDecl", "parseModuleDecl",
              "parseExportDecl", "parseLoadStmt", "parseCoroutineDecl", "parseStatement",
              "parseBlock", "parseLetStmt", "parseMutStmt", "parseExprStmt", "parseIfStmt",
              "parseForStmt", "parseWhileStmt", "parseReturnStmt", "parseBreakStmt",
              "parseContinueStmt", "parseTryCatchStmt", "parseThrowStmt", "parseOpStmt",
              "parseMatchStmt", "parseAssertStmt", "parseExpectStmt", "parseHotReloadStmt",
              "parseSimpleType"} :
          Entry(f) = SolidStart /\ Exit(f) = SolidEnd
  BY DEF Entry, Exit, Known, Outcomes, LooseStart, Loose, AtomStart, Atom, TryStart, TryEnd, SolidStart,
         SolidEnd, Knowing, Steady, Place

LEMMA FunctionsLead ==
    ASSUME NEW f \in Pairing, NEW prec
    PROVE  Runs(Steps(f, prec), Entry(f), Exit(f))
<1>1. f \in Functions /\ f \notin {"parseInterfaceDecl", "parseBytecodeStmt", "parseTestStmt"}
  BY DEF Pairing
<1>2. \A l : StaysList(l, Loose) => Runs(l, LooseStart, Loose)
  BY LoosePlaces, RunsFrom DEF StaysList
<1>3. CASE f = "parseExpression"
  BY <1>3, Entries, ExpressionLeads DEF Steps
<1>4. CASE f = "parseTopLevel"
  <2>1. Steps(f, prec) = parseTopLevel
    BY <1>4 DEF Steps, Routine
  <2>2. QED
    BY <1>4, <2>1, Entries, <1>2, LooseLists
<1>5. CASE f = "topLevelStep"
  <2>1. Steps(f, prec) = topLevelStep
    BY <1>5 DEF Steps, Routine
  <2>2. QED
    BY <1>5, <2>1, Entries, RoundsLead
<1>6. CASE f = "parseTopLevelItem"
  <2>1. Steps(f, prec) = parseTopLevelItem
    BY <1>6 DEF Steps, Routine
  <2>2. QED
    BY <1>6, <2>1, Entries, TopLevelItemLeads
<1>7. CASE f = "parseFunctionDecl"
  <2>1. Steps(f, prec) = parseFunctionDecl
    BY <1>7 DEF Steps, Routine
  <2>2. QED
    BY <1>7, <2>1, Entries, SolidMore
<1>8. CASE f = "parseTypeParams"
  <2>1. Steps(f, prec) = parseTypeParams
    BY <1>8 DEF Steps, Routine
  <2>2. QED
    BY <1>8, <2>1, Entries, <1>2, LooseLists
<1>9. CASE f = "parseParamList"
  <2>1. Steps(f, prec) = parseParamList
    BY <1>9 DEF Steps, Routine
  <2>2. QED
    BY <1>9, <2>1, Entries, <1>2, LooseLists
<1>10. CASE f = "parseStructDecl"
  <2>1. Steps(f, prec) = parseStructDecl
    BY <1>10 DEF Steps, Routine
  <2>2. QED
    BY <1>10, <2>1, Entries, SolidBraces
<1>11. CASE f = "parseEnumDecl"
  <2>1. Steps(f, prec) = parseEnumDecl
    BY <1>11 DEF Steps, Routine
  <2>2. QED
    BY <1>11, <2>1, Entries, SolidBraces
<1>12. CASE f = "parseImplBlock"
  <2>1. Steps(f, prec) = parseImplBlock
    BY <1>12 DEF Steps, Routine
  <2>2. QED
    BY <1>12, <2>1, Entries, SolidBraces
<1>13. CASE f = "parseImportStmt"
  <2>1. Steps(f, prec) = parseImportStmt
    BY <1>13 DEF Steps, Routine
  <2>2. QED
    BY <1>13, <2>1, Entries, SolidLists
<1>14. CASE f = "parseConstDecl"
  <2>1. Steps(f, prec) = parseConstDecl
    BY <1>14 DEF Steps, Routine
  <2>2. QED
    BY <1>14, <2>1, Entries, SolidLists
<1>15. CASE f = "parseModuleDecl"
  <2>1. Steps(f, prec) = parseModuleDecl
    BY <1>15 DEF Steps, Routine
  <2>2. QED
    BY <1>15, <2>1, Entries, SolidLists
<1>16. CASE f = "parseExportDecl"
  <2>1. Steps(f, prec) = parseExportDecl
    BY <1>16 DEF Steps, Routine
  <2>2. QED
    BY <1>16, <2>1, Entries, SolidLists
<1>17. CASE f = "parseLoadStmt"
  <2>1. Steps(f, prec) = parseLoadStmt
    BY <1>17 DEF Steps, Routine
  <2>2. QED
    BY <1>17, <2>1, Entries, SolidLists
<1>18. CASE f = "parseCoroutineDecl"
  <2>1. Steps(f, prec) = parseCoroutineDecl
    BY <1>18 DEF Steps, Routine
  <2>2. QED
    BY <1>18, <2>1, Entries, SolidLists
<1>19. CASE f = "parseStatement"
  <2>1. Steps(f, prec) = parseStatement
    BY <1>19 DEF Steps, Routine
  <2>2. QED
    BY <1>19, <2>1, Entries, StatementLeads
<1>20. CASE f = "parseBlock"
  <2>1. Steps(f, prec) = parseBlock
    BY <1>20 DEF Steps, Routine
  <2>2. QED
    BY <1>20, <2>1, Entries, SolidBraces
<1>21. CASE f = "blockStep"
  <2>1. Steps(f, prec) = blockStep
    BY <1>21 DEF Steps, Routine
  <2>2. QED
    BY <1>21, <2>1, Entries, RoundsLead
<1>22. CASE f = "parseLetStmt"
  <2>1. Steps(f, prec) = parseLetStmt
    BY <1>22 DEF Steps, Routine
  <2>2. QED
    BY <1>22, <2>1, Entries, SolidLists
<1>23. CASE f = "parseMutStmt"
  <2>1. Steps(f, prec) = parseMutStmt
    BY <1>23 DEF Steps, Routine
  <2>2. QED
    BY <1>23, <2>1, Entries, SolidLists
<1>24. CASE f = "parseExprStmt"
  <2>1. Steps(f, prec) = parseExprStmt
    BY <1>24 DEF Steps, Routine
  <2>2. QED
    BY <1>24, <2>1, Entries, ExprStmtLeads
<1>25. CASE f = "tryParseAssignment"
  <2>1. Steps(f, prec) = tryParseAssignment
    BY <1>25 DEF Steps, Routine
  <2>2. QED
    BY <1>25, <2>1, Entries, TryLeads
<1>26. CASE f = "parseIfStmt"
  <2>1. Steps(f, prec) = parseIfStmt
    BY <1>26 DEF Steps, Routine
  <2>2. QED
    BY <1>26, <2>1, Entries, SolidMore
<1>27. CASE f = "parseIfStmtElif"
  <2>1. Steps(f, prec) = parseIfStmtElif
    BY <1>27 DEF Steps, Routine
  <2>2. QED
    BY <1>27, <2>1, Entries, SolidKnown
<1>28. CASE f = "parseForStmt"
  <2>1. Steps(f, prec) = parseForStmt
    BY <1>28 DEF Steps, Routine
  <2>2. QED
    BY <1>28, <2>1, Entries, SolidLists
<1>29. CASE f = "parseWhileStmt"
  <2>1. Steps(f, prec) = parseWhileStmt
    BY <1>29 DEF Steps, Routine
  <2>2. QED
    BY <1>29, <2>1, Entries, SolidLists
<1>30. CASE f = "parseReturnStmt"
  <2>1. Steps(f, prec) = parseReturnStmt
    BY <1>30 DEF Steps, Routine
  <2>2. QED
    BY <1>30, <2>1, Entries, SolidMore
<1>31. CASE f = "parseBreakStmt"
  <2>1. Steps(f, prec) = parseBreakStmt
    BY <1>31 DEF Steps, Routine
  <2>2. QED
    BY <1>31, <2>1, Entries, SolidLists
<1>32. CASE f = "parseContinueStmt"
  <2>1. Steps(f, prec) = parseContinueStmt
    BY <1>32 DEF Steps, Routine
  <2>2. QED
    BY <1>32, <2>1, Entries, SolidLists
<1>33. CASE f = "parseTryCatchStmt"
  <2>1. Steps(f, prec) = parseTryCatchStmt
    BY <1>33 DEF Steps, Routine
  <2>2. QED
    BY <1>33, <2>1, Entries, SolidLists
<1>34. CASE f = "parseThrowStmt"
  <2>1. Steps(f, prec) = parseThrowStmt
    BY <1>34 DEF Steps, Routine
  <2>2. QED
    BY <1>34, <2>1, Entries, SolidLists
<1>35. CASE f = "parseOpStmt"
  <2>1. Steps(f, prec) = parseOpStmt
    BY <1>35 DEF Steps, Routine
  <2>2. QED
    BY <1>35, <2>1, Entries, SolidLists
<1>36. CASE f = "parseMatchStmt"
  <2>1. Steps(f, prec) = parseMatchStmt
    BY <1>36 DEF Steps, Routine
  <2>2. QED
    BY <1>36, <2>1, Entries, SolidBraces
<1>37. CASE f = "parseAssertStmt"
  <2>1. Steps(f, prec) = parseAssertStmt
    BY <1>37 DEF Steps, Routine
  <2>2. QED
    BY <1>37, <2>1, Entries, SolidLists
<1>38. CASE f = "parseExpectStmt"
  <2>1. Steps(f, prec) = parseExpectStmt
    BY <1>38 DEF Steps, Routine
  <2>2. QED
    BY <1>38, <2>1, Entries, SolidLists
<1>39. CASE f = "parseContract"
  <2>1. Steps(f, prec) = parseContract
    BY <1>39 DEF Steps, Routine
  <2>2. QED
    BY <1>39, <2>1, Entries, SolidKnown
<1>40. CASE f = "parseHotReloadStmt"
  <2>1. Steps(f, prec) = parseHotReloadStmt
    BY <1>40 DEF Steps, Routine
  <2>2. QED
    BY <1>40, <2>1, Entries, SolidLists
<1>41. CASE f = "parsePrimary"
  <2>1. Steps(f, prec) = parsePrimary
    BY <1>41 DEF Steps, Routine
  <2>2. QED
    BY <1>41, <2>1, Entries, ExpressionLeads
<1>42. CASE f = "parsePostfix"
  <2>1. Steps(f, prec) = parsePostfix
    BY <1>42 DEF Steps, Routine
  <2>2. QED
    BY <1>42, <2>1, Entries, <1>2, LooseLists
<1>43. CASE f = "parseAtom"
  <2>1. Steps(f, prec) = parseAtom
    BY <1>43 DEF Steps, Routine
  <2>2. QED
    BY <1>43, <2>1, Entries, AtomLeads
<1>44. CASE f = "parseSimpleType"
  <2>1. Steps(f, prec) = parseSimpleType
    BY <1>44 DEF Steps, Routine
  <2>2. QED
    BY <1>44, <2>1, Entries, SimpleTypeLeads
<1>45. CASE f = "parseIdentifier"
  <2>1. Steps(f, prec) = parseIdentifier
    BY <1>45 DEF Steps, Routine
  <2>2. QED
    BY <1>45, <2>1, Entries, <1>2, LooseLists
<1>46. CASE f = "parseType"
  <2>1. Steps(f, prec) = parseGenericType
    BY <1>46 DEF Steps, Routine
  <2>2. QED
    BY <1>46, <2>1, Entries, TypeLeads
<1> QED
  BY <1>1, <1>3, <1>4, <1>5, <1>6, <1>7, <1>8, <1>9, <1>10, <1>11, <1>12, <1>13, <1>14, <1>15,
     <1>16, <1>17, <1>18, <1>19, <1>20, <1>21, <1>22, <1>23, <1>24, <1>25, <1>26, <1>27, <1>28,
     <1>29, <1>30, <1>31, <1>32, <1>33, <1>34, <1>35, <1>36, <1>37, <1>38, <1>39, <1>40, <1>41,
     <1>42, <1>43, <1>44, <1>45, <1>46
     DEF Functions, Routine

----------------------------------------------------------------------------
(* Braces: the call stack, from place to place *)

\* Token, Depth and Fits of a list of tokens and a position.
Nth(list, i) == IF i <= Len(list) THEN list[i] ELSE "TOKEN_EOF"
Opened(list, n) ==
    Cardinality({i \in 1..n : list[i] = "LBRACE"}) - Cardinality({i \in 1..n : list[i] = "RBRACE"})
Meets(k, list, p) == \A i \in DOMAIN k : Nth(list, p + i - 1) \in k[i]

\* How a call that began at v stands at p, when what was called last returned r.
Now(p, v, r) ==
    IF p > v THEN (IF r = "null" THEN "movedNull" ELSE "moved")
             ELSE (IF r = "null" THEN "stillNull" ELSE "still")

\* A place on the call stack: p in a function that was called at w, where e
\* braces are open besides the function's own.
Level(A) == A.e + (IF A.p.c = "open" THEN 1 ELSE 0)

\* What lies between two places: a step as it is written down, a loop that has
\* begun, or the end of a call.
Goes(s, A, B) == Leads(s, A.p, B.p) /\ A.e = B.e /\ A.w = B.w
Rounds(s, A, B) ==
    \E stop, body, n :
        /\ s = <<"while", stop, body, n>> /\ n \in Nat
        /\ A.p.c = "body" /\ A.p.k = <<>> /\ B.p.k = <<>>
        /\ A.p.b \subseteq B.p.s /\ A.p.s \subseteq B.p.s /\ A.p.r = B.p.r
        /\ Runs(body, A.p, A.p)
        /\ A.e = Level(B) /\ A.w = B.w
Comes(s, A, B, list) ==
    \E v \in Nat :
        /\ s = <<"end", v>> /\ v = A.w /\ B.w <= v
        /\ A.p.c = "shut" /\ A.p.s \subseteq A.p.r /\ B.p.k = <<>>
        /\ A.e = Level(B) /\ A.e = Opened(list, v - 1)
        /\ \A x \in A.p.r : (IF B.w < v THEN Onward(x) ELSE x) \in B.p.s
Joint(s, A, B, list) == Goes(s, A, B) \/ Rounds(s, A, B) \/ Comes(s, A, B, list)

\* The call stack t has places a between its steps; the last is behind parseTopLevel.
Bed == [p |-> Exit("parseTopLevel"), e |-> 0, w |-> 0]
Laying(t, a, list) ==
    /\ \E S : t \in Seq(S)
    /\ \A i \in 1 .. Len(t) + 1 : a[i].e \in Nat /\ a[i].w \in Nat
    /\ \A i \in 1 .. Len(t) : Joint(t[i], a[i], a[i + 1], list)
    /\ a[Len(t) + 1] = Bed

\* The parser is at the place A.
Here(A, list, p, r) ==
    /\ Level(A) = Opened(list, p - 1) /\ A.w <= p
    /\ Now(p, A.w, r) \in A.p.s /\ Meets(A.p.k, list, p)

\* The call stack t fits the list, position p, and last result r.
Placed(t, list, p, r) == \E a : Laying(t, a, list) /\ Here(a[1], list, p, r)

LEMMA OpenedCounts ==
    ASSUME NEW list
    PROVE  /\ Opened(list, 0) = 0
           /\ \A n \in Nat : /\ Opened(list, n) \in Int
                             /\ Opened(list, n + 1) =
                                   CASE list[n + 1] = "LBRACE" -> Opened(list, n) + 1
                                     [] list[n + 1] = "RBRACE" -> Opened(list, n) - 1
                                     [] OTHER -> Opened(list, n)
<1> DEFINE In(n, c) == {i \in 1..n : list[i] = c}
<1>1. ASSUME NEW n \in Nat, NEW c
      PROVE  /\ IsFiniteSet(In(n, c)) /\ Cardinality(In(n, c)) \in Nat
             /\ Cardinality(In(n + 1, c)) =
                   IF list[n + 1] = c THEN Cardinality(In(n, c)) + 1 ELSE Cardinality(In(n, c))
  <2>1. IsFiniteSet(1..n) /\ In(n, c) \subseteq 1..n
    BY FS_Interval
  <2>2. n + 1 \notin In(n, c)
    OBVIOUS
  <2>3. In(n + 1, c) = IF list[n + 1] = c THEN In(n, c) \cup {n + 1} ELSE In(n, c)
    OBVIOUS
  <2> HIDE DEF In
  <2>4. IsFiniteSet(In(n, c))
    BY <2>1, FS_Subset
  <2>5. Cardinality(In(n, c)) \in Nat
    BY <2>4, FS_CardinalityType
  <2>6. Cardinality(In(n, c) \cup {n + 1}) = Cardinality(In(n, c)) + 1
    BY <2>2, <2>4, FS_AddElement
  <2>7. QED
    BY <2>3, <2>4, <2>5, <2>6
<1>2. \A n : Opened(list, n) = Cardinality(In(n, "LBRACE")) - Cardinality(In(n, "RBRACE"))
  BY DEF Opened
<1>3. In(0, "LBRACE") = {} /\ In(0, "RBRACE") = {}
  OBVIOUS
<1> HIDE DEF In
<1>4. Opened(list, 0) = 0
  BY <1>2, <1>3, FS_EmptySet
<1>5. ASSUME NEW n \in Nat
      PROVE  /\ Opened(list, n) \in Int
             /\ Opened(list, n + 1) =
                   CASE list[n + 1] = "LBRACE" -> Opened(list, n) + 1
                     [] list[n + 1] = "RBRACE" -> Opened(list, n) - 1
                     [] OTHER -> Opened(list, n)
  <2> DEFINE l == Cardinality(In(n, "LBRACE"))
             r == Cardinality(In(n, "RBRACE"))
  <2>1. l \in Nat /\ r \in Nat
    BY <1>1
  <2>2. Cardinality(In(n + 1, "LBRACE")) = IF list[n + 1] = "LBRACE" THEN l + 1 ELSE l
    BY <1>1
  <2>3. Cardinality(In(n + 1, "RBRACE")) = IF list[n + 1] = "RBRACE" THEN r + 1 ELSE r
    BY <1>1
  <2>4. Opened(list, n) = l - r
    BY <1>2
  <2>5. Opened(list, n + 1) = Cardinality(In(n + 1, "LBRACE")) - Cardinality(In(n + 1, "RBRACE"))
    BY <1>2
  <2> HIDE DEF l, r
  <2>6. CASE list[n + 1] = "LBRACE"
    BY <2>1, <2>2, <2>3, <2>4, <2>5, <2>6
  <2>7. CASE list[n + 1] = "RBRACE"
    BY <2>1, <2>2, <2>3, <2>4, <2>5, <2>7
  <2>8. CASE list[n + 1] \notin {"LBRACE", "RBRACE"}
    BY <2>1, <2>2, <2>3, <2>4, <2>5, <2>8
  <2>9. QED
    BY <2>6, <2>7, <2>8
<1>6. QED
  BY <1>4, <1>5

\* What a step leaves alone.
LEMMA LeadsForm ==
    ASSUME NEW s, NEW P, NEW Q, Leads(s, P, Q)
    PROVE  /\ s[1] # "end" /\ (s[1] = "while" => s = <<"while", s[2], s[3], -1>>)
           /\ Alike(P, Q) /\ (P.c = "body" <=> Q.c = "body")
           /\ P.c = "body" \/ s[1] = "while" => Q.c = P.c
<1>1. PICK R : Within(R, Q) /\ LeadsOn(s, P, R)
  BY LeadsOut
<1>2. Keeps(R, Q)
  BY <1>1 DEF Within
<1>3. \A t : Shifts(P, R, t) => Alike(P, R) /\ (P.c = "body" => R.c = "body") /\ (R.c = "body" => P.c = "body")
  BY DEF Shifts
<1>4. Keeps(P, R) => Alike(P, R) /\ P.c = R.c
  BY DEF Keeps
<1> DEFINE Good == /\ s[1] # "end" /\ (s[1] = "while" => s = <<"while", s[2], s[3], -1>>)
                   /\ Alike(P, R) /\ (P.c = "body" <=> R.c = "body")
                   /\ s[1] = "while" => R.c = P.c
<1>0. SUFFICES Good
  BY <1>2 DEF Keeps, Alike
<1>5. CASE LeadsSimply(s, P, R)
  <2>1. CASE s[1] \notin {"end", "while"} /\ Keeps(P, R)
    BY <1>4, <2>1
  <2>2. CASE s = Take /\ TakeLeads(P, R)
    <3>1. Keeps(P, R) \/ Shifts(P, R, "LBRACE")
      BY <2>2 DEF TakeLeads
    <3>2. s[1] = "take"
      BY <2>2 DEF Take
    <3>3. QED
      BY <1>3, <1>4, <3>1, <3>2
  <2>3. CASE s = Error /\ Keeps(P, R)
    BY <1>4, <2>3 DEF Error
  <2>4. CASE \E t : s = Expect(t) /\ WantLeads(t, P, R)
    <3>1. PICK t : s = Expect(t) /\ WantLeads(t, P, R)
      BY <2>4
    <3>2. s[1] = "expect" /\ Shifts(P, R, t)
      BY <3>1 DEF Expect, WantLeads
    <3>3. QED
      BY <1>3, <3>2
  <2>5. CASE \E t, r : s = <<"must", t, r>> /\ WantLeads(t, P, R)
    <3>1. PICK t, r : s = <<"must", t, r>> /\ WantLeads(t, P, R)
      BY <2>5
    <3>2. s[1] = "must" /\ Shifts(P, R, t)
      BY <3>1 DEF WantLeads
    <3>3. QED
      BY <1>3, <3>2
  <2>6. CASE \E t : s = Opt(t) /\ OptLeads(t, P, R)
    BY <1>4, <2>6 DEF Opt, OptLeads
  <2>7. CASE \E f, p : s = <<"call", f, p>> /\ CallLeads(f, P, R)
    BY <1>4, <2>7 DEF CallLeads
  <2>8. CASE s = Break /\ Keeps(P, R)
    BY <1>4, <2>8 DEF Break
  <2>9. CASE \E r : s = Return(r) /\ ReturnLeads(r, P, R)
    BY <1>4, <2>9 DEF Return, ReturnLeads
  <2>10. CASE s = <<"interpolate">> /\ Keeps(P, R)
    BY <1>4, <2>10
  <2>11. CASE s = <<"made">> /\ Keeps(P, R)
    BY <1>4, <2>11
  <2>12. CASE \E p : s = <<"climb", p>> /\ Keeps(P, R)
    BY <1>4, <2>12
  <2>13. CASE s = <<"keep">> /\ Within(P, R)
    BY <1>4, <2>13 DEF Within
  <2>14. CASE \E top : s = <<"stalled", top>> /\ Within(P, R)
    BY <1>4, <2>14 DEF Within
  <2> HIDE DEF Good
  <2>16. QED
    BY <1>5, <2>1, <2>2, <2>3, <2>4, <2>5, <2>6, <2>7, <2>8, <2>9, <2>10, <2>11, <2>12, <2>13,
       <2>14, Zenon DEF LeadsSimply
<1>6. CASE \E cs : s = <<"choose", cs>> /\ Keeps(P, R)
  BY <1>4, <1>6
<1>7. CASE \E y, n : s = <<"onNull", y, n>> /\ Keeps(P, R)
  BY <1>4, <1>7
<1>8. CASE \E stop, body : s = <<"while", stop, body, -1>> /\ Keeps(P, R)
  BY <1>4, <1>8
<1> HIDE DEF Good
<1>9. QED
  BY <1>1, <1>5, <1>6, <1>7, <1>8, Zenon DEF LeadsOn

\* A list between two places of a function, at a place on the stack.
LaidTo(l, P, B, list) ==
    \E b : /\ \A i \in 1..Len(l) : Joint(l[i], b[i], b[i + 1], list)
           /\ \A i \in 1 .. Len(l) + 1 : b[i].e = B.e /\ b[i].w = B.w
           /\ b[Len(l) + 1] = B
           /\ Within(P, b[1].p) /\ 1 \in 1 .. Len(l) + 1

LEMMA RunsLaid ==
    ASSUME NEW l, NEW P, NEW Q, Runs(l, P, Q), NEW B, B.p = Q, NEW list
    PROVE  LaidTo(l, P, B, list)
<1>1. IsList(l)
  BY RunsOut
<1>2. PICK a : /\ Within(P, a[1]) /\ a[Len(l) + 1] = Q
               /\ \A i \in 1..Len(l) : Leads(l[i], a[i], a[i + 1])
  BY RunsOut
<1>3. Len(l) \in Nat
  BY <1>1, LenProperties DEF IsList
<1> DEFINE n == Len(l)
           b == [i \in 1 .. n + 1 |-> IF i = n + 1 THEN B ELSE [p |-> a[i], e |-> B.e, w |-> B.w]]
<1>4. /\ \A i \in 1 .. n + 1 : b[i].p = a[i] /\ b[i].e = B.e /\ b[i].w = B.w
      /\ b[n + 1] = B
  BY <1>2, <1>3
<1> HIDE DEF b
<1>5. \A i \in 1..n : i \in 1 .. n + 1 /\ i + 1 \in 1 .. n + 1
  BY <1>3
<1>6. 1 \in 1 .. n + 1 /\ n + 1 \in 1 .. n + 1
  BY <1>3
<1>7. ASSUME NEW i \in 1..n PROVE Joint(l[i], b[i], b[i + 1], list)
  <2>1. Leads(l[i], b[i].p, b[i + 1].p) /\ b[i].e = b[i + 1].e /\ b[i].w = b[i + 1].w
    BY <1>2, <1>4, <1>5
  <2>2. QED
    BY <2>1 DEF Joint, Goes
<1>8. b[n + 1] = B /\ Within(P, b[1].p)
  BY <1>2, <1>4, <1>6
<1> HIDE DEF n
<1>9. QED
  BY <1>4, <1>6, <1>7, <1>8 DEF n, LaidTo

\* A stack the first n steps of which make room for others, which lead to the
\* place behind them.
LEMMA Relaid ==
    ASSUME NEW t, NEW a, NEW list, Laying(t, a, list), NEW n \in 0 .. Len(t),
           NEW l, IsList(l), NEW b,
           \A i \in 1..Len(l) : Joint(l[i], b[i], b[i + 1], list),
           \A i \in 1 .. Len(l) + 1 : b[i].e \in Nat /\ b[i].w \in Nat,
           b[Len(l) + 1] = a[n + 1]
    PROVE  \E c : Laying(Spliced(t, n, l), c, list) /\ c[1] = b[1]
<1>1. PICK S, T : t \in Seq(S) /\ l \in Seq(T)
  BY DEF Laying, IsList
<1> DEFINE u == Spliced(t, n, l)
           m == Len(l)
           L == Len(t)
<1>2. L \in Nat /\ m \in Nat /\ n \in Nat /\ n <= L
  BY <1>1, LenProperties
<1>3. /\ \E U : u \in Seq(U)
      /\ Len(u) = m + L - n /\ Len(u) \in Nat
      /\ \A k \in 1..m : u[k] = l[k]
      /\ \A k \in m + 1 .. Len(u) : u[k] = t[k - m + n] /\ k - m + n \in n + 1 .. L
  BY <1>1, <1>2, SplicedIs
<1>4. /\ \A i \in 1 .. L + 1 : a[i].e \in Nat /\ a[i].w \in Nat
      /\ \A i \in 1 .. L : Joint(t[i], a[i], a[i + 1], list)
      /\ a[L + 1] = Bed
  BY DEF Laying
<1>5. /\ \A i \in 1..m : Joint(l[i], b[i], b[i + 1], list)
      /\ \A i \in 1 .. m + 1 : b[i].e \in Nat /\ b[i].w \in Nat
      /\ b[m + 1] = a[n + 1]
  OBVIOUS
<1> DEFINE c == [i \in 1 .. (m + L - n) + 1 |-> IF i <= m THEN b[i] ELSE a[i - m + n]]
<1> HIDE DEF u, m, L
<1>6. \A i \in 1 .. (m + L - n) + 1 : c[i] = IF i <= m THEN b[i] ELSE a[i - m + n]
  OBVIOUS
<1> HIDE DEF c
<1>7. c[m + 1] = a[n + 1]
  <2>1. m + 1 \in 1 .. (m + L - n) + 1 /\ ~(m + 1 <= m) /\ (m + 1) - m + n = n + 1
    BY <1>2
  <2>2. QED
    BY <1>6, <2>1
<1>8. \A i \in 1 .. m + 1 : c[i] = b[i]
  <2> SUFFICES ASSUME NEW i \in 1 .. m + 1 PROVE c[i] = b[i]
    OBVIOUS
  <2>1. i = m + 1 \/ (i <= m /\ i \in 1 .. (m + L - n) + 1)
    BY <1>2
  <2>2. QED
    BY <1>5, <1>6, <1>7, <2>1
<1>9. \A i \in m + 1 .. (m + L - n) + 1 : c[i] = a[i - m + n] /\ i - m + n \in 1 .. L + 1
  <2> SUFFICES ASSUME NEW i \in m + 1 .. (m + L - n) + 1
               PROVE  c[i] = a[i - m + n] /\ i - m + n \in 1 .. L + 1
    OBVIOUS
  <2>1. i \in 1 .. (m + L - n) + 1 /\ ~(i <= m) /\ i - m + n \in 1 .. L + 1
    BY <1>2
  <2>2. QED
    BY <1>6, <2>1
<1>10. ASSUME NEW i \in 1 .. (m + L - n) + 1 PROVE c[i].e \in Nat /\ c[i].w \in Nat
  <2>1. i \in 1 .. m + 1 \/ i \in m + 1 .. (m + L - n) + 1
    BY <1>2
  <2>2. QED
    BY <1>4, <1>5, <1>8, <1>9, <2>1
<1>11. ASSUME NEW i \in 1 .. m + L - n PROVE Joint(u[i], c[i], c[i + 1], list)
  <2>1. CASE i <= m
    <3>1. i \in 1..m /\ i \in 1 .. m + 1 /\ i + 1 \in 1 .. m + 1
      BY <1>2, <2>1
    <3>2. u[i] = l[i] /\ c[i] = b[i] /\ c[i + 1] = b[i + 1]
      BY <1>3, <1>8, <3>1
    <3>3. QED
      BY <1>5, <3>1, <3>2
  <2>2. CASE ~(i <= m)
    <3>1. i \in m + 1 .. (m + L - n) + 1 /\ i + 1 \in m + 1 .. (m + L - n) + 1
          /\ (i + 1) - m + n = (i - m + n) + 1 /\ i \in m + 1 .. m + L - n
          /\ i - m + n \in 1..L
      BY <1>2, <2>2
    <3>2. c[i] = a[i - m + n] /\ c[i + 1] = a[(i - m + n) + 1] /\ u[i] = t[i - m + n]
      BY <1>3, <1>9, <3>1
    <3>3. QED
      BY <1>4, <3>1, <3>2
  <2>3. QED
    BY <2>1, <2>2
<1>12. c[(m + L - n) + 1] = Bed
  <2>1. (m + L - n) + 1 \in m + 1 .. (m + L - n) + 1 /\ ((m + L - n) + 1) - m + n = L + 1
    BY <1>2
  <2>2. QED
    BY <1>4, <1>9, <2>1
<1>13. c[1] = b[1]
  <2>1. 1 \in 1 .. m + 1
    BY <1>2
  <2>2. QED
    BY <1>8, <2>1
<1>14. Laying(u, c, list)
  BY <1>3, <1>10, <1>11, <1>12 DEF Laying
<1>15. QED
  BY <1>13, <1>14 DEF u

\* The parser arrives at P, from where a list that has been put on the stack
\* leads on.
LEMMA Arrives ==
    ASSUME NEW t, NEW a, NEW list, Laying(t, a, list), NEW n \in 0 .. Len(t),
           NEW l, NEW P, NEW Q, Runs(l, P, Q), Within(Q, a[n + 1].p), NEW p, NEW r,
           a[n + 1].e + (IF P.c = "open" THEN 1 ELSE 0) = Opened(list, p - 1),
           a[n + 1].w <= p, Now(p, a[n + 1].w, r) \in P.s, Meets(P.k, list, p)
    PROVE  Placed(Spliced(t, n, l), list, p, r)
<1>1. Runs(l, P, a[n + 1].p) /\ IsList(l)
  BY RunsTo, RunsOut
<1>2. PICK b : /\ \A i \in 1..Len(l) : Joint(l[i], b[i], b[i + 1], list)
               /\ \A i \in 1 .. Len(l) + 1 : b[i].e = a[n + 1].e /\ b[i].w = a[n + 1].w
               /\ b[Len(l) + 1] = a[n + 1]
               /\ Within(P, b[1].p) /\ 1 \in 1 .. Len(l) + 1
  <2>1. LaidTo(l, P, a[n + 1], list)
    BY <1>1, RunsLaid
  <2>2. QED
    BY <2>1, Zenon DEF LaidTo
<1>3. a[n + 1].e \in Nat /\ a[n + 1].w \in Nat
  <2>1. Len(t) \in Nat
    BY LenProperties DEF Laying
  <2>2. n + 1 \in 1 .. Len(t) + 1
    BY <2>1
  <2>3. QED
    BY <2>2 DEF Laying
<1>4. PICK c : Laying(Spliced(t, n, l), c, list) /\ c[1] = b[1]
  BY <1>1, <1>2, <1>3, Relaid, SMTT(60)
<1>5. c[1].e = a[n + 1].e /\ c[1].w = a[n + 1].w /\ Within(P, c[1].p)
  BY <1>2, <1>4
<1>6. P.c = c[1].p.c /\ P.s \subseteq c[1].p.s /\ (c[1].p.k = P.k \/ c[1].p.k = <<>>)
  BY <1>5 DEF Within, Keeps
<1>7. Meets(<<>>, list, p)
  BY DEF Meets
<1>8. Here(c[1], list, p, r)
  BY <1>5, <1>6, <1>7 DEF Here, Level
<1>9. QED
  BY <1>4, <1>8 DEF Placed

\* The parser arrives at a place on the stack.
LEMMA ArrivesBehind ==
    ASSUME NEW t, NEW a, NEW list, Laying(t, a, list), NEW n \in 0 .. Len(t),
           NEW p, NEW r, Here(a[n + 1], list, p, r)
    PROVE  Placed(Spliced(t, n, <<>>), list, p, r)
<1> DEFINE P == a[n + 1].p
<1>1. Runs(<<>>, P, P) /\ Within(P, P)
  BY WithinItself, RunsNothing
<1>2. a[n + 1].e + (IF P.c = "open" THEN 1 ELSE 0) = Opened(list, p - 1) /\ a[n + 1].w <= p
      /\ Now(p, a[n + 1].w, r) \in P.s /\ Meets(P.k, list, p)
  BY DEF Here, Level
<1> HIDE DEF P
<1>3. Within(P, a[n + 1].p)
  BY <1>1 DEF P
<1>4. QED
  BY <1>1, <1>2, <1>3, Arrives

\* What stays the same up to the end of a call, and up to the end of a round.
LEMMA InCall ==
    ASSUME NEW t, NEW a, NEW list, Laying(t, a, list), NEW n \in 1 .. Len(t),
           \A i \in 1 .. n - 1 : t[i][1] # "end"
    PROVE  /\ a[n].w = a[1].w /\ a[n].p.r = a[1].p.r
           /\ a[1].p.c # "body" => a[n].p.c # "body" /\ a[n].e = a[1].e
           /\ a[1].p.c = "body" /\ (\A i \in 1 .. n - 1 : t[i][1] # "while")
                => a[n].p.c = "body" /\ a[n].p.b = a[1].p.b /\ a[n].e = a[1].e
<1> DEFINE Looping == a[1].p.c = "body" /\ (\A i \in 1 .. n - 1 : t[i][1] # "while")
           InOne(k) == /\ a[k].w = a[1].w /\ a[k].p.r = a[1].p.r
                       /\ a[1].p.c # "body" => a[k].p.c # "body" /\ a[k].e = a[1].e
                       /\ Looping => a[k].p.c = "body" /\ a[k].p.b = a[1].p.b /\ a[k].e = a[1].e
           S == {k \in 1..n : InOne(k)}
<1>1. n \in Nat /\ Len(t) \in Nat /\ n <= Len(t) /\ 1 <= n
  BY LenProperties DEF Laying
<1>2. 1 \in S
  BY <1>1
<1>3. ASSUME NEW k \in 1 + 1 .. n, k - 1 \in S PROVE k \in S
  <2> DEFINE j == k - 1
  <2>1. j \in 1 .. n - 1 /\ j \in 1 .. Len(t) /\ j + 1 = k /\ k \in 1..n
    BY <1>1
  <2>2. InOne(j)
    BY <1>3
  <2> HIDE DEF j
  <2>3. Joint(t[j], a[j], a[k], list) /\ t[j][1] # "end"
    BY <2>1 DEF Laying
  <2>4. CASE Goes(t[j], a[j], a[k])
    <3>1. Leads(t[j], a[j].p, a[k].p) /\ a[j].e = a[k].e /\ a[j].w = a[k].w
      BY <2>4 DEF Goes
    <3>2. Alike(a[j].p, a[k].p) /\ (a[j].p.c = "body" <=> a[k].p.c = "body")
      BY <3>1, LeadsForm
    <3>3. QED
      BY <2>1, <2>2, <3>1, <3>2 DEF Alike
  <2>5. CASE Rounds(t[j], a[j], a[k])
    <3>1. t[j][1] = "while" /\ a[j].p.c = "body" /\ a[j].p.r = a[k].p.r /\ a[j].w = a[k].w
      BY <2>5 DEF Rounds
    <3>2. ~Looping
      BY <2>1, <3>1
    <3>3. QED
      BY <2>1, <2>2, <3>1, <3>2
  <2>6. CASE Comes(t[j], a[j], a[k], list)
    BY <2>3, <2>6 DEF Comes
  <2>7. QED
    BY <2>3, <2>4, <2>5, <2>6 DEF Joint
<1>4. 1 .. n \subseteq S
  <2> HIDE DEF S
  <2>1. 1 \in Nat
    OBVIOUS
  <2>2. QED
    BY <1>1, <1>2, <1>3, <2>1, Along
<1>5. InOne(n)
  <2>1. n \in S
    BY <1>1, <1>4
  <2>2. QED
    BY <2>1
<1>6. QED
  BY <1>5

\* Nothing was reported, and the parser did not end at once: the call stack
\* fits, no brace is closed that was not opened, and what was left is read.
Sane(t, list, p, r) ==
    /\ Placed(t, list, p, r)
    /\ p - 1 <= Len(list) /\ \A i \in 0 .. p - 1 : Opened(list, i) >= 0
    /\ t = <<>> => p > Len(list)
Paired(list) ==
    /\ \E S : list \in Seq(S)
    /\ "TOKEN_EOF" \notin ToSet(list) /\ Unpaired \cap ToSet(list) = {}
Ready(t, list, p) == Stack(t, p, Nth(list, p)) /\ t # <<>> /\ Paired(list)

LEMMA NthIs ==
    ASSUME NEW list, Paired(list), NEW p \in Nat \ {0}
    PROVE  /\ Nth(list, p) \notin Unpaired
           /\ Len(list) \in Nat
           /\ Nth(list, p) = "TOKEN_EOF" <=> p > Len(list)
           /\ p <= Len(list) => Nth(list, p) = list[p]
<1>1. PICK S : list \in Seq(S)
  BY DEF Paired
<1>2. Len(list) \in Nat /\ DOMAIN list = 1 .. Len(list)
  BY <1>1, LenProperties
<1>3. ToSet(list) = {list[i] : i \in DOMAIN list}
  BY DEF ToSet
<1>4. CASE p <= Len(list)
  <2>1. Nth(list, p) = list[p] /\ list[p] \in ToSet(list) /\ ~(p > Len(list))
    BY <1>2, <1>3, <1>4 DEF Nth
  <2>2. QED
    BY <1>2, <2>1 DEF Paired
<1>5. CASE ~(p <= Len(list))
  <2>1. Nth(list, p) = "TOKEN_EOF" /\ p > Len(list)
    BY <1>2, <1>5 DEF Nth
  <2>2. QED
    BY <1>2, <1>5, <2>1 DEF Unpaired
<1>6. QED
  BY <1>4, <1>5

\* The step on top, and the places before and behind it.
LEMMA TopPlaces ==
    ASSUME NEW t, NEW a, NEW list, Laying(t, a, list), NEW p, Ready(t, list, p)
    PROVE  /\ Len(t) \in Nat /\ 1 \in 1 .. Len(t) /\ 1 \in 0 .. Len(t) /\ 0 \in 0 .. Len(t)
           /\ Joint(t[1], a[1], a[2], list) /\ a[1 + 1] = a[2] /\ a[0 + 1] = a[1]
           /\ \A i \in {1, 2} : a[i].e \in Nat /\ a[i].w \in Nat
           /\ t[1][1] \notin {"end", "while"} => Goes(t[1], a[1], a[2])
           /\ Tail(t) = Spliced(t, 1, <<>>)
           /\ \A l : SoundList(l) => l \o Tail(t) = Spliced(t, 1, l)
           /\ t[1][1] # "while" => Tail(t) # <<>>
           /\ p \in Nat \ {0} /\ Paired(list) /\ Frame(t[1])
<1>1. Stack(t, p, Nth(list, p)) /\ t # <<>> /\ Paired(list)
  BY DEF Ready
<1>2. /\ Len(t) \in Nat /\ Len(t) >= 1 /\ p \in Nat /\ p >= 1
      /\ Tail(t) = Spliced(t, 1, <<>>) /\ Frame(t[1]) /\ DOMAIN t = 1 .. Len(t)
      /\ \A l : SoundList(l) => l \o Tail(t) = Spliced(t, 1, l)
      /\ DOMAIN Tail(t) = 1 .. Len(t) - 1
      /\ t[1][1] # "while" => Len(t) > 1
  BY <1>1, StackTop
<1>3. 1 \in 1 .. Len(t) /\ 1 + 1 = 2 /\ 0 + 1 = 1 /\ 1 \in 1 .. Len(t) + 1 /\ 2 \in 1 .. Len(t) + 1
      /\ 1 \in 0 .. Len(t) /\ 0 \in 0 .. Len(t)
  BY <1>2
<1>4. Joint(t[1], a[1], a[2], list) /\ \A i \in {1, 2} : a[i].e \in Nat /\ a[i].w \in Nat
  BY <1>3 DEF Laying
<1>5. t[1][1] \notin {"end", "while"} => Goes(t[1], a[1], a[2])
  <2>1. Rounds(t[1], a[1], a[2]) => t[1][1] = "while"
    BY DEF Rounds
  <2>2. Comes(t[1], a[1], a[2], list) => t[1][1] = "end"
    BY DEF Comes
  <2>3. QED
    BY <1>4, <2>1, <2>2 DEF Joint
<1>6. t[1][1] # "while" => Tail(t) # <<>>
  <2>1. \A x : x = <<>> => DOMAIN x = {}
    OBVIOUS
  <2>2. t[1][1] # "while" => 1 \in DOMAIN Tail(t)
    BY <1>2
  <2>3. QED
    BY <2>1, <2>2
<1>7. QED
  BY <1>1, <1>2, <1>3, <1>4, <1>5, <1>6

\* Silent places are never ones that are not reached.
LEMMA ReachedNow ==
    ASSUME NEW A, NEW list, NEW p \in Nat \ {0}, NEW r, Here(A, list, p, r), Paired(list)
    PROVE  ~Unreached(A.p) /\ (1 \in DOMAIN A.p.k => Nth(list, p) \in A.p.k[1])
<1>1. A.p.s # {}
  BY DEF Here
<1>2. p + 1 - 1 = p
  OBVIOUS
<1>3. ASSUME 1 \in DOMAIN A.p.k PROVE Nth(list, p) \in A.p.k[1]
  <2>1. Nth(list, p + 1 - 1) \in A.p.k[1]
    BY <1>3 DEF Here, Meets
  <2>2. QED
    BY <1>2, <2>1
<1>4. Nth(list, p) \notin Unpaired
  BY NthIs
<1>5. QED
  BY <1>1, <1>3, <1>4 DEF Unreached

\* What a step of each kind does.
LEMMA KindsLead ==
    ASSUME NEW s, NEW P, NEW R, LeadsOn(s, P, R), ~Unreached(P)
    PROVE  /\ s[1] = "take" => TakeLeads(P, R)
           /\ s[1] \in {"expect", "must"} => WantLeads(s[2], P, R)
           /\ s[1] = "opt" => OptLeads(s[2], P, R)
           /\ s[1] = "call" => CallLeads(s[2], P, R)
           /\ s[1] = "break" => Keeps(P, R) /\ P.c = "body" /\ P.s \subseteq P.b
           /\ s[1] = "return" => ReturnLeads(s[2], P, R)
           /\ s[1] = "interpolate" =>
                 /\ 1 \in DOMAIN P.k /\ P.k[1] = {"INTERPOLATED"} /\ R.k = <<>> /\ Keeps(P, R)
                 /\ \A x \in P.s : Onward(x) \in R.s
           /\ s[1] = "made" => R.k = <<>> /\ Keeps(P, R) /\ \A x \in P.s : NotNull(x) \in R.s
           /\ s[1] = "climb" => /\ R.k = <<>> /\ Keeps(P, R) /\ P.c = "shut"
                                /\ P.s = Went /\ R.s = Went /\ "moved" \in P.r
           /\ s[1] = "keep" => Within(P, R)
           /\ s[1] = "stalled" => Within(P, R) /\ P.s \subseteq (IF s[2] THEN Settled ELSE Went)
           /\ s[1] \notin {"sync", "nudge", "crash"}
<1> USE DEF Take, Error, Expect, Opt, Break, Return
<1>1. CASE LeadsSimply(s, P, R)
  <2> DEFINE Good ==
           /\ s[1] = "take" => TakeLeads(P, R)
           /\ s[1] \in {"expect", "must"} => WantLeads(s[2], P, R)
           /\ s[1] = "opt" => OptLeads(s[2], P, R)
           /\ s[1] = "call" => CallLeads(s[2], P, R)
           /\ s[1] = "break" => Keeps(P, R) /\ P.c = "body" /\ P.s \subseteq P.b
           /\ s[1] = "return" => ReturnLeads(s[2], P, R)
           /\ s[1] = "interpolate" =>
                 /\ 1 \in DOMAIN P.k /\ P.k[1] = {"INTERPOLATED"} /\ R.k = <<>> /\ Keeps(P, R)
                 /\ \A x \in P.s : Onward(x) \in R.s
           /\ s[1] = "made" => R.k = <<>> /\ Keeps(P, R) /\ \A x \in P.s : NotNull(x) \in R.s
           /\ s[1] = "climb" => /\ R.k = <<>> /\ Keeps(P, R) /\ P.c = "shut"
                                /\ P.s = Went /\ R.s = Went /\ "moved" \in P.r
           /\ s[1] = "keep" => Within(P, R)
           /\ s[1] = "stalled" => Within(P, R) /\ P.s \subseteq (IF s[2] THEN Settled ELSE Went)
           /\ s[1] \notin {"sync", "nudge", "crash"}
  <2>0. SUFFICES Good
    OBVIOUS
  <2>2. CASE s = Take /\ TakeLeads(P, R)
    BY <2>2
  <2>3. CASE s = Error /\ Keeps(P, R)
    BY <2>3
  <2>4. CASE \E t : s = Expect(t) /\ WantLeads(t, P, R)
    BY <2>4
  <2>5. CASE \E t, r : s = <<"must", t, r>> /\ WantLeads(t, P, R)
    BY <2>5
  <2>6. CASE \E t : s = Opt(t) /\ OptLeads(t, P, R)
    BY <2>6
  <2>7. CASE \E f, p : s = <<"call", f, p>> /\ CallLeads(f, P, R)
    BY <2>7
  <2>8. CASE s = Break /\ Keeps(P, R) /\ P.c = "body" /\ P.s \subseteq P.b
    BY <2>8
  <2>9. CASE \E r : s = Return(r) /\ ReturnLeads(r, P, R)
    BY <2>9
  <2>10. CASE /\ s = <<"interpolate">> /\ 1 \in DOMAIN P.k /\ P.k[1] = {"INTERPOLATED"} /\ R.k = <<>> /\ Keeps(P, R)
              /\ \A x \in P.s : Onward(x) \in R.s
    BY <2>10
  <2>11. CASE s = <<"made">> /\ R.k = <<>> /\ Keeps(P, R) /\ \A x \in P.s : NotNull(x) \in R.s
    BY <2>11
  <2>12. CASE \E p : /\ s = <<"climb", p>> /\ R.k = <<>> /\ Keeps(P, R) /\ P.c = "shut"
                     /\ P.s = Went /\ R.s = Went /\ "moved" \in P.r
    BY <2>12
  <2>13. CASE s = <<"keep">> /\ Within(P, R)
    BY <2>13
  <2>14. CASE \E top : /\ s = <<"stalled", top>> /\ Within(P, R)
                       /\ P.s \subseteq (IF top THEN Settled ELSE Went)
    BY <2>14
  <2> HIDE DEF Good
  <2>16. QED
    BY <1>1, <2>2, <2>3, <2>4, <2>5, <2>6, <2>7, <2>8, <2>9, <2>10, <2>11, <2>12, <2>13,
       <2>14, Zenon DEF LeadsSimply
<1>2. CASE s[1] \in {"choose", "onNull", "while"}
  BY <1>2
<1>3. LeadsSimply(s, P, R) \/ s[1] \in {"choose", "onNull", "while"}
  BY DEF LeadsOn
<1>4. QED
  BY <1>1, <1>2, <1>3

\* A token that is consumed moves what has called the step.
LEMMA NowMoves ==
    ASSUME NEW p \in Nat, NEW v \in Nat, v <= p, NEW r
    PROVE  /\ Now(p + 1, v, r) = Onward(Now(p, v, r))
           /\ Now(p, v, r) \in Anything
           /\ r # "null" <=> Now(p, v, r) \notin NullOnes
           /\ p > v <=> Now(p, v, r) \in Went
           /\ \A z : z # "null" => Now(p, v, z) = NotNull(Now(p, v, r))
<1>1. p + 1 > v
  OBVIOUS
<1>2. QED
  BY <1>1 DEF Now, Onward, NullOnes, Anything, Went, NotNull

\* A place on the stack that is reached with nothing in between.
LEMMA ArrivesAt ==
    ASSUME NEW t, NEW a, NEW list, Laying(t, a, list), NEW n \in 0 .. Len(t),
           NEW P, Within(P, a[n + 1].p), NEW p, NEW r,
           a[n + 1].e + (IF P.c = "open" THEN 1 ELSE 0) = Opened(list, p - 1),
           a[n + 1].w <= p, Now(p, a[n + 1].w, r) \in P.s, Meets(P.k, list, p)
    PROVE  Placed(Spliced(t, n, <<>>), list, p, r)
<1>1. Runs(<<>>, P, P)
  BY WithinItself, RunsNothing
<1>2. QED
  BY <1>1, Arrives

\* A step takes the token that the parser is at.
LEMMA Consumes ==
    ASSUME NEW t, NEW list, NEW p, NEW r, Ready(t, list, p), Sane(t, list, p, r),
           NEW a, Laying(t, a, list), Here(a[1], list, p, r),
           NEW R, Within(R, a[2].p), a[1].e = a[2].e, a[1].w = a[2].w, t[1][1] # "while",
           Nth(list, p) # "TOKEN_EOF", Shifts(a[1].p, R, Nth(list, p)),
           \A x \in a[1].p.s : Onward(x) \in R.s, Meets(R.k, list, p + 1)
    PROVE  Sane(Tail(t), list, p + 1, r)
<1> DEFINE P == a[1].p
<1>1. /\ p \in Nat \ {0} /\ Paired(list) /\ 1 \in 0 .. Len(t) /\ a[1 + 1] = a[2]
      /\ a[1].e \in Nat /\ a[1].w \in Nat
      /\ Tail(t) = Spliced(t, 1, <<>>) /\ Tail(t) # <<>>
  BY TopPlaces
<1>2. p <= Len(list) /\ Nth(list, p) = list[p] /\ Len(list) \in Nat
  BY <1>1, NthIs
<1>3. p - 1 \in Nat /\ (p - 1) + 1 = p /\ (p + 1) - 1 = p
  BY <1>1
<1>4. Opened(list, p) = CASE list[p] = "LBRACE" -> Opened(list, p - 1) + 1
                          [] list[p] = "RBRACE" -> Opened(list, p - 1) - 1
                          [] OTHER -> Opened(list, p - 1)
  BY <1>3, OpenedCounts
<1>5. Opened(list, p - 1) = a[2].e + (IF P.c = "open" THEN 1 ELSE 0) /\ a[1].w <= p
      /\ Now(p, a[1].w, r) \in P.s
  BY DEF Here, Level
<1>6. a[2].e + (IF R.c = "open" THEN 1 ELSE 0) = Opened(list, p)
  <2>1. a[2].e \in Nat
    BY <1>1
  <2> DEFINE e == a[2].e
             o == Opened(list, p - 1)
  <2>2. e \in Nat /\ o = e + (IF P.c = "open" THEN 1 ELSE 0)
    BY <1>5, <2>1
  <2> HIDE DEF e, o
  <2>3. CASE list[p] = "LBRACE"
    <3>1. P.c = "shut" /\ R.c = "open"
      BY <1>2, <2>3 DEF Shifts
    <3>2. e + 1 = Opened(list, p)
      BY <1>4, <2>2, <2>3, <3>1 DEF o
    <3>3. QED
      BY <3>1, <3>2 DEF e
  <2>4. CASE list[p] = "RBRACE"
    <3>1. P.c = "open" /\ R.c = "shut"
      BY <1>2, <2>4 DEF Shifts
    <3>2. e = Opened(list, p)
      BY <1>4, <2>2, <2>4, <3>1 DEF o
    <3>3. QED
      BY <2>2, <3>1, <3>2 DEF e
  <2>5. CASE list[p] \notin {"LBRACE", "RBRACE"}
    <3>1. R.c = P.c
      BY <1>2, <2>5 DEF Shifts
    <3>2. Opened(list, p) = o
      BY <1>4, <2>5 DEF o
    <3>3. QED
      BY <2>2, <3>1, <3>2 DEF e
  <2>6. QED
    BY <2>3, <2>4, <2>5
<1>7. Now(p + 1, a[2].w, r) \in R.s /\ a[2].w <= p + 1
  <2>1. Now(p + 1, a[1].w, r) = Onward(Now(p, a[1].w, r))
    BY <1>1, <1>5, NowMoves
  <2>2. Onward(Now(p, a[1].w, r)) \in R.s
    BY <1>5
  <2>3. a[1].w <= p + 1
    BY <1>1, <1>5
  <2>4. QED
    BY <2>1, <2>2, <2>3
<1> DEFINE q == p + 1
           B == a[2]
<1>8. q - 1 = p /\ B.e + (IF R.c = "open" THEN 1 ELSE 0) = Opened(list, q - 1) /\ B.w <= q
      /\ Now(q, B.w, r) \in R.s /\ Meets(R.k, list, q) /\ B = a[1 + 1] /\ Within(R, B.p)
  BY <1>1, <1>3, <1>6, <1>7
<1>9. p <= Len(list) /\ \A i \in 0 .. p : Opened(list, i) >= 0
  <2>1. Opened(list, p) >= 0
    BY <1>1, <1>6
  <2>2. \A i \in 0 .. p - 1 : Opened(list, i) >= 0
    BY DEF Sane
  <2>3. \A i \in 0 .. p : i = p \/ i \in 0 .. p - 1
    BY <1>1
  <2>4. QED
    BY <1>2, <2>1, <2>2, <2>3
<1> HIDE DEF P, q, B
<1>10. Placed(Spliced(t, 1, <<>>), list, q, r)
  BY <1>1, <1>8, ArrivesAt
<1>11. QED
  BY <1>1, <1>8, <1>9, <1>10 DEF Sane, q

\* A step that consumes nothing makes room for others.
LEMMA Stands ==
    ASSUME NEW t, NEW list, NEW p, NEW r, Sane(t, list, p, r), NEW z, NEW u,
           Placed(u, list, p, z), u = <<>> => p > Len(list)
    PROVE  Sane(u, list, p, z)
  BY DEF Sane

LEMMA Remains ==
    ASSUME NEW t, NEW list, NEW p, NEW r, Ready(t, list, p), Sane(t, list, p, r),
           NEW a, Laying(t, a, list), Here(a[1], list, p, r), NEW z,
           NEW l, SoundList(l), NEW P, NEW R, Runs(l, P, R), Within(R, a[2].p),
           P.c = a[1].p.c, a[1].e = a[2].e, a[1].w = a[2].w, t[1][1] # "while",
           Now(p, a[1].w, z) \in P.s, Meets(P.k, list, p)
    PROVE  Sane(l \o Tail(t), list, p, z)
<1>1. /\ p \in Nat \ {0} /\ 1 \in 0 .. Len(t) /\ a[1 + 1] = a[2]
      /\ l \o Tail(t) = Spliced(t, 1, l) /\ Tail(t) # <<>>
  BY TopPlaces
<1>2. a[1].e + (IF P.c = "open" THEN 1 ELSE 0) = Opened(list, p - 1) /\ a[1].w <= p
  BY DEF Here, Level
<1> DEFINE B == a[2]
<1>3. B.e + (IF P.c = "open" THEN 1 ELSE 0) = Opened(list, p - 1) /\ B.w <= p
      /\ Now(p, B.w, z) \in P.s /\ B = a[1 + 1] /\ Within(R, B.p)
  BY <1>1, <1>2
<1> HIDE DEF B
<1>4. Placed(Spliced(t, 1, l), list, p, z)
  BY <1>1, <1>3, Arrives
<1>5. l \o Tail(t) # <<>>
  <2>1. PICK S, U : l \in Seq(S) /\ t \in Seq(U)
    BY DEF Ready, Stack, SoundList
  <2>2. Len(t) \in Nat /\ Len(t) > 1 /\ Len(l) \in Nat
    BY <2>1, StackTop, LenProperties DEF Ready
  <2> DEFINE u == Spliced(t, 1, l)
  <2>3. Len(u) = Len(l) + Len(t) - 1 /\ DOMAIN u = 1..Len(u)
    BY <2>1, <2>2, SplicedIs
  <2> HIDE DEF u
  <2>4. 1 \in DOMAIN u
    BY <2>2, <2>3
  <2>5. u # <<>>
    BY <2>4
  <2>6. QED
    BY <1>1, <2>5 DEF u
<1>6. QED
  BY <1>1, <1>4, <1>5, Stands

\* And may just be taken off.
LEMMA JustGoes ==
    ASSUME NEW t, NEW list, NEW p, NEW r, Ready(t, list, p), Sane(t, list, p, r),
           NEW a, Laying(t, a, list), Here(a[1], list, p, r), NEW z,
           NEW R, Within(R, a[2].p), R.c = a[1].p.c,
           a[1].e = a[2].e, a[1].w = a[2].w, t[1][1] # "while",
           Now(p, a[1].w, z) \in R.s, Meets(R.k, list, p)
    PROVE  Sane(Tail(t), list, p, z)
<1>1. Runs(<<>>, R, R) /\ SoundList(<<>>)
  BY WithinItself, RunsNothing, NoSteps
<1>2. <<>> \o Tail(t) = Tail(t)
  BY <1>1, TopPlaces
<1>3. Sane(<<>> \o Tail(t), list, p, z)
  BY <1>1, Remains
<1>4. QED
  BY <1>2, <1>3

\* The places of the step on top, which leads on.
Led(t, list, p, r, a, R) ==
    /\ Laying(t, a, list) /\ Here(a[1], list, p, r)
    /\ Within(R, a[2].p) /\ LeadsOn(t[1], a[1].p, R)
    /\ a[1].e = a[2].e /\ a[1].w = a[2].w
    /\ ~Unreached(a[1].p) /\ (1 \in DOMAIN a[1].p.k => Nth(list, p) \in a[1].p.k[1])
    /\ Now(p, a[1].w, r) \in a[1].p.s /\ a[1].w \in Nat /\ a[1].w <= p

LEMMA TopLeads ==
    ASSUME NEW t, NEW list, NEW p, NEW r, Ready(t, list, p), Sane(t, list, p, r),
           t[1][1] \notin {"end", "while"}
    PROVE  \E a, R : Led(t, list, p, r, a, R)
<1>1. PICK a : Laying(t, a, list) /\ Here(a[1], list, p, r)
  BY DEF Sane, Placed
<1>2. Goes(t[1], a[1], a[2]) /\ p \in Nat \ {0} /\ Paired(list) /\ a[1].w \in Nat
  BY <1>1, TopPlaces
<1>3. PICK R : Within(R, a[2].p) /\ LeadsOn(t[1], a[1].p, R)
  BY <1>2, LeadsOut DEF Goes
<1>4. ~Unreached(a[1].p) /\ (1 \in DOMAIN a[1].p.k => Nth(list, p) \in a[1].p.k[1])
  BY <1>1, <1>2, ReachedNow
<1>5. Now(p, a[1].w, r) \in a[1].p.s /\ a[1].w <= p
  BY <1>1 DEF Here
<1>6. Led(t, list, p, r, a, R)
  BY <1>1, <1>2, <1>3, <1>4, <1>5 DEF Led, Goes
<1>7. QED
  BY <1>6

\* Nothing need be known of what is to come.
LEMMA MeetsNothing ==
    \A list, p : Meets(<<>>, list, p)
  BY DEF Meets

\* Whatever else a token is, it is no brace.
LEMMA PlainShifts ==
    ASSUME NEW P, NEW Q, Keeps(P, Q), NEW c, c \notin Edges
    PROVE  Shifts(P, Q, c)
  BY DEF Keeps, Shifts, Edges

LEMMA Takes ==
    ASSUME NEW t, NEW list, NEW p, NEW r, Ready(t, list, p), Sane(t, list, p, r),
           t[1][1] = "take"
    PROVE  Sane(Tail(t), list, p + 1, r)
<1>1. PICK a, R : Led(t, list, p, r, a, R)
  BY TopLeads
<1> DEFINE P == a[1].p
<1>2. TakeLeads(P, R)
  BY <1>1, KindsLead DEF Led
<1>3. IsList(P.k) /\ P.k # <<>> /\ (R.k = <<>> \/ R.k = Tail(P.k))
  BY <1>2 DEF TakeLeads
<1>4. PICK S : P.k \in Seq(S)
  BY <1>3 DEF IsList
<1>5. Len(P.k) \in Nat /\ Len(P.k) # 0 /\ DOMAIN P.k = 1..Len(P.k)
  BY <1>3, <1>4, LenProperties, EmptySeq
<1>6. 1 \in DOMAIN P.k
  BY <1>5
<1>7. Nth(list, p) \in P.k[1]
  BY <1>1, <1>6 DEF Led
<1>8. Shifts(P, R, Nth(list, p)) /\ Nth(list, p) # "TOKEN_EOF"
  <2>1. CASE P.k[1] \cap Edges = {} /\ Keeps(P, R)
    <3>1. Nth(list, p) \notin Edges
      BY <1>7, <2>1
    <3>2. QED
      BY <2>1, <3>1, PlainShifts DEF Edges
  <2>2. CASE P.k[1] = {"LBRACE"} /\ Shifts(P, R, "LBRACE")
    BY <1>7, <2>2
  <2>3. QED
    BY <1>2, <2>1, <2>2 DEF TakeLeads
<1>9. \A x \in P.s : Onward(x) \in R.s
  BY <1>2 DEF TakeLeads
<1>10. Meets(R.k, list, p + 1)
  <2>1. CASE R.k = <<>>
    BY <2>1, MeetsNothing
  <2>2. CASE R.k = Tail(P.k)
    <3>1. p \in Nat
      BY TopPlaces, <1>1 DEF Led
    <3> DEFINE k == P.k
    <3>2. k \in Seq(S) /\ k # <<>> /\ Len(k) \in Nat /\ DOMAIN k = 1..Len(k)
      BY <1>3, <1>4, <1>5
    <3>3. Meets(k, list, p)
      BY <1>1 DEF Led, Here
    <3> HIDE DEF k
    <3>4. Tail(k) \in Seq(S) /\ Len(Tail(k)) = Len(k) - 1
          /\ \A i \in 1..Len(Tail(k)) : Tail(k)[i] = k[i + 1]
      BY <3>2, HeadTailProperties
    <3>5. DOMAIN Tail(k) = 1 .. Len(k) - 1
      BY <3>4, LenProperties
    <3>6. ASSUME NEW i \in DOMAIN Tail(k) PROVE Nth(list, p + 1 + i - 1) \in Tail(k)[i]
      <4>1. i + 1 \in DOMAIN k /\ p + 1 + i - 1 = p + (i + 1) - 1 /\ Tail(k)[i] = k[i + 1]
        BY <3>1, <3>2, <3>4, <3>5
      <4>2. QED
        BY <3>3, <4>1 DEF Meets
    <3>7. QED
      BY <2>2, <3>6 DEF Meets, k
  <2>3. QED
    BY <1>3, <2>1, <2>2
<1> HIDE DEF P
<1>11. QED
  BY <1>1, <1>8, <1>9, <1>10, Consumes DEF Led, P

LEMMA Wants ==
    ASSUME NEW t, NEW list, NEW p, NEW r, Ready(t, list, p), Sane(t, list, p, r),
           t[1][1] \in {"expect", "must", "opt"}, Nth(list, p) = t[1][2]
    PROVE  Sane(Tail(t), list, p + 1, r)
<1>1. PICK a, R : Led(t, list, p, r, a, R)
  BY TopLeads
<1> DEFINE P == a[1].p
           c == t[1][2]
<1>2. Shifts(P, R, c) /\ c # "TOKEN_EOF" /\ R.k = <<>> /\ \A x \in P.s : Onward(x) \in R.s
  <2>1. CASE t[1][1] \in {"expect", "must"}
    <3>1. WantLeads(c, P, R)
      BY <1>1, <2>1, KindsLead DEF Led
    <3>2. QED
      BY <3>1 DEF WantLeads
  <2>2. CASE t[1][1] = "opt"
    <3>1. OptLeads(c, P, R)
      BY <1>1, <2>2, KindsLead DEF Led
    <3>2. QED
      BY <3>1, PlainShifts DEF OptLeads, Edges
  <2>3. QED
    BY <2>1, <2>2
<1>3. Meets(R.k, list, p + 1)
  BY <1>2, MeetsNothing
<1>4. QED
  BY <1>1, <1>2, <1>3, Consumes DEF Led

LEMMA WantsNot ==
    ASSUME NEW t, NEW list, NEW p, NEW r, Ready(t, list, p), Sane(t, list, p, r),
           t[1][1] = "opt"
    PROVE  Sane(Tail(t), list, p, r)
<1>1. PICK a, R : Led(t, list, p, r, a, R)
  BY TopLeads
<1>2. OptLeads(t[1][2], a[1].p, R)
  BY <1>1, KindsLead DEF Led
<1>3. R.k = <<>> /\ R.c = a[1].p.c /\ Now(p, a[1].w, r) \in R.s
  BY <1>1, <1>2 DEF OptLeads, Keeps, Led
<1>4. QED
  BY <1>1, <1>3, MeetsNothing, JustGoes DEF Led

LEMMA Interpolates ==
    ASSUME NEW t, NEW list, NEW p, NEW r, Ready(t, list, p), Sane(t, list, p, r),
           t[1][1] = "interpolate"
    PROVE  Sane(Tail(t), list, p + 1, r)
<1>1. PICK a, R : Led(t, list, p, r, a, R)
  BY TopLeads
<1>2. /\ 1 \in DOMAIN a[1].p.k /\ a[1].p.k[1] = {"INTERPOLATED"} /\ R.k = <<>>
      /\ Keeps(a[1].p, R) /\ \A x \in a[1].p.s : Onward(x) \in R.s
  BY <1>1, KindsLead DEF Led
<1>3. Nth(list, p) = "INTERPOLATED"
  BY <1>1, <1>2 DEF Led
<1>4. Shifts(a[1].p, R, Nth(list, p)) /\ Nth(list, p) # "TOKEN_EOF"
  BY <1>2, <1>3, PlainShifts DEF Edges
<1>5. QED
  BY <1>1, <1>2, <1>4, MeetsNothing, Consumes DEF Led

LEMMA Makes ==
    ASSUME NEW t, NEW list, NEW p, NEW r, Ready(t, list, p), Sane(t, list, p, r),
           t[1][1] = "made"
    PROVE  Sane(Tail(t), list, p, "node")
<1>1. PICK a, R : Led(t, list, p, r, a, R)
  BY TopLeads
<1>2. R.k = <<>> /\ Keeps(a[1].p, R) /\ \A x \in a[1].p.s : NotNull(x) \in R.s
  BY <1>1, KindsLead DEF Led
<1>3. p \in Nat
  BY <1>1, TopPlaces DEF Led
<1>4. Now(p, a[1].w, "node") = NotNull(Now(p, a[1].w, r))
  BY <1>1, <1>3, NowMoves DEF Led
<1>5. Now(p, a[1].w, "node") \in R.s
  BY <1>1, <1>2, <1>4 DEF Led
<1>6. QED
  BY <1>1, <1>2, <1>5, MeetsNothing, JustGoes DEF Led, Keeps

\* The steps between two items, where nothing is to be recovered from.
LEMMA Overlooks ==
    ASSUME NEW t, NEW list, NEW p, NEW r, Ready(t, list, p), Sane(t, list, p, r),
           t[1][1] \in {"keep", "stalled"}
    PROVE  Sane(Tail(t), list, p, r)
<1>1. PICK a, R : Led(t, list, p, r, a, R)
  BY TopLeads
<1>2. Within(a[1].p, R)
  BY <1>1, KindsLead DEF Led
<1>3. R.c = a[1].p.c /\ Now(p, a[1].w, r) \in R.s /\ (R.k = <<>> \/ R.k = a[1].p.k)
  BY <1>1, <1>2 DEF Within, Keeps, Led
<1>4. Meets(R.k, list, p)
  BY <1>1, <1>3, MeetsNothing DEF Led, Here
<1>5. QED
  BY <1>1, <1>3, <1>4, JustGoes DEF Led

\* A list before one step more, which leads to a place on the stack.
LEMMA ArrivesBefore ==
    ASSUME NEW t, NEW a, NEW list, Laying(t, a, list), NEW n \in 0 .. Len(t),
           NEW l, NEW P, NEW B, Runs(l, P, B.p), B.e \in Nat, B.w \in Nat,
           NEW s, Joint(s, B, a[n + 1], list), NEW p, NEW r,
           B.e + (IF P.c = "open" THEN 1 ELSE 0) = Opened(list, p - 1),
           B.w <= p, Now(p, B.w, r) \in P.s, Meets(P.k, list, p)
    PROVE  Placed(Spliced(t, n, l \o <<s>>), list, p, r)
<1>1. IsList(l)
  BY RunsOut
<1>2. PICK b : /\ \A i \in 1..Len(l) : Joint(l[i], b[i], b[i + 1], list)
               /\ \A i \in 1 .. Len(l) + 1 : b[i].e = B.e /\ b[i].w = B.w
               /\ b[Len(l) + 1] = B
               /\ Within(P, b[1].p) /\ 1 \in 1 .. Len(l) + 1
  <2>1. LaidTo(l, P, B, list)
    BY RunsLaid
  <2>2. QED
    BY <2>1, Zenon DEF LaidTo
<1>3. PICK S : l \in Seq(S)
  BY <1>1 DEF IsList
<1> DEFINE m == Len(l)
           k == l \o <<s>>
           U == S \cup {s}
<1>4. l \in Seq(U) /\ <<s>> \in Seq(U) /\ Len(<<s>>) = 1 /\ <<s>>[1] = s
  BY <1>3, SeqGrows
<1>5. k \in Seq(U) /\ Len(k) = m + 1
      /\ \A i \in 1 .. m + 1 : k[i] = IF i <= m THEN l[i] ELSE <<s>>[i - m]
  BY <1>4, ConcatProperties
<1>6. m \in Nat
  BY <1>3, LenProperties
<1> HIDE DEF k, m, U
<1>7. /\ \A i \in 1..m : k[i] = l[i]
      /\ k[m + 1] = s
  <2>1. \A i \in 1..m : i \in 1 .. m + 1 /\ i <= m
    BY <1>6
  <2>2. m + 1 \in 1 .. m + 1 /\ ~(m + 1 <= m) /\ (m + 1) - m = 1
    BY <1>6
  <2>3. QED
    BY <1>4, <1>5, <2>1, <2>2
<1> DEFINE C == a[n + 1]
           d == [i \in 1 .. m + 2 |-> IF i <= m + 1 THEN b[i] ELSE C]
<1>8. /\ \A i \in 1 .. m + 1 : d[i] = b[i] /\ i \in 1 .. m + 2
      /\ d[m + 2] = C
  BY <1>6
<1> HIDE DEF d
<1>9. C.e \in Nat /\ C.w \in Nat
  <2>1. Len(t) \in Nat
    BY LenProperties DEF Laying
  <2>2. n + 1 \in 1 .. Len(t) + 1
    BY <2>1
  <2>3. QED
    BY <2>2 DEF Laying
<1> HIDE DEF C
<1>10. ASSUME NEW i \in 1 .. m + 1 PROVE Joint(k[i], d[i], d[i + 1], list)
  <2>1. CASE i <= m
    <3>1. i \in 1..m /\ i \in 1 .. m + 1 /\ i + 1 \in 1 .. m + 1
      BY <1>6, <2>1
    <3>2. k[i] = l[i] /\ d[i] = b[i] /\ d[i + 1] = b[i + 1]
      BY <1>7, <1>8, <3>1
    <3>3. QED
      BY <1>2, <3>1, <3>2 DEF m
  <2>2. CASE i = m + 1
    <3>1. m + 1 \in 1 .. m + 1 /\ (m + 1) + 1 = m + 2
      BY <1>6
    <3>2. d[m + 1] = B /\ d[(m + 1) + 1] = C /\ k[m + 1] = s
      BY <1>2, <1>7, <1>8, <3>1 DEF m
    <3>3. QED
      BY <2>2, <3>2 DEF C
  <2>3. QED
    BY <1>6, <2>1, <2>2
<1>11. \A i \in 1 .. m + 2 : d[i].e \in Nat /\ d[i].w \in Nat
  <2> SUFFICES ASSUME NEW i \in 1 .. m + 2 PROVE d[i].e \in Nat /\ d[i].w \in Nat
    OBVIOUS
  <2>1. i \in 1 .. m + 1 \/ i = m + 2
    BY <1>6
  <2>2. CASE i \in 1 .. m + 1
    BY <1>2, <1>8, <2>2 DEF m
  <2>3. CASE i = m + 2
    BY <1>8, <1>9, <2>3
  <2>4. QED
    BY <2>1, <2>2, <2>3
<1>12. Len(k) + 1 = m + 2 /\ IsList(k) /\ d[Len(k) + 1] = a[n + 1]
  <2>1. Len(k) + 1 = m + 2
    BY <1>5, <1>6
  <2>2. QED
    BY <1>5, <1>8, <2>1 DEF IsList, C
<1>13. PICK c : Laying(Spliced(t, n, k), c, list) /\ c[1] = d[1]
  BY <1>5, <1>10, <1>11, <1>12, Relaid, SMTT(60)
<1>14. c[1].e = B.e /\ c[1].w = B.w /\ Within(P, c[1].p)
  <2>1. 1 \in 1 .. m + 1
    BY <1>6
  <2>2. d[1] = b[1]
    BY <1>8, <2>1
  <2>3. QED
    BY <1>2, <1>13, <2>2
<1>15. P.c = c[1].p.c /\ P.s \subseteq c[1].p.s /\ (c[1].p.k = P.k \/ c[1].p.k = <<>>)
  BY <1>14 DEF Within, Keeps
<1>16. Here(c[1], list, p, r)
  BY <1>14, <1>15, MeetsNothing DEF Here, Level
<1>17. QED
  BY <1>13, <1>16 DEF Placed, k

\* A list is not empty when something follows it.
LEMMA PutBefore ==
    ASSUME NEW l, IsList(l), NEW s, NEW t, NEW S, t \in Seq(S), t # <<>>
    PROVE  /\ (l \o <<s>>) \o Tail(t) = Spliced(t, 1, l \o <<s>>)
           /\ (l \o <<s>>) \o Tail(t) # <<>>
<1>1. PICK T : l \in Seq(T)
  BY DEF IsList
<1> DEFINE U == T \cup {s}
           k == l \o <<s>>
<1>2. l \in Seq(U) /\ <<s>> \in Seq(U) /\ Len(<<s>>) = 1 /\ Len(l) \in Nat
  BY <1>1, SeqGrows, LenProperties
<1>3. k \in Seq(U) /\ Len(k) = Len(l) + 1
  BY <1>2, ConcatProperties
<1> HIDE DEF k, U
<1>4. Tail(t) = SubSeq(t, 2, Len(t)) /\ 1 + 1 = 2
  BY DEF Tail
<1>5. k \o Tail(t) = Spliced(t, 1, k)
  BY <1>4 DEF Spliced
<1>6. Len(t) \in Nat /\ 1 <= Len(t) /\ 1 \in Nat
  <2>1. Len(t) \in Nat /\ Len(t) # 0
    BY LenProperties, EmptySeq
  <2>2. QED
    BY <2>1
<1>7. Len(Spliced(t, 1, k)) = Len(k) + Len(t) - 1 /\ DOMAIN Spliced(t, 1, k) = 1 .. Len(Spliced(t, 1, k))
  <2>1. t \in Seq(S) /\ k \in Seq(U)
    BY <1>3
  <2>2. QED
    BY <2>1, <1>6, SplicedIs
<1> DEFINE u == Spliced(t, 1, k)
           L == Len(u)
           M == Len(l)
           N == Len(t)
<1>8. L = M + 1 + N - 1 /\ M \in Nat /\ N \in Nat /\ 1 <= N /\ DOMAIN u = 1..L
  BY <1>2, <1>3, <1>6, <1>7
<1> HIDE DEF u, L, M, N
<1>9. 1 \in DOMAIN u
  BY <1>8
<1>10. u # <<>>
  BY <1>9
<1>11. QED
  BY <1>5, <1>10 DEF k, u

LEMMA Enters ==
    ASSUME NEW t, NEW list, NEW p, NEW r, Ready(t, list, p), Sane(t, list, p, r),
           t[1][1] = "call"
    PROVE  Sane((Steps(t[1][2], t[1][3]) \o <<<<"end", p>>>>) \o Tail(t), list, p, r)
<1>1. PICK a, R : Led(t, list, p, r, a, R)
  BY TopLeads
<1> DEFINE f == t[1][2]
           P == a[1].p
           C == a[2]
           v == C.w
           o == Opened(list, p - 1)
<1>2. CallLeads(f, P, R)
  BY <1>1, KindsLead DEF Led
<1>3. /\ f \in Pairing /\ R.k = <<>> /\ R.c = P.c
      /\ Known(f) # <<>> => 1 \in DOMAIN P.k /\ P.k[1] \subseteq Known(f)[1]
      /\ \A x \in P.s, y \in Outcomes(f) : Called(x, y) \in R.s
  BY <1>2 DEF CallLeads, Keeps
<1>4. C.p.k = <<>> /\ C.p.c = P.c /\ R.s \subseteq C.p.s /\ C.e = a[1].e /\ v = a[1].w
  BY <1>1, <1>3 DEF Led, Within, Keeps
<1>5. Level(C) = o /\ o \in Nat /\ v \in Nat /\ v <= p /\ p \in Nat \ {0} /\ Now(p, v, r) \in P.s
      /\ a[1 + 1] = C /\ 1 \in 0 .. Len(t)
  <2>1. Level(a[1]) = o
    BY <1>1 DEF Led, Here
  <2>2. Level(C) = Level(a[1])
    BY <1>4 DEF Level
  <2>3. a[1].e \in Nat /\ p \in Nat \ {0} /\ a[1 + 1] = C /\ 1 \in 0 .. Len(t)
    BY <1>1, TopPlaces DEF Led
  <2>4. Level(a[1]) \in Nat
    BY <2>3 DEF Level
  <2>5. QED
    BY <1>1, <1>4, <2>1, <2>2, <2>3, <2>4 DEF Led
<1> DEFINE l == Steps(f, t[1][3])
           B == [p |-> Exit(f), e |-> o, w |-> p]
<1>6. Runs(l, Entry(f), B.p) /\ B.e = o /\ B.w = p /\ B.p = Exit(f)
  BY <1>3, FunctionsLead
<1>7. Comes(<<"end", p>>, B, C, list)
  <2>1. \A x \in Outcomes(f) : (IF v < p THEN Onward(x) ELSE x) \in C.p.s
    <3> SUFFICES ASSUME NEW x \in Outcomes(f) PROVE (IF v < p THEN Onward(x) ELSE x) \in C.p.s
      OBVIOUS
    <3>1. Called(Now(p, v, r), x) \in C.p.s
      BY <1>3, <1>4, <1>5
    <3>2. v < p <=> Now(p, v, r) \in Went
      BY <1>5 DEF Now, Went
    <3>3. QED
      BY <3>1, <3>2 DEF Called
  <2>2. B.p.c = "shut" /\ B.p.s = Outcomes(f) /\ B.p.r = Outcomes(f)
    BY DEF Exit, Place
  <2> HIDE DEF B, f, C
  <2>3. QED
    BY <1>4, <1>5, <1>6, <2>1, <2>2 DEF Comes
<1>8. Meets(Known(f), list, p)
  <2>1. CASE Known(f) = <<>>
    BY <2>1, MeetsNothing
  <2>2. CASE Known(f) # <<>>
    <3>1. Nth(list, p) \in Known(f)[1]
      BY <1>1, <1>3, <2>2 DEF Led
    <3>2. DOMAIN Known(f) = {1}
      BY <2>2 DEF Known
    <3>3. p + 1 - 1 = p
      BY <1>5
    <3>4. QED
      BY <3>1, <3>2, <3>3 DEF Meets
  <2>3. QED
    BY <2>1, <2>2
<1>9. Entry(f).c = "shut" /\ Entry(f).s = {"still", "stillNull"} /\ Entry(f).k = Known(f)
  BY DEF Entry, Place
<1>10. Now(p, p, r) \in {"still", "stillNull"} /\ p <= p /\ o + 0 = o
  BY <1>5 DEF Now
<1>11. Laying(t, a, list) /\ Joint(<<"end", p>>, B, a[1 + 1], list)
  BY <1>1, <1>5, <1>7 DEF Led, Joint
<1> DEFINE E == Entry(f)
<1>12. /\ B.e + (IF E.c = "open" THEN 1 ELSE 0) = o /\ B.w <= p
       /\ Now(p, B.w, r) \in E.s /\ Meets(E.k, list, p) /\ B.e \in Nat /\ B.w \in Nat
  BY <1>5, <1>6, <1>8, <1>9, <1>10
<1>13. Runs(l, E, B.p)
  BY <1>6
<1> HIDE DEF B, E, l, f, C
<1>14. Placed(Spliced(t, 1, l \o <<<<"end", p>>>>), list, p, r)
  BY <1>5, <1>11, <1>12, <1>13, ArrivesBefore
<1>15. PICK S : t \in Seq(S) /\ t # <<>>
  BY DEF Ready, Stack
<1>16. /\ (l \o <<<<"end", p>>>>) \o Tail(t) = Spliced(t, 1, l \o <<<<"end", p>>>>)
       /\ (l \o <<<<"end", p>>>>) \o Tail(t) # <<>>
  BY <1>13, <1>15, RunsOut, PutBefore
<1>17. Sane((l \o <<<<"end", p>>>>) \o Tail(t), list, p, r)
  BY <1>14, <1>16, Stands
<1>18. QED
  BY <1>17 DEF l, f

\* A loop on top, its body's place B, and the place behind it.
Looping(t, list, p, r, a, B) ==
    /\ Laying(t, a, list) /\ Here(a[2], list, p, r) /\ Here(B, list, p, r)
    /\ B.e \in Nat /\ B.w \in Nat /\ B.p.c = "body" /\ Runs(t[1][3], B.p, B.p)
    /\ Rounds(<<"while", t[1][2], t[1][3], p>>, B, a[2])

LEMMA NoSimpleLoop ==
    ASSUME NEW s, NEW P, NEW R, LeadsSimply(s, P, R)
    PROVE  s[1] # "while"
  BY DEF LeadsSimply, Take, Error, Expect, Opt, Break, Return

LEMMA LoopPlaces ==
    ASSUME NEW t, NEW list, NEW p, NEW r, Ready(t, list, p), Sane(t, list, p, r),
           t[1][1] = "while"
    PROVE  \E a, B : Looping(t, list, p, r, a, B)
<1>1. PICK a : Laying(t, a, list) /\ Here(a[1], list, p, r)
  BY DEF Sane, Placed
<1>2. /\ Joint(t[1], a[1], a[2], list) /\ p \in Nat
      /\ a[1].e \in Nat /\ a[1].w \in Nat /\ a[2].e \in Nat
  BY <1>1, TopPlaces
<1> DEFINE P == a[1].p
           Q == a[2].p
<1>3. Level(a[1]) = Opened(list, p - 1) /\ a[1].w <= p /\ Now(p, a[1].w, r) \in P.s
  BY <1>1 DEF Here
<1>4. CASE Goes(t[1], a[1], a[2])
  <2>1. PICK R : Within(R, Q) /\ LeadsOn(t[1], P, R)
    BY <1>4, LeadsOut DEF Goes
  <2>2. PICK stop, body : /\ t[1] = <<"while", stop, body, -1>> /\ Keeps(P, R) /\ R.k = <<>>
                          /\ P.s \subseteq R.s
                          /\ Runs(body, InBody(P, R.s), InBody(P, R.s))
    <3>1. ~LeadsSimply(t[1], P, R)
      BY NoSimpleLoop
    <3>2. (\A cs : t[1] # <<"choose", cs>>) /\ (\A y, n : t[1] # <<"onNull", y, n>>)
      OBVIOUS
    <3> HIDE DEF P, Q
    <3>3. QED
      BY <2>1, <3>1, <3>2, Zenon DEF LeadsOn
  <2>3. t[1][2] = stop /\ t[1][3] = body
    BY <2>2
  <2>4. Q.k = <<>> /\ Q.c = P.c /\ Q.r = P.r /\ R.s \subseteq Q.s
    BY <2>1, <2>2 DEF Within, Keeps, Alike
  <2>5. a[2].w = a[1].w /\ Level(a[2]) = Level(a[1]) /\ Level(a[1]) \in Nat
    BY <1>2, <1>4, <2>4 DEF Goes, Level
  <2>6. Here(a[2], list, p, r)
    BY <1>3, <2>2, <2>4, <2>5, MeetsNothing DEF Here
  <2> DEFINE B == [p |-> InBody(P, R.s), e |-> Level(a[1]), w |-> a[1].w]
  <2>7. /\ B.p.k = <<>> /\ B.p.c = "body" /\ B.p.s = P.s /\ B.p.b = R.s /\ B.p.r = P.r
        /\ B.e = Level(a[1]) /\ B.w = a[1].w /\ B.p = InBody(P, R.s)
    BY DEF InBody, Place
  <2> HIDE DEF B, P, Q
  <2>8. Level(B) = B.e
    <3>1. B.e + 0 = B.e
      BY <2>5, <2>7
    <3>2. QED
      BY <2>7, <3>1 DEF Level
  <2>9. Here(B, list, p, r)
    BY <1>3, <2>7, <2>8, MeetsNothing DEF Here
  <2>10. Runs(t[1][3], B.p, B.p)
    BY <2>2, <2>3, <2>7
  <2>11. Rounds(<<"while", t[1][2], t[1][3], p>>, B, a[2])
    BY <1>2, <2>2, <2>4, <2>5, <2>7, <2>10 DEF Rounds, Q
  <2>12. Looping(t, list, p, r, a, B)
    BY <1>1, <1>2, <2>5, <2>6, <2>7, <2>9, <2>10, <2>11 DEF Looping
  <2>13. QED
    BY <2>12
<1>5. CASE Rounds(t[1], a[1], a[2])
  <2>1. PICK stop, body, n :
            /\ t[1] = <<"while", stop, body, n>> /\ n \in Nat
            /\ P.c = "body" /\ P.k = <<>> /\ Q.k = <<>>
            /\ P.b \subseteq Q.s /\ P.s \subseteq Q.s /\ P.r = Q.r
            /\ Runs(body, P, P)
            /\ a[1].e = Level(a[2]) /\ a[1].w = a[2].w
    BY <1>5 DEF Rounds
  <2>2. t[1][2] = stop /\ t[1][3] = body
    BY <2>1
  <2>3. Level(a[1]) = a[1].e
    BY <1>2, <2>1 DEF Level
  <2>4. Here(a[2], list, p, r)
    BY <1>3, <2>1, <2>3, MeetsNothing DEF Here
  <2>5. Rounds(<<"while", t[1][2], t[1][3], p>>, a[1], a[2])
    BY <1>2, <2>1, <2>2 DEF Rounds
  <2>6. Looping(t, list, p, r, a, a[1])
    BY <1>1, <1>2, <2>1, <2>2, <2>4, <2>5 DEF Looping
  <2>7. QED
    BY <2>6
<1>6. ~Comes(t[1], a[1], a[2], list)
  BY DEF Comes
<1>7. QED
  BY <1>2, <1>4, <1>5, <1>6 DEF Joint

LEMMA LoopStops ==
    ASSUME NEW t, NEW list, NEW p, NEW r, Ready(t, list, p), Sane(t, list, p, r),
           t[1][1] = "while", Nth(list, p) \in t[1][2] \cup Eof
    PROVE  Sane(Tail(t), list, p, r)
<1>1. PICK a, B : Looping(t, list, p, r, a, B)
  BY LoopPlaces
<1>2. Laying(t, a, list) /\ Here(a[2], list, p, r)
  BY <1>1 DEF Looping
<1>3. 1 \in 0 .. Len(t) /\ a[1 + 1] = a[2] /\ Tail(t) = Spliced(t, 1, <<>>) /\ p \in Nat \ {0}
      /\ Paired(list)
  BY <1>2, TopPlaces
<1>4. Placed(Tail(t), list, p, r)
  BY <1>2, <1>3, ArrivesBehind
<1>5. ASSUME Tail(t) = <<>> PROVE p > Len(list)
  <2>1. Stack(t, p, Nth(list, p)) /\ t # <<>>
    BY DEF Ready
  <2>2. Len(t) \in Nat /\ Len(t) >= 1 /\ DOMAIN Tail(t) = 1 .. Len(t) - 1 /\ Frame(t[1])
    BY <2>1, StackTop
  <2>3. Len(t) = 1
    <3>1. ASSUME Len(t) # 1 PROVE FALSE
      <4>0. ASSUME NEW N \in Nat, N >= 1, N # 1 PROVE 1 \in 1 .. N - 1
        BY <4>0
      <4>1. 1 \in 1 .. Len(t) - 1
        BY <2>2, <3>1, <4>0
      <4>2. DOMAIN Tail(t) = 1 .. Len(t) - 1
        BY <2>2
      <4>3. 1 \in DOMAIN Tail(t)
        BY <4>1, <4>2
      <4>4. QED
        BY <1>5, <4>3
    <3>2. QED
      BY <3>1
  <2>4. Guarded(t[1]) /\ Top(t[1])
    BY <2>1, <2>3 DEF Stack, Bottom
  <2>5. t[1][2] = {}
    BY <2>2, <2>4, GuardedForm
  <2>6. Nth(list, p) = "TOKEN_EOF"
    BY <2>5 DEF Eof
  <2>7. QED
    BY <1>3, <2>6, NthIs
<1>6. QED
  BY <1>4, <1>5, Stands

LEMMA LoopTurns ==
    ASSUME NEW t, NEW list, NEW p, NEW r, Ready(t, list, p), Sane(t, list, p, r),
           t[1][1] = "while"
    PROVE  Sane((t[1][3] \o <<<<"while", t[1][2], t[1][3], p>>>>) \o Tail(t), list, p, r)
<1> DEFINE l == t[1][3]
           s == <<"while", t[1][2], t[1][3], p>>
<1>1. PICK a, B : Looping(t, list, p, r, a, B)
  BY LoopPlaces
<1>2. Laying(t, a, list) /\ 1 \in 0 .. Len(t) /\ a[1 + 1] = a[2]
  BY <1>1, TopPlaces DEF Looping
<1>3. /\ Runs(l, B.p, B.p) /\ B.e \in Nat /\ B.w \in Nat /\ Joint(s, B, a[1 + 1], list)
      /\ Here(B, list, p, r)
  BY <1>1, <1>2 DEF Looping, Joint
<1> HIDE DEF l, s
<1>4. /\ B.e + (IF B.p.c = "open" THEN 1 ELSE 0) = Opened(list, p - 1)
      /\ B.w <= p /\ Now(p, B.w, r) \in B.p.s /\ Meets(B.p.k, list, p)
  BY <1>3 DEF Here, Level
<1>5. Placed(Spliced(t, 1, l \o <<s>>), list, p, r)
  BY <1>2, <1>3, <1>4, ArrivesBefore
<1>6. PICK S : t \in Seq(S) /\ t # <<>>
  BY DEF Ready, Stack
<1>7. /\ (l \o <<s>>) \o Tail(t) = Spliced(t, 1, l \o <<s>>)
      /\ (l \o <<s>>) \o Tail(t) # <<>>
  BY <1>3, <1>6, RunsOut, PutBefore
<1>8. Sane((l \o <<s>>) \o Tail(t), list, p, r)
  BY <1>5, <1>7, Stands
<1>9. QED
  BY <1>8 DEF l, s

\* The end of a call, and of what has been called.
LEMMA EndsCall ==
    ASSUME NEW t, NEW a, NEW list, Laying(t, a, list), NEW n \in 1 .. Len(t), t[n][1] = "end",
           \A i \in 1 .. n - 1 : t[i][1] # "end"
    PROVE  /\ Comes(t[n], a[n], a[n + 1], list) /\ t[n][2] = a[1].w
           /\ a[n].w = a[1].w /\ a[n].p.r = a[1].p.r
           /\ a[1].p.c # "body" => a[n].e = a[1].e
<1>1. /\ a[n].w = a[1].w /\ a[n].p.r = a[1].p.r
      /\ a[1].p.c # "body" => a[n].e = a[1].e
  BY InCall
<1>2. Joint(t[n], a[n], a[n + 1], list)
  BY DEF Laying
<1>3. ~Goes(t[n], a[n], a[n + 1])
  BY LeadsForm DEF Goes
<1>4. ~Rounds(t[n], a[n], a[n + 1])
  BY DEF Rounds
<1>5. Comes(t[n], a[n], a[n + 1], list)
  BY <1>2, <1>3, <1>4 DEF Joint
<1>6. t[n][2] = a[n].w
  BY <1>5 DEF Comes
<1>7. QED
  BY <1>1, <1>5, <1>6

LEMMA EndThere ==
    ASSUME NEW t, NEW p, NEW c, Stack(t, p, c), t # <<>>, t[1][1] \notin {"call", "while"}
    PROVE  Len(t) - 1 \in DOMAIN t /\ t[Len(t) - 1][1] = "end"
<1> DEFINE L == Len(t)
<1>1. L \in Nat /\ L > 1 /\ DOMAIN t = 1..L
  BY StackTop
<1>2. L \in DOMAIN t /\ L - 1 \in DOMAIN t /\ L # 1
  BY <1>1
<1>3. Begun(t[L])
  BY <1>2 DEF Stack, Bottom, Begun
<1>4. Round(t, p, c, L)
  BY <1>2, <1>3 DEF Stack
<1>5. t[L][3][1][1] = "call"
  BY <1>2, <1>3 DEF Stack, Bottom, Top, Call
<1>6. Near(t, p, c, L) => Ending(t, L)
  BY <1>2, <1>5 DEF Near, Watching, Spacing, Ending
<1>7. Deep(t, L) => Ending(t, L)
  BY DEF Deep, Spacing, Watching
<1>8. Ending(t, L)
  BY <1>4, <1>6, <1>7 DEF Round
<1>9. QED
  BY <1>2, <1>8 DEF Ending

LEMMA EndsHere ==
    ASSUME NEW t, NEW list, NEW p, NEW r, Ready(t, list, p), Sane(t, list, p, r),
           t[1][1] = "end"
    PROVE  Sane(Tail(t), list, p, r)
<1>1. PICK a : Laying(t, a, list) /\ Here(a[1], list, p, r)
  BY DEF Sane, Placed
<1>2. /\ 1 \in 0 .. Len(t) /\ 1 \in 1 .. Len(t) /\ a[1 + 1] = a[2] /\ p \in Nat \ {0}
      /\ Tail(t) = Spliced(t, 1, <<>>) /\ Tail(t) # <<>>
      /\ a[1].e \in Nat /\ a[1].w \in Nat /\ a[2].w \in Nat
  BY <1>1, TopPlaces
<1>3. Comes(t[1], a[1], a[1 + 1], list)
  BY <1>1, <1>2, EndsCall
<1> DEFINE A == a[1]
           B == a[2]
<1>4. /\ B.w <= A.w /\ A.p.c = "shut" /\ A.p.s \subseteq A.p.r /\ B.p.k = <<>>
      /\ A.e = Level(B)
      /\ \A x \in A.p.r : (IF B.w < A.w THEN Onward(x) ELSE x) \in B.p.s
  BY <1>2, <1>3 DEF Comes
<1>5. Level(A) = Opened(list, p - 1) /\ A.w <= p /\ Now(p, A.w, r) \in A.p.s
  BY <1>1 DEF Here
<1>6. Level(A) = A.e
  BY <1>2, <1>4 DEF Level
<1>7. B.w <= p /\ Now(p, B.w, r) \in B.p.s
  <2>1. A.w \in Nat /\ B.w \in Nat /\ p \in Nat
    BY <1>2
  <2> DEFINE v == A.w
             w == B.w
  <2>2. v \in Nat /\ w \in Nat /\ p \in Nat /\ w <= v /\ v <= p
    BY <1>4, <1>5, <2>1
  <2>3. (IF w < v THEN Onward(Now(p, v, r)) ELSE Now(p, v, r)) \in B.p.s
    BY <1>4, <1>5
  <2> HIDE DEF v, w
  <2>4. Now(p, w, r) = IF w < v THEN Onward(Now(p, v, r)) ELSE Now(p, v, r)
    <3>1. CASE w < v
      <4>1. p > w
        BY <2>2, <3>1
      <4>2. QED
        BY <3>1, <4>1 DEF Now, Onward, NullOnes
    <3>2. CASE ~(w < v)
      <4>1. w = v
        BY <2>2, <3>2
      <4>2. QED
        BY <3>2, <4>1
    <3>3. QED
      BY <3>1, <3>2
  <2>5. w <= p
    BY <2>2
  <2>6. QED
    BY <2>3, <2>4, <2>5 DEF w
<1>8. Here(a[1 + 1], list, p, r)
  BY <1>2, <1>4, <1>5, <1>6, <1>7, MeetsNothing DEF Here
<1>9. Placed(Tail(t), list, p, r)
  BY <1>1, <1>2, <1>8, ArrivesBehind
<1>10. QED
  BY <1>2, <1>9, Stands

\* How a call stands that has called another, which stands at q and began at v.
LEMMA NowOutside ==
    ASSUME NEW q \in Nat, NEW v \in Nat, NEW w \in Nat, w <= v, v <= q, NEW z
    PROVE  Now(q, w, z) = IF w < v THEN Onward(Now(q, v, z)) ELSE Now(q, v, z)
<1>1. CASE w < v
  <2>1. q > w
    BY <1>1
  <2>2. QED
    BY <1>1, <2>1 DEF Now, Onward, NullOnes
<1>2. CASE ~(w < v)
  <2>1. w = v
    BY <1>2
  <2>2. QED
    BY <1>2, <2>1
<1>3. QED
  BY <1>1, <1>2

\* break goes on behind the innermost loop.
LEMMA Breaks ==
    ASSUME NEW t, NEW list, NEW p, NEW r, Ready(t, list, p), Sane(t, list, p, r),
           t[1][1] = "break", NEW n \in DOMAIN t, t[n][1] = "while",
           \A i \in DOMAIN t : i < n => t[i][1] # "while"
    PROVE  Sane(SubSeq(t, n + 1, Len(t)), list, p, r)
<1>1. PICK a, R : Led(t, list, p, r, a, R)
  BY TopLeads
<1> DEFINE P == a[1].p
<1>2. P.c = "body" /\ P.s \subseteq P.b
  BY <1>1, KindsLead DEF Led
<1>3. Stack(t, p, Nth(list, p)) /\ t # <<>> /\ Laying(t, a, list)
  BY <1>1 DEF Ready, Led
<1>4. n \in Nat /\ n > 0 /\ n <= Len(t) /\ Len(t) \in Nat /\ DOMAIN t = 1..Len(t)
      /\ Spliced(t, n, <<>>) = SubSeq(t, n + 1, Len(t))
      /\ Len(SubSeq(t, n + 1, Len(t))) = 0 + Len(t) - n
  BY <1>3, DroppedAt
<1>5. ASSUME NEW m \in 1 .. n - 1, t[m][1] = "end" PROVE FALSE
  <2> DEFINE E == {i \in 1 .. n - 1 : t[i][1] = "end"}
  <2>1. m \in E /\ E \subseteq Nat
    BY <1>5
  <2>2. PICK k \in E : \A i \in E : k <= i
    BY <2>1, LeastElement
  <2>3. k \in 1 .. Len(t) /\ k \in 1 .. n - 1
    BY <1>4
  <2>4. ASSUME NEW i \in 1 .. k - 1 PROVE t[i][1] # "end" /\ t[i][1] # "while"
    <3>1. i \in 1 .. n - 1 /\ i \in DOMAIN t /\ i < n /\ ~(k <= i)
      BY <1>4, <2>3
    <3>2. i \notin E
      BY <2>2, <3>1
    <3>3. QED
      BY <3>1, <3>2
  <2>5. a[k].p.c = "body"
    BY <1>2, <1>3, <2>3, <2>4, InCall
  <2>6. t[k][1] = "end"
    OBVIOUS
  <2>7. Comes(t[k], a[k], a[k + 1], list)
    BY <1>3, <2>3, <2>4, <2>6, EndsCall
  <2>8. QED
    BY <2>5, <2>7 DEF Comes
<1>6. n \in 1 .. Len(t) /\ \A i \in 1 .. n - 1 : t[i][1] # "end" /\ t[i][1] # "while"
  <2>1. \A i \in 1 .. n - 1 : i \in DOMAIN t /\ i < n
    BY <1>4
  <2>2. n \in 1 .. Len(t)
    BY <1>4
  <2>3. QED
    BY <1>5, <2>1, <2>2
<1> DEFINE A == a[n]
           B == a[n + 1]
<1>7. A.w = a[1].w /\ A.p.r = P.r /\ A.p.c = "body" /\ A.p.b = P.b /\ A.e = a[1].e
  BY <1>2, <1>3, <1>6, InCall
<1>8. Joint(t[n], A, B, list) /\ A.e \in Nat /\ B.e \in Nat
  <2>1. n \in 1 .. Len(t) + 1 /\ n + 1 \in 1 .. Len(t) + 1
    BY <1>4
  <2>2. QED
    BY <1>3, <1>6, <2>1 DEF Laying
<1>9. A.p.b \subseteq B.p.s /\ B.p.k = <<>> /\ Level(B) = A.e /\ B.w = A.w
  <2>1. CASE Goes(t[n], A, B)
    <3>1. PICK S : Within(S, B.p) /\ LeadsOn(t[n], A.p, S)
      BY <2>1, LeadsOut DEF Goes
    <3>2. ~LeadsSimply(t[n], A.p, S)
      BY NoSimpleLoop
    <3>3. (\A cs : t[n] # <<"choose", cs>>) /\ (\A y, m : t[n] # <<"onNull", y, m>>)
      OBVIOUS
    <3> HIDE DEF A, B
    <3>4. PICK stop, body : Keeps(A.p, S) /\ S.k = <<>> /\ (A.p.c = "body" => A.p.b \subseteq S.s)
      BY <3>1, <3>2, <3>3, Zenon DEF LeadsOn
    <3>5. A.p.b \subseteq B.p.s /\ B.p.k = <<>> /\ B.p.c = "body"
      BY <1>7, <3>1, <3>4 DEF Within, Keeps
    <3>6. Level(B) = B.e
      BY <1>8, <3>5 DEF Level
    <3>7. QED
      BY <2>1, <3>5, <3>6 DEF Goes
  <2>2. CASE Rounds(t[n], A, B)
    BY <2>2 DEF Rounds
  <2>3. ~Comes(t[n], A, B, list)
    BY DEF Comes
  <2>4. QED
    BY <1>8, <2>1, <2>2, <2>3 DEF Joint
<1>10. Level(a[1]) = a[1].e /\ Level(a[1]) = Opened(list, p - 1)
  <2>1. a[1].e \in Nat
    BY <1>1, TopPlaces DEF Led
  <2>2. QED
    BY <1>1, <1>2, <2>1 DEF Level, Led, Here
<1>11. Here(a[n + 1], list, p, r)
  <2>1. Now(p, B.w, r) \in B.p.s /\ B.w <= p
    BY <1>1, <1>2, <1>7, <1>9 DEF Led
  <2>2. QED
    BY <1>7, <1>9, <1>10, <2>1, MeetsNothing DEF Here
<1> HIDE DEF P, A, B
<1>12. Placed(SubSeq(t, n + 1, Len(t)), list, p, r)
  <2>1. n \in 0 .. Len(t)
    BY <1>4
  <2>2. Placed(Spliced(t, n, <<>>), list, p, r)
    BY <1>3, <1>11, <2>1, ArrivesBehind
  <2>3. QED
    BY <1>4, <2>2
<1>13. SubSeq(t, n + 1, Len(t)) # <<>>
  <2>1. Len(t) - 1 \in DOMAIN t /\ t[Len(t) - 1][1] = "end"
    BY <1>3, EndThere
  <2>2. n # Len(t)
    <3>1. ASSUME n = Len(t) PROVE FALSE
      <4>1. Len(t) - 1 \in 1 .. n - 1
        BY <1>4, <2>1, <3>1
      <4>2. QED
        BY <1>6, <2>1, <4>1
    <3>2. QED
      BY <3>1
  <2>3. 0 + Len(t) - n # 0
    BY <1>4, <2>2
  <2>4. Len(<<>>) = 0
    OBVIOUS
  <2>5. QED
    BY <1>4, <2>3, <2>4
<1>14. QED
  BY <1>12, <1>13, Stands

\* A return goes on behind the innermost call.
LEMMA Returns ==
    ASSUME NEW t, NEW list, NEW p, NEW r, Ready(t, list, p), Sane(t, list, p, r),
           t[1][1] = "return", NEW n \in DOMAIN t, t[n][1] = "end",
           \A i \in DOMAIN t : i < n => t[i][1] # "end"
    PROVE  LET x == t[1][2]
               z == CASE x = "same" -> r [] x = "rewind" -> "null" [] OTHER -> x
           IN  Sane(SubSeq(t, n + 1, Len(t)), list, IF x = "rewind" THEN t[n][2] ELSE p, z)
<1>1. PICK a, R : Led(t, list, p, r, a, R)
  BY TopLeads
<1> DEFINE P == a[1].p
           x == t[1][2]
           z == CASE x = "same" -> r [] x = "rewind" -> "null" [] OTHER -> x
           v == t[n][2]
           q == IF x = "rewind" THEN v ELSE p
           A == a[n]
           B == a[n + 1]
<1>2. /\ P.c = "shut" /\ x \in {"node", "null", "same", "rewind"}
      /\ \A y \in P.s : Returned(x, y) \in P.r
  BY <1>1, KindsLead DEF Led, ReturnLeads
<1>3. Stack(t, p, Nth(list, p)) /\ t # <<>> /\ Laying(t, a, list)
  BY <1>1 DEF Ready, Led
<1>4. n \in Nat /\ n > 0 /\ n <= Len(t) /\ Len(t) \in Nat /\ DOMAIN t = 1..Len(t)
      /\ Spliced(t, n, <<>>) = SubSeq(t, n + 1, Len(t))
      /\ Len(SubSeq(t, n + 1, Len(t))) = 0 + Len(t) - n
  BY <1>3, DroppedAt
<1>5. n \in 1 .. Len(t) /\ \A i \in 1 .. n - 1 : t[i][1] # "end"
  <2>1. \A i \in 1 .. n - 1 : i \in DOMAIN t /\ i < n
    BY <1>4
  <2>2. QED
    BY <1>4, <2>1
<1>6. Comes(t[n], A, B, list) /\ v = a[1].w /\ A.w = a[1].w /\ A.p.r = P.r /\ A.e = a[1].e
  BY <1>2, <1>3, <1>5, EndsCall
<1>7. p \in Nat /\ p > 0 /\ v \in Nat /\ v <= p /\ B.w \in Nat /\ a[1].e \in Nat
  <2>1. n + 1 \in 1 .. Len(t) + 1
    BY <1>4
  <2>2. B.w \in Nat
    BY <1>3, <2>1 DEF Laying
  <2>3. p \in Nat \ {0} /\ a[1].e \in Nat
    BY <1>3, TopPlaces
  <2>4. QED
    BY <1>1, <1>6, <2>2, <2>3 DEF Led
<1>8. /\ B.w <= v /\ B.p.k = <<>> /\ Level(B) = a[1].e /\ a[1].e = Opened(list, v - 1)
      /\ \A y \in P.r : (IF B.w < v THEN Onward(y) ELSE y) \in B.p.s
  BY <1>6 DEF Comes
<1>9. a[1].e = Opened(list, p - 1) /\ Now(p, v, r) \in P.s
  <2>1. Level(a[1]) = a[1].e
    BY <1>2, <1>7 DEF Level
  <2>2. QED
    BY <1>1, <1>6, <2>1 DEF Led, Here
<1>10. Level(B) = Opened(list, q - 1) /\ q \in Nat /\ v <= q /\ q <= p /\ B.w <= q
  BY <1>7, <1>8, <1>9
<1>11. Now(q, v, z) = Returned(x, Now(p, v, r))
  <2> DEFINE y == Now(p, v, r)
  <2>1. y = IF p > v THEN (IF r = "null" THEN "movedNull" ELSE "moved")
                     ELSE (IF r = "null" THEN "stillNull" ELSE "still")
    BY DEF Now
  <2>2. ~(v > v)
    BY <1>7
  <2> HIDE DEF y, v
  <2>3. CASE x = "node"
    <3>1. q = p /\ z = "node"
      BY <2>3
    <3>2. QED
      BY <2>1, <2>3, <3>1 DEF Now, Returned, NotNull, Went, y
  <2>4. CASE x = "null"
    <3>1. q = p /\ z = "null"
      BY <2>4
    <3>2. QED
      BY <2>1, <2>4, <3>1 DEF Now, Returned, Went, y
  <2>5. CASE x = "same"
    <3>1. q = p /\ z = r
      BY <2>5
    <3>2. QED
      BY <2>5, <3>1 DEF Returned, y
  <2>6. CASE x = "rewind"
    <3>1. q = v /\ z = "null"
      BY <2>6
    <3>2. QED
      BY <2>2, <2>6, <3>1 DEF Now, Returned
  <2>7. QED
    BY <1>2, <2>3, <2>4, <2>5, <2>6
<1>12. Now(q, B.w, z) \in B.p.s
  <2>1. Now(q, v, z) \in P.r
    BY <1>2, <1>9, <1>11
  <2>2. Now(q, B.w, z) = IF B.w < v THEN Onward(Now(q, v, z)) ELSE Now(q, v, z)
    BY <1>7, <1>8, <1>10, NowOutside
  <2>3. QED
    BY <1>8, <2>1, <2>2
<1>13. Here(a[n + 1], list, q, z)
  BY <1>8, <1>10, <1>12, MeetsNothing DEF Here
<1>14. p - 1 <= Len(list) /\ Len(list) \in Nat /\ \A i \in 0 .. p - 1 : Opened(list, i) >= 0
  <2>1. Len(list) \in Nat
    BY <1>7, NthIs DEF Ready
  <2>2. QED
    BY <2>1 DEF Sane
<1>15. q - 1 <= Len(list) /\ \A i \in 0 .. q - 1 : Opened(list, i) >= 0
  <2>1. q - 1 <= p - 1 /\ \A i \in 0 .. q - 1 : i \in 0 .. p - 1
    BY <1>7, <1>10
  <2>2. p - 1 \in Int /\ q - 1 \in Int
    BY <1>7, <1>10
  <2>3. QED
    BY <1>14, <2>1, <2>2
<1> DEFINE u == SubSeq(t, n + 1, Len(t))
<1>16. u # <<>>
  <2>1. t[Len(t)][1] = "while"
    BY <1>3 DEF Stack, Bottom, Guarded
  <2>2. n # Len(t)
    BY <2>1
  <2>3. 0 + Len(t) - n # 0
    BY <1>4, <2>2
  <2>4. Len(<<>>) = 0
    OBVIOUS
  <2>5. QED
    BY <1>4, <2>3, <2>4
<1> HIDE DEF P, A, B, x, z, v, q, u
<1>17. Placed(u, list, q, z)
  <2>1. n \in 0 .. Len(t)
    BY <1>4
  <2>2. Placed(Spliced(t, n, <<>>), list, q, z)
    BY <1>3, <1>13, <2>1, ArrivesBehind
  <2>3. QED
    BY <1>4, <2>2 DEF u
<1>18. Sane(u, list, q, z)
  BY <1>15, <1>16, <1>17 DEF Sane
<1>19. QED
  BY <1>18 DEF u, q, z, x, v

\* The loops of parseTopLevel and parseBlock have nothing to recover from.
LEMMA Advances ==
    ASSUME NEW t, NEW list, NEW p, NEW r, Ready(t, list, p), Sane(t, list, p, r),
           t[1][1] = "stalled", NEW n \in DOMAIN t, t[n][1] = "end",
           \A i \in DOMAIN t : i < n => t[i][1] # "end"
    PROVE  p # t[n][2] /\ (t[1][2] => r # "null")
<1>1. PICK a, R : Led(t, list, p, r, a, R)
  BY TopLeads
<1>2. a[1].p.s \subseteq (IF t[1][2] THEN Settled ELSE Went)
  BY <1>1, KindsLead DEF Led
<1>3. Stack(t, p, Nth(list, p)) /\ Laying(t, a, list) /\ t # <<>>
  BY <1>1 DEF Ready, Led
<1>4. Len(t) \in Nat /\ DOMAIN t = 1..Len(t)
  BY <1>3, StackTop
<1>5. n \in 1 .. Len(t) /\ \A i \in 1 .. n - 1 : t[i][1] # "end"
  <2>1. \A i \in 1 .. n - 1 : i \in DOMAIN t /\ i < n
    BY <1>4
  <2>2. QED
    BY <1>4, <2>1
<1>6. t[n][2] = a[1].w
  BY <1>3, <1>5, EndsCall
<1>7. Now(p, a[1].w, r) \in Went /\ (t[1][2] => Now(p, a[1].w, r) = "moved")
  BY <1>1, <1>2 DEF Led, Settled, Went
<1>8. p \in Nat
  BY <1>3, TopPlaces
<1>9. p > a[1].w
  BY <1>1, <1>7 DEF Now, Went
<1>10. p # a[1].w
  BY <1>1, <1>8, <1>9 DEF Led
<1>11. QED
  BY <1>6, <1>7, <1>10 DEF Now

\* Steps that are made of others are never simple where they are reached.
LEMMA NotSimple ==
    ASSUME NEW s, NEW P, NEW R, LeadsSimply(s, P, R), ~Unreached(P)
    PROVE  s[1] \notin {"choose", "onNull", "while"}
  BY DEF LeadsSimply, Take, Error, Expect, Opt, Break, Return

LEMMA Branches ==
    ASSUME NEW t, NEW list, NEW p, NEW r, Ready(t, list, p), Sane(t, list, p, r),
           t[1][1] = "choose"
    PROVE  /\ \A i \in DOMAIN t[1][2] : Meets(t[1][2][i][1], list, p)
                 => Sane(t[1][2][i][2] \o Tail(t), list, p, r)
           /\ (\A i \in DOMAIN t[1][2] : ~Meets(t[1][2][i][1], list, p))
                 => Sane(Tail(t), list, p, r)
<1>1. PICK a, R : Led(t, list, p, r, a, R)
  BY TopLeads
<1> DEFINE P == a[1].p
<1>2. PICK cs : /\ t[1] = <<"choose", cs>> /\ Keeps(P, R) /\ R.k = <<>>
                /\ \A i \in DOMAIN cs : Runs(cs[i][2], Knowing(P, cs[i][1]), R)
                /\ P.s \subseteq R.s \/ \E i \in DOMAIN cs : cs[i][1] = <<>>
  <2>1. ~LeadsSimply(t[1], P, R)
    BY <1>1, NotSimple DEF Led
  <2>2. /\ \A y, n : t[1] # <<"onNull", y, n>>
        /\ \A stop, body : t[1] # <<"while", stop, body, -1>>
    OBVIOUS
  <2>3. LeadsOn(t[1], P, R)
    BY <1>1 DEF Led
  <2> HIDE DEF P
  <2>4. QED
    BY <2>1, <2>2, <2>3, Zenon DEF LeadsOn
<1>3. cs = t[1][2]
  BY <1>2
<1>4. ASSUME NEW i \in DOMAIN t[1][2], Meets(t[1][2][i][1], list, p)
      PROVE  Sane(t[1][2][i][2] \o Tail(t), list, p, r)
  <2> DEFINE l == t[1][2][i][2]
             K == Knowing(P, t[1][2][i][1])
  <2>1. SoundList(l)
    <3>1. Frame(t[1])
      BY <1>1, TopPlaces DEF Led
    <3>2. QED
      BY <1>4, <3>1, FrameKinds
  <2>2. Runs(l, K, R)
    BY <1>2, <1>3, <1>4
  <2>3. K.c = P.c /\ K.s = P.s /\ K.k = t[1][2][i][1]
    BY DEF Knowing, Place
  <2>4. Now(p, a[1].w, r) \in K.s /\ Meets(K.k, list, p)
    BY <1>1, <1>4, <2>3 DEF Led
  <2> HIDE DEF l, K
  <2>5. Sane(l \o Tail(t), list, p, r)
    BY <1>1, <2>1, <2>2, <2>3, <2>4, Remains DEF Led
  <2>6. QED
    BY <2>5 DEF l
<1>5. ASSUME \A i \in DOMAIN t[1][2] : ~Meets(t[1][2][i][1], list, p)
      PROVE  Sane(Tail(t), list, p, r)
  <2>1. P.s \subseteq R.s
    BY <1>2, <1>3, <1>5, MeetsNothing
  <2>2. R.c = P.c /\ Now(p, a[1].w, r) \in R.s /\ Meets(R.k, list, p)
    BY <1>1, <1>2, <2>1, MeetsNothing DEF Led, Keeps
  <2>3. QED
    BY <1>1, <2>2, JustGoes DEF Led
<1>6. QED
  BY <1>4, <1>5

LEMMA BranchesOnNull ==
    ASSUME NEW t, NEW list, NEW p, NEW r, Ready(t, list, p), Sane(t, list, p, r),
           t[1][1] = "onNull"
    PROVE  Sane((IF r = "null" THEN t[1][2] ELSE t[1][3]) \o Tail(t), list, p, r)
<1>1. PICK a, R : Led(t, list, p, r, a, R)
  BY TopLeads
<1> DEFINE P == a[1].p
           l == IF r = "null" THEN t[1][2] ELSE t[1][3]
           K == Being(P, IF r = "null" THEN P.s \cap NullOnes ELSE P.s \ NullOnes)
<1>2. PICK y, n : /\ t[1] = <<"onNull", y, n>>
                  /\ Runs(y, Being(P, P.s \cap NullOnes), R)
                  /\ Runs(n, Being(P, P.s \ NullOnes), R)
  <2>1. ~LeadsSimply(t[1], P, R)
    BY <1>1, NotSimple DEF Led
  <2>2. /\ \A cs : t[1] # <<"choose", cs>>
        /\ \A stop, body : t[1] # <<"while", stop, body, -1>>
    OBVIOUS
  <2>3. LeadsOn(t[1], P, R)
    BY <1>1 DEF Led
  <2> HIDE DEF P
  <2>4. QED
    BY <2>1, <2>2, <2>3, Zenon DEF LeadsOn
<1>3. y = t[1][2] /\ n = t[1][3]
  BY <1>2
<1>4. Runs(l, K, R)
  BY <1>2, <1>3
<1>5. SoundList(l)
  <2>1. Frame(t[1])
    BY <1>1, TopPlaces DEF Led
  <2>2. QED
    BY <2>1, FrameKinds
<1>6. p \in Nat
  BY <1>1, TopPlaces DEF Led
<1>7. r # "null" <=> Now(p, a[1].w, r) \notin NullOnes
  BY <1>1, <1>6, NowMoves DEF Led
<1>8. K.c = P.c /\ K.k = <<>> /\ Now(p, a[1].w, r) \in K.s
  BY <1>1, <1>7 DEF Being, Place, Led
<1>9. Meets(K.k, list, p)
  BY <1>8, MeetsNothing
<1> HIDE DEF l, K
<1>10. Sane(l \o Tail(t), list, p, r)
  BY <1>1, <1>4, <1>5, <1>8, <1>9, Remains DEF Led
<1>11. QED
  BY <1>10 DEF l

\* Operators climb from the operand that was parsed, and so does a conditional.
LEMMA ClimbLeads ==
    ASSUME NEW s, NEW P, NEW R, LeadsSimply(s, P, R), ~Unreached(P), s[1] = "climb",
           NEW c, c \notin Edges
    PROVE  /\ \A prec : Runs(<<Take, Expr(prec), <<"made">>>> \o <<s>>, Knowing(P, <<{c}>>), R)
           /\ \A left : Runs(Conditional(left), Knowing(P, <<{c}>>), R)
<1> DEFINE M == Knowing(P, <<>>)
           K == Knowing(P, <<{c}>>)
<1>1. PICK p : /\ s = <<"climb", p>> /\ R.k = <<>> /\ Keeps(P, R) /\ P.c = "shut"
               /\ P.s = Went /\ R.s = Went /\ "moved" \in P.r
  BY DEF LeadsSimply, Take, Error, Expect, Opt, Break, Return
<1>2. /\ M.k = <<>> /\ M.c = P.c /\ M.s = P.s /\ M.b = P.b /\ M.r = P.r
      /\ Knowing(M, <<{c}>>) = K
  BY DEF Knowing, Place
<1>3. Keeps(P, R) /\ Keeps(M, R) /\ Keeps(M, M) /\ Moves(M, M)
  BY <1>1, <1>2 DEF Keeps, Alike, Moves, Went, Onward
<1>4. Leads(Take, K, M)
  <2>1. IsList(<<{c}>>) /\ <<{c}>> # <<>> /\ <<{c}>>[1] \cap Edges = {}
    <3>1. <<{c}>> \in Seq({{c}})
      OBVIOUS
    <3>2. QED
      BY <3>1 DEF IsList
  <2>2. Leads(Take, Knowing(M, <<{c}>>), M)
    BY <1>3, <2>1, MovingSteps
  <2>3. QED
    BY <1>2, <2>2
<1>5. ASSUME NEW prec PROVE Leads(Expr(prec), M, M)
  <2>1. "parseExpression" \in Pairing /\ Known("parseExpression") = <<>>
        /\ Outcomes("parseExpression") = Went
    BY DEF Pairing, Functions, Known, Outcomes
  <2>2. CallLeads("parseExpression", M, M)
    BY <1>1, <1>2, <1>3, <2>1 DEF CallLeads, Called, Went, Onward
  <2>3. LeadsSimply(Expr(prec), M, M)
    BY <2>2 DEF LeadsSimply, Expr
  <2>4. QED
    BY <2>3, SimplyLeads
<1>6. Leads(<<"made">>, M, M)
  <2>1. LeadsSimply(<<"made">>, M, M)
    BY <1>1, <1>2, <1>3 DEF LeadsSimply, NotNull, Went
  <2>2. QED
    BY <2>1, SimplyLeads
<1>7. Leads(s, M, R)
  <2>1. LeadsSimply(s, M, R)
    BY <1>1, <1>2, <1>3 DEF LeadsSimply
  <2>2. QED
    BY <2>1, SimplyLeads
<1>8. ASSUME NEW left PROVE Leads(<<"must", "ELSE", left>>, M, M)
  BY <1>3, MovingSteps DEF Edges
<1>9. Leads(Node, M, R)
  <2>1. ReturnLeads("node", M, R)
    BY <1>1, <1>2, <1>3 DEF ReturnLeads, Returned, NotNull, Went
  <2>2. LeadsSimply(Node, M, R)
    BY <2>1 DEF LeadsSimply, Node
  <2>3. QED
    BY <2>2, SimplyLeads
<1> HIDE DEF M, K
<1>10. ASSUME NEW prec PROVE Runs(<<Take, Expr(prec), <<"made">>>> \o <<s>>, K, R)
  <2>1. Runs(<<Take, Expr(prec), <<"made">>>>, K, M)
    BY <1>4, <1>5, <1>6, RunsTuples
  <2>2. Runs(<<s>>, M, R)
    BY <1>7, RunsTuples
  <2>3. QED
    BY <2>1, <2>2, RunsJoin
<1>11. ASSUME NEW left PROVE Runs(Conditional(left), K, R)
  <2>1. Leads(Expr(P_OR), M, M) /\ Leads(<<"must", "ELSE", left>>, M, M) /\ Leads(Expr(P_NONE), M, M)
    BY <1>5, <1>8
  <2>2. QED
    BY <1>4, <1>9, <2>1, RunsLongTuples DEF Conditional
<1>12. QED
  BY <1>10, <1>11 DEF K

LEMMA Climbs ==
    ASSUME NEW t, NEW list, NEW p, NEW r, Ready(t, list, p), Sane(t, list, p, r),
           t[1][1] = "climb"
    PROVE  /\ Sane(Tail(t), list, p, r)
           /\ Nth(list, p) \notin Edges =>
                 /\ \A prec : SoundList(<<Take, Expr(prec), <<"made">>>> \o <<t[1]>>) =>
                       Sane((<<Take, Expr(prec), <<"made">>>> \o <<t[1]>>) \o Tail(t), list, p, r)
                 /\ \A left : Sane(Conditional(left) \o Tail(t), list, p, r)
<1>1. PICK a, R : Led(t, list, p, r, a, R)
  BY TopLeads
<1> DEFINE P == a[1].p
           c == Nth(list, p)
           K == Knowing(P, <<{c}>>)
<1>2. R.k = <<>> /\ Keeps(P, R) /\ P.s = Went /\ R.s = Went
  BY <1>1, KindsLead DEF Led
<1>3. LeadsSimply(t[1], P, R) /\ ~Unreached(P)
  <2>1. /\ \A cs : t[1] # <<"choose", cs>>
        /\ \A y, n : t[1] # <<"onNull", y, n>>
        /\ \A stop, body : t[1] # <<"while", stop, body, -1>>
    OBVIOUS
  <2>2. LeadsOn(t[1], P, R) /\ ~Unreached(P)
    BY <1>1 DEF Led
  <2> HIDE DEF P
  <2>3. QED
    BY <2>1, <2>2, Zenon DEF LeadsOn
<1>4. Sane(Tail(t), list, p, r)
  <2>1. R.c = P.c /\ Now(p, a[1].w, r) \in R.s /\ Meets(R.k, list, p)
    BY <1>1, <1>2, MeetsNothing DEF Led, Keeps
  <2>2. QED
    BY <1>1, <2>1, JustGoes DEF Led
<1>5. ASSUME NEW l, SoundList(l), Runs(l, K, R) PROVE Sane(l \o Tail(t), list, p, r)
  <2>1. K.c = P.c /\ K.s = P.s /\ K.k = <<{c}>>
    BY DEF Knowing, Place
  <2>2. Meets(K.k, list, p)
    <3>1. p \in Nat
      BY <1>1, TopPlaces DEF Led
    <3>2. DOMAIN <<{c}>> = {1} /\ p + 1 - 1 = p /\ <<{c}>>[1] = {Nth(list, p)}
      BY <3>1
    <3>3. \A i \in DOMAIN <<{c}>> : i = 1
      BY <3>2
    <3> HIDE DEF c
    <3>4. Meets(<<{c}>>, list, p)
      BY <3>2, <3>3 DEF Meets
    <3>5. QED
      BY <2>1, <3>4
  <2>3. Now(p, a[1].w, r) \in K.s
    BY <1>1, <2>1 DEF Led
  <2> HIDE DEF K
  <2>4. QED
    BY <1>1, <1>5, <2>1, <2>2, <2>3, Remains DEF Led
<1> HIDE DEF c
<1>6. ASSUME c \notin Edges, NEW prec, SoundList(<<Take, Expr(prec), <<"made">>>> \o <<t[1]>>)
      PROVE  Sane((<<Take, Expr(prec), <<"made">>>> \o <<t[1]>>) \o Tail(t), list, p, r)
  <2>1. Runs(<<Take, Expr(prec), <<"made">>>> \o <<t[1]>>, K, R)
    BY <1>3, <1>6, ClimbLeads
  <2> DEFINE l == <<Take, Expr(prec), <<"made">>>> \o <<t[1]>>
  <2>2. SoundList(l) /\ Runs(l, K, R)
    BY <1>6, <2>1
  <2> HIDE DEF l
  <2>3. Sane(l \o Tail(t), list, p, r)
    BY <1>5, <2>2
  <2>4. QED
    BY <2>3 DEF l
<1>7. ASSUME c \notin Edges, NEW left PROVE Sane(Conditional(left) \o Tail(t), list, p, r)
  <2>1. Runs(Conditional(left), K, R)
    BY <1>3, <1>7, ClimbLeads
  <2>2. SoundList(Conditional(left))
    BY ExpressionSound
  <2>3. QED
    BY <1>5, <2>1, <2>2
<1>8. QED
  BY <1>4, <1>6, <1>7 DEF c

\* The parser's state, seen from its variables.
LEMMA Looks ==
    /\ \A i : Token(i) = Nth(tokens, i)
    /\ Current = Nth(tokens, pos)
    /\ \A k : Fits(k) <=> Meets(k, tokens, pos)
  BY DEF Token, Nth, Current, Fits, Meets

InSilence == ParserInv /\ Paired(tokens) /\ Sane(todo, tokens, pos, ret)

LEMMA Prepared ==
    ASSUME InSilence, NEW op, At(op)
    PROVE  /\ Ready(todo, tokens, pos) /\ Sane(todo, tokens, pos, ret) /\ todo[1][1] = op
           /\ todo # <<>> /\ Stack(todo, pos, Current) /\ Frame(todo[1])
           /\ pos \in Nat /\ Current = Nth(tokens, pos) /\ Step = todo[1] /\ Rest = Tail(todo)
<1>1. Stack(todo, pos, Current) /\ todo # <<>> /\ todo[1][1] = op /\ pos \in Nat /\ Frame(todo[1])
  BY AtTop DEF InSilence
<1>2. Current = Nth(tokens, pos)
  BY Looks
<1>3. Ready(todo, tokens, pos)
  BY <1>1, <1>2 DEF Ready, InSilence
<1>4. QED
  BY <1>1, <1>2, <1>3 DEF InSilence, Step, Rest

\* The first end on the stack.
LEMMA FirstEnd ==
    ASSUME InSilence, NEW op, At(op), op \notin {"call", "while"}
    PROVE  /\ FirstAt("end") \in DOMAIN todo /\ todo[FirstAt("end")][1] = "end"
           /\ \A i \in DOMAIN todo : i < FirstAt("end") => todo[i][1] # "end"
<1>1. Stack(todo, pos, Current) /\ todo # <<>> /\ todo[1][1] = op
  BY Prepared
<1>2. Len(todo) - 1 \in DOMAIN todo /\ todo[Len(todo) - 1][1] = "end"
  BY <1>1, EndThere
<1>3. QED
  BY <1>2, FirstInStack DEF InSilence

\* What is silent stays paired.
StaysSane == Sane(todo', tokens, pos', ret')

LEMMA TakeStays == ASSUME InSilence, DoTake PROVE StaysSane
<1>1. At("take") /\ todo' = Rest /\ pos' = pos + 1 /\ ret' = ret
  BY DEF DoTake, Consume, Go
<1>2. Sane(Tail(todo), tokens, pos + 1, ret)
  BY <1>1, Prepared, Takes
<1>3. QED
  BY <1>1, <1>2 DEF StaysSane, Rest

LEMMA ExpectStays == ASSUME InSilence, DoExpect, ~reported' PROVE StaysSane
<1>1. todo' = Tail(todo) /\ ret' = ret
  BY DEF DoExpect, Go, Rest
<1>2. CASE Current = Step[2]
  <2>1. pos' = pos + 1
    BY <1>2 DEF DoExpect, Consume
  <2>2. PICK op \in {"expect", "opt"} : At(op)
    BY DEF DoExpect
  <2>3. Nth(tokens, pos) = todo[1][2]
    BY <1>2, <2>2, Prepared
  <2>4. Sane(Tail(todo), tokens, pos + 1, ret)
    BY <2>2, <2>3, Prepared, Wants
  <2>5. QED
    BY <1>1, <2>1, <2>4 DEF StaysSane
<1>3. CASE Current # Step[2]
  <2>1. At("opt") /\ pos' = pos
    BY <1>3 DEF DoExpect, Report
  <2>2. Sane(Tail(todo), tokens, pos, ret)
    BY <2>1, Prepared, WantsNot
  <2>3. QED
    BY <1>1, <2>1, <2>2 DEF StaysSane
<1>4. QED
  BY <1>2, <1>3

LEMMA MustStays == ASSUME InSilence, DoMust, ~reported' PROVE StaysSane
<1>1. At("must") /\ Current = Step[2] /\ todo' = Rest /\ ret' = ret /\ pos' = pos + 1
  BY DEF DoMust, Go, Consume, Report
<1>2. Sane(Tail(todo), tokens, pos + 1, ret)
  BY <1>1, Prepared, Wants
<1>3. QED
  BY <1>1, <1>2 DEF StaysSane, Rest

LEMMA InterpolateStays == ASSUME InSilence, Interpolate PROVE StaysSane
<1>1. At("interpolate") /\ todo' = Rest /\ ret' = ret /\ pos' = pos + 1
  BY DEF Interpolate, Go, Consume
<1>2. Sane(Tail(todo), tokens, pos + 1, ret)
  BY <1>1, Prepared, Interpolates
<1>3. QED
  BY <1>1, <1>2 DEF StaysSane, Rest

\* The first case that fits.
LEMMA FirstFit ==
    ASSUME NEW cs, IsList(cs)
    PROVE  LET i == SelectInSeq(cs, LAMBDA c : Fits(c[1]))
           IN  \/ i = 0 /\ \A j \in DOMAIN cs : ~Fits(cs[j][1])
               \/ i # 0 /\ i \in DOMAIN cs /\ Fits(cs[i][1])
<1> DEFINE i == SelectInSeq(cs, LAMBDA c : Fits(c[1]))
           I == {j \in 1..Len(cs) : Fits(cs[j][1])}
<1>1. DOMAIN cs = 1..Len(cs) /\ Len(cs) \in Nat
  BY LenProperties DEF IsList
<1>2. CASE I = {}
  <2>1. i = 0
    BY <1>2 DEF SelectInSeq
  <2>2. QED
    BY <1>1, <1>2, <2>1
<1>3. CASE I # {}
  <2>1. i = CHOOSE x \in I : \A y \in I : x <= y
    BY <1>3 DEF SelectInSeq, Min
  <2>2. I \subseteq Nat
    OBVIOUS
  <2>3. I \subseteq 1..Len(cs) /\ \A j \in I : Fits(cs[j][1])
    OBVIOUS
  <2> HIDE DEF I, i
  <2>4. \E x \in I : \A y \in I : x <= y
    BY <1>3, <2>2, LeastElement
  <2>5. i \in I
    BY <2>1, <2>4
  <2>6. i \in 1..Len(cs) /\ Fits(cs[i][1])
    BY <2>3, <2>5
  <2>7. i # 0
    BY <1>1, <2>6
  <2>8. QED
    BY <1>1, <2>6, <2>7 DEF i
<1>4. QED
  BY <1>2, <1>3

LEMMA BranchStays == ASSUME InSilence, Branch PROVE StaysSane
<1> DEFINE i == SelectInSeq(Step[2], LAMBDA c : Fits(c[1]))
<1>1. At("choose") /\ pos' = pos /\ ret' = ret
      /\ todo' = IF i = 0 THEN Rest ELSE Step[2][i][2] \o Rest
  BY DEF Branch, Go
<1>2. IsList(Step[2])
  BY <1>1, Prepared, FrameKinds
<1>3. \/ i = 0 /\ \A j \in DOMAIN Step[2] : ~Fits(Step[2][j][1])
      \/ i # 0 /\ i \in DOMAIN Step[2] /\ Fits(Step[2][i][1])
  BY <1>2, FirstFit
<1> HIDE DEF i
<1>4. /\ Ready(todo, tokens, pos) /\ Sane(todo, tokens, pos, ret) /\ todo[1][1] = "choose"
      /\ Step = todo[1] /\ Rest = Tail(todo)
  BY <1>1, Prepared
<1>5. CASE i = 0
  <2>1. \A j \in DOMAIN todo[1][2] : ~Meets(todo[1][2][j][1], tokens, pos)
    BY <1>3, <1>4, <1>5, Looks
  <2>2. Sane(Tail(todo), tokens, pos, ret)
    BY <1>4, <2>1, Branches
  <2>3. QED
    BY <1>1, <1>4, <1>5, <2>2 DEF StaysSane
<1>6. CASE i # 0
  <2>1. i \in DOMAIN todo[1][2] /\ Meets(todo[1][2][i][1], tokens, pos)
    BY <1>3, <1>4, <1>6, Looks
  <2>2. Sane(todo[1][2][i][2] \o Tail(todo), tokens, pos, ret)
    BY <1>4, <2>1, Branches
  <2>3. QED
    BY <1>1, <1>4, <1>6, <2>2 DEF StaysSane
<1>7. QED
  BY <1>5, <1>6

LEMMA OnNullStays == ASSUME InSilence, BranchOnNull PROVE StaysSane
<1>1. At("onNull") /\ pos' = pos /\ ret' = ret
      /\ todo' = (IF ret = "null" THEN Step[2] ELSE Step[3]) \o Rest
  BY DEF BranchOnNull, Go
<1>2. Sane((IF ret = "null" THEN todo[1][2] ELSE todo[1][3]) \o Tail(todo), tokens, pos, ret)
  BY <1>1, Prepared, BranchesOnNull
<1>3. QED
  BY <1>1, <1>2 DEF StaysSane, Step, Rest

LEMMA LoopStays == ASSUME InSilence, Loop PROVE StaysSane
<1>1. At("while") /\ pos' = pos /\ ret' = ret
  BY DEF Loop
<1>2. /\ Ready(todo, tokens, pos) /\ Sane(todo, tokens, pos, ret) /\ todo[1][1] = "while"
      /\ Step = todo[1] /\ Rest = Tail(todo) /\ Frame(todo[1]) /\ Current = Nth(tokens, pos)
  BY <1>1, Prepared
<1>3. CASE Current \in Step[2] \cup Eof
  <2>1. todo' = Tail(todo)
    BY <1>2, <1>3 DEF Loop, Go
  <2>2. Sane(Tail(todo), tokens, pos, ret)
    BY <1>2, <1>3, LoopStops
  <2>3. QED
    BY <1>1, <2>1, <2>2 DEF StaysSane
<1>4. CASE Current \notin Step[2] \cup Eof
  <2> DEFINE s == todo[1]
             b == todo[1][2]
             c == todo[1][3]
             m == todo[1][4]
  <2>1. todo' = Step[3] \o <<[Step EXCEPT ![4] = pos]>> \o Rest
    BY <1>4 DEF Loop, Go
  <2>2. s = <<"while", b, c, m>>
    BY <1>2, FrameKinds
  <2>3. [<<"while", b, c, m>> EXCEPT ![4] = pos] = <<"while", b, c, pos>>
    OBVIOUS
  <2>4. [s EXCEPT ![4] = pos] = <<"while", b, c, pos>>
    BY <2>2, <2>3
  <2>5. todo' = (c \o <<<<"while", b, c, pos>>>>) \o Tail(todo)
    BY <1>2, <2>1, <2>4
  <2>6. Sane((c \o <<<<"while", b, c, pos>>>>) \o Tail(todo), tokens, pos, ret)
    BY <1>2, LoopTurns
  <2>7. QED
    BY <1>1, <2>5, <2>6 DEF StaysSane
<1>5. QED
  BY <1>3, <1>4

LEMMA LeaveStays == ASSUME InSilence, LeaveLoop PROVE StaysSane
<1> DEFINE n == FirstAt("while")
<1>1. At("break") /\ pos' = pos /\ ret' = ret /\ todo' = SubSeq(todo, n + 1, Len(todo))
  BY DEF LeaveLoop, Go, Behind
<1>2. /\ Ready(todo, tokens, pos) /\ Sane(todo, tokens, pos, ret) /\ todo[1][1] = "break"
      /\ Stack(todo, pos, Current) /\ todo # <<>>
  BY <1>1, Prepared
<1>3. Len(todo) \in DOMAIN todo /\ todo[Len(todo)][1] = "while"
  <2>1. Len(todo) \in Nat /\ Len(todo) >= 1 /\ DOMAIN todo = 1..Len(todo)
    BY <1>2, StackTop
  <2>2. QED
    BY <1>2, <2>1 DEF Stack, Bottom, Guarded
<1>4. n \in DOMAIN todo /\ todo[n][1] = "while" /\ \A i \in DOMAIN todo : i < n => todo[i][1] # "while"
  BY <1>3, FirstInStack DEF InSilence
<1> HIDE DEF n
<1>5. Sane(SubSeq(todo, n + 1, Len(todo)), tokens, pos, ret)
  BY <1>2, <1>4, Breaks
<1>6. QED
  BY <1>1, <1>5 DEF StaysSane

LEMMA EnterStays == ASSUME InSilence, Enter PROVE StaysSane
<1>1. At("call") /\ pos' = pos /\ ret' = ret
      /\ todo' = (Steps(todo[1][2], todo[1][3]) \o <<<<"end", pos>>>>) \o Tail(todo)
  BY DEF Enter, Go, Step, Rest
<1>2. Sane((Steps(todo[1][2], todo[1][3]) \o <<<<"end", pos>>>>) \o Tail(todo), tokens, pos, ret)
  BY <1>1, Prepared, Enters
<1>3. QED
  BY <1>1, <1>2 DEF StaysSane

LEMMA ReturnStays == ASSUME InSilence, DoReturn PROVE StaysSane
<1> DEFINE n == FirstAt("end")
           x == todo[1][2]
<1>1. At("return")
  BY DEF DoReturn
<1>2. /\ todo' = SubSeq(todo, n + 1, Len(todo))
      /\ ret' = CASE x = "same" -> ret [] x = "rewind" -> "null" [] OTHER -> x
      /\ pos' = IF x = "rewind" THEN todo[n][2] ELSE pos
  BY DEF DoReturn, ReturnFrom, Go, Behind, Saved, Step
<1>3. n \in DOMAIN todo /\ todo[n][1] = "end" /\ \A i \in DOMAIN todo : i < n => todo[i][1] # "end"
  BY <1>1, FirstEnd
<1>4. Ready(todo, tokens, pos) /\ Sane(todo, tokens, pos, ret) /\ todo[1][1] = "return"
  BY <1>1, Prepared
<1> HIDE DEF n
<1>5. Sane(SubSeq(todo, n + 1, Len(todo)), tokens, IF x = "rewind" THEN todo[n][2] ELSE pos,
           CASE x = "same" -> ret [] x = "rewind" -> "null" [] OTHER -> x)
  BY <1>3, <1>4, Returns
<1>6. QED
  BY <1>2, <1>5 DEF StaysSane

LEMMA EndStays == ASSUME InSilence, End PROVE StaysSane
<1>1. At("end") /\ pos' = pos /\ ret' = ret /\ todo' = Tail(todo)
  BY DEF End, Go, Rest
<1>2. Sane(Tail(todo), tokens, pos, ret)
  BY <1>1, Prepared, EndsHere
<1>3. QED
  BY <1>1, <1>2 DEF StaysSane

LEMMA ClimbStays == ASSUME InSilence, Climb PROVE StaysSane
<1> DEFINE prec == precedenceFor(Current)
           l == <<Take, Expr(prec + 1), <<"made">>>>
<1>1. At("climb") /\ pos' = pos /\ ret' = ret
  BY DEF Climb
<1>2. /\ Ready(todo, tokens, pos) /\ Sane(todo, tokens, pos, ret) /\ todo[1][1] = "climb"
      /\ Rest = Tail(todo) /\ Frame(todo[1]) /\ Current = Nth(tokens, pos) /\ todo # <<>>
      /\ Stack(todo, pos, Current)
  BY <1>1, Prepared
<1>3. \/ prec > P_NONE /\ todo' = l \o todo
      \/ Current = "IF" /\ todo' = Conditional(ret) \o Rest
      \/ todo' = Rest
  BY DEF Climb, Go
<1>4. prec > P_NONE \/ Current = "IF" => Current \notin Edges
  <2>1. \A c \in Edges : precedenceFor(c) = P_NONE
    BY DEF precedenceFor, Edges
  <2>2. ~(P_NONE > P_NONE)
    BY DEF P_NONE
  <2>3. "IF" \notin Edges
    BY DEF Edges
  <2>4. QED
    BY <2>1, <2>2, <2>3
<1>5. CASE prec > P_NONE /\ todo' = l \o todo
  <2>1. SoundList(l)
    BY ExpressionSound
  <2>2. Sound(todo[1])
    BY <1>2 DEF Frame
  <2>3. SoundList(<<todo[1]>>)
    BY <2>2, SoundTuples
  <2>4. SoundList(l \o <<todo[1]>>)
    BY <2>1, <2>3, SoundJoin
  <2>5. PICK S, T : l \in Seq(S) /\ todo \in Seq(T)
    BY <1>2, <2>1 DEF SoundList, Stack
  <2> DEFINE U == S \cup T
  <2>6. l \in Seq(U) /\ todo \in Seq(U)
    BY <2>5, SeqGrows
  <2> HIDE DEF U, prec
  <2>7. Sane((l \o <<todo[1]>>) \o Tail(todo), tokens, pos, ret)
    BY <1>2, <1>4, <1>5, <2>4, Climbs
  <2> HIDE DEF l
  <2>8. l \o todo = (l \o <<todo[1]>>) \o Tail(todo)
    BY <1>2, <2>6, InFront
  <2>9. QED
    BY <1>1, <1>5, <2>7, <2>8 DEF StaysSane
<1>6. CASE Current = "IF" /\ todo' = Conditional(ret) \o Rest
  <2>1. Sane(Conditional(ret) \o Tail(todo), tokens, pos, ret)
    BY <1>2, <1>4, <1>6, Climbs
  <2>2. QED
    BY <1>1, <1>2, <1>6, <2>1 DEF StaysSane
<1>7. CASE todo' = Rest
  <2>1. Sane(Tail(todo), tokens, pos, ret)
    BY <1>2, Climbs
  <2>2. QED
    BY <1>1, <1>2, <1>7, <2>1 DEF StaysSane
<1>8. QED
  BY <1>3, <1>5, <1>6, <1>7

LEMMA MadeStays == ASSUME InSilence, Made PROVE StaysSane
<1>1. At("made") /\ pos' = pos /\ ret' = "node" /\ todo' = Tail(todo)
  BY DEF Made, Go, Rest
<1>2. Sane(Tail(todo), tokens, pos, "node")
  BY <1>1, Prepared, Makes
<1>3. QED
  BY <1>1, <1>2 DEF StaysSane

LEMMA KeepStays == ASSUME InSilence, Keep PROVE StaysSane
<1>1. At("keep") /\ pos' = pos /\ ret' = ret /\ todo' = Tail(todo)
  BY DEF Keep, Go, Rest
<1>2. Sane(Tail(todo), tokens, pos, ret)
  BY <1>1, Prepared, Overlooks
<1>3. QED
  BY <1>1, <1>2 DEF StaysSane

LEMMA RecoverStays == ASSUME InSilence, Recover PROVE StaysSane
<1> DEFINE n == FirstAt("end")
<1>1. At("stalled") /\ pos' = pos /\ ret' = ret
  BY DEF Recover
<1>2. Ready(todo, tokens, pos) /\ Sane(todo, tokens, pos, ret) /\ todo[1][1] = "stalled"
  BY <1>1, Prepared
<1>3. n \in DOMAIN todo /\ todo[n][1] = "end" /\ \A i \in DOMAIN todo : i < n => todo[i][1] # "end"
  BY <1>1, FirstEnd
<1> HIDE DEF n
<1>4. pos # todo[n][2] /\ (todo[1][2] => ret # "null")
  BY <1>2, <1>3, Advances
<1>5. ~(pos = Saved \/ (Step[2] /\ ret = "null"))
  BY <1>4 DEF Saved, Step, n
<1>6. todo' = Tail(todo)
  BY <1>5 DEF Recover, Go, Rest
<1>7. Sane(Tail(todo), tokens, pos, ret)
  BY <1>2, Overlooks
<1>8. QED
  BY <1>1, <1>6, <1>7 DEF StaysSane

\* There is no recovery and no crash in silence.
LEMMA NoRecovery ==
    ASSUME InSilence, NEW op \in {"sync", "nudge", "crash"}
    PROVE  ~At(op)
<1> SUFFICES ASSUME At(op) PROVE FALSE
  OBVIOUS
<1>1. Ready(todo, tokens, pos) /\ Sane(todo, tokens, pos, ret) /\ todo[1][1] = op
  BY Prepared
<1>2. PICK a, R : Led(todo, tokens, pos, ret, a, R)
  BY <1>1, TopLeads
<1>3. QED
  BY <1>1, <1>2, KindsLead DEF Led

LEMMA SilentStep ==
    ASSUME InSilence, Next, ~reported'
    PROVE  StaysSane
<1>1. ~DoError
  BY DEF DoError, Report
<1>2. ~Synchronize /\ ~Nudge
  BY NoRecovery DEF Synchronize, Nudge
<1>3. ~Crash
  BY NoRecovery DEF Crash
<1>4. QED
  BY <1>1, <1>2, <1>3, TakeStays, ExpectStays, MustStays, InterpolateStays, BranchStays, OnNullStays,
     LoopStays, LeaveStays, EnterStays, ReturnStays, EndStays, ClimbStays, MadeStays, KeepStays,
     RecoverStays DEF Next

\* The tokens stay what they are, and what is reported stays reported.
LEMMA StepKeeps == Next => tokens' = tokens /\ (reported => reported')
<1> DEFINE Kind == tokens' = tokens /\ (reported => reported')
<1>1. DoTake => Kind
  BY DEF DoTake
<1>2. DoExpect => Kind
  BY DEF DoExpect, Report
<1>3. (DoMust => Kind) /\ (DoError => Kind)
  BY DEF DoMust, DoError, Report
<1>4. Interpolate => Kind
  BY DEF Interpolate
<1>5. (Branch => Kind) /\ (BranchOnNull => Kind)
  BY DEF Branch, BranchOnNull
<1>6. (Loop => Kind) /\ (LeaveLoop => Kind)
  BY DEF Loop, LeaveLoop
<1>7. (Enter => Kind) /\ (DoReturn => Kind) /\ (End => Kind)
  BY DEF Enter, DoReturn, End
<1>8. (Climb => Kind) /\ (Made => Kind) /\ (Keep => Kind)
  BY DEF Climb, Made, Keep
<1>9. (Recover => Kind) /\ (Synchronize => Kind) /\ (Nudge => Kind) /\ (Crash => Kind)
  BY DEF Recover, Synchronize, Nudge, Crash
<1> HIDE DEF Kind
<1>10. Next => Kind
  BY <1>1, <1>2, <1>3, <1>4, <1>5, <1>6, <1>7, <1>8, <1>9 DEF Next
<1>11. QED
  BY <1>10 DEF Kind

----------------------------------------------------------------------------
\* The lexemes of a type among the first n of a list, counted one by one.
OfType(list, t, n) == {i \in 1..n : list[i].type = t}

LEMMA TypeCounts ==
    ASSUME NEW list, NEW t
    PROVE  /\ Cardinality(OfType(list, t, 0)) = 0
           /\ \A n \in Nat :
                 /\ Cardinality(OfType(list, t, n)) \in Nat
                 /\ list[n + 1].type = t
                       => Cardinality(OfType(list, t, n + 1)) = Cardinality(OfType(list, t, n)) + 1
                 /\ list[n + 1].type # t
                       => Cardinality(OfType(list, t, n + 1)) = Cardinality(OfType(list, t, n))
<1>1. OfType(list, t, 0) = {}
  BY DEF OfType
<1>2. ASSUME NEW n \in Nat
      PROVE  /\ Cardinality(OfType(list, t, n)) \in Nat
             /\ list[n + 1].type = t
                   => Cardinality(OfType(list, t, n + 1)) = Cardinality(OfType(list, t, n)) + 1
             /\ list[n + 1].type # t
                   => Cardinality(OfType(list, t, n + 1)) = Cardinality(OfType(list, t, n))
  <2> DEFINE A == OfType(list, t, n)
             B == OfType(list, t, n + 1)
  <2>1. IsFiniteSet(1..n) /\ A \subseteq 1..n /\ n + 1 \notin A
    BY FS_Interval DEF OfType
  <2>2. B = IF list[n + 1].type = t THEN A \cup {n + 1} ELSE A
    BY DEF OfType
  <2> HIDE DEF A, B
  <2>3. IsFiniteSet(A) /\ Cardinality(A) \in Nat
    BY <2>1, FS_Subset, FS_CardinalityType
  <2>4. Cardinality(A \cup {n + 1}) = Cardinality(A) + 1
    BY <2>1, <2>3, FS_AddElement
  <2>5. QED
    BY <2>2, <2>3, <2>4 DEF A, B
<1>3. QED
  BY <1>1, <1>2, FS_EmptySet

\* What the parser keeps: lexemes, and of each type but comments all of them.
KeepsOf(list, n) ==
    /\ \A i \in 1 .. Len(list) : \E k \in 1..n : list[i] = lexemes[k]
    /\ \A t : t # "COMMENT" =>
          Cardinality(OfType(list, t, Len(list))) = Cardinality(OfType(lexemes, t, n))

LEMMA KeptOne ==
    ASSUME NEW S, lexemes \in Seq(S), NEW n \in 1 .. Len(lexemes), NEW g \in Seq(S), KeepsOf(g, n - 1)
    PROVE  /\ lexemes[n].type = "COMMENT" => KeepsOf(g, n)
           /\ lexemes[n].type # "COMMENT" => KeepsOf(Append(g, lexemes[n]), n)
<1> DEFINE m == n - 1
<1>1. n \in Nat /\ m \in Nat /\ m + 1 = n /\ 1..m \subseteq 1..n /\ n \in 1..n
  OBVIOUS
<1>2. \A t : /\ Cardinality(OfType(lexemes, t, m)) \in Nat
             /\ lexemes[n].type = t
                   => Cardinality(OfType(lexemes, t, n)) = Cardinality(OfType(lexemes, t, m)) + 1
             /\ lexemes[n].type # t
                   => Cardinality(OfType(lexemes, t, n)) = Cardinality(OfType(lexemes, t, m))
  <2> HIDE DEF m
  <2>1. ASSUME NEW t
        PROVE  /\ Cardinality(OfType(lexemes, t, m)) \in Nat
               /\ lexemes[m + 1].type = t
                     => Cardinality(OfType(lexemes, t, m + 1)) = Cardinality(OfType(lexemes, t, m)) + 1
               /\ lexemes[m + 1].type # t
                     => Cardinality(OfType(lexemes, t, m + 1)) = Cardinality(OfType(lexemes, t, m))
    BY <1>1, TypeCounts
  <2>2. QED
    BY <1>1, <2>1
<1>3. KeepsOf(g, m)
  OBVIOUS
<1> HIDE DEF m
<1>4. CASE lexemes[n].type = "COMMENT"
  BY <1>1, <1>2, <1>3, <1>4 DEF KeepsOf
<1>5. CASE lexemes[n].type # "COMMENT"
  <2> DEFINE e == lexemes[n]
             h == Append(g, e)
             l == Len(g)
  <2>1. l \in Nat /\ e \in S
    BY LenProperties
  <2>2. Len(h) = l + 1 /\ h[l + 1] = e /\ \A i \in 1..l : h[i] = g[i]
    BY <2>1, AppendProperties
  <2> HIDE DEF e, h
  <2>3. \A i \in 1 .. l + 1 : i \in 1..l \/ i = l + 1
    BY <2>1
  <2>4. \A i \in 1 .. Len(h) : \E k \in 1..n : h[i] = lexemes[k]
    BY <1>1, <1>3, <2>2, <2>3 DEF KeepsOf, e
  <2>5. ASSUME NEW t, t # "COMMENT"
        PROVE  Cardinality(OfType(h, t, Len(h))) = Cardinality(OfType(lexemes, t, n))
    <3>1. OfType(h, t, l) = OfType(g, t, l)
      BY <2>2 DEF OfType
    <3> HIDE DEF l
    <3>2. /\ h[l + 1].type = t
                => Cardinality(OfType(h, t, l + 1)) = Cardinality(OfType(h, t, l)) + 1
          /\ h[l + 1].type # t
                => Cardinality(OfType(h, t, l + 1)) = Cardinality(OfType(h, t, l))
      BY <2>1, TypeCounts
    <3>3. Cardinality(OfType(g, t, l)) = Cardinality(OfType(lexemes, t, m))
      BY <1>3, <2>5 DEF KeepsOf, l
    <3>4. QED
      BY <1>2, <2>2, <3>1, <3>2, <3>3 DEF e
  <2>6. KeepsOf(h, n)
    BY <2>4, <2>5 DEF KeepsOf
  <2>7. QED
    BY <1>5, <2>6 DEF h, e
<1>6. QED
  BY <1>4, <1>5

LEMMA KeptAre ==
    ASSUME NEW S, lexemes \in Seq(S)
    PROVE  Kept \in Seq(S) /\ KeepsOf(Kept, Len(lexemes))
<1> DEFINE N == Len(lexemes)
           Body(f) == [n \in 0 .. N |-> IF n = 0 THEN <<>>
                                        ELSE IF lexemes[n].type = "COMMENT" THEN f[n - 1]
                                        ELSE Append(f[n - 1], lexemes[n])]
           kept == CHOOSE f : f = Body(f)
           G == [p \in (1..N) \X Seq(S) |->
                    IF lexemes[p[1]].type = "COMMENT" THEN p[2] ELSE Append(p[2], lexemes[p[1]])]
<1>1. N \in Nat /\ <<>> \in Seq(S) /\ \A i \in 1..N : lexemes[i] \in S
  BY LenProperties
<1>2. G \in [(1..N) \X Seq(S) -> Seq(S)]
  <2>1. ASSUME NEW p \in (1..N) \X Seq(S)
        PROVE  (IF lexemes[p[1]].type = "COMMENT" THEN p[2] ELSE Append(p[2], lexemes[p[1]])) \in Seq(S)
    <3>1. p[1] \in 1..N /\ p[2] \in Seq(S) /\ lexemes[p[1]] \in S
      BY <1>1
    <3>2. Append(p[2], lexemes[p[1]]) \in Seq(S)
      BY <3>1, AppendProperties
    <3>3. QED
      BY <3>1, <3>2
  <2>2. QED
    BY <2>1
<1>3. \A i \in 1..N, x \in Seq(S) :
         G[<<i, x>>] = IF lexemes[i].type = "COMMENT" THEN x ELSE Append(x, lexemes[i])
  OBVIOUS
<1> HIDE DEF G
<1>4. Iterates(N, Seq(S), <<>>, G)
  <2> HIDE DEF N
  <2>1. QED
    BY <1>1, <1>2, Iterated
<1>5. PICK f \in [0..N -> Seq(S)] : f[0] = <<>> /\ \A i \in 1..N : f[i] = G[<<i, f[i - 1]>>]
  BY <1>4 DEF Iterates
<1>6. \A i \in 1..N : f[i] = IF lexemes[i].type = "COMMENT" THEN f[i - 1] ELSE Append(f[i - 1], lexemes[i])
  <2>1. \A i \in 1..N : i - 1 \in 0..N /\ f[i - 1] \in Seq(S)
    BY <1>1, SMTT(60)
  <2>2. QED
    BY <1>3, <1>5, <2>1
<1>7. f = Body(f)
  <2>1. \A i \in 0..N : f[i] = IF i = 0 THEN <<>>
                               ELSE IF lexemes[i].type = "COMMENT" THEN f[i - 1]
                               ELSE Append(f[i - 1], lexemes[i])
    <3>1. \A i \in 0..N : i = 0 \/ i \in 1..N
      BY <1>1
    <3>2. QED
      BY <1>5, <1>6, <3>1
  <2>2. QED
    BY <2>1
<1>8. kept = Body(kept)
  <2> HIDE DEF Body
  <2>1. QED
    BY <1>7
<1>9. Kept = kept[N]
  BY DEF Kept
<1> DEFINE Good == {n \in Nat : kept[n] \in Seq(S) /\ KeepsOf(kept[n], n)}
<1> HIDE DEF kept, N
<1>10. kept[0] = <<>> /\ \A i \in 1..N : kept[i] =
          IF lexemes[i].type = "COMMENT" THEN kept[i - 1] ELSE Append(kept[i - 1], lexemes[i])
  <2>1. \A i \in 1..N : i \in 0..N /\ i # 0
    BY <1>1
  <2>2. 0 \in 0..N
    BY <1>1
  <2>3. QED
    BY <1>8, <2>1, <2>2
<1>11. 0 \in Good
  <2>1. Len(<<>>) = 0
    OBVIOUS
  <2>2. KeepsOf(<<>>, 0)
    BY <2>1, TypeCounts DEF KeepsOf
  <2>3. QED
    BY <1>1, <1>10, <2>2
<1>12. ASSUME NEW n \in 0 + 1 .. N, n - 1 \in Good PROVE n \in Good
  <2>1. kept[n - 1] \in Seq(S) /\ KeepsOf(kept[n - 1], n - 1) /\ n \in Nat /\ n \in 1..N
    BY <1>1, <1>12
  <2>2. /\ lexemes[n].type = "COMMENT" => KeepsOf(kept[n - 1], n)
        /\ lexemes[n].type # "COMMENT" => KeepsOf(Append(kept[n - 1], lexemes[n]), n)
    BY <2>1, KeptOne DEF N
  <2>3. Append(kept[n - 1], lexemes[n]) \in Seq(S)
    BY <1>1, <2>1, AppendProperties
  <2>4. QED
    BY <1>10, <2>1, <2>2, <2>3
<1>13. N \in Good
  <2> HIDE DEF Good
  <2>1. 0..N \subseteq Good
    BY <1>1, <1>11, <1>12, Along
  <2>2. QED
    BY <1>1, <2>1
<1>14. QED
  BY <1>9, <1>13 DEF N

(* The lexer's tokens *)

\* The type that no token of the lexer has.
Foreign == {"TOKEN_EOF"}
Pairs == {"LBRACE", "RBRACE"}
\* A turn of the lexer makes no token of a type of T.
Names(T) == lexemes' = lexemes \/ \E e : e.type \notin T /\ lexemes' = Append(lexemes, e)

LEMMA EmitNames ==
    ASSUME NEW T, NEW t, t \notin T, NEW from, NEW to, Emit(t, from, to)
    PROVE  Names(T)
<1> DEFINE e == [type |-> t, from |-> from, to |-> to, line |-> line']
<1>1. lexemes' = Append(lexemes, e)
  BY DEF Emit
<1>2. e.type = t
  OBVIOUS
<1> HIDE DEF e
<1>3. QED
  BY <1>1, <1>2 DEF Names

\* No double or single character makes one.
LEMMA OperatorTypes ==
    /\ \A d \in Doubles : d[3] \notin Foreign \cup Pairs
    /\ \A s \in Singles : s[2] \notin Foreign
<1>1. \A d \in Doubles : d[3] \notin Foreign \cup Pairs
  BY DEF Doubles, Foreign, Pairs
<1> DEFINE comma == ","
           semicolon == ";"
           left == "{"
           right == "}"
           Apart == {<<comma, "COMMA">>, <<semicolon, "SEMICOLON">>, <<left, "LBRACE">>, <<right, "RBRACE">>}
           Others ==
               {<<"*", "STAR">>, <<"/", "SLASH">>, <<"%", "MOD">>, <<"=", "EQUAL">>, <<"<", "LT">>,
                <<">", "GT">>, <<"!", "NOT">>, <<"+", "PLUS">>, <<"-", "MINUS">>, <<"&", "AMPERSAND">>,
                <<":", "COLON">>, <<"?", "QUESTION">>, <<"|", "PIPE">>, <<".", "DOT">>,
                <<"[", "LBRACKET">>, <<"]", "RBRACKET">>, <<"(", "LPAREN">>, <<")", "RPAREN">>, <<"@", "AT">>}
<1>2. Singles \subseteq Others \cup Apart
  BY Zenon DEF Singles
<1> HIDE DEF comma, semicolon, left, right
<1>3. (\A s \in Others : s[2] \notin Foreign) /\ \A s \in Apart : s[2] \notin Foreign
  BY DEF Foreign
<1> HIDE DEF Apart, Others
<1>4. QED
  BY <1>1, <1>2, <1>3

LEMMA LexNames ==
    /\ LexNext => Names(Foreign)
    /\ LexNext /\ ~Single => Names(Foreign \cup Pairs)
<1> DEFINE T == Foreign \cup Pairs
<1>1. {"COMMENT", "IDENT", "UNKNOWN", "INT_LITERAL", "FLOAT_LITERAL", "STRING_LITERAL",
       "CHAR_LITERAL"} \cap T = {}
  BY DEF Foreign, Pairs
<1> HIDE DEF T
<1>2. \A t, from, to : t \notin T /\ Emit(t, from, to) => Names(T)
  BY EmitNames
<1>3. \A t, to : t \notin T /\ Lexeme(t, to) => Names(T)
  BY <1>2 DEF Lexeme
<1>4. \A kind, to : Unknown(kind, to) => Names(T)
  BY <1>1, <1>2 DEF Unknown
<1>5. (Skip => Names(T)) /\ (Open => Names(T)) /\ (StringChar => Names(T))
  BY DEF Skip, Open, StringChar, Names
<1>6. (LineComment => Names(T)) /\ (Prefixed => Names(T)) /\ (Unexpected => Names(T))
  BY <1>1, <1>3, <1>4 DEF LineComment, Prefixed, Unexpected
<1>7. (BlockComment => Names(T)) /\ (Close => Names(T)) /\ (CharLiteral => Names(T))
  BY <1>1, <1>2 DEF BlockComment, Close, CharLiteral
<1>8. Number => Names(T)
  BY <1>1, <1>2, <1>3 DEF Number
<1>9. Identifier => Names(T)
  <2> SUFFICES ASSUME Identifier PROVE Names(T)
    OBVIOUS
  <2> DEFINE to == After(Letters \cup Digits, at)
             IsWord(k) == k[1] = Char(at) /\ to = at + 1
             t == IF \E k \in Keywords : IsWord(k)
                  THEN (CHOOSE k \in Keywords : IsWord(k))[2] ELSE "IDENT"
  <2>1. Lexeme(t, to)
    BY DEF Identifier
  <2>2. \A k \in Keywords : k[2] \notin T
    BY WordsApart DEF T, Foreign, Pairs
  <2> HIDE DEF IsWord
  <2>3. t \notin T
    BY <1>1, <2>2
  <2> HIDE DEF t, to
  <2>4. QED
    BY <1>3, <2>1, <2>3
<1>10. Double => Names(T)
  <2> SUFFICES ASSUME Double PROVE Names(T)
    OBVIOUS
  <2> DEFINE Both(d) == d[1] = Char(at) /\ d[2] = Char(at + 1)
  <2>1. Lexeme((CHOOSE d \in Doubles : Both(d))[3], at + 2) /\ \E d \in Doubles : Both(d)
    BY DEF Double, IsDouble
  <2> HIDE DEF Both
  <2>2. QED
    BY <1>3, <2>1, OperatorTypes DEF T
<1>11. Single => Names(Foreign)
  <2> SUFFICES ASSUME Single PROVE Names(Foreign)
    OBVIOUS
  <2> DEFINE Is(s) == s[1] = Char(at)
  <2>1. Lexeme((CHOOSE s \in Singles : Is(s))[2], at + 1) /\ \E s \in Singles : Is(s)
    BY DEF Single, IsSingle
  <2> HIDE DEF Is
  <2>2. (CHOOSE s \in Singles : Is(s))[2] \notin Foreign
    BY <2>1, OperatorTypes
  <2>3. QED
    BY <2>1, <2>2, EmitNames DEF Lexeme
<1>12. LexNext /\ ~Single => Names(T)
  BY <1>5, <1>6, <1>7, <1>8, <1>9, <1>10 DEF LexNext
<1>13. Names(T) => Names(Foreign)
  BY DEF Names, T
<1>14. QED
  BY <1>11, <1>12, <1>13 DEF T

\* No lexeme has a foreign type, and so no token has.
Native == \A i \in DOMAIN lexemes : lexemes[i].type \notin Foreign

LEMMA NativeStays ==
    ASSUME Native, \E S : lexemes \in Seq(S), LexNext
    PROVE  Native'
<1>1. CASE lexemes' = lexemes
  BY <1>1 DEF Native
<1>2. CASE \E e : e.type \notin Foreign /\ lexemes' = Append(lexemes, e)
  <2>1. PICK e : e.type \notin Foreign /\ lexemes' = Append(lexemes, e)
    BY <1>2
  <2>2. /\ Len(lexemes) \in Nat /\ DOMAIN lexemes = 1 .. Len(lexemes)
        /\ DOMAIN lexemes' = 1 .. Len(lexemes) + 1
        /\ lexemes'[Len(lexemes) + 1] = e
        /\ \A i \in 1 .. Len(lexemes) : lexemes'[i] = lexemes[i]
    BY <2>1, AddedLast
  <2>3. \A i \in 1 .. Len(lexemes) + 1 : i \in 1 .. Len(lexemes) \/ i = Len(lexemes) + 1
    BY <2>2
  <2>4. QED
    BY <2>1, <2>2, <2>3 DEF Native
<1>3. QED
  BY <1>1, <1>2, LexNames DEF Names

\* A list of tokens without a foreign one.
Given(list) == (\E S : list \in Seq(S)) /\ "TOKEN_EOF" \notin ToSet(list)

LEMMA HandedOver ==
    ASSUME Native, \E S : lexemes \in Seq(S), HandOver
    PROVE  /\ Given(tokens') /\ Foreign \cap ToSet(tokens') = {}
           /\ Len(tokens') = Len(Kept)
           /\ \A t \in {"LBRACE", "RBRACE"}, i \in 1 .. Len(Kept) :
                 tokens'[i] = t <=> Kept[i].type = t
<1>1. PICK S : lexemes \in Seq(S)
  OBVIOUS
<1>2. Kept \in Seq(S) /\ KeepsOf(Kept, Len(lexemes))
  BY <1>1, KeptAre
<1>3. Len(Kept) \in Nat /\ DOMAIN Kept = 1 .. Len(Kept) /\ DOMAIN lexemes = 1 .. Len(lexemes)
  BY <1>1, <1>2, LenProperties
<1> DEFINE l == Len(Kept)
<1>4. tokens' = [i \in 1..l |-> AsToken(i)]
  BY <1>3 DEF HandOver
<1>5. ASSUME NEW i \in 1..l
      PROVE  /\ AsToken(i) \notin Foreign
             /\ \A t \in {"LBRACE", "RBRACE"} : AsToken(i) = t <=> Kept[i].type = t
  <2>1. Kept[i].type \notin Foreign
    BY <1>2, <1>3 DEF KeepsOf, Native
  <2>2. \/ AsToken(i) = Kept[i].type
        \/ AsToken(i) = "IF_NL" /\ Kept[i].type = "IF"
        \/ AsToken(i) \in Words /\ Kept[i].type = "IDENT"
        \/ AsToken(i) = "INTERPOLATED" /\ Kept[i].type = "STRING_LITERAL"
    BY Zenon DEF AsToken
  <2>3. QED
    BY <2>1, <2>2 DEF Foreign, Words
<1> HIDE DEF l
<1>6. l \in Nat
  BY <1>3 DEF l
<1>7. tokens' \in Seq({AsToken(i) : i \in 1..l}) /\ Len(tokens') = l /\ DOMAIN tokens' = 1..l
  BY <1>4, <1>6
<1>8. \A i \in 1..l : tokens'[i] = AsToken(i)
  BY <1>4
<1>9. Foreign \cap ToSet(tokens') = {}
  BY <1>5, <1>7, <1>8 DEF ToSet
<1>10. Given(tokens')
  BY <1>7, <1>9 DEF Given, Foreign
<1>11. QED
  BY <1>5, <1>7, <1>8, <1>9, <1>10 DEF l

\* The parser begins in silence.
LEMMA SaneAtRest ==
    ASSUME NEW list, Given(list)
    PROVE  Sane(parseTopLevel, list, 1, "node")
<1> DEFINE l == parseTopLevel
<1>1. Bed.p = Loose /\ Bed.e = 0 /\ Bed.w = 0
  BY DEF Bed, Exit, Outcomes, Loose, Steady, Place
<1>2. Runs(l, Loose, Loose) /\ IsList(l) /\ Len(l) = 1 /\ l # <<>>
  <2>1. Runs(l, Loose, Loose)
    BY LooseLists DEF StaysList
  <2>2. l = <<While({}, <<Call("topLevelStep")>>)>>
    BY DEF parseTopLevel
  <2> HIDE DEF l
  <2>3. IsList(l)
    BY <2>1, RunsOut
  <2>4. QED
    BY <2>1, <2>2, <2>3
<1> HIDE DEF l
<1>3. LaidTo(l, Loose, Bed, list)
  BY <1>1, <1>2, RunsLaid
<1>4. PICK b : /\ \A i \in 1..Len(l) : Joint(l[i], b[i], b[i + 1], list)
               /\ \A i \in 1 .. Len(l) + 1 : b[i].e = 0 /\ b[i].w = 0
               /\ b[Len(l) + 1] = Bed
               /\ Within(Loose, b[1].p) /\ 1 \in 1 .. Len(l) + 1
  BY <1>1, <1>3 DEF LaidTo
<1>5. Laying(l, b, list)
  BY <1>2, <1>4 DEF Laying, IsList
<1>6. Opened(list, 0) = 0 /\ 1 - 1 = 0
  BY OpenedCounts
<1>7. Here(b[1], list, 1, "node")
  <2>1. b[1].e = 0 /\ b[1].w = 0
    BY <1>4
  <2>2. b[1].p.c = "shut" /\ "moved" \in b[1].p.s /\ b[1].p.k = <<>>
    BY <1>4 DEF Within, Keeps, Loose, Steady, Place, Anything
  <2>3. Level(b[1]) = 0
    BY <2>1, <2>2 DEF Level
  <2>4. Now(1, 0, "node") = "moved"
    BY DEF Now
  <2>5. Meets(b[1].p.k, list, 1)
    BY <2>2 DEF Meets
  <2>6. QED
    BY <1>6, <2>1, <2>2, <2>3, <2>4, <2>5 DEF Here
<1>8. Len(list) \in Nat
  BY LenProperties DEF Given
<1>9. \A i \in 0 .. 1 - 1 : Opened(list, i) >= 0
  BY <1>6
<1>10. QED
  BY <1>2, <1>5, <1>7, <1>8, <1>9 DEF Sane, Placed, l

\* When the call stack is empty, every brace that was opened is closed.
LEMMA SaneAtEnd ==
    ASSUME Given(tokens), pos \in Nat, Sane(<<>>, tokens, pos, ret)
    PROVE  Balanced(Len(tokens))
<1>1. Len(tokens) \in Nat
  BY LenProperties DEF Given
<1>2. pos - 1 = Len(tokens)
  BY <1>1 DEF Sane
<1>3. PICK a : Laying(<<>>, a, tokens) /\ Here(a[1], tokens, pos, ret)
  BY DEF Sane, Placed
<1>4. a[1] = Bed
  BY <1>3 DEF Laying
<1>5. Level(Bed) = 0
  BY DEF Level, Bed, Exit, Place
<1>6. \A n : Depth(n) = Opened(tokens, n)
  BY DEF Depth, Opened
<1>7. Depth(Len(tokens)) = 0
  BY <1>2, <1>3, <1>4, <1>5, <1>6 DEF Here
<1>8. \A i \in 1 .. Len(tokens) : Depth(i) >= 0
  BY <1>1, <1>2, <1>6 DEF Sane
<1>9. QED
  BY <1>7, <1>8 DEF Balanced

PairInv ==
    /\ GuardInv
    /\ (\E S : lexemes \in Seq(S)) /\ Native
    /\ Given(tokens)
    /\ phase = "lexing" => tokens = <<>> /\ ret = "node"
    /\ ~reported /\ Unpaired \cap ToSet(tokens) = {} => Sane(todo, tokens, pos, ret)

LEMMA PairInvInit == FrontInit => PairInv
<1> SUFFICES ASSUME FrontInit PROVE PairInv
  OBVIOUS
<1>1. pos = 1 /\ todo = parseTopLevel /\ ret = "node" /\ lexemes = <<>>
  BY DEF FrontInit, ParserAtRest, Init, LexInit
<1>2. Given(tokens) /\ (phase = "lexing" => tokens = <<>>)
  <2>1. CASE tokens = <<>> /\ phase = "lexing"
    BY <2>1 DEF Given, ToSet
  <2>2. CASE tokens \in Inputs /\ phase = "parsing"
    BY <2>2, InputsAssumption DEF Given
  <2>3. QED
    BY <2>1, <2>2 DEF FrontInit, Init
<1>3. (\E S : lexemes \in Seq(S)) /\ Native
  BY <1>1 DEF Native
<1>4. Sane(todo, tokens, pos, ret)
  BY <1>1, <1>2, SaneAtRest
<1>5. QED
  BY <1>1, <1>2, <1>3, <1>4, GuardInvInit DEF PairInv

LEMMA PairInvNext == PairInv /\ [FrontNext]_frontVars => PairInv'
<1> SUFFICES ASSUME PairInv, [FrontNext]_frontVars PROVE PairInv'
  OBVIOUS
<1>1. GuardInv'
  BY GuardInvNext DEF PairInv
<1>2. CASE UNCHANGED vars /\ (phase' = phase \/ phase' = "parsing") /\ (LexNext \/ UNCHANGED lexVars)
  <2>1. UNCHANGED <<tokens, pos, todo, ret, reported>>
    BY <1>2 DEF vars
  <2>2. (\E S : lexemes' \in Seq(S)) /\ Native'
    <3>1. CASE LexNext
      <4>1. Native'
        BY <3>1, NativeStays DEF PairInv
      <4>2. lexemes' = lexemes \/ \E e : lexemes' = Append(lexemes, e)
        BY <3>1, LexNames DEF Names
      <4>3. QED
        BY <4>1, <4>2, AddedLast DEF PairInv
    <3>2. CASE UNCHANGED lexVars
      BY <3>2 DEF lexVars, PairInv, Native
    <3>3. QED
      BY <1>2, <3>1, <3>2
  <2>3. QED
    BY <1>1, <1>2, <2>1, <2>2 DEF PairInv
<1>3. CASE HandOver
  <2>1. Given(tokens')
    BY <1>3, HandedOver DEF PairInv
  <2>2. pos' = 1 /\ todo' = parseTopLevel /\ ret' = "node" /\ phase' = "parsing" /\ lexemes' = lexemes
    BY <1>3 DEF HandOver, PairInv, GuardInv, lexVars
  <2>3. Sane(todo', tokens', pos', ret')
    BY <2>1, <2>2, SaneAtRest
  <2>4. QED
    BY <1>1, <2>1, <2>2, <2>3 DEF PairInv, Native
<1>4. CASE Parsing
  <2>1. Next /\ phase' = "parsing" /\ lexemes' = lexemes
    BY <1>4 DEF Parsing, lexVars
  <2>2. tokens' = tokens /\ (reported => reported')
    BY <2>1, StepKeeps
  <2>3. ASSUME ~reported', Unpaired \cap ToSet(tokens') = {} PROVE Sane(todo', tokens', pos', ret')
    <3>1. InSilence
      BY <2>2, <2>3 DEF PairInv, GuardInv, InSilence, Paired, Given
    <3>2. StaysSane
      BY <2>1, <2>3, <3>1, SilentStep
    <3>3. QED
      BY <2>2, <3>2 DEF StaysSane
  <2>4. QED
    BY <1>1, <2>1, <2>2, <2>3 DEF PairInv, Native
<1>5. QED
  BY <1>2, <1>3, <1>4 DEF FrontNext, Lexing, frontVars

\* Whatever the tokens: when the parser comes to its end without an error, each
\* brace of the source is closed, in order, but for those in what it passes
\* over; no recovery, no attempt that is given back, no early return of a parse
\* function leaves one open or takes one twice.
THEOREM SilenceMeansBalance == FrontSpec => []SilentMeansBalanced
<1>1. PairInv => SilentMeansBalanced
  <2> SUFFICES ASSUME PairInv, todo = <<>>, ~reported, Unpaired \cap ToSet(tokens) = {}
               PROVE  Balanced(Len(tokens))
    BY DEF SilentMeansBalanced, Ended, Unpaired
  <2>1. pos \in Nat
    BY DEF PairInv, GuardInv, ParserInv, Stack
  <2>2. QED
    BY <2>1, SaneAtEnd DEF PairInv
<1>2. QED
  BY PairInvInit, PairInvNext, <1>1, PTL DEF FrontSpec
----------------------------------------------------------------------------
(* The braces of a text *)

TypeOf(c) == IF c = "{" THEN "LBRACE" ELSE "RBRACE"
\* The braces c in code before a.
Spots(c, a) == {k \in 1 .. a - 1 : Char(k) = c /\ InCode(k - 1)}

\* Of the single characters the braces make braces, and nothing else does.
LEMMA CurlyTypes ==
    /\ \A s \in Singles : /\ s[1] \in Curly => s[2] = TypeOf(s[1])
                          /\ s[1] \notin Curly => s[2] \notin Pairs
    /\ \A c \in Curly : TypeOf(c) \in Pairs
    /\ \A c, d \in Curly : TypeOf(c) = TypeOf(d) => c = d
<1> DEFINE comma == ","
           semicolon == ";"
           left == "{"
           right == "}"
           Apart == {<<comma, "COMMA">>, <<semicolon, "SEMICOLON">>, <<left, "LBRACE">>, <<right, "RBRACE">>}
           Others ==
               {<<"*", "STAR">>, <<"/", "SLASH">>, <<"%", "MOD">>, <<"=", "EQUAL">>, <<"<", "LT">>,
                <<">", "GT">>, <<"!", "NOT">>, <<"+", "PLUS">>, <<"-", "MINUS">>, <<"&", "AMPERSAND">>,
                <<":", "COLON">>, <<"?", "QUESTION">>, <<"|", "PIPE">>, <<".", "DOT">>,
                <<"[", "LBRACKET">>, <<"]", "RBRACKET">>, <<"(", "LPAREN">>, <<")", "RPAREN">>, <<"@", "AT">>}
           Signs == {"*", "/", "%", "=", "<", ">", "!", "+", "-", "&", ":", "?", "|", ".", "[", "]", "(", ")",
                     "@"}
<1>1. Singles \subseteq Others \cup Apart
  BY Zenon DEF Singles
<1>2. Curly = {left, right} /\ left # right
  BY Zenon DEF Curly
<1>3. TypeOf(left) = "LBRACE" /\ TypeOf(right) = "RBRACE"
  BY Zenon DEF TypeOf
<1>4. comma \notin Curly /\ semicolon \notin Curly /\ Curly \cap Signs = {}
  BY Zenon DEF Curly
<1> HIDE DEF comma, semicolon, left, right
<1>5. \A s \in Others : s[1] \in Signs /\ s[2] \notin Pairs
  BY DEF Pairs
<1>6. \A s \in Apart : /\ s[1] \in Curly => s[2] = TypeOf(s[1])
                       /\ s[1] \notin Curly => s[2] \notin Pairs
  BY <1>2, <1>3, <1>4 DEF Pairs
<1>7. \A c \in Curly : TypeOf(c) \in Pairs
  BY <1>2, <1>3 DEF Pairs
<1>8. \A c, d \in Curly : TypeOf(c) = TypeOf(d) => c = d
  BY <1>2, <1>3
<1> HIDE DEF Apart, Others, Signs
<1>9. \A s \in Others : s[1] \notin Curly /\ s[2] \notin Pairs
  BY <1>4, <1>5
<1>10. QED
  BY <1>1, <1>6, <1>7, <1>8, <1>9

\* The lexer never turns back.
LEMMA Onwards ==
    ASSUME LexTyped, LexNext
    PROVE  at <= at' /\ at' \in Nat \ {0}
<1>1. Turn
  BY LexTurns
<1>2. CASE opened = 0
  BY <1>1, <1>2 DEF Turn, Begin, LexTyped
<1>3. CASE opened # 0
  <2>1. StringChar \/ Close
    BY <1>3 DEF LexNext, Skip, LineComment, BlockComment, Identifier, Prefixed, Number, Open, CharLiteral,
       Double, Single, Unexpected, Code
  <2>2. at' = at \/ at' = at + 1 \/ at' = at + 2
    BY <2>1 DEF StringChar, Close
  <2>3. QED
    BY <2>2 DEF LexTyped
<1>4. QED
  BY <1>2, <1>3

\* Where no brace is passed over, none is added.
LEMMA SpotsStay ==
    ASSUME NEW a \in Nat \ {0}, NEW b \in Nat \ {0}, a <= b, Braceless(a, b), NEW c \in Curly
    PROVE  Spots(c, b) = Spots(c, a)
<1>1. \A k \in 1 .. b - 1 : k \in 1 .. a - 1 \/ k \in a .. b - 1
  OBVIOUS
<1>2. \A k \in 1 .. a - 1 : k \in 1 .. b - 1
  OBVIOUS
<1>3. QED
  BY <1>1, <1>2 DEF Spots, Braceless

\* A turn makes a token of each brace in code that it passes over, and a brace
\* of nothing else.
Counts(c) ==
    \/ lexemes' = lexemes /\ Spots(c, at') = Spots(c, at)
    \/ \E e : /\ lexemes' = Append(lexemes, e)
              /\ e.type = TypeOf(c) => Spots(c, at') = Spots(c, at) \cup {at}
              /\ e.type # TypeOf(c) => Spots(c, at') = Spots(c, at)

LEMMA LexCounts ==
    ASSUME LexTyped, ReadsOn(at, opened), LexNext, complaints' = {},
           Contexts[Len(text)] \notin {"block", "star"}, NEW c \in Curly
    PROVE  Counts(c)
<1>1. at <= at' /\ at' \in Nat \ {0} /\ at \in Nat \ {0}
  BY Onwards DEF LexTyped
<1>2. CASE ~Single
  <2>1. Braceless(at, at') /\ Names(Foreign \cup Pairs)
    BY <1>2, LexReads, LexNames
  <2>2. Spots(c, at') = Spots(c, at)
    BY <1>1, <2>1, SpotsStay
  <2>3. TypeOf(c) \in Pairs
    BY CurlyTypes
  <2>4. QED
    BY <2>1, <2>2, <2>3 DEF Counts, Names
<1>3. CASE Single
  <2> DEFINE Is(s) == s[1] = Char(at)
  <2>1. Lexeme((CHOOSE s \in Singles : Is(s))[2], at + 1) /\ \E s \in Singles : Is(s)
    BY <1>3 DEF Single, IsSingle
  <2>2. PICK s \in Singles : Is(s) /\ s = CHOOSE x \in Singles : Is(x)
    BY <2>1
  <2>3. s[1] = Char(at)
    BY <2>2
  <2> DEFINE e == [type |-> s[2], from |-> at, to |-> at + 1, line |-> line']
  <2> HIDE DEF Is
  <2>4. lexemes' = Append(lexemes, e) /\ at' = at + 1 /\ e.type = s[2]
    BY <2>1, <2>2 DEF Lexeme, Advance, Emit
  <2>5. InCode(at - 1)
    BY <1>3, SingleReads DEF Begin, Single, Code
  <2> HIDE DEF e
  <2>6. e.type = TypeOf(c) <=> Char(at) = c
    BY <2>3, <2>4, CurlyTypes
  <2>7. \A k : k \in 1 .. at' - 1 <=> k \in 1 .. at - 1 \/ k = at
    BY <1>1, <2>4
  <2>8. Char(at) = c => Spots(c, at') = Spots(c, at) \cup {at}
    BY <2>5, <2>7 DEF Spots
  <2>9. Char(at) # c => Spots(c, at') = Spots(c, at)
    BY <2>7 DEF Spots
  <2>10. QED
    BY <2>4, <2>6, <2>8, <2>9 DEF Counts
<1>4. QED
  BY <1>2, <1>3

\* What the lexer has made of the braces that it has passed.
Marked == \A c \in Curly : Cardinality(Spots(c, at)) = Cardinality(OfType(lexemes, TypeOf(c), Len(lexemes)))

LEMMA SpotsFinite ==
    ASSUME NEW c, NEW a \in Nat \ {0}
    PROVE  /\ IsFiniteSet(Spots(c, a)) /\ a \notin Spots(c, a)
           /\ Cardinality(Spots(c, a)) \in Nat
           /\ Cardinality(Spots(c, a) \cup {a}) = Cardinality(Spots(c, a)) + 1
<1>1. Spots(c, a) \subseteq 1 .. a - 1 /\ a \notin Spots(c, a)
  BY DEF Spots
<1>2. IsFiniteSet(Spots(c, a))
  BY <1>1, FS_Interval, FS_Subset
<1>3. QED
  BY <1>1, <1>2, FS_AddElement, FS_CardinalityType

LEMMA MarkedStays ==
    ASSUME LexTyped, ReadsOn(at, opened), LexNext, complaints' = {},
           Contexts[Len(text)] \notin {"block", "star"}, Marked
    PROVE  Marked'
<1>1. text' = text /\ Contexts' = Contexts
  BY LexTurns, ContextsStay DEF Turn
<1>2. ASSUME NEW c \in Curly
      PROVE  Cardinality(Spots(c, at')) = Cardinality(OfType(lexemes', TypeOf(c), Len(lexemes')))
  <2> DEFINE t == TypeOf(c)
  <2>1. Counts(c) /\ Cardinality(Spots(c, at)) = Cardinality(OfType(lexemes, t, Len(lexemes)))
    BY LexCounts DEF Marked
  <2>2. CASE lexemes' = lexemes /\ Spots(c, at') = Spots(c, at)
    BY <2>1, <2>2
  <2>3. ASSUME NEW e, lexemes' = Append(lexemes, e),
               e.type = t => Spots(c, at') = Spots(c, at) \cup {at},
               e.type # t => Spots(c, at') = Spots(c, at)
        PROVE  Cardinality(Spots(c, at')) = Cardinality(OfType(lexemes', t, Len(lexemes')))
    <3> DEFINE l == Len(lexemes)
    <3>1. /\ l \in Nat /\ Len(lexemes') = l + 1 /\ lexemes'[l + 1] = e
          /\ \A i \in 1..l : lexemes'[i] = lexemes[i]
      <4>1. (\E S : lexemes \in Seq(S)) /\ \E S : lexemes' \in Seq(S)
        BY <2>3, AddedLast DEF LexTyped
      <4>2. DOMAIN lexemes' = 1 .. l + 1 /\ l \in Nat /\ DOMAIN lexemes' = 1 .. Len(lexemes')
            /\ Len(lexemes') \in Nat
        BY <2>3, <4>1, AddedLast, LenProperties
      <4>3. l + 1 = Len(lexemes')
        <5> HIDE DEF l
        <5>1. QED
          BY <4>2
      <4>4. QED
        BY <2>3, <4>1, <4>2, <4>3, AddedLast
    <3>2. OfType(lexemes', t, l) = OfType(lexemes, t, l)
      BY <3>1 DEF OfType
    <3> HIDE DEF l, t
    <3>3. /\ e.type = t => Cardinality(OfType(lexemes', t, l + 1)) = Cardinality(OfType(lexemes', t, l)) + 1
          /\ e.type # t => Cardinality(OfType(lexemes', t, l + 1)) = Cardinality(OfType(lexemes', t, l))
      BY <3>1, TypeCounts
    <3>4. Cardinality(Spots(c, at)) = Cardinality(OfType(lexemes, t, l))
      BY <2>1 DEF l, t
    <3>5. Cardinality(Spots(c, at) \cup {at}) = Cardinality(Spots(c, at)) + 1
      BY SpotsFinite DEF LexTyped
    <3>6. QED
      BY <2>3, <3>1, <3>2, <3>3, <3>4, <3>5
  <2>4. QED
    BY <2>1, <2>2, <2>3 DEF Counts
<1>3. \A c \in Curly : Spots(c, at)' = Spots(c, at')
  BY <1>1 DEF Spots, Char, InCode
<1>4. \A c \in Curly : OfType(lexemes, TypeOf(c), Len(lexemes))' = OfType(lexemes', TypeOf(c), Len(lexemes'))
  BY DEF OfType, TypeOf
<1>5. \A c \in Curly : Cardinality(Spots(c, at))' = Cardinality(OfType(lexemes, TypeOf(c), Len(lexemes)))'
  BY <1>2, <1>3, <1>4
<1>6. QED
  BY <1>5, Zenon DEF Marked

\* The tokens of a text have the braces of its lexemes.
Handed ==
    /\ Foreign \cap ToSet(tokens) = {}
    /\ \A t \in Pairs : Cardinality({i \in 1 .. Len(tokens) : tokens[i] = t})
                            = Cardinality(OfType(lexemes, t, Len(lexemes)))
TextInv ==
    /\ ScanInv /\ PairInv
    /\ Quiet => Marked
    /\ phase = "parsing" => text = <<>> \/ (Lexed /\ Handed)

LEMMA TextInvInit == FrontInit => TextInv
<1> SUFFICES ASSUME FrontInit PROVE TextInv
  OBVIOUS
<1>1. ScanInv /\ PairInv
  BY ScanInvInit, PairInvInit
<1>2. at = 1 /\ lexemes = <<>> /\ (phase = "parsing" => text = <<>>)
  BY DEF FrontInit, LexInit
<1>3. Marked
  <2>1. ASSUME NEW c \in Curly PROVE Spots(c, at) = {}
    BY <1>2 DEF Spots
  <2>2. Len(lexemes) = 0
    BY <1>2
  <2>3. \A t : Cardinality(OfType(lexemes, t, 0)) = 0
    BY TypeCounts
  <2>4. QED
    BY <2>1, <2>2, <2>3, FS_EmptySet DEF Marked
<1>4. QED
  BY <1>1, <1>2, <1>3 DEF TextInv

LEMMA HandOverHands ==
    ASSUME LexTyped, Native, HandOver
    PROVE  Handed'
<1>1. lexemes' = lexemes
  BY DEF HandOver, lexVars
<1>2. /\ Foreign \cap ToSet(tokens') = {} /\ Len(tokens') = Len(Kept)
      /\ \A t \in Pairs, i \in 1 .. Len(Kept) : tokens'[i] = t <=> Kept[i].type = t
  BY HandedOver DEF LexTyped, Pairs
<1>3. KeepsOf(Kept, Len(lexemes))
  BY KeptAre DEF LexTyped
<1>4. ASSUME NEW t \in Pairs
      PROVE  Cardinality({i \in 1 .. Len(tokens') : tokens'[i] = t})
                 = Cardinality(OfType(lexemes, t, Len(lexemes)))
  <2>1. {i \in 1 .. Len(tokens') : tokens'[i] = t} = OfType(Kept, t, Len(Kept))
    BY <1>2 DEF OfType
  <2>2. t # "COMMENT"
    BY DEF Pairs
  <2>3. QED
    BY <1>3, <2>1, <2>2 DEF KeepsOf
<1>5. QED
  BY <1>1, <1>2, <1>4 DEF Handed, OfType

LEMMA TextInvNext == TextInv /\ [FrontNext]_frontVars => TextInv'
<1> SUFFICES ASSUME TextInv, [FrontNext]_frontVars PROVE TextInv'
  OBVIOUS
<1>1. ScanInv' /\ PairInv'
  BY ScanInvNext, PairInvNext DEF TextInv
<1>2. CASE Lexing
  <2>1. LexNext /\ phase' = "lexing" /\ text' = text /\ Contexts' = Contexts
    BY <1>2, LexTurns, ContextsStay DEF Lexing, Turn, TextInv, ScanInv
  <2>2. ASSUME Quiet' PROVE Marked'
    <3>1. complaints' = {} /\ Contexts[Len(text)] \notin {"block", "star"}
      BY <2>1, <2>2 DEF Quiet
    <3>2. Quiet
      BY <2>1, <3>1, ComplaintsStay DEF Quiet
    <3>3. LexTyped /\ ReadsOn(at, opened) /\ Marked
      BY <3>2 DEF TextInv, ScanInv
    <3>4. QED
      BY <2>1, <3>1, <3>3, MarkedStays
  <2>3. QED
    BY <1>1, <2>1, <2>2 DEF TextInv
<1>3. CASE UNCHANGED lexVars
  <2>1. UNCHANGED <<text, at, line, opened, lexemes, complaints>> /\ Contexts' = Contexts
    BY <1>3, ContextsStay DEF lexVars
  <2>2. Quiet' = Quiet /\ Marked' = Marked /\ Lexed' = Lexed
    BY <2>1 DEF Quiet, Marked, Lexed, Spots, Char, InCode, OfType, TypeOf
  <2>3. phase' = "parsing" => text' = <<>> \/ (Lexed' /\ Handed')
    <3>1. CASE HandOver
      BY <2>2, <3>1, HandOverHands DEF TextInv, ScanInv, PairInv, HandOver
    <3>2. CASE Parsing
      <4>1. tokens' = tokens /\ phase = "parsing"
        BY <3>2, StepKeeps DEF Parsing
      <4>2. Handed' = Handed
        BY <2>1, <4>1 DEF Handed, OfType
      <4>3. QED
        BY <2>1, <2>2, <4>1, <4>2 DEF TextInv
    <3>3. CASE UNCHANGED frontVars
      <4>1. tokens' = tokens /\ phase' = phase
        BY <3>3 DEF frontVars, vars
      <4>2. Handed' = Handed
        BY <2>1, <4>1 DEF Handed, OfType
      <4>3. QED
        BY <2>1, <2>2, <4>1, <4>2 DEF TextInv
    <3>4. CASE Lexing
      BY <3>4 DEF Lexing, TextInv, PairInv, ScanInv
    <3>5. QED
      BY <3>1, <3>2, <3>3, <3>4 DEF FrontNext
  <2>4. QED
    BY <1>1, <2>2, <2>3 DEF TextInv
<1>4. QED
  BY <1>2, <1>3 DEF FrontNext, HandOver, Parsing, frontVars

\* Whatever the text, with all keywords and the parser's words in it: when the
\* lexer and the parser have nothing to report, the text does not end in a block
\* comment, and it has no bytecode, interface or test, whose bodies the parser
\* does not read, there are as many braces opened as closed in its code, strings,
\* characters and comments left out.
THEOREM AcceptedTextsPair == FrontSpec => []AcceptedTextIsPaired
<1>1. TextInv => AcceptedTextIsPaired
  <2> SUFFICES ASSUME TextInv, phase = "parsing", Ended, complaints = {}, ~reported,
                      Contexts[Len(text)] \notin {"block", "star"},
                      Unpaired \cap ToSet(tokens) = {}
               PROVE  Cardinality(Braces("{")) = Cardinality(Braces("}"))
    BY Zenon DEF AcceptedTextIsPaired, Unpaired
  <2> DEFINE left == "{"
             right == "}"
  <2>1. left \in Curly /\ right \in Curly /\ TypeOf(left) = "LBRACE" /\ TypeOf(right) = "RBRACE"
    BY Zenon DEF Curly, TypeOf
  <2> HIDE DEF left, right
  <2>2. CASE text = <<>>
    <3>1. DOMAIN text = {}
      BY <2>2
    <3>2. \A c : Braces(c) = {}
      BY <3>1 DEF Braces
    <3>3. Cardinality(Braces(left)) = Cardinality(Braces(right))
      BY <3>2
    <3>4. QED
      BY <3>3, Zenon DEF left, right
  <2>3. CASE Lexed /\ Handed
    <3>1. Marked /\ LexTyped
      BY DEF TextInv, Quiet, ScanInv
    <3>2. at - 1 = Len(text) /\ DOMAIN text = 1 .. Len(text) /\ Len(text) \in Nat
      <4>1. Len(text) \in Nat /\ DOMAIN text = 1 .. Len(text)
        BY <3>1, LenProperties DEF LexTyped
      <4>2. QED
        BY <2>3, <3>1, <4>1 DEF Lexed, LexTyped
    <3>3. \A c : Spots(c, at) = Braces(c)
      BY <3>2 DEF Spots, Braces, Char, InCode
    <3> DEFINE Tokens(t) == {i \in 1 .. Len(tokens) : tokens[i] = t}
    <3>4. \A c \in Curly : Cardinality(Braces(c)) = Cardinality(Tokens(TypeOf(c)))
      BY <2>3, <3>1, <3>3, CurlyTypes DEF Marked, Handed
    <3>5. Balanced(Len(tokens))
      <4>1. pos \in Nat
        BY DEF TextInv, PairInv, GuardInv, ParserInv, Stack
      <4>2. QED
        BY <4>1, SaneAtEnd DEF TextInv, PairInv, Ended
    <3>6. Cardinality(Tokens("LBRACE")) - Cardinality(Tokens("RBRACE")) = 0
      BY <3>5 DEF Balanced, Depth
    <3>7. Cardinality(Tokens("LBRACE")) \in Nat /\ Cardinality(Tokens("RBRACE")) \in Nat
      <4>1. \A t : IsFiniteSet(Tokens(t))
        <5>1. Len(tokens) \in Nat
          BY LenProperties DEF TextInv, PairInv, Given
        <5>2. \A t : Tokens(t) \subseteq 1 .. Len(tokens)
          OBVIOUS
        <5>3. IsFiniteSet(1 .. Len(tokens))
          BY <5>1, FS_Interval
        <5> HIDE DEF Tokens
        <5>4. QED
          BY <5>2, <5>3, FS_Subset
      <4>2. QED
        BY <4>1, FS_CardinalityType
    <3> HIDE DEF Tokens
    <3>8. Cardinality(Braces(left)) = Cardinality(Braces(right))
      BY <2>1, <3>4, <3>6, <3>7
    <3>9. QED
      BY <3>8, Zenon DEF left, right
  <2>4. QED
    BY <2>2, <2>3, Zenon DEF TextInv
<1>2. QED
  BY TextInvInit, TextInvNext, <1>1, PTL DEF FrontSpec

==============================================================================
