--------------------------- MODULE SharedLemmas ---------------------------
(***************************************************************************)
(* Facts that the proofs about several components need: what pushing on    *)
(* and popping off a stack does to its elements, for the modules that keep *)
(* a call stack as a sequence, innermost call first; induction over ranges *)
(* of numbers; and what a flattened sequence of sequences consists of.     *)
(***************************************************************************)
EXTENDS Naturals, Sequences, SequencesExt, SequenceTheorems, WellFoundedInduction, TLAPS

\* A frame put on a stack is its first element, the rest moves up by one.
LEMMA PushFrame ==
    ASSUME NEW S, NEW s \in Seq(S), NEW f \in S
    PROVE  /\ <<f>> \o s \in Seq(S)
           /\ DOMAIN (<<f>> \o s) = 1..(Len(s) + 1)
           /\ DOMAIN s = 1..Len(s)
           /\ Len(s) \in Nat
           /\ (<<f>> \o s)[1] = f
           /\ \A i \in 2..(Len(s) + 1) : (<<f>> \o s)[i] = s[i - 1]
<1>1. <<f>> \in Seq(S) /\ Len(<<f>>) = 1 /\ <<f>>[1] = f
  OBVIOUS
<1>2. /\ <<f>> \o s \in Seq(S)
      /\ Len(<<f>> \o s) = 1 + Len(s)
      /\ \A i \in 1..(1 + Len(s)) :
            (<<f>> \o s)[i] = IF i <= 1 THEN <<f>>[i] ELSE s[i - 1]
  BY <1>1, ConcatProperties
<1>3. DOMAIN s = 1..Len(s) /\ Len(s) \in Nat
  BY LenProperties
<1>4. DOMAIN (<<f>> \o s) = 1..(Len(s) + 1)
  BY <1>2, <1>3, LenProperties
<1>5. QED
  BY <1>1, <1>2, <1>3, <1>4

\* Taking a frame off gives back the first one; the rest moves down by one.
LEMMA PopFrame ==
    ASSUME NEW S, NEW s \in Seq(S), s # <<>>
    PROVE  /\ 1 \in DOMAIN s
           /\ Head(s) = s[1]
           /\ s[1] \in S
           /\ Tail(s) \in Seq(S)
           /\ DOMAIN s \subseteq Nat
           /\ \A i \in DOMAIN Tail(s) :
                 i + 1 \in DOMAIN s /\ Tail(s)[i] = s[i + 1] /\ i \in Nat /\ 1 < i + 1
<1>1. /\ Tail(s) \in Seq(S)
      /\ Len(Tail(s)) = Len(s) - 1
      /\ \A i \in 1..Len(Tail(s)) : Tail(s)[i] = s[i + 1]
      /\ Head(s) \in S
  BY HeadTailProperties
<1>2. DOMAIN s = 1..Len(s) /\ Len(s) \in Nat /\ Len(s) # 0
  BY LenProperties, EmptySeq
<1>3. DOMAIN Tail(s) = 1..Len(Tail(s)) /\ Len(Tail(s)) \in Nat
  BY <1>1, LenProperties
<1>4. Head(s) = s[1]
  OBVIOUS
<1>5. QED
  BY <1>1, <1>2, <1>3, <1>4

\* The elements of a concatenation, and where they come from.
LEMMA JoinElements ==
    ASSUME NEW S, NEW a \in Seq(S), NEW b \in Seq(S)
    PROVE  /\ Len(a) \in Nat /\ DOMAIN a = 1..Len(a)
           /\ Len(b) \in Nat /\ DOMAIN b = 1..Len(b)
           /\ DOMAIN (a \o b) = 1..(Len(a) + Len(b))
           /\ \A k \in 1..(Len(a) + Len(b)) :
                 (a \o b)[k] = IF k <= Len(a) THEN a[k] ELSE b[k - Len(a)]
<1>1. /\ a \o b \in Seq(S)
      /\ Len(a \o b) = Len(a) + Len(b)
      /\ \A k \in 1..(Len(a) + Len(b)) :
            (a \o b)[k] = IF k <= Len(a) THEN a[k] ELSE b[k - Len(a)]
  BY ConcatProperties
<1>2. DOMAIN (a \o b) = 1..Len(a \o b)
  BY <1>1, LenProperties
<1>3. QED
  BY <1>1, <1>2, LenProperties

\* A set of natural numbers that is not empty has a least element.
LEMMA LeastElement ==
    ASSUME NEW T, T \subseteq Nat, T # {}
    PROVE  \E x \in T : \A y \in T : x <= y
<1>1. \A i, j \in Nat : j < i => <<j, i>> \in OpToRel(<, Nat)
  BY DEF OpToRel
<1>2. PICK i \in T : \A j \in T : <<j, i>> \notin OpToRel(<, Nat)
  BY NatLessThanWellFounded, WFMin
<1>3. ASSUME NEW j \in T PROVE i <= j
  <2>1. i \in Nat /\ j \in Nat
    OBVIOUS
  <2>2. ~(j < i)
    BY <1>1, <1>2, <2>1
  <2>3. QED
    BY <2>1, <2>2
<1>4. QED
  BY <1>3

\* What holds of the first of some numbers, and of each if it holds of the one
\* before, holds of all.
LEMMA Along ==
    ASSUME NEW a \in Nat, NEW b \in Nat, NEW S, a \in S,
           \A k \in a + 1 .. b : k - 1 \in S => k \in S
    PROVE  a .. b \subseteq S
<1> DEFINE T == {k \in a .. b : k \notin S}
<1>1. ASSUME T # {} PROVE FALSE
  <2>1. T \subseteq Nat
    OBVIOUS
  <2>2. PICK n \in T : \A k \in T : n <= k
    BY <1>1, <2>1, LeastElement
  <2>3. n \in a + 1 .. b /\ n - 1 \in a .. b /\ ~(n <= n - 1)
    BY <2>2
  <2>4. n - 1 \notin T
    BY <2>2, <2>3
  <2>5. QED
    BY <2>2, <2>3, <2>4
<1>2. QED
  BY <1>1

\* A first value and a step from each to the next make a function on 0..N.
Iterates(N, X, x, G) ==
    \E f \in [0..N -> X] : f[0] = x /\ \A i \in 1..N : f[i] = G[<<i, f[i - 1]>>]

LEMMA Iterated ==
    ASSUME NEW N \in Nat, NEW X, NEW x \in X, NEW G \in [(1..N) \X X -> X]
    PROVE  Iterates(N, X, x, G)
<1> DEFINE Is(f, n) == f \in [0..n -> X] /\ f[0] = x /\ \A i \in 1..n : f[i] = G[<<i, f[i - 1]>>]
           S == {n \in Nat : \E f : Is(f, n)}
<1>1. 0 \in S
  <2> DEFINE f == [i \in 0..0 |-> x]
  <2>1. Is(f, 0)
    OBVIOUS
  <2> HIDE DEF Is, f
  <2>2. QED
    BY <2>1
<1>2. ASSUME NEW n \in 1..N, n - 1 \in S PROVE n \in S
  <2>1. PICK f : Is(f, n - 1)
    BY <1>2
  <2> DEFINE h == [i \in 0..n |-> IF i = n THEN G[<<n, f[n - 1]>>] ELSE f[i]]
  <2>2. n \in Nat /\ n # 0 /\ 0 \in 0..n /\ n \in 0..n /\ f[n - 1] \in X
    BY <2>1
  <2>3. h[0] = x
    BY <2>1, <2>2
  <2>4. ASSUME NEW i \in 1..n PROVE h[i] = G[<<i, h[i - 1]>>]
    <3>1. i \in 0..n /\ i - 1 \in 0..n /\ i - 1 # n /\ h[i - 1] = f[i - 1]
      BY <2>2
    <3>2. CASE i = n
      BY <3>1, <3>2
    <3>3. CASE i # n
      <4>1. i \in 1..n - 1 /\ h[i] = f[i]
        BY <2>2, <3>1, <3>3
      <4>2. QED
        BY <2>1, <3>1, <4>1
    <3>4. QED
      BY <3>2, <3>3
  <2>5. h \in [0..n -> X]
    <3>1. G[<<n, f[n - 1]>>] \in X
      BY <2>2
    <3>2. ASSUME NEW i \in 0..n, i # n PROVE f[i] \in X
      BY <2>1, <2>2, <3>2
    <3>3. QED
      BY <3>1, <3>2
  <2> HIDE DEF h
  <2>6. Is(h, n)
    BY <2>3, <2>4, <2>5
  <2> HIDE DEF Is
  <2>7. QED
    BY <2>2, <2>6
<1>3. 0..N \subseteq S
  <2> HIDE DEF S
  <2>1. \A k \in 0 + 1 .. N : k - 1 \in S => k \in S
    BY <1>2
  <2>2. QED
    BY <1>1, <2>1, Along
<1>4. PICK f : Is(f, N)
  <2> HIDE DEF Is
  <2>1. N \in S
    BY <1>3
  <2>2. QED
    BY <2>1
<1>5. QED
  BY <1>4 DEF Iterates

\* all has the elements of each of the sequences seqs in turn.
InTurn(seqs, all, T) ==
    /\ all \in Seq(T)
    /\ \E ends \in [0..Len(seqs) -> Nat] :
          /\ ends[0] = 0 /\ ends[Len(seqs)] = Len(all)
          /\ \A k \in 1..Len(seqs) :
                /\ ends[k] = ends[k - 1] + Len(seqs[k])
                /\ \A j \in 1..Len(seqs[k]) : all[ends[k - 1] + j] = seqs[k][j]

\* A flattened sequence does.
LEMMA Flattened ==
    ASSUME NEW T, NEW seqs \in Seq(Seq(T)), seqs # <<>>
    PROVE  InTurn(seqs, FlattenSeq(seqs), T)
<1> DEFINE N == Len(seqs)
           Body(f) == [i \in 1..N |-> IF i = 1 THEN seqs[i] ELSE f[i - 1] \o seqs[i]]
           flat == CHOOSE f : f = Body(f)
           G == [p \in (1..N) \X Seq(T) |-> IF p[1] = 1 THEN seqs[1] ELSE p[2] \o seqs[p[1]]]
<1>1. N \in Nat /\ N # 0 /\ 1 \in 1..N /\ \A i \in 1..N : seqs[i] \in Seq(T)
  BY LenProperties, EmptySeq
<1>2. G \in [(1..N) \X Seq(T) -> Seq(T)]
  <2>1. ASSUME NEW p \in (1..N) \X Seq(T) PROVE (IF p[1] = 1 THEN seqs[1] ELSE p[2] \o seqs[p[1]]) \in Seq(T)
    <3>1. p[1] \in 1..N /\ p[2] \in Seq(T) /\ seqs[p[1]] \in Seq(T) /\ seqs[1] \in Seq(T)
      BY <1>1
    <3>2. p[2] \o seqs[p[1]] \in Seq(T)
      BY <3>1, ConcatProperties
    <3>3. QED
      BY <3>1, <3>2
  <2>2. QED
    BY <2>1
<1>3. \E f : f = Body(f)
  <2> DEFINE X == Seq(T)
             x == << >>
  <2>1. x \in X
    OBVIOUS
  <2>6. G \in [(1..N) \X X -> X] /\ N \in Nat
    BY <1>1, <1>2
  <2> HIDE DEF G, N, X, x
  <2>2. PICK g \in [0..N -> X] : g[0] = x /\ \A i \in 1..N : g[i] = G[<<i, g[i - 1]>>]
    <3>1. Iterates(N, X, x, G)
      BY <2>1, <2>6, Iterated
    <3>2. QED
      BY <3>1 DEF Iterates
  <2> DEFINE h == [i \in 1..N |-> g[i]]
  <2>3. ASSUME NEW i \in 1..N PROVE h[i] = IF i = 1 THEN seqs[i] ELSE h[i - 1] \o seqs[i]
    <3>1. g[i - 1] \in Seq(T) /\ <<i, g[i - 1]>> \in (1..N) \X Seq(T)
      BY <2>2, <2>6 DEF X
    <3>2. g[i] = IF i = 1 THEN seqs[1] ELSE g[i - 1] \o seqs[i]
      BY <2>2, <3>1 DEF G
    <3>3. i # 1 => i - 1 \in 1..N
      BY <1>1
    <3>4. QED
      BY <3>2, <3>3
  <2>4. h = Body(h)
    BY <2>3
  <2> HIDE DEF Body, h
  <2>5. QED
    BY <2>4
<1>4. flat = Body(flat)
  <2> HIDE DEF Body
  <2>1. QED
    BY <1>3
<1> HIDE DEF flat, G
<1>5. /\ flat[1] = seqs[1]
      /\ \A i \in 2..N : flat[i] = flat[i - 1] \o seqs[i]
  <2> HIDE DEF N
  <2>1. \A i \in 1..N : flat[i] = IF i = 1 THEN seqs[i] ELSE flat[i - 1] \o seqs[i]
    BY <1>4
  <2>2. \A i \in 2..N : i \in 1..N /\ i # 1
    BY <1>1
  <2>3. QED
    BY <1>1, <2>1, <2>2
<1>6. FlattenSeq(seqs) = flat[N]
  BY <1>1 DEF FlattenSeq, flat
<1> HIDE DEF Body, N
<1>7. \A i \in 1..N : flat[i] \in Seq(T)
  <2> DEFINE S == {i \in Nat : flat[i] \in Seq(T)}
  <2>1. 1 \in S
    BY <1>1, <1>5
  <2>2. ASSUME NEW i \in 1 + 1 .. N, i - 1 \in S PROVE i \in S
    <3>1. i \in 2..N /\ i \in 1..N /\ i \in Nat
      BY <1>1
    <3>2. flat[i - 1] \o seqs[i] \in Seq(T)
      BY <1>1, <2>2, <3>1, ConcatProperties
    <3>3. QED
      BY <1>5, <3>1, <3>2
  <2>3. 1..N \subseteq S
    <3> HIDE DEF S
    <3>1. \A k \in 1 + 1 .. N : k - 1 \in S => k \in S
      BY <2>2
    <3>2. QED
      BY <1>1, <2>1, <3>1, Along
  <2>4. QED
    BY <2>3
<1> DEFINE ends == [k \in 0..N |-> IF k = 0 THEN 0 ELSE Len(flat[k])]
<1>8. ends \in [0..N -> Nat] /\ ends[0] = 0 /\ ends[N] = Len(flat[N])
  <2>1. \A k \in 0..N : k # 0 => k \in 1..N /\ Len(flat[k]) \in Nat
    BY <1>1, <1>7, LenProperties
  <2>2. QED
    BY <1>1, <2>1
<1>9. ASSUME NEW k \in 1..N
      PROVE  /\ Len(seqs[k]) \in Nat
             /\ ends[k - 1] \in Nat /\ ends[k] = Len(flat[k]) /\ ends[k] = ends[k - 1] + Len(seqs[k])
             /\ k # 1 => ends[k - 1] = Len(flat[k - 1])
             /\ \A j \in 1..ends[k - 1] : k # 1 => flat[k][j] = flat[k - 1][j]
             /\ \A j \in 1..Len(seqs[k]) : flat[k][ends[k - 1] + j] = seqs[k][j]
  <2>1. k \in 0..N /\ k - 1 \in 0..N /\ k # 0 /\ seqs[k] \in Seq(T) /\ Len(seqs[k]) \in Nat
    BY <1>1, LenProperties
  <2>2. ends[k] = Len(flat[k])
    BY <2>1
  <2>3. CASE k = 1
    <3>1. ends[k - 1] = 0
      BY <2>1, <2>3
    <3>2. Len(flat[k]) = Len(seqs[k]) /\ flat[k] = seqs[k]
      BY <1>5, <2>3
    <3> HIDE DEF ends
    <3>3. QED
      BY <2>1, <2>2, <2>3, <3>1, <3>2
  <2>4. CASE k # 1
    <3>1. k \in 2..N /\ k - 1 \in 1..N /\ k - 1 # 0
      BY <1>1, <2>4
    <3>2. ends[k - 1] = Len(flat[k - 1])
      BY <2>1, <3>1
    <3>3. flat[k - 1] \in Seq(T) /\ Len(flat[k - 1]) \in Nat
      BY <1>7, <3>1, LenProperties
    <3> DEFINE a == flat[k - 1]
               b == seqs[k]
    <3> HIDE DEF ends
    <3>4. flat[k] = a \o b
      BY <1>5, <3>1
    <3>5. a \in Seq(T) /\ b \in Seq(T)
      BY <2>1, <3>3
    <3> HIDE DEF a, b
    <3>6. Len(a \o b) = Len(a) + Len(b) /\ \A i \in 1..Len(a) + Len(b) : (a \o b)[i] = IF i <= Len(a) THEN a[i] ELSE b[i - Len(a)]
      BY <3>5, ConcatProperties
    <3>7. Len(a) \in Nat /\ Len(b) \in Nat /\ ends[k - 1] = Len(a) /\ a = flat[k - 1] /\ b = seqs[k]
      BY <2>1, <3>2, <3>3 DEF a, b
    <3>8. ASSUME NEW j \in 1..Len(a) PROVE flat[k][j] = a[j]
      <4>1. Len(a) \in Nat /\ Len(b) \in Nat
        BY <3>7
      <4>2. j \in 1..Len(a) + Len(b) /\ j <= Len(a)
        BY <4>1
      <4>3. QED
        BY <3>4, <3>6, <4>2
    <3>9. ASSUME NEW j \in 1..Len(b) PROVE flat[k][Len(a) + j] = b[j]
      <4>1. Len(a) \in Nat /\ Len(b) \in Nat
        BY <3>7
      <4>2. Len(a) + j \in 1..Len(a) + Len(b) /\ ~(Len(a) + j <= Len(a)) /\ (Len(a) + j) - Len(a) = j
        BY <4>1
      <4>3. QED
        BY <3>4, <3>6, <4>2
    <3>10. Len(flat[k]) = Len(a) + Len(b)
      BY <3>4, <3>6
    <3>11. QED
      BY <2>2, <2>4, <3>7, <3>8, <3>9, <3>10
  <2>5. QED
    BY <2>3, <2>4
<1> HIDE DEF ends
<1>10. ASSUME NEW k \in 1..N, NEW j \in 1..Len(seqs[k]) PROVE flat[N][ends[k - 1] + j] = seqs[k][j]
  <2>6. N \in Nat /\ k \in Nat
    BY <1>1
  <2> DEFINE p == ends[k - 1] + j
             S == {n \in 1..N : p <= ends[n] /\ flat[n][p] = seqs[k][j]}
  <2>1. p \in Nat /\ p >= 1 /\ k \in S
    BY <1>9
  <2>2. ASSUME NEW n \in k + 1 .. N, n - 1 \in S PROVE n \in S
    <3>1. n \in 1..N /\ n # 1 /\ n - 1 \in 1..N
      BY <1>1
    <3>2. p \in 1..ends[n - 1] /\ ends[n] >= ends[n - 1]
      <4>1. ends[n - 1] \in Nat /\ ends[n] = ends[n - 1] + Len(seqs[n]) /\ Len(seqs[n]) \in Nat
        BY <1>9, <3>1
      <4>2. p <= ends[n - 1]
        BY <2>2
      <4> HIDE DEF p
      <4>3. QED
        BY <2>1, <4>1, <4>2
    <3> HIDE DEF p
    <3>3. flat[n][p] = flat[n - 1][p]
      BY <1>9, <3>1, <3>2
    <3>4. ends[n - 1] \in Nat /\ ends[n] = ends[n - 1] + Len(seqs[n]) /\ Len(seqs[n]) \in Nat
        BY <1>9, <3>1
    <3>5. QED
      BY <2>1, <2>2, <3>1, <3>2, <3>3, <3>4
  <2>3. k..N \subseteq S
    <3> HIDE DEF S
    <3>1. \A n \in k + 1 .. N : n - 1 \in S => n \in S
      BY <2>2
    <3>2. QED
      BY <2>6, <2>1, <3>1, Along
  <2>4. N \in S
    BY <1>1, <2>3
  <2>5. QED
    BY <2>4
<1>11. \A k \in 1..N : ends[k] = ends[k - 1] + Len(seqs[k])
  BY <1>9
<1>12. FlattenSeq(seqs) \in Seq(T)
  BY <1>1, <1>6, <1>7
<1>13. QED
  BY <1>6, <1>8, <1>10, <1>11, <1>12 DEF N, InTurn
=============================================================================
