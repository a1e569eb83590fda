---------------------------- MODULE HostProofs -----------------------------
(***************************************************************************)
(* Proofs about Gui, for any tree of widgets and any callbacks, about      *)
(* Watch, about LanguageServer, for whatever messages a client sends, and  *)
(* about ImportResolution, for every file system and every import graph,   *)
(* cyclic ones included.  The four have nothing in common.                 *)
(***************************************************************************)
EXTENDS Gui, Watch, LanguageServer, ImportResolution, SharedLemmas, TLAPS

\* The types of what text boxes, sliders and InputState keep.
FieldsTyped ==
    /\ length \in [OfKind("text") -> Nat]
    /\ cursorPos \in [OfKind("text") -> Nat]
    /\ dragging \in [OfKind("slider") -> BOOLEAN]

\* A clicked column is moved into the text.
LEMMA ColumnInText ==
    ASSUME NEW n \in Nat, NEW column \in Int
    PROVE  Greater(0, Lesser(n, column)) \in 0..n
  BY DEF Greater, Lesser

\* One text box changed, its cursor within its text.
LEMMA TextChanges ==
    ASSUME FieldsTyped, CursorInText, NEW w, NEW n, NEW at,
           w \in OfKind("text") => n \in Nat /\ at \in 0..n,
           length' = [length EXCEPT ![w] = n],
           cursorPos' = [cursorPos EXCEPT ![w] = at],
           UNCHANGED dragging
    PROVE  FieldsTyped' /\ CursorInText'
<1>1. length' \in [OfKind("text") -> Nat] /\ cursorPos' \in [OfKind("text") -> Nat]
  <2>1. CASE w \in OfKind("text")
    <3>1. n \in Nat /\ at \in Nat
      BY <2>1
    <3>2. QED
      BY <3>1 DEF FieldsTyped
  <2>2. CASE w \notin OfKind("text")
    <3>1. length' = length /\ cursorPos' = cursorPos
      BY <2>2 DEF FieldsTyped
    <3>2. QED
      BY <3>1 DEF FieldsTyped
  <2>3. QED
    BY <2>1, <2>2
<1>2. ASSUME NEW v \in OfKind("text") PROVE cursorPos'[v] \in 0..length'[v]
  <2>1. CASE v = w
    BY <2>1 DEF FieldsTyped
  <2>2. CASE v # w
    <3>1. cursorPos'[v] = cursorPos[v] /\ length'[v] = length[v]
      BY <2>2 DEF FieldsTyped
    <3>2. QED
      BY <3>1 DEF CursorInText
  <2>3. QED
    BY <2>1, <2>2
<1>3. QED
  <2>1. FieldsTyped'
    BY <1>1 DEF FieldsTyped, OfKind, Widgets
  <2>2. CursorInText'
    BY <1>2 DEF CursorInText, OfKind, Widgets
  <2>3. QED
    BY <2>1, <2>2

LEMMA MouseDownInText ==
    ASSUME FieldsTyped, CursorInText,
           NEW y, NEW column \in Int, NEW button, MouseDown(y, column, button)
    PROVE  FieldsTyped' /\ CursorInText'
<1>1. UNCHANGED length
  BY DEF MouseDown
<1> DEFINE takers == SelectSeq(Offered, LAMBDA v : Accepts(v, y))
           w == Head(takers)
<1>2. \/ UNCHANGED <<cursorPos, dragging>>
      \/ UNCHANGED dragging /\ Kind[w] = "text" /\ ClickText(w, column)
      \/ UNCHANGED cursorPos /\ dragging' = [dragging EXCEPT ![w] = TRUE]
  BY DEF MouseDown
<1> HIDE DEF w, takers
<1>3. CASE UNCHANGED <<cursorPos, dragging>>
  BY <1>1, <1>3 DEF FieldsTyped, CursorInText
<1>4. CASE UNCHANGED dragging /\ ClickText(w, column)
  <2>1. CASE enabled[w]
    <3>1. cursorPos' = [cursorPos EXCEPT ![w] = Greater(0, Lesser(length[w], column))]
      BY <1>4, <2>1 DEF ClickText
    <3>2. length' = [length EXCEPT ![w] = length[w]]
      BY <1>1 DEF FieldsTyped
    <3>3. w \in OfKind("text") =>
             length[w] \in Nat /\ Greater(0, Lesser(length[w], column)) \in 0..length[w]
      BY ColumnInText DEF FieldsTyped
    <3>4. QED
      BY <1>4, <3>1, <3>2, <3>3, TextChanges
  <2>2. CASE ~enabled[w]
    BY <1>1, <1>4, <2>2 DEF ClickText, FieldsTyped, CursorInText
  <2>3. QED
    BY <2>1, <2>2
<1>5. CASE UNCHANGED cursorPos /\ dragging' = [dragging EXCEPT ![w] = TRUE]
  BY <1>1, <1>5 DEF FieldsTyped, CursorInText
<1>6. QED
  BY <1>2, <1>3, <1>4, <1>5

\* What a key makes of a cursor within a text of n characters stays within it.
LEMMA EditInText ==
    ASSUME FieldsTyped, CursorInText, NEW w \in OfKind("text"), NEW key, EditText(w, key),
           UNCHANGED dragging
    PROVE  FieldsTyped' /\ CursorInText'
<1> DEFINE n == length[w]
           at == cursorPos[w]
           cursor == CASE key = "Left" -> Greater(0, at - 1)
                       [] key = "Right" -> Lesser(n, at + 1)
                       [] key = "Home" -> 0
                       [] key = "End" -> n
                       [] key = "Backspace" /\ Backspace(w) -> at - 1
                       [] OTHER -> at
           rest == IF (key = "Backspace" /\ Backspace(w))
                         \/ (key \in {"Backspace", "Delete"} /\ at < n)
                   THEN n - 1 ELSE n
<1>1. n \in Nat /\ at \in 0..n
  BY DEF FieldsTyped, CursorInText
<1>2. cursorPos' = [cursorPos EXCEPT ![w] = cursor] /\ length' = [length EXCEPT ![w] = rest]
  BY DEF EditText
<1>3. Backspace(w) <=> at > 0
  BY DEF Backspace
<1>4. rest \in Nat /\ cursor \in 0..rest
  <2>1. CASE key = "Backspace" /\ at > 0
    BY <1>1, <1>3, <2>1
  <2>2. CASE key = "Backspace" /\ ~(at > 0)
    <3>1. cursor = at /\ at = 0
      BY <1>1, <1>3, <2>2
    <3>2. rest \in Nat
      BY <1>1, <1>3, <2>2
    <3>3. QED
      BY <3>1, <3>2
  <2>3. CASE key = "Delete"
    <3>1. cursor = at
      BY <1>1, <1>3, <2>3
    <3>2. rest = IF at < n THEN n - 1 ELSE n
      BY <1>1, <1>3, <2>3
    <3>3. QED
      BY <1>1, <3>1, <3>2
  <2>4. CASE key \notin {"Backspace", "Delete"}
    <3>1. rest = n
      BY <2>4
    <3>2. cursor \in {Greater(0, at - 1), Lesser(n, at + 1), 0, n, at}
      BY <2>4
    <3>3. Greater(0, at - 1) \in 0..n /\ Lesser(n, at + 1) \in 0..n
      BY <1>1 DEF Greater, Lesser
    <3>4. QED
      BY <1>1, <3>1, <3>2, <3>3
  <2>5. QED
    BY <2>1, <2>2, <2>3, <2>4
<1> HIDE DEF cursor, rest
<1>5. QED
  BY <1>2, <1>4, TextChanges

LEMMA KeysInText ==
    ASSUME FieldsTyped, CursorInText, NEW key, KeyDown(key)
    PROVE  FieldsTyped' /\ CursorInText'
<1>1. CASE Listens(Focus) /\ EditText(Focus, key) /\ UNCHANGED dragging
  <2>1. Focus \in OfKind("text")
    BY <1>1 DEF Listens
  <2>2. QED
    BY <1>1, <2>1, EditInText
<1>2. CASE UNCHANGED <<length, cursorPos, dragging>>
  BY <1>2 DEF FieldsTyped, CursorInText
<1>3. QED
  BY <1>1, <1>2 DEF KeyDown

LEMMA TypingInText ==
    ASSUME FieldsTyped, CursorInText, TextInput
    PROVE  FieldsTyped' /\ CursorInText'
<1>1. Focus \in OfKind("text")
  BY DEF TextInput, Listens
<1>2. length[Focus] \in Nat /\ cursorPos[Focus] \in 0..length[Focus]
  BY <1>1 DEF FieldsTyped, CursorInText
<1>3. length[Focus] + 1 \in Nat /\ cursorPos[Focus] + 1 \in 0..length[Focus] + 1
  BY <1>2
<1>4. /\ length' = [length EXCEPT ![Focus] = length[Focus] + 1]
      /\ cursorPos' = [cursorPos EXCEPT ![Focus] = cursorPos[Focus] + 1]
      /\ UNCHANGED dragging
  BY DEF TextInput
<1>5. QED
  BY <1>3, <1>4, TextChanges

LEMMA FieldsStep ==
    ASSUME FieldsTyped, CursorInText, [GuiNext]_guiVars
    PROVE  FieldsTyped' /\ CursorInText'
<1>1. CASE Draw \/ UNCHANGED guiVars
  BY <1>1 DEF Draw, guiVars, FieldsTyped, CursorInText
<1>2. CASE \E y \in Rows, column \in -1..MaxText + 1, button \in {1, 3} :
              MouseDown(y, column, button)
  BY <1>2, MouseDownInText
<1>3. CASE \E button \in {1, 3} : MouseUp(button)
  <2>1. PICK button : MouseUp(button)
    BY <1>3
  <2>2. /\ UNCHANGED <<length, cursorPos>>
        /\ dragging' = [w \in DOMAIN dragging |-> IF Alive(w) THEN Released(w) ELSE dragging[w]]
    BY <2>1 DEF MouseUp
  <2>3. \A w : Released(w) = FALSE
    BY DEF Released
  <2>4. dragging' \in [OfKind("slider") -> BOOLEAN]
    BY <2>2, <2>3 DEF FieldsTyped
  <2>5. QED
    BY <2>2, <2>4 DEF FieldsTyped, CursorInText
<1>4. CASE \E key \in Keys : KeyDown(key)
  BY <1>4, KeysInText
<1>5. CASE TextInput
  BY <1>5, TypingInText
<1>6. QED
  BY <1>1, <1>2, <1>3, <1>4, <1>5 DEF GuiNext

LEMMA FieldsInit == ASSUME GuiInit PROVE FieldsTyped /\ CursorInText
<1>1. /\ length = [w \in OfKind("text") |-> 0]
      /\ cursorPos = [w \in OfKind("text") |-> 0]
      /\ dragging = [w \in OfKind("slider") |-> FALSE]
  BY DEF GuiInit
<1>2. FieldsTyped
  BY <1>1 DEF FieldsTyped
<1>3. \A w \in OfKind("text") : length[w] = 0 /\ cursorPos[w] = 0
  BY <1>1
<1>4. 0 \in 0..0
  OBVIOUS
<1>5. QED
  BY <1>2, <1>3, <1>4 DEF CursorInText

\* Whatever the tree, keys, clicks and typing, the cursor of a text box stays within
\* its text: erase and insert never throw.
THEOREM CursorStaysInText == GuiSpec => []CursorInText
<1>1. GuiInit => FieldsTyped /\ CursorInText
  BY FieldsInit
<1>2. FieldsTyped /\ CursorInText /\ [GuiNext]_guiVars => (FieldsTyped /\ CursorInText)'
  BY FieldsStep
<1>3. QED
  BY <1>1, <1>2, PTL DEF GuiSpec

-----------------------------------------------------------------------------

\* A widget that lives in the tree lives on unless the tree changes.
LEMMA SameTree ==
    ASSUME UNCHANGED children
    PROVE  \A w : Alive(w)' <=> Alive(w)
  BY DEF Alive, Inside

LEMMA DragStep ==
    ASSUME FieldsTyped, DragMeansButton, [GuiNext]_guiVars
    PROVE  DragMeansButton'
<1>1. CASE UNCHANGED <<children, dragging, buttons>>
  BY <1>1, SameTree DEF DragMeansButton
<1>2. CASE \E y \in Rows, column \in -1..MaxText + 1, button \in {1, 3} :
              MouseDown(y, column, button)
  <2>1. PICK y, column, button : button \in {1, 3} /\ MouseDown(y, column, button)
    BY <1>2
  <2>2. buttons' = buttons \cup {button}
    BY <2>1 DEF MouseDown
  <2>3. CASE button = 1
    BY <2>2, <2>3 DEF DragMeansButton
  <2>4. CASE button # 1
    <3>1. UNCHANGED <<children, dragging>>
      BY <2>1, <2>4 DEF MouseDown
    <3>2. QED
      BY <2>2, <3>1, SameTree DEF DragMeansButton
  <2>5. QED
    BY <2>3, <2>4
<1>3. CASE \E button \in {1, 3} : MouseUp(button)
  <2>1. PICK button : MouseUp(button)
    BY <1>3
  <2>2. /\ UNCHANGED children
        /\ dragging' = [w \in DOMAIN dragging |-> IF Alive(w) THEN Released(w) ELSE dragging[w]]
    BY <2>1 DEF MouseUp
  <2>3. \A w \in OfKind("slider") : ~(Alive(w) /\ dragging'[w])
    BY <2>2 DEF FieldsTyped, Released
  <2>4. \A w : Alive(w)' <=> Alive(w)
    BY <2>2, SameTree
  <2>5. QED
    BY <2>3, <2>4 DEF DragMeansButton
<1>4. QED
  BY <1>1, <1>2, <1>3 DEF GuiNext, Draw, KeyDown, TextInput, guiVars

\* No slider of the window is dragged when the left button is up, wherever the mouse was
\* when it was released and whatever the callbacks removed or disabled.
THEOREM ReleaseEndsDrag == GuiSpec => []DragMeansButton
<1>1. GuiInit => DragMeansButton
  <2>1. GuiInit => dragging = [w \in OfKind("slider") |-> FALSE]
    BY DEF GuiInit
  <2>2. QED
    BY <2>1 DEF DragMeansButton
<1>2. FieldsTyped /\ DragMeansButton /\ [GuiNext]_guiVars => DragMeansButton'
  BY DragStep
<1>3. FieldsTyped /\ CursorInText /\ [GuiNext]_guiVars => (FieldsTyped /\ CursorInText)'
  BY FieldsStep
<1>4. QED
  BY <1>1, <1>2, <1>3, FieldsInit, PTL DEF GuiSpec

----------------------------------------------------------------------------
(* The watcher *)

\* Unless a change is still to be noticed, waits for the timer or is about to be built, what was
\* saved last has been tried; and if it compiles, the smoke tests see it or have seen it.
WatchInv ==
    /\ events \in Nat
    /\ good \in BOOLEAN
    /\ armed \in BOOLEAN
    /\ phase \in {"idle", "building", "smoke"}
    /\ events = 0 /\ ~armed /\ phase # "building" =>
          /\ tried = version
          /\ good => IF phase = "smoke" THEN binary = version ELSE tested = version

\* Whenever the watcher is at rest, however edits fell between events, timer, build and
\* tests, what was saved last has been tried, and tested if it compiles (ec-watch.js).
THEOREM RestsUpToDate == WatchSpec => [](AtRest => UpToDate)
<1>1. WatchInit => WatchInv
  <2> SUFFICES ASSUME WatchInit PROVE WatchInv
    OBVIOUS
  <2>1. good = TRUE /\ armed = FALSE
    BY DEF WatchInit
  <2>2. events = 0 /\ phase = "smoke" /\ tried = version /\ binary = version
    BY DEF WatchInit
  <2>3. QED
    BY <2>1, <2>2 DEF WatchInv
<1>2. WatchInv /\ [WatchNext]_watchVars => WatchInv'
  <2> SUFFICES ASSUME WatchInv, [WatchNext]_watchVars PROVE WatchInv'
    OBVIOUS
  <2> USE DEF WatchInv
  <2>1. CASE Edit
    BY <2>1 DEF Edit
  <2>2. CASE Notice
    <3>1. events' \in Nat /\ armed' = TRUE
      BY <2>2 DEF Notice
    <3>2. QED
      BY <2>2, <3>1 DEF Notice
  <2>3. CASE Build
    BY <2>3 DEF Build
  <2>4. CASE Compile
    BY <2>4 DEF Compile
  <2>5. CASE RunSmoke
    BY <2>5 DEF RunSmoke
  <2>6. CASE UNCHANGED watchVars
    BY <2>6 DEF watchVars
  <2>7. QED
    BY <2>1, <2>2, <2>3, <2>4, <2>5, <2>6 DEF WatchNext
<1>3. WatchInv => (AtRest => UpToDate)
  BY DEF WatchInv, AtRest, UpToDate
<1>4. QED
  BY <1>1, <1>2, <1>3, PTL DEF WatchSpec

----------------------------------------------------------------------------
(* The stream of messages, and what the server makes of it *)

\* What is known of the messages a client sends: the shape of the first, whose
\* pieces are three, and of the others.
Typed(m) ==
    /\ m = [id |-> m.id, method |-> m.method, uri |-> m.uri, size |-> m.size, last |-> m.last]
    /\ m.size \in Nat /\ m.size >= 2
    /\ m.last = "method" => m.method \in Bare
AllTyped ==
    /\ \E S : sent \in Seq(S)
    /\ sent # <<>>
    /\ \A k \in DOMAIN sent : Typed(sent[k])
    /\ IdsReadable

\* The units of m lie in `all` behind the first s units.
LaidAt(all, s, m) ==
    /\ all[s + 1] = Header(m.size)
    /\ all[s + 2] = Blank
    /\ all[s + 3] = [t |-> "body", message |-> m]
    /\ \A j \in s + 4 .. s + m.size + 1 : all[j] = [t |-> "rest"]
    /\ all[s + m.size + 2] = [t |-> "end"]

\* The stream `all` has the units of each message in turn, those of the k-th end at ends[k].
Laid(all, ends) ==
    /\ \E S : all \in Seq(S)
    /\ ends \in [0..Len(sent) -> Nat]
    /\ ends[0] = 0 /\ ends[Len(sent)] = Len(all)
    /\ \A k \in 1..Len(sent) :
          /\ ends[k] = ends[k - 1] + sent[k].size + 2
          /\ LaidAt(all, ends[k - 1], sent[k])

Pieces(m) ==
    {Header(m.size), Blank, [t |-> "body", message |-> m], [t |-> "rest"], [t |-> "end"]}

\* The units of a message, one by one.
LEMMA UnitsAre ==
    ASSUME NEW m, Typed(m)
    PROVE  /\ Units(m) \in Seq(Pieces(m))
           /\ Len(Units(m)) = m.size + 2
           /\ Units(m)[1] = Header(m.size)
           /\ Units(m)[2] = Blank
           /\ Units(m)[3] = [t |-> "body", message |-> m]
           /\ \A j \in 4..m.size + 1 : Units(m)[j] = [t |-> "rest"]
           /\ Units(m)[m.size + 2] = [t |-> "end"]
<1> DEFINE H == Header(m.size)
           B == Blank
           T == [t |-> "body", message |-> m]
           R == [t |-> "rest"]
           E == [t |-> "end"]
           S == {H, B, T, R, E}
           n == m.size
           rests == [i \in 1..n - 2 |-> R]
           a == <<H, B, T>>
           b == a \o rests
           c == b \o <<E>>
<1>1. n \in Nat /\ n >= 2 /\ n - 2 \in Nat
  BY DEF Typed
<1>2. Units(m) = c
  BY DEF Units
<1>3. H \in S /\ B \in S /\ T \in S /\ R \in S /\ E \in S
  OBVIOUS
<1> HIDE DEF H, B, T, R, E, S, n
<1>4. a \in Seq(S) /\ Len(a) = 3 /\ a[1] = H /\ a[2] = B /\ a[3] = T
  BY <1>3
<1>5. rests \in Seq(S) /\ Len(rests) = n - 2 /\ \A i \in 1..n - 2 : rests[i] = R
  <2>1. rests \in [1..n - 2 -> S]
    BY <1>3
  <2>2. rests \in Seq(S)
    BY <1>1, <2>1, SeqDef
  <2>3. DOMAIN rests = 1..n - 2 /\ DOMAIN rests = 1..Len(rests) /\ Len(rests) \in Nat
    BY <2>2, LenProperties
  <2>4. Len(rests) = n - 2
    BY <1>1, <2>3
  <2>5. QED
    BY <2>2, <2>4
<1>6. <<E>> \in Seq(S) /\ Len(<<E>>) = 1 /\ <<E>>[1] = E
  BY <1>3
<1> HIDE DEF a, rests
<1>20. /\ a \o rests \in Seq(S) /\ Len(a \o rests) = Len(a) + Len(rests)
       /\ \A i \in 1..Len(a) + Len(rests) : (a \o rests)[i] = IF i <= Len(a) THEN a[i] ELSE rests[i - Len(a)]
  <2> HIDE DEF b
  <2>1. a \in Seq(S) /\ rests \in Seq(S)
    BY <1>4, <1>5
  <2>2. QED
    BY <2>1, ConcatProperties
<1>7. /\ b \in Seq(S) /\ Len(b) = 3 + (n - 2)
      /\ \A i \in 1..3 + (n - 2) : b[i] = IF i <= 3 THEN a[i] ELSE rests[i - 3]
  BY <1>1, <1>4, <1>5, <1>20
<1> HIDE DEF b
<1>8. /\ c \in Seq(S) /\ Len(c) = Len(b) + 1
      /\ \A i \in 1..Len(b) + 1 : c[i] = IF i <= Len(b) THEN b[i] ELSE <<E>>[i - Len(b)]
  <2>1. b \in Seq(S) /\ <<E>> \in Seq(S)
    BY <1>6, <1>7
  <2> HIDE DEF c
  <2>2. /\ b \o <<E>> \in Seq(S) /\ Len(b \o <<E>>) = Len(b) + Len(<<E>>)
        /\ \A i \in 1..Len(b) + Len(<<E>>) : (b \o <<E>>)[i] = IF i <= Len(b) THEN b[i] ELSE <<E>>[i - Len(b)]
    BY <2>1, ConcatProperties
  <2>3. QED
    BY <1>6, <2>2 DEF c
<1>9. Len(b) = n + 1 /\ Len(c) = n + 2
  BY <1>1, <1>7, <1>8
<1> HIDE DEF c
<1>10. ASSUME NEW i \in 1..n + 1 PROVE c[i] = b[i]
  BY <1>1, <1>8, <1>9
<1>11. c[1] = H /\ c[2] = B /\ c[3] = T
  <2>1. 1 \in 1..n + 1 /\ 2 \in 1..n + 1 /\ 3 \in 1..n + 1
    BY <1>1
  <2>2. b[1] = a[1] /\ b[2] = a[2] /\ b[3] = a[3]
    BY <1>1, <1>7
  <2>3. QED
    BY <1>4, <1>10, <2>1, <2>2
<1>12. ASSUME NEW j \in 4..n + 1 PROVE c[j] = R
  <2>1. j \in 1..n + 1 /\ j \in 1..3 + (n - 2) /\ ~(j <= 3) /\ j - 3 \in 1..n - 2
    BY <1>1
  <2>2. b[j] = rests[j - 3]
    BY <1>7, <2>1
  <2>3. QED
    BY <1>5, <1>10, <2>1, <2>2
<1>13. c[n + 2] = E
  <2>1. n + 2 \in 1..Len(b) + 1 /\ ~(n + 2 <= Len(b)) /\ (n + 2) - Len(b) = 1
    BY <1>1, <1>9
  <2>2. QED
    BY <1>6, <1>8, <2>1
<1>14. QED
  BY <1>2, <1>8, <1>9, <1>11, <1>12, <1>13 DEF n, H, B, T, R, E, S, Pieces

\* Pieces of a message are added to what is asked, or not.
LEMMA AskedSteps ==
    ASSUME NEW S, sent \in Seq(S), sent # <<>>
    PROVE  /\ Len(sent) \in Nat /\ 1 \in 1..Len(sent)
           /\ Asked[1] = <<>>
           /\ \A k \in 1..Len(sent) : Asked[k] \in Seq(S)
           /\ \A k \in 2..Len(sent) :
                 Asked[k] = IF sent[k].method = "initialized" THEN Asked[k - 1] ELSE Append(Asked[k - 1], sent[k])
<1> DEFINE N == Len(sent)
           Step(i, x) == IF i = 1 THEN <<>> ELSE IF sent[i].method = "initialized" THEN x ELSE Append(x, sent[i])
           Body(f) == [i \in DOMAIN sent |-> Step(i, f[i - 1])]
           X == Seq(S)
           x0 == << >>
           G == [p \in (1..N) \X X |-> Step(p[1], p[2])]
<1>1. N \in Nat /\ N # 0 /\ 1 \in 1..N /\ DOMAIN sent = 1..N /\ \A i \in 1..N : sent[i] \in S
  BY LenProperties, EmptySeq
<1>2. x0 \in X
  OBVIOUS
<1>3. ASSUME NEW i \in 1..N, NEW x \in X PROVE Step(i, x) \in X
  <2>1. Append(x, sent[i]) \in Seq(S)
    BY <1>1, AppendProperties
  <2>2. QED
    BY <1>2, <2>1
<1> HIDE DEF N, X, x0
<1>4. G \in [(1..N) \X X -> X]
  <2> HIDE DEF Step
  <2>1. QED
    BY <1>3
<1>5. \E f : f = Body(f)
  <2> HIDE DEF G, Step
  <2>1. Iterates(N, X, x0, G)
    BY <1>1, <1>2, <1>4, Iterated
  <2>2. PICK g \in [0..N -> X] : \A i \in 1..N : g[i] = G[<<i, g[i - 1]>>]
    BY <2>1 DEF Iterates
  <2> DEFINE h == [i \in 1..N |-> g[i]]
  <2>3. ASSUME NEW i \in 1..N PROVE h[i] = Step(i, h[i - 1])
    <3>1. g[i - 1] \in X /\ <<i, g[i - 1]>> \in (1..N) \X X
      BY <1>1
    <3>2. g[i] = Step(i, g[i - 1])
      BY <2>2, <3>1 DEF G
    <3>3. i # 1 => i - 1 \in 1..N
      BY <1>1
    <3>4. CASE i = 1
      BY <3>2, <3>4 DEF Step
    <3>5. CASE i # 1
      <4>1. h[i] = g[i] /\ h[i - 1] = g[i - 1]
        BY <3>3, <3>5
      <4>2. QED
        BY <3>2, <4>1
    <3>6. QED
      BY <3>4, <3>5
  <2>4. h = Body(h)
    BY <1>1, <2>3
  <2> HIDE DEF Body, h
  <2>5. QED
    BY <2>4
<1>6. Asked = Body(Asked)
  <2>1. Asked = CHOOSE f : f = Body(f)
    BY DEF Asked
  <2> HIDE DEF Body
  <2>2. QED
    BY <1>5, <2>1
<1>7. ASSUME NEW i \in 1..N PROVE Asked[i] = Step(i, Asked[i - 1])
  <2> HIDE DEF Step
  <2>1. QED
    BY <1>1, <1>6
<1>8. Asked[1] = <<>>
  BY <1>1, <1>7
<1>9. ASSUME NEW k \in 2..N
      PROVE  Asked[k] = IF sent[k].method = "initialized" THEN Asked[k - 1] ELSE Append(Asked[k - 1], sent[k])
  <2>1. k \in 1..N /\ k # 1
    BY <1>1
  <2>2. QED
    BY <1>7, <2>1
<1>10. \A k \in 1..N : Asked[k] \in X
  <2> DEFINE T == {k \in Nat : Asked[k] \in X}
  <2>1. 1 \in T
    BY <1>2, <1>8 DEF x0
  <2>2. ASSUME NEW i \in 1 + 1 .. N, i - 1 \in T PROVE i \in T
    <3>1. i \in 1..N /\ i \in Nat
      BY <1>1
    <3> HIDE DEF Step
    <3>2. QED
      BY <1>3, <1>7, <2>2, <3>1
  <2>3. 1..N \subseteq T
    <3> HIDE DEF T
    <3>1. \A k \in 1 + 1 .. N : k - 1 \in T => k \in T
      BY <2>2
    <3>2. QED
      BY <1>1, <2>1, <3>1, Along
  <2>4. QED
    BY <2>3
<1>11. QED
  BY <1>1, <1>8, <1>9, <1>10 DEF N, X

\* What is asked so far is the beginning of all that is.
LEMMA AskedGrows ==
    ASSUME NEW S, sent \in Seq(S), sent # <<>>, NEW k \in 1..Len(sent)
    PROVE  /\ Len(Asked[k]) \in Nat /\ Len(Answerable) \in Nat
           /\ Len(Asked[k]) <= Len(Answerable)
           /\ \A i \in 1..Len(Asked[k]) : Answerable[i] = Asked[k][i]
<1> DEFINE N == Len(sent)
           n == Len(Asked[k])
           T == {j \in 1..N : n <= Len(Asked[j]) /\ \A i \in 1..n : Asked[j][i] = Asked[k][i]}
<1>1. N \in Nat /\ 1 \in 1..N /\ k \in Nat /\ \A j \in 1..N : Asked[j] \in Seq(S) /\ Len(Asked[j]) \in Nat
  BY AskedSteps, LenProperties
<1>2. n \in Nat /\ k \in T
  BY <1>1
<1>3. ASSUME NEW j \in k + 1 .. N, j - 1 \in T PROVE j \in T
  <2>1. j \in 1..N /\ j \in 2..N /\ j - 1 \in 1..N
    BY <1>1
  <2>2. CASE sent[j].method = "initialized"
    <3>1. Asked[j] = Asked[j - 1]
      BY <2>1, <2>2, AskedSteps
    <3>2. QED
      BY <1>3, <2>1, <3>1
  <2>3. CASE sent[j].method # "initialized"
    <3>1. Asked[j] = Append(Asked[j - 1], sent[j])
      BY <2>1, <2>3, AskedSteps
    <3>2. sent[j] \in S /\ Asked[j - 1] \in Seq(S)
      BY <1>1, <2>1, LenProperties
    <3>3. /\ Len(Append(Asked[j - 1], sent[j])) = Len(Asked[j - 1]) + 1
          /\ \A i \in 1..Len(Asked[j - 1]) : Append(Asked[j - 1], sent[j])[i] = Asked[j - 1][i]
      BY <3>2, AppendProperties
    <3>4. n <= Len(Asked[j - 1]) /\ Len(Asked[j - 1]) \in Nat
      BY <1>1, <1>3, <2>1
    <3>5. \A i \in 1..n : Asked[j - 1][i] = Asked[k][i]
      BY <1>3
    <3> HIDE DEF n
    <3>6. \A i \in 1..n : i \in 1..Len(Asked[j - 1])
      BY <1>2, <3>4
    <3>7. n <= Len(Asked[j])
      BY <1>2, <3>1, <3>3, <3>4
    <3>8. QED
      BY <2>1, <3>1, <3>3, <3>5, <3>6, <3>7
  <2>4. QED
    BY <2>2, <2>3
<1>4. k..N \subseteq T
  <2> HIDE DEF T, N
  <2>1. \A j \in k + 1 .. N : j - 1 \in T => j \in T
    BY <1>3
  <2>2. QED
    BY <1>1, <1>2, <2>1, Along
<1>5. N \in T
  BY <1>1, <1>4
<1>6. QED
  BY <1>1, <1>2, <1>5 DEF Answerable

\* At first the stream is laid out so, whatever the client sends.
LEMMA FirstTyped == ServerInit /\ IdsReadable => AllTyped
<1> SUFFICES ASSUME ServerInit, IdsReadable PROVE AllTyped
  OBVIOUS
<1>1. PICK n \in 1..MaxMessages : \E methods \in [1..n -> Methods], uris \in [1..n -> Uris],
                                    size \in {2, 4}, last \in Members, from \in FirstIds :
        sent = <<Message(from, "initialize", CHOOSE u \in Uris : TRUE, 3, "params")>>
               \o [i \in 1..n |-> Message(from + i, methods[i], uris[i], size, last)]
  BY DEF ServerInit
<1>15. PICK methods \in [1..n -> Methods], uris \in [1..n -> Uris], size \in {2, 4}, last \in Members, from \in FirstIds :
        sent = <<Message(from, "initialize", CHOOSE u \in Uris : TRUE, 3, "params")>>
               \o [i \in 1..n |-> Message(from + i, methods[i], uris[i], size, last)]
  BY <1>1
<1> DEFINE first == Message(from, "initialize", CHOOSE u \in Uris : TRUE, 3, "params")
           later == [i \in 1..n |-> Message(from + i, methods[i], uris[i], size, last)]
           S == {first} \cup {later[i] : i \in 1..n}
           a == <<first>>
<1>2. ASSUME NEW id, NEW method, NEW uri, NEW z \in {2, 3, 4}, NEW l
      PROVE  Typed(Message(id, method, uri, z, l))
  <2> DEFINE m == Message(id, method, uri, z, l)
  <2>1. /\ m = [id |-> m.id, method |-> m.method, uri |-> m.uri, size |-> m.size, last |-> m.last]
        /\ m.size = z /\ m.method = method
    BY DEF Message
  <2>2. m.last = "method" => method \in Bare
    BY DEF Message
  <2> HIDE DEF m
  <2>3. m.last = "method" => m.method \in Bare
    BY <2>1, <2>2
  <2>4. Typed(m)
    BY <2>1, <2>3 DEF Typed
  <2>5. QED
    BY <2>4 DEF m
<1>3. Typed(first)
  BY <1>2
<1>4. ASSUME NEW i \in 1..n PROVE later[i] \in S /\ Typed(later[i])
  <2>1. later[i] = Message(from + i, methods[i], uris[i], size, last)
    OBVIOUS
  <2>2. later[i] \in S
    OBVIOUS
  <2> HIDE DEF later
  <2>3. QED
    BY <1>2, <2>1, <2>2
<1>5. later = [i \in 1..n |-> later[i]]
  OBVIOUS
<1> HIDE DEF first, later
<1>6. first \in S /\ \A x \in S : Typed(x)
  BY <1>3, <1>4
<1>7. n \in Nat
  OBVIOUS
<1> HIDE DEF S
<1>8. later \in Seq(S)
  <2>1. later \in [1..n -> S]
    BY <1>4, <1>5
  <2>2. QED
    BY <1>7, <2>1, SeqDef
<1>9. a \in Seq(S) /\ Len(a) = 1
  BY <1>6
<1>10. sent = a \o later
  BY <1>15 DEF first, later
<1> HIDE DEF a
<1>11. sent \in Seq(S) /\ Len(sent) = Len(a) + Len(later) /\ Len(later) \in Nat
  BY <1>8, <1>9, <1>10, ConcatProperties, LenProperties
<1>12. sent # <<>>
  BY <1>9, <1>11
<1>13. \A k \in DOMAIN sent : sent[k] \in S
  BY <1>11, LenProperties
<1>14. QED
  BY <1>6, <1>11, <1>12, <1>13 DEF AllTyped

LEMMA FirstLaid ==
    ServerInit /\ IdsReadable => \E all, ends : Laid(all, ends) /\ unread = all
<1> SUFFICES ASSUME ServerInit, IdsReadable PROVE \E all, ends : Laid(all, ends) /\ unread = all
  OBVIOUS
<1> DEFINE N == Len(sent)
           seqs == [i \in DOMAIN sent |-> Units(sent[i])]
           T == UNION {Pieces(sent[i]) : i \in 1..N}
           all == FlattenSeq(seqs)
<1>1. AllTyped
  BY FirstTyped
<1>2. N \in Nat /\ N # 0 /\ DOMAIN sent = 1..N
  BY <1>1, LenProperties, EmptySeq DEF AllTyped
<1>3. ASSUME NEW k \in 1..N PROVE Typed(sent[k]) /\ Units(sent[k]) \in Seq(T)
  <2>1. Typed(sent[k])
    BY <1>1, <1>2 DEF AllTyped
  <2>2. Units(sent[k]) \in Seq(Pieces(sent[k]))
    BY <2>1, UnitsAre
  <2>3. Pieces(sent[k]) \subseteq T
    OBVIOUS
  <2> HIDE DEF T
  <2>4. QED
    BY <2>1, <2>2, <2>3, SeqMonotonic
<1> HIDE DEF N, T
<1>4. seqs \in Seq(Seq(T)) /\ Len(seqs) = N /\ seqs # <<>> /\ \A k \in 1..N : seqs[k] = Units(sent[k])
  <2>1. seqs \in [1..N -> Seq(T)]
    BY <1>2, <1>3
  <2>2. \A k \in 1..N : seqs[k] = Units(sent[k])
    BY <1>2
  <2> DEFINE X == Seq(T)
  <2> HIDE DEF seqs, X
  <2>3. seqs \in Seq(X)
    BY <1>2, <2>1, SeqDef DEF X
  <2>4. DOMAIN seqs = 1..N /\ DOMAIN seqs = 1..Len(seqs) /\ Len(seqs) \in Nat
    BY <2>1, <2>3, LenProperties
  <2>5. Len(seqs) = N
    BY <1>2, <2>4
  <2>6. seqs # <<>>
    BY <1>2, <2>5
  <2>7. QED
    BY <2>2, <2>3, <2>5, <2>6 DEF X
<1>5. unread = all
  BY DEF ServerInit
<1> HIDE DEF seqs
<1>6. InTurn(seqs, all, T)
  BY <1>4, Flattened
<1> HIDE DEF all
<1>7. PICK ends \in [0..N -> Nat] :
            /\ ends[0] = 0 /\ ends[N] = Len(all)
            /\ \A k \in 1..N :
                  /\ ends[k] = ends[k - 1] + Len(seqs[k])
                  /\ \A j \in 1..Len(seqs[k]) : all[ends[k - 1] + j] = seqs[k][j]
  BY <1>4, <1>6 DEF InTurn
<1>8. ASSUME NEW k \in 1..N
      PROVE  ends[k] = ends[k - 1] + sent[k].size + 2 /\ LaidAt(all, ends[k - 1], sent[k])
  <2> DEFINE m == sent[k]
             u == Units(m)
             s == ends[k - 1]
             z == m.size
  <2>1. Typed(m) /\ seqs[k] = u
    BY <1>3, <1>4
  <2>2. /\ Len(u) = z + 2
        /\ u[1] = Header(z) /\ u[2] = Blank /\ u[3] = [t |-> "body", message |-> m]
        /\ \A j \in 4..z + 1 : u[j] = [t |-> "rest"]
        /\ u[z + 2] = [t |-> "end"]
    BY <2>1, UnitsAre
  <2>3. s \in Nat /\ z \in Nat /\ z >= 2
    <3>1. k - 1 \in 0..N
      BY <1>2
    <3>2. QED
      BY <1>7, <2>1, <3>1 DEF Typed
  <2>4. ends[k] = s + Len(u) /\ \A j \in 1..Len(u) : all[s + j] = u[j]
    BY <1>7, <2>1
  <2> HIDE DEF u, s, z
  <2>5. ends[k] = s + z + 2 /\ \A j \in 1..z + 2 : all[s + j] = u[j]
    BY <2>2, <2>3, <2>4
  <2>6. 1 \in 1..z + 2 /\ 2 \in 1..z + 2 /\ 3 \in 1..z + 2 /\ z + 2 \in 1..z + 2
    BY <2>3
  <2>7. all[s + 1] = Header(z) /\ all[s + 2] = Blank /\ all[s + 3] = [t |-> "body", message |-> m]
        /\ all[s + (z + 2)] = [t |-> "end"]
    BY <2>2, <2>5, <2>6
  <2>8. s + (z + 2) = s + z + 2
    BY <2>3
  <2>9. ASSUME NEW j \in s + 4 .. s + z + 1 PROVE all[j] = [t |-> "rest"]
    <3>1. j - s \in 4..z + 1 /\ j - s \in 1..z + 2 /\ s + (j - s) = j
      BY <2>3
    <3>2. QED
      BY <2>2, <2>5, <3>1
  <2>10. QED
    BY <2>5, <2>7, <2>8, <2>9 DEF LaidAt, s, z
<1>9. Laid(all, ends)
  <2>1. \E S : all \in Seq(S)
    BY <1>6 DEF InTurn
  <2>2. QED
    BY <1>7, <1>8, <2>1 DEF Laid, N
<1>10. QED
  BY <1>5, <1>9

----------------------------------------------------------------------------
(* The lines of the stream *)

\* What the server has not read is `all` without its first p units.
Remains(all, p) ==
    /\ p \in 0..Len(all)
    /\ \E S : all \in Seq(S) /\ unread \in Seq(S)
    /\ Len(unread) = Len(all) - p
    /\ \A i \in 1..Len(unread) : unread[i] = all[p + i]

EndsLine(u) == u.t \in {"header", "blank"}

\* A line goes up to the first header or blank line.
LEMMA LineReads ==
    ASSUME NEW all, NEW p, Remains(all, p), NEW q \in 1..Len(unread),
           EndsLine(all[p + q]), \A i \in 1..q - 1 : ~EndsLine(all[p + i])
    PROVE  /\ \E S : Line \in Seq(S)
           /\ Len(Line) = q
           /\ \A i \in 1..q : Line[i] = all[p + i]
<1>1. PICK S : all \in Seq(S) /\ unread \in Seq(S)
  BY DEF Remains
<1>2. Len(unread) \in Nat /\ DOMAIN unread = 1..Len(unread) /\ p \in Nat
  BY <1>1, LenProperties DEF Remains
<1>3. \A i \in 1..Len(unread) : i \in LineEnds <=> EndsLine(all[p + i])
  BY <1>2 DEF LineEnds, EndsLine, Remains
<1>4. LineEnds \subseteq 1..Len(unread)
  BY <1>2 DEF LineEnds
<1>5. q \in LineEnds /\ \A i \in LineEnds : q <= i
  <2>1. q \in LineEnds
    BY <1>3
  <2>2. ASSUME NEW i \in LineEnds, ~(q <= i) PROVE FALSE
    <3>1. i \in 1..q - 1 /\ i \in 1..Len(unread)
      BY <1>2, <1>4, <2>2
    <3>2. QED
      BY <1>3, <2>2, <3>1
  <2>3. QED
    BY <2>1, <2>2
<1>6. (CHOOSE i \in LineEnds : \A j \in LineEnds : i <= j) = q
  <2>1. ASSUME NEW i \in LineEnds, \A j \in LineEnds : i <= j PROVE i = q
    BY <1>2, <1>4, <1>5, <2>1
  <2>2. QED
    BY <1>5, <2>1
<1>7. Line = SubSeq(unread, 1, q)
  BY <1>5, <1>6 DEF Line
<1>8. /\ SubSeq(unread, 1, q) \in Seq(S)
      /\ Len(SubSeq(unread, 1, q)) = q
      /\ \A i \in 1..q : SubSeq(unread, 1, q)[i] = unread[i]
  <2>1. 1 \in 1..Len(unread) + 1 /\ q \in 0..Len(unread) /\ 1 <= q + 1
    BY <1>2
  <2>2. /\ SubSeq(unread, 1, q) \in Seq(S)
        /\ Len(SubSeq(unread, 1, q)) = IF 1 <= q THEN q - 1 + 1 ELSE 0
        /\ \A i \in 1..q - 1 + 1 : SubSeq(unread, 1, q)[i] = unread[1 + i - 1]
    BY <1>1, <1>2, <2>1, SubSeqProperties
  <2>3. \A i \in 1..q : i \in 1..q - 1 + 1 /\ 1 + i - 1 = i
    BY <1>2
  <2>4. QED
    BY <1>2, <2>2, <2>3
<1>9. \A i \in 1..q : i \in 1..Len(unread)
  BY <1>2
<1>10. QED
  BY <1>7, <1>8, <1>9 DEF Remains

\* Without one, it goes up to the end.
LEMMA LineRest ==
    ASSUME NEW all, NEW p, Remains(all, p), \A i \in 1..Len(unread) : ~EndsLine(all[p + i])
    PROVE  Line = unread
<1>1. PICK S : unread \in Seq(S)
  BY DEF Remains
<1>2. DOMAIN unread = 1..Len(unread)
  BY <1>1, LenProperties
<1>3. \A i \in DOMAIN unread : unread[i] = all[p + i] /\ ~EndsLine(all[p + i])
  BY <1>2 DEF Remains
<1>4. LineEnds = {}
  BY <1>3 DEF LineEnds, EndsLine
<1>5. QED
  BY <1>4 DEF Line

\* What is read goes from the beginning.
LEMMA BehindRemains ==
    ASSUME NEW all, NEW p, Remains(all, p), NEW n \in 0..Len(unread), unread' = Behind(n)
    PROVE  Remains(all, p + n)'
<1>1. PICK S : all \in Seq(S) /\ unread \in Seq(S)
  BY DEF Remains
<1> DEFINE L == Len(unread)
           rest == SubSeq(unread, n + 1, L)
<1>2. L \in Nat /\ p \in Nat /\ Len(all) \in Nat /\ L = Len(all) - p /\ n \in Nat /\ n <= L
  BY <1>1, LenProperties DEF Remains
<1>3. rest \in Seq(S) /\ Len(rest) = L - n /\ \A i \in 1..L - n : rest[i] = unread[n + i]
  <2>1. n + 1 \in 1..L + 1 /\ L \in 0..L
    BY <1>2
  <2>2. /\ rest \in Seq(S)
        /\ Len(rest) = IF n + 1 <= L THEN L - (n + 1) + 1 ELSE 0
        /\ \A i \in 1..L - (n + 1) + 1 : rest[i] = unread[(n + 1) + i - 1]
    BY <1>1, <1>2, <2>1, SubSeqProperties
  <2> HIDE DEF rest, L
  <2>3. \A i \in 1..L - n : i \in 1..L - (n + 1) + 1 /\ (n + 1) + i - 1 = n + i
    BY <1>2
  <2>4. QED
    BY <1>2, <2>2, <2>3
<1>4. unread' = rest
  BY DEF Behind
<1> HIDE DEF rest
<1>5. \A i \in 1..L - n : unread[n + i] = all[(p + n) + i]
  <2>1. ASSUME NEW i \in 1..L - n PROVE unread[n + i] = all[(p + n) + i]
    <3>1. n + i \in 1..L /\ p + (n + i) = (p + n) + i
      BY <1>2
    <3>2. QED
      BY <3>1 DEF Remains
  <2>2. QED
    BY <2>1
<1>6. p + n \in 0..Len(all) /\ L - n = Len(all) - (p + n)
  BY <1>2
<1>7. QED
  BY <1>1, <1>3, <1>4, <1>5, <1>6 DEF Remains

\* Every request is answered, but for one notification.
LEMMA RequestReplies ==
    ASSUME NEW m, handleRequest(m)
    PROVE  /\ reading' = IF m.method = "shutdown" THEN "stopped" ELSE "messages"
           /\ m.method = "initialized" => replies' = replies
           /\ m.method # "initialized" =>
                 \E result : replies' = Append(replies, [id |-> m.id, result |-> result])
<1>1. reading' = IF m.method = "shutdown" THEN "stopped" ELSE "messages"
  BY DEF handleRequest
<1>2. CASE SynchronizeDocument(m)
  <2>1. m.method # "initialized" /\ Reply(m.id, {})
    BY <1>2 DEF SynchronizeDocument
  <2>2. QED
    BY <1>1, <2>1 DEF Reply
<1>3. CASE AnswerRequest(m)
  <2>1. m.method # "initialized" /\ \E result : Reply(m.id, result)
    BY <1>3 DEF AnswerRequest, Handled, Notifications
  <2>2. QED
    BY <1>1, <2>1 DEF Reply
<1>4. CASE m.method = "shutdown" /\ Reply(m.id, {})
  BY <1>1, <1>4 DEF Reply
<1>5. CASE m.method = "initialized" /\ UNCHANGED <<openDocuments, replies>>
  BY <1>1, <1>5
<1>6. QED
  BY <1>2, <1>3, <1>4, <1>5 DEF handleRequest

\* An answer more is an identity more.
LEMMA IdsAppend ==
    ASSUME NEW S, NEW T, NEW r \in Seq(S), NEW a \in Seq(T), NEW x, NEW m, x.id = m.id, Ids(r) = Ids(a)
    PROVE  Ids(Append(r, x)) = Ids(Append(a, m))
<1>1. /\ Len(r) \in Nat /\ DOMAIN r = 1..Len(r)
      /\ Len(a) \in Nat /\ DOMAIN a = 1..Len(a)
  BY LenProperties
<1>2. DOMAIN r = DOMAIN a /\ \A i \in DOMAIN r : r[i].id = a[i].id
  <2>1. DOMAIN Ids(r) = DOMAIN r /\ DOMAIN Ids(a) = DOMAIN a
    BY DEF Ids
  <2>2. \A i \in DOMAIN r : Ids(r)[i] = r[i].id
    BY DEF Ids
  <2>3. \A i \in DOMAIN a : Ids(a)[i] = a[i].id
    BY DEF Ids
  <2> HIDE DEF Ids
  <2>4. QED
    BY <2>1, <2>2, <2>3
<1>3. Len(r) = Len(a)
  <2> DEFINE n == Len(r)
             l == Len(a)
  <2>1. n \in Nat /\ l \in Nat /\ 1..n = 1..l
    BY <1>1, <1>2
  <2> HIDE DEF n, l
  <2>2. (n # 0 => n \in 1..l) /\ (l # 0 => l \in 1..n)
    BY <2>1
  <2>3. n = l
    BY <2>1, <2>2
  <2>4. QED
    BY <2>3 DEF n, l
<1> DEFINE R == Append(r, x)
           A == Append(a, m)
           n == Len(r)
<1>4. R \in Seq(S \cup {x}) /\ Len(R) = n + 1 /\ (\A i \in 1..n : R[i] = r[i]) /\ R[n + 1] = x
  <2>1. r \in Seq(S \cup {x})
    BY SeqMonotonic
  <2>2. QED
    BY <2>1, AppendProperties
<1>5. A \in Seq(T \cup {m}) /\ Len(A) = n + 1 /\ (\A i \in 1..n : A[i] = a[i]) /\ A[n + 1] = m
  <2>1. a \in Seq(T \cup {m})
    BY SeqMonotonic
  <2>2. QED
    BY <1>3, <2>1, AppendProperties
<1> HIDE DEF R, A, n
<1>6. DOMAIN R = 1..n + 1 /\ DOMAIN A = 1..n + 1
  BY <1>4, <1>5, LenProperties
<1>7. n \in Nat /\ DOMAIN r = 1..n
  BY <1>1 DEF n
<1>8. ASSUME NEW i \in 1..n + 1 PROVE R[i].id = A[i].id
  <2>1. CASE i = n + 1
    BY <1>4, <1>5, <2>1
  <2>2. CASE i # n + 1
    <3>1. i \in 1..n
      BY <1>7, <2>2
    <3>2. QED
      BY <1>2, <1>4, <1>5, <1>7, <3>1
  <2>3. QED
    BY <2>1, <2>2
<1>9. Ids(R) = Ids(A)
  BY <1>6, <1>8 DEF Ids
<1>10. QED
  BY <1>9 DEF R, A

----------------------------------------------------------------------------
(* How far the server has come *)

\* The pieces of the k-th message that its reader leaves.
Left(k) == IF k = 1 THEN sent[1].size ELSE 1

\* The header of the first message is being skipped; or the messages up to the k-th are
\* answered, and the next header is on the line that begins with what is left of that one.
Progress(all, ends) ==
    \/ reading = "header" /\ replies = <<>> /\ \E p \in {0, 1} : Remains(all, p)
    \/ /\ \E S : replies \in Seq(S)
       /\ \E k \in 1..Len(sent) :
             /\ Ids(replies) = Ids(Asked[k])
             /\ \/ reading = "messages" /\ Remains(all, ends[k] - Left(k))
                \/ reading = "messages" /\ k = Len(sent) /\ unread = <<>>
                \/ /\ reading = "stopped"
                   /\ \/ k = Len(sent)
                      \/ Asked[k] # <<>> /\ Last(Asked[k]).method = "shutdown"

\* The replies are those to the messages read, wherever in its stream the server is.
ServerInv == IdsReadable => AllTyped /\ \E all, ends : Laid(all, ends) /\ Progress(all, ends)

LEMMA ServerBegins == ServerInit => ServerInv
<1> SUFFICES ASSUME ServerInit, IdsReadable PROVE ServerInv
  BY DEF ServerInv
<1>1. AllTyped
  BY FirstTyped
<1>2. PICK all, ends : Laid(all, ends) /\ unread = all
  BY FirstLaid
<1>3. Remains(all, 0)
  <2>1. PICK S : all \in Seq(S)
    BY <1>2 DEF Laid
  <2>2. Len(all) \in Nat
    BY <2>1, LenProperties
  <2>3. \A i \in 1..Len(all) : 0 + i = i
    OBVIOUS
  <2>4. QED
    BY <1>2, <2>1, <2>2, <2>3 DEF Remains
<1>4. Progress(all, ends)
  BY <1>3 DEF Progress, ServerInit
<1>5. QED
  BY <1>1, <1>2, <1>4 DEF ServerInv

\* What is known of a message's place in the stream.
LEMMA Places ==
    ASSUME AllTyped, NEW all, NEW ends, Laid(all, ends), NEW k \in 1..Len(sent)
    PROVE  /\ Len(sent) \in Nat /\ 1 \in 1..Len(sent) /\ Len(all) \in Nat
           /\ sent[k].size \in Nat /\ sent[k].size >= 2
           /\ ends[k - 1] \in Nat /\ ends[k] \in Nat
           /\ ends[k] = ends[k - 1] + sent[k].size + 2
           /\ LaidAt(all, ends[k - 1], sent[k])
           /\ ends[k] <= Len(all)
           /\ Left(k) \in 1..sent[k].size
<1> DEFINE N == Len(sent)
<1>1. PICK S : sent \in Seq(S)
  BY DEF AllTyped
<1>2. N \in Nat /\ N # 0 /\ DOMAIN sent = 1..N
  BY <1>1, LenProperties, EmptySeq DEF AllTyped
<1>3. \A j \in 1..N : Typed(sent[j])
  BY <1>2 DEF AllTyped
<1>4. \A j \in 1..N : sent[j].size \in Nat /\ sent[j].size >= 2
  BY <1>3 DEF Typed
<1>5. /\ ends \in [0..N -> Nat] /\ ends[N] = Len(all)
      /\ \A j \in 1..N : ends[j] = ends[j - 1] + sent[j].size + 2 /\ LaidAt(all, ends[j - 1], sent[j])
  BY DEF Laid
<1> HIDE DEF N
<1>6. k - 1 \in 0..N /\ k \in 0..N /\ N \in 0..N /\ 1 \in 1..N /\ k \in 1..N
  BY <1>2 DEF N
<1>7. ends[k] <= ends[N]
  <2> DEFINE T == {j \in 1..N : ends[k] <= ends[j]}
  <2>1. k \in T /\ k \in Nat
    BY <1>2, <1>5, <1>6
  <2>2. ASSUME NEW j \in k + 1 .. N, j - 1 \in T PROVE j \in T
    <3>1. j \in 1..N /\ j - 1 \in 0..N /\ j \in 0..N
      BY <1>2, <1>6
    <3>2. ends[j - 1] \in Nat /\ ends[j] = ends[j - 1] + sent[j].size + 2 /\ ends[k] \in Nat
      BY <1>5, <1>6, <3>1
    <3>3. ends[k] <= ends[j - 1] /\ sent[j].size \in Nat
      BY <1>4, <2>2, <3>1
    <3>4. QED
      BY <3>1, <3>2, <3>3
  <2>3. k..N \subseteq T
    <3> HIDE DEF T
    <3>1. \A j \in k + 1 .. N : j - 1 \in T => j \in T
      BY <2>2
    <3>2. QED
      BY <1>2, <2>1, <3>1, Along
  <2>4. N \in T
    BY <1>2, <1>6, <2>3
  <2>5. QED
    BY <2>4
<1>8. Left(k) \in 1..sent[k].size
  <2>1. sent[k].size \in Nat /\ sent[k].size >= 2
    BY <1>4, <1>6
  <2>2. CASE k = 1
    BY <2>1, <2>2 DEF Left
  <2>3. CASE k # 1
    BY <2>1, <2>3 DEF Left
  <2>4. QED
    BY <2>2, <2>3
<1>9. QED
  BY <1>2, <1>4, <1>5, <1>6, <1>7, <1>8 DEF N

\* The line behind what is left of a message that is answered is the next header's.
LEMMA NextLine ==
    ASSUME AllTyped, NEW all, NEW ends, Laid(all, ends), NEW k \in 1..Len(sent),
           Remains(all, ends[k] - Left(k)), k # Len(sent)
    PROVE  /\ k + 1 \in 1..Len(sent)
           /\ Len(Line) = Left(k) + 1
           /\ Line[Left(k) + 1] = Header(sent[k + 1].size)
           /\ Left(k) + 1 + sent[k + 1].size \in 0..Len(unread)
<1> DEFINE e == ends[k]
           l == Left(k)
           z == sent[k].size
           y == sent[k + 1].size
           s == ends[k - 1]
           p == e - l
           M == Len(all)
           L == Len(unread)
<1>1. k + 1 \in 1..Len(sent) /\ (k + 1) - 1 = k
  BY Places
<1>2. /\ z \in Nat /\ s \in Nat /\ e \in Nat /\ e = s + z + 2 /\ l \in 1..z /\ LaidAt(all, s, sent[k])
      /\ z >= 2
  BY Places
<1>3. y \in Nat /\ y >= 2 /\ ends[k + 1] = e + y + 2 /\ ends[k + 1] <= M /\ M \in Nat /\ LaidAt(all, e, sent[k + 1])
  BY <1>1, Places
<1>4. L = M - p
  BY DEF Remains
<1>5. Remains(all, p)
  OBVIOUS
<1> HIDE DEF e, l, z, y, s, M, L
<1>6. l + 1 \in 1..L /\ l + 1 + y \in 0..L
  BY <1>2, <1>3, <1>4
<1>7. p + (l + 1) = e + 1
  BY <1>2
<1>8. all[p + (l + 1)] = Header(y)
  BY <1>3, <1>7 DEF LaidAt, y
<1>9. EndsLine(all[p + (l + 1)])
  BY <1>8 DEF EndsLine, Header
<1>10. ASSUME NEW i \in 1..(l + 1) - 1 PROVE ~EndsLine(all[p + i])
  <2>1. p + i \in s + 3 .. s + z + 2
    BY <1>2
  <2>2. CASE p + i = s + 3
    <3>1. all[p + i] = [t |-> "body", message |-> sent[k]]
      BY <1>2, <2>2 DEF LaidAt
    <3>2. QED
      BY <3>1 DEF EndsLine
  <2>3. CASE p + i = s + z + 2
    <3>1. all[p + i] = [t |-> "end"]
      BY <1>2, <2>3 DEF LaidAt, z
    <3>2. QED
      BY <3>1 DEF EndsLine
  <2>4. CASE p + i # s + 3 /\ p + i # s + z + 2
    <3>1. p + i \in s + 4 .. s + z + 1
      BY <1>2, <2>1, <2>4
    <3>2. all[p + i] = [t |-> "rest"]
      BY <1>2, <3>1 DEF LaidAt, z
    <3>3. QED
      BY <3>2 DEF EndsLine
  <2>5. QED
    BY <2>2, <2>3, <2>4
<1> HIDE DEF p
<1>11. Len(Line) = l + 1 /\ \A i \in 1..l + 1 : Line[i] = all[p + i]
  BY <1>5, <1>6, <1>9, <1>10, LineReads DEF L
<1>12. Line[l + 1] = Header(y)
  <2>1. l + 1 \in 1..l + 1
    BY <1>2
  <2>2. QED
    BY <1>8, <1>11, <2>1
<1>13. QED
  BY <1>1, <1>6, <1>11, <1>12 DEF l, y, L

\* What is read behind that line is the message whose header ends it: all but its end.
LEMMA NextBody ==
    ASSUME AllTyped, NEW all, NEW ends, Laid(all, ends), NEW k \in 1..Len(sent),
           Remains(all, ends[k] - Left(k)), k # Len(sent)
    PROVE  LET m == sent[k + 1] IN
           Parsed(SubSeq(unread, Left(k) + 1 + 1, Left(k) + 1 + m.size))
               = Received(m, FALSE)
<1> DEFINE m == sent[k + 1]
           e == ends[k]
           l == Left(k)
           y == m.size
           p == e - l
           L == Len(unread)
           body == SubSeq(unread, l + 1 + 1, l + 1 + y)
<1>1. PICK S : unread \in Seq(S)
  BY DEF Remains
<1>2. k + 1 \in 1..Len(sent) /\ (k + 1) - 1 = k /\ l + 1 + y \in 0..L
  <2>1. k + 1 \in 1..Len(sent) /\ (k + 1) - 1 = k
    BY Places
  <2>2. l + 1 + y \in 0..L
    BY NextLine
  <2>3. QED
    BY <2>1, <2>2
<1>3. e \in Nat /\ l \in Nat /\ y \in Nat /\ y >= 2 /\ LaidAt(all, e, m)
  <2>1. l \in Nat
    <3>1. Left(k) \in 1..sent[k].size /\ sent[k].size \in Nat
      BY Places
    <3>2. QED
      BY <3>1
  <2>2. y \in Nat /\ y >= 2 /\ ends[(k + 1) - 1] \in Nat /\ LaidAt(all, ends[(k + 1) - 1], m)
    BY <1>2, Places
  <2>3. QED
    BY <1>2, <2>1, <2>2
<1>4. L \in Nat /\ \A i \in 1..L : unread[i] \in S /\ unread[i] = all[p + i]
  BY <1>1, LenProperties DEF Remains
<1> HIDE DEF e, l, y, L, p, m
<1>5. body \in Seq(S) /\ Len(body) = y /\ \A i \in 1..y : body[i] = unread[l + 1 + i]
  <2>1. l + 1 + 1 \in Int /\ l + 1 + y \in Int /\ l + 1 + 1 <= l + 1 + y
        /\ (l + 1 + y) - (l + 1 + 1) + 1 = y
    BY <1>3
  <2>2. \A i \in l + 1 + 1 .. l + 1 + y : unread[i] \in S
    BY <1>2, <1>3, <1>4
  <2>3. /\ body \in Seq(S) /\ Len(body) = (l + 1 + y) - (l + 1 + 1) + 1
        /\ \A i \in 1..(l + 1 + y) - (l + 1 + 1) + 1 : body[i] = unread[(l + 1 + 1) + i - 1]
    BY <2>1, <2>2, SubSeqProperties
  <2> HIDE DEF body
  <2>4. \A i \in 1..y : (l + 1 + 1) + i - 1 = l + 1 + i
    BY <1>3
  <2>5. QED
    BY <2>1, <2>3, <2>4
<1> HIDE DEF body
<1>6. \A i \in 1..y : body[i] = all[e + 1 + i]
  <2>1. ASSUME NEW i \in 1..y PROVE body[i] = all[e + 1 + i]
    <3>1. l + 1 + i \in 1..L /\ p + (l + 1 + i) = e + 1 + i
      BY <1>2, <1>3, <1>4 DEF p
    <3>2. QED
      BY <1>4, <1>5, <3>1
  <2>2. QED
    BY <2>1
<1>7. body[1] = Blank /\ body[2] = [t |-> "body", message |-> m]
  <2>1. 1 \in 1..y /\ 2 \in 1..y /\ e + 1 + 1 = e + 2 /\ e + 1 + 2 = e + 3
    BY <1>3
  <2>2. QED
    BY <1>3, <1>6, <2>1 DEF LaidAt
<1>8. \A i \in 3..y : body[i] = [t |-> "rest"]
  <2>1. \A i \in 3..y : i \in 1..y /\ e + 1 + i \in e + 4 .. e + m.size + 1
    BY <1>3 DEF y
  <2>2. QED
    BY <1>3, <1>6, <2>1 DEF LaidAt
<1>9. DOMAIN body = 1..y
  BY <1>5, LenProperties
<1>10. (CHOOSE i \in DOMAIN body : body[i].t = "body") = 2
  <2>1. 2 \in DOMAIN body /\ body[2].t = "body"
    BY <1>3, <1>7, <1>9
  <2>2. ASSUME NEW i \in DOMAIN body, body[i].t = "body" PROVE i = 2
    <3>1. body[1].t = "blank"
      BY <1>7 DEF Blank
    <3>2. \A j \in 3..y : body[j].t = "rest"
      BY <1>8
    <3>3. i \in 1..y /\ i # 1 /\ i \notin 3..y
      BY <1>9, <2>2, <3>1, <3>2
    <3>4. QED
      BY <1>3, <3>3
  <2>3. QED
    BY <2>1, <2>2
<1>11. Last(body).t # "end"
  <2>1. CASE y = 2
    BY <1>5, <1>7, <2>1 DEF Last
  <2>2. CASE y # 2
    <3>1. y \in 3..y
      BY <1>3, <2>2
    <3>2. QED
      BY <1>5, <1>8, <3>1 DEF Last
  <2>3. QED
    BY <2>1, <2>2
<1>12. body[2].message = m
  BY <1>7
<1>13. body[CHOOSE i \in DOMAIN body : body[i].t = "body"].message = m /\ (Last(body).t = "end") = FALSE
  BY <1>10, <1>11, <1>12
<1>14. Parsed(body) = Received(m, FALSE)
  BY <1>13 DEF Parsed
<1>16. QED
  BY <1>14 DEF body, l, m, y

\* A message without its end has its identity, and the same method or none.
LEMMA ReceivedIs ==
    ASSUME NEW m, Typed(m), m.last # "id"
    PROVE  /\ Received(m, FALSE).id = m.id
           /\ Received(m, FALSE).method = "initialized" <=> m.method = "initialized"
           /\ Received(m, FALSE).method = "shutdown" => m.method = "shutdown"
           /\ ~Unreadable(Received(m, FALSE))
<1>1. CASE m.last # "method"
  <2>1. Received(m, FALSE) = m
    BY <1>1 DEF Received
  <2>2. QED
    BY <2>1 DEF Unreadable
<1>2. CASE m.last = "method"
  <2> DEFINE r == [m EXCEPT !.method = ""]
  <2>1. Received(m, FALSE) = r
    BY <1>2 DEF Received
  <2>2. m = [id |-> m.id, method |-> m.method, uri |-> m.uri, size |-> m.size, last |-> m.last]
    BY DEF Typed
  <2>3. r.id = m.id /\ r.method = "" /\ r.last = m.last
    BY <2>2
  <2>4. m.method \in Bare
    BY <1>2 DEF Typed
  <2> HIDE DEF r
  <2>5. QED
    BY <1>2, <2>1, <2>3, <2>4 DEF Bare, Unreadable
<1>3. QED
  BY <1>1, <1>2

\* The next message is read whole, and answered as it asks.
LEMMA MessageProgress ==
    ASSUME AllTyped, NEW all, NEW ends, Laid(all, ends), NEW k \in 1..Len(sent),
           NEW S, replies \in Seq(S), Ids(replies) = Ids(Asked[k]),
           reading = "messages", Remains(all, ends[k] - Left(k)), k # Len(sent), ReadMessage
    PROVE  Progress(all, ends)'
<1> DEFINE m == sent[k + 1]
           l == Left(k)
           y == m.size
           r == Received(m, FALSE)
           e == ends[k]
           L == Len(unread)
<1>1. /\ k + 1 \in 1..Len(sent) /\ k + 1 \in 2..Len(sent) /\ (k + 1) - 1 = k /\ k + 1 # 1 /\ Len(sent) \in Nat
  BY Places
<1>2. Len(Line) = l + 1 /\ Line[l + 1] = Header(y) /\ l + 1 + y \in 0..L
  BY NextLine
<1>3. Last(Line) = Header(y)
  BY <1>2 DEF Last
<1>4. HasHeader(Line) /\ Last(Line).n = y
  BY <1>3 DEF HasHeader, Header
<1>5. Parsed(SubSeq(unread, l + 1 + 1, l + 1 + y)) = r
  BY NextBody
<1>6. e \in Nat /\ l \in Nat /\ y \in Nat /\ ends[k + 1] = e + y + 2 /\ LaidAt(all, e, m)
  BY <1>1, Places
<1>7. Typed(m) /\ m.last # "id"
  <2>1. DOMAIN sent = 1..Len(sent)
    BY LenProperties DEF AllTyped
  <2>2. QED
    BY <1>1, <2>1 DEF AllTyped, IdsReadable
<1>28. ~Unreadable(r)
  BY <1>7, ReceivedIs
<1>27. PICK p, q : p = ends[k] - l /\ q = l + 1 + y
  OBVIOUS
<1>8. Remains(all, p)
  BY <1>27
<1>9. unread' = Behind(l + 1 + y) /\ handleRequest(r) /\ sent' = sent
  BY <1>2, <1>4, <1>5, <1>28 DEF ReadMessage
<1> HIDE DEF m, y, r, e, L, l
<1>10. Remains(all, p + q)'
  <2>1. q \in 0..Len(unread) /\ unread' = Behind(q)
    BY <1>2, <1>9, <1>27 DEF L
  <2>2. QED
    BY <1>8, <2>1, BehindRemains
<1>11. p + q = ends[k + 1] - 1
  BY <1>6, <1>27 DEF e
<1>12. Left(k + 1)' = 1
  BY <1>1, <1>9 DEF Left
<1>13. Remains(all, ends[k + 1] - Left(k + 1))'
  BY <1>10, <1>11, <1>12 DEF Remains
<1>14. /\ r.id = m.id
       /\ r.method = "initialized" <=> m.method = "initialized"
       /\ r.method = "shutdown" => m.method = "shutdown"
  BY <1>7, ReceivedIs DEF r
<1>15. PICK T : sent \in Seq(T) /\ sent # <<>>
  BY DEF AllTyped
<1>16. /\ Asked[k] \in Seq(T) /\ m \in T
       /\ Asked[k + 1] = IF m.method = "initialized" THEN Asked[k] ELSE Append(Asked[k], m)
  <2>1. m \in T
    BY <1>1, <1>15, LenProperties DEF m
  <2>2. QED
    BY <1>1, <1>15, <2>1, AskedSteps DEF m
<1>17. Asked' = Asked
  BY <1>9 DEF Asked
<1>18. reading' = IF r.method = "shutdown" THEN "stopped" ELSE "messages"
  BY <1>9, RequestReplies
<1>19. (\E X : replies' \in Seq(X)) /\ Ids(replies)' = Ids(Asked[k + 1])
  <2>1. CASE m.method = "initialized"
    <3>1. replies' = replies
      BY <1>9, <1>14, <2>1, RequestReplies
    <3>2. QED
      BY <1>16, <2>1, <3>1 DEF Ids
  <2>2. CASE m.method # "initialized"
    <3>1. PICK result : replies' = Append(replies, [id |-> r.id, result |-> result])
      BY <1>9, <1>14, <2>2, RequestReplies
    <3> DEFINE x == [id |-> r.id, result |-> result]
    <3>2. x.id = m.id
      BY <1>14
    <3> HIDE DEF x
    <3>3. Ids(Append(replies, x)) = Ids(Append(Asked[k], m))
      BY <1>16, <3>2, IdsAppend
    <3>4. replies' = Append(replies, x)
      BY <3>1 DEF x
    <3>5. replies' \in Seq(S \cup {x})
      <4>1. replies \in Seq(S \cup {x})
        BY SeqMonotonic
      <4>2. QED
        BY <3>4, <4>1, AppendProperties
    <3>6. Ids(replies)' = Ids(Append(replies, x))
      BY <3>4 DEF Ids
    <3>7. QED
      BY <1>16, <2>2, <3>3, <3>5, <3>6
  <2>3. QED
    BY <2>1, <2>2
<1>20. Ids(Asked[k + 1])' = Ids(Asked[k + 1])
  BY <1>17 DEF Ids
<1>21. reading' = "stopped" => Asked[k + 1] # <<>> /\ Last(Asked[k + 1]).method = "shutdown"
  <2> SUFFICES ASSUME reading' = "stopped" PROVE Asked[k + 1] # <<>> /\ Last(Asked[k + 1]).method = "shutdown"
    OBVIOUS
  <2>1. m.method = "shutdown"
    BY <1>14, <1>18
  <2>2. Asked[k + 1] = Append(Asked[k], m)
    BY <1>16, <2>1
  <2>3. /\ Append(Asked[k], m) \in Seq(T)
        /\ Len(Append(Asked[k], m)) = Len(Asked[k]) + 1
        /\ Append(Asked[k], m)[Len(Asked[k]) + 1] = m
        /\ Append(Asked[k], m) # <<>>
    BY <1>16, AppendProperties
  <2>4. QED
    BY <2>1, <2>2, <2>3 DEF Last
<1>22. reading' \in {"messages", "stopped"}
  BY <1>18
<1>23. k + 1 \in 1..Len(sent')
  BY <1>1, <1>9
<1>24. reading' = "stopped" => Asked'[k + 1] # <<>> /\ Last(Asked'[k + 1]).method = "shutdown"
  BY <1>17, <1>21
<1>25. Ids(replies)' = Ids(Asked[k + 1])'
  BY <1>19, <1>20
<1>26. QED
  BY <1>13, <1>19, <1>22, <1>23, <1>24, <1>25 DEF Progress

\* Behind the last message there is nothing to answer.
LEMMA LastProgress ==
    ASSUME AllTyped, NEW all, NEW ends, Laid(all, ends), NEW k \in 1..Len(sent),
           NEW S, replies \in Seq(S), Ids(replies) = Ids(Asked[k]),
           reading = "messages", Remains(all, ends[k] - Left(k)), k = Len(sent), ReadMessage
    PROVE  Progress(all, ends)'
<1> DEFINE e == ends[k]
           l == Left(k)
           z == sent[k].size
           s == ends[k - 1]
           p == e - l
           M == Len(all)
           L == Len(unread)
<1>1. /\ z \in Nat /\ s \in Nat /\ e \in Nat /\ e = s + z + 2 /\ l \in 1..z /\ LaidAt(all, s, sent[k])
      /\ z >= 2 /\ M \in Nat
  BY Places
<1>2. e = M /\ L = M - p /\ Remains(all, p)
  BY DEF Laid, Remains
<1>12. PICK T : unread \in Seq(T)
  BY DEF Remains
<1>13. DOMAIN unread = 1..L /\ L \in Nat
  BY <1>12, LenProperties
<1> HIDE DEF e, l, z, s, M, L
<1>3. L = l /\ L \in Nat /\ L # 0
  BY <1>1, <1>2
<1>4. ASSUME NEW i \in 1..L
      PROVE  /\ ~EndsLine(all[p + i])
             /\ i = L => all[p + i] = [t |-> "end"]
  <2>1. p + i \in s + 3 .. s + z + 2 /\ (i = L => p + i = s + z + 2)
    BY <1>1, <1>2, <1>3
  <2>2. CASE p + i = s + 3
    <3>1. all[p + i] = [t |-> "body", message |-> sent[k]]
      BY <1>1, <2>2 DEF LaidAt
    <3>2. s + 3 # s + z + 2
      BY <1>1
    <3>3. QED
      BY <2>1, <2>2, <3>1, <3>2 DEF EndsLine
  <2>3. CASE p + i = s + z + 2
    <3>1. all[p + i] = [t |-> "end"]
      BY <1>1, <2>3 DEF LaidAt, z
    <3>2. QED
      BY <3>1 DEF EndsLine
  <2>4. CASE p + i # s + 3 /\ p + i # s + z + 2
    <3>1. p + i \in s + 4 .. s + z + 1
      BY <1>1, <2>1, <2>4
    <3>2. all[p + i] = [t |-> "rest"]
      BY <1>1, <3>1 DEF LaidAt, z
    <3>3. QED
      BY <2>1, <2>4, <3>2 DEF EndsLine
  <2>5. QED
    BY <2>2, <2>3, <2>4
<1> HIDE DEF p
<1>5. Line = unread
  BY <1>2, <1>4, LineRest DEF L
<1>6. Last(Line).t = "end"
  <2>1. L \in 1..L
    BY <1>3
  <2>2. all[p + L] = [t |-> "end"]
    BY <1>4, <2>1
  <2>3. unread[L] = all[p + L]
    BY <1>2, <2>1 DEF Remains, L
  <2>4. QED
    BY <1>5, <2>2, <2>3 DEF Last, L
<1>7. unread' = Behind(Len(unread)) /\ UNCHANGED <<reading, openDocuments, replies, sent>>
  BY <1>5, <1>6 DEF ReadMessage, HasHeader
<1>8. unread' = <<>>
  <2>1. Behind(Len(unread)) = SubSeq(unread, L + 1, L)
    BY DEF Behind, L
  <2>2. SubSeq(unread, L + 1, L) = <<>>
    BY <1>3, SubSeqEmpty
  <2>3. QED
    BY <1>7, <2>1, <2>2
<1>9. Asked' = Asked /\ Ids(replies)' = Ids(replies)
  BY <1>7 DEF Asked, Ids
<1>10. Ids(Asked[k])' = Ids(Asked[k])
  BY <1>9 DEF Ids
<1>11. QED
  BY <1>7, <1>8, <1>9, <1>10 DEF Progress

\* The header of the first message is two lines; its body is left for the next one.
LEMMA HeaderProgress ==
    ASSUME AllTyped, NEW all, NEW ends, Laid(all, ends), reading = "header", replies = <<>>,
           NEW p \in {0, 1}, Remains(all, p), SkipHeaders
    PROVE  Progress(all, ends)'
<1> DEFINE z == sent[1].size
           L == Len(unread)
<1>1. /\ 1 \in 1..Len(sent) /\ ends[0] = 0
      /\ z \in Nat /\ z >= 2 /\ ends[1] = z + 2 /\ ends[1] <= Len(all) /\ LaidAt(all, 0, sent[1])
  <2>1. 1 \in 1..Len(sent)
    <3>1. Len(sent) \in Nat /\ Len(sent) # 0
      BY LenProperties, EmptySeq DEF AllTyped
    <3>2. QED
      BY <3>1
  <2>2. ends[0] = 0 /\ 1 - 1 = 0
    BY DEF Laid
  <2>3. z \in Nat /\ z >= 2 /\ ends[1] = ends[1 - 1] + z + 2 /\ ends[1] <= Len(all) /\ LaidAt(all, ends[1 - 1], sent[1])
    BY <2>1, Places
  <2>4. QED
    BY <2>1, <2>2, <2>3
<1>2. L = Len(all) - p /\ Len(all) \in Nat
  <2>1. L = Len(all) - p
    BY DEF Remains
  <2>2. Len(all) \in Nat
    BY <1>1, Places
  <2>3. QED
    BY <2>1, <2>2
<1>3. all[0 + 1] = Header(z) /\ all[1 + 1] = Blank
  BY <1>1 DEF LaidAt
<1> HIDE DEF z, L
<1>4. 1 \in 1..L /\ 1 \in 0..L
  BY <1>1, <1>2
<1>5. EndsLine(all[p + 1]) /\ all[p + 1] = IF p = 0 THEN Header(z) ELSE Blank
  BY <1>3 DEF EndsLine, Header, Blank
<1>6. Len(Line) = 1 /\ Line[1] = all[p + 1] /\ \E S : Line \in Seq(S)
  <2>1. \A i \in 1..1 - 1 : ~EndsLine(all[p + i])
    OBVIOUS
  <2>2. PICK q, at : q = 1 /\ at = p
    OBVIOUS
  <2>3. /\ Remains(all, at) /\ q \in 1..Len(unread) /\ EndsLine(all[at + q])
        /\ \A i \in 1..q - 1 : ~EndsLine(all[at + i])
    BY <1>4, <1>5, <2>2 DEF L
  <2>4. Len(Line) = q /\ (\E S : Line \in Seq(S)) /\ \A i \in 1..q : Line[i] = all[at + i]
    <3> HIDE DEF Line
    <3>1. QED
      BY ONLY <2>3, LineReads
  <2>5. QED
    BY <2>2, <2>4
<1>7. unread' = Behind(1) /\ UNCHANGED <<sent, openDocuments, replies>>
      /\ reading' = IF Line = <<Blank>> THEN "messages" ELSE "header"
  BY <1>6 DEF SkipHeaders
<1>8. Remains(all, p + 1)'
  BY <1>4, <1>7, BehindRemains DEF L
<1>9. CASE p = 0
  <2>1. Line[1].t = "header"
    BY <1>5, <1>6, <1>9 DEF Header
  <2>2. Line # <<Blank>>
    BY <2>1 DEF Blank
  <2>3. Remains(all, 1)'
    BY <1>8, <1>9 DEF Remains
  <2>4. QED
    BY <1>7, <2>2, <2>3 DEF Progress
<1>10. CASE p = 1
  <2>1. Line = <<Blank>>
    <3>2. PICK S : Line \in Seq(S)
      BY <1>6
    <3>3. DOMAIN Line = 1..1 /\ Line[1] = Blank
      BY <1>5, <1>6, <1>10, <3>2, LenProperties
    <3>4. QED
      BY <3>2, <3>3, <1>6
  <2>2. sent' = sent /\ Left(1)' = z
    BY <1>7 DEF Left, z
  <2>3. ends[1] - z = p + 1
    BY <1>1, <1>10
  <2>4. Remains(all, ends[1] - Left(1))'
    BY <1>8, <2>2, <2>3 DEF Remains
  <2>5. PICK T : sent \in Seq(T) /\ sent # <<>>
    BY DEF AllTyped
  <2>6. Asked[1] = <<>>
    BY <2>5, AskedSteps
  <2>7. Asked' = Asked
    BY <2>2 DEF Asked
  <2>8. replies' = Asked'[1] /\ replies' = <<>>
    BY <1>7, <2>6, <2>7
  <2>9. Ids(replies)' = Ids(Asked[1])'
    BY <2>8 DEF Ids
  <2>10. reading' = "messages" /\ 1 \in 1..Len(sent') /\ \E S : replies' \in Seq(S)
    <3>1. replies' \in Seq({})
      BY <2>8
    <3>2. QED
      BY <1>1, <1>7, <2>1, <2>2, <3>1
  <2>11. QED
    BY <2>4, <2>9, <2>10 DEF Progress
<1>11. QED
  BY <1>9, <1>10

LEMMA ServerSteps == ServerInv /\ [ServerNext]_serverVars => ServerInv'
<1> SUFFICES ASSUME ServerInv, [ServerNext]_serverVars, IdsReadable' PROVE ServerInv'
  BY DEF ServerInv
<1>1. sent' = sent
  BY DEF ServerNext, serverVars, SkipHeaders, ReadMessage, EndOfInput
<1>10. IdsReadable
  BY <1>1 DEF IdsReadable
<1>2. AllTyped /\ AllTyped'
  BY <1>1, <1>10 DEF ServerInv, AllTyped, IdsReadable
<1>3. PICK all, ends : Laid(all, ends) /\ Progress(all, ends)
  BY <1>10 DEF ServerInv
<1>4. Laid(all, ends)'
  BY <1>1, <1>3 DEF Laid
<1>5. Asked' = Asked
  BY <1>1 DEF Asked
<1>6. \A k : Ids(Asked[k])' = Ids(Asked[k]) /\ Left(k)' = Left(k)
  BY <1>1, <1>5 DEF Ids, Left
<1>7. ASSUME NEW p, Remains(all, p) PROVE unread = <<>> => p = Len(all)
  BY <1>7 DEF Remains
<1>8. Progress(all, ends)'
  <2>1. CASE UNCHANGED serverVars
    <3>1. unread' = unread /\ reading' = reading /\ replies' = replies
      BY <2>1 DEF serverVars
    <3>2. Ids(replies)' = Ids(replies)
      BY <3>1 DEF Ids
    <3>3. ASSUME NEW p, Remains(all, p) PROVE Remains(all, p)'
      BY <3>1, <3>3 DEF Remains
    <3>4. \A k \in 1..Len(sent) : Remains(all, ends[k] - Left(k)) => Remains(all, ends[k] - Left(k))'
      BY <1>6, <3>1 DEF Remains
    <3>5. QED
      BY <1>1, <1>3, <1>5, <1>6, <3>1, <3>2, <3>3, <3>4 DEF Progress
  <2>2. CASE SkipHeaders
    <3>1. reading = "header"
      BY <2>2 DEF SkipHeaders
    <3>2. replies = <<>> /\ \E p \in {0, 1} : Remains(all, p)
      BY <1>3, <3>1 DEF Progress
    <3>3. QED
      BY <1>2, <1>3, <2>2, <3>1, <3>2, HeaderProgress
  <2>3. CASE ReadMessage
    <3>1. reading = "messages" /\ unread # <<>>
      BY <2>3 DEF ReadMessage
    <3>2. PICK S : replies \in Seq(S)
      BY <1>3, <3>1 DEF Progress
    <3>3. PICK k \in 1..Len(sent) : Ids(replies) = Ids(Asked[k]) /\ Remains(all, ends[k] - Left(k))
      BY <1>3, <3>1 DEF Progress
    <3>4. QED
      BY <1>2, <1>3, <2>3, <3>1, <3>2, <3>3, MessageProgress, LastProgress
  <2>4. CASE EndOfInput
    <3>1. reading # "stopped" /\ unread = <<>> /\ reading' = "stopped" /\ replies' = replies
      BY <2>4 DEF EndOfInput
    <3>2. 1 \in 1..Len(sent)
      <4>1. Len(sent) \in Nat /\ Len(sent) # 0
        BY <1>2, LenProperties, EmptySeq DEF AllTyped
      <4>2. QED
        BY <4>1
    <3>3. \A p \in {0, 1} : ~Remains(all, p)
      <4>1. ends[1] <= Len(all) /\ ends[1] = ends[1 - 1] + sent[1].size + 2 /\ ends[1 - 1] \in Nat
            /\ sent[1].size \in Nat /\ Len(all) \in Nat
        BY <1>2, <1>3, <3>2, Places
      <4>2. Len(all) > 1
        BY <4>1
      <4>3. QED
        BY <1>7, <3>1, <4>2
    <3>4. \A k \in 1..Len(sent) : ~Remains(all, ends[k] - Left(k))
      <4>1. ASSUME NEW k \in 1..Len(sent), Remains(all, ends[k] - Left(k)) PROVE FALSE
        <5>1. ends[k] <= Len(all) /\ ends[k] \in Nat /\ Len(all) \in Nat /\ Left(k) \in 1..sent[k].size
              /\ sent[k].size \in Nat
          BY <1>2, <1>3, Places
        <5>2. ends[k] - Left(k) = Len(all)
          BY <1>7, <3>1, <4>1
        <5>3. QED
          BY <5>1, <5>2
      <4>2. QED
        BY <4>1
    <3>5. PICK k \in 1..Len(sent) : Ids(replies) = Ids(Asked[k]) /\ k = Len(sent)
      BY <1>3, <3>1, <3>3, <3>4 DEF Progress
    <3>6. \E S : replies \in Seq(S)
      BY <1>3, <3>1, <3>3 DEF Progress
    <3>7. Ids(replies)' = Ids(replies)
      BY <3>1 DEF Ids
    <3>8. Ids(replies)' = Ids(Asked[k])' /\ k = Len(sent') /\ k \in 1..Len(sent')
      BY <1>1, <1>6, <3>5, <3>7
    <3>9. QED
      BY <3>1, <3>6, <3>8 DEF Progress
  <2>5. QED
    BY <2>1, <2>2, <2>3, <2>4 DEF ServerNext
<1>9. QED
  BY <1>2, <1>4, <1>8 DEF ServerInv

\* The replies of any state that can be reached are the answers to the messages in order.
LEMMA InvAnswers == ServerInv => AnswersInOrder
<1> SUFFICES ASSUME ServerInv, IdsReadable PROVE AnswersInOrder
  BY DEF AnswersInOrder
<1>1. PICK T : sent \in Seq(T) /\ sent # <<>>
  BY DEF ServerInv, AllTyped
<1> DEFINE N == Len(sent)
<1>2. N \in Nat /\ 1 \in 1..N /\ N \in 1..N /\ Asked[1] = <<>> /\ \A k \in 1..N : Asked[k] \in Seq(T)
  BY <1>1, AskedSteps
<1>3. PICK k \in 1..N :
        /\ \E S : replies \in Seq(S)
        /\ Ids(replies) = Ids(Asked[k])
        /\ reading = "stopped" => \/ k = N
                                  \/ Asked[k] # <<>> /\ Last(Asked[k]).method = "shutdown"
  <2>1. CASE reading = "header" /\ replies = <<>>
    <3>1. replies \in Seq({}) /\ Ids(replies) = Ids(Asked[1])
      BY <1>2, <2>1 DEF Ids
    <3>2. reading # "stopped"
      BY <2>1
    <3>3. QED
      BY <1>2, <3>1, <3>2
  <2>2. CASE ~(reading = "header" /\ replies = <<>>)
    BY <2>2 DEF ServerInv, Progress
  <2>3. QED
    BY <2>1, <2>2
<1>4. PICK S : replies \in Seq(S)
  BY <1>3
<1> DEFINE a == Asked[k]
           A == Answerable
           n == Len(a)
<1>5. /\ a \in Seq(T) /\ A \in Seq(T)
      /\ n \in Nat /\ Len(A) \in Nat /\ n <= Len(A) /\ \A i \in 1..n : A[i] = a[i]
  <2>1. a \in Seq(T) /\ A \in Seq(T)
    BY <1>2 DEF Answerable
  <2>2. QED
    BY <1>1, <2>1, AskedGrows
<1>6. DOMAIN a = 1..n /\ DOMAIN A = 1..Len(A) /\ DOMAIN replies = 1..Len(replies) /\ Len(replies) \in Nat
  BY <1>4, <1>5, LenProperties
<1> HIDE DEF a, A, n, N
<1>7. Len(replies) = n
  <2>1. DOMAIN Ids(replies) = DOMAIN replies /\ DOMAIN Ids(a) = DOMAIN a
    BY DEF Ids
  <2>2. 1..Len(replies) = 1..n
    BY <1>3, <1>6, <2>1 DEF a
  <2> DEFINE r == Len(replies)
  <2>3. r \in Nat /\ 1..r = 1..n
    BY <1>6, <2>2
  <2> HIDE DEF r
  <2>4. (n # 0 => n \in 1..r) /\ (r # 0 => r \in 1..n)
    BY <1>5, <2>3
  <2>5. n = r
    BY <1>5, <2>3, <2>4
  <2>6. QED
    BY <2>5 DEF r
<1>8. IsPrefix(Ids(replies), Ids(A))
  <2> DEFINE X == {a[i].id : i \in 1..n} \cup {A[i].id : i \in 1..Len(A)}
             u == Ids(a)
             w == Ids(A)
  <2>1. u \in [1..n -> X] /\ w \in [1..Len(A) -> X] /\ (\A i \in 1..n : u[i] = a[i].id) /\ \A i \in 1..Len(A) : w[i] = A[i].id
    BY <1>6 DEF Ids
  <2> HIDE DEF X, u, w
  <2>8. n \in Nat /\ Len(A) \in Nat
    BY <1>5
  <2>9. u \in Seq(X)
    BY <2>1, <2>8, SeqDef
  <2>10. w \in Seq(X)
    BY <2>1, <2>8, SeqDef
  <2>2. u \in Seq(X) /\ w \in Seq(X)
    BY <2>9, <2>10
  <2>3. Len(u) = n /\ Len(w) = Len(A)
    <3>1. DOMAIN u = 1..n /\ DOMAIN w = 1..Len(A)
      BY <2>1
    <3>2. u \in Seq(X) => Len(u) = n
      BY <1>5, <3>1
    <3>3. w \in Seq(X) => Len(w) = Len(A)
      BY <1>5, <3>1
    <3>4. QED
      BY <2>2, <3>2, <3>3
  <2>4. \A i \in 1..n : u[i] = w[i] /\ i \in 1..Len(A)
    BY <1>5, <2>1
  <2>5. SubSeq(u, 1, n) = SubSeq(w, 1, n)
    <3>1. (\A i \in 1..n : u[i] \in X) /\ \A i \in 1..n : w[i] \in X
      <4>1. \A i \in 1..n : u[i] \in X
        BY <2>1
      <4>2. \A i \in 1..Len(A) : w[i] \in X
        BY <2>1
      <4>3. QED
        BY <2>4, <4>1, <4>2
    <3>2. /\ SubSeq(u, 1, n) \in Seq(X) /\ SubSeq(w, 1, n) \in Seq(X)
          /\ Len(SubSeq(u, 1, n)) = Len(SubSeq(w, 1, n))
          /\ Len(SubSeq(u, 1, n)) = IF 1 <= n THEN n - 1 + 1 ELSE 0
          /\ \A i \in 1..n - 1 + 1 : SubSeq(u, 1, n)[i] = u[1 + i - 1] /\ SubSeq(w, 1, n)[i] = w[1 + i - 1]
      BY <1>5, <3>1, SubSeqProperties
    <3> DEFINE U == SubSeq(u, 1, n)
               W == SubSeq(w, 1, n)
    <3> HIDE DEF U, W
    <3>3. U \in Seq(X) /\ W \in Seq(X) /\ Len(U) = n /\ Len(W) = n
      BY <1>5, <3>2 DEF U, W
    <3>4. \A i \in 1..n : U[i] = W[i]
      <4>1. ASSUME NEW i \in 1..n PROVE U[i] = W[i]
        <5>1. i \in 1..n - 1 + 1 /\ 1 + i - 1 = i
          BY <1>5
        <5>2. U[i] = u[i] /\ W[i] = w[i]
          BY <3>2, <5>1 DEF U, W
        <5>3. QED
          BY <2>4, <5>2
      <4>2. QED
        BY <4>1
    <3>5. U = W
      BY <3>3, <3>4, SeqEqual
    <3>6. QED
      BY <3>5 DEF U, W
  <2>6. Ids(replies) = u
    BY <1>3 DEF u, a
  <2>7. QED
    BY <1>5, <2>3, <2>5, <2>6 DEF IsPrefix, w
<1>9. reading = "stopped" => \/ Len(replies) = Len(A)
                             \/ replies # <<>> /\ A[Len(replies)].method = "shutdown"
  <2>1. CASE k = N
    BY <1>7, <2>1 DEF a, A, n, N, Answerable
  <2>2. CASE a # <<>> /\ Last(a).method = "shutdown"
    <3>1. n # 0
      BY <1>5, <2>2, EmptySeq DEF n
    <3>2. n \in 1..n /\ A[n] = a[n] /\ Last(a) = a[n]
      BY <1>5, <3>1 DEF Last, n
    <3>3. replies # <<>>
      BY <1>7, <3>1
    <3>4. QED
      BY <1>7, <2>2, <3>2, <3>3
  <2>3. QED
    BY <1>3, <2>1, <2>2 DEF a
<1>10. QED
  BY <1>8, <1>9 DEF AnswersInOrder, A

\* Whatever the client sends, unless it ends messages with their ids, it gets the replies
\* to its messages in their order, none lost or doubled, but that to the first, up to a
\* shutdown (run, handleRequest).
THEOREM AnswersComeInOrder == ServerSpec => []AnswersInOrder
<1>1. ServerInit => ServerInv
  BY ServerBegins
<1>2. ServerInv /\ [ServerNext]_serverVars => ServerInv'
  BY ServerSteps
<1>3. ServerInv => AnswersInOrder
  BY InvAnswers
<1>4. QED
  BY <1>1, <1>2, <1>3, PTL DEF ServerSpec

-----------------------------------------------------------------------------
(* ImportResolution *)

LEMMA CallType ==
    ASSUME TypeOK, NEW f \in EcFiles
    PROVE  Call(f) \in Calls
<1>1. <<f>> \in Seq(EcFiles)
  OBVIOUS
<1>2. QED
  BY <1>1 DEF Call, Calls, TypeOK

\* What a step at an import statement works with.
LEMMA AtImportType ==
    ASSUME TypeOK, AtImport
    PROVE  /\ Top \in Calls
           /\ Advanced \in Calls
           /\ Advanced.decls = Top.decls
           /\ Tail(stack) \in Seq(Calls)
           /\ Import \in ModuleNames
           /\ Top.file \in EcFiles
<1>1. Top \in Calls /\ Tail(stack) \in Seq(Calls)
  BY HeadTailProperties DEF TypeOK, Top
<1>2. Top.todo \in Seq(ModuleNames) /\ Top.todo # <<>> /\ Top.file \in EcFiles
  BY <1>1 DEF AtImport, Calls
<1>3. Head(Top.todo) \in ModuleNames /\ Tail(Top.todo) \in Seq(ModuleNames)
  BY <1>2, HeadTailProperties
<1>4. Advanced \in Calls /\ Advanced.decls = Top.decls
  BY <1>1, <1>3 DEF Advanced, Calls
<1>5. QED
  BY <1>1, <1>2, <1>3, <1>4 DEF Import

\* An import that resolves resolves to a file: one of the four candidates.
LEMMA TargetType ==
    ASSUME TypeOK, Resolves
    PROVE  Wanted \in EcFiles
<1> DEFINE S == Present(Dir, Import)
<1>1. Import \in ModuleNames /\ Dir \in Dirs
  BY AtImportType, PathsAssumption DEF Resolves, Dir
<1>2. \A i \in 1..4 : Candidates(Dir, Import)[i] \in EcFiles
  BY <1>1, PathsAssumption DEF Candidates
<1>3. S \subseteq 1..4 /\ S # {}
  BY DEF Resolves, Present
<1>4. \E i \in S : \A j \in S : i <= j
  <2>1. CASE 1 \in S
    BY <1>3, <2>1
  <2>2. CASE 1 \notin S /\ 2 \in S
    BY <1>3, <2>2
  <2>3. CASE 1 \notin S /\ 2 \notin S /\ 3 \in S
    BY <1>3, <2>3
  <2>4. CASE 1 \notin S /\ 2 \notin S /\ 3 \notin S
    BY <1>3, <2>4
  <2>5. QED
    BY <2>1, <2>2, <2>3, <2>4
<1> HIDE DEF S
<1>5. (CHOOSE i \in S : \A j \in S : i <= j) \in 1..4
  BY <1>3, <1>4
<1>6. QED
  BY <1>2, <1>5 DEF Wanted, Resolved, S

\* A return leaves the frames below the caller's alone, and the caller's with
\* the merged declarations of the call before its own.
LEMMA SpliceFrames ==
    ASSUME TypeOK, Splice
    PROVE  /\ stack' \in Seq(Calls)
           /\ stack' # <<>>
           /\ DOMAIN stack = 1..Len(stack)
           /\ DOMAIN stack' = 1..(Len(stack) - 1)
           /\ Len(stack) \in Nat
           /\ Len(stack) > 1
           /\ stack[1] \in Calls /\ stack[2] \in Calls
           /\ stack'[1].decls = stack[1].decls \o stack[2].decls
           /\ \A i \in 2..(Len(stack) - 1) : stack'[i] = stack[i + 1]
<1> DEFINE s == Tail(stack)
           d == Top.decls \o s[1].decls
<1>1. stack \in Seq(Calls) /\ stack # <<>>
  BY DEF TypeOK
<1>2. Len(stack) \in Nat /\ DOMAIN stack = 1..Len(stack)
  BY <1>1, LenProperties
<1>3. Len(stack) > 1
  BY DEF Splice
<1>4. /\ s \in Seq(Calls)
      /\ Len(s) = Len(stack) - 1
      /\ \A i \in 1..Len(s) : s[i] = stack[i + 1]
      /\ Top \in Calls
      /\ Top = stack[1]
  BY <1>1, HeadTailProperties DEF Top
<1>5. Len(s) \in Nat /\ Len(s) >= 1 /\ DOMAIN s = 1..Len(s)
  BY <1>2, <1>3, <1>4, LenProperties
<1>6. s[1] \in Calls /\ s[1] = stack[2]
  BY <1>4, <1>5, ElementOfSeq
<1>7. d \in Seq(EcFiles)
  BY <1>4, <1>6, ConcatProperties DEF Calls
<1>8. [s[1] EXCEPT !.decls = d] \in Calls /\ [s[1] EXCEPT !.decls = d].decls = d
  BY <1>6, <1>7 DEF Calls
<1>9. stack' = [s EXCEPT ![1] = [s[1] EXCEPT !.decls = d]]
  BY DEF Splice
<1> HIDE DEF s, d
<1>10. stack' \in Seq(Calls) /\ Len(stack') = Len(s)
  BY <1>4, <1>5, <1>8, <1>9, ExceptSeq
<1>11. stack'[1].decls = d
  BY <1>5, <1>8, <1>9
<1>12. \A i \in 2..Len(s) : stack'[i] = s[i]
  BY <1>5, <1>9
<1>13. stack' # <<>>
  BY <1>5, <1>10, EmptySeq
<1>14. DOMAIN stack' = 1..Len(s)
  BY <1>10, LenProperties
<1>15. QED
  BY <1>2, <1>3, <1>4, <1>5, <1>6, <1>10, <1>11, <1>12, <1>13, <1>14 DEF d

LEMMA InitType == ImportInit => TypeOK
<1> SUFFICES ASSUME ImportInit
             PROVE  TypeOK
  OBVIOUS
<1>1. imports \in [EcFiles -> Seq(ModuleNames)] /\ exists \in SUBSET EcFiles
  BY InputsAssumption DEF ImportInit
<1>2. Call(Root) \in Calls
  <2>1. <<Root>> \in Seq(EcFiles)
    BY PathsAssumption
  <2>2. QED
    BY <1>1, <2>1, PathsAssumption DEF Call, Calls
<1>3. stack \in Seq(Calls) /\ stack # <<>>
  BY <1>2 DEF ImportInit
<1>4. QED
  BY <1>1, <1>3, PathsAssumption DEF ImportInit, TypeOK

LEMMA NextType == TypeOK /\ [ImportNext]_importVars => TypeOK'
<1> SUFFICES ASSUME TypeOK, [ImportNext]_importVars
             PROVE  TypeOK'
  OBVIOUS
<1>1. ASSUME AtImport
      PROVE  /\ <<Advanced>> \o Tail(stack) \in Seq(Calls)
             /\ <<Advanced>> \o Tail(stack) # <<>>
  BY <1>1, AtImportType, PushFrame
<1>2. ASSUME AtImport, NEW code \in {"M000", "M001"}, Complain(code)
      PROVE  /\ stack' \in Seq(Calls) /\ stack' # <<>>
             /\ errors' \in SUBSET Errors
  BY <1>1, <1>2, AtImportType DEF Complain, TypeOK, Errors
<1>3. CASE CannotResolve
  <2>1. AtImport /\ Complain("M000")
    BY <1>3 DEF CannotResolve
  <2>2. /\ stack' \in Seq(Calls) /\ stack' # <<>>
        /\ errors' \in SUBSET Errors
    BY <2>1, <1>2
  <2>3. QED
    BY <1>3, <2>2 DEF CannotResolve, TypeOK, input
<1>4. CASE AlreadyVisited
  BY <1>1, <1>4 DEF AlreadyVisited, Resolves, TypeOK, input
<1>5. CASE CannotOpen
  <2>1. AtImport /\ Complain("M001") /\ Wanted \in EcFiles
    BY <1>5, TargetType DEF CannotOpen, Resolves
  <2>2. /\ stack' \in Seq(Calls) /\ stack' # <<>>
        /\ errors' \in SUBSET Errors
    BY <2>1, <1>2
  <2>3. QED
    BY <1>5, <2>1, <2>2 DEF CannotOpen, TypeOK, input
<1>6. CASE Descend
  <2>1. AtImport /\ Wanted \in EcFiles /\ Top.file \in EcFiles
    BY <1>6, TargetType, AtImportType DEF Descend, Resolves
  <2>2. /\ Advanced \in Calls
        /\ Call(Wanted) \in Calls
        /\ Tail(stack) \in Seq(Calls)
    BY <2>1, AtImportType, CallType
  <2>3. <<Call(Wanted), Advanced>> \in Seq(Calls) /\ Len(<<Call(Wanted), Advanced>>) = 2
    BY <2>2
  <2>4. /\ stack' \in Seq(Calls)
        /\ Len(stack') = 2 + Len(Tail(stack))
    BY <1>6, <2>2, <2>3, ConcatProperties DEF Descend
  <2>5. Len(Tail(stack)) \in Nat
    BY <2>2, LenProperties
  <2>6. stack' # <<>>
    BY <2>4, <2>5, EmptySeq
  <2>7. visited' \in SUBSET EcFiles /\ bringer' \in [EcFiles -> EcFiles]
    BY <1>6, <2>1 DEF Descend, TypeOK
  <2>8. UNCHANGED <<input, errors, done>>
    BY <1>6 DEF Descend
  <2>9. QED
    BY <2>4, <2>6, <2>7, <2>8 DEF TypeOK, input
<1>7. CASE Splice
  BY <1>7, SpliceFrames DEF Splice, TypeOK, input
<1>8. CASE Finish
  BY <1>8 DEF Finish, TypeOK, input
<1>9. CASE UNCHANGED importVars
  BY <1>9 DEF importVars, TypeOK
<1>10. QED
  BY <1>3, <1>4, <1>5, <1>6, <1>7, <1>8, <1>9 DEF ImportNext

\* The recursion keeps a stack of at least the outermost call, each on a file
\* with the import statements and declarations of files.
THEOREM TypeCorrect == ImportSpec => []TypeOK
<1>1. QED
  BY InitType, NextType, PTL DEF ImportSpec

-----------------------------------------------------------------------------
(* Nothing is imported twice.  MergedVisited is the strengthening: without  *)
(* it a file could be entered whose declarations a frame already holds.     *)

\* Dealing with an import statement moves no declarations.
LEMMA AdvanceFrames ==
    ASSUME TypeOK, AtImport, stack' = <<Advanced>> \o Tail(stack)
    PROVE  /\ DOMAIN stack' = DOMAIN stack
           /\ \A i \in DOMAIN stack : stack'[i].decls = stack[i].decls
<1>1. stack \in Seq(Calls) /\ stack # <<>>
  BY DEF TypeOK
<1>2. /\ Advanced \in Calls
      /\ Advanced.decls = stack[1].decls
      /\ Tail(stack) \in Seq(Calls)
  BY <1>1, AtImportType, PopFrame DEF Top
<1>3. /\ DOMAIN stack = 1..Len(stack) /\ Len(stack) \in Nat
      /\ Len(Tail(stack)) = Len(stack) - 1
      /\ \A i \in 1..Len(Tail(stack)) : Tail(stack)[i] = stack[i + 1]
  BY <1>1, LenProperties, HeadTailProperties
<1>4. /\ DOMAIN stack' = 1..(Len(Tail(stack)) + 1)
      /\ stack'[1] = Advanced
      /\ \A i \in 2..(Len(Tail(stack)) + 1) : stack'[i] = Tail(stack)[i - 1]
  BY <1>2, PushFrame
<1>5. DOMAIN stack' = DOMAIN stack
  BY <1>3, <1>4
<1>6. ASSUME NEW i \in DOMAIN stack
      PROVE  stack'[i].decls = stack[i].decls
  <2>1. CASE i = 1
    BY <2>1, <1>2, <1>4
  <2>2. CASE i # 1
    BY <2>2, <1>3, <1>4
  <2>3. QED
    BY <2>1, <2>2
<1>7. QED
  BY <1>5, <1>6

\* Entering a file puts its own declarations on top, and moves none.
LEMMA DescendFrames ==
    ASSUME TypeOK, Descend
    PROVE  /\ Len(stack) \in Nat
           /\ DOMAIN stack = 1..Len(stack)
           /\ DOMAIN stack' = 1..(Len(stack) + 1)
           /\ stack'[1].decls = <<Wanted>>
           /\ \A i \in 2..(Len(stack) + 1) : stack'[i].decls = stack[i - 1].decls
<1> DEFINE s == <<Advanced>> \o Tail(stack)
<1>1. AtImport /\ Wanted \in EcFiles /\ stack \in Seq(Calls) /\ stack # <<>>
  BY TargetType DEF Descend, Resolves, TypeOK
<1>2. /\ Advanced \in Calls
      /\ Advanced.decls = stack[1].decls
      /\ Tail(stack) \in Seq(Calls)
      /\ Call(Wanted) \in Calls
  BY <1>1, AtImportType, CallType, PopFrame DEF Top
<1>3. /\ DOMAIN stack = 1..Len(stack) /\ Len(stack) \in Nat
      /\ Len(Tail(stack)) = Len(stack) - 1
      /\ \A i \in 1..Len(Tail(stack)) : Tail(stack)[i] = stack[i + 1]
  BY <1>1, LenProperties, HeadTailProperties
<1>4. /\ s \in Seq(Calls)
      /\ DOMAIN s = 1..Len(stack)
      /\ s[1] = Advanced
      /\ \A i \in 2..Len(stack) : s[i] = stack[i]
  BY <1>2, <1>3, PushFrame
<1>5. Len(s) = Len(stack)
  BY <1>3, <1>4, LenProperties
<1>6. \A i \in 1..Len(stack) : s[i].decls = stack[i].decls
  BY <1>2, <1>3, <1>4
<1>7. stack' = <<Call(Wanted)>> \o s
  BY <1>2 DEF Descend
<1> HIDE DEF s
<1>8. /\ DOMAIN stack' = 1..(Len(stack) + 1)
      /\ stack'[1] = Call(Wanted)
      /\ \A i \in 2..(Len(stack) + 1) : stack'[i] = s[i - 1]
  BY <1>2, <1>4, <1>5, <1>7, PushFrame
<1>9. Call(Wanted).decls = <<Wanted>>
  BY DEF Call
<1>10. QED
  BY <1>3, <1>6, <1>8, <1>9

\* Where no frame's declarations move, both invariants stay.
LEMMA SameFrames ==
    ASSUME MergedVisited, NoFileTwice,
           DOMAIN stack' = DOMAIN stack,
           \A i \in DOMAIN stack : stack'[i].decls = stack[i].decls,
           visited \subseteq visited'
    PROVE  MergedVisited' /\ NoFileTwice'
BY DEF MergedVisited, NoFileTwice

LEMMA InitOnce == ImportInit => MergedVisited /\ NoFileTwice
<1> SUFFICES ASSUME ImportInit
             PROVE  MergedVisited /\ NoFileTwice
  OBVIOUS
<1>1. DOMAIN stack = {1} /\ stack[1].decls = <<Root>>
  BY DEF ImportInit, Call
<1>2. \A i \in DOMAIN stack : \A k \in DOMAIN stack[i].decls :
        stack[i].decls[k] = Root
  BY <1>1
<1>3. QED
  BY <1>2 DEF MergedVisited, NoFileTwice

LEMMA NextOnce ==
    TypeOK /\ MergedVisited /\ NoFileTwice /\ [ImportNext]_importVars
        => MergedVisited' /\ NoFileTwice'
<1> SUFFICES ASSUME TypeOK, MergedVisited, NoFileTwice, [ImportNext]_importVars
             PROVE  MergedVisited' /\ NoFileTwice'
  OBVIOUS
<1>1. CASE CannotResolve
  <2>1. AtImport /\ stack' = <<Advanced>> \o Tail(stack) /\ visited' = visited
    BY <1>1 DEF CannotResolve, Complain
  <2>2. QED
    BY <2>1, AdvanceFrames, SameFrames
<1>2. CASE AlreadyVisited
  <2>1. AtImport /\ stack' = <<Advanced>> \o Tail(stack) /\ visited' = visited
    BY <1>2 DEF AlreadyVisited, Resolves
  <2>2. QED
    BY <2>1, AdvanceFrames, SameFrames
<1>3. CASE CannotOpen
  <2>1. /\ AtImport /\ stack' = <<Advanced>> \o Tail(stack)
        /\ visited \subseteq visited'
    BY <1>3 DEF CannotOpen, Resolves, Complain
  <2>2. QED
    BY <2>1, AdvanceFrames, SameFrames
<1>4. CASE Descend
  <2>1. Wanted \notin visited /\ visited' = visited \cup {Wanted}
    BY <1>4 DEF Descend
  <2>2. /\ DOMAIN stack = 1..Len(stack) /\ Len(stack) \in Nat
        /\ DOMAIN stack' = 1..(Len(stack) + 1)
        /\ stack'[1].decls = <<Wanted>>
        /\ \A i \in 2..(Len(stack) + 1) : stack'[i].decls = stack[i - 1].decls
    BY <1>4, DescendFrames
  <2>3. ASSUME NEW i \in DOMAIN stack', i # 1
        PROVE  /\ i - 1 \in DOMAIN stack
               /\ stack'[i].decls = stack[i - 1].decls
    BY <2>2, <2>3
  <2>4. \A k \in DOMAIN stack'[1].decls : k = 1 /\ stack'[1].decls[k] = Wanted
    BY <2>2
  <2>5. MergedVisited'
    <3>1. SUFFICES ASSUME NEW i \in DOMAIN stack', NEW k \in DOMAIN stack'[i].decls
                   PROVE  stack'[i].decls[k] \in visited' \cup {Root}
      BY DEF MergedVisited
    <3>2. CASE i = 1
      BY <3>1, <3>2, <2>1, <2>4
    <3>3. CASE i # 1
      BY <3>1, <3>3, <2>1, <2>3 DEF MergedVisited
    <3>4. QED
      BY <3>2, <3>3
  <2>6. NoFileTwice'
    <3>1. SUFFICES ASSUME NEW i \in DOMAIN stack', NEW j \in DOMAIN stack',
                          NEW k \in DOMAIN stack'[i].decls,
                          NEW l \in DOMAIN stack'[j].decls,
                          stack'[i].decls[k] = stack'[j].decls[l],
                          stack'[i].decls[k] # Root
                   PROVE  i = j /\ k = l
      BY DEF NoFileTwice
    <3>2. ASSUME NEW m \in DOMAIN stack', m # 1, NEW n \in DOMAIN stack'[m].decls,
                 stack'[m].decls[n] # Root
          PROVE  stack'[m].decls[n] # Wanted
      BY <3>2, <2>1, <2>3 DEF MergedVisited
    <3>3. CASE i = 1 /\ j = 1
      BY <3>1, <3>3, <2>4
    <3>4. CASE i = 1 /\ j # 1
      BY <3>1, <3>2, <3>4, <2>4
    <3>5. CASE i # 1 /\ j = 1
      BY <3>1, <3>2, <3>5, <2>4
    <3>6. CASE i # 1 /\ j # 1
      <4>1. /\ i - 1 \in DOMAIN stack /\ j - 1 \in DOMAIN stack
            /\ stack'[i].decls = stack[i - 1].decls
            /\ stack'[j].decls = stack[j - 1].decls
        BY <3>6, <2>3
      <4>2. i - 1 = j - 1 /\ k = l
        BY <3>1, <4>1 DEF NoFileTwice
      <4>3. i \in Int /\ j \in Int
        BY <2>2
      <4>4. QED
        BY <4>2, <4>3
    <3>7. QED
      BY <3>3, <3>4, <3>5, <3>6
  <2>7. QED
    BY <2>5, <2>6
<1>5. CASE Splice
  <2> DEFINE A == stack[1].decls
             B == stack[2].decls
             Frame(i, k) == IF i = 1 THEN (IF k <= Len(A) THEN 1 ELSE 2) ELSE i + 1
             Spot(i, k) == IF i = 1 /\ k > Len(A) THEN k - Len(A) ELSE k
  <2>1. /\ stack \in Seq(Calls) /\ stack' \in Seq(Calls)
        /\ DOMAIN stack = 1..Len(stack) /\ Len(stack) \in Nat /\ Len(stack) > 1
        /\ DOMAIN stack' = 1..(Len(stack) - 1)
        /\ stack[1] \in Calls /\ stack[2] \in Calls
        /\ stack'[1].decls = A \o B
        /\ \A i \in 2..(Len(stack) - 1) : stack'[i] = stack[i + 1]
    BY <1>5, SpliceFrames DEF TypeOK
  <2>2. A \in Seq(EcFiles) /\ B \in Seq(EcFiles)
    BY <2>1 DEF Calls
  <2>3. /\ Len(A) \in Nat /\ DOMAIN A = 1..Len(A)
        /\ Len(B) \in Nat /\ DOMAIN B = 1..Len(B)
        /\ DOMAIN (A \o B) = 1..(Len(A) + Len(B))
        /\ \A k \in 1..(Len(A) + Len(B)) :
              (A \o B)[k] = IF k <= Len(A) THEN A[k] ELSE B[k - Len(A)]
    BY <2>2, JoinElements
  <2> HIDE DEF A, B
  \* Every place of the new frames is a place of the old ones, of its own.
  <2>4. ASSUME NEW i \in DOMAIN stack', NEW k \in DOMAIN stack'[i].decls
        PROVE  /\ Frame(i, k) \in DOMAIN stack
               /\ Spot(i, k) \in DOMAIN stack[Frame(i, k)].decls
               /\ stack'[i].decls[k] = stack[Frame(i, k)].decls[Spot(i, k)]
               /\ i \in Nat /\ i >= 1
               /\ i = 1 => k \in Nat
    <3>1. CASE i = 1 /\ k <= Len(A)
      <4>1. k \in 1..(Len(A) + Len(B))
        BY <3>1, <2>1, <2>3
      <4>2. k \in DOMAIN A /\ (A \o B)[k] = A[k] /\ k \in Nat
        BY <3>1, <4>1, <2>3
      <4>3. Frame(i, k) = 1 /\ Spot(i, k) = k
        BY <3>1, <4>1, <2>3
      <4>4. QED
        BY <3>1, <4>2, <4>3, <2>1 DEF A
    <3>2. CASE i = 1 /\ ~(k <= Len(A))
      <4>1. k \in 1..(Len(A) + Len(B))
        BY <3>2, <2>1, <2>3
      <4>2. k - Len(A) \in DOMAIN B /\ (A \o B)[k] = B[k - Len(A)] /\ k \in Nat
        BY <3>2, <4>1, <2>3
      <4>3. Frame(i, k) = 2 /\ Spot(i, k) = k - Len(A)
        BY <3>2, <4>1, <2>3
      <4>4. QED
        BY <3>2, <4>2, <4>3, <2>1 DEF B
    <3>3. CASE i # 1
      <4>1. i \in 2..(Len(stack) - 1)
        BY <3>3, <2>1
      <4>2. i + 1 \in DOMAIN stack /\ stack'[i] = stack[i + 1]
        BY <4>1, <2>1
      <4>3. Frame(i, k) = i + 1 /\ Spot(i, k) = k
        BY <3>3
      <4>4. QED
        BY <3>3, <4>1, <4>2, <4>3
    <3>4. QED
      BY <3>1, <3>2, <3>3
  <2>5. ASSUME NEW i \in DOMAIN stack', NEW k \in DOMAIN stack'[i].decls,
               NEW j \in DOMAIN stack', NEW l \in DOMAIN stack'[j].decls,
               Frame(i, k) = Frame(j, l), Spot(i, k) = Spot(j, l)
        PROVE  i = j /\ k = l
    <3>1. /\ i \in Nat /\ i >= 1 /\ j \in Nat /\ j >= 1
          /\ i = 1 => k \in Nat
          /\ j = 1 => l \in Nat
      BY <2>4
    <3>2. CASE i = 1 /\ j = 1
      BY <2>3, <2>5, <3>1, <3>2
    <3>3. CASE i # 1 /\ j # 1
      BY <2>5, <3>1, <3>3
    <3>4. CASE i = 1 /\ j # 1
      BY <2>5, <3>1, <3>4
    <3>5. CASE i # 1 /\ j = 1
      BY <2>5, <3>1, <3>5
    <3>6. QED
      BY <3>2, <3>3, <3>4, <3>5
  <2> HIDE DEF Frame, Place
  <2>6. visited' = visited
    BY <1>5 DEF Splice
  <2>7. MergedVisited'
    BY <2>4, <2>6 DEF MergedVisited
  <2>8. NoFileTwice'
    <3>1. SUFFICES ASSUME NEW i \in DOMAIN stack', NEW j \in DOMAIN stack',
                          NEW k \in DOMAIN stack'[i].decls,
                          NEW l \in DOMAIN stack'[j].decls,
                          stack'[i].decls[k] = stack'[j].decls[l],
                          stack'[i].decls[k] # Root
                   PROVE  i = j /\ k = l
      BY DEF NoFileTwice
    <3>2. Frame(i, k) = Frame(j, l) /\ Spot(i, k) = Spot(j, l)
      BY <2>4, <3>1 DEF NoFileTwice
    <3>3. QED
      BY <2>5, <3>2
  <2>9. QED
    BY <2>7, <2>8
<1>6. CASE Finish
  BY <1>6 DEF Finish, MergedVisited, NoFileTwice
<1>7. CASE UNCHANGED importVars
  BY <1>7 DEF importVars, MergedVisited, NoFileTwice
<1>8. QED
  BY <1>1, <1>2, <1>3, <1>4, <1>5, <1>6, <1>7 DEF ImportNext

\* However the imports of the files lead to each other, in cycles too, no
\* place of the programs under way holds the declarations of an imported file
\* that another place holds: the guard of resolveImportsRec does its work.
THEOREM NothingImportedTwice == ImportSpec => []NoFileTwice
<1>1. ImportInit => TypeOK /\ MergedVisited /\ NoFileTwice
  BY InitType, InitOnce
<1>2. TypeOK /\ MergedVisited /\ NoFileTwice /\ [ImportNext]_importVars
        => (TypeOK /\ MergedVisited /\ NoFileTwice)'
  BY NextType, NextOnce
<1>3. QED
  BY <1>1, <1>2, PTL DEF ImportSpec

-----------------------------------------------------------------------------
(* Everything is merged, nothing else is, and in the order asked for.  The   *)
(* invariant says what a call under way has yet to do and what the programs *)
(* merged so far have behind them.                                          *)

\* f stands in one of the programs under way.
InProgram(f) ==
    \E i \in DOMAIN stack : \E k \in DOMAIN stack[i].decls : stack[i].decls[k] = f

\* The import of n by f has been dealt with, in silence or not, once v has been
\* visited and e reported.
DealtBy(f, n, v, e) ==
    IF Present(DirOf[f], n) = {} THEN e # {} ELSE Resolved(DirOf[f], n) \in v

DealtWith(f, n) == DealtBy(f, n, visited, errors)

AllDealtWith(f) == \A m \in DOMAIN imports[f] : DealtWith(f, imports[f][m])

\* A call's program ends with the declarations of its own file.
OwnLast ==
    \A i \in DOMAIN stack :
        /\ stack[i].decls # <<>>
        /\ stack[i].decls[Len(stack[i].decls)] = stack[i].file

\* The innermost file was brought in by its caller's, and so on to the root.
Callers ==
    /\ stack[Len(stack)].file = Root
    /\ \A i \in DOMAIN stack : i < Len(stack) =>
          /\ stack[i].file \in visited
          /\ bringer[stack[i].file] = stack[i + 1].file

\* A file that comes before the call's own is over and done with, and the file
\* that brought it in comes later.
MergedBefore ==
    \A i \in DOMAIN stack : \A k \in DOMAIN stack[i].decls :
        k < Len(stack[i].decls) =>
            /\ stack[i].decls[k] \in visited
            /\ AllDealtWith(stack[i].decls[k])
            /\ \E l \in DOMAIN stack[i].decls :
                  k < l /\ stack[i].decls[l] = bringer[stack[i].decls[k]]

\* The imports of the call's own file are dealt with, or still to come.
Pending ==
    \A i \in DOMAIN stack :
        /\ \A j \in DOMAIN stack[i].todo : \E m \in DOMAIN imports[stack[i].file] :
              imports[stack[i].file][m] = stack[i].todo[j]
        /\ \A m \in DOMAIN imports[stack[i].file] :
              \/ DealtWith(stack[i].file, imports[stack[i].file][m])
              \/ \E j \in DOMAIN stack[i].todo :
                    stack[i].todo[j] = imports[stack[i].file][m]

\* A visited file stands in some program, or its failure has been reported.
VisitedHeld ==
    \A f \in visited : IF f \in readable THEN InProgram(f) ELSE errors # {}

OnlyReachable == \A f \in EcFiles : InProgram(f) => f \in Reachable

AtEnd == done => Len(stack) = 1 /\ stack[1].todo = <<>>

MergeInv ==
    /\ OwnLast
    /\ Callers
    /\ MergedBefore
    /\ Pending
    /\ VisitedHeld
    /\ OnlyReachable
    /\ AtEnd

\* The sequence of the elements to go, first one taken off.
LEMMA TailElements ==
    ASSUME NEW S, NEW t \in Seq(S), t # <<>>
    PROVE  /\ \A j \in DOMAIN t :
                  t[j] = Head(t) \/ \E k \in DOMAIN Tail(t) : Tail(t)[k] = t[j]
           /\ \A k \in DOMAIN Tail(t) : \E j \in DOMAIN t : t[j] = Tail(t)[k]
           /\ \E j \in DOMAIN t : t[j] = Head(t)
<1>1. /\ Tail(t) \in Seq(S)
      /\ Len(Tail(t)) = Len(t) - 1
      /\ \A i \in 1..Len(Tail(t)) : Tail(t)[i] = t[i + 1]
  BY HeadTailProperties
<1>2. DOMAIN t = 1..Len(t) /\ Len(t) \in Nat /\ Len(t) # 0
  BY LenProperties, EmptySeq
<1>3. DOMAIN Tail(t) = 1..Len(Tail(t)) /\ Len(Tail(t)) \in Nat
  BY <1>1, LenProperties
<1>4. Head(t) = t[1]
  OBVIOUS
<1>5. ASSUME NEW j \in DOMAIN t, j # 1
      PROVE  \E k \in DOMAIN Tail(t) : Tail(t)[k] = t[j]
  <2>1. j - 1 \in DOMAIN Tail(t) /\ Tail(t)[j - 1] = t[j - 1 + 1] /\ j - 1 + 1 = j
    BY <1>1, <1>2, <1>3, <1>5
  <2>2. QED
    BY <2>1
<1>6. ASSUME NEW k \in DOMAIN Tail(t)
      PROVE  \E j \in DOMAIN t : t[j] = Tail(t)[k]
  <2>1. k + 1 \in DOMAIN t /\ Tail(t)[k] = t[k + 1]
    BY <1>1, <1>2, <1>3
  <2>2. QED
    BY <2>1
<1>7. 1 \in DOMAIN t
  BY <1>2
<1>8. QED
  BY <1>4, <1>5, <1>6, <1>7

\* The files of a file system stay where they are.
LEMMA SameInput ==
    ASSUME UNCHANGED input
    PROVE  /\ \A d, n : Present(d, n)' = Present(d, n)
           /\ \A d, n : Resolved(d, n)' = Resolved(d, n)
           /\ Reachable' = Reachable
           /\ imports' = imports
           /\ readable' = readable
<1>1. exists' = exists /\ imports' = imports /\ readable' = readable
  BY DEF input
<1>2. \A d, n : Present(d, n)' = Present(d, n)
  BY <1>1 DEF Present, Candidates
<1>3. \A d, n : Resolved(d, n)' = Resolved(d, n)
  BY <1>1 DEF Resolved, Present, Candidates
<1>4. \A f : Imported(f)' = Imported(f)
  BY <1>1 DEF Imported, Resolved, Present, Candidates
<1>5. Reachable' = Reachable
  BY <1>1 DEF Reachable, Imported, Resolved, Present, Candidates
<1>6. QED
  BY <1>1, <1>2, <1>3, <1>5

\* What has been dealt with has been for good.
LEMMA DealtStays ==
    ASSUME UNCHANGED input, visited \subseteq visited', errors \subseteq errors'
    PROVE  /\ \A f, n : DealtWith(f, n)' <=> DealtBy(f, n, visited', errors')
           /\ \A f, n : DealtWith(f, n) => DealtBy(f, n, visited', errors')
           /\ \A f, n : DealtWith(f, n) => DealtWith(f, n)'
           /\ \A f : AllDealtWith(f) => AllDealtWith(f)'
<1>1. \A f, n : DealtWith(f, n)' <=> DealtBy(f, n, visited', errors')
  BY SameInput DEF DealtWith, DealtBy
<1>2. \A f, n : DealtWith(f, n) => DealtBy(f, n, visited', errors')
  BY DEF DealtWith, DealtBy
<1>3. imports' = imports
  BY DEF input
<1>4. \A f, n : DealtWith(f, n) => DealtWith(f, n)'
  BY <1>1, <1>2
<1>5. \A f : AllDealtWith(f) => AllDealtWith(f)'
  BY <1>3, <1>4 DEF AllDealtWith
<1>6. QED
  BY <1>1, <1>2, <1>4, <1>5

\* Once the statement at hand is dealt with, all but the rest are.
LEMMA HeadDealtWith ==
    ASSUME TypeOK, AtImport, Pending, UNCHANGED input,
           visited \subseteq visited', errors \subseteq errors',
           DealtBy(Top.file, Import, visited', errors')
    PROVE  LET f == stack[1].file
               rest == Tail(stack[1].todo)
           IN  /\ \A j \in DOMAIN rest : \E m \in DOMAIN imports[f] :
                      imports[f][m] = rest[j]
               /\ \A m \in DOMAIN imports[f] :
                      \/ DealtBy(f, imports[f][m], visited', errors')
                      \/ \E j \in DOMAIN rest : rest[j] = imports[f][m]
<1> DEFINE f == stack[1].file
           t == stack[1].todo
           rest == Tail(t)
<1>1. Top = stack[1] /\ 1 \in DOMAIN stack
  BY PopFrame DEF TypeOK, Top
<1>2. t \in Seq(ModuleNames) /\ t # <<>> /\ Import = Head(t)
  BY <1>1, AtImportType DEF Calls, Import, AtImport
<1>3. /\ \A j \in DOMAIN t :
            t[j] = Import \/ \E k \in DOMAIN rest : rest[k] = t[j]
      /\ \A k \in DOMAIN rest : \E j \in DOMAIN t : t[j] = rest[k]
  BY <1>2, TailElements
<1>4. /\ \A j \in DOMAIN t : \E m \in DOMAIN imports[f] : imports[f][m] = t[j]
      /\ \A m \in DOMAIN imports[f] :
            \/ DealtWith(f, imports[f][m])
            \/ \E j \in DOMAIN t : t[j] = imports[f][m]
  BY <1>1 DEF Pending
<1>5. DealtBy(f, Import, visited', errors')
  BY <1>1
<1>6. \A g, n : DealtWith(g, n) => DealtBy(g, n, visited', errors')
  BY DealtStays
<1> HIDE DEF f, t, rest
<1>7. \A j \in DOMAIN rest : \E m \in DOMAIN imports[f] : imports[f][m] = rest[j]
  BY <1>3, <1>4
<1>8. ASSUME NEW m \in DOMAIN imports[f]
      PROVE  \/ DealtBy(f, imports[f][m], visited', errors')
             \/ \E j \in DOMAIN rest : rest[j] = imports[f][m]
  BY <1>3, <1>4, <1>5, <1>6
<1>9. QED
  BY <1>7, <1>8 DEF f, t, rest

\* A step that deals with the statement at hand and stays in its file.
LEMMA AdvanceStack ==
    ASSUME TypeOK, AtImport, stack' = <<Advanced>> \o Tail(stack)
    PROVE  /\ stack \in Seq(Calls) /\ stack' \in Seq(Calls)
           /\ Len(stack) \in Nat /\ Len(stack) >= 1
           /\ DOMAIN stack = 1..Len(stack)
           /\ Len(stack') = Len(stack)
           /\ DOMAIN stack' = DOMAIN stack
           /\ Top = stack[1]
           /\ stack'[1].todo = Tail(stack[1].todo)
           /\ \A i \in DOMAIN stack :
                 /\ stack'[i].file = stack[i].file
                 /\ stack'[i].decls = stack[i].decls
                 /\ i # 1 => stack'[i].todo = stack[i].todo
<1>1. stack \in Seq(Calls) /\ stack # <<>>
  BY DEF TypeOK
<1>2. /\ Advanced \in Calls
      /\ Top = stack[1]
      /\ Top \in Calls
      /\ Tail(stack) \in Seq(Calls)
  BY <1>1, AtImportType, PopFrame DEF Top
<1>3. /\ DOMAIN stack = 1..Len(stack) /\ Len(stack) \in Nat /\ Len(stack) >= 1
      /\ Len(Tail(stack)) = Len(stack) - 1
      /\ \A i \in 1..Len(Tail(stack)) : Tail(stack)[i] = stack[i + 1]
  BY <1>1, LenProperties, HeadTailProperties, EmptySeq
<1>4. /\ stack' \in Seq(Calls)
      /\ DOMAIN stack' = 1..(Len(Tail(stack)) + 1)
      /\ stack'[1] = Advanced
      /\ \A i \in 2..(Len(Tail(stack)) + 1) : stack'[i] = Tail(stack)[i - 1]
  BY <1>2, PushFrame
<1>5. DOMAIN stack' = DOMAIN stack /\ Len(stack') = Len(stack)
  BY <1>3, <1>4, LenProperties
<1>6. \A i \in 2..Len(stack) : stack'[i] = stack[i]
  BY <1>3, <1>4
<1>7. /\ Advanced.file = stack[1].file
      /\ Advanced.decls = stack[1].decls
      /\ Advanced.todo = Tail(stack[1].todo)
  BY <1>2 DEF Advanced, Calls
<1>8. QED
  BY <1>1, <1>2, <1>3, <1>4, <1>5, <1>6, <1>7

\* Dealing with a statement within its file keeps the invariant ...
LEMMA AdvanceKeeps ==
    ASSUME TypeOK, MergeInv, AtImport,
           stack' = <<Advanced>> \o Tail(stack),
           UNCHANGED <<input, bringer, done>>,
           visited \subseteq visited', errors \subseteq errors',
           DealtBy(Top.file, Import, visited', errors'),
           \A f \in visited' \ visited : f \notin readable /\ errors' # {}
    PROVE  MergeInv'
<1> USE DEF MergeInv
<1>1. /\ Len(stack) \in Nat /\ Len(stack) >= 1
      /\ DOMAIN stack = 1..Len(stack)
      /\ Len(stack') = Len(stack)
      /\ DOMAIN stack' = DOMAIN stack
      /\ Top = stack[1]
      /\ stack'[1].todo = Tail(stack[1].todo)
      /\ \A i \in DOMAIN stack :
            /\ stack'[i].file = stack[i].file
            /\ stack'[i].decls = stack[i].decls
            /\ i # 1 => stack'[i].todo = stack[i].todo
  BY AdvanceStack
<1>2. /\ \A f, n : DealtWith(f, n)' <=> DealtBy(f, n, visited', errors')
      /\ \A f, n : DealtWith(f, n) => DealtBy(f, n, visited', errors')
      /\ \A f : AllDealtWith(f) => AllDealtWith(f)'
      /\ Reachable' = Reachable
      /\ imports' = imports
      /\ readable' = readable
      /\ bringer' = bringer /\ done' = done
  BY DealtStays, SameInput
<1>3. \A f : InProgram(f)' <=> InProgram(f)
  BY <1>1 DEF InProgram
<1>4. OwnLast'
  BY <1>1 DEF OwnLast
<1>5. Callers'
  <2>1. ASSUME NEW i \in DOMAIN stack, i < Len(stack)
        PROVE  i + 1 \in DOMAIN stack
    BY <1>1, <2>1
  <2>2. stack'[Len(stack')].file = Root
    BY <1>1 DEF Callers
  <2>3. ASSUME NEW i \in DOMAIN stack', i < Len(stack')
        PROVE  /\ stack'[i].file \in visited'
               /\ bringer'[stack'[i].file] = stack'[i + 1].file
    BY <1>1, <1>2, <2>1, <2>3 DEF Callers
  <2>4. QED
    BY <2>2, <2>3 DEF Callers
<1>6. MergedBefore'
  BY <1>1, <1>2 DEF MergedBefore
<1>7. Pending'
  <2> DEFINE rest == stack'[1].todo
             f(i) == stack[i].file
  <2>1. /\ \A j \in DOMAIN rest : \E m \in DOMAIN imports[f(1)] :
               imports[f(1)][m] = rest[j]
        /\ \A m \in DOMAIN imports[f(1)] :
               \/ DealtBy(f(1), imports[f(1)][m], visited', errors')
               \/ \E j \in DOMAIN rest : rest[j] = imports[f(1)][m]
    <3>1. rest = Tail(stack[1].todo)
      BY <1>1
    <3>2. QED
      BY <3>1, HeadDealtWith
  <2>2. ASSUME NEW i \in DOMAIN stack, i # 1
        PROVE  /\ \A j \in DOMAIN stack'[i].todo : \E m \in DOMAIN imports[f(i)] :
                      imports[f(i)][m] = stack'[i].todo[j]
               /\ \A m \in DOMAIN imports[f(i)] :
                      \/ DealtBy(f(i), imports[f(i)][m], visited', errors')
                      \/ \E j \in DOMAIN stack'[i].todo :
                            stack'[i].todo[j] = imports[f(i)][m]
    <3>1. stack'[i].todo = stack[i].todo
      BY <1>1, <2>2
    <3>2. QED
      BY <3>1, <1>2 DEF Pending
  <2>3. ASSUME NEW i \in DOMAIN stack'
        PROVE  /\ \A j \in DOMAIN stack'[i].todo : \E m \in DOMAIN imports'[stack'[i].file] :
                      imports'[stack'[i].file][m] = stack'[i].todo[j]
               /\ \A m \in DOMAIN imports'[stack'[i].file] :
                      \/ DealtWith(stack[i].file, imports[stack[i].file][m])'
                      \/ \E j \in DOMAIN stack'[i].todo :
                            stack'[i].todo[j] = imports'[stack'[i].file][m]
    <3>1. i \in DOMAIN stack /\ stack'[i].file = f(i) /\ imports' = imports
      BY <1>1, <1>2
    <3>2. /\ \A j \in DOMAIN stack'[i].todo : \E m \in DOMAIN imports[f(i)] :
                imports[f(i)][m] = stack'[i].todo[j]
          /\ \A m \in DOMAIN imports[f(i)] :
                \/ DealtBy(f(i), imports[f(i)][m], visited', errors')
                \/ \E j \in DOMAIN stack'[i].todo :
                      stack'[i].todo[j] = imports[f(i)][m]
      <4>1. CASE i = 1
        BY <2>1, <4>1
      <4>2. CASE i # 1
        BY <3>1, <2>2, <4>2
      <4>3. QED
        BY <4>1, <4>2
    <3>3. ASSUME NEW m \in DOMAIN imports'[stack'[i].file],
                 DealtBy(f(i), imports[f(i)][m], visited', errors')
          PROVE  DealtWith(stack[i].file, imports[stack[i].file][m])'
      BY <3>1, <3>3, <1>2
    <3> HIDE DEF f
    <3>4. QED
      BY <3>1, <3>2, <3>3
  <2>4. QED
    BY <2>3 DEF Pending
<1>8. VisitedHeld'
  BY <1>2, <1>3 DEF VisitedHeld
<1>9. OnlyReachable'
  BY <1>2, <1>3 DEF OnlyReachable
<1>10. AtEnd'
  BY <1>2 DEF AtEnd, AtImport
<1>11. QED
  BY <1>4, <1>5, <1>6, <1>7, <1>8, <1>9, <1>10

\* Entering a file, call by call.
LEMMA DescendStack ==
    ASSUME TypeOK, Descend
    PROVE  /\ Len(stack) \in Nat /\ Len(stack) >= 1
           /\ DOMAIN stack = 1..Len(stack)
           /\ Len(stack') = Len(stack) + 1
           /\ DOMAIN stack' = 1..(Len(stack) + 1)
           /\ Top = stack[1]
           /\ stack'[1] = Call(Wanted)
           /\ stack'[2].todo = Tail(stack[1].todo)
           /\ \A i \in 2..(Len(stack) + 1) :
                 /\ i - 1 \in DOMAIN stack
                 /\ stack'[i].file = stack[i - 1].file
                 /\ stack'[i].decls = stack[i - 1].decls
                 /\ i # 2 => stack'[i].todo = stack[i - 1].todo
<1> DEFINE s == <<Advanced>> \o Tail(stack)
<1>1. AtImport /\ Wanted \in EcFiles /\ stack \in Seq(Calls) /\ stack # <<>>
  BY TargetType DEF Descend, Resolves, TypeOK
<1>2. /\ Advanced \in Calls
      /\ Top = stack[1]
      /\ Top \in Calls
      /\ Tail(stack) \in Seq(Calls)
      /\ Call(Wanted) \in Calls
  BY <1>1, AtImportType, CallType, PopFrame DEF Top
<1>3. /\ DOMAIN stack = 1..Len(stack) /\ Len(stack) \in Nat /\ Len(stack) >= 1
      /\ Len(Tail(stack)) = Len(stack) - 1
      /\ \A i \in 1..Len(Tail(stack)) : Tail(stack)[i] = stack[i + 1]
  BY <1>1, LenProperties, HeadTailProperties, EmptySeq
<1>4. /\ s \in Seq(Calls)
      /\ DOMAIN s = 1..Len(stack)
      /\ s[1] = Advanced
      /\ \A i \in 2..Len(stack) : s[i] = stack[i]
  BY <1>2, <1>3, PushFrame
<1>5. Len(s) = Len(stack)
  BY <1>3, <1>4, LenProperties
<1>6. /\ Advanced.file = stack[1].file
      /\ Advanced.decls = stack[1].decls
      /\ Advanced.todo = Tail(stack[1].todo)
  BY <1>2 DEF Advanced, Calls
<1>7. stack' = <<Call(Wanted)>> \o s
  BY <1>2 DEF Descend
<1> HIDE DEF s
<1>8. /\ stack' \in Seq(Calls)
      /\ DOMAIN stack' = 1..(Len(stack) + 1)
      /\ stack'[1] = Call(Wanted)
      /\ \A i \in 2..(Len(stack) + 1) : stack'[i] = s[i - 1]
  BY <1>2, <1>4, <1>5, <1>7, PushFrame
<1>9. Len(stack') = Len(stack) + 1
  BY <1>3, <1>8, LenProperties
<1>10. stack'[2].todo = Tail(stack[1].todo)
  BY <1>3, <1>4, <1>6, <1>8
<1>11. ASSUME NEW i \in 2..(Len(stack) + 1)
       PROVE  /\ i - 1 \in DOMAIN stack
              /\ stack'[i].file = stack[i - 1].file
              /\ stack'[i].decls = stack[i - 1].decls
              /\ i # 2 => stack'[i].todo = stack[i - 1].todo
  <2>1. i - 1 \in DOMAIN stack /\ stack'[i] = s[i - 1]
    BY <1>3, <1>8
  <2>2. CASE i = 2
    BY <2>1, <2>2, <1>4, <1>6
  <2>3. CASE i # 2
    <3>1. i - 1 \in 2..Len(stack)
      BY <1>3, <2>3
    <3>2. QED
      BY <2>1, <3>1, <1>4
  <2>4. QED
    BY <2>2, <2>3
<1>12. QED
  BY <1>2, <1>3, <1>8, <1>9, <1>10, <1>11

\* What an import resolves to belongs to what the file imports.
LEMMA TargetImported ==
    ASSUME TypeOK, Resolves, Pending
    PROVE  Wanted \in Imported(stack[1].file)
<1>1. Top = stack[1] /\ 1 \in DOMAIN stack
  BY PopFrame DEF TypeOK, Top
<1>2. Top.todo \in Seq(ModuleNames) /\ Top.todo # <<>> /\ Import = Head(Top.todo)
  BY AtImportType DEF Resolves, Calls, Import, AtImport
<1>3. PICK j \in DOMAIN Top.todo : Top.todo[j] = Import
  BY <1>2, TailElements
<1>4. PICK m \in DOMAIN imports[Top.file] : imports[Top.file][m] = Import
  BY <1>1, <1>3 DEF Pending
<1>5. QED
  BY <1>1, <1>4 DEF Imported, Resolves, Wanted, Dir

\* A readable file that a reachable one imports is reachable itself.
LEMMA ReachableGrows ==
    ASSUME NEW f \in Reachable, NEW g \in Imported(f), g \in readable, g \in EcFiles
    PROVE  g \in Reachable
<1>1. SUFFICES ASSUME NEW S \in SUBSET EcFiles, Root \in S,
                      \A h \in S : Imported(h) \cap readable \subseteq S
               PROVE  g \in S
  BY DEF Reachable
<1>2. f \in S
  BY <1>1 DEF Reachable
<1>3. QED
  BY <1>1, <1>2

\* ... and so does entering a file ...
LEMMA DescendKeeps ==
    ASSUME TypeOK, MergeInv, Descend
    PROVE  MergeInv'
<1> USE DEF MergeInv
<1>1. /\ Len(stack) \in Nat /\ Len(stack) >= 1
      /\ DOMAIN stack = 1..Len(stack)
      /\ Len(stack') = Len(stack) + 1
      /\ DOMAIN stack' = 1..(Len(stack) + 1)
      /\ Top = stack[1]
      /\ stack'[1] = Call(Wanted)
      /\ stack'[2].todo = Tail(stack[1].todo)
      /\ \A i \in 2..(Len(stack) + 1) :
            /\ i - 1 \in DOMAIN stack
            /\ stack'[i].file = stack[i - 1].file
            /\ stack'[i].decls = stack[i - 1].decls
            /\ i # 2 => stack'[i].todo = stack[i - 1].todo
  BY DescendStack
<1>2. /\ AtImport /\ Resolves /\ UNCHANGED input /\ done' = done /\ errors' = errors
      /\ visited' = visited \cup {Wanted}
      /\ bringer' = [bringer EXCEPT ![Wanted] = Top.file]
      /\ Wanted \in EcFiles /\ Wanted \in readable /\ Wanted \notin visited
      /\ bringer \in [EcFiles -> EcFiles]
  BY TargetType DEF Descend, Resolves, TypeOK
<1>3. /\ \A f, n : DealtWith(f, n)' <=> DealtBy(f, n, visited', errors')
      /\ \A f, n : DealtWith(f, n) => DealtBy(f, n, visited', errors')
      /\ \A f : AllDealtWith(f) => AllDealtWith(f)'
      /\ Reachable' = Reachable
      /\ imports' = imports
      /\ readable' = readable
  BY <1>2, DealtStays, SameInput
<1>4. /\ stack'[1].file = Wanted
      /\ stack'[1].decls = <<Wanted>>
      /\ stack'[1].todo = imports[Wanted]
  BY <1>1 DEF Call
<1>5. \A f : InProgram(f)' <=> f = Wanted \/ InProgram(f)
  <2>1. ASSUME NEW f, InProgram(f)'
        PROVE  f = Wanted \/ InProgram(f)
    <3>1. PICK i \in DOMAIN stack' :
             \E k \in DOMAIN stack'[i].decls : stack'[i].decls[k] = f
      BY <2>1 DEF InProgram
    <3>2. CASE i = 1
      BY <3>1, <3>2, <1>4
    <3>3. CASE i # 1
      <4>1. i \in 2..(Len(stack) + 1)
        BY <3>3, <1>1
      <4>2. QED
        BY <4>1, <3>1, <1>1 DEF InProgram
    <3>4. QED
      BY <3>2, <3>3
  <2>2. ASSUME NEW f, InProgram(f)
        PROVE  InProgram(f)'
    <3>1. PICK i \in DOMAIN stack :
             \E k \in DOMAIN stack[i].decls : stack[i].decls[k] = f
      BY <2>2 DEF InProgram
    <3>2. i + 1 \in 2..(Len(stack) + 1) /\ i + 1 - 1 = i /\ i + 1 \in DOMAIN stack'
      BY <1>1
    <3>3. stack'[i + 1].decls = stack[i].decls
      BY <3>2, <1>1
    <3>4. QED
      BY <3>1, <3>2, <3>3 DEF InProgram
  <2>3. ASSUME NEW f, f = Wanted
        PROVE  InProgram(f)'
    BY <2>3, <1>1, <1>4 DEF InProgram
  <2>4. QED
    BY <2>1, <2>2, <2>3
<1>6. OwnLast'
  <2>1. SUFFICES ASSUME NEW i \in DOMAIN stack'
                 PROVE  /\ stack'[i].decls # <<>>
                        /\ stack'[i].decls[Len(stack'[i].decls)] = stack'[i].file
    BY DEF OwnLast
  <2>2. CASE i = 1
    BY <2>2, <1>4
  <2>3. CASE i # 1
    <3>1. i \in 2..(Len(stack) + 1)
      BY <2>3, <1>1
    <3>2. QED
      BY <3>1, <1>1 DEF OwnLast
  <2>4. QED
    BY <2>2, <2>3
<1>7. Callers'
  <2>1. stack'[Len(stack')].file = Root
    <3>1. Len(stack') \in 2..(Len(stack) + 1) /\ Len(stack') - 1 = Len(stack)
      BY <1>1
    <3>2. QED
      BY <3>1, <1>1 DEF Callers
  <2>2. ASSUME NEW i \in DOMAIN stack', i < Len(stack')
        PROVE  /\ stack'[i].file \in visited'
               /\ bringer'[stack'[i].file] = stack'[i + 1].file
    <3>1. CASE i = 1
      <4>1. stack'[2].file = stack[1].file
        BY <1>1
      <4>2. QED
        BY <3>1, <4>1, <1>1, <1>2, <1>4
    <3>2. CASE i # 1
      <4>1. /\ i \in 2..(Len(stack) + 1) /\ i + 1 \in 2..(Len(stack) + 1)
            /\ i - 1 \in DOMAIN stack /\ i - 1 < Len(stack)
            /\ i - 1 + 1 = i /\ i + 1 - 1 = i
        BY <2>2, <3>2, <1>1
      <4>2. /\ stack'[i].file = stack[i - 1].file
            /\ stack'[i + 1].file = stack[i].file
        BY <4>1, <1>1
      <4>3. /\ stack[i - 1].file \in visited
            /\ bringer[stack[i - 1].file] = stack[i].file
        BY <4>1 DEF Callers
      <4>4. stack[i - 1].file # Wanted
        BY <4>3, <1>2
      <4>5. QED
        BY <4>2, <4>3, <4>4, <1>2
    <3>3. QED
      BY <3>1, <3>2
  <2>3. QED
    BY <2>1, <2>2 DEF Callers
<1>8. MergedBefore'
  <2>1. SUFFICES ASSUME NEW i \in DOMAIN stack', NEW k \in DOMAIN stack'[i].decls,
                        k < Len(stack'[i].decls)
                 PROVE  /\ stack'[i].decls[k] \in visited'
                        /\ AllDealtWith(stack[i].decls[k])'
                        /\ \E l \in DOMAIN stack'[i].decls :
                              k < l /\ stack'[i].decls[l] = bringer'[stack'[i].decls[k]]
    BY DEF MergedBefore
  <2>2. CASE i = 1
    BY <2>1, <2>2, <1>4
  <2>3. CASE i # 1
    <3>1. /\ i - 1 \in DOMAIN stack
          /\ stack'[i].decls = stack[i - 1].decls
      <4>1. i \in 2..(Len(stack) + 1)
        BY <2>3, <1>1
      <4>2. QED
        BY <4>1, <1>1
    <3>2. PICK f : f = stack'[i].decls[k]
      OBVIOUS
    <3>3. /\ f \in visited
          /\ AllDealtWith(f)
          /\ \E l \in DOMAIN stack[i - 1].decls :
                k < l /\ stack[i - 1].decls[l] = bringer[f]
      BY <2>1, <3>1, <3>2 DEF MergedBefore
    <3>4. bringer'[f] = bringer[f]
      BY <3>3, <1>2
    <3>5. AllDealtWith(f)'
      BY <3>3, <1>3
    <3>6. QED
      BY <3>1, <3>2, <3>3, <3>4, <3>5, <1>2
  <2>4. QED
    BY <2>2, <2>3
<1>9. Pending'
  <2> DEFINE f(i) == stack'[i].file
             Rest(i) ==
                 /\ \A j \in DOMAIN stack'[i].todo : \E m \in DOMAIN imports[f(i)] :
                       imports[f(i)][m] = stack'[i].todo[j]
                 /\ \A m \in DOMAIN imports[f(i)] :
                       \/ DealtBy(f(i), imports[f(i)][m], visited', errors')
                       \/ \E j \in DOMAIN stack'[i].todo :
                             stack'[i].todo[j] = imports[f(i)][m]
  <2>1. Rest(1)
    BY <1>4
  <2>2. Rest(2)
    <3>1. DealtBy(Top.file, Import, visited', errors')
      BY <1>2 DEF DealtBy, Resolves, Wanted, Dir
    <3>2. /\ stack'[2].todo = Tail(stack[1].todo)
          /\ f(2) = stack[1].file
      BY <1>1
    <3> HIDE DEF f
    <3>3. QED
      BY <3>1, <3>2, <1>2, HeadDealtWith
  <2>3. ASSUME NEW i \in DOMAIN stack', i # 1, i # 2
        PROVE  Rest(i)
    <3>1. /\ i - 1 \in DOMAIN stack
          /\ stack'[i].todo = stack[i - 1].todo
          /\ stack'[i].file = stack[i - 1].file
      <4>1. i \in 2..(Len(stack) + 1)
        BY <2>3, <1>1
      <4>2. QED
        BY <4>1, <2>3, <1>1
    <3>2. /\ \A j \in DOMAIN stack'[i].todo : \E m \in DOMAIN imports[f(i)] :
                imports[f(i)][m] = stack'[i].todo[j]
          /\ \A m \in DOMAIN imports[f(i)] :
                \/ DealtWith(stack[i - 1].file, imports[stack[i - 1].file][m])
                \/ \E j \in DOMAIN stack'[i].todo :
                      stack'[i].todo[j] = imports[f(i)][m]
      BY <3>1 DEF Pending
    <3>3. QED
      BY <3>1, <3>2, <1>3
  <2>4. ASSUME NEW i \in DOMAIN stack'
        PROVE  Rest(i)
    BY <2>1, <2>2, <2>3
  <2>5. ASSUME NEW i \in DOMAIN stack'
        PROVE  /\ \A j \in DOMAIN stack'[i].todo : \E m \in DOMAIN imports'[stack'[i].file] :
                      imports'[stack'[i].file][m] = stack'[i].todo[j]
               /\ \A m \in DOMAIN imports'[stack'[i].file] :
                      \/ DealtWith(stack[i].file, imports[stack[i].file][m])'
                      \/ \E j \in DOMAIN stack'[i].todo :
                            stack'[i].todo[j] = imports'[stack'[i].file][m]
    BY <2>4, <1>3
  <2>6. QED
    BY <2>5 DEF Pending
<1>10. VisitedHeld'
  BY <1>2, <1>3, <1>5 DEF VisitedHeld
<1>11. OnlyReachable'
  <2>1. stack[1].decls[Len(stack[1].decls)] = stack[1].file /\ 1 \in DOMAIN stack
    BY <1>1 DEF OwnLast
  <2>2. Len(stack[1].decls) \in DOMAIN stack[1].decls
    <3>1. stack[1].decls \in Seq(EcFiles) /\ stack[1].decls # <<>>
      BY <1>1, <1>2, <2>1, AtImportType DEF Calls, OwnLast
    <3> DEFINE d == stack[1].decls
    <3> HIDE DEF d
    <3>2. d \in Seq(EcFiles) /\ d # <<>>
      BY <3>1 DEF d
    <3>3. Len(d) \in Nat /\ DOMAIN d = 1..Len(d) /\ Len(d) # 0
      BY <3>2, LenProperties, EmptySeq
    <3>4. Len(d) \in DOMAIN d
      BY <3>3
    <3>5. QED
      BY <3>4 DEF d
  <2>3. stack[1].file \in EcFiles
    BY <1>1, <1>2, AtImportType
  <2>4. stack[1].file \in Reachable
    BY <2>1, <2>2, <2>3 DEF OnlyReachable, InProgram
  <2>5. Wanted \in Imported(stack[1].file)
    BY <1>2, TargetImported
  <2>6. Wanted \in Reachable
    BY <2>4, <2>5, <1>2, ReachableGrows
  <2>7. QED
    BY <2>6, <1>3, <1>5 DEF OnlyReachable
<1>12. AtEnd'
  BY <1>2 DEF AtEnd, AtImport
<1>13. QED
  BY <1>6, <1>7, <1>8, <1>9, <1>10, <1>11, <1>12

\* A return, call by call.
LEMMA SpliceStack ==
    ASSUME TypeOK, Splice
    PROVE  /\ DOMAIN stack = 1..Len(stack)
           /\ Len(stack) \in Nat /\ Len(stack) > 1
           /\ DOMAIN stack' = 1..(Len(stack) - 1)
           /\ Len(stack') = Len(stack) - 1
           /\ stack[1] \in Calls /\ stack[2] \in Calls
           /\ stack[1].todo = <<>>
           /\ stack'[1].decls = stack[1].decls \o stack[2].decls
           /\ stack'[1].file = stack[2].file
           /\ stack'[1].todo = stack[2].todo
           /\ \A i \in 2..(Len(stack) - 1) : stack'[i] = stack[i + 1]
<1>1. /\ stack' \in Seq(Calls)
      /\ DOMAIN stack = 1..Len(stack)
      /\ DOMAIN stack' = 1..(Len(stack) - 1)
      /\ Len(stack) \in Nat /\ Len(stack) > 1
      /\ stack[1] \in Calls /\ stack[2] \in Calls
      /\ stack'[1].decls = stack[1].decls \o stack[2].decls
      /\ \A i \in 2..(Len(stack) - 1) : stack'[i] = stack[i + 1]
  BY SpliceFrames
<1>2. Len(stack') = Len(stack) - 1
  <2>1. Len(stack') \in Nat /\ DOMAIN stack' = 1..Len(stack')
    BY <1>1, LenProperties
  <2>2. Len(stack) \in Nat /\ Len(stack) > 1
    BY <1>1
  <2>3. PICK m \in Nat : m = Len(stack) - 1 /\ m >= 1
    BY <2>2
  <2>4. 1..Len(stack') = 1..m
    BY <1>1, <2>1, <2>3
  <2>5. QED
    BY <2>1, <2>3, <2>4
<1>3. /\ Tail(stack) \in Seq(Calls)
      /\ Len(Tail(stack)) = Len(stack) - 1
      /\ \A i \in 1..Len(Tail(stack)) : Tail(stack)[i] = stack[i + 1]
      /\ Top = stack[1]
  BY HeadTailProperties, PopFrame DEF TypeOK, Top
<1>4. /\ Tail(stack)[1] = stack[2]
      /\ 1 \in DOMAIN Tail(stack)
  <2>1. DOMAIN Tail(stack) = 1..(Len(stack) - 1)
    BY <1>3, LenProperties
  <2>2. 1 \in 1..(Len(stack) - 1) /\ 1 + 1 = 2
    BY <1>1
  <2>3. QED
    BY <1>3, <2>1, <2>2
<1>5. stack'[1] = [stack[2] EXCEPT !.decls = Top.decls \o @]
  <2> DEFINE s == Tail(stack)
  <2>1. stack' = [s EXCEPT ![1].decls = Top.decls \o @]
    BY DEF Splice
  <2>2. s[1] = stack[2] /\ 1 \in DOMAIN s
    BY <1>4
  <2> HIDE DEF s
  <2>3. QED
    BY <2>1, <2>2
<1>6. stack'[1].file = stack[2].file /\ stack'[1].todo = stack[2].todo
  BY <1>1, <1>5 DEF Calls
<1>7. QED
  BY <1>1, <1>2, <1>3, <1>6 DEF Splice

\* ... and a return: what the call was to do is done.
LEMMA SpliceKeeps ==
    ASSUME TypeOK, MergeInv, Splice
    PROVE  MergeInv'
<1> USE DEF MergeInv
<1> DEFINE A == stack[1].decls
           B == stack[2].decls
           n == Len(stack)
<1>1. /\ DOMAIN stack = 1..n
      /\ n \in Nat /\ n > 1
      /\ DOMAIN stack' = 1..(n - 1)
      /\ Len(stack') = n - 1
      /\ stack[1] \in Calls /\ stack[2] \in Calls
      /\ stack[1].todo = <<>>
      /\ stack'[1].decls = A \o B
      /\ stack'[1].file = stack[2].file
      /\ stack'[1].todo = stack[2].todo
      /\ \A i \in 2..(n - 1) : stack'[i] = stack[i + 1]
  BY SpliceStack
<1>2. A \in Seq(EcFiles) /\ B \in Seq(EcFiles)
  BY <1>1 DEF Calls
<1>3. /\ A # <<>> /\ A[Len(A)] = stack[1].file
      /\ B # <<>> /\ B[Len(B)] = stack[2].file
  <2>1. 1 \in DOMAIN stack /\ 2 \in DOMAIN stack
    BY <1>1
  <2>2. QED
    BY <2>1 DEF OwnLast
<1>4. /\ stack[1].file \in visited
      /\ bringer[stack[1].file] = stack[2].file
      /\ stack[n].file = Root
  <2>1. 1 \in DOMAIN stack /\ 1 < n /\ 1 + 1 = 2
    BY <1>1
  <2>2. QED
    BY <2>1 DEF Callers
<1>5. /\ UNCHANGED input /\ visited' = visited /\ errors' = errors
      /\ bringer' = bringer /\ done' = done /\ ~done
  BY DEF Splice
<1>6. /\ \A f, m : DealtWith(f, m)' <=> DealtBy(f, m, visited', errors')
      /\ \A f, m : DealtWith(f, m) => DealtBy(f, m, visited', errors')
      /\ \A f : AllDealtWith(f) => AllDealtWith(f)'
      /\ Reachable' = Reachable
      /\ imports' = imports
      /\ readable' = readable
  BY <1>5, DealtStays, SameInput
<1>7. AllDealtWith(stack[1].file)
  <2>1. 1 \in DOMAIN stack
    BY <1>1
  <2>2. DOMAIN stack[1].todo = {}
    BY <1>1
  <2>3. QED
    BY <2>1, <2>2 DEF Pending, AllDealtWith
<1> HIDE DEF A, B
<1>8. /\ Len(A) \in Nat /\ Len(A) > 0 /\ DOMAIN A = 1..Len(A)
      /\ Len(B) \in Nat /\ Len(B) > 0 /\ DOMAIN B = 1..Len(B)
      /\ Len(A \o B) = Len(A) + Len(B)
      /\ DOMAIN (A \o B) = 1..(Len(A) + Len(B))
      /\ \A k \in 1..(Len(A) + Len(B)) :
            (A \o B)[k] = IF k <= Len(A) THEN A[k] ELSE B[k - Len(A)]
  <2>1. Len(A) # 0 /\ Len(B) # 0
    BY <1>2, <1>3, EmptySeq
  <2>2. QED
    BY <1>2, <2>1, JoinElements, ConcatProperties
\* The elements of the spliced program, and where they come from.
<1>9. /\ \A k \in DOMAIN A : k \in DOMAIN (A \o B) /\ (A \o B)[k] = A[k]
      /\ \A k \in DOMAIN B :
            /\ Len(A) + k \in DOMAIN (A \o B)
            /\ (A \o B)[Len(A) + k] = B[k]
  <2>1. ASSUME NEW k \in DOMAIN A
        PROVE  k \in DOMAIN (A \o B) /\ (A \o B)[k] = A[k]
    BY <1>8
  <2>2. ASSUME NEW k \in DOMAIN B
        PROVE  /\ Len(A) + k \in DOMAIN (A \o B)
               /\ (A \o B)[Len(A) + k] = B[k]
    <3>1. /\ k \in Nat /\ Len(A) + k \in 1..(Len(A) + Len(B))
          /\ ~(Len(A) + k <= Len(A))
          /\ Len(A) + k - Len(A) = k
      BY <1>8
    <3>2. QED
      BY <1>8, <3>1
  <2>3. QED
    BY <2>1, <2>2
<1>10. ASSUME NEW k \in DOMAIN (A \o B)
       PROVE  \/ k \in DOMAIN A /\ (A \o B)[k] = A[k]
              \/ /\ k - Len(A) \in DOMAIN B /\ (A \o B)[k] = B[k - Len(A)]
                 /\ k \in Nat /\ Len(A) < k
  <2>1. k \in 1..(Len(A) + Len(B))
    BY <1>8
  <2>2. CASE k <= Len(A)
    BY <1>8, <2>1, <2>2
  <2>3. CASE ~(k <= Len(A))
    <3>1. k - Len(A) \in 1..Len(B) /\ k \in Nat /\ Len(A) < k
      BY <1>8, <2>1, <2>3
    <3>2. QED
      BY <1>8, <2>1, <2>3, <3>1
  <2>4. QED
    BY <2>2, <2>3
<1>11. ASSUME NEW i \in DOMAIN stack', i # 1
       PROVE  /\ i + 1 \in DOMAIN stack /\ i \in 2..(n - 1)
              /\ stack'[i] = stack[i + 1]
  BY <1>1, <1>11
<1>12. \A f : InProgram(f)' <=> InProgram(f)
  <2>1. ASSUME NEW f, InProgram(f)'
        PROVE  InProgram(f)
    <3>1. PICK i \in DOMAIN stack' :
             \E k \in DOMAIN stack'[i].decls : stack'[i].decls[k] = f
      BY <2>1 DEF InProgram
    <3>2. CASE i = 1
      <4>1. PICK k \in DOMAIN (A \o B) : (A \o B)[k] = f
        BY <3>1, <3>2, <1>1
      <4>2. 1 \in DOMAIN stack /\ 2 \in DOMAIN stack
        BY <1>1
      <4>3. (\E l \in DOMAIN A : A[l] = f) \/ (\E l \in DOMAIN B : B[l] = f)
        BY <4>1, <1>10
      <4>4. QED
        BY <4>2, <4>3 DEF InProgram, A, B
    <3>3. CASE i # 1
      BY <3>1, <3>3, <1>11 DEF InProgram
    <3>4. QED
      BY <3>2, <3>3
  <2>2. ASSUME NEW f, InProgram(f)
        PROVE  InProgram(f)'
    <3>1. PICK i \in DOMAIN stack :
             \E k \in DOMAIN stack[i].decls : stack[i].decls[k] = f
      BY <2>2 DEF InProgram
    <3>2. CASE i = 1 \/ i = 2
      <4>1. (\E l \in DOMAIN A : A[l] = f) \/ (\E l \in DOMAIN B : B[l] = f)
        BY <3>1, <3>2 DEF A, B
      <4>2. \E k \in DOMAIN (A \o B) : (A \o B)[k] = f
        BY <4>1, <1>9
      <4>3. 1 \in DOMAIN stack'
        BY <1>1
      <4>4. QED
        BY <4>2, <4>3, <1>1 DEF InProgram
    <3>3. CASE i # 1 /\ i # 2
      <4>1. i - 1 \in 2..(n - 1) /\ i - 1 + 1 = i /\ i - 1 \in DOMAIN stack'
        BY <3>3, <1>1
      <4>2. stack'[i - 1] = stack[i]
        BY <4>1, <1>1
      <4>3. QED
        BY <3>1, <4>1, <4>2 DEF InProgram
    <3>4. QED
      BY <3>2, <3>3
  <2>3. QED
    BY <2>1, <2>2
<1>13. OwnLast'
  <2>1. SUFFICES ASSUME NEW i \in DOMAIN stack'
                 PROVE  /\ stack'[i].decls # <<>>
                        /\ stack'[i].decls[Len(stack'[i].decls)] = stack'[i].file
    BY DEF OwnLast
  <2>2. CASE i = 1
    <3>1. Len(B) \in DOMAIN B
      BY <1>8
    <3>2. (A \o B)[Len(A \o B)] = B[Len(B)]
      BY <3>1, <1>8, <1>9
    <3>3. A \o B # <<>>
      <4>1. A \o B \in Seq(EcFiles) /\ Len(A \o B) # 0
        BY <1>2, <1>8, ConcatProperties
      <4>2. QED
        BY <4>1, EmptySeq
    <3>4. QED
      BY <2>2, <3>2, <3>3, <1>1, <1>3
  <2>3. CASE i # 1
    BY <2>3, <1>11 DEF OwnLast
  <2>4. QED
    BY <2>2, <2>3
<1>14. Callers'
  <2>1. stack'[Len(stack')].file = Root
    <3>1. CASE n = 2
      BY <3>1, <1>1, <1>4
    <3>2. CASE n # 2
      <4>1. n - 1 \in 2..(n - 1) /\ n - 1 + 1 = n
        BY <3>2, <1>1
      <4>2. QED
        BY <4>1, <1>1, <1>4
    <3>3. QED
      BY <3>1, <3>2
  <2>2. ASSUME NEW i \in DOMAIN stack', i < Len(stack')
        PROVE  /\ stack'[i].file \in visited'
               /\ bringer'[stack'[i].file] = stack'[i + 1].file
    <3>1. /\ i + 1 \in DOMAIN stack /\ i + 1 < n /\ i + 1 + 1 = i + 2
          /\ i + 1 \in 2..(n - 1)
      BY <2>2, <1>1
    <3>2. /\ stack[i + 1].file \in visited
          /\ bringer[stack[i + 1].file] = stack[i + 2].file
      BY <3>1 DEF Callers
    <3>3. stack'[i].file = stack[i + 1].file
      BY <1>1, <1>11
    <3>4. stack'[i + 1].file = stack[i + 2].file
      BY <3>1, <1>1
    <3>5. QED
      BY <3>2, <3>3, <3>4, <1>5
  <2>3. QED
    BY <2>1, <2>2 DEF Callers
<1>15. MergedBefore'
  <2>1. SUFFICES ASSUME NEW i \in DOMAIN stack', NEW k \in DOMAIN stack'[i].decls,
                        k < Len(stack'[i].decls)
                 PROVE  /\ stack'[i].decls[k] \in visited'
                        /\ AllDealtWith(stack[i].decls[k])'
                        /\ \E l \in DOMAIN stack'[i].decls :
                              k < l /\ stack'[i].decls[l] = bringer'[stack'[i].decls[k]]
    BY DEF MergedBefore
  <2>2. PICK f : f = stack'[i].decls[k]
    OBVIOUS
  <2>3. SUFFICES /\ f \in visited
                 /\ AllDealtWith(f)
                 /\ \E l \in DOMAIN stack'[i].decls :
                       k < l /\ stack'[i].decls[l] = bringer[f]
    <3>1. AllDealtWith(f) => AllDealtWith(f)'
      BY <1>6
    <3>2. QED
      BY <2>2, <3>1, <1>5
  <2>4. CASE i # 1
    BY <2>1, <2>2, <2>4, <1>11 DEF MergedBefore
  <2>5. CASE i = 1
    <3>1. /\ stack'[i].decls = A \o B
          /\ k \in DOMAIN (A \o B) /\ f = (A \o B)[k] /\ k < Len(A \o B)
          /\ 1 \in DOMAIN stack /\ 2 \in DOMAIN stack
      BY <2>1, <2>2, <2>5, <1>1
    <3>2. CASE k \in DOMAIN A /\ k < Len(A)
      <4>1. f = A[k]
        BY <3>1, <3>2, <1>9
      <4>2. PICK l \in DOMAIN A : k < l /\ A[l] = bringer[f]
        BY <3>1, <3>2, <4>1 DEF MergedBefore, A
      <4>3. f \in visited /\ AllDealtWith(f)
        BY <3>1, <3>2, <4>1 DEF MergedBefore, A
      <4>4. QED
        BY <3>1, <4>2, <4>3, <1>9
    <3>3. CASE k = Len(A)
      <4>1. f = stack[1].file
        BY <3>1, <3>3, <1>3, <1>8, <1>9
      <4>2. Len(B) \in DOMAIN B /\ k < Len(A) + Len(B)
        BY <3>3, <1>8
      <4>3. /\ Len(A) + Len(B) \in DOMAIN (A \o B)
            /\ (A \o B)[Len(A) + Len(B)] = stack[2].file
        BY <4>2, <1>3, <1>9
      <4>4. QED
        BY <3>1, <4>1, <4>2, <4>3, <1>4, <1>7
    <3>4. CASE /\ k - Len(A) \in DOMAIN B /\ (A \o B)[k] = B[k - Len(A)]
               /\ k \in Nat /\ Len(A) < k
      <4> DEFINE m == k - Len(A)
      <4>1. f = B[m] /\ m < Len(B) /\ m \in DOMAIN B
        BY <3>1, <3>4, <1>8
      <4>2. PICK l \in DOMAIN B : m < l /\ B[l] = bringer[f]
        BY <3>1, <4>1 DEF MergedBefore, B
      <4>3. f \in visited /\ AllDealtWith(f)
        BY <3>1, <4>1 DEF MergedBefore, B
      <4>4. /\ Len(A) + l \in DOMAIN (A \o B) /\ (A \o B)[Len(A) + l] = bringer[f]
            /\ k < Len(A) + l
        BY <3>4, <4>2, <1>8, <1>9
      <4>5. QED
        BY <3>1, <4>3, <4>4
    <3>5. QED
      BY <3>1, <3>2, <3>3, <3>4, <1>8, <1>10
  <2>6. QED
    BY <2>4, <2>5
<1>16. Pending'
  <2> DEFINE g(i) == IF i = 1 THEN 2 ELSE i + 1
  <2>1. ASSUME NEW i \in DOMAIN stack'
        PROVE  /\ g(i) \in DOMAIN stack
               /\ stack'[i].todo = stack[g(i)].todo
               /\ stack'[i].file = stack[g(i)].file
    BY <1>1, <1>11
  <2>2. ASSUME NEW i \in DOMAIN stack'
        PROVE  /\ \A j \in DOMAIN stack'[i].todo : \E m \in DOMAIN imports'[stack'[i].file] :
                      imports'[stack'[i].file][m] = stack'[i].todo[j]
               /\ \A m \in DOMAIN imports'[stack'[i].file] :
                      \/ DealtWith(stack[i].file, imports[stack[i].file][m])'
                      \/ \E j \in DOMAIN stack'[i].todo :
                            stack'[i].todo[j] = imports'[stack'[i].file][m]
    <3>1. PICK f, t : f = stack'[i].file /\ t = stack'[i].todo
      OBVIOUS
    <3>2. /\ \A j \in DOMAIN t : \E m \in DOMAIN imports[f] : imports[f][m] = t[j]
          /\ \A m \in DOMAIN imports[f] :
                DealtWith(f, imports[f][m]) \/ \E j \in DOMAIN t : t[j] = imports[f][m]
      BY <2>1, <3>1 DEF Pending
    <3>3. QED
      BY <3>1, <3>2, <1>6
  <2>3. QED
    BY <2>2 DEF Pending
<1>17. VisitedHeld'
  BY <1>5, <1>6, <1>12 DEF VisitedHeld
<1>18. OnlyReachable'
  BY <1>6, <1>12 DEF OnlyReachable
<1>19. AtEnd'
  BY <1>5 DEF AtEnd
<1>20. QED
  BY <1>13, <1>14, <1>15, <1>16, <1>17, <1>18, <1>19

LEMMA InitMerge == ImportInit => MergeInv
<1> SUFFICES ASSUME ImportInit
             PROVE  MergeInv
  OBVIOUS
<1>1. /\ stack = <<Call(Root)>> /\ Len(stack) = 1 /\ DOMAIN stack = {1}
      /\ stack[1].file = Root
      /\ stack[1].decls = <<Root>>
      /\ stack[1].todo = imports[Root]
      /\ visited = {} /\ ~done /\ Root \in readable /\ Root \in EcFiles
  BY PathsAssumption DEF ImportInit, Call
<1>2. /\ stack[1].decls # <<>> /\ Len(stack[1].decls) = 1
      /\ DOMAIN stack[1].decls = {1} /\ stack[1].decls[1] = Root
  <2>1. PICK d : d = stack[1].decls
    OBVIOUS
  <2>2. d = <<Root>>
    BY <2>1, <1>1
  <2>3. d # <<>> /\ Len(d) = 1 /\ DOMAIN d = {1} /\ d[1] = Root
    BY <2>2
  <2>4. QED
    BY <2>1, <2>3
<1>3. OwnLast /\ Callers /\ VisitedHeld /\ AtEnd
  <2>1. OwnLast
    BY <1>1, <1>2 DEF OwnLast
  <2>2. Callers
    BY <1>1 DEF Callers
  <2>3. VisitedHeld /\ AtEnd
    BY <1>1 DEF VisitedHeld, AtEnd
  <2>4. QED
    BY <2>1, <2>2, <2>3
<1>4. MergedBefore /\ Pending
  <2>1. ASSUME NEW i \in DOMAIN stack, NEW k \in DOMAIN stack[i].decls
        PROVE  ~(k < Len(stack[i].decls))
    <3>1. i = 1
      BY <1>1
    <3>2. k = 1
      BY <3>1, <1>2
    <3>3. QED
      BY <3>1, <3>2, <1>2
  <2>2. MergedBefore
    BY <2>1 DEF MergedBefore
  <2>3. Pending
    BY <1>1 DEF Pending
  <2>4. QED
    BY <2>2, <2>3
<1>5. OnlyReachable
  <2>1. Root \in Reachable
    BY <1>1 DEF Reachable
  <2>2. \A f : InProgram(f) => f = Root
    BY <1>1 DEF InProgram
  <2>3. QED
    BY <2>1, <2>2 DEF OnlyReachable
<1>6. QED
  BY <1>3, <1>4, <1>5 DEF MergeInv

\* Where nothing but the end is noted, what is merged stays as it is.
LEMMA SameAll ==
    ASSUME MergedBefore, Pending, VisitedHeld, OnlyReachable,
           UNCHANGED <<input, stack, visited, errors, bringer>>
    PROVE  MergedBefore' /\ Pending' /\ VisitedHeld' /\ OnlyReachable'
<1>1. /\ stack' = stack /\ bringer' = bringer /\ visited' = visited /\ errors' = errors
      /\ imports' = imports /\ readable' = readable /\ Reachable' = Reachable
      /\ \A f : AllDealtWith(f) => AllDealtWith(f)'
      /\ \A f, n : DealtWith(f, n) => DealtWith(f, n)'
  BY SameInput, DealtStays
<1>2. \A f : InProgram(f)' <=> InProgram(f)
  BY <1>1 DEF InProgram
<1>3. MergedBefore'
  BY <1>1 DEF MergedBefore
<1>4. Pending'
  BY <1>1 DEF Pending
<1>5. VisitedHeld' /\ OnlyReachable'
  BY <1>1, <1>2 DEF VisitedHeld, OnlyReachable
<1>6. QED
  BY <1>3, <1>4, <1>5

LEMMA NextMerge == TypeOK /\ MergeInv /\ [ImportNext]_importVars => MergeInv'
<1> SUFFICES ASSUME TypeOK, MergeInv, [ImportNext]_importVars
             PROVE  MergeInv'
  OBVIOUS
<1>1. CASE CannotResolve
  <2>1. /\ AtImport /\ stack' = <<Advanced>> \o Tail(stack)
        /\ UNCHANGED <<input, bringer, done>> /\ visited' = visited
        /\ errors' = errors \cup {<<"M000", Top.file, Import>>}
        /\ Present(Dir, Import) = {}
    BY <1>1 DEF CannotResolve, Complain
  <2>2. DealtBy(Top.file, Import, visited', errors')
    BY <2>1 DEF DealtBy, Dir
  <2>3. QED
    BY <2>1, <2>2, AdvanceKeeps
<1>2. CASE AlreadyVisited
  <2>1. /\ AtImport /\ stack' = <<Advanced>> \o Tail(stack)
        /\ UNCHANGED <<input, bringer, done>> /\ visited' = visited
        /\ errors' = errors
    BY <1>2 DEF AlreadyVisited, Resolves
  <2>2. DealtBy(Top.file, Import, visited', errors')
    BY <1>2, <2>1 DEF DealtBy, Dir, AlreadyVisited, Resolves, Wanted
  <2>3. QED
    BY <2>1, <2>2, AdvanceKeeps
<1>3. CASE CannotOpen
  <2>1. /\ AtImport /\ stack' = <<Advanced>> \o Tail(stack)
        /\ UNCHANGED <<input, bringer, done>>
        /\ visited' = visited \cup {Wanted} /\ Wanted \notin readable
        /\ errors' = errors \cup {<<"M001", Top.file, Import>>}
    BY <1>3 DEF CannotOpen, Resolves, Complain
  <2>2. DealtBy(Top.file, Import, visited', errors')
    BY <1>3, <2>1 DEF DealtBy, Dir, CannotOpen, Resolves, Wanted
  <2>3. QED
    BY <2>1, <2>2, AdvanceKeeps
<1>4. CASE Descend
  BY <1>4, DescendKeeps
<1>5. CASE Splice
  BY <1>5, SpliceKeeps
<1>6. CASE Finish
  <2>1. /\ UNCHANGED <<input, stack, visited, errors, bringer>>
        /\ Len(stack) = 1 /\ stack[1].todo = <<>>
    BY <1>6 DEF Finish, Top
  <2>2. /\ OwnLast' /\ Callers' /\ AtEnd'
    BY <2>1 DEF MergeInv, OwnLast, Callers, AtEnd
  <2>3. MergedBefore' /\ Pending' /\ VisitedHeld' /\ OnlyReachable'
    BY <2>1, SameAll DEF MergeInv
  <2>4. QED
    BY <2>2, <2>3 DEF MergeInv
<1>7. CASE UNCHANGED importVars
  <2>1. UNCHANGED <<exists, readable, imports, stack, visited, errors, bringer, done>>
    BY <1>7 DEF importVars
  <2>2. OwnLast' /\ Callers' /\ AtEnd'
    BY <2>1 DEF MergeInv, OwnLast, Callers, AtEnd
  <2>3. MergedBefore' /\ Pending' /\ VisitedHeld' /\ OnlyReachable'
    <3>1. UNCHANGED <<input, stack, visited, errors, bringer>>
      BY <2>1 DEF input
    <3>2. QED
      BY <3>1, SameAll DEF MergeInv
  <2>4. QED
    BY <2>2, <2>3 DEF MergeInv
<1>8. QED
  BY <1>1, <1>2, <1>3, <1>4, <1>5, <1>6, <1>7 DEF ImportNext

LEMMA MergeInvariant == ImportSpec => [](TypeOK /\ MergeInv)
<1>1. ImportInit => TypeOK /\ MergeInv
  BY InitType, InitMerge
<1>2. TypeOK /\ MergeInv /\ [ImportNext]_importVars => (TypeOK /\ MergeInv)'
  BY NextType, NextMerge
<1>3. QED
  BY <1>1, <1>2, PTL DEF ImportSpec

\* At the end one program is left, the root's, and it holds every file some
\* import led to and that could be read.
LEMMA AtTheEnd ==
    ASSUME TypeOK, MergeInv, done
    PROVE  /\ Merged \in Seq(EcFiles)
           /\ Len(Merged) \in DOMAIN Merged
           /\ DOMAIN Merged = 1..Len(Merged) /\ Len(Merged) \in Nat
           /\ Merged[Len(Merged)] = Root
           /\ \A f : InProgram(f) <=> \E k \in DOMAIN Merged : Merged[k] = f
           /\ \A k \in DOMAIN Merged : AllDealtWith(Merged[k])
           /\ Merged = stack[1].decls /\ 1 \in DOMAIN stack
<1>1. /\ stack \in Seq(Calls) /\ Len(stack) = 1 /\ stack[1].todo = <<>>
      /\ stack # <<>>
  BY DEF MergeInv, AtEnd, TypeOK
<1>2. DOMAIN stack = {1} /\ stack[1] \in Calls
  <2>1. DOMAIN stack = 1..1
    BY <1>1, LenProperties
  <2>2. QED
    BY <1>1, <2>1, PopFrame
<1>3. Merged \in Seq(EcFiles) /\ Merged # <<>> /\ Merged[Len(Merged)] = Root
  BY <1>1, <1>2 DEF Merged, Calls, MergeInv, OwnLast, Callers
<1>4. DOMAIN Merged = 1..Len(Merged) /\ Len(Merged) \in Nat /\ Len(Merged) # 0
  BY <1>3, LenProperties, EmptySeq
<1>5. Len(Merged) \in DOMAIN Merged
  BY <1>4
<1>6. \A f : InProgram(f) <=> \E k \in DOMAIN Merged : Merged[k] = f
  BY <1>2 DEF InProgram, Merged
<1>7. AllDealtWith(Root)
  <2>1. stack[1].file = Root /\ DOMAIN stack[1].todo = {}
    BY <1>1 DEF MergeInv, Callers
  <2>2. QED
    BY <1>2, <2>1 DEF MergeInv, Pending, AllDealtWith
<1>8. ASSUME NEW k \in DOMAIN Merged
      PROVE  AllDealtWith(Merged[k])
  <2>1. CASE k = Len(Merged)
    BY <2>1, <1>3, <1>7
  <2>2. CASE k # Len(Merged)
    <3>1. k < Len(Merged)
      BY <2>2, <1>4
    <3>2. QED
      BY <3>1, <1>2 DEF MergeInv, MergedBefore, Merged
  <2>3. QED
    BY <2>1, <2>2
<1>9. QED
  BY <1>2, <1>3, <1>4, <1>5, <1>6, <1>8 DEF Merged

\* For every file system and import graph, the merged program has the files
\* that can be reached over readable ones, whatever fails on the way, and none
\* besides: resolveImportsRec neither gives up a branch nor lets in a stranger.
THEOREM MergesWhatIsReachable == ImportSpec => []MergesReachable
<1>1. ASSUME TypeOK, MergeInv
      PROVE  MergesReachable
  <2> DEFINE M == {Merged[i] : i \in DOMAIN Merged}
  <2>1. SUFFICES ASSUME done
                 PROVE  M = Reachable
    BY DEF MergesReachable
  <2>2. /\ Merged \in Seq(EcFiles)
        /\ \A f : InProgram(f) <=> f \in M
        /\ Root \in M
        /\ \A f \in M : AllDealtWith(f)
    BY <1>1, <2>1, AtTheEnd
  <2>3. M \subseteq EcFiles
    BY <2>2, ElementOfSeq, <1>1, <2>1, AtTheEnd
  <2>4. M \subseteq Reachable
    BY <1>1, <2>2, <2>3 DEF MergeInv, OnlyReachable
  <2> HIDE DEF M
  <2>5. ASSUME NEW f \in M, NEW g \in Imported(f), g \in readable
        PROVE  g \in M
    <3>1. PICK m \in DOMAIN imports[f] :
             Present(DirOf[f], imports[f][m]) # {} /\ g = Resolved(DirOf[f], imports[f][m])
      BY DEF Imported
    <3>2. DealtWith(f, imports[f][m])
      BY <2>2, <3>1 DEF AllDealtWith
    <3>3. g \in visited
      BY <3>1, <3>2 DEF DealtWith, DealtBy
    <3>4. QED
      BY <1>1, <2>2, <2>5, <3>3 DEF MergeInv, VisitedHeld
  <2>6. Reachable \subseteq M
    BY <2>2, <2>3, <2>5 DEF Reachable
  <2>7. QED
    BY <2>4, <2>6
<1>2. QED
  BY <1>1, MergeInvariant, PTL

\* For every import graph, a module's declarations stand before those of the
\* module whose import brought it in, and the root's stand last.
THEOREM ModulesComeFirst == ImportSpec => []BroughtInBefore
<1>1. ASSUME TypeOK, MergeInv
      PROVE  BroughtInBefore
  <2>1. SUFFICES ASSUME done
                 PROVE  /\ Merged[Len(Merged)] = Root
                        /\ \A k \in DOMAIN Merged : k < Len(Merged) =>
                              \E l \in DOMAIN Merged : k < l /\ Merged[l] = bringer[Merged[k]]
    BY DEF BroughtInBefore
  <2>2. Merged[Len(Merged)] = Root /\ Merged = stack[1].decls /\ 1 \in DOMAIN stack
    BY <1>1, <2>1, AtTheEnd
  <2>3. QED
    BY <1>1, <2>2 DEF MergeInv, MergedBefore
<1>2. QED
  BY <1>1, MergeInvariant, PTL

\* For every import graph, a merge without a diagnostic has left out nothing
\* that any merged file asked for.
THEOREM SilentMergeIsComplete == ImportSpec => []SilenceMeansComplete
<1>1. ASSUME TypeOK, MergeInv
      PROVE  SilenceMeansComplete
  <2>1. SUFFICES ASSUME done, errors = {}, NEW k \in DOMAIN Merged,
                        NEW i \in DOMAIN imports[Merged[k]]
                 PROVE  LET d == DirOf[Merged[k]]
                            n == imports[Merged[k]][i]
                        IN  /\ Present(d, n) # {}
                            /\ \E l \in DOMAIN Merged : Merged[l] = Resolved(d, n)
    BY DEF SilenceMeansComplete
  <2>2. DealtWith(Merged[k], imports[Merged[k]][i])
    BY <1>1, <2>1, AtTheEnd DEF AllDealtWith
  <2>3. /\ Present(DirOf[Merged[k]], imports[Merged[k]][i]) # {}
        /\ Resolved(DirOf[Merged[k]], imports[Merged[k]][i]) \in visited
    BY <2>1, <2>2 DEF DealtWith, DealtBy
  <2>4. InProgram(Resolved(DirOf[Merged[k]], imports[Merged[k]][i]))
    BY <1>1, <2>1, <2>3 DEF MergeInv, VisitedHeld
  <2>5. QED
    BY <1>1, <2>1, <2>3, <2>4, AtTheEnd
<1>2. QED
  BY <1>1, MergeInvariant, PTL
=============================================================================
