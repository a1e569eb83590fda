-------------------------------- MODULE Gui --------------------------------
(***************************************************************************)
(* Widgets of the GUI and the events that reach them (gui/widget.cpp,      *)
(* textbox.cpp, slider.cpp, events.h): a root box of widgets, some of them *)
(* boxes themselves.  The application pumps one event at a time: it tells  *)
(* InputState, then the root, which passes it on to its children.          *)
(*                                                                         *)
(* Only rows are kept of the geometry, and of a text its length: a column  *)
(* says where in the text a click falls.  A key that would follow a        *)
(* pointer to a destroyed widget has no defined effect and is left out.    *)
(***************************************************************************)
EXTENDS Integers, Sequences, SequencesExt, FiniteSets

CONSTANTS RootWidget,
          Kind,      \* widget |-> "box", "text", "slider" or "button"
          Trees,     \* what applications build: [children, effect: button |-> what its
                     \* onClick does]; boxes nest once
          Rows,      \* rows of the window that can be clicked
          MaxText    \* bound on the length of a text

VARIABLES children,      \* box |-> its widgets, back to front
          focusedChild,  \* box |-> Container::focusedChild_
          focused, enabled,
          length, cursorPos,
          dragging,
          row,           \* rect_.y, absolute once the boxes were drawn
          buttons,       \* InputState::buttons_
          effect         \* the callbacks of this application

guiVars == <<children, focusedChild, focused, enabled, length, cursorPos, dragging, row, buttons, effect>>

Widgets == DOMAIN Kind
OfKind(k) == {w \in Widgets : Kind[w] = k}
Boxes == OfKind("box")
NoWidget == ""

Keys == {"Left", "Right", "Home", "End", "Backspace", "Delete", "Return", "Tab", "x"}
Lesser(a, b) == IF a < b THEN a ELSE b
Greater(a, b) == IF a > b THEN a ELSE b

GuiInit ==
    /\ \E t \in Trees : children = t.children /\ effect = t.effect
    /\ focusedChild = [c \in Boxes |-> NoWidget]
    /\ focused = [w \in OfKind("text") |-> FALSE]
    /\ enabled = [w \in Widgets |-> TRUE]
    /\ length = [w \in OfKind("text") |-> 0]
    /\ cursorPos = [w \in OfKind("text") |-> 0]
    /\ dragging = [w \in OfKind("slider") |-> FALSE]
    /\ row = [w \in Widgets |-> 0]
    /\ buttons = {}

-----------------------------------------------------------------------------
(* The tree.                                                               *)
Inside(c) == Range(children[c])
Alive(w) == w = RootWidget \/ \E c \in Boxes : w \in Inside(c) /\ (c = RootWidget \/ c \in Inside(RootWidget))
Parent(w) == CHOOSE c \in Boxes : w \in Inside(c)

\* the order in which a mouse button is offered: front to back, a box after its own
Offered == FlattenSeq([i \in DOMAIN children[RootWidget] |->
               LET w == Reverse(children[RootWidget])[i]
               IN  IF w \in Boxes THEN Reverse(children[w]) \o <<w>> ELSE <<w>>]) \o <<RootWidget>>

\* a box subtracts its own position from what it passes on, though its children
\* are placed from the origin of the window
Shift(w) == IF w = RootWidget THEN 0
            ELSE IF Parent(w) = RootWidget THEN row[RootWidget] ELSE row[RootWidget] + row[Parent(w)]
IsPointInside(w, y) == y - Shift(w) = row[w]

\* Container::remove; focusedChild_ is left as it is
Without(w) == [c \in Boxes |-> SelectSeq(children[c], LAMBDA v : v # w)]

\* VBox::draw: children below each other, nested boxes first placed, then drawn
Height(w) == IF w \in Boxes THEN Len(children[w]) ELSE 1
RowsOf(ws, y) ==
    [i \in DOMAIN ws |-> FoldLeft(LAMBDA below, w : below + Height(w), y, SubSeq(ws, 1, i - 1))]
Place(c, y) == [w \in Inside(c) |-> RowsOf(children[c], y)[CHOOSE i \in DOMAIN children[c] : children[c][i] = w]]
Draw ==
    /\ LET outer == Place(RootWidget, row[RootWidget])
           y(c) == outer[c]
       IN  row' = [w \in Widgets |->
                      IF w \in Inside(RootWidget) THEN outer[w]
                      ELSE IF w # RootWidget /\ Alive(w) THEN Place(Parent(w), y(Parent(w)))[w]
                      ELSE row[w]]
    /\ UNCHANGED <<children, focusedChild, focused, enabled, length, cursorPos, dragging, buttons, effect>>

-----------------------------------------------------------------------------
(* Mouse.                                                                  *)

\* a plain widget takes a left click wherever it falls
Accepts(w, y) == IF Kind[w] \in {"text", "slider"} THEN IsPointInside(w, y) ELSE enabled[w]

OnClick(w) ==
    LET e == IF w \in DOMAIN effect THEN effect[w] ELSE [do |-> "none", to |-> ""]
    IN  /\ children' = IF e.do = "remove" THEN Without(e.to) ELSE children
        /\ enabled' = IF e.do = "toggle" THEN [enabled EXCEPT ![e.to] = ~@] ELSE enabled

ClickText(w, column) ==
    /\ focused' = [focused EXCEPT ![w] = TRUE]
    /\ cursorPos' = IF enabled[w] THEN [cursorPos EXCEPT ![w] = Greater(0, Lesser(length[w], column))]
                    ELSE cursorPos

MouseDown(y, column, button) ==
    /\ buttons' = buttons \cup {button}
    /\ LET takers == SelectSeq(Offered, LAMBDA w : Accepts(w, y))
           w == Head(takers)
       IN  IF button # 1 \/ takers = <<>>
           THEN UNCHANGED <<children, enabled, focused, cursorPos, dragging>>
           ELSE /\ IF Kind[w] \in {"text", "slider"} THEN UNCHANGED <<children, enabled>> ELSE OnClick(w)
                /\ IF Kind[w] = "text" THEN ClickText(w, column) ELSE UNCHANGED <<focused, cursorPos>>
                /\ dragging' = IF Kind[w] = "slider" THEN [dragging EXCEPT ![w] = TRUE] ELSE dragging
    /\ UNCHANGED <<focusedChild, length, row, effect>>

\* nobody consumes a release, so that it reaches every widget, wherever it is
Bug_Released(w) == dragging[w] /\ Parent(w) # RootWidget
Released(w) == FALSE
MouseUp(button) ==
    /\ buttons' = buttons \ {button}
    /\ dragging' = [w \in DOMAIN dragging |-> IF Alive(w) THEN Released(w) ELSE dragging[w]]
    /\ UNCHANGED <<children, focusedChild, focused, enabled, length, cursorPos, row, effect>>

-----------------------------------------------------------------------------
(* Keys.                                                                   *)

\* the box that the focus leads to, and the widget that has it there
Deepest == IF focusedChild[RootWidget] \in Boxes THEN focusedChild[RootWidget] ELSE RootWidget
Focus == focusedChild[Deepest]
Dangling == \E c \in {RootWidget, Deepest} : focusedChild[c] # NoWidget /\ focusedChild[c] \notin Inside(c)

Listens(w) == w \in OfKind("text") /\ focused[w] /\ enabled[w]

Bug_Backspace(w) == TRUE
Backspace(w) == cursorPos[w] > 0
\* at the start of the text Backspace falls through to Delete, and Delete to Return at its end
EditText(w, key) ==
    LET n == length[w]  at == cursorPos[w]
    IN  /\ cursorPos' = [cursorPos EXCEPT ![w] =
               CASE key = "Left" -> Greater(0, at - 1)
                 [] key = "Right" -> Lesser(n, at + 1)
                 [] key = "Home" -> 0
                 [] key = "End" -> n
                 [] key = "Backspace" /\ Backspace(w) -> at - 1
                 [] OTHER -> at]
        /\ length' = [length EXCEPT ![w] =
               IF (key = "Backspace" /\ Backspace(w)) \/ (key \in {"Backspace", "Delete"} /\ at < n)
               THEN n - 1 ELSE n]

\* Tab is for the innermost box on the way to the focus
TabCycle ==
    LET ws == children[Deepest]
        at == {i \in DOMAIN ws : ws[i] = Focus}
        i == IF at = {} THEN 1 ELSE CHOOSE j \in at : TRUE
    IN  IF ws = <<>> THEN UNCHANGED focusedChild
        ELSE focusedChild' = [focusedChild EXCEPT ![Deepest] = ws[(i % Len(ws)) + 1]]

KeyDown(key) ==
    /\ ~Dangling
    /\ IF Listens(Focus) /\ key \notin {"Tab", "x"}
       THEN EditText(Focus, key) /\ UNCHANGED focusedChild
       ELSE /\ IF key = "Tab" THEN TabCycle ELSE UNCHANGED focusedChild
            /\ UNCHANGED <<length, cursorPos>>
    /\ UNCHANGED <<children, focused, enabled, dragging, row, buttons, effect>>

TextInput ==
    /\ ~Dangling
    /\ Listens(Focus) /\ length[Focus] < MaxText
    /\ length' = [length EXCEPT ![Focus] = @ + 1]
    /\ cursorPos' = [cursorPos EXCEPT ![Focus] = @ + 1]
    /\ UNCHANGED <<children, focusedChild, focused, enabled, dragging, row, buttons, effect>>

-----------------------------------------------------------------------------
GuiNext ==
    \/ Draw
    \/ \E y \in Rows, column \in -1..MaxText + 1, button \in {1, 3} : MouseDown(y, column, button)
    \/ \E button \in {1, 3} : MouseUp(button)
    \/ \E key \in Keys : KeyDown(key)
    \/ TextInput

GuiSpec == GuiInit /\ [][GuiNext]_guiVars

\* However keys, clicks and typing alternate, the cursor of a text stays within it,
\* so that erase and insert never throw (textbox.cpp: onMouseDown, onKeyDown, onTextInput).
CursorInText == \A w \in OfKind("text") : cursorPos[w] \in 0..length[w]

\* A slider follows the mouse only while the left button is down, as InputState
\* has it: every release reaches every slider, wherever the mouse is by then.
DragMeansButton == \A w \in OfKind("slider") : Alive(w) /\ dragging[w] => 1 \in buttons
=============================================================================
