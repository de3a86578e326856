---------------------------- MODULE TerminalGestures ----------------------------
(***************************************************************************)
(* Fingers on the terminal of a touch screen (apps/everyday/terminal/      *)
(* terminal-kbd.js): a tap types or opens a link, a drag scrolls, two      *)
(* fingers take the terminal's size, a long press selects a word, which    *)
(* the same finger extends and two handles adjust afterwards.              *)
(*                                                                         *)
(* Cells are numbered along the text.  Scrolling itself is                 *)
(* TerminalReader's, the size TerminalSize's.                              *)
(***************************************************************************)
EXTENDS Naturals, FiniteSets

CONSTANTS
  Cells,        \* an interval of cells
  Links,        \* those within an address
  MaxTouches,   \* bound: fingers put down
  NoCell

ASSUME CellsAreNumbers == Cells \subseteq Nat

Handles == {"start", "end"}

VARIABLES
  pad,        \* fingers on the overlay
  onHandle,   \* handles that have a finger
  g,          \* the gesture: moved, scrolled, selecting, waiting (for a long press), two
  cell,       \* where the gesture began, and the anchor of its selection
  ends,       \* selStart and selEnd
  overlay,    \* the handles, those being dragged, the Copy button
  selected,   \* what the terminal has selected
  keyboard, copied, touches

gestureVars == <<pad, onHandle, g, cell, ends, overlay, selected, keyboard, copied, touches>>

Still == [moved |-> FALSE, scrolled |-> FALSE, selecting |-> FALSE, waiting |-> FALSE,
          two |-> FALSE]

GesturesInit ==
  /\ pad = 0 /\ onHandle = {} /\ g = Still /\ cell = [start |-> NoCell, anchor |-> NoCell]
  /\ ends = NoCell /\ selected = NoCell /\ keyboard = FALSE /\ copied = NoCell /\ touches = 0
  /\ overlay = [handles |-> FALSE, drag |-> {}, copy |-> FALSE]

Ordered(a, b) == IF b < a THEN [start |-> b, end |-> a] ELSE [start |-> a, end |-> b]

-----------------------------------------------------------------------------
(* touchstart: a further finger anywhere makes it a gesture of two.        *)
TouchStart(c) ==
  /\ pad < 2 /\ touches < MaxTouches /\ touches' = touches + 1 /\ pad' = pad + 1
  /\ IF pad + Cardinality(onHandle) > 0
     THEN /\ g' = [g EXCEPT !.two = TRUE, !.waiting = FALSE, !.selecting = FALSE]
          /\ UNCHANGED <<cell, overlay>>
     ELSE /\ g' = [Still EXCEPT !.waiting = TRUE]
          /\ cell' = [start |-> c, anchor |-> NoCell]
          /\ overlay' = [overlay EXCEPT !.copy = FALSE]
  /\ UNCHANGED <<onHandle, ends, selected, keyboard, copied>>

(* Held still for 450 ms: the word under the finger.                       *)
LongPress ==
  /\ g.waiting
  /\ \E first, last \in Cells :
       /\ first <= cell.start /\ cell.start <= last
       /\ cell' = [cell EXCEPT !.anchor = first]
       /\ ends' = [start |-> first, end |-> last] /\ selected' = ends'
  /\ g' = [g EXCEPT !.waiting = FALSE, !.selecting = TRUE]
  /\ overlay' = [overlay EXCEPT !.handles = FALSE] /\ keyboard' = FALSE
  /\ UNCHANGED <<pad, onHandle, copied, touches>>

(* touchmove, by more than a drift or not, by enough to scroll or not.     *)
TouchMove(c, far, scrolls) ==
  /\ pad > 0 /\ ~g.two /\ (scrolls => far \/ g.moved)
  /\ IF g.selecting
     THEN /\ ends' = [start |-> cell.anchor, end |-> c] /\ selected' = Ordered(cell.anchor, c)
          /\ g' = [g EXCEPT !.moved = @ \/ far]
     ELSE /\ g' = [g EXCEPT !.moved = @ \/ far, !.waiting = @ /\ ~far, !.scrolled = @ \/ scrolls]
          /\ UNCHANGED <<ends, selected>>
  /\ UNCHANGED <<pad, onHandle, cell, overlay, keyboard, copied, touches>>

(* touchend.  (mutant: the handles stay where the finger dragged them)     *)
FramedAsDragged == ends
Framed == Ordered(ends.start, ends.end)
LastFinger == pad + Cardinality(onHandle) = 1
EndOfTwo ==
  /\ g' = [g EXCEPT !.waiting = FALSE, !.two = ~LastFinger]
  /\ UNCHANGED <<ends, overlay, selected, keyboard>>
EndOfSelection ==
  /\ g' = [g EXCEPT !.waiting = FALSE, !.selecting = FALSE] /\ keyboard' = FALSE
  /\ IF selected = NoCell THEN UNCHANGED <<ends, overlay>>
     ELSE ends' = Framed /\ overlay' = [handles |-> TRUE, drag |-> {}, copy |-> TRUE]
  /\ UNCHANGED selected
EndOfScroll ==
  /\ g' = [g EXCEPT !.waiting = FALSE]
  /\ UNCHANGED <<ends, overlay, selected, keyboard>>
EndOfTap ==
  /\ g' = [g EXCEPT !.waiting = FALSE]
  /\ IF cell.start \in Links THEN keyboard' = FALSE /\ UNCHANGED <<overlay, selected>>
     ELSE /\ keyboard' = TRUE /\ selected' = NoCell
          /\ overlay' = [overlay EXCEPT !.handles = FALSE]
  /\ UNCHANGED ends
TouchEnd ==
  /\ pad > 0 /\ pad' = pad - 1
  /\ \/ g.two /\ EndOfTwo
     \/ ~g.two /\ g.selecting /\ EndOfSelection
     \/ ~g.two /\ ~g.selecting /\ IF g.scrolled THEN EndOfScroll ELSE EndOfTap
  /\ UNCHANGED <<onHandle, cell, copied, touches>>

(* The system takes the touch away: nobody listens for touchcancel.        *)
TouchCancel ==
  /\ pad > 0 /\ pad' = 0
  /\ UNCHANGED <<onHandle, g, cell, ends, overlay, selected, keyboard, copied, touches>>

-----------------------------------------------------------------------------
(* The handles, either or both under a finger.                             *)
Grab(h) ==
  /\ overlay.handles /\ h \notin onHandle /\ touches < MaxTouches /\ touches' = touches + 1
  /\ onHandle' = onHandle \cup {h}
  /\ overlay' = [overlay EXCEPT !.drag = @ \cup {h}, !.copy = FALSE]
  /\ UNCHANGED <<pad, g, cell, ends, selected, keyboard, copied>>

Clamped(h, c) ==
  IF h = "end" THEN IF c < ends.start THEN ends.start ELSE c
  ELSE IF ends.end < c THEN ends.end ELSE c
DragHandle(h, c) ==
  /\ h \in overlay.drag
  /\ ends' = [ends EXCEPT ![h] = Clamped(h, c)]
  /\ selected' = Ordered(ends'.start, ends'.end)
  /\ UNCHANGED <<pad, onHandle, g, cell, overlay, keyboard, copied, touches>>

Drop(h) ==
  /\ h \in onHandle /\ onHandle' = onHandle \ {h}
  /\ overlay' = [overlay EXCEPT !.drag = @ \ {h},
                               !.copy = @ \/ (h \in overlay.drag /\ selected # NoCell)]
  /\ UNCHANGED <<pad, g, cell, ends, selected, keyboard, copied, touches>>

Copy ==
  /\ overlay.copy /\ copied' = selected /\ selected' = NoCell
  /\ overlay' = [overlay EXCEPT !.copy = FALSE, !.handles = FALSE]
  /\ UNCHANGED <<pad, onHandle, g, cell, ends, keyboard, touches>>

(* Typing, or output that overwrites it, takes the selection away.         *)
Deselected ==
  /\ selected # NoCell /\ selected' = NoCell
  /\ UNCHANGED <<pad, onHandle, g, cell, ends, overlay, keyboard, copied, touches>>

GesturesNext ==
  \/ \E c \in Cells :
       \/ TouchStart(c)
       \/ \E far, scrolls \in BOOLEAN : TouchMove(c, far, scrolls)
       \/ \E h \in Handles : DragHandle(h, c)
  \/ \E h \in Handles : Grab(h) \/ Drop(h)
  \/ LongPress \/ TouchEnd \/ TouchCancel \/ Copy \/ Deselected

GesturesSpec == GesturesInit /\ [][GesturesNext]_gestureVars

-----------------------------------------------------------------------------
(* What is selected, and what Copy would take, is what lies between the    *)
(* handles, or between where the long press began and the finger, however  *)
(* many fingers drag at once; and the handles never cross.                 *)
HandlesFrameSelection ==
  /\ selected # NoCell /\ (overlay.handles \/ g.selecting) => selected = Ordered(ends.start, ends.end)
  /\ overlay.handles => ends.start <= ends.end
=============================================================================
