----------------------------- MODULE TerminalReader -----------------------------
(***************************************************************************)
(* Where a terminal page is scrolled to (apps/everyday/terminal/           *)
(* terminal-kbd.js): following the newest output, or reading older output, *)
(* which repaints, erasures, reconnections, delayed requests and the       *)
(* page's own timers must not move.                                        *)
(*                                                                         *)
(* The terminal shows one row of its lines, and what is remembered of the  *)
(* passage being read is that row.  Pixels are left out: `snap` is a copy  *)
(* of the screen laid over it while the program redraws.                   *)
(***************************************************************************)
EXTENDS Naturals, Sequences, FiniteSetsExt

CONSTANTS
  Texts,        \* what a line may say, besides nothing
  MaxLines,     \* the scrollback's limit
  Depth,        \* how far up from the last line a program repaints
  MaxOutput,    \* bound: writes of the program
  MaxGestures,  \* bound: gestures, keystrokes and other events of the page
  NoRow

ASSUME RowsAreNumbers == NoRow \notin Nat

Blank == 0
VARIABLES
  s,          \* the terminal and the script's variables
  hidden,     \* document.hidden
  issued,     \* show-latest requests made: their numbers count up
  writes, gestures

readerVars == <<s, hidden, issued, writes, gestures>>

ReaderInit ==
  /\ s = [lines |-> <<Blank>>, view |-> 0, scrolled |-> FALSE, alt |-> FALSE, marker |-> NoRow,
          reader |-> NoRow, follow |-> TRUE, following |-> FALSE, replaying |-> FALSE,
          reveal |-> FALSE, queued |-> FALSE, nav |-> FALSE, drag |-> FALSE,
          snap |-> FALSE, timer |-> FALSE, release |-> FALSE, fallback |-> FALSE,
          highest |-> 0, cancelled |-> 0]
  /\ hidden = FALSE /\ issued = 0 /\ writes = 0 /\ gestures = 0

Larger(a, b) == IF a >= b THEN a ELSE b
Base(x) == Len(x.lines) - 1
AtLatest(x) == x.alt \/ Base(x) - x.view <= 1
Line(x, row) == x.lines[row + 1]

-----------------------------------------------------------------------------
(* The reading anchor: what is read, how far from the newest line, and a   *)
(* marker of the terminal, which moves with its line and dies with it.     *)
Released(x) == [x EXCEPT !.snap = FALSE, !.timer = FALSE, !.release = FALSE]
Cleared(x) == [Released(x) EXCEPT !.reader = NoRow, !.marker = NoRow, !.fallback = FALSE]
Captured(x) ==
  IF AtLatest(x) THEN Cleared(x)
  ELSE [x EXCEPT !.reader = [distance |-> Base(x) - x.view, sample |-> Line(x, x.view)],
                 !.marker = x.view]

(* restoreReader(fallback): the row to go back to.                         *)
Matches(x, row) == x.reader.sample = Blank \/ Line(x, row) = x.reader.sample
Found(x) == {row \in 0..Base(x) : x.reader.sample # Blank /\ Matches(x, row)}
Expected(x) == IF Base(x) > x.reader.distance THEN Base(x) - x.reader.distance ELSE 0
Away(x, row) == IF row > Expected(x) THEN row - Expected(x) ELSE Expected(x) - row
Nearest(x) ==
  Min({row \in Found(x) : \A other \in Found(x) : Away(x, row) <= Away(x, other)})
RowOf(x, fallback) ==
  IF x.marker # NoRow THEN x.marker
  ELSE IF Found(x) # {} THEN Nearest(x)
  ELSE IF fallback THEN Expected(x) ELSE NoRow

CanRestore(x, hid) == x.reader # NoRow /\ ~x.alt /\ ~hid
KeepsMarker(x) == x                                    \* (mutant: a row is a passage)
Checked(x) ==
  IF x.marker # NoRow /\ ~Matches(x, x.marker) THEN [x EXCEPT !.marker = NoRow] ELSE x
AnchoredAt(x, row) ==
  [x EXCEPT !.view = row, !.scrolled = IF x.view = row THEN @ ELSE row < Base(x),
            !.marker = row, !.reader.distance = Base(x) - row]
AnchoredAnew(x) == LET y == Captured(x) IN [y EXCEPT !.follow = @ \/ y.reader = NoRow]
Uncovering(x) ==
  IF x.snap THEN [x EXCEPT !.fallback = FALSE, !.release = TRUE]
  ELSE [x EXCEPT !.fallback = FALSE, !.timer = FALSE]
Restored(x, fallback, hid) ==
  LET y == Checked(x)
      row == RowOf(y, fallback)
      there == AnchoredAt(y, row) IN
  IF ~CanRestore(x, hid) THEN x
  ELSE IF row = NoRow THEN y
  ELSE Uncovering(IF y.marker = NoRow /\ Found(y) = {} THEN AnchoredAnew(there) ELSE there)

-----------------------------------------------------------------------------
(* The terminal scrolls, and tells the script.                             *)
Queued(x) == IF x.nav \/ x.drag THEN x ELSE [x EXCEPT !.queued = TRUE]
OnScroll(x) ==
  IF x.nav \/ x.drag THEN Captured([x EXCEPT !.follow = AtLatest(x)]) ELSE Queued(x)
Revealed(x) ==
  IF x.alt \/ x.view = Base(x) THEN x
  ELSE OnScroll([x EXCEPT !.view = Base(x), !.scrolled = FALSE])

(* armLatest: without a number, of the page's own; or of a request.        *)
Follows(x) ==
  Revealed([Cleared(x) EXCEPT !.follow = TRUE, !.following = TRUE])
Armed(x) == IF x.reader # NoRow THEN x ELSE Follows(x)
Requested(x, id) ==
  IF id <= x.cancelled THEN x ELSE Follows([x EXCEPT !.highest = Larger(@, id)])

(* readerNavigation, cancelLatest and returnToTypingLine.                  *)
Navigating(x) == [Released(x) EXCEPT !.fallback = FALSE, !.nav = TRUE]
Cancelled(x) ==
  [Navigating(x) EXCEPT !.follow = FALSE, !.following = FALSE,
                        !.cancelled = Larger(@, x.highest)]
ToTypingLine(x, hid) ==
  IF hid \/ (x.reader = NoRow /\ x.follow /\ AtLatest(x)) THEN x
  ELSE Armed(Cleared([x EXCEPT !.nav = FALSE, !.drag = FALSE]))

ScrolledTo(x, row) == IF x.alt THEN x ELSE [x EXCEPT !.view = row, !.scrolled = row < Base(x)]

-----------------------------------------------------------------------------
(* What the program writes.  Every write ends in onWriteParsed.            *)
Write == writes < MaxOutput /\ writes' = writes + 1 /\ UNCHANGED <<hidden, issued, gestures>>
Shown(x) == Queued([x EXCEPT !.reveal = @ \/ (x.replaying /\ x.following)])

Grown(x, text) ==
  LET full == Len(x.lines) = MaxLines
      less(n) == IF n = 0 THEN 0 ELSE n - 1
      lines == Append(IF full THEN Tail(x.lines) ELSE x.lines, text) IN
  [x EXCEPT !.lines = lines,
            !.view = IF ~x.scrolled THEN Len(lines) - 1 ELSE IF full THEN less(@) ELSE @,
            !.marker = IF ~full \/ @ = NoRow THEN @ ELSE IF @ = 0 THEN NoRow ELSE @ - 1]
Emit(text) == ~s.alt /\ Write /\ s' = Shown(OnScroll(Grown(s, text)))

Repaint(row, text) ==
  /\ ~s.alt /\ Write /\ row \in 0..Base(s) /\ row + Depth > Base(s)
  /\ s' = Shown([s EXCEPT !.lines[row + 1] = text])

(* CSI 3 J erases the scrollback.  A copy of the screen is held over it.   *)
Held(x) ==
  IF x.reader = NoRow THEN x
  ELSE [x EXCEPT !.release = FALSE, !.timer = TRUE, !.snap = @ \/ ~hidden]
Erased(x) ==
  [x EXCEPT !.lines = <<Line(x, Base(x))>>, !.view = 0,
            !.marker = IF @ = Base(x) THEN 0 ELSE NoRow]
EraseScrollback ==
  /\ ~s.alt /\ Write
  /\ s' = Shown(IF Base(s) = 0 THEN Held(s) ELSE OnScroll(Erased(Held(s))))

OtherScreen == Write /\ s' = Shown([s EXCEPT !.alt = ~@])

-----------------------------------------------------------------------------
(* The page's frames and timers.                                           *)
Script == UNCHANGED <<hidden, issued, writes, gestures>>

Frame ==
  LET x == [s EXCEPT !.queued = FALSE] IN
  /\ s.queued /\ ~hidden /\ Script
  /\ s' = IF s.nav \/ s.drag THEN x
          ELSE IF s.reader # NoRow THEN Restored(x, s.fallback, FALSE)
          ELSE IF s.follow /\ ~AtLatest(s) THEN Revealed(x) ELSE x
RevealFrame == s.reveal /\ ~hidden /\ Script /\ s' = Revealed([s EXCEPT !.reveal = FALSE])
NavigationEnds ==
  /\ s.nav /\ Script
  /\ s' = Captured([s EXCEPT !.nav = FALSE, !.follow = AtLatest(s)])

(* The redraw took two seconds: settle for the distance.  (mutant: the     *)
(* copy waits for the passage)                                             *)
ExpiredWaiting(x) == Restored([x EXCEPT !.timer = FALSE], FALSE, hidden)
Expired(x) ==
  LET y == [x EXCEPT !.timer = FALSE, !.fallback = TRUE] IN
  IF CanRestore(y, hidden) THEN Restored(y, TRUE, hidden) ELSE Released(y)
HoldExpires == s.timer /\ Script /\ s' = Expired(s)
Uncovered == s.release /\ ~hidden /\ Script /\ s' = Released(s)

FollowTick == s.following /\ Script /\ s' = Revealed(s)
FollowEnds == s.following /\ Script /\ s' = [s EXCEPT !.following = FALSE]
ReplayEnds ==
  /\ s.replaying /\ Script
  /\ s' = LET x == [s EXCEPT !.replaying = FALSE] IN IF s.following THEN Revealed(x) ELSE x

-----------------------------------------------------------------------------
(* The user, the window and the connection.                                *)
Gesture == gestures < MaxGestures /\ gestures' = gestures + 1 /\ UNCHANGED writes

Scroll(row) == Gesture /\ ~hidden /\ s' = ScrolledTo(Cancelled(s), row) /\ UNCHANGED <<hidden, issued>>
GrabScrollbar ==
  /\ Gesture /\ ~hidden /\ ~s.drag /\ s' = Cancelled([s EXCEPT !.drag = TRUE])
  /\ UNCHANGED <<hidden, issued>>
DragTo(row) ==
  /\ Gesture /\ ~hidden /\ s.drag /\ s' = ScrolledTo(Navigating(s), row)
  /\ UNCHANGED <<hidden, issued>>
LetGo == s.drag /\ ~hidden /\ Script /\ s' = Navigating([s EXCEPT !.drag = FALSE])
Type == Gesture /\ s' = ToTypingLine(s, hidden) /\ UNCHANGED <<hidden, issued>>

(* showLatest numbers an activation and asks again several times.          *)
Activate == Gesture /\ issued' = issued + 1 /\ UNCHANGED <<s, hidden>>
ShowLatest(id) == Script /\ s' = Requested(s, id)

Resized == Gesture /\ s' = Queued(IF AtLatest(s) THEN Armed(s) ELSE s) /\ UNCHANGED <<hidden, issued>>
ReaderSocketOpens ==
  /\ Gesture /\ s' = Armed([Cleared(s) EXCEPT !.follow = TRUE, !.replaying = TRUE])
  /\ UNCHANGED <<hidden, issued>>
ReaderHides == ~hidden /\ Gesture /\ hidden' = TRUE /\ UNCHANGED <<s, issued>>
ReaderShows ==
  /\ hidden /\ hidden' = FALSE
  /\ s' = Queued(Restored(s, s.fallback, FALSE))
  /\ UNCHANGED <<issued, writes, gestures>>

Timers ==
  Frame \/ RevealFrame \/ NavigationEnds \/ HoldExpires \/ Uncovered \/ FollowTick
    \/ FollowEnds \/ ReplayEnds
ReaderNext ==
  \/ \E text \in Texts \cup {Blank} : Emit(text) \/ \E row \in 0..Base(s) : Repaint(row, text)
  \/ EraseScrollback \/ OtherScreen
  \/ Timers
  \/ \E row \in 0..Base(s) : Scroll(row) \/ DragTo(row)
  \/ GrabScrollbar \/ LetGo \/ Type \/ Activate \/ Resized \/ ReaderSocketOpens
  \/ ReaderHides \/ ReaderShows
  \/ \E id \in 1..issued : ShowLatest(id)

ReaderSpec == ReaderInit /\ [][ReaderNext]_readerVars

(* Frames come while the page is shown, timers always; a hidden page is    *)
(* shown again.                                                            *)
ReaderFairSpec ==
  /\ ReaderSpec
  /\ WF_readerVars(Frame) /\ WF_readerVars(NavigationEnds) /\ WF_readerVars(HoldExpires)
  /\ WF_readerVars(Uncovered) /\ WF_readerVars(ReaderShows)

-----------------------------------------------------------------------------
(* Whatever the program prints, repaints or erases, and whatever the page  *)
(* itself does, a reader sees the passage they chose while it exists.      *)
Settled == ~hidden /\ ~s.alt /\ ~s.queued /\ ~s.nav /\ ~s.drag
ReaderKeepsPlace ==
  Settled /\ s.reader # NoRow /\ Found(s) # {} => Matches(s, s.view)

(* The copy laid over the screen while the program redraws goes away.      *)
CopyGoesAway == s.snap ~> ~s.snap
=============================================================================
