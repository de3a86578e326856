------------------------ MODULE DesktopPartsProofs ------------------------
(***************************************************************************)
(* Seven parts of the terminal's page, the desktop and the games, for      *)
(* constants of any size.                                                  *)
(*                                                                         *)
(* Reading: a reader who settled sees their passage, because every write   *)
(* has it looked for again and nothing else moves it.                      *)
(*                                                                         *)
(* Typing: the shell's line is what the forwarder has sent, and a change   *)
(* that it has not sent yet is waiting for its timer.                      *)
(*                                                                         *)
(* Selecting: what is selected, or dragged, has two ends in order, and     *)
(* the handles are at them.                                                *)
(*                                                                         *)
(* Scores: a run has one row, and the row without a date is the old best.  *)
(*                                                                         *)
(* Windows: the zones of a layout, rounded and with their gaps, lie inside *)
(* the frame and apart, so that each window matches its own zone alone.    *)
(*                                                                         *)
(* Connecting: the page counts each attempt before it makes it.            *)
(*                                                                         *)
(* Serving: a version's cache and its requests have nothing older than it. *)
(***************************************************************************)
EXTENDS TerminalReader, TerminalTyping, TerminalGestures, GameScore,
        WindowManager, TerminalConnection,
        FiniteSetTheorems, SequenceTheorems, WellFoundedInduction, TLAPS

\* A set of numbers has a least.
LEMMA LeastOf ==
  ASSUME NEW T \in SUBSET Nat, T # {}
  PROVE  Min(T) \in T /\ \A n \in T : Min(T) <= n
<1> DEFINE less == OpToRel(<, Nat)
<1>1. IsWellFoundedOn(less, Nat)
  BY NatLessThanWellFounded
<1>2. \A x, y \in Nat : x < y => <<x, y>> \in less
  BY DEF OpToRel
<1> HIDE DEF less
<1>3. PICK x \in T : \A y \in T : <<y, x>> \notin less
  BY <1>1, WFMin
<1>4. ASSUME NEW y \in T PROVE x <= y
  <2>1. x \in Nat /\ y \in Nat
    OBVIOUS
  <2>2. ~(y < x)
    BY <1>2, <1>3, <2>1
  <2> QED BY <2>1, <2>2
<1> QED BY <1>3, <1>4 DEF Min

\* A set of numbers that are at most n has a greatest.
LEMMA GreatestOf ==
  ASSUME NEW n \in Nat, NEW T \in SUBSET (0..n), T # {}
  PROVE  \E x \in T : \A y \in T : y <= x
<1> DEFINE less == OpToRel(<, Nat)
           Down == {n - x : x \in T}
<1>1. IsWellFoundedOn(less, Nat)
  BY NatLessThanWellFounded
<1>2. \A x, y \in Nat : x < y => <<x, y>> \in less
  BY DEF OpToRel
<1>3. Down \in SUBSET Nat /\ Down # {}
  <2>1. \A x \in T : n - x \in Nat
    OBVIOUS
  <2> QED BY <2>1
<1> HIDE DEF less
<1>4. PICK z \in Down : \A y \in Down : <<y, z>> \notin less
  BY <1>1, <1>3, WFMin
<1>5. PICK x \in T : z = n - x
  BY <1>4
<1>6. ASSUME NEW y \in T PROVE y <= x
  <2>1. x \in 0..n /\ y \in 0..n /\ n - y \in Down
    OBVIOUS
  <2>2. ~(n - y < z)
    BY <1>2, <1>3, <1>4, <2>1
  <2> QED BY <1>5, <2>1, <2>2
<1> QED BY <1>6

-----------------------------------------------------------------------------
(* Where the terminal is scrolled to (TerminalReader).                     *)

Words == Texts \cup {Blank}
Readings == [distance : Nat, sample : Words]

\* The terminal has a line, shows one of its lines, and what marks the
\* passage is one of them.
Screens ==
  {x \in [lines : Seq(Words), view : Nat, scrolled : BOOLEAN, alt : BOOLEAN,
          marker : Nat \cup {NoRow}, reader : Readings \cup {NoRow},
          follow : BOOLEAN, following : BOOLEAN, replaying : BOOLEAN, reveal : BOOLEAN,
          queued : BOOLEAN, nav : BOOLEAN, drag : BOOLEAN, snap : BOOLEAN, timer : BOOLEAN,
          release : BOOLEAN, fallback : BOOLEAN, highest : Nat, cancelled : Nat] :
     Len(x.lines) > 0 /\ x.view < Len(x.lines) /\ (x.marker # NoRow => x.marker < Len(x.lines))}

\* A row is shown that matches the passage, if there is one.
Sees(x) == x.reader # NoRow /\ Found(x) # {} => Matches(x, x.view)
Waits(x) == x.queued \/ x.nav \/ x.drag

ReaderInv ==
  /\ s \in Screens /\ hidden \in BOOLEAN /\ issued \in Nat
  /\ hidden \/ s.alt \/ Waits(s) \/ Sees(s)

LEMMA RowsOf ==
  ASSUME NEW x \in Screens
  PROVE  /\ Base(x) \in Nat /\ Base(x) = Len(x.lines) - 1 /\ x.view \in 0..Base(x)
         /\ x.marker # NoRow => x.marker \in 0..Base(x)
         /\ \A row \in 0..Base(x) : Line(x, row) \in Words /\ row \in Nat /\ row # NoRow
BY RowsAreNumbers DEF Screens, Base, Line

\* What does not touch the lines, the place and the anchor.
SameView(y, x) == y.lines = x.lines /\ y.view = x.view /\ y.alt = x.alt
SamePlace(y, x) == SameView(y, x) /\ y.reader = x.reader

LEMMA SameSeen ==
  ASSUME NEW x, NEW y, SamePlace(y, x) PROVE Sees(y) <=> Sees(x)
<1>1. Found(y) = Found(x)
  BY DEF SamePlace, SameView, Found, Matches, Line, Base
<1> QED BY <1>1 DEF SamePlace, SameView, Sees, Matches, Line

LEMMA ReleasedIs ==
  ASSUME NEW x \in Screens
  PROVE  /\ Released(x) \in Screens /\ SamePlace(Released(x), x)
         /\ Waits(x) => Waits(Released(x))
<1> DEFINE y == Released(x)
<1>1. y \in Screens
  BY DEF Screens, Released
<1>2. /\ y.lines = x.lines /\ y.view = x.view /\ y.alt = x.alt /\ y.reader = x.reader
      /\ y.queued = x.queued /\ y.nav = x.nav /\ y.drag = x.drag
  BY DEF Screens, Released
<1> HIDE DEF y
<1> QED BY <1>1, <1>2 DEF SamePlace, SameView, Waits, y

LEMMA ClearedIs ==
  ASSUME NEW x \in Screens
  PROVE  /\ Cleared(x) \in Screens /\ SameView(Cleared(x), x) /\ Cleared(x).reader = NoRow
         /\ Cleared(x).nav = x.nav /\ Cleared(x).drag = x.drag /\ Cleared(x).queued = x.queued
BY DEF Screens, Cleared, Released, SameView

LEMMA CapturedIs ==
  ASSUME NEW x \in Screens
  PROVE  /\ Captured(x) \in Screens /\ SameView(Captured(x), x)
         /\ Captured(x).nav = x.nav /\ Captured(x).drag = x.drag /\ Captured(x).queued = x.queued
         /\ AtLatest(x) => Captured(x).reader = NoRow
         /\ Sees(Captured(x))
<1>1. CASE AtLatest(x)
  BY <1>1, ClearedIs DEF Captured, Sees
<1>2. CASE ~AtLatest(x)
  <2> DEFINE d == Base(x) - x.view
             w == Line(x, x.view)
             y == [x EXCEPT !.reader = [distance |-> d, sample |-> w], !.marker = x.view]
  <2>1. Captured(x) = y
    BY <1>2 DEF Captured
  <2>2. d \in Nat /\ w \in Words
    BY RowsOf
  <2> HIDE DEF d, w
  <2>3. [distance |-> d, sample |-> w] \in Readings
    BY <2>2 DEF Readings
  <2>4. y \in Screens
    BY <2>3 DEF Screens
  <2>5. /\ SameView(y, x) /\ y.reader.sample = w
        /\ y.nav = x.nav /\ y.drag = x.drag /\ y.queued = x.queued
    BY DEF Screens, SameView
  <2>6. Matches(y, y.view)
    BY <2>5 DEF Matches, Line, SameView, w
  <2> QED BY <1>2, <2>1, <2>4, <2>5, <2>6 DEF Sees
<1> QED BY <1>1, <1>2

LEMMA QueuedIs ==
  ASSUME NEW x \in Screens
  PROVE  /\ Queued(x) \in Screens /\ SamePlace(Queued(x), x) /\ Waits(Queued(x))
         /\ Queued(x).nav = x.nav /\ Queued(x).drag = x.drag
<1>1. CASE x.nav \/ x.drag
  BY <1>1 DEF Queued, SamePlace, SameView, Waits
<1>2. CASE ~(x.nav \/ x.drag)
  <2>1. Queued(x) = [x EXCEPT !.queued = TRUE]
    BY <1>2 DEF Queued
  <2> QED BY <2>1 DEF Screens, SamePlace, SameView, Waits
<1> QED BY <1>1, <1>2

LEMMA OnScrollIs ==
  ASSUME NEW x \in Screens
  PROVE  /\ OnScroll(x) \in Screens /\ SameView(OnScroll(x), x) /\ Waits(OnScroll(x))
         /\ x.reader = NoRow /\ AtLatest(x) => OnScroll(x).reader = NoRow
<1>1. CASE x.nav \/ x.drag
  <2> DEFINE latest == AtLatest(x)
             y == [x EXCEPT !.follow = latest]
  <2>1. OnScroll(x) = Captured(y)
    BY <1>1 DEF OnScroll
  <2>2. latest \in BOOLEAN
    BY DEF AtLatest, Screens
  <2> HIDE DEF latest
  <2>3. y \in Screens /\ SameView(y, x) /\ y.nav = x.nav /\ y.drag = x.drag
    BY <2>2 DEF Screens, SameView
  <2>4. AtLatest(y) <=> AtLatest(x)
    BY <2>3 DEF AtLatest, SameView, Base
  <2> HIDE DEF y
  <2> QED BY <1>1, <2>1, <2>3, <2>4, CapturedIs DEF Waits, SameView
<1>2. CASE ~(x.nav \/ x.drag)
  BY <1>2, QueuedIs DEF OnScroll, SamePlace
<1> QED BY <1>1, <1>2

LEMMA RevealedIs ==
  ASSUME NEW x \in Screens
  PROVE  /\ Revealed(x) \in Screens /\ Revealed(x).alt = x.alt
         /\ Revealed(x) = x \/ Waits(Revealed(x))
         /\ x.reader = NoRow => Revealed(x).reader = NoRow
<1>1. CASE x.alt \/ x.view = Base(x)
  BY <1>1 DEF Revealed
<1>2. CASE ~(x.alt \/ x.view = Base(x))
  <2> DEFINE b == Base(x)
             y == [x EXCEPT !.view = b, !.scrolled = FALSE]
  <2>1. Revealed(x) = OnScroll(y)
    BY <1>2 DEF Revealed
  <2>2. b \in Nat /\ b < Len(x.lines)
    BY RowsOf DEF Screens
  <2>0. b = Base(x)
    OBVIOUS
  <2> HIDE DEF b
  <2>3. y \in Screens /\ y.lines = x.lines /\ y.view = b /\ y.alt = x.alt /\ y.reader = x.reader
    BY <2>2 DEF Screens
  <2> HIDE DEF y
  <2>4. AtLatest(y)
    BY <2>0, <2>2, <2>3 DEF AtLatest, Base
  <2> QED BY <2>1, <2>3, <2>4, OnScrollIs DEF SameView
<1> QED BY <1>1, <1>2

\* Who follows the newest output reads nothing older.
LEMMA FollowsIs ==
  ASSUME NEW x \in Screens
  PROVE  Follows(x) \in Screens /\ Follows(x).reader = NoRow
<1> DEFINE y == Cleared(x)
           z == [y EXCEPT !.follow = TRUE, !.following = TRUE]
<1>1. y \in Screens /\ y.reader = NoRow
  BY ClearedIs
<1> HIDE DEF y
<1>2. z \in Screens /\ z.reader = NoRow
  BY <1>1 DEF Screens
<1>3. Follows(x) = Revealed(z)
  BY DEF Follows, y
<1> HIDE DEF z
<1> QED BY <1>2, <1>3, RevealedIs

LEMMA ArmedIs ==
  ASSUME NEW x \in Screens
  PROVE  Armed(x) \in Screens /\ (x.reader = NoRow => Armed(x).reader = NoRow)
BY FollowsIs DEF Armed

LEMMA NavigatingIs ==
  ASSUME NEW x \in Screens
  PROVE  /\ Navigating(x) \in Screens /\ Navigating(x).nav = TRUE /\ Navigating(x).lines = x.lines
         /\ Cancelled(x) \in Screens /\ Cancelled(x).nav = TRUE /\ Cancelled(x).lines = x.lines
<1> DEFINE y == Navigating(x)
           c == Larger(y.cancelled, x.highest)
<1>1. y \in Screens /\ y.nav = TRUE /\ y.lines = x.lines
  <2> DEFINE w == Released(x)
  <2>1. w \in Screens /\ w.lines = x.lines
    BY ReleasedIs DEF SamePlace, SameView
  <2>2. y = [w EXCEPT !.fallback = FALSE, !.nav = TRUE]
    BY DEF Navigating
  <2> HIDE DEF w
  <2> QED BY <2>1, <2>2 DEF Screens
<1>2. c \in Nat
  BY <1>1 DEF Larger, Screens
<1>3. Cancelled(x) = [y EXCEPT !.follow = FALSE, !.following = FALSE, !.cancelled = c]
  BY DEF Cancelled
<1> HIDE DEF y, c
<1>4. Cancelled(x) \in Screens /\ Cancelled(x).nav = TRUE /\ Cancelled(x).lines = x.lines
  <2> DEFINE z == [y EXCEPT !.follow = FALSE, !.following = FALSE]
  <2>0. y \in Screens
    BY <1>1
  <2>1. z \in Screens /\ z.nav = y.nav /\ z.lines = y.lines
    BY ONLY <2>0 DEF Screens
  <2>2. Cancelled(x) = [z EXCEPT !.cancelled = c]
    BY <1>3
  <2> HIDE DEF z
  <2>3. /\ [z EXCEPT !.cancelled = c] \in Screens /\ [z EXCEPT !.cancelled = c].nav = z.nav
        /\ [z EXCEPT !.cancelled = c].lines = z.lines
    BY ONLY <1>2, <2>1 DEF Screens
  <2> QED BY ONLY <1>1, <2>1, <2>2, <2>3
<1> QED BY <1>1, <1>4 DEF y

LEMMA ScrolledToIs ==
  ASSUME NEW x \in Screens, NEW row \in 0..Base(x)
  PROVE  ScrolledTo(x, row) \in Screens /\ ScrolledTo(x, row).nav = x.nav
<1>1. row \in Nat /\ row < Len(x.lines) /\ (row < Base(x)) \in BOOLEAN
  BY RowsOf DEF Base, Screens
<1> DEFINE older == row < Base(x)
<1> HIDE DEF older
<1>2. older \in BOOLEAN
  BY DEF older
<1>3. [x EXCEPT !.view = row, !.scrolled = older] \in Screens
      /\ [x EXCEPT !.view = row, !.scrolled = older].nav = x.nav
  BY <1>1, <1>2 DEF Screens
<1> QED BY <1>3 DEF ScrolledTo, older

\* Going back to the passage: the row that marks it, or one that says the
\* same; and only where there is none, a row by its distance, which is
\* what is read from then on.
LEMMA CheckedIs ==
  ASSUME NEW x \in Screens
  PROVE  /\ Checked(x) \in Screens /\ SamePlace(Checked(x), x)
         /\ Waits(x) => Waits(Checked(x))
         /\ Checked(x).marker # NoRow => Matches(Checked(x), Checked(x).marker)
<1>1. CASE x.marker # NoRow /\ ~Matches(x, x.marker)
  <2>1. Checked(x) = [x EXCEPT !.marker = NoRow]
    BY <1>1 DEF Checked
  <2> QED BY <2>1 DEF Screens, SamePlace, SameView, Waits
<1>2. CASE ~(x.marker # NoRow /\ ~Matches(x, x.marker))
  BY <1>2 DEF Checked, SamePlace, SameView
<1> QED BY <1>1, <1>2

LEMMA ExpectedIsARow ==
  ASSUME NEW x \in Screens, x.reader # NoRow
  PROVE  Expected(x) \in 0..Base(x)
<1>1. x.reader.distance \in Nat /\ Base(x) \in Nat
  BY RowsOf DEF Screens, Readings
<1> QED BY <1>1 DEF Expected

LEMMA NearestIsFound ==
  ASSUME NEW x \in Screens, x.reader # NoRow, Found(x) # {}
  PROVE  Nearest(x) \in Found(x)
<1>1. Found(x) \subseteq 0..Base(x) /\ Base(x) \in Nat /\ Expected(x) \in 0..Base(x)
  BY RowsOf, ExpectedIsARow DEF Found
<1>2. \A row \in Found(x) : Away(x, row) \in Nat
  BY <1>1 DEF Away
<1> DEFINE ways == {Away(x, row) : row \in Found(x)}
<1>3. ways \in SUBSET Nat /\ ways # {}
  BY <1>2
<1>4. Min(ways) \in ways /\ \A n \in ways : Min(ways) <= n
  BY <1>3, LeastOf
<1>5. PICK near \in Found(x) : Away(x, near) = Min(ways)
  BY <1>4
<1>6. \A other \in Found(x) : Away(x, near) <= Away(x, other)
  BY <1>4, <1>5
<1> DEFINE T == {row \in Found(x) : \A other \in Found(x) : Away(x, row) <= Away(x, other)}
<1>7. T \in SUBSET Nat /\ near \in T
  BY <1>1, <1>5, <1>6
<1>8. Min(T) \in T
  BY <1>7, LeastOf
<1> QED BY <1>8 DEF Nearest

LEMMA RowOfMatches ==
  ASSUME NEW x \in Screens, x.reader # NoRow, x.marker # NoRow => Matches(x, x.marker),
         NEW fallback \in BOOLEAN, NEW row, row = RowOf(x, fallback), row # NoRow
  PROVE  /\ row \in 0..Base(x)
         /\ ~(x.marker = NoRow /\ Found(x) = {}) => Matches(x, row)
<1>1. CASE x.marker # NoRow
  BY <1>1, RowsOf DEF RowOf
<1>2. CASE x.marker = NoRow /\ Found(x) # {}
  <2>1. row \in Found(x)
    BY <1>2, NearestIsFound DEF RowOf
  <2> QED BY <2>1 DEF Found
<1>3. CASE x.marker = NoRow /\ Found(x) = {}
  BY <1>3, ExpectedIsARow DEF RowOf
<1> QED BY <1>1, <1>2, <1>3

LEMMA AnchoredAtIs ==
  ASSUME NEW x \in Screens, x.reader # NoRow, NEW row \in 0..Base(x), NEW y, y = AnchoredAt(x, row)
  PROVE  /\ y \in Screens /\ y.lines = x.lines /\ y.view = row /\ y.alt = x.alt
         /\ y.reader # NoRow => y.reader.sample = x.reader.sample
<1> DEFINE older == IF x.view = row THEN x.scrolled ELSE row < Base(x)
           d == Base(x) - row
           r == [x.reader EXCEPT !.distance = d]
<1>1. row \in Nat /\ row < Len(x.lines) /\ d \in Nat
  BY RowsOf DEF Base, Screens
<1>2. older \in BOOLEAN
  <2>1. x.scrolled \in BOOLEAN
    BY DEF Screens
  <2>2. (row < Base(x)) \in BOOLEAN
    OBVIOUS
  <2> QED BY <2>1, <2>2
<1>3. r \in Readings /\ r.sample = x.reader.sample
  BY <1>1 DEF Screens, Readings
<1> DEFINE z == [x EXCEPT !.view = row, !.scrolled = older, !.marker = row]
<1>4. y = [z EXCEPT !.reader = r]
  BY DEF AnchoredAt
<1> HIDE DEF older, d, r
<1>5. z \in Screens /\ z.lines = x.lines /\ z.view = row /\ z.alt = x.alt
  BY <1>1, <1>2 DEF Screens
<1> HIDE DEF z
<1> QED BY <1>3, <1>4, <1>5 DEF Screens

LEMMA AnchoredAnewIs ==
  ASSUME NEW x \in Screens
  PROVE  /\ AnchoredAnew(x) \in Screens /\ SamePlace(AnchoredAnew(x), Captured(x))
<1> DEFINE y == Captured(x)
           to == y.follow \/ y.reader = NoRow
<1>1. y \in Screens
  BY CapturedIs
<1>2. AnchoredAnew(x) = [y EXCEPT !.follow = to]
  BY DEF AnchoredAnew
<1>3. to \in BOOLEAN
  BY <1>1 DEF Screens
<1> HIDE DEF y, to
<1>4. [y EXCEPT !.follow = to] \in Screens /\ SamePlace([y EXCEPT !.follow = to], y)
  BY <1>1, <1>3 DEF Screens, SamePlace, SameView
<1> QED BY <1>2, <1>4 DEF y

LEMMA UncoveringIs ==
  ASSUME NEW x \in Screens
  PROVE  Uncovering(x) \in Screens /\ SamePlace(Uncovering(x), x)
<1>1. CASE x.snap
  <2>1. Uncovering(x) = [x EXCEPT !.fallback = FALSE, !.release = TRUE]
    BY <1>1 DEF Uncovering
  <2> QED BY <2>1 DEF Screens, SamePlace, SameView
<1>2. CASE ~x.snap
  <2>1. Uncovering(x) = [x EXCEPT !.fallback = FALSE, !.timer = FALSE]
    BY <1>2 DEF Uncovering
  <2> QED BY <2>1 DEF Screens, SamePlace, SameView
<1> QED BY <1>1, <1>2

\* Whoever goes back sees the passage again, if a row says it.
LEMMA RestoredIs ==
  ASSUME NEW x \in Screens, NEW fallback \in BOOLEAN, NEW hid \in BOOLEAN
  PROVE  /\ Restored(x, fallback, hid) \in Screens
         /\ Restored(x, fallback, hid) = x \/ Sees(Restored(x, fallback, hid))
         /\ CanRestore(x, hid) => Sees(Restored(x, fallback, hid))
<1>1. CASE ~CanRestore(x, hid)
  BY <1>1 DEF Restored
<1>2. CASE CanRestore(x, hid)
  <2> DEFINE y == Checked(x)
             row == RowOf(y, fallback)
             there == AnchoredAt(y, row)
  <2>1. /\ y \in Screens /\ y.reader # NoRow
        /\ y.marker # NoRow => Matches(y, y.marker)
    BY <1>2, CheckedIs DEF CanRestore, SamePlace
  <2>2. Restored(x, fallback, hid) =
          IF row = NoRow THEN y
          ELSE Uncovering(IF y.marker = NoRow /\ Found(y) = {} THEN AnchoredAnew(there) ELSE there)
    BY <1>2 DEF Restored
  <2> HIDE DEF y
  <2>3. CASE row = NoRow
    <3>1. Restored(x, fallback, hid) = y
      BY <2>2, <2>3
    <3>2. Found(y) = {}
      <4> SUFFICES ASSUME Found(y) # {} PROVE FALSE
        OBVIOUS
      <4>1. y.marker = NoRow
        BY <2>3 DEF RowOf
      <4>2. row \in Found(y)
        BY <2>1, <4>1, NearestIsFound DEF RowOf
      <4> QED BY <2>1, <2>3, <4>2, RowsOf DEF Found
    <3> QED BY <2>1, <3>1, <3>2 DEF Sees
  <2>4. CASE row # NoRow
    <3>1. /\ row \in 0..Base(y)
          /\ ~(y.marker = NoRow /\ Found(y) = {}) => Matches(y, row)
      BY <2>1, <2>4, RowOfMatches
    <3> HIDE DEF row
    <3>2. /\ there \in Screens /\ there.lines = y.lines /\ there.view = row
          /\ there.reader # NoRow => there.reader.sample = y.reader.sample
      BY <2>1, <3>1, AnchoredAtIs
    <3> HIDE DEF there
    <3>3. CASE y.marker = NoRow /\ Found(y) = {}
      <4>1. Restored(x, fallback, hid) = Uncovering(AnchoredAnew(there))
        BY <2>2, <2>4, <3>3
      <4>2. AnchoredAnew(there) \in Screens /\ Sees(AnchoredAnew(there))
        BY <3>2, AnchoredAnewIs, CapturedIs, SameSeen
      <4> QED BY <4>1, <4>2, UncoveringIs, SameSeen
    <3>4. CASE ~(y.marker = NoRow /\ Found(y) = {})
      <4>1. Restored(x, fallback, hid) = Uncovering(there)
        BY <2>2, <2>4, <3>4
      <4>2. Sees(there)
        BY <3>1, <3>2, <3>4 DEF Sees, Matches, Line
      <4> QED BY <3>2, <4>1, <4>2, UncoveringIs, SameSeen
    <3> QED BY <3>3, <3>4
  <2> QED BY <2>3, <2>4
<1> QED BY <1>1, <1>2

-----------------------------------------------------------------------------
\* What the program writes: the passage is looked for again afterwards.
LEMMA ShownIs ==
  ASSUME NEW x \in Screens
  PROVE  Shown(x) \in Screens /\ Waits(Shown(x))
<1> DEFINE again == x.reveal \/ (x.replaying /\ x.following)
           y == [x EXCEPT !.reveal = again]
<1>1. again \in BOOLEAN
  BY DEF Screens
<1>2. Shown(x) = Queued(y)
  BY DEF Shown
<1> HIDE DEF again
<1>3. y \in Screens
  BY <1>1 DEF Screens
<1> HIDE DEF y
<1> QED BY <1>2, <1>3, QueuedIs

LEMMA GrownIs ==
  ASSUME NEW x \in Screens, NEW text \in Words
  PROVE  Grown(x, text) \in Screens
<1> DEFINE full == Len(x.lines) = MaxLines
           less(n) == IF n = 0 THEN 0 ELSE n - 1
           lines == Append(IF full THEN Tail(x.lines) ELSE x.lines, text)
           view == IF ~x.scrolled THEN Len(lines) - 1 ELSE IF full THEN less(x.view) ELSE x.view
           marker == IF ~full \/ x.marker = NoRow THEN x.marker
                     ELSE IF x.marker = 0 THEN NoRow ELSE x.marker - 1
           n == Len(x.lines)
<1>1. n \in Nat /\ n > 0 /\ x.view \in Nat /\ x.view < n /\ x.lines \in Seq(Words)
  BY DEF Screens
<1>2. x.marker \in Nat \cup {NoRow} /\ (x.marker # NoRow => x.marker < n)
  BY DEF Screens
<1>3. /\ lines \in Seq(Words) /\ Len(lines) > 0 /\ Len(lines) \in Nat
      /\ full => Len(lines) = n
      /\ ~full => Len(lines) = n + 1
  <2>1. x.lines # <<>>
    BY <1>1
  <2>2. Tail(x.lines) \in Seq(Words) /\ Len(Tail(x.lines)) = n - 1
    BY <1>1, <2>1
  <2> QED BY <1>1, <2>2
<1> HIDE DEF lines, n
<1>4. view \in Nat /\ view < Len(lines)
  BY <1>1, <1>3
<1>5. marker \in Nat \cup {NoRow} /\ (marker # NoRow => marker < Len(lines))
  <2>1. CASE ~full \/ x.marker = NoRow
    BY <1>1, <1>2, <1>3, <2>1
  <2>2. CASE full /\ x.marker # NoRow
    BY <1>1, <1>2, <1>3, <2>2
  <2> QED BY <2>1, <2>2
<1>6. Grown(x, text) = [x EXCEPT !.lines = lines, !.view = view, !.marker = marker]
  BY DEF Grown, lines
<1> HIDE DEF view, marker
<1>7. [x EXCEPT !.lines = lines, !.view = view, !.marker = marker] \in Screens
  BY <1>3, <1>4, <1>5 DEF Screens
<1> QED BY <1>6, <1>7

LEMMA HeldIs ==
  ASSUME NEW x \in Screens, hidden \in BOOLEAN
  PROVE  Held(x) \in Screens
<1> DEFINE copy == x.snap \/ ~hidden
<1>1. copy \in BOOLEAN
  BY DEF Screens
<1>2. Held(x) = IF x.reader = NoRow THEN x
                ELSE [x EXCEPT !.release = FALSE, !.timer = TRUE, !.snap = copy]
  BY DEF Held
<1> HIDE DEF copy
<1>3. [x EXCEPT !.release = FALSE, !.timer = TRUE, !.snap = copy] \in Screens
  BY <1>1 DEF Screens
<1> QED BY <1>2, <1>3

LEMMA ErasedIs ==
  ASSUME NEW x \in Screens
  PROVE  Erased(x) \in Screens
<1> DEFINE last == Line(x, Base(x))
           marker == IF x.marker = Base(x) THEN 0 ELSE NoRow
<1>1. last \in Words
  BY RowsOf
<1>2. marker \in Nat \cup {NoRow} /\ (marker # NoRow => marker = 0)
  OBVIOUS
<1>3. Erased(x) = [x EXCEPT !.lines = <<last>>, !.view = 0, !.marker = marker]
  BY DEF Erased
<1> DEFINE one == <<last>>
<1>4. one \in Seq(Words) /\ Len(one) = 1
  BY <1>1
<1> HIDE DEF last, marker, one
<1> DEFINE y == [x EXCEPT !.lines = one, !.view = 0, !.marker = marker]
<1>5. y \in Screens
  <2>1. y.lines = one /\ y.view = 0 /\ y.marker = marker
    BY DEF Screens
  <2>2. Len(y.lines) > 0 /\ y.view < Len(y.lines) /\ (y.marker # NoRow => y.marker < Len(y.lines))
    BY <1>2, <1>4, <2>1
  <2> QED BY <1>2, <1>4, <2>2 DEF Screens
<1> QED BY <1>3, <1>5 DEF one

LEMMA RepaintedIs ==
  ASSUME NEW x \in Screens, NEW row \in 0..Base(x), NEW text \in Words
  PROVE  [x EXCEPT !.lines[row + 1] = text] \in Screens
<1> DEFINE lines == [x.lines EXCEPT ![row + 1] = text]
<1>0. x.lines \in Seq(Words) /\ row + 1 \in 1..Len(x.lines)
  BY RowsOf DEF Screens, Base
<1>1. lines \in Seq(Words) /\ Len(lines) = Len(x.lines)
  BY <1>0, ExceptSeq
<1> HIDE DEF lines
<1>2. [x EXCEPT !.lines = lines] \in Screens
  BY <1>1 DEF Screens
<1> QED BY <1>2 DEF lines

\* Whoever types goes to the newest output.
LEMMA ToTypingLineIs ==
  ASSUME NEW x \in Screens, NEW hid \in BOOLEAN
  PROVE  /\ ToTypingLine(x, hid) \in Screens
         /\ ToTypingLine(x, hid) = x \/ ToTypingLine(x, hid).reader = NoRow
<1> DEFINE y == [x EXCEPT !.nav = FALSE, !.drag = FALSE]
<1>1. y \in Screens
  BY DEF Screens
<1> HIDE DEF y
<1>2. Cleared(y) \in Screens /\ Cleared(y).reader = NoRow
  BY <1>1, ClearedIs
<1>3. Armed(Cleared(y)) \in Screens /\ Armed(Cleared(y)).reader = NoRow
  BY <1>2, ArmedIs
<1>4. ToTypingLine(x, hid) \in {x, Armed(Cleared(y))}
  BY DEF ToTypingLine, y
<1> QED BY <1>3, <1>4

LEMMA RequestedIs ==
  ASSUME NEW x \in Screens, NEW id \in Nat
  PROVE  /\ Requested(x, id) \in Screens
         /\ Requested(x, id) = x \/ Requested(x, id).reader = NoRow
<1> DEFINE top == Larger(x.highest, id)
           y == [x EXCEPT !.highest = top]
<1>1. top \in Nat
  BY DEF Larger, Screens
<1> HIDE DEF top
<1>2. y \in Screens
  BY <1>1 DEF Screens
<1>3. Requested(x, id) \in {x, Follows(y)}
  BY DEF Requested, top
<1> HIDE DEF y
<1> QED BY <1>2, <1>3, FollowsIs

LEMMA ExpiredIs ==
  ASSUME NEW x \in Screens, hidden \in BOOLEAN
  PROVE  /\ Expired(x) \in Screens
         /\ hidden \/ Expired(x).alt \/ Sees(Expired(x))
<1> DEFINE y == [x EXCEPT !.timer = FALSE, !.fallback = TRUE]
<1>1. y \in Screens /\ SamePlace(y, x)
  BY DEF Screens, SamePlace, SameView
<1>2. Expired(x) = IF CanRestore(y, hidden) THEN Restored(y, TRUE, hidden) ELSE Released(y)
  BY DEF Expired
<1> HIDE DEF y
<1>3. Released(y) \in Screens /\ SamePlace(Released(y), x)
  BY <1>1, ReleasedIs DEF SamePlace, SameView
<1>4. CASE CanRestore(y, hidden)
  BY <1>1, <1>2, <1>4, RestoredIs
<1>5. CASE ~CanRestore(y, hidden)
  BY <1>1, <1>2, <1>3, <1>5 DEF CanRestore, SamePlace, SameView, Sees
<1> QED BY <1>4, <1>5

-----------------------------------------------------------------------------
LEMMA ReaderStart == ReaderInit => ReaderInv
<1> SUFFICES ASSUME ReaderInit PROVE ReaderInv
  OBVIOUS
<1> DEFINE one == <<Blank>>
<1>1. one \in Seq(Words) /\ Len(one) = 1
  BY DEF Words
<1>2. s = [lines |-> one, view |-> 0, scrolled |-> FALSE, alt |-> FALSE, marker |-> NoRow,
           reader |-> NoRow, follow |-> TRUE, following |-> FALSE, replaying |-> FALSE,
           reveal |-> FALSE, queued |-> FALSE, nav |-> FALSE, drag |-> FALSE,
           snap |-> FALSE, timer |-> FALSE, release |-> FALSE, fallback |-> FALSE,
           highest |-> 0, cancelled |-> 0]
  BY DEF ReaderInit
<1> HIDE DEF one
<1>3. s.lines = one /\ s.view = 0 /\ s.marker = NoRow /\ s.reader = NoRow
  BY <1>2
<1>4. Len(s.lines) > 0 /\ s.view < Len(s.lines)
  BY <1>1, <1>3
<1>5. s \in Screens
  BY <1>1, <1>2, <1>3, <1>4 DEF Screens
<1> QED BY <1>3, <1>5 DEF ReaderInv, ReaderInit, Sees

LEMMA ReaderStep == ReaderInv /\ [ReaderNext]_readerVars => ReaderInv'
<1> SUFFICES ASSUME ReaderInv, [ReaderNext]_readerVars PROVE ReaderInv'
  OBVIOUS
<1> DEFINE Fine(x, hid) == hid \/ x.alt \/ Waits(x) \/ Sees(x)
<1>0. s \in Screens /\ hidden \in BOOLEAN /\ issued \in Nat /\ Fine(s, hidden)
  BY DEF ReaderInv
<1>1. ASSUME s' \in Screens, hidden' \in BOOLEAN, issued' \in Nat, Fine(s', hidden')
      PROVE  ReaderInv'
  BY <1>1 DEF ReaderInv, Fine, Sees, Found, Matches, Line, Base, Waits
<1>2. ASSUME NEW x \in Screens, NEW y \in Screens, NEW hid, SamePlace(y, x), Waits(x) => Waits(y),
             Fine(x, hid)
      PROVE  Fine(y, hid)
  BY <1>2, SameSeen DEF SamePlace, SameView
<1>3. ASSUME NEW x \in Screens, x.reader = NoRow, NEW hid PROVE Fine(x, hid)
  BY <1>3 DEF Sees
<1>4. ASSUME NEW x \in Screens, NEW hid, Fine(x, hid)
      PROVE  Revealed(x) \in Screens /\ Fine(Revealed(x), hid)
  BY <1>4, RevealedIs
<1> HIDE DEF Fine
<1>5. ASSUME NEW x \in Screens, s' = Shown(x), hidden' = hidden, issued' = issued PROVE ReaderInv'
  BY <1>0, <1>1, <1>5, ShownIs DEF Fine
<1>6. ASSUME NEW text \in Words, Emit(text) PROVE ReaderInv'
  BY <1>0, <1>5, <1>6, GrownIs, OnScrollIs DEF Emit, Write
<1>7. ASSUME NEW text \in Words, NEW row \in 0..Base(s), Repaint(row, text) PROVE ReaderInv'
  BY <1>0, <1>5, <1>7, RepaintedIs DEF Repaint, Write
<1>8. ASSUME EraseScrollback PROVE ReaderInv'
  <2>1. Held(s) \in Screens /\ OnScroll(Erased(Held(s))) \in Screens
    BY <1>0, HeldIs, ErasedIs, OnScrollIs
  <2> QED BY <1>5, <1>8, <2>1 DEF EraseScrollback, Write
<1>9. ASSUME OtherScreen PROVE ReaderInv'
  <2> DEFINE other == ~s.alt
  <2>1. other \in BOOLEAN
    OBVIOUS
  <2>2. s' = Shown([s EXCEPT !.alt = other]) /\ UNCHANGED <<hidden, issued>>
    BY <1>9 DEF OtherScreen, Write
  <2> HIDE DEF other
  <2>3. [s EXCEPT !.alt = other] \in Screens
    BY <1>0, <2>1 DEF Screens
  <2> QED BY <1>5, <2>2, <2>3
<1>10. ASSUME UNCHANGED <<hidden, issued>>, s' \in Screens, Fine(s', hidden) PROVE ReaderInv'
  BY <1>0, <1>1, <1>10
<1>11. ASSUME Frame PROVE ReaderInv'
  <2> DEFINE x == [s EXCEPT !.queued = FALSE]
  <2>1. /\ x \in Screens /\ x.nav = s.nav /\ x.drag = s.drag /\ x.alt = s.alt
        /\ x.reader = s.reader /\ s.fallback \in BOOLEAN
    BY <1>0 DEF Screens
  <2>2. /\ ~hidden /\ UNCHANGED <<hidden, issued>>
        /\ s' = IF s.nav \/ s.drag THEN x
                ELSE IF s.reader # NoRow THEN Restored(x, s.fallback, FALSE)
                ELSE IF s.follow /\ ~AtLatest(s) THEN Revealed(x) ELSE x
    BY <1>11 DEF Frame, Script
  <2> HIDE DEF x
  <2>3. CASE s.nav \/ s.drag
    BY <1>10, <2>1, <2>2, <2>3 DEF Fine, Waits
  <2>4. CASE ~(s.nav \/ s.drag) /\ s.reader # NoRow
    <3>1. s' = Restored(x, s.fallback, FALSE)
      BY <2>2, <2>4
    <3>2. s' \in Screens /\ (s' = x \/ Sees(s')) /\ (CanRestore(x, FALSE) => Sees(s'))
      BY <2>1, <3>1, RestoredIs
    <3>3. CanRestore(x, FALSE) \/ x.alt
      BY <2>1, <2>4 DEF CanRestore
    <3> QED BY <1>10, <2>2, <3>2, <3>3 DEF Fine
  <2>5. CASE ~(s.nav \/ s.drag) /\ s.reader = NoRow
    BY <1>3, <1>4, <1>10, <2>1, <2>2, <2>5
  <2> QED BY <2>3, <2>4, <2>5
<1>12. ASSUME RevealFrame PROVE ReaderInv'
  <2>1. [s EXCEPT !.reveal = FALSE] \in Screens /\ Fine([s EXCEPT !.reveal = FALSE], hidden)
    <3>1. /\ [s EXCEPT !.reveal = FALSE] \in Screens /\ SamePlace([s EXCEPT !.reveal = FALSE], s)
          /\ Waits(s) => Waits([s EXCEPT !.reveal = FALSE])
      BY <1>0 DEF Screens, SamePlace, SameView, Waits
    <3> QED BY <1>0, <1>2, <3>1
  <2> QED BY <1>4, <1>10, <1>12, <2>1 DEF RevealFrame, Script
<1>13. ASSUME NavigationEnds PROVE ReaderInv'
  <2> DEFINE latest == AtLatest(s)
             x == [s EXCEPT !.nav = FALSE, !.follow = latest]
  <2>1. latest \in BOOLEAN
    BY <1>0 DEF AtLatest, Screens
  <2>2. s' = Captured(x) /\ UNCHANGED <<hidden, issued>>
    BY <1>13 DEF NavigationEnds, Script
  <2> HIDE DEF latest
  <2>3. x \in Screens
    BY <1>0, <2>1 DEF Screens
  <2> HIDE DEF x
  <2> QED BY <1>10, <2>2, <2>3, CapturedIs DEF Fine
<1>14. ASSUME HoldExpires PROVE ReaderInv'
  BY <1>0, <1>10, <1>14, ExpiredIs DEF HoldExpires, Script, Fine
<1>15. ASSUME Uncovered PROVE ReaderInv'
  BY <1>0, <1>2, <1>10, <1>15, ReleasedIs DEF Uncovered, Script
<1>16. ASSUME FollowTick PROVE ReaderInv'
  BY <1>0, <1>4, <1>10, <1>16 DEF FollowTick, Script
<1>17. ASSUME FollowEnds PROVE ReaderInv'
  <2>1. /\ [s EXCEPT !.following = FALSE] \in Screens /\ SamePlace([s EXCEPT !.following = FALSE], s)
        /\ Waits(s) => Waits([s EXCEPT !.following = FALSE])
    BY <1>0 DEF Screens, SamePlace, SameView, Waits
  <2> QED BY <1>0, <1>2, <1>10, <1>17, <2>1 DEF FollowEnds, Script
<1>18. ASSUME ReplayEnds PROVE ReaderInv'
  <2> DEFINE x == [s EXCEPT !.replaying = FALSE]
  <2>1. x \in Screens /\ SamePlace(x, s) /\ (Waits(s) => Waits(x))
    BY <1>0 DEF Screens, SamePlace, SameView, Waits
  <2>2. s' \in {x, Revealed(x)} /\ UNCHANGED <<hidden, issued>>
    BY <1>18 DEF ReplayEnds, Script
  <2> HIDE DEF x
  <2>3. Fine(x, hidden)
    BY <1>0, <1>2, <2>1
  <2> QED BY <1>4, <1>10, <2>1, <2>2, <2>3
<1>19. ASSUME NEW x \in Screens, NEW row \in 0..Base(s), x.lines = s.lines, x.nav = TRUE,
              s' = ScrolledTo(x, row), UNCHANGED <<hidden, issued>>
       PROVE  ReaderInv'
  <2>1. row \in 0..Base(x)
    BY <1>19 DEF Base
  <2>2. s' \in Screens /\ s'.nav = TRUE
    BY <1>19, <2>1, ScrolledToIs
  <2> QED BY <1>10, <1>19, <2>2 DEF Fine, Waits
<1>20. ASSUME NEW row \in 0..Base(s), Scroll(row) PROVE ReaderInv'
  BY <1>0, <1>19, <1>20, NavigatingIs DEF Scroll
<1>21. ASSUME NEW row \in 0..Base(s), DragTo(row) PROVE ReaderInv'
  BY <1>0, <1>19, <1>21, NavigatingIs DEF DragTo
<1>22. ASSUME GrabScrollbar PROVE ReaderInv'
  <2>1. [s EXCEPT !.drag = TRUE] \in Screens
    BY <1>0 DEF Screens
  <2> QED BY <1>10, <1>22, <2>1, NavigatingIs DEF GrabScrollbar, Fine, Waits
<1>23. ASSUME LetGo PROVE ReaderInv'
  <2>1. [s EXCEPT !.drag = FALSE] \in Screens
    BY <1>0 DEF Screens
  <2> QED BY <1>10, <1>23, <2>1, NavigatingIs DEF LetGo, Script, Fine, Waits
<1>24. ASSUME Type PROVE ReaderInv'
  BY <1>0, <1>3, <1>10, <1>24, ToTypingLineIs DEF Type
<1>25. ASSUME Activate PROVE ReaderInv'
  BY <1>0, <1>1, <1>25 DEF Activate
<1>26. ASSUME NEW id \in 1..issued, ShowLatest(id) PROVE ReaderInv'
  BY <1>0, <1>3, <1>10, <1>26, RequestedIs DEF ShowLatest, Script
<1>27. ASSUME Resized PROVE ReaderInv'
  BY <1>0, <1>10, <1>27, ArmedIs, QueuedIs DEF Resized, Fine
<1>28. ASSUME ReaderSocketOpens PROVE ReaderInv'
  <2> DEFINE y == Cleared(s)
             x == [y EXCEPT !.follow = TRUE, !.replaying = TRUE]
  <2>1. y \in Screens /\ y.reader = NoRow
    BY <1>0, ClearedIs
  <2>2. s' = Armed(x) /\ UNCHANGED <<hidden, issued>>
    BY <1>28 DEF ReaderSocketOpens
  <2> HIDE DEF y
  <2>3. x \in Screens /\ x.reader = NoRow
    BY <2>1 DEF Screens
  <2> HIDE DEF x
  <2> QED BY <1>3, <1>10, <2>2, <2>3, ArmedIs
<1>29. ASSUME ReaderHides PROVE ReaderInv'
  BY <1>0, <1>1, <1>29 DEF ReaderHides, Fine
<1>30. ASSUME ReaderShows PROVE ReaderInv'
  <2>1. s.fallback \in BOOLEAN
    BY <1>0 DEF Screens
  <2>2. s' \in Screens /\ Waits(s')
    BY <1>0, <1>30, <2>1, RestoredIs, QueuedIs DEF ReaderShows
  <2> QED BY <1>0, <1>1, <1>30, <2>2 DEF ReaderShows, Fine
<1>31. CASE UNCHANGED readerVars
  BY <1>0, <1>1, <1>31 DEF readerVars
<1>32. ASSUME Timers PROVE ReaderInv'
  BY <1>11, <1>12, <1>13, <1>14, <1>15, <1>16, <1>17, <1>18, <1>32 DEF Timers
<1> QED BY <1>6, <1>7, <1>8, <1>9, <1>20, <1>21, <1>22, <1>23, <1>24, <1>25, <1>26, <1>27, <1>28,
           <1>29, <1>30, <1>31, <1>32 DEF ReaderNext, Words

(* For any texts, scrollback and depth of repainting: whatever the program *)
(* prints, repaints or erases and whatever the page itself does, a reader  *)
(* sees the passage they chose while a line says it (terminal-kbd.js).     *)
THEOREM PassageStaysInView == ReaderSpec => []ReaderKeepsPlace
<1>1. ReaderInv => ReaderKeepsPlace
  BY DEF ReaderInv, ReaderKeepsPlace, Settled, Sees, Waits
<1> QED BY <1>1, ReaderStart, ReaderStep, PTL DEF ReaderSpec

-----------------------------------------------------------------------------
(* Typing on a touch screen (TerminalTyping).                              *)

\* The longest common prefix of two texts begins both of them.
LEMMA CommonPrefixBegins ==
  ASSUME NEW S, NEW a \in Seq(S), NEW b \in Seq(S)
  PROVE  LET n == Len(LongestCommonPrefix({a, b})) IN
         n \in 0..Len(a) /\ n \in 0..Len(b) /\ SubSeq(a, 1, n) = SubSeq(b, 1, n)
<1> DEFINE C == CommonPrefixes({a, b})
<1>1. ASSUME NEW p \in C
      PROVE  Len(p) \in 0..Len(a) /\ Len(p) \in 0..Len(b) /\ SubSeq(a, 1, Len(p)) = SubSeq(b, 1, Len(p))
  <2>1. p \in Prefixes(a) \cup Prefixes(b) /\ IsPrefix(p, a) /\ IsPrefix(p, b)
    BY DEF CommonPrefixes
  <2>2. \E w \in {a, b} : \E l \in 0..Len(w) : p = SubSeq(w, 1, l)
    BY <2>1 DEF Prefixes
  <2>3. p \in Seq(S)
    BY <2>2
  <2> QED BY <2>1, <2>3 DEF IsPrefix
<1>2. <<>> \in C
  <2>1. SubSeq(a, 1, 0) = <<>> /\ SubSeq(b, 1, 0) = <<>> /\ SubSeq(<<>>, 1, 0) = <<>> /\ Len(<<>>) = 0
    BY SubSeqEmpty
  <2>2. <<>> \in Prefixes(a) /\ IsPrefix(<<>>, a) /\ IsPrefix(<<>>, b)
    BY <2>1 DEF Prefixes, IsPrefix
  <2> QED BY <2>2 DEF CommonPrefixes
<1> HIDE DEF C
<1> DEFINE T == {Len(p) : p \in C}
<1>3. T \in SUBSET (0..Len(a)) /\ T # {} /\ Len(a) \in Nat
  <2>1. \A p \in C : Len(p) \in 0..Len(a)
    BY <1>1
  <2>2. T \subseteq 0..Len(a)
    BY ONLY <2>1
  <2>3. T # {}
    BY ONLY <1>2
  <2> QED BY <2>2, <2>3
<1>4. PICK x \in T : \A y \in T : y <= x
  BY <1>3, GreatestOf
<1>5. \E longest \in C : \A other \in C : Len(other) <= Len(longest)
  BY <1>4
<1>6. LongestCommonPrefix({a, b}) \in C
  BY <1>5 DEF LongestCommonPrefix, C
<1> QED BY <1>1, <1>6

-----------------------------------------------------------------------------
Written == Seq(Chars)
Forwarder == [sent : Written, composing : BOOLEAN, due : Written \cup {NoText}]

(* The shell's line is what was sent; and what was sent, or is to be sent, *)
(* is what the field says.                                                 *)
InStep == ~adrift => line = fwd.sent
UpToDate ==
  /\ fwd.due # NoText => fwd.due = ov
  /\ ~fwd.composing /\ fwd.due = NoText => fwd.sent = ov
TypingInv ==
  /\ ov \in Values /\ fwd \in Forwarder /\ line \in Written /\ adrift \in BOOLEAN
  /\ strayed = FALSE
  /\ InStep /\ UpToDate

LEMMA ValuesAreTexts == Values \subseteq Written /\ <<>> \in Values /\ <<>> \in Written /\ <<>> # NoText
<1>1. Values \subseteq Written
  BY DEF Values, Written
<1>2. <<>> \in [1..0 -> Chars]
  OBVIOUS
<1>3. 0 \in 0..MaxLen
  BY TextIsNotAbsent
<1>4. <<>> \in Values
  BY <1>2, <1>3 DEF Values
<1> QED BY <1>1, <1>4, TextIsNotAbsent

\* What is shared, and what is deleted.
LEMMA DeletionsWithin ==
  ASSUME fwd.sent \in Written, NEW v \in Written
  PROVE  /\ Shared(v) \in 0..Len(fwd.sent) /\ Shared(v) \in 0..Len(v)
         /\ SubSeq(fwd.sent, 1, Shared(v)) = SubSeq(v, 1, Shared(v))
         /\ Deletions(v) = Len(fwd.sent) - Shared(v)
<1> DEFINE n == Len(LongestCommonPrefix({fwd.sent, v}))
<1>1. Shared(v) = n /\ n = Len(LongestCommonPrefix({fwd.sent, v}))
  BY DEF Shared
<1>2. fwd.sent \in Seq(Chars) /\ v \in Seq(Chars)
  BY DEF Written
<1>3. n \in 0..Len(fwd.sent) /\ n \in 0..Len(v) /\ SubSeq(fwd.sent, 1, n) = SubSeq(v, 1, n)
  BY ONLY <1>2, CommonPrefixBegins
<1> HIDE DEF n
<1>4. Deletions(v) = Len(fwd.sent) - Shared(v)
  BY DEF Deletions
<1> QED BY ONLY <1>1, <1>3, <1>4

LEMMA KeptIsText ==
  ASSUME line \in Written, NEW n \in Nat
  PROVE  Kept(n) \in Written
<1>1. (IF Len(line) > n THEN Len(line) - n ELSE 0) \in 0..Len(line)
  BY DEF Written
<1> QED BY <1>1 DEF Kept, Written

\* The difference that is sent makes the line what the field says.
LEMMA DifferenceSent ==
  ASSUME TypingInv, NEW v \in Values, DiffSend(v)
  PROVE  line' \in Written /\ strayed' = FALSE /\ (~adrift => line' = v)
<1> DEFINE n == Shared(v)
           d == Deletions(v)
<1>1. v \in Written /\ fwd.sent \in Written /\ Len(fwd.sent) \in Nat /\ Len(v) \in Nat
  BY ValuesAreTexts DEF TypingInv, Forwarder, Written
<1>2. /\ n \in 0..Len(fwd.sent) /\ n \in 0..Len(v) /\ d = Len(fwd.sent) - n
      /\ SubSeq(fwd.sent, 1, n) = SubSeq(v, 1, n)
  BY <1>1, DeletionsWithin
<1>3. line' = Kept(d) \o SubSeq(v, n + 1, Len(v))
  BY DEF DiffSend
<1>4. strayed' = (strayed \/ (~adrift /\ d > Len(line)))
  BY DEF DiffSend
<1> HIDE DEF n, d
<1>5. d \in Nat /\ d <= Len(fwd.sent)
  BY <1>1, <1>2
<1>6. SubSeq(v, n + 1, Len(v)) \in Written
  BY <1>1, <1>2 DEF Written
<1>7. line' \in Written
  BY <1>3, <1>5, <1>6, KeptIsText DEF TypingInv, Written
<1>8. ASSUME ~adrift PROVE line' = v /\ ~(d > Len(line))
  <2>1. line = fwd.sent
    BY <1>8 DEF TypingInv, InStep
  <2>2. ~(d > Len(line))
    BY <1>1, <1>5, <2>1
  <2>3. (IF Len(line) > d THEN Len(line) - d ELSE 0) = n
    BY <1>1, <1>2, <2>1
  <2>4. Kept(d) = SubSeq(v, 1, n)
    BY <1>2, <2>1, <2>3 DEF Kept
  <2>5. SubSeq(v, 1, n) \o SubSeq(v, n + 1, Len(v)) = SubSeq(v, 1, Len(v))
    <3>1. v \in Seq(Chars) /\ 1 \in 1..Len(v) + 1 /\ n \in 1 - 1..Len(v) /\ Len(v) \in n..Len(v)
      BY <1>1, <1>2 DEF Written
    <3> QED BY <3>1, ConcatAdjacentSubSeq
  <2>6. SubSeq(v, 1, Len(v)) = v
    BY <1>1, SubSeqFull DEF Written
  <2> QED BY <1>3, <2>2, <2>4, <2>5, <2>6
<1>9. strayed' = FALSE
  BY <1>4, <1>8 DEF TypingInv
<1> QED BY <1>7, <1>8, <1>9

LEMMA TypingStart == TypingInit => TypingInv
<1> SUFFICES ASSUME TypingInit PROVE TypingInv
  OBVIOUS
<1>1. fwd \in Forwarder /\ fwd.sent = <<>> /\ fwd.due = NoText
  BY ValuesAreTexts DEF TypingInit, Fresh, Forwarder
<1> QED BY <1>1, ValuesAreTexts DEF TypingInit, TypingInv, InStep, UpToDate

LEMMA TypingStep == TypingInv /\ [TypingNext]_typingVars => TypingInv'
<1> SUFFICES ASSUME TypingInv, [TypingNext]_typingVars PROVE TypingInv'
  OBVIOUS
<1>0. /\ fwd = [sent |-> fwd.sent, composing |-> fwd.composing, due |-> fwd.due]
      /\ fwd.sent \in Written /\ fwd.composing \in BOOLEAN /\ fwd.due \in Written \cup {NoText}
      /\ ov \in Written /\ ov # NoText
  BY ValuesAreTexts, TextIsNotAbsent DEF TypingInv, Forwarder
<1>1. ASSUME NEW v \in Values, Flush(v), ov' = v, UNCHANGED adrift
      PROVE  TypingInv'
  <2>1. CASE Ignored(v)
    <3>1. fwd' = [fwd EXCEPT !.due = NoText] /\ UNCHANGED <<line, strayed>>
      BY <1>1, <2>1 DEF Flush
    <3> QED BY <1>0, <1>1, <2>1, <3>1 DEF Ignored, TypingInv, Forwarder, InStep, UpToDate
  <2>2. CASE ~Ignored(v)
    <3>1. DiffSend(v) /\ fwd' = [fwd EXCEPT !.sent = v, !.due = NoText]
      BY <1>1, <2>2 DEF Flush
    <3>2. v \in Written
      BY ValuesAreTexts
    <3>3. fwd' \in Forwarder /\ fwd'.sent = v /\ fwd'.due = NoText
      BY <1>0, <3>1, <3>2 DEF Forwarder
    <3> QED BY <1>1, <3>1, <3>3, DifferenceSent DEF TypingInv, InStep, UpToDate
  <2> QED BY <2>1, <2>2
<1>2. ASSUME NEW f \in Forwarder, f.sent = fwd.sent, Schedule(f, ov'), ov' \in Values, UNCHANGED adrift
      PROVE  TypingInv'
  <2>1. fwd' = [f EXCEPT !.due = ov'] /\ UNCHANGED <<line, strayed>>
    BY <1>2 DEF Schedule
  <2>2. ov' \in Written /\ ov' # NoText
    BY <1>2, ValuesAreTexts, TextIsNotAbsent
  <2>3. fwd' \in Forwarder /\ fwd'.sent = fwd.sent /\ fwd'.due = ov'
    BY <1>2, <2>1, <2>2 DEF Forwarder
  <2> QED BY <1>2, <2>1, <2>2, <2>3 DEF TypingInv, InStep, UpToDate
<1>3. ASSUME NEW v \in Values, Input(v) PROVE TypingInv'
  <2>1. ov' = v /\ UNCHANGED adrift /\ fwd \in Forwarder
    BY <1>3 DEF Input, TypingInv
  <2>2. CASE fwd.composing \/ writing # "keys"
    BY <1>2, <1>3, <2>1, <2>2 DEF Input
  <2>3. CASE ~(fwd.composing \/ writing # "keys")
    BY <1>1, <1>3, <2>1, <2>3 DEF Input
  <2> QED BY <2>2, <2>3
<1>4. CASE CompositionStart
  <2>1. /\ fwd' = [fwd EXCEPT !.composing = TRUE, !.due = NoText]
        /\ UNCHANGED <<ov, line, adrift, strayed>>
    BY <1>4 DEF CompositionStart
  <2> QED BY <1>0, <2>1 DEF TypingInv, Forwarder, InStep, UpToDate
<1>5. CASE CompositionEnd
  <2> DEFINE f == [fwd EXCEPT !.composing = FALSE]
  <2>1. f \in Forwarder /\ f.sent = fwd.sent
    BY <1>0 DEF Forwarder
  <2>2. Schedule(f, ov) /\ UNCHANGED <<ov, adrift>>
    BY <1>5 DEF CompositionEnd
  <2>3. ov' \in Values /\ Schedule(f, ov')
    BY <2>2 DEF TypingInv
  <2> HIDE DEF f
  <2> QED BY <1>2, <2>1, <2>2, <2>3
<1>6. CASE TimerFires
  <2>1. fwd.due = ov /\ Flush(ov) /\ UNCHANGED <<ov, adrift>> /\ ov \in Values
    BY <1>6 DEF TimerFires, TypingInv, UpToDate
  <2> QED BY <1>1, <2>1
<1>7. CASE EnterPressed
  <2>1. ov' = <<>> /\ line' = <<>> /\ adrift' = FALSE
    BY <1>7 DEF EnterPressed
  <2>2. fwd' \in Forwarder /\ fwd'.sent = <<>> /\ fwd'.due = NoText
    BY <1>0, <1>7, ValuesAreTexts DEF EnterPressed, Entered, Forwarder
  <2>3. strayed' = FALSE
    <3>1. strayed' = (strayed \/ (~adrift /\ ~Ignored(ov) /\ Deletions(ov) > Len(line)))
      BY <1>7 DEF EnterPressed
    <3>2. ASSUME ~adrift PROVE ~(Deletions(ov) > Len(line))
      <4>1. line = fwd.sent /\ Len(line) \in Nat
        BY <1>0, <3>2 DEF TypingInv, InStep, Written
      <4> QED BY <1>0, <4>1, DeletionsWithin
    <3> QED BY <3>1, <3>2 DEF TypingInv
  <2> QED BY <2>1, <2>2, <2>3, ValuesAreTexts DEF TypingInv, InStep, UpToDate
<1>8. CASE PressTab
  <2>1. PICK c \in Chars : line' = Append(line, c)
    BY <1>8 DEF PressTab
  <2>2. line' \in Written
    BY <2>1 DEF TypingInv, Written
  <2> QED BY <1>8, <2>2 DEF PressTab, TypingInv, InStep, UpToDate
<1>9. CASE PressBackspaceEmpty
  <2>1. line' = Kept(1) /\ adrift' = (adrift \/ fwd.sent # <<>>) /\ UNCHANGED <<ov, fwd, strayed>>
    BY <1>9 DEF PressBackspaceEmpty
  <2>2. line' \in Written
    BY <2>1, KeptIsText DEF TypingInv
  <2>3. ASSUME ~adrift' PROVE line' = fwd.sent
    <3>1. line = <<>> /\ fwd.sent = <<>>
      BY <2>1, <2>3 DEF TypingInv, InStep
    <3>2. Kept(1) = SubSeq(<<>>, 1, 0)
      BY <3>1 DEF Kept
    <3> QED BY <2>1, <3>1, <3>2, SubSeqEmpty
  <2> QED BY <2>1, <2>2, <2>3 DEF TypingInv, InStep, UpToDate
<1>10. CASE OutOfBand \/ FocusAgain \/ Idle
  <2>1. CASE ResetBaseline
    <3>1. fwd' \in Forwarder /\ fwd'.sent = <<>> /\ fwd'.due = NoText
      BY <2>1, ValuesAreTexts DEF ResetBaseline, Fresh, Forwarder
    <3> QED BY <2>1, <3>1, ValuesAreTexts DEF ResetBaseline, TypingInv, InStep, UpToDate
  <2>2. CASE UNCHANGED <<ov, fwd, line, adrift, strayed>>
    BY <2>2 DEF TypingInv, InStep, UpToDate
  <2> QED BY <1>10, <2>1, <2>2 DEF OutOfBand, FocusAgain, Idle
<1>11. CASE UNCHANGED typingVars
  BY <1>11 DEF typingVars, TypingInv, InStep, UpToDate
<1> QED BY <1>3, <1>4, <1>5, <1>6, <1>7, <1>8, <1>9, <1>10, <1>11 DEF TypingNext

(* For any characters, and however long a text grows: when nothing is held *)
(* back the shell's line is what the field says, and no deletion goes      *)
(* beyond it, unless a raw key went past the mirror (kbd-input.js).        *)
THEOREM WhatIsShownIsSent == TypingSpec => []LineIsField
<1>1. TypingInv => LineIsField
  BY DEF TypingInv, InStep, UpToDate, Waiting, LineIsField
<1> QED BY <1>1, TypingStart, TypingStep, PTL DEF TypingSpec

-----------------------------------------------------------------------------
(* Fingers on the terminal (TerminalGestures).                             *)

\* Where a long press may still select, and what selects or is dragged, is
\* known; and who selects has no handles on the screen.
Spans == [start : Cells, end : Cells]
GesturesInv ==
  /\ g \in [moved : BOOLEAN, scrolled : BOOLEAN, selecting : BOOLEAN, waiting : BOOLEAN,
            two : BOOLEAN]
  /\ overlay \in [handles : BOOLEAN, drag : SUBSET Handles, copy : BOOLEAN]
  /\ g.waiting => cell.start \in Cells
  /\ g.selecting => cell.anchor \in Cells
  /\ g.selecting \/ overlay.handles \/ overlay.drag # {} => ends \in Spans
  /\ g.selecting => ~overlay.handles
  /\ cell = [start |-> cell.start, anchor |-> cell.anchor]
  /\ HandlesFrameSelection

LEMMA OrderedFrames ==
  ASSUME NEW a \in Cells, NEW b \in Cells
  PROVE  /\ Ordered(a, b) \in Spans
         /\ Ordered(a, b).start <= Ordered(a, b).end
         /\ Ordered(Ordered(a, b).start, Ordered(a, b).end) = Ordered(a, b)
         /\ a <= b => Ordered(a, b) = [start |-> a, end |-> b]
<1>1. a \in Nat /\ b \in Nat
  BY CellsAreNumbers
<1>2. CASE b < a
  <2>1. Ordered(a, b) = [start |-> b, end |-> a]
    BY <1>2 DEF Ordered
  <2>2. ~(a < b) /\ ~(a <= b) /\ b <= a
    BY <1>1, <1>2
  <2> QED BY <2>1, <2>2 DEF Ordered, Spans
<1>3. CASE ~(b < a)
  <2>1. Ordered(a, b) = [start |-> a, end |-> b]
    BY <1>3 DEF Ordered
  <2>2. a <= b
    BY <1>1, <1>3
  <2> QED BY <1>3, <2>1, <2>2 DEF Ordered, Spans
<1> QED BY <1>2, <1>3

\* A handle that is dragged stays on its side of the other.
LEMMA ClampedKeepsOrder ==
  ASSUME NEW c \in Cells, NEW h \in Handles, ends \in Spans
  PROVE  LET moved == [ends EXCEPT ![h] = Clamped(h, c)] IN
         /\ moved \in Spans
         /\ ends.start <= ends.end => moved.start <= moved.end
<1> DEFINE moved == [ends EXCEPT ![h] = Clamped(h, c)]
<1>1. PICK a \in Cells, b \in Cells : ends = [start |-> a, end |-> b]
  BY DEF Spans
<1>2. c \in Nat /\ a \in Nat /\ b \in Nat
  BY CellsAreNumbers
<1>3. CASE h = "end"
  <2>1. moved = [start |-> a, end |-> IF c < a THEN a ELSE c]
    BY <1>1, <1>3 DEF Clamped
  <2> QED BY <1>1, <1>2, <2>1 DEF Spans
<1>4. CASE h = "start"
  <2>1. moved = [start |-> IF b < c THEN b ELSE c, end |-> b]
    BY <1>1, <1>4 DEF Clamped
  <2> QED BY <1>1, <1>2, <2>1 DEF Spans
<1> QED BY <1>3, <1>4 DEF Handles

LEMMA GesturesStart == GesturesInit => GesturesInv
BY DEF GesturesInit, GesturesInv, HandlesFrameSelection, Still

LEMMA GesturesStep == GesturesInv /\ [GesturesNext]_gestureVars => GesturesInv'
<1> SUFFICES ASSUME GesturesInv, [GesturesNext]_gestureVars PROVE GesturesInv'
  OBVIOUS
<1> USE DEF GesturesInv, HandlesFrameSelection
<1>1. ASSUME NEW c \in Cells, TouchStart(c) PROVE GesturesInv'
  <2>1. CASE pad + Cardinality(onHandle) > 0
    <3>1. /\ g' = [g EXCEPT !.two = TRUE, !.waiting = FALSE, !.selecting = FALSE]
          /\ UNCHANGED <<cell, overlay, ends, selected>>
      BY <1>1, <2>1 DEF TouchStart
    <3> QED BY <3>1
  <2>2. CASE ~(pad + Cardinality(onHandle) > 0)
    <3>1. /\ g' = [Still EXCEPT !.waiting = TRUE]
          /\ cell' = [start |-> c, anchor |-> NoCell]
          /\ overlay' = [overlay EXCEPT !.copy = FALSE]
          /\ UNCHANGED <<ends, selected>>
      BY <1>1, <2>2 DEF TouchStart
    <3> QED BY <3>1 DEF Still
  <2> QED BY <2>1, <2>2
<1>2. ASSUME NEW c \in Cells, NEW far \in BOOLEAN, NEW scrolls \in BOOLEAN, TouchMove(c, far, scrolls)
      PROVE  GesturesInv'
  <2>1. CASE g.selecting
    <3>1. /\ Ordered(cell.anchor, c) \in Spans /\ [start |-> cell.anchor, end |-> c] \in Spans
      BY <2>1, OrderedFrames DEF Spans
    <3> QED BY <1>2, <2>1, <3>1 DEF TouchMove
  <2>2. CASE ~g.selecting
    BY <1>2, <2>2 DEF TouchMove
  <2> QED BY <2>1, <2>2
<1>3. ASSUME NEW c \in Cells, NEW h \in Handles, DragHandle(h, c) PROVE GesturesInv'
  <2>1. ends \in Spans
    BY <1>3 DEF DragHandle
  <2>2. /\ ends' \in Spans
        /\ ends.start <= ends.end => ends'.start <= ends'.end
    BY <1>3, <2>1, ClampedKeepsOrder DEF DragHandle
  <2> QED BY <1>3, <2>1, <2>2 DEF DragHandle
<1>4. ASSUME NEW h \in Handles, Grab(h) PROVE GesturesInv'
  BY <1>4 DEF Grab
<1>5. ASSUME NEW h \in Handles, Drop(h) PROVE GesturesInv'
  BY <1>5 DEF Drop
<1>6. CASE LongPress
  <2>1. PICK first \in Cells, last \in Cells :
          /\ first <= cell.start /\ cell.start <= last
          /\ cell' = [cell EXCEPT !.anchor = first]
          /\ ends' = [start |-> first, end |-> last] /\ selected' = ends'
    BY <1>6 DEF LongPress
  <2>2. first <= last /\ ends' \in Spans
    BY <1>6, <2>1, CellsAreNumbers DEF LongPress, Spans
  <2>3. selected' = Ordered(ends'.start, ends'.end)
    BY <2>1, <2>2, OrderedFrames
  <2>4. cell'.anchor \in Cells /\ cell' = [start |-> cell'.start, anchor |-> cell'.anchor]
    BY <2>1
  <2> QED BY <1>6, <2>2, <2>3, <2>4 DEF LongPress
<1>7. CASE TouchEnd
  <2>1. CASE EndOfTwo /\ g.two
    BY <1>7, <2>1 DEF TouchEnd, EndOfTwo
  <2>2. CASE EndOfSelection /\ g.selecting /\ ~g.two
    <3>1. ends \in Spans
      BY <2>2
    <3>2. /\ Framed \in Spans /\ Framed.start <= Framed.end
          /\ Ordered(Framed.start, Framed.end) = Ordered(ends.start, ends.end)
      BY <3>1, OrderedFrames DEF Framed, Spans
    <3>3. cell' = cell /\ selected' = selected
          /\ g' = [g EXCEPT !.waiting = FALSE, !.selecting = FALSE]
      BY <1>7, <2>2 DEF TouchEnd, EndOfSelection
    <3>4. CASE selected = NoCell
      <4>1. UNCHANGED <<ends, overlay>>
        BY <2>2, <3>4 DEF EndOfSelection
      <4> QED BY <2>2, <3>3, <3>4, <4>1
    <3>5. CASE selected # NoCell
      <4>1. ends' = Framed /\ overlay' = [handles |-> TRUE, drag |-> {}, copy |-> TRUE]
        BY <2>2, <3>5 DEF EndOfSelection
      <4>2. selected' = Ordered(ends'.start, ends'.end)
        BY <2>2, <3>2, <3>3, <3>5, <4>1
      <4> QED BY <3>2, <3>3, <4>1, <4>2
    <3> QED BY <3>4, <3>5
  <2>3. CASE EndOfScroll
    BY <1>7, <2>3 DEF TouchEnd, EndOfScroll
  <2>4. CASE EndOfTap /\ ~g.two /\ ~g.selecting
    BY <1>7, <2>4 DEF TouchEnd, EndOfTap
  <2> QED BY <1>7, <2>1, <2>2, <2>3, <2>4 DEF TouchEnd
<1>8. CASE TouchCancel
  BY <1>8 DEF TouchCancel
<1>9. CASE Copy
  BY <1>9 DEF Copy
<1>10. CASE Deselected
  BY <1>10 DEF Deselected
<1>11. CASE UNCHANGED gestureVars
  BY <1>11 DEF gestureVars
<1> QED BY <1>1, <1>2, <1>3, <1>4, <1>5, <1>6, <1>7, <1>8, <1>9, <1>10, <1>11 DEF GesturesNext

(* For any cells, addresses and number of touches: what is selected, and   *)
(* what Copy would take, lies between the two handles, which never cross   *)
(* (terminal-kbd.js, applySel and showHandles).                            *)
THEOREM SelectionFramed == GesturesSpec => []HandlesFrameSelection
<1>1. GesturesInv => HandlesFrameSelection
  BY DEF GesturesInv
<1> QED BY <1>1, GesturesStart, GesturesStep, PTL DEF GesturesSpec

-----------------------------------------------------------------------------
(* The best-scores table (GameScore).                                      *)

Rows == [v : Nat, t : Nat, run : Nat \cup {NoRun}]
Stores == [rows : SUBSET Rows, seeded : BOOLEAN, best : Nat]
Games == [run : Nat, score : Nat, best : Nat, over : BOOLEAN]

(* A table that is not seeded is empty, nobody plays, and the single best  *)
(* is still the one from before the table.                                 *)
Untouched(d) == d.rows = {} /\ d.best \in {0, Legacy}
OneRowEach(rows) == \A r, q \in rows : r.run = q.run => r = q
UndatedIsLegacy(rows, erased) == \A r \in rows : r.run = NoRun => ~erased /\ r.v = Legacy

ScoreInv ==
  /\ store \in Stores /\ wiped \in BOOLEAN
  /\ game \in [Windows -> Games \cup {NoRun}]
  /\ used \in [moves : Nat, runs : Nat, records : Nat, resets : Nat]
  /\ ~store.seeded => Untouched(store) /\ ~wiped /\ \A w \in Windows : game[w] = NoRun
  /\ OneRowEach(store.rows) /\ UndatedIsLegacy(store.rows, wiped)

LEMMA RowsInv == ScoreInv => RowsAreRuns
BY DEF ScoreInv, RowsAreRuns, OneRowEach, UndatedIsLegacy

\* The import keeps a good table good.
LEMMA MigratedStaysGood ==
  ASSUME NEW d \in Stores, NEW erased \in BOOLEAN, ~d.seeded => Untouched(d) /\ (~erased \/ d.best = 0),
         OneRowEach(d.rows), UndatedIsLegacy(d.rows, erased)
  PROVE  /\ Migrated(d) \in Stores /\ Migrated(d).seeded /\ Migrated(d).best = d.best
         /\ OneRowEach(Migrated(d).rows) /\ UndatedIsLegacy(Migrated(d).rows, erased)
<1>1. CASE d.seeded
  BY <1>1 DEF Migrated, Stores
<1>2. CASE ~d.seeded
  <2>1. Migrated(d) = [d EXCEPT !.rows = Imported(d), !.seeded = TRUE]
    BY <1>2 DEF Migrated
  <2>2. d.rows = {} /\ d.best \in {0, Legacy} /\ d.best \in Nat
    BY <1>2 DEF Untouched, Stores
  <2>3. CASE d.best > 0
    <3>1. Imported(d) = {[v |-> d.best, t |-> 0, run |-> NoRun]} /\ ~erased /\ d.best = Legacy
      BY <1>2, <2>2, <2>3 DEF Imported
    <3>2. Imported(d) \in SUBSET Rows
      BY <2>2, <3>1 DEF Rows
    <3>3. OneRowEach(Imported(d)) /\ UndatedIsLegacy(Imported(d), erased)
      BY <3>1 DEF OneRowEach, UndatedIsLegacy
    <3> QED BY <2>1, <3>2, <3>3 DEF Stores
  <2>4. CASE ~(d.best > 0)
    <3>1. Imported(d) = {}
      BY <2>2, <2>4 DEF Imported
    <3> QED BY <2>1, <3>1 DEF Stores, OneRowEach, UndatedIsLegacy
  <2> QED BY <2>3, <2>4
<1> QED BY <1>1, <1>2

\* So does a record of a run.
LEMMA RecordedStaysGood ==
  ASSUME NEW d \in Stores, d.seeded, NEW erased \in BOOLEAN, NEW v \in Nat, NEW run \in Nat,
         used.records \in Nat, OneRowEach(d.rows), UndatedIsLegacy(d.rows, erased)
  PROVE  /\ Recorded(d, v, run) \in Stores /\ Recorded(d, v, run).seeded
         /\ OneRowEach(Recorded(d, v, run).rows) /\ UndatedIsLegacy(Recorded(d, v, run).rows, erased)
<1> DEFINE entry == [v |-> v, t |-> used.records + 1, run |-> run]
           all == Others(d.rows, v, run) \cup {entry}
<1>1. Recorded(d, v, run) = [d EXCEPT !.rows = Best(all)]
  BY DEF Recorded, Migrated, Stores
<1>2. Best(all) \subseteq all
  BY DEF Best
<1>3. entry \in Rows /\ entry.run = run /\ run # NoRun
  BY RunsAreNumbers DEF Rows
<1>4. Others(d.rows, v, run) \subseteq d.rows /\ \A r \in Others(d.rows, v, run) : r.run # run
  BY DEF Others
<1> HIDE DEF entry
<1>5. all \subseteq Rows /\ OneRowEach(all) /\ UndatedIsLegacy(all, erased)
  BY <1>3, <1>4 DEF Stores, OneRowEach, UndatedIsLegacy
<1> HIDE DEF all
<1>6. Best(all) \subseteq Rows /\ OneRowEach(Best(all)) /\ UndatedIsLegacy(Best(all), erased)
  BY <1>2, <1>5 DEF OneRowEach, UndatedIsLegacy
<1> QED BY <1>1, <1>6 DEF Stores

LEMMA UsedCounts ==
  ASSUME used \in [moves : Nat, runs : Nat, records : Nat, resets : Nat],
         NEW k \in {"moves", "runs", "records", "resets"}, NEW max, Use(k, max)
  PROVE  used' \in [moves : Nat, runs : Nat, records : Nat, resets : Nat]
<1>1. CASE k = "moves"
  BY <1>1 DEF Use
<1>2. CASE k = "runs"
  BY <1>2 DEF Use
<1>3. CASE k = "records"
  BY <1>3 DEF Use
<1>4. CASE k = "resets"
  BY <1>4 DEF Use
<1> QED BY <1>1, <1>2, <1>3, <1>4

LEMMA NewRunIsAGame ==
  ASSUME used.runs \in Nat, NEW best \in Nat PROVE NewRun(best) \in Games
BY DEF NewRun, Games

\* A game with other numbers is a game.
LEMMA PlayedOn ==
  ASSUME NEW p \in Games, NEW v \in Nat, NEW best \in Nat, NEW over \in BOOLEAN
  PROVE  /\ [p EXCEPT !.score = v, !.over = over, !.best = best] \in Games
         /\ [p EXCEPT !.score = v, !.over = over] \in Games
BY DEF Games

LEMMA ScoreStart == ScoreInit => ScoreInv
<1> SUFFICES ASSUME ScoreInit PROVE ScoreInv
  OBVIOUS
<1>1. PICK best \in {0, Legacy} : store = [rows |-> {}, seeded |-> FALSE, best |-> best]
  BY DEF ScoreInit
<1>2. store \in Stores /\ Untouched(store) /\ store.rows = {} /\ ~store.seeded
  BY <1>1, RunsAreNumbers DEF Stores, Untouched
<1>3. used \in [moves : Nat, runs : Nat, records : Nat, resets : Nat]
  BY DEF ScoreInit
<1>4. wiped = FALSE /\ game \in [Windows -> Games \cup {NoRun}] /\ \A w \in Windows : game[w] = NoRun
  BY DEF ScoreInit
<1> QED BY <1>2, <1>3, <1>4 DEF ScoreInv, OneRowEach, UndatedIsLegacy

LEMMA ScoreStep == ScoreInv /\ [ScoreNext]_scoreVars => ScoreInv'
<1> SUFFICES ASSUME ScoreInv, [ScoreNext]_scoreVars PROVE ScoreInv'
  OBVIOUS
<1>0. /\ store \in Stores /\ store.best \in Nat /\ store.seeded \in BOOLEAN /\ wiped \in BOOLEAN
      /\ used.runs \in Nat /\ used.records \in Nat
      /\ OneRowEach(store.rows) /\ UndatedIsLegacy(store.rows, wiped)
      /\ ~store.seeded => Untouched(store) /\ ~wiped /\ \A w \in Windows : game[w] = NoRun
      /\ game \in [Windows -> Games \cup {NoRun}]
      /\ used \in [moves : Nat, runs : Nat, records : Nat, resets : Nat]
  BY DEF ScoreInv, Stores
<1>1. /\ Migrated(store) \in Stores /\ Migrated(store).seeded
      /\ OneRowEach(Migrated(store).rows) /\ UndatedIsLegacy(Migrated(store).rows, wiped)
  BY <1>0, MigratedStaysGood
<1>2. ASSUME NEW w \in Windows, OpenGame(w) PROVE ScoreInv'
  <2>1. /\ store' = Migrated(store) /\ UNCHANGED wiped
        /\ used' \in [moves : Nat, runs : Nat, records : Nat, resets : Nat]
    BY <1>0, <1>2, UsedCounts DEF OpenGame
  <2>2. game' \in [Windows -> Games \cup {NoRun}]
    BY <1>0, <1>2, NewRunIsAGame DEF OpenGame
  <2> QED BY <1>0, <1>1, <2>1, <2>2 DEF ScoreInv
<1>3. ASSUME NEW w \in Windows, Shut(w) PROVE ScoreInv'
  <2>1. game' = [game EXCEPT ![w] = NoRun] /\ UNCHANGED <<store, wiped, used>>
    BY <1>3 DEF Shut
  <2>2. /\ game' \in [Windows -> Games \cup {NoRun}]
        /\ \A x \in Windows : game[x] = NoRun => game'[x] = NoRun
    BY <1>0, <2>1
  <2> QED BY <1>0, <2>1, <2>2 DEF ScoreInv
<1>4. ASSUME NEW w \in Windows, game[w] # NoRun PROVE store.seeded /\ game[w] \in Games
  BY <1>0, <1>4
<1>5. ASSUME NEW w \in Windows, game[w] # NoRun, store' \in Stores, store'.seeded, wiped' \in BOOLEAN,
             NEW p \in Games, game' = [game EXCEPT ![w] = p],
             OneRowEach(store'.rows), UndatedIsLegacy(store'.rows, wiped'),
             used' \in [moves : Nat, runs : Nat, records : Nat, resets : Nat]
      PROVE  ScoreInv'
  <2>1. game' \in [Windows -> Games \cup {NoRun}]
    BY <1>0, <1>5
  <2> QED BY <1>5, <2>1 DEF ScoreInv
<1>6. ASSUME NEW w \in Windows, NewGame(w) PROVE ScoreInv'
  <2>1. game[w] # NoRun /\ UNCHANGED <<store, wiped>> /\ game' = [game EXCEPT ![w] = NewRun(game[w].best)]
    BY <1>6 DEF NewGame
  <2>2. NewRun(game[w].best) \in Games
    BY <1>0, <1>4, <2>1, NewRunIsAGame DEF Games
  <2>3. used' \in [moves : Nat, runs : Nat, records : Nat, resets : Nat]
    BY <1>0, <1>6, UsedCounts DEF NewGame
  <2> QED BY <1>0, <1>4, <1>5, <2>1, <2>2, <2>3
<1>7. ASSUME NEW w \in Windows, Move(w) PROVE ScoreInv'
  <2> DEFINE v == game[w].score + 1
  <2>1. game[w] # NoRun /\ UNCHANGED wiped
    BY <1>7 DEF Move
  <2>2. PICK over \in BOOLEAN :
          /\ game' = [game EXCEPT ![w] = [game[w] EXCEPT !.score = v, !.over = over,
                                     !.best = IF v > game[w].best THEN v ELSE game[w].best]]
          /\ store' = IF v > game[w].best THEN [store EXCEPT !.best = v] ELSE store
    BY <1>7 DEF Move
  <2>3. game[w] \in Games /\ store.seeded /\ v \in Nat
    BY <1>4, <2>1 DEF Games
  <2> HIDE DEF v
  <2> DEFINE p == [game[w] EXCEPT !.score = v, !.over = over,
                               !.best = IF v > game[w].best THEN v ELSE game[w].best]
  <2>4. game' = [game EXCEPT ![w] = p]
    BY ONLY <2>2
  <2>7. p \in Games
    <3>1. (IF v > game[w].best THEN v ELSE game[w].best) \in Nat
      BY <2>3 DEF Games
    <3> QED BY ONLY <2>3, <3>1, PlayedOn
  <2>5. store' \in Stores /\ store'.seeded /\ store'.rows = store.rows
    BY <1>0, <2>2, <2>3 DEF Stores
  <2>6. used' \in [moves : Nat, runs : Nat, records : Nat, resets : Nat]
    BY <1>0, <1>7, UsedCounts DEF Move
  <2> HIDE DEF p
  <2> QED BY <1>0, <1>5, <2>1, <2>4, <2>5, <2>6, <2>7
<1>8. ASSUME NEW w \in Windows, Undo(w) PROVE ScoreInv'
  <2> DEFINE p == [game[w] EXCEPT !.score = game[w].score - 1, !.over = FALSE]
  <2>1. game[w] # NoRun /\ game[w].score > 0 /\ UNCHANGED <<store, wiped, used>>
    BY <1>8 DEF Undo
  <2>2. p \in Games
    <3>1. game[w] \in Games /\ game[w].score - 1 \in Nat
      BY <1>4, <2>1 DEF Games
    <3> QED BY ONLY <3>1, PlayedOn
  <2>3. game' = [game EXCEPT ![w] = p]
    BY ONLY <1>8 DEF Undo
  <2> HIDE DEF p
  <2> QED BY <1>0, <1>4, <1>5, <2>1, <2>2, <2>3
<1>9. ASSUME NEW w \in Windows, ShowScores(w) PROVE ScoreInv'
  <2>1. /\ game[w] # NoRun /\ UNCHANGED <<game, wiped>>
        /\ store' = Recorded(store, game[w].score, game[w].run)
    BY <1>9 DEF ShowScores
  <2>2. game[w] \in Games /\ store.seeded /\ game[w].score \in Nat /\ game[w].run \in Nat
    BY <1>4, <2>1 DEF Games
  <2>3. /\ store' \in Stores /\ store'.seeded
        /\ OneRowEach(store'.rows) /\ UndatedIsLegacy(store'.rows, wiped')
    BY <1>0, <2>1, <2>2, RecordedStaysGood
  <2>4. used' \in [moves : Nat, runs : Nat, records : Nat, resets : Nat]
    BY <1>0, <1>9, UsedCounts DEF ShowScores
  <2>5. game' = [game EXCEPT ![w] = game[w]]
    BY <1>0, <2>1
  <2> QED BY <1>0, <1>5, <2>1, <2>2, <2>3, <2>4, <2>5
<1>10. ASSUME NEW w \in Windows, Look(w) PROVE ScoreInv'
  BY <1>0, <1>1, <1>10 DEF Look, ScoreInv
<1>11. ASSUME NEW w \in Windows, Reset(w) PROVE ScoreInv'
  <2>1. Emptied \in Stores /\ Untouched(Emptied) /\ Emptied.best = 0 /\ Emptied.rows = {}
    BY DEF Emptied, Stores, Untouched
  <2>2. OneRowEach(Emptied.rows) /\ UndatedIsLegacy(Emptied.rows, TRUE)
    BY <2>1 DEF OneRowEach, UndatedIsLegacy
  <2>3. /\ Migrated(Emptied) \in Stores /\ Migrated(Emptied).seeded
        /\ OneRowEach(Migrated(Emptied).rows) /\ UndatedIsLegacy(Migrated(Emptied).rows, TRUE)
    BY <2>1, <2>2, MigratedStaysGood
  <2>4. store' = Migrated(Emptied) /\ wiped' = TRUE /\ UNCHANGED game
    BY <1>11 DEF Reset
  <2>5. used' \in [moves : Nat, runs : Nat, records : Nat, resets : Nat]
    BY <1>0, <1>11, UsedCounts DEF Reset
  <2> QED BY <1>0, <2>3, <2>4, <2>5 DEF ScoreInv
<1>12. CASE UNCHANGED scoreVars
  BY <1>12 DEF scoreVars, ScoreInv
<1> QED BY <1>2, <1>3, <1>6, <1>7, <1>8, <1>9, <1>10, <1>11, <1>12 DEF ScoreNext

(* For any windows, table size and old best: a run has one row, whichever  *)
(* cards, windows and undone moves recorded it, and the undated row is the *)
(* score from before the table, unless it was erased (gamescore.js).       *)
THEOREM RunsListedOnce == ScoreSpec => []RowsAreRuns
BY RowsInv, ScoreStart, ScoreStep, PTL DEF ScoreSpec

-----------------------------------------------------------------------------
(* Lists of windows (WindowManager).                                       *)

\* The list names each member of the set once.
Deals(list, V) ==
  /\ list \in Seq(V)
  /\ \A i, j \in 1 .. Len(list) : list[i] = list[j] => i = j
  /\ \A v \in V : \E i \in 1 .. Len(list) : list[i] = v

LEMMA DealtCount ==
  ASSUME NEW V, NEW list, Deals(list, V)
  PROVE  /\ Len(list) \in Nat /\ list \in [1 .. Len(list) -> V]
         /\ IsFiniteSet(V) /\ Cardinality(V) = Len(list) /\ ToSet(list) = V
<1>1. list \in Seq(V)
  BY DEF Deals
<1>2. Len(list) \in Nat /\ DOMAIN list = 1 .. Len(list) /\ list \in [1 .. Len(list) -> V]
  BY <1>1
<1>3. list \in Bijection(1 .. Len(list), V)
  BY <1>2 DEF Deals, Bijection, Injection, Surjection, IsInjective
<1>4. ExistsBijection(1 .. Len(list), V)
  BY <1>3 DEF ExistsBijection
<1>5. IsFiniteSet(V) /\ Cardinality(V) = Len(list)
  BY <1>2, <1>4, FS_NatBijection, FS_CountingElements
<1>6. ToSet(list) = V
  BY <1>2 DEF ToSet, Deals
<1> QED BY <1>2, <1>5, <1>6

LEMMA DealsByCount ==
  ASSUME NEW n \in Nat, NEW V, IsFiniteSet(V), Cardinality(V) = n, NEW list \in [1 .. n -> V],
         \A i, j \in 1 .. n : list[i] = list[j] => i = j
  PROVE  Deals(list, V) /\ Len(list) = n
<1>1. list \in Seq(V) /\ Len(list) = n
  OBVIOUS
<1>2. list \in Injection(1 .. n, V)
  BY DEF Injection, IsInjective
<1>3. Cardinality(1 .. n) = n
  BY FS_Interval
<1>4. list \in Surjection(1 .. n, V)
  BY <1>2, <1>3, FS_Injection
<1> QED BY <1>1, <1>4 DEF Deals, Surjection

\* Among the first numbers, a set's members are told by how many of it there
\* are up to them.
UpTo(P, i) == {j \in P : j <= i}
Ranked(P, k) == CHOOSE i \in P : Cardinality({j \in P : j <= i}) = k

LEMMA Ranks ==
  ASSUME NEW n \in Nat, NEW P \in SUBSET (1 .. n)
  PROVE  /\ IsFiniteSet(P) /\ Cardinality(P) \in Nat
         /\ \A k \in 1 .. Cardinality(P) : Ranked(P, k) \in P /\ Cardinality(UpTo(P, Ranked(P, k))) = k
         /\ \A i \in P : \E k \in 1 .. Cardinality(P) : Ranked(P, k) = i
<1> DEFINE c == Cardinality(P)
           r == [i \in P |-> Cardinality(UpTo(P, i))]
<1>1. IsFiniteSet(P) /\ c \in Nat
  <2>1. IsFiniteSet(1 .. n)
    BY FS_Interval
  <2>2. IsFiniteSet(P)
    BY <2>1, FS_Subset
  <2> QED BY <2>2, FS_CardinalityType
<1>2. ASSUME NEW i \in P
      PROVE  IsFiniteSet(UpTo(P, i)) /\ Cardinality(UpTo(P, i)) \in 1 .. c
  <2>1. UpTo(P, i) \in SUBSET P /\ i \in UpTo(P, i)
    BY DEF UpTo
  <2>2. IsFiniteSet(UpTo(P, i)) /\ Cardinality(UpTo(P, i)) <= c
    BY <1>1, <2>1, FS_Subset
  <2>3. Cardinality(UpTo(P, i)) \in Nat /\ Cardinality(UpTo(P, i)) # 0
    BY <2>1, <2>2, FS_EmptySet, FS_CardinalityType
  <2> HIDE DEF c
  <2> QED BY <2>2, <2>3, <1>1
<1>3. ASSUME NEW i \in P, NEW j \in P, i < j PROVE Cardinality(UpTo(P, i)) # Cardinality(UpTo(P, j))
  <2>1. UpTo(P, i) \in SUBSET UpTo(P, j) /\ j \in UpTo(P, j) /\ j \notin UpTo(P, i)
    <3>1. i \in Nat /\ j \in Nat /\ \A k \in P : k \in Nat
      OBVIOUS
    <3>2. \A k \in P : k <= i => k <= j
      BY <1>3, <3>1
    <3>3. j <= j /\ ~(j <= i)
      BY <1>3, <3>1
    <3> QED BY <3>2, <3>3 DEF UpTo
  <2> QED BY <2>1, <1>2, FS_Subset
<1>4. r \in Injection(P, 1 .. c)
  <2>1. r \in [P -> 1 .. c]
    BY <1>2
  <2>2. ASSUME NEW i \in P, NEW j \in P, r[i] = r[j] PROVE i = j
    <3>1. i \in Nat /\ j \in Nat
      OBVIOUS
    <3>2. ~(i < j) /\ ~(j < i)
      BY <2>2, <1>3
    <3> QED BY <3>1, <3>2
  <2> QED BY <2>1, <2>2 DEF Injection, IsInjective
<1>5. r \in Surjection(P, 1 .. c)
  <2>1. IsFiniteSet(1 .. c) /\ Cardinality(1 .. c) = c
    BY <1>1, FS_Interval
  <2> QED BY <1>4, <2>1, FS_Injection
<1>6. ASSUME NEW k \in 1 .. c PROVE Ranked(P, k) \in P /\ Cardinality(UpTo(P, Ranked(P, k))) = k
  <2>1. \E i \in P : Cardinality(UpTo(P, i)) = k
    BY <1>5 DEF Surjection
  <2>2. \E i \in P : Cardinality({j \in P : j <= i}) = k
    BY <2>1 DEF UpTo
  <2> QED BY <2>2 DEF Ranked, UpTo
<1>7. ASSUME NEW i \in P PROVE \E k \in 1 .. c : Ranked(P, k) = i
  <2> DEFINE k == Cardinality(UpTo(P, i))
  <2>1. k \in 1 .. c
    BY <1>2
  <2>2. Ranked(P, k) \in P /\ Cardinality(UpTo(P, Ranked(P, k))) = k
    BY <2>1, <1>6
  <2>3. Ranked(P, k) = i
    BY <2>2, <1>4 DEF Injection, IsInjective
  <2> QED BY <2>1, <2>3
<1> QED BY <1>1, <1>6, <1>7

\* What Among picks of a list without repetition.
LEMMA AmongDeals ==
  ASSUME NEW V, NEW list, Deals(list, V), NEW S
  PROVE  Deals(Among(list, S), V \cap S)
<1> DEFINE P == {i \in DOMAIN list : list[i] \in S}
           c == Cardinality(P)
           a == Among(list, S)
<1>1. Len(list) \in Nat /\ list \in [1 .. Len(list) -> V] /\ DOMAIN list = 1 .. Len(list)
  BY DealtCount
<1>2. P \in SUBSET (1 .. Len(list))
  BY <1>1
<1>3. a = [k \in 1 .. c |-> list[Ranked(P, k)]]
  BY DEF Among, Ranked
<1> HIDE DEF a
<1>4. /\ c \in Nat
      /\ \A k \in 1 .. c : Ranked(P, k) \in P /\ Cardinality(UpTo(P, Ranked(P, k))) = k
      /\ \A i \in P : \E k \in 1 .. c : Ranked(P, k) = i
  BY <1>1, <1>2, Ranks
<1>5. \A i \in P : list[i] \in V \cap S
  BY <1>1
<1>6. \A v \in V \cap S : \E i \in P : list[i] = v
  BY <1>1 DEF Deals
<1>7. \A i, j \in P : list[i] = list[j] => i = j
  BY <1>1 DEF Deals
<1> HIDE DEF P, c
<1>8. a \in [1 .. c -> V \cap S]
  BY <1>3, <1>4, <1>5
<1>9. a \in Seq(V \cap S) /\ Len(a) = c
  BY <1>4, <1>8
<1>10. ASSUME NEW i \in 1 .. c, NEW j \in 1 .. c, a[i] = a[j] PROVE i = j
  <2>1. list[Ranked(P, i)] = list[Ranked(P, j)]
    BY <1>3, <1>10
  <2>2. Ranked(P, i) = Ranked(P, j)
    BY <2>1, <1>4, <1>7
  <2> QED BY <2>2, <1>4
<1>11. ASSUME NEW v \in V \cap S PROVE \E k \in 1 .. c : a[k] = v
  <2>1. PICK i \in P : list[i] = v
    BY <1>6
  <2>2. PICK k \in 1 .. c : Ranked(P, k) = i
    BY <1>4
  <2> QED BY <2>1, <2>2, <1>3
<1> QED BY ONLY <1>9, <1>10, <1>11 DEF Deals, a

LEMMA AmongAll ==
  ASSUME NEW V, NEW list, Deals(list, V), NEW S, V \subseteq S
  PROVE  Among(list, S) = list
<1> DEFINE n == Len(list)
           P == {i \in DOMAIN list : list[i] \in S}
<1>1. n \in Nat /\ list \in [1 .. n -> V] /\ DOMAIN list = 1 .. n
  BY DealtCount
<1>2. P = 1 .. n
  BY <1>1
<1>3. Cardinality(P) = n
  <2>1. Cardinality(1 .. n) = n
    BY <1>1, FS_Interval
  <2> QED BY ONLY <1>2, <2>1
<1>4. Among(list, S) = [k \in 1 .. Cardinality(P) |-> list[Ranked(P, k)]]
  BY DEF Among, Ranked
<1>5. ASSUME NEW k \in 1 .. n PROVE Ranked(1 .. n, k) = k
  <2>1. Ranked(1 .. n, k) \in 1 .. n /\ Cardinality(UpTo(1 .. n, Ranked(1 .. n, k))) = k
    BY <1>1, <1>2, <1>3, Ranks
  <2>2. ASSUME NEW i \in 1 .. n PROVE Cardinality(UpTo(1 .. n, i)) = i
    <3>1. UpTo(1 .. n, i) = 1 .. i
      BY <1>1 DEF UpTo
    <3> QED BY <3>1, FS_Interval
  <2> QED BY <2>1, <2>2
<1> HIDE DEF n, P
<1>6. Among(list, S) = [k \in 1 .. n |-> list[k]]
  BY <1>2, <1>3, <1>4, <1>5
<1> QED BY <1>1, <1>6

\* The default assignment of as many zones as there are windows.
LEMMA AssignDeals ==
  ASSUME NEW V, NEW list, Deals(list, V), NEW f
  PROVE  Deals(ZoneAssign(list, f, Len(list)), V) /\ Len(ZoneAssign(list, f, Len(list))) = Len(list)
<1> DEFINE rest == Among(list, ToSet(list) \ {f})
           t == IF Contains(list, f) THEN <<f>> \o rest ELSE list
<1>1. Len(list) \in Nat /\ list \in Seq(V) /\ ToSet(list) = V /\ Cardinality(V) = Len(list)
  BY DealtCount DEF Deals
<1>2. Deals(t, V)
  <2>1. CASE ~Contains(list, f)
    BY <2>1
  <2>2. CASE Contains(list, f)
    <3>1. f \in V
      BY <2>2, <1>1 DEF Contains
    <3>2. Deals(rest, V \cap (V \ {f}))
      BY <1>1, AmongDeals
    <3>3. V \cap (V \ {f}) = V \ {f}
      OBVIOUS
    <3> HIDE DEF rest
    <3> DEFINE one == <<f>>
               u == one \o rest
    <3>4. /\ rest \in Seq(V) /\ Len(rest) \in Nat /\ \A i \in 1 .. Len(rest) : rest[i] \in V /\ rest[i] # f
          /\ \A i, j \in 1 .. Len(rest) : rest[i] = rest[j] => i = j
          /\ \A v \in V : v # f => \E i \in 1 .. Len(rest) : rest[i] = v
      <4>1. rest \in Seq(V \ {f}) /\ Len(rest) \in Nat /\ rest \in [1 .. Len(rest) -> V \ {f}]
        BY <3>2, <3>3, DealtCount DEF Deals
      <4>2. rest \in Seq(V)
        BY <4>1
      <4> QED BY <3>2, <3>3, <4>1, <4>2 DEF Deals
    <3>5. one \in Seq(V) /\ Len(one) = 1 /\ one[1] = f
      BY <3>1
    <3> HIDE DEF one
    <3>6. /\ u \in Seq(V) /\ Len(u) = 1 + Len(rest)
          /\ \A i \in 1 .. 1 + Len(rest) : u[i] = IF i <= 1 THEN one[i] ELSE rest[i - 1]
      <4>1. /\ one \o rest \in Seq(V) /\ Len(one \o rest) = Len(one) + Len(rest)
            /\ \A i \in 1 .. Len(one) + Len(rest) :
                 (one \o rest)[i] = IF i <= Len(one) THEN one[i] ELSE rest[i - Len(one)]
        BY ONLY <3>4, <3>5, ConcatProperties DEF one
      <4> QED BY <3>5, <4>1
    <3> HIDE DEF u
    <3>7. u[1] = f /\ \A i \in 1 .. Len(rest) : u[i + 1] = rest[i]
      BY <3>4, <3>5, <3>6
    <3>8. ASSUME NEW i \in 1 .. Len(u), NEW j \in 1 .. Len(u), u[i] = u[j] PROVE i = j
      <4>1. i = 1 \/ (i - 1 \in 1 .. Len(rest) /\ u[i] = rest[i - 1])
        BY <3>4, <3>6
      <4>2. j = 1 \/ (j - 1 \in 1 .. Len(rest) /\ u[j] = rest[j - 1])
        BY <3>4, <3>6
      <4> QED BY <3>4, <3>7, <3>8, <4>1, <4>2
    <3>9. ASSUME NEW v \in V PROVE \E i \in 1 .. Len(u) : u[i] = v
      <4>1. CASE v = f
        BY <4>1, <3>4, <3>6, <3>7
      <4>2. CASE v # f
        <5>1. PICK i \in 1 .. Len(rest) : rest[i] = v
          BY <3>4, <4>2
        <5>2. i + 1 \in 1 .. Len(u)
          BY <3>4, <3>6
        <5> QED BY <5>1, <5>2, <3>7
      <4> QED BY <4>1, <4>2
    <3>10. Deals(u, V)
      BY <3>6, <3>8, <3>9 DEF Deals
    <3> QED BY <2>2, <3>10 DEF u, one
  <2> QED BY <2>1, <2>2
<1> HIDE DEF t
<1>3. Len(t) = Len(list) /\ t \in Seq(V)
  BY <1>1, <1>2, DealtCount DEF Deals
<1>4. SubSeq(t, 1, Len(t)) = t
  BY <1>3
<1>5. ZoneAssign(list, f, Len(list)) = t
  BY <1>1, <1>3, <1>4 DEF ZoneAssign, AtMost, t
<1> QED BY <1>2, <1>3, <1>5

-----------------------------------------------------------------------------
(* The zones of a layout.                                                  *)

\* Rounding to sixtieths keeps an order.
LEMMA RoundedInOrder ==
  ASSUME NEW n \in Nat, NEW m \in Nat, n <= m
  PROVE  Rnd(n, 60) \in Nat /\ Rnd(m, 60) \in Nat /\ Rnd(n, 60) <= Rnd(m, 60)
BY DEF Rnd

LEMMA TimesInOrder ==
  ASSUME NEW x \in Nat, NEW y \in Nat, NEW len \in Nat, x <= y
  PROVE  x * len \in Nat /\ y * len \in Nat /\ x * len <= y * len
<1>1. x * len \in Nat /\ y * len \in Nat /\ (y - x) * len \in Nat
  OBVIOUS
<1>2. y * len = x * len + (y - x) * len
  OBVIOUS
<1> QED BY <1>1, <1>2

LEMMA SidesInOrder ==
  ASSUME NEW x \in Nat, NEW y \in Nat, NEW len \in Nat, x <= y
  PROVE  Rnd(x * len, 60) \in Nat /\ Rnd(y * len, 60) \in Nat /\ Rnd(x * len, 60) <= Rnd(y * len, 60)
<1>1. x * len \in Nat /\ y * len \in Nat /\ x * len <= y * len
  BY TimesInOrder
<1> QED BY <1>1, RoundedInOrder

\* A side of a zone with its gaps: it begins after the zone does and ends
\* before the zone and the frame do.
Low4(l) == IF l <= 0 THEN 4 * Margin ELSE 4 * l + Margin
High4(r, len) == IF r >= len THEN 4 * (len - Margin) ELSE 4 * r - Margin
LEMMA GapSide ==
  ASSUME NEW l \in Nat, NEW r \in Nat, NEW len \in Nat
  PROVE  LET from == Rnd(Low4(l), 4)
             size == Rnd(High4(r, len) - Low4(l), 4) IN
         from \in Nat /\ size \in Int /\ from > l /\ from + size <= r /\ from + size <= len
<1>1. CASE l <= 0 /\ r >= len
  BY <1>1 DEF Rnd, Low4, High4, Margin
<1>2. CASE l <= 0 /\ r < len
  BY <1>2 DEF Rnd, Low4, High4, Margin
<1>3. CASE l > 0 /\ r >= len
  BY <1>3 DEF Rnd, Low4, High4, Margin
<1>4. CASE l > 0 /\ r < len
  BY <1>4 DEF Rnd, Low4, High4, Margin
<1> QED BY <1>1, <1>2, <1>3, <1>4

\* The zones of the palette, in sixtieths.
IsQuad(q) == q[1] \in 0 .. 60 /\ q[2] \in 0 .. 60 /\ q[3] \in 0 .. 60 /\ q[4] \in 0 .. 60
QuadsApart(p, q) ==
  \/ p[1] + p[3] <= q[1] \/ q[1] + q[3] <= p[1]
  \/ p[2] + p[4] <= q[2] \/ q[2] + q[4] <= p[2]
WellLaid(zones) ==
  /\ Len(zones) \in 2 .. 4 /\ DOMAIN zones = 1 .. Len(zones)
  /\ \A k \in 1 .. Len(zones) : IsQuad(zones[k])
  /\ \A j, k \in 1 .. Len(zones) : j # k => QuadsApart(zones[j], zones[k])
LEMMA LayoutsWellLaid == ASSUME NEW key \in Keys PROVE WellLaid(Layouts[key])
<1>1. WellLaid(Layouts.halves)
  <2> DEFINE L == Layouts.halves
  <2>1. L = <<<<0, 0, 30, 60>>, <<30, 0, 30, 60>>>>
    BY DEF Layouts
  <2> HIDE DEF L
  <2>2. Len(L) = 2 /\ DOMAIN L = 1 .. 2
    BY <2>1
  <2>3. L[1] = <<0, 0, 30, 60>> /\ L[2] = <<30, 0, 30, 60>>
    BY <2>1
  <2>4. \A k \in 1 .. 2 : k \in {1, 2}
    OBVIOUS
  <2>5. \A k \in 1 .. 2 : IsQuad(L[k])
    BY <2>3, <2>4 DEF IsQuad
  <2>6. \A j, k \in 1 .. 2 : j # k => QuadsApart(L[j], L[k])
    BY <2>3, <2>4 DEF QuadsApart
  <2> QED BY <2>2, <2>5, <2>6 DEF WellLaid, L
<1>2. WellLaid(Layouts.split21)
  <2> DEFINE L == Layouts.split21
  <2>1. L = <<<<0, 0, 40, 60>>, <<40, 0, 20, 60>>>>
    BY DEF Layouts
  <2> HIDE DEF L
  <2>2. Len(L) = 2 /\ DOMAIN L = 1 .. 2
    BY <2>1
  <2>3. L[1] = <<0, 0, 40, 60>> /\ L[2] = <<40, 0, 20, 60>>
    BY <2>1
  <2>4. \A k \in 1 .. 2 : k \in {1, 2}
    OBVIOUS
  <2>5. \A k \in 1 .. 2 : IsQuad(L[k])
    BY <2>3, <2>4 DEF IsQuad
  <2>6. \A j, k \in 1 .. 2 : j # k => QuadsApart(L[j], L[k])
    BY <2>3, <2>4 DEF QuadsApart
  <2> QED BY <2>2, <2>5, <2>6 DEF WellLaid, L
<1>3. WellLaid(Layouts.thirds)
  <2> DEFINE L == Layouts.thirds
  <2>1. L = <<<<0, 0, 20, 60>>, <<20, 0, 20, 60>>, <<40, 0, 20, 60>>>>
    BY DEF Layouts
  <2> HIDE DEF L
  <2>2. Len(L) = 3 /\ DOMAIN L = 1 .. 3
    BY <2>1
  <2>3. L[1] = <<0, 0, 20, 60>> /\ L[2] = <<20, 0, 20, 60>> /\ L[3] = <<40, 0, 20, 60>>
    BY <2>1
  <2>4. \A k \in 1 .. 3 : k \in {1, 2, 3}
    OBVIOUS
  <2>5. \A k \in 1 .. 3 : IsQuad(L[k])
    BY <2>3, <2>4 DEF IsQuad
  <2>6. \A j, k \in 1 .. 3 : j # k => QuadsApart(L[j], L[k])
    BY <2>3, <2>4 DEF QuadsApart
  <2> QED BY <2>2, <2>5, <2>6 DEF WellLaid, L
<1>4. WellLaid(Layouts.main2)
  <2> DEFINE L == Layouts.main2
  <2>1. L = <<<<0, 0, 36, 60>>, <<36, 0, 24, 30>>, <<36, 30, 24, 30>>>>
    BY DEF Layouts
  <2> HIDE DEF L
  <2>2. Len(L) = 3 /\ DOMAIN L = 1 .. 3
    BY <2>1
  <2>3. L[1] = <<0, 0, 36, 60>> /\ L[2] = <<36, 0, 24, 30>> /\ L[3] = <<36, 30, 24, 30>>
    BY <2>1
  <2>4. \A k \in 1 .. 3 : k \in {1, 2, 3}
    OBVIOUS
  <2>5. \A k \in 1 .. 3 : IsQuad(L[k])
    BY <2>3, <2>4 DEF IsQuad
  <2>6. \A j, k \in 1 .. 3 : j # k => QuadsApart(L[j], L[k])
    BY <2>3, <2>4 DEF QuadsApart
  <2> QED BY <2>2, <2>5, <2>6 DEF WellLaid, L
<1>5. WellLaid(Layouts.stacked)
  <2> DEFINE L == Layouts.stacked
  <2>1. L = <<<<0, 0, 60, 30>>, <<0, 30, 60, 30>>>>
    BY DEF Layouts
  <2> HIDE DEF L
  <2>2. Len(L) = 2 /\ DOMAIN L = 1 .. 2
    BY <2>1
  <2>3. L[1] = <<0, 0, 60, 30>> /\ L[2] = <<0, 30, 60, 30>>
    BY <2>1
  <2>4. \A k \in 1 .. 2 : k \in {1, 2}
    OBVIOUS
  <2>5. \A k \in 1 .. 2 : IsQuad(L[k])
    BY <2>3, <2>4 DEF IsQuad
  <2>6. \A j, k \in 1 .. 2 : j # k => QuadsApart(L[j], L[k])
    BY <2>3, <2>4 DEF QuadsApart
  <2> QED BY <2>2, <2>5, <2>6 DEF WellLaid, L
<1>6. WellLaid(Layouts.quads)
  <2> DEFINE L == Layouts.quads
  <2>1. L = <<<<0, 0, 30, 30>>, <<30, 0, 30, 30>>, <<0, 30, 30, 30>>, <<30, 30, 30, 30>>>>
    BY DEF Layouts
  <2> HIDE DEF L
  <2>2. Len(L) = 4 /\ DOMAIN L = 1 .. 4
    BY <2>1
  <2>3. L[1] = <<0, 0, 30, 30>> /\ L[2] = <<30, 0, 30, 30>> /\ L[3] = <<0, 30, 30, 30>> /\ L[4] = <<30, 30, 30, 30>>
    BY <2>1
  <2>4. \A k \in 1 .. 4 : k \in {1, 2, 3, 4}
    OBVIOUS
  <2>5. \A k \in 1 .. 4 : IsQuad(L[k])
    BY <2>3, <2>4 DEF IsQuad
  <2>6. \A j, k \in 1 .. 4 : j # k => QuadsApart(L[j], L[k])
    BY <2>3, <2>4 DEF QuadsApart
  <2> QED BY <2>2, <2>5, <2>6 DEF WellLaid, L
<1>7. WellLaid(Layouts.columns)
  <2> DEFINE L == Layouts.columns
  <2>1. L = <<<<0, 0, 15, 60>>, <<15, 0, 15, 60>>, <<30, 0, 15, 60>>, <<45, 0, 15, 60>>>>
    BY DEF Layouts
  <2> HIDE DEF L
  <2>2. Len(L) = 4 /\ DOMAIN L = 1 .. 4
    BY <2>1
  <2>3. L[1] = <<0, 0, 15, 60>> /\ L[2] = <<15, 0, 15, 60>> /\ L[3] = <<30, 0, 15, 60>> /\ L[4] = <<45, 0, 15, 60>>
    BY <2>1
  <2>4. \A k \in 1 .. 4 : k \in {1, 2, 3, 4}
    OBVIOUS
  <2>5. \A k \in 1 .. 4 : IsQuad(L[k])
    BY <2>3, <2>4 DEF IsQuad
  <2>6. \A j, k \in 1 .. 4 : j # k => QuadsApart(L[j], L[k])
    BY <2>3, <2>4 DEF QuadsApart
  <2> QED BY <2>2, <2>5, <2>6 DEF WellLaid, L
<1>8. key \in {"halves", "split21", "thirds", "main2", "stacked", "quads", "columns"}
  BY DEF Keys, Layouts
<1> QED BY <1>1, <1>2, <1>3, <1>4, <1>5, <1>6, <1>7, <1>8

-----------------------------------------------------------------------------
\* The zones a layout is applied with.
ZonesOf(key, b) == GapZones(LayoutGeoms(key, b), b)
FrameSized(b) == b = [w |-> b.w, h |-> b.h] /\ b.w \in Nat /\ b.h \in Nat

LEMMA ZoneSides ==
  ASSUME NEW q, IsQuad(q), NEW b, FrameSized(b)
  PROVE  LET z == Zone(q, b) IN
         /\ z = Geom(z.left, z.top, z.width, z.height)
         /\ z.left \in Nat /\ z.top \in Nat /\ z.width \in Int /\ z.height \in Int
         /\ z.left = Rnd(q[1] * b.w, 60) /\ z.left + z.width = Rnd((q[1] + q[3]) * b.w, 60)
         /\ z.top = Rnd(q[2] * b.h, 60) /\ z.top + z.height = Rnd((q[2] + q[4]) * b.h, 60)
         /\ z.left + z.width \in Nat /\ z.top + z.height \in Nat
<1>1. q[1] \in Nat /\ q[2] \in Nat /\ q[3] \in Nat /\ q[4] \in Nat
  BY DEF IsQuad
<1>2. b.w \in Nat /\ b.h \in Nat
  BY DEF FrameSized
<1>3. /\ Rnd(q[1] * b.w, 60) \in Nat /\ Rnd((q[1] + q[3]) * b.w, 60) \in Nat
      /\ Rnd(q[2] * b.h, 60) \in Nat /\ Rnd((q[2] + q[4]) * b.h, 60) \in Nat
  <2>1. q[1] + q[3] \in Nat /\ q[1] <= q[1] + q[3] /\ q[2] + q[4] \in Nat /\ q[2] <= q[2] + q[4]
    BY <1>1
  <2> QED BY <1>1, <1>2, <2>1, SidesInOrder
<1> DEFINE l == Rnd(q[1] * b.w, 60)
           r == Rnd((q[1] + q[3]) * b.w, 60)
           t == Rnd(q[2] * b.h, 60)
           e == Rnd((q[2] + q[4]) * b.h, 60)
<1>4. Zone(q, b) = Geom(l, t, r - l, e - t)
  BY DEF Zone
<1> HIDE DEF l, r, t, e
<1>5. l \in Nat /\ r \in Nat /\ t \in Nat /\ e \in Nat
  BY <1>3 DEF l, r, t, e
<1>6. LET z == Geom(l, t, r - l, e - t) IN
      /\ z = Geom(z.left, z.top, z.width, z.height)
      /\ z.left = l /\ z.top = t /\ z.width = r - l /\ z.height = e - t
      /\ z.width \in Int /\ z.height \in Int /\ z.left + z.width = r /\ z.top + z.height = e
  BY ONLY <1>5 DEF Geom
<1> QED BY <1>4, <1>5, <1>6 DEF l, r, t, e

\* A zone with its gaps.
LEMMA GapInside ==
  ASSUME NEW q, IsQuad(q), NEW b, FrameSized(b)
  PROVE  LET z == Zone(q, b)
             geo == GapZone(z, b) IN
         /\ geo = Geom(geo.left, geo.top, geo.width, geo.height)
         /\ geo.left \in Nat /\ geo.top \in Nat /\ geo.width \in Int /\ geo.height \in Int
         /\ geo.left > z.left /\ geo.left + geo.width <= z.left + z.width /\ geo.left + geo.width <= b.w
         /\ geo.top > z.top /\ geo.top + geo.height <= z.top + z.height /\ geo.top + geo.height <= b.h
<1> DEFINE z == Zone(q, b)
           r == z.left + z.width
           e == z.top + z.height
           gl == Rnd(Low4(z.left), 4)
           gw == Rnd(High4(r, b.w) - Low4(z.left), 4)
           gt == Rnd(Low4(z.top), 4)
           gh == Rnd(High4(e, b.h) - Low4(z.top), 4)
<1>1. z.left \in Nat /\ z.top \in Nat /\ r \in Nat /\ e \in Nat
  BY ZoneSides
<1>2. b.w \in Nat /\ b.h \in Nat
  BY DEF FrameSized
<1>3. GapZone(z, b) = Geom(gl, gt, gw, gh)
  BY DEF GapZone, Low4, High4
<1> HIDE DEF z
<1>4. gl \in Nat /\ gw \in Int /\ gl > z.left /\ gl + gw <= r /\ gl + gw <= b.w
  <2> HIDE DEF r
  <2> QED BY ONLY <1>1, <1>2, GapSide
<1>5. gt \in Nat /\ gh \in Int /\ gt > z.top /\ gt + gh <= e /\ gt + gh <= b.h
  <2> HIDE DEF e
  <2> QED BY ONLY <1>1, <1>2, GapSide
<1> HIDE DEF gl, gw, gt, gh, r, e
<1>6. LET geo == Geom(gl, gt, gw, gh) IN
      /\ geo.left = gl /\ geo.top = gt /\ geo.width = gw /\ geo.height = gh
      /\ geo = Geom(geo.left, geo.top, geo.width, geo.height)
  BY DEF Geom
<1> QED BY <1>3, <1>4, <1>5, <1>6 DEF z, r, e

LEMMA GapsApart ==
  ASSUME NEW p, NEW q, IsQuad(p), IsQuad(q), NEW b, FrameSized(b), QuadsApart(p, q)
  PROVE  Apart(GapZone(Zone(p, b), b), GapZone(Zone(q, b), b))
<1> DEFINE y == Zone(p, b)
           z == Zone(q, b)
           f == GapZone(y, b)
           geo == GapZone(z, b)
<1>1. /\ p[1] \in Nat /\ p[2] \in Nat /\ p[3] \in Nat /\ p[4] \in Nat
      /\ q[1] \in Nat /\ q[2] \in Nat /\ q[3] \in Nat /\ q[4] \in Nat
  BY DEF IsQuad
<1>2. b.w \in Nat /\ b.h \in Nat
  BY DEF FrameSized
<1>3. /\ y.left \in Nat /\ y.top \in Nat /\ y.left + y.width \in Nat /\ y.top + y.height \in Nat
      /\ y.left = Rnd(p[1] * b.w, 60) /\ y.left + y.width = Rnd((p[1] + p[3]) * b.w, 60)
      /\ y.top = Rnd(p[2] * b.h, 60) /\ y.top + y.height = Rnd((p[2] + p[4]) * b.h, 60)
  BY ZoneSides
<1>4. /\ z.left \in Nat /\ z.top \in Nat /\ z.left + z.width \in Nat /\ z.top + z.height \in Nat
      /\ z.left = Rnd(q[1] * b.w, 60) /\ z.left + z.width = Rnd((q[1] + q[3]) * b.w, 60)
      /\ z.top = Rnd(q[2] * b.h, 60) /\ z.top + z.height = Rnd((q[2] + q[4]) * b.h, 60)
  BY ZoneSides
<1>5. /\ f.left \in Nat /\ f.top \in Nat /\ f.width \in Int /\ f.height \in Int
      /\ f.left > y.left /\ f.left + f.width <= y.left + y.width
      /\ f.top > y.top /\ f.top + f.height <= y.top + y.height
  BY GapInside
<1>6. /\ geo.left \in Nat /\ geo.top \in Nat /\ geo.width \in Int /\ geo.height \in Int
      /\ geo.left > z.left /\ geo.left + geo.width <= z.left + z.width
      /\ geo.top > z.top /\ geo.top + geo.height <= z.top + z.height
  BY GapInside
<1> HIDE DEF y, z, f, geo
<1>7. CASE p[1] + p[3] <= q[1]
  <2>1. y.left + y.width <= z.left
    <3>1. p[1] + p[3] \in Nat
      BY <1>1
    <3>2. Rnd((p[1] + p[3]) * b.w, 60) <= Rnd(q[1] * b.w, 60)
      BY ONLY <1>1, <1>2, <1>7, <3>1, SidesInOrder
    <3> QED BY <1>3, <1>4, <3>2
  <2>2. f.left + f.width <= geo.left
    BY ONLY <2>1, <1>3, <1>4, <1>5, <1>6
  <2> QED BY <2>2 DEF Apart, f, geo, y, z
<1>8. CASE q[1] + q[3] <= p[1]
  <2>1. z.left + z.width <= y.left
    <3>1. q[1] + q[3] \in Nat
      BY <1>1
    <3>2. Rnd((q[1] + q[3]) * b.w, 60) <= Rnd(p[1] * b.w, 60)
      BY ONLY <1>1, <1>2, <1>8, <3>1, SidesInOrder
    <3> QED BY <1>3, <1>4, <3>2
  <2>2. geo.left + geo.width <= f.left
    BY ONLY <2>1, <1>3, <1>4, <1>5, <1>6
  <2> QED BY <2>2 DEF Apart, f, geo, y, z
<1>9. CASE p[2] + p[4] <= q[2]
  <2>1. y.top + y.height <= z.top
    <3>1. p[2] + p[4] \in Nat
      BY <1>1
    <3>2. Rnd((p[2] + p[4]) * b.h, 60) <= Rnd(q[2] * b.h, 60)
      BY ONLY <1>1, <1>2, <1>9, <3>1, SidesInOrder
    <3> QED BY <1>3, <1>4, <3>2
  <2>2. f.top + f.height <= geo.top
    BY ONLY <2>1, <1>3, <1>4, <1>5, <1>6
  <2> QED BY <2>2 DEF Apart, f, geo, y, z
<1>10. CASE q[2] + q[4] <= p[2]
  <2>1. z.top + z.height <= y.top
    <3>1. q[2] + q[4] \in Nat
      BY <1>1
    <3>2. Rnd((q[2] + q[4]) * b.h, 60) <= Rnd(p[2] * b.h, 60)
      BY ONLY <1>1, <1>2, <1>10, <3>1, SidesInOrder
    <3> QED BY <1>3, <1>4, <3>2
  <2>2. geo.top + geo.height <= f.top
    BY ONLY <2>1, <1>3, <1>4, <1>5, <1>6
  <2> QED BY <2>2 DEF Apart, f, geo, y, z
<1> QED BY <1>7, <1>8, <1>9, <1>10 DEF QuadsApart

\* What a window in a zone of a roomy layout is like.
SettledIn(geo, b) ==
  /\ geo = Geom(geo.left, geo.top, geo.width, geo.height)
  /\ geo.left \in Nat /\ geo.top \in Nat /\ geo.width \in Nat /\ geo.height \in Nat
  /\ geo.width >= MinW /\ geo.height >= MinH /\ geo.left + geo.width <= b.w /\ geo.top + geo.height <= b.h

LEMMA SettledStays ==
  ASSUME NEW b, FrameSized(b), NEW geo, SettledIn(geo, b)
  PROVE  ClampGeom(geo, b, 0) = geo
<1> DEFINE w == AtLeast(MinW, AtMost(geo.width, b.w - 2 * 0))
           h == AtLeast(MinH, AtMost(geo.height, b.h - 2 * 0))
<1>1. /\ geo.left \in Nat /\ geo.top \in Nat /\ geo.width \in Nat /\ geo.height \in Nat
      /\ b.w \in Nat /\ b.h \in Nat
      /\ geo.width >= 320 /\ geo.height >= 200 /\ geo.left + geo.width <= b.w /\ geo.top + geo.height <= b.h
  BY DEF SettledIn, FrameSized, MinW, MinH
<1>2. w = geo.width /\ h = geo.height
  BY ONLY <1>1 DEF AtLeast, AtMost, MinW, MinH
<1>3. ClampGeom(geo, b, 0) = Geom(AtLeast(0, AtMost(geo.left, b.w - 0 - w)),
                                  AtLeast(0, AtMost(geo.top, b.h - 0 - h)), w, h)
  BY DEF ClampGeom
<1> HIDE DEF w, h
<1>4. AtLeast(0, AtMost(geo.left, b.w - 0 - w)) = geo.left /\ AtLeast(0, AtMost(geo.top, b.h - 0 - h)) = geo.top
  BY ONLY <1>1, <1>2 DEF AtLeast, AtMost
<1> QED BY <1>2, <1>3, <1>4 DEF SettledIn

LEMMA SettledMatches ==
  ASSUME NEW b, NEW f, NEW geo, SettledIn(f, b), SettledIn(geo, b)
  PROVE  MatchesZone(f, f) /\ (Apart(f, geo) => ~MatchesZone(f, geo))
<1>1. /\ f.left \in Nat /\ f.top \in Nat /\ f.width \in Nat /\ f.height \in Nat
      /\ f.width >= 320 /\ f.height >= 200
      /\ geo.left \in Nat /\ geo.top \in Nat /\ geo.width \in Nat /\ geo.height \in Nat
      /\ geo.width >= 320 /\ geo.height >= 200
  BY DEF SettledIn, MinW, MinH
<1>2. MatchesZone(f, f)
  BY ONLY <1>1 DEF MatchesZone, Near, AtLeast
<1>3. ASSUME Apart(f, geo) PROVE ~(Near(f.left, geo.left) /\ Near(f.top, geo.top))
  BY ONLY <1>1, <1>3 DEF Apart, Near, AtLeast
<1> QED BY <1>2, <1>3 DEF MatchesZone

LEMMA ZonesWellLaid ==
  ASSUME NEW key \in Keys, NEW b, FrameSized(b)
  PROVE  LET n == Len(Layouts[key])
             zones == ZonesOf(key, b) IN
         /\ n \in Nat /\ DOMAIN Layouts[key] = 1 .. n
         /\ zones = [k \in 1 .. n |-> GapZone(Zone(Layouts[key][k], b), b)]
         /\ Len(zones) = n /\ DOMAIN zones = 1 .. n
         /\ \A j, k \in 1 .. n : j # k => Apart(zones[j], zones[k])
         /\ \A k \in 1 .. n : zones[k].width >= MinW /\ zones[k].height >= MinH => SettledIn(zones[k], b)
<1> DEFINE L == Layouts[key]
           n == Len(L)
           zones == ZonesOf(key, b)
<1>1. WellLaid(L)
  BY LayoutsWellLaid
<1> HIDE DEF L
<1>2. n \in Nat /\ DOMAIN L = 1 .. n /\ \A k \in 1 .. n : IsQuad(L[k])
  BY <1>1 DEF WellLaid
<1>3. zones = [k \in 1 .. n |-> GapZone(Zone(L[k], b), b)]
  BY <1>2 DEF ZonesOf, GapZones, LayoutGeoms, L
<1> HIDE DEF zones
<1>4. ASSUME NEW j \in 1 .. n, NEW k \in 1 .. n, j # k PROVE Apart(zones[j], zones[k])
  <2>1. IsQuad(L[j]) /\ IsQuad(L[k]) /\ QuadsApart(L[j], L[k])
    BY <1>1, <1>2, <1>4 DEF WellLaid
  <2>2. Apart(GapZone(Zone(L[j], b), b), GapZone(Zone(L[k], b), b))
    BY <2>1, GapsApart
  <2> QED BY <1>3, <2>2
<1>5. ASSUME NEW k \in 1 .. n, zones[k].width >= MinW, zones[k].height >= MinH PROVE SettledIn(zones[k], b)
  <2> DEFINE geo == GapZone(Zone(L[k], b), b)
  <2>1. geo = zones[k] /\ IsQuad(L[k])
    BY <1>2, <1>3
  <2>2. /\ geo = Geom(geo.left, geo.top, geo.width, geo.height)
        /\ geo.left \in Nat /\ geo.top \in Nat /\ geo.width \in Int /\ geo.height \in Int
        /\ geo.left + geo.width <= b.w /\ geo.top + geo.height <= b.h
    BY <2>1, GapInside
  <2> HIDE DEF geo
  <2>3. geo.width \in Nat /\ geo.height \in Nat
    BY <2>1, <2>2, <1>5 DEF MinW, MinH
  <2> QED BY <2>1, <2>2, <2>3, <1>5 DEF SettledIn
<1>6. Len(zones) = n /\ DOMAIN zones = 1 .. n
  <2>1. zones \in Seq({GapZone(Zone(L[k], b), b) : k \in 1 .. n}) /\ Len(zones) = n
    BY <1>2, <1>3
  <2> QED BY <1>3, <2>1
<1> QED BY <1>2, <1>3, <1>4, <1>5, <1>6 DEF L, zones

-----------------------------------------------------------------------------
\* What is read off the screen is a whole assignment, or nothing.
LEMMA ReadOffDeals ==
  ASSUME NEW n \in Nat, NEW zones, DOMAIN zones = 1 .. n, Len(zones) = n,
         NEW geoms, IsFiniteSet(DOMAIN geoms), Occupancy(zones, geoms) # Unset
  PROVE  Deals(Occupancy(zones, geoms), DOMAIN geoms) /\ Len(Occupancy(zones, geoms)) = n
<1> DEFINE V == DOMAIN geoms
           Within(k) == {id \in V : MatchesZone(geoms[id], zones[k])}
           o == [k \in 1 .. n |-> CHOOSE id \in Within(k) : TRUE]
<1>1. /\ Cardinality(V) = n
      /\ \A k \in 1 .. n : Cardinality(Within(k)) = 1
      /\ \A j, k \in 1 .. n : j # k => Within(j) # Within(k)
      /\ Occupancy(zones, geoms) = o
  BY DEF Occupancy
<1>2. \A k \in 1 .. n : Within(k) \in SUBSET V
  OBVIOUS
<1> HIDE DEF V, Within
<1>3. ASSUME NEW k \in 1 .. n PROVE \E x \in V : Within(k) = {x}
  <2>1. IsFiniteSet(Within(k))
    BY <1>2, FS_Subset DEF V
  <2>2. PICK x : Within(k) = {x}
    BY <2>1, <1>1, FS_Singleton
  <2> QED BY <2>2, <1>2
<1>4. ASSUME NEW k \in 1 .. n PROVE o[k] \in V /\ Within(k) = {o[k]}
  BY <1>3
<1> HIDE DEF o
<1>5. ASSUME NEW i \in 1 .. n, NEW j \in 1 .. n, o[i] = o[j] PROVE i = j
  BY <1>1, <1>4, <1>5
<1>6. o \in [1 .. n -> V]
  BY <1>4 DEF o
<1>7. Deals(o, V) /\ Len(o) = n
  BY <1>1, <1>5, <1>6, DealsByCount DEF V
<1> QED BY <1>1, <1>7 DEF V

\* Windows put in zones that are told apart are read off as they were put.
LEMMA ReadOffBack ==
  ASSUME NEW n \in Nat, NEW zones, DOMAIN zones = 1 .. n, Len(zones) = n,
         NEW geoms, NEW a, Deals(a, DOMAIN geoms), Len(a) = n,
         \A k \in 1 .. n : geoms[a[k]] = zones[k],
         \A j, k \in 1 .. n : MatchesZone(zones[j], zones[k]) <=> j = k
  PROVE  Occupancy(zones, geoms) = a
<1> DEFINE V == DOMAIN geoms
           Within(k) == {id \in V : MatchesZone(geoms[id], zones[k])}
<1>1. a \in [1 .. n -> V] /\ DOMAIN a = 1 .. n /\ Cardinality(V) = n
      /\ \A v \in V : \E i \in 1 .. n : a[i] = v
  BY DealtCount DEF Deals
<1>2. ASSUME NEW k \in 1 .. n PROVE Within(k) = {a[k]}
  <2>1. a[k] \in Within(k)
    BY <1>1
  <2>2. ASSUME NEW x \in Within(k) PROVE x = a[k]
    <3>1. PICK i \in 1 .. n : a[i] = x
      BY <1>1
    <3> QED BY <3>1
  <2> QED BY <2>1, <2>2
<1>3. \A i, j \in 1 .. n : a[i] = a[j] => i = j
  BY DEF Deals
<1>4. ASSUME NEW k \in DOMAIN zones PROVE Cardinality(Within(k)) = 1
  <2>1. Within(k) = {a[k]}
    BY <1>2
  <2> HIDE DEF Within
  <2> QED BY <2>1, FS_Singleton
<1>5. \A j, k \in DOMAIN zones : j # k => Within(j) # Within(k)
  BY <1>2, <1>3
<1>6. Cardinality(V) = Len(zones)
  BY <1>1
<1>7. Occupancy(zones, geoms) = [k \in DOMAIN zones |-> CHOOSE id \in Within(k) : TRUE]
  BY <1>4, <1>5, <1>6 DEF Occupancy
<1> HIDE DEF Within
<1>8. [k \in DOMAIN zones |-> CHOOSE id \in Within(k) : TRUE] = [k \in 1 .. n |-> a[k]]
  BY <1>2
<1> QED BY <1>1, <1>7, <1>8

-----------------------------------------------------------------------------
\* The desktop.
InView(w) == {id \in DOMAIN w : ~w[id].min}
IsWindow(v) == v = [at |-> v.at, min |-> v.min] /\ v.min \in BOOLEAN
AllWindows(w) == w = [id \in DOMAIN w |-> w[id]] /\ \A id \in DOMAIN w : IsWindow(w[id])
\* The windows were opened in the order of Ids.
InOrder ==
  /\ order \in Seq(ToSet(Ids)) /\ Len(order) <= Len(Ids)
  /\ \A i \in 1 .. Len(order) : order[i] = Ids[i]
  /\ Deals(order, DOMAIN wins) /\ AllWindows(wins)
\* The board deals the windows that are shown.
BoardDeals(w) ==
  board # Unset =>
    /\ board = [key |-> board.key, assign |-> board.assign] /\ board.key \in Keys
    /\ Deals(board.assign, InView(w)) /\ Len(board.assign) = Len(Layouts[board.key])
WindowsInv == box \in Boxes /\ InOrder /\ BoardDeals(wins)

LEMMA VisibleDeals ==
  ASSUME NEW w, Deals(order, DOMAIN w)
  PROVE  Deals(Visible(w), InView(w)) /\ DOMAIN Here(w) = InView(w) /\ IsFiniteSet(InView(w))
         /\ Len(Visible(w)) \in Nat /\ Cardinality(InView(w)) = Len(Visible(w)) /\ ToSet(Visible(w)) = InView(w)
<1>1. Visible(w) = Among(order, InView(w))
  BY DEF Visible, InView
<1>2. DOMAIN w \cap InView(w) = InView(w)
  BY DEF InView
<1>3. Deals(Visible(w), InView(w))
  BY <1>1, <1>2, AmongDeals
<1>4. DOMAIN Here(w) = InView(w)
  BY DEF Here, InView
<1> QED BY <1>3, <1>4, DealtCount

\* Windows and what is done to them one at a time.
LEMMA Moved ==
  ASSUME NEW v, NEW x, NEW y, v = [at |-> y, min |-> FALSE]
  PROVE  [v EXCEPT !.at = x] = [at |-> x, min |-> FALSE]
OBVIOUS

LEMMA MovedIsWindow ==
  ASSUME NEW v, NEW x, v = [at |-> x, min |-> FALSE]
  PROVE  IsWindow(v) /\ v.min = FALSE /\ v.at = x
BY DEF IsWindow

\* Rendering moves windows and neither shows nor hides one.
LEMMA RenderedKeeps ==
  ASSUME NEW w, AllWindows(w), NEW b
  PROVE  /\ DOMAIN Rendered(w, b) = DOMAIN w /\ AllWindows(Rendered(w, b)) /\ InView(Rendered(w, b)) = InView(w)
         /\ \A id \in DOMAIN w : Rendered(w, b)[id].min = w[id].min
         /\ \A id \in InView(w) : Rendered(w, b)[id].at = ClampGeom(w[id].at, b, 0)
<1> DEFINE r == Rendered(w, b)
<1>1. ASSUME NEW id \in DOMAIN w
      PROVE  r[id] = (IF w[id].min THEN w[id] ELSE [at |-> ClampGeom(w[id].at, b, 0), min |-> FALSE])
  <2>1. w[id] = [at |-> w[id].at, min |-> w[id].min] /\ w[id].min \in BOOLEAN
    BY DEF AllWindows, IsWindow
  <2>2. r[id] = IF w[id].min THEN w[id] ELSE [w[id] EXCEPT !.at = ClampGeom(w[id].at, b, 0)]
    BY DEF Rendered
  <2>3. CASE w[id].min
    BY <2>2, <2>3
  <2>4. CASE ~w[id].min
    <3>1. r[id] = [w[id] EXCEPT !.at = ClampGeom(w[id].at, b, 0)]
      BY <2>2, <2>4
    <3>2. w[id] = [at |-> w[id].at, min |-> FALSE]
      BY <2>1, <2>4
    <3> HIDE DEF r
    <3>3. r[id] = [at |-> ClampGeom(w[id].at, b, 0), min |-> FALSE]
      BY ONLY <3>1, <3>2, Moved
    <3> QED BY <3>3, <2>4
  <2> QED BY <2>3, <2>4
<1>2. DOMAIN r = DOMAIN w /\ r = [id \in DOMAIN r |-> r[id]]
  BY DEF Rendered
<1> HIDE DEF r
<1>3. ASSUME NEW id \in DOMAIN w
      PROVE  IsWindow(r[id]) /\ r[id].min = w[id].min /\ (~w[id].min => r[id].at = ClampGeom(w[id].at, b, 0))
  <2>1. IsWindow(w[id])
    BY DEF AllWindows
  <2>2. CASE w[id].min
    BY <2>1, <2>2, <1>1
  <2>3. CASE ~w[id].min
    <3>1. r[id] = [at |-> ClampGeom(w[id].at, b, 0), min |-> FALSE]
      BY <1>1, <2>3
    <3>2. w[id].min = FALSE
      BY <2>1, <2>3 DEF IsWindow
    <3>3. IsWindow(r[id]) /\ r[id].min = FALSE /\ r[id].at = ClampGeom(w[id].at, b, 0)
      BY ONLY <3>1, MovedIsWindow
    <3> QED BY <3>2, <3>3
  <2> QED BY <2>2, <2>3
<1>4. AllWindows(r)
  BY <1>2, <1>3 DEF AllWindows
<1>5. InView(r) = InView(w)
  BY <1>2, <1>3 DEF InView
<1> QED BY <1>2, <1>3, <1>4, <1>5 DEF r, InView

\* The palette deals the windows that are shown, whether it reads the screen or
\* takes the default.
LEMMA PaletteDeals ==
  ASSUME NEW key \in Keys, NEW w, Deals(order, DOMAIN w), NEW b, FrameSized(b),
         Len(Layouts[key]) = Len(Visible(w))
  PROVE  Deals(PaletteOf(key, w, b), InView(w)) /\ Len(PaletteOf(key, w, b)) = Len(Layouts[key])
<1> DEFINE n == Len(Layouts[key])
           zones == ZonesOf(key, b)
           now == Occupancy(zones, Here(w))
<1>1. n \in Nat /\ Len(zones) = n /\ DOMAIN zones = 1 .. n
  BY ZonesWellLaid
<1>2. Deals(Visible(w), InView(w)) /\ DOMAIN Here(w) = InView(w) /\ IsFiniteSet(InView(w))
  BY VisibleDeals
<1>3. PaletteOf(key, w, b) = IF now # Unset THEN now ELSE ZoneAssign(Visible(w), active, n)
  BY DEF PaletteOf, ZonesOf
<1> HIDE DEF zones
<1>4. CASE now # Unset
  <2>1. Deals(now, InView(w)) /\ Len(now) = n
    BY <1>1, <1>2, <1>4, ReadOffDeals
  <2> QED BY <2>1, <1>3, <1>4
<1>5. CASE now = Unset
  <2>1. n = Len(Visible(w))
    OBVIOUS
  <2>2. Deals(ZoneAssign(Visible(w), active, n), InView(w)) /\ Len(ZoneAssign(Visible(w), active, n)) = n
    BY <1>2, <2>1, AssignDeals
  <2> QED BY <2>2, <1>3, <1>5
<1> QED BY <1>4, <1>5

-----------------------------------------------------------------------------
LEMMA ShownOrHidden ==
  ASSUME NEW w, AllWindows(w), NEW id \in DOMAIN w, NEW c \in BOOLEAN
  PROVE  AllWindows([w EXCEPT ![id].min = c]) /\ DOMAIN [w EXCEPT ![id].min = c] = DOMAIN w
<1> DEFINE one == [w[id] EXCEPT !.min = c]
           u == [w EXCEPT ![id] = one]
<1>1. [w EXCEPT ![id].min = c] = u
  OBVIOUS
<1>2. one = [at |-> w[id].at, min |-> c]
  <2> DEFINE v == w[id]
  <2>1. v = [at |-> v.at, min |-> v.min]
    BY DEF AllWindows, IsWindow
  <2> HIDE DEF v
  <2>2. [v EXCEPT !.min = c] = [at |-> v.at, min |-> c]
    BY <2>1
  <2> QED BY <2>2 DEF v
<1> HIDE DEF one
<1>3. IsWindow(one)
  BY <1>2 DEF IsWindow
<1>4. u = [x \in DOMAIN w |-> IF x = id THEN one ELSE w[x]]
  BY DEF AllWindows
<1> HIDE DEF u
<1>5. AllWindows(u) /\ DOMAIN u = DOMAIN w
  BY <1>3, <1>4 DEF AllWindows
<1> QED BY <1>1, <1>5

LEMMA PutWindow ==
  ASSUME NEW w, AllWindows(w), NEW id \in DOMAIN w, NEW geo
  PROVE  AllWindows(Put(w, id, geo)) /\ DOMAIN Put(w, id, geo) = DOMAIN w
<1> DEFINE one == [at |-> geo, min |-> FALSE]
           u == Put(w, id, geo)
<1>1. IsWindow(one)
  BY DEF IsWindow
<1>2. u = [x \in DOMAIN w |-> IF x = id THEN one ELSE w[x]]
  BY DEF AllWindows, Put
<1> HIDE DEF one, u
<1>3. AllWindows(u) /\ DOMAIN u = DOMAIN w
  BY <1>1, <1>2 DEF AllWindows
<1> QED BY <1>3 DEF u

LEMMA PutAllWindows ==
  ASSUME NEW w, AllWindows(w), NEW a, NEW zones
  PROVE  AllWindows(PutAll(w, a, zones)) /\ DOMAIN PutAll(w, a, zones) = DOMAIN w
<1> DEFINE u == PutAll(w, a, zones)
<1>1. DOMAIN u = DOMAIN w /\ u = [id \in DOMAIN w |-> u[id]]
  BY DEF PutAll
<1>2. ASSUME NEW id \in DOMAIN w PROVE IsWindow(u[id])
  <2>1. CASE Contains(a, id)
    <3>1. u[id] = [at |-> zones[CHOOSE k \in DOMAIN a : a[k] = id], min |-> FALSE]
      BY <2>1 DEF PutAll
    <3> QED BY ONLY <3>1, MovedIsWindow
  <2>2. CASE ~Contains(a, id)
    BY <2>2 DEF PutAll, AllWindows
  <2> QED BY <2>1, <2>2
<1> HIDE DEF u
<1>3. AllWindows(u)
  BY <1>1, <1>2 DEF AllWindows
<1> QED BY <1>1, <1>3 DEF u

\* All but some windows are minimised.
AllBut(w, a) == [id \in DOMAIN w |-> [w[id] EXCEPT !.min = @ \/ ~Contains(a, id)]]
LEMMA AllButWindows ==
  ASSUME NEW w, AllWindows(w), NEW a
  PROVE  AllWindows(AllBut(w, a)) /\ DOMAIN AllBut(w, a) = DOMAIN w
         /\ \A id \in DOMAIN w : AllBut(w, a)[id].min <=> (w[id].min \/ ~Contains(a, id))
<1> DEFINE u == AllBut(w, a)
<1>1. DOMAIN u = DOMAIN w /\ u = [id \in DOMAIN w |-> u[id]]
  BY DEF AllBut
<1>2. ASSUME NEW id \in DOMAIN w
      PROVE  IsWindow(u[id]) /\ (u[id].min <=> (w[id].min \/ ~Contains(a, id)))
  <2> DEFINE v == w[id]
             c == v.min \/ ~Contains(a, id)
  <2>1. v = [at |-> v.at, min |-> v.min]
    BY DEF AllWindows, IsWindow
  <2>2. u[id] = [v EXCEPT !.min = c]
    BY DEF AllBut
  <2> HIDE DEF v, u
  <2>3. c \in BOOLEAN
    OBVIOUS
  <2> HIDE DEF c
  <2>4. [v EXCEPT !.min = c] = [at |-> v.at, min |-> c]
    BY <2>1
  <2>5. u[id] = [at |-> v.at, min |-> c]
    BY <2>2, <2>4
  <2>6. IsWindow(u[id]) /\ u[id].min = c
    BY ONLY <2>3, <2>5 DEF IsWindow
  <2> QED BY <2>6 DEF c, v
<1> HIDE DEF u
<1>3. AllWindows(u)
  BY <1>1, <1>2 DEF AllWindows
<1> QED BY <1>1, <1>2, <1>3 DEF u

-----------------------------------------------------------------------------
\* The windows stay the ones there are, the palette closes and the frame stays.
LEMMA ClosesPalette ==
  ASSUME WindowsInv, box' = box, order' = order, board' = Unset,
         AllWindows(wins'), DOMAIN wins' = DOMAIN wins
  PROVE  WindowsInv'
BY DEF WindowsInv, InOrder, BoardDeals

LEMMA NothingPlaced ==
  ASSUME placed' = Unset \/ placed'.key = "tidy"
  PROVE  LayoutReadsBack'
BY DEF LayoutReadsBack

LEMMA WindowsStart == WindowsInit => WindowsInv /\ LayoutReadsBack
<1> SUFFICES ASSUME WindowsInit PROVE WindowsInv /\ LayoutReadsBack
  OBVIOUS
<1>1. box \in Boxes /\ order = <<>> /\ wins = <<>> /\ board = Unset /\ placed = Unset
  BY DEF WindowsInit
<1>2. order \in Seq(ToSet(Ids)) /\ Len(order) = 0 /\ DOMAIN wins = {} /\ order \in Seq({})
  BY <1>1
<1>3. Len(Ids) \in Nat
  BY IdsAreApart
<1>4. Deals(order, DOMAIN wins)
  BY <1>2 DEF Deals
<1>5. AllWindows(wins)
  BY <1>1 DEF AllWindows
<1>6. InOrder
  BY <1>2, <1>3, <1>4, <1>5 DEF InOrder
<1> QED BY <1>1, <1>6 DEF WindowsInv, BoardDeals, LayoutReadsBack

LEMMA OpenKeeps == ASSUME WindowsInv, Open PROVE WindowsInv' /\ LayoutReadsBack'
<1> DEFINE n == Len(order)
           id == Ids[n + 1]
           u == [x \in DOMAIN wins \cup {id} |->
                    IF x = id THEN [at |-> DefaultGeom(box, Len(order), Margin), min |-> FALSE] ELSE wins[x]]
<1>1. /\ n < Len(Ids) /\ placed' = Unset /\ board' = Unset /\ box' = box
      /\ order' = Append(order, id) /\ wins' = Rendered(u, box)
  BY DEF Open, Other
<1>2. /\ order \in Seq(ToSet(Ids)) /\ n \in Nat /\ \A i \in 1 .. n : order[i] = Ids[i]
      /\ Deals(order, DOMAIN wins) /\ AllWindows(wins)
  BY DEF WindowsInv, InOrder
<1>3. /\ Len(Ids) \in Nat /\ DOMAIN Ids = 1 .. Len(Ids) /\ \A i \in 1 .. Len(Ids) : Ids[i] \in ToSet(Ids)
      /\ \A i, j \in 1 .. Len(Ids) : Ids[i] = Ids[j] => i = j
  <2>1. Ids \in Seq(ToSet(Ids))
    BY IdsAreApart
  <2>2. Len(Ids) \in Nat /\ DOMAIN Ids = 1 .. Len(Ids) /\ \A i \in 1 .. Len(Ids) : Ids[i] \in ToSet(Ids)
    BY <2>1
  <2> QED BY <2>2, IdsAreApart
<1>4. /\ order' \in Seq(ToSet(Ids)) /\ Len(order') = n + 1 /\ order'[n + 1] = id
      /\ \A i \in 1 .. n : order'[i] = order[i]
  <2>1. id \in ToSet(Ids)
    BY <1>1, <1>2, <1>3
  <2> HIDE DEF id
  <2> QED BY <1>1, <1>2, <2>1
<1>5. \A i \in 1 .. n + 1 : order'[i] = Ids[i]
  <2> TAKE i \in 1 .. n + 1
  <2>1. i \in 1 .. n \/ i = n + 1
    BY <1>2
  <2> QED BY <2>1, <1>2, <1>4
<1>6. /\ \A i \in 1 .. n : order[i] \in DOMAIN wins
      /\ \A v \in DOMAIN wins : \E i \in 1 .. n : order[i] = v
  BY <1>2, DealtCount DEF Deals
<1> HIDE DEF id
<1>7. DOMAIN u = DOMAIN wins \cup {id}
  OBVIOUS
<1>8. Deals(order', DOMAIN u)
  <2>1. \A i \in 1 .. n + 1 : order'[i] \in DOMAIN u
    <3> TAKE i \in 1 .. n + 1
    <3>1. i \in 1 .. n \/ i = n + 1
      BY <1>2
    <3> QED BY <3>1, <1>4, <1>6, <1>7
  <2>2. order' \in Seq(DOMAIN u)
    <3> HIDE DEF u
    <3> QED BY <1>2, <1>4, <2>1
  <2>3. \A i, j \in 1 .. n + 1 : order'[i] = order'[j] => i = j
    <3>1. \A i \in 1 .. n + 1 : i \in 1 .. Len(Ids)
      BY <1>1, <1>2, <1>3
    <3> QED BY <1>3, <1>5, <3>1
  <2>4. ASSUME NEW v \in DOMAIN u PROVE \E i \in 1 .. n + 1 : order'[i] = v
    <3>1. CASE v = id
      <4>1. n + 1 \in 1 .. n + 1
        BY <1>2
      <4> QED BY <3>1, <4>1, <1>4
    <3>2. CASE v \in DOMAIN wins
      <4>1. PICK i \in 1 .. n : order[i] = v
        BY <3>2, <1>6
      <4>2. i \in 1 .. n + 1
        BY <1>2
      <4> QED BY <4>1, <4>2, <1>4
    <3> QED BY <3>1, <3>2, <1>7
  <2> HIDE DEF u
  <2> QED BY <1>4, <2>2, <2>3, <2>4 DEF Deals
<1>9. AllWindows(u)
  <2>1. ASSUME NEW x \in DOMAIN u PROVE IsWindow(u[x])
    <3>1. CASE x = id
      <4>1. u[x] = [at |-> DefaultGeom(box, Len(order), Margin), min |-> FALSE]
        BY <3>1
      <4> QED BY ONLY <4>1, MovedIsWindow
    <3>2. CASE x # id
      BY <3>2, <1>2, <1>7 DEF AllWindows
    <3> QED BY <3>1, <3>2
  <2> QED BY <2>1 DEF AllWindows
<1> HIDE DEF u
<1>10. DOMAIN wins' = DOMAIN u /\ AllWindows(wins')
  BY <1>1, <1>9, RenderedKeeps
<1>11. InOrder'
  <2>1. Len(order') <= Len(Ids) /\ Deals(order', DOMAIN wins')
    BY <1>1, <1>2, <1>3, <1>4, <1>8, <1>10
  <2> QED BY <1>4, <1>5, <1>10, <2>1 DEF InOrder
<1>12. WindowsInv'
  BY <1>1, <1>11 DEF WindowsInv, BoardDeals
<1> QED BY <1>1, <1>12, NothingPlaced

LEMMA FocusKeeps ==
  ASSUME WindowsInv, NEW id \in DOMAIN wins, Focus(id) PROVE WindowsInv' /\ LayoutReadsBack'
<1> DEFINE u == [wins EXCEPT ![id].min = FALSE]
<1>1. placed' = Unset /\ board' = Unset /\ box' = box /\ order' = order /\ wins' = Rendered(u, box)
  BY DEF Focus, Other
<1>2. AllWindows(wins)
  BY DEF WindowsInv, InOrder
<1>3. AllWindows(u) /\ DOMAIN u = DOMAIN wins
  BY <1>2, ShownOrHidden
<1> HIDE DEF u
<1>4. AllWindows(wins') /\ DOMAIN wins' = DOMAIN wins
  BY <1>1, <1>3, RenderedKeeps
<1> QED BY <1>1, <1>4, ClosesPalette, NothingPlaced

LEMMA MinimiseKeeps ==
  ASSUME WindowsInv, NEW id \in DOMAIN wins, Minimise(id) PROVE WindowsInv' /\ LayoutReadsBack'
<1>1. /\ placed' = Unset /\ board' = Unset /\ box' = box /\ order' = order
      /\ wins' = [wins EXCEPT ![id].min = TRUE]
  BY DEF Minimise, Other
<1>2. AllWindows(wins)
  BY DEF WindowsInv, InOrder
<1>3. AllWindows(wins') /\ DOMAIN wins' = DOMAIN wins
  BY <1>1, <1>2, ShownOrHidden
<1> QED BY <1>1, <1>3, ClosesPalette, NothingPlaced

LEMMA PutKeeps ==
  ASSUME WindowsInv, NEW id \in DOMAIN wins, NEW geo, wins' = Put(wins, id, geo), Other, order' = order
  PROVE  WindowsInv' /\ LayoutReadsBack'
<1>1. placed' = Unset /\ board' = Unset /\ box' = box
  BY DEF Other
<1>2. AllWindows(wins)
  BY DEF WindowsInv, InOrder
<1>3. AllWindows(wins') /\ DOMAIN wins' = DOMAIN wins
  BY <1>2, PutWindow
<1> QED BY <1>1, <1>3, ClosesPalette, NothingPlaced

LEMMA TidyKeeps == ASSUME WindowsInv, Tidy PROVE WindowsInv' /\ LayoutReadsBack'
<1> DEFINE keep == KeptOpen(Visible(wins))
           tiles == Tidied(keep)
           wide == [k \in DOMAIN tiles |-> Widened(tiles[k])]
           u == PutAll(AllBut(wins, keep), keep, wide)
<1>1. /\ placed' = [key |-> "tidy", assign |-> keep] /\ board' = Unset /\ box' = box /\ order' = order
      /\ wins' = Rendered(u, box)
  BY DEF Tidy, AllBut
<1>2. AllWindows(wins)
  BY DEF WindowsInv, InOrder
<1> HIDE DEF keep, wide
<1>3. AllWindows(u) /\ DOMAIN u = DOMAIN wins
  BY <1>2, AllButWindows, PutAllWindows
<1> HIDE DEF u
<1>4. AllWindows(wins') /\ DOMAIN wins' = DOMAIN wins
  BY <1>1, <1>3, RenderedKeeps
<1>5. placed'.key = "tidy"
  BY <1>1
<1> QED BY <1>1, <1>4, <1>5, ClosesPalette, NothingPlaced

\* Neither opening the palette nor editing its board touches the desktop.
LEMMA ScreenStays ==
  ASSUME LayoutReadsBack, UNCHANGED <<box, order, wins, active, placed>>
  PROVE  LayoutReadsBack'
<1>1. /\ box' = box /\ order' = order /\ wins' = wins /\ active' = active /\ placed' = placed
  OBVIOUS
<1> QED BY <1>1 DEF LayoutReadsBack, Roomy, Here, AllApart, Apart, PaletteOf, Visible

LEMMA FrameIs == ASSUME WindowsInv PROVE FrameSized(box)
BY FramesArePixels DEF WindowsInv, FrameSized

LEMMA ShowLayoutsKeeps ==
  ASSUME WindowsInv, LayoutReadsBack, NEW key \in Keys, ShowLayouts(key)
  PROVE  WindowsInv' /\ LayoutReadsBack'
<1> DEFINE p == PaletteOf(key, wins, box)
<1>1. /\ board' = [key |-> key, assign |-> p] /\ UNCHANGED <<box, order, wins, active, placed>>
      /\ Len(Layouts[key]) = Len(Visible(wins))
  BY DEF ShowLayouts, LayoutsFor
<1>2. Deals(order, DOMAIN wins)
  BY DEF WindowsInv, InOrder
<1>3. Deals(p, InView(wins)) /\ Len(p) = Len(Layouts[key])
  BY <1>1, <1>2, FrameIs, PaletteDeals
<1> HIDE DEF p
<1>4. Deals(p, InView(wins')) /\ board'.key = key /\ board'.assign = p
  BY <1>1, <1>3
<1>5. BoardDeals(wins)'
  BY <1>1, <1>3, <1>4 DEF BoardDeals
<1>6. InOrder' /\ box' \in Boxes
  BY <1>1 DEF WindowsInv, InOrder
<1> QED BY <1>1, <1>5, <1>6, ScreenStays DEF WindowsInv

LEMMA SwapDeals ==
  ASSUME NEW V, NEW a, Deals(a, V), NEW i \in DOMAIN a, NEW j \in DOMAIN a
  PROVE  Deals(SwapZones(a, i, j), V) /\ Len(SwapZones(a, i, j)) = Len(a)
<1> DEFINE n == Len(a)
           list == SwapZones(a, i, j)
           turn == [k \in 1 .. n |-> IF k = i THEN j ELSE IF k = j THEN i ELSE k]
<1>1. n \in Nat /\ a \in [1 .. n -> V] /\ DOMAIN a = 1 .. n /\ i \in 1 .. n /\ j \in 1 .. n
  BY DealtCount
<1> HIDE DEF n
<1>2. ASSUME NEW k \in 1 .. n PROVE turn[k] \in 1 .. n /\ turn[turn[k]] = k
  BY <1>1
<1>3. list = [k \in 1 .. n |-> a[turn[k]]]
  BY <1>1 DEF SwapZones
<1> HIDE DEF list, turn
<1>4. list \in [1 .. n -> V]
  BY <1>1, <1>2, <1>3
<1>5. list \in Seq(V) /\ Len(list) = n
  BY <1>1, <1>4
<1>6. ASSUME NEW x \in 1 .. n, NEW y \in 1 .. n, list[x] = list[y] PROVE x = y
  <2>1. turn[x] = turn[y]
    BY <1>2, <1>3, <1>6 DEF Deals, n
  <2> QED BY <2>1, <1>2
<1>7. ASSUME NEW v \in V PROVE \E k \in 1 .. n : list[k] = v
  <2>1. PICK k \in 1 .. n : a[k] = v
    BY DEF Deals, n
  <2> QED BY <2>1, <1>2, <1>3
<1> QED BY <1>5, <1>6, <1>7 DEF Deals, list, n

LEMMA StageKeeps ==
  ASSUME WindowsInv, LayoutReadsBack, NEW i, NEW j, Stage(i, j)
  PROVE  WindowsInv' /\ LayoutReadsBack'
<1> DEFINE a == board.assign
           list == SwapZones(a, i, j)
<1>1. /\ board # Unset /\ i \in DOMAIN a /\ j \in DOMAIN a
      /\ board' = [board EXCEPT !.assign = list]
      /\ UNCHANGED <<box, order, wins, active, placed>>
  BY DEF Stage
<1>2. /\ board = [key |-> board.key, assign |-> a] /\ board.key \in Keys
      /\ Deals(a, InView(wins)) /\ Len(a) = Len(Layouts[board.key])
  BY <1>1 DEF WindowsInv, BoardDeals
<1>3. Deals(list, InView(wins)) /\ Len(list) = Len(Layouts[board.key])
  BY <1>1, <1>2, SwapDeals
<1> HIDE DEF a, list
<1>4. board' = [key |-> board.key, assign |-> list]
  BY <1>1, <1>2
<1>5. board'.key = board.key /\ board'.assign = list /\ wins' = wins
  BY <1>1, <1>4
<1>6. BoardDeals(wins)'
  BY <1>2, <1>3, <1>4, <1>5 DEF BoardDeals
<1>7. InOrder' /\ box' \in Boxes
  BY <1>1 DEF WindowsInv, InOrder
<1> QED BY <1>1, <1>6, <1>7, ScreenStays DEF WindowsInv

LEMMA ReflowKeeps ==
  ASSUME WindowsInv, NEW b \in Boxes, Reflow(b) PROVE WindowsInv' /\ LayoutReadsBack'
<1>1. box' = b /\ wins' = Rendered(wins, b) /\ placed' = Unset /\ order' = order /\ board' = board
  BY DEF Reflow
<1>2. InOrder /\ AllWindows(wins) /\ BoardDeals(wins)
  BY DEF WindowsInv, InOrder
<1>3. DOMAIN wins' = DOMAIN wins /\ AllWindows(wins') /\ InView(wins') = InView(wins)
  BY <1>1, <1>2, RenderedKeeps
<1>4. InOrder'
  BY <1>1, <1>2, <1>3 DEF InOrder
<1>5. BoardDeals(wins)'
  BY <1>1, <1>2, <1>3 DEF BoardDeals
<1> QED BY <1>1, <1>4, <1>5, NothingPlaced DEF WindowsInv

-----------------------------------------------------------------------------
\* The board is applied as it is: none of its windows has gone.
LEMMA AssignedIsStaged ==
  ASSUME WindowsInv, board # Unset
  PROVE  Assigned(Visible(wins)) = board.assign /\ ToSet(board.assign) = ToSet(Visible(wins))
<1> DEFINE vis == Visible(wins)
           a == board.assign
<1>1. Deals(order, DOMAIN wins) /\ Deals(a, InView(wins)) /\ Len(a) = Len(Layouts[board.key])
  BY DEF WindowsInv, InOrder, BoardDeals
<1>2. /\ Len(vis) \in Nat /\ Cardinality(InView(wins)) = Len(vis) /\ ToSet(vis) = InView(wins)
  BY <1>1, VisibleDeals
<1>3. Len(a) = Len(vis) /\ ToSet(a) = InView(wins)
  BY <1>1, <1>2, DealtCount
<1>4. Among(a, ToSet(vis)) = a
  BY <1>1, <1>2, AmongAll
<1> HIDE DEF vis, a
<1>5. AtMost(Len(Layouts[board.key]), Len(vis)) = Len(a)
  BY <1>1, <1>2, <1>3 DEF AtMost
<1> QED BY <1>2, <1>3, <1>4, <1>5 DEF Assigned, vis, a

\* Applying a board with room for its gaps shows that board.
RoomyIn(key, b) == \A k \in DOMAIN Layouts[key] :
  LET z == GapZone(Zone(Layouts[key][k], b), b) IN z.width >= MinW /\ z.height >= MinH
LEMMA ApplyKeeps == ASSUME WindowsInv, ApplyLayout PROVE WindowsInv' /\ LayoutReadsBack'
<1> DEFINE key == board.key
           a == board.assign
           n == Len(Layouts[key])
           V == InView(wins)
           zones == ZonesOf(key, box)
           rest == AllBut(wins, a)
           u == PutAll(rest, a, zones)
<1>1. /\ board # Unset /\ board' = Unset /\ box' = box /\ order' = order /\ active' = active
      /\ wins' = Rendered(u, box) /\ placed' = [key |-> key, assign |-> a]
  <2>1. board # Unset
    BY DEF ApplyLayout
  <2>2. Assigned(Visible(wins)) = a /\ ToSet(a) = ToSet(Visible(wins))
    BY <2>1, AssignedIsStaged
  <2> QED BY <2>1, <2>2 DEF ApplyLayout, AllBut, ZonesOf
<1>2. /\ key \in Keys /\ Deals(a, V) /\ Len(a) = n /\ AllWindows(wins) /\ Deals(order, DOMAIN wins) /\ FrameSized(box)
  BY <1>1, FrameIs DEF WindowsInv, InOrder, BoardDeals
<1>3. AllWindows(rest) /\ DOMAIN rest = DOMAIN wins
      /\ \A id \in DOMAIN wins : rest[id].min <=> (wins[id].min \/ ~Contains(a, id))
  BY <1>2, AllButWindows
<1>4. AllWindows(u) /\ DOMAIN u = DOMAIN wins
  <2> HIDE DEF rest, zones
  <2> QED BY <1>3, PutAllWindows
<1>5. DOMAIN wins' = DOMAIN wins /\ AllWindows(wins')
  <2> HIDE DEF u
  <2> QED BY <1>1, <1>4, RenderedKeeps
<1>6. WindowsInv'
  <2> HIDE DEF u
  <2> QED BY <1>1, <1>5, ClosesPalette
<1>7. /\ n \in Nat /\ DOMAIN Layouts[key] = 1 .. n
      /\ zones = [k \in 1 .. n |-> GapZone(Zone(Layouts[key][k], box), box)]
      /\ Len(zones) = n /\ DOMAIN zones = 1 .. n
      /\ \A j, k \in 1 .. n : j # k => Apart(zones[j], zones[k])
      /\ \A k \in 1 .. n : zones[k].width >= MinW /\ zones[k].height >= MinH => SettledIn(zones[k], box)
  BY <1>2, ZonesWellLaid
<1>8. /\ n \in Nat /\ DOMAIN a = 1 .. n /\ \A k \in 1 .. n : a[k] \in V
      /\ \A j, k \in 1 .. n : a[j] = a[k] => j = k
      /\ \A v \in V : \E k \in 1 .. n : a[k] = v
  BY <1>2, DealtCount DEF Deals
<1>9. \A id \in DOMAIN wins : id \in V <=> Contains(a, id)
  BY <1>8 DEF Contains, InView
<1> HIDE DEF zones, n
<1>10. /\ InView(u) = V
       /\ \A k \in 1 .. n : u[a[k]].at = zones[k]
  <2>1. ASSUME NEW k \in 1 .. n PROVE u[a[k]] = [at |-> zones[k], min |-> FALSE]
    <3>1. a[k] \in DOMAIN wins /\ Contains(a, a[k])
      BY <1>8, <1>9 DEF InView
    <3>2. (CHOOSE j \in DOMAIN a : a[j] = a[k]) = k
      BY <1>8
    <3>3. a[k] \in DOMAIN rest
      BY <1>3, <3>1
    <3> HIDE DEF rest, a
    <3> QED BY <3>1, <3>2, <3>3 DEF PutAll
  <2>2. ASSUME NEW k \in 1 .. n PROVE ~u[a[k]].min /\ u[a[k]].at = zones[k]
    <3> DEFINE v == u[a[k]]
    <3>1. v = [at |-> zones[k], min |-> FALSE]
      BY <2>1
    <3> HIDE DEF v, zones
    <3>2. v.min = FALSE /\ v.at = zones[k]
      BY ONLY <3>1, MovedIsWindow
    <3> QED BY <3>2 DEF v
  <2>3. ASSUME NEW id \in DOMAIN wins PROVE (~u[id].min) <=> id \in V
    <3>1. CASE id \in V
      <4>1. PICK k \in 1 .. n : a[k] = id
        BY <3>1, <1>8
      <4> HIDE DEF u, a
      <4> QED BY <3>1, <4>1, <2>2
    <3>2. CASE id \notin V
      <4>1. u[id] = rest[id]
        BY <3>2, <1>3, <1>9 DEF PutAll
      <4>2. rest[id].min <=> (wins[id].min \/ ~Contains(a, id))
        BY <1>3
      <4>3. ~Contains(a, id)
        BY <3>2, <1>9
      <4> HIDE DEF u, rest
      <4> QED BY <3>2, <4>1, <4>2, <4>3
    <3> QED BY <3>1, <3>2
  <2> HIDE DEF u
  <2>4. InView(u) = V
    BY <2>3, <1>4 DEF InView
  <2> QED BY <2>2, <2>4
<1> HIDE DEF u, a, V, rest
<1>11. ASSUME RoomyIn(key, box)
       PROVE  AllApart(Here(wins')) /\ Occupancy(zones, Here(wins')) = a /\ a # Unset
  <2>2. ASSUME NEW k \in 1 .. n PROVE SettledIn(zones[k], box)
    <3>2. GapZone(Zone(Layouts[key][k], box), box).width >= MinW
          /\ GapZone(Zone(Layouts[key][k], box), box).height >= MinH
      BY <1>7, <1>11 DEF RoomyIn
    <3>3. zones[k].width >= MinW /\ zones[k].height >= MinH
      BY <3>2, <1>7
    <3> QED BY <3>3, <1>7
  <2> DEFINE geoms == Here(wins')
  <2>3. DOMAIN geoms = V /\ \A k \in 1 .. n : geoms[a[k]] = zones[k]
    <3>1. /\ InView(wins') = V
          /\ \A id \in InView(u) : wins'[id].at = ClampGeom(u[id].at, box, 0)
      BY <1>1, <1>4, <1>10, RenderedKeeps
    <3>2. geoms = [id \in InView(wins') |-> wins'[id].at]
      BY DEF Here, InView
    <3> HIDE DEF geoms
    <3>3. ASSUME NEW k \in 1 .. n PROVE geoms[a[k]] = zones[k]
      <4>1. a[k] \in V
        BY <1>8
      <4>2. geoms[a[k]] = ClampGeom(zones[k], box, 0)
        BY <4>1, <3>1, <3>2, <1>10
      <4> QED BY <4>2, <2>2, <1>2, SettledStays
    <3> QED BY <3>1, <3>2, <3>3
  <2> HIDE DEF geoms
  <2>4. \A j, k \in 1 .. n : MatchesZone(zones[j], zones[k]) <=> j = k
    <3> TAKE j, k \in 1 .. n
    <3>1. SettledIn(zones[j], box) /\ SettledIn(zones[k], box)
      BY <2>2
    <3>2. j # k => Apart(zones[j], zones[k])
      BY <1>7
    <3> QED BY <3>1, <3>2, SettledMatches
  <2>5. Occupancy(zones, geoms) = a
    <3>1. Deals(a, DOMAIN geoms) /\ Len(a) = n
      BY <1>2, <2>3 DEF n
    <3> QED BY ONLY <3>1, <1>7, <2>3, <2>4, ReadOffBack
  <2>6. a # Unset
    <3>1. a \in Seq(V)
      BY <1>2 DEF Deals
    <3>2. V \subseteq ToSet(Ids)
      <4>1. order \in Seq(ToSet(Ids)) /\ DOMAIN wins = ToSet(order)
        BY <1>2, DealtCount DEF WindowsInv, InOrder
      <4>2. ToSet(order) \subseteq ToSet(Ids)
        BY <4>1 DEF ToSet
      <4> QED BY <4>1, <4>2 DEF InView, V
    <3>3. a \in Seq(ToSet(Ids))
      BY <3>1, <3>2
    <3> QED BY <3>3, IdsAreApart
  <2>8. ASSUME NEW x \in DOMAIN geoms, NEW y \in DOMAIN geoms, x # y PROVE Apart(geoms[x], geoms[y])
    <3>1. PICK j \in 1 .. n : a[j] = x
      BY <1>8, <2>3
    <3>2. PICK k \in 1 .. n : a[k] = y
      BY <1>8, <2>3
    <3>3. Apart(zones[j], zones[k])
      BY <2>8, <3>1, <3>2, <1>7
    <3> QED BY <3>1, <3>2, <3>3, <2>3
  <2>9. AllApart(Here(wins'))
    BY <2>8 DEF AllApart, geoms
  <2> QED BY <2>5, <2>6, <2>9 DEF geoms
<1>12. LayoutReadsBack'
  <2> SUFFICES ASSUME (placed # Unset /\ placed.key # "tidy" /\ Roomy(placed.key))'
               PROVE  AllApart(Here(wins))' /\ PaletteOf(placed.key, wins, box)' = placed'.assign
    BY DEF LayoutReadsBack
  <2>1. placed'.key = key /\ placed'.assign = a
    BY <1>1
  <2>2. RoomyIn(key, box)
    BY <1>1, <2>1 DEF Roomy, RoomyIn
  <2>3. Occupancy(ZonesOf(key, box), Here(wins')) = a /\ a # Unset /\ AllApart(Here(wins'))
    BY <1>11, <2>2 DEF zones
  <2>4. PaletteOf(placed.key, wins, box)' = a
    BY <1>1, <2>1, <2>3 DEF PaletteOf, ZonesOf
  <2>5. AllApart(Here(wins))'
    BY <2>3 DEF AllApart, Here, Apart
  <2> QED BY <2>1, <2>4, <2>5
<1> QED BY <1>6, <1>12

\* WindowsInv is inductive, and every step keeps LayoutReadsBack with it.
LEMMA WindowsMoves ==
  ASSUME WindowsInv, LayoutReadsBack, [WindowsNext]_frameVars
  PROVE  WindowsInv' /\ LayoutReadsBack'
<1>1. CASE Open
  BY <1>1, OpenKeeps
<1>2. CASE Tidy
  BY <1>2, TidyKeeps
<1>3. CASE ApplyLayout
  BY <1>3, ApplyKeeps
<1>4. ASSUME NEW id \in DOMAIN wins, Focus(id) PROVE WindowsInv' /\ LayoutReadsBack'
  BY <1>4, FocusKeeps
<1>5. ASSUME NEW id \in DOMAIN wins, Minimise(id) PROVE WindowsInv' /\ LayoutReadsBack'
  BY <1>5, MinimiseKeeps
<1>6. ASSUME NEW id \in DOMAIN wins, NEW dx \in Drags, NEW dy \in Drags, DragWindow(id, dx, dy)
      PROVE  WindowsInv' /\ LayoutReadsBack'
  <2>1. \E geo : wins' = Put(wins, id, geo)
    BY <1>6 DEF DragWindow
  <2>2. Other /\ order' = order
    BY <1>6 DEF DragWindow
  <2> QED BY <2>1, <2>2, PutKeeps
<1>7. ASSUME NEW id \in DOMAIN wins, NEW dx \in Drags, NEW dy \in Drags,
             NEW dir \in {{"n", "w"}, {"s", "e"}}, ResizeWindow(id, dir, dx, dy)
      PROVE  WindowsInv' /\ LayoutReadsBack'
  <2>1. wins' = Put(wins, id, ResizeGeom(wins[id].at, dir, dx, dy, box, Margin)) /\ Other /\ order' = order
    BY <1>7 DEF ResizeWindow
  <2> QED BY ONLY <2>1, WindowsInv, PutKeeps
<1>8. ASSUME NEW key \in Keys, ShowLayouts(key) PROVE WindowsInv' /\ LayoutReadsBack'
  BY <1>8, ShowLayoutsKeeps
<1>9. ASSUME NEW i \in 1 .. Len(order), NEW j \in 1 .. Len(order), Stage(i, j)
      PROVE  WindowsInv' /\ LayoutReadsBack'
  BY <1>9, StageKeeps
<1>10. ASSUME NEW b \in Boxes, Reflow(b) PROVE WindowsInv' /\ LayoutReadsBack'
  BY <1>10, ReflowKeeps
<1>11. CASE UNCHANGED frameVars
  <2>1. /\ box' = box /\ order' = order /\ wins' = wins /\ active' = active /\ board' = board /\ placed' = placed
    BY <1>11 DEF frameVars
  <2>2. LayoutReadsBack'
    BY <2>1, ScreenStays
  <2> QED BY <2>1, <2>2 DEF WindowsInv, InOrder, BoardDeals
<1>12. CASE WindowsNext
  BY <1>1, <1>2, <1>3, <1>4, <1>5, <1>6, <1>7, <1>8, <1>9, <1>10, <1>12 DEF WindowsNext
<1> QED BY <1>11, <1>12

(* For any windows in any order, on any frames: a layout that was applied  *)
(* with room for its gaps leaves no window on another, and the palette     *)
(* reads it back as it was staged, window by window (winmgr.js,            *)
(* desktop.html).                                                          *)
THEOREM LayoutsReadBack == WindowsSpec => []LayoutReadsBack
<1>1. WindowsInit => WindowsInv /\ LayoutReadsBack
  BY WindowsStart
<1>2. WindowsInv /\ LayoutReadsBack /\ [WindowsNext]_frameVars => (WindowsInv /\ LayoutReadsBack)'
  BY WindowsMoves
<1> QED BY <1>1, <1>2, PTL DEF WindowsSpec

-----------------------------------------------------------------------------
(* Connecting (TerminalConnection).                                        *)
Pagelets == [phase : {"startup", "closed", "reconnecting", "connecting", "awaiting-output"},
             ready : BOOLEAN, stopped : BOOLEAN, exhausted : BOOLEAN, failed : BOOLEAN, retries : Nat]

(* The page has counted every attempt, in its variables or, across a       *)
(* reload, in those it starts with.                                        *)
BudgetInv ==
  /\ page \in Pagelets /\ attempts \in Nat
  /\ attempts <= page.retries /\ page.retries <= MaxRetries

\* What a decision of the watchdog leaves behind.
LEMMA WatchedKeeps ==
  ASSUME NEW p \in Pagelets, p.retries = page.retries, BudgetInv, NEW long, NEW paused,
         NEW d, d = Decision(p, long, paused), NEW tried,
         tried = IF d \in {"reconnect", "reload"} THEN attempts + 1 ELSE attempts
  PROVE  /\ WatchedPage(p, d) \in Pagelets /\ tried \in Nat
         /\ d # "reload" => tried <= WatchedPage(p, d).retries /\ WatchedPage(p, d).retries <= MaxRetries
         /\ d = "reload" => tried <= Counts(p, d) /\ Counts(p, d) \in Nat /\ Counts(p, d) <= MaxRetries
<1>1. /\ p.retries \in Nat /\ MaxRetries \in Nat /\ attempts \in Nat
      /\ attempts <= p.retries /\ p.retries <= MaxRetries
  BY LimitsAreNatural DEF BudgetInv, Pagelets
<1>2. d \in {"nothing", "give up", "stop", "reconnect", "reload"}
  BY DEF Decision
<1>3. d \in {"reconnect", "reload"} => p.retries < MaxRetries
  <2>1. p.retries >= MaxRetries => d \notin {"reconnect", "reload"}
    BY DEF Decision
  <2> QED BY <1>1, <2>1
<1> HIDE DEF Decision
<1>4. CASE d = "nothing"
  BY <1>1, <1>4 DEF WatchedPage
<1>5. CASE d = "give up"
  BY <1>1, <1>5 DEF WatchedPage, Pagelets
<1>6. CASE d = "stop"
  <2>1. WatchedPage(p, d) = [p EXCEPT !.stopped = TRUE, !.failed = TRUE]
    BY <1>6 DEF WatchedPage
  <2> QED BY <1>1, <1>6, <2>1 DEF Pagelets
<1>7. CASE d = "reconnect"
  <2>1. WatchedPage(p, d) = [p EXCEPT !.phase = "reconnecting", !.retries = p.retries + 1]
    BY <1>7 DEF WatchedPage, Counts
  <2>2. p.retries + 1 \in Nat
    BY <1>1
  <2>3. WatchedPage(p, d) \in Pagelets /\ WatchedPage(p, d).retries = p.retries + 1
    BY <2>1, <2>2 DEF Pagelets
  <2> QED BY <1>1, <1>3, <1>7, <2>3
<1>8. CASE d = "reload"
  <2>1. WatchedPage(p, d) = p /\ Counts(p, d) = p.retries + 1
    BY <1>8 DEF WatchedPage, Counts
  <2> QED BY <1>1, <1>3, <1>8, <2>1
<1> QED BY <1>2, <1>4, <1>5, <1>6, <1>7, <1>8

LEMMA FreshPages == ASSUME NEW n \in Nat PROVE FreshPage(n) \in Pagelets /\ FreshPage(n).retries = n
BY DEF FreshPage, Pagelets

LEMMA TickKeeps ==
  ASSUME BudgetInv, NEW long, NEW paused, Tick(long, paused) PROVE BudgetInv'
<1> DEFINE p == Noticed
           d == Decision(p, long, paused)
           tried == IF d \in {"reconnect", "reload"} THEN attempts + 1 ELSE attempts
<1>1. p \in Pagelets /\ p.retries = page.retries
  BY DEF BudgetInv, Noticed, Pagelets
<1>2. /\ attempts' = tried /\ stored' = IF d \in {"reconnect", "reload"} THEN Counts(p, d) ELSE stored
      /\ page' = IF d = "reload" THEN FreshPage(stored') ELSE WatchedPage(p, d)
  BY DEF Tick, Watches
<1> HIDE DEF p, d
<1>3. /\ WatchedPage(p, d) \in Pagelets /\ tried \in Nat
      /\ d # "reload" => tried <= WatchedPage(p, d).retries /\ WatchedPage(p, d).retries <= MaxRetries
      /\ d = "reload" => tried <= Counts(p, d) /\ Counts(p, d) \in Nat /\ Counts(p, d) <= MaxRetries
  BY <1>1, WatchedKeeps DEF d
<1> HIDE DEF tried
<1>4. CASE d = "reload"
  <2>1. page' = FreshPage(Counts(p, d))
    BY <1>2, <1>4
  <2>2. page' \in Pagelets /\ page'.retries = Counts(p, d)
    BY <1>3, <1>4, <2>1, FreshPages
  <2> QED BY <1>2, <1>3, <1>4, <2>2 DEF BudgetInv
<1>5. CASE d # "reload"
  BY <1>2, <1>3, <1>5 DEF BudgetInv
<1> QED BY <1>4, <1>5

LEMMA CloseKeeps == ASSUME BudgetInv, CloseEvent PROVE BudgetInv'
<1> DEFINE p == IF page.stopped THEN page ELSE [page EXCEPT !.ready = FALSE, !.phase = "closed"]
           d == Decision(p, FALSE, FALSE)
<1>1. p \in Pagelets /\ p.retries = page.retries
  BY DEF BudgetInv, Pagelets
<1>2. d # "reload"
  <2>1. ~p.stopped => p.phase = "closed"
    BY DEF BudgetInv, Pagelets
  <2> HIDE DEF p
  <2> QED BY <2>1 DEF Decision
<1>3. attempts' = (IF d = "reconnect" THEN attempts + 1 ELSE attempts) /\ page' = WatchedPage(p, d)
  BY DEF CloseEvent
<1> HIDE DEF p, d
<1> DEFINE tried == IF d \in {"reconnect", "reload"} THEN attempts + 1 ELSE attempts
<1>4. /\ WatchedPage(p, d) \in Pagelets /\ tried \in Nat
      /\ tried <= WatchedPage(p, d).retries /\ WatchedPage(p, d).retries <= MaxRetries
  BY <1>1, <1>2, WatchedKeeps DEF d
<1>5. attempts' = tried
  BY <1>2, <1>3
<1> HIDE DEF tried
<1> QED BY <1>3, <1>4, <1>5 DEF BudgetInv

\* A page that changes otherwise keeps its count.
LEMMA CountKept ==
  ASSUME BudgetInv, page' \in Pagelets, page'.retries = page.retries, attempts' = attempts
  PROVE  BudgetInv'
BY DEF BudgetInv

LEMMA ConnectionMoves == ASSUME BudgetInv, [Next]_vars PROVE BudgetInv'
<1>0. page \in Pagelets
  BY DEF BudgetInv
<1>1. ASSUME NEW long \in BOOLEAN, NEW paused \in BOOLEAN, Tick(long, paused) PROVE BudgetInv'
  BY <1>1, TickKeeps
<1>2. ASSUME Connects PROVE page' \in Pagelets /\ page'.retries = page.retries
  BY <1>0, <1>2 DEF Connects, Pagelets
<1>3. CASE TokenForTtyd
  BY <1>2, <1>3, CountKept DEF TokenForTtyd
<1>4. CASE TokenInPlace
  <2>1. attempts' = attempts /\ (Connects \/ page' = page)
    BY <1>4 DEF TokenInPlace
  <2> QED BY <1>0, <1>2, <2>1, CountKept
<1>5. CASE SocketOpens
  <2>1. page' = [page EXCEPT !.phase = "awaiting-output"] /\ attempts' = attempts
    BY <1>5 DEF SocketOpens
  <2>2. page' \in Pagelets /\ page'.retries = page.retries
    BY <1>0, <2>1 DEF Pagelets
  <2> QED BY <2>1, <2>2, CountKept
<1>6. CASE Output
  <2>1. page' = [page EXCEPT !.ready = TRUE, !.exhausted = FALSE, !.retries = 0] /\ attempts' = 0
    BY <1>6 DEF Output
  <2>2. page' \in Pagelets /\ page'.retries = 0
    BY <1>0, <2>1 DEF Pagelets
  <2> QED BY <2>1, <2>2, LimitsAreNatural DEF BudgetInv
<1>7. CASE Drops
  BY <1>0, <1>7, CountKept DEF Drops
<1>8. CASE CloseEvent
  BY <1>8, CloseKeeps
<1>9. CASE PressEnter
  BY <1>0, <1>9, CountKept DEF PressEnter
<1>10. CASE ManualRetry
  <2>1. page' = FreshPage(0) /\ attempts' = 0
    BY <1>10 DEF ManualRetry
  <2>2. page' \in Pagelets /\ page'.retries = 0
    BY <2>1, FreshPages
  <2> QED BY <2>1, <2>2, LimitsAreNatural DEF BudgetInv
<1>11. CASE Surroundings
  <2>1. /\ attempts' = attempts
        /\ \/ page' = page \/ page' = [page EXCEPT !.stopped = TRUE] \/ page' = [page EXCEPT !.stopped = FALSE]
    BY <1>11 DEF Surroundings, Hide, Show, NetworkGone, NetworkBack, PageHide, PageShow
  <2>2. page' \in Pagelets /\ page'.retries = page.retries
    BY <1>0, <2>1 DEF Pagelets
  <2> QED BY <2>1, <2>2, CountKept
<1>12. CASE UNCHANGED vars
  BY <1>0, <1>12, CountKept DEF vars
<1> QED BY <1>1, <1>3, <1>4, <1>5, <1>6, <1>7, <1>8, <1>9, <1>10, <1>11, <1>12 DEF Next

(* For any budget and any disturbances: between two signs of life the page *)
(* tries again by itself no more often than its budget allows, across      *)
(* reloads too (terminal-connection.js).                                   *)
THEOREM AttemptsStayBounded == Spec => []AttemptsBounded
<1>1. Init => BudgetInv
  BY FreshPages, LimitsAreNatural DEF Init, BudgetInv
<1>2. BudgetInv => AttemptsBounded
  BY LimitsAreNatural DEF BudgetInv, Pagelets, AttemptsBounded
<1> QED BY <1>1, <1>2, ConnectionMoves, PTL DEF Spec

-----------------------------------------------------------------------------
(* Serving pages (ServiceWorker).                                          *)
CONSTANTS MaxSite, MaxLoads, MaxExpiry
VARIABLES site, signedIn, worker, coming, caches, net, nav, loads, expired

Sw == INSTANCE ServiceWorker WITH active <- worker, stored <- caches

(* Versions are deploys the site has had.                                  *)
Asked ==
  [by : 0 .. MaxSite, path : Sw!Paths, for : {"nav", "left"},
   ans : {"none", "page", "redirect", "error"}, content : Nat]
Loading ==
  [path : Sw!Paths, by : 0 .. MaxSite, phase : {"race", "late", "open", "done"},
   shown : {"none", "page", "login", "handoff", "unreachable", "cached"}, content : Nat]
WorkerTypes ==
  /\ site \in 1 .. MaxSite /\ signedIn \in BOOLEAN
  /\ worker \in 0 .. site /\ coming \in 0 .. site
  /\ caches \in [1 .. MaxSite -> [Sw!Shell -> Nat]]
  /\ net \in SUBSET Asked /\ nav \in Loading

(* What a version keeps is no older than it, nor is what it gets.          *)
KeepsNone(c) == \A v \in 1 .. MaxSite : \A p \in Sw!Shell : c[v][p] = 0 \/ c[v][p] >= v
GetsNone(r) == r.by <= site /\ (r.ans = "page" => r.content >= r.by)
ShowsNone(n) ==
  /\ n.by <= site /\ (n.phase \in {"race", "late"} => n.by > 0)
  /\ n.by > 0 /\ n.phase = "done" /\ n.shown \in {"page", "cached"} => n.content >= n.by

(* A request that a load waits for is of the worker that answers the load. *)
WorkerInv ==
  /\ WorkerTypes /\ KeepsNone(caches) /\ ShowsNone(nav)
  /\ \A r \in net : GetsNone(r) /\ (r.for = "nav" => r.by = nav.by)

\* Requests.
LEMMA NewRequest ==
  ASSUME MaxSite \in Nat, NEW v \in 0 .. MaxSite, NEW p \in Sw!Paths, NEW f \in {"nav", "left"}
  PROVE  LET r == Sw!Request(v, p, f) IN
         r \in Asked /\ r.by = v /\ r.for = f /\ r.ans = "none"
BY DEF Sw!Request, Asked

LEMMA LeftRequests ==
  ASSUME NEW ns \in SUBSET Asked
  PROVE  /\ Sw!Left(ns) \in SUBSET Asked
         /\ \A r \in Sw!Left(ns) :
              r.for = "left" /\ \E q \in ns : r.by = q.by /\ r.ans = q.ans /\ r.content = q.content
<1> SUFFICES ASSUME NEW r \in Sw!Left(ns)
             PROVE  r \in Asked /\ r.for = "left"
                    /\ \E q \in ns : r.by = q.by /\ r.ans = q.ans /\ r.content = q.content
  OBVIOUS
<1>1. PICK q \in ns : r = [q EXCEPT !.for = "left"]
  BY DEF Sw!Left
<1> QED BY <1>1 DEF Asked

LEMMA LeftIsFine ==
  ASSUME WorkerInv
  PROVE  /\ Sw!Left(net) \in SUBSET Asked
         /\ \A r \in Sw!Left(net) : r.for = "left" /\ GetsNone(r)
<1>1. net \in SUBSET Asked /\ \A r \in net : GetsNone(r)
  BY DEF WorkerInv, WorkerTypes
<1> QED BY <1>1, LeftRequests DEF GetsNone

LEMMA BeginKeeps ==
  ASSUME MaxSite \in Nat, WorkerInv, NEW p \in Sw!Paths, Sw!Begin(p),
         UNCHANGED <<site, worker, coming, caches>>, signedIn' \in BOOLEAN
  PROVE  WorkerInv'
<1> DEFINE v == IF p \in Sw!Bypassed THEN 0 ELSE worker
           ph == IF v = 0 \/ p = "vtreauth" THEN "open" ELSE "race"
           r == Sw!Request(v, p, "nav")
           n == Sw!Nav(p, v, ph)
<1>1. nav' = n /\ net' = Sw!Left(net) \cup {r}
  BY DEF Sw!Begin
<1>2. /\ v \in 0 .. MaxSite /\ v <= site /\ ph \in {"race", "open"} /\ (ph = "race" => v > 0)
      /\ site \in Nat
  BY DEF WorkerInv, WorkerTypes
<1> HIDE DEF v, ph
<1>3. r \in Asked /\ r.by = v /\ r.for = "nav" /\ r.ans = "none"
  BY <1>2, NewRequest
<1>4. n \in Loading /\ n.by = v /\ n.phase = ph
  BY <1>2 DEF Sw!Nav, Loading
<1> HIDE DEF r, n
<1>5. /\ Sw!Left(net) \in SUBSET Asked
      /\ \A q \in Sw!Left(net) : q.for = "left" /\ GetsNone(q)
  BY LeftIsFine
<1>6. \A q \in net' : GetsNone(q)' /\ (q.for = "nav" => q.by = nav'.by)
  <2> TAKE q \in net'
  <2>1. CASE q = r
    BY <2>1, <1>1, <1>2, <1>3, <1>4 DEF GetsNone
  <2>2. CASE q \in Sw!Left(net)
    BY <2>2, <1>5 DEF GetsNone
  <2> QED BY <2>1, <2>2, <1>1
<1>7. ShowsNone(nav)'
  BY <1>1, <1>2, <1>4 DEF ShowsNone
<1>8. WorkerTypes'
  BY <1>1, <1>3, <1>4, <1>5 DEF WorkerInv, WorkerTypes
<1> QED BY <1>6, <1>7, <1>8 DEF WorkerInv, KeepsNone

LEMMA CachedKeeps ==
  ASSUME WorkerInv, MaxSite \in Nat, NEW r \in net, r.by > 0
  PROVE  Sw!Cached(r) \in [1 .. MaxSite -> [Sw!Shell -> Nat]] /\ KeepsNone(Sw!Cached(r))
<1>1. /\ caches \in [1 .. MaxSite -> [Sw!Shell -> Nat]] /\ KeepsNone(caches)
      /\ r.by \in 1 .. MaxSite /\ r.content \in Nat /\ (r.ans = "page" => r.content >= r.by)
  BY DEF WorkerInv, WorkerTypes, GetsNone, Asked
<1>2. CASE ~(r.ans = "page" /\ r.path \in Sw!Shell)
  <2>1. Sw!Cached(r) = caches
    BY <1>2 DEF Sw!Cached
  <2> QED BY <2>1, <1>1
<1>3. CASE r.ans = "page" /\ r.path \in Sw!Shell
  <2>1. Sw!Cached(r) = [caches EXCEPT ![r.by][r.path] = r.content]
    BY <1>3 DEF Sw!Cached, Sw!CacheOf
  <2> DEFINE c == Sw!Cached(r)
  <2>2. c \in [1 .. MaxSite -> [Sw!Shell -> Nat]]
    BY <1>1, <1>3, <2>1
  <2>3. \A v \in 1 .. MaxSite : \A p \in Sw!Shell :
          c[v][p] = IF v = r.by /\ p = r.path THEN r.content ELSE caches[v][p]
    BY <1>1, <1>3, <2>1
  <2> HIDE DEF c
  <2>4. KeepsNone(c)
    BY <1>1, <1>3, <2>3 DEF KeepsNone
  <2> QED BY <2>2, <2>4 DEF c
<1> QED BY <1>2, <1>3

\* A load that ends.
LEMMA Ends ==
  ASSUME WorkerInv, NEW what \in {"page", "login", "handoff", "unreachable", "cached"}, NEW c \in Nat,
         Sw!Showing(what, c), site' = site,
         nav.by > 0 /\ what \in {"page", "cached"} => c >= nav.by
  PROVE  nav' \in Loading /\ nav'.by = nav.by /\ ShowsNone(nav)'
<1>1. nav \in Loading /\ nav' = [nav EXCEPT !.phase = "done", !.shown = what, !.content = c] /\ nav.by <= site
  BY DEF Sw!Showing, WorkerInv, WorkerTypes, ShowsNone
<1>2. /\ nav' \in Loading /\ nav'.by = nav.by /\ nav'.phase = "done" /\ nav'.shown = what /\ nav'.content = c
  BY <1>1 DEF Loading
<1> QED BY <1>1, <1>2 DEF ShowsNone

LEMMA HitIsOwn ==
  ASSUME WorkerInv, MaxSite \in Nat, nav.by > 0
  PROVE  Sw!Hit \in Nat /\ (Sw!Hit > 0 => Sw!Hit >= nav.by)
<1>1. /\ caches \in [1 .. MaxSite -> [Sw!Shell -> Nat]] /\ KeepsNone(caches) /\ nav.by \in 1 .. MaxSite
  BY DEF WorkerInv, WorkerTypes, Loading
<1>2. "desk" \in Sw!Shell
  BY DEF Sw!Shell
<1>3. \A p \in Sw!Shell : caches[nav.by][p] \in Nat /\ (caches[nav.by][p] = 0 \/ caches[nav.by][p] >= nav.by)
  BY <1>1 DEF KeepsNone
<1> DEFINE hit == Sw!Hit
<1>4. hit = 0 \/ \E p \in Sw!Shell : hit = caches[nav.by][p]
  BY <1>2 DEF Sw!Hit, Sw!CacheOf
<1> HIDE DEF hit
<1>5. hit \in Nat /\ (hit > 0 => hit >= nav.by)
  BY <1>3, <1>4
<1> QED BY <1>5 DEF hit

LEMMA ArriveKeeps == ASSUME WorkerInv, MaxSite \in Nat, Sw!Arrive PROVE WorkerInv'
<1>1. PICK r \in net :
        /\ r.for = "nav" /\ r.ans # "none" /\ nav.phase # "done" /\ net' = net \ {r}
        /\ caches' = IF nav.by > 0 /\ nav.phase # "open" THEN Sw!Cached(r) ELSE caches
        /\ IF nav.phase = "race" /\ r.ans = "error" /\ Sw!Hit > 0
           THEN Sw!Showing("cached", Sw!Hit) ELSE Sw!Outcome(r)
        /\ UNCHANGED <<site, signedIn, worker, coming, loads, expired>>
  BY DEF Sw!Arrive
<1>2. r \in Asked /\ GetsNone(r) /\ r.by = nav.by /\ nav \in Loading
  BY <1>1 DEF WorkerInv, WorkerTypes
<1>3. r.content \in Nat /\ nav.by \in Nat /\ (r.ans = "page" => r.content >= nav.by)
  BY <1>2 DEF Asked, GetsNone, Loading
<1>4. caches' \in [1 .. MaxSite -> [Sw!Shell -> Nat]] /\ KeepsNone(caches)'
  <2>1. CASE nav.by > 0 /\ nav.phase # "open"
    BY <2>1, <1>1, <1>2, CachedKeeps DEF KeepsNone
  <2>2. CASE ~(nav.by > 0 /\ nav.phase # "open")
    BY <2>2, <1>1 DEF WorkerInv, WorkerTypes, KeepsNone
  <2> QED BY <2>1, <2>2
<1>5. \E what \in {"page", "login", "handoff", "unreachable", "cached"}, c \in Nat :
        /\ Sw!Showing(what, c) /\ (nav.by > 0 /\ what \in {"page", "cached"} => c >= nav.by)
  <2>1. CASE nav.phase = "race" /\ r.ans = "error" /\ Sw!Hit > 0
    <3>1. nav.by > 0
      BY <2>1 DEF WorkerInv, ShowsNone
    <3>2. Sw!Hit \in Nat /\ Sw!Hit >= nav.by
      BY <2>1, <3>1, HitIsOwn
    <3>3. Sw!Showing("cached", Sw!Hit)
      BY <1>1, <2>1
    <3> QED BY <3>2, <3>3
  <2>2. CASE ~(nav.phase = "race" /\ r.ans = "error" /\ Sw!Hit > 0)
    <3>1. Sw!Outcome(r)
      BY <1>1, <2>2
    <3>2. CASE r.ans = "page"
      BY <1>3, <3>1, <3>2 DEF Sw!Outcome
    <3>3. CASE r.ans = "redirect"
      <4>1. \E what \in {"login", "handoff"} : Sw!Showing(what, 0)
        BY <3>1, <3>3 DEF Sw!Outcome
      <4> QED BY <4>1
    <3>4. CASE r.ans \notin {"page", "redirect"}
      <4>1. Sw!Showing("unreachable", 0)
        BY <3>1, <3>4 DEF Sw!Outcome
      <4> QED BY <4>1
    <3> QED BY <3>2, <3>3, <3>4
  <2> QED BY <2>1, <2>2
<1>6. nav' \in Loading /\ nav'.by = nav.by /\ ShowsNone(nav)'
  BY <1>1, <1>5, Ends
<1>7. \A q \in net' : q \in net
  BY <1>1
<1> QED BY <1>1, <1>4, <1>6, <1>7 DEF WorkerInv, WorkerTypes, GetsNone

LEMMA StalledKeeps == ASSUME WorkerInv, MaxSite \in Nat, Sw!Stalled PROVE WorkerInv'
<1>1. /\ nav.phase = "race" /\ nav.by > 0 /\ nav \in Loading
      /\ UNCHANGED <<site, signedIn, worker, coming, caches>>
  BY DEF Sw!Stalled, WorkerInv, WorkerTypes, ShowsNone
<1>2. CASE Sw!Hit > 0
  <2>1. Sw!Showing("cached", Sw!Hit) /\ net' = Sw!Left(net)
    BY <1>2 DEF Sw!Stalled
  <2>2. Sw!Hit \in Nat /\ Sw!Hit >= nav.by
    BY <1>1, <1>2, HitIsOwn
  <2>3. nav' \in Loading /\ ShowsNone(nav)'
    BY <1>1, <2>1, <2>2, Ends
  <2>4. /\ net' \in SUBSET Asked /\ \A r \in net' : r.for = "left" /\ GetsNone(r)
    BY <2>1, LeftIsFine
  <2> QED BY <1>1, <2>3, <2>4 DEF WorkerInv, WorkerTypes, KeepsNone, GetsNone
<1>3. CASE ~(Sw!Hit > 0)
  <2>1. nav' = [nav EXCEPT !.phase = "late"] /\ net' = net
    BY <1>3 DEF Sw!Stalled
  <2>2. nav' \in Loading /\ nav'.by = nav.by /\ nav'.phase = "late"
    BY <1>1, <2>1 DEF Loading
  <2> QED BY <1>1, <2>1, <2>2 DEF WorkerInv, WorkerTypes, KeepsNone, GetsNone, ShowsNone
<1> QED BY <1>2, <1>3

LEMMA GivenUpKeeps == ASSUME WorkerInv, MaxSite \in Nat, Sw!GivenUp PROVE WorkerInv'
<1>1. /\ Sw!Showing("unreachable", 0) /\ net' = Sw!Left(net)
      /\ UNCHANGED <<site, signedIn, worker, coming, caches>>
  BY DEF Sw!GivenUp
<1>2. nav' \in Loading /\ ShowsNone(nav)'
  BY <1>1, Ends
<1>3. /\ net' \in SUBSET Asked /\ \A r \in net' : r.for = "left" /\ GetsNone(r)
  BY <1>1, LeftIsFine
<1> QED BY <1>1, <1>2, <1>3 DEF WorkerInv, WorkerTypes, KeepsNone, GetsNone

LEMMA LateKeeps == ASSUME WorkerInv, MaxSite \in Nat, Sw!LateRefresh PROVE WorkerInv'
<1>1. PICK r \in net :
        /\ net' = net \ {r}
        /\ caches' \in {caches} \cup (IF r.by > 0 /\ r.path # "vtreauth" THEN {Sw!Cached(r)} ELSE {})
        /\ UNCHANGED <<site, signedIn, worker, coming, nav>>
  BY DEF Sw!LateRefresh
<1>2. caches' = caches \/ (r.by > 0 /\ caches' = Sw!Cached(r))
  BY <1>1
<1>3. caches' \in [1 .. MaxSite -> [Sw!Shell -> Nat]] /\ KeepsNone(caches)'
  BY <1>2, CachedKeeps DEF WorkerInv, WorkerTypes, KeepsNone
<1>4. \A q \in net' : q \in net
  BY <1>1
<1> QED BY <1>1, <1>3, <1>4 DEF WorkerInv, WorkerTypes, GetsNone, ShowsNone

LEMMA DeployKeeps == ASSUME WorkerInv, MaxSite \in Nat, Sw!Deploy PROVE WorkerInv'
<1>1. site < MaxSite /\ site' = site + 1 /\ UNCHANGED <<signedIn, worker, coming, caches, net, nav>>
  BY DEF Sw!Deploy
<1>2. WorkerTypes'
  BY <1>1 DEF WorkerInv, WorkerTypes
<1>3. \A r \in net' : GetsNone(r)' /\ (r.for = "nav" => r.by = nav'.by)
  <2> TAKE r \in net'
  <2>1. r \in Asked /\ GetsNone(r) /\ (r.for = "nav" => r.by = nav.by) /\ site \in Nat
    BY <1>1 DEF WorkerInv, WorkerTypes
  <2> QED BY <1>1, <2>1 DEF GetsNone, Asked
<1>4. ShowsNone(nav)'
  <2>1. nav \in Loading /\ ShowsNone(nav) /\ site \in Nat
    BY DEF WorkerInv, WorkerTypes
  <2> QED BY <1>1, <2>1 DEF ShowsNone, Loading
<1> QED BY <1>1, <1>2, <1>3, <1>4 DEF WorkerInv, KeepsNone

LEMMA ServeKeeps == ASSUME WorkerInv, MaxSite \in Nat, Sw!Serve PROVE WorkerInv'
<1>1. PICK r \in net : r.ans = "none" /\ Sw!Answered(r)
  BY DEF Sw!Serve
<1>2. UNCHANGED <<site, signedIn, worker, coming, caches, nav>>
  BY DEF Sw!Serve
<1>3. r \in Asked /\ GetsNone(r) /\ (r.for = "nav" => r.by = nav.by) /\ site \in Nat
  BY DEF WorkerInv, WorkerTypes
<1>4. PICK x : /\ x = [r EXCEPT !.ans = IF signedIn THEN "page" ELSE "redirect", !.content = site]
                  \/ x = [r EXCEPT !.ans = "error"]
               /\ net' = (net \ {r}) \cup {x}
  BY <1>1 DEF Sw!Answered
<1>5. x \in Asked /\ x.by = r.by /\ x.for = r.for /\ (x.ans = "page" => x.content = site)
  <2>1. CASE x = [r EXCEPT !.ans = IF signedIn THEN "page" ELSE "redirect", !.content = site]
    <3> DEFINE a == IF signedIn THEN "page" ELSE "redirect"
    <3>1. a \in {"page", "redirect"} /\ x = [r EXCEPT !.ans = a, !.content = site]
      BY <2>1
    <3> HIDE DEF a
    <3> QED BY <1>3, <3>1 DEF Asked
  <2>2. CASE x = [r EXCEPT !.ans = "error"]
    BY <1>3, <2>2 DEF Asked
  <2> QED BY <1>4, <2>1, <2>2
<1>6. GetsNone(x)
  BY <1>3, <1>5 DEF GetsNone, Asked
<1>7. \A q \in net' : q \in Asked /\ GetsNone(q) /\ (q.for = "nav" => q.by = nav.by)
  BY <1>3, <1>4, <1>5, <1>6 DEF WorkerInv, WorkerTypes
<1> QED BY <1>2, <1>7 DEF WorkerInv, WorkerTypes, GetsNone, KeepsNone, ShowsNone

LEMMA PrecacheKeeps == ASSUME WorkerInv, MaxSite \in Nat, Sw!Precache PROVE WorkerInv'
<1>1. /\ coming > 0 /\ UNCHANGED <<site, signedIn, worker, coming, net, nav>>
  BY DEF Sw!Precache
<1>2. PICK p \in Sw!Shell : caches' = [caches EXCEPT ![coming][p] = site]
  BY DEF Sw!Precache, Sw!CacheOf
<1>3. /\ coming \in 1 .. MaxSite /\ coming <= site /\ site \in Nat
      /\ caches \in [1 .. MaxSite -> [Sw!Shell -> Nat]] /\ KeepsNone(caches)
  BY <1>1 DEF WorkerInv, WorkerTypes
<1>4. caches' \in [1 .. MaxSite -> [Sw!Shell -> Nat]]
  BY <1>2, <1>3
<1>5. \A v \in 1 .. MaxSite : \A q \in Sw!Shell :
        caches'[v][q] = IF v = coming /\ q = p THEN site ELSE caches[v][q]
  BY <1>2, <1>3
<1>6. KeepsNone(caches)'
  BY <1>3, <1>5 DEF KeepsNone
<1> QED BY <1>1, <1>4, <1>6 DEF WorkerInv, WorkerTypes, GetsNone, ShowsNone

LEMMA ActivateKeeps == ASSUME WorkerInv, MaxSite \in Nat, Sw!Activate PROVE WorkerInv'
<1>1. /\ worker' = coming /\ coming' = 0 /\ caches' = Sw!Dropped(coming)
      /\ net' = {r \in net : r.by \in {0, coming}} /\ UNCHANGED <<site, signedIn, nav>>
  BY DEF Sw!Activate
<1>2. caches \in [1 .. MaxSite -> [Sw!Shell -> Nat]] /\ KeepsNone(caches)
  BY DEF WorkerInv, WorkerTypes
<1>3. Sw!Empty \in [Sw!Shell -> Nat] /\ \A p \in Sw!Shell : Sw!Empty[p] = 0
  BY DEF Sw!Empty
<1>4. caches' = [v \in 1 .. MaxSite |-> IF v = coming THEN caches[v] ELSE Sw!Empty]
  BY <1>1, <1>2 DEF Sw!Dropped, Sw!CacheOf
<1>5. caches' \in [1 .. MaxSite -> [Sw!Shell -> Nat]] /\ KeepsNone(caches)'
  BY <1>2, <1>3, <1>4 DEF KeepsNone
<1>6. \A q \in net' : q \in net
  BY <1>1
<1> QED BY <1>1, <1>5, <1>6 DEF WorkerInv, WorkerTypes, GetsNone, ShowsNone

LEMMA WorkerMoves == ASSUME WorkerInv, MaxSite \in Nat, [Sw!Next]_(Sw!vars) PROVE WorkerInv'
<1>0. "desk" \in Sw!Paths /\ "notes" \in Sw!Paths /\ "other" \in Sw!Paths /\ "reauth" \in Sw!Paths
      /\ "vtreauth" \in Sw!Paths
  BY DEF Sw!Paths, Sw!Shell
<1>1. CASE Sw!Deploy
  BY <1>1, DeployKeeps
<1>2. CASE Sw!Expire
  BY <1>2 DEF Sw!Expire, WorkerInv, WorkerTypes, GetsNone, ShowsNone, KeepsNone
<1>3. CASE Sw!Serve
  BY <1>3, ServeKeeps
<1>4. CASE Sw!Install
  BY <1>4 DEF Sw!Install, WorkerInv, WorkerTypes, GetsNone, ShowsNone, KeepsNone
<1>5. CASE Sw!Precache
  BY <1>5, PrecacheKeeps
<1>6. CASE Sw!Activate
  BY <1>6, ActivateKeeps
<1>7. signedIn \in BOOLEAN
  BY DEF WorkerInv, WorkerTypes
<1>8. CASE Sw!Load
  <2>1. PICK p \in {"desk", "notes", "other"} : Sw!Begin(p)
    BY <1>8 DEF Sw!Load
  <2>2. UNCHANGED <<site, worker, coming, caches, signedIn>>
    BY <1>8 DEF Sw!Load
  <2> QED BY <2>1, <2>2, <1>0, <1>7, BeginKeeps
<1>9. CASE Sw!Arrive
  BY <1>9, ArriveKeeps
<1>10. CASE Sw!Stalled
  BY <1>10, StalledKeeps
<1>11. CASE Sw!GivenUp
  BY <1>11, GivenUpKeeps
<1>12. CASE Sw!LateRefresh
  BY <1>12, LateKeeps
<1>13. CASE Sw!Hop
  <2>1. Sw!Begin("reauth") \/ Sw!Begin("vtreauth")
    BY <1>13 DEF Sw!Hop
  <2>2. UNCHANGED <<site, worker, coming, caches, signedIn>>
    BY <1>13 DEF Sw!Hop
  <2> QED BY <2>1, <2>2, <1>0, <1>7, BeginKeeps
<1>14. CASE Sw!TryAgain
  <2>1. Sw!Begin("reauth") /\ UNCHANGED <<site, worker, coming, caches, signedIn>>
    BY <1>14 DEF Sw!TryAgain
  <2> QED BY <2>1, <1>0, <1>7, BeginKeeps
<1>15. CASE Sw!SignIn
  <2>1. Sw!Begin("reauth") /\ UNCHANGED <<site, worker, coming, caches>> /\ signedIn' = TRUE
    BY <1>15 DEF Sw!SignIn
  <2> QED BY <2>1, <1>0, BeginKeeps
<1>16. CASE UNCHANGED Sw!vars
  BY <1>16 DEF Sw!vars, WorkerInv, WorkerTypes, GetsNone, ShowsNone, KeepsNone
<1> QED BY <1>1, <1>2, <1>3, <1>4, <1>5, <1>6, <1>8, <1>9, <1>10, <1>11, <1>12, <1>13, <1>14, <1>15, <1>16
        DEF Sw!Next

LEMMA WorkerStarts == ASSUME MaxSite \in Nat \ {0}, Sw!Init PROVE WorkerInv
<1>1. /\ site = 1 /\ signedIn = TRUE /\ worker = 0 /\ coming = 0 /\ net = {}
      /\ caches = [v \in 1 .. MaxSite |-> Sw!Empty]
      /\ nav = [path |-> "desk", by |-> 0, phase |-> "done", shown |-> "page", content |-> 1]
  BY DEF Sw!Init, Sw!Nav
<1>2. Sw!Empty \in [Sw!Shell -> Nat] /\ \A p \in Sw!Shell : Sw!Empty[p] = 0
  BY DEF Sw!Empty
<1>3. nav \in Loading
  BY <1>1 DEF Loading, Sw!Paths, Sw!Shell
<1>4. caches \in [1 .. MaxSite -> [Sw!Shell -> Nat]] /\ KeepsNone(caches)
  BY <1>1, <1>2 DEF KeepsNone
<1>5. site \in 1 .. MaxSite
  BY <1>1
<1> QED BY <1>1, <1>3, <1>4, <1>5 DEF WorkerInv, WorkerTypes, ShowsNone

(* For any numbers of deploys, loads and expired sessions, whether or not  *)
(* a timer fires: a worker never shows a page older than the deploy it     *)
(* came with (sw.js).                                                      *)
THEOREM PagesAreRecent ==
  ASSUME MaxSite \in Nat \ {0}
  PROVE  Sw!Init /\ [][Sw!Next]_(Sw!vars) => []Sw!ServesItsOwn
<1>1. Sw!Init => WorkerInv
  BY WorkerStarts
<1>2. WorkerInv /\ [Sw!Next]_(Sw!vars) => WorkerInv'
  BY WorkerMoves
<1>3. WorkerInv => Sw!ServesItsOwn
  BY DEF WorkerInv, ShowsNone, Sw!ServesItsOwn
<1> QED BY <1>1, <1>2, <1>3, PTL
=============================================================================
