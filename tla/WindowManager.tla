----------------------------- MODULE WindowManager -----------------------------
(***************************************************************************)
(* The geometry of floating windows (shell/winmgr.js) and the operations   *)
(* of the desktop that use it (shell/desktop.html): opening, dragging and  *)
(* resizing a window, snapping it to a half, Tidy, and the palette of      *)
(* layouts, which is edited as a board and then applied.                   *)
(*                                                                         *)
(* Pixels are pixels.  Maximised windows are left out.                     *)
(***************************************************************************)
EXTENDS Integers, FiniteSets, SequencesExt

CONSTANTS
  Boxes,     \* sizes the frame may have: records of w and h
  Ids,       \* the windows, in the order in which they are opened
  Drags,     \* distances a pointer moves
  MaxSteps,  \* bound: operations
  Unset      \* no window, board or layout

ASSUME FramesArePixels == \A b \in Boxes : b = [w |-> b.w, h |-> b.h] /\ b.w \in Nat /\ b.h \in Nat
ASSUME IdsAreApart ==
  /\ Ids \in Seq(ToSet(Ids)) /\ \A i, j \in DOMAIN Ids : Ids[i] = Ids[j] => i = j
  /\ Unset \notin Seq(ToSet(Ids))

MinW == 320
MinH == 200
Margin == 10
Edge == 28      \* where a drag snaps, with a mouse

VARIABLES
  box, order, wins, active,
  board,     \* the palette, when it is open: a layout and its staged assignment
  placed,    \* history: a layout or Tidy just applied, and the board it was to show
  steps

frameVars == <<box, order, wins, active, board, placed, steps>>

-----------------------------------------------------------------------------
(* Arithmetic: Math.round of n / d, and bounding.                          *)
Rnd(n, d) == (2 * n + d) \div (2 * d)
AtLeast(a, b) == IF a >= b THEN a ELSE b
AtMost(a, b) == IF a <= b THEN a ELSE b
Geom(l, t, w, h) == [left |-> l, top |-> t, width |-> w, height |-> h]

ClampGeom(g, b, m) ==
  LET w == AtLeast(MinW, AtMost(g.width, b.w - 2 * m))
      h == AtLeast(MinH, AtMost(g.height, b.h - 2 * m)) IN
  Geom(AtLeast(m, AtMost(g.left, b.w - m - w)), AtLeast(m, AtMost(g.top, b.h - m - h)), w, h)

ResizeGeom(g, dir, dx, dy, b, m) ==
  LET w == g.width + (CASE "e" \in dir -> dx [] "w" \in dir -> -dx [] OTHER -> 0)
      h == g.height + (CASE "s" \in dir -> dy [] "n" \in dir -> -dy [] OTHER -> 0)
      left == IF "w" \in dir THEN g.left + g.width - AtLeast(w, MinW) ELSE g.left
      top == IF "n" \in dir THEN g.top + g.height - AtLeast(h, MinH) ELSE g.top IN
  ClampGeom(Geom(left, top, AtLeast(w, MinW), AtLeast(h, MinH)), b, m)

DefaultGeom(b, index, m) ==
  LET off == (index % 6) * 32 IN
  ClampGeom(Geom(Rnd(b.w, 10) + off, Rnd(7 * b.h, 100) + off,
                 Rnd(AtMost(92000, 62 * b.w), 100), Rnd(AtMost(68000, 72 * b.h), 100)), b, m)

SnapTarget(px, b, m) ==
  LET half == Rnd(b.w, 2) IN
  IF px <= Edge THEN Geom(m, m, half - m, b.h - 2 * m)
  ELSE IF px >= b.w - Edge THEN Geom(half, m, b.w - half - m, b.h - 2 * m)
  ELSE Unset

-----------------------------------------------------------------------------
(* Tidy's grid: row by row, the last row stretched.                        *)
SqrtUp(n) == CHOOSE c \in 1..n : c * c >= n /\ (c - 1) * (c - 1) < n
Wanted(n, b) ==
  CASE n = 2 /\ b.h > b.w -> 1
    [] n = 3 /\ b.w >= 3 * MinW /\ b.w > b.h -> 3
    [] n = 3 /\ b.h > b.w -> 1
    [] OTHER -> SqrtUp(n)
Columns(n, b) == AtLeast(1, AtMost(Wanted(n, b), AtLeast(1, b.w \div MinW)))
TileGrid(n, b) ==
  LET cols == Columns(n, b)
      rows == (n + cols - 1) \div cols
      ch == b.h \div rows
      Tile(i) ==
        LET r == i \div cols
            c == i % cols
            inRow == IF r = rows - 1 THEN n - cols * (rows - 1) ELSE cols
            cw == b.w \div inRow IN
        Geom(c * cw, r * ch, IF c = inRow - 1 THEN b.w - c * cw ELSE cw,
                             IF r = rows - 1 THEN b.h - r * ch ELSE ch) IN
  [k \in 1..n |-> Tile(k - 1)]
TileCapacity(b) == AtLeast(1, b.w \div MinW) * AtLeast(1, b.h \div MinH)

(* gapZones: Margin at the frame, half of it between neighbours, in        *)
(* quarters of a pixel until a number is rounded.                          *)
GapZone(z, b) ==
  LET right == z.left + z.width
      below == z.top + z.height
      l4 == IF z.left <= 0 THEN 4 * Margin ELSE 4 * z.left + Margin
      t4 == IF z.top <= 0 THEN 4 * Margin ELSE 4 * z.top + Margin
      r4 == IF right >= b.w THEN 4 * (b.w - Margin) ELSE 4 * right - Margin
      b4 == IF below >= b.h THEN 4 * (b.h - Margin) ELSE 4 * below - Margin IN
  Geom(Rnd(l4, 4), Rnd(t4, 4), Rnd(r4 - l4, 4), Rnd(b4 - t4, 4))
GapZones(zones, b) == [k \in DOMAIN zones |-> GapZone(zones[k], b)]

(* The palette's layouts: zones in sixtieths of the frame.                 *)
Layouts ==
  [halves  |-> <<<<0, 0, 30, 60>>, <<30, 0, 30, 60>>>>,
   split21 |-> <<<<0, 0, 40, 60>>, <<40, 0, 20, 60>>>>,
   thirds  |-> <<<<0, 0, 20, 60>>, <<20, 0, 20, 60>>, <<40, 0, 20, 60>>>>,
   main2   |-> <<<<0, 0, 36, 60>>, <<36, 0, 24, 30>>, <<36, 30, 24, 30>>>>,
   stacked |-> <<<<0, 0, 60, 30>>, <<0, 30, 60, 30>>>>,
   quads   |-> <<<<0, 0, 30, 30>>, <<30, 0, 30, 30>>, <<0, 30, 30, 30>>, <<30, 30, 30, 30>>>>,
   columns |-> <<<<0, 0, 15, 60>>, <<15, 0, 15, 60>>, <<30, 0, 15, 60>>, <<45, 0, 15, 60>>>>]
Keys == DOMAIN Layouts

Zone(z, b) ==
  LET l == Rnd(z[1] * b.w, 60)
      t == Rnd(z[2] * b.h, 60) IN
  Geom(l, t, Rnd((z[1] + z[3]) * b.w, 60) - l, Rnd((z[2] + z[4]) * b.h, 60) - t)
LayoutGeoms(key, b) == [k \in DOMAIN Layouts[key] |-> Zone(Layouts[key][k], b)]
Fits(key, b) == \A k \in DOMAIN Layouts[key] :
                  LayoutGeoms(key, b)[k].width >= MinW /\ LayoutGeoms(key, b)[k].height >= MinH
LayoutsFor(b, n) == {key \in Keys : Len(Layouts[key]) = n /\ Fits(key, b)}

(* The windows of a list that are in a set, in the order of the list: the  *)
(* k-th of them is the one with k of their places up to its own.           *)
Among(ids, S) ==
  LET places == {i \in DOMAIN ids : ids[i] \in S} IN
  [k \in 1..Cardinality(places) |->
     ids[CHOOSE i \in places : Cardinality({j \in places : j <= i}) = k]]

(* Which window goes to which zone, and which is in which.                 *)
ZoneAssign(ids, focused, count) ==
  SubSeq(IF Contains(ids, focused)
         THEN <<focused>> \o Among(ids, ToSet(ids) \ {focused}) ELSE ids,
         1, AtMost(count, Len(ids)))
SwapZones(assign, i, j) == [assign EXCEPT ![i] = assign[j], ![j] = assign[i]]

Near(a, b) == AtLeast(a - b, b - a) <= 4
MatchesZone(g, z) ==
  Near(g.left, z.left) /\ Near(g.top, z.top) /\ Near(g.width, z.width) /\ Near(g.height, z.height)
Occupancy(zones, geoms) ==
  LET ids == DOMAIN geoms
      in(k) == {id \in ids : MatchesZone(geoms[id], zones[k])} IN
  IF /\ Cardinality(ids) = Len(zones)
     /\ \A k \in DOMAIN zones : Cardinality(in(k)) = 1
     /\ \A j, k \in DOMAIN zones : j # k => in(j) # in(k)
  THEN [k \in DOMAIN zones |-> CHOOSE id \in in(k) : TRUE] ELSE Unset

-----------------------------------------------------------------------------
(* The desktop.  Rendering keeps every visible window inside the frame.    *)
Visible(w) == Among(order, {id \in DOMAIN w : ~w[id].min})
Rendered(w, b) ==
  [id \in DOMAIN w |->
    IF w[id].min THEN w[id] ELSE [w[id] EXCEPT !.at = ClampGeom(w[id].at, b, 0)]]
Put(w, id, g) == [w EXCEPT ![id] = [at |-> g, min |-> FALSE]]
PutAll(w, assign, zones) ==
  [id \in DOMAIN w |->
    IF Contains(assign, id)
    THEN [at |-> zones[CHOOSE k \in DOMAIN assign : assign[k] = id], min |-> FALSE] ELSE w[id]]

WindowsInit ==
  /\ box \in Boxes /\ order = <<>> /\ wins = <<>> /\ active = Unset
  /\ board = Unset /\ placed = Unset /\ steps = 0

Step == steps < MaxSteps /\ steps' = steps + 1
Other == placed' = Unset /\ board' = Unset /\ UNCHANGED box

Open ==
  /\ Len(order) < Len(Ids) /\ Other /\ UNCHANGED steps
  /\ LET id == Ids[Len(order) + 1] IN
       /\ order' = Append(order, id) /\ active' = id
       /\ wins' = Rendered([x \in DOMAIN wins \cup {id} |->
                    IF x = id THEN [at |-> DefaultGeom(box, Len(order), Margin), min |-> FALSE]
                    ELSE wins[x]], box)

Focus(id) ==
  /\ Step /\ id \in DOMAIN wins /\ active' = id /\ Other
  /\ wins' = Rendered([wins EXCEPT ![id].min = FALSE], box) /\ UNCHANGED order
Minimise(id) ==
  /\ Step /\ id \in DOMAIN wins /\ wins' = [wins EXCEPT ![id].min = TRUE]
  /\ Other /\ UNCHANGED <<order, active>>

(* A drag of the title bar moves the window, or snaps it; of an edge,      *)
(* resizes it.  The pointer is somewhere on the title bar.                 *)
DragWindow(id, dx, dy) ==
  /\ Step /\ id = active /\ ~wins[id].min
  /\ LET g == wins[id].at
         moved == ClampGeom([g EXCEPT !.left = @ + dx, !.top = @ + dy], box, Margin)
         snapped == SnapTarget(g.left + dx, box, Margin) IN
     wins' = Put(wins, id, IF snapped = Unset THEN moved ELSE snapped)
  /\ Other /\ UNCHANGED <<order, active>>
ResizeWindow(id, dir, dx, dy) ==
  /\ Step /\ id = active /\ ~wins[id].min
  /\ wins' = Put(wins, id, ResizeGeom(wins[id].at, dir, dx, dy, box, Margin))
  /\ Other /\ UNCHANGED <<order, active>>

(* tidyWindows: what does not fit is minimised, the focused window last.   *)
Tidied(keep) == GapZones(TileGrid(Len(keep), box), box)
Widened(g) == [g EXCEPT !.width = AtLeast(MinW, @), !.height = AtLeast(MinH, @)]
KeptOpen(vis) ==
  LET first == IF Contains(vis, active) THEN <<active>> ELSE <<>>
      chosen == SubSeq(first \o Among(vis, ToSet(vis) \ ToSet(first)), 1,
                       AtMost(TileCapacity(box), Len(vis))) IN
  Among(vis, ToSet(chosen))
Tidy ==
  LET vis == Visible(wins)
      keep == KeptOpen(vis)
      tiles == Tidied(keep)
      shrunk == [id \in DOMAIN wins |-> [wins[id] EXCEPT !.min = @ \/ ~Contains(keep, id)]] IN
  /\ Step /\ vis # <<>>
  /\ wins' = Rendered(PutAll(shrunk, keep, [k \in DOMAIN tiles |-> Widened(tiles[k])]), box)
  /\ placed' = [key |-> "tidy", assign |-> keep] /\ board' = Unset
  /\ UNCHANGED <<box, order, active>>

(* showLayouts: the board of a layout shows who is where, or the default.  *)
Here(w) == [id \in {x \in DOMAIN w : ~w[x].min} |-> w[id].at]
PaletteOf(key, w, b) ==
  LET now == Occupancy(GapZones(LayoutGeoms(key, b), b), Here(w)) IN
  IF now # Unset THEN now ELSE ZoneAssign(Visible(w), active, Len(Layouts[key]))
ShowLayouts(key) ==
  /\ Step /\ key \in LayoutsFor(box, Len(Visible(wins)))
  /\ board' = [key |-> key, assign |-> PaletteOf(key, wins, box)]
  /\ UNCHANGED <<box, order, wins, active, placed>>
Stage(i, j) ==
  /\ board # Unset /\ Step /\ {i, j} \subseteq DOMAIN board.assign /\ i # j
  /\ board' = [board EXCEPT !.assign = SwapZones(@, i, j)]
  /\ UNCHANGED <<box, order, wins, active, placed>>

(* applyLayout: of what the board says, the windows that are still there.  *)
(* (mutant: the default, whatever was staged)                              *)
AssignedAnew(vis) == ZoneAssign(vis, active, Len(Layouts[board.key]))
Assigned(vis) ==
  LET still == Among(board.assign, ToSet(vis))
      count == Len(Layouts[board.key]) IN
  IF Len(still) = AtMost(count, Len(vis)) THEN still ELSE ZoneAssign(vis, active, count)
ApplyLayout ==
  LET vis == Visible(wins)
      assign == Assigned(vis)
      rest == [id \in DOMAIN wins |-> [wins[id] EXCEPT !.min = @ \/ ~Contains(assign, id)]] IN
  /\ board # Unset /\ Step /\ Fits(board.key, box) /\ vis # <<>>
  /\ wins' = Rendered(PutAll(rest, assign, GapZones(LayoutGeoms(board.key, box), box)), box)
  /\ placed' = [key |-> board.key,
                 assign |-> IF ToSet(board.assign) = ToSet(vis) THEN board.assign ELSE assign]
  /\ board' = Unset /\ UNCHANGED <<box, order, active>>

(* The frame is resized or turned; the palette stays open.                 *)
Reflow(b) ==
  /\ Step /\ b # box /\ box' = b /\ wins' = Rendered(wins, b) /\ placed' = Unset
  /\ UNCHANGED <<order, active, board>>

WindowsNext ==
  \/ Open \/ Tidy \/ ApplyLayout
  \/ \E id \in DOMAIN wins :
       \/ Focus(id) \/ Minimise(id)
       \/ \E dx, dy \in Drags :
            DragWindow(id, dx, dy) \/ \E dir \in {{"n", "w"}, {"s", "e"}} : ResizeWindow(id, dir, dx, dy)
  \/ \E key \in Keys : ShowLayouts(key)
  \/ \E i, j \in 1..Len(order) : Stage(i, j)
  \/ \E b \in Boxes : Reflow(b)

WindowsSpec == WindowsInit /\ [][WindowsNext]_frameVars

-----------------------------------------------------------------------------
Apart(g, h) ==
  \/ g.left + g.width <= h.left \/ h.left + h.width <= g.left
  \/ g.top + g.height <= h.top \/ h.top + h.height <= g.top
AllApart(geoms) == \A x, y \in DOMAIN geoms : x # y => Apart(geoms[x], geoms[y])

(* A layout that was applied shows the board it was staged on and reads    *)
(* back as itself, window by window, so that swaps compose; and its        *)
(* windows do not overlap.  It needs room for the gaps.                    *)
Roomy(key) == \A k \in DOMAIN Layouts[key] :
  LET z == GapZone(Zone(Layouts[key][k], box), box) IN z.width >= MinW /\ z.height >= MinH
LayoutReadsBack ==
  placed # Unset /\ placed.key # "tidy" /\ Roomy(placed.key) =>
    /\ AllApart(Here(wins))
    /\ PaletteOf(placed.key, wins, box) = placed.assign

(* Tidy leaves no window on top of another: "'Tidy' promising an even      *)
(* split must not hand back overlaps" (winmgr.js:95).  It does not hold:    *)
(* the gaps make a tile of MinW narrower, and it is widened again.         *)
TidyApart == placed # Unset /\ placed.key = "tidy" => AllApart(Here(wins))
=============================================================================
