----------------------------- MODULE GameScore -----------------------------
(***************************************************************************)
(* The best-scores table of the games (shared/gamescore.js), as the 2048   *)
(* page uses it: rows in the browser's storage, shared by the game's       *)
(* windows, and beside them the game's single best score, which shipped    *)
(* before the table, is imported into it once, and is still rewritten      *)
(* while one plays.  A higher score is better; a move scores one point.    *)
(***************************************************************************)
EXTENDS Naturals, FiniteSets

CONSTANTS
  Windows,     \* windows of the game
  Keep,        \* rows that are kept (10)
  Legacy,      \* the single best from before the table
  MaxMoves, MaxRuns, MaxRecords, MaxResets,   \* bounds
  NoRun

ASSUME RunsAreNumbers == Legacy \in Nat /\ NoRun \notin Nat

VARIABLES
  store,   \* rows, the marker of the import, and the single best
  game,    \* per window: the game it plays, or NoRun
  marked,  \* per window: the run its card marks as the one just played
  wiped,   \* a reset has happened (bookkeeping)
  used     \* moves, runs, records and resets so far

scoreVars == <<store, game, marked, wiped, used>>

ScoreInit ==
  /\ \E best \in {0, Legacy} : store = [rows |-> {}, seeded |-> FALSE, best |-> best]
  /\ game = [w \in Windows |-> NoRun] /\ marked = [w \in Windows |-> NoRun]
  /\ wiped = FALSE /\ used = [moves |-> 0, runs |-> 0, records |-> 0, resets |-> 0]

Use(k, max) == used[k] < max /\ used' = [used EXCEPT ![k] = @ + 1]

(* The import runs once; its row has no date (t) and no run.               *)
Imported(s) ==
  IF s.rows = {} /\ s.best > 0 THEN {[v |-> s.best, t |-> 0, run |-> NoRun]} ELSE s.rows

MigratedAlways(s) == [s EXCEPT !.rows = Imported(s)]

Migrated(s) == IF s.seeded THEN s ELSE [s EXCEPT !.rows = Imported(s), !.seeded = TRUE]

(* record: a run keeps one row, an undated row of the same value is the    *)
(* same achievement, and of equal scores the older one comes first.  Each  *)
(* record has a later date than those before it.                           *)
Above(r, q) == r.v > q.v \/ (r.v = q.v /\ r.t < q.t)
Best(rows) == {r \in rows : Cardinality({q \in rows : Above(q, r)}) < Keep}
Others(rows, v, run) == {r \in rows : r.run # run /\ ~(r.t = 0 /\ r.v = v)}
Recorded(s, v, run) ==
  LET entry == [v |-> v, t |-> used.records + 1, run |-> run] IN
  [Migrated(s) EXCEPT !.rows = Best(Others(@, v, run) \cup {entry})]

(* The card shows the table and marks the row of this run, if it has one.  *)
Marked(s, run) == IF \E r \in s.rows : r.run = run THEN run ELSE NoRun

NewRun(best) == [run |-> used.runs + 1, score |-> 0, best |-> best, over |-> FALSE]

---------------------------------------------------------------------------
(* A window opens: the import comes before the first move.                 *)
OpenGame(w) ==
  /\ game[w] = NoRun /\ Use("runs", MaxRuns)
  /\ store' = Migrated(store)
  /\ game' = [game EXCEPT ![w] = NewRun(store.best)]
  /\ UNCHANGED <<marked, wiped>>

Shut(w) ==
  /\ game[w] # NoRun /\ game' = [game EXCEPT ![w] = NoRun]
  /\ marked' = [marked EXCEPT ![w] = NoRun]
  /\ UNCHANGED <<store, wiped, used>>

NewGame(w) ==
  /\ game[w] # NoRun /\ Use("runs", MaxRuns)
  /\ game' = [game EXCEPT ![w] = NewRun(game[w].best)]
  /\ marked' = [marked EXCEPT ![w] = NoRun]
  /\ UNCHANGED <<store, wiped>>

(* A move that passes this window's best rewrites the single best.         *)
Move(w) ==
  /\ game[w] # NoRun /\ ~game[w].over /\ Use("moves", MaxMoves)
  /\ \E over \in BOOLEAN :
       LET p == game[w]
           v == p.score + 1
       IN  /\ game' = [game EXCEPT ![w] = [p EXCEPT !.score = v, !.over = over,
                                             !.best = IF v > p.best THEN v ELSE p.best]]
           /\ store' = IF v > p.best THEN [store EXCEPT !.best = v] ELSE store
  /\ UNCHANGED <<marked, wiped>>

Undo(w) ==
  /\ game[w] # NoRun /\ game[w].score > 0
  /\ game' = [game EXCEPT ![w] = [game[w] EXCEPT !.score = game[w].score - 1, !.over = FALSE]]
  /\ marked' = [marked EXCEPT ![w] = NoRun]
  /\ UNCHANGED <<store, wiped, used>>

(* The card, at the 2048 tile and when no move is left: the run is         *)
(* recorded and the table shown.                                           *)
ShowScores(w) ==
  /\ game[w] # NoRun /\ game[w].score > 0 /\ Use("records", MaxRecords)
  /\ store' = Recorded(store, game[w].score, game[w].run)
  /\ marked' = [marked EXCEPT ![w] = Marked(store', game[w].run)]
  /\ UNCHANGED <<game, wiped>>

(* The leaderboard reads the table, which may import; a reset forgets the  *)
(* rows, the marker and the single best, and reads the table again.        *)
Emptied == [rows |-> {}, seeded |-> FALSE, best |-> 0]

Look(w) ==
  /\ game[w] # NoRun /\ store' = Migrated(store)
  /\ UNCHANGED <<game, marked, wiped, used>>

Reset(w) ==
  /\ game[w] # NoRun /\ Use("resets", MaxResets)
  /\ store' = Migrated(Emptied) /\ wiped' = TRUE
  /\ UNCHANGED <<game, marked>>

ScoreNext == \E w \in Windows :
  OpenGame(w) \/ Shut(w) \/ NewGame(w) \/ Move(w) \/ Undo(w) \/ ShowScores(w) \/ Look(w) \/ Reset(w)

ScoreSpec == ScoreInit /\ [][ScoreNext]_scoreVars

---------------------------------------------------------------------------
(* No achievement is listed twice: a run has one row, whichever cards,     *)
(* windows and undone moves recorded it, and the row without a date is     *)
(* the score from before the table, never one that was played since, and   *)
(* never one the user erased (gamescore.js:85-92).                         *)
RowsAreRuns ==
  /\ \A r, q \in store.rows : r.run = q.run => r = q
  /\ \A r \in store.rows : r.run = NoRun => ~wiped /\ r.v = Legacy
=============================================================================
