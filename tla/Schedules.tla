------------------------------ MODULE Schedules ------------------------------
(***************************************************************************)
(* Scheduled terminal messages (server/terminal-manager.py).               *)
(*                                                                         *)
(* One JSON file holds every entry.  A pass (_run_due_schedules) snapshots *)
(* the due entries under _schedules_lock, types them into the terminals    *)
(* with the lock RELEASED, and records the outcomes under the lock again.  *)
(* Passes are run by the sweeper thread and by every "send now" request,   *)
(* so several may be in flight; cancels and creates land in between.       *)
(*                                                                         *)
(* A step under the lock is one action.  Times are in ticks of the model   *)
(* clock; 0 stands for Python's None/unset, as in `e.get("fired") or at`.  *)
(***************************************************************************)
EXTENDS Naturals, Sequences, FiniteSets

CONSTANTS
  Users,          \* Linux users
  Terms,          \* terminal numbers
  Ids,            \* entry ids (token_urlsafe: never reused)
  Handlers,       \* request threads that may post a schedule
  Sweeper,        \* the _schedule_loop thread
  MaxPerUser,     \* SCHED_MAX_PER_USER
  Horizon,        \* SCHED_MAX_HORIZON
  PastTolerance,  \* SCHED_PAST_TOLERANCE
  LateGrace,      \* SCHED_LATE_GRACE
  KeepDone,       \* SCHED_KEEP_DONE
  MaxRuns,        \* SCHED_MAX_RUNS
  Attempts,       \* attempts of _sendkeys_retry
  Everys,         \* repeat intervals a form may ask for (all >= SCHED_MIN_INTERVAL)
  Offsets, Shift, \* a form asks for at = now + offset - Shift
  MaxTime,        \* bound: the model clock stops here
  MaxFaults,      \* bound: failed reads, writes of the file and socket errors
  MaxDrops,       \* bound: entries a send of which vanishes without an error
  MaxCrashes,     \* bound: manager restarts
  MaxStops        \* bound: terminals stopped

ASSUME SchedulesAssumption ==
  /\ Sweeper \notin Handlers
  /\ MaxPerUser \in Nat \ {0} /\ Attempts \in Nat \ {0}
  /\ \A n \in {Horizon, PastTolerance, LateGrace, KeepDone, MaxRuns, Shift,
               MaxTime, MaxFaults, MaxDrops, MaxCrashes, MaxStops} : n \in Nat
  /\ Everys \subseteq Nat \ {0} /\ Offsets \subseteq Nat

VARIABLES
  clock,        \* time.time()
  schedules,    \* the file: id -> entry, or Absent
  pc,           \* where each thread is in _run_due_schedules ("idle": outside)
  passNow,      \* the pass's `now`, read once at its start
  due,          \* the pass's snapshot entries not handled yet: id -> entry or Absent
  cur,          \* the id being typed
  tries,        \* failed attempts of the current _sendkeys_retry
  results,      \* the pass's `results`: id -> update or NoUpdate
  running,      \* terminals whose session daemon is up
  line,         \* what each terminal's foreground app has in its input line
  stops, faults, crashes, used,
  fires,        \* history: the slots each entry was attempted at, in order
  cancelledAt,  \* history: when the user cancelled the pending entry (0: never)
  submitted,    \* history: the ids whose text was in a line an Enter submitted
  glued,        \* history: an Enter submitted the texts of more than one entry
  dropped       \* history: the ids a send of which vanished without an error

passVars == <<pc, passNow, due, cur, tries, results>>
termVars == <<running, line, submitted, glued, dropped>>
vars == <<clock, schedules, passVars, termVars, stops, faults, crashes, used,
          fires, cancelledAt>>

Threads   == Handlers \cup {Sweeper}
Terminals == Users \X Terms
Finished  == {"sent", "failed", "missed", "stopped"}

\* every = 0 is a one-shot (`every` None); until is then unused.
Entry == [term : Terminals, at : Nat, every : Nat, until : Nat,
          status : Finished \cup {"pending"}, fired : Nat, runs : Nat]
Absent == [status |-> "absent"]

\* The fields a pass writes back: ran is the `runs` delta, fired = 0 leaves it.
Update == [status : Finished \cup {"pending"}, at : Nat, fired : Nat, ran : BOOLEAN]
NoUpdate == [status |-> "none"]

Pending(e) == e.status = "pending"
NoEntries  == [i \in Ids |-> Absent]
NoResults  == [i \in Ids |-> NoUpdate]

----------------------------------------------------------------------------
(* Pure helpers of the code. *)

\* (mutant: the slot containing `now`, not the first one after it)
NextSlotNotAfter(at, every, now) ==
  IF at > now THEN at ELSE at + ((now - at) \div every) * every

\* _sched_next_slot
NextSlot(at, every, now) ==
  IF at > now THEN at ELSE at + ((now - at) \div every + 1) * every

\* (mutant: only an entry whose very second the sweeper meets)
DueExactly(reg, now) == {i \in Ids : Pending(reg[i]) /\ reg[i].at = now}

\* _due_schedules
DueIn(reg, now) == {i \in Ids : Pending(reg[i]) /\ reg[i].at <= now}

\* The status of an entry whose last slot is behind it.
FinalStatus(e, late, ok) ==
  IF e.runs = 0 /\ late THEN "missed" ELSE IF ok THEN "sent" ELSE "failed"

\* (mutant: the end of the window is not looked at)
ArmsAgainForever(e, now) == e.every # 0

\* A loop whose next slot is still inside its window is re-armed.
ArmsAgain(e, now) == e.every # 0 /\ NextSlot(e.at, e.every, now) <= e.until

\* (mutant: a skipped slot counts as a run)
UpdateForCountingSkips(e, now, late, ok) ==
  LET again == ArmsAgain(e, now)
  IN  [status |-> IF again THEN "pending" ELSE FinalStatus(e, late, ok),
       at     |-> IF again THEN NextSlot(e.at, e.every, now) ELSE e.at,
       fired  |-> IF late /\ again THEN 0 ELSE now,
       ran    |-> e.every # 0]

\* What a pass records of a snapshot entry it skipped as late, or attempted.
UpdateFor(e, now, late, ok) ==
  LET again == ArmsAgain(e, now)
  IN  [status |-> IF again THEN "pending" ELSE FinalStatus(e, late, ok),
       at     |-> IF again THEN NextSlot(e.at, e.every, now) ELSE e.at,
       fired  |-> IF late /\ again THEN 0 ELSE now,
       ran    |-> e.every # 0 /\ ~late]

\* (mutant: an entry that is no longer pending is written over)
AppliedToAny(e, upd) ==
  IF upd = NoUpdate \/ e = Absent THEN e
  ELSE [e EXCEPT !.status = upd.status,
                 !.at     = IF upd.status = "pending" THEN upd.at ELSE @,
                 !.fired  = IF upd.fired = 0 THEN @ ELSE upd.fired,
                 !.runs   = IF upd.ran THEN @ + 1 ELSE @]

\* One entry of the locked read-modify-write that ends a pass.
Applied(e, upd) ==
  IF upd = NoUpdate \/ ~Pending(e) THEN e
  ELSE [e EXCEPT !.status = upd.status,
                 !.at     = IF upd.status = "pending" THEN upd.at ELSE @,
                 !.fired  = IF upd.fired = 0 THEN @ ELSE upd.fired,
                 !.runs   = IF upd.ran THEN @ + 1 ELSE @]

PendingOf(reg, u) == {i \in Ids : Pending(reg[i]) /\ reg[i].term[1] = u}

HasRoom(reg, u) == Cardinality(PendingOf(reg, u)) < MaxPerUser

\* What history is aged from: `e.get("fired") or e.get("at")`.
HistoryTime(e) == IF e.fired = 0 THEN e.at ELSE e.fired

\* K is what _prune_schedules leaves of reg: history younger than KeepDone, and
\* of a list longer than twice the cap only the newest MaxPerUser finished ones
\* (newest by `at`; which of two equal ones goes depends on the list's order).
Prunes(reg, now, K) ==
  \A u \in Users :
    LET own  == {i \in Ids : reg[i] # Absent /\ reg[i].term[1] = u}
        kept == {i \in own : Pending(reg[i]) \/ now < HistoryTime(reg[i]) + KeepDone}
        done == {i \in kept : ~Pending(reg[i])}
    IN  IF Cardinality(kept) <= 2 * MaxPerUser
        THEN K \cap own = kept
        ELSE /\ K \cap own \subseteq kept
             /\ kept \ done \subseteq K
             /\ Cardinality(K \cap done) = MaxPerUser
             /\ \A i \in K \cap done, j \in done \ K : reg[i].at >= reg[j].at

Restricted(reg, K) == [i \in Ids |-> IF i \in K THEN reg[i] ELSE Absent]

----------------------------------------------------------------------------
(* The file.  An unreadable or corrupt one reads as no entries at all; a     *)
(* failed write leaves the old content (_atomic_write renames).              *)

ReadAs(ok) == IF ok THEN schedules ELSE NoEntries

\* A locked section that read and wrote the file, each well or not.
FileFaults(readOk, writeOk) ==
  /\ faults' = faults + (IF readOk THEN 0 ELSE 1) + (IF writeOk THEN 0 ELSE 1)
  /\ faults' <= MaxFaults

\* Prune and write reg, as create and the end of a pass do.
SavePruned(reg, now, writeOk) ==
  \E K \in SUBSET Ids :
    /\ Prunes(reg, now, K)
    /\ schedules' = IF writeOk THEN Restricted(reg, K) ELSE schedules

----------------------------------------------------------------------------
Init ==
  /\ clock = 1
  /\ schedules = NoEntries
  /\ pc = [p \in Threads |-> "idle"]
  /\ passNow = [p \in Threads |-> 0]
  /\ due = [p \in Threads |-> NoEntries]
  /\ cur = [p \in Threads |-> {}]
  /\ tries = [p \in Threads |-> 0]
  /\ results = [p \in Threads |-> NoResults]
  /\ running = Terminals
  /\ line = [t \in Terminals |-> <<>>]
  /\ stops = 0 /\ faults = 0 /\ crashes = 0
  /\ used = {}
  /\ fires = [i \in Ids |-> <<>>]
  /\ cancelledAt = [i \in Ids |-> 0]
  /\ submitted = {} /\ glued = FALSE /\ dropped = {}

\* _handle_schedule_create up to the write.  A request that asks for a past
\* one-shot, or a window with too many or no runs, changes nothing and is left
\* out.  An entry that is due at once starts a pass in the same thread.
Create(h, i, t, offset, every, until) ==
  LET asked == clock + offset - Shift
      at == IF asked + PastTolerance < clock
            THEN NextSlot(asked, every, clock) ELSE asked
      entry == [term |-> t, at |-> at, every |-> every, until |-> until,
                status |-> "pending", fired |-> 0, runs |-> 0]
  IN
  /\ pc[h] = "idle"
  /\ i \notin used
  /\ clock + offset > Shift /\ asked <= clock + Horizon
  /\ IF every = 0
     THEN asked + PastTolerance >= clock /\ until = 0
     ELSE /\ asked <= until /\ at <= until /\ until <= clock + Horizon
          /\ (until - at) \div every + 1 <= MaxRuns
  /\ \E readOk, writeOk \in BOOLEAN :
       LET reg == ReadAs(readOk) IN
       /\ HasRoom(reg, t[1])
       /\ FileFaults(readOk, writeOk)
       /\ SavePruned([reg EXCEPT ![i] = entry], clock, writeOk)
       /\ used' = IF writeOk THEN used \cup {i} ELSE used
       /\ pc' = IF writeOk /\ at <= clock THEN [pc EXCEPT ![h] = "scan"] ELSE pc
  /\ UNCHANGED <<clock, passNow, due, cur, tries, results, termVars, stops,
                 crashes, fires, cancelledAt>>

\* `fired` is what the history is aged from: the loop's last run, if it has one.
Stopped(e, now) ==
  [e EXCEPT !.status = "stopped", !.fired = IF e.fired = 0 THEN now ELSE e.fired]

\* _handle_schedule_cancel: a pending loop that has run is kept as `stopped`,
\* anything else is deleted.
Cancel(i) ==
  /\ schedules[i] # Absent
  /\ \E writeOk \in BOOLEAN :
       /\ FileFaults(TRUE, writeOk)
       /\ IF ~writeOk THEN UNCHANGED <<schedules, cancelledAt>>
          ELSE /\ schedules' = [schedules EXCEPT ![i] =
                    IF Pending(@) /\ @.runs > 0 THEN Stopped(@, clock) ELSE Absent]
               /\ cancelledAt' = IF Pending(schedules[i])
                                 THEN [cancelledAt EXCEPT ![i] = clock]
                                 ELSE cancelledAt
  /\ UNCHANGED <<clock, passVars, termVars, stops, crashes, used, fires>>

----------------------------------------------------------------------------
(* One pass of thread p: _run_due_schedules. *)

\* The first locked read.  The sweeper gets here after each SCHED_TICK sleep.
Scan(p) ==
  /\ pc[p] = "scan" \/ (p = Sweeper /\ pc[p] = "idle")
  /\ \E readOk \in BOOLEAN :
       LET reg == ReadAs(readOk)
           D   == DueIn(reg, clock)
       IN  /\ FileFaults(readOk, TRUE)
           /\ due' = [due EXCEPT ![p] = Restricted(reg, D)]
           /\ pc' = [pc EXCEPT ![p] = IF D = {} THEN "age" ELSE "fire"]
  /\ passNow' = [passNow EXCEPT ![p] = clock]
  /\ UNCHANGED <<clock, schedules, cur, tries, results, termVars, stops,
                 crashes, used, fires, cancelledAt>>

\* What a thread keeps of its pass once it has returned: nothing.
EndPass(p) ==
  /\ pc' = [pc EXCEPT ![p] = "idle"]
  /\ passNow' = [passNow EXCEPT ![p] = 0]
  /\ due' = [due EXCEPT ![p] = NoEntries]
  /\ cur' = [cur EXCEPT ![p] = {}]
  /\ tries' = [tries EXCEPT ![p] = 0]
  /\ results' = [results EXCEPT ![p] = NoResults]

\* Nothing was due: _prune_expired_schedules, which writes only a real change.
Age(p) ==
  /\ pc[p] = "age"
  /\ \E readOk, writeOk \in BOOLEAN :
       LET reg == ReadAs(readOk) IN
       \E K \in SUBSET Ids :
         /\ Prunes(reg, passNow[p], K)
         /\ FileFaults(readOk, writeOk)
         /\ schedules' = IF writeOk /\ Restricted(reg, K) # reg
                         THEN Restricted(reg, K) ELSE schedules
  /\ EndPass(p)
  /\ UNCHANGED <<clock, termVars, stops, crashes, used, fires, cancelledAt>>

Late(p, i) == passNow[p] > due[p][i].at + LateGrace

\* (mutant: the finished entry stays current)
SettleKeepingCur(p, i, late, ok) ==
  /\ results' = [results EXCEPT ![p][i] = UpdateFor(due[p][i], passNow[p], late, ok)]
  /\ due' = [due EXCEPT ![p][i] = Absent]
  /\ tries' = [tries EXCEPT ![p] = 0]
  /\ pc' = [pc EXCEPT ![p] = "fire"]
  /\ UNCHANGED cur

\* Entry i of the pass is dealt with: remember its update for the end.
Settle(p, i, late, ok) ==
  /\ results' = [results EXCEPT ![p][i] = UpdateFor(due[p][i], passNow[p], late, ok)]
  /\ due' = [due EXCEPT ![p][i] = Absent]
  /\ cur' = [cur EXCEPT ![p] = {}]
  /\ tries' = [tries EXCEPT ![p] = 0]
  /\ pc' = [pc EXCEPT ![p] = "fire"]

SkipLate(p, i) ==
  /\ pc[p] = "fire" /\ due[p][i] # Absent
  /\ Late(p, i)
  /\ Settle(p, i, TRUE, FALSE)
  /\ UNCHANGED <<clock, schedules, passNow, termVars, stops, faults, crashes,
                 used, fires, cancelledAt>>

Attempted(p, i) == fires' = [fires EXCEPT ![i] = Append(@, due[p][i].at)]

\* _inject_terminal never cold-starts a stopped terminal.
FailStopped(p, i) ==
  /\ pc[p] = "fire" /\ due[p][i] # Absent
  /\ ~Late(p, i)
  /\ due[p][i].term \notin running
  /\ Settle(p, i, FALSE, FALSE)
  /\ Attempted(p, i)
  /\ UNCHANGED <<clock, schedules, passNow, termVars, stops, faults, crashes,
                 used, cancelledAt>>

BeginTyping(p, i) ==
  /\ pc[p] = "fire" /\ due[p][i] # Absent
  /\ ~Late(p, i)
  /\ due[p][i].term \in running
  /\ pc' = [pc EXCEPT ![p] = "text"]
  /\ cur' = [cur EXCEPT ![p] = {i}]
  /\ Attempted(p, i)
  /\ UNCHANGED <<clock, schedules, passNow, due, tries, results, termVars,
                 stops, faults, crashes, used, cancelledAt>>

\* The bytes of one _sendkeys reach the terminal's foreground app.
Receive(p, i, t) ==
  IF pc[p] = "text"
  THEN line' = [line EXCEPT ![t] = Append(@, i)] /\ UNCHANGED <<submitted, glued>>
  ELSE /\ submitted' = submitted \cup {line[t][n] : n \in 1 .. Len(line[t])}
       /\ glued' = (glued \/ \E m, n \in 1 .. Len(line[t]) : line[t][m] # line[t][n])
       /\ line' = [line EXCEPT ![t] = <<>>]

\* A send that raised nothing and was not delivered, or only a part of a text
\* was: the daemon dropped the client before it read the bytes (the sender sees
\* an end of file either way), or gave up on a PTY that took none for a second.
Vanishes(p, i, t) ==
  /\ dropped' = dropped \cup {i}
  /\ Cardinality(dropped') <= MaxDrops
  /\ \/ pc[p] = "text" /\ Receive(p, i, t)
     \/ UNCHANGED <<line, submitted, glued>>

\* The write raised nothing, delivered or not: on to the Enter, or the entry is
\* sent.
SendOk(p, i) ==
  /\ pc[p] \in {"text", "enter"} /\ i \in cur[p]
  /\ due[p][i].term \in running
  /\ \/ Receive(p, i, due[p][i].term) /\ UNCHANGED dropped
     \/ Vanishes(p, i, due[p][i].term)
  /\ IF pc[p] = "text"
     THEN /\ pc' = [pc EXCEPT ![p] = "enter"]
          /\ tries' = [tries EXCEPT ![p] = 0]
          /\ UNCHANGED <<due, cur, results>>
     ELSE Settle(p, i, FALSE, TRUE)
  /\ UNCHANGED <<clock, schedules, passNow, running, stops, faults, crashes,
                 used, fires, cancelledAt>>

\* (mutant: the last error is swallowed)
GiveUpSilently(p, i) == Settle(p, i, FALSE, TRUE)

\* _sendkeys_retry re-raises its last error: "could not reach terminal".
GiveUp(p, i) == Settle(p, i, FALSE, FALSE)

\* The write raised, before or (the ambiguous case) after the bytes were read.
\* A stopped terminal refuses every connection.
SendError(p, i) ==
  /\ pc[p] \in {"text", "enter"} /\ i \in cur[p]
  /\ IF due[p][i].term \in running
     THEN /\ faults < MaxFaults /\ faults' = faults + 1
          /\ Receive(p, i, due[p][i].term) \/ UNCHANGED <<line, submitted, glued>>
     ELSE UNCHANGED <<line, submitted, glued, faults>>
  /\ IF tries[p] + 1 < Attempts
     THEN /\ tries' = [tries EXCEPT ![p] = @ + 1]
          /\ UNCHANGED <<pc, due, cur, results>>
     ELSE GiveUp(p, i)
  /\ UNCHANGED <<clock, schedules, passNow, running, dropped, stops, crashes, used,
                 fires, cancelledAt>>

\* The last locked section: the updates onto a FRESH read, prune, write.
Apply(p) ==
  /\ pc[p] = "fire" /\ due[p] = NoEntries
  /\ \E readOk, writeOk \in BOOLEAN :
       LET reg == ReadAs(readOk) IN
       /\ FileFaults(readOk, writeOk)
       /\ SavePruned([i \in Ids |-> Applied(reg[i], results[p][i])],
                     passNow[p], writeOk)
  /\ EndPass(p)
  /\ UNCHANGED <<clock, termVars, stops, crashes, used, fires, cancelledAt>>

----------------------------------------------------------------------------
(* The environment. *)

Tick ==
  /\ clock < MaxTime
  /\ clock' = clock + 1
  /\ UNCHANGED <<schedules, passVars, termVars, stops, faults, crashes, used,
                 fires, cancelledAt>>

\* A terminal is closed, reaped or killed; a later start is a fresh shell.
StopTerminal(t) ==
  /\ t \in running /\ stops < MaxStops
  /\ stops' = stops + 1
  /\ running' = running \ {t}
  /\ line' = [line EXCEPT ![t] = <<>>]
  /\ UNCHANGED <<clock, schedules, passVars, submitted, glued, dropped, faults, crashes, used,
                 fires, cancelledAt>>

StartTerminal(t) ==
  /\ t \notin running
  /\ running' = running \cup {t}
  /\ UNCHANGED <<clock, schedules, passVars, line, submitted, glued, dropped, stops,
                 faults, crashes, used, fires, cancelledAt>>

\* The manager dies and is restarted: the passes are gone, the file is not.
Crash ==
  /\ crashes < MaxCrashes
  /\ crashes' = crashes + 1
  /\ pc' = [p \in Threads |-> "idle"]
  /\ passNow' = [p \in Threads |-> 0]
  /\ due' = [p \in Threads |-> NoEntries]
  /\ cur' = [p \in Threads |-> {}]
  /\ tries' = [p \in Threads |-> 0]
  /\ results' = [p \in Threads |-> NoResults]
  /\ UNCHANGED <<clock, schedules, termVars, stops, faults, used, fires,
                 cancelledAt>>

FireEntry(p, i) ==
  SkipLate(p, i) \/ FailStopped(p, i) \/ BeginTyping(p, i)
    \/ SendOk(p, i) \/ SendError(p, i)

PassStep(p) == Scan(p) \/ Age(p) \/ Apply(p) \/ \E i \in Ids : FireEntry(p, i)

Next ==
  \/ \E h \in Handlers, i \in Ids, t \in Terminals, o \in Offsets,
        e \in Everys \cup {0}, u \in 0 .. MaxTime + Horizon :
       Create(h, i, t, o, e, u)
  \/ \E i \in Ids : Cancel(i)
  \/ \E p \in Threads : PassStep(p)
  \/ \E t \in Terminals : StopTerminal(t) \/ StartTerminal(t)
  \/ Tick \/ Crash

Spec == Init /\ [][Next]_vars

\* _schedule_loop never returns: the sweeper keeps running its passes.
FairSpec == Spec /\ WF_vars(PassStep(Sweeper))

----------------------------------------------------------------------------
(* Properties. *)

\* The type invariant: an id is being typed exactly while its thread is inside
\* _inject_terminal, and a thread outside a pass holds nothing of one.
TypeOK ==
  /\ clock \in Nat /\ stops \in Nat /\ faults \in Nat /\ crashes \in Nat
  /\ schedules \in [Ids -> Entry \cup {Absent}]
  /\ pc \in [Threads -> {"idle", "scan", "age", "fire", "text", "enter"}]
  /\ passNow \in [Threads -> Nat]
  /\ due \in [Threads -> [Ids -> Entry \cup {Absent}]]
  /\ tries \in [Threads -> Nat]
  /\ results \in [Threads -> [Ids -> Update \cup {NoUpdate}]]
  /\ running \subseteq Terminals
  /\ line \in [Terminals -> Seq(Ids)]
  /\ submitted \subseteq Ids /\ glued \in BOOLEAN /\ dropped \subseteq Ids
  /\ used \subseteq Ids
  /\ fires \in [Ids -> Seq(Nat)]
  /\ cancelledAt \in [Ids -> Nat]
  /\ cur \in [Threads -> SUBSET Ids]
  /\ \A p \in Threads :
       IF pc[p] \in {"text", "enter"}
       THEN \E i \in Ids : cur[p] = {i} /\ due[p][i] # Absent
       ELSE cur[p] = {}

\* However creates, passes and re-arms interleave, a user never holds more
\* pending entries than SCHED_MAX_PER_USER (a re-armed loop counts once).
PendingCap == \A u \in Users : Cardinality(PendingOf(schedules, u)) <= MaxPerUser

\* Once a cancel of a pending entry succeeded the entry is never pending again:
\* a pass that snapshotted it before the cancel does not write it back.
CancelIsFinal == \A i \in Ids : cancelledAt[i] # 0 => ~Pending(schedules[i])

\* A recorded outcome is final.  Two passes may have typed the same entry; the
\* slower one's outcome neither replaces the first one's nor re-arms the entry.
FinishedForGood ==
  [][\A i \in Ids :
       schedules[i].status \in Finished /\ schedules'[i] # Absent
         => schedules'[i].status = schedules[i].status]_vars

\* A pending entry leaves the file only by its user's cancel (or with a file
\* that could not be read): no pass, prune or restart drops it, and a pass that
\* finishes it leaves it listed with its outcome, as long as the user's list is
\* not longer than twice the cap (beyond it the oldest outcomes are trimmed).
PendingSurvives ==
  [][\A i \in Ids :
       Pending(schedules[i]) /\ schedules'[i] = Absent
         => cancelledAt'[i] # 0 \/ faults' > faults]_vars

\* A pending loop is armed for a slot inside the window the user reviewed,
\* also when the outcome of a slow, older pass is applied to it.
LoopInWindow ==
  \A i \in Ids : Pending(schedules[i]) /\ schedules[i].every # 0
                   => schedules[i].at <= schedules[i].until

\* Re-arming keeps a loop on the grid of the minute it was scheduled for,
\* however late the passes run and whichever of them records last.
LoopKeepsItsMinute ==
  [][\A i \in Ids :
       Pending(schedules[i]) /\ Pending(schedules'[i]) /\ schedules[i].every # 0
         => LET a == schedules[i].at
                b == schedules'[i].at
            IN  (IF a > b THEN a - b ELSE b - a) % schedules[i].every = 0]_vars

\* Passes of thread p whose attempt at i is made or under way but not recorded.
Unrecorded(i) ==
  {p \in Threads : i \in cur[p] \/ (results[p][i] # NoUpdate /\ results[p][i].ran)}

\* `runs` of a loop counts every attempt once even when passes overlap (it is
\* a delta applied under the lock): attempts = recorded runs + those in flight.
RunsAccount ==
  faults = 0 /\ crashes = 0 =>
    \A i \in Ids : Pending(schedules[i]) /\ schedules[i].every # 0
      => Len(fires[i]) = schedules[i].runs + Cardinality(Unrecorded(i))

\* However passes, creates and cancels overlap, the books balance: the cap, the
\* number of runs of each loop, and the grid its slots are on.
LoopsKeepCount == [](PendingCap /\ RunsAccount) /\ LoopKeepsItsMinute

\* An entry reported as `sent` was part of a line its terminal was given Enter
\* for (while no terminal is restarted between the text and the Enter), or one of
\* its own sends vanished without an error, which the code cannot tell from
\* success: a write that raised, an attempt given up, a lost send of another
\* entry or an overlapping pass is never taken for a delivery.
SentMeansSubmitted ==
  stops = 0 =>
    \A i \in Ids : schedules[i].status = "sent" => i \in submitted \cup dropped

\* A slot is attempted at most once, and never after a later one.
SlotsOnce ==
  \A i \in Ids : \A n \in 2 .. Len(fires[i]) : fires[i][n - 1] < fires[i][n]

\* A due entry does not stay due: the sweeper settles or re-arms it.
DueGetsSettled ==
  \A i \in Ids : (Pending(schedules[i]) /\ schedules[i].at <= clock)
                 ~> ~(Pending(schedules[i]) /\ schedules[i].at <= clock)

\* Every entry is accounted for: it comes due and is settled, and until then
\* it stays in the file, whatever fails.
EntriesAccountedFor == PendingSurvives /\ DueGetsSettled

\* "cancel prevents delivery": nothing of a cancelled entry is typed any more.
\* It does not hold: a pass types from a snapshot it took before the cancel.
CancelPreventsDelivery ==
  [][\A i \in Ids, t \in Terminals :
       cancelledAt[i] # 0 /\ Len(line'[t]) > Len(line[t])
         => line'[t][Len(line'[t])] # i]_vars

\* Without socket errors and lost sends, what an Enter submits is the text of one
\* entry, as the user reviewed it in the form (or a line another client already
\* typed).  It does not hold: two passes that type into one terminal share a line.
SubmittedAsReviewed == faults = 0 /\ dropped = {} => ~glued
==============================================================================
