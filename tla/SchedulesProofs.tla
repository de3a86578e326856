--------------------------- MODULE SchedulesProofs ---------------------------
(* Theorems about Schedules, for every value of its constants. *)
EXTENDS Schedules, FiniteSetTheorems, SequenceTheorems, TLAPS

LEMMA DivNat ==
  ASSUME NEW n \in Nat, NEW d \in Nat \ {0}
  PROVE  n \div d \in Nat
  BY SMT

LEMMA NextSlotNat ==
  ASSUME NEW at \in Nat, NEW every \in Nat \ {0}, NEW now \in Nat
  PROVE  NextSlot(at, every, now) \in Nat
<1>1. CASE at > now
  BY <1>1 DEF NextSlot
<1>2. CASE ~(at > now)
  <2>1. now - at \in Nat
    BY <1>2
  <2>2. (now - at) \div every \in Nat
    BY <2>1, DivNat
  <2>3. ((now - at) \div every + 1) * every \in Nat
    BY <2>2
  <2> QED BY <1>2, <2>3 DEF NextSlot
<1> QED BY <1>1, <1>2

\* What a pass records about an entry is an update.
LEMMA UpdateForType ==
  ASSUME NEW e \in Entry, NEW now \in Nat, NEW late \in BOOLEAN, NEW ok \in BOOLEAN
  PROVE  UpdateFor(e, now, late, ok) \in Update
<1>1. CASE ArmsAgain(e, now)
  <2>1. e.every \in Nat \ {0} /\ e.at \in Nat
    BY <1>1 DEF ArmsAgain, Entry
  <2>2. NextSlot(e.at, e.every, now) \in Nat
    BY <2>1, NextSlotNat
  <2> QED BY <1>1, <2>1, <2>2 DEF UpdateFor, Update
<1>2. CASE ~ArmsAgain(e, now)
  <2>1. e.at \in Nat
    BY DEF Entry
  <2>2. FinalStatus(e, late, ok) \in Finished
    BY DEF FinalStatus, Finished
  <2> QED BY <1>2, <2>1, <2>2 DEF UpdateFor, Update
<1> QED BY <1>1, <1>2

\* Applying an update to an entry gives an entry, and Absent stays Absent.
LEMMA AppliedType ==
  ASSUME NEW e \in Entry \cup {Absent}, NEW u \in Update \cup {NoUpdate}
  PROVE  /\ Applied(e, u) \in Entry \cup {Absent}
         /\ e = Absent => Applied(e, u) = Absent
         /\ ~Pending(e) => Applied(e, u) = e
<1>1. ~Pending(Absent)
  BY DEF Pending, Absent
<1>2. CASE u = NoUpdate \/ ~Pending(e)
  BY <1>1, <1>2 DEF Applied
<1>3. CASE u # NoUpdate /\ Pending(e)
  <2>1. e \in Entry /\ u \in Update
    BY <1>1, <1>3
  <2> DEFINE at    == IF u.status = "pending" THEN u.at ELSE e.at
             fired == IF u.fired = 0 THEN e.fired ELSE u.fired
             runs  == IF u.ran THEN e.runs + 1 ELSE e.runs
  <2>2. Applied(e, u) = [e EXCEPT !.status = u.status, !.at = at,
                                  !.fired = fired, !.runs = runs]
    BY <1>3 DEF Applied
  <2>3. u.status \in Finished \cup {"pending"} /\ at \in Nat /\ fired \in Nat
    BY <2>1 DEF Entry, Update
  <2>4. runs \in Nat
    <3>1. e.runs \in Nat
      BY <2>1 DEF Entry
    <3> QED BY <3>1
  <2> HIDE DEF at, fired, runs
  <2>5. Applied(e, u) \in Entry
    BY <2>1, <2>2, <2>3, <2>4 DEF Entry
  <2> QED BY <1>1, <1>3, <2>5
<1> QED BY <1>2, <1>3

LEMMA RestrictedType ==
  ASSUME NEW reg \in [Ids -> Entry \cup {Absent}], NEW K
  PROVE  Restricted(reg, K) \in [Ids -> Entry \cup {Absent}]
  BY DEF Restricted

LEMMA ReadAsType ==
  ASSUME TypeOK, NEW ok \in BOOLEAN
  PROVE  ReadAs(ok) \in [Ids -> Entry \cup {Absent}]
  BY DEF TypeOK, ReadAs, NoEntries

\* Pruning and writing a well-typed registry leaves a well-typed file.
LEMMA SavePrunedType ==
  ASSUME TypeOK, NEW reg \in [Ids -> Entry \cup {Absent}], NEW now, NEW ok \in BOOLEAN,
         SavePruned(reg, now, ok)
  PROVE  schedules' \in [Ids -> Entry \cup {Absent}]
<1>1. PICK K : schedules' = IF ok THEN Restricted(reg, K) ELSE schedules
  BY DEF SavePruned
<1>2. Restricted(reg, K) \in [Ids -> Entry \cup {Absent}]
  BY RestrictedType
<1> QED BY <1>1, <1>2 DEF TypeOK

LEMMA FileFaultsType ==
  ASSUME TypeOK, NEW r \in BOOLEAN, NEW w \in BOOLEAN, FileFaults(r, w)
  PROVE  faults' \in Nat
  BY DEF TypeOK, FileFaults

\* The conjuncts of TypeOK about the passes.
PassesOK ==
  /\ pc \in [Threads -> {"idle", "scan", "age", "fire", "text", "enter"}]
  /\ passNow \in [Threads -> Nat]
  /\ due \in [Threads -> [Ids -> Entry \cup {Absent}]]
  /\ tries \in [Threads -> Nat]
  /\ results \in [Threads -> [Ids -> Update \cup {NoUpdate}]]
  /\ cur \in [Threads -> SUBSET Ids]
  /\ \A p \in Threads :
       IF pc[p] \in {"text", "enter"}
       THEN \E i \in Ids : cur[p] = {i} /\ due[p][i] # Absent
       ELSE cur[p] = {}

LEMMA EndPassType ==
  ASSUME TypeOK, NEW p \in Threads, EndPass(p)
  PROVE  PassesOK'
  BY DEF TypeOK, PassesOK, EndPass, NoEntries, NoResults

LEMMA SettleType ==
  ASSUME TypeOK, NEW p \in Threads, NEW i \in Ids, NEW late \in BOOLEAN,
         NEW ok \in BOOLEAN, due[p][i] # Absent, Settle(p, i, late, ok),
         UNCHANGED passNow
  PROVE  PassesOK'
<1>1. due[p][i] \in Entry /\ passNow[p] \in Nat
  BY DEF TypeOK
<1>2. UpdateFor(due[p][i], passNow[p], late, ok) \in Update
  BY <1>1, UpdateForType
<1> QED BY <1>2 DEF TypeOK, PassesOK, Settle

LEMMA ReceiveType ==
  ASSUME TypeOK, NEW p \in Threads, NEW i \in Ids, NEW t \in Terminals,
         Receive(p, i, t)
  PROVE  line' \in [Terminals -> Seq(Ids)] /\ submitted' \subseteq Ids /\ glued' \in BOOLEAN
<1>1. line[t] \in Seq(Ids)
  BY DEF TypeOK
<1>2. Append(line[t], i) \in Seq(Ids) /\ \A n \in 1 .. Len(line[t]) : line[t][n] \in Ids
  BY <1>1
<1>3. CASE pc[p] = "text"
  <2>1. line' = [line EXCEPT ![t] = Append(line[t], i)] /\ UNCHANGED <<submitted, glued>>
    BY <1>3 DEF Receive
  <2> QED BY <1>2, <2>1 DEF TypeOK
<1>4. CASE pc[p] # "text"
  <2>1. /\ line' = [line EXCEPT ![t] = <<>>]
        /\ submitted' = submitted \cup {line[t][n] : n \in 1 .. Len(line[t])}
    BY <1>4 DEF Receive
  <2>2. glued' \in BOOLEAN
    BY <1>4, Zenon DEF Receive
  <2>3. line' \in [Terminals -> Seq(Ids)]
    BY <2>1 DEF TypeOK
  <2>4. submitted' \subseteq Ids
    BY <1>2, <2>1 DEF TypeOK
  <2> QED BY <2>2, <2>3, <2>4
<1> QED BY <1>3, <1>4

LEMMA AttemptedType ==
  ASSUME TypeOK, NEW p \in Threads, NEW i \in Ids, due[p][i] # Absent, Attempted(p, i)
  PROVE  fires' \in [Ids -> Seq(Nat)]
<1>1. due[p][i] \in Entry /\ fires[i] \in Seq(Nat)
  BY DEF TypeOK
<1>2. Append(fires[i], due[p][i].at) \in Seq(Nat)
  BY <1>1 DEF Entry
<1> QED BY <1>2 DEF TypeOK, Attempted

----------------------------------------------------------------------------
(* Type correctness, one lemma per action. *)

LEMMA InitType == Init => TypeOK
<1> SUFFICES ASSUME Init PROVE TypeOK
  OBVIOUS
<1>1. PassesOK
  BY DEF Init, PassesOK, NoEntries, NoResults
<1>2. /\ line \in [Terminals -> Seq(Ids)] /\ fires \in [Ids -> Seq(Nat)]
      /\ cancelledAt \in [Ids -> Nat]
      /\ schedules \in [Ids -> Entry \cup {Absent}]
  BY DEF Init, NoEntries
<1>3. glued \in BOOLEAN
  BY Zenon DEF Init
<1> QED BY <1>1, <1>2, <1>3 DEF Init, TypeOK, PassesOK

LEMMA CreateType ==
  ASSUME TypeOK, NEW h \in Handlers, NEW i \in Ids, NEW t \in Terminals,
         NEW o \in Offsets, NEW e \in Everys \cup {0}, NEW u \in Nat,
         Create(h, i, t, o, e, u)
  PROVE  TypeOK'
<1> DEFINE asked == clock + o - Shift
           at    == IF asked + PastTolerance < clock
                    THEN NextSlot(asked, e, clock) ELSE asked
           entry == [term |-> t, at |-> at, every |-> e, until |-> u,
                     status |-> "pending", fired |-> 0, runs |-> 0]
<1>1. /\ clock \in Nat /\ o \in Nat /\ Shift \in Nat /\ e \in Nat
      /\ PastTolerance \in Nat /\ (e # 0 => e \in Nat \ {0})
  BY SchedulesAssumption DEF TypeOK
<1>2. asked \in Nat /\ (e = 0 => ~(asked + PastTolerance < clock))
  <2>1. clock + o > Shift /\ (e = 0 => asked + PastTolerance >= clock)
    BY DEF Create
  <2>2. asked \in Nat
    BY <1>1, <2>1
  <2> HIDE DEF asked
  <2> QED BY <1>1, <2>1, <2>2
<1>3. at \in Nat
  <2>1. CASE asked + PastTolerance < clock
    BY <1>1, <1>2, <2>1, NextSlotNat
  <2>2. CASE ~(asked + PastTolerance < clock)
    BY <1>2, <2>2
  <2> QED BY <2>1, <2>2
<1>4. entry \in Entry
  BY <1>1, <1>3 DEF Entry
<1>5. PICK r \in BOOLEAN, w \in BOOLEAN :
        /\ FileFaults(r, w)
        /\ SavePruned([ReadAs(r) EXCEPT ![i] = entry], clock, w)
        /\ used' = IF w THEN used \cup {i} ELSE used
        /\ pc' = IF w /\ at <= clock THEN [pc EXCEPT ![h] = "scan"] ELSE pc
  BY DEF Create
<1> HIDE DEF asked, at, entry
<1>6. [ReadAs(r) EXCEPT ![i] = entry] \in [Ids -> Entry \cup {Absent}]
  BY <1>4, ReadAsType
<1>7. schedules' \in [Ids -> Entry \cup {Absent}] /\ faults' \in Nat
  BY <1>5, <1>6, SavePrunedType, FileFaultsType
<1>8. pc[h] = "idle" /\ h \in Threads
  BY DEF Create, Threads
<1>9. UNCHANGED <<clock, passNow, due, cur, tries, results, termVars, stops,
                  crashes, fires, cancelledAt>>
  BY DEF Create
<1> QED BY <1>5, <1>7, <1>8, <1>9 DEF TypeOK, termVars

LEMMA CancelType ==
  ASSUME TypeOK, NEW i \in Ids, Cancel(i)
  PROVE  TypeOK'
<1>1. PICK w \in BOOLEAN : FileFaults(TRUE, w)
  BY DEF Cancel
<1>2. schedules[i] \in Entry
  BY DEF Cancel, TypeOK
<1>3. Stopped(schedules[i], clock) \in Entry
  <2> DEFINE f == IF schedules[i].fired = 0 THEN clock ELSE schedules[i].fired
  <2>1. f \in Nat
    BY <1>2 DEF TypeOK, Entry
  <2>2. Stopped(schedules[i], clock) = [schedules[i] EXCEPT !.status = "stopped", !.fired = f]
    BY DEF Stopped
  <2> HIDE DEF f
  <2> QED BY <1>2, <2>1, <2>2 DEF Entry, Finished
<1>4. schedules' \in [Ids -> Entry \cup {Absent}]
  <2>1. \/ schedules' = schedules
        \/ schedules' = [schedules EXCEPT ![i] = Stopped(schedules[i], clock)]
        \/ schedules' = [schedules EXCEPT ![i] = Absent]
    BY DEF Cancel
  <2>2. schedules \in [Ids -> Entry \cup {Absent}]
    BY DEF TypeOK
  <2> QED BY <1>3, <2>1, <2>2
<1>5. cancelledAt' \in [Ids -> Nat]
  BY DEF Cancel, TypeOK
<1>6. faults' \in Nat
  BY <1>1, FileFaultsType
<1> QED BY <1>4, <1>5, <1>6 DEF Cancel, TypeOK, passVars, termVars

LEMMA ScanType ==
  ASSUME TypeOK, NEW p \in Threads, Scan(p)
  PROVE  TypeOK'
<1>1. PICK r \in BOOLEAN :
        /\ FileFaults(r, TRUE)
        /\ due' = [due EXCEPT ![p] = Restricted(ReadAs(r), DueIn(ReadAs(r), clock))]
        /\ pc' = [pc EXCEPT ![p] = IF DueIn(ReadAs(r), clock) = {} THEN "age" ELSE "fire"]
  BY DEF Scan
<1>2. Restricted(ReadAs(r), DueIn(ReadAs(r), clock)) \in [Ids -> Entry \cup {Absent}]
  BY ReadAsType, RestrictedType
<1>3. faults' \in Nat
  BY <1>1, FileFaultsType
<1>4. pc[p] \notin {"text", "enter"}
  BY DEF Scan
<1>5. cur[p] = {}
  BY <1>4 DEF TypeOK
<1>6. /\ passNow' = [passNow EXCEPT ![p] = clock]
      /\ UNCHANGED <<clock, schedules, cur, tries, results, termVars, stops,
                     crashes, used, fires, cancelledAt>>
  BY DEF Scan
<1> QED BY <1>1, <1>2, <1>3, <1>4, <1>5, <1>6 DEF TypeOK, termVars

LEMMA AgeType ==
  ASSUME TypeOK, NEW p \in Threads, Age(p)
  PROVE  TypeOK'
<1>1. PICK r \in BOOLEAN, w \in BOOLEAN, K \in SUBSET Ids :
        /\ FileFaults(r, w)
        /\ schedules' = IF w /\ Restricted(ReadAs(r), K) # ReadAs(r)
                        THEN Restricted(ReadAs(r), K) ELSE schedules
  BY DEF Age
<1>2. schedules' \in [Ids -> Entry \cup {Absent}]
  BY <1>1, ReadAsType, RestrictedType DEF TypeOK
<1>3. faults' \in Nat /\ PassesOK'
  BY <1>1, FileFaultsType, EndPassType DEF Age
<1>4. UNCHANGED <<clock, termVars, stops, crashes, used, fires, cancelledAt>>
  BY DEF Age
<1> QED BY <1>2, <1>3, <1>4 DEF TypeOK, PassesOK, termVars

LEMMA ApplyType ==
  ASSUME TypeOK, NEW p \in Threads, Apply(p)
  PROVE  TypeOK'
<1>1. PICK r \in BOOLEAN, w \in BOOLEAN :
        /\ FileFaults(r, w)
        /\ SavePruned([i \in Ids |-> Applied(ReadAs(r)[i], results[p][i])],
                      passNow[p], w)
  BY DEF Apply
<1>2. [i \in Ids |-> Applied(ReadAs(r)[i], results[p][i])]
        \in [Ids -> Entry \cup {Absent}]
  <2>1. \A i \in Ids : /\ ReadAs(r)[i] \in Entry \cup {Absent}
                       /\ results[p][i] \in Update \cup {NoUpdate}
    BY ReadAsType DEF TypeOK
  <2> QED BY <2>1, AppliedType
<1>3. schedules' \in [Ids -> Entry \cup {Absent}]
  BY <1>1, <1>2, SavePrunedType
<1>4. faults' \in Nat /\ PassesOK'
  BY <1>1, FileFaultsType, EndPassType DEF Apply
<1>5. UNCHANGED <<clock, termVars, stops, crashes, used, fires, cancelledAt>>
  BY DEF Apply
<1> QED BY <1>3, <1>4, <1>5 DEF TypeOK, PassesOK, termVars

LEMMA FireType ==
  ASSUME TypeOK, NEW p \in Threads, NEW i \in Ids, FireEntry(p, i)
  PROVE  TypeOK'
<1>1. CASE SkipLate(p, i)
  <2>1. PassesOK'
    BY <1>1, SettleType DEF SkipLate
  <2> QED BY <1>1, <2>1 DEF SkipLate, TypeOK, PassesOK, termVars
<1>2. CASE FailStopped(p, i)
  <2>1. PassesOK' /\ fires' \in [Ids -> Seq(Nat)]
    BY <1>2, SettleType, AttemptedType DEF FailStopped
  <2> QED BY <1>2, <2>1 DEF FailStopped, TypeOK, PassesOK, termVars
<1>3. CASE BeginTyping(p, i)
  <2>1. fires' \in [Ids -> Seq(Nat)]
    BY <1>3, AttemptedType DEF BeginTyping
  <2>2. PassesOK'
    BY <1>3 DEF BeginTyping, TypeOK, PassesOK
  <2> QED BY <1>3, <2>1, <2>2 DEF BeginTyping, TypeOK, PassesOK, termVars
<1>4. ASSUME i \in cur[p], pc[p] \in {"text", "enter"}
      PROVE  due[p][i] \in Entry /\ due[p][i] # Absent /\ due[p][i].term \in Terminals
  <2>1. due[p][i] # Absent
    BY <1>4 DEF TypeOK
  <2> QED BY <2>1 DEF TypeOK, Entry
<1>5. CASE SendOk(p, i)
  <2>1. /\ line' \in [Terminals -> Seq(Ids)] /\ submitted' \subseteq Ids
        /\ glued' \in BOOLEAN
    <3>1. CASE Receive(p, i, due[p][i].term)
      BY <1>4, <1>5, <3>1, ReceiveType DEF SendOk
    <3>2. CASE UNCHANGED <<line, submitted, glued>>
      BY <3>2 DEF TypeOK
    <3> QED BY <1>5, <3>1, <3>2 DEF SendOk, Vanishes
  <2>3. dropped' \subseteq Ids
    BY <1>5 DEF SendOk, Vanishes, TypeOK
  <2>2. PassesOK'
    <3>1. CASE pc[p] = "text"
      <4>1. /\ pc' = [pc EXCEPT ![p] = "enter"]
            /\ tries' = [tries EXCEPT ![p] = 0]
            /\ UNCHANGED <<due, cur, results, passNow>>
        BY <1>5, <3>1 DEF SendOk
      <4> QED BY <3>1, <4>1 DEF TypeOK, PassesOK
    <3>2. CASE pc[p] # "text"
      BY <1>4, <1>5, <3>2, SettleType DEF SendOk
    <3> QED BY <3>1, <3>2
  <2> QED BY <1>5, <2>1, <2>2, <2>3 DEF SendOk, TypeOK, PassesOK
<1>6. CASE SendError(p, i)
  <2>1. /\ line' \in [Terminals -> Seq(Ids)] /\ submitted' \subseteq Ids
        /\ glued' \in BOOLEAN
    <3>1. CASE Receive(p, i, due[p][i].term)
      BY <1>4, <1>6, <3>1, ReceiveType DEF SendError
    <3>2. CASE UNCHANGED <<line, submitted, glued>>
      BY <3>2 DEF TypeOK
    <3> QED BY <1>6, <3>1, <3>2 DEF SendError
  <2>2. PassesOK'
    <3>1. CASE tries[p] + 1 < Attempts
      <4>1. /\ tries' = [tries EXCEPT ![p] = tries[p] + 1]
            /\ UNCHANGED <<pc, due, cur, results, passNow>>
        BY <1>6, <3>1 DEF SendError
      <4> QED BY <4>1 DEF TypeOK, PassesOK
    <3>2. CASE ~(tries[p] + 1 < Attempts)
      BY <1>4, <1>6, <3>2, SettleType DEF SendError, GiveUp
    <3> QED BY <3>1, <3>2
  <2>3. faults' \in Nat
    BY <1>6 DEF SendError, TypeOK
  <2> QED BY <1>6, <2>1, <2>2, <2>3 DEF SendError, TypeOK, PassesOK
<1> QED BY <1>1, <1>2, <1>3, <1>5, <1>6 DEF FireEntry

LEMMA EnvironmentType ==
  ASSUME TypeOK,
         Tick \/ Crash \/ \E t \in Terminals : StopTerminal(t) \/ StartTerminal(t)
  PROVE  TypeOK'
<1>1. CASE Tick
  BY <1>1 DEF Tick, TypeOK, passVars, termVars
<1>2. CASE Crash
  BY <1>2 DEF Crash, TypeOK, termVars, NoEntries, NoResults
<1>3. ASSUME NEW t \in Terminals, StopTerminal(t)
      PROVE  TypeOK'
  BY <1>3 DEF StopTerminal, TypeOK, passVars
<1>4. ASSUME NEW t \in Terminals, StartTerminal(t)
      PROVE  TypeOK'
  BY <1>4 DEF StartTerminal, TypeOK, passVars
<1> QED BY <1>1, <1>2, <1>3, <1>4

LEMMA NextType == TypeOK /\ [Next]_vars => TypeOK'
<1> SUFFICES ASSUME TypeOK, [Next]_vars PROVE TypeOK'
  OBVIOUS
<1>1. CASE UNCHANGED vars
  BY <1>1 DEF vars, passVars, termVars, TypeOK
<1>2. CASE Next
  <2>1. 0 .. MaxTime + Horizon \subseteq Nat
    BY SchedulesAssumption
  <2> QED BY <1>2, <2>1, CreateType, CancelType, ScanType, AgeType, ApplyType,
             FireType, EnvironmentType DEF Next, PassStep
<1> QED BY <1>1, <1>2

\* Every reachable state is well typed: an id is being typed exactly while its
\* thread is inside _inject_terminal, with its snapshot entry still in hand.
THEOREM TypeCorrect == Spec => []TypeOK
  BY InitType, NextType, PTL DEF Spec

----------------------------------------------------------------------------
(* What a step does to one entry of the file.                                *)

\* A locked read-modify-write leaves entry i as the section made it, as it was
\* in the file (failed write), or drops it (pruned, or unread).
LEMMA SavePrunedEffect ==
  ASSUME NEW reg \in [Ids -> Entry \cup {Absent}], NEW now, NEW ok \in BOOLEAN,
         SavePruned(reg, now, ok), NEW i \in Ids
  PROVE  schedules'[i] \in {reg[i], schedules[i], Absent}
<1>1. PICK K : schedules' = IF ok THEN Restricted(reg, K) ELSE schedules
  BY DEF SavePruned
<1> QED BY <1>1 DEF Restricted

LEMMA ReadAsEffect ==
  ASSUME NEW ok \in BOOLEAN, NEW i \in Ids
  PROVE  ReadAs(ok)[i] \in {schedules[i], Absent}
  BY DEF ReadAs, NoEntries

LEMMA CreateEffect ==
  ASSUME TypeOK, NEW h \in Handlers, NEW j \in Ids, NEW t \in Terminals,
         NEW o \in Offsets, NEW e \in Everys \cup {0}, NEW u \in Nat,
         Create(h, j, t, o, e, u), NEW i \in Ids
  PROVE  \/ schedules'[i] \in {schedules[i], Absent}
         \/ /\ i = j /\ j \notin used /\ j \in used'
            /\ schedules'[i] \in Entry /\ Pending(schedules'[i])
            /\ schedules'[i].every # 0 => schedules'[i].at <= schedules'[i].until
<1> DEFINE asked == clock + o - Shift
           at    == IF asked + PastTolerance < clock
                    THEN NextSlot(asked, e, clock) ELSE asked
           entry == [term |-> t, at |-> at, every |-> e, until |-> u,
                     status |-> "pending", fired |-> 0, runs |-> 0]
<1>1. PICK r \in BOOLEAN, w \in BOOLEAN :
        /\ SavePruned([ReadAs(r) EXCEPT ![j] = entry], clock, w)
        /\ used' = IF w THEN used \cup {j} ELSE used
  BY DEF Create
<1>2. j \notin used /\ (e # 0 => at <= u)
  BY DEF Create
<1>3. PICK K : schedules' = IF w THEN Restricted([ReadAs(r) EXCEPT ![j] = entry], K)
                                 ELSE schedules
  BY <1>1 DEF SavePruned
<1>4. entry.every = e /\ entry.at = at /\ entry.until = u /\ Pending(entry)
  BY Zenon DEF Pending
<1>5. TypeOK'
  BY CreateType
<1> HIDE DEF asked, at, entry
<1>6. ReadAs(r) \in [Ids -> Entry \cup {Absent}]
  BY ReadAsType
<1>7. CASE w /\ i = j /\ i \in K
  <2>1. schedules'[i] = entry
    BY <1>3, <1>6, <1>7 DEF Restricted
  <2>2. schedules'[i] \in Entry \cup {Absent}
    BY <1>5 DEF TypeOK
  <2> QED BY <1>1, <1>2, <1>4, <1>7, <2>1, <2>2
<1>8. CASE ~(w /\ i = j /\ i \in K)
  <2>1. schedules'[i] \in {ReadAs(r)[i], schedules[i], Absent}
    BY <1>3, <1>6, <1>8 DEF Restricted
  <2> QED BY <2>1, ReadAsEffect
<1> QED BY <1>7, <1>8

LEMMA AgeEffect ==
  ASSUME TypeOK, NEW p \in Threads, Age(p), NEW i \in Ids
  PROVE  schedules'[i] \in {schedules[i], Absent}
<1>1. PICK r \in BOOLEAN, w \in BOOLEAN, K \in SUBSET Ids :
        schedules' = IF w /\ Restricted(ReadAs(r), K) # ReadAs(r)
                     THEN Restricted(ReadAs(r), K) ELSE schedules
  BY DEF Age
<1> QED BY <1>1, ReadAsEffect DEF Restricted

LEMMA ApplyEffect ==
  ASSUME TypeOK, NEW p \in Threads, Apply(p), NEW i \in Ids
  PROVE  schedules'[i] \in {schedules[i], Absent, Applied(schedules[i], results[p][i])}
<1>1. PICK r \in BOOLEAN, w \in BOOLEAN :
        SavePruned([k \in Ids |-> Applied(ReadAs(r)[k], results[p][k])], passNow[p], w)
  BY DEF Apply
<1>2. PICK K : schedules' =
        IF w THEN Restricted([k \in Ids |-> Applied(ReadAs(r)[k], results[p][k])], K)
             ELSE schedules
  BY <1>1 DEF SavePruned
<1>3. schedules'[i] \in {Applied(ReadAs(r)[i], results[p][i]), schedules[i], Absent}
  BY <1>2 DEF Restricted
<1>4. Applied(Absent, results[p][i]) = Absent
  <2>1. results[p][i] \in Update \cup {NoUpdate} /\ Absent \in Entry \cup {Absent}
    BY DEF TypeOK
  <2> QED BY <2>1, AppliedType
<1> QED BY <1>3, <1>4, ReadAsEffect

LEMMA CancelEffect ==
  ASSUME TypeOK, NEW j \in Ids, Cancel(j), NEW i \in Ids
  PROVE  \/ /\ schedules'[i] = schedules[i]
            /\ cancelledAt'[i] = cancelledAt[i]
         \/ schedules'[i] = Absent
         \/ /\ Pending(schedules[i])
            /\ schedules'[i] = Stopped(schedules[i], clock)
<1>1. PICK w \in BOOLEAN :
        IF ~w THEN UNCHANGED <<schedules, cancelledAt>>
        ELSE /\ schedules' = [schedules EXCEPT ![j] =
                  IF Pending(@) /\ @.runs > 0 THEN Stopped(@, clock) ELSE Absent]
             /\ cancelledAt' = IF Pending(schedules[j])
                               THEN [cancelledAt EXCEPT ![j] = clock] ELSE cancelledAt
  BY DEF Cancel
<1>2. /\ schedules = [k \in Ids |-> schedules[k]]
      /\ cancelledAt = [k \in Ids |-> cancelledAt[k]]
  BY DEF TypeOK
<1>3. CASE i = j
  <2>1. CASE UNCHANGED <<schedules, cancelledAt>>
    BY <2>1
  <2>2. CASE ~ UNCHANGED <<schedules, cancelledAt>>
    <3>1. schedules'[i] = IF Pending(schedules[i]) /\ schedules[i].runs > 0
                          THEN Stopped(schedules[i], clock) ELSE Absent
      BY <1>1, <1>2, <1>3, <2>2
    <3> QED BY <3>1
  <2> QED BY <2>1, <2>2
<1>4. CASE i # j
  BY <1>1, <1>2, <1>4
<1> QED BY <1>3, <1>4

\* Every other step leaves the file and the cancellations alone.
LEMMA OtherEffect ==
  ASSUME \/ Tick \/ Crash \/ UNCHANGED vars
         \/ \E t \in Terminals : StopTerminal(t) \/ StartTerminal(t)
         \/ \E p \in Threads : Scan(p) \/ \E i \in Ids : FireEntry(p, i)
  PROVE  UNCHANGED <<schedules, cancelledAt, used>>
<1>1. CASE Tick \/ Crash \/ UNCHANGED vars
  BY <1>1 DEF Tick, Crash, vars
<1>2. CASE \E t \in Terminals : StopTerminal(t) \/ StartTerminal(t)
  BY <1>2 DEF StopTerminal, StartTerminal
<1>3. ASSUME NEW p \in Threads, Scan(p) PROVE UNCHANGED <<schedules, cancelledAt, used>>
  BY <1>3 DEF Scan
<1>4. ASSUME NEW p \in Threads, NEW i \in Ids, FireEntry(p, i)
      PROVE  UNCHANGED <<schedules, cancelledAt, used>>
  <2>1. \/ SkipLate(p, i) \/ FailStopped(p, i) \/ BeginTyping(p, i)
        \/ SendOk(p, i) \/ SendError(p, i)
    BY <1>4 DEF FireEntry
  <2>2. CASE SkipLate(p, i) \/ FailStopped(p, i) \/ BeginTyping(p, i)
    BY <2>2 DEF SkipLate, FailStopped, BeginTyping
  <2>3. CASE SendOk(p, i) \/ SendError(p, i)
    BY <2>3 DEF SendOk, SendError
  <2> QED BY <2>1, <2>2, <2>3
<1> QED BY <1>1, <1>2, <1>3, <1>4

----------------------------------------------------------------------------
(* Cancelled entries stay cancelled; outcomes stay what they are.            *)

\* The strengthening: an id the file, a snapshot, a result or a cancellation
\* speaks of has been given out, so a create never reuses it.
IdsGivenOut ==
  \A i \in Ids :
    /\ schedules[i] # Absent => i \in used
    /\ cancelledAt[i] # 0 => i \in used
    /\ \A p \in Threads : due[p][i] # Absent \/ results[p][i] # NoUpdate => i \in used

CancelInv == TypeOK /\ IdsGivenOut /\ CancelIsFinal

\* A step's effect on one entry, whatever the step.
LEMMA StepEffect ==
  ASSUME TypeOK, [Next]_vars, NEW i \in Ids
  PROVE  \/ /\ schedules'[i] \in {schedules[i], Absent}
            /\ used \subseteq used'
            /\ cancelledAt'[i] = cancelledAt[i] \/ (schedules'[i] = Absent /\ schedules[i] # Absent)
         \/ /\ \E p \in Threads : Apply(p) /\ schedules'[i] = Applied(schedules[i], results[p][i])
            /\ UNCHANGED <<used, cancelledAt>>
         \/ /\ i \notin used /\ i \in used'
            /\ schedules'[i] \in Entry /\ Pending(schedules'[i])
            /\ schedules'[i].every # 0 => schedules'[i].at <= schedules'[i].until
            /\ UNCHANGED <<due, results, cancelledAt>>
         \/ /\ Pending(schedules[i]) /\ schedules'[i] = Stopped(schedules[i], clock)
            /\ UNCHANGED <<used, due, results>>
<1>1. CASE \/ Tick \/ Crash \/ UNCHANGED vars
           \/ \E t \in Terminals : StopTerminal(t) \/ StartTerminal(t)
           \/ \E p \in Threads : Scan(p) \/ \E j \in Ids : FireEntry(p, j)
  BY <1>1, OtherEffect
<1>2. ASSUME NEW p \in Threads, Age(p)
      PROVE  /\ schedules'[i] \in {schedules[i], Absent}
             /\ UNCHANGED <<used, cancelledAt>>
  BY <1>2, AgeEffect DEF Age
<1>3. ASSUME NEW p \in Threads, Apply(p)
      PROVE  /\ schedules'[i] \in {schedules[i], Absent, Applied(schedules[i], results[p][i])}
             /\ UNCHANGED <<used, cancelledAt>>
  BY <1>3, ApplyEffect DEF Apply
<1>4. ASSUME NEW j \in Ids, Cancel(j)
      PROVE  \/ /\ schedules'[i] = schedules[i]
                /\ cancelledAt'[i] = cancelledAt[i] /\ used' = used
             \/ schedules'[i] = Absent /\ schedules[i] # Absent /\ used' = used
             \/ /\ Pending(schedules[i]) /\ schedules'[i] = Stopped(schedules[i], clock)
                /\ UNCHANGED <<used, due, results>>
  <2>1. UNCHANGED <<used, due, results>>
    BY <1>4 DEF Cancel, passVars
  <2>2. CASE i = j
    BY <1>4, <2>1, <2>2, CancelEffect DEF Cancel
  <2>3. CASE i # j
    <3>1. schedules'[i] = schedules[i] /\ cancelledAt'[i] = cancelledAt[i]
      BY <1>4, <2>3 DEF Cancel, TypeOK
    <3> QED BY <2>1, <3>1
  <2> QED BY <2>2, <2>3
<1>5. ASSUME NEW h \in Handlers, NEW j \in Ids, NEW t \in Terminals,
             NEW o \in Offsets, NEW e \in Everys \cup {0},
             NEW u \in 0 .. MaxTime + Horizon, Create(h, j, t, o, e, u)
      PROVE  \/ /\ schedules'[i] \in {schedules[i], Absent}
                /\ used \subseteq used' /\ cancelledAt' = cancelledAt
             \/ /\ i \notin used /\ i \in used'
                /\ schedules'[i] \in Entry /\ Pending(schedules'[i])
                /\ schedules'[i].every # 0 => schedules'[i].at <= schedules'[i].until
                /\ UNCHANGED <<due, results, cancelledAt>>
  <2>1. u \in Nat
    BY SchedulesAssumption
  <2>2. UNCHANGED <<due, results, cancelledAt>> /\ used \subseteq used'
    BY <1>5 DEF Create
  <2> QED BY <1>5, <2>1, <2>2, CreateEffect
<1> QED BY <1>1, <1>2, <1>3, <1>4, <1>5 DEF Next, PassStep

\* A pass takes snapshots only of what is in the file, and results only of its
\* snapshots.
LEMMA PassEffect ==
  ASSUME TypeOK, [Next]_vars, NEW q \in Threads, NEW i \in Ids
  PROVE  /\ \/ due'[q][i] \in {due[q][i], Absent}
            \/ due'[q][i] = schedules[i] /\ schedules'[i] = schedules[i]
         /\ \/ results'[q][i] \in {results[q][i], NoUpdate}
            \/ /\ due[q][i] \in Entry
               /\ \E late, ok \in BOOLEAN :
                    results'[q][i] = UpdateFor(due[q][i], passNow[q], late, ok)
               /\ UNCHANGED schedules
<1>1. CASE UNCHANGED <<due, results>>
  BY <1>1
<1>2. ASSUME NEW p \in Threads, EndPass(p)
      PROVE  due'[q][i] \in {due[q][i], Absent} /\ results'[q][i] \in {results[q][i], NoUpdate}
  BY <1>2 DEF EndPass, TypeOK, NoEntries, NoResults
<1>3. ASSUME NEW p \in Threads, NEW j \in Ids, NEW late \in BOOLEAN, NEW ok \in BOOLEAN,
             due[p][j] # Absent, Settle(p, j, late, ok), UNCHANGED schedules
      PROVE  /\ due'[q][i] \in {due[q][i], Absent}
             /\ \/ results'[q][i] = results[q][i]
                \/ /\ due[q][i] \in Entry
                   /\ results'[q][i] = UpdateFor(due[q][i], passNow[q], late, ok)
                   /\ UNCHANGED schedules
  BY <1>3 DEF Settle, TypeOK
<1>4. ASSUME NEW p \in Threads, Scan(p)
      PROVE  /\ \/ due'[q][i] \in {due[q][i], Absent}
                \/ due'[q][i] = schedules[i]
             /\ UNCHANGED <<schedules, results>>
  <2>1. PICK r \in BOOLEAN, D \in SUBSET Ids : due' = [due EXCEPT ![p] = Restricted(ReadAs(r), D)]
    BY <1>4 DEF Scan, DueIn
  <2>2. Restricted(ReadAs(r), D)[i] \in {schedules[i], Absent}
    BY ReadAsEffect DEF Restricted
  <2>3. UNCHANGED <<schedules, results>>
    BY <1>4 DEF Scan
  <2> QED BY <2>1, <2>2, <2>3 DEF TypeOK
<1>5. ASSUME NEW p \in Threads, Age(p) \/ Apply(p)
      PROVE  due'[q][i] \in {due[q][i], Absent} /\ results'[q][i] \in {results[q][i], NoUpdate}
  BY <1>2, <1>5 DEF Age, Apply
<1>6. ASSUME NEW p \in Threads, NEW j \in Ids, FireEntry(p, j)
      PROVE  /\ due'[q][i] \in {due[q][i], Absent}
             /\ \/ results'[q][i] = results[q][i]
                \/ /\ due[q][i] \in Entry
                   /\ \E late, ok \in BOOLEAN :
                        results'[q][i] = UpdateFor(due[q][i], passNow[q], late, ok)
                   /\ UNCHANGED schedules
  <2>1. CASE UNCHANGED <<due, results>>
    BY <2>1
  <2>2. ASSUME NEW late \in BOOLEAN, NEW ok \in BOOLEAN, due[p][j] # Absent,
               Settle(p, j, late, ok), UNCHANGED schedules
        PROVE  /\ due'[q][i] \in {due[q][i], Absent}
               /\ \/ results'[q][i] = results[q][i]
                  \/ /\ due[q][i] \in Entry
                     /\ \E l, k \in BOOLEAN :
                          results'[q][i] = UpdateFor(due[q][i], passNow[q], l, k)
                     /\ UNCHANGED schedules
    BY <1>3, <2>2
  <2>3. pc[p] \in {"text", "enter"} /\ j \in cur[p] => due[p][j] # Absent
    BY DEF TypeOK
  <2>4. \/ UNCHANGED <<due, results>>
        \/ /\ due[p][j] # Absent /\ UNCHANGED schedules
           /\ \E late, ok \in BOOLEAN : Settle(p, j, late, ok)
    BY <1>6, <2>3 DEF FireEntry, SkipLate, FailStopped, BeginTyping, SendOk,
                      SendError, GiveUp
  <2> QED BY <2>1, <2>2, <2>4
<1>7. CASE Crash
  BY <1>7 DEF Crash, NoEntries, NoResults
<1>8. CASE \/ Tick \/ UNCHANGED vars
           \/ \E t \in Terminals : StopTerminal(t) \/ StartTerminal(t)
           \/ \E j \in Ids : Cancel(j)
           \/ \E h \in Handlers, j \in Ids, t \in Terminals, o \in Offsets,
                 e \in Everys \cup {0}, u \in 0 .. MaxTime + Horizon :
                Create(h, j, t, o, e, u)
  <2>1. \A h, j, t, o, e, u : Create(h, j, t, o, e, u) => UNCHANGED <<due, results>>
    BY DEF Create
  <2>2. \A j : Cancel(j) => UNCHANGED <<due, results>>
    BY DEF Cancel, passVars
  <2>3. UNCHANGED <<due, results>>
    BY <1>8, <2>1, <2>2 DEF Tick, vars, passVars, StopTerminal, StartTerminal
  <2> QED BY <1>1, <2>3
<1>9. \/ Crash \/ Tick \/ UNCHANGED vars
      \/ \E t \in Terminals : StopTerminal(t) \/ StartTerminal(t)
      \/ \E j \in Ids : Cancel(j)
      \/ \E h \in Handlers, j \in Ids, t \in Terminals, o \in Offsets,
            e \in Everys \cup {0}, u \in 0 .. MaxTime + Horizon :
           Create(h, j, t, o, e, u)
      \/ \E p \in Threads : \/ Scan(p) \/ Age(p) \/ Apply(p)
                            \/ \E j \in Ids : FireEntry(p, j)
  BY DEF Next, PassStep
<1>10. CASE \E p \in Threads : Scan(p)
  <2>1. /\ \/ due'[q][i] \in {due[q][i], Absent}
           \/ due'[q][i] = schedules[i]
        /\ UNCHANGED <<schedules, results>>
    BY <1>4, <1>10
  <2> QED BY <2>1
<1>11. CASE \E p \in Threads : Age(p) \/ Apply(p)
  BY <1>5, <1>11
<1>12. CASE \E p \in Threads, j \in Ids : FireEntry(p, j)
  BY <1>6, <1>12
<1> QED BY <1>7, <1>8, <1>9, <1>10, <1>11, <1>12

LEMMA IdsGivenOutStep ==
  ASSUME TypeOK, IdsGivenOut, [Next]_vars
  PROVE  IdsGivenOut'
<1> SUFFICES ASSUME NEW i \in Ids
             PROVE  /\ schedules'[i] # Absent => i \in used'
                    /\ cancelledAt'[i] # 0 => i \in used'
                    /\ \A p \in Threads :
                         due'[p][i] # Absent \/ results'[p][i] # NoUpdate => i \in used'
  BY DEF IdsGivenOut
<1>1. i \in used => i \in used'
  BY StepEffect
<1>2. Applied(Absent, NoUpdate) = Absent
  BY DEF Applied
<1>3. \A p \in Threads : results[p][i] \in Update \cup {NoUpdate}
  BY DEF TypeOK
<1>4. schedules[i] \in Entry \cup {Absent} /\ Absent \in Entry \cup {Absent}
  BY DEF TypeOK
<1>5. schedules'[i] # Absent => schedules[i] # Absent \/ i \in used'
  <2>1. ~Pending(Absent)
    BY DEF Pending, Absent
  <2> QED BY <1>3, <1>4, <2>1, StepEffect, AppliedType
<1>6. cancelledAt'[i] # 0 => cancelledAt[i] # 0 \/ schedules[i] # Absent \/ i \in used'
  <2>1. ~Pending(Absent)
    BY DEF Pending, Absent
  <2> QED BY <2>1, StepEffect
<1>7. ASSUME NEW p \in Threads
      PROVE  due'[p][i] # Absent \/ results'[p][i] # NoUpdate
               => \/ due[p][i] # Absent \/ results[p][i] # NoUpdate \/ schedules[i] # Absent
  <2>1. Absent \notin Entry
    BY DEF Absent, Entry
  <2> QED BY <2>1, PassEffect
<1> QED BY <1>1, <1>5, <1>6, <1>7 DEF IdsGivenOut

LEMMA CancelIsFinalStep ==
  ASSUME CancelInv, [Next]_vars
  PROVE  CancelIsFinal'
<1> SUFFICES ASSUME NEW i \in Ids, cancelledAt'[i] # 0
             PROVE  ~Pending(schedules'[i])
  BY DEF CancelIsFinal
<1> USE DEF CancelInv
<1>1. ~Pending(Absent) /\ ~Pending(Stopped(schedules[i], clock))
  <2>1. Pending(schedules[i]) => schedules[i] \in Entry
    BY DEF TypeOK, Pending, Absent
  <2>2. schedules[i] \in Entry => Stopped(schedules[i], clock).status = "stopped"
    <3> DEFINE f == IF schedules[i].fired = 0 THEN clock ELSE schedules[i].fired
    <3>1. Stopped(schedules[i], clock) = [schedules[i] EXCEPT !.status = "stopped", !.fired = f]
      BY DEF Stopped
    <3> HIDE DEF f
    <3> QED BY <3>1 DEF Entry
  <2>3. schedules[i] = Absent => Stopped(schedules[i], clock).status = "stopped"
    BY DEF Stopped, Absent
  <2>4. schedules[i] \in Entry \cup {Absent}
    BY DEF TypeOK
  <2> QED BY <2>2, <2>3, <2>4 DEF Pending, Absent
<1>2. \A p \in Threads : ~Pending(schedules[i])
        => Applied(schedules[i], results[p][i]) = schedules[i]
  <2>1. \A p \in Threads : /\ schedules[i] \in Entry \cup {Absent}
                           /\ results[p][i] \in Update \cup {NoUpdate}
    BY DEF TypeOK
  <2> QED BY <2>1, AppliedType
<1>3. i \notin used => cancelledAt[i] = 0 /\ schedules[i] = Absent
  BY DEF IdsGivenOut
<1> QED BY <1>1, <1>2, <1>3, StepEffect DEF CancelIsFinal

\* Cancel is final for any number of threads, crashes and failures: no pass,
\* however old its snapshot, makes a cancelled entry pending again.
THEOREM CancelledForGood == Spec => []CancelIsFinal
<1>1. Init => CancelInv
  <2>1. Init => IdsGivenOut /\ CancelIsFinal
    BY DEF Init, IdsGivenOut, CancelIsFinal, NoEntries, NoResults
  <2> QED BY <2>1, InitType DEF CancelInv
<1>2. CancelInv /\ [Next]_vars => CancelInv'
  BY NextType, IdsGivenOutStep, CancelIsFinalStep DEF CancelInv
<1>3. CancelInv => CancelIsFinal
  BY DEF CancelInv
<1> QED BY <1>1, <1>2, <1>3, PTL DEF Spec

\* A recorded outcome is never overwritten and never turned back into pending,
\* neither by another pass's result nor by a cancel or a create.
THEOREM OutcomesFinal == Spec => FinishedForGood
<1>1. ASSUME TypeOK, IdsGivenOut, [Next]_vars, NEW i \in Ids,
             schedules[i].status \in Finished, schedules'[i] # Absent
      PROVE  schedules'[i].status = schedules[i].status
  <2>1. schedules[i] # Absent /\ ~Pending(schedules[i])
    BY <1>1 DEF Absent, Finished, Pending
  <2>2. i \in used
    BY <1>1, <2>1 DEF IdsGivenOut
  <2>3. \A p \in Threads : Applied(schedules[i], results[p][i]) = schedules[i]
    <3>1. \A p \in Threads : /\ schedules[i] \in Entry \cup {Absent}
                             /\ results[p][i] \in Update \cup {NoUpdate}
      BY <1>1 DEF TypeOK
    <3> QED BY <2>1, <3>1, AppliedType
  <2> QED BY <1>1, <2>1, <2>2, <2>3, StepEffect
<1>2. TypeOK /\ IdsGivenOut /\ [Next]_vars =>
        [\A i \in Ids :
           schedules[i].status \in Finished /\ schedules'[i] # Absent
             => schedules'[i].status = schedules[i].status]_vars
  BY <1>1
<1>3. Init => IdsGivenOut
  BY DEF Init, IdsGivenOut, NoEntries, NoResults
<1>4. TypeOK /\ IdsGivenOut /\ [Next]_vars => IdsGivenOut'
  BY IdsGivenOutStep
<1> QED BY <1>2, <1>3, <1>4, InitType, NextType, PTL DEF Spec, FinishedForGood

----------------------------------------------------------------------------
(* A loop is never armed outside its window.                                 *)

\* The strengthening: a snapshot agrees with the file on the fields nobody
\* rewrites, and a result re-arms inside the window the file holds.
SnapshotsAgree ==
  \A i \in Ids, p \in Threads : schedules[i] # Absent =>
    /\ due[p][i] # Absent => /\ due[p][i].every = schedules[i].every
                             /\ due[p][i].until = schedules[i].until
    /\ results[p][i] # NoUpdate /\ results[p][i].status = "pending"
         => results[p][i].at <= schedules[i].until

WindowInv == TypeOK /\ IdsGivenOut /\ SnapshotsAgree /\ LoopInWindow

LEMMA UpdateForWindow ==
  ASSUME NEW e \in Entry, NEW now, NEW late \in BOOLEAN, NEW ok \in BOOLEAN,
         UpdateFor(e, now, late, ok).status = "pending"
  PROVE  UpdateFor(e, now, late, ok).at <= e.until
<1>1. FinalStatus(e, late, ok) # "pending"
  BY DEF FinalStatus
<1>2. ArmsAgain(e, now)
  BY <1>1 DEF UpdateFor
<1>3. UpdateFor(e, now, late, ok).at = NextSlot(e.at, e.every, now)
  BY <1>2 DEF UpdateFor
<1> QED BY <1>2, <1>3 DEF ArmsAgain

LEMMA AppliedWindow ==
  ASSUME NEW e \in Entry, NEW u \in Update \cup {NoUpdate}
  PROVE  /\ Applied(e, u).every = e.every /\ Applied(e, u).until = e.until
         /\ Pending(Applied(e, u)) =>
              \/ Applied(e, u).at = e.at /\ Pending(e)
              \/ u # NoUpdate /\ u.status = "pending" /\ Applied(e, u).at = u.at
<1>1. CASE u = NoUpdate \/ ~Pending(e)
  BY <1>1 DEF Applied
<1>2. CASE u # NoUpdate /\ Pending(e)
  <2> DEFINE at    == IF u.status = "pending" THEN u.at ELSE e.at
             fired == IF u.fired = 0 THEN e.fired ELSE u.fired
             runs  == IF u.ran THEN e.runs + 1 ELSE e.runs
  <2>1. Applied(e, u) = [e EXCEPT !.status = u.status, !.at = at,
                                  !.fired = fired, !.runs = runs]
    BY <1>2 DEF Applied
  <2> HIDE DEF fired, runs
  <2>2. /\ Applied(e, u).every = e.every /\ Applied(e, u).until = e.until
        /\ Applied(e, u).at = at /\ Applied(e, u).status = u.status
    BY <2>1 DEF Entry
  <2> QED BY <1>2, <2>2 DEF Pending
<1> QED BY <1>1, <1>2

LEMMA StoppedKeeps ==
  ASSUME NEW e \in Entry, NEW now
  PROVE  /\ Stopped(e, now).every = e.every /\ Stopped(e, now).until = e.until
         /\ ~Pending(Stopped(e, now))
<1> DEFINE f == IF e.fired = 0 THEN now ELSE e.fired
<1>1. Stopped(e, now) = [e EXCEPT !.status = "stopped", !.fired = f]
  BY DEF Stopped
<1> HIDE DEF f
<1> QED BY <1>1 DEF Entry, Pending

\* No step but its creation changes an entry's interval or window.
LEMMA FieldsKept ==
  ASSUME TypeOK, [Next]_vars, NEW i \in Ids, i \in used, schedules'[i] # Absent,
         IdsGivenOut
  PROVE  /\ schedules[i] \in Entry
         /\ schedules'[i].every = schedules[i].every
         /\ schedules'[i].until = schedules[i].until
<1>1. /\ schedules[i] \in Entry \cup {Absent} /\ ~Pending(Absent)
      /\ \A p \in Threads : results[p][i] \in Update \cup {NoUpdate}
  BY DEF TypeOK, Pending, Absent
<1>2. schedules[i] = Absent => \A p \in Threads : Applied(schedules[i], results[p][i]) = Absent
  BY <1>1, AppliedType
<1>3. schedules[i] \in Entry
  BY <1>1, <1>2, StepEffect
<1>4. \/ schedules'[i] = schedules[i]
      \/ \E p \in Threads : schedules'[i] = Applied(schedules[i], results[p][i])
      \/ schedules'[i] = Stopped(schedules[i], clock)
  BY StepEffect
<1> QED BY <1>1, <1>3, <1>4, AppliedWindow, StoppedKeeps

LEMMA SnapshotsAgreeStep ==
  ASSUME WindowInv, [Next]_vars
  PROVE  SnapshotsAgree'
<1> USE DEF WindowInv
<1> SUFFICES ASSUME NEW i \in Ids, NEW p \in Threads, schedules'[i] # Absent
             PROVE  /\ due'[p][i] # Absent => /\ due'[p][i].every = schedules'[i].every
                                              /\ due'[p][i].until = schedules'[i].until
                    /\ results'[p][i] # NoUpdate /\ results'[p][i].status = "pending"
                         => results'[p][i].at <= schedules'[i].until
  BY DEF SnapshotsAgree
<1>1. CASE i \notin used
  <2>1. due[p][i] = Absent /\ results[p][i] = NoUpdate /\ schedules[i] = Absent
    BY <1>1 DEF IdsGivenOut
  <2>2. Absent \notin Entry
    BY DEF Absent, Entry
  <2>3. due'[p][i] = Absent /\ results'[p][i] = NoUpdate
    BY <2>1, <2>2, PassEffect
  <2> QED BY <2>3
<1>2. CASE i \in used
  <2>1. /\ schedules[i] \in Entry /\ schedules'[i].every = schedules[i].every
        /\ schedules'[i].until = schedules[i].until
    BY <1>2, FieldsKept
  <2>2. schedules[i] # Absent
    <3>1. Absent \notin Entry
      BY DEF Absent, Entry
    <3> QED BY <2>1, <3>1
  <2>3. due'[p][i] # Absent => /\ due'[p][i].every = schedules'[i].every
                              /\ due'[p][i].until = schedules'[i].until
    BY <2>1, <2>2, PassEffect DEF SnapshotsAgree
  <2>4. ASSUME results'[p][i] # NoUpdate, results'[p][i].status = "pending"
        PROVE  results'[p][i].at <= schedules'[i].until
    <3>1. CASE results'[p][i] = results[p][i]
      BY <2>1, <2>2, <2>4, <3>1 DEF SnapshotsAgree
    <3>2. CASE due[p][i] \in Entry /\ \E late, ok \in BOOLEAN :
                 results'[p][i] = UpdateFor(due[p][i], passNow[p], late, ok)
      <4>1. results'[p][i].at <= due[p][i].until
        BY <2>4, <3>2, UpdateForWindow
      <4>2. due[p][i] # Absent
        BY <3>2 DEF Absent, Entry
      <4> QED BY <2>1, <2>2, <4>1, <4>2 DEF SnapshotsAgree
    <3> QED BY <2>4, <3>1, <3>2, PassEffect
  <2> QED BY <2>3, <2>4
<1> QED BY <1>1, <1>2

LEMMA LoopInWindowStep ==
  ASSUME WindowInv, [Next]_vars
  PROVE  LoopInWindow'
<1> USE DEF WindowInv
<1> SUFFICES ASSUME NEW i \in Ids, Pending(schedules'[i]), schedules'[i].every # 0
             PROVE  schedules'[i].at <= schedules'[i].until
  BY DEF LoopInWindow
<1>1. schedules'[i] # Absent
  BY DEF Pending, Absent
<1>2. CASE i \notin used
  <2>1. schedules[i] = Absent /\ ~Pending(Absent)
    BY <1>2 DEF IdsGivenOut, Pending, Absent
  <2>2. \A p \in Threads : Applied(Absent, results[p][i]) = Absent
    <3>1. \A p \in Threads : /\ Absent \in Entry \cup {Absent}
                             /\ results[p][i] \in Update \cup {NoUpdate}
      BY DEF TypeOK
    <3> QED BY <3>1, AppliedType
  <2> QED BY <1>1, <2>1, <2>2, StepEffect
<1>3. CASE i \in used
  <2>1. /\ schedules[i] \in Entry /\ schedules'[i].every = schedules[i].every
        /\ schedules'[i].until = schedules[i].until
    BY <1>1, <1>3, FieldsKept
  <2>2. schedules[i] # Absent /\ \A p \in Threads : results[p][i] \in Update \cup {NoUpdate}
    <3>1. Absent \notin Entry
      BY DEF Absent, Entry
    <3>2. \A p \in Threads : results[p][i] \in Update \cup {NoUpdate}
      BY DEF TypeOK
    <3> QED BY <2>1, <3>1, <3>2
  <2>3. \/ schedules'[i] = schedules[i]
        \/ \E p \in Threads : schedules'[i] = Applied(schedules[i], results[p][i])
        \/ schedules'[i] = Stopped(schedules[i], clock)
    BY <1>1, <1>3, StepEffect
  <2>4. CASE schedules'[i] = schedules[i]
    BY <2>4 DEF LoopInWindow
  <2>5. ASSUME NEW p \in Threads, schedules'[i] = Applied(schedules[i], results[p][i])
        PROVE  schedules'[i].at <= schedules'[i].until
    BY <2>1, <2>2, <2>5, AppliedWindow DEF LoopInWindow, SnapshotsAgree
  <2> QED BY <2>1, <2>3, <2>4, <2>5, StoppedKeeps
<1> QED BY <1>2, <1>3

\* However slow the passes and whichever of them records last, a pending loop
\* is armed inside the window the user reviewed.
THEOREM LoopsStayInWindow == Spec => []LoopInWindow
<1>1. Init => WindowInv
  <2>1. Init => IdsGivenOut /\ SnapshotsAgree
    BY DEF Init, IdsGivenOut, SnapshotsAgree, NoEntries, NoResults
  <2>2. Init => LoopInWindow
    BY DEF Init, LoopInWindow, NoEntries, Pending, Absent
  <2> QED BY <2>1, <2>2, InitType DEF WindowInv
<1>2. WindowInv /\ [Next]_vars => WindowInv'
  BY NextType, IdsGivenOutStep, SnapshotsAgreeStep, LoopInWindowStep DEF WindowInv
<1>3. WindowInv => LoopInWindow
  BY DEF WindowInv
<1> QED BY <1>1, <1>2, <1>3, PTL DEF Spec

-----------------------------------------------------------------------------
(***************************************************************************)
(* The books of Schedules balance, for finitely many threads: the cap of a *)
(* user's pending entries, the number of runs of a loop, and the grid its  *)
(* slots are on.                                                           *)
(***************************************************************************)
(* The grid of a loop: two slots that are a whole number of intervals      *)
(* apart.                                                                  *)
OnGrid(x, y, every) == \E k \in Int : x = y + k * every

LEMMA GridOfOne ==
  ASSUME NEW x \in Nat, NEW every \in Nat
  PROVE  OnGrid(x, x, every)
<1>1. 0 \in Int /\ x = x + 0 * every
  OBVIOUS
<1> QED BY <1>1 DEF OnGrid

LEMMA GridJoins ==
  ASSUME NEW x \in Nat, NEW y \in Nat, NEW z \in Nat, NEW every \in Nat,
         OnGrid(x, y, every), OnGrid(y, z, every)
  PROVE  OnGrid(x, z, every)
<1>1. PICK j \in Int, k \in Int : x = y + j * every /\ y = z + k * every
  BY DEF OnGrid
<1>2. j * every + k * every = (j + k) * every
  OBVIOUS
<1>3. j + k \in Int /\ x = z + (j + k) * every
  BY <1>1, <1>2
<1> QED BY <1>3 DEF OnGrid

LEMMA GridTurns ==
  ASSUME NEW x \in Nat, NEW y \in Nat, NEW every \in Nat, OnGrid(x, y, every)
  PROVE  OnGrid(y, x, every)
<1>1. PICK k \in Int : x = y + k * every
  BY DEF OnGrid
<1>2. (-k) * every = -(k * every)
  OBVIOUS
<1>3. -k \in Int /\ y = x + (-k) * every
  BY <1>1, <1>2
<1> QED BY <1>3 DEF OnGrid

(* _sched_next_slot stays on the grid.                                     *)
LEMMA NextSlotGrid ==
  ASSUME NEW at \in Nat, NEW every \in Nat \ {0}, NEW now \in Nat
  PROVE  OnGrid(NextSlot(at, every, now), at, every)
<1>1. CASE at > now
  BY <1>1, GridOfOne DEF NextSlot
<1>2. CASE ~(at > now)
  <2> DEFINE k == (now - at) \div every + 1
  <2>1. k \in Int
    <3>1. now - at \in Nat
      BY <1>2
    <3>2. (now - at) \div every \in Nat
      BY <3>1, DivNat
    <3> QED BY <3>2
  <2>2. NextSlot(at, every, now) = at + k * every
    BY <1>2 DEF NextSlot
  <2> HIDE DEF k
  <2> QED BY <2>1, <2>2 DEF OnGrid
<1> QED BY <1>1, <1>2

(* A multiple of the interval leaves no rest.                              *)
LEMMA NoRest ==
  ASSUME NEW n \in Nat, NEW k \in Int, NEW every \in Nat \ {0}, n = k * every
  PROVE  n % every = 0
<1> DEFINE q == n \div every
           r == n % every
<1>1. q \in Int /\ r \in 0 .. (every - 1) /\ n = every * q + r
  OBVIOUS
<1> HIDE DEF q, r
<1>2. r = (k - q) * every
  BY <1>1
<1>3. k - q = 0
  <2>1. CASE k - q >= 1
    <3>1. (k - q) * every >= every
      BY <1>1, <2>1
    <3> QED BY <1>1, <1>2, <3>1
  <2>2. CASE k - q <= -1
    <3>1. (k - q) * every <= -every
      BY <1>1, <2>2
    <3> QED BY <1>1, <1>2, <3>1
  <2> QED BY <1>1, <2>1, <2>2
<1>4. r = 0
  BY <1>1, <1>2, <1>3
<1> QED BY <1>4 DEF r

LEMMA GridDistance ==
  ASSUME NEW a \in Nat, NEW b \in Nat, NEW every \in Nat \ {0}, OnGrid(a, b, every)
  PROVE  (IF a > b THEN a - b ELSE b - a) % every = 0
<1>1. PICK k \in Int : a = b + k * every
  BY DEF OnGrid
<1>2. CASE a > b
  <2>1. a - b \in Nat /\ a - b = k * every
    BY <1>1, <1>2
  <2> QED BY <1>2, <2>1, NoRest
<1>3. CASE ~(a > b)
  <2>1. (-k) * every = -(k * every)
    OBVIOUS
  <2>2. b - a \in Nat /\ -k \in Int /\ b - a = (-k) * every
    BY <1>1, <1>3, <2>1
  <2> QED BY <1>3, <2>2, NoRest
<1> QED BY <1>2, <1>3

-----------------------------------------------------------------------------
(* The cap.  Only a create adds a pending entry, and it counts first.      *)
Capped == \A u \in Users : /\ IsFiniteSet(PendingOf(schedules, u))
                           /\ Cardinality(PendingOf(schedules, u)) <= MaxPerUser

LEMMA AppliedTerm ==
  ASSUME NEW e \in Entry, NEW u \in Update \cup {NoUpdate}
  PROVE  Applied(e, u).term = e.term
<1>1. CASE u = NoUpdate \/ ~Pending(e)
  BY <1>1 DEF Applied
<1>2. CASE u # NoUpdate /\ Pending(e)
  <2> DEFINE at    == IF u.status = "pending" THEN u.at ELSE e.at
             fired == IF u.fired = 0 THEN e.fired ELSE u.fired
             runs  == IF u.ran THEN e.runs + 1 ELSE e.runs
  <2>1. Applied(e, u) = [e EXCEPT !.status = u.status, !.at = at,
                                  !.fired = fired, !.runs = runs]
    BY <1>2 DEF Applied
  <2> HIDE DEF at, fired, runs
  <2> QED BY <2>1 DEF Entry
<1> QED BY <1>1, <1>2

(* Without a create, what is pending was pending before.                   *)
LEMMA PendingBefore ==
  ASSUME TypeOK, [Next]_vars, used' = used, NEW i \in Ids, Pending(schedules'[i])
  PROVE  Pending(schedules[i]) /\ schedules'[i].term = schedules[i].term
<1>1. ~Pending(Absent)
  BY DEF Pending, Absent
<1>2. schedules[i] \in Entry \cup {Absent} /\ \A p \in Threads : results[p][i] \in Update \cup {NoUpdate}
  BY DEF TypeOK
<1>3. \/ schedules'[i] = schedules[i]
      \/ \E p \in Threads : schedules'[i] = Applied(schedules[i], results[p][i])
      \/ schedules'[i] = Stopped(schedules[i], clock) /\ Pending(schedules[i])
  BY <1>1, StepEffect
<1>4. ASSUME NEW p \in Threads, schedules'[i] = Applied(schedules[i], results[p][i])
      PROVE  Pending(schedules[i]) /\ schedules'[i].term = schedules[i].term
  BY <1>1, <1>2, <1>4, AppliedType, AppliedTerm
<1>5. CASE schedules'[i] = Stopped(schedules[i], clock) /\ Pending(schedules[i])
  BY <1>1, <1>2, <1>5, StoppedKeeps
<1> QED BY <1>3, <1>4, <1>5

LEMMA CreateCapped ==
  ASSUME TypeOK, Capped, NEW h \in Handlers, NEW j \in Ids, NEW t \in Terminals,
         NEW o \in Offsets, NEW e \in Everys \cup {0}, NEW until,
         Create(h, j, t, o, e, until), used' # used, NEW u \in Users
  PROVE  /\ IsFiniteSet(PendingOf(schedules', u))
         /\ Cardinality(PendingOf(schedules', u)) <= MaxPerUser
<1> DEFINE asked == clock + o - Shift
           at    == IF asked + PastTolerance < clock
                    THEN NextSlot(asked, e, clock) ELSE asked
           entry == [term |-> t, at |-> at, every |-> e, until |-> until,
                     status |-> "pending", fired |-> 0, runs |-> 0]
<1>1. PICK r \in BOOLEAN, w \in BOOLEAN :
        /\ HasRoom(ReadAs(r), t[1])
        /\ SavePruned([ReadAs(r) EXCEPT ![j] = entry], clock, w)
        /\ used' = IF w THEN used \cup {j} ELSE used
  BY DEF Create
<1>2. PICK K : schedules' = Restricted([ReadAs(r) EXCEPT ![j] = entry], K)
  BY <1>1 DEF SavePruned
<1>3. entry.term = t
  OBVIOUS
<1> HIDE DEF asked, at, entry
<1> DEFINE P == PendingOf(ReadAs(r), u)
<1>4. ReadAs(r) \in [Ids -> Entry \cup {Absent}] /\ ~Pending(Absent)
  BY ReadAsType DEF Pending, Absent
<1>5. P \subseteq PendingOf(schedules, u)
  BY <1>4, ReadAsEffect DEF PendingOf
<1>6. IsFiniteSet(P) /\ Cardinality(P) <= MaxPerUser /\ Cardinality(P) \in Nat
  <2> HIDE DEF P
  <2>1. IsFiniteSet(PendingOf(schedules, u)) /\ Cardinality(PendingOf(schedules, u)) <= MaxPerUser
    BY DEF Capped
  <2>2. IsFiniteSet(P) /\ Cardinality(P) <= Cardinality(PendingOf(schedules, u))
    BY <1>5, <2>1, FS_Subset
  <2>3. Cardinality(P) \in Nat /\ Cardinality(PendingOf(schedules, u)) \in Nat /\ MaxPerUser \in Nat
    BY <2>1, <2>2, FS_CardinalityType, SchedulesAssumption
  <2> QED BY <2>1, <2>2, <2>3
<1>7. u # t[1] => PendingOf(schedules', u) \subseteq P
  BY <1>2, <1>3, <1>4 DEF PendingOf, Restricted
<1>8. PendingOf(schedules', u) \subseteq P \cup {j}
  BY <1>2, <1>4 DEF PendingOf, Restricted
<1>9. u = t[1] => Cardinality(P) < MaxPerUser
  BY <1>1 DEF HasRoom
<1> HIDE DEF P
<1>10. IsFiniteSet(P \cup {j}) /\ Cardinality(P \cup {j}) <= Cardinality(P) + 1
  <2>1. /\ IsFiniteSet(P \cup {j})
        /\ Cardinality(P \cup {j}) = IF j \in P THEN Cardinality(P) ELSE Cardinality(P) + 1
    BY <1>6, FS_AddElement, Zenon
  <2> QED BY <1>6, <2>1
<1>11. CASE u # t[1]
  <2>1. IsFiniteSet(PendingOf(schedules', u)) /\ Cardinality(PendingOf(schedules', u)) <= Cardinality(P)
    BY <1>6, <1>7, <1>11, FS_Subset
  <2> QED BY <1>6, <2>1, FS_CardinalityType, SchedulesAssumption
<1>12. CASE u = t[1]
  <2>1. /\ IsFiniteSet(PendingOf(schedules', u))
        /\ Cardinality(PendingOf(schedules', u)) <= Cardinality(P \cup {j})
    BY <1>8, <1>10, FS_Subset
  <2>2. Cardinality(PendingOf(schedules', u)) \in Nat /\ Cardinality(P \cup {j}) \in Nat
        /\ MaxPerUser \in Nat
    BY <1>10, <2>1, FS_CardinalityType, SchedulesAssumption
  <2> QED BY <1>6, <1>9, <1>10, <1>12, <2>1, <2>2
<1> QED BY <1>11, <1>12

(* Only a create gives out an id.                                          *)
LEMMA OnlyCreates ==
  ASSUME [Next]_vars, used' # used
  PROVE  \E h \in Handlers, j \in Ids, t \in Terminals, o \in Offsets,
            e \in Everys \cup {0}, until \in 0 .. MaxTime + Horizon :
           Create(h, j, t, o, e, until)
<1>1. CASE \/ Tick \/ Crash \/ UNCHANGED vars
           \/ \E t \in Terminals : StopTerminal(t) \/ StartTerminal(t)
           \/ \E p \in Threads : Scan(p) \/ \E i \in Ids : FireEntry(p, i)
  BY <1>1, OtherEffect
<1>2. CASE \E j \in Ids : Cancel(j)
  BY <1>2 DEF Cancel
<1>3. CASE \E p \in Threads : Age(p) \/ Apply(p)
  BY <1>3 DEF Age, Apply
<1> QED BY <1>1, <1>2, <1>3 DEF Next, PassStep

LEMMA CappedStep ==
  ASSUME TypeOK, Capped, [Next]_vars
  PROVE  Capped'
<1> SUFFICES ASSUME NEW u \in Users
             PROVE  /\ IsFiniteSet(PendingOf(schedules', u))
                    /\ Cardinality(PendingOf(schedules', u)) <= MaxPerUser
  BY DEF Capped, PendingOf, Pending
<1>1. CASE used' = used
  <2>1. PendingOf(schedules', u) \subseteq PendingOf(schedules, u)
    BY <1>1, PendingBefore DEF PendingOf
  <2>2. IsFiniteSet(PendingOf(schedules, u)) /\ Cardinality(PendingOf(schedules, u)) <= MaxPerUser
    BY DEF Capped
  <2>3. /\ IsFiniteSet(PendingOf(schedules', u))
        /\ Cardinality(PendingOf(schedules', u)) <= Cardinality(PendingOf(schedules, u))
    BY <2>1, <2>2, FS_Subset
  <2>4. /\ Cardinality(PendingOf(schedules', u)) \in Nat
        /\ Cardinality(PendingOf(schedules, u)) \in Nat /\ MaxPerUser \in Nat
    BY <2>2, <2>3, FS_CardinalityType, SchedulesAssumption
  <2> QED BY <2>2, <2>3, <2>4
<1>2. CASE used' # used
  BY <1>2, OnlyCreates, CreateCapped
<1> QED BY <1>1, <1>2

-----------------------------------------------------------------------------
(* The grid.  What passes hold, and what they record, is on the grid of the *)
(* file's slot.                                                             *)
SlotsOnGrid ==
  \A i \in Ids, p \in Threads :
    schedules[i] # Absent /\ schedules[i].every # 0 =>
      /\ due[p][i] # Absent => OnGrid(due[p][i].at, schedules[i].at, schedules[i].every)
      /\ results[p][i] # NoUpdate /\ results[p][i].status = "pending"
           => OnGrid(results[p][i].at, schedules[i].at, schedules[i].every)

LEMMA Distinct == Absent \notin Entry /\ NoUpdate \notin Update /\ ~Pending(Absent)
  BY DEF Absent, Entry, NoUpdate, Update, Pending

LEMMA AppliedAt ==
  ASSUME NEW e \in Entry, NEW u \in Update \cup {NoUpdate}
  PROVE  \/ Applied(e, u).at = e.at
         \/ u # NoUpdate /\ u.status = "pending" /\ Applied(e, u).at = u.at
<1>1. CASE u = NoUpdate \/ ~Pending(e)
  BY <1>1 DEF Applied
<1>2. CASE u # NoUpdate /\ Pending(e)
  <2> DEFINE at    == IF u.status = "pending" THEN u.at ELSE e.at
             fired == IF u.fired = 0 THEN e.fired ELSE u.fired
             runs  == IF u.ran THEN e.runs + 1 ELSE e.runs
  <2>1. Applied(e, u) = [e EXCEPT !.status = u.status, !.at = at,
                                  !.fired = fired, !.runs = runs]
    BY <1>2 DEF Applied
  <2> HIDE DEF fired, runs
  <2>2. Applied(e, u).at = at
    BY <2>1 DEF Entry
  <2> QED BY <1>2, <2>2
<1> QED BY <1>1, <1>2

LEMMA StoppedAt ==
  ASSUME NEW e \in Entry, NEW now
  PROVE  Stopped(e, now).at = e.at
<1> DEFINE f == IF e.fired = 0 THEN now ELSE e.fired
<1>1. Stopped(e, now) = [e EXCEPT !.status = "stopped", !.fired = f]
  BY DEF Stopped
<1> HIDE DEF f
<1> QED BY <1>1 DEF Entry

(* A step moves a slot along its grid.                                     *)
LEMMA SlotMoves ==
  ASSUME TypeOK, IdsGivenOut, SlotsOnGrid, [Next]_vars, NEW i \in Ids, i \in used,
         schedules'[i] # Absent, schedules[i].every # 0
  PROVE  OnGrid(schedules'[i].at, schedules[i].at, schedules[i].every)
<1>1. schedules[i] \in Entry /\ schedules[i] # Absent
  BY FieldsKept, Distinct
<1>2. schedules[i].at \in Nat /\ schedules[i].every \in Nat
  BY <1>1 DEF Entry
<1>3. \/ schedules'[i] = schedules[i]
      \/ \E p \in Threads : schedules'[i] = Applied(schedules[i], results[p][i])
      \/ schedules'[i] = Stopped(schedules[i], clock)
  BY StepEffect
<1>4. \A p \in Threads : results[p][i] \in Update \cup {NoUpdate}
  BY DEF TypeOK
<1>5. ASSUME NEW p \in Threads, schedules'[i] = Applied(schedules[i], results[p][i])
      PROVE  \/ schedules'[i].at = schedules[i].at
             \/ OnGrid(schedules'[i].at, schedules[i].at, schedules[i].every)
  <2>1. \/ schedules'[i].at = schedules[i].at
        \/ /\ results[p][i] # NoUpdate /\ results[p][i].status = "pending"
           /\ schedules'[i].at = results[p][i].at
    BY <1>1, <1>4, <1>5, AppliedAt
  <2> QED BY <1>1, <2>1 DEF SlotsOnGrid
<1>6. \/ schedules'[i].at = schedules[i].at
      \/ OnGrid(schedules'[i].at, schedules[i].at, schedules[i].every)
  BY <1>1, <1>3, <1>5, StoppedAt
<1> QED BY <1>2, <1>6, GridOfOne

LEMMA SlotsOnGridStep ==
  ASSUME WindowInv, SlotsOnGrid, [Next]_vars
  PROVE  SlotsOnGrid'
<1> USE DEF WindowInv
<1> SUFFICES ASSUME NEW i \in Ids, NEW p \in Threads,
                    schedules'[i] # Absent, schedules'[i].every # 0
             PROVE  /\ due'[p][i] # Absent =>
                         OnGrid(due'[p][i].at, schedules'[i].at, schedules'[i].every)
                    /\ results'[p][i] # NoUpdate /\ results'[p][i].status = "pending"
                         => OnGrid(results'[p][i].at, schedules'[i].at, schedules'[i].every)
  BY DEF SlotsOnGrid
<1>1. CASE i \notin used
  <2>1. due[p][i] = Absent /\ results[p][i] = NoUpdate /\ schedules[i] = Absent
    BY <1>1 DEF IdsGivenOut
  <2>2. due'[p][i] = Absent /\ results'[p][i] = NoUpdate
    BY <2>1, PassEffect, Distinct
  <2> QED BY <2>2
<1>2. CASE i \in used
  <2> DEFINE s == schedules[i].at
             t == schedules'[i].at
             every == schedules[i].every
  <2>1. schedules[i] \in Entry /\ schedules[i] # Absent /\ schedules'[i].every = every
    BY <1>2, FieldsKept, Distinct
  <2>2. s \in Nat /\ every \in Nat \ {0}
    BY <2>1 DEF Entry
  <2>3. t \in Nat
    <3>1. schedules' \in [Ids -> Entry \cup {Absent}]
      BY NextType DEF TypeOK
    <3> QED BY <3>1 DEF Entry
  <2>4. OnGrid(s, t, every)
    <3>1. OnGrid(t, s, every)
      BY <1>2, <2>1, <2>2, SlotMoves
    <3> QED BY <2>2, <2>3, <3>1, GridTurns
  <2>5. ASSUME NEW x \in Nat, OnGrid(x, s, every)
        PROVE  OnGrid(x, t, every)
    <3> HIDE DEF s, t, every
    <3> QED BY <2>2, <2>3, <2>4, <2>5, GridJoins
  <2>6. /\ due[p][i] \in Entry \cup {Absent} /\ passNow[p] \in Nat
        /\ results[p][i] \in Update \cup {NoUpdate}
    BY DEF TypeOK
  <2>7. ASSUME due[p][i] # Absent
        PROVE  due[p][i].at \in Nat /\ due[p][i].every = every /\ OnGrid(due[p][i].at, s, every)
    BY <2>1, <2>2, <2>6, <2>7 DEF SlotsOnGrid, SnapshotsAgree, Entry
  <2>8. ASSUME due'[p][i] # Absent
        PROVE  OnGrid(due'[p][i].at, t, every)
    <3>1. CASE due'[p][i] = due[p][i]
      BY <2>5, <2>7, <2>8, <3>1
    <3>2. CASE due'[p][i] = schedules[i] /\ schedules'[i] = schedules[i]
      BY <2>2, <3>2, GridOfOne
    <3> QED BY <2>8, <3>1, <3>2, PassEffect
  <2>9. ASSUME results'[p][i] # NoUpdate, results'[p][i].status = "pending"
        PROVE  OnGrid(results'[p][i].at, t, every)
    <3>1. CASE results'[p][i] = results[p][i]
      <4>1. OnGrid(results[p][i].at, s, every)
        BY <2>1, <2>2, <2>9, <3>1 DEF SlotsOnGrid
      <4>2. results[p][i].at \in Nat
        BY <2>6, <2>9, <3>1 DEF Update
      <4> QED BY <2>5, <3>1, <4>1, <4>2
    <3>2. ASSUME due[p][i] \in Entry, NEW late \in BOOLEAN, NEW ok \in BOOLEAN,
                 results'[p][i] = UpdateFor(due[p][i], passNow[p], late, ok)
          PROVE  OnGrid(results'[p][i].at, t, every)
      <4> DEFINE x == due[p][i].at
                 y == NextSlot(x, every, passNow[p])
      <4>1. x \in Nat /\ due[p][i].every = every /\ OnGrid(x, s, every)
        BY <2>7, <3>2, Distinct
      <4>2. FinalStatus(due[p][i], late, ok) # "pending"
        BY DEF FinalStatus
      <4>3. ArmsAgain(due[p][i], passNow[p])
        BY <2>9, <3>2, <4>2 DEF UpdateFor
      <4>4. results'[p][i].at = y
        BY <3>2, <4>1, <4>3 DEF UpdateFor
      <4> HIDE DEF x, s, t, every
      <4>5. y \in Nat /\ OnGrid(y, x, every)
        BY <2>2, <2>6, <4>1, NextSlotNat, NextSlotGrid
      <4> HIDE DEF y
      <4>6. OnGrid(y, s, every)
        BY <2>2, <4>1, <4>5, GridJoins
      <4> QED BY <2>5, <4>4, <4>5, <4>6
    <3> QED BY <2>9, <3>1, <3>2, PassEffect
  <2> QED BY <2>1, <2>8, <2>9
<1> QED BY <1>1, <1>2

LEMMA MinuteKept ==
  ASSUME WindowInv, SlotsOnGrid, [Next]_vars, NEW i \in Ids, Pending(schedules[i]),
         Pending(schedules'[i]), schedules[i].every # 0
  PROVE  LET a == schedules[i].at
             b == schedules'[i].at
         IN  (IF a > b THEN a - b ELSE b - a) % schedules[i].every = 0
<1> USE DEF WindowInv
<1>1. schedules[i] # Absent /\ schedules'[i] # Absent
  BY Distinct
<1>2. schedules[i] \in Entry /\ schedules'[i] \in Entry
  BY <1>1, NextType DEF TypeOK
<1>3. i \in used
  BY <1>1 DEF IdsGivenOut
<1>4. OnGrid(schedules'[i].at, schedules[i].at, schedules[i].every)
  BY <1>1, <1>3, SlotMoves
<1> DEFINE a == schedules[i].at
           b == schedules'[i].at
           e == schedules[i].every
<1>5. a \in Nat /\ b \in Nat /\ e \in Nat \ {0}
  BY <1>2 DEF Entry
<1>6. OnGrid(b, a, e)
  BY <1>4
<1> HIDE DEF a, b, e
<1>7. (IF a > b THEN a - b ELSE b - a) % e = 0
  BY <1>5, <1>6, GridTurns, GridDistance
<1> QED BY <1>7 DEF a, b, e

-----------------------------------------------------------------------------
(* The runs.  A pass that has not begun records nothing, an entry is not    *)
(* both to be handled and recorded, and only an id given out was attempted. *)
QuietPasses == \A p \in Threads : pc[p] \in {"idle", "scan", "age"} => results[p] = NoResults
OneResult   == \A p \in Threads, i \in Ids : due[p][i] # Absent => results[p][i] = NoUpdate
TriedIsUsed == \A i \in Ids : fires[i] # <<>> => i \in used
PassBooks   == QuietPasses /\ OneResult /\ TriedIsUsed

InFlight(p, i) == i \in cur[p] \/ (results[p][i] # NoUpdate /\ results[p][i].ran)

LEMMA UpdateForRan ==
  ASSUME NEW e \in Entry, NEW now \in Nat, NEW late \in BOOLEAN, NEW ok \in BOOLEAN
  PROVE  /\ UpdateFor(e, now, late, ok) # NoUpdate
         /\ UpdateFor(e, now, late, ok).ran <=> (e.every # 0 /\ ~late)
<1>1. UpdateFor(e, now, late, ok) # NoUpdate
  BY UpdateForType, Distinct
<1>2. UpdateFor(e, now, late, ok).ran = (e.every # 0 /\ ~late)
  BY Zenon DEF UpdateFor
<1> QED BY <1>1, <1>2

(* The typing steps either leave the pass alone or settle an entry of it.  *)
LEMMA FireShape ==
  ASSUME TypeOK, NEW p \in Threads, NEW j \in Ids, FireEntry(p, j)
  PROVE  /\ pc[p] \in {"fire", "text", "enter"} /\ due[p][j] \in Entry /\ due[p][j] # Absent
         /\ pc[p] = "fire" => cur[p] = {}
         /\ pc[p] # "fire" => cur[p] = {j}
         /\ UNCHANGED <<schedules, used, crashes>>
         /\ \/ UNCHANGED <<due, cur, results, fires>> /\ pc' \in {pc, [pc EXCEPT ![p] = "enter"]}
            \/ /\ pc[p] = "fire" /\ Attempted(p, j)
               /\ pc' = [pc EXCEPT ![p] = "text"] /\ cur' = [cur EXCEPT ![p] = {j}]
               /\ UNCHANGED <<due, results>>
            \/ pc[p] = "fire" /\ Settle(p, j, TRUE, FALSE) /\ UNCHANGED fires
            \/ pc[p] = "fire" /\ Settle(p, j, FALSE, FALSE) /\ Attempted(p, j)
            \/ /\ pc[p] # "fire" /\ UNCHANGED fires
               /\ \E ok \in BOOLEAN : Settle(p, j, FALSE, ok)
<1>1. pc[p] \in {"text", "enter"} /\ j \in cur[p] => due[p][j] # Absent /\ cur[p] = {j}
  BY DEF TypeOK
<1>2. pc[p] \notin {"text", "enter"} => cur[p] = {}
  BY DEF TypeOK
<1>3. due[p][j] # Absent => due[p][j] \in Entry
  BY DEF TypeOK
<1>4. CASE SkipLate(p, j)
  BY <1>2, <1>3, <1>4 DEF SkipLate
<1>5. CASE FailStopped(p, j)
  BY <1>2, <1>3, <1>5 DEF FailStopped
<1>6. CASE BeginTyping(p, j)
  BY <1>2, <1>3, <1>6 DEF BeginTyping
<1>7. CASE SendOk(p, j)
  BY <1>1, <1>3, <1>7 DEF SendOk
<1>8. CASE SendError(p, j)
  BY <1>1, <1>3, <1>8 DEF SendError, GiveUp
<1> QED BY <1>4, <1>5, <1>6, <1>7, <1>8 DEF FireEntry

LEMMA PassBooksStep ==
  ASSUME TypeOK, IdsGivenOut, PassBooks, [Next]_vars
  PROVE  PassBooks'
<1> USE DEF PassBooks
<1>1. CASE UNCHANGED <<pc, due, results, fires, used>>
  BY <1>1 DEF QuietPasses, OneResult, TriedIsUsed
<1>2. ASSUME NEW p \in Threads, EndPass(p), UNCHANGED <<fires, used>>
      PROVE  PassBooks'
  BY <1>2 DEF EndPass, QuietPasses, OneResult, TriedIsUsed, TypeOK, NoResults, NoEntries
<1>3. CASE Crash
  BY <1>3 DEF Crash, QuietPasses, OneResult, TriedIsUsed, NoResults, NoEntries
<1>4. ASSUME NEW p \in Threads, Scan(p)
      PROVE  PassBooks'
  <2>1. results[p] = NoResults /\ UNCHANGED <<results, fires, used>>
    BY <1>4 DEF Scan, QuietPasses
  <2>2. PICK D : due' = [due EXCEPT ![p] = D]
    BY <1>4 DEF Scan
  <2>3. \A q \in Threads : q # p => pc'[q] = pc[q]
    BY <1>4 DEF Scan, TypeOK
  <2> QED BY <2>1, <2>2, <2>3 DEF QuietPasses, OneResult, TriedIsUsed, TypeOK, NoResults
<1>5. ASSUME NEW h \in Handlers, NEW j \in Ids, NEW t \in Terminals,
             NEW o \in Offsets, NEW e \in Everys \cup {0},
             NEW u \in 0 .. MaxTime + Horizon, Create(h, j, t, o, e, u)
      PROVE  PassBooks'
  <2>1. UNCHANGED <<due, results, fires>> /\ used \subseteq used'
    BY <1>5 DEF Create
  <2>2. pc[h] = "idle" /\ pc' \in {pc, [pc EXCEPT ![h] = "scan"]}
    BY <1>5 DEF Create
  <2>3. \A q \in Threads : pc'[q] = pc[q] \/ pc[q] = "idle"
    BY <2>2 DEF TypeOK
  <2> QED BY <2>1, <2>3 DEF QuietPasses, OneResult, TriedIsUsed
<1>6. ASSUME NEW p \in Threads, NEW j \in Ids, FireEntry(p, j)
      PROVE  PassBooks'
  <2>1. used' = used /\ j \in used
    BY <1>6, FireShape DEF IdsGivenOut
  <2>2. TriedIsUsed'
    <3>1. CASE UNCHANGED fires
      BY <2>1, <3>1 DEF TriedIsUsed
    <3>2. CASE Attempted(p, j)
      BY <2>1, <3>2 DEF TriedIsUsed, Attempted, TypeOK
    <3> QED BY <1>6, <3>1, <3>2, FireShape
  <2>3. QuietPasses' /\ OneResult'
    <3>1. CASE UNCHANGED <<due, results>> /\ pc' \in {pc, [pc EXCEPT ![p] = "enter"], [pc EXCEPT ![p] = "text"]}
      <4>1. \A q \in Threads : pc'[q] \in {pc[q], "enter", "text"}
        BY <3>1 DEF TypeOK
      <4> QED BY <3>1, <4>1 DEF QuietPasses, OneResult
    <3>2. ASSUME NEW late \in BOOLEAN, NEW ok \in BOOLEAN, Settle(p, j, late, ok)
          PROVE  QuietPasses' /\ OneResult'
      <4>1. PICK x : results' = [results EXCEPT ![p][j] = x]
        BY <3>2 DEF Settle
      <4>2. due' = [due EXCEPT ![p][j] = Absent] /\ pc' = [pc EXCEPT ![p] = "fire"]
        BY <3>2 DEF Settle
      <4> QED BY <4>1, <4>2 DEF QuietPasses, OneResult, TypeOK
    <3> QED BY <1>6, <3>1, <3>2, FireShape
  <2> QED BY <2>2, <2>3
<1>7. CASE Tick \/ UNCHANGED vars \/ (\E t \in Terminals : StopTerminal(t) \/ StartTerminal(t))
           \/ \E j \in Ids : Cancel(j)
  <2>1. UNCHANGED <<pc, due, results, fires, used>>
    BY <1>7 DEF Tick, vars, passVars, StopTerminal, StartTerminal, Cancel
  <2> QED BY <1>1, <2>1
<1>8. ASSUME NEW p \in Threads, Age(p) \/ Apply(p)
      PROVE  PassBooks'
  BY <1>2, <1>8 DEF Age, Apply
<1> QED BY <1>3, <1>4, <1>5, <1>6, <1>7, <1>8 DEF Next, PassStep

(* A typing step begins at most one attempt, and its pass holds it until it *)
(* is recorded.                                                             *)
LEMMA FireBooks ==
  ASSUME TypeOK, OneResult, SnapshotsAgree, NEW p \in Threads, NEW j \in Ids,
         FireEntry(p, j), NEW i \in Ids, schedules[i] # Absent, schedules[i].every # 0
  PROVE  /\ \A q \in Threads \ {p} : InFlight(q, i)' <=> InFlight(q, i)
         /\ \/ fires'[i] = fires[i] /\ (InFlight(p, i)' <=> InFlight(p, i))
            \/ /\ ~InFlight(p, i) /\ InFlight(p, i)'
               /\ \E x \in Nat : fires'[i] = Append(fires[i], x)
<1> DEFINE Same  == fires'[i] = fires[i]
           Tried == \E x \in Nat : fires'[i] = Append(fires[i], x)
<1>1. /\ due[p][j] \in Entry /\ due[p][j] # Absent /\ passNow[p] \in Nat
      /\ results[p][j] = NoUpdate
  BY FireShape DEF TypeOK, OneResult
<1>2. ASSUME UNCHANGED fires
      PROVE  Same
  BY <1>2
<1>3. ASSUME Attempted(p, j)
      PROVE  (i # j => Same) /\ (i = j => Tried)
  <2>1. due[p][j].at \in Nat
    BY <1>1 DEF Entry
  <2> QED BY <1>3, <2>1 DEF Attempted, TypeOK
<1>4. i = j => due[p][j].every # 0
  BY <1>1 DEF SnapshotsAgree
<1>5. ASSUME NEW late \in BOOLEAN, NEW ok \in BOOLEAN, Settle(p, j, late, ok)
      PROVE  /\ \A q \in Threads \ {p} : cur'[q] = cur[q] /\ results'[q] = results[q]
             /\ cur'[p] = {}
             /\ i # j => results'[p][i] = results[p][i]
             /\ i = j => /\ results'[p][i] # NoUpdate
                         /\ results'[p][i].ran <=> ~late
  <2> DEFINE u == UpdateFor(due[p][j], passNow[p], late, ok)
  <2>1. u # NoUpdate /\ (u.ran <=> (due[p][j].every # 0 /\ ~late))
    BY <1>1, UpdateForRan
  <2>2. results' = [results EXCEPT ![p][j] = u] /\ cur' = [cur EXCEPT ![p] = {}]
    BY <1>5 DEF Settle
  <2> HIDE DEF u
  <2>3. /\ \A q \in Threads \ {p} : cur'[q] = cur[q] /\ results'[q] = results[q]
        /\ cur'[p] = {}
        /\ i # j => results'[p][i] = results[p][i]
        /\ i = j => results'[p][i] = u
    BY <2>2 DEF TypeOK
  <2> QED BY <1>4, <2>1, <2>3
<1> HIDE DEF Same, Tried
<1>6. CASE UNCHANGED <<cur, results, fires>>
  BY <1>2, <1>6 DEF InFlight, Same
<1>7. CASE /\ pc[p] = "fire" /\ Attempted(p, j)
           /\ cur' = [cur EXCEPT ![p] = {j}] /\ UNCHANGED results
  <2>1. cur[p] = {} /\ cur'[p] = {j} /\ \A q \in Threads \ {p} : cur'[q] = cur[q]
    BY <1>7, FireShape DEF TypeOK
  <2> QED BY <1>1, <1>3, <1>7, <2>1 DEF InFlight, Same, Tried
<1>8. CASE pc[p] = "fire" /\ Settle(p, j, TRUE, FALSE) /\ UNCHANGED fires
  <2>1. cur[p] = {}
    BY <1>8, FireShape
  <2> QED BY <1>1, <1>2, <1>5, <1>8, <2>1 DEF InFlight, Same
<1>9. CASE pc[p] = "fire" /\ Settle(p, j, FALSE, FALSE) /\ Attempted(p, j)
  <2>1. cur[p] = {}
    BY <1>9, FireShape
  <2> QED BY <1>1, <1>3, <1>5, <1>9, <2>1 DEF InFlight, Same, Tried
<1>10. ASSUME pc[p] # "fire", UNCHANGED fires, NEW ok \in BOOLEAN, Settle(p, j, FALSE, ok)
       PROVE  /\ \A q \in Threads \ {p} : InFlight(q, i)' <=> InFlight(q, i)
              /\ Same /\ (InFlight(p, i)' <=> InFlight(p, i))
  <2>1. cur[p] = {j}
    BY <1>10, FireShape
  <2> QED BY <1>1, <1>2, <1>5, <1>10, <2>1 DEF InFlight
<1>11. \/ UNCHANGED <<cur, results, fires>>
       \/ /\ pc[p] = "fire" /\ Attempted(p, j)
          /\ cur' = [cur EXCEPT ![p] = {j}] /\ UNCHANGED results
       \/ pc[p] = "fire" /\ Settle(p, j, TRUE, FALSE) /\ UNCHANGED fires
       \/ pc[p] = "fire" /\ Settle(p, j, FALSE, FALSE) /\ Attempted(p, j)
       \/ /\ pc[p] # "fire" /\ UNCHANGED fires
          /\ \E ok \in BOOLEAN : Settle(p, j, FALSE, ok)
  BY FireShape
<1> QED BY <1>6, <1>7, <1>8, <1>9, <1>10, <1>11 DEF Same

LEMMA AppliedRuns ==
  ASSUME NEW e \in Entry \cup {Absent}, NEW u \in Update \cup {NoUpdate},
         Pending(Applied(e, u))
  PROVE  /\ Pending(e) /\ e \in Entry /\ Applied(e, u).every = e.every
         /\ Applied(e, u).runs = IF u # NoUpdate /\ u.ran THEN e.runs + 1 ELSE e.runs
<1>1. Pending(e) /\ e \in Entry
  BY AppliedType, Distinct
<1>2. CASE u = NoUpdate
  BY <1>1, <1>2 DEF Applied
<1>3. CASE u # NoUpdate
  <2> DEFINE at    == IF u.status = "pending" THEN u.at ELSE e.at
             fired == IF u.fired = 0 THEN e.fired ELSE u.fired
             runs  == IF u.ran THEN e.runs + 1 ELSE e.runs
  <2>1. Applied(e, u) = [e EXCEPT !.status = u.status, !.at = at,
                                  !.fired = fired, !.runs = runs]
    BY <1>1, <1>3 DEF Applied
  <2> HIDE DEF at, fired
  <2>2. Applied(e, u).every = e.every /\ Applied(e, u).runs = runs
    BY <1>1, <2>1 DEF Entry
  <2> QED BY <1>1, <1>3, <2>2
<1> QED BY <1>2, <1>3

Counted(i) == Len(fires[i]) = schedules[i].runs + Cardinality(Unrecorded(i))

LEMMA UnrecordedFlies ==
  ASSUME NEW i \in Ids
  PROVE  Unrecorded(i) = {p \in Threads : InFlight(p, i)}
  BY DEF Unrecorded, InFlight

LEMMA UnrecordedFliesNext ==
  ASSUME NEW i \in Ids
  PROVE  Unrecorded(i)' = {p \in Threads : InFlight(p, i)'}
  BY DEF Unrecorded, InFlight

(* Nothing of a counted loop moved.                                        *)
LEMMA CountStays ==
  ASSUME NEW i \in Ids, Counted(i), schedules'[i].runs = schedules[i].runs,
         fires'[i] = fires[i], \A p \in Threads : InFlight(p, i)' <=> InFlight(p, i)
  PROVE  Counted(i)'
<1>1. Unrecorded(i)' = Unrecorded(i)
  BY UnrecordedFlies, UnrecordedFliesNext
<1> QED BY <1>1 DEF Counted

LEMMA CountAttempt ==
  ASSUME TypeOK, NEW i \in Ids, IsFiniteSet(Threads), Counted(i), NEW p \in Threads,
         schedules[i] \in Entry, schedules'[i] = schedules[i],
         \A q \in Threads \ {p} : InFlight(q, i)' <=> InFlight(q, i),
         ~InFlight(p, i), InFlight(p, i)', NEW x \in Nat, fires'[i] = Append(fires[i], x)
  PROVE  Counted(i)'
<1> DEFINE U == Unrecorded(i)
<1>1. Unrecorded(i)' = U \cup {p} /\ p \notin U /\ U \subseteq Threads
  BY UnrecordedFlies, UnrecordedFliesNext
<1> HIDE DEF U
<1>2. IsFiniteSet(U)
  BY <1>1, FS_Subset
<1>3. Cardinality(U \cup {p}) = IF p \in U THEN Cardinality(U) ELSE Cardinality(U) + 1
  BY <1>2, FS_AddElement, Zenon
<1>4. Cardinality(U) \in Nat /\ schedules[i].runs \in Nat
  BY <1>2, FS_CardinalityType DEF Entry
<1>5. Len(fires'[i]) = Len(fires[i]) + 1
  <2>1. fires[i] \in Seq(Nat)
    BY DEF TypeOK
  <2> QED BY <2>1
<1>6. Len(fires[i]) = schedules[i].runs + Cardinality(U)
  BY DEF Counted, U
<1>7. Len(fires'[i]) = schedules'[i].runs + Cardinality(U \cup {p})
  <2>1. Cardinality(U \cup {p}) = Cardinality(U) + 1
    BY <1>1, <1>3, Zenon
  <2>2. schedules'[i].runs = schedules[i].runs
    OBVIOUS
  <2> DEFINE c == Cardinality(U)
             d == Cardinality(U \cup {p})
             r == schedules[i].runs
             n == Len(fires[i])
             m == Len(fires'[i])
  <2>3. c \in Nat /\ r \in Nat /\ n = r + c /\ m = n + 1 /\ d = c + 1
    BY <1>4, <1>5, <1>6, <2>1, Zenon
  <2> HIDE DEF c, d, r, n, m
  <2>4. m = r + d
    BY <2>3
  <2> QED BY <2>2, <2>4, Zenon DEF d, m, r
<1> QED BY <1>1, <1>7, Zenon DEF Counted

(* The end of a pass moves its attempt from the threads to the file.       *)
LEMMA CountApply ==
  ASSUME TypeOK, NEW i \in Ids, IsFiniteSet(Threads), NEW p \in Threads, Apply(p),
         faults = 0, faults' = 0, Pending(schedules'[i]),
         Pending(schedules[i]) /\ schedules[i].every # 0 => Counted(i),
         schedules'[i].every # 0
  PROVE  Counted(i)'
<1>1. PICK r \in BOOLEAN, w \in BOOLEAN :
        /\ FileFaults(r, w)
        /\ SavePruned([k \in Ids |-> Applied(ReadAs(r)[k], results[p][k])], passNow[p], w)
  BY DEF Apply
<1>2. r = TRUE /\ w = TRUE
  BY <1>1 DEF FileFaults
<1>3. PICK K : schedules' = Restricted([k \in Ids |-> Applied(schedules[k], results[p][k])], K)
  BY <1>1, <1>2 DEF SavePruned, ReadAs
<1>4. schedules'[i] = Applied(schedules[i], results[p][i])
  BY <1>3, Distinct DEF Restricted
<1>5. schedules[i] \in Entry \cup {Absent} /\ results[p][i] \in Update \cup {NoUpdate}
  BY DEF TypeOK
<1> DEFINE ran == results[p][i] # NoUpdate /\ results[p][i].ran
<1>6. /\ Pending(schedules[i]) /\ schedules[i] \in Entry /\ schedules'[i].every = schedules[i].every
      /\ schedules'[i].runs = IF ran THEN schedules[i].runs + 1 ELSE schedules[i].runs
  BY <1>4, <1>5, AppliedRuns
<1>7. Counted(i)
  BY <1>6
<1>8. InFlight(p, i) <=> ran
  <2>1. cur[p] = {}
    BY DEF Apply, TypeOK
  <2> QED BY <2>1 DEF InFlight
<1>9. ~InFlight(p, i)' /\ \A q \in Threads \ {p} : InFlight(q, i)' <=> InFlight(q, i)
  <2>1. /\ cur' = [cur EXCEPT ![p] = {}] /\ results' = [results EXCEPT ![p] = NoResults]
    BY DEF Apply, EndPass
  <2> QED BY <2>1 DEF InFlight, TypeOK, NoResults
<1>10. fires'[i] = fires[i] /\ schedules[i].runs \in Nat
  BY <1>6 DEF Apply, Entry
<1> HIDE DEF ran
<1>11. CASE ~ran
  BY <1>6, <1>7, <1>8, <1>9, <1>10, <1>11, CountStays
<1>12. CASE ran
  <2> DEFINE U == Unrecorded(i)
  <2>1. Unrecorded(i)' = U \ {p} /\ p \in U /\ U \subseteq Threads
    BY <1>8, <1>9, <1>12, UnrecordedFlies, UnrecordedFliesNext
  <2>2. Len(fires[i]) = schedules[i].runs + Cardinality(U)
    BY <1>7 DEF Counted
  <2> HIDE DEF U
  <2>3. IsFiniteSet(U)
    BY <2>1, FS_Subset
  <2>4. Cardinality(U \ {p}) = IF p \in U THEN Cardinality(U) - 1 ELSE Cardinality(U)
    BY <2>3, FS_RemoveElement, Zenon
  <2>5. Cardinality(U) \in Nat
    BY <2>3, FS_CardinalityType
  <2>6. Len(fires'[i]) = schedules'[i].runs + Cardinality(U \ {p})
    <3>1. schedules'[i].runs = schedules[i].runs + 1
      BY <1>6, <1>12
    <3>2. Cardinality(U \ {p}) = Cardinality(U) - 1
      BY <2>1, <2>4
    <3> QED BY <1>10, <2>2, <2>5, <3>1, <3>2
  <2> QED BY <2>1, <2>6 DEF Counted
<1> QED BY <1>11, <1>12

BooksInv == WindowInv /\ SlotsOnGrid /\ PassBooks /\ Capped /\ RunsAccount

(* A step keeps the count of every pending loop, as long as the file is     *)
(* read and written well and the manager stays up.                          *)
LEMMA RunsStep ==
  ASSUME BooksInv, IsFiniteSet(Threads), [Next]_vars, faults' = 0, crashes' = 0,
         NEW i \in Ids, Pending(schedules'[i]), schedules'[i].every # 0
  PROVE  Counted(i)'
<1> USE DEF BooksInv, WindowInv, PassBooks
<1>1. faults = 0 /\ crashes = 0 /\ ~Crash
  <2>1. faults \in Nat /\ crashes \in Nat
    BY DEF TypeOK
  <2>2. ~Crash
    BY <2>1 DEF Crash
  <2>3. \A r, w \in BOOLEAN : FileFaults(r, w) => faults <= faults'
    BY <2>1 DEF FileFaults
  <2>4. ASSUME \/ Tick \/ UNCHANGED vars
               \/ \E t \in Terminals : StopTerminal(t) \/ StartTerminal(t)
        PROVE  crashes' = crashes /\ faults <= faults'
    BY <2>1, <2>4 DEF Tick, vars, StopTerminal, StartTerminal
  <2>5. ASSUME NEW h, NEW j, NEW t, NEW o, NEW e, NEW u, Create(h, j, t, o, e, u)
        PROVE  crashes' = crashes /\ faults <= faults'
    BY <2>3, <2>5 DEF Create
  <2>6. ASSUME NEW j, Cancel(j)
        PROVE  crashes' = crashes /\ faults <= faults'
    BY <2>3, <2>6 DEF Cancel
  <2>7. ASSUME NEW p \in Threads, Scan(p) \/ Age(p) \/ Apply(p)
        PROVE  crashes' = crashes /\ faults <= faults'
    <3>1. crashes' = crashes
      BY <2>7 DEF Scan, Age, Apply
    <3>2. \E r, w \in BOOLEAN : FileFaults(r, w)
      BY <2>7 DEF Scan, Age, Apply
    <3> QED BY <2>3, <3>1, <3>2
  <2>8. ASSUME NEW p \in Threads, NEW j \in Ids, FireEntry(p, j)
        PROVE  crashes' = crashes /\ faults <= faults'
    <3>1. crashes' = crashes
      BY <2>8, FireShape
    <3>2. faults' = faults \/ faults' = faults + 1
      BY <2>8 DEF FireEntry, SkipLate, FailStopped, BeginTyping, SendOk, SendError
    <3> QED BY <2>1, <3>1, <3>2
  <2>9. crashes' = crashes /\ faults <= faults'
    BY <2>2, <2>4, <2>5, <2>6, <2>7, <2>8 DEF Next, PassStep
  <2> QED BY <2>1, <2>2, <2>9
<1>2. Pending(schedules[i]) /\ schedules[i].every # 0 => Counted(i)
  BY <1>1 DEF RunsAccount, Counted
<1>3. ASSUME i \in used, ~ \E p \in Threads : Apply(p)
      PROVE  /\ schedules'[i] = schedules[i] /\ Counted(i)
             /\ schedules[i] \in Entry /\ schedules[i] # Absent /\ schedules[i].every # 0
  <2>1. schedules[i] \in Entry /\ schedules[i] # Absent
    BY <1>3, FieldsKept, Distinct
  <2>2. schedules'[i] = schedules[i]
    BY <1>3, <2>1, StepEffect, StoppedKeeps, Distinct
  <2> QED BY <1>2, <2>1, <2>2
<1>4. CASE UNCHANGED <<cur, results, fires>> /\ ~ \E p \in Threads : Apply(p)
  <2>1. \A p \in Threads : InFlight(p, i)' <=> InFlight(p, i)
    BY <1>4 DEF InFlight
  <2>2. CASE i \in used
    BY <1>3, <1>4, <2>1, <2>2, CountStays
  <2>3. CASE i \notin used
    <3>1. \A p \in Threads : due[p][i] = Absent /\ results[p][i] = NoUpdate
      BY <2>3 DEF IdsGivenOut
    <3>2. \A p \in Threads : i \notin cur[p]
      BY <3>1 DEF TypeOK
    <3>3. Unrecorded(i)' = {}
      BY <2>1, <3>1, <3>2, UnrecordedFliesNext DEF InFlight
    <3>4. fires'[i] = <<>>
      BY <1>4, <2>3 DEF TriedIsUsed
    <3>5. schedules[i] = Absent
      BY <2>3 DEF IdsGivenOut
    <3>6. schedules'[i].runs = 0
      <4>1. ~UNCHANGED schedules
        BY <3>5, Distinct
      <4>2. PICK h \in Handlers, j \in Ids, t \in Terminals, o \in Offsets,
                 e \in Everys \cup {0}, u \in 0 .. MaxTime + Horizon :
                   Create(h, j, t, o, e, u)
        <5>1. ~ \E j \in Ids : Cancel(j)
          BY <3>5, CancelEffect, Distinct
        <5>2. ~ \E p \in Threads : Age(p)
          BY <3>5, AgeEffect, Distinct
        <5> QED BY <1>4, <4>1, <5>1, <5>2, OtherEffect DEF Next, PassStep
      <4> DEFINE asked == clock + o - Shift
                 at    == IF asked + PastTolerance < clock
                          THEN NextSlot(asked, e, clock) ELSE asked
                 entry == [term |-> t, at |-> at, every |-> e, until |-> u,
                           status |-> "pending", fired |-> 0, runs |-> 0]
      <4>3. PICK r \in BOOLEAN, w \in BOOLEAN :
              SavePruned([ReadAs(r) EXCEPT ![j] = entry], clock, w)
        BY <4>2 DEF Create
      <4>4. entry.runs = 0
        BY Zenon
      <4> HIDE DEF asked, at, entry
      <4>5. PICK K : schedules' = IF w THEN Restricted([ReadAs(r) EXCEPT ![j] = entry], K)
                                       ELSE schedules
        BY <4>3 DEF SavePruned
      <4>6. schedules'[i] # Absent
        BY Distinct
      <4>7. ReadAs(r) \in [Ids -> Entry \cup {Absent}] /\ ReadAs(r)[i] = Absent
        BY <3>5, ReadAsType, ReadAsEffect
      <4> QED BY <3>5, <4>4, <4>5, <4>6, <4>7 DEF Restricted
    <3> QED BY <3>3, <3>4, <3>6, FS_EmptySet DEF Counted
  <2> QED BY <2>2, <2>3
<1>5. ASSUME NEW p \in Threads, NEW j \in Ids, FireEntry(p, j)
      PROVE  Counted(i)'
  <2>1. UNCHANGED <<schedules, used>>
    BY <1>5, FireShape
  <2>2. /\ schedules[i] # Absent /\ schedules[i] \in Entry /\ Counted(i)
        /\ schedules[i].every # 0 /\ schedules'[i] = schedules[i]
    BY <1>2, <2>1, Distinct DEF TypeOK
  <2>3. /\ \A q \in Threads \ {p} : InFlight(q, i)' <=> InFlight(q, i)
        /\ \/ fires'[i] = fires[i] /\ (InFlight(p, i)' <=> InFlight(p, i))
           \/ /\ ~InFlight(p, i) /\ InFlight(p, i)'
              /\ \E x \in Nat : fires'[i] = Append(fires[i], x)
    BY <1>5, <2>2, FireBooks
  <2> QED BY <2>2, <2>3, CountStays, CountAttempt
<1>6. ASSUME NEW p \in Threads, Apply(p)
      PROVE  Counted(i)'
  BY <1>1, <1>2, <1>6, CountApply
<1>7. ASSUME NEW p \in Threads, Age(p), ~ \E q \in Threads : Apply(q)
      PROVE  Counted(i)'
  <2>1. cur[p] = {} /\ results[p] = NoResults
    BY <1>7 DEF Age, TypeOK, QuietPasses
  <2>2. cur' = [cur EXCEPT ![p] = {}] /\ results' = [results EXCEPT ![p] = NoResults]
        /\ fires' = fires
    BY <1>7 DEF Age, EndPass
  <2>3. UNCHANGED <<cur, results, fires>>
    BY <2>1, <2>2 DEF TypeOK
  <2> QED BY <1>4, <1>7, <2>3
<1>8. CASE \/ Tick \/ UNCHANGED vars
           \/ \E t \in Terminals : StopTerminal(t) \/ StartTerminal(t)
           \/ \E p \in Threads : Scan(p)
           \/ \E j \in Ids : Cancel(j)
           \/ \E h \in Handlers, j \in Ids, t \in Terminals, o \in Offsets,
                 e \in Everys \cup {0}, u \in 0 .. MaxTime + Horizon :
                Create(h, j, t, o, e, u)
  <2>1. UNCHANGED <<cur, results, fires>>
    <3>1. ASSUME NEW h, NEW j, NEW t, NEW o, NEW e, NEW u, Create(h, j, t, o, e, u)
          PROVE  UNCHANGED <<cur, results, fires>>
      BY <3>1 DEF Create
    <3>2. ASSUME NEW j, Cancel(j)
          PROVE  UNCHANGED <<cur, results, fires>>
      BY <3>2 DEF Cancel, passVars
    <3>3. ASSUME NEW p, Scan(p)
          PROVE  UNCHANGED <<cur, results, fires>>
      BY <3>3 DEF Scan
    <3>4. CASE \/ Tick \/ UNCHANGED vars
               \/ \E t \in Terminals : StopTerminal(t) \/ StartTerminal(t)
      BY <3>4 DEF Tick, vars, passVars, StopTerminal, StartTerminal
    <3> QED BY <1>8, <3>1, <3>2, <3>3, <3>4
  <2> QED BY <1>4, <1>6, <2>1
<1> QED BY <1>1, <1>5, <1>6, <1>7, <1>8 DEF Next, PassStep

-----------------------------------------------------------------------------
(* With finitely many request threads: the cap is never exceeded, every     *)
(* attempt at a loop is counted once however passes overlap, and a loop     *)
(* stays on the grid of the slot it was scheduled for.                      *)
THEOREM BooksBalance ==
  ASSUME IsFiniteSet(Handlers)
  PROVE  Spec => LoopsKeepCount
<1>1. IsFiniteSet(Threads)
  BY FS_AddElement DEF Threads
<1>2. Init => BooksInv
  <2> SUFFICES ASSUME Init PROVE BooksInv
    OBVIOUS
  <2>1. WindowInv
    <3>1. IdsGivenOut /\ SnapshotsAgree /\ LoopInWindow
      BY DEF Init, IdsGivenOut, SnapshotsAgree, LoopInWindow, NoEntries, NoResults,
             Pending, Absent
    <3> QED BY <3>1, InitType DEF WindowInv
  <2>2. SlotsOnGrid /\ PassBooks
    BY DEF Init, SlotsOnGrid, PassBooks, QuietPasses, OneResult, TriedIsUsed,
           NoEntries, NoResults
  <2>3. Capped
    <3>1. \A u \in Users : PendingOf(schedules, u) = {}
      BY Distinct DEF Init, PendingOf, NoEntries
    <3>2. Cardinality({}) <= MaxPerUser
      BY FS_EmptySet, SchedulesAssumption
    <3> QED BY <3>1, <3>2, FS_EmptySet DEF Capped
  <2>4. RunsAccount
    BY Distinct DEF Init, RunsAccount, NoEntries
  <2> QED BY <2>1, <2>2, <2>3, <2>4 DEF BooksInv
<1>3. BooksInv /\ [Next]_vars => BooksInv'
  <2> SUFFICES ASSUME BooksInv, [Next]_vars PROVE BooksInv'
    OBVIOUS
  <2>1. WindowInv'
    BY NextType, IdsGivenOutStep, SnapshotsAgreeStep, LoopInWindowStep DEF BooksInv, WindowInv
  <2>2. SlotsOnGrid' /\ PassBooks' /\ Capped'
    BY SlotsOnGridStep, PassBooksStep, CappedStep DEF BooksInv, WindowInv
  <2>3. RunsAccount'
    <3> SUFFICES ASSUME faults' = 0, crashes' = 0, NEW i \in Ids,
                        Pending(schedules'[i]), schedules'[i].every # 0
                 PROVE  Counted(i)'
      BY DEF RunsAccount, Counted, Unrecorded, Pending
    <3> QED BY <1>1, RunsStep
  <2> QED BY <2>1, <2>2, <2>3 DEF BooksInv
<1>4. BooksInv => PendingCap /\ RunsAccount
  BY DEF BooksInv, Capped, PendingCap
<1>5. BooksInv /\ [Next]_vars =>
        [\A i \in Ids :
           Pending(schedules[i]) /\ Pending(schedules'[i]) /\ schedules[i].every # 0
             => LET a == schedules[i].at
                    b == schedules'[i].at
                IN  (IF a > b THEN a - b ELSE b - a) % schedules[i].every = 0]_vars
  BY MinuteKept DEF BooksInv
<1> QED BY <1>2, <1>3, <1>4, <1>5, PTL DEF Spec, LoopsKeepCount, LoopKeepsItsMinute
-----------------------------------------------------------------------------
(* What is reported as sent was submitted, or a send of it vanished.        *)
(* Between the text and the Enter an entry is in its terminal's line, or    *)
(* another pass's Enter took it, or its text was lost on the way.           *)
Told == submitted \cup dropped
InLine(t, i)  == \E n \in 1 .. Len(line[t]) : line[t][n] = i
Reached(t, i) == i \in Told \/ InLine(t, i)

SentInv ==
  /\ TypeOK
  /\ stops = 0 =>
       /\ \A i \in Ids : schedules[i].status = "sent" => i \in Told
       /\ \A p \in Threads, i \in Ids : results[p][i].status = "sent" => i \in Told
       /\ \A p \in Threads, i \in Ids :
            pc[p] = "enter" /\ i \in cur[p] => Reached(due[p][i].term, i)

(* What a typing step does to the lines: it adds to one, or submits one.    *)
LEMMA ReceiveEffect ==
  ASSUME TypeOK, NEW p \in Threads, NEW j \in Ids, NEW u \in Terminals,
         Receive(p, j, u), dropped \subseteq dropped'
  PROVE  /\ Told \subseteq Told'
         /\ \A t \in Terminals, i \in Ids : Reached(t, i) => Reached(t, i)'
         /\ pc[p] = "text" => InLine(u, j)'
         /\ pc[p] # "text" => \A i \in Ids : Reached(u, i) => i \in Told'
<1>1. line[u] \in Seq(Ids) /\ Len(line[u]) \in Nat
  BY LenProperties DEF TypeOK
<1>2. CASE pc[p] = "text"
  <2>1. line' = [line EXCEPT ![u] = Append(line[u], j)] /\ submitted' = submitted
    BY <1>2 DEF Receive
  <2>2. /\ Len(Append(line[u], j)) = Len(line[u]) + 1
        /\ Append(line[u], j)[Len(line[u]) + 1] = j
        /\ \A n \in 1 .. Len(line[u]) : Append(line[u], j)[n] = line[u][n]
    BY <1>1, AppendProperties
  <2>3. line'[u] = Append(line[u], j) /\ \A t \in Terminals \ {u} : line'[t] = line[t]
    BY <2>1 DEF TypeOK
  <2>4. /\ Len(line'[u]) = Len(line[u]) + 1 /\ line'[u][Len(line[u]) + 1] = j
        /\ \A n \in 1 .. Len(line[u]) : line'[u][n] = line[u][n]
    BY <2>2, <2>3
  <2>5. /\ Len(line[u]) + 1 \in 1 .. Len(line'[u])
        /\ \A n \in 1 .. Len(line[u]) : n \in 1 .. Len(line'[u])
    BY <1>1, <2>4
  <2>6. InLine(u, j)' /\ \A i \in Ids : InLine(u, i) => InLine(u, i)'
    BY <2>4, <2>5 DEF InLine
  <2>7. \A t \in Terminals \ {u}, i \in Ids : InLine(t, i) => InLine(t, i)'
    BY <2>3 DEF InLine
  <2> QED BY <1>2, <2>1, <2>6, <2>7 DEF Reached, Told
<1>3. CASE pc[p] # "text"
  <2>1. /\ line' = [line EXCEPT ![u] = <<>>]
        /\ submitted' = submitted \cup {line[u][n] : n \in 1 .. Len(line[u])}
    BY <1>3 DEF Receive
  <2>2. \A t \in Terminals \ {u} : line'[t] = line[t]
    BY <2>1 DEF TypeOK
  <2>3. \A i \in Ids : Reached(u, i) => i \in Told'
    BY <2>1 DEF Reached, InLine, Told
  <2>4. \A t \in Terminals \ {u}, i \in Ids : Reached(t, i) => Reached(t, i)'
    BY <2>1, <2>2 DEF Reached, InLine, Told
  <2> QED BY <1>3, <2>1, <2>3, <2>4 DEF Reached, Told
<1> QED BY <1>2, <1>3

(* Unless a terminal is stopped, what reached it stays reached.             *)
LEMMA ReachedStays ==
  ASSUME TypeOK, [Next]_vars, stops' = 0
  PROVE  /\ stops = 0 /\ Told \subseteq Told'
         /\ \A t \in Terminals, i \in Ids : Reached(t, i) => Reached(t, i)'
<1>1. CASE UNCHANGED <<stops, line, submitted, dropped>>
  BY <1>1 DEF Reached, InLine, Told
<1>2. ASSUME NEW p \in Threads, NEW j \in Ids, FireEntry(p, j)
      PROVE  /\ stops = 0 /\ Told \subseteq Told'
             /\ \A t \in Terminals, i \in Ids : Reached(t, i) => Reached(t, i)'
  <2>1. CASE SkipLate(p, j) \/ FailStopped(p, j) \/ BeginTyping(p, j)
    BY <1>1, <2>1 DEF SkipLate, FailStopped, BeginTyping, termVars
  <2>2. CASE SendOk(p, j) \/ SendError(p, j)
    <3>1. stops = 0
      BY <2>2 DEF SendOk, SendError
    <3>2. /\ \/ UNCHANGED <<line, submitted>>
             \/ Receive(p, j, due[p][j].term)
          /\ dropped \subseteq dropped'
      BY <2>2 DEF SendOk, SendError, Vanishes
    <3>3. due[p][j].term \in Terminals
      BY <1>2, FireShape DEF Entry
    <3>4. CASE UNCHANGED <<line, submitted>>
      BY <3>1, <3>2, <3>4 DEF Reached, InLine, Told
    <3>5. CASE Receive(p, j, due[p][j].term)
      BY <3>1, <3>2, <3>3, <3>5, ReceiveEffect
    <3> QED BY <3>2, <3>4, <3>5
  <2> QED BY <1>2, <2>1, <2>2 DEF FireEntry
<1>3. ASSUME NEW t \in Terminals, StopTerminal(t)
      PROVE  FALSE
  BY <1>3 DEF StopTerminal, TypeOK
<1>4. ASSUME NEW p \in Threads, Scan(p) \/ Age(p) \/ Apply(p)
      PROVE  UNCHANGED <<stops, line, submitted, dropped>>
  BY <1>4 DEF Scan, Age, Apply, termVars
<1>5. CASE \/ Tick \/ Crash \/ UNCHANGED vars
           \/ \E t \in Terminals : StartTerminal(t)
           \/ \E j \in Ids : Cancel(j)
           \/ \E h \in Handlers, j \in Ids, t \in Terminals, o \in Offsets,
                 e \in Everys \cup {0}, u \in 0 .. MaxTime + Horizon :
                Create(h, j, t, o, e, u)
  <2>1. \A h, j, t, o, e, u : Create(h, j, t, o, e, u) => UNCHANGED <<stops, line, submitted, dropped>>
    BY DEF Create, termVars
  <2>2. \A j : Cancel(j) => UNCHANGED <<stops, line, submitted, dropped>>
    BY DEF Cancel, termVars
  <2>3. \A t : StartTerminal(t) => UNCHANGED <<stops, line, submitted, dropped>>
    BY DEF StartTerminal
  <2>4. UNCHANGED <<stops, line, submitted, dropped>>
    BY <1>5, <2>1, <2>2, <2>3 DEF Tick, Crash, vars, termVars
  <2> QED BY <1>1, <2>4
<1> QED BY <1>1, <1>2, <1>3, <1>4, <1>5 DEF Next, PassStep

(* A pass comes to wait for its Enter only with its text in the line, or    *)
(* with a text that vanished.                                               *)
LEMMA EnterEffect ==
  ASSUME TypeOK, [Next]_vars, NEW q \in Threads, NEW i \in Ids,
         pc'[q] = "enter", i \in cur'[q]
  PROVE  \E t \in Terminals : /\ t = due[q][i].term /\ t = due'[q][i].term
                              /\ (pc[q] = "enter" /\ i \in cur[q]) \/ InLine(t, i)' \/ i \in dropped'
<1> DEFINE Goal == \E t \in Terminals :
                     /\ t = due[q][i].term /\ t = due'[q][i].term
                     /\ (pc[q] = "enter" /\ i \in cur[q]) \/ InLine(t, i)' \/ i \in dropped'
<1>1. pc[q] = "enter" /\ cur'[q] = cur[q] /\ due'[q] = due[q] => Goal
  <2> SUFFICES ASSUME pc[q] = "enter", cur'[q] = cur[q], due'[q] = due[q]
               PROVE  Goal
    OBVIOUS
  <2>1. due[q][i] \in Entry
    BY DEF TypeOK
  <2> QED BY <2>1 DEF Entry
<1>2. ASSUME NEW p \in Threads, NEW j \in Ids, FireEntry(p, j)
      PROVE  Goal
  <2>1. PICK t \in Terminals : t = due[p][j].term
    BY <1>2, FireShape DEF Entry
  <2>2. \/ UNCHANGED <<due, cur>> /\ pc' \in {pc, [pc EXCEPT ![p] = "enter"]}
        \/ /\ pc' = [pc EXCEPT ![p] = "text"] /\ cur' = [cur EXCEPT ![p] = {j}]
           /\ due' = due
        \/ \E late, ok \in BOOLEAN : Settle(p, j, late, ok)
    BY <1>2, FireShape
  <2>3. CASE q # p
    <3>1. pc'[q] = pc[q] /\ cur'[q] = cur[q] /\ due'[q] = due[q]
      <4>1. \A late, ok \in BOOLEAN : Settle(p, j, late, ok) =>
              pc'[q] = pc[q] /\ cur'[q] = cur[q] /\ due'[q] = due[q]
        BY <2>3 DEF Settle, TypeOK
      <4> QED BY <2>2, <2>3, <4>1 DEF TypeOK
    <3> HIDE DEF Goal
    <3> QED BY <1>1, <3>1
  <2>4. CASE q = p
    <3>1. ~\E late, ok \in BOOLEAN : Settle(p, j, late, ok)
      BY <2>4 DEF Settle, TypeOK
    <3>2. ~(pc' = [pc EXCEPT ![p] = "text"])
      BY <2>4 DEF TypeOK
    <3>3. UNCHANGED <<due, cur>>
      BY <2>2, <3>1, <3>2
    <3>4. pc[p] # "fire" /\ cur[p] = {j}
      BY <1>2, <2>4, <3>3, FireShape
    <3>5. i = j
      BY <2>4, <3>3, <3>4
    <3>6. CASE pc[p] = "enter"
      BY <2>1, <2>4, <3>3, <3>5, <3>6
    <3>7. CASE pc[p] # "enter"
      <4>1. pc[p] = "text" /\ pc' # pc
        BY <1>2, <2>4, <3>4, <3>7, FireShape
      <4>2. SendOk(p, j)
        BY <1>2, <3>1, <4>1 DEF FireEntry, SkipLate, FailStopped, BeginTyping, SendError, GiveUp
      <4>3. (Receive(p, j, t) /\ dropped' = dropped) \/ j \in dropped'
        BY <2>1, <4>2 DEF SendOk, Vanishes
      <4>4. InLine(t, j)' \/ j \in dropped'
        BY <4>1, <4>3, ReceiveEffect
      <4> QED BY <2>1, <2>4, <3>3, <3>5, <4>4
    <3> QED BY <3>6, <3>7
  <2> QED BY <2>3, <2>4
<1>3. ASSUME NEW p \in Threads, Scan(p)
      PROVE  pc[q] = "enter" /\ cur'[q] = cur[q] /\ due'[q] = due[q]
  BY <1>3 DEF Scan, TypeOK
<1>4. ASSUME NEW p \in Threads, Age(p) \/ Apply(p)
      PROVE  pc[q] = "enter" /\ cur'[q] = cur[q] /\ due'[q] = due[q]
  BY <1>4 DEF Age, Apply, EndPass, TypeOK
<1>5. ~Crash
  BY DEF Crash
<1>6. ASSUME NEW h \in Handlers, NEW j \in Ids, NEW t \in Terminals,
             NEW o \in Offsets, NEW e \in Everys \cup {0},
             NEW u \in 0 .. MaxTime + Horizon, Create(h, j, t, o, e, u)
      PROVE  pc[q] = "enter" /\ cur'[q] = cur[q] /\ due'[q] = due[q]
  <2>1. cur' = cur /\ due' = due /\ pc' \in {pc, [pc EXCEPT ![h] = "scan"]}
    BY <1>6 DEF Create
  <2> QED BY <2>1 DEF TypeOK
<1>7. ASSUME \/ Tick \/ UNCHANGED vars
             \/ \E t \in Terminals : StopTerminal(t) \/ StartTerminal(t)
             \/ \E j \in Ids : Cancel(j)
      PROVE  Goal
  <2>1. \A j : Cancel(j) => UNCHANGED <<pc, cur, due>>
    BY DEF Cancel, passVars
  <2>2. UNCHANGED <<pc, cur, due>>
    BY <1>7, <2>1 DEF Tick, vars, passVars, StopTerminal, StartTerminal
  <2> HIDE DEF Goal
  <2> QED BY <1>1, <2>2
<1> HIDE DEF Goal
<1>8. Goal
  BY <1>1, <1>2, <1>3, <1>4, <1>5, <1>6, <1>7 DEF Next, PassStep
<1> QED BY <1>8 DEF Goal

(* Only an Enter that raised nothing is recorded as sent.                   *)
LEMMA SentByEnter ==
  ASSUME TypeOK, [Next]_vars, NEW q \in Threads, NEW i \in Ids,
         results'[q][i].status = "sent"
  PROVE  \/ results[q][i].status = "sent"
         \/ /\ pc[q] = "enter" /\ i \in cur[q]
            /\ due[q][i].term \in Terminals
            /\ Receive(q, i, due[q][i].term) \/ i \in dropped'
            /\ dropped \subseteq dropped'
<1>1. NoUpdate.status # "sent"
  BY DEF NoUpdate
<1>2. \A e, now, late : UpdateFor(e, now, late, FALSE).status # "sent"
  BY DEF UpdateFor, FinalStatus
<1>3. CASE results'[q][i] \in {results[q][i], NoUpdate}
  BY <1>1, <1>3
<1>4. ASSUME NEW p \in Threads, NEW j \in Ids, FireEntry(p, j),
             results'[q][i] # results[q][i]
      PROVE  /\ pc[q] = "enter" /\ i \in cur[q]
             /\ due[q][i].term \in Terminals
             /\ Receive(q, i, due[q][i].term) \/ i \in dropped'
             /\ dropped \subseteq dropped'
  <2>1. \A late, ok \in BOOLEAN : Settle(p, j, late, ok) =>
          /\ p = q /\ i = j
          /\ results'[q][i] = UpdateFor(due[q][i], passNow[q], late, ok)
    BY <1>4 DEF Settle, TypeOK
  <2>2. ~Settle(p, j, TRUE, FALSE) /\ ~Settle(p, j, FALSE, FALSE)
    BY <1>2, <2>1
  <2>3. ~UNCHANGED results
    BY <1>4
  <2>4. SendOk(p, j) /\ pc[p] # "text"
    BY <1>4, <2>2, <2>3 DEF FireEntry, SkipLate, FailStopped, BeginTyping, SendOk, SendError, GiveUp
  <2>5. Settle(p, j, FALSE, TRUE)
    BY <2>4 DEF SendOk
  <2>6. p = q /\ i = j
    BY <2>1, <2>5
  <2>7. due[p][j].term \in Terminals
    BY <1>4, FireShape DEF Entry
  <2> QED BY <2>4, <2>6, <2>7 DEF SendOk, Vanishes
<1>5. CASE results'[q][i] \notin {results[q][i], NoUpdate}
  <2>1. PICK p \in Threads, j \in Ids : FireEntry(p, j)
    <3>1. ~UNCHANGED results
      BY <1>5
    <3>2. ASSUME NEW p \in Threads, EndPass(p) PROVE FALSE
      BY <1>5, <3>2 DEF EndPass, TypeOK, NoResults
    <3>3. ~Crash
      BY <1>5 DEF Crash, NoResults
    <3>4. \A p \in Threads : ~Scan(p) /\ ~Age(p) /\ ~Apply(p)
      BY <3>1, <3>2 DEF Scan, Age, Apply
    <3>5. ~Tick /\ ~UNCHANGED vars /\ \A t \in Terminals : ~StopTerminal(t) /\ ~StartTerminal(t)
      BY <3>1 DEF Tick, vars, passVars, StopTerminal, StartTerminal
    <3>6. \A j \in Ids : ~Cancel(j)
      BY <3>1 DEF Cancel, passVars
    <3>7. \A h, j, t, o, e, u : ~Create(h, j, t, o, e, u)
      BY <3>1 DEF Create
    <3> QED BY <3>3, <3>4, <3>5, <3>6, <3>7 DEF Next, PassStep
  <2> QED BY <1>4, <1>5, <2>1
<1> QED BY <1>3, <1>5

LEMMA SentInvStep ==
  ASSUME SentInv, [Next]_vars
  PROVE  SentInv'
<1> USE DEF SentInv
<1>1. TypeOK'
  BY NextType
<1> SUFFICES ASSUME stops' = 0
             PROVE  /\ \A i \in Ids : schedules'[i].status = "sent" => i \in Told'
                    /\ \A p \in Threads, i \in Ids :
                         results'[p][i].status = "sent" => i \in Told'
                    /\ \A p \in Threads, i \in Ids :
                         pc'[p] = "enter" /\ i \in cur'[p] => Reached(due[p][i].term, i)'
  BY <1>1
<1>2. /\ stops = 0 /\ Told \subseteq Told'
      /\ \A t \in Terminals, i \in Ids : Reached(t, i) => Reached(t, i)'
  BY ReachedStays
<1>3. ASSUME NEW i \in Ids, schedules'[i].status = "sent"
      PROVE  i \in Told'
  <2>1. ~Pending(schedules'[i]) /\ schedules'[i] # Absent
    BY <1>3 DEF Pending, Absent
  <2>2. \/ schedules'[i] = schedules[i]
        \/ \E p \in Threads : schedules'[i] = Applied(schedules[i], results[p][i])
        \/ Pending(schedules[i]) /\ schedules'[i] = Stopped(schedules[i], clock)
    BY <2>1, StepEffect
  <2>3. CASE Pending(schedules[i]) /\ schedules'[i] = Stopped(schedules[i], clock)
    <3>1. schedules[i] \in Entry
      BY <2>3 DEF TypeOK, Pending, Absent
    <3>2. schedules'[i].status = "stopped"
      BY <2>3, <3>1 DEF Stopped, Entry
    <3> QED BY <1>3, <3>2
  <2>4. ASSUME NEW p \in Threads, schedules'[i] = Applied(schedules[i], results[p][i])
        PROVE  schedules[i].status = "sent" \/ results[p][i].status = "sent"
    <3>1. CASE results[p][i] = NoUpdate \/ ~Pending(schedules[i])
      BY <1>3, <2>4, <3>1 DEF Applied
    <3>2. CASE results[p][i] # NoUpdate /\ Pending(schedules[i])
      <4>1. schedules[i] \in Entry
        BY <3>2 DEF TypeOK, Pending, Absent
      <4>2. schedules'[i].status = results[p][i].status
        BY <2>4, <3>2, <4>1 DEF Applied, Entry
      <4> QED BY <1>3, <4>2
    <3> QED BY <3>1, <3>2
  <2> QED BY <1>2, <1>3, <2>2, <2>3, <2>4
<1>4. ASSUME NEW p \in Threads, NEW i \in Ids, results'[p][i].status = "sent"
      PROVE  i \in Told'
  <2>1. CASE results[p][i].status = "sent"
    BY <1>2, <2>1
  <2>2. CASE /\ pc[p] = "enter" /\ i \in cur[p]
             /\ due[p][i].term \in Terminals
             /\ Receive(p, i, due[p][i].term) \/ i \in dropped'
             /\ dropped \subseteq dropped'
    <3>1. Reached(due[p][i].term, i)
      BY <1>2, <2>2
    <3>2. CASE Receive(p, i, due[p][i].term)
      BY <2>2, <3>1, <3>2, ReceiveEffect
    <3>3. CASE i \in dropped'
      BY <3>3 DEF Told
    <3> QED BY <2>2, <3>2, <3>3
  <2> QED BY <1>4, <2>1, <2>2, SentByEnter
<1>5. ASSUME NEW p \in Threads, NEW i \in Ids, pc'[p] = "enter", i \in cur'[p]
      PROVE  Reached(due[p][i].term, i)'
  <2>1. PICK t \in Terminals : /\ t = due[p][i].term /\ t = due'[p][i].term
                               /\ (pc[p] = "enter" /\ i \in cur[p]) \/ InLine(t, i)' \/ i \in dropped'
    BY <1>5, EnterEffect
  <2>2. Reached(t, i)'
    BY <1>2, <2>1 DEF Reached, Told
  <2> QED BY <2>1, <2>2 DEF Reached, InLine, Told
<1> QED BY <1>3, <1>4, <1>5

\* An entry reported as `sent` was part of a line its terminal was given Enter
\* for, or one of its own sends vanished without an error, however often a write
\* is repeated, whatever passes share the line, whatever send of another entry is
\* lost and whatever file operation fails, as long as no terminal is stopped.
THEOREM SentWasSubmitted == Spec => []SentMeansSubmitted
<1>1. Init => SentInv
  <2>1. Init => /\ \A i \in Ids : schedules[i].status # "sent"
                /\ \A p \in Threads, i \in Ids : results[p][i].status # "sent"
                /\ \A p \in Threads : pc[p] # "enter"
    BY DEF Init, NoEntries, NoResults, Absent, NoUpdate
  <2> QED BY <2>1, InitType DEF SentInv
<1>2. SentInv /\ [Next]_vars => SentInv'
  BY SentInvStep
<1>3. SentInv => SentMeansSubmitted
  BY DEF SentInv, SentMeansSubmitted, Told
<1> QED BY <1>1, <1>2, <1>3, PTL DEF Spec
-----------------------------------------------------------------------------
(* Slots.  With one pass at a time nothing is typed from a snapshot whose   *)
(* slot is behind an attempt: every slot still to come is a later one.      *)

(* Only the sweeper types; no file operation has failed, no restart.        *)
SweeperAlone == faults = 0 /\ crashes = 0 /\ \A h \in Handlers : pc[h] = "idle"

(* Every attempt at entry i was made for a slot before x.                   *)
Before(i, x) == \A n \in 1 .. Len(fires[i]) : fires[i][n] < x

SnapshotAhead ==
  \A i \in Ids : due[Sweeper][i] # Absent =>
    /\ due[Sweeper][i].at <= passNow[Sweeper]
    /\ i \notin cur[Sweeper] => Before(i, due[Sweeper][i].at)
    /\ Before(i, due[Sweeper][i].at + 1)
ResultAhead ==
  \A i \in Ids : results[Sweeper][i].status = "pending" => Before(i, results[Sweeper][i].at)
FileAhead ==
  \A i \in Ids :
    Pending(schedules[i]) /\ due[Sweeper][i] = Absent /\ results[Sweeper][i] = NoUpdate
      => Before(i, schedules[i].at)
NoSnapshotYet == pc[Sweeper] \in {"idle", "scan", "age"} => due[Sweeper] = NoEntries

SlotsInv ==
  /\ TypeOK /\ IdsGivenOut /\ PassBooks
  /\ NoSnapshotYet /\ SnapshotAhead /\ ResultAhead /\ FileAhead /\ SlotsOnce

(* _sched_next_slot never returns a slot that is due.                       *)
LEMMA NextSlotLater ==
  ASSUME NEW at \in Nat, NEW every \in Nat \ {0}, NEW now \in Nat
  PROVE  NextSlot(at, every, now) > now
<1>1. CASE at > now
  BY <1>1 DEF NextSlot
<1>2. CASE ~(at > now)
  <2> DEFINE n == now - at
             q == n \div every
             r == n % every
  <2>1. n \in Nat
    BY <1>2
  <2> HIDE DEF n
  <2>2. q \in Nat /\ r \in 0 .. (every - 1) /\ n = every * q + r
    BY <2>1, DivNat
  <2>3. NextSlot(at, every, now) = at + (q + 1) * every
    BY <1>2 DEF NextSlot, n
  <2> HIDE DEF q, r
  <2>4. (q + 1) * every = every * q + every
    BY <2>2
  <2>5. now = at + n
    BY <1>2 DEF n
  <2>6. every * q \in Nat
    BY <2>2
  <2> QED BY <2>1, <2>2, <2>3, <2>4, <2>5, <2>6
<1> QED BY <1>1, <1>2

(* An entry that was due is re-armed for a slot later than its own.         *)
LEMMA ArmedLater ==
  ASSUME NEW e \in Entry, NEW now \in Nat, NEW late \in BOOLEAN, NEW ok \in BOOLEAN,
         e.at <= now, UpdateFor(e, now, late, ok).status = "pending"
  PROVE  UpdateFor(e, now, late, ok).at \in Nat /\ UpdateFor(e, now, late, ok).at > e.at
<1>1. ArmsAgain(e, now)
  BY DEF UpdateFor, FinalStatus
<1>2. e.every \in Nat \ {0} /\ e.at \in Nat
  BY <1>1 DEF ArmsAgain, Entry
<1>3. NextSlot(e.at, e.every, now) \in Nat /\ NextSlot(e.at, e.every, now) > now
  BY <1>2, NextSlotNat, NextSlotLater
<1>4. UpdateFor(e, now, late, ok).at = NextSlot(e.at, e.every, now)
  BY <1>1 DEF UpdateFor
<1> QED BY <1>2, <1>3, <1>4

LEMMA BeforeLater ==
  ASSUME TypeOK, NEW i \in Ids, NEW x \in Nat, NEW y \in Nat, Before(i, x), x <= y
  PROVE  Before(i, y)
<1>1. fires[i] \in Seq(Nat)
  BY DEF TypeOK
<1>2. \A n \in 1 .. Len(fires[i]) : fires[i][n] \in Nat
  BY <1>1, ElementOfSeq
<1> QED BY <1>2 DEF Before

(* An attempt at a slot that is after all those before.                     *)
LEMMA AttemptAhead ==
  ASSUME TypeOK, SlotsOnce, NEW p \in Threads, NEW j \in Ids, NEW x \in Nat,
         x = due[p][j].at, Attempted(p, j), Before(j, x)
  PROVE  /\ SlotsOnce'
         /\ \A i \in Ids \ {j} : fires'[i] = fires[i]
         /\ \A y \in Nat : y > x => Before(j, y)'
<1> DEFINE s == fires[j]
           s1 == fires'[j]
<1>1. s \in Seq(Nat) /\ Len(s) \in Nat
  BY LenProperties DEF TypeOK
<1>2. fires' = [fires EXCEPT ![j] = Append(s, x)]
  BY DEF Attempted
<1>3. s1 = Append(s, x) /\ \A i \in Ids \ {j} : fires'[i] = fires[i]
  BY <1>2 DEF TypeOK
<1>4. /\ Len(s1) = Len(s) + 1 /\ s1[Len(s) + 1] = x
      /\ \A n \in 1 .. Len(s) : s1[n] = s[n]
  BY <1>1, <1>3, AppendProperties
<1>5. \A n \in 1 .. Len(s) : s[n] \in Nat /\ s[n] < x
  BY <1>1, ElementOfSeq DEF Before
<1>6. \A n \in 2 .. Len(s) : s[n - 1] < s[n]
  BY DEF SlotsOnce
<1> HIDE DEF s, s1
<1>7. \A n \in 2 .. Len(s1) : s1[n - 1] < s1[n]
  <2> TAKE n \in 2 .. Len(s1)
  <2>1. CASE n = Len(s) + 1
    <3>1. n - 1 \in 1 .. Len(s) /\ n - 1 \in Nat
      BY <1>1, <1>4, <2>1
    <3> QED BY <1>4, <1>5, <2>1, <3>1
  <2>2. CASE n # Len(s) + 1
    <3>1. n \in 2 .. Len(s) /\ n \in 1 .. Len(s) /\ n - 1 \in 1 .. Len(s)
      BY <1>1, <1>4, <2>2
    <3> QED BY <1>4, <1>6, <3>1
  <2> QED BY <2>1, <2>2
<1>8. SlotsOnce'
  BY <1>3, <1>7 DEF SlotsOnce, s1
<1>9. ASSUME NEW y \in Nat, y > x
      PROVE  \A n \in 1 .. Len(s1) : s1[n] < y
  <2> TAKE n \in 1 .. Len(s1)
  <2>1. CASE n = Len(s) + 1
    BY <1>4, <1>9, <2>1
  <2>2. CASE n # Len(s) + 1
    <3>1. n \in 1 .. Len(s)
      BY <1>1, <1>4, <2>2
    <3> QED BY <1>1, <1>4, <1>5, <1>9, <3>1
  <2> QED BY <2>1, <2>2
<1> QED BY <1>3, <1>8, <1>9 DEF Before, s1

(* The typing steps.                                                        *)
LEMMA FireSlots ==
  ASSUME SlotsInv, NEW j \in Ids, FireEntry(Sweeper, j)
  PROVE  NoSnapshotYet' /\ SnapshotAhead' /\ ResultAhead' /\ FileAhead' /\ SlotsOnce'
<1> DEFINE p == Sweeper
<1>0. TypeOK /\ p \in Threads
  BY DEF SlotsInv, Threads
<1>1. /\ pc[p] \in {"fire", "text", "enter"} /\ due[p][j] \in Entry /\ due[p][j] # Absent
      /\ pc[p] = "fire" => cur[p] = {}
      /\ pc[p] # "fire" => cur[p] = {j}
      /\ UNCHANGED schedules /\ passNow[p] \in Nat
  BY <1>0, FireShape DEF TypeOK
<1>2. UNCHANGED passNow
  BY DEF FireEntry, SkipLate, FailStopped, BeginTyping, SendOk, SendError
<1>3. PICK x \in Nat : x = due[p][j].at
  BY <1>1 DEF Entry
<1>4. /\ x <= passNow[p] /\ Before(j, x + 1)
      /\ pc[p] = "fire" => Before(j, x)
      /\ results[p][j] = NoUpdate
  BY <1>0, <1>1, <1>3 DEF SlotsInv, SnapshotAhead, PassBooks, OneResult
<1>5. /\ SlotsOnce' /\ \A y \in Nat : y > x => Before(j, y)'
      /\ \A i \in Ids \ {j} : fires'[i] = fires[i]
  <2>1. CASE UNCHANGED fires
    <3>1. \A y \in Nat : y > x => Before(j, y)
      <4> TAKE y \in Nat
      <4> HAVE y > x
      <4>1. x + 1 \in Nat /\ x + 1 <= y
        OBVIOUS
      <4> QED BY <1>0, <1>4, <4>1, BeforeLater
    <3> QED BY <2>1, <3>1 DEF SlotsInv, SlotsOnce, Before
  <2>2. CASE pc[p] = "fire" /\ Attempted(p, j)
    BY <1>0, <1>3, <1>4, <2>2, AttemptAhead DEF SlotsInv
  <2> QED BY <1>0, <2>1, <2>2, FireShape
<1>6. x + 1 \in Nat /\ x + 1 > x
  OBVIOUS
<1>7. pc'[p] \notin {"idle", "scan", "age"}
  <2>1. p \in DOMAIN pc
    BY <1>0 DEF TypeOK
  <2>2. \A late, ok \in BOOLEAN : Settle(p, j, late, ok) => pc'[p] = "fire"
    BY <2>1 DEF Settle
  <2>3. \/ pc' \in {pc, [pc EXCEPT ![p] = "enter"]}
        \/ pc' = [pc EXCEPT ![p] = "text"]
        \/ Settle(p, j, TRUE, FALSE)
        \/ Settle(p, j, FALSE, FALSE)
        \/ \E ok \in BOOLEAN : Settle(p, j, FALSE, ok)
    BY <1>0, FireShape
  <2>4. pc'[p] \in {pc[p], "fire", "text", "enter"}
    BY <2>1, <2>2, <2>3
  <2> QED BY <1>1, <2>4
<1>8. /\ cur'[p] \subseteq {j}
      /\ \A i \in Ids \ {j} : due'[p][i] = due[p][i] /\ results'[p][i] = results[p][i]
  <2>1. \A late, ok \in BOOLEAN : Settle(p, j, late, ok) =>
          /\ cur'[p] = {}
          /\ \A i \in Ids \ {j} : due'[p][i] = due[p][i] /\ results'[p][i] = results[p][i]
    BY <1>0 DEF Settle, TypeOK
  <2>2. \/ UNCHANGED <<due, cur, results>>
        \/ cur' = [cur EXCEPT ![p] = {j}] /\ UNCHANGED <<due, results>>
        \/ \E late, ok \in BOOLEAN : Settle(p, j, late, ok)
    BY <1>0, FireShape
  <2>3. CASE UNCHANGED <<due, cur, results>>
    BY <1>1, <2>3
  <2>4. CASE cur' = [cur EXCEPT ![p] = {j}] /\ UNCHANGED <<due, results>>
    BY <1>0, <2>4 DEF TypeOK
  <2> QED BY <2>1, <2>2, <2>3, <2>4
<1>9. /\ due'[p][j] # Absent =>
           /\ due'[p][j].at = x /\ results'[p][j].status # "pending"
           /\ j \notin cur'[p] => Before(j, x)'
      /\ due'[p][j] = Absent => results'[p][j] # NoUpdate
      /\ results'[p][j].status = "pending" => Before(j, results[p][j].at)'
  <2>1. CASE UNCHANGED <<due, cur, results, fires>>
    <3>1. j \notin cur[p] => Before(j, x)'
      BY <1>1, <1>4, <2>1 DEF Before
    <3>2. NoUpdate.status # "pending"
      BY DEF NoUpdate
    <3> QED BY <1>1, <1>3, <1>4, <2>1, <3>1, <3>2
  <2>2. CASE cur' = [cur EXCEPT ![p] = {j}] /\ UNCHANGED <<due, results>>
    <3>1. j \in cur'[p]
      BY <1>0, <2>2 DEF TypeOK
    <3>2. NoUpdate.status # "pending"
      BY DEF NoUpdate
    <3> QED BY <1>1, <1>3, <1>4, <2>2, <3>1, <3>2
  <2>3. ASSUME NEW late \in BOOLEAN, NEW ok \in BOOLEAN, Settle(p, j, late, ok)
        PROVE  /\ due'[p][j] = Absent /\ results'[p][j] # NoUpdate
               /\ results'[p][j].status = "pending" => Before(j, results[p][j].at)'
    <3>1. PICK u : u = UpdateFor(due[p][j], passNow[p], late, ok)
      OBVIOUS
    <3>2. due'[p][j] = Absent /\ results'[p][j] = u
      BY <1>0, <2>3, <3>1 DEF Settle, TypeOK
    <3>3. u # NoUpdate
      BY <1>1, <3>1, UpdateForRan
    <3>4. u.status = "pending" => u.at \in Nat /\ u.at > x
      BY <1>1, <1>3, <1>4, <3>1, ArmedLater
    <3>5. u.status = "pending" => Before(j, u.at)'
      BY <1>5, <3>4
    <3> QED BY <3>2, <3>3, <3>5 DEF Before
  <2> QED BY <1>0, <2>1, <2>2, <2>3, FireShape
<1>10. NoSnapshotYet'
  BY <1>7 DEF NoSnapshotYet
<1>11. \A i \in Ids \ {j} : \A y : Before(i, y)' <=> Before(i, y)
  BY <1>5 DEF Before
<1>12. ASSUME NEW i \in Ids, due'[p][i] # Absent
       PROVE  /\ due'[p][i].at <= passNow'[p]
              /\ i \notin cur'[p] => Before(i, due[p][i].at)'
              /\ Before(i, due[p][i].at + 1)'
  <2>1. CASE i = j
    <3>1. due'[p][i].at = x /\ x <= passNow'[p]
      BY <1>2, <1>4, <1>9, <1>12, <2>1
    <3>2. (i \notin cur'[p] => Before(i, x)') /\ Before(i, x + 1)'
      BY <1>5, <1>6, <1>9, <1>12, <2>1
    <3> QED BY <3>1, <3>2 DEF Before
  <2>2. CASE i # j
    <3>1. PICK y : y = due[p][i].at
      OBVIOUS
    <3>2. due'[p][i].at = y /\ i \notin cur[p]
      BY <1>1, <1>8, <2>2, <3>1
    <3>3. y <= passNow[p] /\ Before(i, y) /\ Before(i, y + 1)
      BY <1>8, <1>12, <2>2, <3>1, <3>2 DEF SlotsInv, SnapshotAhead
    <3>4. Before(i, y)' /\ Before(i, y + 1)'
      BY <1>11, <2>2, <3>3
    <3> QED BY <1>2, <3>2, <3>3, <3>4 DEF Before
  <2> QED BY <2>1, <2>2
<1>13. ASSUME NEW i \in Ids, results'[p][i].status = "pending"
       PROVE  Before(i, results[p][i].at)'
  <2>1. CASE i = j
    BY <1>9, <1>13, <2>1
  <2>2. CASE i # j
    <3>1. PICK y : y = results[p][i].at
      OBVIOUS
    <3>2. results'[p][i].at = y /\ Before(i, y)
      BY <1>8, <1>13, <2>2, <3>1 DEF SlotsInv, ResultAhead
    <3>3. Before(i, y)'
      BY <1>11, <2>2, <3>2
    <3> QED BY <3>2, <3>3 DEF Before
  <2> QED BY <2>1, <2>2
<1>14. ASSUME NEW i \in Ids, Pending(schedules'[i]), due'[p][i] = Absent,
              results'[p][i] = NoUpdate
       PROVE  Before(i, schedules[i].at)'
  <2>1. i # j
    BY <1>9, <1>14
  <2>2. PICK y : y = schedules[i].at
    OBVIOUS
  <2>3. schedules'[i].at = y /\ Before(i, y)
    BY <1>1, <1>8, <1>14, <2>1, <2>2 DEF SlotsInv, FileAhead
  <2>4. Before(i, y)'
    BY <1>11, <2>1, <2>3
  <2> QED BY <2>3, <2>4 DEF Before
<1>15. SnapshotAhead'
  BY <1>12 DEF SnapshotAhead
<1>16. ResultAhead'
  BY <1>13 DEF ResultAhead
<1>17. FileAhead'
  BY <1>14 DEF FileAhead
<1> QED BY <1>5, <1>10, <1>15, <1>16, <1>17

(* What a pass does to the file when reads and writes go well.             *)
LEMMA QuietApply ==
  ASSUME TypeOK, NEW p \in Threads, Apply(p), faults = 0, faults' = 0, NEW i \in Ids
  PROVE  schedules'[i] \in {Absent, Applied(schedules[i], results[p][i])}
<1>1. PICK r \in BOOLEAN, w \in BOOLEAN :
        /\ FileFaults(r, w)
        /\ SavePruned([k \in Ids |-> Applied(ReadAs(r)[k], results[p][k])], passNow[p], w)
  BY DEF Apply
<1>2. r /\ w
  BY <1>1 DEF FileFaults
<1>3. PICK K : schedules' = Restricted([k \in Ids |-> Applied(schedules[k], results[p][k])], K)
  BY <1>1, <1>2 DEF SavePruned, ReadAs
<1> QED BY <1>3 DEF Restricted

(* The sections under the lock.                                             *)
LEMMA LockedSlots ==
  ASSUME SlotsInv, Scan(Sweeper) \/ Age(Sweeper) \/ Apply(Sweeper), faults = 0, faults' = 0
  PROVE  NoSnapshotYet' /\ SnapshotAhead' /\ ResultAhead' /\ FileAhead' /\ SlotsOnce'
<1> DEFINE p == Sweeper
<1>0. TypeOK /\ p \in Threads
  BY DEF SlotsInv, Threads
<1>1. UNCHANGED fires
  BY DEF Scan, Age, Apply
<1>2. SlotsOnce' /\ \A i \in Ids : \A y : Before(i, y)' <=> Before(i, y)
  BY <1>1 DEF SlotsInv, SlotsOnce, Before
<1>3. CASE Scan(p)
  <2>1. PICK r \in BOOLEAN :
          /\ FileFaults(r, TRUE)
          /\ due' = [due EXCEPT ![p] = Restricted(ReadAs(r), DueIn(ReadAs(r), clock))]
          /\ pc' = [pc EXCEPT ![p] = IF DueIn(ReadAs(r), clock) = {} THEN "age" ELSE "fire"]
    BY <1>3 DEF Scan
  <2>2. ReadAs(r) = schedules
    BY <2>1 DEF FileFaults, ReadAs
  <2>3. /\ due'[p] = Restricted(schedules, DueIn(schedules, clock))
        /\ pc'[p] = IF DueIn(schedules, clock) = {} THEN "age" ELSE "fire"
        /\ passNow'[p] = clock
    BY <1>0, <1>3, <2>1, <2>2 DEF Scan, TypeOK
  <2>4. pc[p] \in {"idle", "scan"} /\ UNCHANGED <<schedules, results>>
    BY <1>3 DEF Scan
  <2>5. due[p] = NoEntries /\ results[p] = NoResults
    BY <1>0, <2>4 DEF SlotsInv, NoSnapshotYet, PassBooks, QuietPasses
  <2>6. NoSnapshotYet'
    BY <2>3 DEF NoSnapshotYet, Restricted, NoEntries
  <2>7. \A i \in Ids : Pending(schedules[i]) => Before(i, schedules[i].at)
    BY <2>5 DEF SlotsInv, FileAhead, NoEntries, NoResults
  <2>8. ASSUME NEW i \in Ids, due'[p][i] # Absent
        PROVE  /\ due'[p][i].at <= passNow'[p]
               /\ Before(i, due[p][i].at)' /\ Before(i, due[p][i].at + 1)'
    <3>1. i \in DueIn(schedules, clock) /\ due'[p][i] = schedules[i]
      BY <2>3, <2>8 DEF Restricted
    <3>2. Pending(schedules[i]) /\ schedules[i].at <= clock
      BY <3>1 DEF DueIn
    <3>3. PICK y \in Nat : y = schedules[i].at
      BY <1>0, <3>2, Distinct DEF TypeOK, Entry
    <3>4. y + 1 \in Nat /\ y <= y + 1
      OBVIOUS
    <3>5. Before(i, y) /\ Before(i, y + 1)
      BY <1>0, <2>7, <3>2, <3>3, <3>4, BeforeLater
    <3>6. Before(i, y)' /\ Before(i, y + 1)'
      BY <1>2, <3>5
    <3> QED BY <2>3, <3>1, <3>2, <3>3, <3>6 DEF Before
  <2>9. SnapshotAhead'
    BY <2>8 DEF SnapshotAhead
  <2>10. ResultAhead' /\ FileAhead'
    <3>1. ResultAhead'
      BY <2>4, <2>5 DEF ResultAhead, NoResults, NoUpdate
    <3>2. ASSUME NEW i \in Ids, Pending(schedules[i])
          PROVE  Before(i, schedules[i].at)'
      BY <1>1, <2>4, <2>7, <3>2 DEF Before
    <3> QED BY <2>4, <3>1, <3>2 DEF FileAhead
  <2> QED BY <1>2, <2>6, <2>9, <2>10
<1>4. CASE Age(p) \/ Apply(p)
  <2>1. EndPass(p)
    BY <1>4 DEF Age, Apply
  <2>2. due'[p] = NoEntries /\ results'[p] = NoResults
    BY <1>0, <2>1 DEF EndPass, TypeOK
  <2>3. NoSnapshotYet' /\ SnapshotAhead' /\ ResultAhead'
    BY <2>2 DEF NoSnapshotYet, SnapshotAhead, ResultAhead, NoEntries, NoResults, NoUpdate
  <2>4. due[p] = NoEntries
    BY <1>4 DEF Age, Apply, SlotsInv, NoSnapshotYet
  <2>5. ASSUME NEW i \in Ids, Pending(schedules'[i])
        PROVE  \E y : y = schedules'[i].at /\ Before(i, y)
    <3>1. schedules'[i] # Absent
      BY <2>5, Distinct
    <3>2. schedules'[i] \in {schedules[i], Applied(schedules[i], results[p][i])}
      BY <1>0, <1>4, <3>1, AgeEffect, QuietApply
    <3>3. CASE results[p][i] = NoUpdate
      <4>1. schedules'[i] = schedules[i]
        BY <3>2, <3>3 DEF Applied
      <4> QED BY <2>4, <2>5, <3>3, <4>1 DEF SlotsInv, FileAhead, NoEntries
    <3>4. CASE results[p][i] # NoUpdate
      <4>1. Apply(p)
        BY <1>0, <1>4, <3>4 DEF Age, SlotsInv, PassBooks, QuietPasses, NoResults
      <4>2. schedules'[i] = Applied(schedules[i], results[p][i])
        BY <1>0, <3>1, <4>1, QuietApply
      <4>3. /\ schedules[i] \in Entry \cup {Absent} /\ results[p][i] \in Update \cup {NoUpdate}
        BY <1>0 DEF TypeOK
      <4>4. Pending(schedules[i]) /\ schedules[i] \in Entry
        BY <2>5, <4>2, <4>3, AppliedType, Distinct
      <4>5. /\ schedules'[i].status = results[p][i].status
            /\ schedules'[i].at = IF results[p][i].status = "pending" THEN results[p][i].at
                                  ELSE schedules[i].at
        BY <3>4, <4>2, <4>4 DEF Applied, Entry
      <4>6. results[p][i].status = "pending"
        BY <2>5, <4>5 DEF Pending
      <4> QED BY <4>5, <4>6 DEF SlotsInv, ResultAhead
    <3> QED BY <3>3, <3>4
  <2>6. FileAhead'
    <3>1. ASSUME NEW i \in Ids, Pending(schedules'[i])
          PROVE  Before(i, schedules[i].at)'
      <4>1. PICK y : y = schedules'[i].at /\ Before(i, y)
        BY <2>5, <3>1
      <4>2. Before(i, y)'
        BY <1>2, <4>1
      <4> QED BY <4>1, <4>2 DEF Before
    <3> QED BY <3>1 DEF FileAhead
  <2> QED BY <1>2, <2>3, <2>6
<1> QED BY <1>3, <1>4

(* Everyone else: what is new in the file was never attempted.             *)
LEMMA OtherSlots ==
  ASSUME SlotsInv, [Next]_vars, UNCHANGED <<fires, due, results, cur, passNow>>,
         pc'[Sweeper] = pc[Sweeper], \A p \in Threads : ~Apply(p)
  PROVE  NoSnapshotYet' /\ SnapshotAhead' /\ ResultAhead' /\ FileAhead' /\ SlotsOnce'
<1>1. SlotsOnce' /\ NoSnapshotYet' /\ SnapshotAhead' /\ ResultAhead'
  BY DEF SlotsInv, SlotsOnce, NoSnapshotYet, SnapshotAhead, ResultAhead, Before
<1>2. ASSUME NEW i \in Ids, Pending(schedules'[i]), due[Sweeper][i] = Absent,
             results[Sweeper][i] = NoUpdate
      PROVE  Before(i, schedules[i].at)'
  <2>1. \/ schedules'[i] = schedules[i] \/ i \notin used
        \/ schedules'[i] = Stopped(schedules[i], clock) /\ schedules[i] \in Entry
    <3>1. TypeOK /\ schedules'[i] # Absent
      BY <1>2, Distinct DEF SlotsInv
    <3> QED BY <3>1, StepEffect, Distinct DEF TypeOK
  <2>2. CASE schedules'[i] = schedules[i]
    BY <1>2, <2>2 DEF SlotsInv, FileAhead, Before
  <2>3. CASE i \notin used
    <3>1. fires'[i] = <<>>
      BY <2>3 DEF SlotsInv, PassBooks, TriedIsUsed
    <3> QED BY <3>1 DEF Before
  <2>4. CASE schedules'[i] = Stopped(schedules[i], clock) /\ schedules[i] \in Entry
    <3>1. schedules'[i].status = "stopped"
      BY <2>4 DEF Stopped, Entry
    <3> QED BY <1>2, <3>1 DEF Pending
  <2> QED BY <2>1, <2>2, <2>3, <2>4
<1> QED BY <1>1, <1>2 DEF FileAhead

LEMMA SlotsInvStep ==
  ASSUME SlotsInv, [Next]_vars, SweeperAlone, SweeperAlone'
  PROVE  SlotsInv'
<1>1. TypeOK' /\ IdsGivenOut' /\ PassBooks'
  BY NextType, IdsGivenOutStep, PassBooksStep DEF SlotsInv
<1>2. /\ faults = 0 /\ faults' = 0 /\ crashes = 0 /\ crashes' = 0
      /\ \A h \in Handlers : pc[h] = "idle" /\ pc'[h] = "idle"
  BY DEF SweeperAlone
<1>3. TypeOK /\ Sweeper \in Threads /\ Sweeper \notin Handlers
  BY SchedulesAssumption DEF SlotsInv, Threads
<1>4. \A p \in Threads : p = Sweeper \/ p \in Handlers
  BY DEF Threads
<1>5. ASSUME NEW p \in Threads, PassStep(p)
      PROVE  p = Sweeper
  <2>1. \A i \in Ids : FireEntry(p, i) => pc[p] # "idle"
    BY <1>3, FireShape
  <2> QED BY <1>2, <1>4, <1>5, <2>1 DEF PassStep, Scan, Age, Apply
<1>6. ASSUME NEW p \in Threads, PassStep(p)
      PROVE  NoSnapshotYet' /\ SnapshotAhead' /\ ResultAhead' /\ FileAhead' /\ SlotsOnce'
  BY <1>2, <1>5, <1>6, FireSlots, LockedSlots DEF PassStep
<1>7. ~Crash
  BY <1>2 DEF Crash
<1>8. ASSUME NEW p \in Threads, Apply(p)
      PROVE  NoSnapshotYet' /\ SnapshotAhead' /\ ResultAhead' /\ FileAhead' /\ SlotsOnce'
  BY <1>6, <1>8 DEF PassStep
<1>9. ASSUME \/ Tick \/ UNCHANGED vars
             \/ \E t \in Terminals : StopTerminal(t) \/ StartTerminal(t)
             \/ \E j \in Ids : Cancel(j)
             \/ \E h \in Handlers, j \in Ids, t \in Terminals, o \in Offsets,
                   e \in Everys \cup {0}, u \in 0 .. MaxTime + Horizon :
                  Create(h, j, t, o, e, u)
      PROVE  NoSnapshotYet' /\ SnapshotAhead' /\ ResultAhead' /\ FileAhead' /\ SlotsOnce'
  <2>1. \A j : Cancel(j) => UNCHANGED <<fires, passVars>>
    BY DEF Cancel
  <2>2. \A h, j, t, o, e, u : Create(h, j, t, o, e, u) =>
          /\ UNCHANGED <<fires, due, results, cur, passNow>>
          /\ pc' \in {pc, [pc EXCEPT ![h] = "scan"]}
    BY DEF Create
  <2>3. \A h \in Handlers : pc' = [pc EXCEPT ![h] = "scan"] => pc'[Sweeper] = pc[Sweeper]
    BY <1>3 DEF TypeOK
  <2>4. UNCHANGED <<fires, due, results, cur, passNow>> /\ pc'[Sweeper] = pc[Sweeper]
    BY <1>9, <2>1, <2>2, <2>3 DEF Tick, vars, passVars, StopTerminal, StartTerminal
  <2> QED BY <1>8, <2>4, OtherSlots
<1>10. NoSnapshotYet' /\ SnapshotAhead' /\ ResultAhead' /\ FileAhead' /\ SlotsOnce'
  BY <1>6, <1>7, <1>9 DEF Next
<1> QED BY <1>1, <1>10 DEF SlotsInv

\* While only the sweeper types, no file operation fails and the manager is not
\* restarted, no slot of an entry is typed twice or after a later one, whatever
\* is created, cancelled or stopped meanwhile and however late the passes run.
THEOREM SlotsOnceWhenAlone == Spec /\ []SweeperAlone => []SlotsOnce
<1>1. Init => SlotsInv
  <2>1. Init => IdsGivenOut /\ PassBooks
    BY DEF Init, IdsGivenOut, PassBooks, QuietPasses, OneResult, TriedIsUsed, NoEntries, NoResults
  <2>2. Init => /\ NoSnapshotYet /\ SnapshotAhead /\ ResultAhead /\ SlotsOnce
                /\ \A i \in Ids : ~Pending(schedules[i])
    BY DEF Init, NoSnapshotYet, SnapshotAhead, ResultAhead, SlotsOnce, NoEntries, NoResults,
           NoUpdate, Threads, Pending, Absent
  <2> QED BY <2>1, <2>2, InitType DEF SlotsInv, FileAhead
<1>2. SlotsInv /\ [Next]_vars /\ SweeperAlone /\ SweeperAlone' => SlotsInv'
  BY SlotsInvStep
<1>3. SlotsInv => SlotsOnce
  BY DEF SlotsInv
<1> QED BY <1>1, <1>2, <1>3, PTL DEF Spec
=============================================================================
