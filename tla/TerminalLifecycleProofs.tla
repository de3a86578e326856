----------------------- MODULE TerminalLifecycleProofs -----------------------
(***************************************************************************)
(* The life of a user's terminals, for any tabs, threads and bounds.       *)
(*                                                                         *)
(* One idea carries the proof: only a start of a terminal launches units   *)
(* for it, everything else leaves what is off off, what is forgotten       *)
(* forgotten and what is unlisted unlisted (Calm).  A close or a reset     *)
(* that no start interrupted (quiet) therefore walks the terminal down to  *)
(* nothing, and a start after it (clean) finds nothing.                    *)
(***************************************************************************)
EXTENDS TerminalLifecycle, WellFoundedInduction, TLAPS

(* The steps of a start before its first launch, and after it.             *)
Unlaunched == {"lock", "ttyd", "names", "state", "launch"}
Launched   == {"socket", "serve", "port", "name", "drop session", "drop both"}
Starts     == Unlaunched \cup Launched \cup {"session", "teardown", "failed"}
Pcs == Starts \cup {"idle", "await", "stop", "forget", "closed", "timed out",
                    "kill", "forget all", "clear names", "next"}
Job == [kind : {"none", "start", "close", "reset", "reap"}, pc : Pcs, tab : Tabs \cup {0},
        todo : SUBSET Tabs, then : {"idle", "names", "failed", "forget", "next"},
        keep : BOOLEAN, was : BOOLEAN, restorable : BOOLEAN,
        back : BOOLEAN, quiet : BOOLEAN, clean : BOOLEAN]
Is(h, kind) == job[h].kind = kind
Waits(h, pcs) == At(h, "await") /\ job[h].then \in pcs

(* Each thread runs the program of its job.                                *)
Program(h) ==
  /\ Is(h, "none")  => At(h, "idle")
  /\ Is(h, "start") => Tab(h) \in Tabs /\ (job[h].pc \in Starts \/ Waits(h, {"names", "failed"}))
  /\ Is(h, "close") => /\ Tab(h) \in Tabs
                       /\ \/ job[h].pc \in {"stop", "forget", "closed", "timed out"}
                          \/ Waits(h, {"forget"})
  /\ Is(h, "reset") => job[h].pc \in {"kill", "forget all", "clear names"}
  /\ Is(h, "reap")  => At(h, "next") \/ Waits(h, {"next"})
Jobs == job \in [Threads -> Job] /\ \A h \in Threads : Program(h)

Caches == [valid : BOOLEAN, set : SUBSET Tabs]
Reasons == {"no", "closed", "listed", "reset"}
Types ==
  /\ sess \in [Tabs -> UnitState] /\ ttyd \in [Tabs -> UnitState] /\ sock \in [Tabs -> BOOLEAN]
  /\ life \in [Tabs -> Lives \cup {0}] /\ saved \in [Tabs -> Lives \cup {0}]
  /\ names \in [Tabs -> Lives \cup {0}] /\ kept \in [Tabs -> Lives \cup {0}]
  /\ told \in [Tabs -> BOOLEAN] /\ gone \in [Tabs -> Reasons]
  /\ lock \in [Tabs -> Threads \cup {None}]
  /\ cache \in Caches

(* What a thread does of its own.                                          *)
Own(h) ==
  \/ Step(h) \/ Acquire(h) \/ Reset(h) \/ Reap(h)
  \/ \E n \in Tabs : Open(h, n) \/ Ask(h, n) \/ Close(h, n)
World ==
  \/ \E n \in Tabs : UnitStep(n) \/ DaemonSaves(n) \/ DaemonDies(n) \/ TtydDies(n) \/ Rename(n)
  \/ CacheExpires \/ Poll \/ UNCHANGED vars
Restart == ManagerRestarts \/ HostRestarts

LEMMA Steps == [Next]_vars => World \/ Restart \/ \E h \in Threads : Own(h)
BY DEF Next, World, Restart, Own

-----------------------------------------------------------------------------
(* Types.                                                                  *)
LEMMA LeastIsIn ==
  ASSUME NEW S, S \subseteq Nat, S # {}
  PROVE  Min(S) \in S
<1> DEFINE less == OpToRel(<, Nat)
<1>1. IsWellFoundedOn(less, Nat)
  BY NatLessThanWellFounded
<1>2. \A x, y \in Nat : x < y => <<x, y>> \in less
  BY DEF OpToRel
<1> HIDE DEF less
<1>3. PICK x \in S : \A y \in S : ~ (<<y, x>> \in less)
  BY <1>1, WFMin
<1>4. \A y \in S : x <= y
  <2> TAKE y \in S
  <2>1. x \in Nat /\ y \in Nat /\ ~(y < x)
    BY <1>2, <1>3
  <2> QED BY <2>1
<1> QED BY <1>4 DEF Min

LEMMA IdleIsAJob == Idle \in Job
BY DEF Idle, Job, Pcs

(* What a thread does changes its own job; a start it begins also marks    *)
(* those it disturbs.                                                      *)
Marked(j, n) == [j EXCEPT !.quiet = @ /\ j.tab # n /\ j.kind # "reset", !.clean = @ /\ j.tab # n]
Begins(h, n) ==
  /\ At(h, "idle")
  /\ job'[h] = [Idle EXCEPT !.kind = "start", !.pc = "lock", !.tab = n,
                            !.clean = gone[n] \in {"closed", "listed"}]
  /\ \A g \in Threads \ {h} : job'[g] = Marked(job[g], n)
Alone(h) == \A g \in Threads \ {h} : job'[g] = job[g]

Fresh(h, n) ==
  LET j == job'[h] IN
  /\ j.kind = "start" /\ j.pc = "lock" /\ j.tab = n
  /\ ~j.keep /\ ~j.was /\ ~j.restorable
  /\ j.clean => gone[n] \in {"closed", "listed"}

LEMMA MarkedIsAJob ==
  ASSUME NEW j \in Job, NEW n
  PROVE  Marked(j, n) \in Job
<1> DEFINE q == j.quiet /\ j.tab # n /\ j.kind # "reset"
           c == j.clean /\ j.tab # n
<1>1. q \in BOOLEAN /\ c \in BOOLEAN
  OBVIOUS
<1>2. Marked(j, n) = [j EXCEPT !.quiet = q, !.clean = c]
  BY DEF Marked
<1> HIDE DEF q, c
<1> QED BY <1>1, <1>2 DEF Job

LEMMA BeginShape ==
  ASSUME Jobs, NEW h \in Threads, NEW n \in Tabs, BeginStart(h, n)
  PROVE  Begins(h, n) /\ Fresh(h, n) /\ Jobs'
<1>1. Begins(h, n) /\ job' = [g \in Threads |-> job'[g]]
  BY DEF BeginStart, Begins, Marked, Tab, At
<1>2. job'[h] \in Job /\ Program(h)' /\ Fresh(h, n)
  <2> DEFINE clean == gone[n] \in {"closed", "listed"}
  <2>0. clean \in BOOLEAN /\ job'[h] = [Idle EXCEPT !.kind = "start", !.pc = "lock", !.tab = n, !.clean = clean]
    BY <1>1 DEF Begins
  <2>1. clean => gone[n] \in {"closed", "listed"}
    OBVIOUS
  <2> HIDE DEF clean
  <2>2. job'[h] \in Job
    BY <2>0, IdleIsAJob DEF Job, Pcs, Starts, Unlaunched
  <2>3. /\ job'[h].kind = "start" /\ job'[h].pc = "lock" /\ job'[h].tab = n
        /\ job'[h].clean = clean
        /\ job'[h].keep = FALSE /\ job'[h].was = FALSE /\ job'[h].restorable = FALSE
    BY <2>0 DEF Idle
  <2>4. Fresh(h, n)
    BY <2>1, <2>3 DEF Fresh
  <2> QED BY <2>2, <2>3, <2>4 DEF Program, Is, At, Tab, Starts, Unlaunched
<1>3. ASSUME NEW g \in Threads \ {h} PROVE job'[g] \in Job /\ Program(g)'
  <2>1. job'[g] = Marked(job[g], n) /\ job[g] \in Job /\ Program(g)
    BY <1>1, <1>3 DEF Begins, Jobs
  <2>2. Marked(job[g], n) \in Job
    BY <2>1, MarkedIsAJob
  <2>3. /\ job'[g].kind = job[g].kind /\ job'[g].pc = job[g].pc
        /\ job'[g].tab = job[g].tab /\ job'[g].then = job[g].then
    BY <2>1 DEF Marked, Job
  <2> QED BY <2>1, <2>2, <2>3 DEF Program, Is, At, Tab, Waits
<1> QED BY <1>1, <1>2, <1>3 DEF Jobs

(* A thread that goes on with its job, or with a field of it changed.      *)
Turn(h) ==
  /\ Alone(h)
  /\ \/ job'[h] = Idle
     \/ /\ job'[h].kind = job[h].kind /\ job'[h].clean = job[h].clean
        /\ job'[h].quiet => job[h].quiet
        /\ Is(h, "reap") \/ (job'[h].tab = job[h].tab /\ job'[h].todo = job[h].todo)

LEMMA GotoShape ==
  ASSUME Jobs, NEW h \in Threads, NEW pc \in Pcs, Goto(h, pc)
  PROVE  /\ job' \in [Threads -> Job] /\ Turn(h) /\ job'[h].pc = pc
         /\ job'[h] = [job[h] EXCEPT !.pc = pc]
<1>1. job[h] \in Job
  BY DEF Jobs
<1>2. job'[h] = [job[h] EXCEPT !.pc = pc] /\ Alone(h)
  BY DEF Goto, Jobs, Alone
<1>3. [job[h] EXCEPT !.pc = pc] \in Job
  BY <1>1 DEF Job
<1>4. job' \in [Threads -> Job]
  BY <1>2, <1>3 DEF Goto, Jobs, Alone
<1> QED BY <1>1, <1>2, <1>4 DEF Turn, Job

LEMMA AwaitShape ==
  ASSUME Jobs, NEW h \in Threads, NEW pc \in {"names", "failed", "forget", "next"}, Await(h, pc)
  PROVE  /\ job' \in [Threads -> Job] /\ Turn(h)
         /\ job'[h] = [job[h] EXCEPT !.pc = "await", !.then = pc]
         /\ job'[h].pc = "await" /\ job'[h].then = pc
<1>1. job[h] \in Job
  BY DEF Jobs
<1>2. job'[h] = [job[h] EXCEPT !.pc = "await", !.then = pc] /\ Alone(h)
  BY DEF Await, Jobs, Alone
<1>3. [job[h] EXCEPT !.pc = "await", !.then = pc] \in Job
  BY <1>1 DEF Job, Pcs
<1>4. job' \in [Threads -> Job]
  BY <1>2, <1>3 DEF Await, Jobs, Alone
<1> QED BY <1>1, <1>2, <1>4 DEF Turn, Job

LEMMA IdleShape ==
  ASSUME Jobs, NEW h \in Threads, job' = [job EXCEPT ![h] = Idle]
  PROVE  Jobs' /\ Turn(h) /\ job'[h] = Idle
<1>1. job' \in [Threads -> Job] /\ job'[h] = Idle /\ Alone(h)
  BY IdleIsAJob DEF Jobs, Alone
<1>2. Program(h)'
  BY <1>1 DEF Program, Idle, Is, At
<1>3. \A g \in Threads \ {h} : Program(g)'
  BY <1>1 DEF Jobs, Program, Alone, Is, At, Tab, Waits
<1> QED BY <1>1, <1>2, <1>3 DEF Turn, Jobs

(* A step of a program leads to one of it.                                 *)
LEMMA TurnKeeps ==
  ASSUME Jobs, NEW h \in Threads, Turn(h), job' \in [Threads -> Job], Program(h)'
  PROVE  Jobs'
<1>1. ASSUME NEW g \in Threads \ {h} PROVE Program(g)'
  <2>1. job'[g] = job[g]
    BY DEF Turn, Alone
  <2>2. Program(g)
    BY DEF Jobs
  <2> QED BY <2>1, <2>2 DEF Program, Is, At, Tab, Waits
<1> QED BY <1>1 DEF Jobs

(* A start that goes on.                                                   *)
Goes(i, j) ==
  /\ j.kind = "start" /\ j.tab = i.tab /\ j.todo = i.todo
  /\ j.clean = i.clean /\ j.quiet = i.quiet
  /\ j.pc \in Starts \/ (j.pc = "await" /\ j.then = "names")

LEMMA GoesShape ==
  ASSUME Jobs, NEW h \in Threads, Is(h, "start"), NEW j \in Job, job' = [job EXCEPT ![h] = j],
         Goes(job[h], j)
  PROVE  Jobs' /\ Turn(h)
<1>1. job' \in [Threads -> Job] /\ job'[h] = j /\ Alone(h)
  BY DEF Jobs, Alone
<1>2. Tab(h) \in Tabs
  BY DEF Jobs, Program
<1>3. Program(h)'
  BY <1>1, <1>2 DEF Program, Is, Tab, Waits, Goes, At
<1>4. Turn(h)
  BY <1>1 DEF Turn, Is, Goes
<1> QED BY <1>1, <1>3, <1>4, TurnKeeps

LEMMA StartTurns ==
  ASSUME Jobs, NEW h \in Threads, StartStep(h) \/ Acquire(h)
  PROVE  Jobs' /\ Turn(h) /\ Is(h, "start")
<1> USE DEF At
<1>0. job[h] \in Job /\ Program(h)
  BY DEF Jobs
<1>1. Is(h, "start")
  BY <1>0 DEF StartStep, Acquire, CheckTtyd, CheckSession, Teardown, WasRunning, IsRestorable,
              LaunchSession, WaitSocket, LaunchTtyd, WaitPort, GiveUp, Failed, Started,
              Program, Is, Waits, Job
<1>2. ASSUME NEW ok \in BOOLEAN, Answer(h, ok) PROVE Jobs' /\ Turn(h)
  BY <1>2, IdleShape DEF Answer
<1>3. ASSUME NEW pc \in Starts, Goto(h, pc) PROVE Jobs' /\ Turn(h)
  <2>1. job' \in [Threads -> Job] /\ Turn(h) /\ job'[h] = [job[h] EXCEPT !.pc = pc]
    BY <1>3, GotoShape DEF Pcs
  <2>2. Program(h)'
    BY <1>0, <1>1, <2>1 DEF Program, Is, Tab, Job
  <2> QED BY <2>1, <2>2, TurnKeeps
<1>4. ASSUME NEW pc \in {"names", "failed"}, Await(h, pc) PROVE Jobs' /\ Turn(h)
  <2>1. /\ job' \in [Threads -> Job] /\ Turn(h)
        /\ job'[h] = [job[h] EXCEPT !.pc = "await", !.then = pc]
    BY <1>4, AwaitShape
  <2>2. Program(h)'
    BY <1>0, <1>1, <2>1 DEF Program, Is, Tab, Job, Waits
  <2> QED BY <2>1, <2>2, TurnKeeps
<1>5. CASE CheckTtyd(h) \/ CheckSession(h) \/ LaunchSession(h) \/ WaitSocket(h) \/ LaunchTtyd(h)
           \/ WaitPort(h) \/ Failed(h) \/ Started(h)
  <2>1. \/ \E ok \in BOOLEAN : Answer(h, ok)
        \/ \E pc \in Starts : Goto(h, pc)
    BY <1>5 DEF CheckTtyd, CheckSession, LaunchSession, WaitSocket, LaunchTtyd, WaitPort, Failed,
                Started, Rest, SocketResult, PortResult, Starts, Unlaunched, Launched
  <2> QED BY <1>1, <1>2, <1>3, <2>1
<1>6. CASE GiveUp(h)
  BY <1>1, <1>4, <1>6 DEF GiveUp
<1>7. ASSUME NEW j \in Job, job' = [job EXCEPT ![h] = j], Goes(job[h], j)
      PROVE  Jobs' /\ Turn(h)
  BY <1>1, <1>7, GoesShape
<1>8. CASE Teardown(h)
  <2> DEFINE j == [job[h] EXCEPT !.pc = "await", !.then = "names", !.keep = TRUE]
  <2>1. job' = [job EXCEPT ![h] = j]
    BY <1>8 DEF Teardown
  <2>2. j \in Job /\ Goes(job[h], j)
    BY <1>0, <1>1 DEF Job, Pcs, Is, Goes
  <2> QED BY <1>1, <1>7, <2>1, <2>2
<1>9. ASSUME NEW b \in BOOLEAN,
             \/ job' = [job EXCEPT ![h] = [job[h] EXCEPT !.pc = "ttyd", !.back = b]]
             \/ job' = [job EXCEPT ![h] = [job[h] EXCEPT !.pc = "state", !.was = b]]
             \/ job' = [job EXCEPT ![h] = [job[h] EXCEPT !.pc = "launch", !.restorable = b]]
      PROVE  Jobs' /\ Turn(h)
  <2>1. ASSUME NEW j,
               \/ j = [job[h] EXCEPT !.pc = "ttyd", !.back = b]
               \/ j = [job[h] EXCEPT !.pc = "state", !.was = b]
               \/ j = [job[h] EXCEPT !.pc = "launch", !.restorable = b]
        PROVE  j \in Job /\ Goes(job[h], j)
    BY <1>0, <1>1, <2>1 DEF Job, Pcs, Is, Goes, Starts, Unlaunched
  <2>2. CASE job' = [job EXCEPT ![h] = [job[h] EXCEPT !.pc = "ttyd", !.back = b]]
    <3> DEFINE j == [job[h] EXCEPT !.pc = "ttyd", !.back = b]
    <3>1. j \in Job /\ Goes(job[h], j)
      BY <2>1
    <3>2. job' = [job EXCEPT ![h] = j]
      BY <2>2
    <3> HIDE DEF j
    <3> QED BY <1>7, <3>1, <3>2
  <2>3. CASE job' = [job EXCEPT ![h] = [job[h] EXCEPT !.pc = "state", !.was = b]]
    <3> DEFINE j == [job[h] EXCEPT !.pc = "state", !.was = b]
    <3>1. j \in Job /\ Goes(job[h], j)
      BY <2>1
    <3>2. job' = [job EXCEPT ![h] = j]
      BY <2>3
    <3> HIDE DEF j
    <3> QED BY <1>7, <3>1, <3>2
  <2>4. CASE job' = [job EXCEPT ![h] = [job[h] EXCEPT !.pc = "launch", !.restorable = b]]
    <3> DEFINE j == [job[h] EXCEPT !.pc = "launch", !.restorable = b]
    <3>1. j \in Job /\ Goes(job[h], j)
      BY <2>1
    <3>2. job' = [job EXCEPT ![h] = j]
      BY <2>4
    <3> HIDE DEF j
    <3> QED BY <1>7, <3>1, <3>2
  <2> QED BY <1>9, <2>2, <2>3, <2>4
<1>10. CASE Acquire(h)
  <2> DEFINE b == kept[Tab(h)] # 0 /\ saved[Tab(h)] = kept[Tab(h)]
  <2>1. b \in BOOLEAN /\ job' = [job EXCEPT ![h] = [job[h] EXCEPT !.pc = "ttyd", !.back = b]]
    BY <1>10 DEF Acquire, Locked
  <2> HIDE DEF b
  <2> QED BY <1>1, <1>9, <2>1
<1>11. CASE WasRunning(h)
  <2> DEFINE b == Tab(h) \in CachedRunning
  <2>1. b \in BOOLEAN /\ job' = [job EXCEPT ![h].pc = "state", ![h].was = b]
    BY <1>11 DEF WasRunning
  <2> HIDE DEF b
  <2> QED BY <1>1, <1>9, <2>1
<1>12. CASE IsRestorable(h)
  <2> DEFINE b == Tab(h) \in Restorable
  <2>1. b \in BOOLEAN /\ job' = [job EXCEPT ![h].pc = "launch", ![h].restorable = b]
    BY <1>12 DEF IsRestorable
  <2> HIDE DEF b
  <2> QED BY <1>1, <1>9, <2>1
<1> QED BY <1>1, <1>5, <1>6, <1>8, <1>10, <1>11, <1>12 DEF StartStep

LEMMA OtherTurns ==
  ASSUME Jobs, NEW h \in Threads, OtherStep(h)
  PROVE  /\ Jobs' /\ Turn(h)
         /\ StopTerminal(h) \/ ForgetState(h) \/ CloseAnswered(h) => Is(h, "close")
         /\ KillListed(h) \/ ForgetAll(h) \/ ResetAnswered(h) => Is(h, "reset")
         /\ ReapNext(h) \/ Reaped(h) => Is(h, "reap")
<1> USE DEF At
<1>0. job[h] \in Job /\ Program(h)
  BY DEF Jobs
<1>1. /\ StopTerminal(h) \/ ForgetState(h) \/ CloseAnswered(h) => Is(h, "close")
      /\ KillListed(h) \/ ForgetAll(h) \/ ResetAnswered(h) => Is(h, "reset")
      /\ ReapNext(h) \/ Reaped(h) => Is(h, "reap")
  BY <1>0 DEF StopTerminal, Stopping, ForgetState, CloseAnswered, KillListed, ForgetAll,
              ResetAnswered, ReapNext, Reaped, Program, Is, Waits, Job, Starts, Unlaunched, Launched
<1>2. CASE CloseAnswered(h) \/ ResetAnswered(h) \/ Reaped(h)
  BY <1>1, <1>2, IdleShape DEF CloseAnswered, ResetAnswered, Reaped
<1>3. CASE StopTerminal(h)
  <2>1. /\ job' \in [Threads -> Job] /\ Turn(h)
        /\ job'[h] = [job[h] EXCEPT !.pc = "await", !.then = "forget"]
    BY <1>3, AwaitShape DEF StopTerminal
  <2>2. Program(h)'
    BY <1>0, <1>1, <1>3, <2>1 DEF Program, Is, Tab, Job, Waits
  <2> QED BY <1>1, <2>1, <2>2, TurnKeeps
<1>4. ASSUME NEW pc \in Pcs, Goto(h, pc),
             \/ Is(h, "close") /\ pc \in {"forget", "closed", "timed out"}
             \/ Is(h, "reset") /\ pc \in {"forget all", "clear names"}
             \/ Is(h, "reap") /\ pc = "next"
             \/ Is(h, "start") /\ pc \in {"names", "failed"}
      PROVE  Jobs' /\ Turn(h)
  <2>1. job' \in [Threads -> Job] /\ Turn(h) /\ job'[h] = [job[h] EXCEPT !.pc = pc]
    BY <1>4, GotoShape
  <2>2. Program(h)'
    BY <1>0, <1>4, <2>1 DEF Program, Is, Tab, Job, Starts, Unlaunched
  <2> QED BY <2>1, <2>2, TurnKeeps
<1>5. CASE ForgetState(h) \/ ForgetAll(h)
  <2>1. CASE ForgetState(h)
    BY <1>1, <1>4, <2>1 DEF ForgetState, Rest, Pcs
  <2>2. CASE ForgetAll(h)
    BY <1>1, <1>4, <2>2 DEF ForgetAll, Rest, Pcs
  <2> QED BY <1>5, <2>1, <2>2
<1>6. CASE Awaited(h)
  <2> DEFINE pc == IF job[h].kind = "close" THEN "timed out" ELSE job[h].then
  <2>1. At(h, "await") /\ (Goto(h, job[h].then) \/ Goto(h, pc))
    BY <1>6 DEF Awaited, Rest
  <2>2. /\ Is(h, "close") => job[h].then = "forget"
        /\ Is(h, "reap") => job[h].then = "next"
        /\ Is(h, "start") => job[h].then \in {"names", "failed"}
        /\ job[h].kind \in {"close", "reap", "start"}
    BY <1>0, <2>1 DEF Program, Is, Waits, Job, Starts, Unlaunched, Launched
  <2>3. ASSUME NEW x \in {job[h].then, pc} PROVE
          /\ x \in Pcs
          /\ \/ Is(h, "close") /\ x \in {"forget", "closed", "timed out"}
             \/ Is(h, "reset") /\ x \in {"forget all", "clear names"}
             \/ Is(h, "reap") /\ x = "next"
             \/ Is(h, "start") /\ x \in {"names", "failed"}
    BY <2>2, <2>3 DEF Is, Pcs, Starts, Unlaunched
  <2>4. PICK x \in {job[h].then, pc} : Goto(h, x)
    BY <2>1
  <2> QED BY <1>1, <1>4, <2>3, <2>4
<1>7. CASE KillListed(h)
  <2>1. CASE Goto(h, "forget all")
    BY <1>1, <1>4, <1>7, <2>1 DEF Pcs
  <2>2. CASE job' = [job EXCEPT ![h].pc = "forget all", ![h].quiet = FALSE]
    <3> DEFINE j == [job[h] EXCEPT !.pc = "forget all", !.quiet = FALSE]
    <3>1. job' = [job EXCEPT ![h] = j]
      BY <2>2
    <3>2. /\ j \in Job /\ j.kind = "reset" /\ j.pc = "forget all" /\ j.quiet = FALSE
          /\ j.tab = job[h].tab /\ j.todo = job[h].todo /\ j.clean = job[h].clean
      BY <1>0, <1>1, <1>7 DEF Job, Pcs, Is
    <3> HIDE DEF j
    <3>3. job' \in [Threads -> Job] /\ job'[h] = j /\ Alone(h)
      BY <3>1, <3>2 DEF Jobs, Alone
    <3>4. Program(h)'
      BY <3>2, <3>3 DEF Program, Is
    <3>5. Turn(h)
      BY <1>1, <1>7, <3>2, <3>3 DEF Turn, Is
    <3> QED BY <1>1, <3>3, <3>4, <3>5, TurnKeeps
  <2> QED BY <1>7, <2>1, <2>2 DEF KillListed
<1>8. CASE ReapNext(h)
  <2> DEFINE n == Min(job[h].todo)
             j == [job[h] EXCEPT !.pc = "await", !.then = "next", !.tab = n, !.todo = job[h].todo \ {n}]
  <2>1. job' = [job EXCEPT ![h] = j]
    BY <1>8 DEF ReapNext
  <2>2. n \in Tabs
    <3>1. job[h].todo \subseteq Tabs /\ job[h].todo # {}
      BY <1>0, <1>8 DEF ReapNext, Job
    <3>2. job[h].todo \subseteq Nat
      BY <3>1, BoundsAreNaturals
    <3>3. n \in job[h].todo
      BY <3>1, <3>2, LeastIsIn
    <3> QED BY <3>1, <3>3
  <2> HIDE DEF n
  <2>3. j \in Job /\ j.kind = "reap" /\ j.pc = "await" /\ j.then = "next"
        /\ j.clean = job[h].clean /\ j.quiet = job[h].quiet
    BY <1>0, <1>1, <1>8, <2>2 DEF Job, Pcs, Is
  <2> HIDE DEF j
  <2>4. job' \in [Threads -> Job] /\ job'[h] = j /\ Alone(h)
    BY <2>1, <2>3 DEF Jobs, Alone
  <2>5. Program(h)'
    BY <2>3, <2>4 DEF Program, Is, Waits
  <2>6. Turn(h)
    BY <1>1, <1>8, <2>3, <2>4 DEF Turn, Is
  <2> QED BY <1>1, <2>4, <2>5, <2>6, TurnKeeps
<1> QED BY <1>2, <1>3, <1>5, <1>6, <1>7, <1>8 DEF OtherStep

(* A close, a reset or a reap that begins.                                 *)
Begun(h) ==
  \/ /\ job'[h].kind = "close" /\ job'[h].pc = "stop" /\ job'[h].tab \in Tabs
     /\ job'[h].quiet => ~Starting(job'[h].tab)
  \/ /\ job'[h].kind = "reset" /\ job'[h].pc = "kill"
     /\ job'[h].quiet => \A n \in Tabs : ~Starting(n)
  \/ job'[h].kind = "reap" /\ job'[h].pc = "next"

LEMMA BeginTurns ==
  ASSUME Jobs, NEW h \in Threads, Reset(h) \/ Reap(h) \/ \E n \in Tabs : Close(h, n)
  PROVE  Jobs' /\ Alone(h) /\ Is(h, "none") /\ Begun(h)
<1> USE DEF At
<1>0. job[h] \in Job /\ Program(h) /\ Running \subseteq Tabs
  BY DEF Jobs, Running
<1>1. Is(h, "none")
  <2>1. At(h, "idle")
    BY DEF Reset, Reap, Close
  <2> QED BY <1>0, <2>1 DEF Program, Is, Waits, Job, Starts, Unlaunched, Launched
<1>2. ASSUME NEW j \in Job, job' = [job EXCEPT ![h] = j], Begun(h)
      PROVE  Jobs' /\ Alone(h) /\ Is(h, "none") /\ Begun(h)
  <2>1. job' \in [Threads -> Job] /\ job'[h] = j /\ Alone(h)
    BY <1>2 DEF Jobs, Alone
  <2>2. Program(h)'
    BY <1>2 DEF Begun, Program, Is, Tab
  <2>3. \A g \in Threads \ {h} : Program(g)'
    BY <2>1 DEF Jobs, Program, Alone, Is, At, Tab, Waits
  <2> QED BY <1>1, <1>2, <2>1, <2>2, <2>3 DEF Jobs
<1> HIDE DEF Begun
<1>3. ASSUME NEW n \in Tabs, Close(h, n)
      PROVE  Jobs' /\ Alone(h) /\ Is(h, "none") /\ Begun(h)
  <2> DEFINE quiet == ~Starting(n)
             j == [Idle EXCEPT !.kind = "close", !.pc = "stop", !.tab = n, !.quiet = quiet]
  <2>1. job' = [job EXCEPT ![h] = j] /\ quiet \in BOOLEAN
    BY <1>3 DEF Close
  <2>2. quiet => ~Starting(n)
    OBVIOUS
  <2> HIDE DEF quiet
  <2>3. j \in Job /\ j.kind = "close" /\ j.pc = "stop" /\ j.tab = n /\ j.quiet = quiet
    BY <2>1, IdleIsAJob DEF Job, Pcs
  <2> HIDE DEF j
  <2>4. job'[h] = j
    BY <2>1 DEF Jobs
  <2>5. Begun(h)
    BY <2>2, <2>3, <2>4 DEF Begun
  <2> QED BY <1>2, <2>1, <2>3, <2>5
<1>4. ASSUME Reset(h)
      PROVE  Jobs' /\ Alone(h) /\ Is(h, "none") /\ Begun(h)
  <2>1. PICK listed \in {Running, {}} :
          job' = [job EXCEPT ![h] = [Idle EXCEPT !.kind = "reset", !.pc = "kill", !.todo = listed,
                                       !.quiet = \A n \in Tabs : ~Starting(n)]]
    BY <1>4 DEF Reset
  <2> DEFINE quiet == \A n \in Tabs : ~Starting(n)
             j == [Idle EXCEPT !.kind = "reset", !.pc = "kill", !.todo = listed, !.quiet = quiet]
  <2>2. job' = [job EXCEPT ![h] = j] /\ quiet \in BOOLEAN
    BY <2>1
  <2>3. quiet => \A n \in Tabs : ~Starting(n)
    OBVIOUS
  <2> HIDE DEF quiet
  <2>4. j \in Job /\ j.kind = "reset" /\ j.pc = "kill" /\ j.quiet = quiet
    BY <1>0, <2>2, IdleIsAJob DEF Job, Pcs
  <2> HIDE DEF j
  <2>5. job'[h] = j
    BY <2>2 DEF Jobs
  <2>6. Begun(h)
    BY <2>3, <2>4, <2>5 DEF Begun
  <2> QED BY <1>2, <2>2, <2>4, <2>6
<1>5. ASSUME Reap(h)
      PROVE  Jobs' /\ Alone(h) /\ Is(h, "none") /\ Begun(h)
  <2> DEFINE j == [Idle EXCEPT !.kind = "reap", !.pc = "next", !.todo = Running]
  <2>1. job' = [job EXCEPT ![h] = j]
    BY <1>5 DEF Reap
  <2>2. j \in Job /\ j.kind = "reap" /\ j.pc = "next"
    BY <1>0, IdleIsAJob DEF Job, Pcs
  <2> HIDE DEF j
  <2>3. Begun(h)
    BY <2>1, <2>2 DEF Begun, Jobs
  <2> QED BY <1>2, <2>1, <2>2, <2>3
<1> QED BY <1>3, <1>4, <1>5

LEMMA WorldShape ==
  ASSUME World
  PROVE  UNCHANGED <<job, lock, told, kept, gone>>
BY DEF World, UnitStep, DaemonLoads, DaemonBinds, DaemonExits, TtydMoves, DaemonSaves, DaemonDies,
       TtydDies, Rename, CacheExpires, Poll, Undisturbed, history, vars

LEMMA RestartShape ==
  ASSUME Restart, NEW h \in Threads
  PROVE  job' = [g \in Threads |-> Idle] /\ job'[h] = Idle /\ UNCHANGED <<told, kept, gone>>
BY DEF Restart, ManagerRestarts, HostRestarts, ThreadsGone, history

LEMMA JobsStep ==
  ASSUME Jobs, [Next]_vars
  PROVE  Jobs'
<1>1. CASE World
  BY <1>1, WorldShape DEF Jobs, Program, Is, At, Tab, Waits
<1>2. CASE Restart
  <2>1. job' = [g \in Threads |-> Idle]
    BY <1>2 DEF Restart, ManagerRestarts, HostRestarts, ThreadsGone
  <2>2. \A h \in Threads : Program(h)'
    BY <2>1 DEF Program, Idle, Is, At
  <2> QED BY <2>1, <2>2, IdleIsAJob DEF Jobs
<1>3. ASSUME NEW h \in Threads, Own(h) PROVE Jobs'
  <2>1. ASSUME NEW n \in Tabs, BeginStart(h, n) PROVE Jobs'
    BY <2>1, BeginShape
  <2> QED BY <1>3, <2>1, StartTurns, OtherTurns, BeginTurns DEF Own, Step, Open, Ask
<1> QED BY <1>1, <1>2, <1>3, Steps

LEMMA CacheTypes ==
  ASSUME cache \in Caches
  PROVE  NoCache \in Caches /\ \A s \in {Running, CachedRunning} : [valid |-> TRUE, set |-> s] \in Caches
<1>1. Running \subseteq Tabs /\ CachedRunning \subseteq Tabs
  BY DEF CachedRunning, Running, Caches
<1> HIDE DEF Running, CachedRunning
<1> QED BY <1>1 DEF NoCache, Caches

LEMMA AnswerTypes ==
  ASSUME Types, NEW h \in Threads, NEW ok \in BOOLEAN, Answer(h, ok)
  PROVE  /\ lock' \in [Tabs -> Threads \cup {None}] /\ told' \in [Tabs -> BOOLEAN]
         /\ kept' \in [Tabs -> Lives \cup {0}] /\ cache' \in Caches
         /\ gone' = gone
<1>1. Closing(Tab(h)) \in BOOLEAN /\ Serving(Tab(h)) \in BOOLEAN
  BY DEF Closing, Serving
<1>2. kept' \in [Tabs -> Lives \cup {0}]
  BY DEF Answer, Types
<1>3. told' \in [Tabs -> BOOLEAN]
  <2> DEFINE b == told[Tab(h)] \/ (ok /\ Serving(Tab(h)))
  <2>1. b \in BOOLEAN /\ told' = [told EXCEPT ![Tab(h)] = b]
    BY <1>1 DEF Answer
  <2> HIDE DEF b
  <2> QED BY <2>1 DEF Types
<1> QED BY <1>2, <1>3, CacheTypes DEF Answer, Types

LEMMA StopTypes ==
  ASSUME Types, NEW n
  PROVE  /\ StopBoth(n) => sess' \in [Tabs -> UnitState] /\ ttyd' \in [Tabs -> UnitState]
         /\ StopSession(n) => sess' \in [Tabs -> UnitState] /\ ttyd' \in [Tabs -> UnitState]
BY DEF Types, StopBoth, StopSession, Stopped, UnitState

LEMMA StartTypes ==
  ASSUME Types, NEW h \in Threads, StartStep(h) \/ Acquire(h)
  PROVE  Types'
<1>0. [valid |-> TRUE, set |-> CachedRunning] \in Caches
  BY CacheTypes DEF Types
<1>1. CASE CheckTtyd(h) \/ WaitSocket(h) \/ WaitPort(h)
  BY <1>1 DEF CheckTtyd, WaitSocket, WaitPort, Rest, units, history, Types
<1>2. CASE CheckSession(h)
  BY <1>2, AnswerTypes DEF CheckSession, Rest, units, history, Types
<1>3. CASE Teardown(h)
  <2>1. sess' \in [Tabs -> UnitState] /\ ttyd' \in [Tabs -> UnitState]
    BY <1>3, StopTypes DEF Teardown
  <2> QED BY <1>3, <2>1 DEF Teardown, history, Types
<1>4. CASE WasRunning(h) \/ IsRestorable(h)
  BY <1>0, <1>4 DEF WasRunning, IsRestorable, units, history, Types
<1>5. CASE LaunchSession(h)
  <2>1. CASE Answer(h, FALSE) /\ UNCHANGED <<sess, ttyd, sock, life, saved, names>>
    BY <2>1, AnswerTypes DEF Types
  <2>2. CASE /\ sess' = [sess EXCEPT ![Tab(h)] = "booting"]
             /\ told' = [told EXCEPT ![Tab(h)] = FALSE]
             /\ UNCHANGED <<lock, cache, kept, gone, ttyd, sock, life, saved, names>>
    BY <2>2 DEF Types, UnitState
  <2> QED BY <1>5, <2>1, <2>2 DEF LaunchSession
<1>6. CASE LaunchTtyd(h)
  BY <1>6 DEF LaunchTtyd, Rest, history, Types, UnitState
<1>7. CASE GiveUp(h)
  BY <1>7, StopTypes DEF GiveUp, history, Types
<1>8. CASE Failed(h)
  BY <1>8, AnswerTypes DEF Failed, units, Types
<1>9. CASE Started(h)
  <2>1. names' \in [Tabs -> Lives \cup {0}]
    BY <1>9 DEF Started, Types
  <2> QED BY <1>9, <2>1, AnswerTypes DEF Started, units, Types
<1>10. CASE Acquire(h)
  BY <1>10 DEF Acquire, Locked, units, history, Types
<1> QED BY <1>1, <1>2, <1>3, <1>4, <1>5, <1>6, <1>7, <1>8, <1>9, <1>10 DEF StartStep

LEMMA OtherTypes ==
  ASSUME Types, NEW h \in Threads, OtherStep(h)
  PROVE  Types'
<1>1. CASE Awaited(h)
  BY <1>1 DEF Awaited, Rest, units, history, Types
<1>2. CASE StopTerminal(h)
  BY <1>2, StopTypes DEF StopTerminal, Stopping, history, Types
<1>3. CASE ForgetState(h) \/ ForgetAll(h)
  <2>1. saved' \in [Tabs -> Lives \cup {0}] /\ cache' \in {cache, NoCache}
    BY <1>3 DEF ForgetState, ForgetAll, Types
  <2> QED BY <1>3, <2>1, CacheTypes DEF ForgetState, ForgetAll, Rest, history, Types
<1>4. CASE CloseAnswered(h)
  BY <1>4, CacheTypes DEF CloseAnswered, CloseCache, units, Types, Reasons
<1>5. CASE KillListed(h)
  BY <1>5 DEF KillListed, Cleared, history, Types, UnitState
<1>6. CASE ResetAnswered(h)
  BY <1>6 DEF ResetAnswered, units, Types, Reasons
<1>7. CASE ReapNext(h)
  BY <1>7, StopTypes DEF ReapNext, history, Types
<1>8. CASE Reaped(h)
  BY <1>8, CacheTypes DEF Reaped, units, history, Types
<1> QED BY <1>1, <1>2, <1>3, <1>4, <1>5, <1>6, <1>7, <1>8 DEF OtherStep

LEMMA LoadsALife ==
  ASSUME NEW x, NEW y
  PROVE  Min(Lives \ {x, y}) \in Lives
<1>1. Lives \ {x, y} # {}
  <2>1. 1 \in Lives /\ 2 \in Lives /\ 3 \in Lives
    BY DEF Lives
  <2>2. 1 \notin {x, y} \/ 2 \notin {x, y} \/ 3 \notin {x, y}
    OBVIOUS
  <2> QED BY <2>1, <2>2
<1>2. Lives \ {x, y} \subseteq Nat
  BY DEF Lives
<1> HIDE DEF Lives
<1> QED BY <1>1, <1>2, LeastIsIn

LEMMA WorldTypes ==
  ASSUME Types, World
  PROVE  Types'
<1>1. CASE \E n \in Tabs : DaemonLoads(n)
  <2>1. PICK n \in Tabs : DaemonLoads(n)
    BY <1>1
  <2>2. PICK x \in Lives : life' = [life EXCEPT ![n] = IF saved[n] # 0 THEN saved[n] ELSE x]
    BY <2>1, LoadsALife DEF DaemonLoads
  <2> QED BY <2>1, <2>2 DEF DaemonLoads, Undisturbed, history, Types
<1>2. CASE \E n \in Tabs : DaemonBinds(n) \/ DaemonExits(n) \/ TtydMoves(n) \/ DaemonSaves(n)
  <2>1. PICK n \in Tabs : DaemonBinds(n) \/ DaemonExits(n) \/ TtydMoves(n) \/ DaemonSaves(n)
    BY <1>2
  <2>2. CASE DaemonExits(n)
    <3>1. sock[n] \in BOOLEAN /\ (life[n] = 0) \in BOOLEAN
      BY DEF Types
    <3>2. sock' \in [Tabs -> BOOLEAN]
      BY <2>2, <3>1 DEF DaemonExits, Types
    <3> QED BY <2>2, <3>2 DEF DaemonExits, Undisturbed, history, Types, UnitState
  <2> QED BY <2>1, <2>2 DEF DaemonBinds, TtydMoves, DaemonSaves, Undisturbed, history, Types, UnitState
<1>3. CASE \E n \in Tabs : DaemonDies(n) \/ TtydDies(n) \/ Rename(n)
  BY <1>3 DEF DaemonDies, TtydDies, Rename, Undisturbed, history, units, Types, UnitState
<1>4. CASE CacheExpires \/ Poll \/ UNCHANGED vars
  BY <1>4, CacheTypes DEF CacheExpires, Poll, Undisturbed, history, units, Types, vars
<1> QED BY <1>1, <1>2, <1>3, <1>4 DEF World, UnitStep

LEMMA TypesStep ==
  ASSUME Types, [Next]_vars
  PROVE  Types'
<1>1. CASE Restart
  <2>1. /\ saved' \in [Tabs -> Lives \cup {0}] /\ life' \in [Tabs -> Lives \cup {0}]
        /\ sess' \in [Tabs -> UnitState] /\ ttyd' \in [Tabs -> UnitState] /\ sock' \in [Tabs -> BOOLEAN]
    <3>1. CASE ManagerRestarts
      BY <3>1 DEF ManagerRestarts, units, Types
    <3>2. CASE HostRestarts
      <4>1. saved' = saved \/ saved' = [n \in Tabs |-> IF life[n] # 0 THEN life[n] ELSE saved[n]]
        BY <3>2 DEF HostRestarts
      <4>2. saved' \in [Tabs -> Lives \cup {0}]
        BY <4>1 DEF Types
      <4> QED BY <3>2, <4>2 DEF HostRestarts, UnitState
    <3> QED BY <1>1, <3>1, <3>2 DEF Restart
  <2>2. lock' = [n \in Tabs |-> None] /\ cache' = NoCache
        /\ UNCHANGED <<names, told, kept, gone>>
    BY <1>1 DEF Restart, ManagerRestarts, HostRestarts, ThreadsGone, history
  <2> QED BY <2>1, <2>2, CacheTypes DEF Types
<1>2. ASSUME NEW h \in Threads, NEW n \in Tabs, Open(h, n) \/ Ask(h, n) PROVE Types'
  <2>1. gone' \in [Tabs -> Reasons] /\ cache' \in Caches
    BY <1>2, CacheTypes DEF Open, Ask, BeginStart, Types, Reasons
  <2> QED BY <1>2, <2>1 DEF Open, Ask, BeginStart, units, Types
<1>3. ASSUME NEW h \in Threads, NEW n \in Tabs, Close(h, n) PROVE Types'
  BY <1>3 DEF Close, units, Types
<1>4. ASSUME NEW h \in Threads, Reset(h) \/ Reap(h) PROVE Types'
  BY <1>4 DEF Reset, Reap, units, history, Types
<1> QED BY <1>1, <1>2, <1>3, <1>4, Steps, StartTypes, OtherTypes, WorldTypes DEF Own, Step

-----------------------------------------------------------------------------
(* Nothing comes up unless a start launches it.                            *)
Daemons == \A n \in Tabs : (sess[n] = "off" => life[n] = 0) /\ (sess[n] = "up" => life[n] # 0)
Unlisted(n) == cache.valid => n \notin cache.set
Off(n) == sess[n] = "off" /\ ttyd[n] = "off"
Calm(n) ==
  /\ ~Alive(sess[n]) => ~Alive(sess'[n])
  /\ ~Alive(ttyd[n]) => ~Alive(ttyd'[n])
  /\ Off(n) => Off(n)'
  /\ Nothing(n) => Nothing(n)'
  /\ Nothing(n) /\ Unlisted(n) => Unlisted(n)'
Launches(n) == \E h \in Threads : Tab(h) = n /\ (LaunchSession(h) \/ LaunchTtyd(h))

LEMMA StopIsCalm ==
  ASSUME Types, NEW n \in Tabs, NEW m, StopBoth(m) \/ StopSession(m)
  PROVE  /\ sess'[n] \in {sess[n], "stopping"} /\ (sess[n] = "off" => sess'[n] = "off")
         /\ ttyd'[n] \in {ttyd[n], "stopping"} /\ (ttyd[n] = "off" => ttyd'[n] = "off")
         /\ StopBoth(n) => ~Alive(sess'[n]) /\ ~Alive(ttyd'[n])
BY DEF Types, StopBoth, StopSession, Stopped, Alive, UnitState

LEMMA DaemonsStep ==
  ASSUME Types, Daemons, [Next]_vars
  PROVE  Daemons'
<1> SUFFICES ASSUME NEW n \in Tabs
             PROVE  (sess'[n] = "off" => life'[n] = 0) /\ (sess'[n] = "up" => life'[n] # 0)
  BY DEF Daemons
<1>0. (sess[n] = "off" => life[n] = 0) /\ (sess[n] = "up" => life[n] # 0)
  BY DEF Daemons
<1>1. ASSUME sess'[n] = sess[n], life'[n] = life[n]
      PROVE  (sess'[n] = "off" => life'[n] = 0) /\ (sess'[n] = "up" => life'[n] # 0)
  BY <1>0, <1>1
<1>2. ASSUME NEW m, StopBoth(m) \/ StopSession(m), UNCHANGED life
      PROVE  (sess'[n] = "off" => life'[n] = 0) /\ (sess'[n] = "up" => life'[n] # 0)
  <2>1. sess'[n] \in {sess[n], "stopping"}
    BY <1>2, StopIsCalm
  <2> QED BY <1>0, <1>2, <2>1
<1>3. CASE World
  BY <1>0, <1>3 DEF World, UnitStep, DaemonLoads, DaemonBinds, DaemonExits, TtydMoves, DaemonSaves,
       DaemonDies, TtydDies, Rename, CacheExpires, Poll, Alive, units, vars, Types
<1>4. CASE Restart
  BY <1>0, <1>4 DEF Restart, ManagerRestarts, HostRestarts, units
<1>5. ASSUME NEW h \in Threads, StartStep(h) \/ Acquire(h)
      PROVE  (sess'[n] = "off" => life'[n] = 0) /\ (sess'[n] = "up" => life'[n] # 0)
  <2>1. CASE UNCHANGED <<sess, life>>
    BY <1>1, <2>1
  <2>2. CASE LaunchSession(h)
    BY <1>0, <2>2 DEF LaunchSession, Types
  <2>3. CASE Teardown(h) \/ GiveUp(h)
    BY <1>2, <2>3 DEF Teardown, GiveUp
  <2> QED BY <1>5, <2>1, <2>2, <2>3 DEF StartStep, CheckTtyd, CheckSession, WasRunning, IsRestorable,
             WaitSocket, LaunchTtyd, WaitPort, Failed, Started, Acquire, Locked, units
<1>6. ASSUME NEW h \in Threads, OtherStep(h)
      PROVE  (sess'[n] = "off" => life'[n] = 0) /\ (sess'[n] = "up" => life'[n] # 0)
  <2>1. CASE UNCHANGED <<sess, life>>
    BY <1>1, <2>1
  <2>2. CASE StopTerminal(h) \/ ReapNext(h)
    BY <1>2, <2>2 DEF StopTerminal, Stopping, ReapNext
  <2>3. CASE KillListed(h)
    BY <1>0, <2>3 DEF KillListed, Cleared
  <2> QED BY <1>6, <2>1, <2>2, <2>3 DEF OtherStep, Awaited, ForgetState, CloseAnswered, ForgetAll,
             ResetAnswered, Reaped, units
<1>7. ASSUME NEW h \in Threads, \/ Reset(h) \/ Reap(h)
                                \/ \E m \in Tabs : Open(h, m) \/ Ask(h, m) \/ Close(h, m)
      PROVE  (sess'[n] = "off" => life'[n] = 0) /\ (sess'[n] = "up" => life'[n] # 0)
  BY <1>1, <1>7 DEF Reset, Reap, Open, Ask, Close, BeginStart, units
<1> QED BY <1>3, <1>4, <1>5, <1>6, <1>7, Steps DEF Own, Step

LEMMA CalmStep ==
  ASSUME Types, Daemons, [Next]_vars, NEW n \in Tabs, ~Launches(n)
  PROVE  Calm(n)
<1> USE DEF Calm, Off, Nothing
<1>0. /\ n \in Running \/ n \in CachedRunning => ttyd[n] # "off" \/ ~Unlisted(n)
      /\ ttyd[n] = "off" => n \notin Running
  BY DEF Running, CachedRunning, Alive, Unlisted
<1>1. ASSUME cache' \in {cache, NoCache} \/ cache' \in {[valid |-> TRUE, set |-> s] : s \in {Running, CachedRunning}}
      PROVE  Nothing(n) /\ Unlisted(n) => Unlisted(n)'
  BY <1>0, <1>1 DEF Unlisted, NoCache
<1>2. ASSUME /\ sess'[n] \in {sess[n], "stopping"} /\ (sess[n] = "off" => sess'[n] = "off")
             /\ ttyd'[n] \in {ttyd[n], "stopping"} /\ (ttyd[n] = "off" => ttyd'[n] = "off"),
             saved'[n] \in {saved[n], 0},
             Nothing(n) /\ Unlisted(n) => Unlisted(n)'
      PROVE  Calm(n)
  BY <1>2 DEF Alive
<1> HIDE DEF Calm
<1>3. CASE World
  <2>1. Nothing(n) /\ Unlisted(n) => Unlisted(n)'
    BY <1>1, <1>3 DEF World, UnitStep, DaemonLoads, DaemonBinds, DaemonExits, TtydMoves, DaemonSaves,
       DaemonDies, TtydDies, Rename, CacheExpires, Poll, vars
  <2>2. UNCHANGED <<sess, ttyd, saved>> => Calm(n)
    BY <1>2, <2>1
  <2>3. ASSUME NEW m \in Tabs, DaemonLoads(m) \/ DaemonBinds(m) \/ DaemonSaves(m) \/ DaemonDies(m)
        PROVE  Calm(n)
    BY <2>1, <2>3 DEF Calm, DaemonLoads, DaemonBinds, DaemonSaves, DaemonDies, Alive, Types
  <2>4. ASSUME NEW m \in Tabs, DaemonExits(m)
        PROVE  Calm(n)
    BY <2>1, <2>4 DEF Calm, DaemonExits, Alive, Types
  <2>5. ASSUME NEW m \in Tabs, TtydMoves(m) \/ TtydDies(m)
        PROVE  Calm(n)
    BY <2>1, <2>5 DEF Calm, TtydMoves, TtydDies, Alive, Types
  <2> QED BY <1>3, <2>2, <2>3, <2>4, <2>5 DEF World, UnitStep, Rename, CacheExpires, Poll, units, vars
<1>4. CASE Restart
  <2>1. cache' = NoCache
    BY <1>4 DEF Restart, ManagerRestarts, HostRestarts, ThreadsGone
  <2>2. sess[n] = "off" => life[n] = 0
    BY DEF Daemons
  <2>3. CASE ManagerRestarts
    BY <1>1, <1>2, <2>1, <2>3 DEF ManagerRestarts, units
  <2>4. CASE HostRestarts
    BY <2>1, <2>2, <2>4 DEF HostRestarts, Calm, Alive, Unlisted, NoCache
  <2> QED BY <1>4, <2>3, <2>4 DEF Restart
<1>5. ASSUME NEW h \in Threads, StartStep(h) \/ Acquire(h)
      PROVE  Calm(n)
  <2>1. Nothing(n) /\ Unlisted(n) => Unlisted(n)'
    BY <1>1, <1>5 DEF StartStep, CheckTtyd, CheckSession, Teardown, GiveUp, WasRunning, IsRestorable,
             LaunchSession, WaitSocket, LaunchTtyd, WaitPort, Failed, Started, Acquire, Locked, Answer
  <2>2. CASE UNCHANGED <<sess, ttyd, saved>>
    BY <1>2, <2>1, <2>2
  <2>3. CASE LaunchSession(h) \/ LaunchTtyd(h)
    <3>1. Tab(h) # n
      BY <2>3 DEF Launches
    <3>2. sess'[n] = sess[n] /\ ttyd'[n] = ttyd[n] /\ saved'[n] = saved[n]
      BY <2>3, <3>1 DEF LaunchSession, LaunchTtyd, Types
    <3> QED BY <1>2, <2>1, <3>2
  <2>4. CASE Teardown(h) \/ GiveUp(h)
    <3>1. saved' = saved /\ (StopBoth(Tab(h)) \/ StopSession(Tab(h)))
      BY <2>4 DEF Teardown, GiveUp
    <3> QED BY <1>2, <2>1, <3>1, StopIsCalm
  <2> QED BY <1>5, <2>2, <2>3, <2>4 DEF StartStep, CheckTtyd, CheckSession, WasRunning, IsRestorable,
             WaitSocket, WaitPort, Failed, Started, Acquire, Locked, units
<1>6. ASSUME NEW h \in Threads, OtherStep(h)
      PROVE  Calm(n)
  <2>1. Nothing(n) /\ Unlisted(n) => Unlisted(n)'
    BY <1>1, <1>6 DEF OtherStep, Awaited, StopTerminal, Stopping, ForgetState, CloseAnswered, CloseCache,
             KillListed, ForgetAll, ResetAnswered, ReapNext, Reaped
  <2>2. CASE UNCHANGED <<sess, ttyd, saved>>
    BY <1>2, <2>1, <2>2
  <2>3. CASE StopTerminal(h) \/ ReapNext(h)
    <3>1. PICK m : saved' = saved /\ StopBoth(m)
      BY <2>3 DEF StopTerminal, Stopping, ReapNext
    <3> QED BY <1>2, <2>1, <3>1, StopIsCalm
  <2>4. CASE KillListed(h)
    BY <2>1, <2>4 DEF KillListed, Cleared, Calm, Alive
  <2>5. CASE ForgetState(h) \/ ForgetAll(h)
    <3>1. saved'[n] \in {saved[n], 0} /\ UNCHANGED <<sess, ttyd>>
      BY <2>5 DEF ForgetState, ForgetAll, Types
    <3> QED BY <1>2, <2>1, <3>1
  <2> QED BY <1>6, <2>2, <2>3, <2>4, <2>5 DEF OtherStep, Awaited, CloseAnswered, ResetAnswered, Reaped, units
<1>7. ASSUME NEW h \in Threads, \/ Reset(h) \/ Reap(h)
                                \/ \E m \in Tabs : Open(h, m) \/ Ask(h, m) \/ Close(h, m)
      PROVE  Calm(n)
  <2>1. /\ cache' = cache \/ cache' = [valid |-> TRUE, set |-> CachedRunning]
        /\ UNCHANGED <<sess, ttyd, saved>>
    BY <1>7 DEF Reset, Reap, Open, Ask, Close, BeginStart, units
  <2> QED BY <1>1, <1>2, <2>1
<1> QED BY <1>3, <1>4, <1>5, <1>6, <1>7, Steps DEF Own, Step

-----------------------------------------------------------------------------
(* How the job of a thread changes in a step of another one.               *)
Stays(g) ==
  /\ job'[g].kind = job[g].kind /\ job'[g].pc = job[g].pc /\ job'[g].then = job[g].then
  /\ job'[g].tab = job[g].tab /\ job'[g].todo = job[g].todo
  /\ job'[g].keep = job[g].keep /\ job'[g].was = job[g].was
  /\ job'[g].restorable = job[g].restorable /\ job'[g].back = job[g].back
  /\ job'[g].quiet => job[g].quiet
  /\ job'[g].clean => job[g].clean

LEMMA OthersStay ==
  ASSUME Jobs, NEW g \in Threads, NEW h \in Threads \ {g}, Own(h)
  PROVE  Stays(g)
<1>1. Alone(h) => Stays(g)
  BY DEF Alone, Stays
<1>2. ASSUME NEW n \in Tabs, BeginStart(h, n)
      PROVE  Stays(g)
  <2>1. job'[g] = Marked(job[g], n)
    BY <1>2, BeginShape DEF Begins
  <2>2. job[g] \in Job
    BY DEF Jobs
  <2> QED BY <2>1, <2>2 DEF Marked, Job, Stays
<1>3. CASE Step(h) \/ Acquire(h)
  BY <1>1, <1>3, StartTurns, OtherTurns DEF Step, Turn
<1>4. CASE Reset(h) \/ Reap(h) \/ \E n \in Tabs : Close(h, n)
  BY <1>1, <1>4, BeginTurns
<1> QED BY <1>2, <1>3, <1>4 DEF Own, Open, Ask

LEMMA Turned ==
  ASSUME Jobs, [Next]_vars, NEW g \in Threads
  PROVE  Stays(g) \/ job'[g] = Idle \/ Own(g)
<1>1. CASE World
  BY <1>1, WorldShape DEF Stays
<1>2. CASE Restart
  BY <1>2, RestartShape
<1> QED BY <1>1, <1>2, OthersStay, Steps

(* A start that begins disturbs every close of its tab, every reset, and   *)
(* every other start of its tab.                                           *)
LEMMA Disturbs ==
  ASSUME Jobs, NEW h \in Threads, NEW n \in Tabs, BeginStart(h, n), NEW g \in Threads
  PROVE  /\ Is(g, "close")' /\ job'[g].tab = n => ~job'[g].quiet
         /\ Is(g, "reset")' => ~job'[g].quiet
         /\ g # h /\ job'[g].tab = n => ~job'[g].clean
<1>1. Begins(h, n) /\ job[g] \in Job
  BY BeginShape DEF Jobs
<1>2. CASE g = h
  <2>1. job'[g].kind = "start"
    BY <1>1, <1>2, IdleIsAJob DEF Begins, Job
  <2> QED BY <1>2, <2>1 DEF Is
<1>3. CASE g # h
  <2>1. job'[g] = Marked(job[g], n)
    BY <1>1, <1>3 DEF Begins
  <2> QED BY <1>1, <2>1 DEF Marked, Job, Is
<1> QED BY <1>2, <1>3

LEMMA StartedBefore ==
  ASSUME Jobs, [Next]_vars, NEW n \in Tabs, NEW g \in Threads, ~BeginStart(g, n),
         job'[g].kind = "start", job'[g].tab = n
  PROVE  Is(g, "start") /\ Tab(g) = n
<1>1. CASE Stays(g)
  BY <1>1 DEF Stays, Is, Tab
<1>2. job'[g] # Idle
  BY DEF Idle
<1>3. CASE Own(g)
  <2>1. Turn(g) => Is(g, "start") /\ Tab(g) = n
    BY <1>2 DEF Turn, Is, Tab
  <2>2. CASE Reset(g) \/ Reap(g) \/ \E m \in Tabs : Close(g, m)
    BY <2>2, BeginTurns DEF Begun
  <2>3. ASSUME NEW m \in Tabs, Open(g, m) \/ Ask(g, m) PROVE FALSE
    <3>1. job'[g].tab = m
      BY <2>3, BeginShape DEF Fresh, Open, Ask
    <3> QED BY <2>3, <3>1 DEF Open, Ask
  <2> QED BY <1>3, <2>1, <2>2, <2>3, StartTurns, OtherTurns DEF Own, Step
<1> QED BY <1>1, <1>2, <1>3, Turned

LEMMA StartingNext ==
  ASSUME Jobs, [Next]_vars, NEW n \in Tabs, ~Starting(n),
         \A h \in Threads : ~BeginStart(h, n)
  PROVE  ~Starting(n)'
BY StartedBefore DEF Starting, Tab, Is

LEMMA NoLaunch ==
  ASSUME Jobs, NEW n \in Tabs, ~Starting(n)
  PROVE  ~Launches(n)
BY StartTurns DEF Launches, StartStep, Starting, Is

(* Closed stays closed: what a close or a reset has reached, and what it   *)
(* leaves behind.                                                          *)
Gone == \A n \in Tabs : gone[n] \in {"closed", "listed"} => Nothing(n) /\ Unlisted(n) /\ ~Starting(n)
ClosesSo(h, n) ==
  /\ ~Starting(n)
  /\ At(h, "await") => ~Alive(sess[n]) /\ ~Alive(ttyd[n])
  /\ job[h].pc \in {"forget", "closed"} => Off(n)
  /\ At(h, "closed") => Nothing(n)
Closes == \A h \in Threads : Is(h, "close") /\ job[h].quiet => ClosesSo(h, Tab(h))
ResetsSo(h, todo) ==
  /\ \A n \in Tabs : ~Starting(n)
  /\ At(h, "forget all") => \A n \in todo : Off(n)
  /\ At(h, "clear names") => \A n \in todo : Nothing(n) /\ Unlisted(n)
Resets == \A h \in Threads : Is(h, "reset") /\ job[h].quiet => ResetsSo(h, job[h].todo)

LEMMA GoneStep ==
  ASSUME Jobs, Types, Daemons, Gone, Closes, Resets, [Next]_vars
  PROVE  Gone'
<1> SUFFICES ASSUME NEW n \in Tabs, gone'[n] \in {"closed", "listed"}
             PROVE  (Nothing(n) /\ Unlisted(n) /\ ~Starting(n))'
  BY DEF Gone
<1>1. ASSUME NEW h \in Threads, BeginStart(h, n) PROVE FALSE
  BY <1>1 DEF BeginStart, Types
<1>2. ASSUME Nothing(n), Unlisted(n), ~Starting(n)
      PROVE  (Nothing(n) /\ Unlisted(n) /\ ~Starting(n))'
  BY <1>1, <1>2, StartingNext, NoLaunch, CalmStep DEF Calm
<1>3. CASE gone'[n] = gone[n]
  BY <1>2, <1>3 DEF Gone
<1>4. ASSUME NEW h \in Threads, CloseAnswered(h), gone'[n] # gone[n]
      PROVE  (Nothing(n) /\ Unlisted(n) /\ ~Starting(n))'
  <2>1. Is(h, "close") /\ Tab(h) \in Tabs
    BY <1>4, OtherTurns DEF OtherStep, Jobs, Program
  <2>2. Tab(h) = n /\ At(h, "closed") /\ job[h].quiet
    BY <1>4, <2>1 DEF CloseAnswered, Types
  <2>3. Nothing(n) /\ ~Starting(n)
    BY <2>1, <2>2 DEF Closes, ClosesSo
  <2>4. Unlisted(n)' /\ UNCHANGED <<sess, ttyd, saved>>
    BY <1>4 DEF CloseAnswered, CloseCache, NoCache, Unlisted, units
  <2> QED BY <1>1, <2>3, <2>4, StartingNext DEF Nothing
<1>5. ASSUME NEW h \in Threads, ResetAnswered(h), gone'[n] # gone[n]
      PROVE  (Nothing(n) /\ Unlisted(n) /\ ~Starting(n))'
  <2>1. Is(h, "reset") /\ At(h, "clear names")
    BY <1>5, OtherTurns DEF OtherStep, ResetAnswered
  <2>2. job[h].quiet /\ n \in job[h].todo
    BY <1>5 DEF ResetAnswered
  <2> QED BY <1>2, <2>1, <2>2 DEF Resets, ResetsSo
<1>6. CASE World \/ Restart
  <2>1. CASE World
    BY <1>3, <2>1, WorldShape
  <2>2. CASE Restart
    BY <1>3, <2>2 DEF Restart, ManagerRestarts, HostRestarts, history
  <2> QED BY <1>6, <2>1, <2>2
<1>7. ASSUME NEW h \in Threads, Own(h)
      PROVE  (Nothing(n) /\ Unlisted(n) /\ ~Starting(n))'
  <2>1. CASE StartStep(h) \/ Acquire(h)
    <3>1. gone' = gone
      BY <2>1 DEF StartStep, CheckTtyd, CheckSession, Teardown, GiveUp, WasRunning, IsRestorable,
             LaunchSession, WaitSocket, LaunchTtyd, WaitPort, Failed, Started, Acquire, Locked, Answer,
             Rest, history
    <3> QED BY <1>3, <3>1
  <2>2. CASE OtherStep(h)
    <3>1. gone' = gone \/ CloseAnswered(h) \/ ResetAnswered(h)
      BY <2>2 DEF OtherStep, Awaited, StopTerminal, Stopping, ForgetState, KillListed, ForgetAll,
             ReapNext, Reaped, Rest, history
    <3> QED BY <1>3, <1>4, <1>5, <3>1
  <2>3. ASSUME NEW m \in Tabs, Open(h, m) \/ Ask(h, m)
        PROVE  (Nothing(n) /\ Unlisted(n) /\ ~Starting(n))'
    <3>1. gone' = [gone EXCEPT ![m] = "no"]
      BY <2>3 DEF Open, Ask, BeginStart
    <3> QED BY <1>3, <3>1 DEF Types
  <2>4. CASE Reset(h) \/ Reap(h) \/ \E m \in Tabs : Close(h, m)
    <3>1. gone' = gone
      BY <2>4 DEF Reset, Reap, Close, history
    <3> QED BY <1>3, <3>1
  <2> QED BY <1>7, <2>1, <2>2, <2>3, <2>4 DEF Own, Step
<1> QED BY <1>6, <1>7, Steps

LEMMA ClosesStep ==
  ASSUME Jobs, Types, Daemons, Closes, [Next]_vars
  PROVE  Closes'
<1> SUFFICES ASSUME NEW g \in Threads, job'[g].kind = "close", job'[g].quiet
             PROVE  ClosesSo(g, Tab(g))'
  BY DEF Closes, Is
<1>1. PICK n : n = job'[g].tab
  OBVIOUS
<1>2. Jobs' /\ n \in Tabs
  BY <1>1, JobsStep DEF Jobs, Program, Is, Tab
<1>3. \A h \in Threads : ~BeginStart(h, n)
  BY <1>1, <1>2, Disturbs DEF Is
<1>4. ASSUME ~Starting(n) PROVE ~Starting(n)' /\ Calm(n)
  BY <1>2, <1>3, <1>4, StartingNext, NoLaunch, CalmStep
<1>5. SUFFICES /\ ~Starting(n)'
               /\ job'[g].pc = "await" => ~Alive(sess'[n]) /\ ~Alive(ttyd'[n])
               /\ job'[g].pc \in {"forget", "closed"} => Off(n)'
               /\ job'[g].pc = "closed" => Nothing(n)'
  <2>1. n = Tab(g)'
    BY <1>1 DEF Tab
  <2> QED BY <2>1 DEF ClosesSo, At, Starting, Off, Nothing
<1>6. CASE Stays(g)
  <2>1. Is(g, "close") /\ job[g].quiet /\ Tab(g) = n /\ job'[g].pc = job[g].pc
    BY <1>1, <1>6 DEF Stays, Is, Tab
  <2>2. ClosesSo(g, n)
    BY <2>1 DEF Closes
  <2> QED BY <1>4, <2>1, <2>2 DEF ClosesSo, Calm, At
<1>7. CASE job'[g] = Idle
  BY <1>7 DEF Idle
<1>8. CASE Step(g) \/ Acquire(g)
  <2>1. Turn(g) /\ ~Is(g, "start") /\ Is(g, "close") /\ job[g].quiet /\ Tab(g) = n
    <3>1. Turn(g)
      BY <1>8, StartTurns, OtherTurns DEF Step
    <3>2. Is(g, "close") /\ job[g].quiet /\ Tab(g) = n
      BY <1>1, <1>7, <3>1 DEF Turn, Is, Idle, Tab
    <3> QED BY <3>1, <3>2 DEF Is
  <2>2. ClosesSo(g, n) /\ ~Starting(n)' /\ Calm(n)
    BY <1>4, <2>1 DEF Closes, ClosesSo
  <2>3. Awaited(g) \/ StopTerminal(g) \/ ForgetState(g)
    <3>0. ~(StartStep(g) \/ Acquire(g))
      BY <2>1, StartTurns
    <3>1. OtherStep(g)
      BY <1>8, <3>0 DEF Step
    <3>2. ~CloseAnswered(g)
      <4>1. CloseAnswered(g) => job'[g] = Idle
        BY IdleShape DEF CloseAnswered
      <4> QED BY <4>1 DEF Idle
    <3> QED BY <2>1, <3>1, <3>2, OtherTurns DEF OtherStep, Is
  <2>4. CASE StopTerminal(g)
    <3>1. job'[g].pc = "await"
      BY <2>4, AwaitShape DEF StopTerminal, Jobs, Job
    <3>2. StopBoth(n)
      BY <2>1, <2>4 DEF StopTerminal, Stopping
    <3> QED BY <1>2, <2>2, <3>1, <3>2, StopIsCalm
  <2>5. CASE ForgetState(g)
    <3>1. job'[g].pc = "closed" /\ Off(n)
      <4>1. At(g, "forget") /\ Goto(g, "closed")
        BY <2>5 DEF ForgetState, Rest
      <4> QED BY <2>2, <4>1, GotoShape DEF Pcs, ClosesSo, At
    <3>2. saved'[n] = 0 /\ UNCHANGED <<sess, ttyd>>
      BY <1>2, <2>1, <2>5 DEF ForgetState, Types
    <3> QED BY <2>2, <3>1, <3>2 DEF Off, Nothing
  <2>6. CASE Awaited(g)
    <3>1. ~Alive(sess[n]) /\ ~Alive(ttyd[n]) /\ UNCHANGED <<sess, ttyd, saved>>
      BY <2>2, <2>6 DEF Awaited, ClosesSo, units
    <3>2. job[g].then = "forget"
      BY <2>1, <2>6 DEF Awaited, Jobs, Program, Waits, At
    <3>3. \/ Goto(g, "forget") /\ sess[n] # "stopping" /\ ttyd[n] # "stopping"
          \/ Goto(g, "timed out")
      BY <2>1, <2>6, <3>2 DEF Awaited, Rest, Is
    <3>4. CASE Goto(g, "forget") /\ sess[n] # "stopping" /\ ttyd[n] # "stopping"
      <4>1. job'[g].pc = "forget"
        BY <3>4, GotoShape DEF Pcs
      <4>2. Off(n)'
        BY <1>2, <3>1, <3>4 DEF Alive, Off, Types, UnitState
      <4> QED BY <2>2, <4>1, <4>2
    <3>5. CASE Goto(g, "timed out")
      <4>1. job'[g].pc = "timed out"
        BY <3>5, GotoShape DEF Pcs
      <4> QED BY <2>2, <4>1
    <3> QED BY <3>3, <3>4, <3>5
  <2> QED BY <2>3, <2>4, <2>5, <2>6
<1>9. CASE Reset(g) \/ Reap(g) \/ \E m \in Tabs : Close(g, m)
  <2>1. job'[g].pc = "stop" /\ ~Starting(n)
    BY <1>1, <1>9, BeginTurns DEF Begun
  <2> QED BY <1>4, <2>1
<1>10. ASSUME NEW m \in Tabs, Open(g, m) \/ Ask(g, m) PROVE FALSE
  BY <1>10, BeginShape DEF Fresh, Open, Ask
<1> QED BY <1>6, <1>7, <1>8, <1>9, <1>10, Turned DEF Own

LEMMA ResetsStep ==
  ASSUME Jobs, Types, Daemons, Resets, [Next]_vars
  PROVE  Resets'
<1> SUFFICES ASSUME NEW g \in Threads, job'[g].kind = "reset", job'[g].quiet
             PROVE  ResetsSo(g, job[g].todo)'
  BY DEF Resets, Is
<1>1. PICK todo : todo = job'[g].todo
  OBVIOUS
<1>2. Jobs' /\ todo \subseteq Tabs
  BY <1>1, JobsStep DEF Jobs, Job
<1>3. \A h \in Threads, n \in Tabs : ~BeginStart(h, n)
  BY Disturbs DEF Is
<1>4. ASSUME \A n \in Tabs : ~Starting(n) PROVE \A n \in Tabs : ~Starting(n)' /\ Calm(n)
  BY <1>3, <1>4, StartingNext, NoLaunch, CalmStep
<1>5. SUFFICES /\ \A n \in Tabs : ~Starting(n)'
               /\ job'[g].pc = "forget all" => \A n \in todo : Off(n)'
               /\ job'[g].pc = "clear names" => \A n \in todo : Nothing(n)' /\ Unlisted(n)'
  BY <1>1 DEF ResetsSo, At, Starting, Off, Nothing, Unlisted
<1>6. CASE Stays(g)
  <2>1. Is(g, "reset") /\ job[g].quiet /\ job[g].todo = todo /\ job'[g].pc = job[g].pc
    BY <1>1, <1>6 DEF Stays, Is
  <2>2. ResetsSo(g, todo)
    BY <2>1 DEF Resets
  <2> QED BY <1>2, <1>4, <2>1, <2>2 DEF ResetsSo, Calm, At
<1>7. CASE job'[g] = Idle
  BY <1>7 DEF Idle
<1>8. CASE Step(g) \/ Acquire(g)
  <2>1. Is(g, "reset") /\ job[g].quiet /\ job[g].todo = todo
    <3>1. Turn(g)
      BY <1>8, StartTurns, OtherTurns DEF Step
    <3> QED BY <1>1, <3>1 DEF Turn, Is, Idle
  <2>2. ResetsSo(g, todo) /\ \A n \in Tabs : ~Starting(n)' /\ Calm(n)
    BY <1>4, <2>1 DEF Resets, ResetsSo
  <2>3. KillListed(g) \/ ForgetAll(g)
    <3>0. ~(StartStep(g) \/ Acquire(g))
      BY <2>1, StartTurns DEF Is
    <3>1. OtherStep(g)
      BY <1>8, <3>0 DEF Step
    <3>2. ~ResetAnswered(g)
      <4>1. ResetAnswered(g) => job'[g] = Idle
        BY IdleShape DEF ResetAnswered
      <4> QED BY <4>1 DEF Idle
    <3>3. ~Awaited(g)
      BY <2>1 DEF Awaited, Jobs, Program, Waits, At
    <3> QED BY <2>1, <3>1, <3>2, <3>3, OtherTurns DEF OtherStep, Is
  <2>4. CASE KillListed(g)
    <3>1. CASE Goto(g, "forget all") /\ sess' = Cleared(sess, todo, "off") /\ ttyd' = Cleared(ttyd, todo, "off")
      <4>1. job'[g].pc = "forget all"
        BY <3>1, GotoShape DEF Pcs
      <4>2. \A n \in todo : Off(n)'
        BY <1>2, <3>1 DEF Cleared, Off
      <4> QED BY <2>2, <4>1, <4>2
    <3>2. CASE job' = [job EXCEPT ![g].pc = "forget all", ![g].quiet = FALSE]
      BY <3>2 DEF Jobs, Job
    <3> QED BY <2>1, <2>4, <3>1, <3>2 DEF KillListed
  <2>5. CASE ForgetAll(g)
    <3>1. job'[g].pc = "clear names" /\ \A n \in todo : Off(n)
      <4>1. At(g, "forget all") /\ Goto(g, "clear names")
        BY <2>5 DEF ForgetAll, Rest
      <4> QED BY <2>2, <4>1, GotoShape DEF Pcs, ResetsSo
    <3>2. \A n \in todo : saved'[n] = 0 /\ Unlisted(n)'
      BY <1>2, <2>5 DEF ForgetAll, NoCache, Unlisted
    <3>3. UNCHANGED <<sess, ttyd>>
      BY <2>5 DEF ForgetAll
    <3> QED BY <2>2, <3>1, <3>2, <3>3 DEF Off, Nothing
  <2> QED BY <2>3, <2>4, <2>5
<1>9. CASE Reset(g) \/ Reap(g) \/ \E m \in Tabs : Close(g, m)
  <2>1. job'[g].pc = "kill" /\ \A n \in Tabs : ~Starting(n)
    BY <1>9, BeginTurns DEF Begun
  <2> QED BY <1>4, <2>1
<1>10. ASSUME NEW m \in Tabs, Open(g, m) \/ Ask(g, m) PROVE FALSE
  BY <1>10, BeginShape DEF Fresh, Open, Ask
<1> QED BY <1>6, <1>7, <1>8, <1>9, <1>10, Turned DEF Own

-----------------------------------------------------------------------------
(* The steps of a start: what it reads on the way, and where it goes.      *)
Same(i, j) == j.keep = i.keep /\ j.was = i.was /\ j.restorable = i.restorable /\ j.back = i.back
Path(i, j) ==
  \/ i.pc = "ttyd" /\ Same(i, j)
     /\ j.pc = IF Alive(ttyd[i.tab]) THEN "session" ELSE "names"
  \/ i.pc = "session" /\ j.pc = "teardown" /\ ~Alive(sess[i.tab]) /\ Same(i, j)
  \/ i.pc = "teardown" /\ j.pc = "await" /\ j.then = "names" /\ j.back = i.back
  \/ i.pc = "names" /\ j.pc = "state" /\ (j.was => i.tab \in CachedRunning)
     /\ j.keep = i.keep /\ j.restorable = i.restorable /\ j.back = i.back
  \/ i.pc = "state" /\ j.pc = "launch" /\ j.restorable = (saved[i.tab] # 0)
     /\ j.keep = i.keep /\ j.was = i.was /\ j.back = i.back
  \/ i.pc = "launch" /\ j.pc = "socket" /\ told'[i.tab] = FALSE /\ Same(i, j)
  \/ i.pc \in {"socket", "serve", "port"} /\ j.pc \in Launched \ {"socket"} /\ Same(i, j)
  \/ i.pc \in Launched /\ j.pc = "await" /\ j.then = "failed" /\ Same(i, j)

LEMMA StartPath ==
  ASSUME Jobs, Types, NEW h \in Threads, StartStep(h)
  PROVE  /\ job[h].pc \in Starts \ {"lock"}
         /\ \/ job'[h] = Idle /\ lock' = [lock EXCEPT ![Tab(h)] = None]
            \/ Path(job[h], job'[h]) /\ UNCHANGED <<lock, kept>>
         /\ UNCHANGED saved
<1> USE DEF At, Tab
<1>0. job[h] \in Job /\ job[h].tab \in Tabs
  BY StartTurns DEF Jobs, Program, Tab
<1>1. UNCHANGED saved /\ job[h].pc \in Starts \ {"lock"}
  BY DEF StartStep, CheckTtyd, CheckSession, Teardown, WasRunning, IsRestorable,
         LaunchSession, WaitSocket, LaunchTtyd, WaitPort, GiveUp, Failed, Started, units,
         Starts, Unlaunched, Launched
<1> DEFINE Goal == \/ job'[h] = Idle /\ lock' = [lock EXCEPT ![job[h].tab] = None]
                   \/ Path(job[h], job'[h]) /\ UNCHANGED <<lock, kept>>
<1>2. ASSUME NEW ok \in BOOLEAN, Answer(h, ok) PROVE Goal
  BY <1>2, IdleShape DEF Answer
<1>3. ASSUME NEW pc \in Pcs, Goto(h, pc)
      PROVE  job'[h].pc = pc /\ Same(job[h], job'[h])
  <2>1. job'[h].pc = pc /\ job'[h] = [job[h] EXCEPT !.pc = pc]
    BY <1>3, GotoShape
  <2> QED BY <1>0, <2>1 DEF Same, Job
<1>4. CASE CheckTtyd(h)
  <2> DEFINE pc == IF Alive(ttyd[job[h].tab]) THEN "session" ELSE "names"
  <2>1. /\ job[h].pc = "ttyd" /\ Goto(h, pc) /\ UNCHANGED <<lock, kept>>
    BY <1>4 DEF CheckTtyd, Rest, history
  <2>2. pc \in Pcs
    BY DEF Pcs, Starts, Unlaunched
  <2> HIDE DEF pc
  <2>3. job'[h].pc = pc /\ Same(job[h], job'[h])
    BY <1>3, <2>1, <2>2
  <2> QED BY <1>1, <2>1, <2>3 DEF Path, pc
<1>5. CASE CheckSession(h)
  <2>1. CASE Rest(h, "teardown") /\ ~Alive(sess[job[h].tab]) /\ UNCHANGED lock
    <3>1. job'[h].pc = "teardown" /\ Same(job[h], job'[h])
      BY <1>3, <2>1 DEF Rest, Pcs, Starts
    <3> QED BY <1>1, <1>5, <2>1, <3>1 DEF CheckSession, Rest, Path, history
  <2> QED BY <1>1, <1>2, <1>5, <2>1 DEF CheckSession
<1>6. CASE Teardown(h)
  <2>1. job'[h].pc = "await" /\ job'[h].then = "names" /\ job'[h].back = job[h].back
    BY <1>0, <1>6 DEF Teardown, Jobs, Job
  <2> QED BY <1>1, <1>6, <2>1 DEF Teardown, Path, history
<1>7. CASE WasRunning(h)
  <2> DEFINE b == job[h].tab \in CachedRunning
  <2>1. job' = [job EXCEPT ![h].pc = "state", ![h].was = b]
    BY <1>7 DEF WasRunning
  <2> HIDE DEF b
  <2>2. /\ job'[h].pc = "state" /\ job'[h].was = b
        /\ job'[h].keep = job[h].keep /\ job'[h].restorable = job[h].restorable
        /\ job'[h].back = job[h].back
    BY <1>0, <2>1 DEF Jobs, Job
  <2> QED BY <1>1, <1>7, <2>2 DEF WasRunning, Path, history, b
<1>8. CASE IsRestorable(h)
  <2> DEFINE b == job[h].tab \in Restorable
  <2>1. job' = [job EXCEPT ![h].pc = "launch", ![h].restorable = b]
    BY <1>8 DEF IsRestorable
  <2>2. b = (saved[job[h].tab] # 0)
    BY <1>0 DEF Restorable
  <2> HIDE DEF b
  <2>3. /\ job'[h].pc = "launch" /\ job'[h].restorable = b
        /\ job'[h].keep = job[h].keep /\ job'[h].was = job[h].was
        /\ job'[h].back = job[h].back
    BY <1>0, <2>1 DEF Jobs, Job
  <2> QED BY <1>1, <1>8, <2>2, <2>3 DEF IsRestorable, Path, history
<1>9. CASE LaunchSession(h)
  <2>1. CASE /\ Goto(h, "socket") /\ told' = [told EXCEPT ![job[h].tab] = FALSE]
             /\ UNCHANGED <<lock, kept>>
    <3>1. job'[h].pc = "socket" /\ Same(job[h], job'[h])
      BY <1>3, <2>1 DEF Pcs, Starts, Launched
    <3>2. told'[job[h].tab] = FALSE
      BY <1>0, <2>1 DEF Types
    <3> QED BY <1>1, <1>9, <2>1, <3>1, <3>2 DEF LaunchSession, Path
  <2> QED BY <1>1, <1>2, <1>9, <2>1 DEF LaunchSession
<1>10. CASE WaitSocket(h) \/ LaunchTtyd(h) \/ WaitPort(h)
  <2>1. PICK pc \in Launched \ {"socket"} : Goto(h, pc)
    BY <1>10 DEF WaitSocket, LaunchTtyd, WaitPort, Rest, SocketResult, PortResult, Launched
  <2>2. job'[h].pc = pc /\ Same(job[h], job'[h])
    BY <1>3, <2>1 DEF Pcs, Starts
  <2>3. job[h].pc \in {"socket", "serve", "port"} /\ UNCHANGED <<lock, kept>>
    BY <1>10 DEF WaitSocket, LaunchTtyd, WaitPort, Rest, history
  <2> QED BY <1>1, <2>2, <2>3 DEF Path
<1>11. CASE GiveUp(h)
  <2>1. Await(h, "failed") /\ job[h].pc \in Launched /\ UNCHANGED <<lock, kept>>
    BY <1>11 DEF GiveUp, Launched, history
  <2>2. job'[h].pc = "await" /\ job'[h].then = "failed" /\ Same(job[h], job'[h])
    <3>1. /\ job'[h].pc = "await" /\ job'[h].then = "failed"
          /\ job'[h] = [job[h] EXCEPT !.pc = "await", !.then = "failed"]
      BY <2>1, AwaitShape
    <3> QED BY <1>0, <3>1 DEF Same, Job
  <2> QED BY <1>1, <2>1, <2>2 DEF Path
<1>12. CASE Failed(h) \/ Started(h)
  BY <1>1, <1>2, <1>12 DEF Failed, Started
<1> QED BY <1>4, <1>5, <1>6, <1>7, <1>8, <1>9, <1>10, <1>11, <1>12 DEF StartStep

-----------------------------------------------------------------------------
(* One start of a terminal at a time.                                      *)
Holds(h) == Is(h, "start") /\ ~At(h, "lock")
Locks ==
  /\ \A h \in Threads : Holds(h) => lock[Tab(h)] = h
  /\ \A n \in Tabs : lock[n] # None => Holds(lock[n]) /\ Tab(lock[n]) = n

LEMMA StartHolds ==
  ASSUME Jobs, Types, NEW h \in Threads, StartStep(h)
  PROVE  /\ Holds(h)
         /\ \/ job'[h] = Idle /\ lock' = [lock EXCEPT ![Tab(h)] = None]
            \/ Holds(h)' /\ Tab(h)' = Tab(h) /\ UNCHANGED <<lock, kept>>
<1>1. Holds(h)
  BY StartTurns, StartPath DEF Holds, Is, At
<1>2. CASE job'[h] # Idle
  <2>1. Path(job[h], job'[h]) /\ UNCHANGED <<lock, kept>>
    BY <1>2, StartPath
  <2>2. job'[h].pc # "lock"
    BY <2>1 DEF Path, Launched
  <2>3. job'[h].kind = "start" /\ job'[h].tab = job[h].tab
    BY <1>2, StartTurns DEF Turn, Is
  <2> QED BY <1>1, <2>1, <2>2, <2>3 DEF Holds, Is, At, Tab
<1>3. CASE job'[h] = Idle
  <2>1. ~Path(job[h], job'[h])
    BY <1>3 DEF Path, Idle, Launched
  <2> QED BY <1>1, <1>3, <2>1, StartPath
<1> QED BY <1>2, <1>3

LEMMA LocksStep ==
  ASSUME Jobs, Types, Locks, [Next]_vars
  PROVE  Locks'
<1>0. lock \in [Tabs -> Threads \cup {None}] /\ None \notin Threads
  BY NoneIsNoThread DEF Types
<1>00. \A g \in Threads : Holds(g) => Tab(g) \in Tabs
  BY DEF Jobs, Program, Holds
<1>1. ASSUME lock' = lock,
             \A g \in Threads : (Holds(g)' <=> Holds(g)) /\ (Holds(g) => Tab(g)' = Tab(g))
      PROVE  Locks'
  BY <1>0, <1>1 DEF Locks
<1>2. \A g \in Threads : Stays(g) => (Holds(g)' <=> Holds(g)) /\ Tab(g)' = Tab(g)
  BY DEF Stays, Holds, Is, At, Tab
<1>3. CASE World
  BY <1>1, <1>3, WorldShape DEF Holds, Is, At, Tab
<1>4. CASE Restart
  <2>1. lock' = [n \in Tabs |-> None] /\ job' = [h \in Threads |-> Idle]
    BY <1>4 DEF Restart, ManagerRestarts, HostRestarts, ThreadsGone
  <2>2. \A h \in Threads : ~Holds(h)'
    BY <2>1 DEF Holds, Is, Idle
  <2> QED BY <2>1, <2>2 DEF Locks
<1>5. ASSUME NEW h \in Threads, Own(h)
      PROVE  Locks'
  <2>0. \A g \in Threads \ {h} : (Holds(g)' <=> Holds(g)) /\ Tab(g)' = Tab(g)
    BY <1>2, <1>5, OthersStay
  <2>1. ASSUME lock' = lock, Holds(h)' <=> Holds(h), Holds(h) => Tab(h)' = Tab(h)
        PROVE  Locks'
    BY <1>1, <2>0, <2>1
  <2>2. CASE StartStep(h)
    <3>1. CASE job'[h] = Idle /\ lock' = [lock EXCEPT ![Tab(h)] = None]
      <4>1. ~Holds(h)'
        BY <3>1 DEF Holds, Is, Idle
      <4>2. Holds(h) /\ lock[Tab(h)] = h /\ Tab(h) \in Tabs
        BY <1>00, <2>2, StartHolds DEF Locks
      <4>3. \A n \in Tabs : n # Tab(h) => lock'[n] = lock[n]
        BY <1>0, <3>1
      <4>4. lock'[Tab(h)] = None
        BY <1>0, <3>1, <4>2
      <4>5. ASSUME NEW g \in Threads, Holds(g)' PROVE lock'[Tab(g)'] = g
        <5>1. g # h /\ Holds(g) /\ Tab(g)' = Tab(g) /\ lock[Tab(g)] = g
          BY <2>0, <4>1, <4>5 DEF Locks
        <5>2. Tab(g) # Tab(h) /\ Tab(g) \in Tabs
          BY <1>00, <4>2, <5>1
        <5> QED BY <4>3, <5>1, <5>2
      <4>6. ASSUME NEW n \in Tabs, lock'[n] # None PROVE Holds(lock[n])' /\ Tab(lock[n])' = n
        <5>1. n # Tab(h) /\ lock'[n] = lock[n]
          BY <4>3, <4>4, <4>6
        <5>2. PICK g \in Threads : g = lock[n]
          BY <1>0, <4>6, <5>1
        <5>3. Holds(g) /\ Tab(g) = n /\ g # h
          BY <1>0, <4>6, <5>1, <5>2 DEF Locks
        <5>4. Holds(g)' /\ Tab(g)' = n
          BY <2>0, <5>3
        <5>5. lock'[n] = g
          BY <5>1, <5>2
        <5> QED BY <5>4, <5>5 DEF Holds, Is, At, Tab
      <4> QED BY <4>5, <4>6 DEF Locks
    <3> QED BY <2>1, <2>2, <3>1, StartHolds
  <2>3. CASE Acquire(h)
    <3>1. /\ lock[Tab(h)] = None /\ lock' = [lock EXCEPT ![Tab(h)] = h] /\ At(h, "lock")
          /\ job' = [job EXCEPT ![h].pc = "ttyd",
                               ![h].back = kept[Tab(h)] # 0 /\ saved[Tab(h)] = kept[Tab(h)]]
      BY <2>3 DEF Acquire, Locked
    <3>2. Tab(h) \in Tabs /\ Is(h, "start") /\ ~Holds(h)
      BY <2>3, <3>1, StartTurns DEF Jobs, Program, Holds
    <3>3. Holds(h)' /\ Tab(h)' = Tab(h)
      <4>1. job'[h].pc = "ttyd"
        BY <3>1 DEF Jobs, Job
      <4>2. job'[h].kind = "start" /\ job'[h].tab = job[h].tab
        BY <3>2, <4>1, <2>3, StartTurns DEF Turn, Is, Idle
      <4> QED BY <4>1, <4>2 DEF Holds, Is, At, Tab
    <3>4. lock'[Tab(h)] = h /\ \A n \in Tabs : n # Tab(h) => lock'[n] = lock[n]
      BY <1>0, <3>1, <3>2
    <3>5. ASSUME NEW g \in Threads, Holds(g)' PROVE lock'[Tab(g)'] = g
      <4>1. CASE g # h
        <5>1. Holds(g) /\ Tab(g)' = Tab(g) /\ lock[Tab(g)] = g /\ Tab(g) \in Tabs
          BY <1>00, <2>0, <3>5, <4>1 DEF Locks
        <5> QED BY <1>0, <3>1, <3>4, <5>1
      <4> QED BY <3>3, <3>4, <4>1
    <3>6. ASSUME NEW n \in Tabs, lock'[n] # None PROVE Holds(lock[n])' /\ Tab(lock[n])' = n
      <4>1. CASE n = Tab(h)
        BY <3>3, <3>4, <4>1 DEF Holds, Is, At, Tab
      <4>2. CASE n # Tab(h)
        <5>1. PICK g \in Threads : g = lock[n] /\ lock'[n] = g
          BY <1>0, <3>4, <3>6, <4>2
        <5>2. Holds(g) /\ Tab(g) = n /\ g # h
          BY <1>0, <3>2, <5>1 DEF Locks
        <5>3. Holds(g)' /\ Tab(g)' = n
          BY <2>0, <5>2
        <5> QED BY <5>1, <5>3 DEF Holds, Is, At, Tab
      <4> QED BY <4>1, <4>2
    <3> QED BY <3>5, <3>6 DEF Locks
  <2>4. CASE OtherStep(h)
    <3>1. lock' = lock
      BY <2>4 DEF OtherStep, Awaited, StopTerminal, Stopping, ForgetState, CloseAnswered, KillListed,
             ForgetAll, ResetAnswered, ReapNext, Reaped
    <3>2. Turn(h) /\ (~Awaited(h) => ~Is(h, "start"))
      BY <2>4, OtherTurns DEF OtherStep, Is
    <3>3. CASE ~Is(h, "start")
      <4>1. ~Holds(h) /\ ~Holds(h)'
        BY <3>2, <3>3 DEF Holds, Is, Turn, Idle
      <4> QED BY <2>1, <3>1, <4>1
    <3>4. CASE Is(h, "start") /\ Awaited(h)
      <4>1. At(h, "await") /\ job[h].then \in {"names", "failed"}
        BY <3>4 DEF Awaited, Jobs, Program, Waits, At, Starts, Unlaunched, Launched
      <4>2. Goto(h, job[h].then)
        BY <3>4 DEF Awaited, Rest, Is
      <4>3. job'[h].pc = job[h].then
        BY <4>1, <4>2, GotoShape DEF Pcs, Starts, Unlaunched
      <4>4. job'[h].kind = "start" /\ job'[h].tab = job[h].tab
        BY <3>2, <3>4, <4>1, <4>3 DEF Turn, Is, Idle
      <4> QED BY <2>1, <3>1, <3>4, <4>1, <4>3, <4>4 DEF Holds, Is, At, Tab
    <3> QED BY <3>2, <3>3, <3>4
  <2>5. ASSUME NEW n \in Tabs, Open(h, n) \/ Ask(h, n) PROVE Locks'
    <3>1. lock' = lock /\ At(h, "idle")
      BY <2>5 DEF Open, Ask, BeginStart
    <3>2. ~Holds(h)
      BY <3>1 DEF Holds, Jobs, Program, At, Waits, Starts, Unlaunched, Launched
    <3>3. ~Holds(h)'
      BY <2>5, BeginShape DEF Open, Ask, Fresh, Holds, At
    <3> QED BY <2>1, <3>1, <3>2, <3>3
  <2>6. CASE Reset(h) \/ Reap(h) \/ \E n \in Tabs : Close(h, n)
    <3>1. lock' = lock
      BY <2>6 DEF Reset, Reap, Close
    <3>2. ~Holds(h) /\ ~Holds(h)'
      BY <2>6, BeginTurns DEF Begun, Holds, Is
    <3> QED BY <2>1, <3>1, <3>2
  <2> QED BY <1>5, <2>2, <2>3, <2>4, <2>5, <2>6 DEF Own, Step
<1> QED BY <1>3, <1>4, <1>5, Steps

(* An answer is given by the start that holds the lock, which it drops.    *)
LEMMA HistoryStep ==
  ASSUME Jobs, Types, [Next]_vars, NEW n \in Tabs
  PROVE  \/ /\ kept'[n] \in {kept[n], 0} /\ (told'[n] => told[n])
         \/ \E h \in Threads : /\ Holds(h) /\ Tab(h) = n /\ job'[h] = Idle
                               /\ kept'[n] # kept[n] => ~Closing(n)
<1> DEFINE Quiet == kept'[n] \in {kept[n], 0} /\ (told'[n] => told[n])
           Answered == \E h \in Threads : /\ Holds(h) /\ Tab(h) = n /\ job'[h] = Idle
                                          /\ kept'[n] # kept[n] => ~Closing(n)
<1>0. UNCHANGED <<kept, told>> => Quiet
  OBVIOUS
<1>1. ASSUME NEW h \in Threads, StartStep(h), NEW ok \in BOOLEAN, Answer(h, ok)
      PROVE  Quiet \/ Answered
  <2>1. CASE Tab(h) = n
    <3>1. Holds(h) /\ job'[h] = Idle
      BY <1>1, StartHolds, IdleShape DEF Answer
    <3>2. kept'[n] # kept[n] => ~Closing(n)
      BY <1>1, <2>1 DEF Answer, Types
    <3> QED BY <2>1, <3>1, <3>2
  <2>2. CASE Tab(h) # n
    BY <1>1, <2>2 DEF Answer, Types
  <2> QED BY <2>1, <2>2
<1>2. ASSUME NEW h \in Threads, StartStep(h)
      PROVE  Quiet \/ Answered
  <2>1. \/ \E ok \in BOOLEAN : Answer(h, ok)
        \/ kept' = kept /\ told' = [told EXCEPT ![Tab(h)] = FALSE]
        \/ UNCHANGED <<kept, told>>
    BY <1>2 DEF StartStep, CheckTtyd, CheckSession, Teardown, GiveUp, WasRunning, IsRestorable,
             LaunchSession, WaitSocket, LaunchTtyd, WaitPort, Failed, Started, Rest, history
  <2>2. CASE kept' = kept /\ told' = [told EXCEPT ![Tab(h)] = FALSE]
    BY <2>2 DEF Types
  <2> QED BY <1>0, <1>1, <1>2, <2>1, <2>2
<1>3. ASSUME NEW h \in Threads, OtherStep(h) \/ Acquire(h)
      PROVE  UNCHANGED <<kept, told>>
  BY <1>3 DEF Acquire, Locked, OtherStep, Awaited, StopTerminal, Stopping, ForgetState, CloseAnswered,
             KillListed, ForgetAll, ResetAnswered, ReapNext, Reaped, Rest, history
<1>4. ASSUME NEW h \in Threads, \/ Reset(h) \/ Reap(h)
                                \/ \E m \in Tabs : Open(h, m) \/ Ask(h, m) \/ Close(h, m)
      PROVE  Quiet
  <2>1. told' = told
    BY <1>4 DEF Reset, Reap, Open, Ask, Close, BeginStart, history
  <2>2. kept'[n] \in {kept[n], 0}
    BY <1>4 DEF Reset, Reap, Open, Ask, Close, BeginStart, history, Types
  <2> QED BY <2>1, <2>2
<1>5. CASE World
  BY <1>0, <1>5, WorldShape
<1>6. CASE Restart
  BY <1>0, <1>6 DEF Restart, ManagerRestarts, HostRestarts, history
<1> QED BY <1>0, <1>2, <1>3, <1>4, <1>5, <1>6, Steps DEF Own, Step

(* A start that went past its checks and was not answered is the only one. *)
LEMMA OnlyHolder ==
  ASSUME Locks, NEW g \in Threads, NEW h \in Threads, Holds(g), Holds(h), Tab(g) = Tab(h)
  PROVE  g = h
BY DEF Locks

(* Served and not closed: nothing is closing it.                           *)
Kept == \A n \in Tabs : kept[n] # 0 => ~Closing(n)

LEMMA ClosingNext ==
  ASSUME Jobs, Types, [Next]_vars, NEW n \in Tabs, ~Closing(n), kept'[n] # 0
  PROVE  ~Closing(n)'
<1> SUFFICES ASSUME NEW g \in Threads, \/ job'[g].kind = "close" /\ job'[g].tab = n
                                       \/ job'[g].kind = "reset"
             PROVE  FALSE
  BY DEF Closing, Tab
<1>1. ~(Is(g, "close") /\ Tab(g) = n) /\ ~Is(g, "reset")
  BY DEF Closing, Is
<1>2. CASE Stays(g)
  BY <1>1, <1>2 DEF Stays, Is, Tab
<1>3. job'[g] # Idle
  BY DEF Idle
<1>4. CASE Own(g)
  <2>1. ~Turn(g)
    BY <1>1, <1>3 DEF Turn, Is, Tab
  <2>2. CASE Reset(g) \/ Reap(g)
    <3>1. ~Reset(g)
      BY DEF Reset
    <3>2. Reap(g)
      BY <2>2, <3>1
    <3>3. job' = [job EXCEPT ![g] = [Idle EXCEPT !.kind = "reap", !.pc = "next", !.todo = Running]]
      BY <3>2 DEF Reap
    <3>4. job'[g].kind = "reap"
      BY <3>3 DEF Jobs, Idle
    <3> QED BY <3>4
  <2>3. ASSUME NEW m \in Tabs, Close(g, m) PROVE FALSE
    <3>1. m # n
      BY <2>3 DEF Close, Types
    <3>2. \E q : job' = [job EXCEPT ![g] = [Idle EXCEPT !.kind = "close", !.pc = "stop", !.tab = m, !.quiet = q]]
      BY <2>3 DEF Close
    <3>3. job'[g].kind = "close" /\ job'[g].tab = m
      BY <3>2 DEF Jobs, Idle
    <3> QED BY <3>1, <3>3
  <2>4. ASSUME NEW m \in Tabs, Open(g, m) \/ Ask(g, m) PROVE FALSE
    BY <2>4, BeginShape DEF Fresh, Open, Ask
  <2> QED BY <1>4, <2>1, <2>2, <2>3, <2>4, StartTurns, OtherTurns DEF Own, Step
<1> QED BY <1>2, <1>3, <1>4, Turned

LEMMA KeptStep ==
  ASSUME Jobs, Types, Kept, [Next]_vars
  PROVE  Kept'
<1> SUFFICES ASSUME NEW n \in Tabs, kept'[n] # 0
             PROVE  ~Closing(n)'
  BY DEF Kept
<1>1. ~Closing(n)
  <2>1. CASE kept'[n] = kept[n]
    BY <2>1 DEF Kept
  <2> QED BY <2>1, HistoryStep
<1> QED BY <1>1, ClosingNext

(* What is saved of a terminal nobody is closing stays saved.              *)
LEMMA SavedStays ==
  ASSUME Jobs, Types, Daemons, [Next]_vars, NEW n \in Tabs, ~Closing(n), saved[n] # 0
  PROVE  saved'[n] # 0
<1>1. CASE World
  <2>1. CASE saved' = saved
    BY <2>1
  <2>2. ASSUME NEW m \in Tabs, DaemonSaves(m) PROVE saved'[n] # 0
    BY <2>2 DEF DaemonSaves, Types, Daemons
  <2>3. ASSUME NEW m \in Tabs, UnitStep(m) PROVE saved'[n] # 0
    <3>1. saved' = saved \/ saved' = [saved EXCEPT ![m] = IF life[m] # 0 THEN life[m] ELSE @]
      BY <2>3 DEF UnitStep, DaemonLoads, DaemonBinds, DaemonExits, TtydMoves
    <3> QED BY <3>1 DEF Types
  <2>4. ASSUME NEW m \in Tabs, DaemonDies(m) \/ TtydDies(m) \/ Rename(m) PROVE saved' = saved
    BY <2>4 DEF DaemonDies, TtydDies, Rename, units
  <2>5. CacheExpires \/ Poll \/ UNCHANGED vars => saved' = saved
    BY DEF CacheExpires, Poll, vars, units
  <2> QED BY <1>1, <2>1, <2>2, <2>3, <2>4, <2>5 DEF World
<1>2. CASE Restart
  BY <1>2 DEF Restart, ManagerRestarts, HostRestarts, units
<1>3. ASSUME NEW h \in Threads, StartStep(h) \/ Acquire(h)
      PROVE  saved' = saved
  BY <1>3, StartPath DEF Acquire, Locked, units
<1>4. ASSUME NEW h \in Threads, OtherStep(h)
      PROVE  saved'[n] # 0
  <2>1. ~ForgetAll(h)
    BY <1>4, OtherTurns DEF Closing, Is
  <2>2. CASE ForgetState(h)
    <3>1. Tab(h) # n
      BY <1>4, <2>2, OtherTurns DEF Closing, Is
    <3> QED BY <2>2, <3>1 DEF ForgetState, Types
  <2> QED BY <1>4, <2>1, <2>2 DEF OtherStep, Awaited, StopTerminal, Stopping, CloseAnswered,
             KillListed, ResetAnswered, ReapNext, Reaped, units
<1>5. ASSUME NEW h \in Threads, \/ Reset(h) \/ Reap(h)
                                \/ \E m \in Tabs : Open(h, m) \/ Ask(h, m) \/ Close(h, m)
      PROVE  saved' = saved
  BY <1>5 DEF Reset, Reap, Open, Ask, Close, BeginStart, units
<1> QED BY <1>1, <1>2, <1>3, <1>4, <1>5, Steps DEF Own, Step

(* Where the job of a start came from.                                     *)
LEMMA StartMoves ==
  ASSUME Jobs, Types, [Next]_vars, NEW g \in Threads, job'[g].kind = "start"
  PROVE  LET i == job[g]  j == job'[g] IN
         \/ \E n \in Tabs : BeginStart(g, n) /\ Fresh(g, n)
         \/ /\ i.kind = "start" /\ j.tab = i.tab /\ i.tab \in Tabs /\ (j.clean => i.clean)
            /\ \/ Stays(g)
               \/ Path(i, j)
               \/ /\ i.pc = "lock" /\ j.pc = "ttyd" /\ (j.back => saved[i.tab] # 0)
                  /\ lock[i.tab] = None
                  /\ j.keep = i.keep /\ j.was = i.was /\ j.restorable = i.restorable
               \/ i.pc = "await" /\ j.pc = i.then /\ i.then \in {"names", "failed"} /\ Same(i, j)
<1> DEFINE i == job[g]
           j == job'[g]
           From == i.kind = "start" /\ j.tab = i.tab /\ i.tab \in Tabs /\ (j.clean => i.clean)
<1>0. j # Idle /\ i \in Job
  BY DEF Idle, Jobs
<1>1. i.kind = "start" => i.tab \in Tabs
  BY DEF Jobs, Program, Is, Tab
<1>2. CASE Stays(g)
  BY <1>1, <1>2 DEF Stays
<1>3. ASSUME Turn(g), Is(g, "start") PROVE From
  BY <1>0, <1>1, <1>3 DEF Turn, Is
<1>4. CASE StartStep(g)
  <2>1. From
    BY <1>3, <1>4, StartTurns
  <2> QED BY <1>0, <1>4, <2>1, StartPath
<1>5. CASE Acquire(g)
  <2>1. From
    BY <1>3, <1>5, StartTurns
  <2> DEFINE b == kept[Tab(g)] # 0 /\ saved[Tab(g)] = kept[Tab(g)]
  <2>2. /\ job' = [job EXCEPT ![g].pc = "ttyd", ![g].back = b]
        /\ At(g, "lock") /\ lock[Tab(g)] = None
    BY <1>5 DEF Acquire, Locked
  <2>3. b => saved[Tab(g)] # 0
    OBVIOUS
  <2> HIDE DEF b
  <2>4. /\ j.pc = "ttyd" /\ j.back = b
        /\ j.keep = i.keep /\ j.was = i.was /\ j.restorable = i.restorable
    BY <1>0, <2>2 DEF Jobs, Job
  <2> QED BY <2>1, <2>2, <2>3, <2>4 DEF At, Tab
<1>6. CASE OtherStep(g)
  <2>1. Turn(g) /\ (~Awaited(g) => ~Is(g, "start"))
    BY <1>6, OtherTurns DEF OtherStep, Is
  <2>2. Is(g, "start") /\ Awaited(g)
    BY <1>0, <2>1 DEF Turn, Is
  <2>3. At(g, "await") /\ job[g].then \in {"names", "failed"}
    BY <2>2 DEF Awaited, Jobs, Program, Waits, At, Starts, Unlaunched, Launched
  <2>4. Goto(g, job[g].then)
    BY <2>2 DEF Awaited, Rest, Is
  <2>5. j.pc = i.then /\ j = [i EXCEPT !.pc = i.then]
    BY <2>3, <2>4, GotoShape DEF Pcs, Starts, Unlaunched
  <2>6. Same(i, j)
    BY <1>0, <2>5 DEF Same, Job
  <2> QED BY <1>3, <2>1, <2>2, <2>3, <2>5, <2>6 DEF At
<1>7. CASE Reset(g) \/ Reap(g) \/ \E n \in Tabs : Close(g, n)
  BY <1>7, BeginTurns DEF Begun
<1>8. ASSUME NEW n \in Tabs, BeginStart(g, n) PROVE BeginStart(g, n) /\ Fresh(g, n)
  BY <1>8, BeginShape
<1> QED BY <1>0, <1>2, <1>4, <1>5, <1>6, <1>7, <1>8, Turned DEF Own, Step, Open, Ask

LEMMA HoldsBefore ==
  ASSUME Jobs, Types, Locks, [Next]_vars, NEW g \in Threads, Holds(g)'
  PROVE  /\ Tab(g) \in Tabs /\ Is(g, "start") /\ Tab(g)' = Tab(g)
         /\ Holds(g) \/ lock[Tab(g)] = None
         /\ \A h \in Threads : Holds(h) /\ Tab(h) = Tab(g) => h = g
<1>1. job'[g].kind = "start" /\ job'[g].pc # "lock"
  BY DEF Holds, Is, At
<1>2. /\ Tab(g) \in Tabs /\ Is(g, "start") /\ Tab(g)' = Tab(g)
      /\ Holds(g) \/ lock[Tab(g)] = None
  BY <1>1, StartMoves DEF Fresh, Holds, Is, At, Tab, Stays, Path, Launched
<1>3. ASSUME NEW h \in Threads, Holds(h), Tab(h) = Tab(g) PROVE h = g
  <2>1. lock[Tab(g)] = h /\ h # None
    BY <1>3, NoneIsNoThread DEF Locks
  <2> QED BY <1>2, <1>3, <2>1, OnlyHolder
<1> QED BY <1>2, <1>3

(* What a start has read of a terminal that was served and not closed.     *)
Backs == \A h \in Threads : Holds(h) /\ job[h].back /\ kept[Tab(h)] # 0 =>
  /\ saved[Tab(h)] # 0
  /\ job[h].pc \in {"launch", "name"} \cup Launched => job[h].restorable

LEMMA BacksStep ==
  ASSUME Jobs, Types, Daemons, Locks, Kept, Backs, [Next]_vars
  PROVE  Backs'
<1> SUFFICES ASSUME NEW g \in Threads, Holds(g)', job'[g].back, kept'[Tab(g)'] # 0
             PROVE  /\ saved'[Tab(g)'] # 0
                    /\ job'[g].pc \in {"launch", "name"} \cup Launched => job'[g].restorable
  BY DEF Backs
<1>1. PICK n \in Tabs : n = Tab(g) /\ Tab(g)' = n
  BY HoldsBefore
<1>2. kept[n] # 0
  <2>1. ASSUME NEW h \in Threads, Holds(h), Tab(h) = n, job'[h] = Idle PROVE FALSE
    <3>1. h = g
      BY <1>1, <2>1, HoldsBefore
    <3> QED BY <2>1, <3>1 DEF Holds, Is, Idle
  <2>2. kept'[n] # 0
    BY <1>1
  <2> QED BY <2>1, <2>2, HistoryStep
<1>3. saved[n] # 0 => saved'[n] # 0
  BY <1>2, SavedStays DEF Kept
<1>4. Holds(g) /\ job[g].back =>
        saved[n] # 0 /\ (job[g].pc \in {"launch", "name"} \cup Launched => job[g].restorable)
  BY <1>1, <1>2 DEF Backs
<1>5. job'[g].kind = "start" /\ job'[g].pc # "lock" /\ job'[g].tab = n /\ job[g].tab = n
  BY <1>1 DEF Holds, Is, At, Tab
<1>6. job[g].kind = "start" /\ job[g].pc # "lock" => Holds(g)
  BY DEF Holds, Is, At
<1>7. ~ \E m \in Tabs : Fresh(g, m)
  BY <1>5 DEF Fresh
<1> SUFFICES saved[n] # 0 /\ (job'[g].pc \in {"launch", "name"} \cup Launched => job'[g].restorable)
  BY <1>1, <1>3
<1>8. CASE Stays(g) /\ job[g].kind = "start"
  BY <1>4, <1>5, <1>6, <1>8 DEF Stays
<1>9. CASE Path(job[g], job'[g]) /\ job[g].kind = "start"
  <2>1. job[g].pc # "lock" /\ job'[g].back = job[g].back
    BY <1>9 DEF Path, Same, Launched
  <2>2. Holds(g) /\ job[g].back
    BY <1>6, <1>9, <2>1
  <2>3. job'[g].pc \in {"launch", "name"} \cup Launched => job'[g].restorable
    BY <1>4, <1>5, <1>9, <2>2 DEF Path, Same, Launched
  <2> QED BY <1>4, <2>2, <2>3
<1>10. CASE /\ job[g].pc = "lock" /\ job'[g].pc = "ttyd" /\ (job'[g].back => saved[job[g].tab] # 0)
  BY <1>5, <1>10 DEF Launched
<1>11. CASE /\ job[g].pc = "await" /\ job[g].kind = "start" /\ Same(job[g], job'[g])
            /\ job'[g].pc \in {"names", "failed"}
  BY <1>4, <1>6, <1>11 DEF Same, Launched
<1> QED BY <1>5, <1>7, <1>8, <1>9, <1>10, <1>11, StartMoves

(* A start tears down nothing that serves.                                 *)
Tolds == \A h \in Threads : Is(h, "start") =>
  /\ At(h, "teardown") => ~Alive(sess[Tab(h)])
  /\ job[h].pc \in Launched => ~told[Tab(h)]

LEMMA ToldsStep ==
  ASSUME Jobs, Types, Daemons, Locks, Tolds, [Next]_vars
  PROVE  Tolds'
<1> SUFFICES ASSUME NEW g \in Threads, job'[g].kind = "start", job'[g].pc \in Launched \cup {"teardown"}
             PROVE  /\ job'[g].pc = "teardown" => ~Alive(sess[Tab(g)])'
                    /\ job'[g].pc \in Launched => ~told'[Tab(g)']
  BY DEF Tolds, Is, At
<1>0. Holds(g)'
  BY DEF Holds, Is, At, Launched
<1>1. PICK n \in Tabs : n = Tab(g) /\ Tab(g)' = n
  BY <1>0, HoldsBefore
<1>2. ASSUME ~told[n] PROVE ~told'[n]
  <2>1. ASSUME NEW h \in Threads, Holds(h), Tab(h) = n, job'[h] = Idle PROVE FALSE
    <3>1. h = g
      BY <1>0, <1>1, <2>1, HoldsBefore
    <3> QED BY <2>1, <3>1 DEF Idle
  <2> QED BY <1>2, <2>1, HistoryStep
<1>3. ASSUME job'[g].pc = "teardown", ~Alive(sess[n]) PROVE ~Alive(sess'[n])
  <2>1. ASSUME NEW h \in Threads, Tab(h) = n, LaunchSession(h) \/ LaunchTtyd(h) PROVE FALSE
    <3>1. StartStep(h)
      BY <2>1 DEF StartStep
    <3>2. h = g
      BY <1>0, <1>1, <2>1, <3>1, StartHolds, HoldsBefore
    <3>3. job[g].pc \in {"launch", "serve"}
      BY <2>1, <3>2 DEF LaunchSession, LaunchTtyd, At
    <3>4. job'[g] = Idle \/ Path(job[g], job'[g])
      BY <3>1, <3>2, StartPath
    <3>5. ~Path(job[g], job'[g])
      BY <1>3, <3>3 DEF Path, Launched
    <3> QED BY <1>3, <3>4, <3>5 DEF Idle
  <2> QED BY <1>3, <2>1, CalmStep DEF Calm, Launches
<1>4. /\ job[g].kind = "start" /\ job[g].pc = "teardown" => ~Alive(sess[n])
      /\ job[g].kind = "start" /\ job[g].pc \in Launched => ~told[n]
  BY <1>1 DEF Tolds, Is, At
<1>5. job'[g].tab = n /\ job[g].tab = n /\ ~ \E m \in Tabs : Fresh(g, m)
  BY <1>1 DEF Fresh, Tab, Launched
<1> SUFFICES /\ job'[g].pc = "teardown" => ~Alive(sess'[n])
             /\ job'[g].pc \in Launched => ~told'[n]
  BY <1>1
<1>6. CASE Stays(g) /\ job[g].kind = "start"
  BY <1>2, <1>3, <1>4, <1>6 DEF Stays
<1>7. CASE Path(job[g], job'[g]) /\ job[g].kind = "start"
  <2>1. job'[g].pc = "teardown" => ~Alive(sess[n])
    BY <1>5, <1>7 DEF Path, Launched
  <2>2. job'[g].pc \in Launched => ~told'[n]
    <3>1. job'[g].pc \in Launched =>
            \/ told'[n] = FALSE
            \/ job[g].pc \in Launched
      BY <1>5, <1>7 DEF Path, Launched
    <3> QED BY <1>2, <1>4, <1>7, <3>1
  <2> QED BY <1>3, <2>1, <2>2
<1>8. CASE job'[g].pc \in {"ttyd", "names", "failed"}
  BY <1>8 DEF Launched
<1> QED BY <1>5, <1>6, <1>7, <1>8, StartMoves

(* A start that follows a finished close or reset finds nothing.           *)
CleanSo(h, n) ==
  /\ \A g \in Threads \ {h} : ~(Is(g, "start") /\ Tab(g) = n)
  /\ ~job[h].was /\ ~job[h].keep /\ ~job[h].restorable
  /\ job[h].pc \notin {"session", "teardown"} /\ (At(h, "await") => job[h].then # "names")
  /\ job[h].pc \in Unlaunched => Nothing(n) /\ Unlisted(n)
Cleans == \A h \in Threads : Is(h, "start") /\ job[h].clean => CleanSo(h, Tab(h))

LEMMA CleansStep ==
  ASSUME Jobs, Types, Daemons, Gone, Cleans, [Next]_vars
  PROVE  Cleans'
<1> SUFFICES ASSUME NEW g \in Threads, job'[g].kind = "start", job'[g].clean
             PROVE  CleanSo(g, Tab(g))'
  BY DEF Cleans, Is
<1>1. Jobs'
  BY JobsStep
<1>2. PICK n \in Tabs : n = job'[g].tab
  BY <1>1 DEF Jobs, Program, Is, Tab
<1> SUFFICES /\ \A f \in Threads \ {g} : ~(job'[f].kind = "start" /\ job'[f].tab = n)
             /\ ~job'[g].was /\ ~job'[g].keep /\ ~job'[g].restorable
             /\ job'[g].pc \notin {"session", "teardown"}
             /\ job'[g].pc = "await" => job'[g].then # "names"
             /\ job'[g].pc \in Unlaunched => Nothing(n)' /\ Unlisted(n)'
  BY <1>2 DEF CleanSo, Is, At, Tab, Nothing, Unlisted
<1>3. \A h \in Threads \ {g} : ~BeginStart(h, n)
  BY <1>2, Disturbs
<1>4. ASSUME \A f \in Threads \ {g} : ~(Is(f, "start") /\ Tab(f) = n)
      PROVE  \A f \in Threads \ {g} : ~(job'[f].kind = "start" /\ job'[f].tab = n)
  BY <1>3, <1>4, StartedBefore
<1>5. ASSUME job'[g].pc \in Unlaunched, Nothing(n), Unlisted(n),
             \A f \in Threads \ {g} : ~(Is(f, "start") /\ Tab(f) = n),
             ~StartStep(g) \/ Path(job[g], job'[g])
      PROVE  Nothing(n)' /\ Unlisted(n)'
  <2>1. ASSUME NEW h \in Threads, Tab(h) = n, LaunchSession(h) \/ LaunchTtyd(h) PROVE FALSE
    <3>1. StartStep(h)
      BY <2>1 DEF StartStep
    <3>2. h = g
      BY <1>5, <2>1, <3>1, StartTurns
    <3>3. job[g].pc \in {"launch", "serve"} /\ Path(job[g], job'[g])
      BY <1>5, <2>1, <3>1, <3>2 DEF LaunchSession, LaunchTtyd, At
    <3> QED BY <1>5, <3>3 DEF Path, Launched, Unlaunched
  <2> QED BY <1>5, <2>1, CalmStep DEF Calm, Launches
<1>6. StartStep(g) => Path(job[g], job'[g])
  BY StartPath DEF Idle
<1>7. ASSUME NEW m \in Tabs, BeginStart(g, m), Fresh(g, m)
      PROVE  /\ \A f \in Threads \ {g} : ~(Is(f, "start") /\ Tab(f) = n)
             /\ Nothing(n) /\ Unlisted(n)
             /\ job'[g].pc = "lock" /\ ~job'[g].was /\ ~job'[g].keep /\ ~job'[g].restorable
  <2>1. m = n /\ gone[n] \in {"closed", "listed"}
    BY <1>2, <1>7 DEF Fresh
  <2> QED BY <1>7, <2>1 DEF Gone, Starting, Is, Fresh
<1>8. CASE \E m \in Tabs : BeginStart(g, m) /\ Fresh(g, m)
  <2>1. /\ \A f \in Threads \ {g} : ~(Is(f, "start") /\ Tab(f) = n)
        /\ Nothing(n) /\ Unlisted(n)
        /\ job'[g].pc = "lock" /\ ~job'[g].was /\ ~job'[g].keep /\ ~job'[g].restorable
    BY <1>7, <1>8
  <2>2. Nothing(n)' /\ Unlisted(n)'
    BY <1>5, <1>6, <2>1 DEF Unlaunched
  <2> QED BY <1>4, <2>1, <2>2
<1>9. CASE /\ job[g].kind = "start" /\ job[g].tab = n /\ job[g].clean
           /\ \/ Stays(g)
              \/ Path(job[g], job'[g])
              \/ /\ job[g].pc = "lock" /\ job'[g].pc = "ttyd"
                 /\ job'[g].keep = job[g].keep /\ job'[g].was = job[g].was
                 /\ job'[g].restorable = job[g].restorable
              \/ job[g].pc = "await" /\ job'[g].pc = job[g].then
                 /\ job[g].then \in {"names", "failed"} /\ Same(job[g], job'[g])
  <2>1. CleanSo(g, n)
    BY <1>9 DEF Cleans, Is, Tab
  <2>2. /\ ~job[g].was /\ ~job[g].keep /\ ~job[g].restorable
        /\ job[g].pc \notin {"session", "teardown"}
        /\ job[g].pc = "await" => job[g].then # "names"
        /\ job[g].pc \in Unlaunched => Nothing(n) /\ Unlisted(n)
    BY <2>1 DEF CleanSo, At
  <2>3. Nothing(n) /\ Unlisted(n) => ~Alive(ttyd[n]) /\ n \notin CachedRunning /\ saved[n] = 0
    BY DEF Nothing, Unlisted, Alive, CachedRunning, Running
  <2>4. /\ ~job'[g].was /\ ~job'[g].keep /\ ~job'[g].restorable
        /\ job'[g].pc \notin {"session", "teardown"}
        /\ job'[g].pc = "await" => job'[g].then # "names"
        /\ job'[g].pc \in Unlaunched => job[g].pc \in Unlaunched
    <3>1. CASE Stays(g)
      BY <2>2, <3>1 DEF Stays
    <3>2. CASE Path(job[g], job'[g])
      <4> USE <1>9, <2>2, <2>3, <3>2
      <4>1. CASE job[g].pc \in {"ttyd", "launch"}
        BY <4>1 DEF Path, Same, Unlaunched, Launched
      <4>2. CASE job[g].pc \in {"names", "state"}
        BY <4>2 DEF Path, Unlaunched, Launched
      <4>3. CASE job[g].pc \in Launched
        BY <4>3 DEF Path, Same, Unlaunched, Launched
      <4>4. job[g].pc \in {"ttyd", "launch", "names", "state"} \cup Launched
        BY DEF Path, Launched
      <4> QED BY <4>1, <4>2, <4>3, <4>4
    <3>3. CASE /\ job[g].pc = "lock" /\ job'[g].pc = "ttyd"
               /\ job'[g].keep = job[g].keep /\ job'[g].was = job[g].was
               /\ job'[g].restorable = job[g].restorable
      BY <2>2, <3>3 DEF Unlaunched
    <3>4. CASE job[g].pc = "await" /\ job'[g].pc = job[g].then
               /\ job[g].then \in {"names", "failed"} /\ Same(job[g], job'[g])
      BY <2>2, <3>4 DEF Same, Unlaunched
    <3> QED BY <1>9, <3>1, <3>2, <3>3, <3>4
  <2>5. \A f \in Threads \ {g} : ~(Is(f, "start") /\ Tab(f) = n)
    BY <2>1 DEF CleanSo
  <2>6. job'[g].pc \in Unlaunched => Nothing(n)' /\ Unlisted(n)'
    BY <1>5, <1>6, <2>2, <2>4, <2>5
  <2> QED BY <1>4, <2>4, <2>5, <2>6
<1> QED BY <1>2, <1>8, <1>9, StartMoves

-----------------------------------------------------------------------------
(* The inductive invariant.                                                *)
Inv ==
  /\ Jobs /\ Types /\ Daemons /\ Locks
  /\ Gone /\ Closes /\ Resets /\ Cleans
  /\ Kept /\ Backs /\ Tolds

LEMMA InitInv == Init => Inv
<1> SUFFICES ASSUME Init PROVE Inv
  OBVIOUS
<1>1. job = [h \in Threads |-> Idle] /\ \A h \in Threads : job[h] = Idle /\ job[h].kind = "none"
  BY DEF Init, Idle
<1>2. Jobs
  BY <1>1, IdleIsAJob DEF Jobs, Program, Idle, Is, At
<1>3. Types
  BY DEF Init, Types, UnitState, Caches, NoCache, Reasons
<1>4. Daemons
  BY DEF Init, Daemons
<1>5. Locks /\ Closes /\ Resets /\ Cleans /\ Backs /\ Tolds
  BY <1>1 DEF Init, Locks, Closes, Resets, Cleans, Backs, Tolds, Holds, Is
<1>6. Gone /\ Kept
  BY DEF Init, Gone, Kept
<1> QED BY <1>2, <1>3, <1>4, <1>5, <1>6 DEF Inv

LEMMA StepInv == Inv /\ [Next]_vars => Inv'
BY JobsStep, TypesStep, DaemonsStep, LocksStep, GoneStep, ClosesStep, ResetsStep, CleansStep,
   KeptStep, BacksStep, ToldsStep DEF Inv

LEMMA AlwaysInv == Spec => []Inv
BY InitInv, StepInv, PTL DEF Spec

(* The states are typed, and the lock of a terminal is held by a start of  *)
(* it (_term_start_lock).                                                  *)
THEOREM LifecycleTypes == Spec => []TypeOK
<1>1. Inv => TypeOK
  <2> SUFFICES ASSUME Inv PROVE TypeOK
    OBVIOUS
  <2>1. \A h \in Threads : Tab(h) \in Tabs \cup {0} /\ job[h].todo \subseteq Tabs
    BY DEF Inv, Jobs, Job, Tab
  <2>2. \A n \in Tabs : lock[n] # None => job[lock[n]].kind = "start" /\ Tab(lock[n]) = n
    BY DEF Inv, Locks, Holds, Is
  <2>3. cache.valid \in BOOLEAN /\ cache.set \subseteq Tabs
    BY DEF Inv, Types, Caches
  <2> QED BY <2>1, <2>2, <2>3 DEF Inv, Types, TypeOK
<1> QED BY <1>1, AlwaysInv, PTL

(* Once a close, or a reset that found the terminal running, has finished, *)
(* nothing of it runs, is saved or is listed until somebody opens it       *)
(* (_stop_user_terminal, _handle_reset), whatever else goes on meanwhile:  *)
(* other starts, closes and resets, units that die, restarts.              *)
THEOREM ClosedForGood == Spec => []ClosedStaysClosed
<1>1. Inv => ClosedStaysClosed
  BY DEF Inv, Gone, ClosedStaysClosed
<1> QED BY <1>1, AlwaysInv, PTL

(* A start never tears down a pair that serves and that a start has        *)
(* reported as running (_start_user_terminal: a healthy pair is left       *)
(* alone).                                                                 *)
THEOREM HealthyPairsStay == Spec => HealthyLeftAlone
<1>1. ASSUME Inv, NEW h \in Threads, Teardown(h) \/ GiveUp(h)
      PROVE  ~(told[Tab(h)] /\ Serving(Tab(h)))
  <2>1. Is(h, "start")
    BY <1>1, StartTurns DEF Inv, StartStep
  <2>2. At(h, "teardown") \/ job[h].pc \in Launched
    BY <1>1 DEF Teardown, GiveUp, At, Launched
  <2> QED BY <1>1, <2>1, <2>2 DEF Inv, Tolds, Serving, Alive
<1>2. Inv /\ [Next]_vars =>
        [\A h \in Threads : (Teardown(h) \/ GiveUp(h)) => ~(told[Tab(h)] /\ Serving(Tab(h)))]_vars
  BY <1>1
<1> QED BY <1>2, AlwaysInv, PTL DEF Spec, HealthyLeftAlone

(* A name lives exactly as long as its terminal: a start keeps the name of *)
(* one that came back, and drops the name a finished close or reset left   *)
(* behind (_start_user_terminal_locked).                                   *)
THEOREM NamesLiveWithTerminals == Spec => NamesFollow
<1>1. ASSUME Inv, NEW h \in Threads, Started(h), job[h].back, kept[Tab(h)] # 0
      PROVE  names' = names
  <2>1. Holds(h) /\ At(h, "name")
    BY <1>1, StartHolds DEF Inv, StartStep, Started
  <2>2. job[h].restorable
    BY <1>1, <2>1 DEF Inv, Backs, At
  <2>3. names \in [Tabs -> Lives \cup {0}] /\ Tab(h) \in Tabs
    BY <1>1, <2>1 DEF Inv, Types, Jobs, Program, Holds
  <2> QED BY <1>1, <2>2, <2>3 DEF Started, KeepsName
<1>2. ASSUME Inv, NEW h \in Threads, Started(h), job[h].clean
      PROVE  names'[Tab(h)] = 0
  <2>1. Holds(h)
    BY <1>2, StartHolds DEF Inv, StartStep
  <2>2. ~job[h].was /\ ~job[h].keep /\ ~job[h].restorable
    BY <1>2, <2>1 DEF Inv, Cleans, CleanSo, Holds
  <2>3. names \in [Tabs -> Lives \cup {0}] /\ Tab(h) \in Tabs
    BY <1>2, <2>1 DEF Inv, Types, Jobs, Program, Holds
  <2> QED BY <1>2, <2>2, <2>3 DEF Started, KeepsName
<1>3. Inv /\ [Next]_vars =>
        [\A h \in Threads, n \in Tabs :
           LET cameBack == job[h].back /\ kept[n] # 0 /\ life[n] = kept[n] IN
           Started(h) /\ Tab(h) = n /\ cameBack /\ names[n] = kept[n] => names'[n] = names[n]]_vars
  BY <1>1
<1>4. Inv /\ [Next]_vars =>
        [\A h \in Threads, n \in Tabs :
           Started(h) /\ Tab(h) = n /\ job[h].clean => names'[n] \in {0, life[n]}]_vars
  BY <1>2
<1>5. Spec => NamesSurvive
  BY <1>3, AlwaysInv, PTL DEF Spec, NamesSurvive
<1>6. Spec => ReusedStartsNameless
  BY <1>4, AlwaysInv, PTL DEF Spec, ReusedStartsNameless
<1> QED BY <1>5, <1>6 DEF NamesFollow
=============================================================================
