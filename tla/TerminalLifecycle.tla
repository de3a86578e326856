-------------------------- MODULE TerminalLifecycle --------------------------
(***************************************************************************)
(* The life of one user's terminals (server/terminal-manager.py): a        *)
(* terminal is two systemd units, the session daemon that owns the shell   *)
(* and the ttyd in front of it.  Request threads start, heal, close and    *)
(* reset terminals, the idle reaper stops them, and what brings a terminal *)
(* back after a crash or a reboot is the state its daemon saved.           *)
(*                                                                         *)
(* Each subprocess call of a handler is a step of its own.  A life is one  *)
(* terminal as its user knows it: a daemon that restores saved state       *)
(* continues that life, any other daemon begins a new one.                 *)
(***************************************************************************)
EXTENDS Naturals, FiniteSets, FiniteSetsExt

CONSTANTS
  Tabs,        \* terminal numbers, 1..MAX_INSTANCE
  Threads,     \* threads of the manager
  MaxFaults,   \* bound: units that die, waits that time out, restarts
  MaxActs      \* bound: what the user and the reaper do

ASSUME BoundsAreNaturals == Tabs \subseteq Nat \ {0} /\ {MaxFaults, MaxActs} \subseteq Nat

VARIABLES
  sess, ttyd,          \* the two units of each terminal
  sock,                \* its socket file in /tmp exists
  life,                \* the life its daemon continues, 0 while not loaded
  saved,               \* the life in its state directory, 0 if none
  names,               \* the life its tab name was given to, 0 if none
  lock,                \* _term_start_locks: the thread that holds it, or none
  cache,               \* running_terminals of _cache
  job,                 \* what each thread is doing
  want,                \* a page has the tab open
  told,                \* history: a start has answered ok for this pair
  kept,                \* history: the last life served and not closed
  gone,                \* history: why nothing of the terminal should be left
  faults, acts

units == <<sess, ttyd, sock, life, saved>>
history == <<told, kept, gone>>
vars == <<units, names, lock, cache, job, want, history, faults, acts>>

None == "none"
ASSUME NoneIsNoThread == None \notin Threads
Lives == 1..3          \* a name's, the last one served and one more
Idle == [kind |-> "none", pc |-> "idle", tab |-> 0, todo |-> {}, then |-> "idle",
         keep |-> FALSE, was |-> FALSE, restorable |-> FALSE,  \* what a start has read
         back |-> FALSE,       \* history: the life to keep was on disk when it got the lock
         quiet |-> FALSE,      \* history: no start ran since this close or reset began
         clean |-> FALSE]      \* history: nothing was left when this, the only, start began
NoCache == [valid |-> FALSE, set |-> {}]

Alive(unit) == unit \in {"booting", "up"}              \* _unit_alive
Running == {n \in Tabs : Alive(ttyd[n])}               \* _list_running_terminals
Restorable == {n \in Tabs : saved[n] # 0}              \* _restorable_terminals
CachedRunning == IF cache.valid THEN cache.set ELSE Running

(* Bookkeeping of a step of thread h.                                      *)
At(h, pc) == job[h].pc = pc
Tab(h) == job[h].tab
Goto(h, pc) == job' = [job EXCEPT ![h].pc = pc]
Fault == faults < MaxFaults /\ faults' = faults + 1
NoFault == UNCHANGED faults
Act == acts < MaxActs /\ acts' = acts + 1
Rest(h, pc) == Goto(h, pc) /\ UNCHANGED <<want, history, acts>>

Init ==
  /\ sess = [n \in Tabs |-> "off"] /\ ttyd = [n \in Tabs |-> "off"]
  /\ sock = [n \in Tabs |-> FALSE]
  /\ life = [n \in Tabs |-> 0] /\ saved = [n \in Tabs |-> 0]
  /\ names = [n \in Tabs |-> 0]
  /\ lock = [n \in Tabs |-> None] /\ cache = NoCache
  /\ job = [h \in Threads |-> Idle]
  /\ want = [n \in Tabs |-> FALSE]
  /\ told = [n \in Tabs |-> FALSE] /\ kept = [n \in Tabs |-> 0]
  /\ gone = [n \in Tabs |-> "no"]
  /\ faults = 0 /\ acts = 0

-----------------------------------------------------------------------------
(* systemctl stop and kill.  A stop takes effect in steps of the units.    *)
Stopped(unit) == IF Alive(unit) THEN "stopping" ELSE unit
StopSession(n) == sess' = [sess EXCEPT ![n] = Stopped(@)] /\ UNCHANGED ttyd
StopBoth(n) ==
  sess' = [sess EXCEPT ![n] = Stopped(@)] /\ ttyd' = [ttyd EXCEPT ![n] = Stopped(@)]
Await(h, pc) == job' = [job EXCEPT ![h].pc = "await", ![h].then = pc]

(* systemctl returns when the units have stopped, or its timeout passes; a *)
(* close that timed out forgets nothing.                                   *)
Awaited(h) ==
  /\ At(h, "await")
  /\ \/ sess[Tab(h)] # "stopping" /\ ttyd[Tab(h)] # "stopping" /\ NoFault
        /\ Rest(h, job[h].then)
     \/ Fault /\ Rest(h, IF job[h].kind = "close" THEN "timed out" ELSE job[h].then)
  /\ UNCHANGED <<units, names, lock, cache>>

-----------------------------------------------------------------------------
(* _start_user_terminal.                                                   *)
Starting(n) == \E h \in Threads : job[h].kind = "start" /\ Tab(h) = n
Closing(n) == \E h \in Threads : \/ job[h].kind = "close" /\ Tab(h) = n
                                \/ job[h].kind = "reset"
Serving(n) == sess[n] = "up" /\ ttyd[n] = "up"

BeginStart(h, n) ==
  /\ At(h, "idle")
  /\ job' = [g \in Threads |->
       IF g = h THEN [Idle EXCEPT !.kind = "start", !.pc = "lock", !.tab = n,
                                  !.clean = gone[n] \in {"closed", "listed"}]
                ELSE [job[g] EXCEPT !.quiet = @ /\ Tab(g) # n /\ job[g].kind # "reset",
                                    !.clean = @ /\ Tab(g) # n]]
  /\ gone' = [gone EXCEPT ![n] = "no"]
  /\ UNCHANGED <<units, names, lock, told, kept, faults>>

(* The "start" action of _handle_terminal: a page opens a tab.             *)
Open(h, n) ==
  BeginStart(h, n) /\ Act /\ want' = [want EXCEPT ![n] = TRUE] /\ UNCHANGED cache

(* _ensure_user_terminal: a request for /tN/ of a terminal that is not     *)
(* whole.                                                                  *)
Ask(h, n) ==
  /\ want[n]
  /\ ~(n \in CachedRunning /\ Alive(sess[n]))
  /\ cache' = [valid |-> TRUE, set |-> CachedRunning]
  /\ BeginStart(h, n)
  /\ UNCHANGED <<want, acts>>

(* The lock is released and the answer sent; every caller then drops the   *)
(* cached running set.                                                     *)
Answer(h, ok) ==
  LET n == Tab(h) IN
  /\ lock' = [lock EXCEPT ![n] = None]
  /\ cache' = NoCache
  /\ job' = [job EXCEPT ![h] = Idle]
  /\ told' = [told EXCEPT ![n] = @ \/ (ok /\ Serving(n))]
  /\ kept' = [kept EXCEPT ![n] = IF ok /\ Serving(n) /\ ~Closing(n) THEN life[n] ELSE @]
  /\ UNCHANGED <<want, gone, acts>>

(* _term_start_lock.                                                       *)
Locked(h) ==
  /\ lock' = [lock EXCEPT ![Tab(h)] = h]
  /\ job' = [job EXCEPT ![h].pc = "ttyd",
                       ![h].back = kept[Tab(h)] # 0 /\ saved[Tab(h)] = kept[Tab(h)]]
  /\ UNCHANGED <<units, names, cache, want, history, faults, acts>>
AcquireAnyway(h) == At(h, "lock") /\ Locked(h)      \* (mutant: starts are not serialised)
Acquire(h) == At(h, "lock") /\ lock[Tab(h)] = None /\ Locked(h)

CheckTtyd(h) ==
  /\ At(h, "ttyd")
  /\ Rest(h, IF Alive(ttyd[Tab(h)]) THEN "session" ELSE "names")
  /\ UNCHANGED <<units, names, lock, cache, faults>>

(* A healthy pair is left alone.                                           *)
CheckSession(h) ==
  /\ At(h, "session")
  /\ \/ Alive(sess[Tab(h)]) /\ Answer(h, TRUE)
     \/ ~Alive(sess[Tab(h)]) /\ Rest(h, "teardown") /\ UNCHANGED <<lock, cache>>
  /\ UNCHANGED <<units, names, faults>>

(* An orphan ttyd is stopped; the pair that follows keeps the name.        *)
Teardown(h) ==
  /\ At(h, "teardown")
  /\ StopBoth(Tab(h))
  /\ job' = [job EXCEPT ![h].pc = "await", ![h].then = "names", ![h].keep = TRUE]
  /\ UNCHANGED <<sock, life, saved, names, lock, cache, want, history, faults, acts>>

(* _start_user_terminal_locked.                                            *)
WasRunning(h) ==
  /\ At(h, "names")
  /\ cache' = [valid |-> TRUE, set |-> CachedRunning]
  /\ job' = [job EXCEPT ![h].pc = "state", ![h].was = Tab(h) \in CachedRunning]
  /\ UNCHANGED <<units, names, lock, want, history, faults, acts>>

IsRestorable(h) ==
  /\ At(h, "state")
  /\ job' = [job EXCEPT ![h].pc = "launch", ![h].restorable = Tab(h) \in Restorable]
  /\ UNCHANGED <<units, names, lock, cache, want, history, faults, acts>>

(* systemd-run of the session unit fails while a unit of that name exists. *)
LaunchSession(h) ==
  LET n == Tab(h) IN
  /\ At(h, "launch")
  /\ \/ sess[n] # "off" /\ Answer(h, FALSE) /\ UNCHANGED sess
     \/ /\ sess[n] = "off"
        /\ sess' = [sess EXCEPT ![n] = "booting"]
        /\ told' = [told EXCEPT ![n] = FALSE]
        /\ Goto(h, "socket")
        /\ UNCHANGED <<lock, cache, want, kept, gone, acts>>
  /\ UNCHANGED <<ttyd, sock, life, saved, names, faults>>

(* _wait_path: the file is there, or its unit is gone, or 5 s pass.        *)
SocketResult(n) == IF sock[n] THEN "serve" ELSE "drop session"
WaitSocket(h) ==
  LET n == Tab(h) IN
  /\ At(h, "socket")
  /\ \/ (sock[n] \/ ~Alive(sess[n])) /\ NoFault
     \/ Fault
  /\ Rest(h, SocketResult(n))
  /\ UNCHANGED <<units, names, lock, cache>>

LaunchTtyd(h) ==
  LET n == Tab(h) IN
  /\ At(h, "serve")
  /\ \/ ttyd[n] # "off" /\ Rest(h, "drop session") /\ UNCHANGED ttyd
     \/ /\ ttyd[n] = "off"
        /\ ttyd' = [ttyd EXCEPT ![n] = "booting"]
        /\ Rest(h, "port")
  /\ UNCHANGED <<sess, sock, life, saved, names, lock, cache, faults>>

(* _wait_tcp: the port answers, or ttyd is gone, or 8 s pass.              *)
PortResult(n) == IF ttyd[n] = "up" THEN "name" ELSE "drop both"
WaitPort(h) ==
  LET n == Tab(h) IN
  /\ At(h, "port")
  /\ \/ (ttyd[n] = "up" \/ ~Alive(ttyd[n])) /\ NoFault
     \/ Fault
  /\ Rest(h, PortResult(n))
  /\ UNCHANGED <<units, names, lock, cache>>

(* A start that fails half way stops what it launched.                     *)
GiveUp(h) ==
  /\ \/ At(h, "drop session") /\ StopSession(Tab(h))
     \/ At(h, "drop both") /\ StopBoth(Tab(h))
  /\ Await(h, "failed")
  /\ UNCHANGED <<sock, life, saved, names, lock, cache, want, history, faults, acts>>

Failed(h) == At(h, "failed") /\ Answer(h, FALSE) /\ UNCHANGED <<units, names, faults>>

(* A fresh session forgets the name its number had.  (mutant: a restored   *)
(* one, too)                                                               *)
KeepsNameIfRunning(j) == j.was \/ j.keep
KeepsName(j) == j.was \/ j.keep \/ j.restorable
Started(h) ==
  /\ At(h, "name")
  /\ names' = [names EXCEPT ![Tab(h)] = IF KeepsName(job[h]) THEN @ ELSE 0]
  /\ Answer(h, TRUE)
  /\ UNCHANGED <<units, faults>>

-----------------------------------------------------------------------------
(* The "stop" action of _handle_terminal: a page closes a tab.  Its clear  *)
(* of the tab's name is a request of its own, which may never arrive.      *)
Close(h, n) ==
  /\ At(h, "idle") /\ want[n] /\ Act
  /\ job' = [job EXCEPT ![h] = [Idle EXCEPT !.kind = "close", !.pc = "stop", !.tab = n,
                                            !.quiet = ~Starting(n)]]
  /\ want' = [want EXCEPT ![n] = FALSE]
  /\ kept' = [kept EXCEPT ![n] = 0]
  /\ names' \in {names, [names EXCEPT ![n] = 0]}
  /\ UNCHANGED <<units, lock, cache, told, gone, faults>>

(* _stop_user_terminal.  (mutant: systemctl stop --no-block)               *)
Stopping(h) ==
  /\ At(h, "stop")
  /\ StopBoth(Tab(h))
  /\ UNCHANGED <<sock, life, saved, names, lock, cache, want, history, faults, acts>>
StopNoBlock(h) == Stopping(h) /\ Goto(h, "forget")
StopTerminal(h) == Stopping(h) /\ Await(h, "forget")

(* _forget_terminal_state, only after the daemon has stopped: it saves as  *)
(* it stops.                                                               *)
ForgetState(h) ==
  /\ At(h, "forget")
  /\ saved' = [saved EXCEPT ![Tab(h)] = 0]
  /\ Rest(h, "closed")
  /\ UNCHANGED <<sess, ttyd, sock, life, names, lock, cache, faults>>

CloseCache == NoCache
CloseAnswered(h) ==
  /\ job[h].pc \in {"closed", "timed out"}
  /\ cache' = CloseCache
  /\ job' = [job EXCEPT ![h] = Idle]
  /\ gone' = [gone EXCEPT ![Tab(h)] = IF At(h, "closed") /\ job[h].quiet THEN "closed" ELSE @]
  /\ UNCHANGED <<units, names, lock, want, told, kept, faults, acts>>

-----------------------------------------------------------------------------
(* _handle_reset: logout.  It stops the terminals whose ttyd it finds      *)
(* running; a listing that times out finds none.                           *)
Reset(h) ==
  /\ At(h, "idle") /\ Act
  /\ \E listed \in {Running, {}} :
       /\ IF listed = Running THEN NoFault ELSE Fault
       /\ job' = [job EXCEPT ![h] = [Idle EXCEPT !.kind = "reset", !.pc = "kill", !.todo = listed,
                                       !.quiet = \A n \in Tabs : ~Starting(n)]]
  /\ want' = [n \in Tabs |-> FALSE]
  /\ kept' = [n \in Tabs |-> 0]
  /\ UNCHANGED <<units, names, lock, cache, told, gone>>

(* SIGKILL to the whole cgroup of both units: nothing saves, no socket     *)
(* file is removed.                                                        *)
Cleared(f, todo, value) == [n \in Tabs |-> IF n \in todo THEN value ELSE f[n]]
KillListed(h) ==
  LET todo == job[h].todo IN
  /\ At(h, "kill")
  /\ \/ /\ NoFault
        /\ sess' = Cleared(sess, todo, "off") /\ ttyd' = Cleared(ttyd, todo, "off")
        /\ life' = Cleared(life, todo, 0)
        /\ Goto(h, "forget all")
     \/ /\ Fault /\ todo # {} /\ UNCHANGED <<sess, ttyd, life>>
        /\ job' = [job EXCEPT ![h].pc = "forget all", ![h].quiet = FALSE]
  /\ UNCHANGED <<sock, saved, names, lock, cache, want, history, acts>>

ForgetAll(h) ==
  /\ At(h, "forget all")
  /\ saved' = [n \in Tabs |-> 0]
  /\ cache' = NoCache
  /\ Rest(h, "clear names")
  /\ UNCHANGED <<sess, ttyd, sock, life, names, lock, faults>>

ResetAnswered(h) ==
  /\ At(h, "clear names")
  /\ names' = [n \in Tabs |-> 0]
  /\ job' = [job EXCEPT ![h] = Idle]
  /\ gone' = [n \in Tabs |-> IF ~job[h].quiet THEN gone[n]
                             ELSE IF n \in job[h].todo THEN "listed" ELSE "reset"]
  /\ UNCHANGED <<units, lock, cache, want, told, kept, faults, acts>>

-----------------------------------------------------------------------------
(* _reap_idle_users, _reap_user: no page of this user has been open for    *)
(* hours, so nothing is under way and every daemon has saved its state.    *)
Reap(h) ==
  /\ \A g \in Threads : At(g, "idle")
  /\ \A n \in Tabs : sess[n] # "off" => sess[n] = "up" /\ saved[n] = life[n]
  /\ Act
  /\ want' = [n \in Tabs |-> FALSE]
  /\ job' = [job EXCEPT ![h] = [Idle EXCEPT !.kind = "reap", !.pc = "next", !.todo = Running]]
  /\ UNCHANGED <<units, names, lock, cache, history, faults>>

ReapNext(h) ==
  /\ At(h, "next") /\ job[h].todo # {}
  /\ LET n == Min(job[h].todo) IN
       /\ StopBoth(n)
       /\ job' = [job EXCEPT ![h].pc = "await", ![h].then = "next",
                             ![h].tab = n, ![h].todo = @ \ {n}]
  /\ UNCHANGED <<sock, life, saved, names, lock, cache, want, history, faults, acts>>

Reaped(h) ==
  /\ At(h, "next") /\ job[h].todo = {}
  /\ cache' = NoCache
  /\ job' = [job EXCEPT ![h] = Idle]
  /\ UNCHANGED <<units, names, lock, want, history, faults, acts>>

-----------------------------------------------------------------------------
(* The two units (vibetop-session serve; ttyd).                            *)
Undisturbed == UNCHANGED <<names, lock, job, want, history, acts>>

DaemonLoads(n) ==
  /\ sess[n] = "booting" /\ life[n] = 0
  /\ life' = [life EXCEPT ![n] =
       IF saved[n] # 0 THEN saved[n] ELSE Min(Lives \ {names[n], kept[n]})]
  /\ UNCHANGED <<sess, ttyd, sock, saved, cache, faults>> /\ Undisturbed

DaemonBinds(n) ==
  /\ sess[n] = "booting" /\ life[n] # 0
  /\ sess' = [sess EXCEPT ![n] = "up"] /\ sock' = [sock EXCEPT ![n] = TRUE]
  /\ UNCHANGED <<ttyd, life, saved, cache, faults>> /\ Undisturbed

DaemonSaves(n) ==
  /\ sess[n] = "up" /\ saved[n] # life[n]
  /\ saved' = [saved EXCEPT ![n] = life[n]]
  /\ UNCHANGED <<sess, ttyd, sock, life, cache, faults>> /\ Undisturbed

(* on_sigterm saves; before it is installed a stop just ends the daemon.   *)
DaemonExits(n) ==
  /\ sess[n] = "stopping"
  /\ sess' = [sess EXCEPT ![n] = "off"]
  /\ saved' = [saved EXCEPT ![n] = IF life[n] # 0 THEN life[n] ELSE @]
  /\ sock' = [sock EXCEPT ![n] = @ /\ life[n] = 0]
  /\ life' = [life EXCEPT ![n] = 0]
  /\ UNCHANGED <<ttyd, cache, faults>> /\ Undisturbed

TtydMoves(n) ==
  /\ \/ ttyd[n] = "booting" /\ ttyd' = [ttyd EXCEPT ![n] = "up"]
     \/ ttyd[n] = "stopping" /\ ttyd' = [ttyd EXCEPT ![n] = "off"]
  /\ UNCHANGED <<sess, sock, life, saved, cache, faults>> /\ Undisturbed

(* A unit dies without a word: an OOM kill, a crash, a failed start-up.    *)
DaemonDies(n) ==
  /\ Alive(sess[n]) /\ Fault
  /\ sess' = [sess EXCEPT ![n] = "off"] /\ life' = [life EXCEPT ![n] = 0]
  /\ UNCHANGED <<ttyd, sock, saved, cache>> /\ Undisturbed

TtydDies(n) ==
  /\ Alive(ttyd[n]) /\ Fault
  /\ ttyd' = [ttyd EXCEPT ![n] = "off"]
  /\ UNCHANGED <<sess, sock, life, saved, cache>> /\ Undisturbed

-----------------------------------------------------------------------------
CacheExpires ==
  /\ cache.valid /\ cache' = NoCache
  /\ UNCHANGED <<units, faults>> /\ Undisturbed

(* /api/terminals/status.                                                  *)
Poll ==
  /\ ~cache.valid /\ cache' = [valid |-> TRUE, set |-> Running]
  /\ UNCHANGED <<units, faults>> /\ Undisturbed

(* _handle_tab_names_save: the user names a terminal it sees.              *)
Rename(n) ==
  /\ want[n] /\ Serving(n) /\ names[n] # life[n]
  /\ names' = [names EXCEPT ![n] = life[n]]
  /\ UNCHANGED <<units, lock, cache, job, want, history, faults, acts>>

(* The manager restarts: its threads, locks and caches go, the units stay. *)
ThreadsGone ==
  /\ job' = [h \in Threads |-> Idle] /\ lock' = [n \in Tabs |-> None] /\ cache' = NoCache
ManagerRestarts ==
  /\ Fault /\ ThreadsGone
  /\ UNCHANGED <<units, names, want, history, acts>>

(* The host restarts: a shutdown stops every unit, a power cut does not.   *)
HostRestarts ==
  /\ Fault /\ ThreadsGone
  /\ saved' \in {saved, [n \in Tabs |-> IF life[n] # 0 THEN life[n] ELSE saved[n]]}
  /\ sess' = [n \in Tabs |-> "off"] /\ ttyd' = [n \in Tabs |-> "off"]
  /\ sock' = [n \in Tabs |-> FALSE] /\ life' = [n \in Tabs |-> 0]
  /\ UNCHANGED <<names, want, history, acts>>

-----------------------------------------------------------------------------
StartStep(h) ==
  \/ CheckTtyd(h) \/ CheckSession(h) \/ Teardown(h) \/ WasRunning(h) \/ IsRestorable(h)
  \/ LaunchSession(h) \/ WaitSocket(h) \/ LaunchTtyd(h) \/ WaitPort(h) \/ GiveUp(h)
  \/ Failed(h) \/ Started(h)
OtherStep(h) ==
  \/ Awaited(h) \/ StopTerminal(h) \/ ForgetState(h) \/ CloseAnswered(h) \/ KillListed(h)
  \/ ForgetAll(h) \/ ResetAnswered(h) \/ ReapNext(h) \/ Reaped(h)
Step(h) == StartStep(h) \/ OtherStep(h)
UnitStep(n) == DaemonLoads(n) \/ DaemonBinds(n) \/ DaemonExits(n) \/ TtydMoves(n)

Next ==
  \/ \E h \in Threads : Step(h) \/ Acquire(h) \/ Reset(h) \/ Reap(h)
  \/ \E h \in Threads, n \in Tabs : Open(h, n) \/ Ask(h, n) \/ Close(h, n)
  \/ \E n \in Tabs : UnitStep(n) \/ DaemonSaves(n) \/ DaemonDies(n) \/ TtydDies(n) \/ Rename(n)
  \/ CacheExpires \/ Poll \/ ManagerRestarts \/ HostRestarts

Spec == Init /\ [][Next]_vars

(* Calls return, systemd carries out its jobs, the cache expires, and a    *)
(* page with the tab open keeps asking for it; a thread is never starved   *)
(* of a lock that keeps being released.                                    *)
FairSpec ==
  /\ Spec
  /\ WF_vars(CacheExpires)
  /\ \A h \in Threads : WF_vars(Step(h)) /\ SF_vars(Acquire(h))
  /\ \A n \in Tabs : WF_vars(UnitStep(n)) /\ SF_vars(\E h \in Threads : Ask(h, n))

-----------------------------------------------------------------------------
UnitState == {"off", "booting", "up", "stopping"}
TypeOK ==
  /\ sess \in [Tabs -> UnitState] /\ ttyd \in [Tabs -> UnitState] /\ sock \in [Tabs -> BOOLEAN]
  /\ \A f \in {life, saved, names, kept} : f \in [Tabs -> Lives \cup {0}]
  /\ lock \in [Tabs -> Threads \cup {None}]
  /\ cache.valid \in BOOLEAN /\ cache.set \subseteq Tabs
  /\ \A h \in Threads : Tab(h) \in Tabs \cup {0} /\ job[h].todo \subseteq Tabs
  /\ \A n \in Tabs : lock[n] # None => job[lock[n]].kind = "start" /\ Tab(lock[n]) = n

(* A pair that serves, and of which a start has said so, is never torn     *)
(* down by another start (docs: a healthy pair is left alone).             *)
HealthyLeftAlone ==
  [][\A h \in Threads : (Teardown(h) \/ GiveUp(h)) => ~(told[Tab(h)] /\ Serving(Tab(h)))]_vars

(* A start never takes the name from a terminal that came back: the name   *)
(* of a life that was served and not closed outlives crashes and reboots.  *)
NamesSurvive ==
  [][\A h \in Threads, n \in Tabs :
       LET cameBack == job[h].back /\ kept[n] # 0 /\ life[n] = kept[n] IN
       Started(h) /\ Tab(h) = n /\ cameBack /\ names[n] = kept[n]
         => names'[n] = names[n]]_vars

(* A number reused after a finished close or reset starts without the old  *)
(* terminal's name.                                                        *)
ReusedStartsNameless ==
  [][\A h \in Threads, n \in Tabs :
       Started(h) /\ Tab(h) = n /\ job[h].clean => names'[n] \in {0, life[n]}]_vars

(* A name lives exactly as long as its terminal: through crashes and       *)
(* reboots, and not into the next terminal of that number.                 *)
NamesFollow == NamesSurvive /\ ReusedStartsNameless

(* Once a close, or a reset that found it running, has finished, nothing   *)
(* of the terminal runs, is saved or is listed until somebody opens it.    *)
Nothing(n) == sess[n] = "off" /\ ttyd[n] = "off" /\ saved[n] = 0
ClosedStaysClosed == \A n \in Tabs : gone[n] \in {"closed", "listed"} => Nothing(n)

(* "Nothing comes back on the next login": after a reset, no terminal.     *)
NothingComesBack == \A n \in Tabs : gone[n] # "no" => Nothing(n)

(* A terminal somebody has open ends up whole.                             *)
ComesBack == \A n \in Tabs : []<>(want[n] => Serving(n))

(* ... unless its session daemon was left without a ttyd: then no start    *)
(* ever launches either unit again.                                        *)
StuckOnlyAsOrphan ==
  \A n \in Tabs : ([]<>(want[n] => Serving(n))) \/ <>[](Alive(sess[n]) /\ ttyd[n] = "off")

(* Starts that race only ever build: none tears down a pair that serves,   *)
(* and in the end an open terminal is whole or has lost its ttyd.          *)
StartsBuild == HealthyLeftAlone /\ StuckOnlyAsOrphan
=============================================================================
