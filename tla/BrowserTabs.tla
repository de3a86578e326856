------------------------------ MODULE BrowserTabs ------------------------------
(***************************************************************************)
(* The tabs of Browser Lite: the toolbar page keeps a controller per tab   *)
(* (proxy/trusted-controller.js), which opens pages and approves the       *)
(* navigations that a page asks for through numbered commands to the       *)
(* runtime (BrowserGateway), over a network that loses answers.  The page  *)
(* itself is in a frame on another origin: it enters with a one-use        *)
(* ticket, and a form it submits to another site is captured, approved by  *)
(* the controller, and sent when the tab's next page is entered.           *)
(***************************************************************************)
EXTENDS BrowserGateway, Sequences

CONSTANTS
  Clients,     \* the toolbar's tabs
  MaxAsked,    \* bound: times the user opens an address, tries again, shows a tab
  MaxNavs,     \* bound: captured navigations
  MaxFaults,   \* bound: lost answers, restarts, evictions, sign-outs
  NoTask       \* no task, command or answer

VARIABLES
  server,      \* the runtime's state
  lease,       \* the sign-in the browser's requests carry
  tab,         \* the controller of each tab
  calls,       \* commands on their way, by tab: those waited for and late ones
  replies,     \* the answer to the command each tab waits for
  frame,       \* the frame of each tab
  active,      \* the tab that is shown
  lapsed,      \* ids an answered heartbeat says are not kept
  sent,        \* history: how often each captured navigation was sent, and too late
  asked, faults

tabVars == <<server, lease, tab, calls, replies, frame, active, lapsed, sent, asked, faults>>

Navs == 1..MaxNavs
Id(c) == <<c, tab[c].gen>>
FreshTab ==
  [gen |-> 0, op |-> 0, pending |-> NoTask, server |-> 0, shown |-> <<>>, expired |-> FALSE,
   seq |-> 0, tasks |-> <<>>, loading |-> FALSE, error |-> FALSE, lazy |-> FALSE,
   closed |-> FALSE]
BlankFrame == [at |-> "blank", id |-> <<>>, epoch |-> 0, nav |-> 0]

TabsInit ==
  /\ server = Blank(Navs) /\ lease = 0
  /\ tab = [c \in Clients |-> FreshTab] /\ frame = [c \in Clients |-> BlankFrame]
  /\ calls = [c \in Clients |-> {}] /\ replies = [c \in Clients |-> NoTask]
  /\ active \in Clients /\ lapsed = {}
  /\ sent = [n \in Navs |-> [times |-> 0, stale |-> FALSE]] /\ asked = 0 /\ faults = 0

Fault == faults < MaxFaults /\ faults' = faults + 1

-----------------------------------------------------------------------------
(* The controller's queue of operations.  Each first recovers a command    *)
(* whose answer was lost, and then sends its own.                          *)
Task(kind, seq, epoch, nav, again) ==
  [kind |-> kind, seq |-> seq, epoch |-> epoch, nav |-> nav, again |-> again, step |-> "recover"]
Queued(t, task) == [t EXCEPT !.tasks = Append(@, task)]
Asks(t, again) ==                                          \* open()
  [Queued(t, Task("open", t.seq + 1, 0, 0, again)) EXCEPT !.seq = @ + 1, !.error = FALSE, !.lazy = FALSE]
Expired(t) ==
  [t EXCEPT !.seq = @ + 1, !.gen = @ + 1, !.op = 0, !.pending = NoTask, !.server = 0, !.expired = TRUE]
Activated(t, epoch) ==
  [t EXCEPT !.shown = <<t.gen, epoch>>, !.server = epoch, !.expired = FALSE, !.loading = TRUE]
Entering(c, t, epoch) == [at |-> "entry", id |-> <<c, t.gen>>, epoch |-> epoch, nav |-> 0]
Head1(c) == tab[c].tasks[1]
Dropped(t) == [t EXCEPT !.tasks = Tail(@)]
AtStep(t, step) == [t EXCEPT !.tasks[1].step = step]

(* reopen(): the runtime has forgotten the tab; its page is opened again,  *)
(* when the tab is next shown.  (mutant: the page is only marked)          *)
MarkedOnly(c, t) == Expired(t)
Reopened(c, t) ==
  IF t.shown = <<>> THEN t
  ELSE IF active = c THEN Asks(Expired(t), FALSE)
       ELSE [Expired(t) EXCEPT !.lazy = TRUE]

(* The user opens an address, tries again after an error, or shows a tab.  *)
AskFor(c) ==
  /\ active = c /\ ~tab[c].closed /\ asked < MaxAsked /\ asked' = asked + 1
  /\ tab' = [tab EXCEPT ![c] = Asks(@, FALSE)]
  /\ UNCHANGED <<server, lease, calls, replies, frame, active, lapsed, sent, faults>>
Retry(c) ==
  /\ active = c /\ ~tab[c].closed /\ tab[c].error /\ asked < MaxAsked /\ asked' = asked + 1
  /\ tab' = [tab EXCEPT ![c] =
       IF @.pending = NoTask THEN Asks(@, FALSE)
       ELSE [Queued(@, Task("retry", @.seq, 0, 0, FALSE)) EXCEPT !.error = FALSE]]
  /\ UNCHANGED <<server, lease, calls, replies, frame, active, lapsed, sent, faults>>
Activate(c) ==
  /\ active # c /\ ~tab[c].closed /\ active' = c /\ asked < MaxAsked /\ asked' = asked + 1
  /\ tab' = [tab EXCEPT ![c] = IF @.lazy THEN Asks(@, FALSE) ELSE @]
  /\ UNCHANGED <<server, lease, calls, replies, frame, lapsed, sent, faults>>
Close(c) ==                                                \* dispose()
  /\ ~tab[c].closed
  /\ active' \in IF active # c THEN {active}
                 ELSE LET open == {d \in Clients \ {c} : ~tab[d].closed} IN IF open = {} THEN {c} ELSE open
  /\ tab' = [tab EXCEPT ![c] = [Queued(@, Task("close", @.seq, 0, 0, FALSE)) EXCEPT
                                  !.seq = @ + 1, !.closed = TRUE, !.lazy = FALSE]]
  /\ frame' = [frame EXCEPT ![c] = BlankFrame]
  /\ UNCHANGED <<server, lease, calls, replies, lapsed, sent, asked, faults>>

(* The first task: what is still worth doing, and what it sends.           *)
StillOpen(t, task) == task.seq = t.seq
StillApproved(t, task) == task.seq = t.seq /\ t.server = task.epoch /\ t.shown = <<t.gen, task.epoch>>
Command(t, task) ==
  [command |-> task.kind, nav |-> task.nav,
   epoch |-> CASE task.kind = "open" -> t.server + 1
               [] task.kind = "approve" -> task.epoch
               [] OTHER -> t.server]
Wanted(t, task) ==
  CASE task.kind = "open" -> TRUE
    [] task.kind = "approve" -> StillApproved(t, task)
    [] task.kind = "close" -> t.server # 0
    [] task.kind = "retry" -> FALSE
Message(c, t) ==
  [id |-> <<c, t.gen>>, op |-> t.op, late |-> FALSE,
   command |-> t.pending.command, nav |-> t.pending.nav, epoch |-> t.pending.epoch]
Sent(c, t) == [calls EXCEPT ![c] = @ \cup {Message(c, t)}]

(* Nothing is left to recover: the task sends its command, or is done.     *)
Proceeds(c, t) ==
  IF Wanted(t, t.tasks[1])
  THEN LET next == AtStep([t EXCEPT !.op = @ + 1, !.pending = Command(t, t.tasks[1])], "command") IN
       /\ tab' = [tab EXCEPT ![c] = next] /\ calls' = Sent(c, next)
  ELSE tab' = [tab EXCEPT ![c] = Dropped(t)] /\ UNCHANGED calls

Waits(c) == Head1(c).step \in {"recovering", "command"}
Begin(c) ==
  /\ tab[c].tasks # <<>> /\ Head1(c).step = "recover"
  /\ IF Head1(c).kind = "open" /\ ~StillOpen(tab[c], Head1(c))
     THEN tab' = [tab EXCEPT ![c] = Dropped(@)] /\ UNCHANGED calls
     ELSE IF tab[c].pending = NoTask THEN Proceeds(c, tab[c])
          ELSE tab' = [tab EXCEPT ![c] = AtStep(@, "recovering")] /\ calls' = Sent(c, tab[c])
  /\ UNCHANGED <<server, lease, replies, frame, active, lapsed, sent, asked, faults>>

-----------------------------------------------------------------------------
(* The runtime performs a command.  The answer reaches whoever waits.      *)
Deliver(c, m) ==
  \E victim \in OpenLanes(server) \cup {<<>>} :
    LET out == Run(server, m, lease, victim)
        evicts == m.id \notin DOMAIN server.lanes /\ m.op = 1 /\ ~HasRoom(server) IN
    /\ m \in calls[c] /\ (evicts <=> victim # <<>>)
    /\ server' = out.S
    /\ calls' = [calls EXCEPT ![c] = @ \ {m}]
    /\ replies' = IF m.late THEN replies ELSE [replies EXCEPT ![c] = out.answer]
    /\ UNCHANGED <<lease, tab, frame, active, lapsed, sent, asked, faults>>

(* The task fails: after a reset the tab asks once more by itself.         *)
FailedTask(c, t, code) ==
  LET task == t.tasks[1]
      d == Dropped(t)
      shows == active = c IN
  IF task.kind = "open" /\ code = "reset" /\ ~task.again /\ shows THEN Asks(Expired(d), TRUE)
  ELSE IF task.kind \in {"open", "retry"} \/ (task.kind = "approve" /\ task.seq = t.seq)
       THEN [d EXCEPT !.error = TRUE]
       ELSE d

(* recover(): an answer to a command that is no longer pending, because    *)
(* the tab was reset meanwhile, counts as a failure.                       *)
Superseded(c) == tab[c].pending = NoTask
Answered(c) ==
  LET a == replies[c]
      task == Head1(c)
      done == [tab[c] EXCEPT !.pending = NoTask, !.server = IF a.code = "opened" THEN a.epoch ELSE @]
      shown == a.code = "opened" /\ (task.kind = "retry" \/ (task.seq = tab[c].seq /\ task.kind \in {"open", "approve"}))
      recovers == task.step = "recovering" /\ task.kind # "open" /\ shown
      settled == IF recovers \/ (task.step = "command" /\ shown) THEN Activated(done, a.epoch) ELSE done IN
  /\ tab[c].tasks # <<>> /\ Waits(c) /\ a # NoTask
  /\ replies' = [replies EXCEPT ![c] = NoTask]
  /\ CASE Superseded(c) ->
            tab' = [tab EXCEPT ![c] = FailedTask(c, @, "lost")] /\ UNCHANGED <<calls, frame>>
       [] ~Superseded(c) /\ a.code \in {"reset", "rejected"} ->
            /\ tab' = [tab EXCEPT ![c] = FailedTask(c, IF a.code = "reset" THEN Expired(done) ELSE done, a.code)]
            /\ UNCHANGED <<calls, frame>>
       [] OTHER ->
            /\ IF task.step = "recovering" THEN Proceeds(c, settled)
               ELSE tab' = [tab EXCEPT ![c] = Dropped(settled)] /\ UNCHANGED calls
            /\ frame' = IF settled # done THEN [frame EXCEPT ![c] = Entering(c, tab[c], a.epoch)] ELSE frame
  /\ UNCHANGED <<server, lease, active, lapsed, sent, asked, faults>>

(* The connection fails or 30 s pass: nothing is known of the command,     *)
(* which may still arrive.                                                 *)
NoAnswer(c) ==
  /\ tab[c].tasks # <<>> /\ Waits(c) /\ Fault
  /\ calls' = [calls EXCEPT ![c] = {[m EXCEPT !.late = TRUE] : m \in @}]
  /\ replies' = [replies EXCEPT ![c] = NoTask]
  /\ tab' = [tab EXCEPT ![c] = FailedTask(c, @, "lost")]
  /\ UNCHANGED <<server, lease, frame, active, lapsed, sent, asked>>

-----------------------------------------------------------------------------
(* The frame: the entry, the page's own request, and what the page does.   *)
FrameAt(c, at) == frame' = [frame EXCEPT ![c].at = at]
Enter(c) ==
  LET f == frame[c] IN
  /\ f.at = "entry"
  /\ IF MayEnter(server, f.id, f.epoch, lease)
     THEN server' = Entered(server, f.id, f.epoch) /\ FrameAt(c, "follow")
     ELSE UNCHANGED server /\ FrameAt(c, "refused")
  /\ UNCHANGED <<lease, tab, calls, replies, active, lapsed, sent, asked, faults>>

(* What is sent counts, and whether its tab had moved on.  The response    *)
(* may be lost, and the browser repeat the request.                        *)
Counted(c) ==
  [n \in Navs |-> IF n \in Sends(server, frame[c].id, frame[c].epoch)
                  THEN [times |-> sent[n].times + 1,
                        stale |-> sent[n].stale \/ frame[c].epoch # server.navs[n].epoch + 1]
                  ELSE sent[n]]
Follow(c, repeats) ==
  LET f == frame[c] IN
  /\ f.at = "follow" /\ (IF repeats THEN Fault ELSE UNCHANGED faults)
  /\ server' = Followed(server, f.id, f.epoch) /\ sent' = Counted(c)
  /\ frame' = [frame EXCEPT ![c].at =
       IF repeats THEN "follow"
       ELSE IF IsCurrent(server, f.id, f.epoch) /\ MayFollow(server, f.id, f.epoch) THEN "page" ELSE "refused"]
  /\ UNCHANGED <<lease, tab, calls, replies, active, lapsed, asked>>
SendingEnds(n) ==
  /\ server.navs[n].state = "sending"
  /\ server' = [server EXCEPT !.navs[n].state = "gone"]
  /\ UNCHANGED <<lease, tab, calls, replies, frame, active, lapsed, sent, asked, faults>>

(* The page reports itself: the controller knows that it has loaded.       *)
Shown(c) == tab[c].shown = <<tab[c].gen, frame[c].epoch>> /\ frame[c].id = Id(c) /\ ~tab[c].expired
Reports(c) ==
  /\ frame[c].at = "page" /\ tab[c].loading /\ Shown(c)
  /\ tab' = [tab EXCEPT ![c].loading = FALSE]
  /\ UNCHANGED <<server, lease, calls, replies, frame, active, lapsed, sent, asked, faults>>

(* A form goes to another site: the request is read to its end, captured   *)
(* for the page it came from, and answered with a page that tells the      *)
(* toolbar.  A redirect to another site is captured at once and told by a  *)
(* page of the tab's own origin.                                           *)
Unused == {n \in Navs : server.navs[n].state = "none"}
Leaves(c) == tab' = [tab EXCEPT ![c].loading = IF Shown(c) THEN TRUE ELSE @]
Submit(c) ==
  LET f == frame[c] IN
  /\ f.at = "page" /\ Unused # {} /\ Leaves(c)
  /\ FrameAt(c, IF IsCurrent(server, f.id, f.epoch) /\ server.tabs[f.id].lease = lease THEN "upload" ELSE "refused")
  /\ UNCHANGED <<server, lease, calls, replies, active, lapsed, sent, asked, faults>>
Capture(c, n, told) ==
  LET f == frame[c] IN
  /\ n \in Unused
  /\ IF MayCapture(server, f.id)
     THEN /\ server' = Captured(server, n, f.id, f.epoch)
          /\ frame' = [frame EXCEPT ![c].at = told, ![c].nav = n]
     ELSE UNCHANGED server /\ FrameAt(c, "refused")
  /\ UNCHANGED <<lease, calls, replies, active, lapsed, sent, asked, faults>>
UploadRead(c) ==
  /\ frame[c].at = "upload" /\ UNCHANGED tab
  /\ \E n \in Unused : Capture(c, n, "challenge")
Redirected(c) ==
  /\ frame[c].at = "page" /\ tab[c].loading /\ UNCHANGED tab
  /\ IsCurrent(server, frame[c].id, frame[c].epoch)
  /\ \E n \in Unused : Capture(c, n, "told")
NavigationPage(c) ==
  /\ frame[c].at = "told"
  /\ FrameAt(c, IF Shows(server, frame[c].nav) THEN "challenge" ELSE "refused")
  /\ UNCHANGED <<server, lease, tab, calls, replies, active, lapsed, sent, asked, faults>>

(* message(): the controller hears the challenge of its tab's page.        *)
Approving(c) == \E i \in DOMAIN tab[c].tasks : tab[c].tasks[i].kind = "approve"
Challenge(c) ==
  /\ frame[c].at = "challenge" /\ FrameAt(c, "waiting")
  /\ tab' = IF Shown(c) /\ ~tab[c].closed /\ ~Approving(c)
            THEN [tab EXCEPT ![c] = Queued(@, Task("approve", @.seq, frame[c].epoch, frame[c].nav, FALSE))]
            ELSE tab
  /\ UNCHANGED <<server, lease, calls, replies, active, lapsed, sent, asked, faults>>

(* A page that loads for 45 s says so, with a button to try again.         *)
SlowLoad(c) ==
  /\ active = c /\ tab[c].loading /\ ~tab[c].error /\ frame[c].at # "page"
  /\ tab' = [tab EXCEPT ![c].error = TRUE]
  /\ UNCHANGED <<server, lease, calls, replies, frame, active, lapsed, sent, asked, faults>>

-----------------------------------------------------------------------------
(* The heartbeat asks for the tabs that have a page; the answer counts for *)
(* a tab that still has the same id.                                       *)
Heartbeat ==
  /\ lapsed' = Unkept(server, {Id(c) : c \in {d \in Clients : tab[d].server # 0 /\ ~tab[d].closed}}, lease)
  /\ lapsed' # lapsed
  /\ UNCHANGED <<server, lease, tab, calls, replies, frame, active, sent, asked, faults>>
HeartbeatAnswered ==
  /\ lapsed # {} /\ lapsed' = {}
  /\ tab' = [c \in Clients |-> IF Id(c) \in lapsed /\ ~tab[c].closed THEN Reopened(c, tab[c]) ELSE tab[c]]
  /\ UNCHANGED <<server, lease, calls, replies, frame, active, sent, asked, faults>>

(* What happens to the runtime: a restart, a day's quiet, deadlines of     *)
(* navigations and entries, another sign-in, with or without signing out.  *)
(* A call that was given up on does not outlive the first, second or last. *)
OnlyAwaited == calls' = [c \in Clients |-> {m \in calls[c] : ~m.late}]
Restart ==
  /\ server' = [Blank(Navs) EXCEPT !.navs =
       [n \in Navs |-> IF server.navs[n].state = "none" THEN NoNav ELSE [server.navs[n] EXCEPT !.state = "gone"]]]
  /\ OnlyAwaited /\ UNCHANGED lease
Lapses ==
  /\ \E id \in DOMAIN server.lanes : server' = Forgotten(server, {id})
  /\ OnlyAwaited /\ UNCHANGED lease
Deadline ==
  /\ \/ \E n \in Navs : /\ server.navs[n].state \in {"captured", "approved"}
                        /\ server' = [server EXCEPT !.navs[n] = Cancelled(@)]
     \/ \E t \in server.tickets : server' = [server EXCEPT !.tickets = @ \ {t}]
     \/ \E t \in server.admitted : server' = [server EXCEPT !.admitted = @ \ {t}]
  /\ UNCHANGED <<calls, lease>>
NewSignIn ==
  /\ lease' = lease + 1
  /\ server' \in {server, Forgotten(server, OwnedBy(server, lease))}
  /\ OnlyAwaited
Surroundings ==
  /\ Fault /\ (Restart \/ Lapses \/ Deadline \/ NewSignIn)
  /\ UNCHANGED <<tab, replies, frame, active, lapsed, sent, asked>>

TabsNext ==
  \/ \E c \in Clients :
       \/ AskFor(c) \/ Retry(c) \/ Activate(c) \/ Close(c) \/ Begin(c) \/ Answered(c) \/ NoAnswer(c)
       \/ \E m \in calls[c] : Deliver(c, m)
       \/ Enter(c) \/ Reports(c) \/ Submit(c) \/ UploadRead(c) \/ Redirected(c)
       \/ NavigationPage(c) \/ Challenge(c) \/ SlowLoad(c)
       \/ \E repeats \in BOOLEAN : Follow(c, repeats)
  \/ \E n \in Navs : SendingEnds(n)
  \/ Heartbeat \/ HeartbeatAnswered \/ Surroundings

(* The toolbar's tasks run, commands arrive or fail, the frame loads, and  *)
(* the heartbeat is every 30 s.                                            *)
TabsFairness ==
  /\ \A c \in Clients :
       /\ WF_tabVars(Begin(c)) /\ WF_tabVars(Answered(c))
       /\ WF_tabVars(\E m \in calls[c] : ~m.late /\ Deliver(c, m))
       /\ WF_tabVars(Enter(c)) /\ WF_tabVars(Follow(c, FALSE)) /\ WF_tabVars(SlowLoad(c))
       /\ WF_tabVars(Reports(c)) /\ WF_tabVars(UploadRead(c))
       /\ WF_tabVars(NavigationPage(c)) /\ WF_tabVars(Challenge(c))
  /\ WF_tabVars(Heartbeat) /\ WF_tabVars(HeartbeatAnswered)
TabsSpec == TabsInit /\ [][TabsNext]_tabVars /\ TabsFairness

-----------------------------------------------------------------------------
(* Every page the runtime keeps open has a lane that can close it: neither *)
(* eviction, expiry, sign-out nor a late command leaves one behind.        *)
PagesHaveLanes ==
  \A id \in DOMAIN server.tabs : id \in OpenLanes(server) /\ server.lanes[id].owner = server.tabs[id].lease

(* A form is sent at most once, and only as the page next to the one it    *)
(* was submitted on: not again when answers are lost, commands repeated    *)
(* or the page's request retried, and not after the user has gone on.      *)
SentOnce == \A n \in DOMAIN sent : sent[n].times <= 1 /\ ~sent[n].stale

(* A tab is never left with a dead page: the page is served, or the tab    *)
(* says that something failed, or loads when it is next shown.             *)
Served(c) == frame[c].at = "page" /\ frame[c].id = Id(c) /\ IsCurrent(server, frame[c].id, frame[c].epoch)
Alive(c) ==
  \/ Served(c) \/ tab[c].error \/ tab[c].lazy \/ tab[c].closed
  \/ tab[c].shown = <<>> \/ (active # c /\ tab[c].loading)
NeverDead == \A c \in Clients : []<>Alive(c)
=============================================================================
