---------------------------- MODULE BrowserGateway ----------------------------
(***************************************************************************)
(* What the Browser Lite runtime of one user remembers, as a value S, and  *)
(* what each request makes of it (proxy/control-ledger.cjs, gateway.cjs    *)
(* and navigation.cjs).  Node handles a request without interleaving, up   *)
(* to its next await, so each operator here is one atomic step:            *)
(*   lanes    the command lane of each UI tab: last operation and outcome  *)
(*   tabs     the page each tab is at (its epoch) and its sign-in          *)
(*   navs     captured navigations, which may carry a form                 *)
(*   tickets  one-use entries to an opened page                            *)
(*   admitted entries already shown, waiting for the page's own request    *)
(* A UI tab's client ID and tab ID change together: an id is one of each.  *)
(***************************************************************************)
EXTENDS Naturals, FiniteSets

CONSTANTS
  MaxLanes,    \* open lanes, and tabs (128)
  MaxPerTab    \* captured navigations of one tab (8)

ASSUME LimitsArePositive == {MaxLanes, MaxPerTab} \subseteq Nat \ {0}

(* A map with one entry set.                                               *)
Assigned(map, id, value) == [x \in DOMAIN map \cup {id} |-> IF x = id THEN value ELSE map[x]]

NoNav == [state |-> "none", tab |-> <<>>, epoch |-> 0]
Blank(navigations) ==
  [lanes |-> <<>>, tabs |-> <<>>, navs |-> [n \in navigations |-> NoNav],
   tickets |-> {}, admitted |-> {}]

Cancelled(nav) == IF nav.state \in {"captured", "approved"} THEN [nav EXCEPT !.state = "gone"] ELSE nav

(* closeTab(): what belongs to the tabs goes, but a form being sent goes on *)
Closed(S, ids) ==
  LET gone == ids \cap DOMAIN S.tabs IN
  [S EXCEPT !.tabs = [id \in DOMAIN @ \ gone |-> @[id]],
            !.navs = [n \in DOMAIN @ |-> IF @[n].tab \in gone THEN Cancelled(@[n]) ELSE @[n]],
            !.tickets = {t \in @ : t.tab \notin gone},
            !.admitted = {t \in @ : t.tab \notin gone}]

(* Lanes are forgotten: quiet for a day, least recently used of too many,  *)
(* or of a sign-in that ended.  (mutant: their pages stay)                 *)
WithoutLanes(S, ids) == [S EXCEPT !.lanes = [id \in DOMAIN @ \ ids |-> @[id]]]
ForgottenButOpen(S, ids) == WithoutLanes(S, ids)
Forgotten(S, ids) == WithoutLanes(Closed(S, ids), ids)
OwnedBy(S, lease) == {id \in DOMAIN S.lanes : S.lanes[id].owner = lease}

-----------------------------------------------------------------------------
(* open(): a tab moves to a new epoch.  Older entries and captured forms   *)
(* of the tab are void, but for the one this navigation carries.           *)
OpenRefused(S, id, epoch, lease) ==
  IF id \in DOMAIN S.tabs
  THEN IF epoch <= S.tabs[id].epoch THEN "reset"
       ELSE IF S.tabs[id].lease # lease THEN "rejected" ELSE "no"
  ELSE IF Cardinality(DOMAIN S.tabs) >= MaxLanes THEN "reset" ELSE "no"
Opened(S, id, epoch, lease, carried) ==
  [S EXCEPT !.tabs = Assigned(@, id, [epoch |-> epoch, lease |-> lease]),
            !.navs = [n \in DOMAIN @ |-> IF @[n].tab = id /\ @[n].epoch # epoch /\ n # carried
                                         THEN Cancelled(@[n]) ELSE @[n]],
            !.tickets = {t \in @ : t.tab # id} \cup {[tab |-> id, epoch |-> epoch, carries |-> carried]},
            !.admitted = {t \in @ : t.tab # id}]

Outcome(S, code, epoch) == [S |-> S, answer |-> [code |-> code, epoch |-> epoch]]
Open(S, id, epoch, lease, carried) ==
  LET refused == OpenRefused(S, id, epoch, lease) IN
  IF refused # "no" THEN Outcome(S, refused, 0)
  ELSE Outcome(Opened(S, id, epoch, lease, carried), "opened", epoch)

(* approveNavigation(): the captured request becomes the tab's next page.  *)
Approve(S, id, epoch, nav, lease) ==
  IF id \notin DOMAIN S.tabs THEN Outcome(S, "rejected", 0)
  ELSE IF S.tabs[id].epoch # epoch \/ S.navs[nav] # [state |-> "captured", tab |-> id, epoch |-> epoch]
       THEN Outcome(S, "rejected", 0)
       ELSE Open([S EXCEPT !.navs[nav].state = "approved"], id, epoch + 1, lease, nav)
CloseTab(S, id, epoch) ==
  IF id \notin DOMAIN S.tabs THEN Outcome(S, "reset", 0)
  ELSE IF S.tabs[id].epoch # epoch THEN Outcome(S, "reset", 0) ELSE Outcome(Closed(S, {id}), "closed", 0)

Perform(S, m, lease) ==
  IF m.id \in DOMAIN S.tabs /\ S.tabs[m.id].lease # lease THEN Outcome(S, "rejected", 0)
  ELSE CASE m.command = "open" -> Open(S, m.id, m.epoch, lease, 0)
         [] m.command = "approve" -> Approve(S, m.id, m.epoch, m.nav, lease)
         [] m.command = "close" -> CloseTab(S, m.id, m.epoch)
         [] OTHER -> Outcome(S, "rejected", 0)

-----------------------------------------------------------------------------
(* ControlLedger.run(): an operation is performed once; the same one again *)
(* gets the same outcome, also when that was a refusal.                    *)
OpenLanes(S) == {id \in DOMAIN S.lanes : ~S.lanes[id].closed}
NewLane(lease) == [op |-> 0, owner |-> lease, closed |-> FALSE, answer |-> [code |-> "none", epoch |-> 0]]
HasRoom(S) == Cardinality(OpenLanes(S)) < MaxLanes
Known(S, m, lease, victim) ==
  IF m.id \in DOMAIN S.lanes THEN S
  ELSE LET room == IF HasRoom(S) THEN S ELSE Forgotten(S, {victim}) IN
       [room EXCEPT !.lanes = Assigned(@, m.id, NewLane(lease))]
InLane(S, m, lease) ==
  LET lane == S.lanes[m.id]
      done == Perform(S, m, lease) IN
  CASE lane.owner # lease -> Outcome(S, "rejected", 0)
    [] lane.owner = lease /\ m.op = lane.op -> [S |-> S, answer |-> lane.answer]
    [] lane.owner = lease /\ m.op = lane.op + 1 ->
         [done EXCEPT !.S.lanes[m.id] = [lane EXCEPT !.op = m.op, !.answer = done.answer,
                                              !.closed = IF done.answer.code = "opened" THEN FALSE
                                                         ELSE @ \/ done.answer.code = "closed"]]
    [] OTHER -> Outcome(S, "rejected", 0)
Run(S, m, lease, victim) ==
  IF m.id \notin DOMAIN S.lanes /\ m.op # 1 THEN Outcome(S, "reset", 0)
  ELSE InLane(Known(S, m, lease, victim), m, lease)

(* The tabs of a heartbeat that the runtime does not keep.                 *)
Unkept(S, ids, lease) == {id \in ids : id \notin OwnedBy(S, lease)}

-----------------------------------------------------------------------------
(* gate(): an entry is shown once, and only for the tab's present page.    *)
IsCurrent(S, id, epoch) == id \in DOMAIN S.tabs /\ S.tabs[id].epoch = epoch
EntryOf(entries, id, epoch) == {t \in entries : t.tab = id /\ t.epoch = epoch}
MayEnter(S, id, epoch, lease) ==
  /\ EntryOf(S.tickets, id, epoch) # {} /\ IsCurrent(S, id, epoch)
  /\ S.tabs[id].lease = lease
Entered(S, id, epoch) ==
  [S EXCEPT !.tickets = @ \ EntryOf(@, id, epoch),
            !.admitted = @ \cup EntryOf(S.tickets, id, epoch)]

(* The page's own request uses the admission, and sends the form it        *)
(* carries (dispatch()); a repeated one finds neither and is a plain GET   *)
(* of the tab's own page, or refused.                                      *)
Admission(S, id, epoch) == IF IsCurrent(S, id, epoch) THEN EntryOf(S.admitted, id, epoch) ELSE {}
Carries(S, id, epoch) == {n \in DOMAIN S.navs : \E t \in Admission(S, id, epoch) : t.carries = n}
MayFollow(S, id, epoch) ==
  \A n \in Carries(S, id, epoch) : S.navs[n].state = "approved"
FollowedByReading(S, id, epoch) == S                  \* (mutant: neither is used up)
Followed(S, id, epoch) ==
  [S EXCEPT !.admitted = @ \ Admission(S, id, epoch),
            !.navs = [n \in DOMAIN @ |-> IF n \in Carries(S, id, epoch) /\ @[n].state = "approved"
                                         THEN [@[n] EXCEPT !.state = "sending"] ELSE @[n]]]
Sends(S, id, epoch) == {n \in Carries(S, id, epoch) : S.navs[n].state = "approved"}

(* capture(): bounded per tab, and not checked against the tab's present   *)
(* page: the body may have taken its time.                                 *)
Pending(S, id) == {n \in DOMAIN S.navs : S.navs[n].tab = id /\ S.navs[n].state \in {"captured", "approved", "sending"}}
MayCapture(S, id) == Cardinality(Pending(S, id)) < MaxPerTab
Captured(S, n, id, epoch) == [S EXCEPT !.navs[n] = [state |-> "captured", tab |-> id, epoch |-> epoch]]
Shows(S, n) == S.navs[n].state = "captured" /\ IsCurrent(S, S.navs[n].tab, S.navs[n].epoch)
=============================================================================
