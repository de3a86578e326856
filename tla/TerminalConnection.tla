-------------------------- MODULE TerminalConnection --------------------------
(***************************************************************************)
(* How one terminal page keeps its connection (apps/everyday/terminal/     *)
(* terminal-connection.js).  The script wraps the page's WebSocket, so     *)
(* that it sees every socket before ttyd's own client does, and watches it *)
(* with a timer: it reconnects in place, reloads the page, or gives up and *)
(* shows a button.  ttyd's client reconnects by itself as well, and the    *)
(* two share one token fetch, one socket and one set of listeners.         *)
(*                                                                         *)
(* Only the newest socket matters: a superseded one is deaf.  Times are    *)
(* abstracted to whether a delay has passed.                               *)
(***************************************************************************)
EXTENDS Naturals

CONSTANTS
  MaxRetries,   \* automatic attempts without output (3)
  MaxTrouble    \* bound: drops, losses of the network, hidings of the page

ASSUME LimitsAreNatural == {MaxRetries, MaxTrouble} \subseteq Nat

VARIABLES
  sock,       \* readyState of the newest socket, or none
  due,        \* how it closed, if its close event is still to come
  page,       \* the script's variables
  ttyd,       \* ttyd's client: listeners on the socket, handlers, Enter listeners
  fetches,    \* token fetches under way, by who connects when they end
  stored,     \* the retry count in sessionStorage
  storage,    \* sessionStorage can be written
  shown,      \* the page is in the foreground
  online,     \* navigator.onLine
  frozen,     \* the page is in the back/forward cache
  attempts,   \* history: automatic attempts since output or a manual retry
  trouble

vars == <<sock, due, page, ttyd, fetches, stored, storage, shown, online, frozen, attempts, trouble>>
world == <<storage, shown, online, frozen, trouble>>

FreshPage(retries) ==
  [phase |-> "startup", ready |-> FALSE, stopped |-> FALSE, exhausted |-> FALSE,
   failed |-> FALSE, retries |-> retries]
FreshTtyd == [hears |-> FALSE, spoke |-> FALSE, keys |-> 0, again |-> FALSE, enter |-> 0]
FreshFetches == [ttyd |-> 1, here |-> 0]

Init ==
  /\ sock = "none" /\ due = "no"
  /\ page = FreshPage(0) /\ ttyd = FreshTtyd /\ fetches = FreshFetches
  /\ stored = 0 /\ storage \in BOOLEAN
  /\ shown = TRUE /\ online = TRUE /\ frozen = FALSE
  /\ attempts = 0 /\ trouble = 0

Disposed(t) == [t EXCEPT !.hears = FALSE, !.keys = 0]      \* ttyd's dispose()

-----------------------------------------------------------------------------
(* What the watchdog decides about page p.  `long`: 45 s have passed;      *)
(* `paused`: the pause before a further retry has passed.                  *)
DecisionOnCloseOnly(p, long, paused) ==   \* (mutant: a stalled start is not watched)
  IF ~shown \/ p.stopped \/ p.exhausted \/ p.ready \/ ~online \/ p.phase # "closed" THEN "nothing"
  ELSE IF p.retries >= MaxRetries THEN "give up"
  ELSE IF p.retries > 0 /\ ~paused THEN "nothing"
  ELSE IF storage THEN "reconnect" ELSE "stop"
Decision(p, long, paused) ==
  IF ~shown \/ p.stopped \/ p.exhausted \/ p.ready \/ ~online THEN "nothing"
  ELSE IF p.phase # "closed" /\ ~long THEN "nothing"
  ELSE IF p.retries >= MaxRetries THEN "give up"
  ELSE IF p.phase = "closed" /\ p.retries > 0 /\ ~paused THEN "nothing"
  ELSE IF ~storage THEN "stop"
  ELSE IF p.phase = "closed" THEN "reconnect" ELSE "reload"

Counts(p, decision) == IF decision \in {"reconnect", "reload"} THEN p.retries + 1 ELSE p.retries

WatchedPage(p, decision) ==
  CASE decision = "give up" -> [p EXCEPT !.exhausted = TRUE]
    [] decision = "stop" -> [p EXCEPT !.stopped = TRUE, !.failed = TRUE]
    [] decision = "reconnect" -> [p EXCEPT !.phase = "reconnecting", !.retries = Counts(p, decision)]
    [] OTHER -> p

(* The rest of what a decision does; t is ttyd after it.  ttyd is disposed *)
(* before its own close listener can run, so that only one retry owns it.  *)
WatchedTtyd(t, p, decision) ==
  IF decision \in {"give up", "reconnect"} \/ (decision = "stop" /\ p.phase = "closed")
  THEN Disposed(t) ELSE t
Watches(p, decision) ==
  /\ stored' = IF decision \in {"reconnect", "reload"} THEN Counts(p, decision) ELSE stored
  /\ attempts' = IF decision \in {"reconnect", "reload"} THEN attempts + 1 ELSE attempts
  /\ fetches' = IF decision = "reload" THEN FreshFetches
                ELSE [fetches EXCEPT !.here = IF decision = "reconnect" THEN @ + 1 ELSE @]

(* tick(): the timer, and the focus, online and visibilitychange events.   *)
(* WebKit may show a closed socket before its close event.                 *)
JustClosed == sock = "closed" /\ page.phase \notin {"closed", "reconnecting"}
Noticed ==
  IF shown /\ ~page.stopped /\ ~page.exhausted /\ JustClosed
  THEN [page EXCEPT !.ready = FALSE, !.phase = "closed"] ELSE page
Tick(long, paused) ==
  LET decision == Decision(Noticed, long, paused) IN
  /\ ~frozen /\ (JustClosed => ~paused)
  /\ Watches(Noticed, decision)
  /\ IF decision = "reload"
     THEN sock' = "none" /\ due' = "no" /\ page' = FreshPage(stored') /\ ttyd' = FreshTtyd
     ELSE /\ page' = WatchedPage(Noticed, decision)
          /\ ttyd' = WatchedTtyd(ttyd, Noticed, decision)
          /\ UNCHANGED <<sock, due>>
  /\ UNCHANGED world

-----------------------------------------------------------------------------
(* The wrapped WebSocket.  A superseded socket that is still alive is      *)
(* closed, and since its close event is blocked ttyd is disposed for it.   *)
ClosedForGood == sock \in {"closing", "closed"}
Superseded == IF sock = "none" \/ ClosedForGood THEN ttyd ELSE Disposed(ttyd)

Connects ==
  /\ sock' = "connecting" /\ due' = "no"
  /\ page' = [page EXCEPT !.phase = "connecting", !.ready = FALSE]
  /\ ttyd' = [Superseded EXCEPT !.hears = TRUE, !.spoke = FALSE]

(* A token has arrived: ttyd's own start, reconnect or Enter, and the      *)
(* in-place retry, which connects only if nobody else has.                 *)
TokenForTtyd ==
  /\ ~frozen /\ fetches.ttyd > 0
  /\ fetches' = [fetches EXCEPT !.ttyd = @ - 1]
  /\ Connects
  /\ UNCHANGED <<stored, attempts, world>>

StillWanted == ~page.stopped /\ ~page.exhausted /\ page.phase = "reconnecting"
TokenInPlace ==
  /\ ~frozen /\ fetches.here > 0
  /\ fetches' = [fetches EXCEPT !.here = @ - 1]
  /\ IF StillWanted THEN Connects ELSE UNCHANGED <<sock, due, page, ttyd>>
  /\ UNCHANGED <<stored, attempts, world>>

(* The open event: first the script's listener, then ttyd's, which asks    *)
(* for the shell and adds its handlers.                                    *)
Greeted(t) == IF t.hears THEN [t EXCEPT !.keys = @ + 1, !.again = TRUE, !.spoke = TRUE] ELSE t
Opened == Greeted([ttyd EXCEPT !.enter = 0])
SocketOpens ==
  /\ ~frozen /\ sock = "connecting"
  /\ sock' = "open"
  /\ page' = [page EXCEPT !.phase = "awaiting-output"]
  /\ ttyd' = Opened
  /\ UNCHANGED <<due, fetches, stored, attempts, world>>

(* Output of the shell, which starts once ttyd has asked for it.           *)
Output ==
  /\ ~frozen /\ sock = "open" /\ ttyd.spoke
  /\ ~page.ready /\ ~page.stopped
  /\ page' = [page EXCEPT !.ready = TRUE, !.exhausted = FALSE, !.retries = 0]
  /\ stored' = 0 /\ attempts' = 0
  /\ UNCHANGED <<sock, due, ttyd, fetches, world>>

(* The socket ends, with code 1000, after an error, or otherwise; its      *)
(* close event comes later.                                                *)
Trouble == trouble < MaxTrouble /\ trouble' = trouble + 1
Drops ==
  /\ sock \in {"connecting", "open"} /\ Trouble
  /\ sock' \in {"closing", "closed"} /\ due' \in {"done", "error", "other"}
  /\ UNCHANGED <<page, ttyd, fetches, stored, attempts, storage, shown, online, frozen>>

(* ttyd's own close listener, unless it was disposed: it reconnects, or    *)
(* waits for Enter after an error and after code 1000.                     *)
ReconnectsItself(t) == t.hears /\ t.again /\ due = "other"
TtydCloses(t) ==
  IF ~t.hears THEN t
  ELSE [Disposed(t) EXCEPT !.again = @ /\ due # "error",
                           !.enter = IF ReconnectsItself(t) THEN @ ELSE @ + 1]

(* The close event: the script's listener with its tick, then ttyd's.      *)
CloseEvent ==
  LET p == IF page.stopped THEN page ELSE [page EXCEPT !.ready = FALSE, !.phase = "closed"]
      decision == Decision(p, FALSE, FALSE)
      t == WatchedTtyd(ttyd, p, decision) IN
  /\ ~frozen /\ due # "no"
  /\ sock' = "closed" /\ due' = "no"
  /\ page' = WatchedPage(p, decision)
  /\ stored' = IF decision = "reconnect" THEN Counts(p, decision) ELSE stored
  /\ attempts' = IF decision = "reconnect" THEN attempts + 1 ELSE attempts
  /\ fetches' = [here |-> fetches.here + (IF decision = "reconnect" THEN 1 ELSE 0),
                 ttyd |-> fetches.ttyd + (IF ReconnectsItself(t) THEN 1 ELSE 0)]
  /\ ttyd' = TtydCloses(t)
  /\ UNCHANGED world

-----------------------------------------------------------------------------
(* The user: Enter where ttyd waits for it (each listener connects), and   *)
(* the button, which reloads the page with a new budget.                   *)
PressEnter ==
  /\ ~frozen /\ ttyd.enter > 0
  /\ ttyd' = [ttyd EXCEPT !.enter = 0]
  /\ fetches' = [fetches EXCEPT !.ttyd = @ + ttyd.enter]
  /\ UNCHANGED <<sock, due, page, stored, attempts, world>>

ManualRetry ==
  /\ ~frozen /\ (page.exhausted \/ page.failed)
  /\ sock' = "none" /\ due' = "no"
  /\ page' = FreshPage(0) /\ ttyd' = FreshTtyd /\ fetches' = FreshFetches
  /\ stored' = 0 /\ attempts' = 0
  /\ UNCHANGED world

(* The page goes to the background, the network away, the page into the    *)
(* back/forward cache (which is where its timer stops), and back.          *)
Hide == shown /\ ~frozen /\ Trouble /\ shown' = FALSE /\ UNCHANGED <<page, online, frozen>>
Show == ~shown /\ ~frozen /\ shown' = TRUE /\ UNCHANGED <<page, online, frozen, trouble>>
NetworkGone == online /\ Trouble /\ online' = FALSE /\ UNCHANGED <<page, shown, frozen>>
NetworkBack == ~online /\ online' = TRUE /\ UNCHANGED <<page, shown, frozen, trouble>>
PageHide ==
  /\ ~frozen /\ Trouble /\ frozen' = TRUE
  /\ page' = [page EXCEPT !.stopped = TRUE] /\ UNCHANGED <<shown, online>>
PageShow ==
  /\ frozen /\ frozen' = FALSE
  /\ page' = [page EXCEPT !.stopped = FALSE] /\ UNCHANGED <<shown, online, trouble>>
Surroundings ==
  /\ Hide \/ Show \/ NetworkGone \/ NetworkBack \/ PageHide \/ PageShow
  /\ UNCHANGED <<sock, due, ttyd, fetches, stored, storage, attempts>>

Next ==
  \/ \E long, paused \in BOOLEAN : Tick(long, paused)
  \/ TokenForTtyd \/ TokenInPlace \/ SocketOpens \/ Output \/ Drops \/ CloseEvent
  \/ PressEnter \/ ManualRetry \/ Surroundings

Spec == Init /\ [][Next]_vars

(* The timer runs, and what went away comes back.  Nothing is asked of the *)
(* network: a token fetch or a socket may stall for ever.                  *)
FairSpec ==
  /\ Spec
  /\ WF_vars(Tick(TRUE, TRUE) \/ (JustClosed /\ Tick(TRUE, FALSE)))
  /\ WF_vars(Show /\ Surroundings) /\ WF_vars(NetworkBack /\ Surroundings)
  /\ WF_vars(PageShow /\ Surroundings)

-----------------------------------------------------------------------------
TypeOK ==
  /\ sock \in {"none", "connecting", "open", "closing", "closed"}
  /\ due \in {"no", "done", "error", "other"}
  /\ page.retries \in 0..MaxRetries /\ stored \in 0..MaxRetries
  /\ ttyd.keys \in Nat /\ fetches.here \in Nat /\ fetches.ttyd \in Nat

(* The page never tries again by itself for ever: across reloads there are *)
(* at most MaxRetries automatic attempts between two signs of life.        *)
AttemptsBounded == attempts <= MaxRetries

(* A terminal somebody looks at comes up, or says that it failed, though a *)
(* token fetch or a connecting socket may stall without an error.          *)
ComesUp == []<>(~shown \/ page.ready \/ page.exhausted \/ page.failed)
=============================================================================
