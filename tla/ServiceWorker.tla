--------------------------- MODULE ServiceWorker ---------------------------
(***************************************************************************)
(* The service worker of the desktop (src/shell/sw.js): the installed and  *)
(* the active version of it, its caches, one page navigation at a time and *)
(* every request it has on the network, the ones a navigation no longer    *)
(* waits for included.  A page's content is the number of the deploy it    *)
(* comes from; a worker's VERSION is the deploy it was shipped with.       *)
(* Around it: the sign-in proxy that answers with a redirect once the      *)
(* session has expired, and the pages that lead back through               *)
(* /reauth.html.  The trace ring, the page texts and the sub-resources     *)
(* (answered from the cache, refreshed behind it) are left out.            *)
(***************************************************************************)
EXTENDS Integers, FiniteSets

CONSTANTS MaxSite,   \* deploys of the site
          MaxLoads,  \* page loads the user starts
          MaxExpiry  \* sessions that expire

(* "/", another page of the shell, a page that is not cached, the sign-in  *)
(* hop, and the desktop with ?vtreauth.                                    *)
Shell == {"desk", "notes"}
Paths == Shell \cup {"other", "reauth", "vtreauth"}
Bypassed == {"reauth"}

VARIABLES
  site,      \* the deploy the server has
  signedIn,
  active,    \* the version of the worker that answers, 0 while none does
  coming,    \* the version being installed, 0 for none
  stored,    \* stored[v][p]: the content of p in the cache of version v, 0 for none
  net,       \* the requests on the network
  nav,       \* the navigation
  loads, expired

vars == <<site, signedIn, active, coming, stored, net, nav, loads, expired>>

(* A request: the worker that made it (0 the browser itself), its path,    *)
(* what waits for it, and the server's answer once it is under way.        *)
Request(v, p, f) == [by |-> v, path |-> p, for |-> f, ans |-> "none", content |-> 0]

(* A navigation: "race" is the worker's wait of 2.5 s, "late" the further  *)
(* 9.5 s, "open" a wait without a timer.                                   *)
Nav(p, v, ph) == [path |-> p, by |-> v, phase |-> ph, shown |-> "none", content |-> 0]

(* 'shell-' + VERSION.                                                     *)
CacheOf(v) == v

Empty == [p \in Shell |-> 0]

Init ==
  /\ site = 1 /\ signedIn = TRUE
  /\ active = 0 /\ coming = 0
  /\ stored = [v \in 1..MaxSite |-> Empty]
  /\ net = {}
  /\ nav = [Nav("desk", 0, "done") EXCEPT !.shown = "page", !.content = 1]
  /\ loads = 0 /\ expired = 0

---------------------------------------------------------------------------
(* The site and the session.                                               *)

Deploy ==
  /\ site < MaxSite
  /\ site' = site + 1
  /\ UNCHANGED <<signedIn, active, coming, stored, net, nav, loads, expired>>

Expire ==
  /\ signedIn /\ expired < MaxExpiry
  /\ signedIn' = FALSE /\ expired' = expired + 1
  /\ UNCHANGED <<site, active, coming, stored, net, nav, loads>>

(* The server's answer to a request, decided when it gets there.  A page   *)
(* the session may not see is answered with a redirect.                    *)
Answered(r) ==
  \E r2 \in {[r EXCEPT !.ans = IF signedIn THEN "page" ELSE "redirect", !.content = site],
             [r EXCEPT !.ans = "error"]} :
    net' = (net \ {r}) \cup {r2}

Serve ==
  /\ \E r \in net : r.ans = "none" /\ Answered(r)
  /\ UNCHANGED <<site, signedIn, active, coming, stored, nav, loads, expired>>

---------------------------------------------------------------------------
(* install and activate.                                                   *)

Install ==
  /\ coming = 0 /\ active < site
  /\ coming' = site
  /\ UNCHANGED <<site, signedIn, active, stored, net, nav, loads, expired>>

(* One page of the list is fetched past the browser's cache, and kept      *)
(* unless it was an error or a redirect.                                   *)
Precache ==
  /\ coming > 0 /\ signedIn
  /\ \E p \in Shell : stored' = [stored EXCEPT ![CacheOf(coming)][p] = site]
  /\ UNCHANGED <<site, signedIn, active, coming, net, nav, loads, expired>>

(* What an answer may leave in a cache: a clean page, no redirect.         *)
Cached(r) == IF r.ans = "page" /\ r.path \in Shell
             THEN [stored EXCEPT ![CacheOf(r.by)][r.path] = r.content]
             ELSE stored

Running(v) == nav.by = v /\ nav.phase \in {"race", "late", "open"}

(* The precache is done or its 8 s have passed; skipWaiting.  The active   *)
(* worker is replaced once it has no navigation left to answer, and every  *)
(* other cache goes.                                                       *)
Dropped(v) == [w \in DOMAIN stored |-> IF CacheOf(w) = CacheOf(v) THEN stored[w] ELSE Empty]

Activate ==
  /\ coming > 0
  /\ active = 0 \/ ~Running(active)
  /\ active' = coming /\ coming' = 0
  /\ stored' = Dropped(coming)
  /\ net' = {r \in net : r.by \in {0, coming}}
  /\ UNCHANGED <<site, signedIn, nav, loads, expired>>

---------------------------------------------------------------------------
(* fetch: a navigation.                                                    *)

(* A navigation that ends, or gives way to another one, leaves its request *)
(* behind.  It matters to the cache alone.                                 *)
Left(ns) == {[r EXCEPT !.for = "left"] : r \in {q \in ns : q.by > 0 /\ q.path \in Shell}}

Begin(p) ==
  LET v == IF p \in Bypassed THEN 0 ELSE active IN
  /\ nav' = Nav(p, v, IF v = 0 \/ p = "vtreauth" THEN "open" ELSE "race")
  /\ net' = Left(net) \cup {Request(v, p, "nav")}

Load ==
  /\ loads < MaxLoads
  /\ loads' = loads + 1
  /\ \E p \in {"desk", "notes", "other"} : Begin(p)
  /\ UNCHANGED <<site, signedIn, active, coming, stored, expired>>

Showing(what, c) == nav' = [nav EXCEPT !.phase = "done", !.shown = what, !.content = c]

(* What a page load shows for an answer of the network.  The browser       *)
(* follows a redirect of its own navigations and of ?vtreauth; the worker  *)
(* hands any other one over to /reauth.html.                               *)
Outcome(r) ==
  IF r.ans = "page" THEN Showing("page", r.content)
  ELSE IF r.ans = "redirect"
       THEN Showing(IF nav.phase = "open" THEN "login" ELSE "handoff", 0)
  ELSE Showing("unreachable", 0)

(* The cached copy of a page of the shell, or else of the desktop; 0 for   *)
(* none.                                                                   *)
Hit == LET kept == stored[CacheOf(nav.by)] IN
       IF nav.path \notin Shell THEN 0
       ELSE IF kept[nav.path] > 0 THEN kept[nav.path] ELSE kept["desk"]

(* The network answers the navigation.  An error in the first 2.5 s sends  *)
(* a page of the shell to its cached copy.                                 *)
Arrive ==
  \E r \in net :
    /\ r.for = "nav" /\ r.ans # "none" /\ nav.phase # "done"
    /\ net' = net \ {r}
    /\ stored' = IF nav.by > 0 /\ nav.phase # "open" THEN Cached(r) ELSE stored
    /\ IF nav.phase = "race" /\ r.ans = "error" /\ Hit > 0
       THEN Showing("cached", Hit)
       ELSE Outcome(r)
    /\ UNCHANGED <<site, signedIn, active, coming, loads, expired>>

(* The 2.5 s pass first: the cached copy is shown, and the request goes on *)
(* in the background; without one the wait goes on.                        *)
Stalled ==
  /\ nav.phase = "race"
  /\ IF Hit > 0
     THEN /\ Showing("cached", Hit)
          /\ net' = Left(net)
     ELSE nav' = [nav EXCEPT !.phase = "late"] /\ UNCHANGED net
  /\ UNCHANGED <<site, signedIn, active, coming, stored, loads, expired>>

(* The 9.5 s pass as well: the unreachable page.  The mutant counts on the *)
(* network for the pages that are never cached.                            *)
GivenUpForShell ==
  /\ nav.phase = "late" /\ nav.path \in Shell
  /\ Showing("unreachable", 0)
  /\ net' = Left(net)
  /\ UNCHANGED <<site, signedIn, active, coming, stored, loads, expired>>

GivenUp ==
  /\ nav.phase = "late"
  /\ Showing("unreachable", 0)
  /\ net' = Left(net)
  /\ UNCHANGED <<site, signedIn, active, coming, stored, loads, expired>>

(* A request nobody waits for any more: its answer still updates the       *)
(* cache, if the browser lets the worker live that long.                   *)
LateRefresh ==
  \E r \in net :
    /\ r.for = "left" /\ r.ans # "none"
    /\ net' = net \ {r}
    /\ stored' \in {stored} \cup (IF r.by > 0 /\ r.path # "vtreauth" THEN {Cached(r)} ELSE {})
    /\ UNCHANGED <<site, signedIn, active, coming, nav, loads, expired>>

---------------------------------------------------------------------------
(* The pages that lead back to the sign-in.                                *)

(* The hand-off page goes to /reauth.html, that page to /?vtreauth.        *)
Hop ==
  /\ nav.phase = "done"
  /\ \/ nav.shown = "handoff" /\ Begin("reauth")
     \/ nav.shown = "page" /\ nav.path = "reauth" /\ Begin("vtreauth")
  /\ UNCHANGED <<site, signedIn, active, coming, stored, loads, expired>>

(* "Try again" of the unreachable page, and "Sign in again" of the prompt  *)
(* the desktop shows over a copy it got from the cache, or over a page     *)
(* whose session has expired since.                                        *)
TryAgain ==
  /\ nav.phase = "done" /\ ~signedIn
  /\ nav.shown \in {"unreachable", "cached", "page"}
  /\ Begin("reauth")
  /\ UNCHANGED <<site, signedIn, active, coming, stored, loads, expired>>

SignIn ==
  /\ nav.shown = "login"
  /\ signedIn' = TRUE
  /\ Begin("reauth")
  /\ UNCHANGED <<site, active, coming, stored, loads, expired>>

---------------------------------------------------------------------------
Next ==
  \/ Deploy \/ Expire \/ Serve
  \/ Install \/ Precache \/ Activate
  \/ Load \/ Arrive \/ Stalled \/ GivenUp \/ LateRefresh
  \/ Hop \/ TryAgain \/ SignIn

(* The worker's timers fire, and its scripts run once an answer is there.  *)
(* Nothing makes the network answer.                                       *)
Spec == Init /\ [][Next]_vars /\ WF_vars(Stalled) /\ WF_vars(GivenUp) /\ WF_vars(Arrive)
        /\ WF_vars(Hop)

---------------------------------------------------------------------------
(* A navigation the worker answers always comes to an end, whatever the    *)
(* network does and whatever the caches hold (sw.js:26, "a navigation the  *)
(* worker cannot answer was a white screen"; not for ?vtreauth, which      *)
(* waits as long as the browser does).                                     *)
LoadsAnswered ==
  (nav.phase = "race") ~> (nav.phase = "done" \/ nav.phase = "open")

(* A worker never shows a page older than the deploy it came with: what    *)
(* the caches of the versions before it hold, and the answers that still   *)
(* come in for them, are not seen again (sw.js:16).                        *)
ServesItsOwn ==
  nav.phase = "done" /\ nav.by > 0 /\ nav.shown \in {"page", "cached"} => nav.content >= nav.by
=============================================================================
