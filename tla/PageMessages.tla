--------------------------- MODULE PageMessages ---------------------------
(***************************************************************************)
(* Messages between windows in Browser Lite (proxy/message-gate.js,        *)
(* message-target.js and the bridge that joins them).  A page is served    *)
(* from a host of the proxy, and only the server knows which site a host   *)
(* stands for: a message from a host not yet known is held while the       *)
(* server is asked, and the host to send to is looked up in what the page  *)
(* has learnt, or from where the window stands to the page.  The page is a *)
(* frame of its parent, in a tab of the site TopSite.                      *)
(***************************************************************************)
EXTENDS Naturals, Sequences, FiniteSetsExt

CONSTANTS
  Frames,    \* the page's own frames
  Siblings,  \* its parent's other frames
  Popups,    \* the windows it opened, or was opened by
  Parent,
  Sites, TopSite, MaxMessages, MaxMoves, MaxFailures, None

Wins == Frames \cup Siblings \cup Popups \cup {Parent}

VARIABLES
  owner,   \* the parent's host
  here,    \* the page's host
  host,    \* per window: the host of the document it shows
  returned,\* windows that came back to TopSite by themselves (bookkeeping)
  inbox,   \* messages on their way to the page
  got,     \* the page: what it knows, what it holds and what it delivered
  asks,    \* lookups on their way: the gate's, and those made ahead
  post,    \* the last message the page sent (bookkeeping)
  used     \* messages, moves and faults so far

around == <<owner, here>>
messageVars == <<around, host, returned, inbox, got, asks, post, used>>

Use(k, max) == used[k] < max /\ used' = [used EXCEPT ![k] = @ + 1]

(* A host stands for a site, the site of its tab, and whether another site *)
(* is, or was, among its ancestors: of what it is a child is remembered.   *)
Main(s) == [site |-> s, top |-> s, tainted |-> FALSE]

Child(h, s) == [site |-> s, top |-> h.top, tainted |-> h.tainted \/ h.site # h.top \/ s # h.top]

(* What a window is to the page, and the host that its site has there.     *)
Kind(w) == IF w \in Frames THEN "child" ELSE IF w \in Siblings THEN "sibling" ELSE "top"

Base(w) == IF Kind(w) = "child" THEN here ELSE owner

HostFor(w, s) == IF Kind(w) = "top" THEN Main(s) ELSE Child(Base(w), s)

MessagesInit ==
  /\ owner \in {h \in [site : Sites, top : {TopSite}, tainted : BOOLEAN] : h.site # TopSite => h.tainted}
  /\ here \in {Child(owner, s) : s \in Sites}
  /\ \E shows \in [Wins -> Sites] :
       host = [w \in Wins |-> IF w = Parent THEN owner ELSE HostFor(w, shows[w])]
  /\ returned = {} /\ inbox = <<>> /\ asks = {} /\ post = None
  /\ got = [known |-> {here, owner}, from |-> [w \in Wins |-> None],
            targets |-> {}, held |-> <<>>, pending |-> {}, delivered |-> <<>>, arrived |-> 0]
  /\ used = [messages |-> 0, moves |-> 0, faults |-> 0]

Write(w) ==
  /\ Use("messages", MaxMessages)
  /\ inbox' = Append(inbox, [win |-> w, host |-> host[w]])
  /\ UNCHANGED <<around, host, returned, got, asks, post>>

(* A window is sent to a site by the document around it, or a popup goes   *)
(* there; the parent would take this page with it.                         *)
IsSent(w, s) ==
  /\ w # Parent /\ HostFor(w, s) # host[w] /\ Use("moves", MaxMoves)
  /\ host' = [host EXCEPT ![w] = HostFor(w, s)]
  /\ UNCHANGED <<around, returned, inbox, got, asks, post>>

(* A frame goes to another site by itself: its host is a child of the one  *)
(* it leaves.                                                              *)
GoesItself(w, s) ==
  /\ w # Parent /\ Kind(w) # "top" /\ s # host[w].site /\ Use("moves", MaxMoves)
  /\ host' = [host EXCEPT ![w] = Child(@, s)]
  /\ returned' = IF s = TopSite THEN returned \cup {w} ELSE returned
  /\ UNCHANGED <<around, inbox, got, asks, post>>

---------------------------------------------------------------------------
(* drain: what is held is delivered up to the first message whose host is  *)
(* being asked about.                                                      *)
Drained(g) ==
  LET stops == {i \in DOMAIN g.held : g.held[i].host \in g.pending}
      k == IF stops = {} THEN Len(g.held) ELSE Min(stops) - 1 IN
  [g EXCEPT !.held = SubSeq(@, k + 1, Len(@)),
            !.delivered = @ \o [i \in 1 .. k |-> g.held[i].n]]

(* hold: a message of a known host is delivered at once, unless others     *)
(* wait before it.                                                         *)
PassesKnown(g, h) == h \in g.known

Passes(g, h) == h \in g.known /\ g.held = <<>>

(* A message event: the bridge notes who wrote and asks ahead, the gate    *)
(* holds or delivers.                                                      *)
Arrive ==
  /\ inbox # <<>> /\ inbox' = Tail(inbox)
  /\ LET m == Head(inbox)
         n == got.arrived + 1
         noted == [got EXCEPT !.from[m.win] = m.host, !.arrived = n]
         holding == [noted EXCEPT !.held = Append(@, [host |-> m.host, n |-> n])]
         unknown == m.host \notin got.known IN
     /\ got' = IF Passes(noted, m.host) THEN [noted EXCEPT !.delivered = Append(@, n)]
               ELSE IF unknown THEN [holding EXCEPT !.pending = @ \cup {m.host}]
               ELSE Drained(holding)
     /\ asks' = IF unknown THEN asks \cup {[who |-> "gate", host |-> m.host], [who |-> "ahead", host |-> m.host]}
                ELSE asks
  /\ UNCHANGED <<around, host, returned, post, used>>

(* A lookup is answered, or fails: then what it held is delivered all the  *)
(* same, and the page that reads its origin asks again, waiting.           *)
Answer(q) ==
  /\ q \in asks /\ asks' = asks \ {q}
  /\ LET told == [got EXCEPT !.known = @ \cup {q.host}] IN
     got' = IF q.who = "gate" THEN Drained([told EXCEPT !.pending = @ \ {q.host}]) ELSE told
  /\ UNCHANGED <<around, host, returned, inbox, post, used>>

LookupFails(q) ==
  /\ q \in asks /\ asks' = asks \ {q} /\ Use("faults", MaxFailures)
  /\ \E read \in BOOLEAN :
       LET told == [got EXCEPT !.known = IF read THEN @ \cup {q.host} ELSE @] IN
       got' = IF q.who = "gate" THEN Drained([told EXCEPT !.pending = @ \ {q.host}]) ELSE got
  /\ UNCHANGED <<around, host, returned, inbox, post>>

---------------------------------------------------------------------------
(* postMessage to a window, for a site.  To a window of the page's own     *)
(* host it is sent there; otherwise to the host the page heard from, if it *)
(* stands for that site; to the parent's; or to the one the server gives   *)
(* the window's kind for that site.  Else it goes nowhere.                 *)
Stands(h, s) == h # None /\ h.site = s

Destination(w, s, heard) ==
  IF host[w] = here THEN IF s = here.site THEN here ELSE None
  ELSE IF Stands(heard, s) THEN heard
  ELSE IF w = Parent THEN IF s = owner.site THEN owner ELSE None
  ELSE HostFor(w, s)

LooksUp(w, s, heard) ==
  ~(host[w] = here \/ Stands(heard, s) \/ w = Parent \/ <<Kind(w), s>> \in got.targets)

Posted(w, s, heard, dest, failed) ==
  post' = [to |-> w, site |-> s, heard |-> heard, host |-> host[w], dest |-> dest, failed |-> failed]

(* The page waits for the origin of the host it heard from, if that is not *)
(* known.                                                                  *)
Learnt(w) == IF host[w] = here THEN {} ELSE {got.from[w]} \ {None}

NativeSend(w, s, heard, learnt) ==
  /\ Posted(w, s, heard, Destination(w, s, heard), FALSE)
  /\ got' = [got EXCEPT !.known = @ \cup learnt,
                        !.targets = @ \cup IF LooksUp(w, s, heard) THEN {<<Kind(w), s>>} ELSE {}]
  /\ UNCHANGED <<around, host, returned, inbox, asks>>

PostMessage(w, s) == Use("messages", MaxMessages) /\ NativeSend(w, s, got.from[w], Learnt(w))

(* The lookup of that origin fails: the page is as if it had heard nothing.*)
PostUnheard(w, s) ==
  /\ ~(Learnt(w) \subseteq got.known) /\ Use("faults", MaxFailures)
  /\ NativeSend(w, s, None, {})

(* The lookup of the window's host fails: nothing is sent.                 *)
PostFails(w, s) ==
  /\ LooksUp(w, s, got.from[w]) /\ Use("faults", MaxFailures)
  /\ Posted(w, s, got.from[w], None, TRUE)
  /\ got' = [got EXCEPT !.known = @ \cup Learnt(w)]
  /\ UNCHANGED <<around, host, returned, inbox, asks>>

MessagesNext ==
  \/ \E w \in Wins : Write(w)
  \/ \E w \in Wins, s \in Sites : \/ IsSent(w, s) \/ GoesItself(w, s)
                                   \/ PostMessage(w, s) \/ PostUnheard(w, s) \/ PostFails(w, s)
  \/ Arrive
  \/ \E q \in asks : Answer(q) \/ LookupFails(q)

MessagesSpec == MessagesInit /\ [][MessagesNext]_messageVars

---------------------------------------------------------------------------
(* Messages reach the page in the order they arrived, none twice and none  *)
(* left out, whatever order their senders' lookups end in and however they *)
(* end (message-gate.js:10-11).                                            *)
DeliveredInOrder ==
  got.delivered \o [i \in DOMAIN got.held |-> got.held[i].n] = [i \in 1 .. got.arrived |-> i]

(* A message for the site that a window shows goes to that window,         *)
(* although it may have written as another one (message-target.js:7-8).    *)
(* In a page whose host is not tainted this does not hold for a frame that *)
(* ever came back to the tab's site by itself, until the page has heard    *)
(* from its new host: that is tainted, and the server's answer is not.     *)
AnswersArrive ==
  post # None /\ ~post.failed /\ post.site = post.host.site
  /\ (post.to \notin returned \/ Base(post.to).tainted \/ post.heard = post.host)
  => post.dest = post.host

(* The rewriting of origins is not felt by the page: what it is sent comes *)
(* in order, and its answers go where they would have gone.                *)
GateIsTransparent == DeliveredInOrder /\ AnswersArrive
=============================================================================
