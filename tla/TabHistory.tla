------------------------------ MODULE TabHistory ------------------------------
(***************************************************************************)
(* Back and forward in one Browser Lite tab.  Each document keeps its own  *)
(* journal of entries (proxy/document-history.js), because the browser's   *)
(* history belongs to the whole toolbar page, and reports it; the toolbar  *)
(* (proxy/wrapper.js with trusted-controller.js) merges the journals into  *)
(* one list per tab, and takes a step either inside the document or by     *)
(* opening another one in its slot of the list.                            *)
(*                                                                         *)
(* A visit is one page opened by the runtime (a tab ID and an epoch).      *)
(* Addresses matter only by being equal; positions count from 1.           *)
(***************************************************************************)
EXTENDS Naturals, Integers, Sequences, FiniteSets

CONSTANTS
  Hrefs,          \* addresses
  MaxJournal,    \* entries of one journal (50)
  MaxSteps,      \* bound: what the user asks for
  MaxChanges,      \* bound: what documents do to their journals
  MaxDocs,       \* bound: documents loaded
  MaxLost,       \* bound: opens that fail, pages forgotten
  Nil           \* no target, journal, command or traversal

VARIABLES
  hist,      \* the toolbar's list, position and pending step
  ctrl,      \* the controller: request sequence, shown visit, reported journal
  ops,       \* opens under way, in order
  page,      \* the document in the tab's frame, with its journal
  toUI, toPage,   \* messages between them
  tally       \* counters for the bounds, and fresh numbers

(* What a step that waits for its page records, and what a document last   *)
(* reported of its journal: neither is Nil.                                *)
Addresses == Hrefs \cup {Nil}
Targets == [position : Nat, previous : Nat, seq : Nat, url : Addresses, visit : Nat]
Journals == [doc : Nat, seq : Nat, entries : Seq(Nat), index : Nat]
ASSUME NilIsApart == Nil \notin Targets /\ Nil \notin Journals
ASSUME JournalsHoldSome == MaxJournal \in Nat \ {0}

histVars == <<hist, ctrl, ops, page, toUI, toPage, tally>>

Count(field, limit) == tally[field] < limit /\ tally' = [tally EXCEPT ![field] = @ + 1]

(* An empty tab, or one restored from the saved list: its documents are    *)
(* gone, and it loads the current entry into its slot.                     *)
Entry(doc, id, url) == [doc |-> doc, id |-> id, url |-> url]
Target(position, previous, seq, url) ==
  [position |-> position, previous |-> previous, seq |-> seq, url |-> url, visit |-> 0]
OpenRequest(kind, seq, url, gen, again) == [kind |-> kind, seq |-> seq, url |-> url, gen |-> gen, again |-> again]
Restored == {<<>>} \cup {<<Entry(-1, 0, u), Entry(-2, 0, v)>> : u, v \in Hrefs}
HistoryInit ==
  \E list \in Restored : \E position \in DOMAIN list \cup (IF list = <<>> THEN {0} ELSE {}) :
    /\ hist = [list |-> list, position |-> position, queue |-> <<>>, walker |-> "idle",
               target |-> IF list = <<>> THEN Nil ELSE Target(position, position, 1, list[position].url),
               gen |-> 0, walkGen |-> 0, key |-> <<0, 0>>, notice |-> FALSE, astray |-> FALSE]
    /\ ctrl = [seq |-> Len(list) \div 2, visit |-> 0, url |-> Nil, loading |-> FALSE, expired |-> FALSE,
               nonce |-> 0, doc |-> 0, hseq |-> -1, journal |-> Nil, traversal |-> Nil, pending |-> Nil]
    /\ ops = IF list = <<>> THEN <<>> ELSE <<OpenRequest("place", 1, list[position].url, 0, FALSE)>>
    /\ page = [visit |-> 0, url |-> Nil, doc |-> 0, entries |-> <<>>, index |-> 0, seq |-> 0, nonce |-> 0]
    /\ toUI = <<>> /\ toPage = <<>>
    /\ tally = [asked |-> 0, moves |-> 0, docs |-> 0, lost |-> 0, visits |-> 0, nonces |-> 0]

-----------------------------------------------------------------------------
(* update(): a page that is loading claims the pending step's target, and  *)
(* a report replaces the document's entries, fills the target's slot, or   *)
(* follows the current entry.                                              *)
Claimed(h, c) ==
  LET g == [h EXCEPT !.notice = FALSE] IN
  IF h.target = Nil THEN g
  ELSE IF h.target.seq = c.seq THEN [g EXCEPT !.target.visit = c.visit] ELSE [g EXCEPT !.target = Nil]

Block(list, doc) == {i \in DOMAIN list : list[i].doc = doc}
First(S) == CHOOSE i \in S : \A j \in S : i <= j
BlockEnd(list, start) ==
  First({i \in start..Len(list) + 1 : i = Len(list) + 1 \/ list[i].doc # list[start].doc})
Entries(c) == [i \in DOMAIN c.journal.entries |-> Entry(c.journal.doc, c.journal.entries[i], c.url)]
Mine(h, c) == h.target # Nil /\ h.target.seq = c.seq /\ h.target.visit = c.visit
PlacedAt(h, c, start, tail) ==
  [h EXCEPT !.list = SubSeq(h.list, 1, start - 1) \o Entries(c) \o tail,
            !.position = start + c.journal.index - 1,
            !.key = <<c.journal.doc, c.journal.seq>>]
(* A reload before the first report has no slot: its target is position    *)
(* -1 (here 0), which splice() counts from the end.  `astray` remembers,   *)
(* for the properties, that this has happened, that a page which left by   *)
(* itself claimed the slot of a step the user had just asked for, or that  *)
(* a step began where an earlier one, not answered yet, was to lead.       *)
NewDocument(h, c) ==
  LET after == IF Mine(h, c) THEN h.target.position ELSE h.position + 1
      start == IF after > Len(h.list) + 1 THEN Len(h.list) + 1 ELSE after
      slot == IF start # 0 THEN start ELSE IF h.list = <<>> THEN 1 ELSE Len(h.list) IN
  [PlacedAt(h, c, slot, IF Mine(h, c) THEN SubSeq(h.list, slot + 1, Len(h.list)) ELSE <<>>)
     EXCEPT !.target = Nil, !.position = start + c.journal.index - 1]
SameDocument(h, c, kind) ==
  LET start == First(Block(h.list, c.journal.doc)) IN
  PlacedAt(h, c, start, IF kind = "push" THEN <<>> ELSE SubSeq(h.list, BlockEnd(h.list, start), Len(h.list)))
Waiting(h) == h.target # Nil /\ h.target.visit = 0
Reported(h, c, kind) ==
  IF Waiting(h) \/ h.key = <<c.journal.doc, c.journal.seq>> THEN h
  ELSE IF Block(h.list, c.journal.doc) = {} THEN NewDocument(h, c) ELSE SameDocument(h, c, kind)

(* A step failed: the position goes back, and with nothing to recover the  *)
(* target is dropped.  A newer request has its own state (generation).     *)
(* (mutant: the position stays where the step was to lead)                 *)
StaysThere(h) == h
RolledBack(h) ==
  IF h.target = Nil THEN h ELSE IF h.target.previous = 0 THEN h ELSE [h EXCEPT !.position = h.target.previous]
StepFailed(h, c) ==
  IF h.walkGen # h.gen THEN [h EXCEPT !.walker = "idle"]
  ELSE [RolledBack(h) EXCEPT !.walker = "idle", !.queue = <<>>, !.notice = TRUE,
                             !.target = IF c.pending = Nil THEN Nil ELSE @]
StepCancelled(h, c) == IF c.traversal = Nil THEN h ELSE StepFailed(h, c)     \* cancelTraversal()
ExpiredPage(c) == [c EXCEPT !.seq = @ + 1, !.pending = Nil, !.expired = TRUE, !.traversal = Nil]

(* What an operation makes of the toolbar: h, c, what it opens, what it    *)
(* asks of the page.                                                       *)
Became(h, c, opened, asks) == [h |-> h, c |-> c, opened |-> opened, asks |-> asks]
Requests(h, c, kind, url, again) ==
  Became(h, [c EXCEPT !.seq = @ + 1, !.traversal = Nil],
         <<OpenRequest(kind, c.seq + 1, url, h.gen, again)>>, <<>>)

(* go(), openInPlace(), and history(): the first step of the queue that    *)
(* leads anywhere.                                                         *)
AtUrl(h, url) == h.list[h.position].url = url
Unreported(h, c) ==
  /\ c.loading
  /\ h.position = 0 \/ ~AtUrl(h, c.url)
KeepUnreported(h, c) ==
  IF ~Unreported(h, c) THEN h
  ELSE [h EXCEPT !.list = SubSeq(@, 1, h.position) \o <<Entry(-3 - tally.asked, 0, c.url)>>,
                 !.position = h.position + 1]
NewGeneration(h) == [h EXCEPT !.gen = @ + 1]
Go(h, c, url, again) ==
  LET cancelled == StepCancelled(NewGeneration(h), c)
      kept == IF again THEN cancelled ELSE KeepUnreported(cancelled, c)
      back == IF Waiting(kept) THEN RolledBack(kept) ELSE kept IN
  Requests([back EXCEPT !.target = Nil, !.queue = <<>>, !.notice = FALSE], c, "go", url, again)
OpenInPlace(h, c, url, again) ==
  Requests([StepCancelled(NewGeneration(h), c) EXCEPT !.queue = <<>>, !.notice = FALSE,
          !.target = Target(h.position, h.position, c.seq + 1, url)], c, "place", url, again)

Displaced(h) == Waiting(h) /\ h.target.previous \notin {0, h.position}
Useful(h) == {i \in DOMAIN h.queue : h.queue[i] = 0 \/ h.position + h.queue[i] \in DOMAIN h.list}
Steps(h, c, step) ==
  LET at == h.position + step
      opens == [h EXCEPT !.walker = "open", !.astray = @ \/ h.position = 0 \/ Displaced(h)]
      reload == [opens EXCEPT !.target = Target(h.position, 0, c.seq + 1, c.url)]
      other == [opens EXCEPT !.target = Target(at, h.position, c.seq + 1, h.list[at].url), !.position = at] IN
  CASE step = 0 -> Requests(reload, c, "history", c.url, FALSE)
    [] step # 0 /\ h.list[at].doc = c.doc /\ c.expired -> Became(StepFailed(h, c), c, <<>>, <<>>)
    [] step # 0 /\ h.list[at].doc = c.doc /\ ~c.expired ->
         Became([h EXCEPT !.walker = "traverse"], [c EXCEPT !.traversal = h.list[at].id], <<>>,
                <<[kind |-> "traverse", nonce |-> c.nonce, doc |-> c.doc, to |-> h.list[at].id,
                   basis |-> c.journal.entries[c.journal.index]]>>)
    [] OTHER -> Requests(other, c, "history", h.list[at].url, FALSE)
Walk(h, c) ==
  IF h.walkGen # h.gen THEN Became([h EXCEPT !.walker = "idle"], c, <<>>, <<>>)
  ELSE IF Useful(h) = {} THEN Became([h EXCEPT !.walker = "idle", !.queue = <<>>], c, <<>>, <<>>)
  ELSE LET i == First(Useful(h)) IN
       Steps([h EXCEPT !.queue = SubSeq(@, i + 1, Len(@))], c, h.queue[i])
History(h, c, delta) ==
  LET queued == [h EXCEPT !.queue = Append(@, delta)] IN
  IF h.walker # "idle" THEN Became(queued, c, <<>>, <<>>)
  ELSE Walk([queued EXCEPT !.walkGen = h.gen], c)

Becomes(b) ==
  /\ hist' = b.h /\ ctrl' = b.c
  /\ ops' = ops \o b.opened /\ toPage' = toPage \o b.asks

-----------------------------------------------------------------------------
(* The user.                                                               *)
TypeAddress(url) ==
  /\ Count("asked", MaxSteps) /\ Becomes(Go(hist, ctrl, url, FALSE))
  /\ UNCHANGED <<page, toUI>>
Press(delta) ==
  /\ ctrl.url # Nil /\ Count("asked", MaxSteps) /\ Becomes(History(hist, ctrl, delta))
  /\ UNCHANGED <<page, toUI>>
PressRetry ==
  LET seq == ctrl.seq + 1
      t == hist.target
      target == IF t = Nil THEN Nil
                ELSE [t EXCEPT !.visit = 0, !.seq = IF ctrl.pending = Nil THEN seq ELSE @]
      h == [hist EXCEPT !.gen = @ + 1, !.queue = <<>>, !.target = target, !.notice = FALSE] IN
  /\ hist.notice /\ Count("asked", MaxSteps) /\ ctrl.url # Nil
  /\ IF ctrl.pending # Nil
     THEN Becomes(Became(h, ctrl, <<OpenRequest("recover", 0, Nil, h.gen, FALSE)>>, <<>>))
     ELSE Becomes(Became(h, [ctrl EXCEPT !.seq = seq],
            <<OpenRequest("retry", seq, IF t = Nil THEN ctrl.url ELSE t.url, h.gen, FALSE)>>, <<>>))
  /\ UNCHANGED <<page, toUI>>

(* activate(): a page of the runtime is shown, in a fresh frame or, for a  *)
(* navigation of the page itself, in the same one.                         *)
Activates(h, c, url) ==
  LET visit == tally.visits + 1
      shown == [c EXCEPT !.visit = visit, !.url = url, !.loading = TRUE, !.expired = FALSE, !.nonce = 0,
                         !.doc = 0, !.hseq = -1, !.journal = Nil, !.traversal = Nil] IN
  /\ hist' = Claimed(StepCancelled(h, c), shown) /\ ctrl' = shown
  /\ page' = [visit |-> visit, url |-> url, doc |-> 0, entries |-> <<>>, index |-> 0, seq |-> 0, nonce |-> 0]
  /\ toUI' = <<>> /\ toPage' = <<>>

(* The first open is answered: a superseded one shows nothing.             *)
Done(h, op) == IF op.kind = "history" THEN [h EXCEPT !.queue = <<>>, !.walker = "idle"] ELSE h
OpenAnswered ==
  LET op == Head(ops)
      c == [ctrl EXCEPT !.pending = Nil] IN
  /\ ops # <<>> /\ ops' = Tail(ops)
  /\ IF op.kind = "recover" /\ ctrl.pending # Nil
     THEN Activates(hist, c, ctrl.pending) /\ tally' = [tally EXCEPT !.visits = @ + 1]
     ELSE IF op.seq = ctrl.seq
     THEN Activates(Done(hist, op), c, op.url) /\ tally' = [tally EXCEPT !.visits = @ + 1]
     ELSE /\ hist' = Done(hist, op)
          /\ UNCHANGED <<ctrl, page, toUI, toPage, tally>>

(* It fails: refused, or without an answer (the command is kept to be      *)
(* recovered), or because the runtime has forgotten the tab.               *)
Fails(answer) ==
  LET op == Head(ops)
      c == CASE answer = "refused" -> [ctrl EXCEPT !.pending = Nil]
             [] answer = "lost" -> [ctrl EXCEPT !.pending = IF @ = Nil THEN op.url ELSE @]
             [] answer = "reset" -> ExpiredPage(ctrl)
      h == IF answer = "reset" THEN StepCancelled(hist, ctrl) ELSE hist
      again == answer = "reset" /\ ~op.again IN
  /\ ops # <<>> /\ Count("lost", MaxLost)
  /\ LET b == CASE op.kind = "history" -> Became(StepFailed(h, c), c, <<>>, <<>>)
                [] op.kind = "go" /\ again -> Go(h, ExpiredPage(c), op.url, TRUE)
                [] op.kind = "place" /\ again -> OpenInPlace(h, ExpiredPage(c), op.url, TRUE)
                [] OTHER -> Became([h EXCEPT !.notice = TRUE], c, <<>>, <<>>) IN
     /\ hist' = b.h /\ ctrl' = b.c
     /\ ops' = Tail(ops) \o b.opened /\ toPage' = toPage \o b.asks
  /\ UNCHANGED <<page, toUI>>

(* reopen(): the runtime has forgotten the page that is shown.             *)
PageForgotten ==
  LET c == ExpiredPage(ctrl)
      h == StepCancelled(hist, ctrl) IN
  /\ ctrl.url # Nil /\ ~ctrl.expired /\ Count("lost", MaxLost)
  /\ Becomes(IF hist.position # 0 /\ AtUrl(hist, ctrl.url)
             THEN OpenInPlace(h, c, ctrl.url, FALSE) ELSE Go(h, c, ctrl.url, FALSE))
  /\ UNCHANGED <<page, toUI>>

-----------------------------------------------------------------------------
(* The page.  A document that loads says so; its journal changes when the  *)
(* page pushes or replaces an entry (or its fragment changes), and each    *)
(* change is reported to a toolbar that has attached.                      *)
Report(p, kind) ==
  IF p.nonce = 0 THEN toUI
  ELSE Append(toUI, [kind |-> "state", change |-> kind, visit |-> p.visit, nonce |-> p.nonce, doc |-> p.doc,
                     seq |-> p.seq, entries |-> p.entries, index |-> p.index])
Announced(p, kind) == page' = p /\ toUI' = Report(p, kind)

Loads ==
  /\ page.visit # 0 /\ page.doc = 0 /\ Count("docs", MaxDocs)
  /\ page' = [page EXCEPT !.doc = tally.docs + 1, !.entries = <<0>>, !.index = 1, !.seq = 0, !.nonce = 0]
  /\ toUI' = Append(toUI, [kind |-> "ready", visit |-> page.visit])
  /\ UNCHANGED <<hist, ctrl, ops, toPage>>
Trimmed(entries) == IF Len(entries) > MaxJournal THEN Tail(entries) ELSE entries
Pushed(p) ==
  LET entries == Trimmed(Append(SubSeq(p.entries, 1, p.index), p.seq + 1)) IN
  [p EXCEPT !.entries = entries, !.index = Len(entries), !.seq = @ + 1]
JournalMoves(kind) ==
  /\ page.doc # 0 /\ Count("moves", MaxChanges)
  /\ Announced(IF kind = "push" THEN Pushed(page) ELSE [page EXCEPT !.seq = @ + 1], kind)
  /\ UNCHANGED <<hist, ctrl, ops, toPage>>
AsksBack ==                                       \* history.back() of the page
  /\ page.nonce # 0 /\ Count("moves", MaxChanges)
  /\ toUI' = Append(toUI, [kind |-> "history", visit |-> page.visit, nonce |-> page.nonce, doc |-> page.doc])
  /\ UNCHANGED <<hist, ctrl, ops, page, toPage>>

(* The page leaves: for another document of its site, or, with the         *)
(* toolbar's approval, for another site.                                   *)
PageLeaves ==
  /\ page.doc # 0 /\ Count("moves", MaxChanges)
  /\ page' = [page EXCEPT !.doc = 0, !.nonce = 0]
  /\ toUI' = IF page.nonce = 0 THEN toUI
             ELSE Append(toUI, [kind |-> "navigating", visit |-> page.visit, nonce |-> page.nonce])
  /\ UNCHANGED <<hist, ctrl, ops, toPage>>
LeavesSite(url) ==
  /\ page.doc # 0 /\ page.visit = ctrl.visit /\ ~ctrl.expired /\ ops = <<>> /\ ctrl.pending = Nil
  /\ tally.moves < MaxChanges
  /\ tally' = [tally EXCEPT !.moves = @ + 1, !.visits = @ + 1]
  /\ Activates(hist, ctrl, url) /\ UNCHANGED ops

(* traverse() of the journal, if the toolbar's view of it is not stale.    *)
AtEntry(p, m) == {i \in DOMAIN p.entries : p.entries[i] = m.to}
StaleView(p, m) == p.entries[p.index] # m.basis \/ AtEntry(p, m) \subseteq {p.index}
Traversed(p, m) ==
  [p EXCEPT !.seq = @ + 1, !.index = IF StaleView(p, m) THEN @ ELSE First(AtEntry(p, m))]
PageHears ==
  LET m == Head(toPage) IN
  /\ toPage # <<>> /\ page.doc # 0 /\ toPage' = Tail(toPage)
  /\ CASE m.kind = "attach" -> LET p == [page EXCEPT !.nonce = m.nonce] IN Announced(p, "sync")
       [] m.kind = "traverse" /\ m.nonce = page.nonce /\ m.doc = page.doc ->
            LET p == Traversed(page, m) IN
            /\ page' = p
            /\ toUI' = Append(Report(p, IF StaleView(page, m) THEN "sync" ELSE "traverse"),
                              [kind |-> "traversed", visit |-> p.visit, nonce |-> p.nonce, doc |-> p.doc])
       [] OTHER -> UNCHANGED <<page, toUI>>
  /\ UNCHANGED <<hist, ctrl, ops, tally>>

-----------------------------------------------------------------------------
(* message(): what the toolbar makes of a message of the page it shows.    *)
Attach ==
  LET nonce == tally.nonces + 1 IN
  /\ tally' = [tally EXCEPT !.nonces = nonce]
  /\ hist' = StepCancelled(hist, ctrl)
  /\ ctrl' = [ctrl EXCEPT !.nonce = nonce, !.doc = 0, !.hseq = -1, !.traversal = Nil]
  /\ toPage' = Append(toPage, [kind |-> "attach", nonce |-> nonce]) /\ UNCHANGED ops
OfShown(m) ==
  /\ m.nonce = ctrl.nonce /\ ctrl.nonce # 0
  /\ ctrl.doc \in {0, m.doc} /\ m.seq >= ctrl.hseq
HearsState(m) ==
  LET c == [ctrl EXCEPT !.doc = m.doc, !.hseq = m.seq, !.loading = FALSE,
              !.journal = [doc |-> m.doc, seq |-> m.seq, entries |-> m.entries, index |-> m.index]] IN
  /\ IF OfShown(m)
     THEN ctrl' = c /\ hist' = [Reported(hist, c, m.change) EXCEPT !.notice = @ /\ Waiting(hist)]
     ELSE UNCHANGED <<ctrl, hist>>
  /\ UNCHANGED <<ops, toPage, tally>>
HearsNavigating(m) ==
  /\ IF m.nonce = ctrl.nonce /\ ctrl.nonce # 0 /\ ~ctrl.loading
     THEN /\ ctrl' = [ctrl EXCEPT !.loading = TRUE]
          /\ hist' = [Claimed(hist, ctrl) EXCEPT !.astray = @ \/ Waiting(hist)]
     ELSE UNCHANGED <<ctrl, hist>>
  /\ UNCHANGED <<ops, toPage, tally>>
HearsTraversed(m) ==
  /\ IF m.nonce = ctrl.nonce /\ m.doc = ctrl.doc /\ ctrl.traversal # Nil
     THEN Becomes(Walk(hist, [ctrl EXCEPT !.traversal = Nil])) ELSE UNCHANGED <<ctrl, hist, ops, toPage>>
  /\ UNCHANGED tally
HearsHistory(m) ==
  /\ IF m.nonce = ctrl.nonce /\ m.doc = ctrl.doc
     THEN Becomes(History(hist, ctrl, -1)) ELSE UNCHANGED <<ctrl, hist, ops, toPage>>
  /\ UNCHANGED tally
Hears ==
  LET m == Head(toUI) IN
  /\ toUI # <<>> /\ toUI' = Tail(toUI)
  /\ IF m.visit # ctrl.visit \/ ctrl.expired THEN UNCHANGED <<ctrl, hist, ops, toPage, tally>>
     ELSE CASE m.kind = "ready" -> Attach
            [] m.kind = "state" -> HearsState(m)
            [] m.kind = "navigating" -> HearsNavigating(m)
            [] m.kind = "traversed" -> HearsTraversed(m)
            [] m.kind = "history" -> HearsHistory(m)
  /\ UNCHANGED page
TimesOut ==                                       \* no answer to a traversal for 5 s
  /\ ctrl.traversal # Nil
  /\ ctrl' = [ctrl EXCEPT !.traversal = Nil] /\ hist' = StepFailed(hist, ctrl)
  /\ UNCHANGED <<ops, page, toUI, toPage, tally>>

TakesLong ==                                      \* a page that loads for 45 s
  /\ ctrl.loading /\ ~hist.notice /\ hist' = [hist EXCEPT !.notice = TRUE]
  /\ UNCHANGED <<ctrl, ops, page, toUI, toPage, tally>>

HistoryNext ==
  \/ \E url \in Hrefs : TypeAddress(url) \/ LeavesSite(url)
  \/ \E delta \in {-1, 0, 1} : Press(delta)
  \/ PressRetry \/ OpenAnswered \/ PageForgotten
  \/ \E answer \in {"refused", "lost", "reset"} : Fails(answer)
  \/ Loads \/ AsksBack \/ PageLeaves \/ PageHears \/ Hears \/ TimesOut \/ TakesLong
  \/ \E kind \in {"push", "replace"} : JournalMoves(kind)
HistorySpec == HistoryInit /\ [][HistoryNext]_histVars

-----------------------------------------------------------------------------
(* Back and Forward always start from an entry of the list, and, once the  *)
(* shown document's latest report is in the list, from the very entry the  *)
(* document is at, with its journal around it: whatever was opened,        *)
(* failed, was superseded, or reported late in between.                    *)
InRange == hist.position \in {0} \cup DOMAIN hist.list
Settled ==
  /\ ctrl.journal # Nil /\ ctrl.doc # 0 /\ ~ctrl.expired /\ hist.target = Nil
  /\ hist.key = <<ctrl.journal.doc, ctrl.journal.seq>>
Mirrors ==
  LET start == hist.position - ctrl.journal.index + 1 IN
  /\ start >= 1 /\ start + Len(ctrl.journal.entries) - 1 <= Len(hist.list)
  /\ Block(hist.list, ctrl.journal.doc) = start..(start + Len(ctrl.journal.entries) - 1)
  /\ \A i \in DOMAIN ctrl.journal.entries : hist.list[start + i - 1].id = ctrl.journal.entries[i]
(* A document that is being left may have lost its entry to the one that   *)
(* keepUnreported() makes for its page.                                    *)
KeptForIt == ctrl.loading /\ hist.position # 0 /\ AtUrl(hist, ctrl.url) /\ hist.list[hist.position].doc < -2
ListIsTrue == InRange /\ (Settled /\ ~hist.astray => Mirrors \/ KeptForIt)

(* The same without the exception for a list that went astray: it does not *)
(* hold, a document that never reported can lose its entry.                *)
EveryPageHasItsSlot == Settled => Mirrors
=============================================================================
