------------------------ MODULE BrowserPartsProofs ------------------------
(***************************************************************************)
(* Six parts of Browser Lite, for constants of any size.                   *)
(*                                                                         *)
(* Messages: the gate is transparent: what the page is given and what is   *)
(* held are together all that arrived, in order, and what it sends for the *)
(* site a window shows goes there, unless the window came back tainted.    *)
(*                                                                         *)
(* Workers: nobody waits for a worker's source that is there already, or   *)
(* that is known to have failed.                                           *)
(*                                                                         *)
(* Egress: the limit of connections is exact: the places a tunnel has      *)
(* taken are counted before its address is known, so the queue and the     *)
(* lookups cannot give one away twice.                                     *)
(*                                                                         *)
(* Tunnels: a site sees no more connections of the rewriter than one       *)
(* session and the agent's limit of tunnels.                               *)
(*                                                                         *)
(* Saved tabs: what is empty, and may become the user's copy, comes from a *)
(* page on which the user closed their tabs.                               *)
(*                                                                         *)
(* Tabs: a page that is open has an open lane of the same sign-in, so a    *)
(* later command can close it; each form it carries is sent at most once.  *)
(***************************************************************************)
EXTENDS PageMessages, PageWorkers, BrowserEgress, TunnelPool, BrowserSaves, BrowserTabs,
        FiniteSetTheorems, SequenceTheorems, WellFoundedInduction, TLAPS

-----------------------------------------------------------------------------
(* Messages of pages.                                                      *)

Hosts == [site : Sites, top : Sites, tainted : BOOLEAN]
Messages == [win : Wins, host : Hosts]
Held == [host : Hosts, n : Nat]

World == /\ TopSite \in Sites /\ Parent \notin Frames \cup Siblings \cup Popups
         /\ None \notin Hosts

GotShape(g) ==
  g = [known |-> g.known, from |-> g.from, targets |-> g.targets, held |-> g.held,
       pending |-> g.pending, delivered |-> g.delivered, arrived |-> g.arrived]

(* Arrivals are numbered; those delivered come first, those held follow.   *)
InOrder(g) ==
  /\ g.delivered \in Seq(Nat) /\ g.held \in Seq(Held) /\ g.arrived \in Nat
  /\ g.arrived = Len(g.delivered) + Len(g.held)
  /\ \A i \in 1 .. Len(g.delivered) : g.delivered[i] = i
  /\ \A i \in 1 .. Len(g.held) : g.held[i].n = Len(g.delivered) + i

(* The hosts a window may have, have had or have written as: those that    *)
(* the server gives for its kind, unless it may have come back tainted.    *)
Steady(w) == w \notin returned \/ Base(w).tainted

rights == [w \in Wins |-> {h \in Hosts : /\ w = Parent => h = owner
                                         /\ w # Parent /\ Steady(w) => h = HostFor(w, h.site)}]

Inside(h) == h \in Hosts /\ h.top = TopSite /\ (h.site # TopSite => h.tainted)

HostsRight ==
  /\ Inside(owner) /\ Inside(here)
  /\ host \in [Wins -> Hosts] /\ \A w \in Wins : host[w] \in rights[w]
  /\ \A w \in Wins : Kind(w) # "top" => host[w].top = TopSite

Letters == inbox \in Seq(Messages) /\ \A i \in 1 .. Len(inbox) : inbox[i].host \in rights[inbox[i].win]

Heard(from) == /\ from \in [Wins -> Hosts \cup {None}]
               /\ \A w \in Wins : from[w] # None => from[w] \in rights[w]

MessagesInv ==
  /\ HostsRight /\ Letters
  /\ GotShape(got) /\ InOrder(got) /\ Heard(got.from)
  /\ AnswersArrive

-----------------------------------------------------------------------------
LEMMA LeastOf ==
  ASSUME NEW T \in SUBSET Nat, T # {}
  PROVE  Min(T) \in T
<1> DEFINE less == OpToRel(<, Nat)
<1>1. IsWellFoundedOn(less, Nat)
  BY NatLessThanWellFounded
<1>2. \A x, y \in Nat : x < y => <<x, y>> \in less
  BY DEF OpToRel
<1> HIDE DEF less
<1>3. PICK x \in T : \A y \in T : <<y, x>> \notin less
  BY <1>1, WFMin
<1>4. ASSUME NEW y \in T PROVE x <= y
  <2>1. x \in Nat /\ y \in Nat
    OBVIOUS
  <2>2. ~(y < x)
    BY <1>2, <1>3, <2>1
  <2> QED BY <2>1, <2>2
<1> QED BY <1>3, <1>4 DEF Min

(* The numbers of a state in order.                                        *)
LEMMA Numbers ==
  ASSUME NEW g, InOrder(g), NEW d, d = Len(g.delivered), NEW h, h = Len(g.held)
  PROVE  d \in Nat /\ h \in Nat /\ g.arrived \in Nat /\ g.arrived = d + h
<1>1. d \in Nat
  BY DEF InOrder
<1>2. h \in Nat
  BY DEF InOrder
<1>3. g.arrived \in Nat
  BY DEF InOrder
<1>4. g.arrived = d + h
  BY DEF InOrder
<1> QED BY <1>1, <1>2, <1>3, <1>4

(* A stretch of numbers, and the one that follows it.                      *)
Counts(s, from, n) == s \in Seq(Nat) /\ Len(s) = n /\ \A i \in 1 .. n : s[i] = from + i

LEMMA Joined ==
  ASSUME NEW s, NEW r, NEW d \in Nat, NEW k \in Nat, Counts(s, 0, d), Counts(r, d, k)
  PROVE  Counts(s \o r, 0, d + k)
<1>1. s \in Seq(Nat) /\ Len(s) = d /\ r \in Seq(Nat) /\ Len(r) = k
  BY DEF Counts
<1>2. /\ s \o r \in Seq(Nat)
      /\ Len(s \o r) = Len(s) + Len(r)
      /\ \A i \in 1 .. Len(s) + Len(r) :
           (s \o r)[i] = IF i <= Len(s) THEN s[i] ELSE r[i - Len(s)]
  BY <1>1, ConcatProperties
<1> DEFINE all == s \o r
<1>3. all \in Seq(Nat) /\ Len(all) = d + k /\ \A i \in 1 .. d + k : all[i] = IF i <= d THEN s[i] ELSE r[i - d]
  BY <1>1, <1>2
<1> HIDE DEF all
<1>4. ASSUME NEW i \in 1 .. d + k PROVE all[i] = 0 + i
  <2>1. CASE i <= d
    <3>1. i \in 1 .. d
      BY <2>1
    <3>2. all[i] = s[i]
      BY <1>3, <2>1
    <3> QED BY <3>1, <3>2 DEF Counts
  <2>2. CASE ~(i <= d)
    <3>1. i - d \in 1 .. k /\ d + (i - d) = 0 + i
      BY <2>2
    <3>2. all[i] = r[i - d]
      BY <1>3, <2>2
    <3>3. r[i - d] = d + (i - d)
      BY <3>1 DEF Counts
    <3> QED BY <3>1, <3>2, <3>3
  <2> QED BY <2>1, <2>2
<1>5. Counts(all, 0, d + k)
  BY <1>3, <1>4 DEF Counts
<1> QED BY <1>5 DEF all

(* A message that is noted changes two fields.                             *)
LEMMA Noted ==
  ASSUME NEW g, GotShape(g), NEW from, NEW n
  PROVE  [g EXCEPT !.from = from, !.arrived = n] =
           [known |-> g.known, from |-> from, targets |-> g.targets, held |-> g.held,
            pending |-> g.pending, delivered |-> g.delivered, arrived |-> n]
<1> DEFINE one == [g EXCEPT !.from = from]
<1>1. one = [known |-> g.known, from |-> from, targets |-> g.targets, held |-> g.held,
             pending |-> g.pending, delivered |-> g.delivered, arrived |-> g.arrived]
  BY DEF GotShape
<1>2. [g EXCEPT !.from = from, !.arrived = n] = [one EXCEPT !.arrived = n]
  OBVIOUS
<1> HIDE DEF one
<1> QED BY <1>1, <1>2

(* Draining delivers a prefix of what is held.                             *)
LEMMA DrainedKeeps ==
  ASSUME NEW g, GotShape(g), InOrder(g)
  PROVE  GotShape(Drained(g)) /\ InOrder(Drained(g)) /\ Drained(g).from = g.from
<1> DEFINE d == Len(g.delivered)
           h == Len(g.held)
           stops == {i \in DOMAIN g.held : g.held[i].host \in g.pending}
           k == IF stops = {} THEN h ELSE Min(stops) - 1
           rest == SubSeq(g.held, k + 1, h)
           more == [i \in 1 .. k |-> g.held[i].n]
           all == g.delivered \o more
           T == Drained(g)
<1>1. T = [g EXCEPT !.held = rest, !.delivered = all]
  BY DEF Drained
<1>2. d \in Nat /\ h \in Nat /\ g.arrived \in Nat /\ g.arrived = d + h
  BY Numbers
<1>3. g.held \in Seq(Held) /\ DOMAIN g.held = 1 .. h
  BY DEF InOrder
<1>4. \A i \in 1 .. h : g.held[i] \in Held /\ g.held[i].n = d + i
  BY <1>3 DEF InOrder
<1>5. g.delivered \in Seq(Nat) /\ Len(g.delivered) = d /\ \A i \in 1 .. d : g.delivered[i] = i
  BY DEF InOrder
<1> HIDE DEF d, h
<1>6. k \in Nat /\ k <= h
  <2>1. CASE stops = {}
    BY <1>2, <2>1
  <2>2. CASE stops # {}
    <3>1. stops \subseteq 1 .. h /\ stops \subseteq Nat
      BY <1>2, <1>3
    <3> HIDE DEF stops
    <3>2. Min(stops) \in stops
      BY <2>2, <3>1, LeastOf
    <3>3. Min(stops) \in 1 .. h
      BY <3>1, <3>2
    <3> QED BY <1>2, <2>2, <3>3
  <2> QED BY <2>1, <2>2
<1> HIDE DEF k, stops
<1>7. more \in Seq(Nat) /\ Len(more) = k /\ \A i \in 1 .. k : more[i] = d + i
  <2>1. \A i \in 1 .. k : g.held[i].n \in Nat /\ g.held[i].n = d + i
    <3> TAKE i \in 1 .. k
    <3>1. i \in 1 .. h
      BY <1>2, <1>6
    <3> QED BY <1>4, <3>1 DEF Held
  <2>2. more \in [1 .. k -> Nat]
    BY <2>1
  <2>3. \A i \in 1 .. k : more[i] = d + i
    BY <2>1
  <2> HIDE DEF more
  <2> QED BY <1>6, <2>2, <2>3
<1> HIDE DEF more
<1>16. Counts(g.delivered, 0, d) /\ Counts(more, d, k)
  BY <1>2, <1>5, <1>7 DEF Counts
<1>17. Counts(all, 0, d + k)
  BY <1>2, <1>6, <1>16, Joined
<1> HIDE DEF all
<1>8. all \in Seq(Nat) /\ Len(all) = d + k /\ \A i \in 1 .. d + k : all[i] = i
  BY <1>17 DEF Counts
<1>9. rest \in Seq(Held) /\ Len(rest) = h - k /\ \A i \in 1 .. h - k : rest[i] = g.held[k + i]
  <2>1. \A i \in k + 1 .. h : g.held[i] \in Held
    <3> TAKE i \in k + 1 .. h
    <3>1. i \in 1 .. h
      BY <1>2, <1>6
    <3> QED BY <1>4, <3>1
  <2>2. k + 1 \in Int /\ h \in Int
    BY <1>2, <1>6
  <2>3. /\ rest \in Seq(Held) /\ Len(rest) = IF k + 1 <= h THEN h - (k + 1) + 1 ELSE 0
        /\ \A i \in 1 .. h - (k + 1) + 1 : rest[i] = g.held[(k + 1) + i - 1]
    BY <2>1, <2>2, SubSeqProperties
  <2> HIDE DEF rest
  <2>4. Len(rest) = h - k /\ h - (k + 1) + 1 = h - k
    BY <1>2, <1>6, <2>3
  <2>5. ASSUME NEW i \in 1 .. h - k PROVE rest[i] = g.held[k + i]
    <3>1. (k + 1) + i - 1 = k + i
      BY <1>2, <1>6
    <3> QED BY <2>3, <2>4, <3>1
  <2> QED BY <2>3, <2>4, <2>5
<1> HIDE DEF rest
<1>10. ASSUME NEW i \in 1 .. h - k PROVE rest[i].n = (d + k) + i
  <2>1. k + i \in 1 .. h /\ d + (k + i) = (d + k) + i
    BY <1>2, <1>6
  <2>2. g.held[k + i].n = d + (k + i)
    BY <1>4, <2>1
  <2> QED BY <1>9, <2>1, <2>2
<1> HIDE DEF T
<1>11. /\ GotShape(T) /\ T.held = rest /\ T.delivered = all /\ T.arrived = g.arrived
       /\ T.from = g.from
  BY <1>1 DEF GotShape
<1>12. g.arrived = Len(all) + Len(rest)
  <2>1. Len(all) = d + k /\ Len(rest) = h - k
    BY <1>8, <1>9
  <2> QED BY <1>2, <1>6, <2>1
<1>13. \A i \in 1 .. Len(all) : all[i] = i
  BY <1>8
<1>14. \A i \in 1 .. Len(rest) : rest[i].n = Len(all) + i
  BY <1>8, <1>9, <1>10
<1>15. InOrder(T)
  BY <1>2, <1>8, <1>9, <1>11, <1>12, <1>13, <1>14 DEF InOrder
<1> QED BY <1>11, <1>15 DEF T

-----------------------------------------------------------------------------
(* What a window may have written as stays so: a window only comes back.   *)
LEMMA RightsGrow ==
  ASSUME UNCHANGED around, returned \subseteq returned'
  PROVE  \A w \in Wins : rights[w] \subseteq rights'[w]
<1>1. UNCHANGED <<owner, here>>
  BY DEF around
<1>2. ASSUME NEW w \in Wins PROVE Base(w)' = Base(w) /\ (Steady(w)' => Steady(w))
  BY <1>1 DEF Base, Kind, Steady
<1>3. ASSUME NEW w \in Wins, NEW s PROVE HostFor(w, s)' = HostFor(w, s)
  BY <1>2 DEF HostFor, Kind
<1> QED BY <1>1, <1>2, <1>3 DEF rights

LEMMA HostsKept ==
  ASSUME HostsRight, UNCHANGED <<around, host, returned>>
  PROVE  HostsRight'
<1>1. UNCHANGED <<owner, here, host>>
  BY DEF around
<1> QED BY <1>1, RightsGrow DEF HostsRight, Inside, Kind

LEMMA PostKept ==
  ASSUME AnswersArrive, UNCHANGED <<around, post>>, returned \subseteq returned'
  PROVE  AnswersArrive'
BY DEF AnswersArrive, around, Base, Kind

(* What follows the first message is as it was.                            *)
LEMMA TailOfLetters ==
  ASSUME Letters, inbox # <<>>
  PROVE  /\ Head(inbox) \in Messages /\ Head(inbox).host \in rights[Head(inbox).win]
         /\ Tail(inbox) \in Seq(Messages)
         /\ \A i \in 1 .. Len(Tail(inbox)) : Tail(inbox)[i].host \in rights[Tail(inbox)[i].win]
<1> DEFINE rest == Tail(inbox)
<1>1. inbox \in Seq(Messages) /\ Len(inbox) \in Nat
  BY DEF Letters
<1>2. /\ Head(inbox) = inbox[1] /\ Len(inbox) > 0 /\ rest \in Seq(Messages)
      /\ Len(rest) = Len(inbox) - 1 /\ \A i \in 1 .. Len(rest) : rest[i] = inbox[i + 1]
  BY <1>1, HeadTailProperties
<1>3. Head(inbox) \in Messages /\ Head(inbox).host \in rights[Head(inbox).win]
  BY <1>1, <1>2 DEF Letters
<1> HIDE DEF rest
<1>4. ASSUME NEW i \in 1 .. Len(rest) PROVE rest[i].host \in rights[rest[i].win]
  <2>1. i + 1 \in 1 .. Len(inbox) /\ rest[i] = inbox[i + 1]
    BY <1>1, <1>2
  <2> QED BY <2>1 DEF Letters
<1> QED BY <1>2, <1>3, <1>4 DEF rest

(* A message that arrives goes behind all that came before it.             *)
LEMMA ArriveKeeps == World /\ MessagesInv /\ Arrive => MessagesInv'
<1> SUFFICES ASSUME World, MessagesInv, Arrive PROVE MessagesInv'
  OBVIOUS
<1> DEFINE d == Len(got.delivered)
           h == Len(got.held)
           m == Head(inbox)
           n == got.arrived + 1
           from == [got.from EXCEPT ![m.win] = m.host]
           noted == [got EXCEPT !.from = from, !.arrived = n]
           item == [host |-> m.host, n |-> n]
           held == Append(got.held, item)
           holding == [noted EXCEPT !.held = held]
           pending == got.pending \cup {m.host}
           unknown == m.host \notin got.known
           all == Append(got.delivered, n)
<1>1. GotShape(got) /\ InOrder(got) /\ Heard(got.from) /\ Letters
  BY DEF MessagesInv
<1>2. m \in Messages /\ m.host \in rights[m.win]
  BY <1>1, TailOfLetters DEF Arrive
<1>3. m.win \in Wins /\ m.host \in Hosts
  BY <1>2 DEF Messages
<1>4. d \in Nat /\ h \in Nat /\ got.arrived \in Nat /\ got.arrived = d + h
  BY <1>1, Numbers
<1>5. got.held \in Seq(Held) /\ Len(got.held) = h /\ \A i \in 1 .. h : got.held[i].n = d + i
  BY <1>1 DEF InOrder
<1>6. got.delivered \in Seq(Nat) /\ Len(got.delivered) = d /\ \A i \in 1 .. d : got.delivered[i] = i
  BY <1>1 DEF InOrder
<1> HIDE DEF d, h
<1>17. GotShape(got)
  BY <1>1
<1>7. got' = IF Passes(noted, m.host) THEN [noted EXCEPT !.delivered = all]
             ELSE IF unknown THEN [holding EXCEPT !.pending = pending]
             ELSE Drained(holding)
  <2>1. noted = [got EXCEPT !.from[m.win] = m.host, !.arrived = n]
    BY <1>1 DEF GotShape
  <2>2. noted.held = got.held /\ noted.delivered = got.delivered /\ holding.pending = got.pending
    BY <1>1 DEF GotShape
  <2> QED BY <2>1, <2>2 DEF Arrive
<1>8. Heard(from)
  BY <1>1, <1>2, <1>3 DEF Heard, World
<1>9. /\ held \in Seq(Held) /\ Len(held) = h + 1
      /\ \A i \in 1 .. h + 1 : held[i].n = d + i
  <2>1. n \in Nat /\ n = d + (h + 1)
    BY <1>4
  <2>2. item \in Held /\ item.n = d + (h + 1)
    BY <1>3, <2>1 DEF Held
  <2> HIDE DEF item
  <2>3. /\ held \in Seq(Held) /\ Len(held) = h + 1
        /\ \A i \in 1 .. h : held[i] = got.held[i]
        /\ held[h + 1] = item
    BY <1>5, <2>2, AppendProperties
  <2> HIDE DEF held
  <2>4. ASSUME NEW i \in 1 .. h + 1 PROVE held[i].n = d + i
    <3>1. CASE i \in 1 .. h
      BY <1>5, <2>3, <3>1
    <3>2. CASE i = h + 1
      BY <2>2, <2>3, <3>2
    <3> QED BY <1>4, <3>1, <3>2
  <2> QED BY <2>3, <2>4
<1>10. all \in Seq(Nat) /\ (h = 0 => Len(all) = d + 1 /\ \A i \in 1 .. d + 1 : all[i] = i)
  <2>1. n \in Nat /\ (h = 0 => n = d + 1)
    BY <1>4
  <2> HIDE DEF n
  <2>2. /\ all \in Seq(Nat) /\ Len(all) = d + 1
        /\ \A i \in 1 .. d : all[i] = got.delivered[i]
        /\ all[d + 1] = n
    BY <1>6, <2>1, AppendProperties
  <2> HIDE DEF all
  <2>3. ASSUME h = 0, NEW i \in 1 .. d + 1 PROVE all[i] = i
    <3>1. CASE i \in 1 .. d
      BY <1>6, <2>2, <3>1
    <3>2. CASE i = d + 1
      BY <2>1, <2>2, <2>3, <3>2
    <3> QED BY <1>4, <3>1, <3>2
  <2> QED BY <2>2, <2>3
<1>11. n \in Nat /\ n = d + (h + 1)
  BY <1>4
<1> HIDE DEF from, held, all, n, pending
<1>12. noted = [known |-> got.known, from |-> from, targets |-> got.targets, held |-> got.held,
                pending |-> got.pending, delivered |-> got.delivered, arrived |-> n]
  BY <1>17, Noted
<1>13. holding = [known |-> got.known, from |-> from, targets |-> got.targets, held |-> held,
                  pending |-> got.pending, delivered |-> got.delivered, arrived |-> n]
  <2> HIDE DEF noted
  <2> QED BY <1>12
<1>14. GotShape(holding) /\ InOrder(holding) /\ holding.from = from
  <2> HIDE DEF noted, holding
  <2>1. n = Len(got.delivered) + Len(held)
    <3>1. Len(held) = h + 1 /\ Len(got.delivered) = d
      BY <1>6, <1>9
    <3> QED BY <1>11, <3>1
  <2>2. \A i \in 1 .. Len(held) : held[i].n = Len(got.delivered) + i
    BY <1>6, <1>9
  <2> QED BY <1>6, <1>9, <1>11, <1>13, <2>1, <2>2 DEF GotShape, InOrder
<1>15. GotShape(got') /\ InOrder(got') /\ got'.from = from
  <2>1. CASE Passes(noted, m.host)
    <3>1. got.held = <<>> /\ h = 0
      BY <1>5, <1>12, <2>1 DEF Passes
    <3>2. got' = [known |-> got.known, from |-> from, targets |-> got.targets, held |-> got.held,
                  pending |-> got.pending, delivered |-> all, arrived |-> n]
      <4>1. got' = [noted EXCEPT !.delivered = all]
        BY <1>7, <2>1
      <4> HIDE DEF noted
      <4> QED BY <1>12, <4>1
    <3>3. Len(all) = d + 1 /\ \A i \in 1 .. Len(all) : all[i] = i
      BY <1>10, <3>1
    <3>4. n = Len(all) + Len(got.held)
      <4>1. Len(got.held) = 0 /\ n = d + 1
        BY <1>4, <1>5, <1>11, <3>1
      <4> QED BY <1>4, <3>3, <4>1
    <3>5. \A i \in 1 .. Len(got.held) : got.held[i].n = Len(all) + i
      BY <3>1
    <3> QED BY <1>5, <1>10, <1>11, <3>2, <3>3, <3>4, <3>5 DEF GotShape, InOrder
  <2>2. CASE ~Passes(noted, m.host) /\ unknown
    <3>1. got' = [holding EXCEPT !.pending = pending]
      BY <1>7, <2>2
    <3> HIDE DEF holding
    <3>2. /\ GotShape(got') /\ got'.from = holding.from /\ got'.held = holding.held
          /\ got'.delivered = holding.delivered /\ got'.arrived = holding.arrived
      BY <1>14, <3>1 DEF GotShape
    <3> QED BY <1>14, <3>2 DEF InOrder
  <2>3. CASE ~Passes(noted, m.host) /\ ~unknown
    <3>1. got' = Drained(holding)
      BY <1>7, <2>3
    <3> HIDE DEF holding
    <3> QED BY <1>14, <3>1, DrainedKeeps
  <2> QED BY <2>1, <2>2, <2>3
<1>16. inbox' = Tail(inbox) /\ UNCHANGED <<around, host, returned, post>>
  BY DEF Arrive
<1>18. HostsRight' /\ AnswersArrive'
  BY <1>16, HostsKept, PostKept DEF MessagesInv
<1>19. \A w \in Wins : rights[w] \subseteq rights'[w]
  BY <1>16, RightsGrow
<1>20. Heard(got.from)'
  <2> HIDE DEF m, noted, holding
  <2> QED BY <1>8, <1>15, <1>19 DEF Heard
<1>21. Letters'
  <2> HIDE DEF m, noted, holding
  <2> DEFINE rest == Tail(inbox)
  <2>1. rest \in Seq(Messages) /\ \A i \in 1 .. Len(rest) : rest[i].host \in rights[rest[i].win]
    BY <1>1, TailOfLetters DEF Arrive
  <2>2. inbox' = rest
    BY <1>16
  <2> HIDE DEF rest
  <2>3. ASSUME NEW i \in 1 .. Len(rest) PROVE rest[i].host \in rights'[rest[i].win]
    <3>1. rest[i] \in Messages
      BY <2>1
    <3>2. rest[i].win \in Wins
      BY <3>1 DEF Messages
    <3> QED BY <1>19, <2>1, <3>2
  <2> QED BY <2>1, <2>2, <2>3 DEF Letters
<1> QED BY <1>15, <1>18, <1>20, <1>21 DEF MessagesInv

(* Where nothing arrives, what is on its way and what was heard stay right.*)
LEMMA StandAsBefore ==
  ASSUME Letters, Heard(got.from), UNCHANGED <<around, inbox>>, returned \subseteq returned',
         got'.from = got.from
  PROVE  Letters' /\ Heard(got.from)'
<1>1. \A w \in Wins : rights[w] \subseteq rights'[w]
  BY RightsGrow
<1>2. Heard(got.from)'
  BY <1>1 DEF Heard
<1>3. ASSUME NEW i \in 1 .. Len(inbox) PROVE inbox[i].win \in Wins
  <2>1. inbox[i] \in Messages
    BY DEF Letters
  <2> QED BY <2>1 DEF Messages
<1> QED BY <1>1, <1>2, <1>3 DEF Letters

(* A lookup that ends lets go what it held.                                *)
LEMMA AnswerKeeps ==
  ASSUME MessagesInv, NEW q, Answer(q) \/ LookupFails(q)
  PROVE  MessagesInv'
<1> USE DEF MessagesInv
<1>1. UNCHANGED <<around, host, returned, inbox, post>>
  BY DEF Answer, LookupFails
<1>2. PICK known, pending :
        LET told == [got EXCEPT !.known = known]
            done == [told EXCEPT !.pending = pending] IN
        got' \in {got, told, Drained(done)}
  <2>1. CASE Answer(q)
    BY <2>1 DEF Answer, GotShape
  <2>2. CASE LookupFails(q)
    BY <2>2 DEF LookupFails, GotShape
  <2> QED BY <2>1, <2>2
<1> DEFINE told == [got EXCEPT !.known = known]
           done == [told EXCEPT !.pending = pending]
<1>3. GotShape(told) /\ InOrder(told) /\ told.from = got.from
  <2>1. told = [known |-> known, from |-> got.from, targets |-> got.targets, held |-> got.held,
                pending |-> got.pending, delivered |-> got.delivered, arrived |-> got.arrived]
    BY DEF GotShape
  <2> HIDE DEF told
  <2>2. InOrder(got)
    OBVIOUS
  <2> QED BY <2>1, <2>2 DEF GotShape, InOrder
<1>4. GotShape(done) /\ InOrder(done) /\ done.from = got.from
  <2>1. done = [known |-> told.known, from |-> told.from, targets |-> told.targets, held |-> told.held,
                pending |-> pending, delivered |-> told.delivered, arrived |-> told.arrived]
    <3> HIDE DEF told
    <3> QED BY <1>3 DEF GotShape
  <2> HIDE DEF done, told
  <2> QED BY <1>3, <2>1 DEF GotShape, InOrder
<1>5. GotShape(got') /\ InOrder(got') /\ got'.from = got.from
  <2> HIDE DEF told, done
  <2>1. got' \in {got, told, Drained(done)}
    BY <1>2 DEF told, done
  <2> QED BY <1>3, <1>4, <2>1, DrainedKeeps
<1>6. HostsRight' /\ AnswersArrive'
  BY <1>1, HostsKept, PostKept
<1>7. Letters' /\ Heard(got.from)'
  BY <1>1, <1>5, StandAsBefore
<1> QED BY <1>5, <1>6, <1>7

(* The host a message is sent to is that of the window, when the page      *)
(* means the site the window shows and can know its host.                  *)
LEMMA SendKeeps ==
  ASSUME World, MessagesInv, NEW w \in Wins, NEW s \in Sites, NEW heard \in {got.from[w], None},
         NEW learnt, NativeSend(w, s, heard, learnt)
  PROVE  MessagesInv'
<1>1. UNCHANGED <<around, host, returned, inbox>>
  BY DEF NativeSend
<1>2. GotShape(got') /\ InOrder(got') /\ got'.from = got.from
  <2>1. PICK known, targets : got' = [got EXCEPT !.known = known, !.targets = targets]
    BY DEF NativeSend, MessagesInv, GotShape
  <2>2. got' = [known |-> known, from |-> got.from, targets |-> targets, held |-> got.held,
                pending |-> got.pending, delivered |-> got.delivered, arrived |-> got.arrived]
    BY <2>1 DEF MessagesInv, GotShape
  <2> QED BY <2>2 DEF MessagesInv, GotShape, InOrder
<1>3. AnswersArrive'
  <2> DEFINE dest == Destination(w, s, heard)
  <2>1. post' = [to |-> w, site |-> s, heard |-> heard, host |-> host[w], dest |-> dest, failed |-> FALSE]
    BY DEF NativeSend, Posted
  <2>2. Base(w)' = Base(w)
    BY <1>1 DEF around, Base, Kind
  <2>3. SUFFICES ASSUME s = host[w].site, Steady(w) \/ heard = host[w]
                 PROVE  dest = host[w]
    BY <1>1, <2>1, <2>2 DEF AnswersArrive, Steady
  <2>4. host[w] \in rights[w] /\ host[w] \in Hosts /\ (heard # None => heard \in rights[w])
    BY DEF MessagesInv, HostsRight, Heard
  <2>5. CASE host[w] = here
    BY <2>3, <2>5 DEF Destination
  <2>6. CASE host[w] # here /\ Stands(heard, s)
    <3>1. dest = heard
      BY <2>6 DEF Destination
    <3>2. heard \in rights[w] /\ heard.site = s
      BY <2>4, <2>6 DEF Stands
    <3> QED BY <2>3, <2>4, <3>1, <3>2 DEF rights
  <2>7. CASE host[w] # here /\ ~Stands(heard, s)
    <3>1. heard # host[w]
      BY <2>3, <2>4, <2>7 DEF Stands, World
    <3>2. Steady(w)
      BY <2>3, <3>1
    <3>3. CASE w = Parent
      <4>1. host[w] = owner
        BY <2>4, <3>3 DEF rights
      <4> QED BY <2>3, <2>7, <3>3, <4>1 DEF Destination
    <3>4. CASE w # Parent
      BY <2>3, <2>4, <2>7, <3>2, <3>4 DEF Destination, rights
    <3> QED BY <3>3, <3>4
  <2> QED BY <2>5, <2>6, <2>7
<1>4. HostsRight'
  BY <1>1, HostsKept DEF MessagesInv
<1>5. Letters' /\ Heard(got.from)'
  BY <1>1, <1>2, StandAsBefore DEF MessagesInv
<1> QED BY <1>2, <1>3, <1>4, <1>5 DEF MessagesInv

LEMMA PostKeeps ==
  ASSUME World, MessagesInv, NEW w \in Wins, NEW s \in Sites,
         PostMessage(w, s) \/ PostUnheard(w, s) \/ PostFails(w, s)
  PROVE  MessagesInv'
<1>1. CASE PostMessage(w, s)
  BY <1>1, SendKeeps DEF PostMessage
<1>2. CASE PostUnheard(w, s)
  BY <1>2, SendKeeps DEF PostUnheard
<1>3. CASE PostFails(w, s)
  <2>1. UNCHANGED <<around, host, returned, inbox>> /\ post'.failed
    BY <1>3 DEF PostFails, Posted
  <2>2. PICK known : got' = [got EXCEPT !.known = known]
    BY <1>3 DEF PostFails, MessagesInv, GotShape
  <2>3. GotShape(got') /\ InOrder(got') /\ got'.from = got.from
    BY <2>2 DEF MessagesInv, GotShape, InOrder
  <2>4. HostsRight' /\ AnswersArrive'
    BY <2>1, HostsKept DEF MessagesInv, AnswersArrive
  <2>5. Letters' /\ Heard(got.from)'
    BY <2>1, <2>3, StandAsBefore DEF MessagesInv
  <2> QED BY <2>3, <2>4, <2>5 DEF MessagesInv
<1> QED BY <1>1, <1>2, <1>3

(* Where a window goes, its new host is right: one that the documents      *)
(* around it send it to by definition; and one it goes to by itself, since *)
(* another site taints as the child of either.                             *)
LEMMA MoveKeeps ==
  ASSUME World, MessagesInv, NEW w \in Wins, NEW s \in Sites, IsSent(w, s) \/ GoesItself(w, s)
  PROVE  MessagesInv'
<1> PICK h : h = host'[w]
  OBVIOUS
<1>1. /\ w # Parent /\ returned \subseteq returned' /\ UNCHANGED <<around, inbox, got, post>>
      /\ host' = [host EXCEPT ![w] = h]
      /\ \/ h = HostFor(w, s)
         \/ h = Child(host[w], s) /\ Kind(w) # "top" /\ (s = TopSite => w \in returned')
  BY DEF IsSent, GoesItself, MessagesInv, HostsRight
<1>2. UNCHANGED <<owner, here>>
  BY <1>1 DEF around
<1>3. \A v \in Wins : rights[v] \subseteq rights'[v]
  BY <1>1, RightsGrow
<1>4. /\ Inside(owner) /\ Inside(here) /\ Inside(Base(w))
      /\ host[w] \in rights[w] /\ host[w] \in Hosts /\ (Kind(w) # "top" => host[w].top = TopSite)
  BY DEF MessagesInv, HostsRight, Base, Inside
<1>5. HostFor(w, s) \in Hosts /\ HostFor(w, s).site = s /\ (Kind(w) # "top" => HostFor(w, s).top = TopSite)
  BY <1>4 DEF HostFor, Main, Child, Hosts, Inside
<1>6. h \in Hosts /\ h.site = s /\ (Kind(w) # "top" => h.top = TopSite)
  <2>1. CASE h = HostFor(w, s)
    BY <1>5, <2>1
  <2>2. CASE h = Child(host[w], s) /\ Kind(w) # "top"
    BY <1>4, <2>2 DEF Child, Hosts
  <2> QED BY <1>1, <2>1, <2>2
<1>7. /\ Base(w)' = Base(w) /\ Kind(w)' = Kind(w) /\ HostFor(w, s)' = HostFor(w, s)
      /\ Steady(w)' => Steady(w)
  <2>1. Base(w)' = Base(w) /\ Kind(w)' = Kind(w)
    BY <1>2 DEF Base, Kind
  <2>2. Steady(w)' => Steady(w)
    BY <1>1, <2>1 DEF Steady
  <2> QED BY <2>1, <2>2 DEF HostFor
<1>8. ASSUME Steady(w)' PROVE h = HostFor(w, s)
  <2>1. SUFFICES ASSUME h = Child(host[w], s), Kind(w) # "top", s = TopSite => w \in returned'
                 PROVE  h = Child(Base(w), s)
    BY <1>1 DEF HostFor
  <2>2. host[w] = Child(Base(w), host[w].site)
    BY <1>1, <1>4, <1>7, <1>8, <2>1 DEF rights, HostFor
  <2>3. s = TopSite => Base(w).tainted
    BY <1>7, <1>8, <2>1 DEF Steady
  <2>4. host[w].tainted = (Base(w).tainted \/ Base(w).site # TopSite \/ host[w].site # TopSite)
    BY <1>4, <2>2 DEF Child, Inside
  <2> QED BY <1>4, <2>1, <2>3, <2>4 DEF Child, Inside, Hosts
<1>9. h \in rights'[w]
  BY <1>1, <1>2, <1>6, <1>7, <1>8 DEF rights
<1>10. HostsRight'
  BY <1>1, <1>2, <1>3, <1>6, <1>9 DEF MessagesInv, HostsRight, Inside, Kind
<1>11. AnswersArrive'
  BY <1>1, PostKept DEF MessagesInv
<1>12. Letters' /\ Heard(got.from)'
  BY <1>1, StandAsBefore DEF MessagesInv
<1>13. GotShape(got') /\ InOrder(got')
  BY <1>1 DEF MessagesInv
<1> QED BY <1>10, <1>11, <1>12, <1>13 DEF MessagesInv

LEMMA MessagesStep == World /\ MessagesInv /\ [MessagesNext]_messageVars => MessagesInv'
<1> SUFFICES ASSUME World, MessagesInv, [MessagesNext]_messageVars PROVE MessagesInv'
  OBVIOUS
<1>1. CASE UNCHANGED messageVars
  <2>1. UNCHANGED <<around, host, returned, inbox, got, post>>
    BY <1>1 DEF messageVars
  <2>2. HostsRight' /\ AnswersArrive' /\ Letters' /\ Heard(got.from)'
    BY <2>1, HostsKept, PostKept, StandAsBefore DEF MessagesInv
  <2> QED BY <2>1, <2>2 DEF MessagesInv
<1>2. ASSUME NEW w \in Wins, Write(w) PROVE MessagesInv'
  <2> DEFINE m == [win |-> w, host |-> host[w]]
  <2>1. m \in Messages /\ m.win = w /\ m.host = host[w] /\ m.host \in rights[w]
    BY DEF Messages, MessagesInv, HostsRight
  <2>2. inbox' = Append(inbox, m) /\ UNCHANGED <<around, host, returned, got, post>>
    BY <1>2 DEF Write
  <2> HIDE DEF m
  <2>3. inbox \in Seq(Messages) /\ Len(inbox) \in Nat
    BY DEF MessagesInv, Letters
  <2>4. /\ inbox' \in Seq(Messages) /\ Len(inbox') = Len(inbox) + 1
        /\ \A i \in 1 .. Len(inbox) : inbox'[i] = inbox[i]
        /\ inbox'[Len(inbox) + 1] = m
    BY <2>1, <2>2, <2>3, AppendProperties
  <2>5. ASSUME NEW i \in 1 .. Len(inbox') PROVE inbox'[i].host \in rights[inbox'[i].win]
    <3>1. CASE i \in 1 .. Len(inbox)
      BY <2>4, <3>1 DEF MessagesInv, Letters
    <3>2. CASE i = Len(inbox) + 1
      BY <2>1, <2>4, <3>2
    <3> QED BY <2>3, <2>4, <3>1, <3>2
  <2>6. \A v \in Wins : rights[v] \subseteq rights'[v]
    BY <2>2, RightsGrow
  <2>7. ASSUME NEW i \in 1 .. Len(inbox') PROVE inbox'[i].win \in Wins
    <3>1. inbox'[i] \in Messages
      BY <2>4
    <3> QED BY <3>1 DEF Messages
  <2>8. Letters'
    BY <2>4, <2>5, <2>6, <2>7 DEF Letters
  <2>9. HostsRight' /\ AnswersArrive'
    BY <2>2, HostsKept, PostKept DEF MessagesInv
  <2>10. Heard(got.from)'
    BY <2>2, <2>6 DEF MessagesInv, Heard
  <2> QED BY <2>2, <2>8, <2>9, <2>10 DEF MessagesInv
<1>3. ASSUME NEW w \in Wins, NEW s \in Sites, IsSent(w, s) \/ GoesItself(w, s) PROVE MessagesInv'
  BY <1>3, MoveKeeps
<1>4. ASSUME NEW w \in Wins, NEW s \in Sites, PostMessage(w, s) \/ PostUnheard(w, s) \/ PostFails(w, s)
      PROVE  MessagesInv'
  BY <1>4, PostKeeps
<1>5. ASSUME NEW q \in asks, Answer(q) \/ LookupFails(q) PROVE MessagesInv'
  BY <1>5, AnswerKeeps
<1> QED BY <1>1, <1>2, <1>3, <1>4, <1>5, ArriveKeeps DEF MessagesNext

LEMMA MessagesStart == World /\ MessagesInit => MessagesInv
<1> SUFFICES ASSUME World, MessagesInit PROVE MessagesInv
  OBVIOUS
<1>1. GotShape(got) /\ InOrder(got) /\ Heard(got.from)
  BY DEF MessagesInit, GotShape, InOrder, Heard
<1>2. Inside(owner) /\ Inside(here)
  <2>1. Inside(owner)
    BY DEF MessagesInit, Inside, Hosts, World
  <2>2. PICK s \in Sites : here = Child(owner, s)
    BY DEF MessagesInit
  <2> QED BY <2>1, <2>2 DEF Inside, Hosts, Child
<1>3. PICK shows \in [Wins -> Sites] :
        host = [w \in Wins |-> IF w = Parent THEN owner ELSE HostFor(w, shows[w])]
  BY DEF MessagesInit
<1>4. ASSUME NEW w \in Wins
      PROVE  host[w] \in Hosts /\ host[w] \in rights[w] /\ (Kind(w) # "top" => host[w].top = TopSite)
  <2>1. CASE w = Parent
    BY <1>2, <1>3, <2>1 DEF rights, Inside
  <2>2. CASE w # Parent
    <3>1. Inside(Base(w)) /\ host[w] = HostFor(w, shows[w]) /\ shows[w] \in Sites
      BY <1>2, <1>3, <2>2 DEF Base
    <3>2. host[w] \in Hosts /\ host[w].site = shows[w] /\ (Kind(w) # "top" => host[w].top = TopSite)
      BY <3>1 DEF HostFor, Main, Child, Hosts, Inside
    <3> QED BY <2>2, <3>1, <3>2 DEF rights
  <2> QED BY <2>1, <2>2
<1>5. HostsRight
  <2>1. host \in [Wins -> Hosts]
    BY <1>3, <1>4
  <2> QED BY <1>2, <1>4, <2>1 DEF HostsRight
<1>6. Letters /\ AnswersArrive
  BY DEF MessagesInit, Letters, AnswersArrive
<1> QED BY <1>1, <1>5, <1>6 DEF MessagesInv

(* Messages are delivered in the order they arrived, and answers go where  *)
(* they would have gone without the gate (message-gate.js:10-11,           *)
(* message-target.js:7-8).                                                 *)
THEOREM MessagesUnfelt ==
  ASSUME TopSite \in Sites, Parent \notin Frames \cup Siblings \cup Popups,
         None \notin [site : Sites, top : Sites, tainted : BOOLEAN]
  PROVE  MessagesSpec => []GateIsTransparent
<1>1. World
  BY DEF World, Hosts
<1>2. MessagesInv => GateIsTransparent
  <2> SUFFICES ASSUME MessagesInv PROVE DeliveredInOrder
    BY DEF MessagesInv, GateIsTransparent
  <2> DEFINE d == Len(got.delivered)
             h == Len(got.held)
             tail == [i \in DOMAIN got.held |-> got.held[i].n]
             all == got.delivered \o tail
  <2>1. InOrder(got)
    BY DEF MessagesInv
  <2>2. d \in Nat /\ h \in Nat /\ got.arrived \in Nat /\ got.arrived = d + h
    BY <2>1, Numbers
  <2>3. got.delivered \in Seq(Nat) /\ Len(got.delivered) = d /\ \A i \in 1 .. d : got.delivered[i] = i
    BY <2>1 DEF InOrder
  <2>4. DOMAIN got.held = 1 .. h /\ \A i \in 1 .. h : got.held[i].n = d + i
    BY <2>1 DEF InOrder
  <2> HIDE DEF d, h
  <2>5. tail \in Seq(Nat) /\ Len(tail) = h /\ \A i \in 1 .. h : tail[i] = d + i
    <3>1. tail \in [1 .. h -> Nat]
      BY <2>2, <2>4
    <3>2. \A i \in 1 .. h : tail[i] = d + i
      BY <2>4
    <3> HIDE DEF tail
    <3> QED BY <2>2, <3>1, <3>2
  <2> HIDE DEF tail
  <2>8. Counts(got.delivered, 0, d) /\ Counts(tail, d, h)
    BY <2>2, <2>3, <2>5 DEF Counts
  <2>9. Counts(all, 0, d + h)
    BY <2>2, <2>8, Joined
  <2> HIDE DEF all
  <2>6. all \in Seq(Nat) /\ Len(all) = d + h /\ \A i \in 1 .. d + h : all[i] = i
    BY <2>9 DEF Counts
  <2>7. all = [i \in 1 .. got.arrived |-> i]
    BY <2>2, <2>6
  <2> QED BY <2>7 DEF DeliveredInOrder, all, tail
<1>3. MessagesInit => MessagesInv
  BY <1>1, MessagesStart
<1>4. MessagesInv /\ [MessagesNext]_messageVars => MessagesInv'
  BY <1>1, MessagesStep
<1> QED BY <1>2, <1>3, <1>4, PTL DEF MessagesSpec

-----------------------------------------------------------------------------
(* Workers of pages.                                                       *)

States == {"no", "sent", "waiting", "source", "nothing"}

(* The shape of the state: who waits are requests, and nothing else.       *)
WorkersTypeOK ==
  /\ request \in [Request -> States]
  /\ store = [entries |-> store.entries, failed |-> store.failed, waiters |-> store.waiters]
  /\ store.waiters \subseteq Request
  /\ upload \in [Workers -> {"no", "sent", "done"}]

(* A script is asked for only once its upload has begun.                   *)
Started == \A q \in Request : upload[q[1]] = "no" => request[q] = "no"

WorkersInv == WorkersTypeOK /\ Started /\ WaitersHaveNothing

LEMMA WorkersStart == WorkersInit => WorkersInv
BY DEF WorkersInit, WorkersInv, WorkersTypeOK, Started, WaitersHaveNothing, Of, States, Request

(* Whatever an upload ends with, those who wait for it are answered, and   *)
(* the others wait for another worker.                                     *)
LEMMA KeptInv ==
  ASSUME WorkersInv, NEW w \in Workers, NEW entries, NEW failed, Kept(w, entries, failed),
         upload' = [upload EXCEPT ![w] = "done"],
         entries \ store.entries \subseteq {w}, failed \ store.failed \subseteq {w}
  PROVE  WorkersInv'
<1>1. WorkersTypeOK'
  BY DEF Kept, WorkersInv, WorkersTypeOK, States, Of
<1>2. ASSUME NEW v \in Workers, NEW q \in Of(v)'
      PROVE  request'[q] = "waiting" /\ v \notin store'.entries \cup store'.failed
  <2>1. q \in store.waiters /\ q[1] = v /\ v # w
    BY <1>2 DEF Of, Kept
  <2>2. q \in Request /\ q \notin Of(w)
    BY <2>1 DEF Of, WorkersInv, WorkersTypeOK
  <2>3. request'[q] = request[q]
    BY <2>2 DEF Kept
  <2>4. request[q] = "waiting" /\ v \notin store.entries \cup store.failed
    BY <2>1 DEF WorkersInv, WaitersHaveNothing, Of
  <2> QED BY <2>1, <2>3, <2>4 DEF Kept
<1>3. Started'
  BY DEF Started, Kept, WorkersInv, WorkersTypeOK, Of, Request
<1> QED BY <1>1, <1>2, <1>3 DEF WorkersInv, WaitersHaveNothing

(* A request that waits is one that is neither asked for again nor told    *)
(* anything but through its place among the waiters.                       *)
LEMMA WorkersStep == WorkersInv /\ [WorkersNext]_workerVars => WorkersInv'
<1> SUFFICES ASSUME WorkersInv, [WorkersNext]_workerVars PROVE WorkersInv'
  OBVIOUS
<1>1. CASE UNCHANGED workerVars
  BY <1>1 DEF workerVars, WorkersInv, WorkersTypeOK, Started, WaitersHaveNothing, Of
<1>2. ASSUME NEW w \in Workers, Uploaded(w) PROVE WorkersInv'
  <2>1. Kept(w, store.entries \cup {w}, store.failed)
    BY <1>2 DEF Uploaded
  <2> QED BY <2>1, <1>2, KeptInv DEF Uploaded
<1>3. ASSUME NEW w \in Workers, Failed(w) PROVE WorkersInv'
  <2> DEFINE failed == IF Cardinality(store.failed) < MaxEntries THEN store.failed \cup {w} ELSE store.failed
  <2>1. Kept(w, store.entries, failed)
    BY <1>3 DEF Failed
  <2>2. failed \ store.failed \subseteq {w}
    OBVIOUS
  <2> HIDE DEF failed
  <2> QED BY <2>1, <2>2, <1>3, KeptInv DEF Failed
<1>4. ASSUME NEW w \in Workers, Collect(w) PROVE WorkersInv'
  BY <1>4 DEF Collect, WorkersInv, WorkersTypeOK, Started, WaitersHaveNothing, Of
<1>5. ASSUME NEW w \in Workers, NEW r \in Copies, CreateWorker(w, r) \/ AskAgain(w, r)
      PROVE  WorkersInv'
  <2> DEFINE q == <<w, r>>
  <2>1. q \in Request /\ q[1] = w
    BY DEF Request
  <2>2. request' = [request EXCEPT ![q] = "sent"] /\ store' = store
    BY <1>5 DEF CreateWorker, AskAgain
  <2>3. upload' = [upload EXCEPT ![w] = "sent"] \/ (upload' = upload /\ upload[w] # "no")
    BY <1>5 DEF CreateWorker, AskAgain
  <2>4. request[q] = "no"
    BY <1>5, <2>1 DEF CreateWorker, AskAgain, WorkersInv, Started
  <2>5. q \notin store.waiters
    BY <2>1, <2>4 DEF WorkersInv, WaitersHaveNothing, Of
  <2> HIDE DEF q
  <2>6. WorkersTypeOK'
    BY <2>2, <2>3 DEF WorkersInv, WorkersTypeOK, States
  <2>7. Started'
    BY <2>1, <2>2, <2>3 DEF WorkersInv, WorkersTypeOK, Started, Request
  <2>8. WaitersHaveNothing'
    BY <2>2, <2>5 DEF WorkersInv, WorkersTypeOK, WaitersHaveNothing, Of
  <2> QED BY <2>6, <2>7, <2>8 DEF WorkersInv
<1>6. ASSUME NEW w \in Workers, NEW r \in Copies, Wait(w, r) PROVE WorkersInv'
  <2> DEFINE q == <<w, r>>
  <2>1. q \in Request /\ q[1] = w
    BY DEF Request
  <2>2. request[q] = "sent" /\ request' = [request EXCEPT ![q] = Answers(w)] /\ upload' = upload
    BY <1>6 DEF Wait
  <2>3. store' = [store EXCEPT !.waiters = IF Answers(w) = "waiting" THEN @ \cup {q} ELSE @]
    BY <1>6 DEF Wait
  <2>4. Answers(w) \in States \ {"no"} /\ (Answers(w) = "waiting" => w \notin store.entries \cup store.failed)
    BY DEF Answers, States
  <2>5. q \notin store.waiters
    BY <2>1, <2>2 DEF WorkersInv, WaitersHaveNothing, Of
  <2> HIDE DEF q
  <2>6. WorkersTypeOK'
    BY <2>1, <2>2, <2>3, <2>4 DEF WorkersInv, WorkersTypeOK
  <2>7. Started'
    BY <2>1, <2>2, <2>4 DEF WorkersInv, WorkersTypeOK, Started
  <2>8. WaitersHaveNothing'
    BY <2>1, <2>2, <2>3, <2>4, <2>5 DEF WorkersInv, WorkersTypeOK, WaitersHaveNothing, Of
  <2> QED BY <2>6, <2>7, <2>8 DEF WorkersInv
<1>7. ASSUME NEW w \in Workers, NEW r \in Copies, Timeout(w, r) PROVE WorkersInv'
  <2> DEFINE q == <<w, r>>
  <2>1. q \in Request /\ q[1] = w
    BY DEF Request
  <2>2. request' = [request EXCEPT ![q] = "nothing"] /\ upload' = upload /\ q \in store.waiters
    BY <1>7 DEF Timeout
  <2>3. store' = [store EXCEPT !.waiters = @ \ {q}]
    BY <1>7 DEF Timeout
  <2>4. request[q] = "waiting"
    BY <2>1, <2>2 DEF WorkersInv, WaitersHaveNothing, Of
  <2> HIDE DEF q
  <2>6. WorkersTypeOK'
    BY <2>1, <2>2, <2>3 DEF WorkersInv, WorkersTypeOK, States
  <2>7. Started'
    BY <2>1, <2>2, <2>4 DEF WorkersInv, WorkersTypeOK, Started
  <2>8. WaitersHaveNothing'
    BY <2>1, <2>2, <2>3 DEF WorkersInv, WorkersTypeOK, WaitersHaveNothing, Of
  <2> QED BY <2>6, <2>7, <2>8 DEF WorkersInv
<1> QED BY <1>1, <1>2, <1>3, <1>4, <1>5, <1>6, <1>7 DEF WorkersNext

(* Whoever waits for a worker's source waits for something that is not     *)
(* there yet (worker-store.cjs:35, 40).                                    *)
THEOREM NobodyWaitsInVain == WorkersSpec => []WaitersHaveNothing
<1>1. WorkersInv => WaitersHaveNothing
  BY DEF WorkersInv
<1> QED BY WorkersStart, WorkersStep, <1>1, PTL DEF WorkersSpec

-----------------------------------------------------------------------------
(* Connections.                                                            *)

Busy(places) == {t \in Tunnels : places[t] \in {"looking", "connecting", "open"}}

EgressCounted == IsFiniteSet(Tunnels) /\ MaxConnections \in Nat

(* Below the limit there is room for one more: what Taken counts is at     *)
(* least the tunnels that have a place or will have one.                   *)
LEMMA OneMore ==
  ASSUME EgressCounted, NEW p, NEW q, NEW t, ~Full(p), Busy(q) \subseteq Busy(p) \cup {t}
  PROVE  Cardinality(Busy(q)) <= MaxConnections
<1> DEFINE A == {u \in Tunnels : p[u] \in {"looking", "connecting"}}
           B == {u \in Tunnels : p[u] \in {"connecting", "open"}}
<1>1. IsFiniteSet(A) /\ IsFiniteSet(B)
  <2>1. A \subseteq Tunnels /\ B \subseteq Tunnels
    OBVIOUS
  <2> HIDE DEF A, B
  <2> QED BY <2>1, FS_Subset DEF EgressCounted
<1>2. Busy(p) = A \cup B
  BY DEF Busy
<1>3. Cardinality(A) + Cardinality(B) < MaxConnections
  <2>1. Cardinality(A) + Cardinality(B) = Taken(p)
    BY DEF Taken
  <2> HIDE DEF A, B
  <2>2. Cardinality(A) \in Nat /\ Cardinality(B) \in Nat
    BY <1>1, FS_CardinalityType
  <2> QED BY <2>1, <2>2 DEF Full, EgressCounted
<1> HIDE DEF A, B
<1>4. /\ IsFiniteSet(A \cup B)
      /\ Cardinality(A \cup B) = Cardinality(A) + Cardinality(B) - Cardinality(A \cap B)
  BY <1>1, FS_Union
<1>5. Cardinality(A) \in Nat /\ Cardinality(B) \in Nat /\ Cardinality(A \cap B) \in Nat
  <2>1. IsFiniteSet(A \cap B)
    BY <1>1, FS_Intersection
  <2> QED BY <1>1, <2>1, FS_CardinalityType
<1>6. /\ IsFiniteSet(A \cup B \cup {t})
      /\ Cardinality(A \cup B \cup {t}) <= Cardinality(A \cup B) + 1
  <2>1. Cardinality(A \cup B) \in Nat
    BY <1>4, FS_CardinalityType
  <2>2. ASSUME NEW C, IsFiniteSet(C), Cardinality(C) \in Nat
        PROVE  IsFiniteSet(C \cup {t}) /\ Cardinality(C \cup {t}) <= Cardinality(C) + 1
    <3>1. /\ IsFiniteSet(C \cup {t})
          /\ Cardinality(C \cup {t}) = IF t \in C THEN Cardinality(C) ELSE Cardinality(C) + 1
      BY <2>2, FS_AddElement
    <3> QED BY <2>2, <3>1
  <2> QED BY <1>4, <2>1, <2>2
<1>7. Cardinality(Busy(q)) \in Nat /\ Cardinality(Busy(q)) <= Cardinality(A \cup B \cup {t})
  <2>1. IsFiniteSet(Busy(q)) /\ Cardinality(Busy(q)) <= Cardinality(A \cup B \cup {t})
    BY <1>2, <1>6, FS_Subset
  <2> QED BY <2>1, FS_CardinalityType
<1>8. Cardinality(A \cup B \cup {t}) \in Nat
  BY <1>6, FS_CardinalityType
<1> QED BY <1>3, <1>4, <1>5, <1>6, <1>7, <1>8 DEF EgressCounted

LEMMA NoMore ==
  ASSUME EgressCounted, NEW p, NEW q, Cardinality(Busy(p)) <= MaxConnections, Busy(q) \subseteq Busy(p)
  PROVE  Cardinality(Busy(q)) <= MaxConnections
<1>1. IsFiniteSet(Busy(p)) /\ IsFiniteSet(Busy(q))
  <2>1. Busy(p) \subseteq Tunnels /\ Busy(q) \subseteq Tunnels
    BY DEF Busy
  <2> QED BY <2>1, FS_Subset DEF EgressCounted
<1>2. Cardinality(Busy(q)) <= Cardinality(Busy(p))
  BY <1>1, FS_Subset
<1>3. Cardinality(Busy(p)) \in Nat /\ Cardinality(Busy(q)) \in Nat
  BY <1>1, FS_CardinalityType
<1> QED BY <1>2, <1>3 DEF EgressCounted

Places == {"idle", "waiting", "looking", "connecting", "open", "refused"}

EgressInv ==
  /\ at \in [Tunnels -> Places]
  /\ Cardinality(Busy(at)) <= MaxConnections
  /\ refused >= MaxConnections

(* A place that is given to the first of the queue is given below the      *)
(* limit, counted after the socket that wakes it has gone.                 *)
LEMMA WokenKeeps ==
  ASSUME EgressCounted, EgressInv, NEW places \in [Tunnels -> Places], Woken(places),
         Busy(places) \subseteq Busy(at), refused' = refused
  PROVE  EgressInv'
<1>1. CASE at' = places
  BY <1>1, NoMore DEF EgressInv
<1>2. CASE at' # places
  <2> DEFINE h == Head(waiters)
  <2>1. ~Full(places) /\ at' = [places EXCEPT ![h] = "looking"]
    BY <1>2 DEF Woken
  <2> HIDE DEF h
  <2>2. Busy(at') \subseteq Busy(places) \cup {h} /\ at' \in [Tunnels -> Places]
    BY <2>1 DEF Busy, Places
  <2>3. Cardinality(Busy(at')) <= MaxConnections
    BY <2>1, <2>2, OneMore
  <2> QED BY <2>2, <2>3 DEF EgressInv
<1> QED BY <1>1, <1>2

LEMMA EgressStep == EgressCounted /\ EgressInv /\ [EgressNext]_egressVars => EgressInv'
<1> SUFFICES ASSUME EgressCounted, EgressInv, [EgressNext]_egressVars PROVE EgressInv'
  OBVIOUS
<1>1. CASE UNCHANGED egressVars
  BY <1>1 DEF egressVars, EgressInv, Busy
<1>2. ASSUME NEW t \in Tunnels, \E k \in {"tunnel", "request", "upgrade"} : Ask(t, k) PROVE EgressInv'
  <2>1. refused' = refused
    BY <1>2 DEF Ask
  <2>2. CASE Full(at)
    <3>1. at' = [at EXCEPT ![t] = "waiting"]
      BY <1>2, <2>2 DEF Ask
    <3>2. Busy(at') \subseteq Busy(at) /\ at' \in [Tunnels -> Places]
      BY <3>1 DEF Busy, EgressInv, Places
    <3> QED BY <2>1, <3>2, NoMore DEF EgressInv
  <2>3. CASE ~Full(at)
    <3>1. at' = [at EXCEPT ![t] = "looking"]
      BY <1>2, <2>3 DEF Ask
    <3>2. Busy(at') \subseteq Busy(at) \cup {t} /\ at' \in [Tunnels -> Places]
      BY <3>1 DEF Busy, EgressInv, Places
    <3> QED BY <2>1, <2>3, <3>2, OneMore DEF EgressInv
  <2> QED BY <2>2, <2>3
(* A tunnel that has a place keeps it, or gives it up.                     *)
<1>3. ASSUME NEW t \in Tunnels,
             Resolved(t) \/ Blocked(t) \/ ClientGoes(t) \/ RequestConnected(t) \/ UpgradeConnected(t)
      PROVE  EgressInv'
  <2>1. refused' = refused
    BY <1>3 DEF Resolved, Blocked, ClientGoes, RequestConnected, UpgradeConnected, Connects, Stays
  <2>2. Busy(at') \subseteq Busy(at) /\ at' \in [Tunnels -> Places]
    BY <1>3 DEF Resolved, Blocked, ClientGoes, RequestConnected, UpgradeConnected, Connects, Stays,
                Busy, EgressInv, Places
  <2> QED BY <2>1, <2>2, NoMore DEF EgressInv
<1>4. ASSUME NEW t \in Tunnels, NEW how \in {"idle", "refused"}, Leave(t, how), refused' = refused
      PROVE  EgressInv'
  <2> DEFINE places == [at EXCEPT ![t] = how]
  <2>1. places \in [Tunnels -> Places] /\ Busy(places) \subseteq Busy(at)
    BY DEF EgressInv, Places, Busy
  <2>2. Woken(places)
    BY <1>4 DEF Leave
  <2> HIDE DEF places
  <2> QED BY <1>4, <2>1, <2>2, WokenKeeps
<1>5. ASSUME NEW t \in Tunnels, TunnelConnected(t) PROVE EgressInv'
  <2>1. refused' = refused
    BY <1>5 DEF TunnelConnected, Connects
  <2>2. CASE client[t]
    <3>1. at[t] = "connecting" /\ at' = [at EXCEPT ![t] = "open"]
      BY <1>5, <2>2 DEF TunnelConnected, Connects, Stays
    <3>2. Busy(at') \subseteq Busy(at) /\ at' \in [Tunnels -> Places]
      BY <3>1 DEF Busy, EgressInv, Places
    <3> QED BY <2>1, <3>2, NoMore DEF EgressInv
  <2>3. CASE ~client[t]
    BY <1>4, <1>5, <2>1, <2>3 DEF TunnelConnected
  <2> QED BY <2>2, <2>3
<1>6. ASSUME NEW t \in Tunnels, ConnectFails(t) \/ Closes(t) PROVE EgressInv'
  BY <1>4, <1>6 DEF ConnectFails, Closes
<1>7. ASSUME NEW t \in Tunnels, WaitOver(t) PROVE EgressInv'
  <2>1. CASE LooksOnce(t)
    <3>1. at[t] = "waiting" /\ at' = [at EXCEPT ![t] = "refused"] /\ refused' = Taken(at)
      BY <1>7, <2>1 DEF WaitOver
    <3>2. Busy(at') \subseteq Busy(at) /\ at' \in [Tunnels -> Places]
      BY <3>1 DEF Busy, EgressInv, Places
    <3>3. refused' >= MaxConnections
      BY <2>1, <3>1 DEF LooksOnce, Full
    <3> QED BY <3>2, <3>3, NoMore DEF EgressInv
  <2>2. CASE ~LooksOnce(t)
    <3>1. at' = [at EXCEPT ![t] = "looking"] /\ refused' = refused
      BY <1>7, <2>2 DEF WaitOver
    <3>2. Busy(at') \subseteq Busy(at) \cup {t} /\ at' \in [Tunnels -> Places]
      BY <3>1 DEF Busy, EgressInv, Places
    <3> QED BY <2>2, <3>1, <3>2, OneMore DEF EgressInv, LooksOnce
  <2> QED BY <2>1, <2>2
<1> QED BY <1>1, <1>2, <1>3, <1>5, <1>6, <1>7 DEF EgressNext

LEMMA EgressStart == EgressCounted /\ EgressInit => EgressInv
<1> SUFFICES ASSUME EgressCounted, EgressInit PROVE EgressInv
  OBVIOUS
<1>1. at = [t \in Tunnels |-> "idle"] /\ refused = MaxConnections
  BY DEF EgressInit
<1>2. Busy(at) = {}
  BY <1>1 DEF Busy
<1>3. Cardinality(Busy(at)) <= MaxConnections
  BY <1>2, FS_EmptySet DEF EgressCounted
<1> QED BY <1>1, <1>3 DEF EgressInv, Places, EgressCounted

(* Never more sockets than the limit, and nobody refused below it, however *)
(* waits, lookups and closing sockets interleave (egress.cjs:96-98).       *)
THEOREM LimitHolds ==
  ASSUME IsFiniteSet(Tunnels), MaxConnections \in Nat
  PROVE  EgressSpec => []LimitIsExact
<1>1. EgressCounted
  BY DEF EgressCounted
<1>2. EgressInv => LimitIsExact
  BY DEF EgressInv, LimitIsExact, SocketsBounded, RefusedOnlyWhenFull, Busy, Where
<1>3. EgressInit => EgressInv
  BY <1>1, EgressStart
<1>4. EgressInv /\ [EgressNext]_egressVars => EgressInv'
  BY <1>1, EgressStep
<1> QED BY <1>2, <1>3, <1>4, PTL DEF EgressSpec

-----------------------------------------------------------------------------
(* The pool of tunnels (TunnelPool).                                       *)
PoolWorld == MaxSockets \in Nat /\ NoSession \notin Sessions

Place == [k : {"none", "free"}] \cup [k : {"opening", "busy"}, of : PoolRequests]

(* The agent: what has a place is finite and within the limit.             *)
TunnelPlaces ==
  /\ tunnel \in [H1Tunnels -> Place] /\ line \in Seq(PoolRequests)
  /\ IsFiniteSet(Placed) /\ Cardinality(Placed) <= MaxSockets

(* The pool: the session in the map is the only one that is open, and      *)
(* another one opens only while there is none.                             *)
OneSession ==
  /\ session \in [Sessions -> {"unused", "opening", "open", "leaving", "stray", "closed"}]
  /\ current \in Sessions \cup {NoSession}
  /\ \A s \in Sessions : session[s] = "open" => current = s
  /\ \A s, u \in Sessions : session[s] = "opening" /\ session[u] = "opening" => s = u
  /\ current # NoSession => \A s \in Sessions : session[s] # "opening"

-----------------------------------------------------------------------------
(* A change of places that takes none that is new, and one that takes one. *)
LEMMA NoneTaken ==
  ASSUME IsFiniteSet(Placed), Cardinality(Placed) <= MaxSockets, MaxSockets \in Nat,
         Placed' \subseteq Placed
  PROVE  IsFiniteSet(Placed') /\ Cardinality(Placed') <= MaxSockets
<1>1. IsFiniteSet(Placed') /\ Cardinality(Placed') <= Cardinality(Placed)
  BY FS_Subset
<1>2. Cardinality(Placed) \in Nat /\ Cardinality(Placed') \in Nat
  BY <1>1, FS_CardinalityType
<1> QED BY <1>1, <1>2

LEMMA OneTaken ==
  ASSUME IsFiniteSet(Placed), Cardinality(Placed) < MaxSockets, MaxSockets \in Nat,
         NEW t, Placed' = Placed \cup {t}
  PROVE  IsFiniteSet(Placed') /\ Cardinality(Placed') <= MaxSockets
<1>1. /\ IsFiniteSet(Placed \cup {t})
      /\ Cardinality(Placed \cup {t}) =
           IF t \in Placed THEN Cardinality(Placed) ELSE Cardinality(Placed) + 1
  BY FS_AddElement
<1>2. Cardinality(Placed) \in Nat
  BY FS_CardinalityType
<1> QED BY <1>1, <1>2

-----------------------------------------------------------------------------
LEMMA TunnelPlacesStart == PoolWorld /\ PoolInit => TunnelPlaces
<1>1. SUFFICES ASSUME PoolWorld, PoolInit PROVE TunnelPlaces
  OBVIOUS
<1>2. tunnel \in [H1Tunnels -> Place] /\ line \in Seq(PoolRequests)
  BY <1>1 DEF PoolInit, Place
<1>3. Placed = {}
  BY <1>1 DEF PoolInit, Placed
<1>4. IsFiniteSet(Placed) /\ Cardinality(Placed) = 0
  BY <1>3, FS_EmptySet
<1> QED BY <1>1, <1>2, <1>4 DEF TunnelPlaces, PoolWorld

(* A place changes hands, or is given up.                                  *)
LEMMA Passed ==
  ASSUME PoolWorld, TunnelPlaces, NEW t \in H1Tunnels, NEW p \in Place,
         tunnel[t].k # "none" \/ p.k = "none",
         tunnel' = [tunnel EXCEPT ![t] = p], line' \in Seq(PoolRequests)
  PROVE  TunnelPlaces'
<1>1. tunnel' \in [H1Tunnels -> Place]
  BY DEF TunnelPlaces
<1>2. Placed' \subseteq Placed
  BY DEF TunnelPlaces, Placed
<1> QED BY <1>1, <1>2, NoneTaken DEF TunnelPlaces, PoolWorld

LEMMA RequestPlaced ==
  ASSUME PoolWorld, TunnelPlaces, NEW r \in PoolRequests, NEW a, AddRequest(r, a)
  PROVE  TunnelPlaces'
<1>1. CASE IdleTunnels # {}
  <2>1. PICK t \in IdleTunnels : tunnel' = [tunnel EXCEPT ![t] = [k |-> "busy", of |-> r]] /\ UNCHANGED line
    BY <1>1 DEF AddRequest
  <2>2. t \in H1Tunnels /\ tunnel[t].k # "none"
    BY <2>1 DEF IdleTunnels
  <2>3. [k |-> "busy", of |-> r] \in Place /\ line' \in Seq(PoolRequests)
    BY <2>1 DEF Place, TunnelPlaces
  <2> QED BY <2>1, <2>2, <2>3, Passed
<1>2. CASE IdleTunnels = {} /\ Cardinality(Placed) < MaxSockets
  <2>1. PICK t \in H1Tunnels : /\ tunnel' = [tunnel EXCEPT ![t] = [k |-> "opening", of |-> r]]
                               /\ UNCHANGED line
    BY <1>2 DEF AddRequest
  <2>2. tunnel' \in [H1Tunnels -> Place] /\ Placed' = Placed \cup {t}
    <3>1. [k |-> "opening", of |-> r] \in Place
      BY DEF Place
    <3> QED BY <2>1, <3>1 DEF TunnelPlaces, Placed
  <2>3. IsFiniteSet(Placed') /\ Cardinality(Placed') <= MaxSockets
    BY <1>2, <2>2, OneTaken DEF TunnelPlaces, PoolWorld
  <2> QED BY <2>1, <2>2, <2>3 DEF TunnelPlaces
<1>3. CASE IdleTunnels = {} /\ ~(Cardinality(Placed) < MaxSockets)
  <2>1. UNCHANGED tunnel /\ line' = Append(line, r)
    BY <1>3 DEF AddRequest
  <2>2. line' \in Seq(PoolRequests)
    BY <2>1 DEF TunnelPlaces
  <2> QED BY <2>1, <2>2 DEF TunnelPlaces, Placed
<1> QED BY <1>1, <1>2, <1>3

LEMMA TunnelPlacesStep == PoolWorld /\ TunnelPlaces /\ [PoolNext]_poolVars => TunnelPlaces'
<1>1. SUFFICES ASSUME PoolWorld, TunnelPlaces, [PoolNext]_poolVars PROVE TunnelPlaces'
  OBVIOUS
<1>2. line # <<>> => Head(line) \in PoolRequests /\ Tail(line) \in Seq(PoolRequests)
  BY <1>1 DEF TunnelPlaces
<1>3. CASE UNCHANGED agent
  BY <1>1, <1>3 DEF TunnelPlaces, Placed, agent
<1>4. ASSUME NEW r \in PoolRequests, Sent1(r) PROVE TunnelPlaces'
  BY <1>1, <1>4, RequestPlaced DEF Sent1
<1>5. ASSUME NEW t \in H1Tunnels, TunnelOpens(t) PROVE TunnelPlaces'
  <2>1. tunnel[t] \in Place /\ tunnel[t].k = "opening"
    BY <1>1, <1>5 DEF TunnelPlaces, TunnelOpens
  <2>2. [tunnel[t] EXCEPT !.k = "busy"] \in Place
    BY <2>1 DEF Place
  <2>3. tunnel' = [tunnel EXCEPT ![t] = [tunnel[t] EXCEPT !.k = "busy"]] /\ line' = line
    BY <1>1, <1>5 DEF TunnelOpens, TunnelPlaces
  <2> QED BY <1>1, <2>1, <2>2, <2>3, Passed DEF TunnelPlaces
<1>6. ASSUME NEW t \in H1Tunnels, TunnelFails(t) PROVE TunnelPlaces'
  <2>1. [k |-> "none"] \in Place
    BY DEF Place
  <2> QED BY <1>1, <1>6, <2>1, Passed DEF TunnelFails, TunnelPlaces
<1>7. ASSUME NEW t \in H1Tunnels, Answered1(t) PROVE TunnelPlaces'
  <2>1. tunnel[t] \in Place /\ tunnel[t].k = "busy"
    BY <1>1, <1>7 DEF TunnelPlaces, Answered1
  <2>2. CASE line = <<>>
    <3>1. [k |-> "free"] \in Place
      BY DEF Place
    <3> QED BY <1>1, <1>7, <2>1, <2>2, <3>1, Passed DEF Answered1, TunnelPlaces
  <2>3. CASE line # <<>>
    <3>1. [tunnel[t] EXCEPT !.of = Head(line)] \in Place
      BY <1>2, <2>1, <2>3 DEF Place
    <3>2. /\ tunnel' = [tunnel EXCEPT ![t] = [tunnel[t] EXCEPT !.of = Head(line)]]
          /\ line' = Tail(line)
      BY <1>1, <1>7, <2>3 DEF Answered1, TunnelPlaces
    <3> QED BY <1>1, <1>2, <2>1, <2>3, <3>1, <3>2, Passed
  <2> QED BY <2>2, <2>3
<1>8. ASSUME NEW t \in H1Tunnels, TunnelCloses(t) PROVE TunnelPlaces'
  <2>1. tunnel[t].k # "none"
    BY <1>8 DEF TunnelCloses
  <2>2. CASE line = <<>>
    <3>1. [k |-> "none"] \in Place
      BY DEF Place
    <3> QED BY <1>1, <1>8, <2>1, <2>2, <3>1, Passed DEF TunnelCloses, TunnelPlaces
  <2>3. CASE line # <<>>
    <3>1. [k |-> "opening", of |-> Head(line)] \in Place
      BY <1>2, <2>3 DEF Place
    <3> QED BY <1>1, <1>2, <1>8, <2>1, <2>3, <3>1, Passed DEF TunnelCloses
  <2> QED BY <2>2, <2>3
<1>9. ASSUME NEW r \in PoolRequests, Send(r) \/ Responds(r) \/ Refused(r) PROVE UNCHANGED agent
  BY <1>9 DEF Send, Responds, Refused
<1>10. ASSUME NEW s \in Sessions, Opens(s) \/ OpensNot(s) \/ GoAway(s) \/ SessionCloses(s) PROVE UNCHANGED agent
  BY <1>10 DEF Opens, OpensNot, GoAway, SessionCloses
<1>11. RetryHttp2 \/ UNCHANGED poolVars => UNCHANGED agent
  BY DEF RetryHttp2, poolVars
<1> QED BY <1>1, <1>3, <1>4, <1>5, <1>6, <1>7, <1>8, <1>9, <1>10, <1>11 DEF PoolNext

-----------------------------------------------------------------------------
LEMMA OneSessionStart == PoolWorld /\ PoolInit => OneSession
BY DEF PoolWorld, PoolInit, OneSession

LEMMA OneSessionStep == PoolWorld /\ OneSession /\ [PoolNext]_poolVars => OneSession'
<1>1. SUFFICES ASSUME PoolWorld, OneSession, [PoolNext]_poolVars PROVE OneSession'
  OBVIOUS
<1>2. CASE UNCHANGED <<session, current>>
  BY <1>1, <1>2 DEF OneSession
<1>3. ASSUME NEW r \in PoolRequests, Send(r) PROVE OneSession'
  <2>1. CASE UNCHANGED pool
    BY <1>2, <2>1 DEF pool
  <2>2. ASSUME NEW s \in Sessions, current = NoSession, Opening = {}, UNCHANGED current,
               session' = [session EXCEPT ![s] = "opening"]
        PROVE  OneSession'
    <3>1. \A u \in Sessions : session[u] # "opening"
      BY <2>2 DEF Opening
    <3> QED BY <1>1, <2>2, <3>1 DEF OneSession, PoolWorld
  <2> QED BY <1>3, <2>1, <2>2 DEF Send
<1>4. ASSUME NEW s \in Sessions, Opens(s) PROVE OneSession'
  BY <1>1, <1>4 DEF Opens, OneSession, PoolWorld
<1>5. ASSUME NEW s \in Sessions, OpensNot(s) PROVE OneSession'
  BY <1>1, <1>5 DEF OpensNot, OneSession, PoolWorld
<1>6. ASSUME NEW s \in Sessions, GoAway(s) PROVE OneSession'
  BY <1>1, <1>6 DEF GoAway, SessionForgotten, OneSession, PoolWorld
<1>7. ASSUME NEW s \in Sessions, SessionCloses(s) PROVE OneSession'
  BY <1>1, <1>7 DEF SessionCloses, SessionForgotten, OneSession, PoolWorld
<1>8. ASSUME NEW r \in PoolRequests, Sent1(r) \/ Responds(r) \/ Refused(r) PROVE UNCHANGED pool
  BY <1>8 DEF Sent1, Responds, Refused
<1>9. ASSUME NEW t \in H1Tunnels, TunnelOpens(t) \/ TunnelFails(t) \/ Answered1(t) \/ TunnelCloses(t)
      PROVE  UNCHANGED pool
  BY <1>9 DEF TunnelOpens, TunnelFails, Answered1, TunnelCloses
<1>10. RetryHttp2 \/ UNCHANGED poolVars => UNCHANGED <<session, current>>
  BY DEF RetryHttp2, poolVars, pool
<1>11. UNCHANGED pool => UNCHANGED <<session, current>>
  BY DEF pool
<1> QED
  BY <1>1, <1>2, <1>3, <1>4, <1>5, <1>6, <1>7, <1>8, <1>9, <1>10, <1>11 DEF PoolNext

-----------------------------------------------------------------------------
LEMMA Bounded == TunnelPlaces /\ OneSession /\ PoolWorld => ConnectionsBounded
<1>1. SUFFICES ASSUME TunnelPlaces, OneSession, PoolWorld PROVE ConnectionsBounded
  OBVIOUS
<1> DEFINE S == {s \in Sessions : session[s] \in {"opening", "open"}}
<1>2. Cardinality(S) <= 1
  <2>1. \A s, u \in S : s = u
    BY <1>1 DEF OneSession, PoolWorld
  <2> HIDE DEF S
  <2>2. CASE S = {}
    BY <2>2, FS_EmptySet
  <2>3. CASE S # {}
    <3>1. PICK s : s \in S
      BY <2>3
    <3>2. S = {s}
      BY <2>1, <3>1
    <3>3. Cardinality({s}) = 1
      BY FS_Singleton
    <3> QED BY <3>2, <3>3
  <2> QED BY <2>2, <2>3
<1> QED BY <1>1, <1>2 DEF ConnectionsBounded, TunnelPlaces, Placed

(* A site sees one session and no more tunnels than the limit, those that  *)
(* open included, whatever bursts, refusals and closed connections         *)
(* interleave (tunnel-pool-patch.cjs:39-42, 83-86).                        *)
THEOREM OneConnectionEach ==
  ASSUME MaxSockets \in Nat, NoSession \notin Sessions
  PROVE  PoolSpec => []ConnectionsBounded
<1>1. PoolWorld
  BY DEF PoolWorld
<1>2. PoolInit => TunnelPlaces /\ OneSession
  BY <1>1, TunnelPlacesStart, OneSessionStart
<1>3. TunnelPlaces /\ OneSession /\ [PoolNext]_poolVars => (TunnelPlaces /\ OneSession)'
  BY <1>1, TunnelPlacesStep, OneSessionStep
<1>4. TunnelPlaces /\ OneSession => ConnectionsBounded
  BY <1>1, Bounded
<1> QED BY <1>2, <1>3, <1>4, PTL DEF PoolSpec

-----------------------------------------------------------------------------
(* The tabs that are kept (BrowserSaves).                                  *)

Lists == (SUBSET Urls) \cup {Absent}
Toolbars == [inc : Nat, tabs : SUBSET Urls, any : BOOLEAN, closed : BOOLEAN, timer : BOOLEAN,
             later : Lists]

SavesTyped ==
  /\ toolbars \in [Devices -> Toolbars \cup {Absent}]
  /\ local \in [Devices -> Lists] /\ kept \in Lists
  /\ saves \subseteq [from : Devices, inc : Nat, save : Lists]
  /\ answers \subseteq [to : Devices, inc : Nat, tabs : Lists]
  /\ turns \in [acts : Nat, faults : Nat]

(* Nothing that is empty, and may become the user's copy, is of a page on  *)
(* which the user closed nothing.                                          *)
MayEmpty(p, pages) == /\ p.closed => p.inc \in pages
                      /\ p.later = {} => p.inc \in pages
SavesInv ==
  /\ SavesTyped
  /\ \A d \in Devices : toolbars[d] # Absent => MayEmpty(toolbars[d], emptied)
  /\ \A c \in saves : c.save = {} => c.inc \in emptied

\* What fits of some tabs is none only if there are none.
LEMMA SomeFit ==
  ASSUME NEW tabs \in SUBSET Urls, NEW part \in Budget(tabs)
  PROVE  part \in SUBSET Urls /\ (part = {} => tabs = {})
<1>1. IsFiniteSet(tabs)
  BY SomethingFits, FS_Subset
<1>2. Cardinality(tabs) \in Nat /\ (Cardinality(tabs) = 0 <=> tabs = {})
  BY <1>1, FS_CardinalityType, FS_EmptySet
<1>3. Cardinality({}) = 0
  BY FS_EmptySet
<1> QED BY <1>2, <1>3, SomethingFits DEF Budget

\* A step of a page that leaves the saves alone and shows page p next.
LEMMA PageKeepsSaves ==
  ASSUME SavesInv, NEW d \in Devices, NEW p \in Toolbars \cup {Absent}, Set(d, p),
         emptied \subseteq emptied', p # Absent => MayEmpty(p, emptied'),
         UNCHANGED <<kept, saves, answers>>, local' \in [Devices -> Lists],
         turns' \in [acts : Nat, faults : Nat]
  PROVE  SavesInv'
<1>1. SavesTyped'
  BY DEF SavesInv, SavesTyped, Set
<1>2. ASSUME NEW e \in Devices, toolbars'[e] # Absent PROVE MayEmpty(toolbars'[e], emptied')
  BY <1>2 DEF SavesInv, SavesTyped, Set, MayEmpty
<1>3. \A c \in saves' : c.save = {} => c.inc \in emptied'
  BY DEF SavesInv
<1> QED BY <1>1, <1>2, <1>3 DEF SavesInv

LEMMA TurnsCount ==
  ASSUME SavesTyped, NEW k \in {"acts", "faults"}, NEW max, Turn(k, max)
  PROVE  turns' \in [acts : Nat, faults : Nat]
<1>1. CASE k = "acts"
  BY <1>1 DEF SavesTyped, Turn
<1>2. CASE k = "faults"
  BY <1>2 DEF SavesTyped, Turn
<1> QED BY <1>1, <1>2

LEMMA SavesStart == SavesInit => SavesInv
<1> SUFFICES ASSUME SavesInit PROVE SavesInv
  OBVIOUS
<1>1. kept \in Lists
  BY DEF SavesInit, Lists, Cleaned
<1>2. /\ toolbars \in [Devices -> Toolbars \cup {Absent}] /\ local \in [Devices -> Lists]
      /\ \A d \in Devices : toolbars[d] = Absent
  BY DEF SavesInit, Lists
<1>3. saves = {} /\ answers = {} /\ turns \in [acts : Nat, faults : Nat]
  BY DEF SavesInit
<1> QED BY <1>1, <1>2, <1>3 DEF SavesInv, SavesTyped

LEMMA SavesStep == SavesInv /\ [SavesNext]_savesVars => SavesInv'
<1> SUFFICES ASSUME SavesInv, [SavesNext]_savesVars PROVE SavesInv'
  OBVIOUS
<1> SavesTyped
  BY DEF SavesInv
<1>1. ASSUME NEW d \in Devices, Start(d) PROVE SavesInv'
  <2> DEFINE p == [Fresh(turns.acts) EXCEPT !.tabs = IF local[d] \notin {Absent, {}} THEN local[d] ELSE {},
                     !.any = local[d] \notin {Absent, {}}, !.timer = local[d] \notin {Absent, {}}]
  <2>1. p \in Toolbars /\ p.later = Absent /\ ~p.closed
    <3>1. turns.acts \in Nat /\ local[d] \in Lists
      BY DEF SavesTyped
    <3>2. (IF local[d] \notin {Absent, {}} THEN local[d] ELSE {}) \in SUBSET Urls
      BY <3>1 DEF Lists
    <3>3. Absent \in Lists
      BY DEF Lists
    <3> QED BY <3>1, <3>2, <3>3 DEF Fresh, Toolbars
  <2>2. toolbars' = [toolbars EXCEPT ![d] = p] /\ UNCHANGED <<local, kept, answers, emptied>>
    BY <1>1 DEF Start, Set
  <2>3. /\ saves' \subseteq saves \cup {[from |-> d, inc |-> turns.acts, save |-> Absent]}
        /\ turns' \in [acts : Nat, faults : Nat]
    BY <1>1, TurnsCount DEF Start
  <2> HIDE DEF p
  <2>4. SavesTyped'
    <3>1. turns.acts \in Nat /\ Absent \in Lists
      BY DEF SavesTyped, Lists
    <3>2. saves' \subseteq [from : Devices, inc : Nat, save : Lists]
      BY <2>3, <3>1 DEF SavesTyped
    <3> QED BY <2>1, <2>2, <2>3, <3>2 DEF SavesTyped
  <2>5. \A e \in Devices : toolbars'[e] # Absent => MayEmpty(toolbars'[e], emptied')
    BY <2>1, <2>2, SomethingFits DEF SavesInv, SavesTyped, MayEmpty
  <2>6. \A c \in saves' : c.save = {} => c.inc \in emptied'
    BY <2>2, <2>3, SomethingFits DEF SavesInv
  <2> QED BY <2>4, <2>5, <2>6 DEF SavesInv
<1>2. ASSUME NEW a \in answers, LoadAnswered(a) PROVE SavesInv'
  <2>1. a \in [to : Devices, inc : Nat, tabs : Lists] /\ answers' \subseteq answers
    BY <1>2 DEF LoadAnswered, SavesTyped
  <2>2. UNCHANGED <<local, kept, saves, emptied, turns>>
    BY <1>2 DEF LoadAnswered
  <2> DEFINE p == toolbars[a.to]
             q == [p EXCEPT !.any = TRUE, !.timer = TRUE, !.tabs = IF a.tabs = Absent THEN {} ELSE a.tabs]
  <2>3. CASE UNCHANGED toolbars
    <3>1. SavesTyped'
      BY <2>1, <2>2, <2>3 DEF SavesTyped
    <3> QED BY <2>2, <2>3, <3>1 DEF SavesInv, MayEmpty
  <2>4. CASE toolbars' = [toolbars EXCEPT ![a.to] = q] /\ p # Absent
    <3>1. p \in Toolbars
      BY <2>1, <2>4 DEF SavesTyped
    <3>2. q \in Toolbars /\ q.later = p.later /\ q.closed = p.closed /\ q.inc = p.inc
      <4>1. (IF a.tabs = Absent THEN {} ELSE a.tabs) \in SUBSET Urls
        BY <2>1 DEF Lists
      <4> QED BY <3>1, <4>1 DEF Toolbars
    <3> HIDE DEF q
    <3>3. SavesTyped'
      BY <2>1, <2>2, <2>4, <3>2 DEF SavesTyped
    <3>4. \A e \in Devices : toolbars'[e] # Absent => MayEmpty(toolbars'[e], emptied')
      BY <2>1, <2>2, <2>4, <3>2 DEF SavesInv, SavesTyped, MayEmpty
    <3> QED BY <2>2, <3>3, <3>4 DEF SavesInv
  <2> QED BY <1>2, <2>3, <2>4 DEF LoadAnswered, Set
<1>3. ASSUME NEW d \in Devices, NEW u \in Urls, OpenTab(d, u) PROVE SavesInv'
  <2> DEFINE p == [toolbars[d] EXCEPT !.tabs = @ \cup {u}, !.any = TRUE, !.timer = TRUE]
  <2>1. toolbars[d] \in Toolbars /\ toolbars[d] # Absent
    BY <1>3 DEF OpenTab, SavesTyped
  <2>2. p \in Toolbars /\ p.later = toolbars[d].later /\ p.closed = toolbars[d].closed
        /\ p.inc = toolbars[d].inc
    BY <2>1 DEF Toolbars
  <2>3. Set(d, p) /\ UNCHANGED <<local, kept, saves, answers, emptied>>
        /\ turns' \in [acts : Nat, faults : Nat]
    BY <1>3, TurnsCount DEF OpenTab
  <2> HIDE DEF p
  <2>4. MayEmpty(p, emptied')
    BY <2>1, <2>2, <2>3 DEF SavesInv, MayEmpty
  <2>5. local' \in [Devices -> Lists]
    BY <2>3 DEF SavesTyped
  <2> QED BY <2>2, <2>3, <2>4, <2>5, PageKeepsSaves
<1>4. ASSUME NEW d \in Devices, OpenBlank(d) PROVE SavesInv'
  <2> DEFINE p == [toolbars[d] EXCEPT !.any = TRUE, !.timer = TRUE]
  <2>1. toolbars[d] \in Toolbars /\ toolbars[d] # Absent
    BY <1>4 DEF OpenBlank, SavesTyped
  <2>2. p \in Toolbars /\ p.later = toolbars[d].later /\ p.closed = toolbars[d].closed
        /\ p.inc = toolbars[d].inc
    BY <2>1 DEF Toolbars
  <2>3. Set(d, p) /\ UNCHANGED <<local, kept, saves, answers, emptied, turns>>
    BY <1>4 DEF OpenBlank
  <2> HIDE DEF p
  <2>4. MayEmpty(p, emptied')
    BY <2>1, <2>2, <2>3 DEF SavesInv, MayEmpty
  <2>5. local' \in [Devices -> Lists] /\ turns' \in [acts : Nat, faults : Nat]
    BY <2>3 DEF SavesTyped
  <2> QED BY <2>2, <2>3, <2>4, <2>5, PageKeepsSaves
<1>5. ASSUME NEW d \in Devices, NEW u \in Urls, CloseSavedTab(d, u) PROVE SavesInv'
  <2> DEFINE p == [toolbars[d] EXCEPT !.tabs = @ \ {u}, !.closed = TRUE, !.timer = TRUE]
  <2>1. toolbars[d] \in Toolbars /\ toolbars[d] # Absent
    BY <1>5 DEF CloseSavedTab, SavesTyped
  <2>2. p \in Toolbars /\ p.inc = toolbars[d].inc
    BY <2>1 DEF Toolbars
  <2>3. Set(d, p) /\ UNCHANGED <<local, kept, saves, answers>>
        /\ emptied' = emptied \cup {toolbars[d].inc} /\ turns' \in [acts : Nat, faults : Nat]
    BY <1>5, TurnsCount DEF CloseSavedTab
  <2> HIDE DEF p
  <2>4. MayEmpty(p, emptied')
    BY <2>2, <2>3 DEF MayEmpty
  <2>5. local' \in [Devices -> Lists] /\ emptied \subseteq emptied'
    BY <2>3 DEF SavesTyped
  <2> QED BY <2>2, <2>3, <2>4, <2>5, PageKeepsSaves
<1>6. ASSUME NEW d \in Devices, SaveTabs(d) PROVE SavesInv'
  <2> DEFINE last == toolbars[d]
             p == [last EXCEPT !.timer = FALSE, !.later = IF Worth(last) THEN last.tabs ELSE @]
  <2>1. last \in Toolbars /\ last # Absent
    BY <1>6 DEF SaveTabs, SavesTyped
  <2>2. /\ p \in Toolbars /\ p.closed = last.closed /\ p.inc = last.inc
        /\ p.later = last.later \/ (p.later = last.tabs /\ Worth(last))
    BY <2>1 DEF Toolbars, Lists
  <2>3. /\ Set(d, p) /\ UNCHANGED <<kept, saves, answers, emptied, turns>>
        /\ local' = [local EXCEPT ![d] = last.tabs]
    BY <1>6 DEF SaveTabs
  <2>4. MayEmpty(last, emptied)
    BY <2>1 DEF SavesInv
  <2> HIDE DEF p
  <2>5. MayEmpty(p, emptied')
    BY <2>2, <2>3, <2>4 DEF MayEmpty, Worth
  <2>6. local' \in [Devices -> Lists] /\ turns' \in [acts : Nat, faults : Nat]
    BY <2>1, <2>3 DEF SavesTyped, Toolbars, Lists
  <2> QED BY <2>2, <2>3, <2>5, <2>6, PageKeepsSaves
<1>7. ASSUME NEW d \in Devices, SaveToServer(d) PROVE SavesInv'
  <2> DEFINE last == toolbars[d]
             p == [last EXCEPT !.later = Absent]
  <2>1. last \in Toolbars /\ last # Absent /\ last.later \in SUBSET Urls
    <3>1. last \in Toolbars /\ last # Absent /\ last.later # Absent
      BY <1>7 DEF SaveToServer, SavesTyped
    <3>2. last.later \in Lists
      BY <3>1 DEF Toolbars
    <3> QED BY <3>1, <3>2 DEF Lists
  <2>2. MayEmpty(last, emptied)
    BY <2>1 DEF SavesInv
  <2>3. PICK part \in Budget(last.later) :
          saves' = saves \cup {[from |-> d, inc |-> last.inc, save |-> part]}
    BY <1>7 DEF SaveToServer
  <2>4. part \in SUBSET Urls /\ (part = {} => last.inc \in emptied)
    BY <2>1, <2>2, SomeFit DEF MayEmpty
  <2>5. p \in Toolbars /\ p.closed = last.closed /\ p.inc = last.inc /\ p.later = Absent
    <3>1. Absent \in Lists
      BY DEF Lists
    <3> QED BY <2>1, <3>1 DEF Toolbars
  <2>6. toolbars' = [toolbars EXCEPT ![d] = p] /\ UNCHANGED <<local, kept, answers, emptied, turns>>
    BY <1>7 DEF SaveToServer, Set
  <2> HIDE DEF p
  <2>7. SavesTyped'
    BY <2>1, <2>3, <2>4, <2>5, <2>6 DEF SavesTyped, Toolbars, Lists
  <2>8. \A e \in Devices : toolbars'[e] # Absent => MayEmpty(toolbars'[e], emptied')
    BY <2>1, <2>2, <2>5, <2>6, SomethingFits DEF SavesInv, SavesTyped, MayEmpty
  <2>9. \A c \in saves' : c.save = {} => c.inc \in emptied'
    BY <2>3, <2>4, <2>6 DEF SavesInv
  <2> QED BY <2>7, <2>8, <2>9 DEF SavesInv
<1>8. ASSUME NEW d \in Devices, Hide(d) PROVE SavesInv'
  <2> DEFINE p == [toolbars[d] EXCEPT !.timer = TRUE]
  <2>1. toolbars[d] \in Toolbars /\ toolbars[d] # Absent
    BY <1>8 DEF Hide, SavesTyped
  <2>2. p \in Toolbars /\ p.later = toolbars[d].later /\ p.closed = toolbars[d].closed
        /\ p.inc = toolbars[d].inc
    BY <2>1 DEF Toolbars
  <2>3. Set(d, p) /\ UNCHANGED <<local, kept, saves, answers, emptied>>
        /\ turns' \in [acts : Nat, faults : Nat]
    BY <1>8, TurnsCount DEF Hide
  <2> HIDE DEF p
  <2>4. MayEmpty(p, emptied')
    BY <2>1, <2>2, <2>3 DEF SavesInv, MayEmpty
  <2>5. local' \in [Devices -> Lists]
    BY <2>3 DEF SavesTyped
  <2> QED BY <2>2, <2>3, <2>4, <2>5, PageKeepsSaves
<1>9. ASSUME NEW d \in Devices, Discard(d) PROVE SavesInv'
  <2>1. Set(d, Absent) /\ UNCHANGED <<kept, saves, answers, emptied>>
        /\ turns' \in [acts : Nat, faults : Nat]
    BY <1>9, TurnsCount DEF Discard
  <2>2. local' \in [Devices -> Lists]
    <3>1. Absent \in Lists /\ local[d] \in Lists
      BY DEF SavesTyped, Lists
    <3>2. PICK left \in {local[d], Absent} : local' = [local EXCEPT ![d] = left]
      BY <1>9 DEF Discard
    <3>3. left \in Lists
      BY <3>1, <3>2
    <3> QED BY <3>2, <3>3 DEF SavesTyped
  <2> QED BY <2>1, <2>2, PageKeepsSaves
<1>10. ASSUME NEW c \in saves, Serve(c) \/ Fail(c) PROVE SavesInv'
  <2>1. c \in [from : Devices, inc : Nat, save : Lists]
    BY DEF SavesTyped
  <2>2. saves' \subseteq saves /\ UNCHANGED <<toolbars, local, emptied>>
    BY <1>10 DEF Serve, Fail
  <2>3. kept' \in Lists
    BY <1>10, <2>1 DEF Serve, Fail, SavesTyped, Lists, Cleaned
  <2>4. turns' \in [acts : Nat, faults : Nat]
    BY <1>10, TurnsCount DEF Serve, Fail, SavesTyped
  <2>5. answers' \subseteq [to : Devices, inc : Nat, tabs : Lists]
    BY <1>10, <2>1 DEF Serve, Fail, SavesTyped, Lists
  <2>6. SavesTyped'
    BY <2>2, <2>3, <2>4, <2>5 DEF SavesTyped
  <2> QED BY <2>2, <2>6 DEF SavesInv, MayEmpty
<1>11. CASE UNCHANGED savesVars
  BY <1>11 DEF savesVars, SavesInv, SavesTyped, MayEmpty
<1> QED BY <1>1, <1>2, <1>3, <1>4, <1>5, <1>6, <1>7, <1>8, <1>9, <1>10, <1>11 DEF SavesNext

\* Only a save that reaches the server replaces the user's copy.
LEMMA ForgottenByASave ==
  ASSUME SavesInv, [SavesNext]_savesVars, kept \notin {Absent, {}}, kept' = {}
  PROVE  \E c \in saves \ saves' : c.inc \in emptied \/ OnlyLong(c.save)
<1>1. PICK c \in saves : Serve(c)
  BY DEF SavesNext, savesVars, Start, LoadAnswered, OpenTab, OpenBlank, CloseSavedTab, SaveTabs,
         SaveToServer, Hide, Fail, Discard
<1>2. c.save \in SUBSET Urls /\ c \notin saves' /\ Cleaned(c.save) = {}
  BY <1>1 DEF Serve, SavesInv, SavesTyped, Lists
<1>3. c.save = {} \/ OnlyLong(c.save)
  BY <1>2 DEF Cleaned, OnlyLong
<1> QED BY <1>1, <1>2, <1>3 DEF SavesInv

(* For any devices, addresses and budget: what the user has on the server  *)
(* becomes empty only through a save of a page on which the user closed    *)
(* tabs, or whose addresses are all too long to be kept (wrapper.js,       *)
(* saveTabs; tab-store.cjs, clean).                                        *)
THEOREM ForgottenOnlyIfClosed == SavesSpec => KeptUnlessClosed
<1>1. SavesInv /\ [SavesNext]_savesVars
        => [kept \notin {Absent, {}} /\ kept' = {} =>
              \E c \in saves \ saves' : c.inc \in emptied \/ OnlyLong(c.save)]_savesVars
  BY ForgottenByASave
<1> QED BY <1>1, SavesStart, SavesStep, PTL DEF SavesSpec, KeptUnlessClosed

-----------------------------------------------------------------------------
(* The pages of the tabs, and their lanes (BrowserTabs).                   *)

(* The runtime's state as a value: its shape, that of a lane, and that     *)
(* every page has its lane.                                                *)
Shape(S) == S = [lanes |-> S.lanes, tabs |-> S.tabs, navs |-> S.navs,
                 tickets |-> S.tickets, admitted |-> S.admitted]

LaneShape(l) ==
  /\ l = [op |-> l.op, owner |-> l.owner, closed |-> l.closed, answer |-> l.answer]
  /\ l.op \in Nat /\ l.closed \in BOOLEAN

HasLane(S, id) == id \in DOMAIN S.lanes /\ ~S.lanes[id].closed /\ S.lanes[id].owner = S.tabs[id].lease

Good(S) ==
  /\ Shape(S)
  /\ \A id \in DOMAIN S.lanes : LaneShape(S.lanes[id])
  /\ \A id \in DOMAIN S.tabs : HasLane(S, id)

(* What leaves lanes and tabs alone keeps the invariant.                   *)
LEMMA OthersKeep ==
  ASSUME NEW S, NEW T, Good(S), Shape(T), T.lanes = S.lanes, T.tabs = S.tabs
  PROVE  Good(T)
BY DEF Good, HasLane

(* Closing pages, or forgetting lanes with their pages, leaves no page     *)
(* without its lane.                                                       *)
LEMMA ClosedKeeps ==
  ASSUME NEW S, NEW ids, Good(S)
  PROVE  /\ Good(Closed(S, ids)) /\ Closed(S, ids).lanes = S.lanes
         /\ DOMAIN Closed(S, ids).tabs = DOMAIN S.tabs \ ids
         /\ \A id \in DOMAIN S.tabs \ ids : Closed(S, ids).tabs[id] = S.tabs[id]
<1> DEFINE gone == ids \cap DOMAIN S.tabs
           tabs == [id \in DOMAIN S.tabs \ gone |-> S.tabs[id]]
           navs == [n \in DOMAIN S.navs |-> IF S.navs[n].tab \in gone THEN Cancelled(S.navs[n]) ELSE S.navs[n]]
           tickets == {t \in S.tickets : t.tab \notin gone}
           admitted == {t \in S.admitted : t.tab \notin gone}
           T == Closed(S, ids)
<1>1. T = [S EXCEPT !.tabs = tabs, !.navs = navs, !.tickets = tickets, !.admitted = admitted]
  BY DEF Closed
<1>2. DOMAIN tabs = DOMAIN S.tabs \ ids /\ \A id \in DOMAIN S.tabs \ ids : tabs[id] = S.tabs[id]
  OBVIOUS
<1> HIDE DEF tabs, navs, tickets, admitted, T
<1>3. Shape(T) /\ T.lanes = S.lanes /\ T.tabs = tabs
  BY <1>1 DEF Good, Shape
<1>4. Good(T)
  BY <1>2, <1>3 DEF Good, HasLane
<1> QED BY <1>2, <1>3, <1>4 DEF T

LEMMA ForgottenKeeps ==
  ASSUME NEW S, NEW ids, Good(S)
  PROVE  /\ Good(Forgotten(S, ids))
         /\ DOMAIN Forgotten(S, ids).lanes = DOMAIN S.lanes \ ids
<1> DEFINE C == Closed(S, ids)
           lanes == [id \in DOMAIN C.lanes \ ids |-> C.lanes[id]]
           T == Forgotten(S, ids)
<1>1. /\ Good(C) /\ C.lanes = S.lanes /\ DOMAIN C.tabs = DOMAIN S.tabs \ ids
  BY ClosedKeeps
<1>2. T = [C EXCEPT !.lanes = lanes]
  BY DEF Forgotten, WithoutLanes
<1>3. DOMAIN lanes = DOMAIN S.lanes \ ids /\ \A id \in DOMAIN lanes : lanes[id] = C.lanes[id]
  BY <1>1
<1> HIDE DEF lanes, T, C
<1>4. Shape(T) /\ T.lanes = lanes /\ T.tabs = C.tabs
  BY <1>1, <1>2 DEF Good, Shape
<1>5. Good(T)
  BY <1>1, <1>3, <1>4 DEF Good, HasLane
<1> QED BY <1>3, <1>4, <1>5 DEF T

-----------------------------------------------------------------------------
(* What a command makes of lanes and pages: nothing, or it opens the page  *)
(* of its tab for its sign-in, or closes it, and its answer says which.    *)
Effect(S, d, id, for) ==
  /\ d = [S |-> d.S, answer |-> d.answer]
  /\ Shape(d.S) /\ d.S.lanes = S.lanes
  /\ \/ d.answer.code \notin {"opened", "closed"} /\ d.S.tabs = S.tabs
     \/ /\ d.answer.code = "opened" /\ DOMAIN d.S.tabs = DOMAIN S.tabs \cup {id}
        /\ d.S.tabs[id].lease = for
        /\ \A other \in DOMAIN S.tabs \ {id} : d.S.tabs[other] = S.tabs[other]
     \/ /\ d.answer.code = "closed" /\ DOMAIN d.S.tabs = DOMAIN S.tabs \ {id}
        /\ \A other \in DOMAIN S.tabs \ {id} : d.S.tabs[other] = S.tabs[other]

LEMMA RefusalEffect ==
  ASSUME NEW S, NEW id, NEW lease0, NEW code, NEW epoch, Shape(S), code \notin {"opened", "closed"}
  PROVE  Effect(S, Outcome(S, code, epoch), id, lease0)
BY DEF Effect, Outcome

LEMMA OpenEffect ==
  ASSUME NEW S, NEW id, NEW epoch, NEW lease0, NEW carried, Shape(S)
  PROVE  Effect(S, Open(S, id, epoch, lease0, carried), id, lease0)
<1> DEFINE why == OpenRefused(S, id, epoch, lease0)
<1>1. CASE why # "no"
  <2>1. Open(S, id, epoch, lease0, carried) = Outcome(S, why, 0)
    BY <1>1 DEF Open
  <2>2. why \in {"no", "reset", "rejected"}
    BY DEF OpenRefused
  <2> QED BY <2>1, <2>2, RefusalEffect
<1>2. CASE why = "no"
  <2> DEFINE tabs == Assigned(S.tabs, id, [epoch |-> epoch, lease |-> lease0])
             navs == [n \in DOMAIN S.navs |-> IF S.navs[n].tab = id /\ S.navs[n].epoch # epoch /\ n # carried
                                              THEN Cancelled(S.navs[n]) ELSE S.navs[n]]
             tickets == {t \in S.tickets : t.tab # id} \cup {[tab |-> id, epoch |-> epoch, carries |-> carried]}
             admitted == {t \in S.admitted : t.tab # id}
             T == Opened(S, id, epoch, lease0, carried)
  <2>1. T = [S EXCEPT !.tabs = tabs, !.navs = navs, !.tickets = tickets, !.admitted = admitted]
    BY DEF Opened
  <2>2. /\ DOMAIN tabs = DOMAIN S.tabs \cup {id} /\ tabs[id].lease = lease0
        /\ \A other \in DOMAIN S.tabs \ {id} : tabs[other] = S.tabs[other]
    BY DEF Assigned
  <2>3. Open(S, id, epoch, lease0, carried) = [S |-> T, answer |-> [code |-> "opened", epoch |-> epoch]]
    BY <1>2 DEF Open, Outcome
  <2> HIDE DEF tabs, navs, tickets, admitted, T
  <2>4. Shape(T) /\ T.lanes = S.lanes /\ T.tabs = tabs
    BY <2>1 DEF Shape
  <2> QED BY <2>2, <2>3, <2>4 DEF Effect
<1> QED BY <1>1, <1>2

LEMMA ApproveEffect ==
  ASSUME NEW S, NEW id, NEW epoch, NEW nav, NEW lease0, Shape(S)
  PROVE  Effect(S, Approve(S, id, epoch, nav, lease0), id, lease0)
<1> DEFINE T == [S EXCEPT !.navs[nav].state = "approved"]
<1>1. CASE Approve(S, id, epoch, nav, lease0) = Outcome(S, "rejected", 0)
  BY <1>1, RefusalEffect
<1>2. CASE Approve(S, id, epoch, nav, lease0) = Open(T, id, epoch + 1, lease0, nav)
  <2>1. Shape(T) /\ T.lanes = S.lanes /\ T.tabs = S.tabs
    BY DEF Shape
  <2> HIDE DEF T
  <2>2. Effect(T, Open(T, id, epoch + 1, lease0, nav), id, lease0)
    BY <2>1, OpenEffect
  <2> QED BY <1>2, <2>1, <2>2 DEF Effect
<1> QED BY <1>1, <1>2 DEF Approve

LEMMA PerformEffect ==
  ASSUME NEW S, NEW m, NEW lease0, Good(S)
  PROVE  Effect(S, Perform(S, m, lease0), m.id, lease0)
<1>1. Effect(S, Open(S, m.id, m.epoch, lease0, 0), m.id, lease0)
  BY OpenEffect DEF Good
<1>2. Effect(S, Approve(S, m.id, m.epoch, m.nav, lease0), m.id, lease0)
  BY ApproveEffect DEF Good
<1>3. Effect(S, CloseTab(S, m.id, m.epoch), m.id, lease0)
  <2>1. CASE CloseTab(S, m.id, m.epoch) = Outcome(S, "reset", 0)
    BY <2>1, RefusalEffect DEF Good
  <2>2. CASE CloseTab(S, m.id, m.epoch) = Outcome(Closed(S, {m.id}), "closed", 0)
    <3> DEFINE T == Closed(S, {m.id})
    <3>1. /\ Good(T) /\ T.lanes = S.lanes /\ DOMAIN T.tabs = DOMAIN S.tabs \ {m.id}
          /\ \A id \in DOMAIN S.tabs \ {m.id} : T.tabs[id] = S.tabs[id]
      BY ClosedKeeps
    <3> HIDE DEF T
    <3>2. CloseTab(S, m.id, m.epoch) = [S |-> T, answer |-> [code |-> "closed", epoch |-> 0]]
      BY <2>2 DEF Outcome, T
    <3> QED BY <3>1, <3>2 DEF Effect, Good
  <2> QED BY <2>1, <2>2 DEF CloseTab
<1>4. Effect(S, Outcome(S, "rejected", 0), m.id, lease0)
  BY RefusalEffect DEF Good
<1> QED BY <1>1, <1>2, <1>3, <1>4 DEF Perform

(* The lane of the command is of its sign-in, stays open with what it      *)
(* opened, and is closed only with its page.                               *)
LEMMA InLaneKeeps ==
  ASSUME NEW S, NEW m, NEW lease0, Good(S), m.id \in DOMAIN S.lanes
  PROVE  Good(InLane(S, m, lease0).S)
<1> DEFINE lane == S.lanes[m.id]
           done == Perform(S, m, lease0)
           code == done.answer.code
           closed == IF code = "opened" THEN FALSE ELSE lane.closed \/ code = "closed"
           next == [lane EXCEPT !.op = m.op, !.answer = done.answer, !.closed = closed]
           out == [done EXCEPT !.S.lanes[m.id] = next]
<1>1. CASE lane.owner # lease0
  <2>1. InLane(S, m, lease0) = Outcome(S, "rejected", 0)
    BY <1>1 DEF InLane
  <2> QED BY <2>1 DEF Outcome
<1>2. CASE lane.owner = lease0 /\ m.op = lane.op
  <2>1. m.op # lane.op + 1
    <3>1. lane.op \in Nat
      BY DEF Good, LaneShape
    <3> HIDE DEF lane
    <3> QED BY <1>2, <3>1
  <2>2. InLane(S, m, lease0) = [S |-> S, answer |-> lane.answer]
    BY <1>2, <2>1 DEF InLane
  <2> QED BY <2>2
<1>3. CASE lane.owner = lease0 /\ m.op # lane.op /\ m.op # lane.op + 1
  <2>1. InLane(S, m, lease0) = Outcome(S, "rejected", 0)
    BY <1>3 DEF InLane
  <2> QED BY <2>1 DEF Outcome
<1>4. CASE lane.owner = lease0 /\ m.op # lane.op /\ m.op = lane.op + 1
  <2>1. InLane(S, m, lease0) = out
    BY <1>4 DEF InLane
  <2>2. Effect(S, done, m.id, lease0)
    BY PerformEffect
  <2>3. LaneShape(lane)
    BY DEF Good
  <2> HIDE DEF done, lane
  <2>9. /\ closed \in BOOLEAN /\ (code = "opened" => ~closed)
        /\ code \notin {"opened", "closed"} => closed = lane.closed
    BY <2>3 DEF LaneShape
  <2> HIDE DEF closed
  <2>4. LaneShape(next) /\ next.owner = lease0 /\ next.closed = closed
    <3> DEFINE answer == done.answer
    <3>1. next = [lane EXCEPT !.op = m.op, !.answer = answer, !.closed = closed]
      OBVIOUS
    <3> HIDE DEF answer, next
    <3>2. next = [op |-> m.op, owner |-> lane.owner, closed |-> closed, answer |-> answer]
      BY <2>3, <3>1 DEF LaneShape
    <3>3. m.op \in Nat
      BY <1>4, <2>3 DEF LaneShape, lane
    <3> QED BY <1>4, <2>9, <3>2, <3>3 DEF LaneShape
  <2> HIDE DEF next
  <2>5. /\ Shape(out.S) /\ out.S.tabs = done.S.tabs
        /\ out.S.lanes = [S.lanes EXCEPT ![m.id] = next]
    BY <2>2 DEF Effect, Shape
  <2> HIDE DEF out
  <2>6. ASSUME NEW id \in DOMAIN out.S.lanes PROVE LaneShape(out.S.lanes[id])
    BY <2>4, <2>5, <2>6 DEF Good
  <2>7. ASSUME NEW id \in DOMAIN done.S.tabs, id # m.id PROVE HasLane(out.S, id)
    <3>1. id \in DOMAIN S.tabs /\ done.S.tabs[id] = S.tabs[id]
      BY <2>2, <2>7 DEF Effect
    <3> QED BY <2>5, <2>7, <3>1 DEF Good, HasLane
  <2>8. ASSUME m.id \in DOMAIN done.S.tabs PROVE HasLane(out.S, m.id)
    <3>1. CASE code = "opened"
      BY <2>2, <2>4, <2>5, <2>9, <3>1 DEF Effect, HasLane
    <3>2. CASE code # "opened"
      <4>1. done.S.tabs = S.tabs /\ code # "closed"
        BY <2>2, <2>8, <3>2 DEF Effect
      <4>2. ~lane.closed /\ lane.owner = S.tabs[m.id].lease
        BY <2>8, <4>1 DEF Good, HasLane, lane
      <4> QED BY <1>4, <2>4, <2>5, <2>9, <3>2, <4>1, <4>2 DEF HasLane
    <3> QED BY <3>1, <3>2
  <2> QED BY <2>1, <2>5, <2>6, <2>7, <2>8 DEF Good
<1> QED BY <1>1, <1>2, <1>3, <1>4

(* A new lane has no page, and making room for it closes another's page    *)
(* with its lane.                                                          *)
LEMMA KnownKeeps ==
  ASSUME NEW S, NEW m, NEW lease0, NEW victim, Good(S)
  PROVE  /\ Good(Known(S, m, lease0, victim))
         /\ m.id \in DOMAIN Known(S, m, lease0, victim).lanes
<1> DEFINE K == Known(S, m, lease0, victim)
<1>1. CASE m.id \in DOMAIN S.lanes
  BY <1>1 DEF Known
<1>2. CASE m.id \notin DOMAIN S.lanes
  <2> DEFINE room == IF HasRoom(S) THEN S ELSE Forgotten(S, {victim})
             lanes == Assigned(room.lanes, m.id, NewLane(lease0))
  <2>1. Good(room) /\ m.id \notin DOMAIN room.lanes
    BY <1>2, ForgottenKeeps
  <2>2. K = [room EXCEPT !.lanes = lanes]
    BY <1>2 DEF Known
  <2> HIDE DEF room, K
  <2>3. /\ DOMAIN lanes = DOMAIN room.lanes \cup {m.id} /\ LaneShape(lanes[m.id])
        /\ \A id \in DOMAIN room.lanes : lanes[id] = room.lanes[id]
    BY <2>1 DEF Assigned, LaneShape, NewLane
  <2> HIDE DEF lanes
  <2>4. Shape(K) /\ K.lanes = lanes /\ K.tabs = room.tabs
    BY <2>1, <2>2 DEF Good, Shape
  <2>5. Good(K) /\ m.id \in DOMAIN K.lanes
    BY <2>1, <2>3, <2>4 DEF Good, HasLane
  <2> QED BY <2>5 DEF K
<1> QED BY <1>1, <1>2

LEMMA RunKeeps ==
  ASSUME NEW S, NEW m, NEW lease0, NEW victim, Good(S)
  PROVE  Good(Run(S, m, lease0, victim).S)
<1>1. CASE m.id \notin DOMAIN S.lanes /\ m.op # 1
  BY <1>1 DEF Run, Outcome
<1>2. CASE ~(m.id \notin DOMAIN S.lanes /\ m.op # 1)
  <2>1. Run(S, m, lease0, victim) = InLane(Known(S, m, lease0, victim), m, lease0)
    BY <1>2 DEF Run
  <2> QED BY <2>1, KnownKeeps, InLaneKeeps
<1> QED BY <1>1, <1>2

-----------------------------------------------------------------------------
(* The entries and navigations of a page are beside its lane.              *)
LEMMA NavKeeps ==
  ASSUME NEW S, NEW n, NEW nav, Good(S)
  PROVE  Good([S EXCEPT !.navs[n] = nav])
<1> DEFINE T == [S EXCEPT !.navs[n] = nav]
<1>1. Shape(T) /\ T.lanes = S.lanes /\ T.tabs = S.tabs
  BY DEF Good, Shape
<1> HIDE DEF T
<1>2. Good(T)
  BY <1>1, OthersKeep
<1> QED BY <1>2 DEF T

LEMMA StepInv == Good(server) /\ [TabsNext]_tabVars => Good(server)'
<1> SUFFICES ASSUME Good(server), [TabsNext]_tabVars PROVE Good(server')
  OBVIOUS
<1>1. CASE UNCHANGED tabVars
  BY <1>1 DEF tabVars
<1>2. ASSUME NEW c \in Clients,
             AskFor(c) \/ Retry(c) \/ Activate(c) \/ Close(c) \/ Begin(c) \/ Answered(c) \/ NoAnswer(c)
             \/ Reports(c) \/ Submit(c) \/ NavigationPage(c) \/ Challenge(c) \/ SlowLoad(c)
      PROVE  Good(server')
  <2>1. server' = server
    BY <1>2 DEF AskFor, Retry, Activate, Close, Begin, Answered, NoAnswer, Reports, Submit,
                NavigationPage, Challenge, SlowLoad
  <2> QED BY <2>1
<1>3. ASSUME NEW c \in Clients, NEW m \in calls[c], Deliver(c, m) PROVE Good(server')
  <2>1. PICK victim : server' = Run(server, m, lease, victim).S
    BY <1>3 DEF Deliver
  <2> QED BY <2>1, RunKeeps
<1>4. ASSUME NEW c \in Clients, Enter(c) PROVE Good(server')
  <2> DEFINE f == frame[c]
             T == Entered(server, f.id, f.epoch)
             tickets == server.tickets \ EntryOf(server.tickets, f.id, f.epoch)
             admitted == server.admitted \cup EntryOf(server.tickets, f.id, f.epoch)
  <2>3. T = [server EXCEPT !.tickets = tickets, !.admitted = admitted]
    BY DEF Entered
  <2> HIDE DEF tickets, admitted
  <2>1. Shape(T) /\ T.lanes = server.lanes /\ T.tabs = server.tabs
    BY <2>3 DEF Good, Shape
  <2>2. server' = server \/ server' = T
    BY <1>4 DEF Enter
  <2> HIDE DEF T
  <2> QED BY <2>1, <2>2, OthersKeep
<1>5. ASSUME NEW c \in Clients, NEW repeats \in BOOLEAN, Follow(c, repeats) PROVE Good(server')
  <2> DEFINE f == frame[c]
             T == Followed(server, f.id, f.epoch)
             admitted == server.admitted \ Admission(server, f.id, f.epoch)
             navs == [n \in DOMAIN server.navs |->
                        IF n \in Carries(server, f.id, f.epoch) /\ server.navs[n].state = "approved"
                        THEN [server.navs[n] EXCEPT !.state = "sending"] ELSE server.navs[n]]
  <2>3. T = [server EXCEPT !.admitted = admitted, !.navs = navs]
    BY DEF Followed
  <2> HIDE DEF admitted, navs
  <2>1. Shape(T) /\ T.lanes = server.lanes /\ T.tabs = server.tabs
    BY <2>3 DEF Good, Shape
  <2>2. server' = T
    BY <1>5 DEF Follow
  <2> HIDE DEF T
  <2> QED BY <2>1, <2>2, OthersKeep
<1>6. ASSUME NEW c \in Clients, UploadRead(c) \/ Redirected(c) PROVE Good(server')
  <2>1. PICK n \in Unused, told \in {"challenge", "told"} : Capture(c, n, told)
    BY <1>6 DEF UploadRead, Redirected
  <2>2. server' = server \/ server' = Captured(server, n, frame[c].id, frame[c].epoch)
    BY <2>1 DEF Capture
  <2>3. Good(Captured(server, n, frame[c].id, frame[c].epoch))
    BY NavKeeps DEF Captured
  <2> QED BY <2>2, <2>3
<1>7. ASSUME NEW n \in Navs, SendingEnds(n) PROVE Good(server')
  <2>1. server' = [server EXCEPT !.navs[n] = [server.navs[n] EXCEPT !.state = "gone"]]
    BY <1>7 DEF SendingEnds
  <2> QED BY <2>1, NavKeeps
<1>8. CASE Heartbeat \/ HeartbeatAnswered
  BY <1>8 DEF Heartbeat, HeartbeatAnswered
<1>9. CASE Surroundings
  <2>1. CASE Restart
    <3> DEFINE navs == [n \in Navs |-> IF server.navs[n].state = "none" THEN NoNav
                                       ELSE [server.navs[n] EXCEPT !.state = "gone"]]
    <3>1. server' = [Blank(Navs) EXCEPT !.navs = navs]
      BY <2>1 DEF Restart
    <3> HIDE DEF navs
    <3>2. Shape(server') /\ server'.lanes = <<>> /\ server'.tabs = <<>>
      BY <3>1 DEF Blank, Shape
    <3> QED BY <3>2 DEF Good
  <2>2. CASE Lapses
    BY <2>2, ForgottenKeeps DEF Lapses
  <2>3. CASE Deadline
    <3>1. CASE \E n \in Navs : server' = [server EXCEPT !.navs[n] = Cancelled(@)]
      BY <3>1, NavKeeps
    <3>2. CASE \E t \in server.tickets : server' = [server EXCEPT !.tickets = @ \ {t}]
      <4>1. Shape(server') /\ server'.lanes = server.lanes /\ server'.tabs = server.tabs
        BY <3>2 DEF Good, Shape
      <4> QED BY <4>1, OthersKeep
    <3>3. CASE \E t \in server.admitted : server' = [server EXCEPT !.admitted = @ \ {t}]
      <4>1. Shape(server') /\ server'.lanes = server.lanes /\ server'.tabs = server.tabs
        BY <3>3 DEF Good, Shape
      <4> QED BY <4>1, OthersKeep
    <3> QED BY <2>3, <3>1, <3>2, <3>3 DEF Deadline
  <2>4. CASE NewSignIn
    BY <2>4, ForgottenKeeps DEF NewSignIn
  <2> QED BY <1>9, <2>1, <2>2, <2>3, <2>4 DEF Surroundings
<1> QED BY <1>1, <1>2, <1>3, <1>4, <1>5, <1>6, <1>7, <1>8, <1>9 DEF TabsNext

LEMMA InitInv == TabsInit => Good(server)
<1> SUFFICES ASSUME TabsInit PROVE Good(server)
  OBVIOUS
<1>1. Shape(server) /\ server.lanes = <<>> /\ server.tabs = <<>>
  BY DEF TabsInit, Blank, Shape
<1> QED BY <1>1 DEF Good

(* Every page the runtime keeps open has a lane that can close it          *)
(* (control-ledger.cjs:27).                                                *)
THEOREM PagesCanBeClosed == TabsSpec => []PagesHaveLanes
<1>1. Good(server) => PagesHaveLanes
  BY DEF Good, HasLane, PagesHaveLanes, OpenLanes
<1> QED BY InitInv, StepInv, <1>1, PTL DEF TabsSpec

-----------------------------------------------------------------------------
(* Forms.  A captured navigation goes one way, from none to gone, and an   *)
(* entry carries it only to the page after the one it was captured on.     *)
Unsent(nav)   == nav.state \in {"none", "captured", "approved"}
NavShape(nav) == nav = [state |-> nav.state, tab |-> nav.tab, epoch |-> nav.epoch]
Carried(S, t) ==
  t.carries \in Navs => S.navs[t.carries].state # "none" /\ t.epoch = S.navs[t.carries].epoch + 1

Books(S) ==
  /\ Shape(S) /\ DOMAIN S.navs = Navs
  /\ \A n \in Navs : NavShape(S.navs[n])
  /\ \A t \in S.tickets \cup S.admitted : Carried(S, t)

(* A navigation keeps its page once captured, and does not become unsent.  *)
Onward(a, b) ==
  /\ NavShape(b) /\ (Unsent(b) => Unsent(a))
  /\ a.state # "none" => b.state # "none" /\ b.epoch = a.epoch
LaneMoves(S, T) == Books(T) /\ \A n \in Navs : Onward(S.navs[n], T.navs[n])

LEMMA CancelledOnward ==
  ASSUME NEW nav, NavShape(nav)
  PROVE  Onward(nav, Cancelled(nav)) /\ Onward(nav, nav)
<1>1. CASE nav.state \in {"captured", "approved"}
  <2>1. Cancelled(nav) = [state |-> "gone", tab |-> nav.tab, epoch |-> nav.epoch]
    BY <1>1 DEF Cancelled, NavShape
  <2> QED BY <1>1, <2>1 DEF Onward, NavShape, Unsent
<1>2. CASE nav.state \notin {"captured", "approved"}
  BY <1>2 DEF Cancelled, Onward
<1> QED BY <1>1, <1>2

LEMMA GoneOnward ==
  ASSUME NEW nav, NavShape(nav), nav.state # "none"
  PROVE  Onward(nav, [nav EXCEPT !.state = "gone"])
<1>1. [nav EXCEPT !.state = "gone"] = [state |-> "gone", tab |-> nav.tab, epoch |-> nav.epoch]
  BY DEF NavShape
<1> QED BY <1>1 DEF Onward, NavShape, Unsent

LEMMA MovesOn ==
  ASSUME NEW S, NEW T, Books(S), Shape(T), DOMAIN T.navs = Navs,
         \A n \in Navs : Onward(S.navs[n], T.navs[n]),
         \A t \in T.tickets \cup T.admitted : t \in S.tickets \cup S.admitted \/ Carried(T, t)
  PROVE  LaneMoves(S, T)
<1>1. ASSUME NEW t \in S.tickets \cup S.admitted PROVE Carried(T, t)
  BY DEF Books, Carried, Onward
<1> QED BY <1>1 DEF LaneMoves, Books, Onward

LEMMA MovesFar ==
  ASSUME NEW S, NEW T, NEW U, LaneMoves(S, T), LaneMoves(T, U)
  PROVE  LaneMoves(S, U)
BY DEF LaneMoves, Onward

(* What leaves navigations and entries alone.                              *)
LEMMA SameBooks ==
  ASSUME NEW S, NEW T, Books(S), Shape(T), T.navs = S.navs, T.tickets = S.tickets,
         T.admitted = S.admitted
  PROVE  LaneMoves(S, T)
<1>1. \A n \in Navs : Onward(S.navs[n], T.navs[n])
  BY CancelledOnward DEF Books
<1> QED BY <1>1, MovesOn DEF Books

LEMMA ClosedMoves ==
  ASSUME NEW S, NEW ids, Books(S)
  PROVE  LaneMoves(S, Closed(S, ids))
<1> DEFINE gone == ids \cap DOMAIN S.tabs
           tabs == [id \in DOMAIN S.tabs \ gone |-> S.tabs[id]]
           navs == [n \in DOMAIN S.navs |-> IF S.navs[n].tab \in gone THEN Cancelled(S.navs[n]) ELSE S.navs[n]]
           tickets == {t \in S.tickets : t.tab \notin gone}
           admitted == {t \in S.admitted : t.tab \notin gone}
           T == Closed(S, ids)
<1>1. T = [S EXCEPT !.tabs = tabs, !.navs = navs, !.tickets = tickets, !.admitted = admitted]
  BY DEF Closed
<1>2. DOMAIN navs = Navs /\ \A n \in Navs : navs[n] \in {S.navs[n], Cancelled(S.navs[n])}
  BY DEF Books
<1>3. tickets \subseteq S.tickets /\ admitted \subseteq S.admitted
  OBVIOUS
<1> HIDE DEF tabs, navs, tickets, admitted, T
<1>4. Shape(T) /\ T.navs = navs /\ T.tickets = tickets /\ T.admitted = admitted
  BY <1>1 DEF Books, Shape
<1>5. \A n \in Navs : Onward(S.navs[n], T.navs[n])
  BY <1>2, <1>4, CancelledOnward DEF Books
<1>6. \A t \in T.tickets \cup T.admitted : t \in S.tickets \cup S.admitted
  BY <1>3, <1>4
<1>7. LaneMoves(S, T)
  BY <1>2, <1>4, <1>5, <1>6, MovesOn
<1> QED BY <1>7 DEF T

LEMMA ForgottenMoves ==
  ASSUME NEW S, NEW ids, Books(S)
  PROVE  LaneMoves(S, Forgotten(S, ids))
<1> DEFINE C == Closed(S, ids)
           lanes == [id \in DOMAIN C.lanes \ ids |-> C.lanes[id]]
           T == Forgotten(S, ids)
<1>1. LaneMoves(S, C)
  BY ClosedMoves
<1>2. T = [C EXCEPT !.lanes = lanes]
  BY DEF Forgotten, WithoutLanes
<1> HIDE DEF lanes, T, C
<1>3. Shape(T) /\ T.navs = C.navs /\ T.tickets = C.tickets /\ T.admitted = C.admitted
  BY <1>1, <1>2 DEF LaneMoves, Books, Shape
<1>4. LaneMoves(C, T)
  BY <1>1, <1>3, SameBooks DEF LaneMoves
<1>5. LaneMoves(S, T)
  BY <1>1, <1>4, MovesFar
<1> QED BY <1>5 DEF T

(* A page that is opened carries nothing, or what was captured on the page *)
(* before it.                                                              *)
LEMMA OpenMoves ==
  ASSUME NEW S, NEW id, NEW epoch, NEW lease0, NEW carried, Books(S),
         carried \in Navs => S.navs[carried].state # "none" /\ epoch = S.navs[carried].epoch + 1
  PROVE  LaneMoves(S, Open(S, id, epoch, lease0, carried).S)
<1>1. CASE Open(S, id, epoch, lease0, carried).S = S
  BY <1>1, SameBooks DEF Books
<1>2. CASE Open(S, id, epoch, lease0, carried).S = Opened(S, id, epoch, lease0, carried)
  <2> DEFINE tabs == Assigned(S.tabs, id, [epoch |-> epoch, lease |-> lease0])
             navs == [n \in DOMAIN S.navs |-> IF S.navs[n].tab = id /\ S.navs[n].epoch # epoch /\ n # carried
                                              THEN Cancelled(S.navs[n]) ELSE S.navs[n]]
             new == [tab |-> id, epoch |-> epoch, carries |-> carried]
             tickets == {t \in S.tickets : t.tab # id} \cup {new}
             admitted == {t \in S.admitted : t.tab # id}
             T == Opened(S, id, epoch, lease0, carried)
  <2>1. T = [S EXCEPT !.tabs = tabs, !.navs = navs, !.tickets = tickets, !.admitted = admitted]
    BY DEF Opened
  <2>2. DOMAIN navs = Navs /\ \A n \in Navs : navs[n] \in {S.navs[n], Cancelled(S.navs[n])}
    BY DEF Books
  <2>3. tickets \subseteq S.tickets \cup {new} /\ admitted \subseteq S.admitted
    OBVIOUS
  <2>4. new.epoch = epoch /\ new.carries = carried
    OBVIOUS
  <2> HIDE DEF tabs, navs, tickets, admitted, new, T
  <2>5. Shape(T) /\ T.navs = navs /\ T.tickets = tickets /\ T.admitted = admitted
    BY <2>1 DEF Books, Shape
  <2>6. \A n \in Navs : Onward(S.navs[n], T.navs[n])
    BY <2>2, <2>5, CancelledOnward DEF Books
  <2>7. Carried(T, new)
    BY <2>4, <2>6 DEF Carried, Onward
  <2>8. \A t \in T.tickets \cup T.admitted : t \in S.tickets \cup S.admitted \/ Carried(T, t)
    BY <2>3, <2>5, <2>7
  <2>9. LaneMoves(S, T)
    BY <2>2, <2>5, <2>6, <2>8, MovesOn
  <2> QED BY <1>2, <2>9 DEF T
<1> QED BY <1>1, <1>2 DEF Open, Outcome

LEMMA ApproveMoves ==
  ASSUME NEW S, NEW id, NEW epoch, NEW nav, NEW lease0, Books(S)
  PROVE  LaneMoves(S, Approve(S, id, epoch, nav, lease0).S)
<1> DEFINE T == [S EXCEPT !.navs[nav].state = "approved"]
           captured == [state |-> "captured", tab |-> id, epoch |-> epoch]
<1>1. CASE Approve(S, id, epoch, nav, lease0).S = S
  BY <1>1, SameBooks DEF Books
<1>2. CASE /\ Approve(S, id, epoch, nav, lease0) = Open(T, id, epoch + 1, lease0, nav)
           /\ S.navs[nav] = captured
  <2> DEFINE navs == [S.navs EXCEPT ![nav] = [S.navs[nav] EXCEPT !.state = "approved"]]
  <2>1. T = [S EXCEPT !.navs = navs]
    OBVIOUS
  <2>2. DOMAIN navs = Navs /\ \A n \in Navs \ {nav} : navs[n] = S.navs[n]
    BY DEF Books
  <2>3. nav \in Navs => navs[nav] = [state |-> "approved", tab |-> id, epoch |-> epoch]
    BY <1>2 DEF Books
  <2> HIDE DEF navs, T
  <2>4. Shape(T) /\ T.navs = navs /\ T.tickets = S.tickets /\ T.admitted = S.admitted
    BY <2>1 DEF Books, Shape
  <2>5. ASSUME NEW n \in Navs PROVE Onward(S.navs[n], T.navs[n])
    <3>1. CASE n = nav
      BY <1>2, <2>3, <2>4, <3>1 DEF Onward, NavShape, Unsent
    <3>2. CASE n # nav
      BY <2>2, <2>4, <3>2, CancelledOnward DEF Books
    <3> QED BY <3>1, <3>2
  <2>6. LaneMoves(S, T)
    BY <2>2, <2>4, <2>5, MovesOn
  <2>7. nav \in Navs => T.navs[nav].state # "none" /\ epoch + 1 = T.navs[nav].epoch + 1
    BY <2>3, <2>4
  <2>8. LaneMoves(T, Open(T, id, epoch + 1, lease0, nav).S)
    BY <2>6, <2>7, OpenMoves DEF LaneMoves
  <2> QED BY <1>2, <2>6, <2>8, MovesFar
<1> QED BY <1>1, <1>2 DEF Approve, Outcome

LEMMA PerformMoves ==
  ASSUME NEW S, NEW m, NEW lease0, Books(S)
  PROVE  LaneMoves(S, Perform(S, m, lease0).S)
<1>1. LaneMoves(S, S)
  BY SameBooks DEF Books
<1>2. LaneMoves(S, Open(S, m.id, m.epoch, lease0, 0).S)
  <2>1. 0 \notin Navs
    BY DEF Navs
  <2> QED BY <2>1, OpenMoves
<1>3. LaneMoves(S, Approve(S, m.id, m.epoch, m.nav, lease0).S)
  BY ApproveMoves
<1>4. CloseTab(S, m.id, m.epoch).S \in {S, Closed(S, {m.id})}
  BY DEF CloseTab, Outcome
<1>5. LaneMoves(S, CloseTab(S, m.id, m.epoch).S)
  BY <1>1, <1>4, ClosedMoves
<1>6. Outcome(S, "rejected", 0).S = S
  BY DEF Outcome
<1> QED BY <1>1, <1>2, <1>3, <1>5, <1>6 DEF Perform

LEMMA RunMoves ==
  ASSUME NEW S, NEW m, NEW lease0, NEW victim, Books(S), Good(S)
  PROVE  LaneMoves(S, Run(S, m, lease0, victim).S)
<1>1. CASE Run(S, m, lease0, victim).S = S
  BY <1>1, SameBooks DEF Books
<1>2. CASE Run(S, m, lease0, victim) = InLane(Known(S, m, lease0, victim), m, lease0)
  <2> DEFINE K == Known(S, m, lease0, victim)
             lane == K.lanes[m.id]
             done == Perform(K, m, lease0)
             next == [lane EXCEPT !.op = m.op, !.answer = done.answer,
                                  !.closed = IF done.answer.code = "opened" THEN FALSE
                                             ELSE @ \/ done.answer.code = "closed"]
             out == [done EXCEPT !.S.lanes[m.id] = next]
  <2>1. LaneMoves(S, K) /\ Good(K)
    <3>1. CASE m.id \in DOMAIN S.lanes
      BY <3>1, SameBooks DEF Known, Books
    <3>2. CASE m.id \notin DOMAIN S.lanes
      <4> DEFINE room == IF HasRoom(S) THEN S ELSE Forgotten(S, {victim})
                 lanes == Assigned(room.lanes, m.id, NewLane(lease0))
      <4>1. LaneMoves(S, room)
        BY ForgottenMoves, SameBooks DEF Books
      <4>2. K = [room EXCEPT !.lanes = lanes]
        BY <3>2 DEF Known
      <4> HIDE DEF room, lanes, K
      <4>3. Shape(K) /\ K.navs = room.navs /\ K.tickets = room.tickets /\ K.admitted = room.admitted
        BY <4>1, <4>2 DEF LaneMoves, Books, Shape
      <4>4. LaneMoves(room, K)
        BY <4>1, <4>3, SameBooks DEF LaneMoves
      <4>5. LaneMoves(S, K)
        BY <4>1, <4>4, MovesFar
      <4>6. Good(K)
        BY <3>2, KnownKeeps DEF K
      <4> QED BY <4>5, <4>6
    <3> QED BY <3>1, <3>2
  <2> HIDE DEF K
  <2>2. LaneMoves(K, done.S) /\ Shape(done.S)
    BY <2>1, PerformMoves, PerformEffect DEF LaneMoves, Effect
  <2>3. InLane(K, m, lease0).S \in {K, out.S}
    BY DEF InLane, Outcome
  <2> HIDE DEF done, lane, next
  <2>4. LaneMoves(done.S, out.S)
    <3>1. done = [S |-> done.S, answer |-> done.answer]
      BY <2>1, PerformEffect DEF Effect, done
    <3>2. /\ Shape(out.S) /\ out.S.navs = done.S.navs
          /\ out.S.tickets = done.S.tickets /\ out.S.admitted = done.S.admitted
      BY <2>2, <3>1 DEF Shape
    <3> HIDE DEF out
    <3> QED BY <2>2, <3>2, SameBooks DEF LaneMoves
  <2> HIDE DEF out
  <2>5. LaneMoves(S, out.S)
    BY <2>1, <2>2, <2>4, MovesFar
  <2> QED BY <1>2, <2>1, <2>3, <2>5 DEF K
<1> QED BY <1>1, <1>2 DEF Run, Outcome

(* One navigation is written over.                                         *)
LEMMA NavMoves ==
  ASSUME NEW S, NEW n \in Navs, NEW nav, Books(S), Onward(S.navs[n], nav)
  PROVE  LaneMoves(S, [S EXCEPT !.navs[n] = nav])
<1> DEFINE T == [S EXCEPT !.navs[n] = nav]
           navs == [S.navs EXCEPT ![n] = nav]
<1>1. T = [S EXCEPT !.navs = navs]
  OBVIOUS
<1>2. DOMAIN navs = Navs /\ navs[n] = nav /\ \A k \in Navs \ {n} : navs[k] = S.navs[k]
  BY DEF Books
<1> HIDE DEF navs, T
<1>3. Shape(T) /\ T.navs = navs /\ T.tickets = S.tickets /\ T.admitted = S.admitted
  BY <1>1 DEF Books, Shape
<1>4. \A k \in Navs : Onward(S.navs[k], T.navs[k])
  BY <1>2, <1>3, CancelledOnward DEF Books
<1>5. LaneMoves(S, T)
  BY <1>2, <1>3, <1>4, MovesOn
<1> QED BY <1>5 DEF T

(* Entries are used up, moved or dropped, never made.                      *)
LEMMA EntriesMove ==
  ASSUME NEW S, NEW T, Books(S), Shape(T), T.navs = S.navs,
         T.tickets \cup T.admitted \subseteq S.tickets \cup S.admitted
  PROVE  LaneMoves(S, T)
<1>1. \A n \in Navs : Onward(S.navs[n], T.navs[n])
  BY CancelledOnward DEF Books
<1>2. DOMAIN T.navs = Navs
  BY DEF Books
<1> QED BY <1>1, <1>2, MovesOn

(* The history agrees with the books: what is still to be sent was not.    *)
Record(s, nav) ==
  /\ s.times \in {0, 1} /\ s.stale = FALSE
  /\ Unsent(nav) => s.times = 0
SentInv ==
  /\ Good(server) /\ Books(server)
  /\ DOMAIN sent = Navs /\ \A n \in Navs : Record(sent[n], server.navs[n])

LEMMA RecordsStay ==
  ASSUME SentInv, UNCHANGED sent, LaneMoves(server, server')
  PROVE  Books(server') /\ DOMAIN sent' = Navs /\ \A n \in Navs : Record(sent'[n], server'.navs[n])
BY DEF SentInv, LaneMoves, Onward, Record

(* The page's request sends what its entry carries, which is then sending. *)
LEMMA FollowSends ==
  ASSUME SentInv, NEW c \in Clients, NEW repeats \in BOOLEAN, Follow(c, repeats)
  PROVE  Books(server') /\ DOMAIN sent' = Navs /\ \A n \in Navs : Record(sent'[n], server'.navs[n])
<1> DEFINE f == frame[c]
           T == Followed(server, f.id, f.epoch)
           going == Sends(server, f.id, f.epoch)
           admitted == server.admitted \ Admission(server, f.id, f.epoch)
           navs == [n \in DOMAIN server.navs |->
                      IF n \in Carries(server, f.id, f.epoch) /\ server.navs[n].state = "approved"
                      THEN [server.navs[n] EXCEPT !.state = "sending"] ELSE server.navs[n]]
<1>1. Books(server) /\ DOMAIN server.navs = Navs
  BY DEF SentInv, Books
<1>2. T = [server EXCEPT !.admitted = admitted, !.navs = navs]
  BY DEF Followed
<1>3. /\ DOMAIN navs = Navs
      /\ \A n \in Navs \ going : navs[n] = server.navs[n]
      /\ \A n \in going : n \in Navs /\ server.navs[n].state = "approved"
                           /\ navs[n] = [server.navs[n] EXCEPT !.state = "sending"]
  BY <1>1 DEF Sends, Carries
<1>4. admitted \subseteq server.admitted
  OBVIOUS
<1>5. ASSUME NEW n \in going PROVE f.epoch = server.navs[n].epoch + 1
  <2>1. PICK t \in server.admitted : t.carries = n /\ t.epoch = f.epoch
    BY <1>5 DEF Sends, Carries, Admission, EntryOf
  <2>2. Carried(server, t) /\ n \in Navs
    BY <1>1, <1>3, <1>5, <2>1 DEF Books
  <2> QED BY <2>1, <2>2 DEF Carried
<1>6. /\ DOMAIN sent' = Navs
      /\ \A n \in Navs \ going : sent'[n] = sent[n]
      /\ \A n \in going :
           /\ sent'[n].times = sent[n].times + 1
           /\ sent'[n].stale = (sent[n].stale \/ f.epoch # server.navs[n].epoch + 1)
  BY <1>3 DEF Follow, Counted
<1>7. server' = T
  BY DEF Follow
<1> HIDE DEF T, going, admitted, navs, f
<1>8. Shape(T) /\ T.navs = navs /\ T.tickets = server.tickets /\ T.admitted = admitted
  BY <1>1, <1>2 DEF Books, Shape
<1>9. ASSUME NEW n \in going
      PROVE  navs[n].state = "sending" /\ Onward(server.navs[n], navs[n])
  <2>1. NavShape(server.navs[n]) /\ server.navs[n].state = "approved"
    BY <1>1, <1>3, <1>9 DEF Books
  <2>2. navs[n] = [server.navs[n] EXCEPT !.state = "sending"]
    BY <1>3, <1>9
  <2> HIDE DEF navs
  <2>3. navs[n] = [state |-> "sending", tab |-> server.navs[n].tab, epoch |-> server.navs[n].epoch]
    BY <2>1, <2>2 DEF NavShape
  <2> QED BY <2>1, <2>3 DEF Onward, NavShape, Unsent
<1>10. ASSUME NEW n \in Navs PROVE Onward(server.navs[n], T.navs[n])
  <2>1. CASE n \in going
    BY <1>8, <1>9, <2>1
  <2>2. CASE n \notin going
    BY <1>1, <1>3, <1>8, <2>2, CancelledOnward DEF Books
  <2> QED BY <2>1, <2>2
<1>11. LaneMoves(server, T)
  BY <1>1, <1>3, <1>4, <1>8, <1>10, MovesOn
<1>12. ASSUME NEW n \in Navs PROVE Record(sent'[n], T.navs[n])
  <2>1. CASE n \in going
    <3>1. sent[n].times = 0 /\ sent[n].stale = FALSE
      BY <1>3, <2>1 DEF SentInv, Record, Unsent
    <3>2. f.epoch = server.navs[n].epoch + 1
      BY <1>5, <2>1
    <3>3. sent'[n].times = 1
      <4>1. sent'[n].times = sent[n].times + 1
        BY <1>6, <2>1
      <4> QED BY <3>1, <4>1
    <3>4. sent'[n].stale = FALSE
      <4>1. sent'[n].stale = (sent[n].stale \/ f.epoch # server.navs[n].epoch + 1)
        BY <1>6, <2>1
      <4> QED BY <3>1, <3>2, <4>1
    <3>5. navs[n].state = "sending"
      BY <1>9, <2>1
    <3>6. ~Unsent(T.navs[n])
      BY <1>8, <3>5 DEF Unsent
    <3> QED BY <3>3, <3>4, <3>6 DEF Record
  <2>2. CASE n \notin going
    BY <1>3, <1>6, <1>8, <2>2 DEF SentInv
  <2> QED BY <2>1, <2>2
<1> QED BY <1>6, <1>7, <1>11, <1>12 DEF LaneMoves

LEMMA SentStep == SentInv /\ [TabsNext]_tabVars => SentInv'
<1> SUFFICES ASSUME SentInv, [TabsNext]_tabVars PROVE SentInv'
  OBVIOUS
<1> DEFINE Goal == /\ Books(server') /\ DOMAIN sent' = Navs
                   /\ \A n \in Navs : Record(sent'[n], server'.navs[n])
<1>0. Books(server) /\ Good(server) /\ DOMAIN server.navs = Navs /\ Shape(server)
  BY DEF SentInv, Books
<1>1. ASSUME UNCHANGED <<server, sent>> PROVE Goal
  BY <1>1 DEF SentInv
<1>2. ASSUME UNCHANGED sent, LaneMoves(server, server') PROVE Goal
  BY <1>2, RecordsStay
<1> HIDE DEF Goal
<1>3. ASSUME NEW c \in Clients,
             AskFor(c) \/ Retry(c) \/ Activate(c) \/ Close(c) \/ Begin(c) \/ Answered(c) \/ NoAnswer(c)
             \/ Reports(c) \/ Submit(c) \/ NavigationPage(c) \/ Challenge(c) \/ SlowLoad(c)
      PROVE  Goal
  <2>1. UNCHANGED <<server, sent>>
    BY <1>3 DEF AskFor, Retry, Activate, Close, Begin, Answered, NoAnswer, Reports, Submit,
                NavigationPage, Challenge, SlowLoad
  <2> QED BY <1>1, <2>1
<1>4. ASSUME NEW c \in Clients, NEW m \in calls[c], Deliver(c, m) PROVE Goal
  <2>1. PICK victim : server' = Run(server, m, lease, victim).S
    BY <1>4 DEF Deliver
  <2>2. LaneMoves(server, server') /\ UNCHANGED sent
    BY <1>0, <1>4, <2>1, RunMoves DEF Deliver
  <2> QED BY <1>2, <2>2
<1>5. ASSUME NEW c \in Clients, Enter(c) PROVE Goal
  <2> DEFINE f == frame[c]
             T == Entered(server, f.id, f.epoch)
             tickets == server.tickets \ EntryOf(server.tickets, f.id, f.epoch)
             admitted == server.admitted \cup EntryOf(server.tickets, f.id, f.epoch)
  <2>1. T = [server EXCEPT !.tickets = tickets, !.admitted = admitted]
    BY DEF Entered
  <2>2. tickets \cup admitted \subseteq server.tickets \cup server.admitted
    BY DEF EntryOf
  <2>3. UNCHANGED sent /\ server' \in {server, T}
    BY <1>5 DEF Enter
  <2> HIDE DEF tickets, admitted, T
  <2>4. Shape(T) /\ T.navs = server.navs /\ T.tickets = tickets /\ T.admitted = admitted
    BY <1>0, <2>1 DEF Shape
  <2>5. LaneMoves(server, T)
    BY <1>0, <2>2, <2>4, EntriesMove
  <2> QED BY <1>1, <1>2, <2>3, <2>5
<1>6. ASSUME NEW c \in Clients, NEW repeats \in BOOLEAN, Follow(c, repeats) PROVE Goal
  BY <1>6, FollowSends DEF Goal
<1>7. ASSUME NEW c \in Clients, UploadRead(c) \/ Redirected(c) PROVE Goal
  <2>1. PICK n \in Unused, told \in {"challenge", "told"} : Capture(c, n, told)
    BY <1>7 DEF UploadRead, Redirected
  <2> DEFINE nav == [state |-> "captured", tab |-> frame[c].id, epoch |-> frame[c].epoch]
  <2>2. /\ UNCHANGED sent
        /\ server' = server \/ server' = [server EXCEPT !.navs[n] = nav]
    BY <2>1 DEF Capture, Captured
  <2>3. n \in Navs /\ server.navs[n].state = "none"
    BY <2>1 DEF Unused
  <2>4. Onward(server.navs[n], nav)
    BY <2>3 DEF Onward, NavShape, Unsent
  <2> HIDE DEF nav
  <2>5. LaneMoves(server, [server EXCEPT !.navs[n] = nav])
    BY <1>0, <2>3, <2>4, NavMoves
  <2> QED BY <1>1, <1>2, <2>2, <2>5
<1>8. ASSUME NEW n \in Navs, SendingEnds(n) PROVE Goal
  <2> DEFINE nav == [server.navs[n] EXCEPT !.state = "gone"]
  <2>1. UNCHANGED sent /\ server' = [server EXCEPT !.navs[n] = nav] /\ server.navs[n].state # "none"
    BY <1>8 DEF SendingEnds
  <2>2. NavShape(server.navs[n])
    BY <1>0 DEF Books
  <2>3. Onward(server.navs[n], nav)
    BY <2>1, <2>2, GoneOnward
  <2> HIDE DEF nav
  <2>4. LaneMoves(server, server')
    BY <1>0, <2>1, <2>3, NavMoves
  <2> QED BY <1>2, <2>1, <2>4
<1>9. ASSUME Heartbeat \/ HeartbeatAnswered PROVE Goal
  <2>1. UNCHANGED <<server, sent>>
    BY <1>9 DEF Heartbeat, HeartbeatAnswered
  <2> QED BY <1>1, <2>1
<1>10. ASSUME Surroundings PROVE Goal
  <2>1. ASSUME Restart PROVE LaneMoves(server, server')
    <3> DEFINE navs == [n \in Navs |-> IF server.navs[n].state = "none" THEN NoNav
                                       ELSE [server.navs[n] EXCEPT !.state = "gone"]]
    <3>1. server' = [Blank(Navs) EXCEPT !.navs = navs]
      BY <2>1 DEF Restart
    <3>2. ASSUME NEW n \in Navs PROVE Onward(server.navs[n], navs[n])
      <4>1. CASE server.navs[n].state = "none"
        BY <4>1 DEF Onward, NavShape, Unsent, NoNav
      <4>2. CASE server.navs[n].state # "none"
        <5>1. NavShape(server.navs[n])
          BY <1>0 DEF Books
        <5>2. navs[n] = [server.navs[n] EXCEPT !.state = "gone"]
          BY <4>2
        <5> QED BY <4>2, <5>1, <5>2, GoneOnward
      <4> QED BY <4>1, <4>2
    <3>3. DOMAIN navs = Navs
      OBVIOUS
    <3> HIDE DEF navs
    <3>4. /\ Shape(server') /\ server'.navs = navs
          /\ server'.tickets = {} /\ server'.admitted = {}
      BY <3>1 DEF Blank, Shape
    <3> QED BY <1>0, <3>2, <3>3, <3>4, MovesOn
  <2>2. ASSUME Lapses PROVE LaneMoves(server, server')
    BY <1>0, <2>2, ForgottenMoves DEF Lapses
  <2>3. ASSUME Deadline PROVE LaneMoves(server, server')
    <3>1. CASE \E n \in Navs : server' = [server EXCEPT !.navs[n] = Cancelled(@)]
      <4>1. PICK n \in Navs : server' = [server EXCEPT !.navs[n] = Cancelled(server.navs[n])]
        BY <3>1
      <4>2. Onward(server.navs[n], Cancelled(server.navs[n]))
        BY <1>0, CancelledOnward DEF Books
      <4> QED BY <1>0, <4>1, <4>2, NavMoves
    <3>2. CASE \E t \in server.tickets : server' = [server EXCEPT !.tickets = @ \ {t}]
      <4>1. /\ Shape(server') /\ server'.navs = server.navs
            /\ server'.tickets \subseteq server.tickets /\ server'.admitted = server.admitted
        BY <1>0, <3>2 DEF Shape
      <4> QED BY <1>0, <4>1, EntriesMove
    <3>3. CASE \E t \in server.admitted : server' = [server EXCEPT !.admitted = @ \ {t}]
      <4>1. /\ Shape(server') /\ server'.navs = server.navs
            /\ server'.tickets = server.tickets /\ server'.admitted \subseteq server.admitted
        BY <1>0, <3>3 DEF Shape
      <4> QED BY <1>0, <4>1, EntriesMove
    <3> QED BY <2>3, <3>1, <3>2, <3>3 DEF Deadline
  <2>4. ASSUME NewSignIn PROVE LaneMoves(server, server')
    BY <1>0, <2>4, ForgottenMoves, SameBooks, Zenon DEF NewSignIn
  <2>5. UNCHANGED sent
    BY <1>10 DEF Surroundings
  <2> QED BY <1>2, <1>10, <2>1, <2>2, <2>3, <2>4, <2>5 DEF Surroundings
<1>11. ASSUME UNCHANGED tabVars PROVE Goal
  BY <1>1, <1>11 DEF tabVars
<1>12. Goal
  BY <1>3, <1>4, <1>5, <1>6, <1>7, <1>8, <1>9, <1>10, <1>11 DEF TabsNext
<1> QED BY <1>0, <1>12, StepInv DEF SentInv, Goal

(* A form is sent at most once and only as the page after its own, for any *)
(* tabs, limits, losses and repetitions (gateway.cjs, navigation.cjs).     *)
THEOREM FormsSentOnce == TabsSpec => []SentOnce
<1>1. TabsInit => SentInv
  <2> SUFFICES ASSUME TabsInit PROVE Books(server) /\ DOMAIN sent = Navs
                                    /\ \A n \in Navs : Record(sent[n], server.navs[n])
    BY InitInv DEF SentInv
  <2>1. /\ Shape(server) /\ server.navs = [n \in Navs |-> NoNav]
        /\ server.tickets = {} /\ server.admitted = {}
    BY DEF TabsInit, Blank, Shape
  <2>2. NavShape(NoNav)
    BY DEF NavShape, NoNav
  <2>3. sent = [n \in Navs |-> [times |-> 0, stale |-> FALSE]]
    BY DEF TabsInit
  <2> QED BY <2>1, <2>2, <2>3 DEF Books, Record
<1>2. SentInv => SentOnce
  BY DEF SentInv, Record, SentOnce
<1> QED BY <1>1, <1>2, SentStep, PTL DEF TabsSpec
=============================================================================
