-------------------------- MODULE TabHistoryProofs --------------------------
(***************************************************************************)
(* Back and Forward start where the document is, for any addresses, any    *)
(* size of a journal and any numbers of requests, changes and failures.    *)
(*                                                                         *)
(* The toolbar replaces the entries of a document by what it reports, so   *)
(* the argument is about reports: those under way come from the page that  *)
(* is shown, in order, with journals that only get newer (Talk); a         *)
(* document that starts has a number above every one in the list, so its   *)
(* first report takes a slot of its own (Whole); and while a step waits    *)
(* for its page, the list is true of the place the toolbar returns to if   *)
(* the step fails (Place, Faithful).                                       *)
(***************************************************************************)
EXTENDS TabHistory, SequenceTheorems, WellFoundedInduction, TLAPS

-----------------------------------------------------------------------------
(* The shapes of the state.                                                *)
Slots == [doc : Int, id : Nat, url : Addresses]
Toolbars == [list : Seq(Slots), position : Nat, queue : Seq({-1, 0, 1}), walker : {"idle", "open", "traverse"},
             target : Targets \cup {Nil}, gen : Nat, walkGen : Nat, key : Nat \X Nat,
             notice : BOOLEAN, astray : BOOLEAN]
Controllers == [seq : Nat, visit : Nat, url : Addresses, loading : BOOLEAN, expired : BOOLEAN,
                nonce : Nat, doc : Nat, hseq : Int, journal : Journals \cup {Nil},
                traversal : Nat \cup {Nil}, pending : Addresses]

Openings == [kind : {"go", "place", "history", "retry", "recover"}, seq : Nat, url : Addresses,
             gen : Nat, again : BOOLEAN]
Attaches == [kind : {"attach"}, nonce : Nat]
Traverses == [kind : {"traverse"}, nonce : Nat, doc : Nat, to : Nat, basis : Nat]

(* Where the toolbar is, or goes back to if the step it waits for fails.   *)
Place(h) == IF h.target = Nil THEN h.position
            ELSE IF h.target.previous = 0 THEN h.position ELSE h.target.previous

(* The step under way leads to a slot of the list, next to where it        *)
(* started, and the toolbar is at one of the two.                          *)
Led(h) == h.target # Nil =>
  /\ h.target.position <= Len(h.list) /\ h.target.previous <= Len(h.list)
  /\ h.target.previous # 0 => h.target.previous <= h.target.position + 1
  /\ \/ h.position = h.target.position
     \/ h.target.previous # 0 /\ h.position = h.target.previous

(* A page that loads for a step has not reported; unless the list went     *)
(* astray, no page that has reported loads for a step.                     *)
Taken(h, c) == h.target # Nil /\ h.target.visit # 0 =>
  /\ c.loading \/ c.journal = Nil
  /\ ~h.astray => c.journal = Nil
Rooted(h) == ~h.astray =>
  /\ h.list # <<>> => h.position # 0
  /\ h.target # Nil => h.target.position # 0

(* The shown document's entries are together in the list, they have its    *)
(* address, and no later document has any.                                 *)
AtAnEntry(s) == s.index \in 1 .. Len(s.entries)
Together(list, doc) ==
  \A i, j, k \in 1 .. Len(list) :
    i <= j /\ j <= k /\ list[i].doc = doc /\ list[k].doc = doc => list[j].doc = doc
Whole(h, c) == c.journal # Nil =>
  /\ AtAnEntry(c.journal) /\ c.journal.doc # 0
  /\ Together(h.list, c.journal.doc)
  /\ \A i \in 1 .. Len(h.list) : h.list[i].doc = c.journal.doc => h.list[i].url = c.url
  /\ \A i \in 1 .. Len(h.list) : h.list[i].doc <= c.journal.doc
  /\ h.key[1] <= c.journal.doc
  /\ h.key[1] = c.journal.doc => h.key[2] <= c.journal.seq
Heard(h, c) ==
  /\ c.doc # 0 => c.journal # Nil
  /\ \A i \in 1 .. Len(h.list) : h.list[i].doc # 0

(* What the list says of the shown document, at the place it returns to.   *)
MirrorsAt(h, c, at) ==
  LET start == at - c.journal.index + 1 IN
  /\ start >= 1 /\ start + Len(c.journal.entries) - 1 <= Len(h.list)
  /\ \A i \in 1 .. Len(h.list) :
       h.list[i].doc = c.journal.doc <=> i \in start .. (start + Len(c.journal.entries) - 1)
  /\ \A i \in 1 .. Len(c.journal.entries) : h.list[start + i - 1].id = c.journal.entries[i]
KeptAt(h, c, at) ==
  c.loading /\ at # 0 /\ h.list[at].url = c.url /\ h.list[at].doc < -2
Latest(h, c) ==
  /\ c.journal # Nil /\ ~c.expired /\ ~h.astray
  /\ h.key = <<c.journal.doc, c.journal.seq>>
Faithful(h, c) == Latest(h, c) => MirrorsAt(h, c, Place(h)) \/ KeptAt(h, c, Place(h))

Core(h, c) ==
  /\ h.position <= Len(h.list) /\ Led(h) /\ Taken(h, c) /\ Rooted(h)
  /\ Whole(h, c) /\ Heard(h, c) /\ Faithful(h, c)

(* What a failed step may change.                                          *)
Returns(h, g) ==
  /\ g \in Toolbars
  /\ g.list = h.list /\ g.key = h.key /\ g.astray = h.astray
  /\ \/ g.position = h.position /\ g.target = h.target
     \/ g.position = Place(h) /\ g.target \in {h.target, Nil}

LEMMA RollingBack ==
  ASSUME NEW h \in Toolbars
  PROVE  /\ RolledBack(h) \in Toolbars
         /\ RolledBack(h) = [h EXCEPT !.position = Place(h)]
         /\ Place(h) \in Nat
<1>1. Place(h) \in Nat
  BY DEF Toolbars, Targets, Place
<1>2. RolledBack(h) = [h EXCEPT !.position = Place(h)]
  BY DEF Toolbars, Place, RolledBack
<1>3. RolledBack(h) \in Toolbars
  BY <1>1, <1>2 DEF Toolbars
<1> QED BY <1>1, <1>2, <1>3

LEMMA FailedStep ==
  ASSUME NEW h \in Toolbars, NEW c \in Controllers
  PROVE  Returns(h, StepFailed(h, c))
<1> DEFINE r == RolledBack(h)
<1>1. r \in Toolbars /\ r = [h EXCEPT !.position = Place(h)] /\ Place(h) \in Nat
  BY RollingBack
<1>2. r.list = h.list /\ r.key = h.key /\ r.astray = h.astray /\ r.target = h.target /\ r.position = Place(h)
  BY <1>1 DEF Toolbars
<1>3. CASE h.walkGen # h.gen
  <2>1. StepFailed(h, c) = [h EXCEPT !.walker = "idle"]
    BY <1>3 DEF StepFailed
  <2>2. StepFailed(h, c) \in Toolbars
    BY <2>1 DEF Toolbars
  <2>3. /\ StepFailed(h, c).list = h.list /\ StepFailed(h, c).key = h.key
        /\ StepFailed(h, c).astray = h.astray
        /\ StepFailed(h, c).position = h.position /\ StepFailed(h, c).target = h.target
    BY <2>1 DEF Toolbars
  <2> QED BY <2>2, <2>3 DEF Returns
<1>4. CASE h.walkGen = h.gen
  <2> DEFINE t == IF c.pending = Nil THEN Nil ELSE r.target
  <2> HIDE DEF r
  <2>1. StepFailed(h, c) = [r EXCEPT !.walker = "idle", !.queue = <<>>, !.notice = TRUE, !.target = t]
    BY <1>4, <1>1 DEF StepFailed, r, Toolbars
  <2>2. t \in Targets \cup {Nil}
    BY <1>1 DEF Toolbars
  <2>3. t \in {h.target, Nil}
    BY <1>2
  <2> HIDE DEF t
  <2> DEFINE q == <<>>
  <2>q. q \in Seq({-1, 0, 1})
    OBVIOUS
  <2> HIDE DEF q
  <2>4. StepFailed(h, c) \in Toolbars
    <3>1. StepFailed(h, c) = [r EXCEPT !.walker = "idle", !.queue = q, !.notice = TRUE, !.target = t]
      BY <2>1 DEF q
    <3> QED BY <1>1, <2>2, <2>q, <3>1 DEF Toolbars
  <2>5. /\ StepFailed(h, c).list = h.list /\ StepFailed(h, c).key = h.key
        /\ StepFailed(h, c).astray = h.astray
        /\ StepFailed(h, c).position = Place(h) /\ StepFailed(h, c).target = t
    BY <1>1, <1>2, <2>1 DEF Toolbars
  <2> QED BY <2>3, <2>4, <2>5 DEF Returns
<1> QED BY <1>3, <1>4

(* What the toolbar knows of the shown document, as far as the list is     *)
(* concerned.                                                              *)
SameView(c, d) ==
  /\ d.url = c.url /\ d.journal = c.journal /\ d.doc \in {0, c.doc}
  /\ c.loading => d.loading
  /\ c.expired => d.expired

LEMMA Carried ==
  ASSUME NEW h \in Toolbars, NEW g \in Toolbars, NEW c \in Controllers, NEW d \in Controllers,
         Core(h, c), SameView(c, d), g.list = h.list, g.key = h.key, h.astray => g.astray,
         Latest(g, d) => Place(g) = Place(h)
  PROVE  Whole(g, d) /\ Heard(g, d) /\ Faithful(g, d)
<1>1. Whole(h, c) /\ Heard(h, c) /\ Faithful(h, c)
  BY DEF Core
<1>2. Whole(g, d)
  BY ONLY <1>1, SameView(c, d), g.list = h.list, g.key = h.key DEF Whole, SameView
<1>3. Heard(g, d)
  BY ONLY <1>1, SameView(c, d), g.list = h.list DEF Heard, SameView
<1>4. Faithful(g, d)
  <2> SUFFICES ASSUME Latest(g, d) PROVE MirrorsAt(g, d, Place(g)) \/ KeptAt(g, d, Place(g))
    BY DEF Faithful
  <2>1. Latest(h, c)
    BY DEF Latest, SameView
  <2>2. MirrorsAt(h, c, Place(h)) \/ KeptAt(h, c, Place(h))
    BY <1>1, <2>1 DEF Faithful
  <2>3. Place(g) = Place(h)
    OBVIOUS
  <2>4. MirrorsAt(h, c, Place(h)) => MirrorsAt(g, d, Place(g))
    BY ONLY <2>3, g.list = h.list, SameView(c, d) DEF MirrorsAt, SameView
  <2>5. KeptAt(h, c, Place(h)) => KeptAt(g, d, Place(g))
    BY ONLY <2>3, g.list = h.list, SameView(c, d) DEF KeptAt, SameView
  <2> QED BY <2>2, <2>4, <2>5
<1> QED BY <1>2, <1>3, <1>4

LEMMA Returned ==
  ASSUME NEW h \in Toolbars, NEW g, NEW c \in Controllers, NEW d \in Controllers,
         Core(h, c), SameView(c, d), d.loading = c.loading, Returns(h, g)
  PROVE  Core(g, d) /\ Place(g) = Place(h)
<1>1. /\ g \in Toolbars /\ g.list = h.list /\ g.key = h.key /\ g.astray = h.astray
      /\ \/ g.position = h.position /\ g.target = h.target
         \/ g.position = Place(h) /\ g.target \in {h.target, Nil}
  BY DEF Returns
<1>2. /\ h.position \in Nat /\ Len(h.list) \in Nat
      /\ h.target # Nil => h.target.position \in Nat /\ h.target.previous \in Nat
  BY DEF Toolbars, Targets
<1>3. Place(g) = Place(h)
  BY <1>1 DEF Place
<1>4. /\ h.position <= Len(h.list) /\ Led(h) /\ Taken(h, c) /\ Rooted(h)
  BY DEF Core
<1>5. Place(h) <= Len(h.list)
  BY <1>4, <1>2 DEF Place, Led
<1>6. g.position <= Len(g.list)
  BY <1>1, <1>4, <1>5
<1>7. Led(g)
  BY ONLY <1>1, <1>2, <1>4 DEF Led, Place
<1>8. Taken(g, d)
  BY ONLY <1>1, <1>4, SameView(c, d), d.loading = c.loading DEF Taken, SameView
<1>9. Rooted(g)
  BY ONLY <1>1, <1>2, <1>4, <1>5 DEF Rooted, Place
<1>10. Whole(g, d) /\ Heard(g, d) /\ Faithful(g, d)
  BY <1>1, <1>3, Carried
<1> QED BY <1>3, <1>6, <1>7, <1>8, <1>9, <1>10 DEF Core

LEMMA CancelledStep ==
  ASSUME NEW h \in Toolbars, NEW c \in Controllers
  PROVE  Returns(h, StepCancelled(h, c))
<1>1. Returns(h, h)
  BY DEF Returns
<1> QED BY <1>1, FailedStep DEF StepCancelled

LEMMA Least ==
  ASSUME NEW T \in SUBSET Nat, T # {}
  PROVE  First(T) \in T /\ \A y \in T : First(T) <= y
<1> DEFINE less == OpToRel(<, Nat)
<1>1. IsWellFoundedOn(less, Nat)
  BY NatLessThanWellFounded
<1>2. \A x, y \in Nat : x < y => <<x, y>> \in less
  BY DEF OpToRel
<1> HIDE DEF less
<1>3. PICK x \in T : \A y \in T : <<y, x>> \notin less
  BY <1>1, WFMin
<1>4. ASSUME NEW y \in T PROVE x <= y
  <2>1. x \in Nat /\ y \in Nat
    OBVIOUS
  <2>2. ~(y < x)
    BY <1>2, <1>3, <2>1
  <2> QED BY <2>1, <2>2
<1> QED BY <1>3, <1>4 DEF First

LEMMA Extended ==
  ASSUME NEW list \in Seq(Slots), NEW p \in Nat, p <= Len(list), NEW e \in Slots, NEW s,
         s = SubSeq(list, 1, p) \o <<e>>
  PROVE  /\ s \in Seq(Slots) /\ Len(s) = p + 1
         /\ \A i \in 1 .. p : s[i] = list[i]
         /\ s[p + 1] = e
<1> DEFINE front == SubSeq(list, 1, p)
<1>1. Len(list) \in Nat
  OBVIOUS
<1>2. front \in Seq(Slots) /\ Len(front) = p /\ \A i \in 1 .. p : front[i] = list[i]
  <2>1. \A i \in 1 .. p : list[i] \in Slots
    BY <1>1
  <2> QED BY <1>1, <2>1, SubSeqProperties
<1>3. <<e>> \in Seq(Slots) /\ Len(<<e>>) = 1 /\ <<e>>[1] = e
  OBVIOUS
<1> DEFINE back == <<e>>
<1> HIDE DEF front, back
<1>4. /\ front \o back \in Seq(Slots) /\ Len(front \o back) = Len(front) + Len(back)
      /\ \A i \in 1 .. Len(front) + Len(back) :
           (front \o back)[i] = IF i <= Len(front) THEN front[i] ELSE back[i - Len(front)]
  BY <1>2, <1>3, ConcatProperties DEF back
<1>5. s = front \o back
  BY DEF front, back
<1>6. Len(back) = 1 /\ back[1] = e
  BY <1>3 DEF back
<1>7. Len(s) = p + 1
  BY <1>2, <1>4, <1>5, <1>6
<1>8. ASSUME NEW i \in 1 .. p PROVE s[i] = list[i]
  <2>1. i \in 1 .. Len(front) + Len(back) /\ i <= Len(front)
    BY <1>2, <1>6
  <2> QED BY <1>2, <1>4, <1>5, <2>1
<1>9. s[p + 1] = e
  <2>1. p + 1 \in 1 .. Len(front) + Len(back) /\ ~(p + 1 <= Len(front)) /\ p + 1 - Len(front) = 1
    BY <1>2, <1>6
  <2>2. (front \o back)[p + 1] = back[p + 1 - Len(front)]
    BY ONLY <1>4, <2>1
  <2> QED BY ONLY <1>5, <1>6, <2>1, <2>2
<1> QED BY <1>4, <1>5, <1>7, <1>8, <1>9

-----------------------------------------------------------------------------
(* What the user asks for.                                                 *)

\* A new request forgets the step under way and stays, or returns, where it
\* started.
Settles(h, g) ==
  /\ g \in Toolbars /\ g.key = h.key /\ g.astray = h.astray /\ g.target = Nil

LEMMA StepForgotten ==
  ASSUME NEW h \in Toolbars, NEW g, NEW c \in Controllers, NEW d \in Controllers,
         Core(h, c), SameView(c, d), Settles(h, g), g.list = h.list,
         g.position = IF Waiting(h) THEN Place(h) ELSE h.position
  PROVE  Core(g, d)
<1>1. /\ g \in Toolbars /\ g.key = h.key /\ g.astray = h.astray /\ g.target = Nil
  BY DEF Settles
<1>2. /\ h.position \in Nat /\ Len(h.list) \in Nat
      /\ h.target # Nil => h.target.position \in Nat /\ h.target.previous \in Nat
  BY DEF Toolbars, Targets
<1>3. /\ h.position <= Len(h.list) /\ Led(h) /\ Taken(h, c) /\ Rooted(h)
  BY DEF Core
<1>4. Latest(g, d) => Place(g) = Place(h)
  <2> SUFFICES ASSUME Latest(g, d) PROVE Place(g) = Place(h)
    OBVIOUS
  <2>1. c.journal # Nil /\ ~h.astray
    BY <1>1 DEF Latest, SameView
  <2>2. h.target = Nil \/ Waiting(h)
    BY <1>3, <2>1 DEF Taken, Waiting
  <2>3. Place(g) = g.position
    BY <1>1 DEF Place
  <2> QED BY <2>2, <2>3 DEF Place, Waiting
<1>5. Whole(g, d) /\ Heard(g, d) /\ Faithful(g, d)
  BY <1>1, <1>4, Carried
<1>6. g.position <= Len(g.list)
  BY ONLY <1>2, <1>3, g.list = h.list, g.position = IF Waiting(h) THEN Place(h) ELSE h.position
     DEF Place, Led, Waiting
<1>7. Led(g) /\ Taken(g, d)
  BY <1>1 DEF Led, Taken
<1>8. Rooted(g)
  BY ONLY <1>1, <1>2, <1>3, g.list = h.list, g.position = IF Waiting(h) THEN Place(h) ELSE h.position
     DEF Rooted, Place, Waiting
<1> QED BY <1>5, <1>6, <1>7, <1>8 DEF Core

\* The list with an entry for the page that has not reported, and the place
\* the toolbar is at then.
Added(h, e) == SubSeq(h.list, 1, h.position) \o <<e>>
AddedAt(h) ==
  IF Waiting(h)
  THEN IF h.target.previous = 0 THEN h.position + 1 ELSE h.target.previous
  ELSE h.position + 1

LEMMA StepForgottenForUnreported ==
  ASSUME NEW h \in Toolbars, NEW g, NEW c \in Controllers, NEW d \in Controllers,
         Core(h, c), SameView(c, d), Settles(h, g), Unreported(h, c),
         NEW e \in Slots, e.doc < -2, e.url = c.url,
         g.list = Added(h, e), g.position = AddedAt(h)
  PROVE  /\ Core(g, d) /\ Len(g.list) = h.position + 1
         /\ \A i \in 1 .. h.position : g.list[i] = h.list[i]
         /\ g.list[h.position + 1] = e
<1> DEFINE p == h.position
<1>a. g.list = SubSeq(h.list, 1, h.position) \o <<e>>
  BY DEF Added
<1>b. g.position = IF Waiting(h)
                   THEN IF h.target.previous = 0 THEN h.position + 1 ELSE h.target.previous
                   ELSE h.position + 1
  BY DEF AddedAt
<1>1. /\ g \in Toolbars /\ g.key = h.key /\ g.astray = h.astray /\ g.target = Nil
  BY DEF Settles
<1>2. /\ p \in Nat /\ Len(h.list) \in Nat /\ h.list \in Seq(Slots)
      /\ h.target # Nil => h.target.position \in Nat /\ h.target.previous \in Nat
  BY DEF Toolbars, Targets
<1>3. /\ p <= Len(h.list) /\ Led(h) /\ Taken(h, c) /\ Rooted(h) /\ Whole(h, c) /\ Heard(h, c) /\ Faithful(h, c)
  BY DEF Core
<1>4. /\ g.list \in Seq(Slots) /\ Len(g.list) = p + 1
      /\ \A i \in 1 .. p : g.list[i] = h.list[i]
      /\ g.list[p + 1] = e
  <2>1. p \in Nat /\ p <= Len(h.list) /\ g.list = SubSeq(h.list, 1, p) \o <<e>>
    BY <1>a, <1>2, <1>3
  <2> HIDE DEF p
  <2>2. e \in Slots /\ h.list \in Seq(Slots)
    BY <1>2
  <2>3. \A L \in Seq(Slots), n \in Nat, x \in Slots :
          n <= Len(L) =>
            LET z == SubSeq(L, 1, n) \o <<x>> IN
            z \in Seq(Slots) /\ Len(z) = n + 1 /\ (\A i \in 1 .. n : z[i] = L[i]) /\ z[n + 1] = x
    BY Extended
  <2> QED BY ONLY <2>1, <2>2, <2>3
<1>5. e.doc \in Int
  BY DEF Slots
<1>6. ASSUME NEW i \in 1 .. p + 1 PROVE i = p + 1 \/ i \in 1 .. p
  BY <1>2
<1>0. p = h.position /\ p \in Nat /\ p <= Len(h.list)
  BY <1>2, <1>3
<1> HIDE DEF p
<1>7. c.loading /\ (p = 0 \/ h.list[p].url # c.url)
  BY DEF Unreported, AtUrl, p
<1>8. Waiting(h) /\ h.target.previous # 0 => h.target.previous <= p + 1
  BY ONLY <1>2, <1>3 DEF Led, Waiting, p
<1>9. g.position <= Len(g.list) /\ g.position \in Nat /\ g.position # 0
  BY <1>b, <1>0, <1>2, <1>4, <1>8 DEF Waiting
<1>10. Led(g) /\ Taken(g, d) /\ Rooted(g)
  BY <1>1, <1>9 DEF Led, Taken, Rooted
<1>11. ASSUME c.journal # Nil PROVE c.journal.doc \in Nat /\ e.doc # c.journal.doc /\ e.doc <= c.journal.doc
  <2>1. c.journal.doc \in Nat
    BY <1>11 DEF Controllers, Journals
  <2> QED BY <2>1, <1>5
<1>12. Whole(g, d)
  <2> SUFFICES ASSUME d.journal # Nil
               PROVE  /\ AtAnEntry(d.journal) /\ d.journal.doc # 0
                      /\ Together(g.list, d.journal.doc)
                      /\ \A i \in 1 .. Len(g.list) : g.list[i].doc = d.journal.doc => g.list[i].url = d.url
                      /\ \A i \in 1 .. Len(g.list) : g.list[i].doc <= d.journal.doc
                      /\ g.key[1] <= d.journal.doc
                      /\ g.key[1] = d.journal.doc => g.key[2] <= d.journal.seq
    BY DEF Whole
  <2> DEFINE j == c.journal
  <2>0. d.journal = j /\ d.url = c.url
    BY DEF SameView
  <2>1. /\ AtAnEntry(j) /\ j.doc # 0 /\ Together(h.list, j.doc)
        /\ \A i \in 1 .. Len(h.list) : h.list[i].doc = j.doc => h.list[i].url = c.url
        /\ \A i \in 1 .. Len(h.list) : h.list[i].doc <= j.doc
        /\ h.key[1] <= j.doc
        /\ h.key[1] = j.doc => h.key[2] <= j.seq
    BY <2>0, <1>3 DEF Whole
  <2>2. j.doc \in Nat /\ e.doc # j.doc /\ e.doc <= j.doc
    BY <1>11, <2>0
  <2> HIDE DEF j
  <2>3. \A i \in 1 .. p : i \in 1 .. Len(h.list)
    BY <1>2, <1>3 DEF p
  <2>4. \A i \in 1 .. p + 1 : g.list[i].doc = j.doc => i \in 1 .. p
    BY <1>4, <1>6, <2>2
  <2>5. Together(g.list, j.doc)
    <3> SUFFICES ASSUME NEW x \in 1 .. p + 1, NEW y \in 1 .. p + 1, NEW z \in 1 .. p + 1,
                        x <= y, y <= z, g.list[x].doc = j.doc, g.list[z].doc = j.doc
                 PROVE  g.list[y].doc = j.doc
      BY <1>4 DEF Together
    <3>1. x \in 1 .. p /\ z \in 1 .. p
      BY <2>4
    <3>2. y \in 1 .. p
      BY <3>1, <1>2 DEF p
    <3>3. h.list[x].doc = j.doc /\ h.list[z].doc = j.doc
      BY <3>1, <1>4
    <3>4. h.list[y].doc = j.doc
      BY <2>1, <2>3, <3>1, <3>2, <3>3 DEF Together
    <3> QED BY <3>2, <3>4, <1>4
  <2>6. \A i \in 1 .. Len(g.list) : g.list[i].doc = j.doc => g.list[i].url = c.url
    BY <1>4, <2>1, <2>3, <2>4
  <2>7. \A i \in 1 .. Len(g.list) : g.list[i].doc <= j.doc
    BY <1>4, <1>6, <2>1, <2>2, <2>3
  <2> QED BY <1>1, <2>0, <2>1, <2>5, <2>6, <2>7
<1>13. Heard(g, d)
  <2>1. \A i \in 1 .. Len(g.list) : g.list[i].doc # 0
    <3> SUFFICES ASSUME NEW i \in 1 .. p + 1 PROVE g.list[i].doc # 0
      BY <1>4
    <3>1. CASE i = p + 1
      BY <3>1, <1>4, <1>5
    <3>2. CASE i \in 1 .. p
      <4>1. i \in 1 .. Len(h.list) /\ g.list[i] = h.list[i]
        BY ONLY <3>2, <1>0, <1>2, <1>4
      <4> QED BY <4>1, <1>3 DEF Heard
    <3> QED BY <3>1, <3>2, <1>6
  <2>2. d.doc # 0 => d.journal # Nil
    BY <1>3 DEF Heard, SameView
  <2> QED BY <2>1, <2>2 DEF Heard
<1>14. Faithful(g, d)
  <2> SUFFICES ASSUME Latest(g, d) PROVE MirrorsAt(g, d, Place(g)) \/ KeptAt(g, d, Place(g))
    BY DEF Faithful
  <2> DEFINE j == c.journal
             P == Place(h)
  <2>1. j # Nil /\ ~h.astray /\ Latest(h, c) /\ d.journal = j /\ d.url = c.url /\ d.loading
    BY <1>1, <1>7 DEF Latest, SameView
  <2>2. MirrorsAt(h, c, P) \/ KeptAt(h, c, P)
    BY <2>1, <1>3 DEF Faithful
  <2>3. /\ j.doc \in Nat /\ e.doc # j.doc /\ AtAnEntry(j) /\ j.index \in Nat /\ Len(j.entries) \in Nat
        /\ \A i \in 1 .. Len(h.list) : h.list[i].doc = j.doc => h.list[i].url = c.url
    <3>1. j \in Journals
      BY <2>1 DEF Controllers
    <3>2. /\ AtAnEntry(j)
          /\ \A i \in 1 .. Len(h.list) : h.list[i].doc = j.doc => h.list[i].url = c.url
      BY <2>1, <1>3 DEF Whole
    <3>3. j.index \in Nat /\ Len(j.entries) \in Nat
      BY <3>1 DEF Journals
    <3> QED BY <2>1, <1>11, <3>2, <3>3
  <2>4. h.target = Nil \/ Waiting(h)
    BY <1>3, <2>1 DEF Taken, Waiting
  <2>5. Place(g) = g.position
    BY <1>1 DEF Place
  <2>6. P \in Nat /\ P <= Len(h.list)
    BY <1>2, <1>3 DEF Place, Led, p
  \* At its place the document's address is the one that is shown.
  <2>7. P # 0 /\ h.list[P].url = c.url
    <3>1. CASE KeptAt(h, c, P)
      BY <3>1 DEF KeptAt
    <3>2. CASE MirrorsAt(h, c, P)
      <4> DEFINE start == P - j.index + 1
                 end == start + Len(j.entries) - 1
      <4>0. j.index >= 1 /\ j.index <= Len(j.entries)
        BY <2>3 DEF AtAnEntry
      <4>1. /\ start >= 1
            /\ \A i \in 1 .. Len(h.list) : h.list[i].doc = j.doc <=> i \in start .. end
        BY <3>2 DEF MirrorsAt
      <4> HIDE DEF P, j
      <4>2. P \in start .. end /\ P \in 1 .. Len(h.list)
        BY <4>0, <4>1, <2>3, <2>6
      <4>3. h.list[P].doc = j.doc
        BY <4>1, <4>2
      <4> QED BY <2>3, <4>2, <4>3
    <3> QED BY <2>2, <3>1, <3>2
  <2>8. P # p
    BY <2>7, <1>7
  <2>9. Waiting(h) /\ h.target.previous # 0 /\ P = h.target.previous /\ g.position = P /\ P <= p + 1
    <3>1. h.target # Nil /\ h.target.previous # 0 /\ P = h.target.previous
      BY <2>8 DEF Place, p
    <3>2. Waiting(h)
      BY <3>1, <2>4
    <3> QED BY <3>1, <3>2, <1>8, <1>b
  <2> HIDE DEF P, j
  <2>10. CASE P = p + 1
    <3>1. KeptAt(g, d, P)
      <4>1. g.list[P] = e /\ P # 0
        BY ONLY <2>10, <1>4, <1>0
      <4> QED BY <4>1, <2>1 DEF KeptAt
    <3> QED BY <3>1, <2>5, <2>9
  <2>11. CASE P < p
    <3>1. P \in 1 .. p /\ g.list[P] = h.list[P]
      BY <2>6, <2>7, <2>11, <1>2, <1>4
    <3>2. CASE KeptAt(h, c, P)
      <4>1. KeptAt(g, d, P)
        BY <3>1, <3>2, <2>1 DEF KeptAt
      <4> QED BY <4>1, <2>5, <2>9
    <3>3. CASE MirrorsAt(h, c, P)
      <4> DEFINE start == P - j.index + 1
                 end == start + Len(j.entries) - 1
      <4>1. /\ start >= 1 /\ end <= Len(h.list) /\ start \in Int /\ end \in Int
            /\ \A i \in 1 .. Len(h.list) : h.list[i].doc = j.doc <=> i \in start .. end
            /\ \A i \in 1 .. Len(j.entries) : h.list[start + i - 1].id = j.entries[i]
            /\ P >= start
        <5>1. j.index >= 1
          BY <2>3 DEF AtAnEntry
        <5>2. /\ start >= 1 /\ end <= Len(h.list)
              /\ \A i \in 1 .. Len(h.list) : h.list[i].doc = j.doc <=> i \in start .. end
              /\ \A i \in 1 .. Len(j.entries) : h.list[start + i - 1].id = j.entries[i]
          BY <3>3 DEF MirrorsAt, j
        <5>3. start \in Int /\ end \in Int /\ P >= start
          BY ONLY <5>1, <2>3, <2>6
        <5> QED BY <5>2, <5>3
      <4> HIDE DEF start
      <4>2. end < p
        <5>1. p \in 1 .. Len(h.list)
          BY <2>11, <2>6, <1>0
        <5>2. h.list[p].doc # j.doc
          BY <5>1, <2>3, <1>7
        <5>3. ~(p \in start .. end)
          BY <5>1, <5>2, <4>1
        <5>4. p >= start
          BY <4>1, <2>11, <2>6, <1>0
        <5> QED BY <5>3, <5>4, <4>1, <1>0
      <4>3. ASSUME NEW i \in 1 .. p + 1 PROVE g.list[i].doc = j.doc <=> i \in start .. end
        <5>1. CASE i = p + 1
          <6>1. g.list[i].doc # j.doc
            BY <5>1, <1>4, <2>3
          <6>2. ~(i \in start .. end)
            BY <5>1, <1>0, <4>1, <4>2
          <6> QED BY <6>1, <6>2
        <5>2. CASE i \in 1 .. p
          <6>1. i \in 1 .. Len(h.list) /\ g.list[i] = h.list[i]
            BY ONLY <5>2, <1>0, <1>2, <1>4
          <6> QED BY <6>1, <4>1
        <5> QED BY <5>1, <5>2, <1>6
      <4>4. ASSUME NEW i \in 1 .. Len(j.entries) PROVE g.list[start + i - 1].id = j.entries[i]
        <5>1. start + i - 1 \in 1 .. p
          BY <4>1, <4>2, <2>3, <1>2
        <5> QED BY <5>1, <4>1, <1>4
      <4>5. end <= Len(g.list)
        BY <4>1, <4>2, <1>2, <1>4
      <4>6. MirrorsAt(g, d, P)
        BY <1>4, <2>1, <4>1, <4>3, <4>4, <4>5 DEF MirrorsAt, start
      <4> QED BY <4>6, <2>5, <2>9
    <3> QED BY <2>2, <3>2, <3>3
  <2>12. P = p + 1 \/ P < p
    BY ONLY <2>6, <2>8, <2>9, <1>0
  <2> QED BY <2>10, <2>11, <2>12
<1> QED BY <1>0, <1>4, <1>9, <1>10, <1>12, <1>13, <1>14 DEF Core

(* What an operation of the toolbar leaves alone, and what it may add to   *)
(* the list.                                                               *)
Grown(h, g) ==
  /\ g.key = h.key
  /\ h.list # <<>> => g.list # <<>>
  /\ \A i \in 1 .. Len(g.list) : g.list[i].doc < 0 \/ \E j \in 1 .. Len(h.list) : g.list[i] = h.list[j]
Quiet(c, d) == SameView(c, d) /\ d.loading = c.loading /\ d.nonce = c.nonce /\ d.visit = c.visit
Places(b) == \A i \in 1 .. Len(b.opened) : b.opened[i].kind = "place" => b.h.list # <<>>
Sound(h, c, b) ==
  /\ b.h \in Toolbars /\ b.c \in Controllers /\ Core(b.h, b.c)
  /\ Grown(h, b.h) /\ Quiet(c, b.c)
  /\ b.opened \in Seq(Openings) /\ Places(b)
  /\ b.asks \in Seq(Traverses)

LEMMA SameListGrown ==
  ASSUME NEW h \in Toolbars, NEW g, g.list = h.list, g.key = h.key
  PROVE  Grown(h, g)
BY DEF Grown

LEMMA GrownFurther ==
  ASSUME NEW h, NEW g, NEW k, Grown(h, g), Grown(g, k)
  PROVE  Grown(h, k)
<1>1. \A i \in 1 .. Len(k.list) : k.list[i].doc < 0 \/ \E j \in 1 .. Len(h.list) : k.list[i] = h.list[j]
  <2> SUFFICES ASSUME NEW i \in 1 .. Len(k.list), ~(k.list[i].doc < 0)
               PROVE  \E j \in 1 .. Len(h.list) : k.list[i] = h.list[j]
    OBVIOUS
  <2>1. PICK j \in 1 .. Len(g.list) : k.list[i] = g.list[j]
    BY DEF Grown
  <2> QED BY <2>1 DEF Grown
<1> QED BY <1>1 DEF Grown

LEMMA OneOpening ==
  ASSUME NEW h, NEW c \in Controllers, NEW kind \in {"go", "place", "history"}, NEW url \in Addresses,
         NEW again \in BOOLEAN, h.gen \in Nat, kind = "place" => h.list # <<>>
  PROVE  LET b == Requests(h, c, kind, url, again) IN
         /\ b.h = h /\ b.c \in Controllers /\ Quiet(c, b.c) /\ b.c.expired = c.expired
         /\ b.opened \in Seq(Openings) /\ Places(b) /\ b.asks \in Seq(Traverses)
<1> DEFINE b == Requests(h, c, kind, url, again)
           o == OpenRequest(kind, c.seq + 1, url, h.gen, again)
           d == [c EXCEPT !.seq = @ + 1, !.traversal = Nil]
<1>1. b.h = h /\ b.c = d /\ b.opened = <<o>> /\ b.asks = <<>>
  BY DEF Requests, Became
<1>2. d \in Controllers
  <2> DEFINE e == [c EXCEPT !.seq = @ + 1]
  <2>1. e \in Controllers
    BY DEF Controllers
  <2>2. d = [e EXCEPT !.traversal = Nil]
    OBVIOUS
  <2> HIDE DEF e
  <2> QED BY <2>1, <2>2 DEF Controllers
<1>3. Quiet(c, d) /\ d.expired = c.expired
  BY DEF Controllers, Quiet, SameView
<1>4. o \in Openings
  BY DEF OpenRequest, Openings, Controllers
<1>5. <<o>> \in Seq(Openings) /\ Len(<<o>>) = 1 /\ <<o>>[1] = o /\ o.kind = kind
  BY <1>4 DEF OpenRequest
<1> HIDE DEF b, o, d
<1>6. b.opened \in Seq(Openings)
  BY <1>1, <1>5
<1>7. Places(b)
  BY <1>1, <1>5 DEF Places
<1>8. b.asks \in Seq(Traverses)
  BY <1>1
<1>9. b.h = h /\ b.c \in Controllers /\ Quiet(c, b.c) /\ b.c.expired = c.expired
  BY <1>1, <1>2, <1>3
<1> QED BY <1>6, <1>7, <1>8, <1>9 DEF b

LEMMA GoSound ==
  ASSUME NEW h \in Toolbars, NEW c \in Controllers, Core(h, c), tally.asked \in Nat,
         NEW url \in Addresses, NEW again \in BOOLEAN
  PROVE  Sound(h, c, Go(h, c, url, again))
<1> DEFINE n == NewGeneration(h)
           x == StepCancelled(n, c)
           kept == IF again THEN x ELSE KeepUnreported(x, c)
           back == IF Waiting(kept) THEN RolledBack(kept) ELSE kept
           g == [back EXCEPT !.target = Nil, !.queue = <<>>, !.notice = FALSE]
           b == Go(h, c, url, again)
<1>1. n \in Toolbars /\ n.list = h.list /\ n.key = h.key
  BY DEF NewGeneration, Toolbars
<1>2. Returns(h, n)
  BY <1>1 DEF NewGeneration, Returns, Toolbars
<1>3. SameView(c, c)
  BY DEF SameView
<1>4. Core(n, c)
  BY <1>2, <1>3, Returned
<1> HIDE DEF n
<1>5. Returns(n, x)
  BY <1>1, CancelledStep
<1> HIDE DEF x
<1>6. Core(x, c) /\ x \in Toolbars /\ x.list = h.list /\ x.key = h.key
  <2>1. x \in Toolbars /\ x.list = n.list /\ x.key = n.key
    BY <1>5 DEF Returns
  <2>2. Core(x, c)
    BY <1>1, <1>3, <1>4, <1>5, Returned
  <2> QED BY <1>1, <2>1, <2>2
<1>7. b = Requests(g, c, "go", url, again)
  BY DEF Go, n, x
<1> HIDE DEF b
<1>8. ASSUME again \/ ~Unreported(x, c) PROVE Sound(h, c, b)
  <2>1. kept = x
    BY <1>8 DEF KeepUnreported
  <2>2. back = IF Waiting(x) THEN RolledBack(x) ELSE x
    BY <2>1
  <2>3. RolledBack(x) \in Toolbars /\ RolledBack(x) = [x EXCEPT !.position = Place(x)]
    BY <1>6, RollingBack
  <2> HIDE DEF kept
  <2>4. /\ back \in Toolbars /\ back.list = x.list /\ back.key = x.key /\ back.astray = x.astray
        /\ back.position = IF Waiting(x) THEN Place(x) ELSE x.position
    <3> DEFINE r == RolledBack(x)
    <3>1. /\ r.list = x.list /\ r.key = x.key /\ r.astray = x.astray
          /\ r.position = Place(x) /\ r \in Toolbars
      BY ONLY <1>6, <2>3 DEF Toolbars
    <3> HIDE DEF r
    <3>2. back = IF Waiting(x) THEN r ELSE x
      BY <2>2 DEF r
    <3> QED BY ONLY <1>6, <3>1, <3>2
  <2> HIDE DEF back
  <2>5. /\ g \in Toolbars /\ g.list = x.list /\ g.key = x.key /\ g.astray = x.astray
        /\ g.target = Nil /\ g.position = back.position /\ g.gen \in Nat
    <3> DEFINE q == <<>>
    <3>1. q \in Seq({-1, 0, 1})
      OBVIOUS
    <3>2. g = [back EXCEPT !.target = Nil, !.queue = q, !.notice = FALSE]
      OBVIOUS
    <3> HIDE DEF q, g
    <3>3. g \in Toolbars
      BY <2>4, <3>1, <3>2 DEF Toolbars
    <3>4. /\ g.list = x.list /\ g.key = x.key /\ g.astray = x.astray
          /\ g.target = Nil /\ g.position = back.position
      BY ONLY <2>4, <3>2 DEF Toolbars
    <3>5. g.gen \in Nat
      BY ONLY <3>3 DEF Toolbars
    <3> QED BY <3>3, <3>4, <3>5
  <2> HIDE DEF g
  <2>6. /\ b.h = g /\ b.c \in Controllers /\ Quiet(c, b.c)
        /\ b.opened \in Seq(Openings) /\ Places(b) /\ b.asks \in Seq(Traverses)
    <3> DEFINE q == Requests(g, c, "go", url, again)
    <3>1. b = q
      BY <1>7
    <3>2. /\ q.h = g /\ q.c \in Controllers /\ Quiet(c, q.c)
          /\ q.opened \in Seq(Openings) /\ Places(q) /\ q.asks \in Seq(Traverses)
      <4>1. "go" \in {"go", "place", "history"} /\ "go" # "place"
        OBVIOUS
      <4> QED BY ONLY <2>5, <4>1, c \in Controllers, url \in Addresses, again \in BOOLEAN, OneOpening, ZenonT(40)
    <3> HIDE DEF b, q
    <3> QED BY ONLY <3>1, <3>2
  <2>7. Settles(x, g) /\ SameView(c, b.c)
    <3>1. Settles(x, g)
      BY ONLY <1>6, <2>4, <2>5 DEF Settles
    <3>2. SameView(c, b.c)
      BY ONLY <2>6 DEF Quiet
    <3> QED BY <3>1, <3>2
  <2>8. Core(g, b.c)
    BY <1>6, <2>4, <2>5, <2>6, <2>7, StepForgotten
  <2>9. Grown(h, g)
    BY <1>6, <2>5, SameListGrown
  <2> QED BY <2>5, <2>6, <2>8, <2>9 DEF Sound
<1>9. ASSUME ~again /\ Unreported(x, c) PROVE Sound(h, c, b)
  <2> DEFINE e == Entry(-3 - tally.asked, 0, c.url)
             list == SubSeq(x.list, 1, x.position) \o <<e>>
  <2>1. e \in Slots /\ e.doc < -2 /\ e.url = c.url
    BY DEF Entry, Slots, Controllers
  <2>2. kept = [x EXCEPT !.list = list, !.position = x.position + 1]
    BY <1>9, <1>6 DEF KeepUnreported, Toolbars
  <2>3. x.list \in Seq(Slots) /\ x.position \in Nat /\ x.position <= Len(x.list)
    BY <1>6 DEF Toolbars, Core
  <2> HIDE DEF e
  <2>4. list \in Seq(Slots)
    BY <2>1, <2>3, Extended
  <2> HIDE DEF list, kept
  <2>5. /\ kept \in Toolbars /\ kept.list = list /\ kept.key = x.key /\ kept.astray = x.astray
        /\ kept.target = x.target /\ kept.position = x.position + 1
    <3> DEFINE k == [x EXCEPT !.list = list]
    <3>1. /\ k \in Toolbars /\ k.list = list /\ k.key = x.key /\ k.astray = x.astray
          /\ k.target = x.target /\ k.position = x.position
      BY <1>6, <2>4 DEF Toolbars
    <3>2. kept = [k EXCEPT !.position = x.position + 1]
      BY <2>2
    <3> HIDE DEF k
    <3>3. kept \in Toolbars
      <4> DEFINE m == x.position + 1
      <4>1. m \in Nat
        BY <2>3
      <4>2. kept = [k EXCEPT !.position = m]
        BY <3>2
      <4> HIDE DEF m
      <4> QED BY ONLY <3>1, <4>1, <4>2 DEF Toolbars
    <3>4. /\ kept.list = list /\ kept.key = x.key /\ kept.astray = x.astray
          /\ kept.target = x.target /\ kept.position = x.position + 1
      BY ONLY <3>1, <3>2 DEF Toolbars
    <3> QED BY <3>3, <3>4
  <2>6. RolledBack(kept) \in Toolbars /\ RolledBack(kept) = [kept EXCEPT !.position = Place(kept)]
    BY <2>5, RollingBack
  <2>7. /\ back \in Toolbars /\ back.list = list /\ back.key = x.key /\ back.astray = x.astray
        /\ back.position = IF Waiting(kept) THEN Place(kept) ELSE kept.position
    BY <2>5, <2>6 DEF Toolbars
  <2>8. back.position = IF Waiting(x)
                        THEN IF x.target.previous = 0 THEN x.position + 1 ELSE x.target.previous
                        ELSE x.position + 1
    BY <2>5, <2>7 DEF Waiting, Place
  <2> HIDE DEF back
  <2>9. /\ g \in Toolbars /\ g.list = list /\ g.key = x.key /\ g.astray = x.astray
        /\ g.target = Nil /\ g.position = back.position /\ g.gen \in Nat
    <3> DEFINE q == <<>>
    <3>1. q \in Seq({-1, 0, 1})
      OBVIOUS
    <3>2. g = [back EXCEPT !.target = Nil, !.queue = q, !.notice = FALSE]
      OBVIOUS
    <3> HIDE DEF q, g
    <3>3. g \in Toolbars
      BY <2>7, <3>1, <3>2 DEF Toolbars
    <3>4. /\ g.list = list /\ g.key = x.key /\ g.astray = x.astray
          /\ g.target = Nil /\ g.position = back.position
      BY <2>7, <3>2 DEF Toolbars
    <3>5. g.gen \in Nat
      BY ONLY <3>3 DEF Toolbars
    <3> QED BY <3>3, <3>4, <3>5
  <2> HIDE DEF g
  <2>10. /\ b.h = g /\ b.c \in Controllers /\ Quiet(c, b.c)
         /\ b.opened \in Seq(Openings) /\ Places(b) /\ b.asks \in Seq(Traverses)
    <3> DEFINE q == Requests(g, c, "go", url, again)
    <3>1. b = q
      BY <1>7
    <3>2. /\ q.h = g /\ q.c \in Controllers /\ Quiet(c, q.c)
          /\ q.opened \in Seq(Openings) /\ Places(q) /\ q.asks \in Seq(Traverses)
      <4>1. "go" \in {"go", "place", "history"} /\ "go" # "place"
        OBVIOUS
      <4> QED BY ONLY <2>9, <4>1, c \in Controllers, url \in Addresses, again \in BOOLEAN, OneOpening, ZenonT(40)
    <3> HIDE DEF b, q
    <3> QED BY ONLY <3>1, <3>2
  <2>11. Settles(x, g) /\ SameView(c, b.c)
    BY <2>9, <2>10 DEF Settles, Quiet
  <2>12. /\ Core(g, b.c) /\ Len(g.list) = x.position + 1
         /\ \A i \in 1 .. x.position : g.list[i] = x.list[i]
         /\ g.list[x.position + 1] = e
    <3>1. g.list = Added(x, e) /\ g.position = AddedAt(x)
      BY <2>8, <2>9 DEF list, Added, AddedAt
    <3>2. x \in Toolbars /\ b.c \in Controllers /\ Core(x, c) /\ Unreported(x, c)
      BY <1>6, <1>9, <2>10
    <3> HIDE DEF b
    <3> QED BY ONLY <3>1, <3>2, <2>1, <2>11, c \in Controllers, StepForgottenForUnreported
  <2>13. Grown(h, g)
    <3>1. g.list # <<>>
      BY <2>3, <2>12
    <3>2. ASSUME NEW i \in 1 .. Len(g.list), ~(g.list[i].doc < 0)
          PROVE  \E j \in 1 .. Len(h.list) : g.list[i] = h.list[j]
      <4>1. i # x.position + 1
        BY <3>2, <2>1, <2>12, <2>3 DEF Slots
      <4>2. i \in 1 .. x.position /\ i \in 1 .. Len(x.list)
        BY ONLY <3>2, <4>1, <2>3, <2>12
      <4> QED BY <4>2, <2>12, <1>6
    <3> QED BY <3>1, <3>2, <2>9, <1>6 DEF Grown
  <2> QED BY <2>9, <2>10, <2>12, <2>13 DEF Sound
<1> QED BY <1>8, <1>9 DEF b

\* A new step: where it leads, and where it started.
Starts(h, g, position, previous, seq, url) ==
  /\ g \in Toolbars /\ g.list = h.list /\ g.key = h.key
  /\ g.astray = (h.astray \/ h.position = 0 \/ Displaced(h))
  /\ g.position = position /\ g.target = Target(position, previous, seq, url)

LEMMA NewTarget ==
  ASSUME NEW position \in Nat, NEW previous \in Nat, NEW seq \in Nat, NEW url \in Addresses
  PROVE  LET t == Target(position, previous, seq, url) IN
         /\ t \in Targets /\ t # Nil
         /\ t.position = position /\ t.previous = previous /\ t.visit = 0 /\ t.seq = seq
<1>1. Target(position, previous, seq, url) \in Targets
  BY DEF Target, Targets
<1>2. Target(position, previous, seq, url) # Nil
  BY <1>1, NilIsApart
<1> QED BY <1>1, <1>2 DEF Target

LEMMA StepStarted ==
  ASSUME NEW h \in Toolbars, NEW g, NEW c \in Controllers, NEW d \in Controllers,
         Core(h, c), SameView(c, d), NEW position \in Nat, NEW previous \in Nat, NEW seq \in Nat,
         NEW url \in Addresses, Starts(h, g, position, previous, seq, url),
         \/ position = h.position /\ previous = 0
         \/ position \in {h.position - 1, h.position + 1} /\ position \in 1 .. Len(h.list) /\ previous = h.position
  PROVE  Core(g, d)
<1>1. /\ g \in Toolbars /\ g.list = h.list /\ g.key = h.key
      /\ g.astray = (h.astray \/ h.position = 0 \/ Displaced(h))
      /\ g.position = position /\ g.target = Target(position, previous, seq, url)
  BY DEF Starts
<1>2. /\ g.target # Nil /\ g.target.position = position /\ g.target.previous = previous
      /\ g.target.visit = 0
  BY <1>1, NewTarget
<1>3. h.position \in Nat /\ Len(h.list) \in Nat
  BY DEF Toolbars
<1>4. h.position <= Len(h.list) /\ Taken(h, c)
  BY DEF Core
<1>5. g.position <= Len(g.list)
  BY <1>1, <1>3, <1>4
<1>6. Led(g)
  BY ONLY <1>1, <1>2, <1>3, <1>4,
          \/ position = h.position /\ previous = 0
          \/ position \in {h.position - 1, h.position + 1} /\ position \in 1 .. Len(h.list) /\ previous = h.position
     DEF Led
<1>7. Taken(g, d)
  BY <1>2 DEF Taken
<1>8. Rooted(g)
  <2> SUFFICES ASSUME ~g.astray PROVE g.position # 0 /\ g.target.position # 0
    BY DEF Rooted
  <2>1. h.position # 0
    BY <1>1
  <2> QED BY <1>1, <1>2, <2>1
<1>9. Latest(g, d) => Place(g) = Place(h)
  <2> SUFFICES ASSUME Latest(g, d) PROVE Place(g) = Place(h)
    OBVIOUS
  <2>1. d.journal # Nil /\ ~g.astray
    BY DEF Latest
  <2>2. ~h.astray /\ h.position # 0 /\ ~Displaced(h) /\ c.journal # Nil
    BY <1>1, <2>1 DEF SameView
  <2>3. h.target = Nil \/ Waiting(h)
    BY <1>4, <2>2 DEF Taken, Waiting
  <2>4. Place(h) = h.position
    BY <2>2, <2>3 DEF Displaced, Waiting, Place
  <2>5. Place(g) = h.position
    BY <1>1, <1>2, <2>2 DEF Place
  <2> QED BY <2>4, <2>5
<1>10. Whole(g, d) /\ Heard(g, d) /\ Faithful(g, d)
  BY <1>1, <1>9, Carried
<1> QED BY <1>5, <1>6, <1>7, <1>8, <1>10 DEF Core

LEMMA OpenInPlaceSound ==
  ASSUME NEW h \in Toolbars, NEW c \in Controllers, Core(h, c), c.traversal = Nil,
         c.expired, h.list # <<>>, NEW url \in Addresses, NEW again \in BOOLEAN
  PROVE  Sound(h, c, OpenInPlace(h, c, url, again))
<1> DEFINE n == NewGeneration(h)
           t == Target(h.position, h.position, c.seq + 1, url)
           q == <<>>
           g == [n EXCEPT !.queue = q, !.notice = FALSE, !.target = t]
           b == OpenInPlace(h, c, url, again)
<1>1. n \in Toolbars /\ n.list = h.list /\ n.key = h.key /\ n.position = h.position /\ n.astray = h.astray
  <2> DEFINE m == h.gen + 1
  <2>1. n = [h EXCEPT !.gen = m] /\ m \in Nat
    BY DEF NewGeneration, Toolbars
  <2> HIDE DEF n, m
  <2>2. n \in Toolbars
    BY ONLY <2>1, h \in Toolbars DEF Toolbars
  <2>3. n.list = h.list /\ n.key = h.key /\ n.position = h.position /\ n.astray = h.astray
    BY ONLY <2>1, h \in Toolbars DEF Toolbars
  <2> QED BY <2>2, <2>3
<1>2. b = Requests(g, c, "place", url, again)
  BY DEF OpenInPlace, StepCancelled
<1>3. h.position \in Nat /\ h.position <= Len(h.list) /\ c.seq + 1 \in Nat /\ Taken(h, c) /\ Rooted(h)
  BY DEF Toolbars, Controllers, Core
<1>4. t \in Targets /\ t # Nil /\ t.position = h.position /\ t.previous = h.position /\ t.visit = 0
  BY <1>3, NewTarget
<1>5. q \in Seq({-1, 0, 1})
  OBVIOUS
<1> HIDE DEF n, t, q, b
<1>6. g \in Toolbars
  BY <1>1, <1>4, <1>5 DEF Toolbars
<1>7. /\ g.list = h.list /\ g.key = h.key /\ g.position = h.position /\ g.astray = h.astray
      /\ g.target = t /\ g.gen \in Nat
  BY <1>1, <1>6 DEF Toolbars
<1> HIDE DEF g
<1>8. /\ b.h = g /\ b.c \in Controllers /\ Quiet(c, b.c) /\ b.c.expired = c.expired
      /\ b.opened \in Seq(Openings) /\ Places(b) /\ b.asks \in Seq(Traverses)
  <2>1. "place" \in {"go", "place", "history"} /\ g.list # <<>>
    BY <1>7
  <2>2. LET r == Requests(g, c, "place", url, again) IN
        /\ r.h = g /\ r.c \in Controllers /\ Quiet(c, r.c) /\ r.c.expired = c.expired
        /\ r.opened \in Seq(Openings) /\ Places(r) /\ r.asks \in Seq(Traverses)
    BY ONLY <1>7, <2>1, c \in Controllers, url \in Addresses, again \in BOOLEAN, OneOpening
  <2> QED BY <1>2, <2>2
<1>9. Core(g, b.c)
  <2>1. g.position <= Len(g.list) /\ Led(g)
    BY <1>3, <1>4, <1>7 DEF Led
  <2>2. Taken(g, b.c)
    BY <1>4, <1>7 DEF Taken
  <2>3. Rooted(g)
    BY <1>3, <1>4, <1>7 DEF Rooted
  <2>4. Whole(g, b.c) /\ Heard(g, b.c) /\ Faithful(g, b.c)
    <3>1. ~Latest(g, b.c) /\ SameView(c, b.c)
      BY <1>8 DEF Latest, Quiet
    <3> QED BY <1>6, <1>7, <1>8, <3>1, Carried
  <2> QED BY <2>1, <2>2, <2>3, <2>4 DEF Core
<1>10. Grown(h, g)
  BY <1>7, SameListGrown
<1>11. Sound(h, c, b)
  BY <1>6, <1>8, <1>9, <1>10 DEF Sound
<1> QED BY <1>11 DEF b

\* A step leads to an entry, if it leads anywhere.
Leads(h, step) == step \in {-1, 0, 1} /\ (step # 0 => h.position + step \in 1 .. Len(h.list))

LEMMA NothingOpened ==
  ASSUME NEW h \in Toolbars, NEW c \in Controllers, NEW g, NEW d \in Controllers, Core(h, c),
         Returns(h, g), Quiet(c, d), NEW asks \in Seq(Traverses)
  PROVE  Sound(h, c, Became(g, d, <<>>, asks))
<1> DEFINE b == Became(g, d, <<>>, asks)
<1>1. b.h = g /\ b.c = d /\ b.opened = <<>> /\ b.asks = asks
  BY DEF Became
<1>2. g \in Toolbars /\ g.list = h.list /\ g.key = h.key
  BY DEF Returns
<1>3. SameView(c, d) /\ d.loading = c.loading
  BY DEF Quiet
<1>4. Core(g, d)
  BY <1>3, Returned
<1>5. Grown(h, g)
  BY <1>2, SameListGrown
<1>6. b.opened \in Seq(Openings) /\ Places(b)
  <2>1. Len(<<>>) = 0 /\ <<>> \in Seq(Openings)
    OBVIOUS
  <2>2. b.opened \in Seq(Openings)
    BY <1>1, <2>1
  <2>3. Places(b)
    BY <1>1, <2>1 DEF Places
  <2> QED BY <2>2, <2>3
<1> HIDE DEF b
<1>7. Sound(h, c, b)
  BY <1>1, <1>2, <1>4, <1>5, <1>6 DEF Sound
<1> QED BY <1>7 DEF b

LEMMA StepsSound ==
  ASSUME NEW h \in Toolbars, NEW c \in Controllers, Core(h, c), NEW step, Leads(h, step)
  PROVE  Sound(h, c, Steps(h, c, step))
<1> DEFINE at == h.position + step
           astray == h.astray \/ h.position = 0 \/ Displaced(h)
           opens == [h EXCEPT !.walker = "open", !.astray = astray]
           seq == c.seq + 1
           t0 == Target(h.position, 0, seq, c.url)
           reload == [opens EXCEPT !.target = t0]
           t1 == Target(at, h.position, seq, h.list[at].url)
           other == [opens EXCEPT !.target = t1, !.position = at]
           b == Steps(h, c, step)
<1>1. /\ step \in {-1, 0, 1} /\ (step # 0 => at \in 1 .. Len(h.list) /\ at \in Nat)
      /\ h.position \in Nat /\ seq \in Nat /\ h.list \in Seq(Slots) /\ c.url \in Addresses
  BY DEF Leads, Toolbars, Controllers
<1>2. astray \in BOOLEAN
  BY DEF Toolbars, Displaced
<1>3. opens = [h EXCEPT !.walker = "open", !.astray = @ \/ h.position = 0 \/ Displaced(h)]
  OBVIOUS
<1> HIDE DEF astray
<1>4. opens \in Toolbars
  BY <1>2 DEF Toolbars
<1>5. /\ opens.list = h.list /\ opens.key = h.key /\ opens.astray = astray /\ opens.position = h.position
      /\ opens.gen \in Nat
  BY <1>4 DEF Toolbars
<1>6. /\ step = 0 => b = Requests(reload, c, "history", c.url, FALSE)
      /\ step # 0 /\ h.list[at].doc = c.doc /\ c.expired => b = Became(StepFailed(h, c), c, <<>>, <<>>)
      /\ step # 0 /\ h.list[at].doc = c.doc /\ ~c.expired =>
         b = Became([h EXCEPT !.walker = "traverse"], [c EXCEPT !.traversal = h.list[at].id], <<>>,
                    <<[kind |-> "traverse", nonce |-> c.nonce, doc |-> c.doc, to |-> h.list[at].id,
                       basis |-> c.journal.entries[c.journal.index]]>>)
      /\ step # 0 /\ h.list[at].doc # c.doc => b = Requests(other, c, "history", h.list[at].url, FALSE)
  BY DEF Steps, astray
<1> HIDE DEF opens, b, seq
<1>7. "history" \in {"go", "place", "history"} /\ "history" # "place" /\ FALSE \in BOOLEAN
  OBVIOUS
<1>8. CASE step = 0
  <2>1. t0 \in Targets
    BY <1>1, NewTarget
  <2> HIDE DEF t0
  <2>2. reload \in Toolbars
    BY <1>4, <2>1 DEF Toolbars
  <2>3. /\ reload.list = h.list /\ reload.key = h.key /\ reload.astray = astray
        /\ reload.position = h.position /\ reload.target = t0 /\ reload.gen \in Nat
    BY <1>4, <1>5, <2>2 DEF Toolbars
  <2> HIDE DEF reload
  <2>4. Starts(h, reload, h.position, 0, seq, c.url)
    BY <2>2, <2>3 DEF Starts, t0, astray
  <2>5. /\ b.h = reload /\ b.c \in Controllers /\ Quiet(c, b.c)
        /\ b.opened \in Seq(Openings) /\ Places(b) /\ b.asks \in Seq(Traverses)
    <3>1. LET r == Requests(reload, c, "history", c.url, FALSE) IN
          /\ r.h = reload /\ r.c \in Controllers /\ Quiet(c, r.c) /\ r.c.expired = c.expired
          /\ r.opened \in Seq(Openings) /\ Places(r) /\ r.asks \in Seq(Traverses)
      BY ONLY <1>1, <1>7, <2>3, c \in Controllers, OneOpening
    <3> QED BY <1>6, <1>8, <3>1
  <2>6. Core(reload, b.c)
    <3>1. SameView(c, b.c)
      BY <2>5 DEF Quiet
    <3> QED BY <1>1, <2>4, <2>5, <3>1, StepStarted
  <2>7. Grown(h, reload)
    BY <2>3, SameListGrown
  <2>8. Sound(h, c, b)
    BY <2>2, <2>5, <2>6, <2>7 DEF Sound
  <2> QED BY <2>8 DEF b
<1>9. CASE step # 0 /\ h.list[at].doc = c.doc /\ c.expired
  <2>1. Returns(h, StepFailed(h, c)) /\ Quiet(c, c) /\ <<>> \in Seq(Traverses)
    BY FailedStep DEF Quiet, SameView
  <2>2. Sound(h, c, Became(StepFailed(h, c), c, <<>>, <<>>))
    BY <2>1, NothingOpened
  <2> QED BY <2>2, <1>6, <1>9 DEF b
<1>10. CASE step # 0 /\ h.list[at].doc = c.doc /\ ~c.expired
  <2> DEFINE g == [h EXCEPT !.walker = "traverse"]
             id == h.list[at].id
             d == [c EXCEPT !.traversal = id]
             j == c.journal
             basis == j.entries[j.index]
             m == [kind |-> "traverse", nonce |-> c.nonce, doc |-> c.doc, to |-> id, basis |-> basis]
  <2>1. h.list[at] \in Slots
    BY <1>1, <1>10
  <2>2. id \in Nat
    BY <2>1 DEF Slots
  <2>3. c.doc # 0
    <3>1. Heard(h, c)
      BY DEF Core
    <3> QED BY <3>1, <1>1, <1>10 DEF Heard
  <2>4. j \in Journals /\ AtAnEntry(j)
    <3>1. j # Nil
      BY <2>3 DEF Core, Heard
    <3> QED BY <3>1 DEF Core, Whole, Controllers
  <2>5. basis \in Nat
    <3>1. j.entries \in Seq(Nat) /\ j.index \in 1 .. Len(j.entries)
      BY <2>4 DEF Journals, AtAnEntry
    <3> HIDE DEF j
    <3> QED BY <3>1
  <2>6. m \in Traverses
    BY <2>2, <2>5 DEF Traverses, Controllers
  <2> HIDE DEF id, basis
  <2>7. d \in Controllers
    BY <2>2 DEF Controllers
  <2>8. Quiet(c, d)
    BY DEF Controllers, Quiet, SameView
  <2>9. g \in Toolbars
    BY DEF Toolbars
  <2>10. g.list = h.list /\ g.key = h.key /\ g.astray = h.astray /\ g.position = h.position /\ g.target = h.target
    BY DEF Toolbars
  <2>11. Returns(h, g)
    BY <2>9, <2>10 DEF Returns
  <2>12. b = Became(g, d, <<>>, <<m>>)
    BY <1>6, <1>10 DEF id, basis
  <2> HIDE DEF g, d, m
  <2>13. <<m>> \in Seq(Traverses)
    BY <2>6
  <2>14. Sound(h, c, b)
    BY <2>7, <2>8, <2>11, <2>12, <2>13, NothingOpened
  <2> QED BY <2>14 DEF b
<1>11. CASE step # 0 /\ h.list[at].doc # c.doc
  <2> DEFINE url == h.list[at].url
  <2>0. h.list[at] \in Slots /\ at \in Nat /\ at \in {h.position - 1, h.position + 1} /\ at \in 1 .. Len(h.list)
    BY <1>1, <1>11
  <2>1. url \in Addresses
    BY <2>0 DEF Slots
  <2> HIDE DEF url
  <2>2. t1 \in Targets /\ t1 = Target(at, h.position, seq, url)
    <3>1. t1 = Target(at, h.position, seq, url)
      BY DEF url
    <3> QED BY <1>1, <2>0, <2>1, <3>1, NewTarget
  <2> HIDE DEF t1, at
  <2>3. other \in Toolbars
    BY <1>4, <2>0, <2>2 DEF Toolbars
  <2>4. /\ other.list = h.list /\ other.key = h.key /\ other.astray = astray
        /\ other.position = at /\ other.target = t1 /\ other.gen \in Nat
    BY <1>4, <1>5, <2>3 DEF Toolbars
  <2> HIDE DEF other
  <2>5. Starts(h, other, at, h.position, seq, url)
    BY <2>2, <2>3, <2>4 DEF Starts, astray
  <2>6. /\ b.h = other /\ b.c \in Controllers /\ Quiet(c, b.c)
        /\ b.opened \in Seq(Openings) /\ Places(b) /\ b.asks \in Seq(Traverses)
    <3>1. LET r == Requests(other, c, "history", url, FALSE) IN
          /\ r.h = other /\ r.c \in Controllers /\ Quiet(c, r.c) /\ r.c.expired = c.expired
          /\ r.opened \in Seq(Openings) /\ Places(r) /\ r.asks \in Seq(Traverses)
      BY ONLY <1>7, <2>1, <2>4, c \in Controllers, OneOpening
    <3>2. b = Requests(other, c, "history", url, FALSE)
      BY <1>6, <1>11 DEF url, at
    <3> QED BY <3>1, <3>2
  <2>7. Core(other, b.c)
    <3>1. SameView(c, b.c)
      BY <2>6 DEF Quiet
    <3> QED BY <1>1, <2>0, <2>1, <2>5, <2>6, <3>1, StepStarted
  <2>8. Grown(h, other)
    BY <2>4, SameListGrown
  <2>9. Sound(h, c, b)
    BY <2>3, <2>6, <2>7, <2>8 DEF Sound
  <2> QED BY <2>9 DEF b
<1> QED BY <1>8, <1>9, <1>10, <1>11

LEMMA SoundBefore ==
  ASSUME NEW h, NEW g, NEW c, NEW b, Grown(h, g), Sound(g, c, b)
  PROVE  Sound(h, c, b)
<1>1. Grown(h, b.h)
  BY GrownFurther DEF Sound
<1> QED BY <1>1 DEF Sound

\* The queue and the like are nothing to the list.
LEMMA Unlisted ==
  ASSUME NEW h \in Toolbars, NEW c \in Controllers, Core(h, c), NEW g \in Toolbars,
         g.list = h.list, g.key = h.key, g.astray = h.astray, g.position = h.position, g.target = h.target
  PROVE  Returns(h, g) /\ Core(g, c) /\ Grown(h, g)
<1>1. Returns(h, g)
  BY DEF Returns
<1>2. SameView(c, c)
  BY DEF SameView
<1>3. Grown(h, g)
  BY SameListGrown
<1> QED BY <1>1, <1>2, <1>3, Returned

LEMMA WalkSound ==
  ASSUME NEW h \in Toolbars, NEW c \in Controllers, Core(h, c)
  PROVE  Sound(h, c, Walk(h, c))
<1> DEFINE b == Walk(h, c)
<1>1. Quiet(c, c) /\ <<>> \in Seq(Traverses)
  BY DEF Quiet, SameView
<1>2. CASE h.walkGen # h.gen
  <2> DEFINE g == [h EXCEPT !.walker = "idle"]
  <2>1. g \in Toolbars
    BY DEF Toolbars
  <2>2. g.list = h.list /\ g.key = h.key /\ g.astray = h.astray /\ g.position = h.position /\ g.target = h.target
    BY DEF Toolbars
  <2>3. b = Became(g, c, <<>>, <<>>)
    BY <1>2 DEF Walk
  <2> HIDE DEF g, b
  <2>4. Returns(h, g)
    BY <2>1, <2>2, Unlisted
  <2>5. Sound(h, c, b)
    BY <1>1, <2>3, <2>4, NothingOpened
  <2> QED BY <2>5 DEF b
<1>3. CASE h.walkGen = h.gen /\ Useful(h) = {}
  <2> DEFINE q == <<>>
             g == [h EXCEPT !.walker = "idle", !.queue = q]
  <2>0. q \in Seq({-1, 0, 1})
    OBVIOUS
  <2>3. b = Became(g, c, <<>>, <<>>)
    BY <1>3 DEF Walk
  <2> HIDE DEF q, b
  <2>1. g \in Toolbars
    BY <2>0 DEF Toolbars
  <2>2. g.list = h.list /\ g.key = h.key /\ g.astray = h.astray /\ g.position = h.position /\ g.target = h.target
    BY DEF Toolbars
  <2> HIDE DEF g
  <2>4. Returns(h, g)
    BY <2>1, <2>2, Unlisted
  <2>5. Sound(h, c, b)
    BY <1>1, <2>3, <2>4, NothingOpened
  <2> QED BY <2>5 DEF b
<1>4. CASE h.walkGen = h.gen /\ Useful(h) # {}
  <2> DEFINE i == First(Useful(h))
             q == SubSeq(h.queue, i + 1, Len(h.queue))
             g == [h EXCEPT !.queue = q]
             step == h.queue[i]
  <2>1. h.queue \in Seq({-1, 0, 1}) /\ Len(h.queue) \in Nat /\ h.list \in Seq(Slots)
    BY DEF Toolbars
  <2>2. Useful(h) \in SUBSET Nat
    BY <2>1 DEF Useful
  <2>3. i \in Useful(h)
    BY <1>4, <2>2, Least
  <2>4. b = Steps(g, c, step)
    BY <1>4 DEF Walk
  <2> HIDE DEF i
  <2>5. /\ i \in 1 .. Len(h.queue) /\ step \in {-1, 0, 1}
        /\ step # 0 => h.position + step \in 1 .. Len(h.list)
    BY <2>1, <2>3 DEF Useful
  <2>6. q \in Seq({-1, 0, 1})
    BY <2>1, <2>5
  <2> HIDE DEF q, b, step
  <2>7. g \in Toolbars
    BY <2>6 DEF Toolbars
  <2>8. g.list = h.list /\ g.key = h.key /\ g.astray = h.astray /\ g.position = h.position /\ g.target = h.target
    BY DEF Toolbars
  <2> HIDE DEF g
  <2>9. Leads(g, step)
    BY <2>5, <2>8 DEF Leads
  <2>10. Core(g, c) /\ Grown(h, g)
    BY <2>7, <2>8, Unlisted
  <2>11. Sound(g, c, b)
    BY <2>4, <2>7, <2>9, <2>10, StepsSound
  <2>12. Sound(h, c, b)
    BY <2>10, <2>11, SoundBefore
  <2> QED BY <2>12 DEF b
<1> QED BY <1>2, <1>3, <1>4

LEMMA HistorySound ==
  ASSUME NEW h \in Toolbars, NEW c \in Controllers, Core(h, c), NEW delta \in {-1, 0, 1}
  PROVE  Sound(h, c, History(h, c, delta))
<1> DEFINE b == History(h, c, delta)
           q == Append(h.queue, delta)
           queued == [h EXCEPT !.queue = q]
           w == h.gen
           g == [queued EXCEPT !.walkGen = w]
<1>1. q \in Seq({-1, 0, 1}) /\ w \in Nat
  BY DEF Toolbars
<1>2. /\ h.walker # "idle" => b = Became(queued, c, <<>>, <<>>)
      /\ h.walker = "idle" => b = Walk(g, c)
  BY DEF History
<1> HIDE DEF q, b, w
<1>3. queued \in Toolbars
  BY <1>1 DEF Toolbars
<1>4. /\ queued.list = h.list /\ queued.key = h.key /\ queued.astray = h.astray
      /\ queued.position = h.position /\ queued.target = h.target
  BY DEF Toolbars
<1> HIDE DEF queued
<1>5. g \in Toolbars
  BY <1>1, <1>3 DEF Toolbars
<1>6. /\ g.list = h.list /\ g.key = h.key /\ g.astray = h.astray
      /\ g.position = h.position /\ g.target = h.target
  BY <1>3, <1>4 DEF Toolbars
<1> HIDE DEF g
<1>7. CASE h.walker # "idle"
  <2>1. Quiet(c, c) /\ <<>> \in Seq(Traverses)
    BY DEF Quiet, SameView
  <2>2. Returns(h, queued)
    BY <1>3, <1>4, Unlisted
  <2>3. Sound(h, c, b)
    BY <1>2, <1>7, <2>1, <2>2, NothingOpened
  <2> QED BY <2>3 DEF b
<1>8. CASE h.walker = "idle"
  <2>1. Core(g, c) /\ Grown(h, g)
    BY <1>5, <1>6, Unlisted
  <2>2. Sound(g, c, b)
    BY <1>2, <1>5, <1>8, <2>1, WalkSound
  <2>3. Sound(h, c, b)
    BY <2>1, <2>2, SoundBefore
  <2> QED BY <2>3 DEF b
<1> QED BY <1>7, <1>8

-----------------------------------------------------------------------------
(* A report of the shown document's journal.                               *)
Splice(list, slot, E, tail) == SubSeq(list, 1, slot - 1) \o E \o tail
Stretches(s, list, slot, E, tail) ==
  /\ s \in Seq(Slots) /\ Len(s) = slot - 1 + Len(E) + Len(tail)
  /\ \A i \in 1 .. slot - 1 : s[i] = list[i]
  /\ \A i \in 1 .. Len(E) : s[slot - 1 + i] = E[i]
  /\ \A i \in 1 .. Len(tail) : s[slot - 1 + Len(E) + i] = tail[i]

LEMMA Spliced ==
  ASSUME NEW list \in Seq(Slots), NEW slot \in Nat, slot >= 1, slot <= Len(list) + 1,
         NEW E \in Seq(Slots), NEW tail \in Seq(Slots), NEW s, s = Splice(list, slot, E, tail)
  PROVE  Stretches(s, list, slot, E, tail)
<1> DEFINE n == slot - 1
           front == SubSeq(list, 1, n)
           both == front \o E
<1>1. Len(list) \in Nat /\ n \in Nat /\ n <= Len(list) /\ Len(E) \in Nat /\ Len(tail) \in Nat
  OBVIOUS
<1> HIDE DEF n
<1>2. front \in Seq(Slots) /\ Len(front) = n /\ \A i \in 1 .. n : front[i] = list[i]
  <2>1. \A i \in 1 .. n : list[i] \in Slots
    BY <1>1
  <2> QED BY <1>1, <2>1, SubSeqProperties
<1> HIDE DEF front
<1>3. /\ both \in Seq(Slots) /\ Len(both) = n + Len(E)
      /\ \A i \in 1 .. n + Len(E) : both[i] = IF i <= n THEN front[i] ELSE E[i - n]
  BY <1>2, ConcatProperties
<1> HIDE DEF both
<1>4. /\ both \o tail \in Seq(Slots) /\ Len(both \o tail) = Len(both) + Len(tail)
      /\ \A i \in 1 .. Len(both) + Len(tail) :
           (both \o tail)[i] = IF i <= Len(both) THEN both[i] ELSE tail[i - Len(both)]
  BY <1>3, ConcatProperties
<1>5. s = both \o tail
  BY DEF n, front, both, Splice
<1> DEFINE k == Len(E)
           l == Len(tail)
<1>6. k \in Nat /\ l \in Nat
  BY <1>1
<1>7. /\ s \in Seq(Slots) /\ Len(s) = n + k + l
      /\ \A i \in 1 .. n + k + l : s[i] = IF i <= n + k THEN both[i] ELSE tail[i - (n + k)]
  BY <1>3, <1>4, <1>5
<1>8. \A i \in 1 .. n + k : both[i] = IF i <= n THEN front[i] ELSE E[i - n]
  BY <1>3
<1> HIDE DEF k, l
<1>9. ASSUME NEW i \in 1 .. n PROVE s[i] = list[i]
  <2>1. i \in 1 .. n + k + l /\ i <= n + k /\ i \in 1 .. n + k /\ i <= n
    BY ONLY <1>1, <1>6, <1>9
  <2> QED BY <2>1, <1>2, <1>7, <1>8
<1>10. ASSUME NEW i \in 1 .. k PROVE s[n + i] = E[i]
  <2>1. n + i \in 1 .. n + k + l /\ n + i <= n + k /\ n + i \in 1 .. n + k /\ ~(n + i <= n) /\ n + i - n = i
    BY ONLY <1>1, <1>6, <1>10
  <2>2. s[n + i] = both[n + i]
    BY ONLY <1>7, <2>1
  <2>3. both[n + i] = E[n + i - n]
    BY ONLY <1>1, <1>6, <1>8, <2>1, i \in 1 .. k
  <2> QED BY ONLY <2>1, <2>2, <2>3
<1>11. ASSUME NEW i \in 1 .. l PROVE s[n + k + i] = tail[i]
  <2>1. n + k + i \in 1 .. n + k + l /\ ~(n + k + i <= n + k) /\ n + k + i - (n + k) = i
    BY ONLY <1>1, <1>6, <1>11
  <2>2. s[n + k + i] = tail[n + k + i - (n + k)]
    BY ONLY <1>1, <1>6, <1>7, <2>1, i \in 1 .. l
  <2> QED BY ONLY <2>1, <2>2
<1> QED BY <1>7, <1>9, <1>10, <1>11 DEF n, k, l, Stretches

\* An entry of an earlier document, or of no document.
Earlier(x, doc) == x.doc # doc /\ x.doc <= doc /\ x.doc # 0

LEMMA PlacedThere ==
  ASSUME NEW h \in Toolbars, NEW c \in Controllers, c.journal # Nil, AtAnEntry(c.journal),
         c.journal.doc # 0, NEW slot \in 1 .. Len(h.list) + 1, NEW tail \in Seq(Slots),
         \A i \in 1 .. slot - 1 : Earlier(h.list[i], c.journal.doc),
         \A i \in 1 .. Len(tail) : Earlier(tail[i], c.journal.doc)
  PROVE  LET g == PlacedAt(h, c, slot, tail) IN
         /\ g \in Toolbars /\ g.position = slot + c.journal.index - 1 /\ g.position <= Len(g.list)
         /\ g.key = <<c.journal.doc, c.journal.seq>> /\ g.target = h.target /\ g.astray = h.astray
         /\ g.list # <<>> /\ c.journal.index - 1 <= Len(g.list)
         /\ Whole(g, c) /\ Heard(g, c) /\ MirrorsAt(g, c, slot + c.journal.index - 1)
<1> DEFINE J == c.journal
           doc == J.doc
           E == Entries(c)
           n == Len(J.entries)
           list == SubSeq(h.list, 1, slot - 1) \o E \o tail
           at == slot + J.index - 1
           g == PlacedAt(h, c, slot, tail)
<1>1. /\ J \in Journals /\ J.entries \in Seq(Nat) /\ J.index \in Nat /\ n \in Nat /\ doc \in Nat /\ J.seq \in Nat
      /\ J.index >= 1 /\ J.index <= n
  <2>1. J \in Journals
    BY DEF Controllers
  <2>2. J.index \in 1 .. n
    BY DEF AtAnEntry
  <2> HIDE DEF J
  <2>3. J.entries \in Seq(Nat) /\ J.index \in Nat /\ doc \in Nat /\ J.seq \in Nat
    BY <2>1 DEF Journals
  <2> QED BY <2>1, <2>2, <2>3
<1>2. /\ E \in Seq(Slots) /\ Len(E) = n
      /\ \A i \in 1 .. n : E[i].doc = doc /\ E[i].id = J.entries[i] /\ E[i].url = c.url
  <2>1. DOMAIN J.entries = 1 .. n
    BY <1>1
  <2>2. E = [i \in 1 .. n |-> Entry(doc, J.entries[i], c.url)]
    BY <2>1 DEF Entries
  <2>3. ASSUME NEW i \in 1 .. n PROVE Entry(doc, J.entries[i], c.url) \in Slots
    <3>1. J.entries[i] \in Nat /\ c.url \in Addresses
      <4> DEFINE e == J.entries
      <4>e. e \in Seq(Nat) /\ i \in 1 .. Len(e)
        BY <1>1
      <4> HIDE DEF e
      <4>f. e[i] \in Nat
        BY ONLY <4>e
      <4>1. J.entries[i] \in Nat
        BY <4>f DEF e
      <4>2. c.url \in Addresses
        BY ONLY c \in Controllers, <1>1 DEF Controllers
      <4> QED BY <4>1, <4>2
    <3> QED BY <1>1, <3>1 DEF Entry, Slots
  <2> HIDE DEF E, n
  <2>4. E \in Seq(Slots) /\ Len(E) = n
    BY <1>1, <2>2, <2>3
  <2>5. \A i \in 1 .. n : E[i].doc = doc /\ E[i].id = J.entries[i] /\ E[i].url = c.url
    BY <2>2 DEF Entry
  <2> QED BY <2>4, <2>5
<1>3. h.list \in Seq(Slots) /\ Len(h.list) \in Nat /\ Len(tail) \in Nat /\ slot \in Nat /\ slot >= 1
  BY DEF Toolbars
<1> HIDE DEF E
<1>4. /\ list \in Seq(Slots) /\ Len(list) = slot - 1 + n + Len(tail)
      /\ \A i \in 1 .. slot - 1 : list[i] = h.list[i]
      /\ \A i \in 1 .. n : list[slot - 1 + i] = E[i]
      /\ \A i \in 1 .. Len(tail) : list[slot - 1 + n + i] = tail[i]
  <2> HIDE DEF list
  <2>1. list = Splice(h.list, slot, E, tail)
    BY DEF list, Splice
  <2>2. /\ list \in Seq(Slots) /\ Len(list) = slot - 1 + Len(E) + Len(tail)
        /\ \A i \in 1 .. slot - 1 : list[i] = h.list[i]
        /\ \A i \in 1 .. Len(E) : list[slot - 1 + i] = E[i]
        /\ \A i \in 1 .. Len(tail) : list[slot - 1 + Len(E) + i] = tail[i]
    <3>1. slot <= Len(h.list) + 1
      OBVIOUS
    <3>2. E \in Seq(Slots) /\ h.list \in Seq(Slots) /\ slot \in Nat /\ slot >= 1
      BY <1>2, <1>3
    <3> HIDE DEF J
    <3>3. Stretches(list, h.list, slot, E, tail)
      BY ONLY <2>1, <3>1, <3>2, tail \in Seq(Slots), Spliced
    <3> QED BY <3>3 DEF Stretches
  <2> QED BY <1>2, <2>2
<1> DEFINE key == <<J.doc, J.seq>>
           l == Len(tail)
<1>5. g = [h EXCEPT !.list = list, !.position = at, !.key = key]
  BY DEF PlacedAt, E
<1>6. key \in Nat \X Nat /\ key[1] = doc /\ key[2] = J.seq
  BY <1>1
<1>7. at \in Nat /\ at <= slot - 1 + n
  <2>1. J.index \in Nat /\ J.index >= 1 /\ J.index <= n /\ n \in Nat /\ slot \in Nat /\ slot >= 1
    BY <1>1, <1>3
  <2> HIDE DEF J, n
  <2> QED BY ONLY <2>1 DEF at
<1>8. /\ J.doc # 0
      /\ \A i \in 1 .. slot - 1 : Earlier(h.list[i], doc)
      /\ \A i \in 1 .. l : Earlier(tail[i], doc)
  <2>1. J.doc # 0
    OBVIOUS
  <2>2. \A i \in 1 .. slot - 1 : Earlier(h.list[i], doc)
    OBVIOUS
  <2>3. \A i \in 1 .. l : Earlier(tail[i], doc)
    OBVIOUS
  <2> QED BY ONLY <2>1, <2>2, <2>3
<1> HIDE DEF J, n, list, at, key, g
<1>9. g \in Toolbars
  <2> DEFINE g1 == [h EXCEPT !.list = list]
             g2 == [g1 EXCEPT !.position = at]
  <2>1. g1 \in Toolbars
    BY <1>4 DEF Toolbars
  <2> HIDE DEF g1
  <2>2. g2 \in Toolbars
    BY <2>1, <1>7 DEF Toolbars
  <2>3. g = [g2 EXCEPT !.key = key]
    BY <1>5 DEF g1
  <2> HIDE DEF g2
  <2> QED BY <2>2, <2>3, <1>6 DEF Toolbars
<1>10. g.list = list /\ g.position = at /\ g.key = key /\ g.target = h.target /\ g.astray = h.astray
  BY <1>5 DEF Toolbars
<1> DEFINE end == slot + n - 1
\* The three stretches of the list.
<1>11. ASSUME NEW i \in 1 .. Len(list)
       PROVE  \/ i \in 1 .. slot - 1 /\ ~(i \in slot .. end) /\ Earlier(list[i], doc)
              \/ i \in slot .. end /\ list[i].doc = doc /\ list[i].url = c.url
              \/ ~(i \in slot .. end) /\ i > end /\ Earlier(list[i], doc)
  <2>0. i \in Nat /\ i >= 1 /\ i <= slot - 1 + n + l /\ l \in Nat /\ n \in Nat
    BY <1>1, <1>3, <1>4
  <2>1. CASE i <= slot - 1
    <3>1. i \in 1 .. slot - 1 /\ ~(i \in slot .. end)
      BY ONLY <2>0, <2>1, <1>3
    <3> QED BY <3>1, <1>4, <1>8
  <2>2. CASE i > slot - 1 /\ i <= slot - 1 + n
    <3> DEFINE k == i - (slot - 1)
    <3>1. k \in 1 .. n /\ slot - 1 + k = i /\ i \in slot .. end
      BY ONLY <2>0, <2>2, <1>3
    <3>2. list[slot - 1 + k] = E[k]
      BY <3>1, <1>4
    <3> HIDE DEF k
    <3>3. list[i].doc = doc /\ list[i].url = c.url
      BY <3>1, <3>2, <1>2
    <3> QED BY <3>1, <3>3
  <2>3. CASE i > slot - 1 + n
    <3> DEFINE k == i - (slot - 1 + n)
    <3>1. k \in 1 .. l /\ slot - 1 + n + k = i /\ ~(i \in slot .. end) /\ i > end
      BY ONLY <2>0, <2>3, <1>3
    <3>2. list[slot - 1 + n + k] = tail[k]
      BY <3>1, <1>4
    <3> HIDE DEF k
    <3>3. Earlier(list[i], doc)
      BY <3>1, <3>2, <1>8
    <3> QED BY <3>1, <3>3
  <2>4. i <= slot - 1 \/ (i > slot - 1 /\ i <= slot - 1 + n) \/ i > slot - 1 + n
    BY ONLY <2>0, <1>3
  <2> QED BY <2>1, <2>2, <2>3, <2>4
<1>12. \A i \in 1 .. Len(list) : list[i].doc = doc <=> i \in slot .. end
  BY <1>11 DEF Earlier
<1>13. \A i \in 1 .. Len(list) : list[i].doc <= doc /\ list[i].doc # 0 /\ (list[i].doc = doc => list[i].url = c.url)
  BY <1>11, <1>1, <1>8 DEF Earlier
<1>14. Together(list, doc)
  <2> SUFFICES ASSUME NEW x \in 1 .. Len(list), NEW y \in 1 .. Len(list), NEW z \in 1 .. Len(list),
                      x <= y, y <= z, list[x].doc = doc, list[z].doc = doc
               PROVE  list[y].doc = doc
    BY DEF Together
  <2>1. x \in slot .. end /\ z \in slot .. end
    BY <1>12
  <2>2. y \in slot .. end
    <3>1. x \in Int /\ y \in Int /\ z \in Int /\ slot \in Int /\ end \in Int
      BY <1>1, <1>3
    <3> HIDE DEF end
    <3> QED BY ONLY <2>1, <3>1, x <= y, y <= z
  <2> QED BY <2>2, <1>12
<1>15. Whole(g, c)
  <2>1. g.key[1] = doc /\ g.key[2] = J.seq
    BY <1>6, <1>10
  <2>2. g.key[1] <= doc /\ g.key[2] <= J.seq
    BY <2>1, <1>1
  <2> QED BY <1>8, <1>10, <1>13, <1>14, <2>1, <2>2, AtAnEntry(c.journal) DEF Whole, J
<1>16. Heard(g, c)
  BY <1>10, <1>13 DEF Heard
<1>17. MirrorsAt(g, c, at)
  <2> DEFINE start == at - J.index + 1
  <2>1. start = slot
    BY <1>1, <1>3 DEF at
  <2>2. start + n - 1 = end /\ end <= Len(list)
    BY <2>1, <1>1, <1>3, <1>4
  <2>3. ASSUME NEW i \in 1 .. n PROVE list[slot + i - 1].id = J.entries[i]
    <3>1. slot + i - 1 = slot - 1 + i
      BY <1>3
    <3> QED BY <3>1, <1>2, <1>4
  <2> QED BY <1>10, <1>12, <1>3, <2>1, <2>2, <2>3 DEF MirrorsAt, J, n
<1>18. g.position <= Len(g.list) /\ J.index - 1 <= Len(g.list) /\ g.list # <<>>
  BY <1>1, <1>3, <1>4, <1>7, <1>10
<1> QED BY <1>9, <1>10, <1>15, <1>16, <1>17, <1>18 DEF g, J, at, key

(* What a document says of its journal, in time: a later document, a later *)
(* change, or the same again.                                              *)
Older(a, b) ==
  \/ a.doc < b.doc
  \/ a.doc = b.doc /\ a.seq < b.seq
  \/ a.doc = b.doc /\ a.seq = b.seq /\ a.entries = b.entries /\ a.index = b.index
News(h, c, s) ==
  IF c.journal # Nil THEN Older(c.journal, s)
  ELSE h.key[1] < s.doc /\ \A i \in 1 .. Len(h.list) : h.list[i].doc < s.doc

\* The controller has taken a report over: o before, c after.
Takes(h, o, c) ==
  /\ c.journal \in Journals /\ c.journal # Nil /\ AtAnEntry(c.journal) /\ c.journal.doc # 0
  /\ c.url = o.url /\ c.expired = o.expired /\ ~c.loading
  /\ News(h, o, c.journal)
  /\ o.loading /\ o.journal # Nil => o.journal.doc < c.journal.doc

LEMMA NewsWhole ==
  ASSUME NEW h \in Toolbars, NEW o \in Controllers, NEW c \in Controllers, Core(h, o), Takes(h, o, c)
  PROVE  /\ Whole(h, c) /\ Heard(h, c) /\ Faithful(h, c)
         /\ (\E i \in 1 .. Len(h.list) : h.list[i].doc = c.journal.doc) \/ h.key[1] = c.journal.doc =>
              /\ o.journal # Nil /\ o.journal.doc = c.journal.doc /\ ~o.loading
              /\ h.target = Nil \/ Waiting(h)
<1> DEFINE J == c.journal
           K == o.journal
<1>1. /\ J \in Journals /\ J # Nil /\ AtAnEntry(J) /\ J.doc # 0 /\ c.url = o.url /\ c.expired = o.expired
      /\ ~c.loading /\ News(h, o, J) /\ (o.loading /\ K # Nil => K.doc < J.doc)
  BY DEF Takes
<1>2. Whole(h, o) /\ Heard(h, o) /\ Faithful(h, o) /\ Taken(h, o)
  BY DEF Core
<1>3. J.doc \in Nat /\ J.seq \in Nat
  BY <1>1 DEF Journals
<1>4. K # Nil => K.doc \in Nat /\ K.seq \in Nat
  BY DEF Controllers, Journals
<1>5. h.key[1] \in Nat /\ h.key[2] \in Nat /\ h.key = <<h.key[1], h.key[2]>> /\ h.list \in Seq(Slots)
  BY DEF Toolbars
<1>6. \A i \in 1 .. Len(h.list) : h.list[i].doc \in Int
  <2> SUFFICES ASSUME NEW i \in 1 .. Len(h.list) PROVE h.list[i].doc \in Int
    OBVIOUS
  <2>1. h.list[i] \in Slots
    BY ONLY <1>5, i \in 1 .. Len(h.list)
  <2> QED BY ONLY <2>1 DEF Slots
<1> HIDE DEF J, K
\* Either the report is of the document whose entries the list has, or of a
\* later one.
<1>7. CASE K # Nil /\ K.doc = J.doc
  <2>1. /\ Together(h.list, K.doc)
        /\ \A i \in 1 .. Len(h.list) : h.list[i].doc = K.doc => h.list[i].url = o.url
        /\ \A i \in 1 .. Len(h.list) : h.list[i].doc <= K.doc
        /\ h.key[1] <= K.doc
        /\ h.key[1] = K.doc => h.key[2] <= K.seq
    BY <1>2, <1>7 DEF Whole, K
  <2>2. K.seq <= J.seq /\ (K.seq = J.seq => K.entries = J.entries /\ K.index = J.index)
    <3>1. Older(K, J)
      BY <1>1, <1>7 DEF News, K
    <3> QED BY <3>1, <1>3, <1>4, <1>7 DEF Older
  <2>3. h.key[1] = J.doc => h.key[2] <= J.seq
    BY <2>1, <2>2, <1>3, <1>4, <1>5, <1>7
  <2>4. Whole(h, c)
    BY <1>1, <1>7, <2>1, <2>3 DEF Whole, J
  <2>5. Heard(h, c)
    BY <1>1, <1>2 DEF Heard, J
  <2>6. ~o.loading
    BY <1>1, <1>3, <1>7
  <2>7. Faithful(h, c)
    <3> SUFFICES ASSUME Latest(h, c) PROVE MirrorsAt(h, c, Place(h))
      BY DEF Faithful
    <3>1. h.key[1] = J.doc /\ h.key[2] = J.seq /\ ~c.expired /\ ~h.astray
      BY DEF Latest, J
    <3>2. K.seq = J.seq
      BY <3>1, <2>1, <2>2, <1>3, <1>4, <1>7
    <3>3. Latest(h, o)
      BY <3>1, <3>2, <1>1, <1>5, <1>7 DEF Latest, K
    <3>4. MirrorsAt(h, o, Place(h)) \/ KeptAt(h, o, Place(h))
      BY <3>3, <1>2 DEF Faithful
    <3>5. MirrorsAt(h, o, Place(h))
      BY <3>4, <2>6 DEF KeptAt
    <3>6. K.entries = J.entries /\ K.index = J.index /\ K.doc = J.doc
      BY <2>2, <3>2, <1>7
    <3> QED BY ONLY <3>5, <3>6 DEF MirrorsAt, J, K
  <2>8. h.target = Nil \/ Waiting(h)
    BY <1>2, <1>7, <2>6 DEF Taken, Waiting, K
  <2> QED BY <1>7, <2>4, <2>5, <2>6, <2>7, <2>8 DEF J, K
<1>8. CASE ~(K # Nil /\ K.doc = J.doc)
  <2>1. h.key[1] < J.doc /\ \A i \in 1 .. Len(h.list) : h.list[i].doc < J.doc
    <3>1. CASE K = Nil
      BY <3>1, <1>1 DEF News, K
    <3>2. CASE K # Nil
      <4>1. K.doc < J.doc
        <5>1. Older(K, J)
          BY <1>1, <3>2 DEF News, K
        <5> QED BY <5>1, <3>2, <1>8 DEF Older
      <4>2. h.key[1] <= K.doc /\ \A i \in 1 .. Len(h.list) : h.list[i].doc <= K.doc
        BY <1>2, <3>2 DEF Whole, K
      <4> QED BY <4>1, <4>2, <3>2, <1>3, <1>4, <1>5, <1>6
    <3> QED BY <3>1, <3>2
  <2>2. h.key[1] # J.doc /\ h.key[1] <= J.doc
    BY <2>1, <1>3, <1>5
  <2>3. \A i \in 1 .. Len(h.list) : h.list[i].doc # J.doc /\ h.list[i].doc <= J.doc
    BY <2>1, <1>3, <1>6
  <2>4. Together(h.list, J.doc)
    BY <2>3 DEF Together
  <2>5. Whole(h, c)
    BY <1>1, <2>2, <2>3, <2>4 DEF Whole, J
  <2>6. Heard(h, c)
    BY <1>1, <1>2 DEF Heard, J
  <2>7. Faithful(h, c)
    <3>1. ~Latest(h, c)
      BY <2>2, <1>5 DEF Latest, J
    <3> QED BY <3>1 DEF Faithful
  <2> QED BY <2>2, <2>3, <2>5, <2>6, <2>7 DEF J
<1> QED BY <1>7, <1>8

LEMMA ReportedCore ==
  ASSUME NEW h \in Toolbars, NEW o \in Controllers, NEW c \in Controllers,
         Core(h, o), Takes(h, o, c), NEW kind
  PROVE  LET g == Reported(h, c, kind) IN
         /\ g \in Toolbars /\ Core(g, c) /\ (h.list # <<>> => g.list # <<>>)
<1> DEFINE J == c.journal
           g == Reported(h, c, kind)
<1>1. /\ J \in Journals /\ J # Nil /\ AtAnEntry(J) /\ J.doc # 0 /\ ~c.loading
  BY DEF Takes
<1>2. /\ Whole(h, c) /\ Heard(h, c) /\ Faithful(h, c)
      /\ (\E i \in 1 .. Len(h.list) : h.list[i].doc = J.doc) \/ h.key[1] = J.doc =>
              /\ o.journal # Nil /\ o.journal.doc = J.doc /\ ~o.loading
              /\ h.target = Nil \/ Waiting(h)
  BY NewsWhole
<1>3. h.position <= Len(h.list) /\ Led(h) /\ Taken(h, o) /\ Rooted(h)
  BY DEF Core
<1>4. /\ h.list \in Seq(Slots) /\ Len(h.list) \in Nat /\ h.position \in Nat
      /\ h.target # Nil => h.target.position \in Nat /\ h.target.previous \in Nat
      /\ J.doc \in Nat /\ J.index \in Nat /\ J.index >= 1
  <2>1. J.doc \in Nat /\ J.index \in Nat
    BY <1>1 DEF Journals
  <2>2. J.index >= 1
    BY <1>1, <2>1 DEF AtAnEntry
  <2>3. h.target # Nil => h.target.position \in Nat /\ h.target.previous \in Nat
    BY DEF Toolbars, Targets
  <2>4. h.list \in Seq(Slots) /\ Len(h.list) \in Nat /\ h.position \in Nat
    BY DEF Toolbars
  <2> QED BY <2>1, <2>2, <2>3, <2>4
<1>5. \A i \in 1 .. Len(h.list) : h.list[i] \in Slots /\ h.list[i].doc <= J.doc /\ h.list[i].doc # 0
  BY <1>1, <1>2, <1>4 DEF Whole, Heard
<1>6. Block(h.list, J.doc) = {i \in 1 .. Len(h.list) : h.list[i].doc = J.doc}
  BY <1>4 DEF Block
<1> HIDE DEF g
<1>7. CASE Waiting(h) \/ h.key = <<J.doc, J.seq>>
  <2>1. g = h
    BY <1>7 DEF g, Reported
  <2>2. h.target = Nil \/ Waiting(h)
    <3>1. CASE Waiting(h)
      BY <3>1
    <3>2. CASE h.key = <<J.doc, J.seq>>
      <4>1. h.key[1] = J.doc
        BY <3>2
      <4> QED BY <4>1, <1>2
    <3> QED BY <1>7, <3>1, <3>2
  <2>3. Taken(h, c)
    BY <2>2 DEF Taken, Waiting
  <2> QED BY <2>1, <2>3, <1>2, <1>3 DEF Core, g
<1>8. CASE ~(Waiting(h) \/ h.key = <<J.doc, J.seq>>) /\ Block(h.list, J.doc) = {}
  <2> DEFINE mine == Mine(h, c)
             after == IF mine THEN h.target.position ELSE h.position + 1
             start == IF after > Len(h.list) + 1 THEN Len(h.list) + 1 ELSE after
             slot == IF start # 0 THEN start ELSE IF h.list = <<>> THEN 1 ELSE Len(h.list)
             tail == IF mine THEN SubSeq(h.list, slot + 1, Len(h.list)) ELSE <<>>
             p == PlacedAt(h, c, slot, tail)
             at == start + J.index - 1
  <2>1. g = [p EXCEPT !.target = Nil, !.position = at]
    BY <1>8 DEF g, Reported, NewDocument
  <2>2. mine => h.target # Nil
    BY DEF Mine
  <2>3. start \in Nat /\ start <= Len(h.list) + 1
    BY <1>3, <1>4, <2>2 DEF Led
  <2>4. slot \in 1 .. Len(h.list) + 1 /\ slot \in Nat
    <3>1. h.list # <<>> => Len(h.list) >= 1
      BY <1>4
    <3> HIDE DEF start
    <3> QED BY <2>3, <3>1, <1>4
  <2>5. start = 0 => h.astray
    <3> SUFFICES ASSUME start = 0 PROVE h.astray
      OBVIOUS
    <3>1. mine /\ h.target.position = 0
      BY <1>4
    <3> QED BY <3>1, <2>2, <1>3 DEF Rooted
  <2> HIDE DEF start, mine
  <2>6. start # 0 => slot = start
    OBVIOUS
  <2> HIDE DEF slot
  <2>7. \A i \in 1 .. Len(h.list) : Earlier(h.list[i], J.doc)
    BY <1>5, <1>6, <1>8 DEF Earlier
  <2>8. tail \in Seq(Slots) /\ \A i \in 1 .. Len(tail) : Earlier(tail[i], J.doc)
    <3>1. CASE mine
      <4> DEFINE s == SubSeq(h.list, slot + 1, Len(h.list))
                 n == Len(h.list)
      <4>1. tail = s
        BY <3>1
      <4>2. s \in Seq(Slots)
        BY <1>4, <2>4
      <4>3. ASSUME NEW i \in 1 .. Len(s) PROVE Earlier(s[i], J.doc)
        <5>1. Len(s) = IF slot + 1 <= n THEN n - slot ELSE 0
          BY <1>4, <2>4
        <5>2. slot + i \in 1 .. n
          BY <5>1, <1>4, <2>4
        <5>3. s[i] = h.list[slot + i]
          BY <5>1, <5>2, <1>4, <2>4
        <5> QED BY <5>2, <5>3, <2>7
      <4> QED BY <4>1, <4>2, <4>3
    <3>2. CASE ~mine
      BY <3>2
    <3> QED BY <3>1, <3>2
  <2> HIDE DEF tail
  <2>9. \A i \in 1 .. slot - 1 : Earlier(h.list[i], J.doc)
    BY <2>4, <2>7, <1>4
  <2>10. /\ p \in Toolbars /\ p.position = slot + J.index - 1 /\ p.position <= Len(p.list)
         /\ p.key = <<J.doc, J.seq>> /\ p.target = h.target /\ p.astray = h.astray
         /\ p.list # <<>> /\ J.index - 1 <= Len(p.list)
         /\ Whole(p, c) /\ Heard(p, c) /\ MirrorsAt(p, c, slot + J.index - 1)
    BY ONLY h \in Toolbars, c \in Controllers, <1>1, <2>4, <2>8, <2>9, PlacedThere
  <2> HIDE DEF p
  <2>11. at \in Nat
    BY <1>4, <2>3
  <2>12. at <= Len(p.list)
    BY <2>3, <2>6, <2>10, <1>4
  <2>13. start # 0 => at = slot + J.index - 1 /\ at # 0
    BY <2>3, <2>6, <1>4
  <2> HIDE DEF at, J
  <2>14. g \in Toolbars
    BY <2>1, <2>10, <2>11 DEF Toolbars
  <2>15. /\ g.list = p.list /\ g.key = p.key /\ g.astray = p.astray /\ g.position = at /\ g.target = Nil
    BY <2>1, <2>10 DEF Toolbars
  <2>16. Led(g) /\ Taken(g, c) /\ Place(g) = at
    BY <2>15 DEF Led, Taken, Place
  <2>17. Rooted(g)
    BY <2>5, <2>10, <2>13, <2>15 DEF Rooted
  <2>18. Whole(g, c) /\ Heard(g, c)
    BY <2>10, <2>15 DEF Whole, Heard
  <2>19. Faithful(g, c)
    <3> SUFFICES ASSUME Latest(g, c) PROVE MirrorsAt(g, c, Place(g))
      BY DEF Faithful
    <3>1. start # 0
      BY <2>5, <2>10, <2>15 DEF Latest
    <3>2. MirrorsAt(p, c, at)
      BY <3>1, <2>10, <2>13
    <3> QED BY ONLY <3>2, <2>15, <2>16 DEF MirrorsAt
  <2> QED BY <2>10, <2>12, <2>14, <2>15, <2>16, <2>17, <2>18, <2>19 DEF Core, g
<1>9. CASE ~(Waiting(h) \/ h.key = <<J.doc, J.seq>>) /\ Block(h.list, J.doc) # {}
  <2> DEFINE block == Block(h.list, J.doc)
             start == First(block)
             end == BlockEnd(h.list, start)
             tail == IF kind = "push" THEN <<>> ELSE SubSeq(h.list, end, Len(h.list))
             p == PlacedAt(h, c, start, tail)
             at == start + J.index - 1
  <2>1. g = p
    BY <1>9 DEF g, Reported, SameDocument
  <2>2. h.target = Nil
    <3>1. \E i \in 1 .. Len(h.list) : h.list[i].doc = J.doc
      BY <1>6, <1>9
    <3> QED BY <3>1, <1>2, <1>9
  <2>3. start \in block /\ \A i \in block : start <= i
    <3>1. block \in SUBSET Nat
      BY <1>6, <1>4
    <3> HIDE DEF block
    <3>2. block # {}
      BY <1>9 DEF block
    <3> QED BY <3>1, <3>2, Least
  <2> HIDE DEF start
  <2>4. start \in 1 .. Len(h.list) /\ start \in Nat /\ start >= 1 /\ h.list[start].doc = J.doc
    BY <2>3, <1>6, <1>4
  <2> DEFINE ends == {i \in start .. Len(h.list) + 1 : i = Len(h.list) + 1 \/ h.list[i].doc # h.list[start].doc}
  <2>5. end \in ends
    <3>1. ends \in SUBSET Nat
      BY <2>4, <1>4
    <3>2. Len(h.list) + 1 \in ends
      BY <2>4, <1>4
    <3>3. end = First(ends)
      BY DEF BlockEnd
    <3> HIDE DEF ends, end
    <3> QED BY <3>1, <3>2, <3>3, Least
  <2> HIDE DEF end
  <2>6. /\ end \in Nat /\ end >= start /\ end <= Len(h.list) + 1
        /\ end <= Len(h.list) => h.list[end].doc # J.doc
    BY <2>4, <2>5, <1>4
  <2> HIDE DEF ends
  <2>7. Together(h.list, J.doc)
    BY <1>1, <1>2 DEF Whole
  <2>8. \A i \in 1 .. start - 1 : Earlier(h.list[i], J.doc)
    <3> SUFFICES ASSUME NEW i \in 1 .. start - 1 PROVE Earlier(h.list[i], J.doc)
      OBVIOUS
    <3>1. i \in 1 .. Len(h.list) /\ ~(start <= i)
      BY <2>4, <1>4
    <3>2. i \notin block
      BY <2>3, <3>1
    <3>3. h.list[i].doc # J.doc
      BY <3>1, <3>2, <1>6
    <3> QED BY <3>1, <3>3, <1>5 DEF Earlier
  <2>9. ASSUME NEW i \in 1 .. Len(h.list), i >= end PROVE Earlier(h.list[i], J.doc)
    <3>1. h.list[i].doc # J.doc
      <4> SUFFICES ASSUME h.list[i].doc = J.doc PROVE FALSE
        OBVIOUS
      <4>1. end \in 1 .. Len(h.list) /\ start <= end /\ end <= i
        BY <2>4, <2>6, <2>9, <1>4
      <4>2. h.list[end].doc = J.doc
        BY ONLY <4>1, <2>4, <2>7, i \in 1 .. Len(h.list), h.list[i].doc = J.doc DEF Together
      <4> QED BY <4>1, <4>2, <2>6
    <3> QED BY <3>1, <1>5 DEF Earlier
  <2>10. tail \in Seq(Slots) /\ \A i \in 1 .. Len(tail) : Earlier(tail[i], J.doc)
    <3>1. CASE kind # "push"
      <4> DEFINE s == SubSeq(h.list, end, Len(h.list))
                 n == Len(h.list)
      <4>1. tail = s
        BY <3>1
      <4>2. s \in Seq(Slots)
        BY <1>4, <2>6, <2>4
      <4>3. ASSUME NEW i \in 1 .. Len(s) PROVE Earlier(s[i], J.doc)
        <5>1. Len(s) = IF end <= n THEN n - end + 1 ELSE 0
          BY <1>4, <2>6, <2>4
        <5>2. end + i - 1 \in 1 .. n /\ end + i - 1 >= end
          BY <5>1, <1>4, <2>4, <2>6
        <5>3. s[i] = h.list[end + i - 1]
          BY <5>1, <5>2, <1>4, <2>4, <2>6
        <5> QED BY <5>2, <5>3, <2>9
      <4> QED BY <4>1, <4>2, <4>3
    <3>2. CASE kind = "push"
      BY <3>2
    <3> QED BY <3>1, <3>2
  <2> HIDE DEF tail
  <2>11. /\ p \in Toolbars /\ p.position = at /\ p.position <= Len(p.list)
         /\ p.key = <<J.doc, J.seq>> /\ p.target = h.target /\ p.astray = h.astray
         /\ p.list # <<>>
         /\ Whole(p, c) /\ Heard(p, c) /\ MirrorsAt(p, c, at)
    <3>1. start \in 1 .. Len(h.list) + 1
      BY <2>4, <1>4
    <3> QED BY ONLY h \in Toolbars, c \in Controllers, <1>1, <3>1, <2>8, <2>10, PlacedThere
  <2>12. at # 0
    BY <2>4, <1>4
  <2> HIDE DEF p, at
  <2>13. Led(p) /\ Taken(p, c) /\ Place(p) = at
    BY <2>2, <2>11 DEF Led, Taken, Place
  <2>14. Rooted(p)
    BY <2>2, <2>11, <2>12 DEF Rooted
  <2>15. Faithful(p, c)
    BY <2>11, <2>13 DEF Faithful
  <2> QED BY <2>1, <2>11, <2>13, <2>14, <2>15 DEF Core, g
<1> QED BY <1>7, <1>8, <1>9

-----------------------------------------------------------------------------
(* A page that loads: one that leaves by itself, or one that is shown.     *)
LEMMA ClaimedShape ==
  ASSUME NEW h \in Toolbars, NEW c \in Controllers
  PROVE  LET g == Claimed(h, c) IN
         /\ g \in Toolbars /\ g.list = h.list /\ g.key = h.key /\ g.astray = h.astray /\ g.position = h.position
         /\ \/ g.target = Nil
            \/ /\ h.target # Nil /\ g.target # Nil
               /\ g.target.position = h.target.position /\ g.target.previous = h.target.previous
<1> DEFINE n == [h EXCEPT !.notice = FALSE]
           t == [h.target EXCEPT !.visit = c.visit]
<1>1. n \in Toolbars
  BY DEF Toolbars
<1>2. n.list = h.list /\ n.key = h.key /\ n.astray = h.astray /\ n.position = h.position /\ n.target = h.target
  BY DEF Toolbars
<1> HIDE DEF n
<1>3. CASE h.target = Nil
  <2>1. Claimed(h, c) = n
    BY <1>3 DEF Claimed, n
  <2> QED BY <1>1, <1>2, <1>3, <2>1
<1>4. CASE h.target # Nil /\ h.target.seq = c.seq
  <2>1. h.target \in Targets /\ c.visit \in Nat
    BY <1>4 DEF Toolbars, Controllers
  <2>2. t \in Targets /\ t.position = h.target.position /\ t.previous = h.target.previous
    BY <2>1 DEF Targets
  <2>3. Claimed(h, c) = [n EXCEPT !.target = t]
    BY <1>4, <1>2 DEF Claimed, n
  <2>4. t # Nil
    BY <2>2, NilIsApart
  <2> DEFINE g == [n EXCEPT !.target = t]
  <2> HIDE DEF t
  <2>5. g \in Toolbars
    BY <1>1, <2>2 DEF Toolbars
  <2>6. g.list = n.list /\ g.key = n.key /\ g.astray = n.astray /\ g.position = n.position /\ g.target = t
    BY <1>1 DEF Toolbars
  <2> HIDE DEF g
  <2> QED BY <1>2, <1>4, <2>2, <2>3, <2>4, <2>5, <2>6 DEF g
<1>5. CASE h.target # Nil /\ h.target.seq # c.seq
  <2> DEFINE g == [n EXCEPT !.target = Nil]
  <2>1. Claimed(h, c) = g
    BY <1>5 DEF Claimed, n
  <2>2. g \in Toolbars
    BY <1>1 DEF Toolbars
  <2>3. g.list = n.list /\ g.key = n.key /\ g.astray = n.astray /\ g.position = n.position /\ g.target = Nil
    BY <1>1 DEF Toolbars
  <2> HIDE DEF g
  <2> QED BY <1>2, <2>1, <2>2, <2>3
<1> QED BY <1>3, <1>4, <1>5

LEMMA NavigatingCore ==
  ASSUME NEW h \in Toolbars, NEW c \in Controllers, Core(h, c), ~c.loading
  PROVE  LET g == [Claimed(h, c) EXCEPT !.astray = @ \/ Waiting(h)]
             d == [c EXCEPT !.loading = TRUE] IN
         /\ g \in Toolbars /\ d \in Controllers /\ Core(g, d)
         /\ g.list = h.list /\ g.key = h.key
<1> DEFINE k == Claimed(h, c)
           w == Waiting(h)
           a == k.astray \/ w
           g == [k EXCEPT !.astray = a]
           d == [c EXCEPT !.loading = TRUE]
<1>1. /\ k \in Toolbars /\ k.list = h.list /\ k.key = h.key /\ k.astray = h.astray /\ k.position = h.position
      /\ \/ k.target = Nil
         \/ /\ h.target # Nil /\ k.target # Nil
            /\ k.target.position = h.target.position /\ k.target.previous = h.target.previous
  BY ClaimedShape
<1>2. w \in BOOLEAN /\ k.astray \in BOOLEAN
  BY <1>1 DEF Waiting, Toolbars
<1> HIDE DEF k, w
<1>3. a \in BOOLEAN
  BY <1>2
<1> HIDE DEF a
<1>4. g \in Toolbars
  BY <1>1, <1>3 DEF Toolbars
<1>5. g.list = h.list /\ g.key = h.key /\ g.position = h.position /\ g.target = k.target /\ g.astray = a
  BY <1>1 DEF Toolbars
<1> HIDE DEF g
<1>6. d \in Controllers
  BY DEF Controllers
<1>7. /\ d.loading /\ d.url = c.url /\ d.journal = c.journal /\ d.doc = c.doc /\ d.expired = c.expired
  BY DEF Controllers
<1> HIDE DEF d
<1>8. SameView(c, d)
  BY <1>7 DEF SameView
<1>9. h.position <= Len(h.list) /\ Led(h) /\ Taken(h, c) /\ Rooted(h)
  BY DEF Core
<1>10. Led(g)
  BY <1>1, <1>5, <1>9 DEF Led
<1>11. h.target # Nil /\ ~a => c.journal = Nil
  <2> SUFFICES ASSUME h.target # Nil, ~a PROVE c.journal = Nil
    OBVIOUS
  <2>1. ~w
    BY DEF a
  <2>2. h.target.visit # 0
    BY <2>1 DEF w, Waiting
  <2> QED BY <2>2, <1>9 DEF Taken
<1>12. Taken(g, d)
  <2>1. g.target # Nil => h.target # Nil
    BY <1>1, <1>5
  <2> QED BY <1>5, <1>7, <1>11, <2>1 DEF Taken
<1>13. ~g.astray => ~h.astray
  BY <1>1, <1>5 DEF a
<1>14. Rooted(g)
  BY <1>1, <1>5, <1>9, <1>13 DEF Rooted
<1>15. Latest(g, d) => Place(g) = Place(h)
  <2> SUFFICES ASSUME Latest(g, d) PROVE Place(g) = Place(h)
    OBVIOUS
  <2>1. ~a /\ c.journal # Nil
    BY <1>5, <1>7 DEF Latest
  <2>2. h.target = Nil
    BY <1>11, <2>1
  <2> QED BY <1>1, <1>5, <2>2 DEF Place
<1>16. Whole(g, d) /\ Heard(g, d) /\ Faithful(g, d)
  BY <1>4, <1>5, <1>6, <1>8, <1>13, <1>15, Carried
<1>17. Core(g, d)
  BY <1>5, <1>9, <1>10, <1>12, <1>14, <1>16 DEF Core
<1> QED BY <1>4, <1>5, <1>6, <1>17 DEF g, d, a, k, w

\* What is shown anew has reported nothing.
LEMMA ShownCore ==
  ASSUME NEW h \in Toolbars, NEW c \in Controllers, NEW d \in Controllers,
         Core(h, c), d.journal = Nil, d.doc = 0
  PROVE  LET g == Claimed(StepCancelled(h, c), d) IN
         g \in Toolbars /\ Core(g, d) /\ g.list = h.list /\ g.key = h.key
<1> DEFINE x == StepCancelled(h, c)
           g == Claimed(x, d)
<1>1. Returns(h, x)
  BY CancelledStep
<1> HIDE DEF x
<1>2. x \in Toolbars /\ x.list = h.list /\ x.key = h.key
  BY <1>1 DEF Returns
<1>3. SameView(c, c)
  BY DEF SameView
<1>4. Core(x, c)
  BY <1>1, <1>3, Returned
<1>5. /\ g \in Toolbars /\ g.list = x.list /\ g.key = x.key /\ g.astray = x.astray /\ g.position = x.position
      /\ \/ g.target = Nil
         \/ /\ x.target # Nil /\ g.target # Nil
            /\ g.target.position = x.target.position /\ g.target.previous = x.target.previous
  BY <1>2, ClaimedShape
<1> HIDE DEF g
<1>6. x.position <= Len(x.list) /\ Led(x) /\ Rooted(x) /\ Heard(x, c)
  BY <1>4 DEF Core
<1>7. Led(g)
  BY <1>5, <1>6 DEF Led
<1>8. Rooted(g)
  BY <1>5, <1>6 DEF Rooted
<1>9. Taken(g, d) /\ Whole(g, d) /\ Faithful(g, d)
  BY DEF Taken, Whole, Faithful, Latest
<1>10. Heard(g, d)
  BY <1>5, <1>6 DEF Heard
<1>11. Core(g, d)
  BY <1>5, <1>6, <1>7, <1>8, <1>9, <1>10 DEF Core
<1> QED BY <1>2, <1>5, <1>11 DEF g, x

\* The user tries again: a step that was taken is open once more.
LEMMA RetriedCore ==
  ASSUME NEW h \in Toolbars, NEW c \in Controllers, NEW d \in Controllers, NEW g \in Toolbars,
         Core(h, c), SameView(c, d), g.list = h.list, g.key = h.key, g.astray = h.astray,
         g.position = h.position,
         \/ h.target = Nil /\ g.target = Nil
         \/ /\ h.target # Nil /\ g.target # Nil /\ g.target.visit = 0
            /\ g.target.position = h.target.position /\ g.target.previous = h.target.previous
  PROVE  Core(g, d)
<1>1. h.position <= Len(h.list) /\ Led(h) /\ Taken(h, c) /\ Rooted(h)
  BY DEF Core
<1>2. Led(g)
  BY <1>1 DEF Led
<1>3. Taken(g, d)
  BY DEF Taken
<1>4. Rooted(g)
  BY <1>1 DEF Rooted
<1>5. Place(g) = Place(h)
  BY DEF Place
<1>6. Whole(g, d) /\ Heard(g, d) /\ Faithful(g, d)
  BY <1>5, Carried
<1> QED BY <1>1, <1>2, <1>3, <1>4, <1>6 DEF Core

-----------------------------------------------------------------------------
(* The messages between the page and the toolbar.                          *)
Kinds == {"push", "replace", "sync", "traverse"}
Pages == [visit : Nat, url : Addresses, doc : Nat, entries : Seq(Nat), index : Nat, seq : Nat, nonce : Nat]
Reports == [kind : {"state"}, change : Kinds, visit : Nat, nonce : Nat, doc : Nat,
            seq : Nat, entries : Seq(Nat), index : Nat]
Readies == [kind : {"ready"}, visit : Nat]
Departures == [kind : {"navigating"}, visit : Nat, nonce : Nat]
Others == [kind : {"traversed", "history"}, visit : Nat, nonce : Nat, doc : Nat]
Messages == Reports \cup Readies \cup Departures \cup Others
Requested == Attaches \cup Traverses
Counters == [asked : Nat, moves : Nat, docs : Nat, lost : Nat, visits : Nat, nonces : Nat]
Elems(s) == {s[i] : i \in 1 .. Len(s)}

(* The toolbar waits for a document that has not reported: nothing on its  *)
(* way for the present nonce is of the one that reported last.             *)
Busy(c) == c.loading /\ c.journal # Nil /\ c.nonce # 0
Speaks(m) == m.kind \in {"state", "navigating"}

(* D and N are the last document and the last nonce.                       *)
ListKnown(h, c, D, N) ==
  /\ \A i \in 1 .. Len(h.list) : h.list[i].doc <= D
  /\ h.key[1] <= D
  /\ c.journal # Nil => c.journal.doc <= D
  /\ c.nonce <= N
PageKnown(h, c, p, D, N) ==
  /\ p.doc \in {0, D} /\ p.nonce <= N
  /\ p.nonce # 0 => p.doc # 0
  /\ p.doc # 0 => AtAnEntry(p) /\ News(h, c, p)
  /\ Busy(c) /\ p.nonce = c.nonce => p.doc > c.journal.doc
Said(h, c, p, D, N, m) ==
  /\ m.kind = "state" =>
       /\ AtAnEntry(m) /\ m.doc # 0 /\ m.doc <= D /\ m.nonce <= N /\ News(h, c, m)
       /\ p.doc # 0 => Older(m, p)
       /\ Busy(c) /\ m.nonce = c.nonce => m.doc > c.journal.doc
  /\ m.kind = "navigating" => m.nonce # 0 /\ m.nonce <= N /\ p.nonce # m.nonce
  /\ m.kind = "ready" /\ c.journal # Nil => p.doc = 0 \/ c.journal.doc < p.doc
Bid(c, p, N, S, a) == a.kind = "attach" =>
  /\ a.nonce <= N /\ a.nonce > p.nonce
  /\ \A m \in S : Speaks(m) => m.nonce < a.nonce
  /\ Busy(c) /\ a.nonce = c.nonce => p.doc = 0 \/ p.doc > c.journal.doc

\* In order: reports get newer, a document is ready after the reports of the
\* one before it, and what leaves reports no more.
Before(p, x, y) ==
  /\ x.kind = "state" /\ y.kind = "state" => Older(x, y)
  /\ x.kind = "state" /\ y.kind = "ready" => p.doc = 0 \/ x.doc < p.doc
  /\ x.kind = "navigating" /\ y.kind = "state" => x.nonce # y.nonce
Line(p, q) == \A i, j \in 1 .. Len(q) : i < j => Before(p, q[i], q[j])
Sooner(x, y) == x.kind = "attach" /\ y.kind = "attach" => x.nonce < y.nonce
Rising(a) == \A i, j \in 1 .. Len(a) : i < j => Sooner(a[i], a[j])

Talk(h, c, p, q, a, D, N) ==
  /\ ListKnown(h, c, D, N) /\ PageKnown(h, c, p, D, N)
  /\ \A m \in Elems(q) : Said(h, c, p, D, N, m)
  /\ \A x \in Elems(a) : Bid(c, p, N, Elems(q), x)
  /\ Line(p, q) /\ Rising(a)

LEMMA OfOne ==
  ASSUME NEW T, NEW s \in Seq(T), NEW m \in Elems(s)
  PROVE  m \in T
BY DEF Elems

LEMMA ElemsAdded ==
  ASSUME NEW T, NEW s \in Seq(T), NEW e \in T
  PROVE  /\ Append(s, e) \in Seq(T) /\ Len(Append(s, e)) = Len(s) + 1 /\ Len(s) \in Nat
         /\ \A i \in 1 .. Len(s) : Append(s, e)[i] = s[i]
         /\ Append(s, e)[Len(s) + 1] = e
         /\ Elems(Append(s, e)) = Elems(s) \cup {e}
<1>1. /\ Append(s, e) \in Seq(T) /\ Len(Append(s, e)) = Len(s) + 1 /\ Len(s) \in Nat
      /\ \A i \in 1 .. Len(s) : Append(s, e)[i] = s[i]
      /\ Append(s, e)[Len(s) + 1] = e
  OBVIOUS
<1> DEFINE t == Append(s, e)
           n == Len(s)
<1>2. /\ Len(t) = n + 1 /\ n \in Nat /\ \A i \in 1 .. n : t[i] = s[i]
      /\ t[n + 1] = e
  BY <1>1
<1> HIDE DEF t
<1>3. Elems(t) = Elems(s) \cup {e}
  <2>1. ASSUME NEW x \in Elems(t) PROVE x \in Elems(s) \cup {e}
    <3>1. PICK i \in 1 .. Len(t) : x = t[i]
      BY DEF Elems
    <3>2. CASE i \in 1 .. n
      BY <3>1, <3>2, <1>2 DEF Elems
    <3>3. CASE i = n + 1
      BY <3>1, <3>3, <1>2
    <3> QED BY <3>2, <3>3, <1>2
  <2>2. ASSUME NEW x \in Elems(s) PROVE x \in Elems(t)
    <3>1. PICK i \in 1 .. n : x = s[i]
      BY DEF Elems
    <3>2. i \in 1 .. Len(t) /\ x = t[i]
      BY <3>1, <1>2
    <3> QED BY <3>2 DEF Elems
  <2>3. e \in Elems(t)
    <3>1. n + 1 \in 1 .. Len(t)
      BY <1>2
    <3> QED BY <3>1, <1>2 DEF Elems
  <2> QED BY <2>1, <2>2, <2>3
<1> QED BY <1>1, <1>3 DEF t

LEMMA ElemsLeft ==
  ASSUME NEW T, NEW s \in Seq(T), s # <<>>
  PROVE  /\ Tail(s) \in Seq(T) /\ Len(Tail(s)) = Len(s) - 1 /\ Len(s) \in Nat /\ Len(s) >= 1
         /\ \A i \in 1 .. Len(s) - 1 : Tail(s)[i] = s[i + 1]
         /\ Elems(Tail(s)) \subseteq Elems(s)
         /\ Head(s) = s[1] /\ Head(s) \in T /\ Head(s) \in Elems(s)
<1>1. /\ Tail(s) \in Seq(T) /\ Len(Tail(s)) = Len(s) - 1 /\ Len(s) \in Nat /\ Len(s) >= 1
      /\ \A i \in 1 .. Len(s) - 1 : Tail(s)[i] = s[i + 1]
      /\ Head(s) = s[1] /\ Head(s) \in T
  OBVIOUS
<1> DEFINE t == Tail(s)
           n == Len(s)
<1>2. Len(t) = n - 1 /\ n \in Nat /\ n >= 1 /\ \A i \in 1 .. n - 1 : t[i] = s[i + 1]
  BY <1>1
<1> HIDE DEF t
<1>3. Elems(t) \subseteq Elems(s)
  <2> SUFFICES ASSUME NEW x \in Elems(t) PROVE x \in Elems(s)
    OBVIOUS
  <2>1. PICK i \in 1 .. Len(t) : x = t[i]
    BY DEF Elems
  <2>2. i + 1 \in 1 .. n /\ x = s[i + 1]
    BY <2>1, <1>2
  <2> QED BY <2>2 DEF Elems
<1>4. s[1] \in Elems(s)
  <2>1. 1 \in 1 .. Len(s)
    BY <1>2
  <2> QED BY <2>1 DEF Elems
<1> QED BY <1>1, <1>3, <1>4 DEF t

LEMMA LineAdded ==
  ASSUME NEW p, NEW q \in Seq(Messages), NEW x \in Messages, Line(p, q),
         \A m \in Elems(q) : Before(p, m, x)
  PROVE  Line(p, Append(q, x))
<1> DEFINE t == Append(q, x)
           n == Len(q)
<1>1. Len(t) = n + 1 /\ n \in Nat /\ (\A i \in 1 .. n : t[i] = q[i]) /\ t[n + 1] = x
  BY ElemsAdded
<1> HIDE DEF t
<1>2. ASSUME NEW i \in 1 .. Len(t), NEW j \in 1 .. Len(t), i < j PROVE Before(p, t[i], t[j])
  <2>1. i \in 1 .. n /\ t[i] = q[i]
    BY <1>1, <1>2
  <2>2. CASE j = n + 1
    <3>1. q[i] \in Elems(q)
      BY <2>1 DEF Elems
    <3> QED BY <1>1, <2>1, <2>2, <3>1
  <2>3. CASE j # n + 1
    <3>1. j \in 1 .. n /\ t[j] = q[j]
      BY <1>1, <2>3
    <3> QED BY <1>2, <2>1, <3>1 DEF Line
  <2> QED BY <2>2, <2>3
<1>3. Line(p, t)
  BY <1>2 DEF Line
<1> QED BY <1>3 DEF t

LEMMA LineLeft ==
  ASSUME NEW p, NEW q \in Seq(Messages), q # <<>>, Line(p, q)
  PROVE  Line(p, Tail(q)) /\ \A m \in Elems(Tail(q)) : Before(p, Head(q), m)
<1> DEFINE t == Tail(q)
           n == Len(q)
<1>1. Len(t) = n - 1 /\ n \in Nat /\ n >= 1 /\ (\A i \in 1 .. n - 1 : t[i] = q[i + 1]) /\ Head(q) = q[1]
  BY ElemsLeft
<1> HIDE DEF t
<1>2. ASSUME NEW i \in 1 .. Len(t), NEW j \in 1 .. Len(t), i < j PROVE Before(p, t[i], t[j])
  <2>1. i + 1 \in 1 .. n /\ j + 1 \in 1 .. n /\ i + 1 < j + 1 /\ t[i] = q[i + 1] /\ t[j] = q[j + 1]
    BY <1>1, <1>2
  <2> QED BY <2>1 DEF Line
<1>3. ASSUME NEW m \in Elems(t) PROVE Before(p, q[1], m)
  <2>1. PICK i \in 1 .. Len(t) : m = t[i]
    BY DEF Elems
  <2>2. i + 1 \in 1 .. n /\ 1 \in 1 .. n /\ 1 < i + 1 /\ m = q[i + 1]
    BY <1>1, <2>1
  <2> QED BY <2>2 DEF Line
<1>4. Line(p, t) /\ \A m \in Elems(t) : Before(p, Head(q), m)
  BY <1>1, <1>2, <1>3 DEF Line
<1> QED BY <1>4 DEF t

LEMMA RisingAdded ==
  ASSUME NEW a \in Seq(Requested), NEW x \in Requested, Rising(a),
         \A m \in Elems(a) : Sooner(m, x)
  PROVE  Rising(Append(a, x))
<1> DEFINE t == Append(a, x)
           n == Len(a)
<1>1. Len(t) = n + 1 /\ n \in Nat /\ (\A i \in 1 .. n : t[i] = a[i]) /\ t[n + 1] = x
  BY ElemsAdded
<1> HIDE DEF t
<1>2. ASSUME NEW i \in 1 .. Len(t), NEW j \in 1 .. Len(t), i < j PROVE Sooner(t[i], t[j])
  <2>1. i \in 1 .. n /\ t[i] = a[i]
    BY <1>1, <1>2
  <2>2. CASE j = n + 1
    <3>1. a[i] \in Elems(a)
      BY <2>1 DEF Elems
    <3> QED BY <1>1, <2>1, <2>2, <3>1
  <2>3. CASE j # n + 1
    <3>1. j \in 1 .. n /\ t[j] = a[j]
      BY <1>1, <2>3
    <3> QED BY <1>2, <2>1, <3>1 DEF Rising
  <2> QED BY <2>2, <2>3
<1>3. Rising(t)
  BY <1>2 DEF Rising
<1> QED BY <1>3 DEF t

LEMMA RisingLeft ==
  ASSUME NEW a \in Seq(Requested), a # <<>>, Rising(a)
  PROVE  Rising(Tail(a)) /\ \A m \in Elems(Tail(a)) : Sooner(Head(a), m)
<1> DEFINE t == Tail(a)
           n == Len(a)
<1>1. Len(t) = n - 1 /\ n \in Nat /\ n >= 1 /\ (\A i \in 1 .. n - 1 : t[i] = a[i + 1]) /\ Head(a) = a[1]
  BY ElemsLeft
<1> HIDE DEF t
<1>2. ASSUME NEW i \in 1 .. Len(t), NEW j \in 1 .. Len(t), i < j PROVE Sooner(t[i], t[j])
  <2>1. i + 1 \in 1 .. n /\ j + 1 \in 1 .. n /\ i + 1 < j + 1 /\ t[i] = a[i + 1] /\ t[j] = a[j + 1]
    BY <1>1, <1>2
  <2> QED BY <2>1 DEF Rising
<1>3. ASSUME NEW m \in Elems(t) PROVE Sooner(a[1], m)
  <2>1. PICK i \in 1 .. Len(t) : m = t[i]
    BY DEF Elems
  <2>2. i + 1 \in 1 .. n /\ 1 \in 1 .. n /\ 1 < i + 1 /\ m = a[i + 1]
    BY <1>1, <2>1
  <2> QED BY <2>2 DEF Rising
<1>4. Rising(t) /\ \A m \in Elems(t) : Sooner(Head(a), m)
  BY <1>1, <1>2, <1>3 DEF Rising
<1> QED BY <1>4 DEF t

\* Requests for a traversal, added to those for the page, change nothing.
LEMMA TraversesAdded ==
  ASSUME NEW a \in Seq(Requested), NEW b \in Seq(Traverses), Rising(a)
  PROVE  /\ a \o b \in Seq(Requested) /\ Rising(a \o b)
         /\ \A x \in Elems(a \o b) : x \in Elems(a) \/ x.kind # "attach"
<1> DEFINE t == a \o b
           n == Len(a)
           k == Len(b)
<1>1. b \in Seq(Requested)
  BY DEF Requested
<1>2. t \in Seq(Requested) /\ Len(t) = n + k /\ n \in Nat /\ k \in Nat
  BY <1>1
<1>3. \A i \in 1 .. n + k : t[i] = IF i <= n THEN a[i] ELSE b[i - n]
  BY <1>1
<1>4. \A i \in 1 .. k : b[i].kind # "attach"
  <2> SUFFICES ASSUME NEW i \in 1 .. k PROVE b[i].kind # "attach"
    OBVIOUS
  <2>1. b[i] \in Traverses
    OBVIOUS
  <2> QED BY ONLY <2>1 DEF Traverses
<1> HIDE DEF t, k
<1>5. ASSUME NEW i \in 1 .. Len(t) PROVE (i <= n /\ i \in 1 .. n /\ t[i] = a[i]) \/ t[i].kind # "attach"
  <2>1. CASE i <= n
    BY <1>2, <1>3, <2>1
  <2>2. CASE ~(i <= n)
    <3>1. i - n \in 1 .. k /\ t[i] = b[i - n]
      BY <1>2, <1>3, <2>2
    <3> QED BY <3>1, <1>4
  <2> QED BY <2>1, <2>2
<1>6. Rising(t)
  <2> SUFFICES ASSUME NEW i \in 1 .. Len(t), NEW j \in 1 .. Len(t), i < j PROVE Sooner(t[i], t[j])
    BY DEF Rising
  <2>1. CASE i \in 1 .. n /\ j \in 1 .. n /\ t[i] = a[i] /\ t[j] = a[j]
    BY <2>1 DEF Rising
  <2>2. CASE t[i].kind # "attach" \/ t[j].kind # "attach"
    BY <2>2 DEF Sooner
  <2> QED BY <2>1, <2>2, <1>5
<1>7. ASSUME NEW x \in Elems(t) PROVE x \in Elems(a) \/ x.kind # "attach"
  <2>1. PICK i \in 1 .. Len(t) : x = t[i]
    BY DEF Elems
  <2> QED BY <2>1, <1>5 DEF Elems
<1> QED BY <1>2, <1>6, <1>7 DEF t

\* What is opened goes after what is under way.
LEMMA OpeningsAdded ==
  ASSUME NEW o \in Seq(Openings), NEW b \in Seq(Openings)
  PROVE  o \o b \in Seq(Openings) /\ Elems(o \o b) = Elems(o) \cup Elems(b)
<1> DEFINE t == o \o b
           n == Len(o)
           k == Len(b)
<1>1. t \in Seq(Openings) /\ Len(t) = n + k /\ n \in Nat /\ k \in Nat
  OBVIOUS
<1>2. \A i \in 1 .. n + k : t[i] = IF i <= n THEN o[i] ELSE b[i - n]
  OBVIOUS
<1> HIDE DEF t
<1>3. ASSUME NEW x \in Elems(t) PROVE x \in Elems(o) \cup Elems(b)
  <2>1. PICK i \in 1 .. Len(t) : x = t[i]
    BY DEF Elems
  <2>2. CASE i <= n
    <3>1. i \in 1 .. n /\ x = o[i]
      BY <1>1, <1>2, <2>1, <2>2
    <3> QED BY <3>1 DEF Elems
  <2>3. CASE ~(i <= n)
    <3>1. i - n \in 1 .. k /\ x = b[i - n]
      BY <1>1, <1>2, <2>1, <2>3
    <3> QED BY <3>1 DEF Elems
  <2> QED BY <2>2, <2>3
<1>4. ASSUME NEW x \in Elems(o) PROVE x \in Elems(t)
  <2>1. PICK i \in 1 .. n : x = o[i]
    BY DEF Elems
  <2>2. i \in 1 .. Len(t) /\ x = t[i]
    BY <1>1, <1>2, <2>1
  <2> QED BY <2>2 DEF Elems
<1>5. ASSUME NEW x \in Elems(b) PROVE x \in Elems(t)
  <2>1. PICK i \in 1 .. k : x = b[i]
    BY DEF Elems
  <2>2. n + i \in 1 .. Len(t) /\ ~(n + i <= n) /\ (n + i) - n = i
    BY <1>1, <2>1
  <2>3. x = t[n + i]
    BY <1>1, <1>2, <2>1, <2>2
  <2> QED BY <2>2, <2>3 DEF Elems
<1> QED BY <1>1, <1>3, <1>4, <1>5 DEF t

-----------------------------------------------------------------------------
(* What is known stays known: of the toolbar, when an operation of it      *)
(* leaves the reports alone, ...                                           *)
Knows(h, c, p, D, N) ==
  /\ h \in Toolbars /\ c \in Controllers /\ p \in Pages /\ D \in Nat /\ N \in Nat

LEMMA NewsKept ==
  ASSUME NEW h \in Toolbars, NEW g \in Toolbars, NEW c, NEW d, Grown(h, g), d.journal = c.journal,
         NEW s, s.doc \in Nat, News(h, c, s)
  PROVE  News(g, d, s)
<1>1. CASE c.journal # Nil
  BY <1>1 DEF News
<1>2. CASE c.journal = Nil
  <2>1. h.key[1] < s.doc /\ \A i \in 1 .. Len(h.list) : h.list[i].doc < s.doc
    BY <1>2 DEF News
  <2>2. g.key[1] < s.doc
    BY <2>1 DEF Grown
  <2>3. ASSUME NEW i \in 1 .. Len(g.list) PROVE g.list[i].doc < s.doc
    <3>1. CASE g.list[i].doc < 0
      <4>1. g.list[i] \in Slots
        BY DEF Toolbars
      <4>2. g.list[i].doc \in Int
        BY <4>1 DEF Slots
      <4> QED BY <3>1, <4>2
    <3>2. CASE \E j \in 1 .. Len(h.list) : g.list[i] = h.list[j]
      BY <2>1, <3>2
    <3> QED BY <3>1, <3>2 DEF Grown
  <2> QED BY <1>2, <2>2, <2>3 DEF News
<1> QED BY <1>1, <1>2

LEMMA TalkKept ==
  ASSUME NEW h, NEW c, NEW p, NEW D, NEW N, Knows(h, c, p, D, N), NEW g \in Toolbars, NEW d \in Controllers,
         Grown(h, g), Quiet(c, d), NEW q \in Seq(Messages), NEW a \in Seq(Requested),
         Talk(h, c, p, q, a, D, N), NEW r \in Seq(Messages), Elems(r) \subseteq Elems(q), Line(p, r),
         NEW b \in Seq(Traverses)
  PROVE  Talk(g, d, p, r, a \o b, D, N)
<1>1. /\ d.journal = c.journal /\ d.loading = c.loading /\ d.nonce = c.nonce
  BY DEF Quiet, SameView
<1>2. Busy(d) = Busy(c)
  BY <1>1 DEF Busy
<1>3. /\ ListKnown(h, c, D, N) /\ PageKnown(h, c, p, D, N)
      /\ \A m \in Elems(q) : Said(h, c, p, D, N, m)
      /\ \A x \in Elems(a) : Bid(c, p, N, Elems(q), x)
      /\ Rising(a)
  BY DEF Talk
<1>4. ListKnown(g, d, D, N)
  <2>1. \A i \in 1 .. Len(g.list) : g.list[i].doc <= D
    <3> SUFFICES ASSUME NEW i \in 1 .. Len(g.list) PROVE g.list[i].doc <= D
      OBVIOUS
    <3>1. CASE g.list[i].doc < 0
      <4>1. g.list[i] \in Slots
        BY DEF Toolbars
      <4>2. g.list[i].doc \in Int
        BY <4>1 DEF Slots
      <4> QED BY <3>1, <4>2 DEF Knows
    <3>2. CASE \E j \in 1 .. Len(h.list) : g.list[i] = h.list[j]
      BY <1>3, <3>2 DEF ListKnown
    <3> QED BY <3>1, <3>2 DEF Grown
  <2>2. g.key[1] <= D
    BY <1>3 DEF ListKnown, Grown
  <2> QED BY <1>1, <1>3, <2>1, <2>2 DEF ListKnown
<1>5. PageKnown(g, d, p, D, N)
  <2>1. p.doc \in Nat
    BY DEF Knows, Pages
  <2>2. p.doc # 0 => News(g, d, p)
    BY <1>1, <1>3, <2>1, NewsKept DEF Knows, PageKnown
  <2> QED BY <1>1, <1>2, <1>3, <2>2 DEF PageKnown
<1>6. ASSUME NEW m \in Elems(r) PROVE Said(g, d, p, D, N, m)
  <2>1. Said(h, c, p, D, N, m)
    BY <1>3
  <2>2. m \in Messages
    BY OfOne
  <2>3. m.kind = "state" => News(g, d, m)
    <3> SUFFICES ASSUME m.kind = "state" PROVE News(g, d, m)
      OBVIOUS
    <3>1. m \in Reports
      BY <2>2 DEF Messages, Readies, Departures, Others
    <3>2. m.doc \in Nat
      BY <3>1 DEF Reports
    <3> QED BY <1>1, <2>1, <3>2, NewsKept DEF Knows, Said
  <2> QED BY <1>1, <1>2, <2>1, <2>3 DEF Said
<1>7. /\ a \o b \in Seq(Requested) /\ Rising(a \o b)
      /\ \A x \in Elems(a \o b) : x \in Elems(a) \/ x.kind # "attach"
  BY <1>3, TraversesAdded
<1>8. ASSUME NEW x \in Elems(a \o b) PROVE Bid(d, p, N, Elems(r), x)
  <2>1. CASE x \in Elems(a)
    BY <1>1, <1>2, <1>3, <2>1 DEF Bid
  <2>2. CASE x.kind # "attach"
    BY <2>2 DEF Bid
  <2> QED BY <1>7, <2>1, <2>2
<1> QED BY <1>4, <1>5, <1>6, <1>7, <1>8 DEF Talk

\* ... and when the toolbar hears a report of the shown document.
LEMMA TalkAfterReport ==
  ASSUME NEW h, NEW c, NEW p, NEW D, NEW N, Knows(h, c, p, D, N), NEW g \in Toolbars, NEW d \in Controllers,
         NEW q \in Seq(Messages), NEW a \in Seq(Requested), q # <<>>, Talk(h, c, p, q, a, D, N),
         Head(q).kind = "state", ~d.loading, d.nonce = c.nonce, d.journal # Nil,
         d.journal = [doc |-> Head(q).doc, seq |-> Head(q).seq, entries |-> Head(q).entries, index |-> Head(q).index],
         Whole(g, d)
  PROVE  Talk(g, d, p, Tail(q), a, D, N)
<1> DEFINE m == Head(q)
           J == d.journal
<1>1. /\ Tail(q) \in Seq(Messages) /\ Elems(Tail(q)) \subseteq Elems(q) /\ m \in Messages /\ m \in Elems(q)
  BY ElemsLeft
<1>2. Line(p, Tail(q)) /\ \A x \in Elems(Tail(q)) : Before(p, m, x)
  BY LineLeft DEF Talk
<1>3. /\ ListKnown(h, c, D, N) /\ PageKnown(h, c, p, D, N)
      /\ \A x \in Elems(q) : Said(h, c, p, D, N, x)
      /\ \A x \in Elems(a) : Bid(c, p, N, Elems(q), x)
      /\ Rising(a)
  BY DEF Talk
<1>4. J.doc = m.doc /\ J.seq = m.seq /\ J.entries = m.entries /\ J.index = m.index
  OBVIOUS
<1>5. Said(h, c, p, D, N, m)
  BY <1>1, <1>3
<1>6. m \in Reports
  BY <1>1 DEF Messages, Readies, Departures, Others
<1>7. m.doc \in Nat /\ m.doc <= D
  BY <1>5, <1>6 DEF Said, Reports
<1> HIDE DEF m
<1>8. ~Busy(d)
  BY DEF Busy
<1>9. \A s : Older(m, s) => News(g, d, s)
  BY <1>4 DEF News, Older
<1>10. ListKnown(g, d, D, N)
  <2>1. \A i \in 1 .. Len(g.list) : g.list[i].doc <= D
    <3> SUFFICES ASSUME NEW i \in 1 .. Len(g.list) PROVE g.list[i].doc <= D
      OBVIOUS
    <3>1. g.list[i].doc <= m.doc
      BY <1>4 DEF Whole
    <3>2. g.list[i] \in Slots
      BY DEF Toolbars
    <3>3. g.list[i].doc \in Int
      BY <3>2 DEF Slots
    <3> QED BY <3>1, <3>3, <1>7 DEF Knows
  <2>2. g.key[1] <= D
    <3>1. g.key[1] <= m.doc
      BY <1>4 DEF Whole
    <3>2. g.key[1] \in Nat
      BY DEF Toolbars
    <3> QED BY <3>1, <3>2, <1>7 DEF Knows
  <2> QED BY <1>3, <1>4, <1>7, <2>1, <2>2 DEF ListKnown
<1>11. PageKnown(g, d, p, D, N)
  BY <1>3, <1>5, <1>8, <1>9, <1>6 DEF PageKnown, Said, m
<1>12. ASSUME NEW x \in Elems(Tail(q)) PROVE Said(g, d, p, D, N, x)
  <2>1. Said(h, c, p, D, N, x)
    BY <1>1, <1>3
  <2>2. Before(p, m, x) /\ m.kind = "state"
    BY <1>2 DEF m
  <2>3. x.kind = "state" => News(g, d, x)
    BY <1>9, <2>2 DEF Before
  <2>4. x.kind = "ready" => p.doc = 0 \/ J.doc < p.doc
    BY <1>4, <2>2 DEF Before
  <2> QED BY <1>8, <2>1, <2>3, <2>4 DEF Said
<1>13. ASSUME NEW x \in Elems(a) PROVE Bid(d, p, N, Elems(Tail(q)), x)
  BY <1>1, <1>3, <1>8 DEF Bid
<1> QED BY <1>2, <1>3, <1>10, <1>11, <1>12, <1>13 DEF Talk

\* The document says it leaves: what comes with its nonce comes no more.
LEMMA TalkAfterDeparture ==
  ASSUME NEW h, NEW c, NEW p, NEW D, NEW N, Knows(h, c, p, D, N), NEW g \in Toolbars, NEW d \in Controllers,
         NEW q \in Seq(Messages), NEW a \in Seq(Requested), q # <<>>, Talk(h, c, p, q, a, D, N),
         Head(q).kind = "navigating", Head(q).nonce = c.nonce, d.nonce = c.nonce, d.journal = c.journal,
         g.list = h.list, g.key = h.key
  PROVE  Talk(g, d, p, Tail(q), a, D, N)
<1> DEFINE m == Head(q)
<1>1. /\ Tail(q) \in Seq(Messages) /\ Elems(Tail(q)) \subseteq Elems(q) /\ m \in Messages /\ m \in Elems(q)
  BY ElemsLeft
<1>2. Line(p, Tail(q)) /\ \A x \in Elems(Tail(q)) : Before(p, m, x)
  BY LineLeft DEF Talk
<1>3. /\ ListKnown(h, c, D, N) /\ PageKnown(h, c, p, D, N)
      /\ \A x \in Elems(q) : Said(h, c, p, D, N, x)
      /\ \A x \in Elems(a) : Bid(c, p, N, Elems(q), x)
      /\ Rising(a)
  BY DEF Talk
<1>4. Said(h, c, p, D, N, m)
  BY <1>1, <1>3
<1>5. m.kind = "navigating" /\ m.nonce = c.nonce /\ p.nonce # c.nonce
  BY <1>4 DEF Said
<1> HIDE DEF m
<1>6. \A s : News(h, c, s) => News(g, d, s)
  BY DEF News
<1>7. ListKnown(g, d, D, N)
  BY <1>3 DEF ListKnown
<1>8. PageKnown(g, d, p, D, N)
  BY <1>3, <1>5, <1>6 DEF PageKnown
<1>9. ASSUME NEW x \in Elems(Tail(q)) PROVE Said(g, d, p, D, N, x)
  <2>1. Said(h, c, p, D, N, x)
    BY <1>1, <1>3
  <2>2. Before(p, m, x)
    BY <1>2
  <2>3. x.kind = "state" => x.nonce # d.nonce
    BY <1>5, <2>2 DEF Before
  <2> QED BY <1>6, <2>1, <2>3 DEF Said
<1>10. ASSUME NEW x \in Elems(a) PROVE Bid(d, p, N, Elems(Tail(q)), x)
  <2>1. Bid(c, p, N, Elems(q), x)
    BY <1>3
  <2>2. x.kind = "attach" => x.nonce # d.nonce
    <3> SUFFICES ASSUME x.kind = "attach" PROVE x.nonce # d.nonce
      OBVIOUS
    <3>1. Speaks(m)
      BY <1>5 DEF Speaks
    <3>2. c.nonce < x.nonce
      BY <1>1, <1>5, <2>1, <3>1 DEF Bid
    <3>3. c.nonce \in Nat
      BY DEF Knows, Controllers
    <3> QED BY <3>2, <3>3
  <2> QED BY <1>1, <2>1, <2>2 DEF Bid
<1> QED BY <1>2, <1>3, <1>7, <1>8, <1>9, <1>10 DEF Talk

\* The toolbar attaches to the document that is ready, with a new nonce.
LEMMA TalkAfterAttach ==
  ASSUME NEW h, NEW c, NEW p, NEW D, NEW N, Knows(h, c, p, D, N), NEW g \in Toolbars, NEW d \in Controllers,
         NEW q \in Seq(Messages), NEW a \in Seq(Requested), q # <<>>, Talk(h, c, p, q, a, D, N),
         Head(q).kind = "ready", d.nonce = N + 1, d.journal = c.journal,
         g.list = h.list, g.key = h.key, NEW x \in Attaches, x.nonce = N + 1
  PROVE  Talk(g, d, p, Tail(q), Append(a, x), D, N + 1)
<1> DEFINE m == Head(q)
<1>1. /\ Tail(q) \in Seq(Messages) /\ Elems(Tail(q)) \subseteq Elems(q) /\ m \in Messages /\ m \in Elems(q)
  BY ElemsLeft
<1>2. Line(p, Tail(q))
  BY LineLeft DEF Talk
<1>3. /\ ListKnown(h, c, D, N) /\ PageKnown(h, c, p, D, N)
      /\ \A y \in Elems(q) : Said(h, c, p, D, N, y)
      /\ \A y \in Elems(a) : Bid(c, p, N, Elems(q), y)
      /\ Rising(a)
  BY DEF Talk
<1>4. d.journal # Nil => p.doc = 0 \/ d.journal.doc < p.doc
  <2>1. Said(h, c, p, D, N, m) /\ m.kind = "ready"
    BY <1>1, <1>3
  <2> QED BY ONLY <2>1, d.journal = c.journal DEF Said
<1> HIDE DEF m
<1>5. \A s : News(h, c, s) => News(g, d, s)
  BY DEF News
<1>6. N \in Nat /\ p.nonce \in Nat /\ c.nonce \in Nat /\ D \in Nat /\ p.doc \in Nat
  BY DEF Knows, Pages, Controllers
<1>7. ListKnown(g, d, D, N + 1)
  BY <1>3, <1>6 DEF ListKnown
<1>8. PageKnown(g, d, p, D, N + 1)
  BY <1>3, <1>5, <1>6 DEF PageKnown
<1>9. ASSUME NEW y \in Elems(Tail(q)) PROVE Said(g, d, p, D, N + 1, y) /\ (Speaks(y) => y.nonce < N + 1)
  <2>1. Said(h, c, p, D, N, y)
    BY <1>1, <1>3
  <2>2. y \in Messages
    BY <1>1, OfOne
  <2>3. Speaks(y) => y.nonce \in Nat /\ y.nonce <= N
    <3> SUFFICES ASSUME Speaks(y) PROVE y.nonce \in Nat /\ y.nonce <= N
      OBVIOUS
    <3>1. y \in Reports \cup Departures
      BY <2>2 DEF Messages, Reports, Readies, Departures, Others, Speaks
    <3>2. y.nonce \in Nat
      BY <3>1 DEF Reports, Departures
    <3> QED BY <2>1, <3>2 DEF Said, Speaks
  <2>4. Speaks(y) => y.nonce <= N + 1 /\ y.nonce # d.nonce /\ y.nonce < N + 1
    BY <2>3, <1>6
  <2> QED BY <1>4, <1>5, <2>1, <2>4 DEF Said, Speaks
<1>10. Bid(d, p, N + 1, Elems(Tail(q)), x)
  <2>1. x.kind = "attach" /\ N + 1 > p.nonce
    BY <1>3, <1>6 DEF Attaches, PageKnown
  <2>2. Busy(d) => p.doc = 0 \/ p.doc > d.journal.doc
    <3> SUFFICES ASSUME Busy(d) PROVE p.doc = 0 \/ p.doc > d.journal.doc
      OBVIOUS
    <3>1. d.journal # Nil
      BY DEF Busy
    <3> QED BY <1>4, <3>1
  <2> QED BY <1>9, <1>6, <2>1, <2>2 DEF Bid
<1>11. ASSUME NEW y \in Elems(a) PROVE Bid(d, p, N + 1, Elems(Tail(q)), y) /\ Sooner(y, x)
  <2>1. Bid(c, p, N, Elems(q), y)
    BY <1>3
  <2>2. y \in Requested
    BY OfOne
  <2>3. y.kind = "attach" => y.nonce \in Nat /\ y.nonce <= N
    <3> SUFFICES ASSUME y.kind = "attach" PROVE y.nonce \in Nat /\ y.nonce <= N
      OBVIOUS
    <3>1. y \in Attaches
      BY <2>2 DEF Requested, Traverses
    <3> QED BY <2>1, <3>1 DEF Attaches, Bid
  <2>4. y.kind = "attach" => y.nonce <= N + 1 /\ y.nonce # d.nonce /\ y.nonce < N + 1
    BY <2>3, <1>6
  <2> QED BY <1>1, <2>1, <2>4 DEF Bid, Sooner
<1>12. Elems(Append(a, x)) = Elems(a) \cup {x} /\ x \in Requested
  <2>1. x \in Requested
    BY DEF Requested
  <2> QED BY <2>1, ElemsAdded
<1>13. Rising(Append(a, x))
  BY <1>3, <1>11, <1>12, RisingAdded
<1> QED BY <1>2, <1>7, <1>8, <1>9, <1>10, <1>11, <1>12, <1>13 DEF Talk

-----------------------------------------------------------------------------
(* What the page does.                                                     *)
\* Its journal changes, ...
LEMMA TalkAfterChange ==
  ASSUME NEW h, NEW c, NEW p, NEW D, NEW N, Knows(h, c, p, D, N),
         NEW q \in Seq(Messages), NEW a \in Seq(Requested), Talk(h, c, p, q, a, D, N), p.doc # 0,
         NEW k \in Pages, k.doc = p.doc, k.nonce = p.nonce, AtAnEntry(k), k.seq > p.seq
  PROVE  Talk(h, c, k, q, a, D, N)
<1>1. /\ ListKnown(h, c, D, N) /\ PageKnown(h, c, p, D, N)
      /\ \A m \in Elems(q) : Said(h, c, p, D, N, m)
      /\ \A x \in Elems(a) : Bid(c, p, N, Elems(q), x)
      /\ Line(p, q) /\ Rising(a)
  BY DEF Talk
<1>2. p.doc \in Nat /\ p.seq \in Nat /\ k.seq \in Nat
  BY DEF Knows, Pages
<1>3. \A s : s.doc \in Nat /\ s.seq \in Nat /\ Older(s, p) => Older(s, k)
  BY <1>2 DEF Older
<1>4. News(h, c, k)
  <2>1. News(h, c, p)
    BY <1>1 DEF PageKnown
  <2>2. CASE c.journal # Nil
    <3>1. c.journal.doc \in Nat /\ c.journal.seq \in Nat
      BY <2>2 DEF Knows, Controllers, Journals
    <3> QED BY <1>3, <2>1, <2>2, <3>1 DEF News
  <2>3. CASE c.journal = Nil
    BY <2>1, <2>3 DEF News
  <2> QED BY <2>2, <2>3
<1>5. PageKnown(h, c, k, D, N)
  BY <1>1, <1>4 DEF PageKnown
<1>6. ASSUME NEW m \in Elems(q) PROVE Said(h, c, k, D, N, m)
  <2>1. Said(h, c, p, D, N, m)
    BY <1>1
  <2>2. m \in Messages
    BY OfOne
  <2>3. m.kind = "state" => Older(m, k)
    <3> SUFFICES ASSUME m.kind = "state" PROVE Older(m, k)
      OBVIOUS
    <3>1. m \in Reports
      BY <2>2 DEF Messages, Readies, Departures, Others
    <3>2. m.doc \in Nat /\ m.seq \in Nat
      BY <3>1 DEF Reports
    <3> QED BY <1>3, <2>1, <3>2 DEF Said
  <2> QED BY <2>1, <2>3 DEF Said
<1>7. ASSUME NEW x \in Elems(a) PROVE Bid(c, k, N, Elems(q), x)
  BY <1>1 DEF Bid
<1>8. Line(k, q)
  BY <1>1 DEF Line, Before
<1> QED BY <1>1, <1>5, <1>6, <1>7, <1>8 DEF Talk

\* ... it hears of a toolbar that has attached, ...
LEMMA TalkAfterSync ==
  ASSUME NEW h, NEW c, NEW p, NEW D, NEW N, Knows(h, c, p, D, N),
         NEW q \in Seq(Messages), NEW a \in Seq(Requested), Talk(h, c, p, q, a, D, N), p.doc # 0,
         a # <<>>, Head(a).kind = "attach",
         NEW k \in Pages, k.doc = p.doc, k.nonce = Head(a).nonce, k.seq = p.seq, k.entries = p.entries,
         k.index = p.index
  PROVE  Talk(h, c, k, q, Tail(a), D, N)
<1> DEFINE x == Head(a)
<1>1. /\ ListKnown(h, c, D, N) /\ PageKnown(h, c, p, D, N)
      /\ \A m \in Elems(q) : Said(h, c, p, D, N, m)
      /\ \A y \in Elems(a) : Bid(c, p, N, Elems(q), y)
      /\ Line(p, q) /\ Rising(a)
  BY DEF Talk
<1>2. /\ Tail(a) \in Seq(Requested) /\ Elems(Tail(a)) \subseteq Elems(a) /\ x \in Elems(a)
  BY ElemsLeft
<1>3. Rising(Tail(a)) /\ \A y \in Elems(Tail(a)) : Sooner(x, y)
  BY <1>1, RisingLeft
<1>4. Bid(c, p, N, Elems(q), x) /\ x.kind = "attach" /\ k.nonce = x.nonce
  BY <1>1, <1>2
<1> HIDE DEF x
<1>5. /\ k.nonce <= N /\ k.nonce > p.nonce
      /\ \A m \in Elems(q) : Speaks(m) => m.nonce < k.nonce
      /\ Busy(c) /\ k.nonce = c.nonce => p.doc = 0 \/ p.doc > c.journal.doc
  BY <1>4 DEF Bid
<1>6. \A s : Older(s, p) => Older(s, k)
  BY DEF Older
<1>7. News(h, c, k)
  BY <1>1, <1>6 DEF News, PageKnown
<1>8. PageKnown(h, c, k, D, N)
  BY <1>1, <1>5, <1>7 DEF PageKnown, AtAnEntry
<1>9. ASSUME NEW m \in Elems(q) PROVE Said(h, c, k, D, N, m)
  <2>1. Said(h, c, p, D, N, m)
    BY <1>1
  <2>2. m.kind = "navigating" => m.nonce # k.nonce
    <3> SUFFICES ASSUME m.kind = "navigating", m.nonce = k.nonce PROVE FALSE
      OBVIOUS
    <3>1. k.nonce < k.nonce /\ k.nonce \in Nat
      BY <1>5 DEF Speaks, Pages
    <3> QED BY <3>1
  <2> QED BY <1>6, <2>1, <2>2 DEF Said
<1>10. ASSUME NEW y \in Elems(Tail(a)) PROVE Bid(c, k, N, Elems(q), y)
  <2>1. Bid(c, p, N, Elems(q), y) /\ Sooner(x, y)
    BY <1>1, <1>2, <1>3
  <2>2. y.kind = "attach" => y.nonce > k.nonce
    <3> SUFFICES ASSUME y.kind = "attach" PROVE y.nonce > k.nonce
      OBVIOUS
    <3>1. k.nonce < y.nonce
      BY <1>4, <2>1 DEF Sooner
    <3>2. y \in Requested
      BY <1>2, OfOne
    <3>3. y \in Attaches
      BY <3>2 DEF Requested, Traverses
    <3>4. y.nonce \in Nat /\ k.nonce \in Nat
      BY <3>3 DEF Attaches, Pages
    <3> QED BY <3>1, <3>4
  <2> QED BY <2>1, <2>2 DEF Bid
<1>11. Line(k, q)
  BY <1>1 DEF Line, Before
<1> QED BY <1>1, <1>3, <1>8, <1>9, <1>10, <1>11 DEF Talk

\* ... and reports.
LEMMA TalkReported ==
  ASSUME NEW h, NEW c, NEW p, NEW D, NEW N, Knows(h, c, p, D, N),
         NEW q \in Seq(Messages), NEW a \in Seq(Requested), Talk(h, c, p, q, a, D, N), p.nonce # 0,
         NEW m \in Reports, m.doc = p.doc, m.seq = p.seq, m.entries = p.entries, m.index = p.index,
         m.nonce = p.nonce
  PROVE  Talk(h, c, p, Append(q, m), a, D, N)
<1>1. /\ ListKnown(h, c, D, N) /\ PageKnown(h, c, p, D, N)
      /\ \A x \in Elems(q) : Said(h, c, p, D, N, x)
      /\ \A y \in Elems(a) : Bid(c, p, N, Elems(q), y)
      /\ Line(p, q) /\ Rising(a)
  BY DEF Talk
<1>2. p.doc # 0 /\ p.doc \in {0, D} /\ p.nonce <= N /\ AtAnEntry(p) /\ News(h, c, p)
  BY <1>1 DEF PageKnown
<1>3. m.kind = "state"
  BY DEF Reports
<1>4. m \in Messages /\ Elems(Append(q, m)) = Elems(q) \cup {m}
  <2>1. m \in Messages
    BY DEF Messages
  <2> QED BY <2>1, ElemsAdded
<1>5. News(h, c, m)
  BY <1>2 DEF News, Older
<1>6. Said(h, c, p, D, N, m)
  <2>1. AtAnEntry(m) /\ m.doc # 0 /\ m.doc <= D /\ m.nonce <= N /\ Older(m, p)
    BY <1>2 DEF Knows, AtAnEntry, Older
  <2>2. Busy(c) /\ m.nonce = c.nonce => m.doc > c.journal.doc
    BY <1>1 DEF PageKnown
  <2> QED BY <1>3, <1>5, <2>1, <2>2 DEF Said
<1>7. ASSUME NEW x \in Elems(q) PROVE Before(p, x, m)
  <2>1. Said(h, c, p, D, N, x)
    BY <1>1
  <2>2. x.kind = "state" => Older(x, m)
    BY <1>2, <2>1 DEF Said, Older
  <2>3. x.kind = "navigating" => x.nonce # m.nonce
    BY <2>1 DEF Said
  <2> QED BY <1>3, <2>2, <2>3 DEF Before
<1>8. Line(p, Append(q, m))
  BY <1>1, <1>4, <1>7, LineAdded
<1>9. ASSUME NEW y \in Elems(a) PROVE Bid(c, p, N, Elems(q) \cup {m}, y)
  <2>1. Bid(c, p, N, Elems(q), y)
    BY <1>1
  <2>2. y.kind = "attach" => m.nonce < y.nonce
    <3> SUFFICES ASSUME y.kind = "attach" PROVE m.nonce < y.nonce
      OBVIOUS
    <3>1. y \in Requested
      BY OfOne
    <3>2. y \in Attaches
      BY <3>1 DEF Requested, Traverses
    <3>3. y.nonce \in Nat /\ m.nonce \in Nat /\ p.nonce \in Nat
      BY <3>2 DEF Attaches, Reports, Knows, Pages
    <3>4. y.nonce > p.nonce
      BY <2>1 DEF Bid
    <3> QED BY <3>3, <3>4
  <2> QED BY <2>1, <2>2 DEF Bid
<1> QED BY <1>1, <1>4, <1>6, <1>8, <1>9 DEF Talk

\* It answers a traversal, or asks for one.
LEMMA TalkAnswered ==
  ASSUME NEW h, NEW c, NEW p, NEW D, NEW N, NEW q \in Seq(Messages), NEW a \in Seq(Requested),
         Talk(h, c, p, q, a, D, N), NEW m \in Others
  PROVE  Talk(h, c, p, Append(q, m), a, D, N)
<1>1. /\ ListKnown(h, c, D, N) /\ PageKnown(h, c, p, D, N)
      /\ \A x \in Elems(q) : Said(h, c, p, D, N, x)
      /\ \A y \in Elems(a) : Bid(c, p, N, Elems(q), y)
      /\ Line(p, q) /\ Rising(a)
  BY DEF Talk
<1>2. m.kind \notin {"state", "navigating", "ready"}
  BY DEF Others
<1>3. m \in Messages /\ Elems(Append(q, m)) = Elems(q) \cup {m}
  <2>1. m \in Messages
    BY DEF Messages
  <2> QED BY <2>1, ElemsAdded
<1>4. Said(h, c, p, D, N, m)
  BY <1>2 DEF Said
<1>5. \A x \in Elems(q) : Before(p, x, m)
  BY <1>2 DEF Before
<1>6. Line(p, Append(q, m))
  BY <1>1, <1>3, <1>5, LineAdded
<1>7. ASSUME NEW y \in Elems(a) PROVE Bid(c, p, N, Elems(q) \cup {m}, y)
  BY <1>1, <1>2 DEF Bid, Speaks
<1> QED BY <1>1, <1>3, <1>4, <1>6, <1>7 DEF Talk

\* A new document says that it is ready.
LEMMA TalkLoaded ==
  ASSUME NEW h, NEW c, NEW p, NEW D, NEW N, Knows(h, c, p, D, N),
         NEW q \in Seq(Messages), NEW a \in Seq(Requested), Talk(h, c, p, q, a, D, N), p.doc = 0,
         NEW k \in Pages, k.doc = D + 1, k.nonce = 0, AtAnEntry(k), NEW m \in Readies
  PROVE  Talk(h, c, k, Append(q, m), a, D + 1, N)
<1>1. /\ ListKnown(h, c, D, N) /\ PageKnown(h, c, p, D, N)
      /\ \A x \in Elems(q) : Said(h, c, p, D, N, x)
      /\ \A y \in Elems(a) : Bid(c, p, N, Elems(q), y)
      /\ Line(p, q) /\ Rising(a)
  BY DEF Talk
<1>2. D \in Nat /\ N \in Nat
  BY DEF Knows
<1>3. c.journal # Nil => c.journal.doc \in Nat /\ c.journal.doc <= D
  BY <1>1 DEF Knows, Controllers, Journals, ListKnown
<1>4. \A i \in 1 .. Len(h.list) : h.list[i].doc \in Int /\ h.list[i].doc <= D
  <2> SUFFICES ASSUME NEW i \in 1 .. Len(h.list) PROVE h.list[i].doc \in Int /\ h.list[i].doc <= D
    OBVIOUS
  <2>1. h.list[i] \in Slots
    BY DEF Knows, Toolbars
  <2>2. h.list[i].doc \in Int
    BY <2>1 DEF Slots
  <2> QED BY <2>2, <1>1 DEF ListKnown
<1>5. h.key[1] \in Nat /\ h.key[1] <= D
  BY <1>1 DEF Knows, Toolbars, ListKnown
<1>6. ListKnown(h, c, D + 1, N)
  BY <1>1, <1>2, <1>3, <1>4, <1>5 DEF ListKnown
<1>7. News(h, c, k)
  <2>1. \A i \in 1 .. Len(h.list) : h.list[i].doc < D + 1
    BY <1>2, <1>4
  <2>2. h.key[1] < D + 1
    BY <1>2, <1>5
  <2>3. c.journal # Nil => Older(c.journal, k)
    BY <1>2, <1>3 DEF Older
  <2> QED BY <2>1, <2>2, <2>3 DEF News
<1>8. PageKnown(h, c, k, D + 1, N)
  BY <1>2, <1>7 DEF PageKnown, Busy
<1>9. m.kind = "ready" /\ m \in Messages
  BY DEF Readies, Messages
<1>10. Elems(Append(q, m)) = Elems(q) \cup {m}
  BY <1>9, ElemsAdded
<1>11. Said(h, c, k, D + 1, N, m)
  BY <1>2, <1>3, <1>9 DEF Said
<1>12. ASSUME NEW x \in Elems(q) PROVE Said(h, c, k, D + 1, N, x) /\ (x.kind = "state" => x.doc < k.doc)
  <2>1. Said(h, c, p, D, N, x)
    BY <1>1
  <2>2. x \in Messages
    BY OfOne
  <2>3. x.kind = "state" => x.doc < D + 1 /\ x.doc <= D + 1
    <3> SUFFICES ASSUME x.kind = "state" PROVE x.doc < D + 1 /\ x.doc <= D + 1
      OBVIOUS
    <3>1. x \in Reports
      BY <2>2 DEF Messages, Readies, Departures, Others
    <3>2. x.doc \in Nat /\ x.doc <= D
      BY <2>1, <3>1 DEF Said, Reports
    <3> QED BY <3>2, <1>2
  <2>4. x.kind = "state" => Older(x, k)
    BY <2>3 DEF Older
  <2>5. c.journal # Nil => c.journal.doc < k.doc
    BY <1>2, <1>3
  <2> QED BY <2>1, <2>3, <2>4, <2>5 DEF Said
<1>13. Line(k, q)
  <2> SUFFICES ASSUME NEW i \in 1 .. Len(q), NEW j \in 1 .. Len(q), i < j PROVE Before(k, q[i], q[j])
    BY DEF Line
  <2>1. Before(p, q[i], q[j])
    BY <1>1 DEF Line
  <2>2. q[i] \in Elems(q)
    BY DEF Elems
  <2> QED BY <1>12, <2>1, <2>2 DEF Before
<1>14. \A x \in Elems(q) : Before(k, x, m)
  BY <1>9, <1>12 DEF Before
<1>15. Line(k, Append(q, m))
  BY <1>9, <1>13, <1>14, LineAdded
<1>16. ASSUME NEW y \in Elems(a) PROVE Bid(c, k, N, Elems(q) \cup {m}, y)
  <2>1. Bid(c, p, N, Elems(q), y)
    BY <1>1
  <2>2. y.kind = "attach" => y.nonce > 0
    <3> SUFFICES ASSUME y.kind = "attach" PROVE y.nonce > 0
      OBVIOUS
    <3>1. y \in Requested
      BY OfOne
    <3>2. y \in Attaches
      BY <3>1 DEF Requested, Traverses
    <3>3. y.nonce \in Nat /\ p.nonce \in Nat
      BY <3>2 DEF Attaches, Knows, Pages
    <3> QED BY <2>1, <3>3 DEF Bid
  <2>3. Busy(c) => k.doc > c.journal.doc
    BY <1>2, <1>3 DEF Busy
  <2> QED BY <1>9, <2>1, <2>2, <2>3 DEF Bid, Speaks
<1> QED BY <1>1, <1>6, <1>8, <1>10, <1>11, <1>12, <1>15, <1>16 DEF Talk

\* A document leaves, and says so if the toolbar has attached.
LEMMA TalkLeft ==
  ASSUME NEW h, NEW c, NEW p, NEW D, NEW N, Knows(h, c, p, D, N),
         NEW q \in Seq(Messages), NEW a \in Seq(Requested), Talk(h, c, p, q, a, D, N),
         NEW k \in Pages, k.doc = 0, k.nonce = 0, NEW r,
         \/ r = q
         \/ p.nonce # 0 /\ \E m \in Departures : m.nonce = p.nonce /\ r = Append(q, m)
  PROVE  r \in Seq(Messages) /\ Talk(h, c, k, r, a, D, N)
<1>1. /\ ListKnown(h, c, D, N) /\ PageKnown(h, c, p, D, N)
      /\ \A x \in Elems(q) : Said(h, c, p, D, N, x)
      /\ \A y \in Elems(a) : Bid(c, p, N, Elems(q), y)
      /\ Line(p, q) /\ Rising(a)
  BY DEF Talk
<1>2. N \in Nat /\ p.nonce \in Nat /\ p.nonce <= N /\ c.nonce \in Nat
  BY <1>1 DEF Knows, Pages, Controllers, PageKnown
<1>3. PageKnown(h, c, k, D, N)
  BY <1>2 DEF PageKnown, Busy
<1>4. \A x \in Elems(q) : Said(h, c, k, D, N, x)
  BY <1>1 DEF Said
<1>5. Line(k, q)
  BY <1>1 DEF Line, Before
<1>6. ASSUME NEW y \in Elems(a) PROVE Bid(c, k, N, Elems(q), y) /\ (y.kind = "attach" => y.nonce > p.nonce /\ p.nonce < y.nonce)
  <2>1. Bid(c, p, N, Elems(q), y)
    BY <1>1
  <2>2. y.kind = "attach" => y.nonce \in Nat
    <3> SUFFICES ASSUME y.kind = "attach" PROVE y.nonce \in Nat
      OBVIOUS
    <3>1. y \in Requested
      BY OfOne
    <3>2. y \in Attaches
      BY <3>1 DEF Requested, Traverses
    <3> QED BY <3>2 DEF Attaches
  <2>3. y.kind = "attach" => y.nonce > p.nonce
    BY <2>1 DEF Bid
  <2>4. y.kind = "attach" => y.nonce > 0 /\ p.nonce < y.nonce
    BY <1>2, <2>2, <2>3
  <2> QED BY <2>1, <2>3, <2>4 DEF Bid
<1>7. Talk(h, c, k, q, a, D, N)
  BY <1>1, <1>3, <1>4, <1>5, <1>6 DEF Talk
<1>8. ASSUME p.nonce # 0, NEW m \in Departures, m.nonce = p.nonce
      PROVE  Append(q, m) \in Seq(Messages) /\ Talk(h, c, k, Append(q, m), a, D, N)
  <2>1. m.kind = "navigating" /\ m \in Messages
    BY DEF Departures, Messages
  <2>2. Append(q, m) \in Seq(Messages) /\ Elems(Append(q, m)) = Elems(q) \cup {m}
    BY <2>1, ElemsAdded
  <2>3. Said(h, c, k, D, N, m)
    BY <1>2, <1>8, <2>1 DEF Said
  <2>4. \A x \in Elems(q) : Before(k, x, m)
    BY <2>1 DEF Before
  <2>5. Line(k, Append(q, m))
    BY <1>5, <2>1, <2>4, LineAdded
  <2>6. \A y \in Elems(a) : Bid(c, k, N, Elems(q) \cup {m}, y)
    BY <1>6, <1>8 DEF Bid
  <2> QED BY <1>1, <1>3, <1>4, <2>2, <2>3, <2>5, <2>6 DEF Talk
<1> QED BY <1>7, <1>8

\* It has no use for what the toolbar asks.
LEMMA TalkSkipped ==
  ASSUME NEW h, NEW c, NEW p, NEW D, NEW N, NEW q, NEW a \in Seq(Requested), a # <<>>,
         Talk(h, c, p, q, a, D, N)
  PROVE  Talk(h, c, p, q, Tail(a), D, N)
<1>1. Elems(Tail(a)) \subseteq Elems(a)
  BY ElemsLeft
<1>2. Rising(Tail(a))
  BY RisingLeft DEF Talk
<1> QED BY <1>1, <1>2 DEF Talk

\* Another page is shown: nothing said before is heard.
LEMMA TalkShown ==
  ASSUME NEW h, NEW c, NEW p, NEW D, NEW N, NEW q, NEW a, Talk(h, c, p, q, a, D, N),
         NEW g, g.list = h.list, g.key = h.key, NEW d, d.journal = Nil, d.nonce = 0,
         NEW k, k.doc = 0, k.nonce = 0, N \in Nat
  PROVE  Talk(g, d, k, <<>>, <<>>, D, N)
<1>1. ListKnown(g, d, D, N)
  BY DEF Talk, ListKnown
<1>2. PageKnown(g, d, k, D, N)
  BY DEF PageKnown, Busy
<1>3. Elems(<<>>) = {}
  BY DEF Elems
<1>4. Line(k, <<>>) /\ Rising(<<>>)
  BY DEF Line, Rising
<1> QED BY <1>1, <1>2, <1>3, <1>4 DEF Talk

-----------------------------------------------------------------------------
(* The invariant of the whole.                                             *)
HistoryTypes ==
  /\ hist \in Toolbars /\ ctrl \in Controllers /\ page \in Pages /\ tally \in Counters
  /\ ops \in Seq(Openings) /\ toUI \in Seq(Messages) /\ toPage \in Seq(Requested)
\* A slot is reloaded only in a list that has one.
Placing(h, o) == \A x \in Elems(o) : x.kind = "place" => h.list # <<>>
HistoryInv ==
  /\ HistoryTypes /\ Core(hist, ctrl) /\ Placing(hist, ops)
  /\ Talk(hist, ctrl, page, toUI, toPage, tally.docs, tally.nonces)

LEMMA Known ==
  ASSUME HistoryTypes
  PROVE  /\ Knows(hist, ctrl, page, tally.docs, tally.nonces) /\ tally.asked \in Nat
         /\ tally.visits \in Nat /\ tally.docs \in Nat /\ tally.nonces \in Nat
BY DEF HistoryTypes, Knows, Counters

LEMMA Counted ==
  ASSUME tally \in Counters, NEW field \in {"asked", "moves", "docs", "lost"}, NEW limit, Count(field, limit)
  PROVE  /\ tally' \in Counters /\ tally'.nonces = tally.nonces
         /\ tally'.docs = IF field = "docs" THEN tally.docs + 1 ELSE tally.docs
<1>1. CASE field = "asked"
  BY <1>1 DEF Count, Counters
<1>2. CASE field = "moves"
  BY <1>2 DEF Count, Counters
<1>3. CASE field = "docs"
  BY <1>3 DEF Count, Counters
<1>4. CASE field = "lost"
  BY <1>4 DEF Count, Counters
<1> QED BY <1>1, <1>2, <1>3, <1>4

\* The counters that the messages know.
SameNumbers == tally' \in Counters /\ tally'.docs = tally.docs /\ tally'.nonces = tally.nonces

\* An operation of the toolbar, after which `o` is left of what was opened.
LEMMA Proceeds ==
  ASSUME HistoryInv, SameNumbers, NEW b, Sound(hist, ctrl, b), hist' = b.h, ctrl' = b.c,
         NEW o \in Seq(Openings), Elems(o) \subseteq Elems(ops), ops' = o \o b.opened,
         toPage' = toPage \o b.asks, page' = page,
         toUI' \in Seq(Messages), Elems(toUI') \subseteq Elems(toUI), Line(page, toUI')
  PROVE  HistoryInv'
<1>1. HistoryTypes /\ Core(hist, ctrl) /\ Placing(hist, ops)
      /\ Talk(hist, ctrl, page, toUI, toPage, tally.docs, tally.nonces)
  BY DEF HistoryInv
<1>2. Knows(hist, ctrl, page, tally.docs, tally.nonces)
  BY <1>1, Known
<1>3. /\ b.h \in Toolbars /\ b.c \in Controllers /\ Core(b.h, b.c) /\ Grown(hist, b.h) /\ Quiet(ctrl, b.c)
      /\ b.opened \in Seq(Openings) /\ Places(b) /\ b.asks \in Seq(Traverses)
  BY DEF Sound
<1>4. toUI \in Seq(Messages) /\ toPage \in Seq(Requested)
  BY <1>1 DEF HistoryTypes
<1>5. Talk(b.h, b.c, page, toUI', toPage \o b.asks, tally.docs, tally.nonces)
  BY <1>1, <1>2, <1>3, <1>4, TalkKept
<1>6. toPage \o b.asks \in Seq(Requested)
  BY <1>1, <1>3, <1>4, TraversesAdded DEF Talk
<1>7. o \o b.opened \in Seq(Openings) /\ Elems(o \o b.opened) = Elems(o) \cup Elems(b.opened)
  BY <1>3, OpeningsAdded
<1>8. Placing(b.h, o \o b.opened)
  <2> SUFFICES ASSUME NEW x \in Elems(o \o b.opened), x.kind = "place" PROVE b.h.list # <<>>
    BY DEF Placing
  <2>1. CASE x \in Elems(o)
    BY <1>1, <1>3, <2>1 DEF Placing, Grown
  <2>2. CASE x \in Elems(b.opened)
    BY <1>3, <2>2 DEF Places, Elems
  <2> QED BY <1>7, <2>1, <2>2
<1>9. HistoryTypes'
  BY <1>1, <1>3, <1>6, <1>7 DEF HistoryTypes, SameNumbers
<1> QED BY <1>3, <1>5, <1>8, <1>9 DEF HistoryInv, SameNumbers

\* ... which leaves the messages of the page alone.
LEMMA Becoming ==
  ASSUME HistoryInv, SameNumbers, NEW b, Sound(hist, ctrl, b), Becomes(b), UNCHANGED <<page, toUI>>
  PROVE  HistoryInv'
<1>1. ops \in Seq(Openings) /\ toUI \in Seq(Messages) /\ Line(page, toUI)
  BY DEF HistoryInv, HistoryTypes, Talk
<1> QED BY <1>1, Proceeds DEF Becomes

\* ... or follows one of them.
LEMMA Answering ==
  ASSUME HistoryInv, SameNumbers, NEW b, Sound(hist, ctrl, b), Becomes(b), page' = page,
         toUI # <<>>, toUI' = Tail(toUI)
  PROVE  HistoryInv'
<1>1. ops \in Seq(Openings) /\ toUI \in Seq(Messages) /\ Line(page, toUI)
  BY DEF HistoryInv, HistoryTypes, Talk
<1>2. Tail(toUI) \in Seq(Messages) /\ Elems(Tail(toUI)) \subseteq Elems(toUI) /\ Line(page, Tail(toUI))
  BY <1>1, ElemsLeft, LineLeft
<1> QED BY <1>1, <1>2, Proceeds DEF Becomes

\* Nothing but the notice, the queue and the like.
LEMMA NothingSound ==
  ASSUME NEW h \in Toolbars, NEW c \in Controllers, Core(h, c), NEW g \in Toolbars,
         g.list = h.list, g.key = h.key, g.astray = h.astray, g.position = h.position, g.target = h.target,
         NEW d \in Controllers, Quiet(c, d)
  PROVE  Sound(h, c, Became(g, d, <<>>, <<>>))
<1>1. Returns(h, g)
  BY Unlisted
<1>2. <<>> \in Seq(Traverses)
  OBVIOUS
<1> QED BY <1>1, <1>2, NothingOpened

-----------------------------------------------------------------------------
LEMMA HistoryBegins ==
  ASSUME HistoryInit
  PROVE  HistoryInv
<1>1. PICK list \in Restored : \E position \in DOMAIN list \cup (IF list = <<>> THEN {0} ELSE {}) :
         /\ hist = [list |-> list, position |-> position, queue |-> <<>>, walker |-> "idle",
                    target |-> IF list = <<>> THEN Nil ELSE Target(position, position, 1, list[position].url),
                    gen |-> 0, walkGen |-> 0, key |-> <<0, 0>>, notice |-> FALSE, astray |-> FALSE]
         /\ ctrl = [seq |-> Len(list) \div 2, visit |-> 0, url |-> Nil, loading |-> FALSE, expired |-> FALSE,
                    nonce |-> 0, doc |-> 0, hseq |-> -1, journal |-> Nil, traversal |-> Nil, pending |-> Nil]
         /\ ops = IF list = <<>> THEN <<>> ELSE <<OpenRequest("place", 1, list[position].url, 0, FALSE)>>
  BY DEF HistoryInit
<1>2. PICK position \in DOMAIN list \cup (IF list = <<>> THEN {0} ELSE {}) :
         /\ hist = [list |-> list, position |-> position, queue |-> <<>>, walker |-> "idle",
                    target |-> IF list = <<>> THEN Nil ELSE Target(position, position, 1, list[position].url),
                    gen |-> 0, walkGen |-> 0, key |-> <<0, 0>>, notice |-> FALSE, astray |-> FALSE]
         /\ ctrl = [seq |-> Len(list) \div 2, visit |-> 0, url |-> Nil, loading |-> FALSE, expired |-> FALSE,
                    nonce |-> 0, doc |-> 0, hseq |-> -1, journal |-> Nil, traversal |-> Nil, pending |-> Nil]
         /\ ops = IF list = <<>> THEN <<>> ELSE <<OpenRequest("place", 1, list[position].url, 0, FALSE)>>
  BY <1>1
<1>3. /\ page = [visit |-> 0, url |-> Nil, doc |-> 0, entries |-> <<>>, index |-> 0, seq |-> 0, nonce |-> 0]
      /\ toUI = <<>> /\ toPage = <<>>
      /\ tally = [asked |-> 0, moves |-> 0, docs |-> 0, lost |-> 0, visits |-> 0, nonces |-> 0]
  BY DEF HistoryInit
<1>4. page \in Pages /\ page.doc = 0 /\ page.nonce = 0
  <2>1. <<>> \in Seq(Nat) /\ Nil \in Addresses
    BY DEF Addresses
  <2> QED BY <1>3, <2>1 DEF Pages
<1>5. tally \in Counters /\ tally.docs = 0 /\ tally.nonces = 0
  BY <1>3 DEF Counters
<1>6. /\ list \in Seq(Slots) /\ Len(list) \in {0, 2}
      /\ Len(list) = 0 => list = <<>>
      /\ \A i \in 1 .. Len(list) : list[i].doc < 0 /\ list[i].url \in Addresses
  <2>1. CASE list = <<>>
    BY <2>1
  <2>2. CASE list # <<>>
    <3>1. PICK u \in Hrefs, v \in Hrefs : list = <<Entry(-1, 0, u), Entry(-2, 0, v)>>
      BY <2>2 DEF Restored
    <3> DEFINE e == Entry(-1, 0, u)
               f == Entry(-2, 0, v)
    <3>2. e \in Slots /\ f \in Slots /\ e.doc = -1 /\ f.doc = -2 /\ e.url \in Addresses /\ f.url \in Addresses
      BY DEF Entry, Slots, Addresses
    <3> HIDE DEF e, f
    <3>3. list = <<e, f>>
      BY <3>1 DEF e, f
    <3>4. list \in Seq(Slots) /\ Len(list) = 2 /\ list[1] = e /\ list[2] = f
      BY <3>2, <3>3
    <3> QED BY <3>2, <3>4
  <2> QED BY <2>1, <2>2
<1>7. /\ position \in Nat /\ position <= Len(list)
      /\ list # <<>> => position \in 1 .. Len(list)
  BY <1>6
<1> DEFINE s == Len(list) \div 2
           t == IF list = <<>> THEN Nil ELSE Target(position, position, 1, list[position].url)
           q == <<>>
           key == <<0, 0>>
<1>8. s \in Nat
  BY <1>6
<1>9. t \in Targets \cup {Nil} /\ (t # Nil => t.position = position /\ t.previous = position /\ t.visit = 0 /\ list # <<>>)
  <2>1. CASE list = <<>>
    BY <2>1
  <2>2. CASE list # <<>>
    <3>1. list[position].url \in Addresses
      BY <1>6, <1>7, <2>2
    <3> QED BY <1>7, <2>2, <3>1 DEF Target, Targets
  <2> QED BY <2>1, <2>2
<1>10. q \in Seq({-1, 0, 1}) /\ key \in Nat \X Nat /\ key[1] = 0
  OBVIOUS
<1> HIDE DEF s, t, q, key
<1>11. /\ hist \in Toolbars /\ hist.list = list /\ hist.position = position /\ hist.target = t
       /\ hist.key = key /\ ~hist.astray
  <2>1. hist = [list |-> list, position |-> position, queue |-> q, walker |-> "idle", target |-> t,
                gen |-> 0, walkGen |-> 0, key |-> key, notice |-> FALSE, astray |-> FALSE]
    BY <1>2 DEF t, q, key
  <2> QED BY ONLY <2>1, <1>6, <1>7, <1>9, <1>10 DEF Toolbars
<1>12. /\ ctrl \in Controllers /\ ctrl.journal = Nil /\ ctrl.doc = 0 /\ ctrl.nonce = 0
  <2>1. ctrl = [seq |-> s, visit |-> 0, url |-> Nil, loading |-> FALSE, expired |-> FALSE,
                nonce |-> 0, doc |-> 0, hseq |-> -1, journal |-> Nil, traversal |-> Nil, pending |-> Nil]
    BY <1>2 DEF s
  <2>2. Nil \in Addresses
    BY DEF Addresses
  <2> QED BY ONLY <2>1, <2>2, <1>8 DEF Controllers
<1>13. ops \in Seq(Openings) /\ (ops # <<>> => list # <<>>)
  <2>1. CASE list = <<>>
    <3>1. ops = <<>>
      BY <1>2, <2>1
    <3> QED BY <3>1
  <2>2. CASE list # <<>>
    <3> DEFINE o == OpenRequest("place", 1, list[position].url, 0, FALSE)
    <3>1. list[position].url \in Addresses
      BY <1>6, <1>7, <2>2
    <3>2. o \in Openings
      BY <3>1 DEF OpenRequest, Openings
    <3>3. ops = <<o>>
      BY <1>2, <2>2
    <3> HIDE DEF o
    <3>4. <<o>> \in Seq(Openings)
      BY <3>2
    <3> QED BY <2>2, <3>3, <3>4
  <2> QED BY <2>1, <2>2
<1>14. HistoryTypes
  <2>1. toUI \in Seq(Messages) /\ toPage \in Seq(Requested)
    BY <1>3
  <2> QED BY <2>1, <1>4, <1>5, <1>11, <1>12, <1>13 DEF HistoryTypes
<1>15. Core(hist, ctrl)
  <2>1. Led(hist) /\ Taken(hist, ctrl)
    BY <1>7, <1>9, <1>11 DEF Led, Taken
  <2>2. Rooted(hist)
    BY <1>6, <1>7, <1>9, <1>11 DEF Rooted
  <2>3. Whole(hist, ctrl) /\ Faithful(hist, ctrl)
    BY <1>12 DEF Whole, Faithful, Latest
  <2>4. Heard(hist, ctrl)
    <3> SUFFICES ASSUME NEW i \in 1 .. Len(hist.list) PROVE hist.list[i].doc # 0
      BY <1>12 DEF Heard
    <3>1. list[i] \in Slots /\ list[i].doc < 0
      BY <1>6, <1>11
    <3> QED BY <3>1, <1>11 DEF Slots
  <2> QED BY <2>1, <2>2, <2>3, <2>4, <1>7, <1>11 DEF Core
<1>16. Placing(hist, ops)
  <2> SUFFICES ASSUME NEW x \in Elems(ops) PROVE hist.list # <<>>
    BY DEF Placing
  <2>1. ops # <<>>
    BY DEF Elems
  <2> QED BY <2>1, <1>11, <1>13
<1>17. Talk(hist, ctrl, page, toUI, toPage, tally.docs, tally.nonces)
  <2>1. ListKnown(hist, ctrl, 0, 0)
    <3>1. \A i \in 1 .. Len(hist.list) : hist.list[i].doc <= 0
      <4> SUFFICES ASSUME NEW i \in 1 .. Len(hist.list) PROVE hist.list[i].doc <= 0
        OBVIOUS
      <4>1. list[i] \in Slots /\ list[i].doc < 0
        BY <1>6, <1>11
      <4> QED BY <4>1, <1>11 DEF Slots
    <3> QED BY <3>1, <1>10, <1>11, <1>12 DEF ListKnown
  <2>2. PageKnown(hist, ctrl, page, 0, 0)
    BY <1>4, <1>12 DEF PageKnown, Busy
  <2>3. Elems(<<>>) = {}
    BY DEF Elems
  <2>4. Line(page, <<>>) /\ Rising(<<>>)
    BY DEF Line, Rising
  <2> QED BY <2>1, <2>2, <2>3, <2>4, <1>3, <1>5 DEF Talk
<1> QED BY <1>14, <1>15, <1>16, <1>17 DEF HistoryInv

-----------------------------------------------------------------------------
(* The user and the runtime.                                               *)
LEMMA SoundFrom ==
  ASSUME NEW h, NEW g, NEW c, NEW d, NEW b, Grown(h, g), Quiet(c, d), Sound(g, d, b)
  PROVE  Sound(h, c, b)
<1>1. Grown(h, b.h)
  BY GrownFurther DEF Sound
<1>2. Quiet(c, b.c)
  BY DEF Quiet, SameView, Sound
<1> QED BY <1>1, <1>2 DEF Sound

LEMMA QuietKept ==
  ASSUME NEW h \in Toolbars, NEW g, NEW c \in Controllers, NEW d \in Controllers, Core(h, c), Quiet(c, d),
         Returns(h, g)
  PROVE  g \in Toolbars /\ Core(g, d) /\ Grown(h, g) /\ g.list = h.list /\ g.key = h.key
<1>1. SameView(c, d) /\ d.loading = c.loading
  BY DEF Quiet
<1>2. g \in Toolbars /\ g.list = h.list /\ g.key = h.key
  BY DEF Returns
<1>3. Core(g, d)
  BY <1>1, Returned
<1> QED BY <1>2, <1>3, SameListGrown

LEMMA ExpiredQuiet ==
  ASSUME NEW c \in Controllers
  PROVE  LET d == ExpiredPage(c) IN
         d \in Controllers /\ Quiet(c, d) /\ d.expired /\ d.traversal = Nil /\ d.pending = Nil
<1> DEFINE s == c.seq + 1
           e == [c EXCEPT !.seq = s, !.pending = Nil]
           d == [e EXCEPT !.expired = TRUE, !.traversal = Nil]
<1>1. s \in Nat /\ Nil \in Addresses
  BY DEF Controllers, Addresses
<1> HIDE DEF s
<1>2. e \in Controllers
  BY <1>1 DEF Controllers
<1>3. /\ e.url = c.url /\ e.journal = c.journal /\ e.doc = c.doc /\ e.loading = c.loading
      /\ e.nonce = c.nonce /\ e.visit = c.visit /\ e.pending = Nil
  BY DEF Controllers
<1>4. ExpiredPage(c) = d
  BY DEF ExpiredPage, Controllers, s
<1> HIDE DEF e
<1>5. d \in Controllers
  BY <1>2 DEF Controllers
<1>6. /\ d.url = e.url /\ d.journal = e.journal /\ d.doc = e.doc /\ d.loading = e.loading
      /\ d.nonce = e.nonce /\ d.visit = e.visit /\ d.expired /\ d.traversal = Nil /\ d.pending = e.pending
  BY <1>2 DEF Controllers
<1> HIDE DEF d
<1>7. Quiet(c, d)
  BY <1>3, <1>6 DEF Quiet, SameView
<1> QED BY <1>3, <1>4, <1>5, <1>6, <1>7

LEMMA TypeKeeps ==
  ASSUME HistoryInv, NEW url \in Hrefs, TypeAddress(url)
  PROVE  HistoryInv'
<1>1. HistoryTypes /\ Core(hist, ctrl)
  BY DEF HistoryInv
<1>2. hist \in Toolbars /\ ctrl \in Controllers /\ tally \in Counters /\ tally.asked \in Nat /\ url \in Addresses
  BY <1>1, Known DEF HistoryTypes, Addresses
<1> DEFINE b == Go(hist, ctrl, url, FALSE)
<1>3. Sound(hist, ctrl, b)
  BY <1>1, <1>2, GoSound
<1>4. Count("asked", MaxSteps) /\ Becomes(b) /\ UNCHANGED <<page, toUI>>
  BY DEF TypeAddress
<1> HIDE DEF b
<1>5. SameNumbers
  BY <1>2, <1>4, Counted DEF SameNumbers
<1> QED BY <1>3, <1>4, <1>5, Becoming

LEMMA PressKeeps ==
  ASSUME HistoryInv, NEW delta \in {-1, 0, 1}, Press(delta)
  PROVE  HistoryInv'
<1>1. HistoryTypes /\ Core(hist, ctrl)
  BY DEF HistoryInv
<1>2. hist \in Toolbars /\ ctrl \in Controllers /\ tally \in Counters
  BY <1>1 DEF HistoryTypes
<1> DEFINE b == History(hist, ctrl, delta)
<1>3. Sound(hist, ctrl, b)
  BY <1>1, <1>2, HistorySound
<1>4. Count("asked", MaxSteps) /\ Becomes(b) /\ UNCHANGED <<page, toUI>>
  BY DEF Press
<1> HIDE DEF b
<1>5. SameNumbers
  BY <1>2, <1>4, Counted DEF SameNumbers
<1> QED BY <1>3, <1>4, <1>5, Becoming

LEMMA RetrySound ==
  ASSUME NEW h \in Toolbars, NEW c \in Controllers, Core(h, c), NEW n \in Nat,
         NEW d \in Controllers, Quiet(c, d), NEW o \in Openings, o.kind # "place", NEW target,
         target = IF h.target = Nil THEN Nil ELSE [h.target EXCEPT !.visit = 0, !.seq = n]
  PROVE  Sound(h, c, Became([h EXCEPT !.gen = @ + 1, !.queue = <<>>, !.target = target, !.notice = FALSE],
                            d, <<o>>, <<>>))
<1> DEFINE gen == h.gen + 1
           q == <<>>
           k == [h EXCEPT !.gen = gen, !.queue = q]
           g == [k EXCEPT !.target = target, !.notice = FALSE]
           b == Became(g, d, <<o>>, <<>>)
<1>1. gen \in Nat /\ q \in Seq({-1, 0, 1})
  BY DEF Toolbars
<1>2. target \in Targets \cup {Nil}
  <2>1. CASE h.target = Nil
    BY <2>1
  <2>2. CASE h.target # Nil
    <3>1. h.target \in Targets
      BY <2>2 DEF Toolbars
    <3> QED BY <2>2, <3>1 DEF Targets
  <2> QED BY <2>1, <2>2
<1>3. h.target # Nil => /\ target # Nil /\ target.visit = 0
                         /\ target.position = h.target.position /\ target.previous = h.target.previous
  <2> SUFFICES ASSUME h.target # Nil
               PROVE  /\ target # Nil /\ target.visit = 0
                      /\ target.position = h.target.position /\ target.previous = h.target.previous
    OBVIOUS
  <2>1. h.target \in Targets
    BY DEF Toolbars
  <2>2. target = [h.target EXCEPT !.visit = 0, !.seq = n]
    OBVIOUS
  <2>3. target \in Targets
    BY ONLY <2>1, <2>2, n \in Nat DEF Targets
  <2>4. target # Nil
    BY <2>3, NilIsApart
  <2> QED BY <2>1, <2>2, <2>4 DEF Targets
<1>4. [h EXCEPT !.gen = @ + 1, !.queue = <<>>, !.target = target, !.notice = FALSE] = g
  BY DEF Toolbars
<1> HIDE DEF gen, q
<1>5. k \in Toolbars
  BY <1>1 DEF Toolbars
<1>6. k.list = h.list /\ k.key = h.key /\ k.astray = h.astray /\ k.position = h.position
  BY DEF Toolbars
<1> HIDE DEF k
<1>7. g \in Toolbars
  BY <1>2, <1>5 DEF Toolbars
<1>8. g.list = k.list /\ g.key = k.key /\ g.astray = k.astray /\ g.position = k.position /\ g.target = target
  BY <1>5 DEF Toolbars
<1> HIDE DEF g
<1>9. Core(g, d)
  <2>1. SameView(c, d)
    BY DEF Quiet
  <2>2. \/ h.target = Nil /\ g.target = Nil
        \/ /\ h.target # Nil /\ g.target # Nil /\ g.target.visit = 0
           /\ g.target.position = h.target.position /\ g.target.previous = h.target.previous
    BY <1>3, <1>8
  <2> QED BY <1>6, <1>7, <1>8, <2>1, <2>2, RetriedCore
<1>10. Grown(h, g)
  BY <1>6, <1>8, SameListGrown
<1>11. b.h = g /\ b.c = d /\ b.opened = <<o>> /\ b.asks = <<>>
  BY DEF Became
<1> HIDE DEF b
<1>12. <<o>> \in Seq(Openings) /\ Len(<<o>>) = 1 /\ <<o>>[1] = o
  OBVIOUS
<1>13. Places(b)
  BY <1>11, <1>12 DEF Places
<1>14. b.asks \in Seq(Traverses) /\ b.opened \in Seq(Openings)
  BY <1>11, <1>12
<1>15. Sound(h, c, b)
  BY <1>7, <1>9, <1>10, <1>11, <1>13, <1>14 DEF Sound
<1> QED BY <1>4, <1>15 DEF b

LEMMA PressRetryKeeps ==
  ASSUME HistoryInv, PressRetry
  PROVE  HistoryInv'
<1> DEFINE seq == ctrl.seq + 1
           t == hist.target
           n == IF ctrl.pending = Nil THEN seq ELSE t.seq
           m == IF t = Nil THEN 0 ELSE n
           target == IF t = Nil THEN Nil ELSE [t EXCEPT !.visit = 0, !.seq = m]
           g == [hist EXCEPT !.gen = @ + 1, !.queue = <<>>, !.target = target, !.notice = FALSE]
           o == OpenRequest("recover", 0, Nil, g.gen, FALSE)
           r == OpenRequest("retry", seq, IF t = Nil THEN ctrl.url ELSE t.url, g.gen, FALSE)
           d == [ctrl EXCEPT !.seq = seq]
<1>1. HistoryTypes /\ Core(hist, ctrl)
  BY DEF HistoryInv
<1>2. hist \in Toolbars /\ ctrl \in Controllers /\ tally \in Counters
  BY <1>1 DEF HistoryTypes
<1>3. seq \in Nat /\ ctrl.url \in Addresses /\ Nil \in Addresses
  BY <1>2 DEF Controllers, Addresses
<1>4. t # Nil => t \in Targets /\ t.seq \in Nat /\ t.url \in Addresses
  BY <1>2 DEF Toolbars, Targets
<1>5. m \in Nat
  BY <1>3, <1>4
<1>6. target = IF t = Nil THEN Nil
               ELSE [t EXCEPT !.visit = 0, !.seq = IF ctrl.pending = Nil THEN seq ELSE @]
  BY <1>4 DEF Targets
<1>7. g.gen \in Nat
  BY <1>2 DEF Toolbars
<1>8. Quiet(ctrl, ctrl) /\ d \in Controllers /\ Quiet(ctrl, d)
  BY <1>2, <1>3 DEF Controllers, Quiet, SameView
<1>9. o \in Openings /\ o.kind # "place" /\ r \in Openings /\ r.kind # "place"
  BY <1>3, <1>4, <1>7 DEF OpenRequest, Openings
<1>10. /\ Count("asked", MaxSteps) /\ UNCHANGED <<page, toUI>>
       /\ \/ Becomes(Became(g, ctrl, <<o>>, <<>>))
          \/ Becomes(Became(g, d, <<r>>, <<>>))
  BY <1>6 DEF PressRetry
<1>11. SameNumbers
  BY <1>2, <1>10, Counted DEF SameNumbers
<1>12. Sound(hist, ctrl, Became(g, ctrl, <<o>>, <<>>)) /\ Sound(hist, ctrl, Became(g, d, <<r>>, <<>>))
  <2> HIDE DEF o, r, d, m
  <2> QED BY <1>1, <1>2, <1>5, <1>8, <1>9, RetrySound
<1> HIDE DEF g, o, r, d
<1> QED BY <1>10, <1>11, <1>12, Becoming

LEMMA Unopened ==
  ASSUME HistoryInv, SameNumbers, NEW g, NEW d, Sound(hist, ctrl, Became(g, d, <<>>, <<>>)),
         hist' = g, ctrl' = d, NEW o \in Seq(Openings), Elems(o) \subseteq Elems(ops), ops' = o,
         page' = page, toUI' = toUI, toPage' = toPage
  PROVE  HistoryInv'
<1> DEFINE b == Became(g, d, <<>>, <<>>)
<1>1. b.h = g /\ b.c = d /\ b.opened = <<>> /\ b.asks = <<>>
  BY DEF Became
<1>2. toPage \in Seq(Requested) /\ toUI \in Seq(Messages) /\ Line(page, toUI)
  BY DEF HistoryInv, HistoryTypes, Talk
<1>3. o \o <<>> = o /\ toPage \o <<>> = toPage
  BY <1>2
<1> HIDE DEF b
<1>4. Sound(hist, ctrl, b) /\ hist' = b.h /\ ctrl' = b.c /\ ops' = o \o b.opened /\ toPage' = toPage \o b.asks
  BY <1>1, <1>3 DEF b
<1>5. toUI' \in Seq(Messages) /\ Elems(toUI') \subseteq Elems(toUI) /\ Line(page, toUI')
  BY <1>2
<1> QED BY <1>4, <1>5, Proceeds

LEMMA TimesOutKeeps ==
  ASSUME HistoryInv, TimesOut
  PROVE  HistoryInv'
<1> DEFINE d == [ctrl EXCEPT !.traversal = Nil]
           g == StepFailed(hist, ctrl)
<1>1. HistoryTypes /\ Core(hist, ctrl)
  BY DEF HistoryInv
<1>2. hist \in Toolbars /\ ctrl \in Controllers /\ tally \in Counters /\ ops \in Seq(Openings)
  BY <1>1 DEF HistoryTypes
<1>3. d \in Controllers /\ Quiet(ctrl, d)
  BY <1>2 DEF Controllers, Quiet, SameView
<1>4. hist' = g /\ ctrl' = d /\ UNCHANGED <<ops, page, toUI, toPage, tally>>
  BY DEF TimesOut
<1>5. Returns(hist, g)
  BY <1>2, FailedStep
<1> HIDE DEF d, g
<1>6. Sound(hist, ctrl, Became(g, d, <<>>, <<>>))
  <2>1. <<>> \in Seq(Traverses)
    OBVIOUS
  <2> QED BY <1>1, <1>2, <1>3, <1>5, <2>1, NothingOpened
<1>7. SameNumbers
  BY <1>2, <1>4 DEF SameNumbers
<1> QED BY <1>2, <1>4, <1>6, <1>7, Unopened

LEMMA TakesLongKeeps ==
  ASSUME HistoryInv, TakesLong
  PROVE  HistoryInv'
<1> DEFINE g == [hist EXCEPT !.notice = TRUE]
<1>1. HistoryTypes /\ Core(hist, ctrl)
  BY DEF HistoryInv
<1>2. hist \in Toolbars /\ ctrl \in Controllers /\ tally \in Counters /\ ops \in Seq(Openings)
  BY <1>1 DEF HistoryTypes
<1>3. /\ g \in Toolbars /\ g.list = hist.list /\ g.key = hist.key /\ g.astray = hist.astray
      /\ g.position = hist.position /\ g.target = hist.target
  BY <1>2 DEF Toolbars
<1>4. Quiet(ctrl, ctrl)
  BY DEF Quiet, SameView
<1>5. hist' = g /\ UNCHANGED <<ctrl, ops, page, toUI, toPage, tally>>
  BY DEF TakesLong
<1> HIDE DEF g
<1>6. Sound(hist, ctrl, Became(g, ctrl, <<>>, <<>>))
  BY <1>1, <1>2, <1>3, <1>4, NothingSound
<1>7. SameNumbers
  BY <1>2, <1>5 DEF SameNumbers
<1> QED BY <1>2, <1>5, <1>6, <1>7, Unopened

LEMMA ForgottenKeeps ==
  ASSUME HistoryInv, PageForgotten
  PROVE  HistoryInv'
<1> DEFINE c == ExpiredPage(ctrl)
           h == StepCancelled(hist, ctrl)
           w == hist.position # 0 /\ AtUrl(hist, ctrl.url)
           p == OpenInPlace(h, c, ctrl.url, FALSE)
           g == Go(h, c, ctrl.url, FALSE)
           b == IF w THEN p ELSE g
<1>1. HistoryTypes /\ Core(hist, ctrl)
  BY DEF HistoryInv
<1>2. /\ hist \in Toolbars /\ ctrl \in Controllers /\ tally \in Counters /\ tally.asked \in Nat
      /\ ctrl.url \in Addresses
  BY <1>1, Known DEF HistoryTypes, Controllers
<1>3. c \in Controllers /\ Quiet(ctrl, c) /\ c.expired /\ c.traversal = Nil
  BY <1>2, ExpiredQuiet
<1>4. Returns(hist, h)
  BY <1>2, CancelledStep
<1>5. Count("lost", MaxLost) /\ Becomes(b) /\ UNCHANGED <<page, toUI>>
  BY DEF PageForgotten
<1> HIDE DEF c, h
<1>6. h \in Toolbars /\ Core(h, c) /\ Grown(hist, h) /\ h.list = hist.list
  BY <1>1, <1>2, <1>3, <1>4, QuietKept
<1>7. w => h.list # <<>>
  <2> SUFFICES ASSUME hist.position # 0, hist.list = <<>> PROVE FALSE
    BY <1>6
  <2>1. hist.position <= Len(hist.list) /\ hist.position \in Nat
    BY <1>1, <1>2 DEF Core, Toolbars
  <2>2. Len(hist.list) = 0
    OBVIOUS
  <2> QED BY <2>1, <2>2
<1>8. w => Sound(h, c, p)
  BY <1>2, <1>3, <1>6, <1>7, OpenInPlaceSound
<1>9. Sound(h, c, g)
  BY <1>2, <1>3, <1>6, GoSound
<1> HIDE DEF p, g, w
<1>10. Sound(h, c, b)
  BY <1>8, <1>9
<1> HIDE DEF b
<1>11. Sound(hist, ctrl, b)
  BY <1>3, <1>6, <1>10, SoundFrom
<1>12. SameNumbers
  BY <1>2, <1>5, Counted DEF SameNumbers
<1> QED BY <1>5, <1>11, <1>12, Becoming

LEMMA FailsKeeps ==
  ASSUME HistoryInv, NEW answer \in {"refused", "lost", "reset"}, Fails(answer)
  PROVE  HistoryInv'
<1> DEFINE op == Head(ops)
           pending == IF ctrl.pending = Nil THEN op.url ELSE ctrl.pending
           refused == [ctrl EXCEPT !.pending = Nil]
           lost == [ctrl EXCEPT !.pending = pending]
           c == CASE answer = "refused" -> refused [] answer = "lost" -> lost [] answer = "reset" -> ExpiredPage(ctrl)
           h == IF answer = "reset" THEN StepCancelled(hist, ctrl) ELSE hist
           again == answer = "reset" /\ ~op.again
           failed == Became(StepFailed(h, c), c, <<>>, <<>>)
           went == Go(h, ExpiredPage(c), op.url, TRUE)
           replaced == OpenInPlace(h, ExpiredPage(c), op.url, TRUE)
           noticed == [h EXCEPT !.notice = TRUE]
           told == Became(noticed, c, <<>>, <<>>)
           b == CASE op.kind = "history" -> failed
                  [] op.kind = "go" /\ again -> went
                  [] op.kind = "place" /\ again -> replaced
                  [] OTHER -> told
<1>1. HistoryTypes /\ Core(hist, ctrl) /\ Placing(hist, ops)
  BY DEF HistoryInv
<1>2. /\ hist \in Toolbars /\ ctrl \in Controllers /\ tally \in Counters /\ tally.asked \in Nat
      /\ ops \in Seq(Openings) /\ toUI \in Seq(Messages)
  BY <1>1, Known DEF HistoryTypes
<1>3. /\ ops # <<>> /\ Count("lost", MaxLost) /\ UNCHANGED <<page, toUI>>
      /\ hist' = b.h /\ ctrl' = b.c /\ ops' = Tail(ops) \o b.opened /\ toPage' = toPage \o b.asks
  BY <1>2 DEF Fails, Controllers
<1>4. Tail(ops) \in Seq(Openings) /\ Elems(Tail(ops)) \subseteq Elems(ops) /\ op \in Openings /\ op \in Elems(ops)
  BY <1>2, <1>3, ElemsLeft
<1> HIDE DEF op
<1>5. op.url \in Addresses
  BY <1>4 DEF Openings
<1>6. pending \in Addresses /\ Nil \in Addresses
  BY <1>2, <1>5 DEF Controllers, Addresses
<1> HIDE DEF pending
<1>7. /\ refused \in Controllers /\ Quiet(ctrl, refused) /\ lost \in Controllers /\ Quiet(ctrl, lost)
      /\ ExpiredPage(ctrl) \in Controllers /\ Quiet(ctrl, ExpiredPage(ctrl))
  <2>1. refused \in Controllers /\ lost \in Controllers
    BY <1>2, <1>6 DEF Controllers
  <2>2. Quiet(ctrl, refused) /\ Quiet(ctrl, lost)
    BY <1>2 DEF Controllers, Quiet, SameView
  <2> QED BY <1>2, <2>1, <2>2, ExpiredQuiet
<1> HIDE DEF refused, lost
<1>8. c \in Controllers /\ Quiet(ctrl, c)
  BY <1>7
<1> HIDE DEF c
<1>9. Returns(hist, h)
  <2>1. Returns(hist, hist) /\ Returns(hist, StepCancelled(hist, ctrl))
    BY <1>2, CancelledStep DEF Returns
  <2> QED BY <2>1
<1> HIDE DEF h
<1>10. h \in Toolbars /\ Core(h, c) /\ Grown(hist, h) /\ h.list = hist.list
  BY <1>1, <1>2, <1>8, <1>9, QuietKept
<1>11. Quiet(c, c) /\ Returns(h, h)
  BY <1>10 DEF Quiet, SameView, Returns
<1> DEFINE e == ExpiredPage(c)
<1>12. e \in Controllers /\ Quiet(c, e) /\ e.expired /\ e.traversal = Nil
  BY <1>8, ExpiredQuiet
<1> HIDE DEF e
<1>13. Core(h, e) /\ Quiet(ctrl, e)
  <2>1. Core(h, e)
    BY <1>8, <1>10, <1>11, <1>12, QuietKept
  <2>2. Quiet(ctrl, e)
    BY <1>8, <1>12 DEF Quiet, SameView
  <2> QED BY <2>1, <2>2
<1>14. Sound(hist, ctrl, failed)
  <2>1. Returns(h, StepFailed(h, c)) /\ <<>> \in Seq(Traverses)
    BY <1>8, <1>10, FailedStep
  <2>2. Sound(h, c, failed)
    BY <1>8, <1>10, <1>11, <2>1, NothingOpened
  <2> HIDE DEF failed
  <2> QED BY <1>8, <1>10, <2>2, SoundFrom
<1>15. Sound(hist, ctrl, went)
  <2>1. went = Go(h, e, op.url, TRUE)
    BY DEF e
  <2>2. Sound(h, e, went)
    BY <1>2, <1>5, <1>10, <1>12, <1>13, <2>1, GoSound
  <2> HIDE DEF went
  <2> QED BY <1>10, <1>13, <2>2, SoundFrom
<1>16. op.kind = "place" => Sound(hist, ctrl, replaced)
  <2> SUFFICES ASSUME op.kind = "place" PROVE Sound(hist, ctrl, replaced)
    OBVIOUS
  <2>1. h.list # <<>>
    BY <1>1, <1>4, <1>10 DEF Placing
  <2>2. replaced = OpenInPlace(h, e, op.url, TRUE)
    BY DEF e
  <2>3. Sound(h, e, replaced)
    BY <1>5, <1>10, <1>12, <1>13, <2>1, <2>2, OpenInPlaceSound
  <2> HIDE DEF replaced
  <2> QED BY <1>10, <1>13, <2>3, SoundFrom
<1>17. Sound(hist, ctrl, told)
  <2>1. /\ noticed \in Toolbars /\ noticed.list = h.list /\ noticed.key = h.key /\ noticed.astray = h.astray
        /\ noticed.position = h.position /\ noticed.target = h.target
    BY <1>10 DEF Toolbars
  <2> HIDE DEF noticed
  <2>2. Sound(h, c, told)
    BY <1>8, <1>10, <1>11, <2>1, NothingSound
  <2> HIDE DEF told
  <2> QED BY <1>8, <1>10, <2>2, SoundFrom
<1> HIDE DEF failed, went, replaced, told, again
<1>18. Sound(hist, ctrl, b)
  <2>1. CASE op.kind = "history"
    <3>1. b = failed
      BY <2>1
    <3> QED BY <3>1, <1>14
  <2>2. CASE op.kind = "go" /\ again
    <3>1. b = went
      BY <2>2
    <3> QED BY <3>1, <1>15
  <2>3. CASE op.kind = "place" /\ again
    <3>1. b = replaced
      BY <2>3
    <3> QED BY <3>1, <2>3, <1>16
  <2>4. CASE op.kind # "history" /\ ~(op.kind = "go" /\ again) /\ ~(op.kind = "place" /\ again)
    <3>1. b = told
      BY <2>4
    <3> QED BY <3>1, <1>17
  <2> QED BY <2>1, <2>2, <2>3, <2>4
<1> HIDE DEF b
<1>19. SameNumbers
  BY <1>2, <1>3, Counted DEF SameNumbers
<1>20. page' = page /\ toUI' \in Seq(Messages) /\ Elems(toUI') \subseteq Elems(toUI) /\ Line(page, toUI')
  BY <1>2, <1>3 DEF HistoryInv, Talk
<1> QED BY <1>3, <1>4, <1>18, <1>19, <1>20, Proceeds

LEMMA Showing ==
  ASSUME HistoryInv, SameNumbers, NEW h \in Toolbars, NEW c \in Controllers, Core(h, c),
         h.list = hist.list, h.key = hist.key, NEW url \in Addresses, Activates(h, c, url),
         ops' \in Seq(Openings), Elems(ops') \subseteq Elems(ops)
  PROVE  HistoryInv'
<1> DEFINE visit == tally.visits + 1
           s == [c EXCEPT !.visit = visit, !.url = url, !.loading = TRUE]
           t == [s EXCEPT !.expired = FALSE, !.nonce = 0, !.doc = 0]
           d == [t EXCEPT !.hseq = -1, !.journal = Nil, !.traversal = Nil]
           k == [visit |-> visit, url |-> url, doc |-> 0, entries |-> <<>>, index |-> 0, seq |-> 0, nonce |-> 0]
           g == Claimed(StepCancelled(h, c), d)
<1>1. HistoryTypes /\ Placing(hist, ops) /\ Talk(hist, ctrl, page, toUI, toPage, tally.docs, tally.nonces)
  BY DEF HistoryInv
<1>2. visit \in Nat /\ tally.nonces \in Nat
  BY <1>1, Known
<1> HIDE DEF visit
<1>3. /\ hist' = g /\ ctrl' = d /\ page' = k /\ toUI' = <<>> /\ toPage' = <<>>
  BY DEF Activates, visit
<1>4. s \in Controllers
  BY <1>2 DEF Controllers
<1> HIDE DEF s
<1>5. t \in Controllers /\ t.nonce = 0 /\ t.doc = 0
  BY <1>4 DEF Controllers
<1> HIDE DEF t
<1>6. d \in Controllers /\ d.nonce = 0 /\ d.doc = 0 /\ d.journal = Nil
  <2> DEFINE n == -1
             z == Nil
             v == [t EXCEPT !.hseq = n]
             u == [v EXCEPT !.journal = z]
  <2>0. n \in Int /\ z \in Journals \cup {Nil}
    OBVIOUS
  <2>b. d = [u EXCEPT !.traversal = Nil]
    OBVIOUS
  <2> HIDE DEF n, z
  <2>c. v \in Controllers
    BY ONLY <1>5, <2>0 DEF Controllers
  <2> HIDE DEF v
  <2>a. u \in Controllers
    BY ONLY <2>c, <2>0 DEF Controllers
  <2> HIDE DEF u
  <2>1. d \in Controllers
    BY ONLY <2>a, <2>b DEF Controllers
  <2>2. d.nonce = t.nonce /\ d.doc = t.doc /\ d.journal = Nil
    BY ONLY <1>5 DEF Controllers
  <2> QED BY <1>5, <2>1, <2>2
<1> HIDE DEF d
<1>7. k \in Pages /\ k.doc = 0 /\ k.nonce = 0
  <2>1. <<>> \in Seq(Nat)
    OBVIOUS
  <2> QED BY <1>2, <2>1 DEF Pages
<1> HIDE DEF k
<1>8. g \in Toolbars /\ Core(g, d) /\ g.list = h.list /\ g.key = h.key
  BY <1>6, ShownCore
<1> HIDE DEF g
<1>9. Talk(g, d, k, <<>>, <<>>, tally.docs, tally.nonces)
  BY <1>1, <1>2, <1>6, <1>7, <1>8, TalkShown
<1>10. Placing(g, ops')
  BY <1>1, <1>8 DEF Placing
<1>11. HistoryTypes'
  <2>1. toUI' \in Seq(Messages) /\ toPage' \in Seq(Requested)
    BY <1>3
  <2> QED BY <2>1, <1>3, <1>6, <1>7, <1>8 DEF HistoryTypes, SameNumbers
<1> QED BY <1>3, <1>8, <1>9, <1>10, <1>11 DEF HistoryInv, SameNumbers

LEMMA OpenedKeeps ==
  ASSUME HistoryInv, OpenAnswered
  PROVE  HistoryInv'
<1> DEFINE op == Head(ops)
           c == [ctrl EXCEPT !.pending = Nil]
           q == <<>>
           done == [hist EXCEPT !.queue = q, !.walker = "idle"]
           h == Done(hist, op)
<1>1. HistoryTypes /\ Core(hist, ctrl)
  BY DEF HistoryInv
<1>2. /\ hist \in Toolbars /\ ctrl \in Controllers /\ tally \in Counters /\ ops \in Seq(Openings)
      /\ ctrl.pending \in Addresses /\ Nil \in Addresses
  BY <1>1 DEF HistoryTypes, Controllers, Addresses
<1>3. c \in Controllers
  BY <1>2 DEF Controllers
<1>4. Quiet(ctrl, c) /\ Quiet(ctrl, ctrl)
  BY <1>2 DEF Controllers, Quiet, SameView
<1>5. /\ ops # <<>> /\ ops' = Tail(ops)
      /\ \/ Activates(hist, c, ctrl.pending) /\ tally' = [tally EXCEPT !.visits = @ + 1]
         \/ Activates(h, c, op.url) /\ tally' = [tally EXCEPT !.visits = @ + 1]
         \/ hist' = h /\ UNCHANGED <<ctrl, page, toUI, toPage, tally>>
  BY DEF OpenAnswered
<1>6. Tail(ops) \in Seq(Openings) /\ Elems(Tail(ops)) \subseteq Elems(ops) /\ op \in Openings
  BY <1>2, <1>5, ElemsLeft
<1> HIDE DEF op, c
<1>7. op.url \in Addresses
  BY <1>6 DEF Openings
<1>8. q \in Seq({-1, 0, 1})
  OBVIOUS
<1>9. h = IF op.kind = "history" THEN done ELSE hist
  BY DEF Done
<1> HIDE DEF q, h
<1>10. /\ done \in Toolbars /\ done.list = hist.list /\ done.key = hist.key /\ done.astray = hist.astray
       /\ done.position = hist.position /\ done.target = hist.target
  BY <1>2, <1>8 DEF Toolbars
<1> HIDE DEF done
<1>11. /\ h \in Toolbars /\ h.list = hist.list /\ h.key = hist.key /\ h.astray = hist.astray
       /\ h.position = hist.position /\ h.target = hist.target
  BY <1>2, <1>9, <1>10
<1>12. Core(h, c) /\ Core(hist, c)
  <2>1. Returns(hist, h) /\ Returns(hist, hist)
    BY <1>1, <1>2, <1>11, Unlisted DEF Returns
  <2> QED BY <1>1, <1>2, <1>3, <1>4, <2>1, QuietKept
<1>13. tally' = [tally EXCEPT !.visits = @ + 1] => SameNumbers
  BY <1>2 DEF SameNumbers, Counters
<1>14. CASE Activates(hist, c, ctrl.pending) /\ tally' = [tally EXCEPT !.visits = @ + 1]
  BY <1>2, <1>3, <1>5, <1>6, <1>12, <1>13, <1>14, Showing
<1>15. CASE Activates(h, c, op.url) /\ tally' = [tally EXCEPT !.visits = @ + 1]
  BY <1>3, <1>5, <1>6, <1>7, <1>11, <1>12, <1>13, <1>15, Showing
<1>16. CASE hist' = h /\ UNCHANGED <<ctrl, page, toUI, toPage, tally>>
  <2>1. SameNumbers
    BY <1>2, <1>16 DEF SameNumbers
  <2>2. Sound(hist, ctrl, Became(h, ctrl, <<>>, <<>>))
    BY <1>1, <1>2, <1>4, <1>11, NothingSound
  <2> QED BY <1>5, <1>6, <1>16, <2>1, <2>2, Unopened
<1> QED BY <1>5, <1>14, <1>15, <1>16

LEMMA LeavesSiteKeeps ==
  ASSUME HistoryInv, NEW url \in Hrefs, LeavesSite(url)
  PROVE  HistoryInv'
<1>1. HistoryTypes /\ Core(hist, ctrl)
  BY DEF HistoryInv
<1>2. /\ hist \in Toolbars /\ ctrl \in Controllers /\ tally \in Counters /\ ops \in Seq(Openings)
      /\ url \in Addresses
  BY <1>1 DEF HistoryTypes, Addresses
<1>3. /\ tally' = [tally EXCEPT !.moves = @ + 1, !.visits = @ + 1]
      /\ Activates(hist, ctrl, url) /\ ops' = ops
  BY DEF LeavesSite
<1>4. SameNumbers
  <2> DEFINE m == tally.moves + 1
             v == tally.visits + 1
  <2>1. m \in Nat /\ v \in Nat
    BY <1>2 DEF Counters
  <2>2. tally' = [tally EXCEPT !.moves = m, !.visits = v]
    BY <1>3
  <2> HIDE DEF m, v
  <2> QED BY ONLY <1>2, <2>1, <2>2 DEF SameNumbers, Counters
<1> QED BY <1>1, <1>2, <1>3, <1>4, Showing

-----------------------------------------------------------------------------
(* The page.                                                               *)
LEMMA PageActs ==
  ASSUME HistoryInv, tally' \in Counters, tally'.nonces = tally.nonces, UNCHANGED <<hist, ctrl, ops>>,
         page' \in Pages, toUI' \in Seq(Messages), toPage' \in Seq(Requested),
         Talk(hist, ctrl, page', toUI', toPage', tally'.docs, tally.nonces)
  PROVE  HistoryInv'
<1>1. HistoryTypes /\ Core(hist, ctrl) /\ Placing(hist, ops)
  BY DEF HistoryInv
<1>2. hist' = hist /\ ctrl' = ctrl /\ ops' = ops
  OBVIOUS
<1>3. HistoryTypes'
  BY <1>1, <1>2 DEF HistoryTypes
<1> QED BY <1>1, <1>2, <1>3 DEF HistoryInv

LEMMA Announcing ==
  ASSUME HistoryTypes, NEW k \in Pages, NEW kind \in Kinds, NEW a \in Seq(Requested), NEW D \in Nat, NEW N \in Nat,
         Talk(hist, ctrl, k, toUI, a, D, N)
  PROVE  Report(k, kind) \in Seq(Messages) /\ Talk(hist, ctrl, k, Report(k, kind), a, D, N)
<1>1. toUI \in Seq(Messages) /\ hist \in Toolbars /\ ctrl \in Controllers
  BY DEF HistoryTypes
<1>2. CASE k.nonce = 0
  BY <1>1, <1>2 DEF Report
<1>3. CASE k.nonce # 0
  <2> DEFINE m == [kind |-> "state", change |-> kind, visit |-> k.visit, nonce |-> k.nonce, doc |-> k.doc,
                   seq |-> k.seq, entries |-> k.entries, index |-> k.index]
  <2>1. Report(k, kind) = Append(toUI, m)
    BY <1>3 DEF Report
  <2>2. m \in Reports
    BY DEF Reports, Pages
  <2>3. m.doc = k.doc /\ m.seq = k.seq /\ m.entries = k.entries /\ m.index = k.index /\ m.nonce = k.nonce
    OBVIOUS
  <2> HIDE DEF m
  <2>4. Append(toUI, m) \in Seq(Messages)
    BY <1>1, <2>2 DEF Messages
  <2>5. Knows(hist, ctrl, k, D, N)
    BY <1>1 DEF Knows
  <2>6. Talk(hist, ctrl, k, Append(toUI, m), a, D, N)
    BY <1>1, <1>3, <2>2, <2>3, <2>5, TalkReported
  <2> QED BY <2>1, <2>4, <2>6
<1> QED BY <1>2, <1>3

LEMMA LoadsKeeps ==
  ASSUME HistoryInv, Loads
  PROVE  HistoryInv'
<1> DEFINE D == tally.docs
           e == <<0>>
           k == [page EXCEPT !.doc = D + 1, !.entries = e, !.index = 1, !.seq = 0, !.nonce = 0]
           m == [kind |-> "ready", visit |-> page.visit]
<1>1. HistoryTypes /\ Talk(hist, ctrl, page, toUI, toPage, D, tally.nonces)
  BY DEF HistoryInv
<1>2. /\ page \in Pages /\ tally \in Counters /\ toUI \in Seq(Messages) /\ toPage \in Seq(Requested)
      /\ Knows(hist, ctrl, page, D, tally.nonces) /\ D \in Nat
  BY <1>1, Known DEF HistoryTypes
<1>3. /\ page.doc = 0 /\ Count("docs", MaxDocs) /\ page' = k /\ toUI' = Append(toUI, m)
      /\ UNCHANGED <<hist, ctrl, ops, toPage>>
  BY DEF Loads
<1>4. tally' \in Counters /\ tally'.nonces = tally.nonces /\ tally'.docs = D + 1
  BY <1>2, <1>3, Counted
<1>5. m \in Readies
  BY <1>2 DEF Pages, Readies
<1>6. e \in Seq(Nat) /\ Len(e) = 1
  OBVIOUS
<1> HIDE DEF D, e, m
<1>7. k \in Pages
  <2> DEFINE n == D + 1
             l == [page EXCEPT !.doc = n, !.entries = e]
  <2>0. n \in Nat
    BY <1>2
  <2> HIDE DEF n
  <2>1. l \in Pages
    BY ONLY <1>2, <1>6, <2>0 DEF Pages
  <2>2. k = [l EXCEPT !.index = 1, !.seq = 0, !.nonce = 0]
    BY DEF n
  <2> HIDE DEF l, k
  <2> QED BY <2>1, <2>2 DEF Pages
<1>8. k.doc = D + 1 /\ k.nonce = 0 /\ k.entries = e /\ k.index = 1
  BY <1>2 DEF Pages
<1> HIDE DEF k
<1>9. AtAnEntry(k)
  <2>1. k.index = 1 /\ Len(k.entries) = 1
    BY <1>6, <1>8
  <2> QED BY ONLY <2>1 DEF AtAnEntry
<1>10. Talk(hist, ctrl, k, Append(toUI, m), toPage, D + 1, tally.nonces)
  BY <1>1, <1>2, <1>3, <1>5, <1>7, <1>8, <1>9, TalkLoaded
<1>11. Append(toUI, m) \in Seq(Messages)
  BY <1>2, <1>5 DEF Messages
<1> QED BY <1>2, <1>3, <1>4, <1>7, <1>10, <1>11, PageActs

\* A push cuts off what was ahead, and the oldest entry when there are too many.
LEMMA PushedAhead ==
  ASSUME NEW p \in Pages, AtAnEntry(p)
  PROVE  LET k == Pushed(p) IN
         /\ k \in Pages /\ AtAnEntry(k) /\ k.doc = p.doc /\ k.nonce = p.nonce /\ k.seq > p.seq
<1> DEFINE t == SubSeq(p.entries, 1, p.index)
           a == Append(t, p.seq + 1)
           e == Trimmed(a)
           n == Len(e)
           q == p.seq + 1
           k == [p EXCEPT !.entries = e, !.index = n, !.seq = q]
<1>1. p.entries \in Seq(Nat) /\ p.index \in Nat /\ q \in Nat /\ p.seq \in Nat /\ q > p.seq
  BY DEF Pages
<1>2. p.index >= 1 /\ p.index <= Len(p.entries)
  BY <1>1 DEF AtAnEntry
<1>3. t \in Seq(Nat) /\ Len(t) = p.index
  BY <1>1, <1>2
<1> HIDE DEF t
<1>4. a \in Seq(Nat) /\ Len(a) = p.index + 1
  BY <1>1, <1>3
<1> HIDE DEF a
<1>5. e \in Seq(Nat) /\ n \in Nat /\ n >= 1
  <2>1. CASE Len(a) > MaxJournal
    <3>1. e = Tail(a) /\ a # <<>>
      BY <1>1, <1>4, <2>1 DEF Trimmed
    <3>2. Tail(a) \in Seq(Nat) /\ Len(Tail(a)) = Len(a) - 1
      BY <1>4, <3>1
    <3> QED BY <1>1, <1>2, <1>4, <2>1, <3>1, <3>2, JournalsHoldSome
  <2>2. CASE ~(Len(a) > MaxJournal)
    <3>1. e = a
      BY <2>2 DEF Trimmed
    <3> QED BY <1>1, <1>4, <3>1
  <2> QED BY <2>1, <2>2
<1>6. k = Pushed(p)
  BY DEF Pushed, a, t
<1> HIDE DEF e, q
<1>7. n = Len(e)
  OBVIOUS
<1> HIDE DEF n
<1>8. k \in Pages
  <2> DEFINE l == [p EXCEPT !.entries = e, !.index = n]
  <2>1. l \in Pages
    BY ONLY <1>5, p \in Pages DEF Pages
  <2>2. k = [l EXCEPT !.seq = q]
    OBVIOUS
  <2> HIDE DEF l, k
  <2> QED BY ONLY <1>1, <2>1, <2>2 DEF Pages
<1>9. k.doc = p.doc /\ k.nonce = p.nonce /\ k.entries = e /\ k.index = n /\ k.seq = q
  BY DEF Pages
<1> HIDE DEF k
<1>10. AtAnEntry(k)
  <2>1. k.index = n /\ Len(k.entries) = n
    BY <1>7, <1>9
  <2> QED BY ONLY <2>1, <1>5 DEF AtAnEntry
<1> QED BY <1>1, <1>6, <1>8, <1>9, <1>10

LEMMA MovesKeeps ==
  ASSUME HistoryInv, NEW kind \in {"push", "replace"}, JournalMoves(kind)
  PROVE  HistoryInv'
<1> DEFINE k == IF kind = "push" THEN Pushed(page) ELSE [page EXCEPT !.seq = @ + 1]
<1>1. HistoryTypes /\ Talk(hist, ctrl, page, toUI, toPage, tally.docs, tally.nonces)
  BY DEF HistoryInv
<1>2. /\ page \in Pages /\ tally \in Counters /\ toUI \in Seq(Messages) /\ toPage \in Seq(Requested)
      /\ Knows(hist, ctrl, page, tally.docs, tally.nonces) /\ tally.docs \in Nat /\ tally.nonces \in Nat
  BY <1>1, Known DEF HistoryTypes
<1>3. /\ page.doc # 0 /\ Count("moves", MaxChanges) /\ page' = k /\ toUI' = Report(k, kind)
      /\ UNCHANGED <<hist, ctrl, ops, toPage>>
  BY DEF JournalMoves, Announced
<1>4. tally' \in Counters /\ tally'.nonces = tally.nonces /\ tally'.docs = tally.docs
  BY <1>2, <1>3, Counted
<1>5. AtAnEntry(page)
  BY <1>1, <1>3 DEF Talk, PageKnown
<1>6. k \in Pages /\ AtAnEntry(k) /\ k.doc = page.doc /\ k.nonce = page.nonce /\ k.seq > page.seq
  <2>1. CASE kind = "push"
    BY <1>2, <1>5, <2>1, PushedAhead
  <2>2. CASE kind # "push"
    <3> DEFINE q == page.seq + 1
    <3>1. q \in Nat /\ q > page.seq
      BY <1>2 DEF Pages
    <3>2. k = [page EXCEPT !.seq = q]
      BY <2>2
    <3> HIDE DEF q, k
    <3>3. k \in Pages /\ k.doc = page.doc /\ k.nonce = page.nonce /\ k.seq = q
          /\ k.entries = page.entries /\ k.index = page.index
      BY ONLY <1>2, <3>1, <3>2 DEF Pages
    <3> QED BY <1>5, <3>1, <3>3 DEF AtAnEntry
  <2> QED BY <2>1, <2>2
<1> HIDE DEF k
<1>7. Talk(hist, ctrl, k, toUI, toPage, tally.docs, tally.nonces)
  BY <1>1, <1>2, <1>3, <1>6, TalkAfterChange
<1>8. Report(k, kind) \in Seq(Messages) /\ Talk(hist, ctrl, k, Report(k, kind), toPage, tally.docs, tally.nonces)
  BY <1>1, <1>2, <1>6, <1>7, Announcing DEF Kinds
<1> QED BY <1>2, <1>3, <1>4, <1>6, <1>8, PageActs

LEMMA AsksBackKeeps ==
  ASSUME HistoryInv, AsksBack
  PROVE  HistoryInv'
<1> DEFINE m == [kind |-> "history", visit |-> page.visit, nonce |-> page.nonce, doc |-> page.doc]
<1>1. HistoryTypes /\ Talk(hist, ctrl, page, toUI, toPage, tally.docs, tally.nonces)
  BY DEF HistoryInv
<1>2. page \in Pages /\ tally \in Counters /\ toUI \in Seq(Messages) /\ toPage \in Seq(Requested)
  BY <1>1 DEF HistoryTypes
<1>3. /\ Count("moves", MaxChanges) /\ toUI' = Append(toUI, m) /\ UNCHANGED <<hist, ctrl, ops, page, toPage>>
  BY DEF AsksBack
<1>4. tally' \in Counters /\ tally'.nonces = tally.nonces /\ tally'.docs = tally.docs
  BY <1>2, <1>3, Counted
<1>5. m \in Others
  BY <1>2 DEF Pages, Others
<1> HIDE DEF m
<1>6. Append(toUI, m) \in Seq(Messages)
  BY <1>2, <1>5 DEF Messages
<1>7. Talk(hist, ctrl, page, Append(toUI, m), toPage, tally.docs, tally.nonces)
  BY <1>1, <1>2, <1>5, TalkAnswered
<1> QED BY <1>2, <1>3, <1>4, <1>6, <1>7, PageActs

LEMMA LeavesKeeps ==
  ASSUME HistoryInv, PageLeaves
  PROVE  HistoryInv'
<1> DEFINE k == [page EXCEPT !.doc = 0, !.nonce = 0]
           m == [kind |-> "navigating", visit |-> page.visit, nonce |-> page.nonce]
           r == IF page.nonce = 0 THEN toUI ELSE Append(toUI, m)
<1>1. HistoryTypes /\ Talk(hist, ctrl, page, toUI, toPage, tally.docs, tally.nonces)
  BY DEF HistoryInv
<1>2. /\ page \in Pages /\ tally \in Counters /\ toUI \in Seq(Messages) /\ toPage \in Seq(Requested)
      /\ Knows(hist, ctrl, page, tally.docs, tally.nonces)
  BY <1>1, Known DEF HistoryTypes
<1>3. /\ Count("moves", MaxChanges) /\ page' = k /\ toUI' = r /\ UNCHANGED <<hist, ctrl, ops, toPage>>
  BY DEF PageLeaves
<1>4. tally' \in Counters /\ tally'.nonces = tally.nonces /\ tally'.docs = tally.docs
  BY <1>2, <1>3, Counted
<1>5. k \in Pages /\ k.doc = 0 /\ k.nonce = 0
  BY <1>2 DEF Pages
<1>6. m \in Departures /\ m.nonce = page.nonce
  BY <1>2 DEF Pages, Departures
<1> HIDE DEF k, m
<1>7. \/ r = toUI
      \/ page.nonce # 0 /\ \E x \in Departures : x.nonce = page.nonce /\ r = Append(toUI, x)
  BY <1>6
<1> HIDE DEF r
<1>8. r \in Seq(Messages) /\ Talk(hist, ctrl, k, r, toPage, tally.docs, tally.nonces)
  BY <1>1, <1>2, <1>5, <1>7, TalkLeft
<1> QED BY <1>2, <1>3, <1>4, <1>5, <1>8, PageActs

\* A traversal leads to another entry of the journal, or nowhere.
LEMMA TraversedThere ==
  ASSUME NEW p \in Pages, AtAnEntry(p), NEW m
  PROVE  LET k == Traversed(p, m) IN
         /\ k \in Pages /\ AtAnEntry(k) /\ k.doc = p.doc /\ k.nonce = p.nonce /\ k.seq > p.seq
<1> DEFINE T == AtEntry(p, m)
           i == IF StaleView(p, m) THEN p.index ELSE First(T)
           q == p.seq + 1
           k == [p EXCEPT !.seq = q, !.index = i]
<1>1. p.entries \in Seq(Nat) /\ p.index \in Nat /\ q \in Nat /\ q > p.seq
  BY DEF Pages
<1>2. p.index \in 1 .. Len(p.entries)
  BY DEF AtAnEntry
<1>3. T \subseteq 1 .. Len(p.entries)
  BY <1>1 DEF AtEntry
<1>4. k = Traversed(p, m)
  BY DEF Traversed
<1>5. i \in 1 .. Len(p.entries)
  <2>1. CASE StaleView(p, m)
    BY <1>2, <2>1
  <2>2. CASE ~StaleView(p, m)
    <3>1. T # {}
      BY <2>2 DEF StaleView
    <3> HIDE DEF T
    <3>2. T \in SUBSET Nat
      BY <1>3
    <3>3. First(T) \in T
      BY <3>1, <3>2, Least
    <3> QED BY <1>3, <2>2, <3>3
  <2> QED BY <2>1, <2>2
<1>6. i \in Nat
  BY <1>5
<1> HIDE DEF i, q, k, T
<1>7. /\ k \in Pages /\ k.doc = p.doc /\ k.nonce = p.nonce /\ k.seq = q /\ k.index = i /\ k.entries = p.entries
  BY ONLY <1>1, <1>6, p \in Pages DEF k, Pages
<1>8. AtAnEntry(k)
  BY <1>5, <1>7 DEF AtAnEntry
<1> QED BY <1>1, <1>4, <1>7, <1>8

LEMMA PageHearsKeeps ==
  ASSUME HistoryInv, PageHears
  PROVE  HistoryInv'
<1> DEFINE m == Head(toPage)
           D == tally.docs
           N == tally.nonces
<1>1. HistoryTypes /\ Talk(hist, ctrl, page, toUI, toPage, D, N)
  BY DEF HistoryInv
<1>2. /\ page \in Pages /\ tally \in Counters /\ toUI \in Seq(Messages) /\ toPage \in Seq(Requested)
      /\ Knows(hist, ctrl, page, D, N) /\ D \in Nat /\ N \in Nat
  BY <1>1, Known DEF HistoryTypes
<1>3. /\ toPage # <<>> /\ page.doc # 0 /\ toPage' = Tail(toPage) /\ UNCHANGED <<hist, ctrl, ops, tally>>
  BY DEF PageHears
<1>4. Tail(toPage) \in Seq(Requested) /\ m \in Requested
  BY <1>2, <1>3, ElemsLeft
<1>5. tally' \in Counters /\ tally'.nonces = N /\ tally'.docs = D
  BY <1>2, <1>3
<1>6. AtAnEntry(page)
  BY <1>1, <1>3 DEF Talk, PageKnown
<1>7. CASE m.kind = "attach"
  <2> DEFINE nonce == m.nonce
             k == [page EXCEPT !.nonce = nonce]
  <2>1. page' = k /\ toUI' = Report(k, "sync")
    BY <1>7 DEF PageHears, Announced
  <2>2. nonce \in Nat
    BY <1>4, <1>7 DEF Requested, Attaches, Traverses
  <2> HIDE DEF nonce
  <2>3. /\ k \in Pages /\ k.doc = page.doc /\ k.nonce = nonce /\ k.seq = page.seq
        /\ k.entries = page.entries /\ k.index = page.index
    BY <1>2, <2>2 DEF Pages
  <2> HIDE DEF k
  <2>4. Talk(hist, ctrl, k, toUI, Tail(toPage), D, N)
    BY <1>1, <1>2, <1>3, <1>7, <2>3, TalkAfterSync DEF nonce
  <2>5. Report(k, "sync") \in Seq(Messages) /\ Talk(hist, ctrl, k, Report(k, "sync"), Tail(toPage), D, N)
    <3>1. "sync" \in Kinds
      BY DEF Kinds
    <3> QED BY <1>1, <1>2, <1>4, <2>3, <2>4, <3>1, Announcing
  <2> QED BY <1>3, <1>4, <1>5, <2>1, <2>3, <2>5, PageActs
<1>8. Talk(hist, ctrl, page, toUI, Tail(toPage), D, N)
  BY <1>1, <1>2, <1>3, TalkSkipped
<1>9. CASE m.kind = "traverse" /\ m.nonce = page.nonce /\ m.doc = page.doc
  <2> DEFINE k == Traversed(page, m)
             change == IF StaleView(page, m) THEN "sync" ELSE "traverse"
             r == Report(k, change)
             x == [kind |-> "traversed", visit |-> k.visit, nonce |-> k.nonce, doc |-> k.doc]
  <2>1. page' = k /\ toUI' = Append(r, x)
    BY <1>9 DEF PageHears
  <2>2. k \in Pages /\ AtAnEntry(k) /\ k.doc = page.doc /\ k.nonce = page.nonce /\ k.seq > page.seq
    BY <1>2, <1>6, TraversedThere
  <2>3. change \in Kinds
    BY DEF Kinds
  <2> HIDE DEF k, change
  <2>4. x \in Others
    BY <2>2 DEF Pages, Others
  <2> HIDE DEF x
  <2>5. Talk(hist, ctrl, k, toUI, Tail(toPage), D, N)
    BY <1>2, <1>3, <1>4, <1>8, <2>2, TalkAfterChange
  <2>6. r \in Seq(Messages) /\ Talk(hist, ctrl, k, r, Tail(toPage), D, N)
    BY <1>1, <1>2, <1>4, <2>2, <2>3, <2>5, Announcing
  <2> HIDE DEF r
  <2>7. Talk(hist, ctrl, k, Append(r, x), Tail(toPage), D, N)
    BY <1>4, <2>4, <2>6, TalkAnswered
  <2>8. Append(r, x) \in Seq(Messages)
    BY <2>4, <2>6 DEF Messages
  <2> QED BY <1>3, <1>4, <1>5, <2>1, <2>2, <2>7, <2>8, PageActs
<1>10. CASE m.kind # "attach" /\ ~(m.kind = "traverse" /\ m.nonce = page.nonce /\ m.doc = page.doc)
  <2>1. page' = page /\ toUI' = toUI
    BY <1>10 DEF PageHears
  <2> QED BY <1>2, <1>3, <1>4, <1>5, <1>8, <2>1, PageActs
<1> QED BY <1>7, <1>9, <1>10

-----------------------------------------------------------------------------
(* What the toolbar hears.                                                 *)
LEMMA UnheardKeeps ==
  ASSUME HistoryInv, toUI # <<>>, toUI' = Tail(toUI), UNCHANGED <<page, ctrl, hist, ops, toPage, tally>>
  PROVE  HistoryInv'
<1>1. HistoryTypes /\ Core(hist, ctrl)
  BY DEF HistoryInv
<1>2. /\ hist \in Toolbars /\ ctrl \in Controllers /\ tally \in Counters /\ ops \in Seq(Openings)
      /\ toPage \in Seq(Requested)
  BY <1>1 DEF HistoryTypes
<1> DEFINE b == Became(hist, ctrl, <<>>, <<>>)
<1>3. b.h = hist /\ b.c = ctrl /\ b.opened = <<>> /\ b.asks = <<>>
  BY DEF Became
<1>4. Quiet(ctrl, ctrl)
  BY DEF Quiet, SameView
<1>5. Sound(hist, ctrl, b)
  BY <1>1, <1>2, <1>4, NothingSound
<1> HIDE DEF b
<1>6. ops \o <<>> = ops /\ toPage \o <<>> = toPage
  BY <1>2
<1>7. Becomes(b)
  BY <1>3, <1>6 DEF Becomes
<1>8. SameNumbers
  BY <1>2 DEF SameNumbers
<1> QED BY <1>5, <1>7, <1>8, Answering

LEMMA AttachKeeps ==
  ASSUME HistoryInv, toUI # <<>>, toUI' = Tail(toUI), Head(toUI).kind = "ready", Attach,
         page' = page
  PROVE  HistoryInv'
<1> DEFINE D == tally.docs
           N == tally.nonces
           nonce == N + 1
           x == [kind |-> "attach", nonce |-> nonce]
           e == [ctrl EXCEPT !.nonce = nonce, !.doc = 0]
           n == -1
           d == [e EXCEPT !.hseq = n, !.traversal = Nil]
           g == StepCancelled(hist, ctrl)
<1>1. HistoryTypes /\ Core(hist, ctrl) /\ Placing(hist, ops) /\ Talk(hist, ctrl, page, toUI, toPage, D, N)
  BY DEF HistoryInv
<1>2. /\ page \in Pages /\ tally \in Counters /\ toUI \in Seq(Messages) /\ toPage \in Seq(Requested)
      /\ hist \in Toolbars /\ ctrl \in Controllers /\ ops \in Seq(Openings)
      /\ Knows(hist, ctrl, page, D, N) /\ D \in Nat /\ N \in Nat
  BY <1>1, Known DEF HistoryTypes
<1>3. /\ hist' = g /\ ctrl' = d /\ toPage' = Append(toPage, x) /\ ops' = ops
      /\ tally' = [tally EXCEPT !.nonces = nonce]
  BY DEF Attach
<1>4. nonce \in Nat /\ n \in Int
  BY <1>2
<1> HIDE DEF n
<1>5. e \in Controllers
  BY <1>2, <1>4 DEF Controllers
<1>6. /\ e.nonce = nonce /\ e.doc = 0 /\ e.journal = ctrl.journal /\ e.url = ctrl.url
      /\ e.loading = ctrl.loading /\ e.expired = ctrl.expired
  BY <1>2 DEF Controllers
<1> HIDE DEF e
<1>7. d \in Controllers
  BY <1>4, <1>5 DEF Controllers
<1>8. /\ d.nonce = nonce /\ d.doc = 0 /\ d.journal = ctrl.journal /\ d.url = ctrl.url
      /\ d.loading = ctrl.loading /\ d.expired = ctrl.expired
  BY <1>5, <1>6 DEF Controllers
<1> HIDE DEF d
<1>9. SameView(ctrl, d)
  BY <1>8 DEF SameView
<1>10. Returns(hist, g)
  BY <1>2, CancelledStep
<1> HIDE DEF g
<1>11. g \in Toolbars /\ g.list = hist.list /\ g.key = hist.key
  BY <1>10 DEF Returns
<1>12. Core(g, d)
  BY <1>1, <1>2, <1>7, <1>8, <1>9, <1>10, Returned
<1>13. x \in Attaches /\ x.nonce = nonce
  BY <1>4 DEF Attaches
<1> HIDE DEF x
<1>14. tally' \in Counters /\ tally'.docs = D /\ tally'.nonces = nonce
  BY <1>2, <1>3, <1>4 DEF Counters
<1>15. Talk(g, d, page, Tail(toUI), Append(toPage, x), D, nonce)
  BY <1>1, <1>2, <1>7, <1>8, <1>11, <1>13, TalkAfterAttach
<1>16. HistoryTypes'
  <2>1. Append(toPage, x) \in Seq(Requested)
    BY <1>2, <1>13 DEF Requested
  <2>2. Tail(toUI) \in Seq(Messages)
    BY <1>2
  <2> QED BY <1>2, <1>3, <1>7, <1>11, <1>14, <2>1, <2>2 DEF HistoryTypes
<1>17. Placing(g, ops)
  BY <1>1, <1>11 DEF Placing
<1> QED BY <1>3, <1>12, <1>14, <1>15, <1>16, <1>17 DEF HistoryInv

LEMMA HearsStateKeeps ==
  ASSUME HistoryInv, toUI # <<>>, toUI' = Tail(toUI), Head(toUI).kind = "state",
         HearsState(Head(toUI)), page' = page
  PROVE  HistoryInv'
<1> DEFINE D == tally.docs
           N == tally.nonces
           m == Head(toUI)
           J == [doc |-> m.doc, seq |-> m.seq, entries |-> m.entries, index |-> m.index]
           e == [ctrl EXCEPT !.doc = m.doc, !.hseq = m.seq]
           c == [e EXCEPT !.loading = FALSE, !.journal = J]
           r == Reported(hist, c, m.change)
           notice == r.notice /\ Waiting(hist)
           g == [r EXCEPT !.notice = notice]
<1>1. HistoryTypes /\ Core(hist, ctrl) /\ Placing(hist, ops) /\ Talk(hist, ctrl, page, toUI, toPage, D, N)
  BY DEF HistoryInv
<1>2. /\ page \in Pages /\ tally \in Counters /\ toUI \in Seq(Messages) /\ toPage \in Seq(Requested)
      /\ hist \in Toolbars /\ ctrl \in Controllers /\ ops \in Seq(Openings)
      /\ Knows(hist, ctrl, page, D, N) /\ D \in Nat /\ N \in Nat
  BY <1>1, Known DEF HistoryTypes
<1>3. m \in Messages /\ m \in Elems(toUI)
  BY <1>2, ElemsLeft
<1>4. m \in Reports
  BY <1>3 DEF Messages, Readies, Departures, Others
<1>5. m.doc \in Nat /\ m.seq \in Nat /\ m.entries \in Seq(Nat) /\ m.index \in Nat /\ m.nonce \in Nat
  BY <1>4 DEF Reports
<1>6. UNCHANGED <<ops, toPage, tally>>
  BY DEF HearsState
<1>7. ~OfShown(m) => UNCHANGED <<ctrl, hist>>
  BY DEF HearsState
<1>8. OfShown(m) => ctrl' = c /\ hist' = g
  BY <1>2 DEF HearsState, Controllers
<1>9. CASE ~OfShown(m)
  BY <1>6, <1>7, <1>9, UnheardKeeps
<1>10. CASE OfShown(m)
  <2>1. m.nonce = ctrl.nonce /\ ctrl.nonce # 0
    BY <1>10 DEF OfShown
  <2>2. Said(hist, ctrl, page, D, N, m) /\ m.kind = "state"
    BY <1>1, <1>3 DEF Talk
  <2>3. /\ AtAnEntry(m) /\ m.doc # 0 /\ News(hist, ctrl, m)
        /\ ctrl.loading /\ ctrl.journal # Nil => m.doc > ctrl.journal.doc
    BY <2>1, <2>2 DEF Said, Busy
  <2>4. J \in Journals /\ J.doc = m.doc /\ J.seq = m.seq /\ J.entries = m.entries /\ J.index = m.index
    BY <1>5 DEF Journals
  <2>5. J # Nil
    BY <2>4, NilIsApart
  <2>6. J = [doc |-> Head(toUI).doc, seq |-> Head(toUI).seq, entries |-> Head(toUI).entries,
             index |-> Head(toUI).index]
    OBVIOUS
  <2>7. Head(toUI).kind = "state" /\ m = Head(toUI)
    OBVIOUS
  <2> HIDE DEF m, J
  <2>8. e \in Controllers
    <3> DEFINE x == m.doc
               y == m.seq
               f == [ctrl EXCEPT !.doc = x]
    <3>1. x \in Nat /\ y \in Int /\ e = [f EXCEPT !.hseq = y]
      BY <1>5
    <3> HIDE DEF x, y, e
    <3>2. f \in Controllers
      BY ONLY <1>2, <3>1 DEF Controllers
    <3> HIDE DEF f
    <3> QED BY ONLY <3>1, <3>2 DEF Controllers
  <2>9. /\ e.url = ctrl.url /\ e.expired = ctrl.expired /\ e.nonce = ctrl.nonce
    BY <1>2 DEF Controllers
  <2> HIDE DEF e
  <2>10. c \in Controllers
    BY <2>4, <2>8 DEF Controllers
  <2>11. /\ c.url = ctrl.url /\ c.expired = ctrl.expired /\ c.nonce = ctrl.nonce /\ ~c.loading /\ c.journal = J
    BY <2>8, <2>9 DEF Controllers
  <2> HIDE DEF c
  <2>12. AtAnEntry(J) /\ J.doc # 0
    BY <2>3, <2>4 DEF AtAnEntry
  <2>13. News(hist, ctrl, J)
    BY <2>3, <2>4 DEF News, Older
  <2>14. ctrl.loading /\ ctrl.journal # Nil => ctrl.journal.doc < J.doc
    <3> SUFFICES ASSUME ctrl.loading, ctrl.journal # Nil PROVE ctrl.journal.doc < J.doc
      OBVIOUS
    <3>1. ctrl.journal.doc \in Nat
      BY <1>2 DEF Controllers, Journals
    <3> QED BY <3>1, <1>5, <2>3, <2>4
  <2>15. Takes(hist, ctrl, c)
    BY <2>4, <2>5, <2>11, <2>12, <2>13, <2>14 DEF Takes
  <2>16. r \in Toolbars /\ Core(r, c) /\ (hist.list # <<>> => r.list # <<>>)
    BY <1>1, <1>2, <2>10, <2>15, ReportedCore
  <2> HIDE DEF r
  <2>17. notice \in BOOLEAN
    BY <2>16 DEF Toolbars, Waiting
  <2> HIDE DEF notice
  <2>18. /\ g \in Toolbars /\ g.list = r.list /\ g.key = r.key /\ g.astray = r.astray
         /\ g.position = r.position /\ g.target = r.target
    BY <2>16, <2>17 DEF Toolbars
  <2> HIDE DEF g
  <2>19. Core(g, c)
    BY <2>10, <2>16, <2>18, Unlisted
  <2>20. Talk(g, c, page, Tail(toUI), toPage, D, N)
    <3>1. Whole(g, c)
      BY <2>19 DEF Core
    <3> QED BY <1>1, <1>2, <2>5, <2>6, <2>7, <2>10, <2>11, <2>18, <3>1, TalkAfterReport
  <2>21. Placing(g, ops)
    BY <1>1, <2>16, <2>18 DEF Placing
  <2>22. HistoryTypes'
    <3>1. Tail(toUI) \in Seq(Messages)
      BY <1>2
    <3> QED BY <1>2, <1>6, <1>8, <1>10, <2>10, <2>18, <3>1 DEF HistoryTypes
  <2> QED BY <1>6, <1>8, <1>10, <2>19, <2>20, <2>21, <2>22 DEF HistoryInv
<1> QED BY <1>9, <1>10

LEMMA HearsNavigatingKeeps ==
  ASSUME HistoryInv, toUI # <<>>, toUI' = Tail(toUI), Head(toUI).kind = "navigating",
         HearsNavigating(Head(toUI)), page' = page
  PROVE  HistoryInv'
<1> DEFINE D == tally.docs
           N == tally.nonces
           m == Head(toUI)
           heard == m.nonce = ctrl.nonce /\ ctrl.nonce # 0 /\ ~ctrl.loading
           d == [ctrl EXCEPT !.loading = TRUE]
           g == [Claimed(hist, ctrl) EXCEPT !.astray = @ \/ Waiting(hist)]
<1>1. HistoryTypes /\ Core(hist, ctrl) /\ Placing(hist, ops) /\ Talk(hist, ctrl, page, toUI, toPage, D, N)
  BY DEF HistoryInv
<1>2. /\ page \in Pages /\ tally \in Counters /\ toUI \in Seq(Messages) /\ toPage \in Seq(Requested)
      /\ hist \in Toolbars /\ ctrl \in Controllers /\ ops \in Seq(Openings)
      /\ Knows(hist, ctrl, page, D, N) /\ D \in Nat /\ N \in Nat
  BY <1>1, Known DEF HistoryTypes
<1>3. UNCHANGED <<ops, toPage, tally>>
  BY DEF HearsNavigating
<1>4. IF heard THEN ctrl' = d /\ hist' = g ELSE UNCHANGED <<ctrl, hist>>
  BY DEF HearsNavigating
<1>5. CASE ~heard
  BY <1>3, <1>4, <1>5, UnheardKeeps
<1>6. CASE heard
  <2>1. g \in Toolbars /\ d \in Controllers /\ Core(g, d) /\ g.list = hist.list /\ g.key = hist.key
    BY <1>1, <1>2, <1>6, NavigatingCore
  <2>2. d.nonce = ctrl.nonce /\ d.journal = ctrl.journal
    BY <1>2 DEF Controllers
  <2>3. ctrl' = d /\ hist' = g
    BY <1>4, <1>6
  <2>4. Head(toUI).nonce = ctrl.nonce
    BY <1>6
  <2> HIDE DEF d, g
  <2>5. Talk(g, d, page, Tail(toUI), toPage, D, N)
    BY <1>1, <1>2, <2>1, <2>2, <2>4, TalkAfterDeparture
  <2>6. Placing(g, ops)
    BY <1>1, <2>1 DEF Placing
  <2>7. HistoryTypes'
    <3>1. Tail(toUI) \in Seq(Messages)
      BY <1>2
    <3> QED BY <1>2, <1>3, <2>1, <2>3, <3>1 DEF HistoryTypes
  <2> QED BY <1>3, <2>1, <2>3, <2>5, <2>6, <2>7 DEF HistoryInv
<1> QED BY <1>5, <1>6

LEMMA HearsTraversedKeeps ==
  ASSUME HistoryInv, toUI # <<>>, toUI' = Tail(toUI), HearsTraversed(Head(toUI)), page' = page
  PROVE  HistoryInv'
<1> DEFINE d == [ctrl EXCEPT !.traversal = Nil]
           b == Walk(hist, d)
<1>1. HistoryTypes /\ Core(hist, ctrl)
  BY DEF HistoryInv
<1>2. hist \in Toolbars /\ ctrl \in Controllers /\ tally \in Counters
  BY <1>1 DEF HistoryTypes
<1>3. tally' = tally /\ (Becomes(b) \/ UNCHANGED <<ctrl, hist, ops, toPage>>)
  BY DEF HearsTraversed
<1>4. d \in Controllers /\ Quiet(ctrl, d)
  BY <1>2 DEF Controllers, Quiet, SameView
<1> HIDE DEF d
<1>5. Returns(hist, hist)
  BY <1>2 DEF Returns
<1>6. Core(hist, d) /\ Grown(hist, hist)
  BY <1>1, <1>2, <1>4, <1>5, QuietKept
<1>7. Sound(hist, d, b)
  BY <1>2, <1>4, <1>6, WalkSound
<1> HIDE DEF b
<1>8. Sound(hist, ctrl, b)
  BY <1>4, <1>6, <1>7, SoundFrom
<1>9. SameNumbers
  BY <1>2, <1>3 DEF SameNumbers
<1>10. CASE Becomes(b)
  BY <1>8, <1>9, <1>10, Answering
<1>11. CASE UNCHANGED <<ctrl, hist, ops, toPage>>
  BY <1>3, <1>11, UnheardKeeps
<1> QED BY <1>3, <1>10, <1>11

LEMMA HearsHistoryKeeps ==
  ASSUME HistoryInv, toUI # <<>>, toUI' = Tail(toUI), HearsHistory(Head(toUI)), page' = page
  PROVE  HistoryInv'
<1> DEFINE b == History(hist, ctrl, -1)
<1>1. HistoryTypes /\ Core(hist, ctrl)
  BY DEF HistoryInv
<1>2. hist \in Toolbars /\ ctrl \in Controllers /\ tally \in Counters
  BY <1>1 DEF HistoryTypes
<1>3. tally' = tally /\ (Becomes(b) \/ UNCHANGED <<ctrl, hist, ops, toPage>>)
  BY DEF HearsHistory
<1>4. Sound(hist, ctrl, b)
  BY <1>1, <1>2, HistorySound
<1> HIDE DEF b
<1>5. SameNumbers
  BY <1>2, <1>3 DEF SameNumbers
<1>6. CASE Becomes(b)
  BY <1>4, <1>5, <1>6, Answering
<1>7. CASE UNCHANGED <<ctrl, hist, ops, toPage>>
  BY <1>3, <1>7, UnheardKeeps
<1> QED BY <1>3, <1>6, <1>7

LEMMA HearsKeeps ==
  ASSUME HistoryInv, Hears
  PROVE  HistoryInv'
<1> DEFINE m == Head(toUI)
           deaf == m.visit # ctrl.visit \/ ctrl.expired
<1>1. toUI # <<>> /\ toUI' = Tail(toUI) /\ page' = page
  BY DEF Hears
<1>2. m \in Messages
  <2>1. toUI \in Seq(Messages)
    BY DEF HistoryInv, HistoryTypes
  <2> QED BY <1>1, <2>1, ElemsLeft
<1>3. m.kind \in {"ready", "state", "navigating", "traversed", "history"}
  BY <1>2 DEF Messages, Reports, Readies, Departures, Others
<1>4. CASE deaf
  <2>1. UNCHANGED <<ctrl, hist, ops, toPage, tally>>
    BY <1>4 DEF Hears
  <2> QED BY <1>1, <2>1, UnheardKeeps
<1>5. CASE ~deaf /\ m.kind = "ready"
  <2>1. Attach
    BY <1>5 DEF Hears
  <2> QED BY <1>1, <1>5, <2>1, AttachKeeps
<1>6. CASE ~deaf /\ m.kind = "state"
  <2>1. HearsState(Head(toUI))
    BY <1>6 DEF Hears
  <2> QED BY <1>1, <1>6, <2>1, HearsStateKeeps
<1>7. CASE ~deaf /\ m.kind = "navigating"
  <2>1. HearsNavigating(Head(toUI))
    BY <1>7 DEF Hears
  <2> QED BY <1>1, <1>7, <2>1, HearsNavigatingKeeps
<1>8. CASE ~deaf /\ m.kind = "traversed"
  <2>1. HearsTraversed(Head(toUI))
    BY <1>8 DEF Hears
  <2> QED BY <1>1, <2>1, HearsTraversedKeeps
<1>9. CASE ~deaf /\ m.kind = "history"
  <2>1. HearsHistory(Head(toUI))
    BY <1>9 DEF Hears
  <2> QED BY <1>1, <2>1, HearsHistoryKeeps
<1> QED BY <1>3, <1>4, <1>5, <1>6, <1>7, <1>8, <1>9

-----------------------------------------------------------------------------
LEMMA StandingStill ==
  ASSUME HistoryInv, UNCHANGED histVars
  PROVE  HistoryInv'
<1>1. /\ hist' = hist /\ ctrl' = ctrl /\ ops' = ops /\ page' = page /\ toUI' = toUI /\ toPage' = toPage
      /\ tally' = tally
  BY DEF histVars
<1> QED BY <1>1 DEF HistoryInv, HistoryTypes

LEMMA ListIsTrueThere ==
  ASSUME HistoryInv
  PROVE  ListIsTrue
<1>1. hist \in Toolbars /\ ctrl \in Controllers /\ Core(hist, ctrl)
  BY DEF HistoryInv, HistoryTypes
<1>2. hist.position \in Nat /\ hist.list \in Seq(Slots) /\ hist.position <= Len(hist.list)
  BY <1>1 DEF Toolbars, Core
<1>3. InRange
  BY <1>2 DEF InRange
<1>4. ASSUME Settled, ~hist.astray PROVE Mirrors \/ KeptForIt
  <2>1. /\ ctrl.journal # Nil /\ ~ctrl.expired /\ hist.target = Nil
        /\ hist.key = <<ctrl.journal.doc, ctrl.journal.seq>>
    BY <1>4 DEF Settled
  <2>2. Latest(hist, ctrl) /\ Place(hist) = hist.position
    BY <1>4, <2>1 DEF Latest, Place
  <2>3. MirrorsAt(hist, ctrl, hist.position) \/ KeptAt(hist, ctrl, hist.position)
    BY <1>1, <2>2 DEF Core, Faithful
  <2>4. KeptAt(hist, ctrl, hist.position) => KeptForIt
    BY DEF KeptAt, KeptForIt, AtUrl
  <2>5. ASSUME MirrorsAt(hist, ctrl, hist.position) PROVE Mirrors
    <3> DEFINE J == ctrl.journal
               start == hist.position - J.index + 1
               n == Len(J.entries)
    <3>1. J \in Journals
      BY <1>1, <2>1 DEF Controllers
    <3>2. J.entries \in Seq(Nat) /\ J.index \in Nat /\ n \in Nat /\ DOMAIN J.entries = 1 .. n
      BY <3>1 DEF Journals
    <3>3. start \in Int
      BY <1>2, <3>2
    <3>4. /\ start >= 1 /\ start + n - 1 <= Len(hist.list)
          /\ \A i \in 1 .. Len(hist.list) : hist.list[i].doc = J.doc <=> i \in start .. (start + n - 1)
          /\ \A i \in 1 .. n : hist.list[start + i - 1].id = J.entries[i]
      BY <2>5 DEF MirrorsAt
    <3> HIDE DEF J, start, n
    <3>5. Block(hist.list, J.doc) = {i \in 1 .. Len(hist.list) : hist.list[i].doc = J.doc}
      BY <1>2 DEF Block
    <3>6. start .. (start + n - 1) \subseteq 1 .. Len(hist.list)
      BY <1>2, <3>2, <3>3, <3>4
    <3>7. Block(hist.list, J.doc) = start .. (start + n - 1)
      BY <3>4, <3>5, <3>6
    <3> QED BY <3>2, <3>4, <3>7 DEF Mirrors, J, start, n
  <2> QED BY <2>3, <2>4, <2>5
<1> QED BY <1>3, <1>4 DEF ListIsTrue

(* Back and Forward always start from an entry of the list, and, once the  *)
(* shown document's latest report is in it, from the very entry the        *)
(* document is at, whatever was opened, failed, was superseded or was      *)
(* reported late in between.                                               *)
THEOREM BackAndForwardStartRight == HistorySpec => []ListIsTrue
<1>1. HistoryInit => HistoryInv
  BY HistoryBegins
<1>2. HistoryInv /\ [HistoryNext]_histVars => HistoryInv'
  <2> SUFFICES ASSUME HistoryInv, [HistoryNext]_histVars PROVE HistoryInv'
    OBVIOUS
  <2>1. ASSUME NEW url \in Hrefs, TypeAddress(url) PROVE HistoryInv'
    BY <2>1, TypeKeeps
  <2>2. ASSUME NEW url \in Hrefs, LeavesSite(url) PROVE HistoryInv'
    BY <2>2, LeavesSiteKeeps
  <2>3. ASSUME NEW delta \in {-1, 0, 1}, Press(delta) PROVE HistoryInv'
    BY <2>3, PressKeeps
  <2>4. ASSUME NEW answer \in {"refused", "lost", "reset"}, Fails(answer) PROVE HistoryInv'
    BY <2>4, FailsKeeps
  <2>5. ASSUME NEW kind \in {"push", "replace"}, JournalMoves(kind) PROVE HistoryInv'
    BY <2>5, MovesKeeps
  <2>6. CASE PressRetry
    BY <2>6, PressRetryKeeps
  <2>7. CASE OpenAnswered
    BY <2>7, OpenedKeeps
  <2>8. CASE PageForgotten
    BY <2>8, ForgottenKeeps
  <2>9. CASE Loads
    BY <2>9, LoadsKeeps
  <2>10. CASE AsksBack
    BY <2>10, AsksBackKeeps
  <2>11. CASE PageLeaves
    BY <2>11, LeavesKeeps
  <2>12. CASE PageHears
    BY <2>12, PageHearsKeeps
  <2>13. CASE Hears
    BY <2>13, HearsKeeps
  <2>14. CASE TimesOut
    BY <2>14, TimesOutKeeps
  <2>15. CASE TakesLong
    BY <2>15, TakesLongKeeps
  <2>16. CASE UNCHANGED histVars
    BY <2>16, StandingStill
  <2> QED BY <2>1, <2>2, <2>3, <2>4, <2>5, <2>6, <2>7, <2>8, <2>9, <2>10, <2>11, <2>12, <2>13, <2>14, <2>15,
             <2>16 DEF HistoryNext
<1>3. HistoryInv => ListIsTrue
  BY ListIsTrueThere
<1> QED BY <1>1, <1>2, <1>3, PTL DEF HistorySpec
=============================================================================
