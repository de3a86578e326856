------------------------- MODULE MirrorPageProofs -------------------------
(***************************************************************************)
(* Enter acts on the text that was shown, for any number of acts and       *)
(* faults, as long as no capture confirmed an input it had not seen.       *)
(***************************************************************************)
EXTENDS MirrorPage, FiniteSetTheorems, SequenceTheorems, TLAPS

-----------------------------------------------------------------------------
(* The shapes of the state.                                                *)
Document == [text : Nat, field : Nat]
Packet == [seq : Nat, epoch : Nat, put : [{"text", "field"} -> Nat \cup {Nothing}], input : Nat]
Draft == [seq : Nat, text : Nat]
Input == [kind : {"input"}, text : Nat, seq : Nat, epoch : Nat]
Key == [kind : {"key"}, saw : Nat, epoch : Nat, submits : BOOLEAN]
Action == Input \cup Key \cup [kind : {"navigate"}]

Session == [epoch : Nat, seq : Nat, nodes : Document \cup {Nothing}, packets : Seq(Packet), ack : Nat,
            input : Nat, meta : Nat, last : Nat, result : Nat]
Flight == [at : {"sent", "captures", "answered"}, do : Action, seq : Nat, tries : Nat]
Count == [acts : Nat, faults : Nat, missed : BOOLEAN, overtaken : BOOLEAN]
Toolbar == [epoch : Nat, seq : Nat, ticket : Nat, actionSeq : Nat, failed : BOOLEAN]
Renderer == [epoch : Nat, text : Nat, field : Nat, draft : Draft \cup {Nothing}, serial : Nat]

Polled == [at : {"captured"}, ticket : Nat, epoch : Nat, seq : Nat, nodes : Document \cup {Nothing}, input : Nat]
Batch == [at : {"applies", "applied"}, ticket : Nat, packets : Seq(Packet)]
Polls ==
       [at : {"idle"}]
  \cup [at : {"captures", "waits"}, after : Nat, epoch : Nat, ticket : Nat]
  \cup Polled
  \cup [at : {"based"}, ticket : Nat, seq : Nat]
  \cup Batch
  \cup [at : {"acks"}, seq : Nat]

Types ==
  /\ remote \in Document /\ ses \in Session /\ upd \in Polls
  /\ cap # Nothing => cap \in [who : {"loop", "action", "baseline"}, epoch : Nat, page : Document]
  /\ cli \in Toolbar /\ act \in [at : {"idle"}] \cup Flight
  /\ queue \in Seq(Action)
  /\ ren \in Renderer /\ spent \in Count
  /\ upd.at = "applied" => upd.packets # <<>>

-----------------------------------------------------------------------------
Flying == act.at # "idle"

(* An input for the document there is.                                     *)
Typing(a) == a.kind = "input" /\ a.epoch = ses.epoch

(* Nothing is for a document that is newer than the one shown.             *)
Epochs ==
  /\ ren.epoch <= ses.epoch
  /\ ren.epoch = ses.epoch => cli.epoch = ses.epoch
  /\ \A i \in DOMAIN queue : queue[i].kind # "navigate" => queue[i].epoch <= ren.epoch
  /\ Flying /\ act.do.kind # "navigate" => act.do.epoch <= ren.epoch
  /\ upd.at = "captured" => ren.epoch <= upd.epoch /\ upd.epoch <= ses.epoch
  /\ \A i \in DOMAIN ses.packets : ses.packets[i].epoch <= ses.epoch
  /\ upd.at \in {"applies", "applied"} =>
       \A i \in DOMAIN upd.packets : upd.packets[i].epoch <= ses.epoch

(* Inputs are numbered in the order in which they are performed.           *)
Numbers ==
  /\ 0 < ses.seq /\ ses.input <= ren.serial
  /\ \A i \in DOMAIN queue : queue[i].kind = "input" =>
       /\ ses.input < queue[i].seq /\ queue[i].seq <= ren.serial
       /\ Flying /\ act.do.kind = "input" => act.do.seq < queue[i].seq
  /\ \A i, j \in DOMAIN queue :
       i < j /\ queue[i].kind = "input" /\ queue[j].kind = "input" => queue[i].seq < queue[j].seq
  /\ Flying /\ act.do.kind = "input" =>
       act.do.seq <= ren.serial /\ (~Seen => ses.input < act.do.seq)

(* An action is performed once, and what comes of it is kept then.         *)
Calls ==
  /\ ses.last <= cli.actionSeq /\ ses.result <= cli.actionSeq
  /\ Flying => act.seq <= cli.actionSeq
  /\ act.at \in {"captures", "answered"} => Seen
  /\ Flying /\ act.do.kind = "input" =>
       /\ ses.result = act.seq => act.do.epoch = ses.epoch
       /\ act.at = "captures" => act.do.epoch = ses.epoch
  /\ cap # Nothing => (cap.who = "action" => act.at = "captures")
  /\ cap # Nothing => (cap.who = "baseline" => upd.at = "captures")
  /\ upd.at \in {"captures", "captured", "based"} => cli.seq = 0

-----------------------------------------------------------------------------
(* What the field has once everything before place i of the queue has been *)
(* performed; a refused input may leave it as it was.                      *)
Behind(x) ==
  IF Flying /\ Typing(act.do) THEN x = act.do.text ELSE x = remote.field \/ cli.failed

Expects(i, x) ==
  /\ \A j \in 1 .. i - 1 :
       Typing(queue[j]) /\ (\A k \in j + 1 .. i - 1 : ~Typing(queue[k])) => x = queue[j].text
  /\ (\A k \in 1 .. i - 1 : ~Typing(queue[k])) => Behind(x)

(* Action a is an Enter, pressed on document e when its field had text x.  *)
Sees(a, x, e) == a.kind = "key" /\ a.saw = x /\ a.epoch = e

(* In a field without a form it goes on after a refused text.              *)
Unsure(a) == cli.failed /\ ~a.submits

Shown ==
  /\ \A i \in DOMAIN queue : \A x \in Nat : Sees(queue[i], x, ses.epoch) => Expects(i, x)
  /\ \A i, x \in Nat : ren.epoch = ses.epoch /\ i = Len(queue) + 1 /\ x = ren.field => Expects(i, x)
  /\ act.at = "sent" /\ ~Seen /\ act.do.kind = "key" =>
       (act.do.epoch = ses.epoch => act.do.saw = remote.field \/ Unsure(act.do))
  /\ Flying /\ Seen => (Typing(act.do) => act.do.text = remote.field)
  /\ pressed # Nothing => pressed.saw = pressed.was \/ pressed.unsure

-----------------------------------------------------------------------------
(* The packets of the document there is, wherever they are.                *)
Known(packets) == {packets[i] : i \in DOMAIN packets}

Packets ==
  {p \in Known(ses.packets) \cup (IF upd.at \in {"applies", "applied"} THEN Known(upd.packets) ELSE {}) :
     p.epoch = ses.epoch}

Field(nodes) == IF nodes = Nothing THEN 0 ELSE nodes.field

(* A packet that confirms the last input has the field as it is now.       *)
Confirms ==
  /\ ses.meta <= ses.input
  /\ ses.nodes # Nothing /\ ses.meta = ses.input => ses.nodes.field = remote.field
  /\ ses.nodes = Nothing => Packets = {}
  /\ \A p \in Packets :
       /\ 1 < p.seq /\ p.seq <= ses.seq /\ p.input <= ses.meta
       /\ p.input = ses.input => p.put.field \in {Nothing, remote.field}
  /\ \A p, q \in Packets : p.seq < q.seq => p.input <= q.input

(* The draft is what is shown; once it was performed the field has it.      *)
DraftShown ==
  ren.draft # Nothing =>
    /\ ren.draft.text = ren.field /\ ren.draft.seq = ren.serial
    /\ ren.epoch = ses.epoch /\ ses.input = ren.serial => ren.field = remote.field

(* A packet that the renderer has not had yet.                             *)
Ahead(p) ==
  \/ upd.at \in {"captured", "based"} /\ p.seq > upd.seq
  \/ upd.at = "applied" /\ p.seq > upd.packets[1].seq
  \/ upd.at \in {"idle", "waits", "acks", "applies"} /\ cli.seq # 0 /\ p.seq > cli.seq

(* Without a draft nothing is on its way to the field, and all who know it *)
(* agree about it.                                                         *)
Quiet ==
  ren.epoch = ses.epoch /\ ren.draft = Nothing =>
    /\ \A i \in DOMAIN queue : ~Typing(queue[i])
    /\ Flying => (Typing(act.do) => Seen)
    /\ ren.field = remote.field /\ Field(ses.nodes) = remote.field
    /\ upd.at = "captured" => Field(upd.nodes) = remote.field
    /\ \A p \in Packets : Ahead(p) => p.input = ses.input

(* Nobody has typed into a document that was not shown yet.                *)
Untouched ==
  ren.epoch # ses.epoch =>
    /\ remote.field = 0 /\ Field(ses.nodes) = 0
    /\ upd.at = "captured" => (upd.epoch = ses.epoch => Field(upd.nodes) = 0)
    /\ \A p \in Packets : p.input = ses.input

Mirrored == Shown /\ Confirms /\ DraftShown /\ Quiet /\ Untouched

Inv == Types /\ Epochs /\ Numbers /\ Calls /\ (~spent.overtaken => Mirrored)

NullIsNothing == Nothing \notin Document \cup Draft

-----------------------------------------------------------------------------
(* What is put into the queue is its last, after all that was there but a  *)
(* text that it replaces.                                                  *)
LEMMA EnqueuedIs ==
  ASSUME queue \in Seq(Action), NEW a \in Action
  PROVE  \E m \in Nat :
           /\ Enqueued(a) \in Seq(Action) /\ Len(Enqueued(a)) = m + 1 /\ Enqueued(a)[m + 1] = a
           /\ \A i \in 1 .. m : Enqueued(a)[i] = queue[i]
           /\ \/ m = Len(queue)
              \/ m + 1 = Len(queue) /\ queue[m + 1].kind = "input" /\ a.kind = "input"
<1> DEFINE replaced == a.kind = "input" /\ queue # <<>> /\ Last(queue).kind = "input"
<1>1. CASE ~replaced
  <2>1. Enqueued(a) = Append(queue, a)
    BY <1>1 DEF Enqueued
  <2>2. Len(queue) \in Nat
    OBVIOUS
  <2>3. /\ Append(queue, a) \in Seq(Action) /\ Len(Append(queue, a)) = Len(queue) + 1
        /\ Append(queue, a)[Len(queue) + 1] = a
        /\ \A i \in 1 .. Len(queue) : Append(queue, a)[i] = queue[i]
    BY AppendProperties
  <2> QED BY <2>1, <2>2, <2>3
<1>2. CASE replaced
  <2> DEFINE m == Len(queue) - 1
  <2>1. Enqueued(a) = Append(Front(queue), a)
    BY <1>2 DEF Enqueued
  <2>2. Len(queue) \in Nat /\ Len(queue) > 0
    BY <1>2
  <2>3. m \in Nat /\ Last(queue) = queue[m + 1]
    BY <2>2 DEF Last
  <2>4. \A i \in 1 .. m : queue[i] \in Action
    BY <2>2
  <2>5. Front(queue) = SubSeq(queue, 1, m)
    BY DEF Front
  <2>6. SubSeq(queue, 1, m) \in Seq(Action) /\ Len(SubSeq(queue, 1, m)) = m
        /\ \A i \in 1 .. m : SubSeq(queue, 1, m)[i] = queue[i]
    <3>1. 1 \in Int /\ m \in Int /\ m >= 0
      BY <2>3
    <3> HIDE DEF m
    <3>2. /\ SubSeq(queue, 1, m) \in Seq(Action)
          /\ Len(SubSeq(queue, 1, m)) = IF 1 <= m THEN m - 1 + 1 ELSE 0
          /\ \A i \in 1 .. m - 1 + 1 : SubSeq(queue, 1, m)[i] = queue[1 + i - 1]
      BY <2>4, <3>1, SubSeqProperties
    <3> QED BY <3>1, <3>2
  <2>7. replaced /\ m + 1 = Len(queue)
    BY <1>2, <2>2
  <2>8. queue[m + 1].kind = "input" /\ a.kind = "input"
    BY <2>3, <2>7
  <2> DEFINE f == SubSeq(queue, 1, m)
  <2>9. f \in Seq(Action) /\ Len(f) = m /\ Enqueued(a) = Append(f, a) /\ \A i \in 1 .. m : f[i] = queue[i]
    BY <2>1, <2>5, <2>6
  <2> HIDE DEF f, m, replaced
  <2>10. /\ Enqueued(a) \in Seq(Action) /\ Len(Enqueued(a)) = m + 1 /\ Enqueued(a)[m + 1] = a
         /\ \A i \in 1 .. m : Enqueued(a)[i] = queue[i]
    <3>1. /\ Append(f, a) \in Seq(Action) /\ Len(Append(f, a)) = Len(f) + 1 /\ Append(f, a)[Len(f) + 1] = a
          /\ \A i \in 1 .. Len(f) : Append(f, a)[i] = f[i]
      BY <2>9, AppendProperties
    <3> QED BY <2>9, <3>1
  <2> QED BY <2>3, <2>7, <2>8, <2>10
<1> QED BY <1>1, <1>2

(* The packets beyond one are packets there are.                           *)
LEMMA BeyondIs ==
  ASSUME NEW s \in Seq(Packet), NEW n
  PROVE  Beyond(s, n) \in Seq(Packet) /\ Known(Beyond(s, n)) \subseteq Known(s)
<1> DEFINE D == {i \in DOMAIN s : s[i].seq <= n}
           c == Cardinality(D)
<1>1. c \in Nat
  <2>1. DOMAIN s = 1 .. Len(s) /\ Len(s) \in Nat
    OBVIOUS
  <2>2. IsFiniteSet(1 .. Len(s))
    BY <2>1, FS_Interval
  <2>3. D \subseteq 1 .. Len(s)
    BY <2>1
  <2> HIDE DEF D
  <2> QED BY <2>2, <2>3, FS_Subset, FS_CardinalityType
<1>2. Beyond(s, n) = SubSeq(s, c + 1, Len(s))
  BY DEF Beyond
<1> HIDE DEF c
<1>3. /\ SubSeq(s, c + 1, Len(s)) \in Seq(Packet)
      /\ Len(SubSeq(s, c + 1, Len(s))) = IF c + 1 <= Len(s) THEN Len(s) - (c + 1) + 1 ELSE 0
      /\ \A i \in 1 .. Len(s) - (c + 1) + 1 : SubSeq(s, c + 1, Len(s))[i] = s[c + 1 + i - 1]
  <2>1. c + 1 \in Int /\ Len(s) \in Int /\ \A i \in c + 1 .. Len(s) : s[i] \in Packet
    BY <1>1
  <2> QED BY <2>1, SubSeqProperties
<1> DEFINE r == SubSeq(s, c + 1, Len(s))
<1>4. ASSUME NEW i \in DOMAIN r PROVE \E j \in DOMAIN s : r[i] = s[j]
  <2>1. DOMAIN r = 1 .. Len(r) /\ Len(r) \in Nat
    BY <1>3
  <2>2. i \in 1 .. Len(s) - (c + 1) + 1 /\ c + 1 + i - 1 \in 1 .. Len(s)
    BY <1>1, <1>3, <1>4, <2>1
  <2> QED BY <1>3, <2>2
<1> QED BY <1>2, <1>3, <1>4 DEF Known

-----------------------------------------------------------------------------
LEMMA SessionWith ==
  ASSUME NEW s \in Session
  PROVE  /\ \A n \in Nat : /\ [s EXCEPT !.epoch = n] \in Session /\ [s EXCEPT !.seq = n] \in Session
                           /\ [s EXCEPT !.meta = n] \in Session /\ [s EXCEPT !.input = n] \in Session
                           /\ [s EXCEPT !.last = n] \in Session /\ [s EXCEPT !.result = n] \in Session
                           /\ [s EXCEPT !.ack = n] \in Session
         /\ \A n \in Document \cup {Nothing} : [s EXCEPT !.nodes = n] \in Session
         /\ \A n \in Seq(Packet) : [s EXCEPT !.packets = n] \in Session
BY DEF Session

LEMMA UpdateTyped ==
  ASSUME ses \in Session, NEW content \in Document
  PROVE  /\ Update(ses, content) \in Session
         /\ Put(ses.nodes, content) \in [{"text", "field"} -> Nat \cup {Nothing}]
<1>1. Put(ses.nodes, content) \in [{"text", "field"} -> Nat \cup {Nothing}]
  BY DEF Put, Document
<1>2. [seq |-> ses.seq + 1, epoch |-> ses.epoch, put |-> Put(ses.nodes, content),
       input |-> ses.input] \in Packet
  BY <1>1 DEF Session, Packet
<1> DEFINE p == [seq |-> ses.seq + 1, epoch |-> ses.epoch, put |-> Put(ses.nodes, content),
                 input |-> ses.input]
           ps == IF ses.nodes = Nothing /\ ses.ack = 0 THEN ses.packets ELSE Append(ses.packets, p)
<1>3. ps \in Seq(Packet)
  <2>1. ses.packets \in Seq(Packet) /\ p \in Packet
    BY <1>2 DEF Session
  <2> HIDE DEF p
  <2> QED BY <2>1
<1>4. Update(ses, content) = [ses EXCEPT !.seq = ses.seq + 1, !.nodes = content, !.meta = ses.input,
                                         !.packets = ps]
  BY DEF Update, Session
<1>5. content \in Document \cup {Nothing} /\ ses.seq + 1 \in Nat /\ ses.input \in Nat
  BY DEF Session
<1> HIDE DEF ps
<1>6. [ses EXCEPT !.seq = ses.seq + 1, !.nodes = content, !.meta = ses.input, !.packets = ps] \in Session
  BY <1>3, <1>5 DEF Session
<1> QED BY <1>1, <1>4, <1>6

LEMMA GoesTyped ==
  ASSUME Types, ses' \in Session, NEW who, Goes(who, ses'),
         who = "action" => Flying, who = "baseline" => upd.at = "captures"
  PROVE  /\ act' \in [at : {"idle"}] \cup Flight
         /\ upd' \in Polls /\ (upd'.at = "applied" => upd'.packets # <<>>)
<1>1. act' \in [at : {"idle"}] \cup Flight
  BY DEF Goes, Types, Session, Toolbar, Renderer, Count, Flight, Flying
<1>2. CASE who = "baseline"
  BY <1>2 DEF Goes, Types, Polls, Polled, Batch, Session, Toolbar, Renderer, Count, Flight
<1>3. CASE who # "baseline"
  <2>1. upd' = upd
    BY <1>3 DEF Goes
  <2> QED BY <1>1, <2>1 DEF Types
<1> QED BY <1>1, <1>2, <1>3

(* A capture is committed, as an update or not, or it is missed.           *)
LEMMA CaptureTyped == Types /\ Calls /\ (Commit \/ Overflow \/ CaptureMissed) => Types'
<1>1. SUFFICES ASSUME Types, Calls, Commit \/ Overflow \/ CaptureMissed PROVE Types'
  OBVIOUS
<1>2. cap # Nothing /\ cap' = Nothing /\ cap \in [who : {"loop", "action", "baseline"}, epoch : Nat, page : Document]
  BY <1>1 DEF Commit, Overflow, CaptureMissed, Types, Session, Toolbar, Renderer, Count, Flight
<1>3. ses' \in Session
  <2>1. ses \in Session /\ Update(ses, cap.page) \in Session
    BY <1>1, <1>2, UpdateTyped DEF Types, Session, Toolbar, Renderer, Count, Flight
  <2>2. cap.who = "action" => act.seq \in Nat
    BY <1>1, <1>2 DEF Calls, Types, Session, Toolbar, Renderer, Count, Flight
  <2> DEFINE u == Update(ses, cap.page)
  <2>6. Overflow => ses' = ResultKept(cap.who, [u EXCEPT !.packets = <<>>])
    BY DEF Overflow
  <2>7. Commit => ses' = ResultKept(cap.who, u) \/ ses' = ResultKept(cap.who, ses)
    BY DEF Commit
  <2> HIDE DEF u
  <2>8. \A s \in Session : ResultKept(cap.who, s) \in Session
    <3>1. \A s \in Session : act.seq \in Nat => [s EXCEPT !.result = act.seq] \in Session
      BY SessionWith
    <3> QED BY <2>2, <3>1 DEF ResultKept
  <2>9. u \in Session /\ [u EXCEPT !.packets = <<>>] \in Session
    <3>1. <<>> \in Seq(Packet) /\ u \in Session
      BY <2>1 DEF u
    <3> QED BY <3>1, SessionWith
  <2>3. CASE Commit
    BY <2>1, <2>3, <2>7, <2>8, <2>9
  <2>4. CASE Overflow
    BY <2>1, <2>4, <2>6, <2>8, <2>9
  <2>5. CASE CaptureMissed
    BY <2>1, <2>2, <2>5 DEF CaptureMissed, ResultKept, Session
  <2> QED BY <1>1, <2>3, <2>4, <2>5
<1>4. Goes(cap.who, ses')
  BY <1>1 DEF Commit, Overflow, CaptureMissed
<1>5. (cap.who = "action" => Flying) /\ (cap.who = "baseline" => upd.at = "captures")
  BY <1>1, <1>2 DEF Calls, Flying
<1>6. spent' \in Count
  <2>1. spent \in Count
    BY <1>1 DEF Types, Session, Toolbar, Renderer, Count, Flight
  <2>2. Overtakes(spent) \in Count
    BY <2>1 DEF Overtakes, Count
  <2>3. Commit => spent' = Overtakes(spent)
    BY DEF Commit
  <2>4. Overflow => spent' = [Overtakes(spent) EXCEPT !.faults = @ + 1]
    BY DEF Overflow
  <2>5. CaptureMissed => spent' = [spent EXCEPT !.faults = @ + 1, !.missed = TRUE]
    BY DEF CaptureMissed
  <2> DEFINE o == Overtakes(spent)
  <2> HIDE DEF o
  <2>6. Overflow => spent' = [o EXCEPT !.faults = @ + 1]
    BY <2>4 DEF o
  <2>7. \A u \in Count : /\ [u EXCEPT !.faults = @ + 1] \in Count
                         /\ [u EXCEPT !.faults = @ + 1, !.missed = TRUE] \in Count
    <3>1. TAKE u \in Count
    <3>2. u.faults + 1 \in Nat /\ TRUE \in BOOLEAN
      BY DEF Count
    <3> QED BY <3>2 DEF Count
  <2>8. o \in Count
    BY <2>2 DEF o
  <2> QED BY <1>1, <2>1, <2>2, <2>3, <2>5, <2>6, <2>7, <2>8
<1>7. UNCHANGED <<remote, cli, queue, ren>>
  BY <1>1 DEF Commit, Overflow, CaptureMissed
<1> QED
  BY <1>1, <1>2, <1>3, <1>4, <1>5, <1>6, <1>7, GoesTyped DEF Types, Session, Toolbar, Renderer, Count, Flight

LEMMA PollTyped ==
  Types /\ (Poll \/ Baseline \/ WasBased \/ Updates \/ Apply \/ WasApplied \/ Ack) => Types'
<1>1. SUFFICES ASSUME Types PROVE Poll \/ Baseline \/ WasBased \/ Updates \/ Apply \/ WasApplied \/ Ack => Types'
  OBVIOUS
<1>2. ASSUME Poll PROVE Types'
  BY <1>1, <1>2 DEF Poll, Types, Polls, Polled, Batch, Session, Toolbar, Renderer, Count, Flight
<1>3. ASSUME Baseline PROVE Types'
  <2>1. upd \in Polled
    BY <1>1, <1>3 DEF Baseline, Types, Session, Toolbar, Renderer, Count, Flight, Polls, Polled, Batch
  <2>2. CASE ~Current
    BY <1>1, <1>3, <2>2 DEF Baseline, Types, Polls, Polled, Batch, Session, Toolbar, Renderer, Count, Flight, Idle
  <2>3. CASE Current
    <3> DEFINE there == IF upd.nodes = Nothing THEN BlankPage ELSE upd.nodes
               again == ren.draft # Nothing /\ ren.epoch = upd.epoch
               text == IF again /\ ~Confirmed(upd) THEN ren.draft.text ELSE there.field
               k == ren.serial + 1
               a == [kind |-> "input", text |-> text, seq |-> k, epoch |-> upd.epoch]
    <3>1. there \in Document /\ k \in Nat
      <4>1. BlankPage \in Document /\ upd.nodes \in Document \cup {Nothing} /\ ren.serial \in Nat
        BY <1>1, <2>1 DEF BlankPage, Document, Polled, Types, Renderer
      <4> QED BY <4>1
    <3>2. text \in Nat
      BY <1>1, <3>1 DEF Document, Types, Session, Toolbar, Renderer, Count, Flight, Draft
    <3>3. a \in Action
      BY <2>1, <3>1, <3>2 DEF Action, Input, Polled
    <3>4. Enqueued(a) \in Seq(Action)
      BY <1>1, <3>3, EnqueuedIs DEF Types, Session, Toolbar, Renderer, Count, Flight
    <3>5. /\ cli' = [cli EXCEPT !.epoch = upd.epoch, !.seq = 0]
          /\ ren' = [epoch |-> upd.epoch, text |-> there.text, field |-> text,
                     draft |-> IF again THEN [seq |-> k, text |-> text] ELSE Nothing,
                     serial |-> IF again THEN k ELSE ren.serial]
          /\ queue' = IF again THEN Enqueued(a) ELSE queue
          /\ upd' = [at |-> "based", ticket |-> upd.ticket, seq |-> upd.seq]
          /\ UNCHANGED <<remote, ses, cap, act, spent>>
      BY <1>3, <2>3 DEF Baseline
    <3> HIDE DEF there, again, text, k, a
    <3>6. ren' \in Renderer
      <4>1. there.text \in Nat /\ upd.epoch \in Nat /\ ren.serial \in Nat /\ [seq |-> k, text |-> text] \in Draft
        BY <1>1, <2>1, <3>1, <3>2 DEF Types, Renderer, Polled, Document, Draft
      <4> QED BY <3>1, <3>2, <3>5, <4>1 DEF Renderer
    <3>7. queue' \in Seq(Action)
      BY <1>1, <3>4, <3>5 DEF Types, Session, Toolbar, Renderer, Count, Flight
    <3>8. upd' \in Polls /\ upd'.at # "applied"
      BY <2>1, <3>5 DEF Polls, Polled, Batch
    <3>9. cli' \in Toolbar
      BY <1>1, <2>1, <3>5 DEF Types, Toolbar, Polled
    <3> QED BY <1>1, <3>5, <3>6, <3>7, <3>8, <3>9 DEF Types, Session, Toolbar, Renderer, Count, Flight
  <2> QED BY <2>2, <2>3
<1>4. ASSUME WasBased PROVE Types'
  <2>1. upd \in [at : {"based"}, ticket : Nat, seq : Nat]
    BY <1>1, <1>4 DEF WasBased, Types, Session, Toolbar, Renderer, Count, Flight, Polls, Polled, Batch
  <2>2. upd' \in Polls /\ upd'.at # "applied"
    BY <1>4, <2>1, SMTT(30) DEF WasBased, Polls, Polled, Batch, Idle
  <2>3. cli' \in Toolbar
    BY <1>1, <1>4, <2>1 DEF WasBased, Types, Session, Toolbar, Renderer, Count, Flight
  <2> QED BY <1>1, <1>4, <2>2, <2>3 DEF WasBased, Types, Session, Toolbar, Renderer, Count, Flight
<1>5. ASSUME Updates PROVE Types'
  <2>1. Beyond(ses.packets, upd.after) \in Seq(Packet)
    BY <1>1, BeyondIs DEF Types, Session, Toolbar, Renderer, Count, Flight
  <2>2. upd' \in Polls /\ upd'.at # "applied"
    <3>1. upd \in [at : {"captures", "waits"}, after : Nat, epoch : Nat, ticket : Nat]
      BY <1>1, <1>5 DEF Updates, Types, Session, Toolbar, Renderer, Count, Flight, Polls, Polled, Batch
    <3> DEFINE packets == Beyond(ses.packets, upd.after)
    <3>2. \/ upd' = Idle
          \/ upd' = [upd EXCEPT !.at = "captures"]
          \/ upd' = [at |-> "applies", ticket |-> upd.ticket, packets |-> packets]
      BY <1>5 DEF Updates
    <3>3. packets \in Seq(Packet)
      BY <2>1
    <3> HIDE DEF packets
    <3> QED BY <3>1, <3>2, <3>3 DEF Polls, Polled, Batch, Idle
  <2>3. cli' \in Toolbar
    <3>1. cli' = cli \/ cli' = [cli EXCEPT !.seq = 0]
      BY <1>5 DEF Updates
    <3> QED BY <1>1, <3>1 DEF Types, Toolbar
  <2> QED BY <1>1, <1>5, <2>2, <2>3 DEF Updates, Types, Session, Toolbar, Renderer, Count, Flight
<1>6. ASSUME Apply PROVE Types'
  <2>1. /\ upd \in Batch
        /\ upd.at = "applies"
    BY <1>1, <1>6 DEF Apply, Types, Session, Toolbar, Renderer, Count, Flight, Polls, Polled, Batch
  <2>2. upd.packets # <<>> => Head(upd.packets) \in Packet
    BY <2>1 DEF Batch
  <2>3. upd' \in Polls /\ (upd'.at = "applied" => upd'.packets # <<>>)
    <3>1. cli.seq \in Nat
      BY <1>1 DEF Types, Toolbar
    <3>2. \/ upd' = Idle
          \/ upd' = [at |-> "acks", seq |-> cli.seq]
          \/ upd.packets # <<>> /\ upd' = [upd EXCEPT !.at = "applied"]
      BY <1>6 DEF Apply
    <3> QED BY <2>1, <3>1, <3>2 DEF Polls, Batch, Idle
  <2>4. cli' \in Toolbar
    <3>1. cli' = cli \/ cli' = [cli EXCEPT !.seq = 0]
      BY <1>6 DEF Apply
    <3> QED BY <1>1, <3>1 DEF Types, Toolbar
  <2>5. upd.packets # <<>> => Applied(Head(upd.packets)) \in
          Renderer
    BY <1>1, <2>2 DEF Applied, Types, Session, Toolbar, Renderer, Count, Flight, Packet
  <2>6. ren' \in Renderer
    BY <1>1, <1>6, <2>5 DEF Apply, Types, Session, Toolbar, Renderer, Count, Flight
  <2> QED BY <1>1, <1>6, <2>3, <2>4, <2>6 DEF Apply, Types, Session, Toolbar, Renderer, Count, Flight
<1>7. ASSUME WasApplied PROVE Types'
  <2>1. /\ upd \in Batch
        /\ upd.packets # <<>>
    BY <1>1, <1>7 DEF WasApplied, Types, Session, Toolbar, Renderer, Count, Flight, Polls, Polled, Batch
  <2>2. Head(upd.packets) \in Packet /\ Tail(upd.packets) \in Seq(Packet)
    BY <2>1 DEF Batch
  <2>3. upd' \in Polls /\ upd'.at = "applies"
    BY <1>7, <2>1, <2>2 DEF WasApplied, Polls, Polled, Batch
  <2>4. cli' \in Toolbar
    BY <1>1, <1>7, <2>2 DEF WasApplied, Types, Session, Toolbar, Renderer, Count, Flight, Packet
  <2> QED BY <1>1, <1>7, <2>3, <2>4 DEF WasApplied, Types, Session, Toolbar, Renderer, Count, Flight
<1>8. ASSUME Ack PROVE Types'
  <2>1. upd \in [at : {"acks"}, seq : Nat]
    BY <1>1, <1>8 DEF Ack, Types, Session, Toolbar, Renderer, Count, Flight, Polls, Polled, Batch
  <2>2. Beyond(ses.packets, upd.seq) \in Seq(Packet)
    BY <1>1, BeyondIs DEF Types, Session, Toolbar, Renderer, Count, Flight
  <2>3. ses' \in Session
    BY <1>1, <1>8, <2>1, <2>2 DEF Ack, Types, Session, Toolbar, Renderer, Count, Flight
  <2> QED BY <1>1, <1>8, <2>3 DEF Ack, Types, Session, Toolbar, Renderer, Count, Flight, Polls, Polled, Batch, Idle
<1> QED BY <1>2, <1>3, <1>4, <1>5, <1>6, <1>7, <1>8

LEMMA QueuedTyped ==
  ASSUME Types, NEW a \in Action
  PROVE  QueuedAction(a) \in Seq(Action)
<1>1. Enqueued(a) \in Seq(Action)
  BY EnqueuedIs DEF Types
<1> QED BY <1>1 DEF QueuedAction, Types

LEMMA ActTyped ==
  Types /\ (Type \/ PressEnter \/ Navigate \/ Take \/ PerformAction \/ ActionAnswered \/ Lost) => Types'
<1>1. SUFFICES ASSUME Types PROVE Type \/ PressEnter \/ Navigate \/ Take \/ PerformAction \/ ActionAnswered \/ Lost => Types'
  OBVIOUS
<1>2. spent.acts \in Nat /\ \A k \in {"acts", "faults"} : \A max : Spend(k, max) => spent' \in Count
  <2>1. spent \in Count
    BY <1>1 DEF Types
  <2>2. \A k \in {"acts", "faults"} : spent[k] \in Nat
    BY <2>1 DEF Count
  <2> QED BY <2>1, <2>2 DEF Spend, Count
<1>3. ASSUME Type PROVE Types'
  <2> DEFINE n == spent.acts + 1
             k == ren.serial + 1
             a == [kind |-> "input", text |-> n, seq |-> k, epoch |-> ren.epoch]
  <2>1. n \in Nat /\ k \in Nat /\ ren.epoch \in Nat
    BY <1>1, <1>2 DEF Types, Renderer
  <2>2. a \in Action /\ [seq |-> k, text |-> n] \in Draft
    BY <2>1 DEF Action, Input, Draft
  <2>3. QueuedAction(a) \in Seq(Action)
    BY <1>1, <2>2, QueuedTyped
  <2>4. /\ ren' = [ren EXCEPT !.field = n, !.draft = [seq |-> k, text |-> n], !.serial = k]
        /\ queue' = QueuedAction(a) /\ Spend("acts", MaxActs)
        /\ UNCHANGED <<remote, ses, cap, cli, upd, act>>
    BY <1>3 DEF Type
  <2> HIDE DEF n, k, a
  <2>5. ren' \in Renderer
    BY <1>1, <2>1, <2>2, <2>4 DEF Types, Renderer
  <2> QED BY <1>1, <1>2, <2>3, <2>4, <2>5 DEF Types
<1>4. ASSUME PressEnter PROVE Types'
  <2> PICK f \in BOOLEAN :
        queue' = QueuedAction([kind |-> "key", saw |-> ren.field, epoch |-> ren.epoch, submits |-> f])
    BY <1>4 DEF PressEnter
  <2> DEFINE a == [kind |-> "key", saw |-> ren.field, epoch |-> ren.epoch, submits |-> f]
  <2>1. a \in Action
    BY <1>1 DEF Types, Renderer, Action, Key
  <2>2. QueuedAction(a) \in Seq(Action)
    BY <1>1, <2>1, QueuedTyped
  <2>3. queue' = QueuedAction(a) /\ Spend("acts", MaxActs) /\ UNCHANGED <<remote, ses, cap, cli, upd, act, ren>>
    BY <1>4 DEF PressEnter
  <2> HIDE DEF a
  <2> QED BY <1>1, <1>2, <2>2, <2>3 DEF Types
<1>5. ASSUME Navigate PROVE Types'
  <2>1. [kind |-> "navigate"] \in Action
    BY DEF Action
  <2>2. Append(queue, [kind |-> "navigate"]) \in Seq(Action)
    BY <1>1, <2>1, AppendProperties DEF Types
  <2> QED BY <1>1, <1>2, <1>5, <2>2 DEF Types, Navigate
<1>6. ASSUME Take PROVE Types'
  <2>1. Head(queue) \in Action /\ Tail(queue) \in Seq(Action)
    BY <1>1, <1>6, HeadTailProperties DEF Types, Take
  <2>2. cli.actionSeq + 1 \in Nat
    BY <1>1 DEF Types, Toolbar
  <2>3. /\ act' = act
           \/ act' = [at |-> "sent", do |-> Head(queue), seq |-> cli.actionSeq + 1, tries |-> 1]
        /\ cli' = cli
           \/ cli' = [cli EXCEPT !.actionSeq = @ + 1, !.ticket = @ + 1]
           \/ cli' = [cli EXCEPT !.actionSeq = @ + 1, !.ticket = @]
    BY <1>6 DEF Take
  <2>4. act' \in [at : {"idle"}] \cup Flight
    BY <1>1, <2>1, <2>2, <2>3 DEF Types, Flight
  <2>5. cli' \in Toolbar
    <3>1. cli.ticket + 1 \in Nat /\ cli \in Toolbar
      BY <1>1 DEF Types, Toolbar
    <3> QED BY <2>2, <2>3, <3>1 DEF Toolbar
  <2> QED BY <1>1, <1>6, <2>1, <2>4, <2>5 DEF Types, Take
<1>7. ASSUME PerformAction PROVE Types'
  <2>1. act \in Flight /\ act.do \in Action
    BY <1>1, <1>7 DEF Types, PerformAction, Flight
  <2>2. act' \in [at : {"idle"}] \cup Flight
    BY <1>7, <2>1 DEF PerformAction, Flight
  <2>3. remote' \in Document
    <3>1. act.do.kind = "input" => act.do.text \in Nat
      BY <2>1 DEF Action, Input, Key
    <3> QED BY <1>1, <1>7, <3>1 DEF Types, PerformAction, Document, BlankPage
  <2>4. ses' \in Session
    <3> DEFINE s == [ses EXCEPT !.last = act.seq]
    <3>1. s \in Session
      BY <1>1, <2>1, SessionWith DEF Types, Flight
    <3>2. \/ ses' = ses \/ ses' = s \/ ses' = Navigated(s)
          \/ act.do.kind = "input" /\ ses' = [s EXCEPT !.input = act.do.seq]
      BY <1>7 DEF PerformAction
    <3> HIDE DEF s
    <3>3. act.do.kind = "input" => act.do.seq \in Nat
      BY <2>1 DEF Action, Input, Key
    <3>4. Navigated(s) \in Session
      <4>1. s.epoch + 1 \in Nat /\ <<>> \in Seq(Packet)
        BY <3>1 DEF Session
      <4> QED BY <3>1, <4>1 DEF Navigated, Session
    <3> QED BY <1>1, <3>1, <3>2, <3>3, <3>4, SessionWith DEF Types
  <2>5. spent' \in Count
    BY <1>1, <1>2, <1>7 DEF PerformAction, Types
  <2> QED BY <1>1, <1>7, <2>2, <2>3, <2>4, <2>5 DEF Types, PerformAction
<1>8. ASSUME ActionAnswered PROVE Types'
  <2>1. cli' \in Toolbar
    BY <1>1, <1>8 DEF ActionAnswered, Types, Toolbar, Session
  <2> QED BY <1>1, <1>8, <2>1 DEF Types, ActionAnswered, Idle
<1>9. ASSUME Lost PROVE Types'
  <2>1. act \in Flight
    BY <1>1, <1>9 DEF Lost, Types
  <2>2. act' \in [at : {"idle"}] \cup Flight
    <3>1. act' = [act EXCEPT !.at = "sent", !.tries = 2] \/ act' = Idle
      BY <1>9 DEF Lost
    <3>2. [act EXCEPT !.at = "sent", !.tries = 2] \in Flight
      BY <2>1 DEF Flight
    <3>3. Idle \in [at : {"idle"}]
      BY DEF Idle
    <3> QED BY <3>1, <3>2, <3>3
  <2>3. cli' \in Toolbar
    BY <1>1, <1>9 DEF Lost, Types, Toolbar
  <2>4. spent' \in Count
    BY <1>1, <1>2, <1>9 DEF Lost, Types
  <2> QED BY <1>1, <1>9, <2>2, <2>3, <2>4 DEF Types, Lost
<1> QED BY <1>3, <1>4, <1>5, <1>6, <1>7, <1>8, <1>9

LEMMA TypesStep == Types /\ Calls /\ [MirrorNext]_mirrorVars => Types'
<1>1. SUFFICES ASSUME Types, Calls, [MirrorNext]_mirrorVars PROVE Types'
  OBVIOUS
<1>2. CASE Script
  <2>1. spent.acts \in Nat /\ remote.text + 1 \in Nat
    BY <1>1 DEF Types, Count, Document
  <2>2. spent' \in Count /\ remote' \in Document
    BY <1>1, <1>2, <2>1 DEF Script, Spend, Types, Count, Document
  <2> QED BY <1>1, <1>2, <2>2 DEF Script, Types
<1>3. CASE CollectLoop \/ CaptureForAction \/ CaptureForBaseline
  <2>1. PICK who \in {"loop", "action", "baseline"} : Snapshot(who)
    BY <1>3 DEF CollectLoop, CaptureForAction, CaptureForBaseline
  <2>2. [who |-> who, epoch |-> ses.epoch, page |-> remote] \in
          [who : {"loop", "action", "baseline"}, epoch : Nat, page : Document]
    BY <1>1 DEF Types, Session
  <2> QED BY <1>1, <2>1, <2>2 DEF Snapshot, Types
<1>4. CASE UNCHANGED mirrorVars
  BY <1>1, <1>4 DEF mirrorVars, Types
<1> QED BY <1>1, <1>2, <1>3, <1>4, CaptureTyped, PollTyped, ActTyped DEF MirrorNext

-----------------------------------------------------------------------------
(* What the steps do, field by field.                                      *)
LEMMA Fields ==
  ASSUME Types
  PROVE  /\ ses.epoch \in Nat /\ ses.seq \in Nat /\ ses.input \in Nat /\ ses.meta \in Nat
         /\ ses.last \in Nat /\ ses.result \in Nat /\ ses.packets \in Seq(Packet)
         /\ ses.nodes \in Document \cup {Nothing} /\ remote.field \in Nat
         /\ cli.epoch \in Nat /\ cli.seq \in Nat /\ cli.actionSeq \in Nat /\ cli.failed \in BOOLEAN
         /\ ren.epoch \in Nat /\ ren.field \in Nat /\ ren.serial \in Nat /\ ren.draft \in Draft \cup {Nothing}
         /\ Flying => /\ act.at \in {"sent", "captures", "answered"}
                      /\ act.seq \in Nat /\ act.do \in Action
         /\ queue \in Seq(Action) /\ Len(queue) \in Nat /\ DOMAIN queue = 1 .. Len(queue)
         /\ \A i \in DOMAIN queue : queue[i] \in Action
<1>1. /\ ses.epoch \in Nat /\ ses.seq \in Nat /\ ses.input \in Nat /\ ses.meta \in Nat
      /\ ses.last \in Nat /\ ses.result \in Nat /\ ses.packets \in Seq(Packet)
      /\ ses.nodes \in Document \cup {Nothing} /\ remote.field \in Nat
  BY DEF Types, Session, Document
<1>2. cli.epoch \in Nat /\ cli.seq \in Nat /\ cli.actionSeq \in Nat /\ cli.failed \in BOOLEAN
  BY DEF Types, Toolbar
<1>3. ren.epoch \in Nat /\ ren.field \in Nat /\ ren.serial \in Nat /\ ren.draft \in Draft \cup {Nothing}
  BY DEF Types, Renderer
<1>4. Flying => act.at \in {"sent", "captures", "answered"} /\ act.seq \in Nat /\ act.do \in Action
  BY DEF Types, Flight, Flying
<1>5. /\ queue \in Seq(Action) /\ Len(queue) \in Nat /\ DOMAIN queue = 1 .. Len(queue)
      /\ \A i \in DOMAIN queue : queue[i] \in Action
  BY DEF Types
<1> QED BY <1>1, <1>2, <1>3, <1>4, <1>5

LEMMA FieldsNext ==
  ASSUME Types'
  PROVE  /\ ses'.epoch \in Nat /\ ses'.seq \in Nat /\ ses'.input \in Nat /\ ses'.meta \in Nat
         /\ ses'.last \in Nat /\ ses'.result \in Nat /\ ses'.packets \in Seq(Packet)
         /\ cli'.epoch \in Nat /\ cli'.actionSeq \in Nat /\ cli'.failed \in BOOLEAN
         /\ ren'.epoch \in Nat /\ ren'.field \in Nat /\ ren'.serial \in Nat
         /\ Len(queue') \in Nat /\ DOMAIN queue' = 1 .. Len(queue')
         /\ \A i \in DOMAIN queue' : queue'[i] \in Action
<1>1. /\ ses'.epoch \in Nat /\ ses'.seq \in Nat /\ ses'.input \in Nat /\ ses'.meta \in Nat
      /\ ses'.last \in Nat /\ ses'.result \in Nat /\ ses'.packets \in Seq(Packet)
  BY DEF Types, Session
<1>2. cli'.epoch \in Nat /\ cli'.actionSeq \in Nat /\ cli'.failed \in BOOLEAN
  BY DEF Types, Toolbar
<1>3. ren'.epoch \in Nat /\ ren'.field \in Nat /\ ren'.serial \in Nat
  BY DEF Types, Renderer
<1>4. queue' \in Seq(Action)
  BY DEF Types
<1> QED BY <1>1, <1>2, <1>3, <1>4

LEMMA Actions ==
  ASSUME NEW a \in Action
  PROVE  /\ a.kind \in {"input", "key", "navigate"}
         /\ a.kind = "input" => a.text \in Nat /\ a.seq \in Nat /\ a.epoch \in Nat
         /\ a.kind = "key" => a.saw \in Nat /\ a.epoch \in Nat
BY DEF Action, Input, Key

(* The ways in which a call is performed: it is refused; it fills the      *)
(* field; Enter stays on the page; or the page is left.                    *)
Refuses ==
  /\ (Seen \/ Stale) /\ act'.at = "answered" /\ UNCHANGED <<remote, pressed>>
  /\ ses' = ses \/ ses' = [ses EXCEPT !.last = act.seq]
  /\ ses'.last >= act.seq

Fills ==
  /\ ~Seen /\ Typing(act.do) /\ act'.at = "captures" /\ UNCHANGED pressed
  /\ remote' = [remote EXCEPT !.field = act.do.text]
  /\ ses' = [ses EXCEPT !.last = act.seq, !.input = act.do.seq]

PressesKey ==
  /\ ~Seen /\ act.do.kind = "key" /\ act.do.epoch = ses.epoch /\ act'.at = "captures"
  /\ remote' = remote /\ pressed' = Pressed
  /\ ses' = [ses EXCEPT !.last = act.seq]

LeavesPage ==
  /\ ~Seen /\ act'.at = "captures" /\ remote' = BlankPage
  /\ \/ act.do.kind = "navigate" /\ UNCHANGED pressed
     \/ /\ act.do.kind = "key" /\ act.do.epoch = ses.epoch
        /\ pressed' = Pressed
  /\ ses' = Navigated([ses EXCEPT !.last = act.seq])

LEMMA PerformIs ==
  ASSUME Types, PerformAction
  PROVE  /\ act.at = "sent" /\ act'.do = act.do /\ act'.seq = act.seq
         /\ UNCHANGED <<cap, cli, upd, queue, ren>> /\ spent'.overtaken = spent.overtaken
         /\ Refuses \/ Fills \/ PressesKey \/ LeavesPage
<1>1. act \in Flight /\ act.do \in Action /\ act.at = "sent"
  BY DEF Types, PerformAction, Flight
<1>2. ses \in Session /\ spent \in Count
  BY DEF Types
<1>3. act'.do = act.do /\ act'.seq = act.seq
  BY <1>1 DEF PerformAction, Flight
<1>4. spent'.overtaken = spent.overtaken
  <2>1. spent' = spent \/ spent' = [spent EXCEPT !["acts"] = @ + 1]
    BY DEF PerformAction, Spend
  <2> QED BY <1>2, <2>1 DEF Count
<1>5. CASE Seen \/ Stale
  <2>1. act'.at = "answered" /\ UNCHANGED <<remote, pressed>>
    BY <1>1, <1>5 DEF PerformAction, Flight
  <2>2. ses' = ses \/ ses' = [ses EXCEPT !.last = act.seq]
    BY <1>5 DEF PerformAction
  <2>3. ses'.last >= act.seq
    <3>1. ses' = IF Seen THEN ses ELSE [ses EXCEPT !.last = act.seq]
      BY <1>5 DEF PerformAction
    <3>2. CASE Seen
      BY <3>1, <3>2 DEF Seen
    <3>3. CASE ~Seen
      <4>1. ses'.last = act.seq
        BY <1>2, <3>1, <3>3 DEF Session
      <4> QED BY <1>1, <4>1 DEF Flight
    <3> QED BY <3>2, <3>3
  <2> QED BY <1>1, <1>3, <1>4, <1>5, <2>1, <2>2, <2>3 DEF Refuses, PerformAction
<1>6. CASE ~Seen /\ ~Stale
  <2>1. act'.at = "captures"
    BY <1>1, <1>6 DEF PerformAction, Flight
  <2>2. act.do.kind # "navigate" => act.do.epoch = ses.epoch
    BY <1>6 DEF Stale
  <2>3. act.do.kind = "navigate" => LeavesPage
    BY <1>6, <2>1 DEF PerformAction, LeavesPage
  <2>4. act.do.kind = "input" => Fills
    BY <1>6, <2>1, <2>2 DEF PerformAction, Fills, Typing
  <2>5. act.do.kind = "key" => PressesKey \/ LeavesPage
    BY <1>6, <2>1, <2>2 DEF PerformAction, PressesKey, LeavesPage
  <2>6. act.do.kind \in {"input", "key", "navigate"}
    BY <1>1, Actions
  <2>7. Fills \/ PressesKey \/ LeavesPage
    BY <2>3, <2>4, <2>5, <2>6
  <2> QED BY <1>1, <1>3, <1>4, <2>7 DEF PerformAction
<1> QED BY <1>5, <1>6 DEF PerformAction

(* What a capture ends with: nothing new, or an update.                    *)
SameKnown ==
  /\ ses'.seq = ses.seq /\ ses'.nodes = ses.nodes /\ ses'.meta = ses.meta
  /\ ses'.packets = ses.packets

NewPacket == [seq |-> ses.seq + 1, epoch |-> ses.epoch,
              put |-> Put(ses.nodes, cap.page), input |-> ses.input]

Updated ==
  /\ cap.epoch = ses.epoch /\ (spent'.overtaken \/ cap.page.field = remote.field)
  /\ ses'.seq = ses.seq + 1 /\ ses'.nodes = cap.page /\ ses'.meta = ses.input
  /\ ses'.packets \in {ses.packets, <<>>, Append(ses.packets, NewPacket)}

LEMMA CaptureIs ==
  ASSUME Types, Calls, Commit \/ Overflow \/ CaptureMissed
  PROVE  /\ cap # Nothing /\ cap.page \in Document /\ cap' = Nothing
         /\ UNCHANGED <<remote, cli, queue, ren, pressed>>
         /\ ses'.epoch = ses.epoch /\ ses'.input = ses.input /\ ses'.last = ses.last
         /\ \/ act' = act /\ ses'.result = ses.result
            \/ /\ act.at = "captures" /\ act' = [act EXCEPT !.at = "answered"]
               /\ ses'.result = act.seq
         /\ \/ upd' = upd
            \/ /\ upd.at = "captures" /\ upd'.at = "captured"
               /\ upd'.epoch = ses.epoch /\ upd'.seq = ses'.seq /\ upd'.nodes = ses'.nodes
         /\ SameKnown \/ Updated
         /\ spent.overtaken => spent'.overtaken
<1>1. /\ cap # Nothing /\ cap' = Nothing
      /\ cap \in [who : {"loop", "action", "baseline"}, epoch : Nat, page : Document]
  BY DEF Commit, Overflow, CaptureMissed, Types
<1>2. UNCHANGED <<remote, cli, queue, ren, pressed>>
  BY DEF Commit, Overflow, CaptureMissed
<1>3. /\ cap.who = "action" => act.at = "captures"
      /\ cap.who = "baseline" => upd.at = "captures"
  BY <1>1 DEF Calls
<1>4. ses \in Session /\ spent \in Count
  BY DEF Types
<1> DEFINE u == Update(ses, cap.page)
<1>5. /\ u.epoch = ses.epoch /\ u.input = ses.input /\ u.last = ses.last /\ u.result = ses.result
      /\ u.seq = ses.seq + 1 /\ u.nodes = cap.page /\ u.meta = ses.input
      /\ u.packets \in {ses.packets, Append(ses.packets, NewPacket)}
  BY <1>4 DEF Update, Session, NewPacket
<1>6. u \in Session
  BY <1>1, <1>4, UpdateTyped
<1>7. \A s \in Session :
        /\ ResultKept(cap.who, s).epoch = s.epoch /\ ResultKept(cap.who, s).input = s.input
        /\ ResultKept(cap.who, s).last = s.last /\ ResultKept(cap.who, s).seq = s.seq
        /\ ResultKept(cap.who, s).nodes = s.nodes /\ ResultKept(cap.who, s).meta = s.meta
        /\ ResultKept(cap.who, s).packets = s.packets
        /\ ResultKept(cap.who, s).result = IF cap.who = "action" THEN act.seq ELSE s.result
  BY DEF ResultKept, Session
<1>8. /\ spent.overtaken => spent'.overtaken
      /\ (Commit \/ Overflow) /\ cap.epoch = ses.epoch => spent'.overtaken \/ cap.page.field = remote.field
  <2> DEFINE o == Overtakes(spent)
  <2>1. o \in Count /\ o.overtaken = (spent.overtaken \/ (cap.epoch = ses.epoch /\ cap.page.field # remote.field))
    BY <1>4 DEF Overtakes, Count
  <2>2. /\ Commit => spent' = o
        /\ Overflow => spent' = [o EXCEPT !.faults = @ + 1]
        /\ CaptureMissed => spent' = [spent EXCEPT !.faults = @ + 1, !.missed = TRUE]
    BY DEF Commit, Overflow, CaptureMissed
  <2> HIDE DEF o
  <2>3. Commit \/ Overflow => spent'.overtaken = o.overtaken
    BY <2>1, <2>2 DEF Count
  <2>4. CaptureMissed => spent'.overtaken = spent.overtaken
    BY <1>4, <2>2 DEF Count
  <2> QED BY <2>1, <2>3, <2>4
<1>9. \E s \in Session :
        /\ ses' = ResultKept(cap.who, s)
        /\ s.epoch = ses.epoch /\ s.input = ses.input /\ s.last = ses.last /\ s.result = ses.result
        /\ \/ s = ses
           \/ /\ Commit \/ Overflow
              /\ cap.epoch = ses.epoch
              /\ s.seq = ses.seq + 1 /\ s.nodes = cap.page /\ s.meta = ses.input
              /\ s.packets \in {ses.packets, <<>>, Append(ses.packets, NewPacket)}
  <2> DEFINE v == [u EXCEPT !.packets = <<>>]
  <2>1. /\ Commit => ses' = ResultKept(cap.who, ses) \/ (cap.epoch = ses.epoch /\ ses' = ResultKept(cap.who, u))
        /\ Overflow => cap.epoch = ses.epoch /\ ses' = ResultKept(cap.who, v)
        /\ CaptureMissed => ses' = ResultKept(cap.who, ses)
    <3>1. Commit => ses' = ResultKept(cap.who, ses) \/ (cap.epoch = ses.epoch /\ ses' = ResultKept(cap.who, u))
      <4> DEFINE new == cap.epoch = ses.epoch /\ (cap.who # "loop" \/ cap.page # ses.nodes)
      <4>1. Commit => ses' = ResultKept(cap.who, IF new THEN u ELSE ses)
        BY DEF Commit
      <4> HIDE DEF u
      <4>2. CASE new
        BY <4>1, <4>2
      <4>3. CASE ~new
        BY <4>1, <4>3, Zenon
      <4> QED BY <4>2, <4>3
    <3>2. Overflow => cap.epoch = ses.epoch /\ ses' = ResultKept(cap.who, v)
      BY DEF Overflow
    <3>3. CaptureMissed => ses' = ResultKept(cap.who, ses)
      BY DEF CaptureMissed
    <3> QED BY <3>1, <3>2, <3>3
  <2> HIDE DEF u
  <2>2. /\ v.epoch = u.epoch /\ v.input = u.input /\ v.last = u.last /\ v.result = u.result
        /\ v.seq = u.seq /\ v.nodes = u.nodes /\ v.meta = u.meta /\ v.packets = <<>>
    BY <1>6 DEF Session
  <2>3. v \in Session
    <3>1. <<>> \in Seq(Packet)
      OBVIOUS
    <3> QED BY <1>6, <3>1, SessionWith
  <2> HIDE DEF v
  <2>4. CASE ses' = ResultKept(cap.who, ses)
    BY <1>4, <2>4
  <2>5. CASE cap.epoch = ses.epoch /\ ses' = ResultKept(cap.who, u) /\ Commit
    BY <1>5, <1>6, <2>5
  <2>6. CASE cap.epoch = ses.epoch /\ ses' = ResultKept(cap.who, v) /\ Overflow
    <3>1. v.packets \in {ses.packets, <<>>, Append(ses.packets, NewPacket)}
      BY <2>2
    <3> QED BY <1>5, <2>2, <2>3, <2>6, <3>1
  <2> QED BY <2>1, <2>4, <2>5, <2>6
<1>10. PICK s \in Session :
        /\ ses' = ResultKept(cap.who, s)
        /\ s.epoch = ses.epoch /\ s.input = ses.input /\ s.last = ses.last /\ s.result = ses.result
        /\ \/ s = ses
           \/ /\ Commit \/ Overflow
              /\ cap.epoch = ses.epoch
              /\ s.seq = ses.seq + 1 /\ s.nodes = cap.page /\ s.meta = ses.input
              /\ s.packets \in {ses.packets, <<>>, Append(ses.packets, NewPacket)}
  BY <1>9
<1>11. ses'.epoch = ses.epoch /\ ses'.input = ses.input /\ ses'.last = ses.last
  BY <1>7, <1>10
<1>12. SameKnown \/ Updated
  <2>1. CASE s = ses
    BY <1>7, <1>10, <2>1 DEF SameKnown
  <2>2. CASE s # ses
    BY <1>7, <1>8, <1>10, <2>2 DEF Updated
  <2> QED BY <2>1, <2>2
<1>13. ses'.result = IF cap.who = "action" THEN act.seq ELSE ses.result
  BY <1>7, <1>10
<1>14. Goes(cap.who, ses')
  BY DEF Commit, Overflow, CaptureMissed
<1>15. \/ act' = act /\ ses'.result = ses.result
       \/ act.at = "captures" /\ act' = [act EXCEPT !.at = "answered"] /\ ses'.result = act.seq
  BY <1>3, <1>13, <1>14 DEF Goes
<1>16. \/ upd' = upd
       \/ /\ upd.at = "captures" /\ upd'.at = "captured"
          /\ upd'.epoch = ses.epoch /\ upd'.seq = ses'.seq /\ upd'.nodes = ses'.nodes
  BY <1>3, <1>11, <1>14 DEF Goes
<1> QED BY <1>1, <1>2, <1>8, <1>11, <1>12, <1>15, <1>16

(* The queue gets a new last one, which may replace a text before it.      *)
Grows(a) ==
  \E m \in Nat :
    /\ Len(queue') = m + 1 /\ queue'[m + 1] = a
    /\ \A i \in 1 .. m : queue'[i] = queue[i]
    /\ \/ m = Len(queue)
       \/ m + 1 = Len(queue) /\ queue[m + 1].kind = "input" /\ a.kind = "input"

LEMMA EnqueuedGrows ==
  ASSUME Types, NEW a \in Action, queue' = Enqueued(a)
  PROVE  Grows(a)
<1>1. queue \in Seq(Action)
  BY DEF Types
<1>2. PICK m \in Nat :
        /\ Enqueued(a) \in Seq(Action) /\ Len(Enqueued(a)) = m + 1 /\ Enqueued(a)[m + 1] = a
        /\ \A i \in 1 .. m : Enqueued(a)[i] = queue[i]
        /\ \/ m = Len(queue)
           \/ m + 1 = Len(queue) /\ queue[m + 1].kind = "input" /\ a.kind = "input"
  BY <1>1, EnqueuedIs
<1>3. Len(queue') = m + 1 /\ queue'[m + 1] = a /\ \A i \in 1 .. m : queue'[i] = queue[i]
  BY <1>2
<1> QED BY <1>2, <1>3 DEF Grows

SameSession == ses' = ses /\ remote' = remote /\ cap' = cap /\ pressed' = pressed /\ spent'.overtaken = spent.overtaken

LEMMA CountsOnly ==
  ASSUME Types, NEW k \in {"acts", "faults"}, NEW max, Spend(k, max)
  PROVE  spent'.overtaken = spent.overtaken
BY DEF Types, Count, Spend

Typed(field) == [kind |-> "input", text |-> field, seq |-> ren.serial + 1, epoch |-> ren.epoch]

LEMMA TypeIs ==
  ASSUME Types, Type
  PROVE  /\ SameSession /\ act' = act /\ upd' = upd /\ cli' = cli
         /\ ren'.field \in Nat /\ ren'.epoch = ren.epoch /\ ren'.serial = ren.serial + 1
         /\ ren'.draft = [seq |-> ren'.serial, text |-> ren'.field]
         /\ \/ ren.epoch = cli.epoch /\ Grows(Typed(ren'.field))
            \/ ren.epoch # cli.epoch /\ queue' = queue
<1> DEFINE n == spent.acts + 1
           k == ren.serial + 1
           a == [kind |-> "input", text |-> n, seq |-> k, epoch |-> ren.epoch]
<1>1. n \in Nat /\ k \in Nat /\ ren.epoch \in Nat /\ ren \in Renderer
  BY DEF Types, Count, Renderer
<1>2. a \in Action
  BY <1>1 DEF Action, Input
<1>3. /\ ren' = [ren EXCEPT !.field = n, !.draft = [seq |-> k, text |-> n], !.serial = k]
      /\ queue' = QueuedAction(a) /\ UNCHANGED <<remote, ses, cap, cli, upd, act, pressed>>
  BY DEF Type
<1>4. ren'.field = n /\ ren'.epoch = ren.epoch /\ ren'.serial = k /\ ren'.draft = [seq |-> k, text |-> n]
  BY <1>1, <1>3 DEF Renderer
<1>5. Typed(ren'.field) = a
  BY <1>4 DEF Typed
<1> HIDE DEF a
<1>6. queue' = Enqueued(a) => Grows(a)
  BY <1>2, EnqueuedGrows
<1>7. SameSession
  BY <1>3, CountsOnly DEF Type, SameSession
<1>8. \/ ren.epoch = cli.epoch /\ Grows(a)
      \/ ren.epoch # cli.epoch /\ queue' = queue
  BY <1>3, <1>6 DEF QueuedAction
<1> QED BY <1>1, <1>3, <1>4, <1>5, <1>7, <1>8

Entered(f) == [kind |-> "key", saw |-> ren.field, epoch |-> ren.epoch, submits |-> f]

LEMMA EnterIs ==
  ASSUME Types, PressEnter
  PROVE  /\ SameSession /\ act' = act /\ upd' = upd /\ cli' = cli /\ ren' = ren
         /\ \/ ren.epoch = cli.epoch /\ \E f \in BOOLEAN : Grows(Entered(f))
            \/ ren.epoch # cli.epoch /\ queue' = queue
<1> PICK f \in BOOLEAN : queue' = QueuedAction(Entered(f))
  BY DEF PressEnter, Entered
<1>1. Entered(f) \in Action
  BY DEF Types, Renderer, Action, Key, Entered
<1>2. queue' = QueuedAction(Entered(f)) /\ UNCHANGED <<remote, ses, cap, cli, upd, act, ren, pressed>>
  BY DEF PressEnter, Entered
<1>3. queue' = Enqueued(Entered(f)) => Grows(Entered(f))
  BY <1>1, EnqueuedGrows
<1>4. SameSession
  BY <1>2, CountsOnly DEF PressEnter, SameSession
<1> QED BY <1>2, <1>3, <1>4 DEF QueuedAction

LEMMA NavigateIs ==
  ASSUME Types, Navigate
  PROVE  /\ SameSession /\ act' = act /\ upd' = upd /\ cli' = cli /\ ren' = ren
         /\ Grows([kind |-> "navigate"])
<1> DEFINE a == [kind |-> "navigate"]
<1>1. a \in Action
  BY DEF Action
<1>2. queue' = Append(queue, a) /\ UNCHANGED <<remote, ses, cap, cli, upd, act, ren, pressed>>
  BY DEF Navigate
<1>3. SameSession
  BY <1>2, CountsOnly DEF Navigate, SameSession
<1> HIDE DEF a
<1>4. /\ Len(queue') = Len(queue) + 1 /\ queue'[Len(queue) + 1] = a
      /\ \A i \in 1 .. Len(queue) : queue'[i] = queue[i]
  BY <1>1, <1>2, AppendProperties DEF Types
<1>5. Len(queue) \in Nat
  BY DEF Types
<1>6. Grows(a)
  BY <1>4, <1>5 DEF Grows
<1> QED BY <1>2, <1>3, <1>6 DEF a

LEMMA TakeIs ==
  ASSUME Types, Take
  PROVE  /\ SameSession /\ upd' = upd /\ ren' = ren /\ act.at = "idle"
         /\ Len(queue') = Len(queue) - 1 /\ Len(queue) > 0
         /\ \A i \in 1 .. Len(queue') : queue'[i] = queue[i + 1]
         /\ \/ queue[1].kind = "key" /\ act' = act /\ cli' = cli
            \/ /\ queue[1].kind = "key" => ~cli.failed \/ Unsure(queue[1])
               /\ act'.at = "sent" /\ act'.do = queue[1] /\ act'.seq = cli.actionSeq + 1
               /\ cli'.actionSeq = cli.actionSeq + 1 /\ cli'.epoch = cli.epoch
               /\ cli'.seq = cli.seq /\ cli'.failed = cli.failed
<1>1. queue \in Seq(Action) /\ queue # <<>> /\ queue' = Tail(queue) /\ Head(queue) = queue[1]
  BY DEF Take, Types
<1>2. /\ Len(queue') = Len(queue) - 1 /\ Len(queue) > 0
      /\ \A i \in 1 .. Len(queue') : queue'[i] = queue[i + 1]
  BY <1>1, HeadTailProperties
<1>3. SameSession /\ upd' = upd /\ ren' = ren /\ act.at = "idle"
  BY DEF Take, SameSession
<1>4. CASE Held(Head(queue))
  BY <1>1, <1>2, <1>3, <1>4 DEF Take, Held
<1>5. CASE ~Held(Head(queue))
  <2>1. act' = [at |-> "sent", do |-> queue[1], seq |-> cli.actionSeq + 1, tries |-> 1]
    BY <1>1, <1>5 DEF Take
  <2>2. cli' = [cli EXCEPT !.actionSeq = cli.actionSeq + 1,
                  !.ticket = IF queue[1].kind = "navigate" THEN cli.ticket + 1 ELSE cli.ticket]
    BY <1>1, <1>5 DEF Take
  <2>3. cli \in Toolbar
    BY DEF Types
  <2>4. /\ cli'.actionSeq = cli.actionSeq + 1 /\ cli'.epoch = cli.epoch
        /\ cli'.seq = cli.seq /\ cli'.failed = cli.failed
    BY <2>2, <2>3 DEF Toolbar
  <2>5. queue[1].kind = "key" => ~cli.failed \/ Unsure(queue[1])
    BY <1>1, <1>5 DEF Held, Unsure
  <2> QED BY <1>2, <1>3, <2>1, <2>4, <2>5
<1> QED BY <1>4, <1>5

LEMMA AnsweredIs ==
  ASSUME Types, ActionAnswered
  PROVE  /\ SameSession /\ upd' = upd /\ ren' = ren /\ queue' = queue
         /\ act.at = "answered" /\ act'.at = "idle" /\ cli'.actionSeq = cli.actionSeq
         /\ cli'.failed = IF act.do.kind = "input" THEN ses.result # act.seq ELSE cli.failed
         /\ \/ cli'.epoch = cli.epoch /\ cli'.seq = cli.seq
            \/ cli'.epoch = ses.epoch /\ cli'.seq = 0
<1>1. cli \in Toolbar
  BY DEF Types
<1> QED BY <1>1 DEF ActionAnswered, SameSession, Toolbar, Idle

LEMMA LostIs ==
  ASSUME Types, Lost
  PROVE  /\ SameSession /\ upd' = upd /\ ren' = ren /\ queue' = queue
         /\ act.at \in {"sent", "answered"}
         /\ \/ act'.at = "sent" /\ act'.do = act.do /\ act'.seq = act.seq /\ cli' = cli
            \/ /\ act'.at = "idle" /\ cli'.failed = (cli.failed \/ act.do.kind = "input")
               /\ cli'.epoch = cli.epoch /\ cli'.seq = cli.seq /\ cli'.actionSeq = cli.actionSeq
<1>1. cli \in Toolbar /\ act \in Flight
  BY DEF Types, Lost
<1>2. spent' = spent \/ Spend("faults", MaxMirrorFaults)
  BY DEF Lost
<1>3. SameSession
  BY <1>2, CountsOnly DEF Lost, SameSession
<1>4. CASE act.tries = 1
  BY <1>1, <1>3, <1>4 DEF Lost, Flight
<1>5. CASE act.tries # 1
  BY <1>1, <1>3, <1>5 DEF Lost, Toolbar, Idle
<1> QED BY <1>4, <1>5

-----------------------------------------------------------------------------
(* The poll's steps leave the remote page and the actions alone.           *)
SameActions == act' = act /\ remote' = remote /\ cap' = cap /\ pressed' = pressed /\ spent' = spent

LEMMA BaselineIs ==
  ASSUME Types, Baseline
  PROVE  /\ SameActions /\ ses' = ses /\ upd.at = "captured" /\ upd \in Polled
         /\ \/ upd'.at = "idle" /\ cli' = cli /\ ren' = ren /\ queue' = queue
            \/ /\ upd'.at = "based" /\ upd'.seq = upd.seq
               /\ cli'.epoch = upd.epoch /\ cli'.seq = 0
               /\ cli'.actionSeq = cli.actionSeq /\ cli'.failed = cli.failed
               /\ ren'.epoch = upd.epoch
               /\ \/ /\ ren.epoch = upd.epoch /\ ren'.serial = ren.serial + 1
                     /\ ren'.draft = [seq |-> ren'.serial, text |-> ren'.field]
                     /\ Grows(Typed(ren'.field))
                  \/ /\ ren.draft = Nothing \/ ren.epoch # upd.epoch
                     /\ ren'.serial = ren.serial /\ ren'.draft = Nothing /\ queue' = queue
                     /\ ren'.field = Field(upd.nodes)
<1>1. upd \in Polled /\ SameActions /\ ses' = ses /\ upd.at = "captured"
  BY DEF Baseline, Types, Polls, Polled, Batch, SameActions
<1>2. CASE ~Current
  BY <1>1, <1>2 DEF Baseline, Idle
<1>3. CASE Current
  <2> DEFINE there == IF upd.nodes = Nothing THEN BlankPage ELSE upd.nodes
             again == ren.draft # Nothing /\ ren.epoch = upd.epoch
             text == IF again /\ ~Confirmed(upd) THEN ren.draft.text ELSE there.field
             k == ren.serial + 1
             a == [kind |-> "input", text |-> text, seq |-> k, epoch |-> upd.epoch]
  <2>1. /\ cli' = [cli EXCEPT !.epoch = upd.epoch, !.seq = 0]
        /\ ren' = [epoch |-> upd.epoch, text |-> there.text, field |-> text,
                   draft |-> IF again THEN [seq |-> k, text |-> text] ELSE Nothing,
                   serial |-> IF again THEN k ELSE ren.serial]
        /\ queue' = IF again THEN Enqueued(a) ELSE queue
        /\ upd' = [at |-> "based", ticket |-> upd.ticket, seq |-> upd.seq]
    BY <1>3 DEF Baseline
  <2>2. there.field = Field(upd.nodes)
    BY DEF Field, BlankPage
  <2>3. again \/ text = there.field
    OBVIOUS
  <2>4. a \in Action
    <3>1. there \in Document /\ k \in Nat /\ upd.epoch \in Nat
      BY <1>1 DEF Types, Polled, Renderer, BlankPage, Document
    <3>2. again => ren.draft \in Draft
      BY DEF Types, Renderer
    <3>3. text \in Nat
      BY <3>1, <3>2 DEF Draft, Document
    <3> HIDE DEF text, k
    <3> QED BY <3>1, <3>3 DEF Action, Input
  <2>5. cli \in Toolbar
    BY DEF Types
  <2>6. /\ cli'.epoch = upd.epoch /\ cli'.seq = 0
        /\ cli'.actionSeq = cli.actionSeq /\ cli'.failed = cli.failed
    BY <2>1, <2>5 DEF Toolbar
  <2>7. again <=> ren.draft # Nothing /\ ren.epoch = upd.epoch
    OBVIOUS
  <2>8. ren.epoch = upd.epoch => a = Typed(text)
    BY DEF Typed
  <2> HIDE DEF there, again, text, a
  <2>9. upd'.at = "based" /\ upd'.seq = upd.seq /\ ren'.epoch = upd.epoch /\ ren'.field = text
    BY <2>1
  <2>10. CASE again
    <3>1. ren'.serial = ren.serial + 1 /\ ren'.draft = [seq |-> ren'.serial, text |-> ren'.field]
      BY <2>1, <2>10
    <3>2. Grows(a) /\ a = Typed(ren'.field)
      BY <2>1, <2>4, <2>7, <2>8, <2>9, <2>10, EnqueuedGrows
    <3> QED BY <1>1, <2>6, <2>7, <2>9, <2>10, <3>1, <3>2
  <2>11. CASE ~again
    <3>1. ren'.serial = ren.serial /\ ren'.draft = Nothing /\ queue' = queue /\ ren'.field = Field(upd.nodes)
      BY <2>1, <2>2, <2>3, <2>11
    <3> QED BY <1>1, <2>6, <2>7, <2>9, <2>11, <3>1
  <2> QED BY <2>10, <2>11
<1> QED BY <1>2, <1>3

(* Steps that leave the queue and the renderer alone as well.              *)
SameShown == SameActions /\ ren' = ren /\ queue' = queue

LEMMA PollIs ==
  ASSUME Types, Poll
  PROVE  /\ SameShown /\ ses' = ses /\ cli' = cli /\ upd.at = "idle"
         /\ upd'.at = IF cli.seq = 0 THEN "captures" ELSE "waits"
BY DEF Poll, SameShown, SameActions

LEMMA WasBasedIs ==
  ASSUME Types, WasBased
  PROVE  /\ SameShown /\ ses' = ses /\ upd.at = "based"
         /\ cli'.epoch = cli.epoch /\ cli'.actionSeq = cli.actionSeq /\ cli'.failed = cli.failed
         /\ \/ cli'.seq = upd.seq /\ upd'.at = "acks"
            \/ cli'.seq = cli.seq /\ upd'.at = "idle"
<1>1. cli \in Toolbar
  BY DEF Types
<1> QED BY <1>1 DEF WasBased, SameShown, SameActions, Idle, Toolbar

LEMMA UpdatesIs ==
  ASSUME Types, Updates
  PROVE  /\ SameShown /\ ses' = ses /\ upd.at = "waits"
         /\ cli'.epoch = cli.epoch /\ cli'.actionSeq = cli.actionSeq /\ cli'.failed = cli.failed
         /\ \/ upd'.at = "idle" /\ cli' = cli
            \/ upd'.at = "captures" /\ cli'.seq = 0
            \/ /\ upd'.at = "applies" /\ cli' = cli
               /\ Known(upd'.packets) \subseteq Known(ses.packets)
<1>1. cli \in Toolbar /\ ses.packets \in Seq(Packet)
  BY DEF Types, Session
<1>2. upd \in [at : {"captures", "waits"}, after : Nat, epoch : Nat, ticket : Nat]
  BY DEF Updates, Types, Polls, Polled, Batch
<1>3. Known(Beyond(ses.packets, upd.after)) \subseteq Known(ses.packets)
  BY <1>1, BeyondIs
<1>4. SameShown /\ ses' = ses /\ upd.at = "waits"
  BY DEF Updates, SameShown, SameActions
<1>5. \/ upd' = Idle /\ cli' = cli
      \/ upd' = [upd EXCEPT !.at = "captures"] /\ cli' = [cli EXCEPT !.seq = 0]
      \/ /\ upd' = [at |-> "applies", ticket |-> upd.ticket, packets |-> Beyond(ses.packets, upd.after)]
         /\ cli' = cli
  BY DEF Updates
<1> QED BY <1>1, <1>2, <1>3, <1>4, <1>5 DEF Idle, Toolbar

(* A packet is shown.                                                      *)
Shows(p) ==
  /\ p.epoch = cli.epoch /\ p.epoch = ren.epoch /\ p.seq = cli.seq + 1
  /\ ren'.epoch = ren.epoch /\ ren'.serial = ren.serial
  /\ \/ /\ ren.draft = Nothing \/ p.input >= ren.draft.seq
        /\ ren'.draft = Nothing
        /\ ren'.field = IF p.put["field"] # Nothing THEN p.put["field"] ELSE ren.field
     \/ /\ ren.draft # Nothing /\ ~(p.input >= ren.draft.seq)
        /\ ren'.draft = ren.draft /\ ren'.field = ren.field

LEMMA ApplyIs ==
  ASSUME Types, Apply
  PROVE  /\ SameActions /\ queue' = queue /\ ses' = ses /\ upd.at = "applies" /\ upd \in Batch
         /\ cli'.epoch = cli.epoch /\ cli'.actionSeq = cli.actionSeq /\ cli'.failed = cli.failed
         /\ \/ upd'.at \in {"idle", "acks"} /\ cli'.seq \in {0, cli.seq} /\ ren' = ren
            \/ /\ upd'.at = "applied" /\ upd'.packets = upd.packets /\ cli' = cli
               /\ Len(upd.packets) > 0 /\ upd.packets[1] \in Packet /\ Shows(upd.packets[1])
<1>1. cli \in Toolbar /\ ren \in Renderer /\ upd \in Batch
  BY DEF Apply, Types, Polls, Polled, Batch
<1>2. SameActions /\ queue' = queue /\ ses' = ses /\ upd.at = "applies"
  BY DEF Apply, SameActions
<1>3. CASE ren' = ren /\ (upd' = Idle \/ upd' = [at |-> "acks", seq |-> cli.seq])
           /\ (cli' = cli \/ cli' = [cli EXCEPT !.seq = 0])
  <2>1. upd'.at \in {"idle", "acks"}
    BY <1>3 DEF Idle
  <2>2. /\ cli'.epoch = cli.epoch /\ cli'.actionSeq = cli.actionSeq /\ cli'.failed = cli.failed
        /\ cli'.seq \in {0, cli.seq}
    BY <1>1, <1>3 DEF Toolbar
  <2> QED BY <1>1, <1>2, <1>3, <2>1, <2>2
<1>4. CASE upd.packets # <<>> /\ Follows(Head(upd.packets)) /\ Head(upd.packets).epoch = ren.epoch
  <2> DEFINE p == Head(upd.packets)
  <2>1. upd.packets \in Seq(Packet)
    BY <1>1 DEF Batch
  <2>2. Len(upd.packets) > 0 /\ p = upd.packets[1] /\ p \in Packet
    BY <1>4, <2>1
  <2>3. ren' = Applied(p) /\ upd' = [upd EXCEPT !.at = "applied"] /\ cli' = cli
    BY <1>4 DEF Apply
  <2>4. upd'.at = "applied" /\ upd'.packets = upd.packets
    BY <1>1, <2>3 DEF Batch
  <2>5. p.epoch = cli.epoch /\ p.epoch = ren.epoch /\ p.seq = cli.seq + 1
    BY <1>4 DEF Follows
  <2> HIDE DEF p
  <2>6. /\ Applied(p).epoch = ren.epoch /\ Applied(p).serial = ren.serial
        /\ Applied(p).draft = IF ren.draft = Nothing \/ Confirmed(p) THEN Nothing ELSE ren.draft
        /\ Applied(p).field = IF (ren.draft = Nothing \/ Confirmed(p)) /\ p.put["field"] # Nothing
                              THEN p.put["field"] ELSE ren.field
    BY <1>1 DEF Applied, Renderer
  <2>7. Confirmed(p) <=> ren.draft # Nothing /\ p.input >= ren.draft.seq
    BY DEF Confirmed
  <2>8. Shows(p)
    BY <2>3, <2>5, <2>6, <2>7 DEF Shows
  <2> QED BY <1>1, <1>2, <2>2, <2>3, <2>4, <2>8
<1>5. \/ ren' = ren /\ (upd' = Idle \/ upd' = [at |-> "acks", seq |-> cli.seq])
         /\ (cli' = cli \/ cli' = [cli EXCEPT !.seq = 0])
      \/ upd.packets # <<>> /\ Follows(Head(upd.packets)) /\ Head(upd.packets).epoch = ren.epoch
  BY DEF Apply
<1> QED BY <1>3, <1>4, <1>5

LEMMA WasAppliedIs ==
  ASSUME Types, WasApplied
  PROVE  /\ SameShown /\ ses' = ses /\ upd.at = "applied" /\ upd'.at = "applies"
         /\ Len(upd.packets) > 0 /\ upd.packets[1] \in Packet
         /\ Known(upd'.packets) \subseteq Known(upd.packets)
         /\ cli'.epoch = cli.epoch /\ cli'.actionSeq = cli.actionSeq /\ cli'.failed = cli.failed
         /\ cli'.seq = upd.packets[1].seq
<1>1. cli \in Toolbar /\ upd \in Batch /\ upd.packets # <<>>
  BY DEF WasApplied, Types, Polls, Polled, Batch
<1>2. upd.packets \in Seq(Packet)
  BY <1>1 DEF Batch
<1>3. /\ Len(upd.packets) > 0 /\ Head(upd.packets) = upd.packets[1] /\ upd.packets[1] \in Packet
      /\ Len(upd.packets) \in Nat
  BY <1>1, <1>2
<1>4. cli' = [cli EXCEPT !.seq = upd.packets[1].seq]
  BY <1>3 DEF WasApplied
<1>5. upd'.at = "applies" /\ upd'.packets = Tail(upd.packets)
  BY <1>1 DEF WasApplied, Batch
<1>6. Known(Tail(upd.packets)) \subseteq Known(upd.packets)
  <2>1. /\ Tail(upd.packets) \in Seq(Packet) /\ Len(Tail(upd.packets)) = Len(upd.packets) - 1
        /\ \A i \in 1 .. Len(Tail(upd.packets)) : Tail(upd.packets)[i] = upd.packets[i + 1]
    BY <1>1, <1>2, HeadTailProperties
  <2>2. DOMAIN Tail(upd.packets) = 1 .. Len(upd.packets) - 1 /\ DOMAIN upd.packets = 1 .. Len(upd.packets)
    BY <1>2, <2>1
  <2>3. \A i \in 1 .. Len(upd.packets) - 1 : i + 1 \in 1 .. Len(upd.packets)
    BY <1>3
  <2> QED BY <2>1, <2>2, <2>3 DEF Known
<1>7. SameShown /\ ses' = ses /\ upd.at = "applied"
  BY DEF WasApplied, SameShown, SameActions
<1>8. /\ cli'.epoch = cli.epoch /\ cli'.actionSeq = cli.actionSeq /\ cli'.failed = cli.failed
      /\ cli'.seq = upd.packets[1].seq
  BY <1>1, <1>4 DEF Toolbar
<1> QED BY <1>3, <1>5, <1>6, <1>7, <1>8

LEMMA AckIs ==
  ASSUME Types, Ack
  PROVE  /\ SameShown /\ cli' = cli /\ upd.at = "acks" /\ upd'.at = "idle"
         /\ ses'.epoch = ses.epoch /\ ses'.seq = ses.seq /\ ses'.input = ses.input
         /\ ses'.meta = ses.meta /\ ses'.last = ses.last /\ ses'.result = ses.result
         /\ ses'.nodes = ses.nodes /\ Known(ses'.packets) \subseteq Known(ses.packets)
<1>1. ses \in Session /\ ses.packets \in Seq(Packet)
  BY DEF Types, Session
<1>2. SameShown /\ cli' = cli /\ upd.at = "acks" /\ upd'.at = "idle"
  BY DEF Ack, SameShown, SameActions, Idle
<1> DEFINE ps == Beyond(ses.packets, upd.seq)
           k == IF upd.seq > ses.ack THEN upd.seq ELSE ses.ack
<1>3. Known(ps) \subseteq Known(ses.packets)
  BY <1>1, BeyondIs
<1>4. ses' = [ses EXCEPT !.ack = k, !.packets = ps]
  BY DEF Ack
<1> HIDE DEF ps, k
<1>5. /\ ses'.epoch = ses.epoch /\ ses'.seq = ses.seq /\ ses'.input = ses.input
      /\ ses'.meta = ses.meta /\ ses'.last = ses.last /\ ses'.result = ses.result
      /\ ses'.nodes = ses.nodes /\ ses'.packets = ps
  BY <1>1, <1>4 DEF Session
<1> QED BY <1>2, <1>3, <1>5

-----------------------------------------------------------------------------
(* The steps that neither the user's side nor the session's record notices. *)
Rests ==
  /\ remote'.field = remote.field /\ UNCHANGED <<ses, cli, upd, act, queue, ren, pressed>>
  /\ spent'.overtaken = spent.overtaken

LEMMA RestsIs ==
  ASSUME Types, Script \/ CollectLoop \/ CaptureForAction \/ CaptureForBaseline \/ UNCHANGED mirrorVars
  PROVE  Rests
<1>1. remote \in Document
  BY DEF Types
<1>2. CASE Script
  <2>1. remote'.field = remote.field /\ UNCHANGED <<ses, cli, upd, act, queue, ren, pressed>>
    BY <1>1, <1>2 DEF Script, Document
  <2>2. spent'.overtaken = spent.overtaken
    BY <1>2, CountsOnly DEF Script
  <2> QED BY <2>1, <2>2 DEF Rests
<1>3. CASE CollectLoop \/ CaptureForAction \/ CaptureForBaseline
  BY <1>3 DEF CollectLoop, CaptureForAction, CaptureForBaseline, Snapshot, Rests
<1>4. CASE UNCHANGED mirrorVars
  BY <1>4 DEF mirrorVars, Rests
<1> QED BY <1>2, <1>3, <1>4

Captures == Commit \/ Overflow \/ CaptureMissed

LEMMA Steps ==
  ASSUME Types, [MirrorNext]_mirrorVars
  PROVE  \/ Rests \/ Captures \/ Poll \/ Baseline \/ WasBased \/ Updates \/ Apply \/ WasApplied
         \/ Ack \/ Type \/ PressEnter \/ Navigate \/ Take \/ PerformAction \/ ActionAnswered \/ Lost
BY RestsIs DEF MirrorNext, Captures

(* A capture leaves the call what it was.                                  *)
LEMMA CaptureActs ==
  ASSUME Types, Calls, Captures
  PROVE  /\ act'.do = act.do /\ act'.seq = act.seq /\ (Flying' <=> Flying)
         /\ act'.at = act.at \/ act'.at = "answered"
<1>1. \/ act' = act
      \/ act.at = "captures" /\ act' = [act EXCEPT !.at = "answered"]
  BY CaptureIs DEF Captures
<1>2. act.at = "captures" => act \in Flight
  BY DEF Types, Flight
<1> QED BY <1>1, <1>2 DEF Flying, Flight

LEMMA Leaving ==
  ASSUME Types, LeavesPage
  PROVE  /\ ses'.epoch = ses.epoch + 1 /\ ses'.seq = ses.seq /\ ses'.nodes = Nothing
         /\ ses'.packets = <<>> /\ ses'.input = ses.input /\ ses'.meta = 0
         /\ ses'.last = act.seq /\ ses'.result = ses.result /\ remote'.field = 0
<1>1. ses \in Session /\ remote' = BlankPage
  BY DEF Types, LeavesPage
<1> DEFINE s == [ses EXCEPT !.last = act.seq]
<1>2. /\ s.epoch = ses.epoch /\ s.seq = ses.seq /\ s.input = ses.input /\ s.result = ses.result
      /\ s.last = act.seq /\ s \in [DOMAIN ses -> {s[x] : x \in DOMAIN ses}] /\ DOMAIN s = DOMAIN ses
  BY <1>1 DEF Session
<1>3. ses' = Navigated(s)
  BY DEF LeavesPage
<1>4. Navigated(s) = [ses EXCEPT !.last = act.seq, !.epoch = ses.epoch + 1, !.nodes = Nothing,
                        !.packets = <<>>, !.ack = 0, !.meta = 0]
  BY <1>1 DEF Navigated, Session
<1> HIDE DEF s
<1> QED BY <1>1, <1>3, <1>4 DEF Session, BlankPage

LEMMA Filling ==
  ASSUME Types, Fills
  PROVE  /\ ses'.epoch = ses.epoch /\ ses'.seq = ses.seq /\ ses'.nodes = ses.nodes
         /\ ses'.packets = ses.packets /\ ses'.input = act.do.seq /\ ses'.meta = ses.meta
         /\ ses'.last = act.seq /\ ses'.result = ses.result /\ remote'.field = act.do.text
BY DEF Fills, Types, Session, Document

(* A refusal, or Enter that stays on the page.                             *)
LEMMA Staying ==
  ASSUME Types, Refuses \/ PressesKey
  PROVE  /\ ses'.epoch = ses.epoch /\ ses'.seq = ses.seq /\ ses'.nodes = ses.nodes
         /\ ses'.packets = ses.packets /\ ses'.input = ses.input /\ ses'.meta = ses.meta
         /\ ses'.last \in {ses.last, act.seq} /\ ses'.result = ses.result /\ remote'.field = remote.field
BY DEF Refuses, PressesKey, Types, Session

LEMMA Appending ==
  ASSUME Types, NEW p
  PROVE  /\ DOMAIN Append(ses.packets, p) = 1 .. Len(ses.packets) + 1
         /\ \A i \in 1 .. Len(ses.packets) + 1 :
              Append(ses.packets, p)[i] = IF i \in DOMAIN ses.packets THEN ses.packets[i] ELSE p
<1>1. ses.packets \in Seq(Packet)
  BY Fields
<1> DEFINE all == Packet \cup {p}
<1>2. p \in all
  OBVIOUS
<1>3. ses.packets \in Seq(all) /\ Len(ses.packets) \in Nat /\ DOMAIN ses.packets = 1 .. Len(ses.packets)
  BY <1>1
<1> HIDE DEF all
<1>4. /\ Append(ses.packets, p) \in Seq(all) /\ Len(Append(ses.packets, p)) = Len(ses.packets) + 1
      /\ \A i \in 1 .. Len(ses.packets) : Append(ses.packets, p)[i] = ses.packets[i]
      /\ Append(ses.packets, p)[Len(ses.packets) + 1] = p
  BY <1>2, <1>3, AppendProperties
<1>5. DOMAIN Append(ses.packets, p) = 1 .. Len(ses.packets) + 1
  BY <1>4
<1> QED BY <1>3, <1>4, <1>5

LEMMA AppendKnown ==
  ASSUME Types, NEW p
  PROVE  Known(Append(ses.packets, p)) = Known(ses.packets) \cup {p}
<1> DEFINE n == Len(ses.packets)
<1>1. n \in Nat /\ DOMAIN ses.packets = 1 .. n
  <2>1. ses.packets \in Seq(Packet)
    BY Fields
  <2> QED BY <2>1
<1> DEFINE q == Append(ses.packets, p)
<1>2. DOMAIN q = 1 .. n + 1 /\ \A i \in 1 .. n + 1 : q[i] = IF i \in DOMAIN ses.packets THEN ses.packets[i] ELSE p
  BY Appending
<1> HIDE DEF q, n
<1>3. q[n + 1] = p /\ n + 1 \in DOMAIN q /\ \A i \in 1 .. n : i \in DOMAIN q /\ q[i] = ses.packets[i]
  BY <1>1, <1>2
<1>4. \A i \in DOMAIN q : i = n + 1 \/ i \in 1 .. n
  BY <1>1, <1>2
<1>5. Known(q) = Known(ses.packets) \cup {p}
  BY <1>1, <1>3, <1>4 DEF Known
<1> QED BY <1>5 DEF q

(* The places of the queue after a step.                                   *)
LEMMA Shorter ==
  ASSUME Types, Types', Take
  PROVE  /\ \A i \in DOMAIN queue' : i + 1 \in DOMAIN queue /\ queue'[i] = queue[i + 1]
         /\ 1 \in DOMAIN queue
<1>1. Len(queue) \in Nat /\ DOMAIN queue = 1 .. Len(queue) /\ DOMAIN queue' = 1 .. Len(queue')
  BY Fields, FieldsNext
<1>2. /\ Len(queue') = Len(queue) - 1 /\ Len(queue) > 0
      /\ \A i \in 1 .. Len(queue') : queue'[i] = queue[i + 1]
  BY TakeIs
<1> QED BY <1>1, <1>2

LEMMA Longer ==
  ASSUME Types, Types', NEW a, Grows(a)
  PROVE  \E m \in Nat :
           /\ DOMAIN queue' = 1 .. m + 1 /\ queue'[m + 1] = a
           /\ 1 .. m \subseteq DOMAIN queue
           /\ \A i \in 1 .. m : queue'[i] = queue[i]
<1>1. Len(queue) \in Nat /\ DOMAIN queue = 1 .. Len(queue) /\ DOMAIN queue' = 1 .. Len(queue')
  BY Fields, FieldsNext
<1>2. PICK m \in Nat :
        /\ Len(queue') = m + 1 /\ queue'[m + 1] = a
        /\ \A i \in 1 .. m : queue'[i] = queue[i]
        /\ \/ m = Len(queue)
           \/ m + 1 = Len(queue) /\ queue[m + 1].kind = "input" /\ a.kind = "input"
  BY DEF Grows
<1>3. m <= Len(queue)
  <2>1. m = Len(queue) \/ m + 1 = Len(queue)
    BY <1>2, Zenon
  <2> DEFINE n == Len(queue)
  <2>2. n \in Nat /\ (m = n \/ m + 1 = n)
    BY <1>1, <2>1
  <2> HIDE DEF n
  <2>3. m <= n
    BY <2>2
  <2> QED BY <2>3 DEF n
<1>4. 1 .. m \subseteq DOMAIN queue
  BY <1>1, <1>3
<1> QED BY <1>1, <1>2, <1>4

LEMMA OldEpochs ==
  ASSUME Types, Types', Epochs, NEW a, a.kind = "navigate" \/ a.epoch <= ren.epoch, Grows(a)
  PROVE  \A i \in DOMAIN queue' : queue'[i].kind # "navigate" => queue'[i].epoch <= ren.epoch
<1>1. PICK m \in Nat :
        /\ DOMAIN queue' = 1 .. m + 1 /\ queue'[m + 1] = a
        /\ 1 .. m \subseteq DOMAIN queue
        /\ \A i \in 1 .. m : queue'[i] = queue[i]
  BY Longer
<1>2. \A i \in DOMAIN queue' : i = m + 1 \/ i \in 1 .. m
  BY <1>1
<1>3. \A i \in 1 .. m : queue[i].kind # "navigate" => queue[i].epoch <= ren.epoch
  BY <1>1 DEF Epochs
<1> QED BY <1>1, <1>2, <1>3

LEMMA EpochsStep ==
  ASSUME Types, Types', Epochs, Calls, [MirrorNext]_mirrorVars
  PROVE  Epochs'
<1> ses.epoch \in Nat /\ ren.epoch \in Nat /\ cli.epoch \in Nat
  BY Fields
<1>1. CASE Rests
  BY <1>1 DEF Rests, Epochs, Flying
<1>2. CASE Poll
  BY <1>2, PollIs DEF SameShown, SameActions, Epochs, Flying
<1>3. CASE WasBased
  BY <1>3, WasBasedIs DEF SameShown, SameActions, Epochs, Flying
<1>4. CASE Take
  BY <1>4, TakeIs, Shorter DEF SameSession, Epochs, Flying
<1>5. CASE ActionAnswered
  BY <1>5, AnsweredIs DEF SameSession, Epochs, Flying
<1>6. CASE Lost
  BY <1>6, LostIs DEF SameSession, Epochs, Flying
<1>7. CASE Ack
  <2>1. \A i \in DOMAIN ses'.packets : ses'.packets[i] \in Known(ses'.packets)
    BY DEF Known
  <2>2. \A i \in DOMAIN ses'.packets : ses'.packets[i].epoch <= ses'.epoch
    BY <1>7, <2>1, AckIs DEF Known, Epochs
  <2> QED BY <1>7, <2>2, AckIs DEF SameShown, SameActions, Epochs, Flying
<1>8. CASE WasApplied
  <2>1. \A i \in DOMAIN upd'.packets : upd'.packets[i] \in Known(upd'.packets)
    BY DEF Known
  <2>2. \A i \in DOMAIN upd'.packets : upd'.packets[i].epoch <= ses.epoch
    BY <1>8, <2>1, WasAppliedIs DEF Known, Epochs
  <2> QED BY <1>8, <2>2, WasAppliedIs DEF SameShown, SameActions, Epochs, Flying
<1>9. CASE Updates
  <2>1. \A i \in DOMAIN upd'.packets : upd'.packets[i] \in Known(upd'.packets)
    BY DEF Known
  <2>2. upd'.at = "applies" => \A i \in DOMAIN upd'.packets : upd'.packets[i].epoch <= ses.epoch
    BY <1>9, <2>1, UpdatesIs DEF Known, Epochs
  <2> QED BY <1>9, <2>2, UpdatesIs DEF SameShown, SameActions, Epochs, Flying
<1>10. CASE Apply
  BY <1>10, ApplyIs DEF SameActions, Epochs, Flying, Shows
<1>11. CASE Type
  <2>1. \A a : a.epoch <= ren.epoch /\ Grows(a) =>
          \A i \in DOMAIN queue' : queue'[i].kind # "navigate" => queue'[i].epoch <= ren.epoch
    BY OldEpochs
  <2>2. Typed(ren'.field).epoch <= ren.epoch
    BY DEF Typed
  <2>3. \A i \in DOMAIN queue' : queue'[i].kind # "navigate" => queue'[i].epoch <= ren.epoch
    BY <1>11, <2>1, <2>2, TypeIs DEF Epochs
  <2> QED BY <1>11, <2>3, TypeIs DEF SameSession, Epochs, Flying
<1>12. CASE PressEnter
  <2>1. \A a : a.epoch <= ren.epoch /\ Grows(a) =>
          \A i \in DOMAIN queue' : queue'[i].kind # "navigate" => queue'[i].epoch <= ren.epoch
    BY OldEpochs
  <2>2. \A f : Entered(f).epoch <= ren.epoch
    BY DEF Entered
  <2>3. \A i \in DOMAIN queue' : queue'[i].kind # "navigate" => queue'[i].epoch <= ren.epoch
    BY <1>12, <2>1, <2>2, EnterIs DEF Epochs
  <2> QED BY <1>12, <2>3, EnterIs DEF SameSession, Epochs, Flying
<1>13. CASE Navigate
  <2>1. \A a : a.kind = "navigate" /\ Grows(a) =>
          \A i \in DOMAIN queue' : queue'[i].kind # "navigate" => queue'[i].epoch <= ren.epoch
    BY OldEpochs
  <2>2. \A i \in DOMAIN queue' : queue'[i].kind # "navigate" => queue'[i].epoch <= ren.epoch
    BY <1>13, <2>1, NavigateIs
  <2> QED BY <1>13, <2>2, NavigateIs DEF SameSession, Epochs, Flying
<1>14. CASE Baseline
  <2>1. ren.epoch <= upd.epoch /\ upd.epoch <= ses.epoch /\ upd.epoch \in Nat /\ ren.epoch \in Nat /\ ses.epoch \in Nat
    BY <1>14, BaselineIs DEF Epochs, Polled
  <2>2. \A a : a.epoch <= ren.epoch /\ Grows(a) =>
          \A i \in DOMAIN queue' : queue'[i].kind # "navigate" => queue'[i].epoch <= ren.epoch
    BY OldEpochs
  <2>3. Typed(ren'.field).epoch <= ren.epoch
    BY DEF Typed
  <2>4. \A i \in DOMAIN queue' : queue'[i].kind # "navigate" => queue'[i].epoch <= ren.epoch
    BY <1>14, <2>2, <2>3, BaselineIs DEF Epochs
  <2>5. act.at # "idle" /\ act.do.kind # "navigate" => act.do.epoch <= ren.epoch /\ act.do.epoch \in Nat
    BY Fields, Actions DEF Epochs, Flying
  <2>6. \A i \in DOMAIN queue' : queue'[i].kind # "navigate" => queue'[i].epoch \in Nat
    BY Actions, FieldsNext
  <2>7. /\ ren.epoch <= ren'.epoch /\ ren'.epoch <= ses.epoch /\ ren'.epoch \in Nat
        /\ ren'.epoch = ses.epoch => cli'.epoch = ses.epoch
    <3>1. \/ ren' = ren /\ cli' = cli
          \/ ren'.epoch = upd.epoch /\ cli'.epoch = upd.epoch
      BY <1>14, BaselineIs
    <3> QED BY <2>1, <3>1, SMTT(30) DEF Epochs
  <2>8. \A i \in DOMAIN queue' : queue'[i].kind # "navigate" => queue'[i].epoch <= ren'.epoch
    <3>1. TAKE i \in DOMAIN queue'
    <3>2. queue'[i].kind # "navigate" => queue'[i].epoch <= ren.epoch /\ queue'[i].epoch \in Nat
      BY <2>4, <2>6
    <3>3. \A e \in Nat : e <= ren.epoch => e <= ren'.epoch
      BY <2>1, <2>7
    <3> QED BY <3>2, <3>3
  <2>9. act.at # "idle" /\ act.do.kind # "navigate" => act.do.epoch <= ren'.epoch
    BY <2>1, <2>5, <2>7
  <2> QED BY <1>14, <2>7, <2>8, <2>9, BaselineIs DEF SameActions, Epochs, Flying
<1>15. CASE Captures
  <2>1. NewPacket.epoch = ses.epoch
    BY DEF NewPacket
  <2>2. \A i \in DOMAIN ses'.packets : ses'.packets[i].epoch <= ses.epoch
    <3>1. ses'.packets \in {ses.packets, <<>>, Append(ses.packets, NewPacket)}
      BY <1>15, CaptureIs DEF Captures, SameKnown, Updated
    <3>2. \A p \in Known(ses'.packets) : p \in Known(ses.packets) \/ p = NewPacket
      <4>1. Known(<<>>) = {}
        BY DEF Known
      <4>2. Known(Append(ses.packets, NewPacket)) = Known(ses.packets) \cup {NewPacket}
        BY AppendKnown, Zenon
      <4>3. Known(ses'.packets) \in {Known(ses.packets), {}, Known(ses.packets) \cup {NewPacket}}
        BY <3>1, <4>1, <4>2, Zenon
      <4> QED BY <4>3
    <3>3. \A p \in Known(ses.packets) : p.epoch <= ses.epoch
      BY DEF Epochs, Known
    <3>4. \A i \in DOMAIN ses'.packets : ses'.packets[i] \in Known(ses'.packets)
      BY DEF Known
    <3>5. ses'.epoch = ses.epoch /\ ses.epoch \in Nat
      BY <1>15, CaptureIs DEF Captures
    <3> QED BY <2>1, <3>2, <3>3, <3>4, <3>5
  <2>3. UNCHANGED <<cli, queue, ren>> /\ ses'.epoch = ses.epoch
    BY <1>15, CaptureIs DEF Captures
  <2>4. act'.do = act.do /\ (Flying' <=> Flying)
    BY <1>15, CaptureActs
  <2>5. upd' = upd \/ (upd'.at = "captured" /\ upd'.epoch = ses.epoch)
    BY <1>15, CaptureIs DEF Captures
  <2> QED BY <2>2, <2>3, <2>4, <2>5 DEF Epochs
<1>16. CASE PerformAction
  <2>1. \/ ses'.epoch = ses.epoch /\ ses'.packets = ses.packets
        \/ ses'.epoch = ses.epoch + 1 /\ ses'.packets = <<>>
    BY <1>16, PerformIs, Leaving, Filling, Staying
  <2>2. (Flying => act'.do = act.do) /\ UNCHANGED <<cli, upd, queue, ren>> /\ Flying
    BY <1>16, PerformIs DEF Flying
  <2>3. (Flying' => act'.do = act.do) /\ \A i \in DOMAIN ses'.packets : ses'.packets[i].epoch <= ses.epoch
    BY <2>1, <2>2 DEF Epochs
  <2>4. ses.epoch <= ses'.epoch /\ (ren.epoch = ses'.epoch => ren.epoch = ses.epoch)
    BY <2>1 DEF Epochs
  <2>5. upd.at = "captured" => upd.epoch \in Nat
    BY DEF Types, Polls, Polled, Batch
  <2>6. upd.at \in {"applies", "applied"} =>
          \A i \in DOMAIN upd.packets : upd.packets[i].epoch <= ses'.epoch
    <3>1. upd.at \in {"applies", "applied"} =>
            \A i \in DOMAIN upd.packets : upd.packets[i].epoch \in Nat
      <4>1. upd.at \in {"applies", "applied"} => upd.packets \in Seq(Packet)
        BY DEF Types, Polls, Polled, Batch
      <4>2. \A p \in Packet : p.epoch \in Nat
        BY DEF Packet
      <4>3. upd.at \in {"applies", "applied"} => \A i \in DOMAIN upd.packets : upd.packets[i] \in Packet
        BY <4>1
      <4> QED BY <4>2, <4>3, Zenon
    <3>2. upd.at \in {"applies", "applied"} => \A i \in DOMAIN upd.packets : upd.packets[i].epoch <= ses.epoch
      BY DEF Epochs
    <3>3. \A e \in Nat : e <= ses.epoch => e <= ses'.epoch
      BY <2>1
    <3> QED BY <3>1, <3>2, <3>3, Zenon
  <2> QED BY <2>1, <2>2, <2>3, <2>4, <2>5, <2>6 DEF Epochs
<1> QED BY <1>1, <1>2, <1>3, <1>4, <1>5, <1>6, <1>7, <1>8, <1>9, <1>10, <1>11, <1>12, <1>13, <1>14, <1>15, <1>16, Steps
-----------------------------------------------------------------------------
(* What the actions and the numbers are is the same.                       *)
Keeps ==
  /\ ses'.input = ses.input /\ ses'.last = ses.last /\ 0 < ses'.seq
  /\ ren'.serial = ren.serial /\ queue' = queue /\ (Flying' <=> Flying)
  /\ Flying => act'.do = act.do /\ act'.seq = act.seq

LEMMA Keeping ==
  ASSUME Types, Numbers, Calls,
         \/ Rests \/ Captures \/ Poll \/ WasBased \/ Updates \/ Apply \/ WasApplied \/ Ack
  PROVE  Keeps
<1>1. 0 < ses.seq /\ ses.seq \in Nat
  BY Fields DEF Numbers
<1>2. CASE Rests
  BY <1>1, <1>2 DEF Rests, Keeps, Flying
<1>3. CASE Captures
  <2>1. ses'.input = ses.input /\ ses'.last = ses.last /\ ren' = ren /\ queue' = queue
    BY <1>3, CaptureIs DEF Captures
  <2>2. ses'.seq = ses.seq \/ ses'.seq = ses.seq + 1
    BY <1>3, CaptureIs DEF Captures, SameKnown, Updated
  <2>3. 0 < ses'.seq
    BY <1>1, <2>2
  <2>4. act'.do = act.do /\ act'.seq = act.seq /\ (Flying' <=> Flying)
    BY <1>3, CaptureActs
  <2> QED BY <2>1, <2>3, <2>4 DEF Keeps
<1>4. CASE Poll
  BY <1>1, <1>4, PollIs DEF SameShown, SameActions, Keeps, Flying
<1>5. CASE WasBased
  BY <1>1, <1>5, WasBasedIs DEF SameShown, SameActions, Keeps, Flying
<1>6. CASE Updates
  BY <1>1, <1>6, UpdatesIs DEF SameShown, SameActions, Keeps, Flying
<1>7. CASE Apply
  BY <1>1, <1>7, ApplyIs DEF SameActions, Shows, Keeps, Flying
<1>8. CASE WasApplied
  BY <1>1, <1>8, WasAppliedIs DEF SameShown, SameActions, Keeps, Flying
<1>9. CASE Ack
  BY <1>1, <1>9, AckIs DEF SameShown, SameActions, Keeps, Flying
<1> QED BY <1>2, <1>3, <1>4, <1>5, <1>6, <1>7, <1>8, <1>9

(* The queue gets a text with the next number, or something else.          *)
LEMMA NumbersGrow ==
  ASSUME Types, Types', Numbers, NEW a, Grows(a), act' = act, ses' = ses,
         \/ a.kind = "input" /\ a.seq = ren.serial + 1 /\ ren'.serial = ren.serial + 1
         \/ a.kind # "input" /\ ren'.serial = ren.serial
  PROVE  Numbers'
<1>1. PICK m \in Nat :
        /\ DOMAIN queue' = 1 .. m + 1 /\ queue'[m + 1] = a
        /\ 1 .. m \subseteq DOMAIN queue
        /\ \A i \in 1 .. m : queue'[i] = queue[i]
  BY Longer
<1>2. \A i \in DOMAIN queue' : i = m + 1 \/ (i \in 1 .. m /\ i \in DOMAIN queue /\ queue'[i] = queue[i])
  BY <1>1
<1>3. /\ ses.input \in Nat /\ ren.serial \in Nat /\ ren'.serial \in Nat /\ ren.serial <= ren'.serial
      /\ a.kind = "input" => a.seq = ren.serial + 1 /\ ren'.serial = ren.serial + 1
  <2>1. ses.input \in Nat /\ ren.serial \in Nat /\ ren'.serial \in Nat
    BY Fields, FieldsNext
  <2>2. ren'.serial \in {ren.serial, ren.serial + 1}
    OBVIOUS
  <2>3. ren.serial <= ren'.serial
    BY <2>1, <2>2
  <2> QED BY <2>1, <2>3
<1>4. Flying /\ act.do.kind = "input" => act.do.seq \in Nat /\ act.do.seq <= ren.serial
  BY Fields, Actions DEF Numbers
<1>5. \A i \in DOMAIN queue : queue[i].kind = "input" => queue[i].seq \in Nat
  BY Fields, Actions
<1>6. \A i \in DOMAIN queue' : queue'[i].kind = "input" =>
        /\ ses.input < queue'[i].seq /\ queue'[i].seq <= ren'.serial
        /\ Flying /\ act.do.kind = "input" => act.do.seq < queue'[i].seq
  <2> TAKE i \in DOMAIN queue'
  <2>1. CASE i = m + 1
    <3>1. queue'[i].kind = "input" => queue'[i].seq = ren.serial + 1 /\ ren'.serial = ren.serial + 1
      BY <1>1, <1>3, <2>1
    <3>2. ses.input <= ren.serial
      BY DEF Numbers
    <3>3. queue'[i].kind = "input" => ses.input < queue'[i].seq /\ queue'[i].seq <= ren'.serial
      BY <1>3, <3>1, <3>2
    <3>4. Flying /\ act.do.kind = "input" => act.do.seq < ren.serial + 1
      BY <1>3, <1>4
    <3> QED BY <3>1, <3>3, <3>4
  <2>2. CASE i \in DOMAIN queue /\ queue'[i] = queue[i]
    <3>1. queue[i].kind = "input" =>
            /\ ses.input < queue[i].seq /\ queue[i].seq <= ren.serial /\ queue[i].seq \in Nat
            /\ Flying /\ act.do.kind = "input" => act.do.seq < queue[i].seq
      BY <1>5, <2>2 DEF Numbers
    <3> QED BY <1>3, <2>2, <3>1
  <2> QED BY <1>2, <2>1, <2>2
<1>7. \A i, j \in DOMAIN queue' :
        i < j /\ queue'[i].kind = "input" /\ queue'[j].kind = "input" => queue'[i].seq < queue'[j].seq
  <2> SUFFICES ASSUME NEW i \in DOMAIN queue', NEW j \in DOMAIN queue',
                      i < j, queue'[i].kind = "input", queue'[j].kind = "input"
               PROVE  queue'[i].seq < queue'[j].seq
    OBVIOUS
  <2>1. i \in 1 .. m /\ i \in DOMAIN queue /\ queue'[i] = queue[i]
    BY <1>1, <1>2
  <2>2. queue[i].seq \in Nat /\ queue[i].seq <= ren.serial
    BY <1>5, <2>1 DEF Numbers
  <2>3. CASE j = m + 1
    BY <1>1, <1>3, <2>1, <2>2, <2>3
  <2>4. CASE j \in DOMAIN queue /\ queue'[j] = queue[j]
    BY <2>1, <2>4 DEF Numbers
  <2> QED BY <1>2, <2>3, <2>4
<1>8. 0 < ses.seq /\ ses.input <= ren'.serial
  BY <1>3 DEF Numbers
<1>9. Flying /\ act.do.kind = "input" => act.do.seq <= ren'.serial /\ (~Seen => ses.input < act.do.seq)
  BY <1>3, <1>4 DEF Numbers
<1> QED BY <1>6, <1>7, <1>8, <1>9 DEF Numbers, Flying, Seen

LEMMA NumbersStep ==
  ASSUME Types, Types', Numbers, Calls, [MirrorNext]_mirrorVars
  PROVE  Numbers'
<1>1. CASE \/ Rests \/ Captures \/ Poll \/ WasBased \/ Updates \/ Apply \/ WasApplied \/ Ack
  BY <1>1, Keeping DEF Keeps, Numbers, Seen
<1>2. CASE Type
  <2>1. Typed(ren'.field).kind = "input" /\ Typed(ren'.field).seq = ren.serial + 1
    BY DEF Typed
  <2>2. CASE Grows(Typed(ren'.field))
    BY <1>2, <2>1, <2>2, TypeIs, NumbersGrow DEF SameSession
  <2>3. CASE queue' = queue
    <3>1. \A i \in DOMAIN queue : queue[i].kind = "input" => queue[i].seq \in Nat
      BY Fields, Actions
    <3>2. Flying /\ act.do.kind = "input" => act.do.seq \in Nat
      BY Fields, Actions
    <3>3. ren.serial \in Nat /\ ren'.serial = ren.serial + 1 /\ ses.input \in Nat
      BY <1>2, TypeIs, Fields
    <3> QED BY <1>2, <2>3, <3>1, <3>2, <3>3, TypeIs DEF SameSession, Numbers, Flying, Seen
  <2> QED BY <1>2, <2>2, <2>3, TypeIs
<1>3. CASE PressEnter
  <2>1. \A f : Entered(f).kind # "input"
    BY DEF Entered
  <2>2. CASE \E f \in BOOLEAN : Grows(Entered(f))
    BY <1>3, <2>1, <2>2, EnterIs, NumbersGrow DEF SameSession
  <2>3. CASE queue' = queue
    BY <1>3, <2>3, EnterIs DEF SameSession, Numbers, Flying, Seen
  <2> QED BY <1>3, <2>2, <2>3, EnterIs
<1>4. CASE Navigate
  BY <1>4, NavigateIs, NumbersGrow DEF SameSession
<1>5. CASE Baseline
  <2>1. act' = act /\ ses' = ses
    BY <1>5, BaselineIs DEF SameActions
  <2>2. CASE ren'.serial = ren.serial + 1 /\ Grows(Typed(ren'.field))
    <3>1. Typed(ren'.field).kind = "input" /\ Typed(ren'.field).seq = ren.serial + 1
      BY DEF Typed
    <3> QED BY <2>1, <2>2, <3>1, NumbersGrow
  <2>3. CASE ren'.serial = ren.serial /\ queue' = queue
    BY <2>1, <2>3 DEF Numbers, Flying, Seen
  <2> QED BY <1>5, <2>2, <2>3, BaselineIs
<1>6. CASE Take
  <2>1. ses' = ses /\ ren' = ren /\ act.at = "idle"
    BY <1>6, TakeIs DEF SameSession
  <2>2. /\ \A i \in DOMAIN queue' : i + 1 \in DOMAIN queue /\ queue'[i] = queue[i + 1]
        /\ 1 \in DOMAIN queue
    BY <1>6, Shorter
  <2>3. act' = act \/ act'.do = queue[1]
    BY <1>6, TakeIs
  <2>4. \A i \in DOMAIN queue' : i \in Nat /\ i > 0
    BY FieldsNext
  <2>5. \A i, j \in DOMAIN queue' : i < j => i + 1 < j + 1
    BY <2>4
  <2>6. \A i \in DOMAIN queue' : 1 < i + 1
    BY <2>4
  <2>7. \A i \in DOMAIN queue' : queue'[i].kind = "input" =>
          /\ ses.input < queue'[i].seq /\ queue'[i].seq <= ren.serial
          /\ queue[1].kind = "input" => queue[1].seq < queue'[i].seq
    BY <2>2, <2>6 DEF Numbers
  <2>8. \A i, j \in DOMAIN queue' :
          i < j /\ queue'[i].kind = "input" /\ queue'[j].kind = "input" => queue'[i].seq < queue'[j].seq
    BY <2>2, <2>5 DEF Numbers
  <2>9. queue[1].kind = "input" => queue[1].seq <= ren.serial /\ ses.input < queue[1].seq
    BY <2>2 DEF Numbers
  <2>10. 0 < ses.seq /\ ses.input <= ren.serial
    BY DEF Numbers
  <2>11. Flying' => act'.do = queue[1]
    BY <2>1, <2>3 DEF Flying
  <2> QED BY <2>1, <2>7, <2>8, <2>9, <2>10, <2>11 DEF Numbers
<1>7. CASE ActionAnswered \/ Lost
  <2>1. ses' = ses /\ ren' = ren /\ queue' = queue
    BY <1>7, AnsweredIs, LostIs DEF SameSession
  <2>2. Flying' => Flying /\ act'.do = act.do /\ act'.seq = act.seq
    BY <1>7, AnsweredIs, LostIs DEF Flying
  <2> QED BY <2>1, <2>2 DEF Numbers, Seen
<1>8. CASE PerformAction
  <2>1. Flying /\ act'.do = act.do /\ act'.seq = act.seq /\ queue' = queue /\ ren' = ren /\ act.at = "sent"
    BY <1>8, PerformIs DEF Flying
  <2>2. /\ ses'.last = act.seq \/ ses'.last >= act.seq
        /\ ses'.seq = ses.seq
        /\ \/ ses'.input = ses.input
           \/ act.do.kind = "input" /\ ses'.input = act.do.seq
    <3>1. Refuses => ses'.last >= act.seq
      BY DEF Refuses
    <3>2. PressesKey => ses'.last = act.seq
      BY DEF PressesKey, Types, Session
    <3>3. Fills => act.do.kind = "input"
      BY DEF Fills, Typing
    <3> QED BY <1>8, <3>1, <3>2, <3>3, PerformIs, Leaving, Filling, Staying
  <2>3. Seen'
    BY <2>1, <2>2, Fields DEF Seen
  <2>4. act.do.kind = "input" => act.do.seq <= ren.serial
    BY <2>1 DEF Numbers
  <2> QED BY <2>1, <2>2, <2>3, <2>4 DEF Numbers
<1> QED BY <1>1, <1>2, <1>3, <1>4, <1>5, <1>6, <1>7, <1>8, Steps

(* Who waits for a capture.                                                *)
Captured ==
  /\ cap # Nothing => (cap.who = "action" => act.at = "captures")
  /\ cap # Nothing => (cap.who = "baseline" => upd.at = "captures")

(* The steps that change neither the call nor what the session knows of it. *)
LEMMA CallsKept ==
  ASSUME Types, Calls, Captured', act' = act, upd'.at \in {"captures", "captured", "based"} => cli'.seq = 0,
         cli'.actionSeq = cli.actionSeq, ses'.last = ses.last, ses'.result = ses.result,
         ses'.epoch = ses.epoch
  PROVE  Calls'
BY DEF Calls, Captured, Flying, Seen

LEMMA CallsStep ==
  ASSUME Types, Types', Calls, [MirrorNext]_mirrorVars
  PROVE  Calls'
<1>1. /\ ses.last \in Nat /\ ses.result \in Nat /\ cli.actionSeq \in Nat
      /\ Flying => act.seq \in Nat
  BY Fields
<1>2. Captured /\ (upd.at \in {"captures", "captured", "based"} => cli.seq = 0)
  BY DEF Calls, Captured
<1>3. CASE Script \/ CollectLoop \/ CaptureForAction \/ CaptureForBaseline \/ UNCHANGED mirrorVars
  <2>1. Rests
    BY <1>3, RestsIs
  <2>2. Captured'
    BY <1>2, <1>3 DEF Captured, Script, CollectLoop, CaptureForAction, CaptureForBaseline, Snapshot, mirrorVars
  <2> QED BY <1>2, <2>1, <2>2, CallsKept DEF Rests
<1>4. CASE Poll
  BY <1>2, <1>4, PollIs, CallsKept DEF SameShown, SameActions, Captured
<1>5. CASE WasBased
  BY <1>2, <1>5, WasBasedIs, CallsKept DEF SameShown, SameActions, Captured
<1>6. CASE Updates
  BY <1>2, <1>6, UpdatesIs, CallsKept DEF SameShown, SameActions, Captured
<1>7. CASE Apply
  BY <1>2, <1>7, ApplyIs, CallsKept DEF SameActions, Captured
<1>8. CASE WasApplied
  BY <1>2, <1>8, WasAppliedIs, CallsKept DEF SameShown, SameActions, Captured
<1>9. CASE Ack
  BY <1>2, <1>9, AckIs, CallsKept DEF SameShown, SameActions, Captured
<1>10. CASE Type \/ PressEnter \/ Navigate
  BY <1>2, <1>10, TypeIs, EnterIs, NavigateIs, CallsKept DEF SameSession, Captured
<1>11. CASE Baseline
  BY <1>2, <1>11, BaselineIs, CallsKept DEF SameActions, Captured
<1>12. CASE Captures
  <2>1. /\ cap' = Nothing /\ cli' = cli /\ ses'.epoch = ses.epoch /\ ses'.last = ses.last
        /\ upd' = upd \/ upd.at = "captures"
        /\ \/ act' = act /\ ses'.result = ses.result
           \/ act.at = "captures" /\ ses'.result = act.seq
    BY <1>12, CaptureIs DEF Captures
  <2>2. act'.do = act.do /\ act'.seq = act.seq /\ (Flying' <=> Flying) /\ (act'.at = act.at \/ act'.at = "answered")
    BY <1>12, CaptureActs
  <2>3. upd'.at \in {"captures", "captured", "based"} => cli'.seq = 0
    BY <1>2, <2>1
  <2>4. act.at = "captures" => Flying
    BY DEF Flying
  <2>5. ses'.last <= cli'.actionSeq /\ ses'.result <= cli'.actionSeq /\ (Flying' => act'.seq <= cli'.actionSeq)
    BY <2>1, <2>2, <2>4 DEF Calls
  <2>6. act'.at \in {"captures", "answered"} => Seen'
    <3>1. act.at = "captures" \/ act' = act
      BY <1>12, CaptureIs DEF Captures
    <3>2. act'.at \in {"captures", "answered"} => Seen
      BY <3>1 DEF Calls
    <3> QED BY <2>1, <2>2, <3>2 DEF Seen
  <2>7. Flying' /\ act'.do.kind = "input" =>
          /\ ses'.result = act'.seq => act'.do.epoch = ses'.epoch
          /\ act'.at = "captures" => act'.do.epoch = ses'.epoch
    BY <2>1, <2>2 DEF Calls
  <2> QED BY <2>1, <2>3, <2>5, <2>6, <2>7 DEF Calls
<1>13. CASE Take
  <2>1. /\ ses' = ses /\ upd' = upd /\ cap' = cap /\ act.at = "idle"
        /\ \/ act' = act /\ cli' = cli
           \/ /\ act'.at = "sent" /\ act'.seq = cli.actionSeq + 1
              /\ cli'.actionSeq = cli.actionSeq + 1 /\ cli'.seq = cli.seq
    BY <1>13, TakeIs DEF SameSession
  <2>2. CASE act' = act /\ cli' = cli
    BY <1>2, <2>1, <2>2, CallsKept DEF Captured
  <2>3. CASE /\ act'.at = "sent" /\ act'.seq = cli.actionSeq + 1
             /\ cli'.actionSeq = cli.actionSeq + 1 /\ cli'.seq = cli.seq
    <3>1. ses'.last <= cli'.actionSeq /\ ses'.result <= cli'.actionSeq /\ act'.seq <= cli'.actionSeq
      BY <1>1, <2>1, <2>3 DEF Calls
    <3>2. ses'.result # act'.seq
      BY <1>1, <2>1, <2>3 DEF Calls
    <3>3. Captured' /\ (upd'.at \in {"captures", "captured", "based"} => cli'.seq = 0)
      BY <1>2, <2>1, <2>3 DEF Captured
    <3> QED BY <2>3, <3>1, <3>2, <3>3 DEF Calls, Captured
  <2> QED BY <2>1, <2>2, <2>3
<1>14. CASE PerformAction
  <2>1. /\ act.at = "sent" /\ act'.do = act.do /\ act'.seq = act.seq /\ cap' = cap /\ cli' = cli /\ upd' = upd
        /\ Refuses \/ Fills \/ PressesKey \/ LeavesPage
    BY <1>14, PerformIs
  <2>2. Flying /\ act.seq \in Nat /\ act.seq <= cli.actionSeq
    BY <1>1, <2>1 DEF Flying, Calls
  <2>3. ses'.last \in {ses.last, act.seq} /\ ses'.result = ses.result
    BY <2>1, Leaving, Filling, Staying
  <2>4. ses'.last >= act.seq
    <3>1. Refuses => ses'.last >= act.seq
      BY DEF Refuses
    <3>2. PressesKey => ses'.last = act.seq
      BY DEF PressesKey, Types, Session
    <3> QED BY <2>1, <2>2, <3>1, <3>2, Leaving, Filling
  <2>5. act.do.kind = "input" => ses'.epoch = ses.epoch /\ (act'.at = "captures" => act.do.epoch = ses.epoch)
    <3>1. Refuses => act'.at = "answered"
      BY DEF Refuses
    <3>2. Fills => act.do.epoch = ses.epoch
      BY DEF Fills, Typing
    <3>3. PressesKey \/ LeavesPage => act.do.kind # "input"
      BY DEF PressesKey, LeavesPage
    <3> QED BY <2>1, <3>1, <3>2, <3>3, Filling, Staying
  <2>6. Captured'
    BY <1>2, <2>1 DEF Captured
  <2>7. ses'.last <= cli'.actionSeq /\ ses'.result <= cli'.actionSeq /\ act'.seq <= cli'.actionSeq /\ Seen'
    BY <2>1, <2>2, <2>3, <2>4 DEF Calls, Seen
  <2>8. act.do.kind = "input" => (ses.result = act.seq => act.do.epoch = ses.epoch)
    BY <2>2 DEF Calls
  <2> QED BY <1>2, <2>1, <2>3, <2>5, <2>6, <2>7, <2>8 DEF Calls, Captured
<1>15. CASE ActionAnswered \/ Lost
  <2>1. /\ ses' = ses /\ cap' = cap /\ upd' = upd /\ cli'.actionSeq = cli.actionSeq /\ cli'.seq \in {0, cli.seq}
        /\ act.at \in {"sent", "answered"} /\ act'.at \in {"idle", "sent"}
        /\ act'.at = "sent" => act'.do = act.do /\ act'.seq = act.seq
    BY <1>15, AnsweredIs, LostIs DEF SameSession
  <2>2. Captured' /\ (upd'.at \in {"captures", "captured", "based"} => cli'.seq = 0)
    BY <1>2, <2>1 DEF Captured
  <2> QED BY <2>1, <2>2 DEF Calls, Captured, Flying
<1> QED BY <1>3, <1>4, <1>5, <1>6, <1>7, <1>8, <1>9, <1>10, <1>11, <1>12, <1>13, <1>14, <1>15 DEF MirrorNext, Captures
-----------------------------------------------------------------------------
(* How the shown text follows from what waits.                             *)
LEMMA ExpectsAt ==
  ASSUME NEW m \in Nat, NEW x
  PROVE  Expects(m + 1, x) <=>
           /\ \A j \in 1 .. m :
                Typing(queue[j]) /\ (\A k \in j + 1 .. m : ~Typing(queue[k])) => x = queue[j].text
           /\ (\A k \in 1 .. m : ~Typing(queue[k])) => Behind(x)
<1>1. m + 1 - 1 = m
  OBVIOUS
<1> QED BY <1>1 DEF Expects

LEMMA ExpectsNext ==
  ASSUME NEW m \in Nat, NEW x
  PROVE  Expects(m + 1, x)' <=>
           /\ \A j \in 1 .. m :
                Typing(queue[j])' /\ (\A k \in j + 1 .. m : ~Typing(queue[k])') => x = queue'[j].text
           /\ (\A k \in 1 .. m : ~Typing(queue[k])') => Behind(x)'
<1>1. m + 1 - 1 = m
  OBVIOUS
<1> QED BY <1>1 DEF Expects

LEMMA ExpectsTold ==
  ASSUME NEW m \in Nat, NEW x, Expects(m + 1, x)'
  PROVE  /\ \A j \in 1 .. m :
              Typing(queue[j])' /\ (\A k \in j + 1 .. m : ~Typing(queue[k])') => x = queue'[j].text
         /\ (\A k \in 1 .. m : ~Typing(queue[k])') => Behind(x)'
BY ExpectsNext

LEMMA ExpectsSame ==
  ASSUME NEW n \in Nat, \A j \in 1 .. n : queue'[j] = queue[j], ses'.epoch = ses.epoch,
         \A x : Behind(x) => Behind(x)'
  PROVE  \A i \in 1 .. n + 1 : \A x : Expects(i, x) => Expects(i, x)'
<1>1. \A j \in 1 .. n : Typing(queue[j])' <=> Typing(queue[j])
  BY DEF Typing
<1>2. \A i \in 1 .. n + 1 : \A j \in 1 .. i - 1 : j \in 1 .. n /\ \A k \in j + 1 .. i - 1 : k \in 1 .. n
  OBVIOUS
<1> QED BY <1>1, <1>2 DEF Expects

LEMMA BehindSame ==
  ASSUME Flying' <=> Flying, Flying => act'.do = act.do, remote'.field = remote.field,
         cli'.failed = cli.failed, ses'.epoch = ses.epoch
  PROVE  \A x : Behind(x) => Behind(x)'
BY DEF Behind, Typing

(* What was pressed, and what the call itself says.                        *)
Called ==
  /\ act.at = "sent" /\ ~Seen /\ act.do.kind = "key" =>
       (act.do.epoch = ses.epoch => act.do.saw = remote.field \/ Unsure(act.do))
  /\ Flying /\ Seen => (Typing(act.do) => act.do.text = remote.field)
  /\ pressed # Nothing => pressed.saw = pressed.was \/ pressed.unsure

LEMMA ShownGrows ==
  ASSUME Types, Types', Shown, NEW a, Grows(a), act' = act, pressed' = pressed,
         remote'.field = remote.field, cli'.failed = cli.failed, ses' = ses,
         \A x \in Nat : Sees(a, x, ses.epoch) => Expects(Len(queue) + 1, x),
         \A x \in Nat : ren'.epoch = ses.epoch /\ x = ren'.field =>
           \/ Typing(a) /\ x = a.text
           \/ a.kind # "input" /\ Expects(Len(queue) + 1, x)
  PROVE  Shown'
<1>1. PICK m \in Nat :
        /\ Len(queue') = m + 1 /\ queue'[m + 1] = a
        /\ \A i \in 1 .. m : queue'[i] = queue[i]
        /\ \/ m = Len(queue)
           \/ m + 1 = Len(queue) /\ queue[m + 1].kind = "input" /\ a.kind = "input"
  BY DEF Grows
<1>2. DOMAIN queue = 1 .. Len(queue) /\ Len(queue) \in Nat /\ DOMAIN queue' = 1 .. m + 1
  BY <1>1, Fields, FieldsNext
<1>3. \A i \in 1 .. m + 1 : \A x : Expects(i, x) => Expects(i, x)'
  <2>1. \A x : Behind(x) => Behind(x)'
    BY BehindSame DEF Flying
  <2> QED BY <1>1, <2>1, ExpectsSame
<1>4. m = Len(queue) \/ (m + 1 = Len(queue) /\ a.kind = "input")
  BY <1>1, Zenon
<1>5. \A i \in 1 .. m : i \in DOMAIN queue
  <2> DEFINE n == Len(queue)
  <2>1. n \in Nat /\ DOMAIN queue = 1 .. n /\ (m = n \/ m + 1 = n)
    BY <1>2, <1>4
  <2> HIDE DEF n
  <2> QED BY <2>1
<1>6. \A i \in DOMAIN queue' : \A x \in Nat : Sees(queue'[i], x, ses'.epoch) => Expects(i, x)'
  <2>1. ses'.epoch = ses.epoch
    OBVIOUS
  <2> TAKE i \in DOMAIN queue'
  <2> TAKE x \in Nat
  <2>2. CASE i \in 1 .. m
    <3>1. queue'[i] = queue[i] /\ i \in DOMAIN queue /\ i \in 1 .. m + 1
      BY <1>1, <1>5, <2>2
    <3>2. Sees(queue[i], x, ses.epoch) => Expects(i, x)
      BY <3>1 DEF Shown
    <3> QED BY <1>3, <2>1, <3>1, <3>2
  <2>3. CASE i = m + 1
    <3>1. Sees(a, x, ses.epoch) => m = Len(queue)
      BY <1>4 DEF Sees
    <3>2. Sees(a, x, ses.epoch) => Expects(m + 1, x)
      BY <3>1
    <3>3. m + 1 \in 1 .. m + 1
      OBVIOUS
    <3> QED BY <1>1, <1>3, <2>1, <2>3, <3>2, <3>3
  <2>4. i \in 1 .. m \/ i = m + 1
    BY <1>2
  <2> QED BY <2>2, <2>3, <2>4
<1>7. \A x \in Nat : ren'.epoch = ses.epoch /\ x = ren'.field => Expects(m + 1 + 1, x)'
  <2> SUFFICES ASSUME NEW x \in Nat, ren'.epoch = ses.epoch, x = ren'.field PROVE Expects(m + 1 + 1, x)'
    OBVIOUS
  <2>1. Typing(queue[m + 1])' <=> Typing(a)
    BY <1>1 DEF Typing
  <2>2. \A j \in 1 .. m + 1 : j = m + 1 \/ m + 1 \in j + 1 .. m + 1
    OBVIOUS
  <2>3. CASE Typing(a) /\ x = a.text
    <3>1. \A j \in 1 .. m + 1 :
            Typing(queue[j])' /\ (\A k \in j + 1 .. m + 1 : ~Typing(queue[k])') => x = queue'[j].text
      BY <1>1, <2>1, <2>2, <2>3
    <3>2. ~\A k \in 1 .. m + 1 : ~Typing(queue[k])'
      BY <2>1, <2>3
    <3>3. Expects(m + 1 + 1, x)'
      <4>1. m + 1 \in Nat
        OBVIOUS
      <4> QED BY <3>1, <3>2, <4>1, ExpectsNext, Zenon
    <3> QED BY <3>3, Zenon
  <2>4. CASE a.kind # "input" /\ Expects(m + 1, x)
    <3>1. Expects(m + 1, x)'
      <4>1. m + 1 \in 1 .. m + 1
        OBVIOUS
      <4> QED BY <1>3, <2>4, <4>1
    <3>2. ~Typing(queue[m + 1])'
      BY <2>1, <2>4 DEF Typing
    <3>3. \A j \in 1 .. m :
            Typing(queue[j])' /\ (\A k \in j + 1 .. m : ~Typing(queue[k])') => x = queue'[j].text
      <4>1. m \in Nat
        BY <1>1
      <4> QED BY <3>1, <4>1, ExpectsTold
    <3>4. (\A k \in 1 .. m : ~Typing(queue[k])') => Behind(x)'
      <4>1. m \in Nat
        BY <1>1
      <4> QED BY <3>1, <4>1, ExpectsTold
    <3>5. \A j \in 1 .. m + 1 :
            Typing(queue[j])' /\ (\A k \in j + 1 .. m + 1 : ~Typing(queue[k])') => x = queue'[j].text
      <4> TAKE j \in 1 .. m + 1
      <4>1. j = m + 1 \/ (j \in 1 .. m /\ \A k \in j + 1 .. m : k \in j + 1 .. m + 1)
        OBVIOUS
      <4> QED BY <3>2, <3>3, <4>1
    <3>6. (\A k \in 1 .. m + 1 : ~Typing(queue[k])') => Behind(x)'
      <4>1. \A k \in 1 .. m : k \in 1 .. m + 1
        OBVIOUS
      <4> QED BY <3>4, <4>1, Zenon
    <3>7. Expects(m + 1 + 1, x)'
      <4>1. m + 1 \in Nat
        OBVIOUS
      <4> QED BY <3>5, <3>6, <4>1, ExpectsNext, Zenon
    <3> QED BY <3>7, Zenon
  <2>5. a.kind # "input" /\ Expects(Len(queue) + 1, x) => Expects(m + 1, x)
    BY <1>4
  <2> QED BY <2>3, <2>4, <2>5
<1>8. Called => Called'
  BY DEF Called, Seen, Flying, Typing, Unsure
<1>9. Called
  BY DEF Shown, Called
<1>10. \A i, x \in Nat : ren'.epoch = ses'.epoch /\ i = Len(queue') + 1 /\ x = ren'.field => Expects(i, x)'
  BY <1>1, <1>7
<1> QED BY <1>6, <1>8, <1>9, <1>10 DEF Shown, Called

LEMMA ShownKept ==
  ASSUME Types, Shown, Called', queue' = queue, ses'.epoch = ses.epoch,
         \A x : Behind(x) => Behind(x)',
         \A x \in Nat : ren'.epoch = ses.epoch /\ x = ren'.field => Expects(Len(queue) + 1, x)
  PROVE  Shown'
<1>1. DOMAIN queue = 1 .. Len(queue) /\ Len(queue) \in Nat
  BY Fields
<1>2. \A i \in 1 .. Len(queue) + 1 : \A x : Expects(i, x) => Expects(i, x)'
  BY <1>1, ExpectsSame
<1>3. \A i \in 1 .. Len(queue) : i \in 1 .. Len(queue) + 1
  BY <1>1
<1>4. ses'.epoch = ses.epoch
  OBVIOUS
<1>5. \A i \in DOMAIN queue' : \A x \in Nat : Sees(queue'[i], x, ses'.epoch) => Expects(i, x)'
  <2>1. \A i \in DOMAIN queue : \A x \in Nat : Sees(queue[i], x, ses.epoch) => Expects(i, x)
    BY DEF Shown
  <2>2. \A i \in DOMAIN queue : i \in 1 .. Len(queue) + 1
    BY <1>1, <1>3, Zenon
  <2> QED BY <1>2, <1>4, <2>1, <2>2, Zenon
<1>6. \A i, x \in Nat : ren'.epoch = ses'.epoch /\ i = Len(queue') + 1 /\ x = ren'.field => Expects(i, x)'
  <2>1. Len(queue) + 1 \in 1 .. Len(queue) + 1
    BY <1>1
  <2>2. \A x \in Nat : ren'.epoch = ses.epoch /\ x = ren'.field => Expects(Len(queue) + 1, x)'
    BY <1>2, <2>1
  <2>3. Len(queue') = Len(queue)
    OBVIOUS
  <2> QED BY <2>2, <2>3, Zenon
<1> QED BY <1>5, <1>6 DEF Shown, Called

(* A step in which nothing happens to what is shown, waits or is called.   *)
LEMMA ShownUntouched ==
  ASSUME Types, Shown, queue' = queue, act' = act, pressed' = pressed, ren'.epoch = ren.epoch,
         ren'.field = ren.field, remote'.field = remote.field, cli'.failed = cli.failed,
         ses'.epoch = ses.epoch, ses'.last = ses.last
  PROVE  Shown'
<1>1. Called'
  BY DEF Shown, Called, Seen, Flying, Typing, Unsure
<1>2. \A x : Behind(x) => Behind(x)'
  BY BehindSame DEF Flying
<1>3. \A x \in Nat : ren'.epoch = ses.epoch /\ x = ren'.field => Expects(Len(queue) + 1, x)
  <2>1. Len(queue) + 1 \in Nat
    BY Fields
  <2> QED BY <2>1 DEF Shown
<1> QED BY <1>1, <1>2, <1>3, ShownKept

(* Nothing is on its way to the field.                                     *)
Settled ==
  /\ \A i \in DOMAIN queue : ~Typing(queue[i])
  /\ Flying => (Typing(act.do) => Seen)

LEMMA SettledExpects ==
  ASSUME Types, Shown, Settled
  PROVE  Expects(Len(queue) + 1, remote.field)
<1>1. DOMAIN queue = 1 .. Len(queue) /\ Len(queue) \in Nat
  BY Fields
<1>2. \A j \in 1 .. Len(queue) : ~Typing(queue[j])
  BY <1>1 DEF Settled
<1>3. Behind(remote.field)
  BY DEF Behind, Settled, Shown
<1> QED BY <1>1, <1>2, <1>3, ExpectsAt

LEMMA TakeExpects ==
  ASSUME Types, Types', Take, NEW m \in 0 .. Len(queue'), NEW x, Expects(m + 1 + 1, x)
  PROVE  Expects(m + 1, x)'
<1>1. m \in Nat /\ m + 1 \in Nat
  OBVIOUS
<1>2. /\ \A j \in 1 .. m + 1 :
           Typing(queue[j]) /\ (\A k \in j + 1 .. m + 1 : ~Typing(queue[k])) => x = queue[j].text
      /\ (\A k \in 1 .. m + 1 : ~Typing(queue[k])) => Behind(x)
  BY <1>1, ExpectsAt, Zenon
<1>3. \A j \in 1 .. m : queue'[j] = queue[j + 1]
  <2>1. Len(queue') \in Nat /\ \A j \in 1 .. Len(queue') : queue'[j] = queue[j + 1]
    BY TakeIs, FieldsNext
  <2> QED BY <2>1
<1>4. ses' = ses /\ remote' = remote /\ act.at = "idle"
  BY TakeIs DEF SameSession
<1>5. \A j \in 1 .. m : Typing(queue[j])' <=> Typing(queue[j + 1])
  BY <1>3, <1>4 DEF Typing
<1>6. \A j \in 1 .. m :
        Typing(queue[j])' /\ (\A k \in j + 1 .. m : ~Typing(queue[k])') => x = queue'[j].text
  <2> SUFFICES ASSUME NEW j \in 1 .. m, Typing(queue[j])', \A k \in j + 1 .. m : ~Typing(queue[k])'
               PROVE  x = queue'[j].text
    OBVIOUS
  <2>1. \A k \in j + 1 + 1 .. m + 1 : k - 1 \in j + 1 .. m /\ k - 1 \in 1 .. m /\ (k - 1) + 1 = k
    BY <1>1
  <2>2. \A k \in j + 1 + 1 .. m + 1 : ~Typing(queue[k])
    <3> TAKE k \in j + 1 + 1 .. m + 1
    <3>1. ~Typing(queue[k - 1])'
      BY <2>1
    <3>2. ~Typing(queue[(k - 1) + 1])
      BY <1>5, <2>1, <3>1
    <3> QED BY <2>1, <3>2
  <2>3. j + 1 \in 1 .. m + 1
    BY <1>1
  <2>4. x = queue[j + 1].text
    BY <1>2, <1>5, <2>2, <2>3
  <2> QED BY <1>3, <2>4
<1>7. ASSUME \A k \in 1 .. m : ~Typing(queue[k])' PROVE Behind(x)'
  <2>1. \A k \in 1 + 1 .. m + 1 : k - 1 \in 1 .. m /\ (k - 1) + 1 = k
    BY <1>1
  <2>2. \A k \in 1 + 1 .. m + 1 : ~Typing(queue[k])
    <3> TAKE k \in 1 + 1 .. m + 1
    <3>1. ~Typing(queue[(k - 1) + 1])
      BY <1>5, <1>7, <2>1
    <3> QED BY <2>1, <3>1
  <2>3. 1 \in 1 .. m + 1 /\ \A k \in 1 .. m + 1 : k = 1 \/ k \in 1 + 1 .. m + 1
    BY <1>1
  <2>4. \/ queue[1].kind = "key" /\ act' = act /\ cli' = cli
        \/ act'.at = "sent" /\ act'.do = queue[1] /\ cli'.failed = cli.failed
    BY TakeIs
  <2>5. CASE Typing(queue[1])
    <3>1. x = queue[1].text
      BY <1>2, <2>2, <2>3, <2>5
    <3>2. queue[1].kind # "key"
      BY <2>5 DEF Typing
    <3>3. Flying' /\ act'.do = queue[1] /\ Typing(act.do)'
      BY <1>4, <2>4, <2>5, <3>2 DEF Flying, Typing
    <3> QED BY <3>1, <3>3 DEF Behind
  <2>6. CASE ~Typing(queue[1])
    <3>1. Behind(x)
      BY <1>2, <2>2, <2>3, <2>6
    <3>2. x = remote.field \/ cli.failed
      BY <1>4, <3>1 DEF Behind, Flying
    <3>3. ~(Flying' /\ Typing(act.do)')
      BY <1>4, <2>4, <2>6 DEF Flying, Typing
    <3> QED BY <1>4, <2>4, <3>2, <3>3 DEF Behind
  <2> QED BY <2>5, <2>6
<1> QED BY <1>1, <1>6, <1>7, ExpectsNext

LEMMA ShownTake ==
  ASSUME Types, Types', Shown, Calls, Take
  PROVE  Shown'
<1>1. /\ ses' = ses /\ remote' = remote /\ ren' = ren /\ pressed' = pressed /\ act.at = "idle"
      /\ Len(queue') = Len(queue) - 1 /\ Len(queue) > 0
      /\ \A i \in 1 .. Len(queue') : queue'[i] = queue[i + 1]
      /\ \/ queue[1].kind = "key" /\ act' = act /\ cli' = cli
         \/ /\ queue[1].kind = "key" => ~cli.failed \/ Unsure(queue[1])
            /\ act'.at = "sent" /\ act'.do = queue[1] /\ act'.seq = cli.actionSeq + 1 /\ cli'.failed = cli.failed
  BY TakeIs DEF SameSession
<1>2. Len(queue) \in Nat /\ DOMAIN queue = 1 .. Len(queue) /\ Len(queue') \in Nat /\ DOMAIN queue' = 1 .. Len(queue')
  BY Fields, FieldsNext
<1>3. \A m \in 0 .. Len(queue') : \A x : Expects(m + 1 + 1, x) => Expects(m + 1, x)'
  BY TakeExpects
<1>4. ses'.epoch = ses.epoch
  BY <1>1
<1>5. \A i \in DOMAIN queue' : \A x \in Nat : Sees(queue'[i], x, ses'.epoch) => Expects(i, x)'
  <2> SUFFICES ASSUME NEW i \in DOMAIN queue', NEW x \in Nat, Sees(queue'[i], x, ses'.epoch) PROVE Expects(i, x)'
    OBVIOUS
  <2> DEFINE m == i - 1
  <2>1. m \in 0 .. Len(queue') /\ m + 1 = i /\ m + 1 + 1 = i + 1 /\ i + 1 \in DOMAIN queue
    BY <1>1, <1>2
  <2>2. Sees(queue[i + 1], x, ses.epoch)
    BY <1>1, <1>2, <1>4
  <2>3. Expects(i + 1, x)
    BY <2>1, <2>2 DEF Shown
  <2> HIDE DEF m
  <2>4. Expects(m + 1 + 1, x)
    BY <2>1, <2>3
  <2>5. Expects(m + 1, x)'
    BY <1>3, <2>1, <2>4
  <2> QED BY <2>1, <2>5
<1>6. \A i, x \in Nat : ren'.epoch = ses'.epoch /\ i = Len(queue') + 1 /\ x = ren'.field => Expects(i, x)'
  <2> SUFFICES ASSUME NEW i \in Nat, NEW x \in Nat, ren.epoch = ses.epoch, i = Len(queue') + 1, x = ren.field
               PROVE  Expects(i, x)'
    BY <1>1
  <2> DEFINE m == i - 1
  <2>1. m \in 0 .. Len(queue') /\ m + 1 = i /\ m + 1 + 1 = Len(queue) + 1 /\ Len(queue) + 1 \in Nat
    BY <1>1, <1>2
  <2> HIDE DEF m
  <2>2. Expects(Len(queue) + 1, x)
    BY <2>1 DEF Shown
  <2>3. Expects(m + 1 + 1, x)
    BY <2>1, <2>2
  <2>4. Expects(m + 1, x)'
    BY <1>3, <2>1, <2>3
  <2> QED BY <2>1, <2>4
<1>7. Called'
  <2>1. CASE act' = act
    BY <1>1, <2>1 DEF Called, Shown, Flying
  <2>2. CASE act' # act
    <3>1. ~Seen'
      <4>1. ses.last <= cli.actionSeq /\ ses.last \in Nat /\ cli.actionSeq \in Nat
        BY Fields DEF Calls
      <4> QED BY <1>1, <2>2, <4>1 DEF Seen
    <3>2. queue[1].kind = "key" /\ queue[1].epoch = ses.epoch => queue[1].saw = remote.field \/ Unsure(queue[1])
      <4> SUFFICES ASSUME queue[1].kind = "key", queue[1].epoch = ses.epoch, ~Unsure(queue[1])
                   PROVE  queue[1].saw = remote.field
        OBVIOUS
      <4>1. 1 \in DOMAIN queue /\ queue[1] \in Action
        BY <1>1, <1>2, Fields
      <4>2. queue[1] \in Key
        BY <4>1 DEF Action, Input
      <4>3. queue[1].saw \in Nat /\ Sees(queue[1], queue[1].saw, ses.epoch)
        BY <4>2 DEF Key, Sees
      <4>4. Expects(1, queue[1].saw)
        BY <4>1, <4>3 DEF Shown
      <4>5. Behind(queue[1].saw)
        <5>1. \A k \in 1 .. 0 : ~Typing(queue[k])
          OBVIOUS
        <5>2. Expects(0 + 1, queue[1].saw)
          BY <4>4
        <5> QED BY <5>1, <5>2, ExpectsAt
      <4>6. ~cli.failed
        BY <1>1, <2>2
      <4> QED BY <1>1, <4>5, <4>6 DEF Behind, Flying
    <3> QED BY <1>1, <2>2, <3>1, <3>2 DEF Called, Shown, Unsure
  <2> QED BY <2>1, <2>2
<1> QED BY <1>5, <1>6, <1>7 DEF Shown, Called

(* A new document: nothing that waits is for it.                           *)
LEMMA ShownLeaves ==
  ASSUME Types, Types', Shown, Epochs, LeavesPage, Flying, act'.do = act.do, act'.seq = act.seq,
         queue' = queue, ren' = ren, act.at = "sent"
  PROVE  Shown'
<1>1. ses'.epoch = ses.epoch + 1 /\ remote'.field = 0 /\ act'.at = "captures"
  BY Leaving DEF LeavesPage
<1>2. ses.epoch \in Nat /\ ren.epoch \in Nat /\ ren.epoch < ses'.epoch
  BY <1>1, Fields DEF Epochs
<1>3. \A i \in DOMAIN queue : \A x \in Nat : ~Sees(queue[i], x, ses'.epoch)
  <2> SUFFICES ASSUME NEW i \in DOMAIN queue, NEW x \in Nat, Sees(queue[i], x, ses'.epoch) PROVE FALSE
    OBVIOUS
  <2>1. queue[i].kind = "key" /\ queue[i].epoch = ses'.epoch
    BY DEF Sees
  <2>2. queue[i].epoch <= ren.epoch /\ queue[i].epoch \in Nat
    BY <2>1, Fields, Actions DEF Epochs
  <2> QED BY <1>2, <2>1, <2>2, FieldsNext
<1>4. ren'.epoch # ses'.epoch
  BY <1>2, FieldsNext
<1>5. ~Typing(act.do)'
  <2>1. act.do.kind = "input" => act.do.epoch <= ren.epoch /\ act.do.epoch \in Nat
    BY Fields, Actions DEF Epochs
  <2> QED BY <1>1, <1>2, <2>1 DEF Typing
<1>6. pressed' # Nothing => pressed'.saw = pressed'.was \/ pressed'.unsure
  <2>1. CASE pressed' = pressed
    BY <2>1 DEF Shown
  <2>2. CASE /\ act.do.kind = "key" /\ act.do.epoch = ses.epoch
             /\ pressed' = Pressed
    BY <2>2 DEF Shown, LeavesPage, Pressed, Unsure
  <2> QED BY <2>1, <2>2 DEF LeavesPage
<1> QED BY <1>1, <1>3, <1>4, <1>5, <1>6 DEF Shown

(* The last input that was performed is in the field.                      *)
LEMMA Confirming ==
  ASSUME Types, Epochs, Numbers, Calls, Shown, Confirms, DraftShown, Quiet,
         upd.at = "applies", NEW p, p \in Packets, p.epoch = ren.epoch, p.seq = cli.seq + 1,
         ren.draft = Nothing \/ p.input >= ren.draft.seq
  PROVE  /\ Settled /\ ren.field = remote.field /\ Field(ses.nodes) = remote.field
         /\ p.input = ses.input /\ p.put["field"] \in {Nothing, remote.field}
         /\ ses.meta = ses.input
<1>1. p.epoch = ses.epoch /\ ren.epoch = ses.epoch
  BY DEF Packets
<1>2. /\ p \in Packet /\ p.input \in Nat /\ p.seq \in Nat
  <2>1. ses.packets \in Seq(Packet) /\ upd.packets \in Seq(Packet)
    BY Fields DEF Types, Polls, Polled, Batch
  <2>2. p \in Packet
    BY <2>1 DEF Packets, Known
  <2> QED BY <2>2 DEF Packet
<1>3. /\ 1 < p.seq /\ p.input <= ses.meta /\ ses.meta <= ses.input /\ ses.input <= ren.serial
      /\ p.input = ses.input => p.put.field \in {Nothing, remote.field}
  BY DEF Confirms, Numbers
<1>4. ses.nodes # Nothing
  BY DEF Confirms
<1>5. /\ ses.meta \in Nat /\ ses.input \in Nat /\ ren.serial \in Nat /\ cli.seq \in Nat
      /\ remote.field \in Nat
  BY Fields
<1>6. CASE ren.draft = Nothing
  <2>1. /\ Settled /\ ren.field = remote.field /\ Field(ses.nodes) = remote.field
        /\ Ahead(p) => p.input = ses.input
    BY <1>1, <1>6 DEF Quiet, Settled
  <2>2. cli.seq # 0 /\ p.seq > cli.seq
    BY <1>2, <1>3, <1>5
  <2>3. p.input = ses.input
    BY <2>1, <2>2 DEF Ahead
  <2>4. ses.meta = ses.input
    BY <1>2, <1>3, <1>5, <2>3
  <2> QED BY <1>3, <2>1, <2>3, <2>4
<1>7. CASE ren.draft # Nothing /\ p.input >= ren.draft.seq
  <2>1. ren.draft.seq = ren.serial
    BY <1>7 DEF DraftShown
  <2>2. p.input >= ren.serial
    BY <1>7, <2>1
  <2>3. p.input = ses.input /\ ses.meta = ses.input /\ ses.input = ren.serial
    BY <1>2, <1>3, <1>5, <2>2
  <2>4. ren.field = remote.field
    BY <1>1, <1>7, <2>3 DEF DraftShown
  <2>5. Field(ses.nodes) = remote.field
    BY <1>4, <2>3 DEF Confirms, Field
  <2>6. \A i \in DOMAIN queue : ~Typing(queue[i])
    <3> SUFFICES ASSUME NEW i \in DOMAIN queue, queue[i].kind = "input" PROVE FALSE
      BY DEF Typing
    <3>1. ses.input < queue[i].seq /\ queue[i].seq <= ren.serial
      BY DEF Numbers
    <3>2. queue[i].seq \in Nat
      BY Fields, Actions
    <3> QED BY <1>5, <2>3, <3>1, <3>2
  <2>7. Flying => (Typing(act.do) => Seen)
    <3> SUFFICES ASSUME Flying, act.do.kind = "input", ~Seen PROVE FALSE
      BY DEF Typing
    <3>1. ses.input < act.do.seq /\ act.do.seq <= ren.serial
      BY DEF Numbers
    <3>2. act.do.seq \in Nat
      BY Fields, Actions
    <3> QED BY <1>5, <2>3, <3>1, <3>2
  <2> QED BY <1>3, <2>3, <2>4, <2>5, <2>6, <2>7 DEF Settled
<1> QED BY <1>6, <1>7

(* A baseline of the document there is, for a renderer without a draft.    *)
LEMMA Rebasing ==
  ASSUME Types, Epochs, Quiet, Untouched, upd.at = "captured", upd.epoch = ses.epoch,
         ren.draft = Nothing \/ ren.epoch # ses.epoch
  PROVE  /\ Settled /\ Field(upd.nodes) = remote.field /\ Field(ses.nodes) = remote.field
         /\ \A p \in Packets : Ahead(p) => p.input = ses.input
<1>1. CASE ren.epoch = ses.epoch
  BY <1>1 DEF Quiet, Settled
<1>2. CASE ren.epoch # ses.epoch
  <2>1. /\ remote.field = 0 /\ Field(ses.nodes) = 0 /\ Field(upd.nodes) = 0
        /\ \A p \in Packets : p.input = ses.input
    BY <1>2 DEF Untouched
  <2>2. ren.epoch < ses.epoch /\ ren.epoch \in Nat /\ ses.epoch \in Nat
    BY <1>2, Fields DEF Epochs
  <2>3. \A i \in DOMAIN queue : ~Typing(queue[i])
    <3> SUFFICES ASSUME NEW i \in DOMAIN queue, queue[i].kind = "input", queue[i].epoch = ses.epoch PROVE FALSE
      BY DEF Typing
    <3>1. queue[i].epoch <= ren.epoch
      BY DEF Epochs
    <3> QED BY <2>2, <3>1
  <2>4. Flying => ~Typing(act.do)
    <3> SUFFICES ASSUME Flying, act.do.kind = "input", act.do.epoch = ses.epoch PROVE FALSE
      BY DEF Typing
    <3>1. act.do.epoch <= ren.epoch
      BY DEF Epochs
    <3> QED BY <2>2, <3>1
  <2> QED BY <2>1, <2>3, <2>4 DEF Settled
<1> QED BY <1>1, <1>2

LEMMA ShownStep ==
  ASSUME Types, Types', Epochs, Numbers, Calls, Mirrored, [MirrorNext]_mirrorVars
  PROVE  Shown'
<1> USE DEF Mirrored
<1>1. Called
  BY DEF Called, Shown
<1>2. Expects(Len(queue) + 1, ren.field) \/ ren.epoch # ses.epoch
  <2>1. Len(queue) + 1 \in Nat /\ ren.field \in Nat
    BY Fields
  <2> QED BY <2>1 DEF Shown
<1>3. CASE Rests
  BY <1>3, ShownUntouched DEF Rests
<1>4. CASE Poll
  BY <1>4, PollIs, ShownUntouched DEF SameShown, SameActions
<1>5. CASE WasBased
  BY <1>5, WasBasedIs, ShownUntouched DEF SameShown, SameActions
<1>6. CASE Updates
  BY <1>6, UpdatesIs, ShownUntouched DEF SameShown, SameActions
<1>7. CASE WasApplied
  BY <1>7, WasAppliedIs, ShownUntouched DEF SameShown, SameActions
<1>8. CASE Ack
  BY <1>8, AckIs, ShownUntouched DEF SameShown, SameActions
<1>9. CASE Captures
  <2>1. /\ remote' = remote /\ cli' = cli /\ queue' = queue /\ ren' = ren /\ pressed' = pressed
        /\ ses'.epoch = ses.epoch /\ ses'.last = ses.last
    BY <1>9, CaptureIs DEF Captures
  <2>2. act'.do = act.do /\ act'.seq = act.seq /\ (Flying' <=> Flying) /\ (act'.at = act.at \/ act'.at = "answered")
    BY <1>9, CaptureActs
  <2>3. Called'
    BY <1>1, <2>1, <2>2 DEF Called, Seen, Typing, Unsure
  <2>4. \A x : Behind(x) => Behind(x)'
    BY <2>1, <2>2, BehindSame
  <2> QED BY <1>2, <2>1, <2>3, <2>4, ShownKept
<1>10. CASE Type
  <2>1. SameSession /\ act' = act /\ cli' = cli /\ ren'.epoch = ren.epoch
    BY <1>10, TypeIs
  <2>2. CASE ren.epoch = cli.epoch /\ Grows(Typed(ren'.field))
    <3> DEFINE a == Typed(ren'.field)
    <3>1. a.kind = "input" /\ a.text = ren'.field /\ a.epoch = ren.epoch
      BY DEF Typed
    <3>2. Grows(a)
      BY <2>2
    <3> HIDE DEF a
    <3>3. \A x \in Nat : Sees(a, x, ses.epoch) => Expects(Len(queue) + 1, x)
      BY <3>1 DEF Sees
    <3>4. \A x \in Nat : ren'.epoch = ses.epoch /\ x = ren'.field =>
            \/ Typing(a) /\ x = a.text
            \/ a.kind # "input" /\ Expects(Len(queue) + 1, x)
      BY <2>1, <3>1 DEF Typing
    <3> QED BY <2>1, <3>2, <3>3, <3>4, ShownGrows DEF SameSession
  <2>3. CASE ren.epoch # cli.epoch /\ queue' = queue
    <3>1. ren'.epoch # ses.epoch
      BY <2>1, <2>3 DEF Epochs
    <3>2. Called' /\ \A x : Behind(x) => Behind(x)'
      BY <1>1, <2>1, BehindSame DEF SameSession, Called, Seen, Flying, Typing, Unsure
    <3> QED BY <2>1, <2>3, <3>1, <3>2, ShownKept DEF SameSession
  <2> QED BY <1>10, <2>2, <2>3, TypeIs
<1>11. CASE PressEnter
  <2>1. SameSession /\ act' = act /\ cli' = cli /\ ren' = ren
    BY <1>11, EnterIs
  <2>2. ASSUME NEW f \in BOOLEAN, ren.epoch = cli.epoch, Grows(Entered(f)) PROVE Shown'
    <3>1. Entered(f).kind = "key" /\ Entered(f).saw = ren.field /\ Entered(f).epoch = ren.epoch
      BY DEF Entered
    <3>2. \A x \in Nat : Sees(Entered(f), x, ses.epoch) => Expects(Len(queue) + 1, x)
      <4>1. \A x \in Nat : Sees(Entered(f), x, ses.epoch) => x = ren.field /\ ren.epoch = ses.epoch
        BY DEF Entered, Sees
      <4> QED BY <1>2, <4>1
    <3>3. \A x \in Nat : ren'.epoch = ses.epoch /\ x = ren'.field =>
            \/ Typing(Entered(f)) /\ x = Entered(f).text
            \/ Entered(f).kind # "input" /\ Expects(Len(queue) + 1, x)
      BY <1>2, <2>1, <3>1
    <3> QED BY <2>1, <2>2, <3>2, <3>3, ShownGrows DEF SameSession
  <2>3. CASE queue' = queue
    BY <2>1, <2>3, ShownUntouched DEF SameSession
  <2> QED BY <1>11, <2>2, <2>3, EnterIs
<1>12. CASE Navigate
  <2> DEFINE a == [kind |-> "navigate"]
  <2>1. SameSession /\ act' = act /\ cli' = cli /\ ren' = ren /\ Grows(a)
    BY <1>12, NavigateIs
  <2>2. a.kind = "navigate"
    OBVIOUS
  <2> HIDE DEF a
  <2>3. \A x \in Nat : Sees(a, x, ses.epoch) => Expects(Len(queue) + 1, x)
    BY <2>2 DEF Sees
  <2>4. \A x \in Nat : ren'.epoch = ses.epoch /\ x = ren'.field =>
          \/ Typing(a) /\ x = a.text
          \/ a.kind # "input" /\ Expects(Len(queue) + 1, x)
    BY <1>2, <2>1, <2>2
  <2> QED BY <2>1, <2>3, <2>4, ShownGrows DEF SameSession
<1>13. CASE Baseline
  <2>1. SameActions /\ ses' = ses /\ upd.at = "captured" /\ cli'.failed = cli.failed
    BY <1>13, BaselineIs
  <2>2. CASE ren' = ren /\ queue' = queue
    BY <2>1, <2>2, ShownUntouched DEF SameActions
  <2>3. CASE ren'.epoch = upd.epoch /\ ren.epoch = upd.epoch /\ Grows(Typed(ren'.field))
    <3> DEFINE a == Typed(ren'.field)
    <3>1. a.kind = "input" /\ a.text = ren'.field /\ a.epoch = ren.epoch
      BY DEF Typed
    <3>2. Grows(a)
      BY <2>3
    <3> HIDE DEF a
    <3>3. \A x \in Nat : Sees(a, x, ses.epoch) => Expects(Len(queue) + 1, x)
      BY <3>1 DEF Sees
    <3>4. \A x \in Nat : ren'.epoch = ses.epoch /\ x = ren'.field =>
            \/ Typing(a) /\ x = a.text
            \/ a.kind # "input" /\ Expects(Len(queue) + 1, x)
      BY <2>3, <3>1 DEF Typing
    <3> QED BY <2>1, <3>2, <3>3, <3>4, ShownGrows DEF SameActions
  <2>4. CASE /\ ren'.epoch = upd.epoch /\ queue' = queue /\ ren'.field = Field(upd.nodes)
             /\ ren.draft = Nothing \/ ren.epoch # upd.epoch
    <3>1. \A x \in Nat : ren'.epoch = ses.epoch /\ x = ren'.field => Expects(Len(queue) + 1, x)
      BY <2>1, <2>4, Rebasing, SettledExpects
    <3>2. Called' /\ \A x : Behind(x) => Behind(x)'
      BY <1>1, <2>1, BehindSame DEF SameActions, Called, Seen, Flying, Typing, Unsure
    <3> QED BY <2>1, <2>4, <3>1, <3>2, ShownKept DEF SameActions
  <2> QED BY <1>13, <2>2, <2>3, <2>4, BaselineIs
<1>14. CASE Apply
  <2>1. SameActions /\ queue' = queue /\ ses' = ses /\ upd.at = "applies" /\ upd \in Batch /\ cli'.failed = cli.failed
    BY <1>14, ApplyIs
  <2>2. CASE ren' = ren
    BY <2>1, <2>2, ShownUntouched DEF SameActions
  <2>3. CASE Len(upd.packets) > 0 /\ Shows(upd.packets[1])
    <3> DEFINE p == upd.packets[1]
    <3>1. p \in Known(upd.packets)
      BY <2>1, <2>3 DEF Batch, Known
    <3>2. Shows(p)
      BY <2>3
    <3>3. ses.epoch = p.epoch => p \in Packets
      BY <2>1, <3>1 DEF Packets
    <3> HIDE DEF p
    <3>4. \A x \in Nat : ren'.epoch = ses.epoch /\ x = ren'.field => Expects(Len(queue) + 1, x)
      <4> SUFFICES ASSUME ren'.epoch = ses.epoch PROVE Expects(Len(queue) + 1, ren'.field)
        OBVIOUS
      <4>1. ren.epoch = ses.epoch /\ p.epoch = ren.epoch /\ p.seq = cli.seq + 1 /\ p \in Packets
        BY <3>2, <3>3 DEF Shows
      <4>2. CASE ren'.field = ren.field
        BY <1>2, <4>1, <4>2
      <4>3. CASE /\ ren.draft = Nothing \/ p.input >= ren.draft.seq
                 /\ p.put["field"] # Nothing /\ ren'.field = p.put["field"]
        <5>1. Settled /\ p.put["field"] \in {Nothing, remote.field}
          BY <2>1, <4>1, <4>3, Confirming
        <5> QED BY <4>3, <5>1, SettledExpects
      <4> QED BY <3>2, <4>2, <4>3 DEF Shows
    <3>5. Called' /\ \A x : Behind(x) => Behind(x)'
      BY <1>1, <2>1, BehindSame DEF SameActions, Called, Seen, Flying, Typing, Unsure
    <3> QED BY <2>1, <3>4, <3>5, ShownKept DEF SameActions
  <2> QED BY <1>14, <2>2, <2>3, ApplyIs
<1>15. CASE Take
  BY <1>15, ShownTake
<1>16. CASE PerformAction
  <2>1. /\ act.at = "sent" /\ act'.do = act.do /\ act'.seq = act.seq
        /\ UNCHANGED <<cli, queue, ren>> /\ Flying
        /\ Refuses \/ Fills \/ PressesKey \/ LeavesPage
    BY <1>16, PerformIs DEF Flying
  <2>2. CASE LeavesPage
    BY <2>1, <2>2, ShownLeaves
  <2>3. CASE Fills
    <3>1. /\ ses'.epoch = ses.epoch /\ ses'.last = act.seq /\ remote'.field = act.do.text
          /\ act'.at = "captures" /\ pressed' = pressed /\ Typing(act.do)
      BY <2>3, Filling DEF Fills
    <3>2. Flying' /\ (Typing(act.do)' <=> Typing(act.do))
      BY <2>1, <3>1 DEF Flying, Typing
    <3>3. Called'
      BY <1>1, <2>1, <3>1, <3>2 DEF Called
    <3>4. \A x : Behind(x) => Behind(x)'
      BY <2>1, <3>1, <3>2 DEF Behind
    <3> QED BY <1>2, <2>1, <3>1, <3>3, <3>4, ShownKept
  <2>4. CASE Refuses \/ PressesKey
    <3>1. /\ ses'.epoch = ses.epoch /\ remote'.field = remote.field /\ act'.at \in {"answered", "captures"}
      BY <2>4, Staying DEF Refuses, PressesKey
    <3>2. Flying' /\ (Typing(act.do)' <=> Typing(act.do))
      BY <2>1, <3>1 DEF Flying, Typing
    <3>3. Typing(act.do) => Seen
      BY <2>4 DEF Refuses, PressesKey, Typing, Stale
    <3>4. pressed' # Nothing => pressed'.saw = pressed'.was \/ pressed'.unsure
      <4>1. CASE pressed' = pressed
        BY <1>1, <4>1 DEF Called
      <4>2. CASE PressesKey
        <5>1. act.do.saw = remote.field \/ Unsure(act.do)
          BY <1>1, <2>1, <4>2 DEF PressesKey, Called
        <5>2. /\ pressed'.saw = act.do.saw /\ pressed'.was = remote.field
              /\ pressed'.unsure = Unsure(act.do)
          BY <4>2 DEF PressesKey, Pressed, Unsure
        <5> QED BY <5>1, <5>2, Zenon
      <4> QED BY <2>4, <4>1, <4>2 DEF Refuses
    <3>5. Called'
      BY <1>1, <2>1, <3>1, <3>2, <3>3, <3>4 DEF Called
    <3>6. \A x : Behind(x) => Behind(x)'
      BY <2>1, <3>1, <3>2, BehindSame
    <3> QED BY <1>2, <2>1, <3>1, <3>5, <3>6, ShownKept
  <2> QED BY <2>1, <2>2, <2>3, <2>4
<1>17. CASE ActionAnswered
  <2>1. /\ SameSession /\ ren' = ren /\ queue' = queue /\ act.at = "answered" /\ act'.at = "idle"
        /\ cli'.failed = IF act.do.kind = "input" THEN ses.result # act.seq ELSE cli.failed
    BY <1>17, AnsweredIs
  <2>2. Flying /\ Seen /\ ~Flying'
    BY <2>1 DEF Flying, Calls
  <2>3. \A x : Behind(x) => x = remote.field \/ cli'.failed
    <3>1. Typing(act.do) => act.do.text = remote.field
      BY <2>2 DEF Shown
    <3>2. act.do.kind = "input" /\ ~Typing(act.do) => ses.result # act.seq
      BY <2>2 DEF Calls, Typing
    <3> QED BY <2>1, <2>2, <3>1, <3>2 DEF Behind
  <2>4. \A x : Behind(x) => Behind(x)'
    BY <2>1, <2>2, <2>3 DEF Behind, SameSession
  <2>5. Called'
    BY <1>1, <2>1, <2>2 DEF Called, SameSession
  <2> QED BY <1>2, <2>1, <2>4, <2>5, ShownKept DEF SameSession
<1>18. CASE Lost
  <2>1. /\ SameSession /\ ren' = ren /\ queue' = queue /\ act.at \in {"sent", "answered"}
        /\ \/ act'.at = "sent" /\ act'.do = act.do /\ act'.seq = act.seq /\ cli' = cli
           \/ act'.at = "idle" /\ cli'.failed = (cli.failed \/ act.do.kind = "input")
    BY <1>18, LostIs
  <2>2. Flying /\ (act.at = "answered" => Seen)
    BY <2>1 DEF Flying, Calls
  <2>3. CASE act'.at = "sent" /\ act'.do = act.do /\ act'.seq = act.seq /\ cli' = cli
    <3>1. Flying' /\ ses' = ses /\ remote' = remote /\ pressed' = pressed
      BY <2>1, <2>3 DEF Flying, SameSession
    <3>2. (Seen' <=> Seen) /\ (Typing(act.do)' <=> Typing(act.do))
      BY <2>3, <3>1 DEF Seen, Typing
    <3>3. Called'
      BY <1>1, <2>1, <2>2, <2>3, <3>1, <3>2 DEF Called, Unsure
    <3>4. \A x : Behind(x) => Behind(x)'
      BY <2>2, <2>3, <3>1, BehindSame
    <3> QED BY <1>2, <2>1, <3>1, <3>3, <3>4, ShownKept
  <2>4. CASE act'.at = "idle" /\ cli'.failed = (cli.failed \/ act.do.kind = "input")
    <3>1. ~Flying' /\ ses' = ses /\ remote' = remote /\ pressed' = pressed
      BY <2>1, <2>4 DEF Flying, SameSession
    <3>2. Called'
      BY <1>1, <2>4, <3>1 DEF Called
    <3>3. \A x : Behind(x) => x = remote.field \/ cli'.failed
      BY <2>4 DEF Behind, Typing
    <3>4. \A x : Behind(x) => Behind(x)'
      BY <3>1, <3>3 DEF Behind
    <3> QED BY <1>2, <2>1, <3>1, <3>2, <3>4, ShownKept
  <2> QED BY <2>1, <2>3, <2>4
<1> QED BY <1>3, <1>4, <1>5, <1>6, <1>7, <1>8, <1>9, <1>10, <1>11, <1>12, <1>13, <1>14, <1>15, <1>16,
           <1>17, <1>18, Steps
-----------------------------------------------------------------------------
(* The packets after a step: some of those before, and perhaps a new one.  *)
Holding(u) == u.at \in {"applies", "applied"}

LEMMA PacketsFrom ==
  ASSUME ses'.epoch = ses.epoch, NEW S,
         Known(ses'.packets) \subseteq Known(ses.packets) \cup S,
         Holding(upd') => \/ Known(upd'.packets) \subseteq Known(ses.packets)
                          \/ Holding(upd) /\ Known(upd'.packets) \subseteq Known(upd.packets)
  PROVE  Packets' \subseteq Packets \cup S
<1>1. Packets' = {p \in Known(ses'.packets) \cup (IF Holding(upd') THEN Known(upd'.packets) ELSE {}) :
                    p.epoch = ses.epoch}
  BY DEF Packets, Known, Holding
<1>2. Packets = {p \in Known(ses.packets) \cup (IF Holding(upd) THEN Known(upd.packets) ELSE {}) :
                   p.epoch = ses.epoch}
  BY DEF Packets, Holding
<1> QED BY <1>1, <1>2

(* The session and the page are alike before and after.                    *)
Alike ==
  /\ ses'.epoch = ses.epoch /\ ses'.seq = ses.seq /\ ses'.nodes = ses.nodes
  /\ ses'.input = ses.input /\ ses'.meta = ses.meta /\ remote'.field = remote.field
  /\ Packets' \subseteq Packets

LEMMA SameAlike ==
  ASSUME ses' = ses, remote'.field = remote.field,
         Holding(upd') => \/ Known(upd'.packets) \subseteq Known(ses.packets)
                          \/ Holding(upd) /\ Known(upd'.packets) \subseteq Known(upd.packets)
  PROVE  Alike
<1>1. Packets' \subseteq Packets \cup {}
  BY PacketsFrom
<1> QED BY <1>1 DEF Alike

LEMMA Likeness ==
  ASSUME Types, \/ Rests \/ Poll \/ Baseline \/ WasBased \/ Updates \/ Apply \/ WasApplied \/ Ack \/ Type \/ PressEnter
                \/ Navigate \/ Take \/ ActionAnswered \/ Lost \/ (PerformAction /\ (Refuses \/ PressesKey))
  PROVE  Alike
<1>1. CASE Rests
  BY <1>1, SameAlike DEF Rests
<1>2. CASE Poll
  BY <1>2, PollIs, SameAlike DEF SameShown, SameActions, Holding
<1>3. CASE Baseline
  BY <1>3, BaselineIs, SameAlike DEF SameActions, Holding
<1>4. CASE WasBased
  BY <1>4, WasBasedIs, SameAlike DEF SameShown, SameActions, Holding
<1>5. CASE Updates
  BY <1>5, UpdatesIs, SameAlike DEF SameShown, SameActions, Holding
<1>6. CASE Apply
  BY <1>6, ApplyIs, SameAlike DEF SameActions, Holding
<1>7. CASE WasApplied
  BY <1>7, WasAppliedIs, SameAlike DEF SameShown, SameActions, Holding
<1>8. CASE Ack
  <2>1. /\ ses'.epoch = ses.epoch /\ ses'.seq = ses.seq /\ ses'.input = ses.input /\ remote' = remote
        /\ ses'.meta = ses.meta /\ ses'.nodes = ses.nodes
        /\ Known(ses'.packets) \subseteq Known(ses.packets) \cup {} /\ ~Holding(upd')
    BY <1>8, AckIs DEF SameShown, SameActions, Holding
  <2>2. Packets' \subseteq Packets \cup {}
    BY <2>1, PacketsFrom
  <2> QED BY <2>1, <2>2 DEF Alike
<1>9. CASE Type \/ PressEnter \/ Navigate \/ Take \/ ActionAnswered \/ Lost
  <2>1. SameSession /\ upd' = upd
    BY <1>9, TypeIs, EnterIs, NavigateIs, TakeIs, AnsweredIs, LostIs
  <2> QED BY <2>1, SameAlike DEF SameSession
<1>10. CASE PerformAction /\ (Refuses \/ PressesKey)
  <2>1. /\ ses'.epoch = ses.epoch /\ ses'.seq = ses.seq /\ ses'.nodes = ses.nodes
        /\ ses'.packets = ses.packets /\ ses'.input = ses.input /\ ses'.meta = ses.meta
        /\ remote'.field = remote.field /\ upd' = upd
    BY <1>10, Staying, PerformIs
  <2>2. Packets' \subseteq Packets \cup {}
    BY <2>1, PacketsFrom
  <2> QED BY <2>1, <2>2 DEF Alike
<1> QED BY <1>1, <1>2, <1>3, <1>4, <1>5, <1>6, <1>7, <1>8, <1>9, <1>10

LEMMA CapturePackets ==
  ASSUME Types, Calls, Captures
  PROVE  /\ SameKnown => Packets' \subseteq Packets
         /\ Packets' \subseteq Packets \cup {NewPacket}
<1>1. ses'.epoch = ses.epoch /\ (Holding(upd') => upd' = upd)
  BY CaptureIs DEF Captures, Holding
<1>2. SameKnown => Known(ses'.packets) \subseteq Known(ses.packets) \cup {}
  BY DEF SameKnown
<1>3. Known(ses'.packets) \subseteq Known(ses.packets) \cup {NewPacket}
  <2>1. ses'.packets \in {ses.packets, <<>>, Append(ses.packets, NewPacket)}
    BY CaptureIs DEF Captures, SameKnown, Updated
  <2>2. Known(<<>>) = {}
    BY DEF Known
  <2>3. Known(Append(ses.packets, NewPacket)) = Known(ses.packets) \cup {NewPacket}
    BY AppendKnown, Zenon
  <2>4. Known(ses'.packets) \in {Known(ses.packets), {}, Known(ses.packets) \cup {NewPacket}}
    BY <2>1, <2>2, <2>3, Zenon
  <2> QED BY <2>4
<1>4. SameKnown => Packets' \subseteq Packets \cup {}
  BY <1>1, <1>2, PacketsFrom
<1>5. Packets' \subseteq Packets \cup {NewPacket}
  BY <1>1, <1>3, PacketsFrom
<1> QED BY <1>4, <1>5

LEMMA FillPackets ==
  ASSUME Types, PerformAction, Fills
  PROVE  Packets' \subseteq Packets
<1>1. ses'.epoch = ses.epoch /\ ses'.packets = ses.packets /\ upd' = upd
  BY Filling, PerformIs
<1>2. Packets' \subseteq Packets \cup {}
  BY <1>1, PacketsFrom
<1> QED BY <1>2

LEMMA LeavePackets ==
  ASSUME Types, Epochs, PerformAction, LeavesPage
  PROVE  Packets' = {}
<1>1. ses'.epoch = ses.epoch + 1 /\ ses'.packets = <<>> /\ upd' = upd /\ ses.epoch \in Nat
  BY Leaving, PerformIs, Fields
<1>2. \A p \in Packets' : Holding(upd) /\ p \in Known(upd.packets) /\ p.epoch = ses.epoch + 1
  BY <1>1 DEF Packets, Known, Holding
<1>3. Holding(upd) => \A p \in Known(upd.packets) : p.epoch <= ses.epoch
  BY DEF Epochs, Known, Holding
<1> QED BY <1>1, <1>2, <1>3

LEMMA PacketFields ==
  ASSUME Types, NEW p \in Packets
  PROVE  p \in Packet /\ p.seq \in Nat /\ p.input \in Nat /\ p.epoch = ses.epoch
<1>1. ses.packets \in Seq(Packet) /\ (Holding(upd) => upd.packets \in Seq(Packet))
  BY Fields DEF Types, Polls, Polled, Batch, Holding
<1>2. p \in Packet /\ p.epoch = ses.epoch
  BY <1>1 DEF Packets, Known, Holding
<1> QED BY <1>2 DEF Packet

LEMMA ConfirmsStep ==
  ASSUME NullIsNothing, Types, Types', Epochs, Numbers, Calls, Mirrored, [MirrorNext]_mirrorVars, ~spent'.overtaken
  PROVE  Confirms'
<1> USE DEF Mirrored
<1>1. /\ ses.seq \in Nat /\ ses.input \in Nat /\ ses.meta \in Nat /\ 0 < ses.seq /\ remote.field \in Nat
      /\ ses.meta <= ses.input
  BY Fields DEF Numbers, Confirms
<1>2. \A p \in Packets : p \in Packet /\ p.seq \in Nat /\ p.input \in Nat
  BY PacketFields
<1>3. CASE Alike
  BY <1>3 DEF Alike, Confirms
<1>4. CASE Captures
  <2>1. /\ remote' = remote /\ ses'.input = ses.input /\ cap.page \in Document
        /\ SameKnown \/ Updated
    BY <1>4, CaptureIs DEF Captures
  <2>2. CASE SameKnown
    <3>1. Packets' \subseteq Packets
      BY <1>4, <2>2, CapturePackets
    <3> QED BY <2>1, <2>2, <3>1 DEF SameKnown, Confirms
  <2>3. CASE Updated
    <3>1. Packets' \subseteq Packets \cup {NewPacket}
      BY <1>4, CapturePackets
    <3>2. /\ cap.page.field = remote.field /\ ses'.seq = ses.seq + 1 /\ ses'.nodes = cap.page
          /\ ses'.meta = ses.input
      BY <2>3 DEF Updated
    <3>3. /\ NewPacket.seq = ses.seq + 1 /\ NewPacket.input = ses.input
          /\ NewPacket.put.field \in {Nothing, remote.field}
      BY <3>2 DEF NewPacket, Put
    <3>4. cap.page # Nothing
      BY <2>1 DEF NullIsNothing
    <3>5. \A p \in Packets : 1 < p.seq /\ p.seq <= ses.seq + 1 /\ p.seq < ses.seq + 1 /\ p.input <= ses.input
      <4> TAKE p \in Packets
      <4>1. 1 < p.seq /\ p.seq <= ses.seq /\ p.input <= ses.meta
        BY DEF Confirms
      <4> QED BY <1>1, <1>2, <4>1
    <3>6. \A p \in Packets' : p = NewPacket \/ p \in Packets
      BY <3>1
    <3>7. ses'.nodes = Nothing => Packets' = {}
      BY <3>2, <3>4
    <3>8. \A p \in Packets' :
            /\ 1 < p.seq /\ p.seq <= ses'.seq /\ p.input <= ses'.meta
            /\ p.input = ses'.input => p.put.field \in {Nothing, remote'.field}
      <4> TAKE p \in Packets'
      <4>1. CASE p = NewPacket
        BY <1>1, <2>1, <3>2, <3>3, <4>1
      <4>2. CASE p \in Packets
        <5>1. p.input = ses.input => p.put.field \in {Nothing, remote.field}
          BY <4>2 DEF Confirms
        <5> QED BY <2>1, <3>2, <3>5, <4>2, <5>1
      <4> QED BY <3>6, <4>1, <4>2
    <3>9. \A p, q \in Packets' : p.seq < q.seq => p.input <= q.input
      <4> SUFFICES ASSUME NEW p \in Packets', NEW q \in Packets', p.seq < q.seq PROVE p.input <= q.input
        OBVIOUS
      <4>1. CASE p \in Packets /\ q \in Packets
        BY <4>1 DEF Confirms
      <4>2. CASE q = NewPacket
        <5>1. p \in Packets => p.input <= ses.input
          BY <3>5
        <5> QED BY <1>1, <3>3, <3>6, <4>2, <5>1
      <4>3. CASE p = NewPacket /\ q \in Packets
        BY <1>1, <1>2, <3>3, <3>5, <4>3
      <4> QED BY <3>6, <4>1, <4>2, <4>3
    <3>10. ses'.meta <= ses'.input /\ ses'.nodes.field = remote'.field
      BY <1>1, <2>1, <3>2
    <3> QED BY <3>7, <3>8, <3>9, <3>10 DEF Confirms
  <2> QED BY <2>1, <2>2, <2>3
<1>5. CASE PerformAction /\ Fills
  <2>1. /\ ses'.input = act.do.seq /\ ses'.meta = ses.meta /\ ses'.nodes = ses.nodes /\ ses'.seq = ses.seq
        /\ Packets' \subseteq Packets
    BY <1>5, Filling, FillPackets
  <2>2. ses.input < act.do.seq /\ act.do.seq \in Nat
    <3>1. Flying /\ act.do.kind = "input" /\ ~Seen
      BY <1>5, PerformIs DEF Fills, Typing, Flying
    <3> QED BY <3>1, Fields, Actions DEF Numbers
  <2>3. ses'.meta < ses'.input
    BY <1>1, <2>1, <2>2
  <2>4. \A p \in Packets : 1 < p.seq /\ p.seq <= ses.seq /\ p.input <= ses.meta /\ p.input # ses'.input
    <3> TAKE p \in Packets
    <3>1. 1 < p.seq /\ p.seq <= ses.seq /\ p.input <= ses.meta
      BY DEF Confirms
    <3> QED BY <1>1, <1>2, <2>1, <2>2, <3>1
  <2>5. ses'.meta <= ses'.input /\ ses'.meta # ses'.input
    BY <1>1, <2>1, <2>2, <2>3
  <2> QED BY <2>1, <2>4, <2>5 DEF Confirms
<1>6. CASE PerformAction /\ LeavesPage
  <2>1. ses'.nodes = Nothing /\ ses'.meta = 0 /\ ses'.input = ses.input /\ Packets' = {}
    BY <1>6, Leaving, LeavePackets
  <2> QED BY <1>1, <2>1 DEF Confirms
<1>7. PerformAction => Fills \/ LeavesPage \/ Refuses \/ PressesKey
  BY PerformIs
<1> QED BY <1>3, <1>4, <1>5, <1>6, <1>7, Likeness, Steps

LEMMA DraftStep ==
  ASSUME Types, Types', Epochs, Numbers, Calls, Mirrored, [MirrorNext]_mirrorVars
  PROVE  DraftShown'
<1> USE DEF Mirrored
<1>1. ses.input \in Nat /\ ren.serial \in Nat /\ ses.input <= ren.serial
  BY Fields DEF Numbers
<1>2. ASSUME ses'.epoch = ses.epoch, ses'.input = ses.input, remote'.field = remote.field,
             \/ ren'.draft = Nothing
             \/ /\ ren'.draft = ren.draft /\ ren'.field = ren.field
                /\ ren'.serial = ren.serial /\ ren'.epoch = ren.epoch
             \/ ren'.draft = [seq |-> ren'.serial, text |-> ren'.field] /\ ren'.serial = ren.serial + 1
      PROVE  DraftShown'
  <2>1. CASE ren'.draft = Nothing
    BY <2>1 DEF DraftShown
  <2>2. CASE /\ ren'.draft = ren.draft /\ ren'.field = ren.field
             /\ ren'.serial = ren.serial /\ ren'.epoch = ren.epoch
    BY <1>2, <2>2 DEF DraftShown
  <2>3. CASE ren'.draft = [seq |-> ren'.serial, text |-> ren'.field] /\ ren'.serial = ren.serial + 1
    <3>1. ses'.input # ren'.serial
      BY <1>1, <1>2, <2>3
    <3> QED BY <2>3, <3>1 DEF DraftShown
  <2> QED BY <1>2, <2>1, <2>2, <2>3
<1>3. CASE \/ Rests \/ Poll \/ WasBased \/ Updates \/ WasApplied \/ Ack \/ PressEnter
           \/ Navigate \/ Take \/ ActionAnswered \/ Lost
  <2>1. Alike
    BY <1>3, Likeness
  <2>2. ren' = ren
    BY <1>3, PollIs, WasBasedIs, UpdatesIs, WasAppliedIs, AckIs, EnterIs, NavigateIs, TakeIs, AnsweredIs, LostIs
    DEF Rests, SameShown, SameActions
  <2> QED BY <1>2, <2>1, <2>2 DEF Alike
<1>4. CASE Captures
  BY <1>2, <1>4, CaptureIs DEF Captures
<1>5. CASE Type
  BY <1>2, <1>5, TypeIs DEF SameSession
<1>6. CASE Baseline
  BY <1>2, <1>6, BaselineIs DEF SameActions
<1>7. CASE Apply
  BY <1>2, <1>7, ApplyIs DEF SameActions, Shows
<1>8. CASE PerformAction
  <2>1. ren' = ren /\ queue' = queue /\ act.at = "sent" /\ Flying /\ (Refuses \/ Fills \/ PressesKey \/ LeavesPage)
    BY <1>8, PerformIs DEF Flying
  <2>2. CASE Refuses \/ PressesKey
    BY <1>2, <2>1, <2>2, Staying
  <2>3. CASE LeavesPage
    <3>1. ses'.epoch = ses.epoch + 1 /\ ren.epoch <= ses.epoch /\ ren.epoch \in Nat /\ ses.epoch \in Nat
      BY <2>3, Leaving, Fields DEF Epochs
    <3>2. ren.epoch # ses'.epoch
      BY <3>1
    <3> QED BY <2>1, <3>2 DEF DraftShown
  <2>4. CASE Fills
    <3>1. /\ ses'.epoch = ses.epoch /\ ses'.input = act.do.seq /\ remote'.field = act.do.text
          /\ Typing(act.do) /\ ~Seen
      BY <2>4, Filling DEF Fills
    <3>2. ASSUME ren.epoch = ses.epoch, act.do.seq = ren.serial PROVE ren.field = act.do.text
      <4>1. \A i \in DOMAIN queue : ~Typing(queue[i])
        <5> SUFFICES ASSUME NEW i \in DOMAIN queue, queue[i].kind = "input" PROVE FALSE
          BY DEF Typing
        <5>1. act.do.seq < queue[i].seq /\ queue[i].seq <= ren.serial
          BY <2>1, <3>1 DEF Numbers, Typing
        <5>2. queue[i].seq \in Nat
          BY Fields, Actions
        <5> QED BY <1>1, <3>2, <5>1, <5>2
      <4>2. Len(queue) \in Nat /\ DOMAIN queue = 1 .. Len(queue) /\ Len(queue) + 1 \in Nat /\ ren.field \in Nat
        BY Fields
      <4>3. Expects(Len(queue) + 1, ren.field)
        BY <3>2, <4>2 DEF Shown
      <4>4. Behind(ren.field)
        BY <4>1, <4>2, <4>3, ExpectsAt
      <4> QED BY <2>1, <3>1, <4>4 DEF Behind
    <3> QED BY <2>1, <3>1, <3>2 DEF DraftShown
  <2> QED BY <2>1, <2>2, <2>3, <2>4
<1> QED BY <1>3, <1>4, <1>5, <1>6, <1>7, <1>8, Steps

LEMMA UntouchedStep ==
  ASSUME Types, Types', Epochs, Calls, Mirrored, [MirrorNext]_mirrorVars, ~spent'.overtaken
  PROVE  Untouched'
<1> USE DEF Mirrored
<1>1. /\ ses.epoch \in Nat /\ ren.epoch \in Nat /\ ren.epoch <= ses.epoch
      /\ upd.at = "captured" => ren.epoch <= upd.epoch /\ upd.epoch <= ses.epoch /\ upd.epoch \in Nat
  <2>1. upd.at = "captured" => upd.epoch \in Nat
    BY DEF Types, Polls, Polled, Batch
  <2> QED BY <2>1, Fields DEF Epochs
<1>2. CASE Alike /\ ren'.epoch = ren.epoch /\ (upd'.at = "captured" => upd' = upd)
  BY <1>2 DEF Alike, Untouched, Field
<1>3. CASE \/ Rests \/ Poll \/ WasBased \/ Updates \/ Apply \/ WasApplied \/ Ack \/ Type \/ PressEnter
           \/ Navigate \/ Take \/ ActionAnswered \/ Lost \/ (PerformAction /\ (Refuses \/ PressesKey))
  <2>1. Alike
    BY <1>3, Likeness
  <2>2. ren'.epoch = ren.epoch /\ (upd'.at = "captured" => upd' = upd)
    BY <1>3, PollIs, WasBasedIs, UpdatesIs, ApplyIs, WasAppliedIs, AckIs, TypeIs, EnterIs, NavigateIs, TakeIs,
       AnsweredIs, LostIs, PerformIs
    DEF Rests, SameShown, SameActions, Shows
  <2> QED BY <1>2, <2>1, <2>2
<1>4. CASE Baseline
  <2>1. Alike /\ upd'.at # "captured"
    BY <1>4, Likeness, BaselineIs
  <2>2. ren'.epoch # ses'.epoch => ren.epoch # ses.epoch
    <3>1. ren'.epoch \in {ren.epoch, upd.epoch} /\ ses'.epoch = ses.epoch /\ upd.at = "captured"
      BY <1>4, BaselineIs
    <3> QED BY <1>1, <3>1
  <2> QED BY <2>1, <2>2 DEF Alike, Untouched, Field
<1>5. CASE Captures
  <2>1. /\ remote' = remote /\ ren' = ren /\ ses'.epoch = ses.epoch /\ ses'.input = ses.input
        /\ upd' = upd \/ upd'.nodes = ses'.nodes
        /\ SameKnown \/ Updated
    BY <1>5, CaptureIs DEF Captures
  <2>2. SUFFICES ASSUME ren.epoch # ses.epoch
                 PROVE  /\ remote'.field = 0 /\ Field(ses'.nodes) = 0
                        /\ upd'.at = "captured" => (upd'.epoch = ses'.epoch => Field(upd'.nodes) = 0)
                        /\ \A p \in Packets' : p.input = ses'.input
    BY <2>1 DEF Untouched, Field
  <2>3. remote.field = 0 /\ Field(ses.nodes) = 0 /\ (\A p \in Packets : p.input = ses.input)
        /\ (upd.at = "captured" => (upd.epoch = ses.epoch => Field(upd.nodes) = 0))
    BY <2>2 DEF Untouched
  <2>4. Field(ses'.nodes) = 0
    BY <2>1, <2>3 DEF SameKnown, Updated, Field
  <2>5. \A p \in Packets' : p.input = ses.input
    <3>1. Packets' \subseteq Packets \cup {NewPacket} /\ NewPacket.input = ses.input
      BY <1>5, CapturePackets DEF NewPacket
    <3> QED BY <2>3, <3>1
  <2> QED BY <2>1, <2>3, <2>4, <2>5
<1>6. CASE PerformAction /\ Fills
  <2>1. Flying /\ Typing(act.do) /\ ren' = ren /\ ses'.epoch = ses.epoch
    BY <1>6, PerformIs, Filling DEF Flying, Fills
  <2>2. ses.epoch <= ren.epoch
    BY <2>1 DEF Epochs, Typing
  <2>3. ren.epoch = ses.epoch
    BY <1>1, <2>2
  <2> QED BY <2>1, <2>3 DEF Untouched
<1>7. CASE PerformAction /\ LeavesPage
  <2>1. /\ ses'.epoch = ses.epoch + 1 /\ ses'.nodes = Nothing /\ remote'.field = 0 /\ upd' = upd /\ Packets' = {}
    BY <1>7, PerformIs, Leaving, LeavePackets
  <2>2. upd.at = "captured" => upd.epoch # ses'.epoch
    BY <1>1, <2>1
  <2> QED BY <2>1, <2>2 DEF Untouched, Field
<1>8. PerformAction => Fills \/ LeavesPage \/ Refuses \/ PressesKey
  BY PerformIs
<1> QED BY <1>3, <1>4, <1>5, <1>6, <1>7, <1>8, Steps

LEMMA AheadStep ==
  ASSUME Types, Calls, \/ Rests \/ Poll \/ Baseline \/ WasBased \/ Updates \/ WasApplied \/ Ack \/ Type \/ PressEnter
                       \/ Navigate \/ Take \/ ActionAnswered \/ Lost \/ PerformAction
  PROVE  \A p : Ahead(p)' => Ahead(p)
<1>1. upd.at \in {"captures", "captured", "based"} => cli.seq = 0
  BY DEF Calls
<1>2. CASE upd' = upd /\ cli'.seq \in {0, cli.seq}
  BY <1>2 DEF Ahead
<1>3. CASE Rests \/ Type \/ PressEnter \/ Navigate \/ Take \/ ActionAnswered \/ Lost \/ PerformAction
  <2>1. upd' = upd /\ cli'.seq \in {0, cli.seq}
    BY <1>3, TypeIs, EnterIs, NavigateIs, TakeIs, AnsweredIs, LostIs, PerformIs DEF Rests
  <2> QED BY <1>2, <2>1
<1>4. CASE Poll
  BY <1>4, PollIs DEF Ahead
<1>5. CASE Baseline
  BY <1>1, <1>5, BaselineIs DEF Ahead
<1>6. CASE WasBased
  BY <1>1, <1>6, WasBasedIs DEF Ahead
<1>7. CASE Updates
  BY <1>1, <1>7, UpdatesIs DEF Ahead
<1>8. CASE WasApplied
  BY <1>8, WasAppliedIs DEF Ahead
<1>9. CASE Ack
  BY <1>9, AckIs DEF Ahead
<1> QED BY <1>3, <1>4, <1>5, <1>6, <1>7, <1>8, <1>9

(* Where there is nothing to be quiet about.                               *)
LEMMA QuietKept ==
  ASSUME Quiet, Alike, ren'.epoch = ren.epoch, ren'.draft = ren.draft, ren'.field = ren.field,
         upd'.at = "captured" => upd' = upd, \A p : Ahead(p)' => Ahead(p), Settled => Settled'
  PROVE  Quiet'
<1>1. SUFFICES ASSUME ren.epoch = ses.epoch, ren.draft = Nothing
               PROVE  /\ Settled' /\ ren'.field = remote'.field /\ Field(ses'.nodes) = remote'.field
                      /\ upd'.at = "captured" => Field(upd'.nodes) = remote'.field
                      /\ \A p \in Packets' : Ahead(p)' => p.input = ses'.input
  BY DEF Quiet, Settled, Alike, Field
<1>2. /\ Settled /\ ren.field = remote.field /\ Field(ses.nodes) = remote.field
      /\ upd.at = "captured" => Field(upd.nodes) = remote.field
      /\ \A p \in Packets : Ahead(p) => p.input = ses.input
  BY <1>1 DEF Quiet, Settled
<1>3. \A p \in Packets' : Ahead(p)' => p.input = ses'.input
  BY <1>2 DEF Alike
<1> QED BY <1>2, <1>3 DEF Alike

LEMMA SettledSame ==
  ASSUME queue' = queue, ses'.epoch = ses.epoch, ses'.last = ses.last,
         Flying' => Flying /\ act'.do = act.do /\ act'.seq = act.seq
  PROVE  Settled => Settled'
BY DEF Settled, Typing, Seen

LEMMA SettledGrows ==
  ASSUME Types, Types', NEW a, Grows(a), a.kind # "input", act' = act, ses' = ses
  PROVE  Settled => Settled'
<1>1. PICK m \in Nat :
        /\ DOMAIN queue' = 1 .. m + 1 /\ queue'[m + 1] = a
        /\ 1 .. m \subseteq DOMAIN queue
        /\ \A i \in 1 .. m : queue'[i] = queue[i]
  BY Longer
<1>2. \A i \in DOMAIN queue' : i = m + 1 \/ (i \in 1 .. m /\ i \in DOMAIN queue /\ queue'[i] = queue[i])
  BY <1>1
<1>3. Settled => \A i \in DOMAIN queue' : ~Typing(queue[i])'
  BY <1>1, <1>2 DEF Settled, Typing
<1> QED BY <1>3 DEF Settled, Typing, Flying, Seen

LEMMA SettledTake ==
  ASSUME Types, Types', Take
  PROVE  Settled => Settled'
<1>1. /\ ses' = ses /\ act.at = "idle" /\ (act' = act \/ act'.do = queue[1])
  BY TakeIs DEF SameSession
<1>2. /\ \A i \in DOMAIN queue' : i + 1 \in DOMAIN queue /\ queue'[i] = queue[i + 1]
      /\ 1 \in DOMAIN queue
  BY Shorter
<1>3. Settled => \A i \in DOMAIN queue' : ~Typing(queue[i])'
  BY <1>1, <1>2 DEF Settled, Typing
<1>4. Settled => (Flying' => ~Typing(act.do)')
  BY <1>1, <1>2 DEF Settled, Typing, Flying
<1> QED BY <1>3, <1>4 DEF Settled

LEMMA QuietStep ==
  ASSUME NullIsNothing, Types, Types', Epochs, Numbers, Calls, Mirrored, [MirrorNext]_mirrorVars, ~spent'.overtaken
  PROVE  Quiet'
<1> USE DEF Mirrored
<1>1. CASE \/ Rests \/ Poll \/ WasBased \/ Updates \/ WasApplied \/ Ack \/ ActionAnswered \/ Lost
  <2>1. Alike /\ \A p : Ahead(p)' => Ahead(p)
    BY <1>1, Likeness, AheadStep
  <2>2. /\ ren' = ren /\ queue' = queue /\ ses'.last = ses.last
        /\ upd'.at = "captured" => upd' = upd
        /\ Flying' => Flying /\ act'.do = act.do /\ act'.seq = act.seq
    BY <1>1, PollIs, WasBasedIs, UpdatesIs, WasAppliedIs, AckIs, AnsweredIs, LostIs
    DEF Rests, SameShown, SameActions, SameSession, Flying
  <2>3. Settled => Settled'
    BY <2>1, <2>2, SettledSame DEF Alike
  <2> QED BY <2>1, <2>2, <2>3, QuietKept
<1>2. CASE PressEnter
  <2>1. Alike /\ \A p : Ahead(p)' => Ahead(p)
    BY <1>2, Likeness, AheadStep
  <2>2. SameSession /\ act' = act /\ upd' = upd /\ ren' = ren /\ ((\E f \in BOOLEAN : Grows(Entered(f))) \/ queue' = queue)
    BY <1>2, EnterIs
  <2>3. \A f : Entered(f).kind # "input"
    BY DEF Entered
  <2>4. Settled => Settled'
    BY <2>2, <2>3, SettledGrows, SettledSame DEF SameSession, Flying
  <2> QED BY <2>1, <2>2, <2>4, QuietKept
<1>3. CASE Navigate
  <2> DEFINE a == [kind |-> "navigate"]
  <2>1. Alike /\ \A p : Ahead(p)' => Ahead(p)
    BY <1>3, Likeness, AheadStep
  <2>2. SameSession /\ act' = act /\ upd' = upd /\ ren' = ren /\ Grows(a)
    BY <1>3, NavigateIs
  <2>3. a.kind # "input"
    OBVIOUS
  <2> HIDE DEF a
  <2>4. Settled => Settled'
    BY <2>2, <2>3, SettledGrows DEF SameSession
  <2> QED BY <2>1, <2>2, <2>4, QuietKept
<1>4. CASE Take
  <2>1. Alike /\ \A p : Ahead(p)' => Ahead(p)
    BY <1>4, Likeness, AheadStep
  <2>2. upd' = upd /\ ren' = ren
    BY <1>4, TakeIs
  <2> QED BY <1>4, <2>1, <2>2, SettledTake, QuietKept
<1>5. CASE Type
  <2>1. ren'.draft = [seq |-> ren'.serial, text |-> ren'.field]
    BY <1>5, TypeIs
  <2>2. ren'.draft # Nothing
    BY <2>1, FieldsNext DEF NullIsNothing, Draft
  <2> QED BY <2>2 DEF Quiet
<1>6. CASE Baseline
  <2>1. Alike /\ \A p : Ahead(p)' => Ahead(p)
    BY <1>6, Likeness, AheadStep
  <2>2. SameActions /\ ses' = ses /\ upd.at = "captured" /\ upd'.at # "captured"
    BY <1>6, BaselineIs
  <2>3. queue' = queue => (Settled => Settled')
    BY <2>2, SettledSame DEF SameActions, Flying
  <2>4. CASE ren' = ren /\ queue' = queue
    BY <2>1, <2>2, <2>3, <2>4, QuietKept
  <2>5. CASE ren'.draft = [seq |-> ren'.serial, text |-> ren'.field]
    <3>1. ren'.draft # Nothing
      BY <2>5, FieldsNext DEF NullIsNothing, Draft
    <3> QED BY <3>1 DEF Quiet
  <2>6. CASE /\ ren'.epoch = upd.epoch
             /\ ren.draft = Nothing \/ ren.epoch # upd.epoch
             /\ queue' = queue /\ ren'.field = Field(upd.nodes)
    <3>1. SUFFICES ASSUME upd.epoch = ses.epoch
                   PROVE  /\ Settled' /\ ren'.field = remote'.field /\ Field(ses'.nodes) = remote'.field
                          /\ \A p \in Packets' : Ahead(p)' => p.input = ses'.input
      BY <2>2, <2>6 DEF Quiet, Settled
    <3>2. /\ Settled /\ Field(upd.nodes) = remote.field /\ Field(ses.nodes) = remote.field
          /\ \A p \in Packets : Ahead(p) => p.input = ses.input
      BY <2>2, <2>6, <3>1, Rebasing
    <3>3. \A p \in Packets' : Ahead(p)' => p.input = ses'.input
      BY <2>1, <2>2, <3>2 DEF Alike
    <3> QED BY <2>2, <2>3, <2>6, <3>2, <3>3 DEF SameActions
  <2> QED BY <1>6, <2>4, <2>5, <2>6, BaselineIs
<1>7. CASE Apply
  <2>1. Alike
    BY <1>7, Likeness
  <2>2. SameActions /\ queue' = queue /\ ses' = ses /\ upd.at = "applies" /\ upd \in Batch /\ cli.seq \in Nat
    BY <1>7, ApplyIs, Fields
  <2>3. Settled => Settled'
    BY <2>2, SettledSame DEF SameActions, Flying
  <2>4. CASE upd'.at \in {"idle", "acks"} /\ cli'.seq \in {0, cli.seq} /\ ren' = ren
    <3>1. \A p : Ahead(p)' => Ahead(p)
      BY <2>2, <2>4 DEF Ahead
    <3> QED BY <2>1, <2>3, <2>4, <3>1, QuietKept
  <2>5. CASE /\ upd'.at = "applied" /\ upd'.packets = upd.packets /\ cli' = cli
             /\ Len(upd.packets) > 0 /\ Shows(upd.packets[1])
    <3> DEFINE p == upd.packets[1]
    <3>1. p \in Known(upd.packets)
      BY <2>2, <2>5 DEF Batch, Known
    <3>2. Shows(p) /\ (ses.epoch = p.epoch => p \in Packets)
      BY <2>2, <2>5, <3>1 DEF Packets
    <3>3. \A q : Ahead(q)' <=> q.seq > p.seq
      BY <2>5 DEF Ahead
    <3> HIDE DEF p
    <3>4. SUFFICES ASSUME ren.epoch = ses.epoch, ren'.draft = Nothing
                   PROVE  /\ Settled' /\ ren'.field = remote'.field /\ Field(ses'.nodes) = remote'.field
                          /\ \A q \in Packets' : Ahead(q)' => q.input = ses'.input
      BY <2>2, <2>5, <3>2 DEF Quiet, Settled, Shows
    <3>5. /\ p \in Packets /\ p.epoch = ren.epoch /\ p.seq = cli.seq + 1
          /\ ren.draft = Nothing \/ p.input >= ren.draft.seq
          /\ ren'.field = IF p.put["field"] # Nothing THEN p.put["field"] ELSE ren.field
      BY <3>2, <3>4 DEF Shows
    <3>6. /\ Settled /\ ren.field = remote.field /\ Field(ses.nodes) = remote.field
          /\ p.input = ses.input /\ p.put["field"] \in {Nothing, remote.field} /\ ses.meta = ses.input
      BY <2>2, <3>5, Confirming
    <3>7. \A q \in Packets : q.seq > p.seq => q.input = ses.input
      <4> SUFFICES ASSUME NEW q \in Packets, q.seq > p.seq PROVE q.input = ses.input
        OBVIOUS
      <4>1. q.seq \in Nat /\ p.seq \in Nat /\ q.input \in Nat /\ ses.input \in Nat
        BY <3>5, PacketFields, Fields
      <4>2. p.seq < q.seq
        BY <4>1
      <4>3. p.input <= q.input /\ q.input <= ses.meta
        BY <3>5, <4>2 DEF Confirms
      <4> QED BY <3>6, <4>1, <4>3
    <3>8. \A q \in Packets' : Ahead(q)' => q.input = ses'.input
      BY <2>1, <3>3, <3>7 DEF Alike
    <3>9. ren'.field = remote.field
      BY <3>5, <3>6
    <3> QED BY <2>1, <2>3, <3>6, <3>8, <3>9 DEF Alike
  <2> QED BY <1>7, <2>4, <2>5, ApplyIs
<1>8. CASE Captures
  <2>1. /\ remote' = remote /\ cli' = cli /\ queue' = queue /\ ren' = ren
        /\ ses'.epoch = ses.epoch /\ ses'.input = ses.input /\ ses'.last = ses.last
        /\ \/ upd' = upd
           \/ upd'.at = "captured" /\ upd'.seq = ses'.seq /\ upd'.nodes = ses'.nodes
        /\ SameKnown \/ Updated
    BY <1>8, CaptureIs DEF Captures
  <2>2. Settled => Settled'
    BY <1>8, <2>1, CaptureActs, SettledSame
  <2>3. SUFFICES ASSUME ren.epoch = ses.epoch, ren.draft = Nothing
                 PROVE  /\ Settled' /\ ren'.field = remote'.field /\ Field(ses'.nodes) = remote'.field
                        /\ upd'.at = "captured" => Field(upd'.nodes) = remote'.field
                        /\ \A p \in Packets' : Ahead(p)' => p.input = ses'.input
    BY <2>1 DEF Quiet, Settled, Field
  <2>4. /\ Settled /\ ren.field = remote.field /\ Field(ses.nodes) = remote.field
        /\ upd.at = "captured" => Field(upd.nodes) = remote.field
        /\ \A p \in Packets : Ahead(p) => p.input = ses.input
    BY <2>3 DEF Quiet, Settled
  <2>5. Field(ses'.nodes) = remote.field
    <3>1. Updated => ses'.nodes.field = remote.field
      BY DEF Updated
    <3>2. Updated => cap.page \in Document /\ cap.page # Nothing /\ ses'.nodes = cap.page
      BY <1>8, CaptureIs DEF Captures, NullIsNothing, Updated
    <3> QED BY <2>1, <2>4, <3>1, <3>2 DEF SameKnown, Field
  <2>6. \A p \in Packets' : Ahead(p)' => p.input = ses.input
    <3> SUFFICES ASSUME NEW p \in Packets', Ahead(p)' PROVE p.input = ses.input
      OBVIOUS
    <3>1. p \in Packets \/ p = NewPacket
      BY <1>8, CapturePackets
    <3>2. NewPacket.input = ses.input
      BY DEF NewPacket
    <3>3. CASE upd' = upd
      <4>1. Ahead(p)
        BY <2>1, <3>3 DEF Ahead
      <4> QED BY <2>4, <3>1, <3>2, <4>1
    <3>4. CASE upd'.at = "captured" /\ upd'.seq = ses'.seq
      <4>1. p.seq > ses'.seq
        BY <3>4 DEF Ahead
      <4>2. p \in Packets => p.seq <= ses.seq /\ p.seq \in Nat
        BY PacketFields DEF Confirms
      <4>3. ses'.seq \in {ses.seq, ses.seq + 1} /\ ses.seq \in Nat
        BY <2>1, Fields DEF SameKnown, Updated
      <4>4. p \notin Packets
        BY <4>1, <4>2, <4>3
      <4> QED BY <3>1, <3>2, <4>4
    <3> QED BY <2>1, <3>3, <3>4
  <2>7. upd'.at = "captured" => Field(upd'.nodes) = remote.field
    BY <2>1, <2>4, <2>5
  <2> QED BY <2>1, <2>2, <2>4, <2>5, <2>6, <2>7
<1>9. CASE PerformAction
  <2>1. /\ act.at = "sent" /\ act'.do = act.do /\ act'.seq = act.seq /\ Flying
        /\ UNCHANGED <<cli, upd, queue, ren>>
        /\ Refuses \/ Fills \/ PressesKey \/ LeavesPage
    BY <1>9, PerformIs DEF Flying
  <2>2. CASE Refuses \/ PressesKey
    <3>1. Alike /\ \A p : Ahead(p)' => Ahead(p)
      BY <1>9, <2>2, Likeness, AheadStep
    <3>2. Typing(act.do) => Seen
      BY <2>2 DEF Refuses, PressesKey, Typing, Stale
    <3>3. Seen => Seen'
      <4>1. ses'.last \in {ses.last, act.seq} /\ act.seq \in Nat
        BY <2>1, <2>2, Staying, Fields
      <4> QED BY <2>1, <4>1 DEF Seen
    <3>4. Settled => Settled'
      BY <2>1, <3>1, <3>2, <3>3 DEF Settled, Alike, Typing
    <3> QED BY <2>1, <3>1, <3>4, QuietKept
  <2>3. CASE Fills
    <3>1. Typing(act.do) /\ ~Seen /\ ses'.epoch = ses.epoch
      BY <2>3, Filling DEF Fills
    <3>2. ~(ren.epoch = ses.epoch /\ ren.draft = Nothing)
      BY <2>1, <3>1 DEF Quiet
    <3> QED BY <2>1, <3>1, <3>2 DEF Quiet
  <2>4. CASE LeavesPage
    <3>1. ses'.epoch = ses.epoch + 1 /\ ren.epoch <= ses.epoch /\ ren.epoch \in Nat /\ ses.epoch \in Nat
      BY <2>4, Leaving, Fields DEF Epochs
    <3>2. ren.epoch # ses'.epoch
      BY <3>1
    <3> QED BY <2>1, <3>2 DEF Quiet
  <2> QED BY <2>1, <2>2, <2>3, <2>4
<1> QED BY <1>1, <1>2, <1>3, <1>4, <1>5, <1>6, <1>7, <1>8, <1>9, Steps

-----------------------------------------------------------------------------
LEMMA Starts == NullIsNothing /\ MirrorInit => Inv
<1> SUFFICES ASSUME NullIsNothing, MirrorInit PROVE Inv
  OBVIOUS
<1>1. Types
  BY DEF MirrorInit, Types, BlankPage, Idle, Document, Session, Toolbar, Renderer, Count, Polls, Polled, Batch
<1>2. Epochs /\ Numbers /\ Calls
  BY DEF MirrorInit, BlankPage, Idle, Epochs, Numbers, Calls, Flying
<1>3. Packets = {}
  BY DEF MirrorInit, Idle, Packets, Known
<1>4. Shown
  <2>1. Behind(0)
    BY DEF MirrorInit, BlankPage, Idle, Behind, Flying
  <2>2. Expects(1, 0)
    <3>1. \A j \in 1 .. 0 : FALSE
      OBVIOUS
    <3>2. Expects(0 + 1, 0)
      BY <2>1, <3>1, ExpectsAt
    <3> QED BY <3>2
  <2>3. Len(queue) + 1 = 1 /\ DOMAIN queue = {}
    BY DEF MirrorInit
  <2> QED BY <2>2, <2>3 DEF MirrorInit, Idle, Shown, Flying
<1>5. Confirms
  BY <1>3 DEF MirrorInit, BlankPage, NullIsNothing, Document, Confirms
<1>6. DraftShown /\ Quiet /\ Untouched
  BY <1>3 DEF MirrorInit, BlankPage, Idle, DraftShown, Quiet, Untouched, Field, Flying
<1> QED BY <1>1, <1>2, <1>4, <1>5, <1>6 DEF Inv, Mirrored

LEMMA KeepsInv == NullIsNothing /\ Inv /\ [MirrorNext]_mirrorVars => Inv'
<1> SUFFICES ASSUME NullIsNothing, Inv, [MirrorNext]_mirrorVars PROVE Inv'
  OBVIOUS
<1> USE DEF Inv
<1>1. Types'
  BY TypesStep
<1>2. Epochs' /\ Numbers' /\ Calls'
  BY <1>1, EpochsStep, NumbersStep, CallsStep
<1>3. ASSUME ~spent'.overtaken PROVE Mirrored'
  <2>1. ~spent.overtaken
    <3>1. \/ Rests \/ Captures \/ Poll \/ Baseline \/ WasBased \/ Updates \/ Apply \/ WasApplied
          \/ Ack \/ Type \/ PressEnter \/ Navigate \/ Take \/ PerformAction \/ ActionAnswered \/ Lost
      BY Steps
    <3> QED BY <1>3, <3>1, CaptureIs, PollIs, BaselineIs, WasBasedIs, UpdatesIs, ApplyIs, WasAppliedIs, AckIs,
               TypeIs, EnterIs, NavigateIs, TakeIs, PerformIs, AnsweredIs, LostIs
            DEF Rests, Captures, SameShown, SameActions, SameSession
  <2>2. Mirrored
    BY <2>1
  <2> QED BY <1>1, <1>3, <2>2, ShownStep, ConfirmsStep, DraftStep, QuietStep, UntouchedStep DEF Mirrored
<1> QED BY <1>1, <1>2, <1>3

(* Enter acts on the text the field showed when it was pressed, whatever   *)
(* was coalesced, retried, lost or refused on the way, as long as no       *)
(* capture confirmed an input that came after its snapshot                 *)
(* (browser-lite.js:120, 133); not an Enter outside a form, which a        *)
(* refused text does not hold back.                                        *)
THEOREM EnterIsExact ==
  ASSUME Nothing \notin Document \cup Draft
  PROVE  MirrorSpec => []EnterSeesTyping
<1>1. NullIsNothing
  BY DEF NullIsNothing
<1>2. MirrorInit => Inv
  BY <1>1, Starts
<1>3. Inv /\ [MirrorNext]_mirrorVars => Inv'
  BY <1>1, KeepsInv
<1>4. Inv => EnterSeesTyping
  BY DEF Inv, Mirrored, Shown, EnterSeesTyping
<1> QED BY <1>2, <1>3, <1>4, PTL DEF MirrorSpec
=============================================================================
