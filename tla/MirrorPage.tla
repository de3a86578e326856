---------------------------- MODULE MirrorPage ----------------------------
(***************************************************************************)
(* The mirrored page of Browser Lite: a Chromium page on the server, the   *)
(* session that captures it (backend/agent.py, collector.js), the toolbar  *)
(* page that polls it and sends the user's actions (browser-lite.js), and  *)
(* the renderer that shows it (browser-lite-renderer.js).  The page has a  *)
(* text that its script changes and one field that the user types into;    *)
(* the k-th text typed is k.  One window holds the session; baselines are  *)
(* one chunk, resources and scrolling are left out.                        *)
(***************************************************************************)
EXTENDS Integers, Sequences, SequencesExt, FiniteSetsExt

CONSTANTS MaxActs, MaxMirrorFaults, Nothing

VARIABLES
  remote,   \* the remote page: text and field
  ses,      \* the session
  cap,      \* the capture under way
  cli,      \* the toolbar page
  upd,      \* its poll: where it is, and what it has
  act,      \* its action: where it is
  queue,    \* the actions that wait
  ren,      \* the renderer
  pressed,  \* the last Enter that ran: the field as it was shown, and as it was,
            \* and whether it went through after a refused text
  spent     \* how many acts and faults so far, and whether a capture was missed

mirrorVars == <<remote, ses, cap, cli, upd, act, queue, ren, pressed, spent>>

BlankPage == [text |-> 0, field |-> 0]
Idle == [at |-> "idle"]

(* The first page has just been shown.                                     *)
MirrorInit ==
  /\ remote = BlankPage
  /\ ses = [epoch |-> 1, seq |-> 1, nodes |-> BlankPage, packets |-> <<>>, ack |-> 1,
            input |-> 0, meta |-> 0, last |-> 0, result |-> 0]
  /\ cap = Nothing
  /\ cli = [epoch |-> 1, seq |-> 1, ticket |-> 0, actionSeq |-> 0, failed |-> FALSE]
  /\ upd = Idle /\ act = Idle /\ queue = <<>>
  /\ ren = [epoch |-> 1, text |-> 0, field |-> 0, draft |-> Nothing, serial |-> 0]
  /\ pressed = Nothing
  /\ spent = [acts |-> 0, faults |-> 0, missed |-> FALSE, overtaken |-> FALSE]

Spend(k, max) == spent[k] < max /\ spent' = [spent EXCEPT ![k] = @ + 1]

---------------------------------------------------------------------------
(* The remote page and its capture.                                        *)

Script ==
  /\ Spend("acts", MaxActs)
  /\ remote' = [remote EXCEPT !.text = @ + 1]
  /\ UNCHANGED <<ses, cap, cli, upd, act, queue, ren, pressed>>

(* A new document: updates of the old one are dropped.                     *)
Navigated(s) == [s EXCEPT !.epoch = @ + 1, !.nodes = Nothing, !.packets = <<>>, !.ack = 0, !.meta = 0]

(* snapshot runs in the page; the styles, and whatever else is awaited,    *)
(* come before the result is used.  The loop of 2 Hz captures by itself,   *)
(* an action and a baseline wait for a capture of their own.               *)
Snapshot(who) ==
  /\ cap = Nothing
  /\ cap' = [who |-> who, epoch |-> ses.epoch, page |-> remote]
  /\ UNCHANGED <<remote, ses, cli, upd, act, queue, ren, pressed, spent>>

CollectLoop == remote # ses.nodes /\ Snapshot("loop")
CaptureForAction == act.at = "captures" /\ Snapshot("action")
CaptureForBaseline == upd.at = "captures" /\ Snapshot("baseline")

Put(old, new) ==
  [f \in {"text", "field"} |-> IF old = Nothing \/ old[f] # new[f] THEN new[f] ELSE Nothing]

(* The update a capture makes.  The first one of a document, as long as    *)
(* nothing of it was acknowledged, has no packet.                          *)
Update(s, content) ==
  LET p == [seq |-> s.seq + 1, epoch |-> s.epoch, put |-> Put(s.nodes, content), input |-> s.input] IN
  [s EXCEPT !.seq = @ + 1, !.nodes = content, !.meta = s.input,
            !.packets = IF s.nodes = Nothing /\ s.ack = 0 THEN @ ELSE Append(@, p)]

(* Who waits for the capture goes on: the result of an action is kept, a   *)
(* baseline takes what is known now.                                       *)
ResultKept(who, s) == IF who = "action" THEN [s EXCEPT !.result = act.seq] ELSE s

Goes(who, s) ==
  /\ act' = IF who = "action" THEN [act EXCEPT !.at = "answered"] ELSE act
  /\ upd' = IF who = "baseline"
            THEN [at |-> "captured", ticket |-> upd.ticket, epoch |-> s.epoch,
                  seq |-> s.seq, nodes |-> s.nodes, input |-> s.meta]
            ELSE upd

(* The number of the last input is read after the awaits (agent.py:306).   *)
(* `overtaken` remembers, for the properties, that an input came between   *)
(* the snapshot and that: its number then confirms an older text.          *)
Overtakes(u) == [u EXCEPT !.overtaken = @ \/ (cap.epoch = ses.epoch /\ cap.page.field # remote.field)]

Commit ==
  /\ cap # Nothing /\ cap' = Nothing /\ spent' = Overtakes(spent)
  /\ LET new == cap.epoch = ses.epoch /\ (cap.who # "loop" \/ cap.page # ses.nodes) IN
     ses' = ResultKept(cap.who, IF new THEN Update(ses, cap.page) ELSE ses)
  /\ Goes(cap.who, ses')
  /\ UNCHANGED <<remote, cli, queue, ren, pressed>>

(* More than 2 MB wait: the packets are dropped.  Or the capture takes     *)
(* longer than its 3 s, and nothing comes of it.                           *)
Overflow ==
  /\ cap # Nothing /\ cap.epoch = ses.epoch /\ spent.faults < MaxMirrorFaults
  /\ spent' = [Overtakes(spent) EXCEPT !.faults = @ + 1]
  /\ cap' = Nothing
  /\ ses' = ResultKept(cap.who, [Update(ses, cap.page) EXCEPT !.packets = <<>>])
  /\ Goes(cap.who, ses')
  /\ UNCHANGED <<remote, cli, queue, ren, pressed>>

CaptureMissed ==
  /\ cap # Nothing /\ spent.faults < MaxMirrorFaults
  /\ spent' = [spent EXCEPT !.faults = @ + 1, !.missed = TRUE]
  /\ cap' = Nothing /\ ses' = ResultKept(cap.who, ses) /\ Goes(cap.who, ses')
  /\ UNCHANGED <<remote, cli, queue, ren, pressed>>

---------------------------------------------------------------------------
(* The poll.                                                               *)

Poll ==
  /\ upd.at = "idle"
  /\ upd' = [at |-> IF cli.seq = 0 THEN "captures" ELSE "waits", after |-> cli.seq,
             epoch |-> cli.epoch, ticket |-> cli.ticket]
  /\ UNCHANGED <<remote, ses, cap, cli, act, queue, ren, pressed, spent>>

Current == upd.ticket = cli.ticket

(* The renderer forgets a draft that the session has confirmed.            *)
Confirmed(p) == ren.draft # Nothing /\ p.input >= ren.draft.seq

(* A text that still waits is replaced by the next one.                    *)
Enqueued(a) == IF a.kind = "input" /\ queue # <<>> /\ Last(queue).kind = "input"
               THEN Append(Front(queue), a) ELSE Append(queue, a)

(* The whole page: the renderer starts over when the document is another   *)
(* one, and otherwise sends what is in the field it was typing in again:   *)
(* the draft, or, once that is confirmed, what the page has.               *)
Baseline ==
  /\ upd.at = "captured"
  /\ IF ~Current
     THEN upd' = Idle /\ UNCHANGED <<cli, ren, queue>>
     ELSE LET again == ren.draft # Nothing /\ ren.epoch = upd.epoch
              there == IF upd.nodes = Nothing THEN BlankPage ELSE upd.nodes
              text == IF again /\ ~Confirmed(upd) THEN ren.draft.text ELSE there.field
              k == ren.serial + 1 IN
          /\ cli' = [cli EXCEPT !.epoch = upd.epoch, !.seq = 0]
          /\ ren' = [epoch |-> upd.epoch, text |-> there.text, field |-> text,
                     draft |-> IF again THEN [seq |-> k, text |-> text] ELSE Nothing,
                     serial |-> IF again THEN k ELSE ren.serial]
          /\ queue' = IF again
                      THEN Enqueued([kind |-> "input", text |-> text, seq |-> k, epoch |-> upd.epoch])
                      ELSE queue
          /\ upd' = [at |-> "based", ticket |-> upd.ticket, seq |-> upd.seq]
  /\ UNCHANGED <<remote, ses, cap, act, pressed, spent>>

(* The renderer has it: only now its number counts.                        *)
WasBased ==
  /\ upd.at = "based"
  /\ IF Current
     THEN cli' = [cli EXCEPT !.seq = upd.seq] /\ upd' = [at |-> "acks", seq |-> upd.seq]
     ELSE UNCHANGED cli /\ upd' = Idle
  /\ UNCHANGED <<remote, ses, cap, act, queue, ren, pressed, spent>>

(* The packets after one: they are numbered in their order.                *)
Beyond(packets, n) ==
  SubSeq(packets, Cardinality({i \in DOMAIN packets : packets[i].seq <= n}) + 1, Len(packets))

(* What the session answers a poll with.                                   *)
ResyncByEpoch == upd.epoch # ses.epoch

Resync == \/ upd.epoch # ses.epoch
          \/ ses.packets # <<>> /\ upd.after < Head(ses.packets).seq - 1
          \/ ses.packets = <<>> /\ upd.after < ses.seq

(* updates: after a resynchronisation the baseline follows at once.        *)
Updates ==
  /\ upd.at = "waits"
  /\ Resync \/ upd.after < ses.seq
  /\ IF ~Current THEN upd' = Idle /\ UNCHANGED cli
     ELSE IF Resync
          THEN /\ cli' = [cli EXCEPT !.seq = 0]
               /\ upd' = [upd EXCEPT !.at = "captures"]
     ELSE /\ upd' = [at |-> "applies", ticket |-> upd.ticket,
                     packets |-> Beyond(ses.packets, upd.after)]
          /\ UNCHANGED cli
  /\ UNCHANGED <<remote, ses, cap, act, queue, ren, pressed, spent>>

(* A packet that does not follow ends the batch; the next poll asks for    *)
(* the whole page.                                                         *)
Follows(p) == Current /\ p.epoch = cli.epoch /\ p.seq = cli.seq + 1

(* A draft that is not confirmed outlives the packet's value.              *)
Applied(p) ==
  LET open == ren.draft = Nothing \/ Confirmed(p) IN
  [ren EXCEPT !.text = IF p.put.text # Nothing THEN p.put.text ELSE @,
              !.draft = IF open THEN Nothing ELSE @,
              !.field = IF open /\ p.put.field # Nothing THEN p.put.field ELSE @]

Apply ==
  /\ upd.at = "applies"
  /\ IF upd.packets = <<>>
     THEN upd' = (IF cli.seq = 0 THEN Idle ELSE [at |-> "acks", seq |-> cli.seq])
          /\ UNCHANGED <<cli, ren>>
     ELSE LET p == Head(upd.packets) IN
          IF ~Follows(p)
          THEN cli' = [cli EXCEPT !.seq = 0] /\ upd' = Idle /\ UNCHANGED ren
          ELSE IF p.epoch # ren.epoch      \* "Stale document"
          THEN upd' = Idle /\ UNCHANGED <<cli, ren>>
          ELSE /\ ren' = Applied(p)
               /\ upd' = [upd EXCEPT !.at = "applied"]
               /\ UNCHANGED cli
  /\ UNCHANGED <<remote, ses, cap, act, queue, pressed, spent>>

(* The renderer's answer arrives: only now the packet counts.              *)
WasApplied ==
  /\ upd.at = "applied"
  /\ cli' = [cli EXCEPT !.seq = Head(upd.packets).seq]
  /\ upd' = [upd EXCEPT !.at = "applies", !.packets = Tail(@)]
  /\ UNCHANGED <<remote, ses, cap, act, queue, ren, pressed, spent>>

Ack ==
  /\ upd.at = "acks"
  /\ ses' = [ses EXCEPT !.ack = IF upd.seq > @ THEN upd.seq ELSE @,
                        !.packets = Beyond(@, upd.seq)]
  /\ upd' = Idle
  /\ UNCHANGED <<remote, cap, cli, act, queue, ren, pressed, spent>>

---------------------------------------------------------------------------
(* The user's actions.                                                     *)

(* An action of the renderer counts for the document it shows.             *)
QueuedAction(a) == IF ren.epoch = cli.epoch THEN Enqueued(a) ELSE queue

Type ==
  /\ Spend("acts", MaxActs)
  /\ LET n == spent.acts + 1  k == ren.serial + 1 IN
     /\ ren' = [ren EXCEPT !.field = n, !.draft = [seq |-> k, text |-> n], !.serial = k]
     /\ queue' = QueuedAction([kind |-> "input", text |-> n, seq |-> k, epoch |-> ren.epoch])
  /\ UNCHANGED <<remote, ses, cap, cli, upd, act, pressed>>

(* It submits when its field is in a form.                                 *)
PressEnter ==
  /\ Spend("acts", MaxActs)
  /\ \E form \in BOOLEAN :
       queue' = QueuedAction([kind |-> "key", saw |-> ren.field, epoch |-> ren.epoch, submits |-> form])
  /\ UNCHANGED <<remote, ses, cap, cli, upd, act, ren, pressed>>

Navigate ==
  /\ Spend("acts", MaxActs)
  /\ queue' = Append(queue, [kind |-> "navigate"])
  /\ UNCHANGED <<remote, ses, cap, cli, upd, act, ren, pressed>>

(* runActions takes the next one.  A text that was refused holds back what *)
(* would submit it in its form; an Enter in a field without one goes on.   *)
HeldNever(a) == FALSE

Held(a) == a.kind = "key" /\ a.submits /\ cli.failed

Take ==
  /\ act.at = "idle" /\ queue # <<>>
  /\ queue' = Tail(queue)
  /\ LET a == Head(queue) IN
     IF Held(a)
     THEN UNCHANGED <<act, cli>>
     ELSE /\ cli' = [cli EXCEPT !.actionSeq = @ + 1,
                       !.ticket = IF a.kind = "navigate" THEN @ + 1 ELSE @]
          /\ act' = [at |-> "sent", do |-> a, seq |-> cli.actionSeq + 1, tries |-> 1]
  /\ UNCHANGED <<remote, ses, cap, upd, ren, pressed, spent>>

(* action: a number that was seen never runs again: what came of it is     *)
(* answered once more, or, when nothing was kept, an error.                *)
Seen == ses.last >= act.seq

Stale == act.do.kind # "navigate" /\ act.do.epoch # ses.epoch

Pressed == [saw |-> act.do.saw, was |-> remote.field, unsure |-> cli.failed /\ ~act.do.submits]

PerformAction ==
  /\ act.at = "sent"
  /\ LET s == [ses EXCEPT !.last = act.seq] IN
     \/ /\ Seen \/ Stale
        /\ act' = [act EXCEPT !.at = "answered"]
        /\ ses' = IF Seen THEN ses ELSE s
        /\ UNCHANGED <<remote, pressed, spent>>
     \/ /\ ~Seen /\ ~Stale
        /\ act' = [act EXCEPT !.at = "captures"]
        /\ \/ act.do.kind = "navigate" /\ remote' = BlankPage /\ ses' = Navigated(s) /\ UNCHANGED <<pressed, spent>>
           \/ /\ act.do.kind = "input"
              /\ remote' = [remote EXCEPT !.field = act.do.text] /\ ses' = [s EXCEPT !.input = act.do.seq]
              /\ UNCHANGED <<pressed, spent>>
           \/ /\ act.do.kind = "key" /\ pressed' = Pressed
              /\ \/ remote' = remote /\ ses' = s /\ UNCHANGED spent
                 \/ Spend("acts", MaxActs) /\ remote' = BlankPage /\ ses' = Navigated(s)
  /\ UNCHANGED <<cap, cli, upd, queue, ren>>

ActionAnswered ==
  /\ act.at = "answered" /\ act' = Idle
  /\ LET ok == ses.result = act.seq IN
     cli' = [cli EXCEPT !.failed = IF act.do.kind = "input" THEN ~ok ELSE @,
                        !.epoch = IF ok /\ act.do.kind = "navigate" THEN ses.epoch ELSE @,
                        !.seq = IF ok /\ act.do.kind = "navigate" THEN 0 ELSE @]
  /\ UNCHANGED <<remote, ses, cap, upd, queue, ren, pressed, spent>>

(* The call, or its answer, is lost: the same number is sent once more,    *)
(* and the repeat may meet the same fault.                                 *)
Lost ==
  /\ act.at \in {"sent", "answered"}
  /\ IF act.tries = 1 THEN Spend("faults", MaxMirrorFaults) ELSE UNCHANGED spent
  /\ IF act.tries = 1
     THEN act' = [act EXCEPT !.at = "sent", !.tries = 2] /\ UNCHANGED cli
     ELSE act' = Idle /\ cli' = [cli EXCEPT !.failed = @ \/ act.do.kind = "input"]
  /\ UNCHANGED <<remote, ses, cap, upd, queue, ren, pressed>>

---------------------------------------------------------------------------
MirrorNext ==
  \/ Script \/ CollectLoop \/ CaptureForAction \/ CaptureForBaseline \/ Commit \/ Overflow
  \/ CaptureMissed \/ Poll \/ Baseline \/ WasBased \/ Updates \/ Apply \/ WasApplied \/ Ack
  \/ Type \/ PressEnter \/ Navigate \/ Take \/ PerformAction \/ ActionAnswered \/ Lost

MirrorSpec == MirrorInit /\ [][MirrorNext]_mirrorVars

(* The session's tasks, the page's timers and what arrives; not the user,  *)
(* the remote script or a fault.                                           *)
MirrorFairSpec ==
  /\ MirrorSpec /\ WF_mirrorVars(CollectLoop) /\ SF_mirrorVars(CaptureForAction) /\ SF_mirrorVars(CaptureForBaseline)
  /\ WF_mirrorVars(Commit) /\ WF_mirrorVars(Poll) /\ WF_mirrorVars(Baseline) /\ WF_mirrorVars(WasBased) /\ WF_mirrorVars(Updates)
  /\ WF_mirrorVars(Apply) /\ WF_mirrorVars(WasApplied) /\ WF_mirrorVars(Ack)
  /\ WF_mirrorVars(Take) /\ WF_mirrorVars(PerformAction) /\ WF_mirrorVars(ActionAnswered)

---------------------------------------------------------------------------
(* Enter acts on the text the field showed when it was pressed: what was   *)
(* typed before it is there, whatever was coalesced, retried or refused on *)
(* the way (browser-lite.js:120, 133).  Only in a field without a form an  *)
(* Enter goes through although the last text was refused or lost.          *)
EnterSeesTyping ==
  pressed # Nothing /\ ~spent.overtaken => pressed.saw = pressed.was \/ pressed.unsure

(* Once the page and the user are quiet, the page is shown as it is, unless *)
(* a capture was missed (browser-lite.js:89-114).                          *)
MirrorCatchesUp ==
  [](~spent.missed) => <>[](ren.text = remote.text /\ ren.epoch = ses.epoch)
=============================================================================
