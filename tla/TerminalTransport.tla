--------------------------- MODULE TerminalTransport ---------------------------
(***************************************************************************)
(* The HTTPS fallback of one browser terminal: ttyd, the manager's relay   *)
(* (server/terminal_transport.py) and the browser's HTTPWebSocket          *)
(* (terminal-http.js), from the moment the browser falls back until both   *)
(* ends have let go.  Output travels as numbered frames the relay retains  *)
(* until the browser acknowledges them; input travels as numbered requests *)
(* the browser repeats until one is answered.  Requests may be lost,       *)
(* answered too late, or reach the manager after the browser gave up on    *)
(* them; the stream may break at any point.                                *)
(*                                                                         *)
(* An output frame is any value; sizes are counted in frames and items.    *)
(* ttyd and the network are external.                                      *)
(***************************************************************************)
EXTENDS Naturals, Sequences

CONSTANTS
  Buffer,       \* MAX_BUFFER: frames the relay retains before it stops reading
  BatchMax,     \* frames in one line of the output stream
  Together,     \* resizes that travel in one request (16)
  PerFrame,     \* keystrokes joined into one input frame
  Pending,      \* bufferedAmount at which the browser gives up (1 MB)
  Retries,      \* repeats of a send or an ack (2)
  Failures,     \* stream failures in a row that are tolerated (2)
  Keys,         \* kinds of single messages the terminal page sends
  Nudges,       \* whether it also sends the claim nudge, a pair of resizes
  MaxOut,       \* bound: frames ttyd produces
  MaxTyped,     \* bound: messages the page sends
  MaxLost,      \* bound: requests or streams the network fails
  None, Timer   \* no request; the 500 ms before an acknowledgement is sent

ASSUME BoundsAreNaturals ==
  /\ {Buffer, BatchMax, Together, PerFrame} \subseteq Nat \ {0}
  /\ {Pending, Retries, Failures, MaxOut, MaxTyped, MaxLost} \subseteq Nat
ASSUME FlagIsBoolean == Nudges \in BOOLEAN

VARIABLES
  ttydOut, eof, ttydIn,                       \* ttyd: written, hung up, read
  relay, sequence, acked, frames, inputSequence,
  state, opening, after, seq, queue, sending, acking, stream, chan, failures,
  delivered, typed,                           \* what the page received and sent
  net, replies, lost

ttyd == <<ttydOut, eof, ttydIn>>
output == <<sequence, acked, frames>>
sender == <<seq, queue, sending>>
receiver == <<after, acking, stream, chan, failures>>
page == <<delivered, typed>>
wire == <<net, replies>>
vars == <<ttyd, relay, output, inputSequence, state, opening, sender, receiver,
          page, wire, lost>>

Registered == relay \notin {"none", "gone"}
Closed == relay \in {"hungup", "broken", "closed"}
MaxOf(a, b) == IF a > b THEN a ELSE b
IsResize(item) == item.kind \in {"resize", "nudge"}

-----------------------------------------------------------------------------
(* Requests.  A request under way remembers how many of its frames the     *)
(* manager has handled; a reply counts only for a request the browser is   *)
(* still waiting for.                                                      *)
Under(req) == [req |-> req, next |-> 1]
Waiting == {opening, sending, acking}

Reply(m, status) ==
  /\ net' = net \ {m}
  /\ replies' = IF m.req \in Waiting
                THEN replies \union {[to |-> m.req, status |-> status]}
                ELSE replies

(* A stream request given up before it was answered may still arrive.      *)
LateStream == IF stream.state = "asked"
              THEN {Under([op |-> "stream", after |-> stream.after])} ELSE {}

(* _finish: everything under way is aborted, on the browser's side only.   *)
Shut(how, more) ==
  /\ state' = how
  /\ queue' = <<>>
  /\ opening' = None /\ sending' = None /\ acking' = None
  /\ stream' = [state |-> "idle", after |-> 0] /\ chan' = <<>>
  /\ replies' = {}
  /\ net' = net \union {Under(r) : r \in more}
                \union LateStream
  /\ UNCHANGED <<seq, failures>>

Fail == Shut("closed", {[op |-> "close"]})

(* _request after a failed attempt: the same request again, or give up.    *)
Again(req) == [req EXCEPT !.try = @ + 1]
Resend(req) ==
  /\ net' = net \union {Under(Again(req))}
  /\ replies' = {r \in replies : r.to # req}

-----------------------------------------------------------------------------
Init ==
  /\ ttydOut = <<>> /\ eof = FALSE /\ ttydIn = <<>>
  /\ relay = "none" /\ sequence = 0 /\ acked = 0 /\ frames = <<>>
  /\ inputSequence = 0
  /\ state = "connecting" /\ opening = [op |-> "open", try |-> 0]
  /\ after = 0 /\ seq = 0 /\ queue = <<>> /\ sending = None /\ acking = None
  /\ stream = [state |-> "idle", after |-> 0] /\ chan = <<>> /\ failures = 0
  /\ delivered = <<>> /\ typed = <<>>
  /\ net = {Under([op |-> "open", try |-> 0])} /\ replies = {} /\ lost = 0

(* ttyd.                                                                   *)
Produce ==
  /\ relay # "none" /\ ~eof /\ Len(ttydOut) < MaxOut
  /\ ttydOut' = Append(ttydOut, Len(ttydOut) + 1)
  /\ UNCHANGED <<eof, ttydIn, relay, output, inputSequence, state, opening,
                 sender, receiver, page, wire, lost>>

Hangup ==
  /\ relay # "none" /\ ~eof /\ eof' = TRUE
  /\ UNCHANGED <<ttydOut, ttydIn, relay, output, inputSequence, state, opening,
                 sender, receiver, page, wire, lost>>

-----------------------------------------------------------------------------
(* The relay's reader: it stops reading rather than grow without bound.    *)
HasSpace == sequence - acked < Buffer

ReadFrame ==
  /\ relay = "open" /\ sequence < Len(ttydOut) /\ HasSpace
  /\ sequence' = sequence + 1
  /\ frames' = [k \in DOMAIN frames \union {sequence + 1} |->
                  IF k = sequence + 1 THEN ttydOut[k] ELSE frames[k]]
  /\ UNCHANGED <<ttyd, relay, acked, inputSequence, state, opening, sender,
                 receiver, page, wire, lost>>

ReadEnd ==
  /\ relay = "open" /\ eof /\ sequence = Len(ttydOut)
  /\ relay' = "hungup"
  /\ UNCHANGED <<ttyd, output, inputSequence, state, opening, sender, receiver,
                 page, wire, lost>>

(* poll: release what is acknowledged, answer what lies past the cursor.   *)
AcknowledgeNothingFreed(a) == UNCHANGED <<acked, frames, sequence>>    \* a bug

Acknowledge(a) ==
  /\ acked' = a
  /\ frames' = [k \in {j \in DOMAIN frames : j > a} |-> frames[k]]
  /\ UNCHANGED sequence

BatchEnd(a) == IF sequence - a > BatchMax THEN a + BatchMax ELSE sequence

BatchAfterHasty(a) ==                                                  \* a bug
  [lo |-> a, hi |-> BatchEnd(a),
   frames |-> [k \in {j \in DOMAIN frames : a < j /\ j <= BatchEnd(a)} |-> frames[k]],
   closed |-> Closed]

BatchAfter(a) ==
  [lo |-> a, hi |-> BatchEnd(a),
   frames |-> [k \in {j \in DOMAIN frames : a < j /\ j <= BatchEnd(a)} |-> frames[k]],
   closed |-> Closed /\ BatchEnd(a) = sequence]

Acknowledgeable(a) == acked <= a /\ a <= sequence

(* The ack handler: an acknowledgement overtaken by a later one is raised. *)
AckTargetAll(a) == sequence                                            \* a bug
AckTarget(a) == MaxOf(a, acked)

-----------------------------------------------------------------------------
(* The manager's handler, one request at a time and one input frame at a   *)
(* time, in any order.  A second `open` of a known id finds its relay.     *)
ServeOpen(m) ==
  /\ m.req.op = "open" /\ relay # "gone"
  /\ \/ /\ relay' = IF relay = "none" THEN "open" ELSE relay
        /\ Reply(m, "ok")
     \/ relay = "none" /\ Reply(m, "full") /\ UNCHANGED relay
  /\ UNCHANGED <<ttyd, output, inputSequence, state, opening, sender, receiver,
                 page, lost>>

Advance(m) ==
  IF m.next = Len(m.req.frames)
  THEN Reply(m, "ok")
  ELSE /\ net' = (net \ {m}) \union {[m EXCEPT !.next = @ + 1]}
       /\ UNCHANGED replies

Number(m) == m.req.seq + m.next - 1
Applied(m) == Number(m) <= inputSequence
IsNext(m) == Number(m) = inputSequence + 1

SkipInput(m) ==
  /\ m.req.op = "send" /\ Registered /\ Applied(m)
  /\ Advance(m)
  /\ UNCHANGED <<ttyd, relay, output, inputSequence, state, opening, sender,
                 receiver, page, lost>>

WriteInput(m) ==
  /\ m.req.op = "send" /\ relay = "open" /\ IsNext(m)
  /\ ttydIn' = ttydIn \o m.req.frames[m.next]
  /\ inputSequence' = Number(m)
  /\ Advance(m)
  /\ UNCHANGED <<ttydOut, eof, relay, output, state, opening, sender, receiver,
                 page, lost>>

(* A failed write may or may not have reached ttyd: the relay closes, so   *)
(* the frame can never be written again.                                   *)
AfterBreakOpen == "open"                                               \* a bug
AfterBreak == "broken"
BreakInput(m) ==
  /\ m.req.op = "send" /\ relay = "open" /\ IsNext(m)
  /\ ttydIn' \in {ttydIn, ttydIn \o m.req.frames[m.next]}
  /\ relay' = AfterBreak
  /\ Reply(m, "closed")
  /\ UNCHANGED <<ttydOut, eof, output, inputSequence, state, opening, sender,
                 receiver, page, lost>>

RefuseInput(m) ==
  /\ m.req.op = "send"
  /\ \/ ~Registered /\ Reply(m, "expired")
     \/ Registered /\ ~Applied(m) /\ ~IsNext(m) /\ Reply(m, "gap")
     \/ Closed /\ IsNext(m) /\ Reply(m, "closed")
  /\ UNCHANGED <<ttyd, relay, output, inputSequence, state, opening, sender,
                 receiver, page, lost>>

ServeAck(m) ==
  /\ m.req.op = "ack"
  /\ \/ ~Registered /\ Reply(m, "expired") /\ UNCHANGED output
     \/ Registered /\ m.req.after > sequence /\ Reply(m, "gap") /\ UNCHANGED output
     \/ /\ Registered /\ m.req.after <= sequence
        /\ IF Acknowledgeable(AckTarget(m.req.after))
           THEN Acknowledge(AckTarget(m.req.after)) /\ Reply(m, "ok")
           ELSE Reply(m, "gap") /\ UNCHANGED output
  /\ UNCHANGED <<ttyd, relay, inputSequence, state, opening, sender, receiver,
                 page, lost>>

ServeClose(m) ==
  /\ m.req.op = "close"
  /\ relay' = IF relay = "open" THEN "closed" ELSE relay
  /\ net' = net \ {m}
  /\ UNCHANGED <<ttyd, output, inputSequence, state, opening, sender, receiver,
                 page, replies, lost>>

(* A stream request the browser has given up on still acknowledges.        *)
ServeLateStream(m) ==
  /\ m.req.op = "stream"
  /\ IF Registered /\ Acknowledgeable(m.req.after)
     THEN Acknowledge(m.req.after) ELSE UNCHANGED output
  /\ net' = net \ {m}
  /\ UNCHANGED <<ttyd, relay, inputSequence, state, opening, sender, receiver,
                 page, replies, lost>>

Serve(m) ==
  \/ ServeOpen(m) \/ SkipInput(m) \/ WriteInput(m) \/ BreakInput(m)
  \/ RefuseInput(m) \/ ServeAck(m) \/ ServeClose(m) \/ ServeLateStream(m)

(* stream_output: the first batch acknowledges, the following ones do not. *)
CursorAhead(b) == b.hi + 1                                             \* a bug
Cursor(b) == b.hi

ServeStream ==
  /\ stream.state = "asked"
  /\ IF Registered /\ Acknowledgeable(stream.after)
     THEN LET b == BatchAfter(stream.after) IN
          /\ Acknowledge(stream.after)
          /\ chan' = <<b>>
          /\ stream' = [state |-> IF b.closed THEN "ended" ELSE "live",
                        after |-> Cursor(b)]
     ELSE /\ stream' = [stream EXCEPT !.state = IF Registered THEN "gap" ELSE "expired"]
          /\ UNCHANGED <<output, chan>>
  /\ UNCHANGED <<ttyd, relay, inputSequence, state, opening, sender, after,
                 acking, failures, page, wire, lost>>

StreamMore ==
  /\ stream.state = "live"
  /\ sequence > stream.after \/ Closed
  /\ IF Acknowledgeable(stream.after)
     THEN LET b == BatchAfter(stream.after) IN
          /\ chan' = Append(chan, b)
          /\ stream' = [state |-> IF b.closed THEN "ended" ELSE "live",
                        after |-> Cursor(b)]
     ELSE stream' = [stream EXCEPT !.state = "ended"] /\ UNCHANGED chan
  /\ UNCHANGED <<ttyd, relay, output, inputSequence, state, opening, sender,
                 after, acking, failures, page, wire, lost>>

StreamDeadline ==
  /\ stream.state = "live"
  /\ stream' = [stream EXCEPT !.state = "ended"]
  /\ UNCHANGED <<ttyd, relay, output, inputSequence, state, opening, sender,
                 after, acking, chan, failures, page, wire, lost>>

(* The registry's reaper: nothing has touched the relay for 90 seconds. A  *)
(* stream touches it every eight seconds and opening gives up after 31.    *)
ExpireClosed ==                                                        \* a bug
  /\ Closed /\ stream.state # "live" /\ opening = None
  /\ relay' = "gone"
  /\ UNCHANGED <<ttyd, output, inputSequence, state, opening, sender, receiver,
                 page, wire, lost>>

Expire ==
  /\ Registered /\ stream.state # "live" /\ opening = None
  /\ relay' = "gone"
  /\ UNCHANGED <<ttyd, output, inputSequence, state, opening, sender, receiver,
                 page, wire, lost>>

-----------------------------------------------------------------------------
(* The browser: opening.                                                   *)
Opened ==
  /\ state = "connecting"
  /\ \E r \in replies :
       /\ r.to = opening
       /\ IF r.status = "ok"
          THEN /\ state' = "open" /\ opening' = None
               /\ replies' = replies \ {r}
               /\ UNCHANGED <<sender, acking, stream, chan, failures, net>>
          ELSE Fail
  /\ UNCHANGED <<ttyd, relay, output, inputSequence, after, page, lost>>

OpenLost ==
  /\ state = "connecting" /\ lost < MaxLost
  /\ lost' = lost + 1
  /\ IF opening.try < 1
     THEN /\ opening' = Again(opening) /\ Resend(opening)
          /\ UNCHANGED <<state, sender, acking, stream, chan, failures>>
     ELSE Fail
  /\ UNCHANGED <<ttyd, relay, output, inputSequence, after, page>>

(* Input.  _flush takes from the queue what travels in one request: a run  *)
(* of resizes as frames of their own, a run of keystrokes as one frame.    *)
IsKey(item) == item.kind = "key"
Joins(a, b) == (IsResize(a) /\ IsResize(b)) \/ (IsKey(a) /\ IsKey(b))

Runs(q) ==
  {n \in 1 .. Len(q) :
     /\ n <= IF IsResize(q[1]) THEN Together ELSE PerFrame
     /\ \A i \in 2 .. n : Joins(q[1], q[i])}

Taken(q) == CHOOSE n \in Runs(q) : \A m \in Runs(q) : m <= n

FramesOf(q) ==
  IF IsResize(q[1]) THEN [i \in 1 .. Taken(q) |-> <<q[i]>>]
                    ELSE <<SubSeq(q, 1, Taken(q))>>

SendRequest(q) ==
  [op |-> "send", seq |-> seq + 1, frames |-> FramesOf(q), try |-> 0]

(* The next request of what is queued, if anything is.                     *)
Flush(q) ==
  IF q = <<>>
  THEN queue' = q /\ sending' = None /\ UNCHANGED <<seq, net>>
  ELSE /\ queue' = SubSeq(q, Taken(q) + 1, Len(q))
       /\ sending' = SendRequest(q)
       /\ seq' = seq + Len(FramesOf(q))
       /\ net' = net \union {Under(SendRequest(q))}

InFlight ==
  IF sending = None THEN 0
  ELSE IF Len(sending.frames) > 1 THEN Len(sending.frames)
  ELSE Len(sending.frames[1])
Buffered == Len(queue) + InFlight

Item(kind, i) == [kind |-> kind, n |-> i]

(* send, for what the page sends in one turn: a key leaves at once, a      *)
(* resize in the microtask that follows (FlushResizes); either waits while *)
(* a request is under way.                                                 *)
Send(items, waits) ==
  /\ state = "open" /\ Len(typed) + Len(items) <= MaxTyped
  /\ sending = None => queue = <<>>
  /\ IF Buffered + Len(items) > Pending
     THEN Fail /\ UNCHANGED typed
     ELSE /\ typed' = typed \o items
          /\ IF waits \/ sending # None
             THEN queue' = queue \o items /\ UNCHANGED <<seq, sending, net>>
             ELSE Flush(queue \o items)
          /\ UNCHANGED <<state, opening, acking, stream, chan, failures, replies>>
  /\ UNCHANGED <<ttyd, relay, output, inputSequence, after, delivered, lost>>

Type(kind) == Send(<<Item(kind, Len(typed) + 1)>>, kind = "resize")

(* The claim nudge: two resizes in one turn, the first one column short.   *)
Nudge ==
  /\ Nudges
  /\ Send(<<Item("nudge", Len(typed) + 1), Item("resize", Len(typed) + 2)>>, TRUE)

FlushResizes ==
  /\ state = "open" /\ sending = None /\ queue # <<>>
  /\ Flush(queue)
  /\ UNCHANGED <<ttyd, relay, output, inputSequence, state, opening, receiver,
                 page, replies, lost>>

Sent ==
  /\ \E r \in replies :
       /\ r.to = sending
       /\ IF r.status = "ok"
          THEN /\ Flush(queue) /\ replies' = replies \ {r}
               /\ UNCHANGED <<state, opening, acking, stream, chan, failures>>
          ELSE Fail
  /\ UNCHANGED <<ttyd, relay, output, inputSequence, after, page, lost>>

SendLost ==
  /\ sending # None /\ lost < MaxLost
  /\ lost' = lost + 1
  /\ IF sending.try < Retries
     THEN /\ sending' = Again(sending) /\ Resend(sending)
          /\ UNCHANGED <<state, opening, seq, queue, acking, stream, chan, failures>>
     ELSE Fail
  /\ UNCHANGED <<ttyd, relay, output, inputSequence, after, page>>

-----------------------------------------------------------------------------
(* Output.  _poll asks for a stream from the cursor, again and again.      *)
AskStream ==
  /\ state = "open" /\ stream.state = "idle"
  /\ stream' = [state |-> "asked", after |-> after]
  /\ UNCHANGED <<ttyd, relay, output, inputSequence, state, opening, sender,
                 after, acking, chan, failures, page, wire, lost>>

StreamDone ==
  /\ state = "open" /\ stream.state = "ended" /\ chan = <<>>
  /\ stream' = [state |-> "idle", after |-> 0]
  /\ UNCHANGED <<ttyd, relay, output, inputSequence, state, opening, sender,
                 after, acking, chan, failures, page, wire, lost>>

StreamRefused ==
  /\ stream.state \in {"gap", "expired"}
  /\ Fail
  /\ UNCHANGED <<ttyd, relay, output, inputSequence, after, page, lost>>

StreamLost ==
  /\ stream.state # "idle" /\ lost < MaxLost
  /\ lost' = lost + 1
  /\ IF failures < Failures
     THEN /\ stream' = [state |-> "idle", after |-> 0] /\ chan' = <<>>
          /\ failures' = failures + 1 /\ net' = net \union LateStream
          /\ UNCHANGED <<state, opening, sender, acking, replies>>
     ELSE Fail
  /\ UNCHANGED <<ttyd, relay, output, inputSequence, after, page>>

(* _deliver: frames up to the cursor were seen before and are skipped.     *)
Fresh(b) == MaxOf(b.lo, after)

Deliver ==
  /\ state = "open" /\ chan # <<>>
  /\ LET b == Head(chan) IN
     /\ delivered' = delivered \o [i \in 1 .. b.hi - Fresh(b) |->
                                     b.frames[Fresh(b) + i]]
     /\ after' = MaxOf(b.hi, after)
     /\ IF b.closed
        THEN Shut("finished", {})
        ELSE /\ chan' = Tail(chan) /\ failures' = 0
             /\ acking' = IF b.hi > b.lo /\ acking = None
                          THEN Timer ELSE acking
             /\ UNCHANGED <<state, opening, sender, stream, wire>>
  /\ UNCHANGED <<ttyd, relay, output, inputSequence, typed, lost>>

Ack ==
  /\ acking = Timer
  /\ acking' = [op |-> "ack", after |-> after, try |-> 0]
  /\ net' = net \union {Under([op |-> "ack", after |-> after, try |-> 0])}
  /\ UNCHANGED <<ttyd, relay, output, inputSequence, state, opening, sender,
                 after, stream, chan, failures, page, replies, lost>>

Acked ==
  /\ \E r \in replies :
       /\ r.to = acking
       /\ IF r.status = "ok"
          THEN /\ acking' = IF after > acking.after THEN Timer ELSE None
               /\ replies' = replies \ {r}
               /\ UNCHANGED <<state, opening, sender, stream, chan, failures, net>>
          ELSE Fail
  /\ UNCHANGED <<ttyd, relay, output, inputSequence, after, page, lost>>

AckLost ==
  /\ acking \notin {None, Timer} /\ lost < MaxLost
  /\ lost' = lost + 1
  /\ IF acking.try < Retries
     THEN /\ acking' = Again(acking) /\ Resend(acking)
          /\ UNCHANGED <<state, opening, sender, stream, chan, failures>>
     ELSE Fail
  /\ UNCHANGED <<ttyd, relay, output, inputSequence, after, page>>

(* The page goes away or the terminal reconnects.                          *)
Close ==
  /\ state \in {"connecting", "open"}
  /\ Fail
  /\ UNCHANGED <<ttyd, relay, output, inputSequence, after, page, lost>>

Next ==
  \/ Produce \/ Hangup \/ ReadFrame \/ ReadEnd
  \/ \E m \in net : Serve(m)
  \/ ServeStream \/ StreamMore \/ StreamDeadline \/ Expire
  \/ Opened \/ OpenLost
  \/ (\E kind \in Keys : Type(kind)) \/ Nudge \/ FlushResizes \/ Sent \/ SendLost
  \/ AskStream \/ StreamDone \/ StreamRefused \/ StreamLost \/ Deliver
  \/ Ack \/ Acked \/ AckLost \/ Close

Spec == Init /\ [][Next]_vars

-----------------------------------------------------------------------------
(* Fairness: the relay's reader thread, the request handlers and the       *)
(* browser's callbacks all run eventually once they can; the stream's ten  *)
(* second deadline and the reaper's sweep come round.  What may never      *)
(* happen again: output, input, a hang-up, a loss (bounded by MaxLost), a  *)
(* page that closes, a request nobody waits for.                           *)
ServeWaiting == \E m \in net : m.req \in Waiting /\ Serve(m)
ExpireUnused == state \in {"closed", "finished"} /\ Expire

FairSpec ==
  /\ Spec
  /\ WF_vars(ReadFrame) /\ WF_vars(ReadEnd)
  /\ WF_vars(ServeWaiting) /\ WF_vars(ExpireUnused)
  /\ WF_vars(ServeStream) /\ WF_vars(StreamMore) /\ WF_vars(StreamDeadline)
  /\ WF_vars(Opened) /\ WF_vars(Sent) /\ WF_vars(FlushResizes)
  /\ WF_vars(AskStream) /\ WF_vars(StreamDone) /\ WF_vars(StreamRefused)
  /\ WF_vars(Deliver) /\ WF_vars(Ack) /\ WF_vars(Acked)

-----------------------------------------------------------------------------
(* The shapes of all variables: counters, the retained frames, requests.   *)
OutputItem == Nat
InputItem == [kind : STRING, n : Nat]
Requests ==
  [op : {"open"}, try : Nat]
  \union [op : {"send"}, seq : Nat, frames : Seq(Seq(InputItem)), try : Nat]
  \union [op : {"ack"}, after : Nat, try : Nat]
  \union [op : {"stream"}, after : Nat]
  \union [op : {"close"}]

TypeOK ==
  /\ ttydOut \in Seq(OutputItem) /\ eof \in BOOLEAN /\ ttydIn \in Seq(InputItem)
  /\ relay \in {"none", "open", "hungup", "broken", "closed", "gone"}
  /\ sequence \in Nat /\ acked \in Nat /\ inputSequence \in Nat
  /\ DOMAIN frames \subseteq 1 .. sequence
  /\ \A k \in DOMAIN frames : frames[k] \in OutputItem
  /\ state \in {"connecting", "open", "closed", "finished"}
  /\ {opening, sending, acking} \subseteq Requests \union {None, Timer}
  /\ after \in Nat /\ seq \in Nat /\ queue \in Seq(InputItem)
  /\ stream.state \in {"idle", "asked", "live", "ended", "gap", "expired"}
  /\ stream.after \in Nat /\ failures \in Nat /\ lost \in Nat
  /\ \A i \in DOMAIN chan : {chan[i].lo, chan[i].hi} \subseteq Nat /\ chan[i].closed \in BOOLEAN
  /\ delivered \in Seq(OutputItem) /\ typed \in Seq(InputItem)
  /\ \A m \in net : m.req \in Requests /\ m.next \in Nat
  /\ \A r \in replies : r.to \in Requests

(* What the page has not received yet, the relay still has: an             *)
(* acknowledgement, late, repeated or overtaken, never releases more than  *)
(* the browser delivered, and nothing that was released is counted as held *)
(* (poll, the ack handler and the browser's cursor).                       *)
HoldsUndelivered ==
  state = "open" =>
    /\ acked <= after /\ after <= sequence
    /\ DOMAIN frames = acked + 1 .. sequence

(* A browser that plays by the protocol is never told it is out of step    *)
(* (409): not for an input sequence with a gap, not for a cursor the relay *)
(* no longer or not yet knows, whatever was retried or overtaken.          *)
NeverOutOfStep ==
  /\ stream.state # "gap"
  /\ \A r \in replies : r.status # "gap"

(* A clean close (code 1000) comes after everything: the page then has all *)
(* that the relay read, and all that ttyd wrote if ttyd hung up.           *)
FinishedHasAll ==
  state = "finished" =>
    /\ Len(delivered) = sequence
    /\ relay = "hungup" => delivered = ttydOut

(* Output and input each behave as a channel: in order, nothing twice,     *)
(* nothing left out, across lost replies, retries, broken streams, late    *)
(* requests and failed writes.                                             *)
Out == INSTANCE Channel WITH sent <- ttydOut, received <- delivered
In == INSTANCE Channel WITH sent <- typed, received <- ttydIn
OutputIsChannel == Out!Spec
InputIsChannel == In!Spec

(* Input arrives as over a channel, and no copy of a request, however late *)
(* or repeated, makes either end give the connection up as out of step.    *)
InputIsExact == InputIsChannel /\ []NeverOutOfStep

(* What ttyd wrote reaches the page unless the connection ends, also with  *)
(* the reader held back by a full buffer (poll, stream_output, the ack).   *)
OutputArrives ==
  \A n \in 1 .. MaxOut :
    Len(ttydOut) >= n ~> (Len(delivered) >= n \/ state \in {"closed", "finished"})

(* What the page sent reaches ttyd unless the connection ends.             *)
InputArrives ==
  \A n \in 1 .. MaxTyped :
    Len(typed) >= n ~> (Len(ttydIn) >= n \/ state \in {"closed", "finished"})

(* Neither direction waits for the other, or for an acknowledgement that   *)
(* was lost.                                                               *)
DirectionsArrive == OutputArrives /\ InputArrives

(* A browser that is gone never pins a terminal connection: even if its    *)
(* close request is lost, or its open request arrives after it.            *)
RelayReleased == state \in {"closed", "finished"} ~> relay # "open"

=============================================================================
