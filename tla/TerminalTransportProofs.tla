----------------------- MODULE TerminalTransportProofs -----------------------
(***************************************************************************)
(* The output direction of TerminalTransport, for all buffers, batches,    *)
(* retries and losses: the page receives what ttyd wrote as over a         *)
(* channel, the relay holds all the page still misses, and a clean close   *)
(* comes after everything.                                                 *)
(***************************************************************************)
EXTENDS TerminalTransport, WellFoundedInduction, SequenceTheorems, TLAPS

(* The relay retains exactly the frames past the acknowledged one, as ttyd *)
(* wrote them.                                                             *)
Retained ==
  /\ ttydOut \in Seq(OutputItem)
  /\ sequence \in Nat /\ sequence <= Len(ttydOut)
  /\ acked \in Nat /\ acked <= sequence
  /\ DOMAIN frames = acked + 1 .. sequence
  /\ \A k \in acked + 1 .. sequence : frames[k] = ttydOut[k]

(* The page has received the first `after` of them, at least those that    *)
(* were acknowledged.                                                      *)
Received ==
  /\ after \in Nat /\ acked <= after /\ after <= sequence
  /\ delivered \in Seq(OutputItem) /\ Len(delivered) = after
  /\ \A i \in 1 .. after : delivered[i] = ttydOut[i]

Batches == [lo : Nat, hi : Nat, frames : UNION {[D -> Nat] : D \in SUBSET Nat},
            closed : BOOLEAN]

IsBatch(b) ==
  /\ b.lo \in Nat /\ b.hi \in Nat /\ b.lo <= b.hi /\ b.hi <= sequence
  /\ \A k \in b.lo + 1 .. b.hi : b.frames[k] = ttydOut[k]
  /\ b.closed => relay \notin {"none", "open"} /\ b.hi = sequence

(* The batches on the way continue one another, the first one where the    *)
(* page stands and the stream's cursor where the last one ends.            *)
Chained ==
  /\ chan \in Seq(Batches)
  /\ \A i \in 1 .. Len(chan) : IsBatch(chan[i])
  /\ \A i \in 2 .. Len(chan) : chan[i].lo = chan[i - 1].hi
  /\ chan # <<>> => chan[1].lo = after
  /\ stream = [state |-> stream.state, after |-> stream.after]
  /\ stream.state = "asked" => chan = <<>> /\ stream.after = after
  /\ stream.state = "live" =>
       stream.after = IF chan = <<>> THEN after ELSE chan[Len(chan)].hi
  /\ stream.state \notin {"live", "ended"} => chan = <<>>

(* Nothing is read any more once the relay is closed.                      *)
Ended ==
  /\ relay = "hungup" => eof /\ sequence = Len(ttydOut)
  /\ state = "finished" => relay \notin {"none", "open"} /\ after = sequence

(* No acknowledgement on the way is ahead of the page.                     *)
Acks ==
  /\ state = "connecting" => \E t \in Nat : opening = [op |-> "open", try |-> t]
  /\ sending # None => \E n, fs, t : sending = [op |-> "send", seq |-> n, frames |-> fs, try |-> t]
  /\ acking \notin {None, Timer} =>
       \E a \in Nat : \E t : a <= after /\ acking = [op |-> "ack", after |-> a, try |-> t]
  /\ \A m \in net :
       /\ m = [req |-> m.req, next |-> m.next]
       /\ m.req.op \in {"ack", "stream"} => m.req.after \in Nat /\ m.req.after <= after

Inv == Retained /\ Received /\ Chained /\ Ended /\ Acks

-----------------------------------------------------------------------------
(* What a step does to the frames the relay has read and holds.            *)
LEMMA OutputMoves ==
  ASSUME Inv, Next
  PROVE  \/ Produce \/ ReadFrame
         \/ /\ \E a \in Nat : acked <= a /\ a <= after /\ Acknowledge(a)
            /\ UNCHANGED <<ttydOut, after, delivered>>
         \/ UNCHANGED <<ttydOut, output>>
<1> USE DEF Inv, Retained, Received, output, ttyd, page, receiver
<1>1. ASSUME NEW m \in net, ServeAck(m)
      PROVE  \/ \E a \in Nat : acked <= a /\ a <= after /\ Acknowledge(a)
             \/ UNCHANGED output
  BY <1>1 DEF ServeAck, Acks, Acknowledgeable, AckTarget, MaxOf
<1>2. ASSUME NEW m \in net, ServeLateStream(m)
      PROVE  \/ \E a \in Nat : acked <= a /\ a <= after /\ Acknowledge(a)
             \/ UNCHANGED output
  BY <1>2 DEF ServeLateStream, Acks, Acknowledgeable
<1>3. ASSUME ServeStream
      PROVE  \/ \E a \in Nat : acked <= a /\ a <= after /\ Acknowledge(a)
             \/ UNCHANGED output
  BY <1>3 DEF ServeStream, Chained, Acknowledgeable
<1>4. ASSUME NEW m \in net, Serve(m)
      PROVE  \/ /\ \E a \in Nat : acked <= a /\ a <= after /\ Acknowledge(a)
                /\ UNCHANGED <<ttydOut, after, delivered>>
             \/ UNCHANGED <<ttydOut, output>>
  <2>1. CASE ServeAck(m)  BY <1>1, <2>1 DEF ServeAck
  <2>2. CASE ServeLateStream(m)  BY <1>2, <2>2 DEF ServeLateStream
  <2>3. CASE ServeOpen(m) \/ SkipInput(m) \/ WriteInput(m) \/ BreakInput(m)
             \/ RefuseInput(m) \/ ServeClose(m)
    BY <2>3 DEF ServeOpen, SkipInput, WriteInput, BreakInput, RefuseInput, ServeClose
  <2> QED  BY <1>4, <2>1, <2>2, <2>3 DEF Serve
<1>5. CASE ServeStream
  BY <1>3, <1>5 DEF ServeStream
<1>6. CASE Hangup \/ ReadEnd \/ StreamMore \/ StreamDeadline \/ Expire \/ Opened
           \/ OpenLost \/ FlushResizes \/ Sent \/ SendLost \/ AskStream \/ StreamDone
           \/ StreamRefused \/ StreamLost \/ Deliver \/ Ack \/ Acked \/ AckLost \/ Close
  BY <1>6 DEF Hangup, ReadEnd, StreamMore, StreamDeadline, Expire, Opened,
     OpenLost, FlushResizes, Sent, SendLost, AskStream, StreamDone,
     StreamRefused, StreamLost, Deliver, Ack, Acked, AckLost, Close
<1>7. CASE (\E kind \in Keys : Type(kind)) \/ Nudge
  BY <1>7 DEF Type, Nudge, Send
<1> QED  BY <1>4, <1>5, <1>6, <1>7 DEF Next

(* What a step does to the page's cursor.                                  *)
LEMMA CursorMoves ==
  ASSUME Next
  PROVE  Deliver \/ UNCHANGED <<after, delivered>>
<1> USE DEF page, receiver
<1>1. CASE \E m \in net : Serve(m)
  BY <1>1 DEF Serve, ServeOpen, SkipInput, WriteInput, BreakInput, RefuseInput,
     ServeClose, ServeAck, ServeLateStream
<1>2. CASE Produce \/ ReadFrame \/ ServeStream \/ Hangup \/ ReadEnd \/ StreamMore
           \/ StreamDeadline \/ Expire \/ Opened \/ OpenLost \/ FlushResizes \/ Sent
           \/ SendLost \/ AskStream \/ StreamDone \/ StreamRefused \/ StreamLost
           \/ Ack \/ Acked \/ AckLost \/ Close
  BY <1>2 DEF Produce, ReadFrame, ServeStream, Hangup, ReadEnd, StreamMore,
     StreamDeadline, Expire, Opened, OpenLost, FlushResizes, Sent, SendLost,
     AskStream, StreamDone, StreamRefused, StreamLost, Ack, Acked, AckLost, Close
<1>3. CASE (\E kind \in Keys : Type(kind)) \/ Nudge
  BY <1>3 DEF Type, Nudge, Send
<1> QED  BY <1>1, <1>2, <1>3 DEF Next

(* Every step keeps the relay's frames.                                     *)
LEMMA RetainedStep == ASSUME Inv, Next PROVE Retained'
<1> USE DEF Inv, Retained, OutputItem
<1>1. CASE Produce
  BY <1>1 DEF Produce, output
<1>2. CASE ReadFrame
  BY <1>2 DEF ReadFrame, ttyd
<1>3. CASE UNCHANGED <<ttydOut, output>>
  BY <1>3 DEF output
<1>4. ASSUME NEW a \in Nat, acked <= a, a <= after, Acknowledge(a), UNCHANGED ttydOut
      PROVE  Retained'
  BY <1>4 DEF Acknowledge, Received
<1> QED  BY <1>1, <1>2, <1>3, <1>4, OutputMoves

-----------------------------------------------------------------------------
(* What ttyd wrote and the relay read only grows, and stays as it was.     *)
LEMMA Grows ==
  ASSUME Inv, Next
  PROVE  /\ sequence <= sequence'
         /\ \A k \in 1 .. sequence : ttydOut'[k] = ttydOut[k]
<1> USE DEF Inv, Retained, OutputItem
<1>1. CASE Produce
  BY <1>1 DEF Produce, output
<1>2. CASE ReadFrame
  BY <1>2 DEF ReadFrame, ttyd
<1>3. CASE UNCHANGED <<ttydOut, output>>
  BY <1>3 DEF output
<1>4. ASSUME NEW a \in Nat, Acknowledge(a), UNCHANGED ttydOut
      PROVE  sequence <= sequence' /\ \A k \in 1 .. sequence : ttydOut'[k] = ttydOut[k]
  BY <1>4 DEF Acknowledge
<1> QED  BY <1>1, <1>2, <1>3, <1>4, OutputMoves

(* Delivering a batch extends what was received to the batch's end.        *)
LEMMA DeliverReceives ==
  ASSUME Inv, Deliver
  PROVE  /\ Head(chan) = chan[1] /\ IsBatch(chan[1]) /\ chan[1].lo = after
         /\ after' = chan[1].hi /\ UNCHANGED <<ttydOut, output>>
         /\ delivered' \in Seq(OutputItem) /\ Len(delivered') = after'
         /\ \A i \in 1 .. after' : delivered'[i] = ttydOut[i]
<1> DEFINE b == chan[1]
           new == [i \in 1 .. b.hi - after |-> b.frames[after + i]]
<1>1. chan \in Seq(Batches) /\ chan # <<>>
  BY DEF Inv, Chained, Deliver
<1>2. Head(chan) = b /\ 1 \in 1 .. Len(chan)
  BY <1>1
<1>3. IsBatch(b) /\ b.lo = after
  BY <1>1, <1>2 DEF Inv, Chained
<1> HIDE DEF b
<1>4. b.hi \in Nat /\ after \in Nat /\ after <= b.hi /\ b.hi <= sequence
  BY <1>3 DEF IsBatch, Inv, Received
<1>5. MaxOf(b.lo, after) = after /\ MaxOf(b.hi, after) = b.hi
  BY <1>3, <1>4 DEF MaxOf
<1>6. delivered' = delivered \o new /\ after' = b.hi /\ UNCHANGED <<ttydOut, output>>
  BY <1>2, <1>5 DEF Deliver, Fresh, ttyd
<1>7. \A i \in 1 .. b.hi - after : new[i] = ttydOut[after + i] /\ new[i] \in OutputItem
  <2> TAKE i \in 1 .. b.hi - after
  <2>1. after + i \in b.lo + 1 .. b.hi /\ after + i \in 1 .. Len(ttydOut)
    BY <1>3, <1>4 DEF Inv, Retained
  <2> QED  BY <2>1, <1>3 DEF IsBatch, Inv, Retained
<1>8. new \in Seq(OutputItem) /\ Len(new) = b.hi - after
  <2>1. b.hi - after \in Nat
    BY <1>4
  <2>2. new \in [1 .. b.hi - after -> OutputItem]
    BY <1>7
  <2> HIDE DEF new
  <2> QED  BY <2>1, <2>2
<1> HIDE DEF new
<1>9. delivered \in Seq(OutputItem) /\ Len(delivered) = after
  BY DEF Inv, Received
<1>10. delivered' \in Seq(OutputItem) /\ Len(delivered') = b.hi
  <2>1. delivered \o new \in Seq(OutputItem)
    BY <1>8, <1>9
  <2>2. Len(delivered \o new) = Len(delivered) + Len(new)
    BY <1>8, <1>9
  <2>3. after + (b.hi - after) = b.hi
    BY <1>4
  <2> QED  BY <2>1, <2>2, <2>3, <1>6, <1>8, <1>9
<1>11. \A i \in 1 .. b.hi : delivered'[i] = ttydOut[i]
  <2> TAKE i \in 1 .. b.hi
  <2>1. CASE i <= after
    <3>1. i \in 1 .. Len(delivered)
      BY <1>4, <1>9, <2>1
    <3>2. (delivered \o new)[i] = delivered[i]
      BY <1>8, <1>9, <3>1
    <3>3. delivered[i] = ttydOut[i]
      BY <1>9, <3>1 DEF Inv, Received
    <3> QED  BY <3>2, <3>3, <1>6
  <2>2. CASE i > after
    <3>1. i - after \in 1 .. b.hi - after /\ after + (i - after) = i
      BY <1>4, <2>2
    <3>2. delivered'[i] = new[i - after]
      <4>1. i \in Len(delivered) + 1 .. Len(delivered) + Len(new) /\ i - Len(delivered) = i - after
        BY <1>4, <1>8, <1>9, <2>2
      <4>2. (delivered \o new)[i] = new[i - Len(delivered)]
        BY <1>8, <1>9, <4>1
      <4> QED BY <1>6, <4>1, <4>2
    <3>3. new[i - after] = ttydOut[after + (i - after)]
      BY <1>7, <3>1
    <3> QED  BY <3>1, <3>2, <3>3
  <2> QED  BY <2>1, <2>2, <1>4
<1> QED  BY <1>2, <1>3, <1>6, <1>10, <1>11 DEF b

(* Every step keeps what the page has received.                            *)
LEMMA ReceivedStep == ASSUME Inv, Next PROVE Received'
<1>1. CASE Deliver
  <2> USE DEF output
  <2>1. acked' = acked /\ sequence' = sequence /\ ttydOut' = ttydOut
    BY <1>1, DeliverReceives
  <2>2. after' \in Nat /\ after <= after' /\ after' <= sequence
    BY <1>1, DeliverReceives DEF IsBatch
  <2> QED  BY <1>1, <2>1, <2>2, DeliverReceives DEF Inv, Received, Retained
<1>2. CASE UNCHANGED <<after, delivered>>
  <2>1. acked' <= after
    BY OutputMoves, <1>2 DEF Produce, ReadFrame, Acknowledge, output, Inv, Received, Retained
  <2>2. after \in Nat /\ after <= sequence /\ sequence <= sequence' /\ sequence' \in Nat
    BY Grows, RetainedStep DEF Inv, Received, Retained
  <2>3. \A i \in 1 .. after : delivered[i] = ttydOut'[i]
    <3> TAKE i \in 1 .. after
    <3>1. i \in 1 .. sequence
      BY <2>2 DEF Inv, Retained
    <3>2. ttydOut'[i] = ttydOut[i] /\ delivered[i] = ttydOut[i]
      BY <3>1, Grows DEF Inv, Received
    <3> QED  BY <3>2
  <2>4. after' = after /\ delivered' = delivered
    BY <1>2
  <2>5. after <= sequence'
    BY <2>2 DEF Inv, Retained
  <2>6. delivered \in Seq(OutputItem) /\ Len(delivered) = after
    BY DEF Inv, Received
  <2> QED  BY <2>1, <2>2, <2>3, <2>4, <2>5, <2>6 DEF Received
<1> QED  BY <1>1, <1>2, CursorMoves

(* A relay that has closed reads nothing more and never opens again.       *)
LEMMA StaysClosed ==
  ASSUME Inv, Next, relay \notin {"none", "open"}
  PROVE  relay' \notin {"none", "open"} /\ sequence' = sequence
<1>2. sequence' = sequence
  BY OutputMoves DEF Produce, ReadFrame, Acknowledge, output
<1>3. CASE \E m \in net : Serve(m)
  BY <1>2, <1>3 DEF Serve, ServeOpen, SkipInput, WriteInput, BreakInput, RefuseInput,
     ServeClose, ServeAck, ServeLateStream
<1>4. CASE \/ Produce \/ ReadFrame \/ ServeStream \/ Hangup \/ ReadEnd \/ StreamMore
           \/ StreamDeadline \/ Expire \/ Opened \/ OpenLost \/ FlushResizes \/ Sent
           \/ SendLost \/ AskStream \/ StreamDone \/ StreamRefused \/ StreamLost
           \/ Deliver \/ Ack \/ Acked \/ AckLost \/ Close
  BY <1>2, <1>4 DEF Produce, ReadFrame, ServeStream, Hangup, ReadEnd, StreamMore,
     StreamDeadline, Expire, Opened, OpenLost, FlushResizes, Sent, SendLost, Deliver,
     AskStream, StreamDone, StreamRefused, StreamLost, Ack, Acked, AckLost, Close
<1>5. CASE (\E kind \in Keys : Type(kind)) \/ Nudge
  BY <1>2, <1>5 DEF Type, Nudge, Send
<1> QED  BY <1>2, <1>3, <1>4, <1>5 DEF Next

(* A batch stays what it is while the relay goes on.                       *)
LEMMA BatchStays ==
  ASSUME Inv, Next, NEW b, IsBatch(b)
  PROVE  IsBatch(b)'
<1> USE DEF IsBatch
<1>1. b.hi <= sequence' /\ \A k \in b.lo + 1 .. b.hi : b.frames[k] = ttydOut'[k]
  BY Grows, RetainedStep DEF Inv, Retained
<1> QED  BY <1>1, StaysClosed

(* The batch the relay answers with from a cursor it knows.                *)
LEMMA BatchIsBatch ==
  ASSUME Inv, NEW a \in Nat, Acknowledgeable(a)
  PROVE  /\ BatchAfter(a) \in Batches /\ IsBatch(BatchAfter(a))
         /\ BatchAfter(a).lo = a /\ BatchAfter(a).hi = Cursor(BatchAfter(a))
         /\ Cursor(BatchAfter(a)) \in Nat
<1> DEFINE D == {j \in DOMAIN frames : a < j /\ j <= BatchEnd(a)}
<1>1. a \in Nat /\ sequence \in Nat /\ acked <= a /\ a <= sequence /\ acked \in Nat
  BY DEF Inv, Retained, Acknowledgeable
<1>2. BatchEnd(a) \in Nat /\ a <= BatchEnd(a) /\ BatchEnd(a) <= sequence
  BY <1>1, BoundsAreNaturals DEF BatchEnd
<1>3. D = a + 1 .. BatchEnd(a)
  BY <1>1, <1>2 DEF Inv, Retained
<1>4. \A k \in D : k \in Nat /\ frames[k] = ttydOut[k] /\ frames[k] \in Nat
  BY <1>1, <1>2, <1>3 DEF Inv, Retained, OutputItem
<1>5. BatchAfter(a) = [lo |-> a, hi |-> BatchEnd(a), frames |-> [k \in D |-> frames[k]],
                       closed |-> Closed /\ BatchEnd(a) = sequence]
  BY DEF BatchAfter
<1> HIDE DEF D
<1>6. [k \in D |-> frames[k]] \in UNION {[E -> Nat] : E \in SUBSET Nat}
  <2>1. D \in SUBSET Nat /\ [k \in D |-> frames[k]] \in [D -> Nat]
    BY <1>4
  <2> QED  BY <2>1
<1>7. BatchAfter(a) \in Batches
  BY <1>1, <1>2, <1>5, <1>6 DEF Batches, Closed
<1>8. \A k \in a + 1 .. BatchEnd(a) : [j \in D |-> frames[j]][k] = ttydOut[k]
  BY <1>3, <1>4
<1>9. Closed => relay \notin {"none", "open"}
  BY DEF Closed
<1>10. /\ BatchAfter(a).lo = a /\ BatchAfter(a).hi = BatchEnd(a)
       /\ BatchAfter(a).frames = [k \in D |-> frames[k]]
       /\ BatchAfter(a).closed = (Closed /\ BatchEnd(a) = sequence)
  BY <1>5
<1>11. IsBatch(BatchAfter(a))
  BY <1>1, <1>2, <1>8, <1>9, <1>10 DEF IsBatch
<1> QED  BY <1>2, <1>7, <1>10, <1>11 DEF Cursor

(* What a step does to the stream: nothing, dropping it, or one of its own *)
(* actions.                                                                *)
LEMMA StreamMoves ==
  ASSUME Next
  PROVE  \/ UNCHANGED <<chan, stream>>
         \/ stream' = [state |-> "idle", after |-> 0] /\ chan' = <<>>
         \/ AskStream \/ ServeStream \/ StreamMore \/ StreamDeadline \/ Deliver
<1> USE DEF receiver
<1>1. CASE \E m \in net : Serve(m)
  BY <1>1 DEF Serve, ServeOpen, SkipInput, WriteInput, BreakInput, RefuseInput,
     ServeClose, ServeAck, ServeLateStream
<1>2. CASE \/ Produce \/ ReadFrame \/ Hangup \/ ReadEnd \/ Expire \/ Opened \/ OpenLost
           \/ FlushResizes \/ Sent \/ SendLost \/ StreamDone \/ StreamRefused
           \/ StreamLost \/ Ack \/ Acked \/ AckLost \/ Close
  BY <1>2 DEF Produce, ReadFrame, Hangup, ReadEnd, Expire, Opened, OpenLost,
     FlushResizes, Sent, SendLost, StreamDone, StreamRefused, StreamLost, Ack,
     Acked, AckLost, Close, Fail, Shut
<1>3. CASE (\E kind \in Keys : Type(kind)) \/ Nudge
  BY <1>3 DEF Type, Nudge, Send, Fail, Shut
<1> QED  BY <1>1, <1>2, <1>3 DEF Next

(* What is left of a sequence behind its first element.                    *)
LEMMA TailOf ==
  ASSUME NEW S, NEW s \in Seq(S), s # <<>>, NEW t, t = Tail(s)
  PROVE  /\ t \in Seq(S) /\ Len(s) \in Nat \ {0} /\ Len(t) = Len(s) - 1
         /\ \A i \in 1 .. Len(t) : t[i] = s[i + 1] /\ i + 1 \in 2 .. Len(s)
<1>1. Len(s) \in Nat \ {0} /\ t \in Seq(S) /\ Len(t) = Len(s) - 1
  OBVIOUS
<1>2. ASSUME NEW i \in 1 .. Len(t) PROVE t[i] = s[i + 1] /\ i + 1 \in 2 .. Len(s)
  BY <1>1
<1> QED BY <1>1, <1>2

(* Every step keeps the batches on the way in one chain.                   *)
LEMMA ChainedStep == ASSUME Inv, Next PROVE Chained'
<1>1. /\ chan \in Seq(Batches)
      /\ \A i \in 1 .. Len(chan) : IsBatch(chan[i])
      /\ \A i \in 2 .. Len(chan) : chan[i].lo = chan[i - 1].hi
      /\ chan # <<>> => chan[1].lo = after
      /\ stream = [state |-> stream.state, after |-> stream.after]
      /\ stream.state = "asked" => chan = <<>> /\ stream.after = after
      /\ stream.state = "live" =>
           stream.after = IF chan = <<>> THEN after ELSE chan[Len(chan)].hi
      /\ stream.state \notin {"live", "ended"} => chan = <<>>
  BY DEF Inv, Chained
<1>2. \A b : IsBatch(b) => IsBatch(b)'
  BY BatchStays
<1>3. ASSUME UNCHANGED chan
      PROVE  chan' \in Seq(Batches) /\ \A i \in 1 .. Len(chan') : IsBatch(chan[i])'
  BY <1>1, <1>2, <1>3 DEF IsBatch
<1>4. ASSUME chan' = <<>>, UNCHANGED after \/ stream'.state = "idle",
             \/ stream'.state \in {"idle", "gap", "expired", "ended"}
             \/ stream'.state = "asked" /\ stream'.after = after',
             stream' = [state |-> stream'.state, after |-> stream'.after]
      PROVE  Chained'
  BY <1>4 DEF Chained
<1>5. CASE stream' = [state |-> "idle", after |-> 0] /\ chan' = <<>>
  BY <1>4, <1>5
<1>6. CASE AskStream
  <2>1. chan = <<>>
    BY <1>1, <1>6 DEF AskStream
  <2> QED  BY <1>4, <1>6, <2>1 DEF AskStream
<1>7. CASE UNCHANGED <<chan, stream>> /\ UNCHANGED after
  BY <1>1, <1>3, <1>7 DEF Chained
<1>8. CASE StreamDeadline
  BY <1>1, <1>3, <1>8 DEF StreamDeadline, Chained
<1>9. CASE ServeStream
  <2>1. chan = <<>> /\ stream.after = after /\ after \in Nat /\ UNCHANGED after
    BY <1>1, <1>9 DEF ServeStream, Inv, Received
  <2>2. CASE Registered /\ Acknowledgeable(stream.after)
    <3> DEFINE b == BatchAfter(stream.after)
    <3>1. b \in Batches /\ IsBatch(b) /\ b.lo = after /\ Cursor(b) = b.hi
      BY <2>1, <2>2, BatchIsBatch
    <3>2. chan' = <<b>> /\ \E s \in {"live", "ended"} : stream' = [state |-> s, after |-> Cursor(b)]
      BY <1>9, <2>2 DEF ServeStream
    <3> HIDE DEF b
    <3>3. chan' \in Seq(Batches) /\ Len(chan') = 1 /\ chan'[1] = b
      BY <3>1, <3>2
    <3>4. IsBatch(chan[1])'
      BY <1>2, <3>1, <3>3 DEF IsBatch
    <3> QED  BY <2>1, <3>1, <3>2, <3>3, <3>4 DEF Chained
  <2>3. CASE ~(Registered /\ Acknowledgeable(stream.after))
    <3>1. UNCHANGED chan /\ \E g \in {"gap", "expired"} : stream' = [stream EXCEPT !.state = g]
      BY <1>9, <2>3 DEF ServeStream
    <3>2. PICK g \in {"gap", "expired"} : stream' = [state |-> g, after |-> stream.after]
      BY <1>1, <3>1
    <3> QED  BY <1>4, <2>1, <3>1, <3>2
  <2> QED  BY <2>2, <2>3
<1>10. CASE StreamMore
  <2>1. stream.state = "live" /\ UNCHANGED after
    BY <1>10 DEF StreamMore
  <2>2. CASE Acknowledgeable(stream.after)
    <3> DEFINE b == BatchAfter(stream.after)
    <3>1. stream.after \in Nat
      BY <1>1, <2>1 DEF IsBatch, Inv, Received
    <3>2. b \in Batches /\ IsBatch(b) /\ b.lo = stream.after /\ Cursor(b) = b.hi
      BY <3>1, <2>2, BatchIsBatch
    <3>3. chan' = Append(chan, b) /\ \E s \in {"live", "ended"} : stream' = [state |-> s, after |-> Cursor(b)]
      BY <1>10, <2>2 DEF StreamMore
    <3> HIDE DEF b
    <3>4. /\ chan' \in Seq(Batches) /\ Len(chan') = Len(chan) + 1 /\ Len(chan) \in Nat
          /\ chan'[Len(chan')] = b
          /\ \A i \in 1 .. Len(chan) : chan'[i] = chan[i]
      BY <1>1, <3>2, <3>3
    <3>5. chan' # <<>>
      BY <3>4
    <3>6. \A i \in 1 .. Len(chan') : IsBatch(chan[i])'
      <4> SUFFICES ASSUME NEW i \in 1 .. Len(chan')  PROVE IsBatch(chan[i])'
        OBVIOUS
      <4>1. CASE i <= Len(chan)
        <5>1. i \in 1 .. Len(chan) /\ chan'[i] = chan[i] /\ IsBatch(chan[i])
          BY <4>1, <1>1, <3>4
        <5> QED  BY <5>1, <1>2 DEF IsBatch
      <4>2. CASE i > Len(chan)
        <5>1. chan'[i] = b
          BY <4>2, <3>4
        <5> QED  BY <5>1, <1>2, <3>2 DEF IsBatch
      <4> QED  BY <4>1, <4>2, <3>4
    <3>7. chan'[1].lo = after'
      BY <1>1, <2>1, <3>2, <3>4
    <3>8. \A i \in 2 .. Len(chan') : chan'[i].lo = chan'[i - 1].hi
      <4> TAKE i \in 2 .. Len(chan')
      <4>1. CASE i <= Len(chan)
        BY <4>1, <1>1, <3>4
      <4>2. CASE i = Len(chan) + 1
        BY <4>2, <1>1, <2>1, <3>2, <3>4
      <4> QED  BY <4>1, <4>2, <3>4
    <3>9. /\ stream' = [state |-> stream'.state, after |-> stream'.after]
          /\ stream'.state \in {"live", "ended"}
          /\ stream'.after = chan'[Len(chan')].hi
      BY <3>2, <3>3, <3>4
    <3> QED  BY <3>4, <3>5, <3>6, <3>7, <3>8, <3>9 DEF Chained
  <2>3. CASE ~Acknowledgeable(stream.after)
    BY <1>1, <1>3, <1>10, <2>3 DEF StreamMore, Chained
  <2> QED  BY <2>2, <2>3
<1>11. CASE Deliver
  <2>1. chan # <<>> /\ Head(chan) = chan[1] /\ after' = chan[1].hi
    BY <1>11, DeliverReceives DEF Deliver
  <2>2. CASE chan[1].closed
    <3>1. chan' = <<>> /\ stream' = [state |-> "idle", after |-> 0]
      BY <1>11, <2>1, <2>2 DEF Deliver, Shut
    <3> QED  BY <1>4, <3>1
  <2>3. CASE ~chan[1].closed
    <3>1. chan' = Tail(chan) /\ UNCHANGED stream
      BY <1>11, <2>1, <2>3 DEF Deliver
    <3>2. /\ chan' \in Seq(Batches) /\ Len(chan) \in Nat \ {0} /\ Len(chan') = Len(chan) - 1
          /\ \A i \in 1 .. Len(chan') : chan'[i] = chan[i + 1] /\ i + 1 \in 2 .. Len(chan)
      <4>1. chan \in Seq(Batches)
        BY <1>1
      <4>2. chan # <<>> /\ chan' = Tail(chan)
        BY <2>1, <3>1
      <4> QED BY <4>1, <4>2, TailOf
    <3>3. \A i \in 1 .. Len(chan') : IsBatch(chan[i])'
      <4> TAKE i \in 1 .. Len(chan')
      <4>1. chan'[i] = chan[i + 1] /\ i + 1 \in 2 .. Len(chan) /\ Len(chan) \in Nat
        BY <3>2
      <4>2. i + 1 \in 1 .. Len(chan)
        BY <4>1
      <4> DEFINE b == chan[i + 1]
      <4>3. IsBatch(b)
        BY <1>1, <4>2, Zenon
      <4>4. chan'[i] = b
        BY <4>1
      <4> HIDE DEF b
      <4>5. ASSUME NEW x, IsBatch(x), chan'[i] = x PROVE IsBatch(chan[i])'
        BY <1>2, <4>5 DEF IsBatch
      <4> QED BY <4>3, <4>4, <4>5
    <3>4. \A i \in 2 .. Len(chan') : chan'[i].lo = chan'[i - 1].hi
      <4> TAKE i \in 2 .. Len(chan')
      <4>4. i \in 1 .. Len(chan') /\ i - 1 \in 1 .. Len(chan') /\ (i - 1) + 1 = i /\ (i + 1) - 1 = i
        BY <3>2
      <4>1. chan'[i] = chan[i + 1] /\ chan'[i - 1] = chan[i] /\ i + 1 \in 2 .. Len(chan)
            /\ (i + 1) - 1 = i
        <5>1. \A k \in 1 .. Len(chan') : chan'[k] = chan[k + 1] /\ k + 1 \in 2 .. Len(chan)
          BY <3>2
        <5>2. chan'[i - 1] = chan[(i - 1) + 1]
          BY <5>1, <4>4, Zenon
        <5> QED BY <4>4, <5>1, <5>2
      <4>2. \A k \in 2 .. Len(chan) : chan[k].lo = chan[k - 1].hi
        BY <1>1
      <4>3. chan[i + 1].lo = chan[(i + 1) - 1].hi
        BY <4>1, <4>2, Zenon
      <4> QED  BY <4>1, <4>3
    <3>5. chan' # <<>> => chan'[1].lo = after'
      <4>1. CASE Len(chan') = 0
        BY <4>1, <3>2
      <4>2. CASE Len(chan') # 0
        <5>1. 1 \in 1 .. Len(chan') /\ chan'[1] = chan[2] /\ 2 \in 2 .. Len(chan) /\ 2 - 1 = 1
          BY <4>2, <3>2
        <5> QED  BY <5>1, <1>1, <2>1
      <4> QED  BY <4>1, <4>2
    <3>6. stream'.state = "live" =>
            stream'.after = IF chan' = <<>> THEN after' ELSE chan'[Len(chan')].hi
      <4>1. CASE Len(chan') = 0
        BY <4>1, <1>1, <2>1, <3>1, <3>2
      <4>2. CASE Len(chan') # 0
        <5>1. Len(chan') \in 1 .. Len(chan') /\ chan'[Len(chan')] = chan[Len(chan)]
          BY <4>2, <3>2
        <5>2. chan' # <<>>
          BY <4>2
        <5> QED  BY <5>1, <5>2, <1>1, <2>1, <3>1
      <4> QED  BY <4>1, <4>2
    <3>7. stream.state \in {"live", "ended"}
      BY <1>1, <2>1
    <3>8. /\ stream' = [state |-> stream'.state, after |-> stream'.after]
          /\ stream'.state \in {"live", "ended"}
      BY <1>1, <3>1, <3>7
    <3>9. chan' \in Seq(Batches)
      BY <3>2
    <3> QED  BY <3>3, <3>4, <3>5, <3>6, <3>8, <3>9 DEF Chained
  <2> QED  BY <2>2, <2>3
<1> QED  BY <1>5, <1>6, <1>7, <1>8, <1>9, <1>10, <1>11, StreamMoves, CursorMoves

(* Only a hang-up ends what ttyd writes, only the reader sees it, and only *)
(* a closing batch finishes a connection.                                  *)
LEMMA EofMoves ==
  ASSUME Next
  PROVE  eof' = eof \/ Hangup
<1> USE DEF ttyd, receiver, page
<1>1. CASE \E m \in net : Serve(m)
  BY <1>1 DEF Serve, ServeOpen, SkipInput, WriteInput, BreakInput, RefuseInput,
     ServeClose, ServeAck, ServeLateStream, AfterBreak
<1>2. CASE \/ Produce \/ ReadFrame \/ Hangup \/ ReadEnd \/ Expire \/ FlushResizes
           \/ ServeStream \/ StreamMore \/ StreamDeadline \/ AskStream \/ StreamDone \/ Ack
  BY <1>2 DEF Produce, ReadFrame, Hangup, ReadEnd, Expire, FlushResizes,
     ServeStream, StreamMore, StreamDeadline, AskStream, StreamDone, Ack
<1>3. CASE \/ Opened \/ OpenLost \/ Sent \/ SendLost \/ StreamRefused \/ StreamLost
           \/ Acked \/ AckLost \/ Close
  BY <1>3 DEF Opened, OpenLost, Sent, SendLost, StreamRefused, StreamLost,
     Acked, AckLost, Close, Fail, Shut
<1>4. CASE Deliver
  BY <1>4 DEF Deliver, Shut
<1>5. CASE (\E kind \in Keys : Type(kind)) \/ Nudge
  BY <1>5 DEF Type, Nudge, Send, Fail, Shut
<1> QED  BY <1>1, <1>2, <1>3, <1>4, <1>5 DEF Next

LEMMA HungupMoves ==
  ASSUME Next
  PROVE  relay' = "hungup" => relay = "hungup" \/ ReadEnd
<1> USE DEF ttyd, receiver, page
<1>1. CASE \E m \in net : Serve(m)
  BY <1>1 DEF Serve, ServeOpen, SkipInput, WriteInput, BreakInput, RefuseInput,
     ServeClose, ServeAck, ServeLateStream, AfterBreak
<1>2. CASE \/ Produce \/ ReadFrame \/ Hangup \/ ReadEnd \/ Expire \/ FlushResizes
           \/ ServeStream \/ StreamMore \/ StreamDeadline \/ AskStream \/ StreamDone \/ Ack
  BY <1>2 DEF Produce, ReadFrame, Hangup, ReadEnd, Expire, FlushResizes,
     ServeStream, StreamMore, StreamDeadline, AskStream, StreamDone, Ack
<1>3. CASE \/ Opened \/ OpenLost \/ Sent \/ SendLost \/ StreamRefused \/ StreamLost
           \/ Acked \/ AckLost \/ Close
  BY <1>3 DEF Opened, OpenLost, Sent, SendLost, StreamRefused, StreamLost,
     Acked, AckLost, Close, Fail, Shut
<1>4. CASE Deliver
  BY <1>4 DEF Deliver, Shut
<1>5. CASE (\E kind \in Keys : Type(kind)) \/ Nudge
  BY <1>5 DEF Type, Nudge, Send, Fail, Shut
<1> QED  BY <1>1, <1>2, <1>3, <1>4, <1>5 DEF Next

LEMMA FinishMoves ==
  ASSUME Inv, Next
  PROVE  state # "finished" /\ state' = "finished" =>
           Deliver /\ chan[1].closed /\ UNCHANGED relay
<1> USE DEF ttyd, receiver, page
<1>1. CASE \E m \in net : Serve(m)
  BY <1>1 DEF Serve, ServeOpen, SkipInput, WriteInput, BreakInput, RefuseInput,
     ServeClose, ServeAck, ServeLateStream, AfterBreak
<1>2. CASE \/ Produce \/ ReadFrame \/ Hangup \/ ReadEnd \/ Expire \/ FlushResizes
           \/ ServeStream \/ StreamMore \/ StreamDeadline \/ AskStream \/ StreamDone \/ Ack
  BY <1>2 DEF Produce, ReadFrame, Hangup, ReadEnd, Expire, FlushResizes,
     ServeStream, StreamMore, StreamDeadline, AskStream, StreamDone, Ack
<1>3. CASE \/ Opened \/ OpenLost \/ Sent \/ SendLost \/ StreamRefused \/ StreamLost
           \/ Acked \/ AckLost \/ Close
  BY <1>3 DEF Opened, OpenLost, Sent, SendLost, StreamRefused, StreamLost,
     Acked, AckLost, Close, Fail, Shut
<1>4. CASE Deliver
  BY <1>4, DeliverReceives DEF Deliver, Shut
<1>5. CASE (\E kind \in Keys : Type(kind)) \/ Nudge
  BY <1>5 DEF Type, Nudge, Send, Fail, Shut
<1> QED  BY <1>1, <1>2, <1>3, <1>4, <1>5 DEF Next

(* Every step keeps the two kinds of ending.                               *)
LEMMA EndedStep == ASSUME Inv, Next PROVE Ended'
<1> USE DEF Inv, Ended
<1>1. relay' = "hungup" => eof' /\ sequence' = Len(ttydOut')
  <2>1. CASE ReadEnd
    BY <2>1 DEF ReadEnd, ttyd, output
  <2>2. CASE relay = "hungup"
    <3>1. ttydOut' = ttydOut
      BY <2>2, OutputMoves DEF Produce, ReadFrame
    <3>2. eof' = eof \/ Hangup
      BY EofMoves
    <3> QED  BY <2>2, <3>1, <3>2, StaysClosed DEF Hangup
  <2>3. CASE ~ReadEnd /\ relay # "hungup"
    BY <2>3, HungupMoves
  <2> QED  BY <2>1, <2>2, <2>3
<1>2. state' = "finished" => relay' \notin {"none", "open"} /\ after' = sequence'
  <2>1. CASE state = "finished"
    <3>1. UNCHANGED after
      BY <2>1, CursorMoves DEF Deliver
    <3> QED  BY <2>1, <3>1, StaysClosed
  <2>2. CASE state # "finished" /\ state' = "finished"
    <3>1. Deliver /\ chan[1].closed /\ UNCHANGED relay
      BY <2>2, FinishMoves
    <3>2. after' = chan[1].hi /\ IsBatch(chan[1]) /\ sequence' = sequence
      BY <3>1, DeliverReceives DEF output
    <3> QED  BY <3>1, <3>2 DEF IsBatch
  <2> QED  BY <2>1, <2>2
<1> QED  BY <1>1, <1>2

-----------------------------------------------------------------------------
(* A request that acknowledges nothing the page has not delivered.         *)
Honest(m) ==
  /\ m = [req |-> m.req, next |-> m.next]
  /\ m.req.op \in {"ack", "stream"} => m.req.after \in Nat /\ m.req.after <= after

LEMMA HonestUnder ==
  ASSUME NEW r, r.op \notin {"ack", "stream"} \/ (r.after \in Nat /\ r.after <= after)
  PROVE  Honest(Under(r))
BY DEF Honest, Under

LEMMA HonestShut ==
  ASSUME Inv, NEW how, NEW more, \A r \in more : r.op = "close", Shut(how, more),
         how \in {"closed", "finished"}
  PROVE  /\ state' = how /\ sending' = None /\ acking' = None
         /\ \A m \in net' : Honest(m)
<1>1. \A m \in net : Honest(m)
  BY DEF Inv, Acks, Honest
<1>2. \A r \in more : Honest(Under(r))
  BY HonestUnder
<1>3. \A m \in LateStream : Honest(m)
  BY HonestUnder DEF LateStream, Inv, Chained, Received
<1> QED  BY <1>1, <1>2, <1>3 DEF Shut

LEMMA HonestFail ==
  ASSUME Inv, Fail
  PROVE  /\ state' = "closed" /\ sending' = None /\ acking' = None
         /\ \A m \in net' : Honest(m)
BY HonestShut DEF Fail

LEMMA HonestFlush ==
  ASSUME Inv, NEW q, Flush(q)
  PROVE  /\ sending' # None => \E n, fs, t :
              sending' = [op |-> "send", seq |-> n, frames |-> fs, try |-> t]
         /\ \A m \in net' : Honest(m)
<1>1. \A m \in net : Honest(m)
  BY DEF Inv, Acks, Honest
<1>2. Honest(Under(SendRequest(q)))
  BY HonestUnder DEF SendRequest
<1> QED  BY <1>1, <1>2 DEF Flush, SendRequest

LEMMA HonestServe ==
  ASSUME Inv, NEW m \in net, Serve(m)
  PROVE  \A k \in net' : Honest(k)
<1>1. \A k \in net : Honest(k)
  BY DEF Inv, Acks, Honest
<1>2. ASSUME Advance(m), m.req.op = "send"
      PROVE  \A k \in net' : Honest(k)
  <2> DEFINE further == [m EXCEPT !.next = @ + 1]
  <2>1. further = [req |-> m.req, next |-> m.next + 1]
    BY <1>1 DEF Honest
  <2> HIDE DEF further
  <2>2. Honest(further)
    BY <1>2, <2>1 DEF Honest
  <2>3. net' \subseteq net \union {further}
    BY <1>2 DEF Advance, Reply, further
  <2> QED  BY <1>1, <2>2, <2>3
<1>3. ASSUME net' \subseteq net
      PROVE  \A k \in net' : Honest(k)
  BY <1>1, <1>3
<1>4. CASE SkipInput(m) \/ WriteInput(m)
  BY <1>2, <1>4 DEF SkipInput, WriteInput
<1>5. CASE ServeOpen(m) \/ BreakInput(m) \/ RefuseInput(m) \/ ServeAck(m)
           \/ ServeClose(m) \/ ServeLateStream(m)
  BY <1>3, <1>5 DEF ServeOpen, BreakInput, RefuseInput, ServeAck, ServeClose,
     ServeLateStream, Reply
<1> QED  BY <1>4, <1>5 DEF Serve

(* Every step keeps the acknowledgements honest.                           *)
LEMMA AcksStep == ASSUME Inv, Next PROVE Acks'
<1> USE DEF receiver, sender, wire
<1>1. /\ state = "connecting" => \E t \in Nat : opening = [op |-> "open", try |-> t]
      /\ sending # None => \E n, fs, t :
           sending = [op |-> "send", seq |-> n, frames |-> fs, try |-> t]
      /\ acking \notin {None, Timer} => \E a \in Nat : \E t :
           a <= after /\ acking = [op |-> "ack", after |-> a, try |-> t]
      /\ \A m \in net : Honest(m)
      /\ after \in Nat
  BY DEF Inv, Acks, Honest, Received
<1>2. ASSUME \A m \in net' : Honest(m), after' \in Nat, after <= after'
      PROVE  \A m \in net' : Honest(m)'
  BY <1>1, <1>2 DEF Honest
<1>3. after' \in Nat /\ after <= after'
  <2>1. CASE Deliver
    BY <2>1, <1>1, DeliverReceives DEF IsBatch
  <2> QED  BY <2>1, <1>1, CursorMoves
<1>4. ASSUME \A m \in net' : Honest(m),
             state' = "connecting" => \E t \in Nat : opening' = [op |-> "open", try |-> t],
             sending' # None => \E n, fs, t :
               sending' = [op |-> "send", seq |-> n, frames |-> fs, try |-> t],
             acking' \notin {None, Timer} => \E a \in Nat : \E t :
               a <= after /\ acking' = [op |-> "ack", after |-> a, try |-> t]
      PROVE  Acks'
  <2>1. \A m \in net' : Honest(m)'
    BY <1>2, <1>3, <1>4
  <2>2. acking' \notin {None, Timer} => \E a \in Nat : \E t :
          a <= after' /\ acking' = [op |-> "ack", after |-> a, try |-> t]
    BY <1>1, <1>3, <1>4
  <2> QED  BY <1>4, <2>1, <2>2 DEF Acks, Honest
<1>5. CASE Fail
  BY <1>4, <1>5, HonestFail
<1>6. CASE \E m \in net : Serve(m)
  <2>1. UNCHANGED <<state, opening, sending, acking>>
    BY <1>6 DEF Serve, ServeOpen, SkipInput, WriteInput, BreakInput, RefuseInput,
       ServeClose, ServeAck, ServeLateStream
  <2> QED  BY <1>1, <1>4, <1>6, <2>1, HonestServe
<1>7. CASE \/ Produce \/ ReadFrame \/ Hangup \/ ReadEnd \/ Expire
           \/ ServeStream \/ StreamMore \/ StreamDeadline \/ AskStream \/ StreamDone
  <2>1. UNCHANGED <<state, opening, sending, acking, net>>
    BY <1>7 DEF Produce, ReadFrame, Hangup, ReadEnd, Expire, ServeStream,
       StreamMore, StreamDeadline, AskStream, StreamDone
  <2> QED  BY <1>1, <1>4, <2>1
<1>8. CASE FlushResizes
  BY <1>1, <1>4, <1>8, HonestFlush DEF FlushResizes
<1>9. CASE Ack
  <2>1. Honest(Under([op |-> "ack", after |-> after, try |-> 0]))
    BY <1>1, HonestUnder
  <2>2. /\ UNCHANGED <<state, opening, sending>>
        /\ acking' = [op |-> "ack", after |-> after, try |-> 0]
        /\ net' = net \union {Under([op |-> "ack", after |-> after, try |-> 0])}
    BY <1>9 DEF Ack
  <2>3. after <= after
    BY <1>1
  <2> QED  BY <1>1, <1>4, <2>1, <2>2, <2>3
<1>10. CASE Opened
  BY <1>1, <1>4, <1>5, <1>10 DEF Opened
<1>11. CASE OpenLost
  <2>1. CASE opening.try < 1
    <3>1. PICK t \in Nat : opening = [op |-> "open", try |-> t]
      BY <1>1, <1>11 DEF OpenLost
    <3>2. Again(opening) = [op |-> "open", try |-> t + 1]
      BY <3>1 DEF Again
    <3>3. Honest(Under(Again(opening)))
      BY <3>2, HonestUnder
    <3> QED  BY <1>1, <1>4, <1>11, <2>1, <3>2, <3>3 DEF OpenLost, Resend
  <2>2. CASE ~(opening.try < 1)
    BY <1>5, <1>11, <2>2 DEF OpenLost
  <2> QED  BY <2>1, <2>2
<1>12. CASE Sent
  BY <1>1, <1>4, <1>5, <1>12, HonestFlush DEF Sent
<1>13. CASE SendLost
  <2>1. CASE sending.try < Retries
    <3>1. PICK n, fs, t : sending = [op |-> "send", seq |-> n, frames |-> fs, try |-> t]
      BY <1>1, <1>13 DEF SendLost
    <3>2. Again(sending) = [op |-> "send", seq |-> n, frames |-> fs, try |-> t + 1]
      BY <3>1 DEF Again
    <3>3. Honest(Under(Again(sending)))
      BY <3>2, HonestUnder
    <3>4. /\ UNCHANGED <<state, opening, acking>> /\ sending' = Again(sending)
          /\ net' = net \union {Under(Again(sending))}
      BY <1>13, <2>1 DEF SendLost, Resend
    <3> QED  BY <1>1, <1>4, <3>2, <3>3, <3>4
  <2>2. CASE ~(sending.try < Retries)
    BY <1>5, <1>13, <2>2 DEF SendLost
  <2> QED  BY <2>1, <2>2
<1>14. CASE StreamRefused \/ Close
  BY <1>5, <1>14 DEF StreamRefused, Close
<1>15. CASE StreamLost
  <2>1. CASE failures < Failures
    <3>1. \A m \in LateStream : Honest(m)
      BY HonestUnder DEF LateStream, Inv, Chained, Received
    <3> QED  BY <1>1, <1>4, <1>15, <2>1, <3>1 DEF StreamLost
  <2>2. CASE ~(failures < Failures)
    BY <1>5, <1>15, <2>2 DEF StreamLost
  <2> QED  BY <2>1, <2>2
<1>16. CASE Acked
  BY <1>1, <1>4, <1>5, <1>16 DEF Acked
<1>17. CASE AckLost
  <2>1. CASE acking.try < Retries
    <3>1. PICK a \in Nat, t \in {acking.try} :
             a <= after /\ acking = [op |-> "ack", after |-> a, try |-> t]
      BY <1>1, <1>17 DEF AckLost
    <3>2. Again(acking) = [op |-> "ack", after |-> a, try |-> t + 1]
      BY <3>1 DEF Again
    <3>3. Honest(Under(Again(acking)))
      BY <3>1, <3>2, HonestUnder
    <3> QED  BY <1>1, <1>4, <1>17, <2>1, <3>1, <3>2, <3>3 DEF AckLost, Resend
  <2>2. CASE ~(acking.try < Retries)
    BY <1>5, <1>17, <2>2 DEF AckLost
  <2> QED  BY <2>1, <2>2
<1>18. CASE Deliver
  <2>1. CASE Head(chan).closed
    BY <1>4, <1>18, <2>1, HonestShut DEF Deliver
  <2>2. CASE ~Head(chan).closed
    BY <1>1, <1>4, <1>18, <2>2 DEF Deliver
  <2> QED  BY <2>1, <2>2
<1>19. CASE (\E kind \in Keys : Type(kind)) \/ Nudge
  <2>1. PICK items, waits : Send(items, waits)
    BY <1>19 DEF Type, Nudge
  <2> QED  BY <1>1, <1>4, <1>5, <2>1, HonestFlush DEF Send
<1> QED  BY <1>6, <1>7, <1>8, <1>9, <1>10, <1>11, <1>12, <1>13, <1>14, <1>15, <1>16,
            <1>17, <1>18, <1>19 DEF Next

-----------------------------------------------------------------------------
(* The invariant holds at the start and in every step.                     *)
LEMMA InvInit == ASSUME Init PROVE Inv
<1>1. Retained /\ Received
  BY DEF Init, Retained, Received
<1>2. Chained
  BY DEF Init, Chained
<1>3. Ended
  BY DEF Init, Ended
<1>4. Acks
  <2>1. 0 \in Nat /\ opening = [op |-> "open", try |-> 0] /\ sending = None /\ acking = None
    BY DEF Init
  <2>2. net = {[req |-> [op |-> "open", try |-> 0], next |-> 1]}
    BY DEF Init, Under
  <2> QED  BY <2>1, <2>2 DEF Acks
<1> QED  BY <1>1, <1>2, <1>3, <1>4 DEF Inv

LEMMA InvStep == ASSUME Inv, [Next]_vars PROVE Inv'
<1>1. CASE Next
  BY <1>1, RetainedStep, ReceivedStep, ChainedStep, EndedStep, AcksStep DEF Inv
<1>2. CASE UNCHANGED vars
  BY <1>2 DEF vars, ttyd, output, sender, receiver, page, wire, Inv, Retained,
     Received, Chained, IsBatch, Ended, Acks
<1> QED  BY <1>1, <1>2

(* The relay's buffer, the browser's cursor, the batches between them and  *)
(* the acknowledgements under way always fit together.                     *)
THEOREM Consistent == Spec => []Inv
BY InvInit, InvStep, PTL DEF Spec

(* The relay still holds whatever the page has not received: a late,       *)
(* repeated or overtaken acknowledgement never frees more.                 *)
THEOREM UndeliveredIsHeld == Spec => []HoldsUndelivered
<1>1. Inv => HoldsUndelivered
  BY DEF Inv, Retained, Received, HoldsUndelivered
<1> QED  BY <1>1, Consistent, PTL

(* A clean close comes after all that ttyd wrote before it hung up.        *)
THEOREM CleanCloseIsComplete == Spec => []FinishedHasAll
<1>1. ASSUME Inv PROVE FinishedHasAll
  <2>1. SUFFICES ASSUME state = "finished"
                 PROVE  Len(delivered) = sequence /\ (relay = "hungup" => delivered = ttydOut)
    BY DEF FinishedHasAll
  <2>2. after = sequence /\ Len(delivered) = sequence
    BY <1>1, <2>1 DEF Inv, Ended, Received
  <2>3. ASSUME relay = "hungup" PROVE delivered = ttydOut
    <3>1. sequence = Len(ttydOut)
      BY <1>1, <2>3 DEF Inv, Ended
    <3>2. /\ delivered \in Seq(OutputItem) /\ ttydOut \in Seq(OutputItem)
          /\ Len(delivered) = Len(ttydOut)
          /\ \A i \in 1 .. Len(delivered) : delivered[i] = ttydOut[i]
      BY <1>1, <2>2, <3>1 DEF Inv, Received, Retained
    <3> QED  BY <3>2
  <2> QED  BY <2>2, <2>3
<1> QED  BY <1>1, Consistent, PTL

(* Output implements the channel: whatever is lost, retried or overtaken,  *)
(* the page sees a prefix of what ttyd wrote.                              *)
THEOREM OutputImplementsChannel == Spec => OutputIsChannel
<1>1. Init => Out!Init
  BY DEF Init, Out!Init
<1>2. ASSUME Inv, [Next]_vars PROVE [Out!Next]_<<ttydOut, delivered>>
  <2>1. CASE UNCHANGED vars
    BY <2>1 DEF vars, ttyd, page
  <2>2. CASE Next /\ Deliver
    <3>1. /\ ttydOut' = ttydOut /\ after' \in Nat /\ after <= after' /\ after' <= sequence
          /\ delivered' \in Seq(OutputItem) /\ Len(delivered') = after'
          /\ \A i \in 1 .. after' : delivered'[i] = ttydOut[i]
      BY <1>2, <2>2, DeliverReceives DEF IsBatch
    <3>2. /\ Len(delivered) = after /\ ttydOut \in Seq(OutputItem) /\ sequence <= Len(ttydOut)
          /\ after \in Nat /\ sequence \in Nat /\ delivered \in Seq(OutputItem)
          /\ \A i \in 1 .. after : delivered[i] = ttydOut[i]
      BY <1>2 DEF Inv, Received, Retained
    <3>3. delivered' = SubSeq(ttydOut, 1, after')
      BY <3>1, <3>2
    <3>4. CASE after' = after
      BY <3>1, <3>2, <3>4
    <3>5. CASE after' # after
      <4>1. after' \in Len(delivered) + 1 .. Len(ttydOut)
        BY <3>1, <3>2, <3>5
      <4>2. Out!Receive
        BY <3>1, <3>3, <4>1 DEF Out!Receive
      <4> QED  BY <4>2 DEF Out!Next
    <3> QED  BY <3>4, <3>5
  <2>3. CASE Next /\ ~Deliver
    <3>1. delivered' = delivered
      BY <2>3, CursorMoves
    <3>2. CASE Produce
      <4>1. ttydOut' = Append(ttydOut, Len(ttydOut) + 1) /\ ttydOut \in Seq(OutputItem)
        BY <1>2, <3>2 DEF Produce, Inv, Retained
      <4>2. Len(ttydOut') > Len(ttydOut) /\ SubSeq(ttydOut', 1, Len(ttydOut)) = ttydOut
        BY <4>1 DEF OutputItem
      <4> QED  BY <3>1, <4>2 DEF Out!Next, Out!Send
    <3>3. CASE ~Produce
      <4>1. ttydOut' = ttydOut
        BY <1>2, <2>3, <3>3, OutputMoves DEF ReadFrame, ttyd
      <4> QED  BY <3>1, <4>1
    <3> QED  BY <3>2, <3>3
  <2> QED  BY <1>2, <2>1, <2>2, <2>3
<1> QED  BY <1>1, <1>2, Consistent, PTL DEF Spec, OutputIsChannel, Out!Spec

-----------------------------------------------------------------------------
(***************************************************************************)
(* The input direction, for all queues, batches, retries and losses: ttyd  *)
(* reads what the page sent as over a channel, and neither end is ever told *)
(* that it is out of step.                                                 *)
(***************************************************************************)
(* What a request takes from a queue that is not empty: at least one item. *)
LEMMA TakenRange ==
  ASSUME NEW S, NEW q \in Seq(S), q # <<>>
  PROVE  Taken(q) \in 1 .. Len(q)
<1>1. Len(q) \in Nat /\ Len(q) >= 1
  OBVIOUS
<1>2. 1 \in Runs(q)
  BY <1>1, BoundsAreNaturals DEF Runs
<1>3. Runs(q) \subseteq 1 .. Len(q)
  BY DEF Runs
<1> DEFINE R == {Len(q) - n : n \in Runs(q)}
<1>4. R \in SUBSET Nat /\ R # {}
  BY <1>1, <1>2, <1>3
<1>5. PICK s \in R : \A t \in R : s <= t
  <2>1. IsWellFoundedOn(OpToRel(<, Nat), Nat)
    BY NatLessThanWellFounded
  <2>2. PICK s \in R : \A t \in R : ~ (<<t, s>> \in OpToRel(<, Nat))
    BY <1>4, <2>1, WFMin
  <2>3. \A t \in R : ~ (t < s)
    BY <1>4, <2>2 DEF OpToRel
  <2> HIDE DEF R
  <2>4. s \in R
    BY <2>2, Zenon
  <2>5. \A t \in R : s <= t
    BY <1>4, <2>3, <2>4
  <2> QED BY <2>4, <2>5
<1>6. PICK n \in Runs(q) : s = Len(q) - n
  BY <1>5
<1>7. \A m \in Runs(q) : m <= n
  <2> TAKE m \in Runs(q)
  <2>1. Len(q) - n <= Len(q) - m
    BY <1>5, <1>6
  <2> QED BY <1>1, <1>3, <1>6, <2>1
<1>8. Taken(q) \in Runs(q)
  BY <1>6, <1>7 DEF Taken
<1> QED BY <1>3, <1>8

(* The rest of a sequence, cut from its position e on.                     *)
LEMMA CutRest ==
  ASSUME NEW S, NEW t \in Seq(S), NEW e \in 0 .. Len(t), NEW q,
         q = SubSeq(t, e + 1, Len(t))
  PROVE  /\ q \in Seq(S) /\ Len(q) = Len(t) - e
         /\ \A i \in 1 .. Len(q) : q[i] = t[e + i]
         /\ \A a \in 1 .. Len(q) + 1, b \in 0 .. Len(q) :
              SubSeq(q, a, b) = SubSeq(t, e + a, e + b)
<1>1. Len(t) \in Nat /\ e + 1 \in Int /\ \A i \in e + 1 .. Len(t) : t[i] \in S
  OBVIOUS
<1>2. /\ q \in Seq(S) /\ Len(q) = Len(t) - e
      /\ \A i \in 1 .. Len(q) : q[i] = t[e + i]
  BY <1>1, SubSeqProperties
<1>3. ASSUME NEW a \in 1 .. Len(q) + 1, NEW b \in 0 .. Len(q)
      PROVE  SubSeq(q, a, b) = SubSeq(t, e + a, e + b)
  <2>1. Len(q) \in Nat /\ a \in Int /\ b \in Int /\ e + a \in Int /\ e + b \in Int
    BY <1>2
  <2>2. \A i \in a .. b : q[i] \in S
    BY <1>2, <2>1
  <2>3. \A i \in e + a .. e + b : t[i] \in S
    BY <1>1, <1>2, <2>1
  <2> DEFINE u == SubSeq(q, a, b)
             v == SubSeq(t, e + a, e + b)
  <2>4. /\ u \in Seq(S) /\ Len(u) = IF a <= b THEN b - a + 1 ELSE 0
        /\ \A i \in 1 .. b - a + 1 : u[i] = q[a + i - 1]
    BY <2>1, <2>2, SubSeqProperties
  <2>5. /\ v \in Seq(S)
        /\ Len(v) = IF e + a <= e + b THEN (e + b) - (e + a) + 1 ELSE 0
        /\ \A i \in 1 .. (e + b) - (e + a) + 1 : v[i] = t[e + a + i - 1]
    BY <2>1, <2>3, SubSeqProperties
  <2> HIDE DEF u, v
  <2>6. (e + b) - (e + a) + 1 = b - a + 1 /\ (e + a <= e + b <=> a <= b)
    BY <2>1
  <2>7. Len(u) = Len(v)
    BY <2>4, <2>5, <2>6
  <2>8. ASSUME NEW i \in 1 .. Len(u)
        PROVE  u[i] = v[i]
    <3>1. i \in 1 .. b - a + 1
      BY <2>1, <2>4
    <3>2. a + i - 1 \in 1 .. Len(q)
      BY <2>1, <3>1
    <3>3. e + (a + i - 1) = e + a + i - 1
      BY <2>1, <3>1
    <3> QED BY <1>2, <2>4, <2>5, <2>6, <3>1, <3>2, <3>3
  <2>9. u = v
    BY <2>4, <2>5, <2>7, <2>8, SeqEqual
  <2> QED BY <2>9 DEF u, v
<1> QED BY <1>2, <1>3

(* What was sent stays where it is when the page sends more.               *)
LEMMA CutStays ==
  ASSUME NEW S, NEW t \in Seq(S), NEW more \in Seq(S), NEW a \in 1 .. Len(t) + 1,
         NEW b \in 0 .. Len(t)
  PROVE  SubSeq(t \o more, a, b) = SubSeq(t, a, b)
<1>1. Len(t) \in Nat /\ a \in Int /\ b \in Int
  OBVIOUS
<1>2. CASE b < a
  BY <1>1, <1>2, SubSeqEmpty
<1>3. CASE a <= b
  <2>1. a \in 1 .. Len(t) /\ b \in 1 .. Len(t)
    BY <1>1, <1>3
  <2> QED BY <2>1, SubSeqOfConcat1
<1> QED BY <1>1, <1>2, <1>3

-----------------------------------------------------------------------------
(* The invariant.  E[n] is how many items the first n frames hold.         *)
Items == [kind : Keys \cup {"nudge", "resize"}, n : Nat]

Offsets(E) ==
  /\ E \in [Nat -> Nat] /\ E[0] = 0 /\ E[seq] <= Len(typed)
  /\ \A a, b \in 0 .. seq : a < b => E[a] < E[b]

Numbers(E) ==
  /\ seq \in Nat /\ inputSequence \in Nat /\ inputSequence <= seq
  /\ typed \in Seq(Items) /\ Offsets(E)

(* A send request holds the frames of its numbers.                         *)
LastOf(r) == r.seq + Len(r.frames) - 1

Copy(E, r) ==
  /\ r.seq \in Nat \ {0} /\ Len(r.frames) \in Nat \ {0} /\ LastOf(r) <= seq
  /\ \A i \in 1 .. Len(r.frames) :
       r.frames[i] = SubSeq(typed, E[r.seq + i - 2] + 1, E[r.seq + i - 1])

(* ttyd has read the frames that are counted, and after a failed write     *)
(* perhaps the next one.                                                   *)
Written(E) ==
  \E k \in 0 .. E[seq] : /\ ttydIn = SubSeq(typed, 1, k)
                         /\ relay \in {"none", "open"} => k = E[inputSequence]

(* No copy of a request is ahead of the relay.                             *)
Travelling(E) ==
  \A m \in net : m.req.op = "send" =>
    /\ Copy(E, m.req) /\ m.next \in 1 .. Len(m.req.frames)
    /\ Number(m) <= inputSequence + 1

(* What is queued follows what was sent, and the next request is sent when *)
(* the one before was counted.                                             *)
Sender(E) ==
  /\ sending # None => /\ Copy(E, sending) /\ LastOf(sending) = seq
                       /\ sending.seq <= inputSequence + 1
  /\ state = "open" => /\ queue = SubSeq(typed, E[seq] + 1, Len(typed))
                       /\ sending = None => seq <= inputSequence
  /\ state = "connecting" => seq = 0 /\ typed = <<>> /\ sending = None
  /\ state # "open" => queue = <<>>

Answers ==
  \A r \in replies :
    /\ r.status # "gap"
    /\ r.status = "ok" /\ r.to.op = "send" => LastOf(r.to) \in 0 .. inputSequence

Kept(E) == Numbers(E) /\ Written(E) /\ Travelling(E) /\ Sender(E)

InputInv == (\E E : Kept(E)) /\ Answers /\ stream.state # "gap"

-----------------------------------------------------------------------------
(* A frame that was sent is not touched by what is sent later.             *)
LEMMA OffsetRange ==
  ASSUME NEW E, Numbers(E), NEW n \in 0 .. seq
  PROVE  E[n] \in 0 .. Len(typed) /\ E[n] <= E[seq] /\ E[seq] \in Nat
<1>1. n \in Nat /\ seq \in Nat /\ E[n] \in Nat /\ E[seq] \in Nat /\ Len(typed) \in Nat
  BY DEF Numbers, Offsets
<1>2. E[n] <= E[seq]
  <2>1. CASE n = seq
    BY <1>1, <2>1
  <2>2. CASE n < seq
    BY <1>1, <2>2 DEF Numbers, Offsets
  <2> QED BY <1>1, <2>1, <2>2
<1> QED BY <1>1, <1>2 DEF Numbers, Offsets

LEMMA CopyOfAgain ==
  ASSUME NEW E, NEW n, NEW fs, NEW t, NEW u,
         Copy(E, [op |-> "send", seq |-> n, frames |-> fs, try |-> t])
  PROVE  /\ Copy(E, [op |-> "send", seq |-> n, frames |-> fs, try |-> u])
         /\ LastOf([op |-> "send", seq |-> n, frames |-> fs, try |-> u])
              = LastOf([op |-> "send", seq |-> n, frames |-> fs, try |-> t])
  BY DEF Copy, LastOf

(* The next frame, read after those counted.                               *)
LEMMA NextFrame ==
  ASSUME NEW E, Kept(E), NEW m \in net, m.req.op = "send", IsNext(m), relay = "open"
  PROVE  /\ inputSequence + 1 <= seq
         /\ ttydIn = SubSeq(typed, 1, E[inputSequence])
         /\ ttydIn \o m.req.frames[m.next] = SubSeq(typed, 1, E[inputSequence + 1])
<1>1. /\ Copy(E, m.req) /\ m.next \in 1 .. Len(m.req.frames) /\ Numbers(E)
      /\ ttydIn = SubSeq(typed, 1, E[inputSequence])
  BY DEF Kept, Travelling, Written
<1>2. /\ m.req.seq + m.next - 1 = inputSequence + 1
      /\ m.req.seq \in Nat /\ Len(m.req.frames) \in Nat /\ m.next \in Nat
      /\ m.req.seq + Len(m.req.frames) - 1 <= seq /\ seq \in Nat /\ inputSequence \in Nat
  BY <1>1 DEF IsNext, Number, Copy, LastOf, Numbers
<1>3. inputSequence + 1 <= seq
  BY <1>1, <1>2
<1>4. m.req.seq + m.next - 2 = inputSequence
  BY <1>2
<1>5. m.req.frames[m.next] = SubSeq(typed, E[inputSequence] + 1, E[inputSequence + 1])
  BY <1>1, <1>2, <1>4 DEF Copy
<1> DEFINE a == E[inputSequence]
           b == E[inputSequence + 1]
<1>6. a \in 0 .. Len(typed) /\ b \in 0 .. Len(typed) /\ a < b
  <2>1. inputSequence \in 0 .. seq /\ inputSequence + 1 \in 0 .. seq
    BY <1>2, <1>3
  <2>2. a < b
    BY <1>1, <1>2, <2>1 DEF Numbers, Offsets
  <2> QED BY <1>1, <2>1, <2>2, OffsetRange
<1> HIDE DEF a, b
<1>7. typed \in Seq(Items) /\ Len(typed) \in Nat
  BY <1>1 DEF Numbers
<1>8. SubSeq(typed, 1, a) \o SubSeq(typed, a + 1, b) = SubSeq(typed, 1, b)
  <2>1. 1 \in 1 .. Len(typed) + 1 /\ a \in 1 - 1 .. Len(typed) /\ b \in a .. Len(typed)
    BY <1>6, <1>7
  <2> QED BY <1>7, <2>1, ConcatAdjacentSubSeq
<1> QED BY <1>1, <1>3, <1>5, <1>8 DEF a, b

-----------------------------------------------------------------------------
(* The manager's handler.                                                  *)
(* What every step of the handler leaves alone, and what it answers.       *)
LEMMA ServeLeaves ==
  ASSUME NEW m \in net, Serve(m)
  PROVE  UNCHANGED <<typed, state, seq, queue, sending, stream>>
  BY DEF Serve, ServeOpen, SkipInput, WriteInput, BreakInput, RefuseInput, ServeClose,
     ServeAck, ServeLateStream, sender, receiver, page

LEMMA AnswersOne ==
  ASSUME Answers, NEW m \in net, NEW status, status # "gap", inputSequence' >= inputSequence,
         inputSequence \in Nat, inputSequence' \in Nat,
         status = "ok" /\ m.req.op = "send" => LastOf(m.req) \in 0 .. inputSequence',
         Reply(m, status)
  PROVE  Answers' /\ net' \subseteq net
<1> DEFINE one == [to |-> m.req, status |-> status]
<1>1. net' = net \ {m} /\ replies' \subseteq replies \union {one}
  BY DEF Reply
<1>2. one.to = m.req /\ one.status = status
  OBVIOUS
<1> HIDE DEF one
<1>3. \A r \in replies' : /\ r.status # "gap"
                          /\ r.status = "ok" /\ r.to.op = "send"
                               => r.to.seq + Len(r.to.frames) - 1 \in 0 .. inputSequence'
  <2> TAKE r \in replies'
  <2>1. CASE r = one
    BY <1>2, <2>1 DEF LastOf
  <2>2. CASE r \in replies
    BY <2>2 DEF Answers, LastOf
  <2> QED BY <1>1, <2>1, <2>2
<1> QED BY <1>1, <1>3 DEF Answers, LastOf

(* A step that leaves the page's side and what ttyd read alone keeps all,  *)
(* as long as it adds no send request and does not count backwards.        *)
LEMMA KeptWhile ==
  ASSUME NEW E, Kept(E), UNCHANGED <<typed, seq, queue, sending, state, ttydIn, inputSequence>>,
         relay' \in {"none", "open"} => relay \in {"none", "open"},
         \A m \in net' : m.req.op = "send" => m \in net
  PROVE  Kept(E)'
<1>1. Numbers(E)' /\ Written(E)' /\ Sender(E)'
  BY DEF Kept, Numbers, Offsets, Written, Sender, Copy, LastOf
<1>2. Travelling(E)'
  BY DEF Kept, Travelling, Copy, LastOf, Number
<1> QED BY <1>1, <1>2 DEF Kept

(* One more frame of a request is handled.                                 *)
LEMMA AdvanceKeeps ==
  ASSUME Inv, NEW E, Kept(E), Answers, NEW m \in net, m.req.op = "send", Advance(m),
         UNCHANGED <<typed, seq, queue, sending, state, relay>>,
         inputSequence' \in {inputSequence, inputSequence + 1}, inputSequence' <= seq,
         Number(m) <= inputSequence', Written(E)'
  PROVE  Kept(E)' /\ Answers'
<1>1. /\ Copy(E, m.req) /\ m.next \in 1 .. Len(m.req.frames) /\ seq \in Nat
      /\ inputSequence \in Nat /\ m = [req |-> m.req, next |-> m.next]
  BY DEF Kept, Travelling, Numbers, Inv, Acks
<1>2. inputSequence' \in Nat /\ inputSequence' >= inputSequence
  BY <1>1
<1>3. Numbers(E)'
  BY <1>2 DEF Kept, Numbers, Offsets
<1>4. Sender(E)'
  <2>1. sending # None => sending.seq \in Nat
    BY DEF Kept, Sender, Copy
  <2>2. sending # None => sending.seq <= inputSequence' + 1
    BY <1>1, <1>2, <2>1 DEF Kept, Sender
  <2>3. state = "open" /\ sending = None => seq <= inputSequence'
    BY <1>1, <1>2 DEF Kept, Sender
  <2> QED BY <2>2, <2>3 DEF Kept, Sender, Copy, LastOf
<1>5. ASSUME NEW k \in net, k.req.op = "send"
      PROVE  /\ Copy(E, k.req) /\ k.next \in 1 .. Len(k.req.frames)
             /\ Number(k) <= inputSequence' + 1
  <2>1. /\ Copy(E, k.req) /\ k.next \in 1 .. Len(k.req.frames)
        /\ Number(k) <= inputSequence + 1
    BY <1>5 DEF Kept, Travelling
  <2>2. Number(k) \in Int
    BY <2>1 DEF Number, Copy
  <2> QED BY <1>1, <1>2, <2>1, <2>2
<1> DEFINE On(k) == /\ Copy(E, k.req) /\ k.next \in 1 .. Len(k.req.frames)
                    /\ k.req.seq + k.next - 1 <= inputSequence' + 1
<1>6. ASSUME \A k \in net' : k.req.op = "send" => On(k)
      PROVE  Travelling(E)'
  BY <1>6 DEF Travelling, Copy, LastOf, Number
<1>7. CASE m.next = Len(m.req.frames)
  <2>1. Reply(m, "ok")
    BY <1>7 DEF Advance
  <2>2. LastOf(m.req) \in 0 .. inputSequence'
    BY <1>1, <1>2, <1>7 DEF LastOf, Number, Copy
  <2>3. Answers' /\ net' \subseteq net
    BY <1>1, <1>2, <2>1, <2>2, AnswersOne
  <2>4. Travelling(E)'
    BY <1>5, <1>6, <2>3 DEF Number
  <2> QED BY <1>3, <1>4, <2>3, <2>4 DEF Kept
<1>8. CASE m.next # Len(m.req.frames)
  <2> DEFINE further == [m EXCEPT !.next = @ + 1]
  <2>1. further = [req |-> m.req, next |-> m.next + 1]
    BY <1>1
  <2> HIDE DEF further
  <2>2. net' = (net \ {m}) \union {further} /\ replies' = replies
    BY <1>8 DEF Advance, further
  <2>3. On(further)
    <3>1. /\ Copy(E, m.req) /\ m.next \in 1 .. Len(m.req.frames)
          /\ m.req.seq \in Nat /\ Len(m.req.frames) \in Nat
      BY <1>1 DEF Copy
    <3>2. m.req.seq + m.next - 1 <= inputSequence'
      BY DEF Number
    <3>3. m.next + 1 \in 1 .. Len(m.req.frames)
      BY <1>8, <3>1
    <3>4. m.req.seq + (m.next + 1) - 1 <= inputSequence' + 1
      BY <1>2, <3>1, <3>2
    <3> QED BY <2>1, <3>1, <3>3, <3>4
  <2>4. \A k \in net : k.req.op = "send" => On(k)
    BY <1>5 DEF Number
  <2>5. Travelling(E)'
    <3> HIDE DEF On
    <3> QED BY <1>6, <2>2, <2>3, <2>4
  <2>6. Answers'
    BY <1>1, <1>2, <2>2 DEF Answers, LastOf
  <2> QED BY <1>3, <1>4, <2>5, <2>6 DEF Kept
<1> QED BY <1>7, <1>8

(* ttyd reads nothing, or the next frame.                                  *)
Reads(E) ==
  \/ ttydIn' = ttydIn
  \/ /\ inputSequence + 1 <= seq
     /\ ttydIn = SubSeq(typed, 1, E[inputSequence])
     /\ ttydIn' = SubSeq(typed, 1, E[inputSequence + 1])

LEMMA ServeInput ==
  ASSUME Inv, NEW E, Kept(E), Answers, NEW m \in net, Serve(m)
  PROVE  Kept(E)' /\ Answers' /\ Reads(E)
<1> USE DEF ttyd, page, sender, receiver
<1>1. /\ UNCHANGED <<typed, seq, queue, sending, state>>
      /\ inputSequence \in Nat /\ seq \in Nat /\ inputSequence <= seq
  BY ServeLeaves DEF Kept, Numbers
<1>2. ASSUME NEW status, status # "gap", m.req.op = "send" => status # "ok", Reply(m, status),
             inputSequence' = inputSequence
      PROVE  Answers' /\ \A k \in net' : k \in net
  <2>1. Answers' /\ net' \subseteq net
    BY <1>1, <1>2, AnswersOne
  <2> QED BY <2>1
<1>3. CASE ServeOpen(m)
  <2>1. Answers' /\ \A k \in net' : k \in net
    BY <1>2, <1>3 DEF ServeOpen
  <2>2. UNCHANGED <<ttydIn, inputSequence>>
        /\ (relay' \in {"none", "open"} => relay \in {"none", "open"})
    BY <1>3 DEF ServeOpen
  <2> QED BY <1>1, <2>1, <2>2, KeptWhile DEF Reads
<1>4. CASE SkipInput(m)
  <2>1. /\ m.req.op = "send" /\ Advance(m) /\ Number(m) <= inputSequence
        /\ UNCHANGED <<ttydIn, inputSequence, relay>>
    BY <1>4 DEF SkipInput, Applied
  <2>2. Written(E)'
    BY <1>1, <2>1 DEF Kept, Written
  <2> QED BY <1>1, <2>1, <2>2, AdvanceKeeps DEF Reads
<1>5. CASE WriteInput(m) \/ BreakInput(m)
  <2>1. /\ m.req.op = "send" /\ relay = "open" /\ IsNext(m)
        /\ ttydIn' \in {ttydIn, ttydIn \o m.req.frames[m.next]}
    BY <1>5 DEF WriteInput, BreakInput
  <2>2. /\ inputSequence + 1 <= seq
        /\ ttydIn = SubSeq(typed, 1, E[inputSequence])
        /\ ttydIn \o m.req.frames[m.next] = SubSeq(typed, 1, E[inputSequence + 1])
    BY <2>1, NextFrame
  <2>3. Reads(E)
    BY <2>1, <2>2 DEF Reads
  <2>4. /\ E[inputSequence + 1] \in 0 .. E[seq] /\ E[inputSequence] \in 0 .. E[seq]
    <3>1. inputSequence + 1 \in 0 .. seq /\ inputSequence \in 0 .. seq
      BY <1>1, <2>2
    <3> QED BY <3>1, OffsetRange DEF Kept
  <2>5. CASE WriteInput(m)
    <3>1. /\ inputSequence' = inputSequence + 1 /\ Number(m) = inputSequence + 1
          /\ ttydIn' = ttydIn \o m.req.frames[m.next] /\ Advance(m) /\ UNCHANGED relay
      BY <2>5 DEF WriteInput, IsNext
    <3>2. Written(E)'
      BY <1>1, <2>2, <2>4, <3>1 DEF Written
    <3>3. Number(m) <= inputSequence' /\ inputSequence' <= seq
      <4>1. Number(m) = inputSequence' /\ inputSequence' \in Nat /\ inputSequence' <= seq
        <5> DEFINE new == inputSequence'
        <5>1. inputSequence \in Nat /\ seq \in Nat /\ new = inputSequence + 1 /\ Number(m) = new
          BY <1>1, <3>1
        <5> HIDE DEF new
        <5>2. new \in Nat /\ new <= seq
          BY <5>1, <2>2
        <5> QED BY <5>1, <5>2, Zenon DEF new
      <4> QED BY <4>1
    <3> QED BY <1>1, <2>1, <2>3, <3>1, <3>2, <3>3, AdvanceKeeps
  <2>6. CASE BreakInput(m)
    <3>1. /\ inputSequence' = inputSequence /\ relay' = "broken" /\ Reply(m, "closed")
      BY <2>6 DEF BreakInput, AfterBreak
    <3>2. Answers' /\ \A k \in net' : k \in net
      BY <1>2, <2>1, <3>1
    <3>3. Written(E)'
      BY <1>1, <2>1, <2>2, <2>4, <3>1 DEF Written
    <3>4. Numbers(E)' /\ Sender(E)' /\ Travelling(E)'
      BY <1>1, <3>1, <3>2 DEF Kept, Numbers, Offsets, Sender, Travelling, Copy, LastOf, Number
    <3> QED BY <2>3, <3>2, <3>3, <3>4 DEF Kept
  <2> QED BY <1>5, <2>5, <2>6
<1>6. CASE RefuseInput(m)
  <2>1. m.req.op = "send" /\ UNCHANGED <<ttydIn, inputSequence, relay>>
    BY <1>6 DEF RefuseInput
  <2>2. Applied(m) \/ IsNext(m)
    <3>1. Copy(E, m.req) /\ m.next \in 1 .. Len(m.req.frames) /\ Number(m) <= inputSequence + 1
      BY <2>1 DEF Kept, Travelling
    <3>2. Number(m) \in Int
      BY <3>1 DEF Number, Copy
    <3> QED BY <1>1, <3>1, <3>2 DEF Applied, IsNext
  <2>3. Reply(m, "expired") \/ Reply(m, "closed")
    BY <1>6, <2>2 DEF RefuseInput
  <2>4. Answers' /\ \A k \in net' : k \in net
    BY <1>2, <2>1, <2>3
  <2> QED BY <1>1, <2>1, <2>4, KeptWhile DEF Reads
<1>7. CASE ServeAck(m)
  <2>1. m.req.op = "ack" /\ UNCHANGED <<ttydIn, inputSequence, relay>>
    BY <1>7 DEF ServeAck
  <2>2. m.req.after \in Nat /\ m.req.after <= sequence /\ acked <= sequence
        /\ acked \in Nat /\ sequence \in Nat
    BY <2>1 DEF Inv, Acks, Received, Retained
  <2>3. Acknowledgeable(AckTarget(m.req.after)) /\ ~(m.req.after > sequence)
    BY <2>2 DEF Acknowledgeable, AckTarget, MaxOf
  <2>4. Reply(m, "expired") \/ Reply(m, "ok")
    BY <1>7, <2>3 DEF ServeAck
  <2>5. Answers' /\ \A k \in net' : k \in net
    BY <1>2, <2>1, <2>4
  <2> QED BY <1>1, <2>1, <2>5, KeptWhile DEF Reads
<1>8. CASE ServeClose(m) \/ ServeLateStream(m)
  <2>1. /\ UNCHANGED <<ttydIn, inputSequence, replies>> /\ \A k \in net' : k \in net
        /\ relay' \in {"none", "open"} => relay \in {"none", "open"}
    BY <1>8 DEF ServeClose, ServeLateStream
  <2>2. Answers'
    BY <2>1 DEF Answers, LastOf
  <2> QED BY <1>1, <2>1, <2>2, KeptWhile DEF Reads
<1> QED BY <1>3, <1>4, <1>5, <1>6, <1>7, <1>8 DEF Serve

-----------------------------------------------------------------------------
(* The page's side.  Giving up aborts what is under way and sends nothing. *)
LEMMA ShutKeeps ==
  ASSUME NEW E, Kept(E), NEW how, NEW more, \A r \in more : r.op = "close",
         Shut(how, more), how \in {"closed", "finished"},
         UNCHANGED <<typed, ttydIn, inputSequence, relay>>
  PROVE  Kept(E)' /\ Answers' /\ stream'.state # "gap"
<1>1. /\ state' = how /\ queue' = <<>> /\ sending' = None /\ replies' = {} /\ seq' = seq
      /\ stream' = [state |-> "idle", after |-> 0]
      /\ net' = net \union {Under(r) : r \in more} \union LateStream
  BY DEF Shut
<1>2. \A m \in net' : m.req.op = "send" => m \in net
  BY <1>1 DEF Under, LateStream
<1>3. Travelling(E)'
  BY <1>1, <1>2 DEF Kept, Travelling, Copy, LastOf, Number
<1>4. Numbers(E)' /\ Written(E)' /\ Sender(E)'
  BY <1>1 DEF Kept, Numbers, Offsets, Written, Sender
<1> QED BY <1>1, <1>3, <1>4 DEF Kept, Answers

(* The frames of a request lie between frames that were sent.              *)
LEMMA FrameEnds ==
  ASSUME NEW s \in Nat \ {0}, NEW n \in Nat, NEW last \in Nat, s + n - 1 <= last, NEW i \in 1 .. n
  PROVE  s + i - 2 \in 0 .. last /\ s + i - 1 \in 0 .. last
  OBVIOUS

(* A copy of a request stays one when more is sent.                        *)
CopyNext(F, r) ==
  /\ r.seq \in Nat \ {0} /\ Len(r.frames) \in Nat \ {0} /\ LastOf(r) <= seq'
  /\ \A i \in 1 .. Len(r.frames) :
       r.frames[i] = SubSeq(typed', F[r.seq + i - 2] + 1, F[r.seq + i - 1])

LEMMA CopyGrows ==
  ASSUME NEW E, NEW F, Numbers(E), NEW more \in Seq(Items), typed' = typed \o more,
         seq' \in Nat, seq <= seq', \A n \in 0 .. seq : F[n] = E[n], NEW r, Copy(E, r)
  PROVE  CopyNext(F, r)
<1>1. /\ r.seq \in Nat \ {0} /\ Len(r.frames) \in Nat \ {0} /\ LastOf(r) <= seq
      /\ seq \in Nat /\ typed \in Seq(Items)
  BY DEF Copy, Numbers
<1>2. LastOf(r) <= seq'
  BY <1>1 DEF LastOf
<1>3. ASSUME NEW i \in 1 .. Len(r.frames)
      PROVE  r.frames[i] = SubSeq(typed', F[r.seq + i - 2] + 1, F[r.seq + i - 1])
  <2> DEFINE a == r.seq + i - 2
             b == r.seq + i - 1
  <2>1. a \in 0 .. seq /\ b \in 0 .. seq
    <3>1. r.seq \in Nat \ {0} /\ Len(r.frames) \in Nat /\ seq \in Nat
      BY <1>1
    <3>2. r.seq + Len(r.frames) - 1 <= seq
      BY <1>1 DEF LastOf
    <3> QED BY <3>1, <3>2, FrameEnds
  <2>2. r.frames[i] = SubSeq(typed, E[a] + 1, E[b])
    BY <1>3 DEF Copy
  <2> HIDE DEF a, b
  <2>3. E[a] \in 0 .. Len(typed) /\ E[b] \in 0 .. Len(typed) /\ Len(typed) \in Nat
    BY <1>1, <2>1, OffsetRange
  <2>4. E[a] + 1 \in 1 .. Len(typed) + 1
    BY <2>3
  <2>5. SubSeq(typed', E[a] + 1, E[b]) = SubSeq(typed, E[a] + 1, E[b])
    BY <1>1, <2>3, <2>4, CutStays
  <2>6. r.frames[i] = SubSeq(typed', F[a] + 1, F[b])
    BY <2>1, <2>2, <2>5
  <2> QED BY <2>6 DEF a, b
<1> QED BY <1>1, <1>2, <1>3 DEF CopyNext

(* What is written stays written.                                          *)
LEMMA WrittenGrows ==
  ASSUME NEW E, NEW F, Numbers(E), Written(E), NEW more \in Seq(Items), typed' = typed \o more,
         seq' \in Nat, seq <= seq', \A n \in 0 .. seq : F[n] = E[n],
         F[seq'] \in Nat, E[seq] <= F[seq'],
         UNCHANGED <<ttydIn, relay, inputSequence>>
  PROVE  Written(F)'
<1>1. PICK k \in 0 .. E[seq] : /\ ttydIn = SubSeq(typed, 1, k)
                               /\ relay \in {"none", "open"} => k = E[inputSequence]
  BY DEF Written
<1>2. typed \in Seq(Items) /\ seq \in Nat /\ inputSequence \in 0 .. seq /\ Len(typed) \in Nat
  BY DEF Numbers
<1>3. E[seq] \in 0 .. Len(typed)
  BY <1>2, OffsetRange
<1>4. k \in 0 .. Len(typed) /\ 1 \in 1 .. Len(typed) + 1 /\ k \in 0 .. F[seq']
  BY <1>2, <1>3
<1>5. SubSeq(typed', 1, k) = SubSeq(typed, 1, k)
  BY <1>2, <1>4, CutStays
<1> QED BY <1>1, <1>2, <1>4, <1>5 DEF Written

(* What is queued, after the page sent more.                               *)
LEMMA QueueGrows ==
  ASSUME NEW S, NEW t \in Seq(S), NEW more \in Seq(S), NEW e \in 0 .. Len(t)
  PROVE  SubSeq(t, e + 1, Len(t)) \o more = SubSeq(t \o more, e + 1, Len(t \o more))
<1> DEFINE q == SubSeq(t, e + 1, Len(t))
           all == t \o more
           r == SubSeq(all, e + 1, Len(all))
<1>1. /\ all \in Seq(S) /\ Len(all) = Len(t) + Len(more)
      /\ Len(t) \in Nat /\ Len(more) \in Nat
      /\ \A i \in 1 .. Len(t) : all[i] = t[i]
      /\ \A i \in Len(t) + 1 .. Len(all) : all[i] = more[i - Len(t)]
  OBVIOUS
<1>2. q \in Seq(S) /\ Len(q) = Len(t) - e /\ \A i \in 1 .. Len(q) : q[i] = t[e + i]
  BY CutRest
<1> HIDE DEF q
<1>3. e \in 0 .. Len(all) /\ all \in Seq(S)
  BY <1>1
<1> HIDE DEF all
<1>4. r \in Seq(S) /\ Len(r) = Len(all) - e /\ \A i \in 1 .. Len(r) : r[i] = all[e + i]
  <2>1. all \in Seq(S) /\ e \in 0 .. Len(all)
    BY <1>3
  <2>2. r = SubSeq(all, e + 1, Len(all))
    OBVIOUS
  <2> HIDE DEF r
  <2> QED BY <2>1, <2>2, CutRest
<1> HIDE DEF r
<1>5. /\ q \o more \in Seq(S) /\ Len(q \o more) = Len(q) + Len(more)
      /\ \A i \in 1 .. Len(q) + Len(more) :
           (q \o more)[i] = IF i <= Len(q) THEN q[i] ELSE more[i - Len(q)]
  BY <1>2, ConcatProperties
<1>6. Len(q \o more) = Len(r)
  BY <1>1, <1>2, <1>4, <1>5
<1>7. ASSUME NEW i \in 1 .. Len(r)
      PROVE  (q \o more)[i] = r[i]
  <2>1. CASE i <= Len(q)
    <3>1. i \in 1 .. Len(q) /\ e + i \in 1 .. Len(t)
      BY <1>1, <1>2, <1>4, <2>1
    <3>2. (q \o more)[i] = q[i]
      BY <1>1, <1>2, <1>5, <2>1, <3>1
    <3>3. q[i] = t[e + i] /\ all[e + i] = t[e + i] /\ r[i] = all[e + i]
      BY <1>1, <1>2, <1>4, <3>1
    <3> QED BY <3>2, <3>3
  <2>2. CASE i > Len(q)
    <3>1. /\ i \in Len(q) + 1 .. Len(q) + Len(more) /\ e + i \in Len(t) + 1 .. Len(all)
          /\ i - Len(q) = (e + i) - Len(t)
      BY <1>1, <1>2, <1>4, <2>2
    <3>2. (q \o more)[i] = more[i - Len(q)]
      <4>1. i \in 1 .. Len(q) + Len(more) /\ ~(i <= Len(q))
        BY <1>1, <1>2, <2>2, <3>1
      <4> QED BY <1>5, <4>1
    <3>3. all[e + i] = more[(e + i) - Len(t)] /\ r[i] = all[e + i]
      BY <1>1, <1>4, <3>1
    <3> QED BY <3>1, <3>2, <3>3
  <2>3. Len(q) \in Nat /\ i \in Nat
    BY <1>1, <1>2, <1>4
  <2>4. i <= Len(q) \/ i > Len(q)
    BY <2>3
  <2> QED BY <2>1, <2>2, <2>4, Zenon
<1>8. q \o more = r
  BY <1>4, <1>5, <1>6, <1>7, SeqEqual
<1> QED BY <1>8 DEF q, r, all

-----------------------------------------------------------------------------
(* A new request, whose frames end where F says.                           *)
Flushes(E, more, q) ==
  /\ state = "open" /\ seq <= inputSequence
  /\ typed' = typed \o more /\ q = SubSeq(typed', E[seq] + 1, Len(typed'))
  /\ q # <<>> /\ Flush(q)
  /\ state' = state /\ ttydIn' = ttydIn /\ inputSequence' = inputSequence /\ relay' = relay

Fits(E, F, q) ==
  /\ \A n \in 0 .. seq : F[n] = E[n]
  /\ F[seq + Len(FramesOf(q))] = E[seq] + Taken(q)
  /\ F \in [Nat -> Nat] /\ Len(FramesOf(q)) \in Nat \ {0}
  /\ \A a, b \in seq .. seq + Len(FramesOf(q)) : a < b => F[a] < F[b]
  /\ \A i \in 1 .. Len(FramesOf(q)) :
       FramesOf(q)[i] = SubSeq(typed', F[seq + i - 1] + 1, F[seq + i])

NoSend == \A n, fs, t : None # [op |-> "send", seq |-> n, frames |-> fs, try |-> t]

LEMMA FlushTo ==
  ASSUME NoSend, NEW E, Kept(E), NEW more \in Seq(Items), NEW q, Flushes(E, more, q),
         NEW F, Fits(E, F, q)
  PROVE  Kept(F)'
<1> DEFINE e == E[seq]
           l == Len(FramesOf(q))
           r == SendRequest(q)
<1>1. /\ typed \in Seq(Items) /\ seq \in Nat /\ inputSequence \in Nat /\ Offsets(E)
      /\ e \in 0 .. Len(typed) /\ Len(typed) \in Nat /\ e \in Nat
  <2>1. typed \in Seq(Items) /\ seq \in Nat /\ inputSequence \in Nat /\ Numbers(E) /\ Offsets(E)
    BY DEF Kept, Numbers
  <2> QED BY <2>1, OffsetRange
<1>2. typed' \in Seq(Items) /\ Len(typed') \in Nat /\ e \in 0 .. Len(typed')
  <2>1. Len(typed') = Len(typed) + Len(more) /\ Len(more) \in Nat
    BY <1>1 DEF Flushes
  <2>2. typed' \in Seq(Items)
    BY <1>1 DEF Flushes
  <2> QED BY <1>1, <2>1, <2>2
<1> HIDE DEF e
<1>3. /\ q \in Seq(Items) /\ Len(q) = Len(typed') - e
      /\ \A a \in 1 .. Len(q) + 1, b \in 0 .. Len(q) :
           SubSeq(q, a, b) = SubSeq(typed', e + a, e + b)
  <2>1. q = SubSeq(typed', e + 1, Len(typed'))
    BY DEF Flushes, e
  <2> QED BY <1>2, <2>1, CutRest
<1>4. Taken(q) \in 1 .. Len(q) /\ Len(q) \in Nat
  <2>1. q # <<>>
    BY DEF Flushes
  <2> QED BY <1>3, <2>1, TakenRange
<1>5. /\ l \in Nat \ {0} /\ F \in [Nat -> Nat] /\ F[seq + l] = e + Taken(q)
      /\ \A n \in 0 .. seq : F[n] = E[n]
  BY DEF Fits, e
<1>6. /\ queue' = SubSeq(q, Taken(q) + 1, Len(q)) /\ sending' = r /\ seq' = seq + l
      /\ net' = net \union {Under(r)}
  BY DEF Flushes, Flush
<1>7. r = [op |-> "send", seq |-> seq + 1, frames |-> FramesOf(q), try |-> 0]
  BY DEF SendRequest
<1>8. r.op = "send" /\ r.seq = seq + 1 /\ r.frames = FramesOf(q) /\ r # None
  BY <1>7 DEF NoSend
<1>9. \A i \in 1 .. l : FramesOf(q)[i] = SubSeq(typed', F[seq + i - 1] + 1, F[seq + i])
  BY DEF Fits
<1>10. \A a, b \in seq .. seq + l : a < b => F[a] < F[b]
  BY DEF Fits
<1> HIDE DEF l, r
<1>11. CopyNext(F, r) /\ r.seq + Len(r.frames) - 1 = seq'
  <2>1. Len(r.frames) = l
    BY <1>8 DEF l
  <2>2. r.seq \in Nat \ {0} /\ r.seq + Len(r.frames) - 1 = seq'
    BY <1>1, <1>5, <1>6, <1>8, <2>1
  <2>3. ASSUME NEW i \in 1 .. l
        PROVE  r.frames[i] = SubSeq(typed', F[r.seq + i - 2] + 1, F[r.seq + i - 1])
    <3>1. r.seq + i - 2 = seq + i - 1 /\ r.seq + i - 1 = seq + i
      BY <1>1, <1>5, <1>8
    <3> QED BY <1>8, <1>9, <3>1
  <2>4. LastOf(r) <= seq'
    BY <1>1, <1>5, <1>6, <2>2 DEF LastOf
  <2> QED BY <1>5, <2>1, <2>2, <2>3, <2>4 DEF CopyNext
<1>12. seq' \in Nat /\ seq <= seq' /\ inputSequence <= seq'
  <2>1. inputSequence <= seq
    BY DEF Kept, Numbers
  <2> QED BY <1>1, <1>5, <1>6, <2>1
<1>13. F[seq'] = e + Taken(q) /\ F[seq'] \in Nat /\ e <= F[seq'] /\ F[seq'] <= Len(typed')
  <2>1. Taken(q) \in Nat /\ Len(q) = Len(typed') - e /\ Taken(q) <= Len(q)
    BY <1>3, <1>4
  <2>2. F[seq'] = e + Taken(q)
    BY <1>5, <1>6
  <2> QED BY <1>1, <1>2, <2>1, <2>2
<1>14. Numbers(F)'
  <2>1. F[0] = 0
    BY <1>1, <1>5 DEF Offsets
  <2>2. ASSUME NEW a \in 0 .. seq', NEW b \in 0 .. seq', a < b
        PROVE  F[a] < F[b]
    <3>1. F[a] \in Nat /\ F[b] \in Nat
      <4>1. a \in Nat /\ b \in Nat
        BY <1>12
      <4>2. F \in [Nat -> Nat]
        BY <1>5
      <4> QED BY <4>1, <4>2
    <3>2. CASE b <= seq
      <4>1. a \in 0 .. seq /\ b \in 0 .. seq
        BY <1>1, <2>2, <3>2
      <4>2. E[a] < E[b]
        BY <1>1, <2>2, <4>1 DEF Offsets
      <4> QED BY <1>5, <4>1, <4>2
    <3>3. CASE seq <= a
      <4>1. a \in seq .. seq + l /\ b \in seq .. seq + l
        BY <1>1, <1>5, <1>6, <2>2, <3>3
      <4> QED BY <1>10, <2>2, <4>1
    <3>4. CASE a < seq /\ seq < b
      <4>1. a \in 0 .. seq /\ seq \in 0 .. seq
        BY <1>1, <3>4
      <4>2. E[a] < E[seq]
        BY <1>1, <3>4, <4>1 DEF Offsets
      <4>3. seq \in seq .. seq + l /\ b \in seq .. seq + l
        BY <1>1, <1>5, <1>6, <2>2, <3>4
      <4>4. F[seq] < F[b]
        BY <1>10, <3>4, <4>3
      <4>5. F[a] < F[seq]
        BY <1>5, <4>1, <4>2
      <4>6. F[seq] \in Nat
        BY <1>1, <1>5
      <4> QED BY <3>1, <4>4, <4>5, <4>6
    <3> QED BY <1>1, <2>2, <3>2, <3>3, <3>4
  <2>3. inputSequence' = inputSequence
    BY DEF Flushes
  <2> QED BY <1>1, <1>2, <1>5, <1>12, <1>13, <2>1, <2>2, <2>3 DEF Numbers, Offsets
<1>15. Written(F)'
  <2>1. Numbers(E) /\ Written(E)
    BY DEF Kept
  <2>2. /\ typed' = typed \o more
        /\ ttydIn' = ttydIn /\ inputSequence' = inputSequence /\ relay' = relay
    BY DEF Flushes
  <2> QED BY <1>5, <1>12, <1>13, <2>1, <2>2, WrittenGrows DEF e
<1>16. Travelling(F)'
  <2>1. ASSUME NEW m \in net', m.req.op = "send"
        PROVE  /\ CopyNext(F, m.req) /\ m.next \in 1 .. Len(m.req.frames)
               /\ m.req.seq + m.next - 1 <= inputSequence + 1
    <3>1. CASE m \in net
      <4>1. /\ Copy(E, m.req) /\ m.next \in 1 .. Len(m.req.frames)
            /\ m.req.seq + m.next - 1 <= inputSequence + 1
        BY <2>1, <3>1 DEF Kept, Travelling, Number
      <4>2. Numbers(E)
        BY DEF Kept
      <4>3. typed' = typed \o more
        BY DEF Flushes
      <4> QED BY <1>5, <1>12, <4>1, <4>2, <4>3, CopyGrows
    <3>2. CASE m = Under(r)
      <4>1. m.req = r /\ m.next = 1
        BY <3>2 DEF Under
      <4>2. Len(r.frames) \in Nat \ {0}
        BY <1>5, <1>8 DEF l
      <4>3. r.seq + 1 - 1 <= inputSequence + 1
        BY <1>1, <1>8 DEF Flushes
      <4> QED BY <1>11, <4>1, <4>2, <4>3
    <3> QED BY <1>6, <2>1, <3>1, <3>2
  <2>2. inputSequence' = inputSequence
    BY DEF Flushes
  <2> QED BY <2>1, <2>2 DEF Travelling, Copy, CopyNext, LastOf, Number
<1>17. Sender(F)'
  <2>1. SubSeq(q, Taken(q) + 1, Len(q)) = SubSeq(typed', e + (Taken(q) + 1), e + Len(q))
    <3>1. Taken(q) + 1 \in 1 .. Len(q) + 1 /\ Len(q) \in 0 .. Len(q)
      BY <1>4
    <3>2. \A a \in 1 .. Len(q) + 1, b \in 0 .. Len(q) :
            SubSeq(q, a, b) = SubSeq(typed', e + a, e + b)
      BY <1>3
    <3> QED BY <3>1, <3>2, Zenon
  <2>2. e + (Taken(q) + 1) = F[seq'] + 1 /\ e + Len(q) = Len(typed')
    BY <1>1, <1>2, <1>3, <1>4, <1>13
  <2>3. queue' = SubSeq(typed', F[seq'] + 1, Len(typed'))
    BY <1>6, <2>1, <2>2
  <2>4. sending'.seq <= inputSequence' + 1
    <3>1. inputSequence' = inputSequence /\ seq <= inputSequence
      BY DEF Flushes
    <3> QED BY <1>1, <1>6, <1>8, <3>1
  <2>5. CopyNext(F, sending') /\ sending'.seq + Len(sending'.frames) - 1 = seq' /\ sending' # None
    BY <1>6, <1>8, <1>11
  <2>6. state' = "open"
    BY DEF Flushes
  <2> QED BY <2>3, <2>4, <2>5, <2>6 DEF Sender, Copy, CopyNext, LastOf
<1> QED BY <1>14, <1>15, <1>16, <1>17 DEF Kept

(* Where the frames of the next request end.                               *)
LEMMA FlushCut ==
  ASSUME NEW E, Kept(E), NEW more \in Seq(Items), NEW q, Flushes(E, more, q)
  PROVE  /\ typed' \in Seq(Items) /\ seq \in Nat /\ E[seq] \in Nat /\ Offsets(E)
         /\ q \in Seq(Items) /\ Len(q) = Len(typed') - E[seq]
         /\ Taken(q) \in 1 .. Len(q) /\ Len(q) \in Nat
         /\ \A i \in 1 .. Len(q) : q[i] = typed'[E[seq] + i]
         /\ SubSeq(q, 1, Taken(q)) = SubSeq(typed', E[seq] + 1, E[seq] + Taken(q))
<1> DEFINE e == E[seq]
<1>1. /\ typed \in Seq(Items) /\ seq \in Nat /\ Offsets(E)
      /\ e \in 0 .. Len(typed) /\ Len(typed) \in Nat /\ e \in Nat
  <2>1. typed \in Seq(Items) /\ seq \in Nat /\ Numbers(E) /\ Offsets(E)
    BY DEF Kept, Numbers
  <2> QED BY <2>1, OffsetRange
<1>2. typed' = typed \o more /\ q = SubSeq(typed', e + 1, Len(typed')) /\ q # <<>>
  BY DEF Flushes
<1> HIDE DEF e
<1>3. typed' \in Seq(Items) /\ e \in 0 .. Len(typed')
  <2>1. Len(typed') = Len(typed) + Len(more) /\ Len(more) \in Nat /\ typed' \in Seq(Items)
    BY <1>1, <1>2
  <2> QED BY <1>1, <2>1
<1>4. /\ q \in Seq(Items) /\ Len(q) = Len(typed') - e
      /\ \A i \in 1 .. Len(q) : q[i] = typed'[e + i]
      /\ \A a \in 1 .. Len(q) + 1, b \in 0 .. Len(q) :
           SubSeq(q, a, b) = SubSeq(typed', e + a, e + b)
  <2>1. q = SubSeq(typed', e + 1, Len(typed'))
    BY <1>2
  <2> QED BY <1>3, <2>1, CutRest
<1>5. Taken(q) \in 1 .. Len(q) /\ Len(q) \in Nat
  <2>1. q # <<>>
    BY <1>2
  <2> QED BY <1>4, <2>1, TakenRange
<1>6. seq \in Nat /\ e \in Nat /\ Offsets(E) /\ typed' \in Seq(Items)
  BY <1>1, <1>3
<1>7. SubSeq(q, 1, Taken(q)) = SubSeq(typed', e + 1, e + Taken(q))
  <2>1. 1 \in 1 .. Len(q) + 1 /\ Taken(q) \in 0 .. Len(q)
    BY <1>5
  <2> QED BY <1>4, <2>1
<1> QED BY <1>4, <1>5, <1>6, <1>7, Zenon DEF e

(* A run of resizes is a request of a frame for each.                      *)
LEMMA ResizesFit ==
  ASSUME NEW E, Kept(E), NEW more \in Seq(Items), NEW q, Flushes(E, more, q), IsResize(q[1])
  PROVE  \E F : Fits(E, F, q)
<1> DEFINE e == E[seq]
           T == Taken(q)
           F == [n \in Nat |-> IF n <= seq THEN E[n] ELSE e + (n - seq)]
<1>1. /\ typed' \in Seq(Items) /\ seq \in Nat /\ e \in Nat /\ E \in [Nat -> Nat]
      /\ q \in Seq(Items) /\ Len(q) = Len(typed') - e
      /\ T \in 1 .. Len(q) /\ Len(q) \in Nat
      /\ \A i \in 1 .. Len(q) : q[i] = typed'[e + i]
  <2>1. seq \in Nat /\ E[seq] \in Nat /\ Offsets(E)
    BY FlushCut
  <2>2. Taken(q) \in 1 .. Len(q) /\ Len(q) \in Nat
    BY FlushCut
  <2>3. typed' \in Seq(Items) /\ q \in Seq(Items) /\ Len(q) = Len(typed') - E[seq]
    BY FlushCut
  <2>4. \A i \in 1 .. Len(q) : q[i] = typed'[E[seq] + i]
    BY FlushCut
  <2> QED BY <2>1, <2>2, <2>3, <2>4, Zenon DEF Offsets
<1>2. FramesOf(q) = [i \in 1 .. T |-> <<q[i]>>]
  BY DEF FramesOf
<1> HIDE DEF T
<1>3. Len(FramesOf(q)) = T /\ T \in Nat \ {0} /\ \A i \in 1 .. T : FramesOf(q)[i] = <<q[i]>>
  BY <1>1, <1>2
<1>10. E[seq] = e /\ seq \in Nat /\ e \in Nat /\ E \in [Nat -> Nat]
  BY <1>1
<1> HIDE DEF e
<1>4. F \in [Nat -> Nat]
  <2>1. ASSUME NEW n \in Nat
        PROVE  (IF n <= seq THEN E[n] ELSE e + (n - seq)) \in Nat
    <3>1. E[n] \in Nat
      BY <1>10
    <3>2. ~ (n <= seq) => e + (n - seq) \in Nat
      BY <1>10
    <3> QED BY <3>1, <3>2
  <2> QED BY <2>1
<1>5. \A n \in 0 .. seq : F[n] = E[n]
  BY <1>1
<1>6. \A n \in seq .. seq + T : F[n] = e + (n - seq)
  <2> TAKE n \in seq .. seq + T
  <2>1. n \in Nat /\ (n <= seq => n = seq) /\ e + (seq - seq) = e
    BY <1>3, <1>10
  <2> QED BY <1>10, <2>1
<1> HIDE DEF F
<1>7. \A a, b \in seq .. seq + T : a < b => F[a] < F[b]
  <2> TAKE a \in seq .. seq + T, b \in seq .. seq + T
  <2> HAVE a < b
  <2>1. F[a] = e + (a - seq) /\ F[b] = e + (b - seq)
    BY <1>6
  <2>2. e + (a - seq) < e + (b - seq)
    BY <1>3, <1>10
  <2> QED BY <2>1, <2>2
<1>8. ASSUME NEW i \in 1 .. T
      PROVE  FramesOf(q)[i] = SubSeq(typed', F[seq + i - 1] + 1, F[seq + i])
  <2>1. F[seq + i - 1] + 1 = e + i /\ F[seq + i] = e + i
    <3>1. /\ seq + i - 1 \in seq .. seq + T /\ seq + i \in seq .. seq + T
          /\ (seq + i - 1) - seq = i - 1 /\ (seq + i) - seq = i
      BY <1>1, <1>3
    <3>2. F[seq + i - 1] = e + (i - 1) /\ F[seq + i] = e + i
      BY <1>6, <3>1
    <3>3. e + (i - 1) + 1 = e + i
      BY <1>1
    <3> QED BY <3>2, <3>3
  <2>2. i \in 1 .. Len(q) /\ e + i \in 1 .. Len(typed') /\ e + i \in Int
    <3> DEFINE m == Len(q)
               n == Len(typed')
    <3>1. T \in 1 .. m /\ m \in Nat /\ e \in Nat /\ m = n - e
      BY <1>1, Zenon
    <3>2. n \in Nat
      BY <1>1
    <3> HIDE DEF m, n, T, e
    <3>3. i \in 1 .. m /\ e + i \in 1 .. n /\ e + i \in Int
      BY <3>1, <3>2
    <3> QED BY <3>3, Zenon DEF m, n
  <2>3. typed'[e + i] \in Items
    BY <1>1, <2>2
  <2> DEFINE k == e + i
             u == SubSeq(typed', k, k)
  <2>4. \A j \in k .. k : typed'[j] \in Items
    BY <2>2, <2>3
  <2>5. u \in Seq(Items) /\ Len(u) = 1 /\ u[1] = typed'[k]
    <3>1. /\ u \in Seq(Items) /\ Len(u) = IF k <= k THEN k - k + 1 ELSE 0
          /\ \A j \in 1 .. k - k + 1 : u[j] = typed'[k + j - 1]
      <4> HIDE DEF k
      <4> QED BY <2>2, <2>4, SubSeqProperties DEF k
    <3> HIDE DEF k, u
    <3>2. k \in Int
      BY <2>2 DEF k
    <3>3. k - k + 1 = 1 /\ k + 1 - 1 = k
      BY <3>2
    <3> QED BY <3>1, <3>2, <3>3
  <2>6. u = <<typed'[k]>>
    <3> HIDE DEF u
    <3> QED BY <2>5
  <2> QED BY <1>1, <1>3, <2>1, <2>2, <2>6
<1>9. F[seq + T] = e + T
  BY <1>1, <1>3, <1>6
<1> QED BY <1>3, <1>4, <1>5, <1>7, <1>8, <1>9 DEF Fits, e, T

(* Any other request is one frame.                                         *)
LEMMA KeysFit ==
  ASSUME NEW E, Kept(E), NEW more \in Seq(Items), NEW q, Flushes(E, more, q), ~ IsResize(q[1])
  PROVE  \E F : Fits(E, F, q)
<1> DEFINE e == E[seq]
           T == Taken(q)
           F == [n \in Nat |-> IF n <= seq THEN E[n] ELSE e + T]
<1>1. /\ seq \in Nat /\ e \in Nat /\ E \in [Nat -> Nat] /\ T \in Nat \ {0}
      /\ SubSeq(q, 1, T) = SubSeq(typed', e + 1, e + T)
  <2>1. seq \in Nat /\ E[seq] \in Nat /\ Offsets(E)
    BY FlushCut
  <2>2. Taken(q) \in 1 .. Len(q) /\ Len(q) \in Nat
    BY FlushCut
  <2>3. Taken(q) \in Nat \ {0}
    BY <2>2
  <2>4. SubSeq(q, 1, Taken(q)) = SubSeq(typed', E[seq] + 1, E[seq] + Taken(q))
    BY FlushCut
  <2> QED BY <2>1, <2>3, <2>4, Zenon DEF Offsets
<1>2. FramesOf(q) = <<SubSeq(q, 1, T)>>
  BY DEF FramesOf
<1> HIDE DEF T
<1>3. Len(FramesOf(q)) = 1 /\ FramesOf(q)[1] = SubSeq(q, 1, T)
  <2> DEFINE f == SubSeq(q, 1, T)
  <2>1. FramesOf(q) = <<f>>
    BY <1>2
  <2> HIDE DEF f
  <2>2. Len(FramesOf(q)) = 1 /\ FramesOf(q)[1] = f
    BY <2>1
  <2> QED BY <2>2 DEF f
<1>4. SubSeq(q, 1, T) = SubSeq(typed', e + 1, e + T)
  BY <1>1
<1>11. T \in Nat \ {0}
  BY <1>1
<1>10. E[seq] = e /\ seq \in Nat /\ e \in Nat /\ E \in [Nat -> Nat] /\ T \in Nat \ {0}
  BY <1>1, <1>11, Zenon
<1> HIDE DEF e
<1>5. F \in [Nat -> Nat]
  <2>1. ASSUME NEW n \in Nat
        PROVE  (IF n <= seq THEN E[n] ELSE e + T) \in Nat
    <3>1. E[n] \in Nat
      BY <1>10, Zenon
    <3>2. e \in Nat /\ T \in Nat
      BY <1>10
    <3> QED BY <3>1, <3>2
  <2> QED BY <2>1
<1>6. (\A n \in 0 .. seq : F[n] = E[n]) /\ F[seq] = e /\ F[seq + 1] = e + T
  BY <1>10
<1> HIDE DEF F
<1>7. \A a, b \in seq .. seq + 1 : a < b => F[a] < F[b]
  <2> TAKE a \in seq .. seq + 1, b \in seq .. seq + 1
  <2> HAVE a < b
  <2>3. seq \in Nat /\ e \in Nat /\ T \in Nat /\ T > 0
    BY <1>10
  <2>1. a = seq /\ b = seq + 1
    BY <2>3
  <2>2. e < e + T
    BY <2>3
  <2> QED BY <1>6, <2>1, <2>2
<1>8. \A i \in 1 .. 1 : FramesOf(q)[i] = SubSeq(typed', F[seq + i - 1] + 1, F[seq + i])
  <2>1. seq + 1 - 1 = seq
    BY <1>1
  <2>2. FramesOf(q)[1] = SubSeq(typed', F[seq + 1 - 1] + 1, F[seq + 1])
    BY <1>3, <1>4, <1>6, <2>1
  <2>3. \A i \in 1 .. 1 : i = 1
    OBVIOUS
  <2> QED BY <2>2, <2>3, Zenon
<1>9. Fits(E, F, q)
  <2>1. Len(FramesOf(q)) \in Nat \ {0}
    BY <1>3
  <2>2. F[seq + Len(FramesOf(q))] = E[seq] + Taken(q)
    BY <1>3, <1>6 DEF e, T
  <2> QED BY <1>3, <1>5, <1>6, <1>7, <1>8, <2>1, <2>2 DEF Fits
<1> QED BY <1>9

LEMMA FlushKeeps ==
  ASSUME NoSend, NEW E, Kept(E), NEW more \in Seq(Items), NEW q, Flushes(E, more, q)
  PROVE  \E F : Kept(F)'
BY ResizesFit, KeysFit, FlushTo

(* Nothing is queued: the sender is idle.                                  *)
LEMMA IdleKeeps ==
  ASSUME NEW E, Kept(E), queue = <<>>, Flush(<<>>), state = "open" => seq <= inputSequence,
         UNCHANGED <<state, typed, ttydIn, inputSequence, relay>>
  PROVE  Kept(E)'
<1>1. queue' = queue /\ sending' = None /\ seq' = seq /\ net' = net
  BY DEF Flush
<1> QED BY <1>1 DEF Kept, Numbers, Offsets, Written, Travelling, Sender, Copy, LastOf, Number

(* What must wait goes into the queue.                                     *)
LEMMA WaitKeeps ==
  ASSUME NEW E, Kept(E), NEW more \in Seq(Items), typed' = typed \o more,
         queue' = queue \o more, state = "open",
         UNCHANGED <<state, seq, sending, net, ttydIn, inputSequence, relay>>
  PROVE  Kept(E)'
<1>1. /\ typed \in Seq(Items) /\ seq \in Nat /\ inputSequence \in Nat /\ Numbers(E)
      /\ E[seq] \in 0 .. Len(typed) /\ E[seq] \in Nat /\ Len(typed) \in Nat
  <2>1. Numbers(E) /\ typed \in Seq(Items) /\ seq \in Nat /\ inputSequence \in Nat
    BY DEF Kept, Numbers
  <2> QED BY <2>1, OffsetRange
<1>2. typed' \in Seq(Items) /\ Len(typed) <= Len(typed') /\ Len(typed') \in Nat
  <2>1. Len(typed') = Len(typed) + Len(more) /\ Len(more) \in Nat /\ typed' \in Seq(Items)
    BY <1>1
  <2> QED BY <1>1, <2>1
<1>3. Numbers(E)'
  <2>1. seq' = seq /\ inputSequence' = inputSequence
    OBVIOUS
  <2>2. E[seq] <= Len(typed')
    BY <1>1, <1>2
  <2>3. Numbers(E)
    BY <1>1
  <2> QED BY <1>2, <2>1, <2>2, <2>3 DEF Numbers, Offsets
<1>4. Written(E)'
  <2>1. Written(E) /\ seq' \in Nat /\ seq <= seq' /\ E[seq'] \in Nat /\ E[seq] <= E[seq']
    BY <1>1 DEF Kept
  <2> QED BY <1>1, <2>1, WrittenGrows
<1>5. \A r : Copy(E, r) => CopyNext(E, r)
  <2>1. seq' \in Nat /\ seq <= seq'
    BY <1>1
  <2> QED BY <1>1, <2>1, CopyGrows
<1>6. Travelling(E)'
  <2>1. ASSUME NEW m \in net, m.req.op = "send"
        PROVE  /\ CopyNext(E, m.req) /\ m.next \in 1 .. Len(m.req.frames)
               /\ Number(m) <= inputSequence + 1
    BY <1>5, <2>1 DEF Kept, Travelling
  <2>2. net' = net /\ inputSequence' = inputSequence
    OBVIOUS
  <2> QED BY <2>1, <2>2 DEF Travelling, Copy, CopyNext, LastOf, Number
<1>7. Sender(E)'
  <2>1. queue = SubSeq(typed, E[seq] + 1, Len(typed))
    BY DEF Kept, Sender
  <2>2. queue' = SubSeq(typed', E[seq] + 1, Len(typed'))
    BY <1>1, <2>1, QueueGrows
  <2>3. sending # None => CopyNext(E, sending) /\ LastOf(sending) = seq
                          /\ sending.seq <= inputSequence + 1
    BY <1>5 DEF Kept, Sender
  <2>4. sending = None => seq <= inputSequence
    BY DEF Kept, Sender
  <2>5. /\ sending' = sending /\ seq' = seq /\ inputSequence' = inputSequence
        /\ state' = "open"
    OBVIOUS
  <2> QED BY <2>2, <2>3, <2>4, <2>5 DEF Sender, Copy, CopyNext, LastOf
<1> QED BY <1>3, <1>4, <1>6, <1>7 DEF Kept

-----------------------------------------------------------------------------
(* One step of the input direction, and of the channel it implements.      *)
Same == UNCHANGED <<typed, ttydIn>>
Goes == (\E F : Kept(F)') /\ Answers' /\ (In!Next \/ Same)

LEMMA ReadsGoes ==
  ASSUME NEW E, Kept(E), Reads(E), UNCHANGED typed
  PROVE  In!Next \/ Same
<1>1. CASE ttydIn' = ttydIn
  BY <1>1 DEF Same
<1>2. CASE /\ inputSequence + 1 <= seq
           /\ ttydIn = SubSeq(typed, 1, E[inputSequence])
           /\ ttydIn' = SubSeq(typed, 1, E[inputSequence + 1])
  <2> DEFINE a == E[inputSequence]
             b == E[inputSequence + 1]
  <2>1. /\ inputSequence \in Nat /\ seq \in Nat /\ Numbers(E) /\ typed \in Seq(Items)
        /\ Offsets(E)
    BY DEF Kept, Numbers
  <2>2. inputSequence \in 0 .. seq /\ inputSequence + 1 \in 0 .. seq
    BY <1>2, <2>1
  <2>3. a \in 0 .. Len(typed) /\ b \in 0 .. Len(typed)
    BY <2>1, <2>2, OffsetRange
  <2>4. a < b
    BY <2>1, <2>2 DEF Offsets
  <2> HIDE DEF a, b
  <2>5. Len(typed) \in Nat /\ \A n \in 1 .. a : typed[n] \in Items
    BY <2>1, <2>3
  <2>6. Len(SubSeq(typed, 1, a)) = a
    BY <2>1, <2>3, <2>5, SubSeqProperties
  <2>7. Len(ttydIn) = a /\ ttydIn' = SubSeq(typed, 1, b)
    BY <1>2, <2>6 DEF a, b
  <2>8. b \in Len(ttydIn) + 1 .. Len(typed)
    BY <2>3, <2>4, <2>5, <2>7
  <2>9. In!Receive
    BY <2>7, <2>8 DEF In!Receive
  <2> QED BY <2>9 DEF In!Next
<1> QED BY <1>1, <1>2 DEF Reads

LEMMA SendsGoes ==
  ASSUME NEW more \in Seq(Items), more # <<>>, typed \in Seq(Items), typed' = typed \o more,
         UNCHANGED ttydIn
  PROVE  In!Next
<1>1. Len(typed') = Len(typed) + Len(more) /\ Len(more) \in Nat \ {0} /\ Len(typed) \in Nat
  OBVIOUS
<1>2. SubSeq(typed', 1, Len(typed)) = SubSeq(typed, 1, Len(typed))
  BY <1>1, CutStays
<1>3. SubSeq(typed, 1, Len(typed)) = typed
  BY SubSeqFull
<1>4. Len(typed') > Len(typed)
  BY <1>1
<1> QED BY <1>2, <1>3, <1>4 DEF In!Next, In!Send

(* A step of another part of the transport.                                *)
LEMMA Aside ==
  ASSUME NEW E, Kept(E), Answers,
         UNCHANGED <<typed, seq, queue, sending, state, ttydIn, inputSequence>>,
         relay' \in {"none", "open"} => relay \in {"none", "open"},
         \A m \in net' : m.req.op = "send" => m \in net, replies' \subseteq replies
  PROVE  Goes
<1>1. Kept(E)'
  BY KeptWhile
<1>2. Answers'
  BY DEF Answers, LastOf
<1> QED BY <1>1, <1>2 DEF Goes, Same

LEMMA GivesUp ==
  ASSUME NEW E, Kept(E), Fail \/ Shut("finished", {}),
         UNCHANGED <<typed, ttydIn, inputSequence, relay>>
  PROVE  Goes
<1>1. CASE Fail
  <2>1. \A r \in {[op |-> "close"]} : r.op = "close"
    OBVIOUS
  <2> QED BY <1>1, <2>1, ShutKeeps DEF Fail, Goes, Same
<1>2. CASE Shut("finished", {})
  BY <1>2, ShutKeeps DEF Goes, Same
<1> QED BY <1>1, <1>2

LEMMA OpenedGoes ==
  ASSUME NEW E, Kept(E), Answers, Opened \/ OpenLost, Inv
  PROVE  Goes
<1> USE DEF ttyd, page
<1>0. /\ UNCHANGED <<typed, ttydIn, inputSequence, relay>> /\ state = "connecting"
  BY DEF Opened, OpenLost
<1>1. CASE Fail
  BY <1>0, <1>1, GivesUp
<1>2. CASE Opened /\ ~ Fail
  <2>1. /\ state' = "open" /\ replies' \subseteq replies
        /\ UNCHANGED <<seq, queue, sending, net>>
    BY <1>2 DEF Opened, sender
  <2>2. seq = 0 /\ typed = <<>> /\ sending = None /\ queue = <<>> /\ inputSequence = 0
        /\ E[0] = 0
    <3>1. seq = 0 /\ typed = <<>> /\ sending = None /\ queue = <<>>
      BY <1>0 DEF Kept, Sender
    <3>2. inputSequence \in Nat /\ inputSequence <= seq /\ E[0] = 0
      BY DEF Kept, Numbers, Offsets
    <3> QED BY <3>1, <3>2
  <2>3. queue = SubSeq(typed, E[seq] + 1, Len(typed))
    <3>1. SubSeq(<<>>, 1, 0) = <<>>
      BY SubSeqEmpty
    <3> QED BY <2>2, <3>1
  <2>4. Sender(E)'
    BY <1>0, <2>1, <2>2, <2>3 DEF Sender
  <2>5. Numbers(E)' /\ Written(E)' /\ Travelling(E)'
    BY <1>0, <2>1 DEF Kept, Numbers, Offsets, Written, Travelling, Copy, LastOf, Number
  <2>6. Answers'
    BY <1>0, <2>1 DEF Answers, LastOf
  <2> QED BY <1>0, <2>4, <2>5, <2>6 DEF Goes, Same, Kept
<1>3. CASE OpenLost /\ ~ Fail
  <2>1. PICK t \in Nat : opening = [op |-> "open", try |-> t]
    BY <1>0 DEF Inv, Acks
  <2>2. Again(opening) = [op |-> "open", try |-> t + 1]
    BY <2>1 DEF Again
  <2>3. /\ net' = net \union {Under(Again(opening))} /\ replies' \subseteq replies
        /\ UNCHANGED <<state, seq, queue, sending>>
    BY <1>3 DEF OpenLost, Resend, sender
  <2>4. \A m \in net' : m.req.op = "send" => m \in net
    BY <2>2, <2>3 DEF Under
  <2> QED BY <1>0, <2>3, <2>4, Aside
<1> QED BY <1>1, <1>2, <1>3

LEMMA SendGoes ==
  ASSUME NoSend, NEW E, Kept(E), Answers, NEW items \in Seq(Items), items # <<>>,
         NEW waits, Send(items, waits)
  PROVE  Goes
<1>0. UNCHANGED <<ttydIn, relay, inputSequence>> /\ state = "open"
  BY DEF Send, ttyd
<1>1. CASE Fail /\ UNCHANGED typed
  BY <1>0, <1>1, GivesUp
<1>2. CASE ~ (Fail /\ UNCHANGED typed)
  <2>1. /\ typed' = typed \o items /\ replies' = replies /\ state' = state
        /\ IF waits \/ sending # None
           THEN queue' = queue \o items /\ UNCHANGED <<seq, sending, net>>
           ELSE Flush(queue \o items)
    BY <1>2 DEF Send
  <2>2. Answers'
    BY <1>0, <2>1 DEF Answers, LastOf
  <2>3. typed \in Seq(Items) /\ Numbers(E)
    BY DEF Kept, Numbers
  <2>4. In!Next
    BY <1>0, <2>1, <2>3, SendsGoes
  <2>5. CASE waits \/ sending # None
    <3>1. Kept(E)'
      BY <1>0, <2>1, <2>5, WaitKeeps
    <3> QED BY <2>2, <2>4, <3>1 DEF Goes
  <2>6. CASE ~ (waits \/ sending # None)
    <3> DEFINE q == queue \o items
    <3>1. queue = SubSeq(typed, E[seq] + 1, Len(typed)) /\ seq <= inputSequence
      BY <1>0, <2>6 DEF Kept, Sender
    <3>2. seq \in 0 .. seq
      BY DEF Kept, Numbers
    <3>3. E[seq] \in 0 .. Len(typed)
      BY <2>3, <3>2, OffsetRange
    <3>4. q = SubSeq(typed', E[seq] + 1, Len(typed'))
      BY <2>1, <2>3, <3>1, <3>3, QueueGrows
    <3>5. q # <<>>
      <4>1. queue \in Seq(Items)
        BY <2>3, <3>1, <3>3, CutRest
      <4> QED BY <4>1
    <3> HIDE DEF q
    <3>6. Flush(q)
      BY <2>1, <2>6 DEF q
    <3>7. Flushes(E, items, q)
      BY <1>0, <2>1, <3>1, <3>4, <3>5, <3>6 DEF Flushes
    <3> QED BY <2>2, <2>4, <3>7, FlushKeeps DEF Goes
  <2> QED BY <2>5, <2>6
<1> QED BY <1>1, <1>2

(* The next request of what waits, when the one before is done.            *)
LEMMA FlushGoes ==
  ASSUME NoSend, NEW E, Kept(E), Answers, Flush(queue), state = "open" => seq <= inputSequence,
         replies' \subseteq replies,
         UNCHANGED <<state, typed, ttydIn, inputSequence, relay>>
  PROVE  Goes
<1>1. Answers'
  BY DEF Answers, LastOf
<1>2. CASE queue = <<>>
  <2>1. Kept(E)'
    BY <1>2, IdleKeeps
  <2> QED BY <1>1, <2>1 DEF Goes, Same
<1>3. CASE queue # <<>>
  <2>1. state = "open" /\ queue = SubSeq(typed, E[seq] + 1, Len(typed))
    BY <1>3 DEF Kept, Sender
  <2>2. typed \in Seq(Items) /\ <<>> \in Seq(Items)
    BY DEF Kept, Numbers
  <2>3. typed \o <<>> = typed
    BY <2>2, ConcatEmptySeq
  <2>4. Flushes(E, <<>>, queue)
    BY <1>3, <2>1, <2>3 DEF Flushes
  <2>5. \E F : Kept(F)'
    BY <2>2, <2>4, FlushKeeps
  <2> QED BY <1>1, <2>5 DEF Goes, Same
<1> QED BY <1>2, <1>3

LEMMA FlushResizesGoes ==
  ASSUME NoSend, NEW E, Kept(E), Answers, FlushResizes
  PROVE  Goes
<1>1. /\ state = "open" /\ sending = None /\ Flush(queue) /\ replies' = replies
      /\ UNCHANGED <<state, typed, ttydIn, inputSequence, relay>>
  BY DEF FlushResizes, ttyd, page
<1>2. seq <= inputSequence
  BY <1>1 DEF Kept, Sender
<1> QED BY <1>1, <1>2, FlushGoes

LEMMA SentGoes ==
  ASSUME NoSend, NEW E, Kept(E), Answers, Inv, Sent
  PROVE  Goes
<1>1. UNCHANGED <<typed, ttydIn, inputSequence, relay>>
  BY DEF Sent, ttyd, page
<1>2. PICK r \in replies :
        /\ r.to = sending
        /\ IF r.status = "ok"
           THEN /\ Flush(queue) /\ replies' = replies \ {r}
                /\ UNCHANGED <<state, opening, acking, stream, chan, failures>>
           ELSE Fail
  BY DEF Sent
<1>3. CASE r.status # "ok"
  BY <1>1, <1>2, <1>3, GivesUp
<1>4. CASE r.status = "ok"
  <2>1. state = "open" => seq <= inputSequence
    <3>1. CASE sending = None
      BY <3>1 DEF Kept, Sender
    <3>2. CASE sending # None
      <4>1. sending.op = "send"
        BY <3>2 DEF Inv, Acks
      <4>2. LastOf(sending) \in 0 .. inputSequence /\ LastOf(sending) = seq
        BY <1>2, <1>4, <3>2, <4>1 DEF Answers, Kept, Sender
      <4> QED BY <4>2 DEF Kept, Numbers
    <3> QED BY <3>1, <3>2
  <2>2. /\ Flush(queue) /\ replies' \subseteq replies /\ UNCHANGED state
    BY <1>2, <1>4
  <2> QED BY <1>1, <2>1, <2>2, FlushGoes
<1> QED BY <1>3, <1>4

(* A repeated request is the same frames under the same numbers.           *)
LEMMA SendLostGoes ==
  ASSUME NoSend, NEW E, Kept(E), Answers, Inv, SendLost
  PROVE  Goes
<1>1. UNCHANGED <<typed, ttydIn, inputSequence, relay>> /\ sending # None
  BY DEF SendLost, ttyd, page
<1>2. CASE Fail
  BY <1>1, <1>2, GivesUp
<1>3. CASE ~ Fail
  <2> DEFINE again == Again(sending)
  <2>1. /\ sending' = again /\ net' = net \union {Under(again)}
        /\ replies' \subseteq replies /\ UNCHANGED <<state, seq, queue>>
    BY <1>3 DEF SendLost, Resend
  <2>2. PICK n, fs, t : sending = [op |-> "send", seq |-> n, frames |-> fs, try |-> t]
    BY <1>1 DEF Inv, Acks
  <2>3. again = [op |-> "send", seq |-> n, frames |-> fs, try |-> t + 1]
    BY <2>2 DEF Again
  <2>4. /\ Copy(E, sending) /\ LastOf(sending) = seq /\ sending.seq <= inputSequence + 1
    BY <1>1 DEF Kept, Sender
  <2> HIDE DEF again
  <2>5. Copy(E, again) /\ LastOf(again) = seq
    BY <2>2, <2>3, <2>4, CopyOfAgain
  <2>6. again # None /\ again.seq = sending.seq /\ again.op = "send"
    BY <2>2, <2>3 DEF NoSend
  <2>7. Numbers(E)' /\ Written(E)'
    BY <1>1, <2>1 DEF Kept, Numbers, Offsets, Written
  <2>8. Sender(E)'
    <3>1. state # "connecting"
      BY <1>1 DEF Kept, Sender
    <3> QED BY <1>1, <2>1, <2>4, <2>5, <2>6, <3>1 DEF Kept, Sender, Copy, LastOf
  <2>9. Travelling(E)'
    <3>1. ASSUME NEW m \in net', m.req.op = "send"
          PROVE  /\ Copy(E, m.req) /\ m.next \in 1 .. Len(m.req.frames)
                 /\ Number(m) <= inputSequence + 1
      <4>1. CASE m \in net
        BY <3>1, <4>1 DEF Kept, Travelling
      <4>2. CASE m = Under(again)
        <5>1. m.req = again /\ m.next = 1
          BY <4>2 DEF Under
        <5>2. again.seq \in Nat /\ Len(again.frames) \in Nat \ {0}
          BY <2>5 DEF Copy
        <5>3. again.seq + 1 - 1 <= inputSequence + 1
          BY <2>4, <2>6, <5>2
        <5> QED BY <2>5, <5>1, <5>2, <5>3 DEF Number
      <4> QED BY <2>1, <3>1, <4>1, <4>2
    <3> QED BY <1>1, <2>1, <3>1 DEF Travelling, Copy, LastOf, Number
  <2>10. Answers'
    BY <1>1, <2>1 DEF Answers, LastOf
  <2> QED BY <1>1, <2>7, <2>8, <2>9, <2>10 DEF Goes, Same, Kept
<1> QED BY <1>2, <1>3

(* Output, its acknowledgements and the ends of a connection.              *)
LEMMA OutputGoes ==
  ASSUME NEW E, Kept(E), Answers, Inv,
         \/ Produce \/ Hangup \/ ReadFrame \/ ReadEnd \/ ServeStream \/ StreamMore
         \/ StreamDeadline \/ Expire \/ AskStream \/ StreamDone \/ Ack
  PROVE  Goes
<1> USE DEF ttyd, page, sender, wire, receiver
<1>1. /\ UNCHANGED <<typed, seq, queue, sending, state, ttydIn, inputSequence, replies>>
      /\ relay' \in {"none", "open"} => relay \in {"none", "open"}
  BY DEF Produce, Hangup, ReadFrame, ReadEnd, ServeStream, StreamMore, StreamDeadline,
     Expire, AskStream, StreamDone, Ack
<1>2. \A m \in net' : m.req.op = "send" => m \in net
  BY DEF Produce, Hangup, ReadFrame, ReadEnd, ServeStream, StreamMore, StreamDeadline,
     Expire, AskStream, StreamDone, Ack, Under
<1> QED BY <1>1, <1>2, Aside

LEMMA StreamGoes ==
  ASSUME NEW E, Kept(E), Answers, Inv,
         \/ StreamRefused \/ StreamLost \/ Deliver \/ Acked \/ AckLost \/ Close
  PROVE  Goes
<1> USE DEF ttyd, page, sender, wire, receiver
<1>1. UNCHANGED <<typed, ttydIn, inputSequence, relay>>
  BY DEF StreamRefused, StreamLost, Deliver, Acked, AckLost, Close
<1>2. CASE Fail \/ Shut("finished", {})
  BY <1>1, <1>2, GivesUp
<1>3. CASE ~ (Fail \/ Shut("finished", {}))
  <2>1. ~ StreamRefused /\ ~ Close
    BY <1>3 DEF StreamRefused, Close
  <2>2. UNCHANGED <<state, seq, queue, sending>> /\ replies' \subseteq replies
    BY <1>3, <2>1 DEF StreamLost, Deliver, Acked, AckLost, Resend
  <2>3. \A m \in net' : m.req.op = "send" => m \in net
    <3>1. CASE AckLost
      <4>1. PICK a \in Nat : \E t : acking = [op |-> "ack", after |-> a, try |-> t]
        BY <3>1 DEF AckLost, Inv, Acks
      <4>2. PICK t : acking = [op |-> "ack", after |-> a, try |-> t]
        BY <4>1
      <4>3. Again(acking).op = "ack"
        BY <4>2 DEF Again
      <4>4. net' = net \union {Under(Again(acking))}
        BY <1>3, <3>1 DEF AckLost, Resend
      <4> QED BY <4>3, <4>4 DEF Under
    <3>2. CASE StreamLost
      <4>1. net' = net \union LateStream
        BY <1>3, <3>2 DEF StreamLost
      <4> QED BY <4>1 DEF LateStream, Under
    <3>3. CASE Deliver \/ Acked
      BY <1>3, <3>3 DEF Deliver, Acked
    <3> QED BY <2>1, <3>1, <3>2, <3>3
  <2> QED BY <1>1, <2>2, <2>3, Aside
<1> QED BY <1>2, <1>3

LEMMA ServeGoes ==
  ASSUME Inv, NEW E, Kept(E), Answers, NEW m \in net, Serve(m)
  PROVE  Goes
<1>1. Kept(E)' /\ Answers' /\ Reads(E)
  BY ServeInput
<1>2. UNCHANGED typed
  BY ServeLeaves
<1> QED BY <1>1, <1>2, ReadsGoes DEF Goes

(* The cursor of a stream request is one the relay knows.                  *)
LEMMA StreamInStep ==
  ASSUME Inv, Next, stream.state # "gap"
  PROVE  stream'.state # "gap"
<1>1. CASE ServeStream
  <2>1. stream.state = "asked" /\ stream.after = after
    BY <1>1 DEF ServeStream, Inv, Chained
  <2>2. Acknowledgeable(stream.after)
    BY <2>1 DEF Inv, Received, Acknowledgeable
  <2>3. stream = [state |-> stream.state, after |-> stream.after]
    BY DEF Inv, Chained
  <2>4. CASE Registered
    BY <1>1, <2>2, <2>4 DEF ServeStream
  <2>5. CASE ~ Registered
    <3>1. stream' = [stream EXCEPT !.state = "expired"]
      BY <1>1, <2>5 DEF ServeStream
    <3>2. stream' = [state |-> "expired", after |-> stream.after]
      BY <2>3, <3>1
    <3> QED BY <3>2
  <2> QED BY <2>4, <2>5
<1>2. CASE StreamMore \/ StreamDeadline \/ AskStream
  <2>1. stream = [state |-> stream.state, after |-> stream.after]
    BY DEF Inv, Chained
  <2>2. stream'.state \in {"live", "ended", "asked"}
    BY <1>2, <2>1 DEF StreamMore, StreamDeadline, AskStream
  <2> QED BY <2>2
<1>3. CASE Deliver
  BY <1>3 DEF Deliver, Shut
<1>4. CASE UNCHANGED stream \/ stream' = [state |-> "idle", after |-> 0]
  BY <1>4
<1> QED BY <1>1, <1>2, <1>3, <1>4, StreamMoves

LEMMA InputStep ==
  ASSUME NoSend, Inv, InputInv, Next
  PROVE  InputInv' /\ (In!Next \/ Same)
<1>1. PICK E : Kept(E)
  BY DEF InputInv
<1>2. Answers /\ stream.state # "gap"
  BY DEF InputInv
<1>3. Goes
  <2>1. CASE \E m \in net : Serve(m)
    BY <1>1, <1>2, <2>1, ServeGoes
  <2>2. CASE (\E kind \in Keys : Type(kind)) \/ Nudge
    <3>1. Len(typed) + 1 \in Nat /\ Len(typed) + 2 \in Nat
      BY <1>1 DEF Kept, Numbers
    <3>2. ASSUME NEW kind \in Keys, Type(kind)
          PROVE  Goes
      <4>1. <<Item(kind, Len(typed) + 1)>> \in Seq(Items)
        BY <3>1 DEF Item, Items
      <4>2. <<Item(kind, Len(typed) + 1)>> # <<>>
        OBVIOUS
      <4> QED BY <1>1, <1>2, <3>2, <4>1, <4>2, SendGoes DEF Type
    <3>3. CASE Nudge
      <4> DEFINE items == <<Item("nudge", Len(typed) + 1), Item("resize", Len(typed) + 2)>>
      <4>1. items \in Seq(Items) /\ items # <<>>
        BY <3>1 DEF Item, Items
      <4>2. Send(items, TRUE)
        BY <3>3 DEF Nudge
      <4> HIDE DEF items
      <4> QED BY <1>1, <1>2, <4>1, <4>2, SendGoes
    <3> QED BY <2>2, <3>2, <3>3
  <2> QED BY <1>1, <1>2, <2>1, <2>2, OpenedGoes, FlushResizesGoes, SentGoes, SendLostGoes,
             OutputGoes, StreamGoes DEF Next
<1>4. stream'.state # "gap"
  BY <1>2, StreamInStep
<1> QED BY <1>3, <1>4 DEF Goes, InputInv

LEMMA InputInit == ASSUME Init PROVE InputInv
<1> DEFINE E == [n \in Nat |-> 0]
<1>1. Numbers(E)
  BY DEF Init, Numbers, Offsets
<1>2. Written(E)
  <2>1. SubSeq(<<>>, 1, 0) = <<>>
    BY SubSeqEmpty
  <2>2. 0 \in 0 .. E[0] /\ E[0] = 0
    OBVIOUS
  <2> QED BY <2>1, <2>2 DEF Init, Written
<1>3. Travelling(E)
  BY DEF Init, Travelling, Under
<1>4. Sender(E)
  BY DEF Init, Sender
<1>5. Answers /\ stream.state # "gap"
  BY DEF Init, Answers
<1> QED BY <1>1, <1>2, <1>3, <1>4, <1>5 DEF InputInv, Kept

-----------------------------------------------------------------------------
(* What the page sends arrives as over a channel, and no copy of a         *)
(* request, however late or repeated, makes either end give the            *)
(* connection up as out of step (Relay.send, _flush, stream_output).       *)
THEOREM InputArrivesExactly ==
  ASSUME NoSend
  PROVE  Spec => InputIsExact
<1>1. Init => InputInv /\ In!Init
  BY InputInit DEF Init, In!Init
<1>2. ASSUME Inv, InputInv, [Next]_vars
      PROVE  InputInv' /\ [In!Next]_<<typed, ttydIn>>
  <2>1. CASE Next
    BY <1>2, <2>1, InputStep DEF Same
  <2>2. CASE UNCHANGED vars
    <3>1. UNCHANGED <<typed, seq, queue, sending, state, ttydIn, inputSequence, relay, net,
                      replies, stream>>
      BY <2>2 DEF vars, ttyd, output, sender, receiver, page, wire
    <3>2. PICK E : Kept(E)
      BY <1>2 DEF InputInv
    <3>3. Answers
      BY <1>2 DEF InputInv
    <3>4. Goes
      BY <3>1, <3>2, <3>3, Aside
    <3> QED BY <1>2, <3>1, <3>4 DEF Goes, InputInv
  <2> QED BY <1>2, <2>1, <2>2
<1>3. InputInv => NeverOutOfStep
  BY DEF InputInv, Answers, NeverOutOfStep
<1> QED BY <1>1, <1>2, <1>3, Consistent, PTL DEF Spec, InputIsExact, InputIsChannel, In!Spec
===============================================================================
