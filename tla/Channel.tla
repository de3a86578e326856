------------------------------- MODULE Channel -------------------------------
(***************************************************************************)
(* What one direction of a terminal connection promises its two ends: the  *)
(* receiver sees a prefix of what the sender sent: in order, no item twice *)
(* and none left out, whatever happens on the wire.                        *)
(***************************************************************************)
EXTENDS Naturals, Sequences

VARIABLES sent, received

Init == sent = <<>> /\ received = <<>>

(* The sender adds items; what it sent before stays as it was.             *)
Send ==
  /\ Len(sent') > Len(sent) /\ SubSeq(sent', 1, Len(sent)) = sent
  /\ UNCHANGED received

Receive ==
  /\ \E n \in Len(received) + 1 .. Len(sent) : received' = SubSeq(sent, 1, n)
  /\ UNCHANGED sent

Next == Send \/ Receive

Spec == Init /\ [][Next]_<<sent, received>>
==============================================================================
