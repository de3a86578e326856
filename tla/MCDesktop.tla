------------------------------ MODULE MCDesktop ------------------------------
(***************************************************************************)
(* Small instances, for TLC, of the parts of the terminal's page and of    *)
(* the desktop.  They share no state: a behaviour picks one of them, its   *)
(* focus, and explores it alone, while the others stay as they start.      *)
(***************************************************************************)
EXTENDS TerminalConnection, TerminalReader, TerminalTyping, TerminalGestures, GameScore, WindowManager

CONSTANTS NoValue, phone, desk

\* For WindowManager: two frames, of which the second is narrower than a
\* layout needs, and three windows.
TwoFrames == {[w |-> 1400, h |-> 901], [w |-> 980, h |-> 700]}
ThreeWindows == <<"a", "b", "c">>

VARIABLES
  focus,
  shape, sizeHidden, laid, sizeSock, reading, sizeDue, claimed, turn, turns,  \* TerminalSize
  site, signedIn, worker, coming, caches, net, nav, loads, expired, \* ServiceWorker
  dev, reg, targets, epoch, flag, sent, acts, faults                \* SharedDesk

Size == INSTANCE TerminalSize WITH
  Devices <- {phone, desk}, Touch <- {phone}, MaxEvents <- 4, None <- NoValue,
  hidden <- sizeHidden, sock <- sizeSock, due <- sizeDue, recent <- claimed, events <- turns
Sw == INSTANCE ServiceWorker WITH
  MaxSite <- 2, MaxLoads <- 2, MaxExpiry <- 1, active <- worker, stored <- caches
Desk == INSTANCE SharedDesk WITH
  Devices <- {phone, desk}, MaxActs <- 3, MaxFaults <- 1, MaxFlying <- 2, net <- sent
sizeVars == <<shape, sizeHidden, laid, sizeSock, reading, sizeDue, claimed, turn, turns>>
swVars == <<site, signedIn, worker, coming, caches, net, nav, loads, expired>>
deskVars == <<dev, reg, targets, epoch, flag, sent, acts, faults>>
mcVars == <<focus, vars, readerVars, typingVars, gestureVars, sizeVars, frameVars,
            swVars, deskVars, scoreVars>>

\* A part that is not in focus starts in one of its states only.
MCInit ==
  /\ focus \in {"connection", "reader", "typing", "gestures", "size", "windows", "worker", "desk", "score"}
  /\ Init /\ ReaderInit /\ TypingInit /\ GesturesInit /\ Size!Init /\ WindowsInit
  /\ Sw!Init /\ Desk!Init /\ ScoreInit
  /\ focus # "connection" => storage
  /\ focus # "size" => shape = desk /\ \A d \in {phone, desk} : ~sizeHidden[d] /\ laid[d]
  /\ focus # "windows" => box.w = 980
  /\ focus # "score" => store.best = 0

MCNext ==
  /\ UNCHANGED focus
  /\ IF focus = "connection" THEN Next ELSE UNCHANGED vars
  /\ IF focus = "reader" THEN ReaderNext ELSE UNCHANGED readerVars
  /\ IF focus = "typing" THEN TypingNext ELSE UNCHANGED typingVars
  /\ IF focus = "gestures" THEN GesturesNext ELSE UNCHANGED gestureVars
  /\ IF focus = "size" THEN Size!Next ELSE UNCHANGED sizeVars
  /\ IF focus = "windows" THEN WindowsNext ELSE UNCHANGED frameVars
  /\ IF focus = "worker" THEN Sw!Next ELSE UNCHANGED swVars
  /\ IF focus = "desk" THEN Desk!Next ELSE UNCHANGED deskVars
  /\ IF focus = "score" THEN ScoreNext ELSE UNCHANGED scoreVars

\* The fairness each part states, for the part in focus.
Fair(f, A) == focus = f /\ A

MCSpec ==
  /\ MCInit /\ [][MCNext]_mcVars
  /\ WF_vars(Fair("connection", Tick(TRUE, TRUE) \/ (JustClosed /\ Tick(TRUE, FALSE))))
  /\ WF_vars(Fair("connection", Show /\ Surroundings)) /\ WF_vars(Fair("connection", NetworkBack /\ Surroundings))
  /\ WF_vars(Fair("connection", PageShow /\ Surroundings))
  /\ \A d \in {phone, desk} :
       /\ WF_sizeVars(Fair("size", Size!ClaimTimer(d))) /\ WF_sizeVars(Fair("size", Size!Opens(d)))
       /\ WF_sizeVars(Fair("size", Size!Connected(d))) /\ WF_sizeVars(Fair("size", Size!ReplayEnds(d)))
  /\ WF_swVars(Fair("worker", Sw!Stalled)) /\ WF_swVars(Fair("worker", Sw!GivenUp))
  /\ WF_swVars(Fair("worker", Sw!Arrive)) /\ WF_swVars(Fair("worker", Sw!Hop))
  /\ \A d \in {phone, desk} :
       /\ \A k \in Desk!Kinds : /\ WF_deskVars(Fair("desk", Desk!Serve(d, k)))
                                /\ WF_deskVars(Fair("desk", Desk!Receive(d, k)))
       /\ WF_deskVars(Fair("desk", Desk!Beat(d))) /\ WF_deskVars(Fair("desk", Desk!GuardEnds(d)))
       /\ WF_deskVars(Fair("desk", Desk!Expire(d)))

------------------------------------------------------------------------------
(* A terminal somebody looks at comes up or says that it failed, and the   *)
(* page does not try for ever by itself: its budget of attempts lasts      *)
(* across reloads.                                                         *)
PageComesUp == ((focus = "connection") => ComesUp) /\ []AttemptsBounded

(* A device that comes to the front gets the terminal in its own shape,    *)
(* unless its connection opens too late.                                   *)
FrontGetsShape == (focus = "size") => Size!FrontGetsShape

(* Every load comes to an end, and never with a page of an older deploy    *)
(* than the worker that answers it.                                        *)
LoadsAnswered == ((focus = "worker") => Sw!LoadsAnswered) /\ []Sw!ServesItsOwn

(* Once nobody touches anything, every device shows what the server has.   *)
DesksConverge == (focus = "desk") => Desk!DesksConverge
==============================================================================
