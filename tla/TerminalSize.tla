------------------------------ MODULE TerminalSize ------------------------------
(***************************************************************************)
(* Whose shape a shared terminal has (apps/everyday/terminal/              *)
(* terminal-kbd.js).  Several devices show one pseudo-terminal, which has  *)
(* the size it was last sent; a page claims it by sending a size one       *)
(* column narrower and its own again, so that the program redraws.         *)
(***************************************************************************)
EXTENDS Naturals

CONSTANTS
  Devices,
  Touch,      \* those with a touch screen
  MaxEvents,  \* bound: what users, windows and networks do
  None

VARIABLES
  shape,      \* the device whose size the terminal has
  hidden,     \* the page is in the background
  laid,       \* its tab is the one shown: clientWidth > 0
  sock,       \* its connection: closed; connecting, or stalled once the 8 s that
              \* start with the socket are over; replaying, open; late, when it
              \* opened after them
  reading,    \* scrolled into history
  due,        \* claimSoon's timer
  recent,     \* it claimed for an interaction within the last second
  turn,       \* history: the touch device brought to the front since anyone else acted
  events

vars == <<shape, hidden, laid, sock, reading, due, recent, turn, events>>
window == <<hidden, laid>>

Init ==
  /\ shape \in Devices
  /\ hidden \in [Devices -> BOOLEAN] /\ laid \in [Devices -> BOOLEAN]
  /\ sock = [d \in Devices |-> "open"]
  /\ reading = [d \in Devices |-> FALSE] /\ due = [d \in Devices |-> FALSE]
  /\ recent = [d \in Devices |-> FALSE] /\ turn = None /\ events = 0

Event == events < MaxEvents /\ events' = events + 1
InFront(d) == ~hidden[d] /\ laid[d]

Up(d) == sock[d] \in {"replaying", "open", "late"}

(* claimSize: through the socket, or not at all.                           *)
Claim(d) == shape' = IF Up(d) THEN d ELSE shape

-----------------------------------------------------------------------------
(* A click, a tap or a key claims, not more than once a second; a double   *)
(* click and two fingers always.                                           *)
Heeded(d, kind) ==
  /\ kind \in {"key", "input"} => d \notin Touch
  /\ ~recent[d]
Interact(d, kind) ==
  /\ Event /\ InFront(d)
  /\ IF Heeded(d, kind) THEN Claim(d) /\ recent' = [recent EXCEPT ![d] = TRUE]
     ELSE UNCHANGED <<shape, recent>>
  /\ turn' = IF turn = d THEN d ELSE None
  /\ UNCHANGED <<window, sock, reading, due>>
SecondPasses(d) ==
  /\ recent[d] /\ recent' = [recent EXCEPT ![d] = FALSE]
  /\ UNCHANGED <<shape, window, sock, reading, due, turn, events>>

ClaimGesture(d) ==
  /\ Event /\ InFront(d) /\ Claim(d) /\ turn' = IF turn = d THEN d ELSE None
  /\ UNCHANGED <<window, sock, reading, due, recent>>

(* The page's own size changed: ttyd sends it.                             *)
Fitted(d) ==
  /\ Event /\ InFront(d) /\ Up(d) /\ shape' = d
  /\ due' = [due EXCEPT ![d] = @ \/ d \in Touch]     \* the soft keyboard came or went
  /\ turn' = IF turn = d THEN d ELSE None
  /\ UNCHANGED <<window, sock, reading, recent>>

-----------------------------------------------------------------------------
(* A page comes to the front, or its tab does.  On a desktop the terminal  *)
(* is fitted again, which sends nothing when its size is what it was.      *)
ClaimSoon(d) == due' = [due EXCEPT ![d] = @ \/ d \in Touch]
ToFront(d) ==
  /\ ClaimSoon(d)
  /\ turn' = IF d \in Touch /\ InFront(d)' THEN d ELSE turn
  /\ UNCHANGED <<shape, sock, reading, recent>>
Foreground(d) ==
  /\ Event /\ hidden[d] /\ hidden' = [hidden EXCEPT ![d] = FALSE] /\ UNCHANGED laid
  /\ ToFront(d)
TabShown(d) ==
  /\ Event /\ ~laid[d] /\ ~hidden[d] /\ laid' = [laid EXCEPT ![d] = TRUE] /\ UNCHANGED hidden
  /\ ToFront(d)
Away(d) ==
  /\ Event
  /\ \/ ~hidden[d] /\ hidden' = [hidden EXCEPT ![d] = TRUE] /\ UNCHANGED laid
     \/ InFront(d) /\ laid' = [laid EXCEPT ![d] = FALSE] /\ UNCHANGED hidden
  /\ turn' = IF turn = d THEN None ELSE turn
  /\ UNCHANGED <<shape, sock, reading, due, recent>>

ClaimTimer(d) ==
  /\ due[d] /\ due' = [due EXCEPT ![d] = FALSE]
  /\ IF InFront(d) THEN Claim(d) ELSE UNCHANGED shape
  /\ UNCHANGED <<window, sock, reading, recent, turn, events>>

-----------------------------------------------------------------------------
(* A connection is lost and comes back; it changes no size, but when the   *)
(* replay is over a touch screen that shows it claims: loadingBar's `fin`, *)
(* after 300 ms without output, or at its cap of 8 s.  The cap runs from   *)
(* the construction of the socket and `fin` runs once: a socket that opens *)
(* after it claims nothing at the end of its replay.                       *)
Drops(d) ==
  /\ Event /\ sock[d] # "closed" /\ sock' = [sock EXCEPT ![d] = "closed"]
  /\ UNCHANGED <<shape, window, reading, due, recent, turn>>
Opens(d) ==
  /\ sock[d] = "closed" /\ sock' = [sock EXCEPT ![d] = "connecting"]
  /\ UNCHANGED <<shape, window, reading, due, recent, turn, events>>
CapFires(d) ==
  /\ sock[d] = "connecting" /\ sock' = [sock EXCEPT ![d] = "stalled"]
  /\ UNCHANGED <<shape, window, reading, due, recent, turn, events>>
Connected(d) ==
  /\ sock[d] \in {"connecting", "stalled"}
  /\ sock' = [sock EXCEPT ![d] = IF @ = "connecting" THEN "replaying" ELSE "late"]
  /\ reading' = [reading EXCEPT ![d] = FALSE]
  /\ UNCHANGED <<shape, window, due, recent, turn, events>>

Passive(d) == UNCHANGED shape                          \* (mutant: a reconnect is passive)
AfterReplay(d) ==
  IF d \in Touch /\ InFront(d) /\ ~reading[d] THEN Claim(d) ELSE UNCHANGED shape
ReplayEnds(d) ==
  /\ sock[d] = "replaying" /\ sock' = [sock EXCEPT ![d] = "open"]
  /\ AfterReplay(d)
  /\ UNCHANGED <<window, reading, due, recent, turn, events>>

(* A reader of history keeps what they see.                                *)
Read(d) ==
  /\ Event /\ InFront(d) /\ ~reading[d] /\ reading' = [reading EXCEPT ![d] = TRUE]
  /\ turn' = IF turn = d /\ sock[d] = "replaying" THEN None ELSE turn
  /\ UNCHANGED <<shape, window, sock, due, recent>>

Next == \E d \in Devices :
  \/ \E kind \in {"pointer", "key", "input"} : Interact(d, kind)
  \/ SecondPasses(d) \/ ClaimGesture(d) \/ Fitted(d)
  \/ Foreground(d) \/ TabShown(d) \/ Away(d) \/ ClaimTimer(d)
  \/ Drops(d) \/ Opens(d) \/ CapFires(d) \/ Connected(d) \/ ReplayEnds(d) \/ Read(d)

Spec == Init /\ [][Next]_vars

(* Timers run, replays end, and a connection that was lost comes back,     *)
(* sooner or later than the cap.                                           *)
FairSpec ==
  /\ Spec
  /\ \A d \in Devices : /\ WF_vars(ClaimTimer(d)) /\ WF_vars(ReplayEnds(d))
                         /\ WF_vars(Opens(d)) /\ WF_vars(Connected(d))

-----------------------------------------------------------------------------
(* A phone brought to the front gets the terminal in its own shape without *)
(* a gesture, however its connection comes and goes meanwhile, unless      *)
(* somebody uses another device, it is put away, or a connection opens     *)
(* only after the cap: then it waits for the next tap, size or front.      *)
FrontGetsShape == \A d \in Touch : turn = d ~> (shape = d \/ turn # d \/ sock[d] = "late")
=============================================================================
