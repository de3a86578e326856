---------------------------- MODULE SharedDesk ----------------------------
(***************************************************************************)
(* One user's desktop on several devices: the heartbeat that every page    *)
(* posts and the reply it acts on (desktop.html, deskstate.js), the        *)
(* plan-usage switch (usage-strips.js), and the registry the server keeps  *)
(* (_handle_desktop_save and its neighbours in terminal-manager.py).  One  *)
(* app stands for all of them.  Requests and replies travel on their own   *)
(* connections, so they may overtake each other and be lost.               *)
(***************************************************************************)
EXTENDS Integers, FiniteSets

CONSTANTS Devices,
          MaxActs,    \* what the users do
          MaxFaults,  \* messages lost, devices that fall silent
          MaxFlying   \* messages of a device, before it adds a heartbeat

VARIABLES
  dev,     \* the pages
  reg,     \* the registry's entry of each device: the app open, heard of lately
  targets, \* the devices that should close the app
  epoch,   \* resets so far
  flag,    \* the plan-usage strip's switch
  net, acts, faults

vars == <<dev, reg, targets, epoch, flag, net, acts, faults>>

None == -1

(* A page: off, or with its restore request out ("boot"), or up.  "guard"  *)
(* is the time after a switch was used in which replies do not move it.    *)
Off == [up |-> "off", open |-> FALSE, running |-> FALSE, epoch |-> None,
        strip |-> FALSE, guard |-> FALSE]

Request(d, k, o, w) == [at |-> "server", dev |-> d, kind |-> k, open |-> o, want |-> w]

(* The desktop as the server describes it to d; "ok" is FALSE for a call   *)
(* that was refused or got no answer.                                      *)
Reply(d, k, w, ok) ==
  [at |-> "page", dev |-> d, kind |-> k, want |-> w, ok |-> ok, open |-> reg'[d].open,
   running |-> \E x \in Devices : reg'[x].live /\ reg'[x].open,
   epoch |-> epoch', target |-> d \in targets', flag |-> flag']

Init ==
  /\ dev = [d \in Devices |-> Off]
  /\ reg = [d \in Devices |-> [open |-> FALSE, live |-> FALSE]]
  /\ targets = {} /\ epoch = 0 /\ flag = FALSE
  /\ net = {} /\ acts = 0 /\ faults = 0

Up(d) == dev[d].up = "up"
Server == <<reg, targets, epoch, flag>>

---------------------------------------------------------------------------
(* The server.                                                             *)

(* A target stays one while it is heard of and has the app open; the       *)
(* mutant waits for it to fall silent.                                     *)
PrunedWhenSilent(ts, r) == {d \in ts : r[d].live}

Pruned(ts, r) == {d \in ts : r[d].live /\ r[d].open}

(* A heartbeat: the entry is replaced, and the device is no longer a       *)
(* target once it reports the app closed.                                  *)
Save(m) ==
  /\ reg' = [reg EXCEPT ![m.dev] = [open |-> m.open, live |-> TRUE]]
  /\ targets' = Pruned(targets, reg')
  /\ UNCHANGED <<epoch, flag>>

(* Close on all devices: those that have it open are named.                *)
Close(m) ==
  /\ targets' = Pruned(targets \cup {d \in Devices : reg[d].live /\ reg[d].open}, reg)
  /\ UNCHANGED <<reg, epoch, flag>>

(* Log out everywhere: an empty registry and the next epoch.               *)
Reset(m) ==
  /\ reg' = [d \in Devices |-> [open |-> FALSE, live |-> FALSE]]
  /\ targets' = {} /\ epoch' = epoch + 1
  /\ UNCHANGED flag

Switch(m) == flag' = m.want /\ UNCHANGED <<reg, targets, epoch>>

Kinds == {"get", "beat", "close", "reset", "switch"}

Serve(d, k) ==
  \E m \in net :
    /\ m.at = "server" /\ m.dev = d /\ m.kind = k
    /\ \/ m.kind = "beat" /\ Save(m)
       \/ m.kind = "close" /\ Close(m)
       \/ m.kind = "reset" /\ Reset(m)
       \/ m.kind = "switch" /\ Switch(m)
       \/ m.kind = "get" /\ UNCHANGED Server
    /\ net' = (net \ {m}) \cup
              (IF dev[m.dev].up = "off" THEN {} ELSE {Reply(m.dev, m.kind, m.want, TRUE)})
    /\ UNCHANGED <<dev, acts, faults>>

(* The switch is the operator's alone, and may fail: nothing changes.      *)
Refuse ==
  \E m \in net :
    /\ m.at = "server" /\ m.kind = "switch"
    /\ UNCHANGED Server
    /\ net' = (net \ {m}) \cup
              (IF dev[m.dev].up = "off" THEN {} ELSE {Reply(m.dev, m.kind, m.want, FALSE)})
    /\ UNCHANGED <<dev, acts, faults>>

(* No heartbeat for 120 s.                                                 *)
Expire(d) ==
  /\ reg[d].live
  /\ dev[d].up = "off" \/ faults < MaxFaults
  /\ faults' = IF dev[d].up = "off" THEN faults ELSE faults + 1
  /\ reg' = [reg EXCEPT ![d].live = FALSE]
  /\ UNCHANGED <<dev, targets, epoch, flag, net, acts>>

---------------------------------------------------------------------------
(* The page.                                                               *)

Send(m) == net' = net \cup {m}

Act == acts < MaxActs /\ acts' = acts + 1

Start(d) ==
  /\ dev[d].up = "off" /\ Act
  /\ dev' = [dev EXCEPT ![d] = [Off EXCEPT !.up = "boot"]]
  /\ Send(Request(d, "get", FALSE, FALSE))
  /\ UNCHANGED <<Server, faults>>

Leave(d) ==
  /\ dev[d].up # "off" /\ Act
  /\ dev' = [dev EXCEPT ![d] = Off]
  /\ net' = {m \in net : m.at = "server" \/ m.dev # d}
  /\ UNCHANGED <<Server, faults>>

(* launch, closeApp.                                                       *)
OpenClose(d) ==
  /\ Up(d) /\ Act
  /\ dev' = [dev EXCEPT ![d].open = ~@]
  /\ UNCHANGED <<Server, net, faults>>

(* The heartbeat: every 5 s, also while the page still starts, and 150 ms  *)
(* after a change.                                                         *)
Beat(d) ==
  /\ dev[d].up # "off"
  /\ Cardinality({m \in net : m.dev = d}) < MaxFlying
  /\ Send(Request(d, "beat", dev[d].open, FALSE))
  /\ UNCHANGED <<dev, Server, acts, faults>>

CloseEverywhere(d) ==
  /\ Up(d) /\ Act
  /\ Send(Request(d, "close", FALSE, FALSE))
  /\ UNCHANGED <<dev, Server, faults>>

(* Log out of all devices; the page goes to the login form.                *)
LogoutAll(d) ==
  /\ Up(d) /\ Act
  /\ Send(Request(d, "reset", FALSE, FALSE))
  /\ dev' = [dev EXCEPT ![d] = Off]
  /\ UNCHANGED <<Server, faults>>

(* toggleClaudeUsage, toggleCodexUsage: shown at once, guarded for 8 s.    *)
Toggle(d) ==
  /\ Up(d) /\ Act
  /\ dev' = [dev EXCEPT ![d].strip = ~@, ![d].guard = TRUE]
  /\ Send(Request(d, "switch", FALSE, ~dev[d].strip))
  /\ UNCHANGED <<Server, faults>>

GuardEnds(d) ==
  /\ dev[d].guard
  /\ dev' = [dev EXCEPT ![d].guard = FALSE]
  /\ UNCHANGED <<Server, net, acts, faults>>

(* applyServerClaudeUsage, applyServerCodexUsage.                          *)
Strip(p, m) == IF p.guard THEN p.strip ELSE m.flag

(* resetDecision: "baseline", "clear" or nothing; then closeTargetsFor.    *)
Clears(p, m) == p.epoch # None /\ m.epoch > p.epoch
Epoch(p, m) == IF p.epoch = None \/ m.epoch > p.epoch THEN m.epoch ELSE p.epoch

Beaten(p, m) ==
  [p EXCEPT !.strip = Strip(p, m), !.running = m.running, !.epoch = Epoch(p, m),
            !.open = p.open /\ ~Clears(p, m) /\ ~m.target]

(* The restore of the page's own windows; a failed one boots empty.  The   *)
(* epoch is taken as it is.                                                *)
Restored(p, m) ==
  IF m.ok THEN [p EXCEPT !.up = "up", !.open = m.open, !.running = m.running, !.epoch = m.epoch]
  ELSE [p EXCEPT !.up = "up"]

(* The switch's answer: the guard ends; a refusal is undone.               *)
Switched(p, m) == [p EXCEPT !.guard = FALSE, !.strip = IF m.ok THEN p.strip ELSE ~m.want]

(* Only a heartbeat that was answered is acted on, and a close's answer    *)
(* carries nothing but the targets.                                        *)
Handled(p, m) ==
  IF m.kind = "get" THEN Restored(p, m)
  ELSE IF m.kind = "switch" THEN Switched(p, m)
  ELSE IF ~m.ok THEN p
  ELSE IF m.kind = "close" THEN [p EXCEPT !.open = p.open /\ ~m.target]
  ELSE Beaten(p, m)

Receive(d, k) ==
  \E m \in net :
    /\ m.at = "page" /\ m.dev = d /\ m.kind = k
    /\ dev' = [dev EXCEPT ![d] = Handled(dev[d], m)]
    /\ net' = net \ {m}
    /\ UNCHANGED <<Server, acts, faults>>

(* A request, or its answer, is lost.                                      *)
Lose ==
  /\ faults < MaxFaults /\ faults' = faults + 1
  /\ \E m \in net :
       LET d == m.dev IN
       /\ net' = net \ {m}
       /\ dev' = IF dev[d].up = "off" THEN dev
                 ELSE [dev EXCEPT ![d] = Handled(dev[d], [at |-> "page", dev |-> d, kind |-> m.kind,
                                                        want |-> m.want, ok |-> FALSE])]
  /\ UNCHANGED <<Server, acts>>

---------------------------------------------------------------------------
DeviceStep(d) ==
  \/ Start(d) \/ Leave(d) \/ OpenClose(d) \/ Beat(d) \/ CloseEverywhere(d)
  \/ LogoutAll(d) \/ Toggle(d) \/ GuardEnds(d) \/ Expire(d)
  \/ \E k \in Kinds : Serve(d, k) \/ Receive(d, k)

Next == Refuse \/ Lose \/ \E d \in Devices : DeviceStep(d)

(* Requests reach the server, answers reach the page, and the timers fire. *)
Spec == /\ Init /\ [][Next]_vars
        /\ \A d \in Devices :
             /\ \A k \in Kinds : WF_vars(Serve(d, k)) /\ WF_vars(Receive(d, k))
             /\ WF_vars(Beat(d)) /\ WF_vars(GuardEnds(d)) /\ WF_vars(Expire(d))

---------------------------------------------------------------------------
Agrees(d) ==
  /\ dev[d].strip = flag
  /\ dev[d].epoch = epoch
  /\ reg[d] = [open |-> dev[d].open, live |-> TRUE]
  /\ (dev[d].running \/ dev[d].open) = \E x \in Devices : reg[x].live /\ reg[x].open
  /\ d \notin targets

(* Once nobody touches anything, every page that is up comes to show what  *)
(* the server has: the switch, the windows open somewhere, the logout it   *)
(* had to obey, its own windows and nothing it was asked to close, in      *)
(* whatever order requests and replies of before were handled.             *)
DesksConverge == <>[](\A d \in Devices : Up(d) => Agrees(d))
=============================================================================
