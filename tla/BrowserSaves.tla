--------------------------- MODULE BrowserSaves ---------------------------
(***************************************************************************)
(* The tabs that Browser Lite keeps: one copy on the device and one for    *)
(* the user on the server (proxy/wrapper.js, tab-store.cjs).  A tab is its *)
(* address; a blank tab is not kept, nor, on the server, an address of     *)
(* more than 4096 characters.  A page may be discarded at any time,        *)
(* with or without the device's copy; calls may fail, wait and overtake    *)
(* one another.                                                            *)
(***************************************************************************)
EXTENDS Naturals, FiniteSets

CONSTANTS
  Devices, Urls,
  Long,       \* the addresses that are too long for the server's copy
  Room, MaxTurns, MaxSaveFaults, Absent

ASSUME SomethingFits == IsFiniteSet(Urls) /\ Room \in Nat \ {0} /\ Absent # {}

VARIABLES
  toolbars, \* per device: the page, or Absent
  local,    \* per device: its copy, or Absent
  kept,     \* the user's copy on the server, or Absent
  saves,    \* saves and questions on their way to the server
  answers,  \* answers on their way back
  emptied,  \* the pages on which the user closed a tab (bookkeeping)
  turns     \* acts and faults so far

savesVars == <<toolbars, local, kept, saves, answers, emptied, turns>>

Turn(k, max) == turns[k] < max /\ turns' = [turns EXCEPT ![k] = @ + 1]

(* A page that has just started shows nothing yet.                         *)
Fresh(inc) == [inc |-> inc, tabs |-> {}, any |-> FALSE, closed |-> FALSE,
               timer |-> FALSE, later |-> Absent]

(* clean: what the server takes of the tabs it is sent, or reads.          *)
Cleaned(tabs) == tabs \ Long

SavesInit ==
  /\ toolbars = [d \in Devices |-> Absent] /\ local = [d \in Devices |-> Absent]
  /\ kept \in {Absent} \cup {{u} : u \in Cleaned(Urls)}
  /\ saves = {} /\ answers = {} /\ emptied = {}
  /\ turns = [acts |-> 0, faults |-> 0]

Set(d, p) == toolbars' = [toolbars EXCEPT ![d] = p]

(* More tabs than fit: the oldest are not kept; which they are is left     *)
(* open.                                                                   *)
Budget(tabs) == {s \in SUBSET tabs : Cardinality(s) = IF Cardinality(tabs) < Room
                                                        THEN Cardinality(tabs) ELSE Room}

---------------------------------------------------------------------------
(* The page starts: the device's copy if there is one with tabs, else the  *)
(* server is asked, and the page waits for the answer.                     *)
Start(d) ==
  /\ toolbars[d] = Absent /\ Turn("acts", MaxTurns)
  /\ LET has == local[d] \notin {Absent, {}} IN
     /\ Set(d, [Fresh(turns.acts) EXCEPT !.tabs = IF has THEN local[d] ELSE {},
                                        !.any = has, !.timer = has])
     /\ saves' = saves \cup IF has THEN {} ELSE {[from |-> d, inc |-> turns.acts, save |-> Absent]}
  /\ UNCHANGED <<local, kept, answers, emptied>>

(* The answer, or that there is none: a page with a tab ignores it.        *)
LoadAnswered(a) ==
  /\ a \in answers /\ answers' = answers \ {a}
  /\ IF toolbars[a.to] # Absent /\ toolbars[a.to].inc = a.inc /\ ~toolbars[a.to].any
     THEN Set(a.to, [toolbars[a.to] EXCEPT !.any = TRUE, !.timer = TRUE,
                       !.tabs = IF a.tabs = Absent THEN {} ELSE a.tabs])
     ELSE UNCHANGED toolbars
  /\ UNCHANGED <<local, kept, saves, emptied, turns>>

(* The user opens an address in a tab, or a blank tab.                     *)
OpenTab(d, u) ==
  /\ toolbars[d] # Absent /\ Turn("acts", MaxTurns)
  /\ Set(d, [toolbars[d] EXCEPT !.tabs = @ \cup {u}, !.any = TRUE, !.timer = TRUE])
  /\ UNCHANGED <<local, kept, saves, answers, emptied>>

OpenBlank(d) ==
  /\ toolbars[d] # Absent /\ ~toolbars[d].any
  /\ Set(d, [toolbars[d] EXCEPT !.any = TRUE, !.timer = TRUE])
  /\ UNCHANGED <<local, kept, saves, answers, emptied, turns>>

(* Closing a tab, one that is kept or a blank one.                         *)
CloseSavedTab(d, u) ==
  /\ toolbars[d] # Absent /\ toolbars[d].any /\ Turn("acts", MaxTurns)
  /\ Set(d, [toolbars[d] EXCEPT !.tabs = @ \ {u}, !.closed = TRUE, !.timer = TRUE])
  /\ emptied' = emptied \cup {toolbars[d].inc}
  /\ UNCHANGED <<local, kept, saves, answers>>

---------------------------------------------------------------------------
(* saveTabs, when its timer fires: the device's copy is written; the       *)
(* server's follows, later or, when the page is hidden, at once.  A fresh, *)
(* empty start does not overwrite it; closing tabs does.                   *)
WorthAlways(p) == TRUE

Worth(p) == p.tabs # {} \/ p.closed

SaveTabs(d) ==
  /\ toolbars[d] # Absent /\ toolbars[d].timer
  /\ local' = [local EXCEPT ![d] = toolbars[d].tabs]
  /\ Set(d, [toolbars[d] EXCEPT !.timer = FALSE,
                                !.later = IF Worth(toolbars[d]) THEN toolbars[d].tabs ELSE @])
  /\ UNCHANGED <<kept, saves, answers, emptied, turns>>

SaveToServer(d) ==
  /\ toolbars[d] # Absent /\ toolbars[d].later # Absent
  /\ Set(d, [toolbars[d] EXCEPT !.later = Absent])
  /\ \E part \in Budget(toolbars[d].later) :
       saves' = saves \cup {[from |-> d, inc |-> toolbars[d].inc, save |-> part]}
  /\ UNCHANGED <<local, kept, answers, emptied, turns>>

(* The page is hidden: it saves again.                                     *)
Hide(d) ==
  /\ toolbars[d] # Absent /\ ~toolbars[d].timer /\ Turn("acts", MaxTurns)
  /\ Set(d, [toolbars[d] EXCEPT !.timer = TRUE])
  /\ UNCHANGED <<local, kept, saves, answers, emptied>>

(* The server: what it takes of a save replaces the file, also when that   *)
(* is nothing; a question is answered with it.                             *)
Serve(c) ==
  /\ c \in saves /\ saves' = saves \ {c}
  /\ IF c.save # Absent
     THEN kept' = Cleaned(c.save) /\ UNCHANGED answers
     ELSE /\ answers' = answers \cup {[to |-> c.from, inc |-> c.inc, tabs |-> kept]}
          /\ UNCHANGED kept
  /\ UNCHANGED <<toolbars, local, emptied, turns>>

(* A call that fails: a save is forgotten, a question has no answer.       *)
Fail(c) ==
  /\ c \in saves /\ saves' = saves \ {c} /\ Turn("faults", MaxSaveFaults)
  /\ answers' = answers \cup IF c.save = Absent THEN {[to |-> c.from, inc |-> c.inc, tabs |-> Absent]}
                                                ELSE {}
  /\ UNCHANGED <<toolbars, local, kept, emptied>>

(* The page is discarded, at times with the device's copy.                 *)
Discard(d) ==
  /\ toolbars[d] # Absent /\ Turn("faults", MaxSaveFaults)
  /\ Set(d, Absent)
  /\ \E left \in {local[d], Absent} : local' = [local EXCEPT ![d] = left]
  /\ UNCHANGED <<kept, saves, answers, emptied>>

SavesNext ==
  \/ \E d \in Devices : \/ Start(d) \/ OpenBlank(d) \/ SaveTabs(d) \/ SaveToServer(d)
                        \/ Hide(d) \/ Discard(d)
                        \/ \E u \in Urls : OpenTab(d, u) \/ CloseSavedTab(d, u)
  \/ \E c \in saves : Serve(c) \/ Fail(c)
  \/ \E a \in answers : LoadAnswered(a)

SavesSpec == SavesInit /\ [][SavesNext]_savesVars

---------------------------------------------------------------------------
(* The user's tabs are forgotten only by a page on which the user closed   *)
(* tabs: a start that found nothing, a failed answer and a discarded page  *)
(* leave what was saved, whatever is still on its way (wrapper.js:66); or  *)
(* by a save whose tabs all have addresses too long for the server.        *)
OnlyLong(tabs) == tabs # {} /\ tabs \subseteq Long

KeptUnlessClosed ==
  [][kept \notin {Absent, {}} /\ kept' = {} =>
       \E c \in saves \ saves' : c.inc \in emptied \/ OnlyLong(c.save)]_savesVars
=============================================================================
