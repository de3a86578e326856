---------------------------- MODULE MCBrowserLite ----------------------------
(***************************************************************************)
(* Small instances, for TLC, of the parts of Browser Lite.  They share no  *)
(* state: a behaviour picks one of them, its focus, and explores it alone, *)
(* while the others stay as they start.  The tabs are explored with one    *)
(* tab and faults, and with two tabs that are shown in turn; the history   *)
(* of a tab with one address and faults, and with two addresses.           *)
(***************************************************************************)
EXTENDS BrowserTabs, MirrorPage, PageMessages, PageWorkers, BrowserEgress, TunnelPool,
        BrowserSaves, TabHistory

CONSTANTS tabA, tabB

VARIABLES
  focus,
  job, on, idle, waiting, living, closed, exits                     \* ScriptWorkers

Pair == INSTANCE BrowserTabs WITH
  Clients <- {tabA, tabB}, MaxAsked <- 3, MaxNavs <- 0, MaxFaults <- 0
Elsewhere == INSTANCE TabHistory WITH Hrefs <- {1, 2}, MaxDocs <- 1, MaxLost <- 0
Scripts == INSTANCE ScriptWorkers WITH Jobs <- 1..4, Workers <- {11, 12}, MaxExits <- 2

scriptsVars == <<job, on, idle, waiting, living, closed, exits>>
mcVars == <<focus, tabVars, histVars, mirrorVars, savesVars, messageVars, workerVars,
            egressVars, poolVars, scriptsVars>>

\* A part that is not in focus starts in one of its states only.
MCInit ==
  /\ focus \in {"alone", "pair", "history", "elsewhere", "mirror", "saves", "messages", "workers", "egress", "pool", "scripts"}
  /\ IF focus = "pair" THEN Pair!TabsInit ELSE TabsInit
  /\ IF focus = "elsewhere" THEN Elsewhere!HistoryInit ELSE HistoryInit
  /\ MirrorInit /\ SavesInit /\ MessagesInit /\ WorkersInit
  /\ EgressInit /\ PoolInit /\ Scripts!Init
  /\ focus \notin {"history", "elsewhere"} => hist.list = <<>>
  /\ focus # "saves" => kept = Absent
  /\ IF focus = "messages" THEN /\ owner.site = TopSite /\ (owner.tainted => here # owner)
                            /\ \A w \in Wins \ {Parent} : host[w].site # TopSite
     ELSE owner = Main(TopSite) /\ here = owner /\ \A w \in Wins : host[w] = owner

MCNext ==
  /\ UNCHANGED focus
  /\ IF focus = "alone" THEN TabsNext ELSE IF focus = "pair" THEN Pair!TabsNext ELSE UNCHANGED tabVars
  /\ IF focus = "history" THEN HistoryNext
     ELSE IF focus = "elsewhere" THEN Elsewhere!HistoryNext ELSE UNCHANGED histVars
  /\ IF focus = "mirror" THEN MirrorNext ELSE UNCHANGED mirrorVars
  /\ IF focus = "saves" THEN SavesNext ELSE UNCHANGED savesVars
  /\ IF focus = "messages" THEN MessagesNext ELSE UNCHANGED messageVars
  /\ IF focus = "workers" THEN WorkersNext ELSE UNCHANGED workerVars
  /\ IF focus = "egress" THEN EgressNext ELSE UNCHANGED egressVars
  /\ IF focus = "pool" THEN PoolNext ELSE UNCHANGED poolVars
  /\ IF focus = "scripts" THEN Scripts!Next ELSE UNCHANGED scriptsVars

\* The fairness each part states, for the part in focus.
Fair(part, A) == focus = part /\ A

MCSpec ==
  /\ MCInit /\ [][MCNext]_mcVars
  /\ WF_tabVars(Fair("alone", Begin(tabA))) /\ WF_tabVars(Fair("alone", Answered(tabA)))
  /\ WF_tabVars(Fair("alone", \E m \in calls[tabA] : ~m.late /\ Deliver(tabA, m)))
  /\ WF_tabVars(Fair("alone", Enter(tabA))) /\ WF_tabVars(Fair("alone", Follow(tabA, FALSE)))
  /\ WF_tabVars(Fair("alone", SlowLoad(tabA))) /\ WF_tabVars(Fair("alone", Reports(tabA)))
  /\ WF_tabVars(Fair("alone", UploadRead(tabA))) /\ WF_tabVars(Fair("alone", NavigationPage(tabA)))
  /\ WF_tabVars(Fair("alone", Challenge(tabA)))
  /\ WF_tabVars(Fair("alone", Heartbeat)) /\ WF_tabVars(Fair("alone", HeartbeatAnswered))
  /\ WF_mirrorVars(Fair("mirror", CollectLoop)) /\ WF_mirrorVars(Fair("mirror", Commit))
  /\ SF_mirrorVars(Fair("mirror", CaptureForAction)) /\ SF_mirrorVars(Fair("mirror", CaptureForBaseline))
  /\ WF_mirrorVars(Fair("mirror", Poll)) /\ WF_mirrorVars(Fair("mirror", Baseline))
  /\ WF_mirrorVars(Fair("mirror", WasBased)) /\ WF_mirrorVars(Fair("mirror", Updates))
  /\ WF_mirrorVars(Fair("mirror", Apply)) /\ WF_mirrorVars(Fair("mirror", WasApplied))
  /\ WF_mirrorVars(Fair("mirror", Ack)) /\ WF_mirrorVars(Fair("mirror", Take))
  /\ WF_mirrorVars(Fair("mirror", PerformAction)) /\ WF_mirrorVars(Fair("mirror", ActionAnswered))
  /\ WF_scriptsVars(Fair("scripts", \E j \in 1..4 : Scripts!Message(j)))

------------------------------------------------------------------------------
(* A tab never stays without a document and without saying so.             *)
AloneNeverDead == (focus = "alone") => NeverDead

(* Once all is quiet, the mirror shows the page.                           *)
MirrorShowsPage == (focus = "mirror") => MirrorCatchesUp

(* Every script that is to be rewritten is answered, though workers exit.  *)
ScriptsSettle == (focus = "scripts") => Scripts!ScriptsSettle
==============================================================================
