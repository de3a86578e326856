--------------------------- MODULE ScriptWorkers ---------------------------
(***************************************************************************)
(* The worker threads that rewrite large scripts for Browser Lite          *)
(* (proxy/script-workers.cjs).  Jobs wait in a queue for a free worker; a  *)
(* worker that fails is replaced and its job is rewritten on the main      *)
(* thread instead.                                                         *)
(***************************************************************************)
EXTENDS Naturals, Sequences, SequencesExt, FiniteSets

CONSTANTS Jobs, Workers, MaxExits, None

VARIABLES
  job,      \* per job: new, waiting, running, done, or to be done on the main thread
  on,       \* pending: per job the worker it runs on
  idle,     \* the free workers, in order
  waiting,  \* the jobs without a worker, in order
  living,   \* the workers that run
  closed, exits

vars == <<job, on, idle, waiting, living, closed, exits>>

Init ==
  /\ job = [j \in Jobs |-> "new"] /\ on = [j \in Jobs |-> None]
  /\ idle = SetToSeq(Workers) /\ waiting = <<>> /\ living = Workers
  /\ closed = FALSE /\ exits = 0

Least(a, b) == IF a < b THEN a ELSE b

(* pump: the first free workers get the first waiting jobs.                *)
Pump(js, os, is, ws) ==
  LET k == Least(Len(is), Len(ws)) IN
  /\ job' = [j \in Jobs |-> IF \E i \in 1 .. k : ws[i] = j THEN "running" ELSE js[j]]
  /\ on' = [j \in Jobs |-> IF \E i \in 1 .. k : ws[i] = j THEN is[CHOOSE i \in 1 .. k : ws[i] = j] ELSE os[j]]
  /\ idle' = SubSeq(is, k + 1, Len(is)) /\ waiting' = SubSeq(ws, k + 1, Len(ws))

(* processScript: nothing is queued after the end.                         *)
Process(j) ==
  /\ job[j] = "new"
  /\ IF closed THEN job' = [job EXCEPT ![j] = "main"] /\ UNCHANGED <<on, idle, waiting>>
     ELSE Pump([job EXCEPT ![j] = "waiting"], on, idle, Append(waiting, j))
  /\ UNCHANGED <<living, closed, exits>>

(* A worker answers, with the code or with an error, and is free again.    *)
Message(j) ==
  /\ job[j] = "running"
  /\ \E end \in {"done", "main"} :
       Pump([job EXCEPT ![j] = end], [on EXCEPT ![j] = None],
            IF closed THEN idle ELSE Append(idle, on[j]), waiting)
  /\ UNCHANGED <<living, closed, exits>>

(* A worker ends: its job goes to the main thread, and another takes its   *)
(* place, unless the pool is closed.                                       *)
ReplacedOnly(w, js, os) ==
  /\ job' = js /\ on' = os /\ UNCHANGED waiting
  /\ idle' = Append(SelectSeq(idle, LAMBDA v : v # w), w)

Replaced(w, js, os) ==
  LET others == SelectSeq(idle, LAMBDA v : v # w) IN
  Pump(js, os, IF closed THEN others ELSE Append(others, w), waiting)

Exit(w) ==
  /\ w \in living /\ IF closed THEN UNCHANGED exits ELSE exits < MaxExits /\ exits' = exits + 1
  /\ living' = IF closed THEN living \ {w} ELSE living
  /\ Replaced(w, [j \in Jobs |-> IF on[j] = w THEN "main" ELSE job[j]],
                 [j \in Jobs |-> IF on[j] = w THEN None ELSE on[j]])
  /\ UNCHANGED closed

(* close: those that wait go to the main thread.                           *)
Close ==
  /\ ~closed /\ closed' = TRUE /\ waiting' = <<>>
  /\ job' = [j \in Jobs |-> IF job[j] = "waiting" THEN "main" ELSE job[j]]
  /\ UNCHANGED <<on, idle, living, exits>>

Next ==
  \/ \E j \in Jobs : Process(j) \/ Message(j)
  \/ \E w \in Workers : Exit(w)
  \/ Close

Spec == Init /\ [][Next]_vars /\ WF_vars(\E j \in Jobs : Message(j))

---------------------------------------------------------------------------
(* Every script is rewritten in the end, by a worker or on the main        *)
(* thread, although workers end while they run it or while others wait     *)
(* (script-workers.cjs:8-9).                                               *)
ScriptsSettle == \A j \in Jobs : job[j] # "new" ~> job[j] \in {"done", "main"}
=============================================================================
