---------------------------- MODULE PageWorkers ----------------------------
(***************************************************************************)
(* Web workers of a Browser Lite page that are made from a blob            *)
(* (proxy/worker-store.cjs, the worker handlers of gateway.cjs and         *)
(* vibetopCreateWorker).  The worker is started before its source has been *)
(* uploaded: the gateway holds the request for its script until the upload *)
(* is there, has failed or takes too long.  The browser may ask for a      *)
(* script again when an answer was lost.                                   *)
(***************************************************************************)
EXTENDS Naturals, FiniteSets

CONSTANTS Workers, Copies, MaxEntries, MaxWaiting, MaxMishaps

VARIABLES
  upload,    \* per worker: how far its upload is
  request,   \* per request of a worker's script: how far it is
  store,     \* WorkerStore: the sources, the failures and who waits
  mishaps

workerVars == <<upload, request, store, mishaps>>

Request == Workers \X Copies

WorkersInit ==
  /\ upload = [w \in Workers |-> "no"]
  /\ request = [q \in Request |-> "no"]
  /\ store = [entries |-> {}, failed |-> {}, waiters |-> {}]
  /\ mishaps = 0

Mishap == mishaps < MaxMishaps /\ mishaps' = mishaps + 1

Of(w) == {q \in store.waiters : q[1] = w}

---------------------------------------------------------------------------
(* vibetopCreateWorker: the upload and the worker's own request are made   *)
(* at once.                                                                *)
CreateWorker(w, r) ==
  /\ upload[w] = "no" /\ upload' = [upload EXCEPT ![w] = "sent"]
  /\ request' = [request EXCEPT ![<<w, r>>] = "sent"]
  /\ UNCHANGED <<store, mishaps>>

(* The answer to a request was lost on its way and the browser asks again. *)
AskAgain(w, r) ==
  /\ Mishap /\ upload[w] # "no" /\ request[<<w, r>>] = "no"
  /\ request' = [request EXCEPT ![<<w, r>>] = "sent"]
  /\ UNCHANGED <<upload, store>>

---------------------------------------------------------------------------
(* settle: whoever waits for this worker gets its source, or nothing when  *)
(* the upload failed.                                                      *)
KeptSilently(w, entries, failed) ==
  /\ store' = [store EXCEPT !.entries = entries, !.failed = failed]
  /\ UNCHANGED request

Kept(w, entries, failed) ==
  /\ store' = [entries |-> entries, failed |-> failed, waiters |-> store.waiters \ Of(w)]
  /\ request' = [q \in Request |-> IF q \notin Of(w) THEN request[q]
                                   ELSE IF w \in entries THEN "source" ELSE "nothing"]

(* The upload arrives: put, or fail when the source is cut off, cannot be  *)
(* rewritten or has no room.  A failure is only remembered while there is  *)
(* room for it.                                                            *)
Uploaded(w) ==
  /\ upload[w] = "sent" /\ upload' = [upload EXCEPT ![w] = "done"]
  /\ Cardinality(store.entries) < MaxEntries
  /\ Kept(w, store.entries \cup {w}, store.failed)
  /\ UNCHANGED mishaps

Failed(w) ==
  /\ upload[w] = "sent" /\ upload' = [upload EXCEPT ![w] = "done"]
  /\ \/ Cardinality(store.entries) >= MaxEntries /\ UNCHANGED mishaps
     \/ Mishap
  /\ Kept(w, store.entries, IF Cardinality(store.failed) < MaxEntries THEN store.failed \cup {w} ELSE store.failed)

(* wait: the request is answered at once when there is something to tell,  *)
(* or when too many wait already.                                          *)
Answers(w) ==
  IF w \in store.entries THEN "source"
  ELSE IF w \in store.failed \/ Cardinality(store.waiters) >= MaxWaiting THEN "nothing"
  ELSE "waiting"

Wait(w, r) ==
  /\ request[<<w, r>>] = "sent"
  /\ request' = [request EXCEPT ![<<w, r>>] = Answers(w)]
  /\ store' = [store EXCEPT !.waiters = IF Answers(w) = "waiting" THEN @ \cup {<<w, r>>} ELSE @]
  /\ UNCHANGED <<upload, mishaps>>

(* 30 s: the worker gets nothing, although its upload may still come.      *)
Timeout(w, r) ==
  /\ <<w, r>> \in store.waiters /\ Mishap
  /\ request' = [request EXCEPT ![<<w, r>>] = "nothing"]
  /\ store' = [store EXCEPT !.waiters = @ \ {<<w, r>>}]
  /\ UNCHANGED upload

(* collect: sources and failures are forgotten after a minute.             *)
Collect(w) ==
  /\ w \in store.entries \cup store.failed /\ Mishap
  /\ store' = [store EXCEPT !.entries = @ \ {w}, !.failed = @ \ {w}]
  /\ UNCHANGED <<upload, request>>

WorkersNext ==
  \E w \in Workers :
    \/ Uploaded(w) \/ Failed(w) \/ Collect(w)
    \/ \E r \in Copies : CreateWorker(w, r) \/ AskAgain(w, r) \/ Wait(w, r) \/ Timeout(w, r)

WorkersSpec == WorkersInit /\ [][WorkersNext]_workerVars

---------------------------------------------------------------------------
(* A request that waits for its worker's source waits for something: what  *)
(* it would be told is not there yet, however the upload, its failure, the *)
(* request and a second one for the same worker follow each other          *)
(* (worker-store.cjs:35, 40).                                              *)
WaitersHaveNothing ==
  \A w \in Workers : \A q \in Of(w) :
    request[q] = "waiting" /\ w \notin store.entries \cup store.failed
=============================================================================
