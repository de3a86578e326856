---------------------------- MODULE SessionResume ----------------------------
(***************************************************************************)
(* Incremental scrollback recovery of one terminal: the session daemon     *)
(* (terminal/vibetop-session, serve), its attach process and ttyd as a     *)
(* pipe, and the page's cache and screen (terminal-resume.js).  The daemon *)
(* keeps the newest output in a ring and numbers it by offset within an    *)
(* epoch, one epoch per shell; the page caches what it received and asks,  *)
(* on every connection, for what lies past its offset.                     *)
(*                                                                         *)
(* A unit of output is a number; a unit in Probes is a terminal query that *)
(* xterm answers.  Filtering a query leaves Gone in its place, so that     *)
(* positions keep counting raw output as the offsets do.  The daemon works *)
(* in one thread: an action is one turn of its loop.                       *)
(***************************************************************************)
EXTENDS Naturals, Sequences, FiniteSets, Functions

CONSTANTS
  Cap,          \* ring capacity in units (2 MB)
  ChunkMax,     \* units in one frame of a replay (16384 bytes)
  Screen,       \* units of one screenful (screen_replay_bytes)
  MaxQueue,     \* MAX_OUTQ: queued units at which a client is dropped
  Limit,        \* LIMIT: units a page caches (64 MB)
  Probes,       \* units that are terminal queries
  MaxOut,       \* bound: units the shells write
  MaxExits,     \* bound: shells that exit
  MaxCrashes,   \* bound: daemons that die
  MaxDrops,     \* bound: connections that break
  MaxReloads,   \* bound: page loads after the first
  MaxWire,      \* bound: frames in flight to the page
  None, Gone    \* nothing; a filtered query

ASSUME BoundsAreNaturals ==
  /\ {Cap, ChunkMax, Screen, Limit} \subseteq Nat \ {0}
  /\ {MaxQueue, MaxOut, MaxExits, MaxCrashes, MaxDrops, MaxReloads, MaxWire} \subseteq Nat
ASSUME ProbesAreUnits == Probes \subseteq Nat \ {0} /\ Gone \notin Probes

VARIABLES
  ring,                                        \* the daemon
  client, clientEpoch, queue, deadline,        \* its side of the connection
  link, request, wire,                         \* attach, ttyd and the network
  cache, loading, stored, first, torn, screen, \* the page
  log, produced, answered, faults              \* history and bounds

daemon == <<ring, log, produced>>
conn == <<client, clientEpoch, queue, deadline>>
pipe == <<link, request, wire>>
page == <<cache, loading, stored, first, torn, screen, answered>>
vars == <<daemon, conn, pipe, page, faults>>

Nothing == [epoch |-> 0, offset |-> 0]         \* a request without a cursor
Banner == 0                                    \* "restored after restart"

Newest(s, n) == IF Len(s) > n THEN SubSeq(s, Len(s) - n + 1, Len(s)) ELSE s
Strip(s) == [i \in DOMAIN s |-> IF s[i] \in Probes THEN Gone ELSE s[i]]
Bounded(kind, max) == faults[kind] < max /\ faults' = [faults EXCEPT ![kind] = @ + 1]

-----------------------------------------------------------------------------
(* RingBuffer.                                                             *)
Write(r, data) ==
  [r EXCEPT !.offset = @ + Len(data), !.held = Newest(r.held \o data, Cap)]

Cleared == [epoch |-> Len(log) + 1, offset |-> 0, held |-> <<>>]

Frame(r, offset, data, reset) ==
  [epoch |-> r.epoch, offset |-> offset, data |-> data, reset |-> reset, part |-> "whole"]

Retained(r, req) ==
  /\ req.epoch = r.epoch
  /\ r.offset - Len(r.held) <= req.offset /\ req.offset <= r.offset

(* The replay goes out in chunks; only the last one names an offset.       *)
Chunks(data) == IF data = <<>> THEN 1 ELSE (Len(data) + ChunkMax - 1) \div ChunkMax
Chunk(data, i) ==
  SubSeq(data, (i - 1) * ChunkMax + 1,
               IF i = Chunks(data) THEN Len(data) ELSE i * ChunkMax)

Cursor(r, data, i) == IF i = Chunks(data) THEN r.offset ELSE None

Resume(r, req) ==
  LET valid == Retained(r, req)
      data == Strip(IF valid
                    THEN SubSeq(r.held, req.offset - (r.offset - Len(r.held)) + 1, Len(r.held))
                    ELSE r.held)
  IN [i \in 1 .. Chunks(data) |->
        Frame(r, Cursor(r, data, i), Chunk(data, i), ~valid /\ i = 1)]

(* Bytes of a queue: every envelope counts one, every unit one.            *)
Size(q) == FoldFunction(LAMBDA f, n : Len(f.data) + 1 + n, 0, q)

-----------------------------------------------------------------------------
Init ==
  /\ ring = [epoch |-> 1, offset |-> 0, held |-> <<>>]
  /\ log = <<<<>>>> /\ produced = 0
  /\ client = "none" /\ clientEpoch = 0 /\ queue = <<>> /\ deadline = FALSE
  /\ link = "down" /\ request = Nothing /\ wire = <<>>
  /\ cache = None /\ loading = "done" /\ stored = None
  /\ first = TRUE /\ torn = FALSE /\ screen = <<>> /\ answered = [u \in Probes |-> 0]
  /\ faults = [exit |-> 0, crash |-> 0, drop |-> 0, reload |-> 0]

(* broadcast: a client still in the handshake is skipped, its replay will  *)
(* hold this output; a client of an earlier shell gets a full replay.      *)
SkippedNever == FALSE                                                  \* a bug
Skipped == client = "pending"

LiveFrames(r, data) ==
  IF clientEpoch # r.epoch THEN Resume(r, Nothing)
                           ELSE <<Frame(r, r.offset, data, FALSE)>>

DropClientSilently ==                                                  \* a bug
  /\ client' = "none" /\ clientEpoch' = 0 /\ queue' = <<>> /\ deadline' = FALSE
  /\ link' = link

DropClient ==
  /\ client' = "none" /\ clientEpoch' = 0 /\ queue' = <<>> /\ deadline' = FALSE
  /\ link' = IF client = "none" THEN link ELSE "closing"

Broadcast(r, data) ==
  IF client = "none" \/ Skipped
  THEN UNCHANGED <<conn, link>>
  ELSE LET out == queue \o LiveFrames(r, data) IN
       IF queue # <<>> /\ Size(out) > MaxQueue
       THEN DropClient
       ELSE /\ queue' = out /\ clientEpoch' = r.epoch
            /\ UNCHANGED <<client, deadline, link>>

(* The shell writes: pty readable.                                         *)
Output ==
  /\ produced < MaxOut
  /\ LET data == <<produced + 1>> IN
     /\ produced' = produced + 1
     /\ ring' = Write(ring, data)
     /\ log' = [log EXCEPT ![ring.epoch] = @ \o data]
     /\ Broadcast(ring', data)
  /\ UNCHANGED <<request, wire, page, faults>>

(* reap_child: a new shell begins a new epoch with an empty ring.          *)
ShellExit ==
  /\ Bounded("exit", MaxExits)
  /\ ring' = Cleared
  /\ log' = Append(log, <<>>)
  /\ UNCHANGED <<produced, conn, pipe, page>>

(* The daemon dies and is started again: it loads what an earlier one      *)
(* saved, which may be nothing, and closes it with a banner.               *)
Restart ==
  /\ Bounded("crash", MaxCrashes)
  /\ \E old \in {<<>>, Append(Strip(ring.held), Banner)} :
       /\ ring' = Write(Cleared, old)
       /\ log' = Append(log, old)
  /\ DropClient
  /\ UNCHANGED <<produced, request, wire, page>>

-----------------------------------------------------------------------------
(* One connection: attach announces itself, the page answers with its      *)
(* cursor, attach connects to the daemon and hands the cursor over.        *)
Connect ==
  /\ link = "down"
  /\ link' = "ready" /\ wire' = <<>> /\ first' = TRUE /\ torn' = FALSE
  /\ UNCHANGED <<daemon, conn, request, cache, loading, stored, screen,
                 answered, faults>>

Usable(c) == IF c = None THEN FALSE ELSE c.offset # None

Ask ==
  /\ link = "ready" /\ loading # "reading"
  /\ request' = IF Usable(cache)
                THEN [epoch |-> cache.epoch, offset |-> cache.offset] ELSE Nothing
  /\ link' = "asked"
  /\ UNCHANGED <<daemon, conn, wire, page, faults>>

Accept ==
  /\ link = "asked" /\ client = "none"
  /\ client' = "pending"
  /\ UNCHANGED <<daemon, clientEpoch, queue, deadline, pipe, page, faults>>

ServeRequest ==
  /\ client = "pending"
  /\ client' = "resumed" /\ clientEpoch' = ring.epoch
  /\ queue' = Resume(ring, request)
  /\ deadline' = TRUE
  /\ link' = "open"
  /\ UNCHANGED <<daemon, request, wire, page, faults>>

(* flush_client_outq: as much as the socket takes, possibly half a frame.  *)
Flush(half) ==
  /\ queue # <<>> /\ Len(wire) < MaxWire
  /\ IF half
     THEN /\ Head(queue).part = "whole"
          /\ wire' = Append(wire, [Head(queue) EXCEPT !.part = "head"])
          /\ queue' = <<[Head(queue) EXCEPT !.part = "tail"]>> \o Tail(queue)
          /\ UNCHANGED deadline
     ELSE /\ wire' = Append(wire, Head(queue))
          /\ queue' = Tail(queue)
          /\ deadline' = (deadline /\ Tail(queue) # <<>>)
  /\ UNCHANGED <<daemon, client, clientEpoch, link, request, page, faults>>

(* The replay budget is over: a client far behind jumps to the newest      *)
(* screenful, which replaces its whole backlog.                            *)
Snapshot == Frame(ring, ring.offset, Newest(Strip(ring.held), Screen), TRUE)

BudgetOver ==
  /\ deadline
  /\ deadline' = FALSE
  /\ queue' = IF Size(queue) > Screen THEN <<Snapshot>> ELSE queue
  /\ UNCHANGED <<daemon, client, clientEpoch, pipe, page, faults>>

(* The connection breaks, or has drained after the daemon hung up.         *)
LinkDown ==
  /\ link' = "down" /\ wire' = <<>>
  /\ client' = "none" /\ clientEpoch' = 0 /\ queue' = <<>> /\ deadline' = FALSE
  /\ UNCHANGED <<daemon, request>>

Drop == link # "down" /\ Bounded("drop", MaxDrops) /\ LinkDown /\ UNCHANGED page
Drained == link = "closing" /\ wire = <<>> /\ LinkDown /\ UNCHANGED <<page, faults>>

-----------------------------------------------------------------------------
(* The page.  What comes back from the cache is filtered again.            *)
FromCache == IF cache # None THEN Strip(cache.data) ELSE <<>>

(* What xterm is given for a frame, after the reset that may precede it.   *)
Painted(f) == IF first /\ ~f.reset THEN FromCache \o f.data ELSE f.data

Base(f) ==
  IF f.reset THEN [epoch |-> f.epoch, offset |-> None, data |-> <<>>] ELSE cache

(* remember: append to the cache of the same epoch, or forget it.          *)
Remembered(f) ==
  LET base == Base(f) IN
  IF IF base = None THEN TRUE ELSE base.epoch # f.epoch THEN base
  ELSE IF Len(base.data) + Len(f.data) > Limit THEN None
  ELSE [epoch |-> f.epoch, offset |-> f.offset, data |-> base.data \o f.data]

\* How often xterm finds query u in what it is given.
PutTo(x, u) == Cardinality({i \in DOMAIN x : x[i] = u})

(* receive: an envelope that was cut short is dropped for a newer one.     *)
Receive ==
  /\ wire # <<>>
  /\ wire' = Tail(wire)
  /\ LET f == Head(wire) IN
     IF f.part = "head"
     THEN torn' = TRUE /\ UNCHANGED <<first, cache, screen, answered>>
     ELSE /\ torn' = FALSE /\ first' = FALSE
          /\ screen' = IF first \/ f.reset THEN Painted(f) ELSE screen \o f.data
          /\ answered' = [u \in Probes |-> answered[u] + PutTo(Painted(f), u)]
          /\ cache' = Remembered(f)
  /\ UNCHANGED <<daemon, conn, link, request, loading, stored, faults>>

(* save: on a timer, at a checkpoint, when the socket closes, on pagehide. *)
Save ==
  /\ loading = "done"
  /\ stored' = IF Usable(cache) THEN cache ELSE None
  /\ stored' # stored
  /\ UNCHANGED <<daemon, conn, pipe, cache, loading, first, torn, screen,
                 answered, faults>>

(* A new page: reading the stored output may take longer than the two      *)
(* seconds the handshake waits for it, or find nothing.                    *)
Reload ==
  /\ Bounded("reload", MaxReloads)
  /\ cache' = None /\ loading' = "reading" /\ screen' = <<>>
  /\ first' = TRUE /\ torn' = FALSE
  /\ stored' \in {stored, None}
  /\ LinkDown
  /\ UNCHANGED answered

Loaded ==
  /\ loading # "done"
  /\ loading' = "done"
  /\ cache' = IF loading = "reading" THEN stored ELSE cache
  /\ UNCHANGED <<daemon, conn, pipe, stored, first, torn, screen, answered,
                 faults>>

LoadTimeout ==
  /\ loading = "reading" /\ loading' = "late"
  /\ UNCHANGED <<daemon, conn, pipe, cache, stored, first, torn, screen,
                 answered, faults>>

Next ==
  \/ Output \/ ShellExit \/ Restart
  \/ Connect \/ Ask \/ Accept \/ ServeRequest
  \/ (\E half \in BOOLEAN : Flush(half)) \/ BudgetOver \/ Drop \/ Drained
  \/ Receive \/ Save \/ Reload \/ Loaded \/ LoadTimeout

Spec == Init /\ [][Next]_vars

-----------------------------------------------------------------------------
(* Fairness: the daemon's loop keeps turning (queues drain, requests are   *)
(* served), the page reconnects and its callbacks run.  Output, exits,     *)
(* crashes, broken connections, reloads and the page's saves may cease.    *)
FairSpec ==
  /\ Spec
  /\ WF_vars(Connect) /\ WF_vars(Ask) /\ WF_vars(Accept) /\ WF_vars(ServeRequest)
  /\ WF_vars(Flush(FALSE)) /\ WF_vars(Drained) /\ WF_vars(Receive)
  /\ WF_vars(Loaded)

-----------------------------------------------------------------------------
Units == Nat \union {Gone}
IsTail(s, t) == Len(s) <= Len(t) /\ \A i \in 1 .. Len(s) : s[i] = t[Len(t) - Len(s) + i]
FrameType ==
  [epoch : Nat, offset : Nat \union {None}, data : Seq(Units), reset : BOOLEAN,
   part : {"whole", "head", "tail"}]
Caches == [epoch : Nat, offset : Nat \union {None}, data : Seq(Units)] \union {None}

(* The shapes of all variables; the ring never holds more than it may, nor *)
(* the page more than its limit.                                           *)
TypeOK ==
  /\ {deadline, first, torn} \subseteq BOOLEAN
  /\ ring.epoch = Len(log) /\ ring.offset = Len(log[ring.epoch])
  /\ Len(ring.held) <= Cap /\ IsTail(ring.held, log[ring.epoch])
  /\ log \in Seq(Seq(Units)) /\ produced \in Nat
  /\ client \in {"none", "pending", "resumed"} /\ clientEpoch \in Nat
  /\ queue \in Seq(FrameType) /\ wire \in Seq(FrameType)
  /\ link \in {"down", "ready", "asked", "open", "closing"}
  /\ request \in [epoch : Nat, offset : Nat]
  /\ loading \in {"reading", "late", "done"}
  /\ {cache, stored} \subseteq Caches
  /\ cache # None => Len(cache.data) <= Limit
  /\ screen \in Seq(Units) /\ answered \in [Probes -> Nat]

(* Text x shows the output of epoch e between two offsets: the units       *)
(* themselves, or holes where queries were filtered out.                   *)
Shows(x, e, lo, hi) ==
  /\ lo <= hi /\ hi <= Len(log[e]) /\ Len(x) = hi - lo
  /\ \A i \in 1 .. Len(x) :
       x[i] = log[e][lo + i] \/ (x[i] = Gone /\ log[e][lo + i] \in Probes)

(* A cached cursor is honest: the page, and what it stored, hold the       *)
(* output right up to the offset they would ask to continue from, without  *)
(* a gap, whatever replay was cut short, skipped or replaced.              *)
HonestCursor(c) ==
  Usable(c) => \E lo \in 0 .. c.offset : Shows(c.data, c.epoch, lo, c.offset)
CursorsAreHonest == HonestCursor(cache) /\ HonestCursor(stored)

(* What the terminal shows is a stretch of one shell's output: nothing is  *)
(* missing in between, repeated, out of order or left of another shell.    *)
ScreenIsOutput ==
  \E e \in 1 .. Len(log) : \E hi \in 0 .. Len(log[e]) :
    Len(screen) <= hi /\ Shows(screen, e, hi - Len(screen), hi)

(* An attached page with nothing under way shows the newest output of the  *)
(* shell it was last told of.                                              *)
AttachedIsCurrent ==
  link = "open" /\ queue = <<>> /\ wire = <<>> =>
    LET end == Len(log[clientEpoch]) IN
    Len(screen) <= end /\ Shows(screen, clientEpoch, end - Len(screen), end)

(* No query in the output is ever put to the same page's xterm twice: its  *)
(* answer would be typed into the shell.                                   *)
ProbesAskedOnce == \A u \in Probes : answered[u] <= 1

(* A resumed page is exact: its screen and what it would resume from are   *)
(* stretches of one shell's output, up to date once nothing is under way,  *)
(* and the shell is never given an answer twice.                           *)
ResumesExactly == ScreenIsOutput /\ AttachedIsCurrent /\ CursorsAreHonest /\ ProbesAskedOnce

(* Once connections hold, the page shows the output of the running shell   *)
(* up to its end.                                                          *)
PageCatchesUp ==
  <>[](ring.offset > 0 =>
         /\ screen # <<>> /\ Len(screen) <= ring.offset
         /\ Shows(screen, ring.epoch, ring.offset - Len(screen), ring.offset))

====
