--------------------------- MODULE BrowserEgress ---------------------------
(***************************************************************************)
(* The way out of Browser Lite's rewriter (proxy/egress.cjs and            *)
(* egress-relay.cjs).  Every connection to a site goes through a relay in  *)
(* the rewriter's own network namespace to a proxy that checks the         *)
(* destination and keeps the number of sockets below a limit; what is      *)
(* above the limit waits for a while in a queue.                           *)
(***************************************************************************)
EXTENDS Naturals, Sequences, FiniteSets

CONSTANTS Tunnels, MaxConnections, MaxRelayed, MaxOpens

VARIABLES
  at,        \* per tunnel: idle, waiting, looking (for the address), connecting, open, or refused
  kind,      \* per tunnel: a tunnel for HTTPS, a plain request, or a WebSocket
  client,    \* per tunnel: its client is still there
  waiters,   \* the queue for a place
  refused,   \* the last refusal for want of a place: how many places were taken
  opens      \* tunnels asked for so far

egressVars == <<at, kind, client, waiters, refused, opens>>

Where(places) == {t \in Tunnels : at[t] \in places}

EgressInit ==
  /\ at = [t \in Tunnels |-> "idle"] /\ client = [t \in Tunnels |-> FALSE]
  /\ kind = [t \in Tunnels |-> "tunnel"]
  /\ waiters = <<>> /\ refused = MaxConnections /\ opens = 0

(* sockets.size + pending: a tunnel that is connecting has its socket and  *)
(* is still pending, and counts twice.                                     *)
TakenBySockets(places) == Cardinality({t \in Tunnels : places[t] \in {"connecting", "open"}})

Taken(places) ==
  Cardinality({t \in Tunnels : places[t] \in {"looking", "connecting"}})
  + Cardinality({t \in Tunnels : places[t] \in {"connecting", "open"}})

Full(places) == Taken(places) >= MaxConnections

---------------------------------------------------------------------------
(* The relay lets a client through while it has room; open asks for a      *)
(* place first.                                                            *)
Ask(t, k) ==
  /\ at[t] \in {"idle", "refused"} /\ ~client[t] /\ opens < MaxOpens /\ opens' = opens + 1
  /\ Cardinality({u \in Tunnels : client[u]}) < MaxRelayed
  /\ client' = [client EXCEPT ![t] = TRUE] /\ kind' = [kind EXCEPT ![t] = k]
  /\ IF Full(at) THEN at' = [at EXCEPT ![t] = "waiting"] /\ waiters' = Append(waiters, t)
     ELSE at' = [at EXCEPT ![t] = "looking"] /\ UNCHANGED waiters
  /\ UNCHANGED refused

(* A socket that closes wakes the first of the queue, which looks again:   *)
(* it takes the place, or goes to the end of the queue.                    *)
Woken(places) ==
  IF waiters = <<>> THEN at' = places /\ UNCHANGED waiters
  ELSE IF Full(places) THEN at' = places /\ waiters' = Append(Tail(waiters), Head(waiters))
  ELSE at' = [places EXCEPT ![Head(waiters)] = "looking"] /\ waiters' = Tail(waiters)

Leave(t, how) == client' = [client EXCEPT ![t] = FALSE] /\ Woken([at EXCEPT ![t] = how])

(* destination: the address is fine, and its socket is tracked; or it is   *)
(* blocked or not found, which wakes nobody.                               *)
Resolved(t) ==
  /\ at[t] = "looking" /\ at' = [at EXCEPT ![t] = "connecting"]
  /\ UNCHANGED <<kind, client, waiters, refused, opens>>

Blocked(t) ==
  /\ at[t] = "looking" /\ at' = [at EXCEPT ![t] = "refused"]
  /\ client' = [client EXCEPT ![t] = FALSE]
  /\ UNCHANGED <<kind, waiters, refused, opens>>

(* The socket connects.  For a client that has gone a tunnel is closed at  *)
(* once; a request or a WebSocket stays open until it ends or has been     *)
(* idle for two minutes.                                                   *)
Connects(t) == at[t] = "connecting" /\ UNCHANGED <<kind, refused, opens>>

Stays(t) == at' = [at EXCEPT ![t] = "open"] /\ UNCHANGED <<client, waiters>>

TunnelConnected(t) ==
  kind[t] = "tunnel" /\ Connects(t) /\ IF client[t] THEN Stays(t) ELSE Leave(t, "idle")

RequestConnected(t) == kind[t] = "request" /\ Connects(t) /\ Stays(t)

UpgradeConnected(t) == kind[t] = "upgrade" /\ Connects(t) /\ Stays(t)

ConnectFails(t) == at[t] = "connecting" /\ Leave(t, "refused") /\ UNCHANGED <<kind, refused, opens>>

Closes(t) == at[t] = "open" /\ Leave(t, "idle") /\ UNCHANGED <<kind, refused, opens>>

(* The client goes before it has an answer: its place in the queue stays.  *)
ClientGoes(t) ==
  /\ client[t] /\ at[t] # "open"
  /\ client' = [client EXCEPT ![t] = FALSE]
  /\ UNCHANGED <<at, kind, waiters, refused, opens>>

(* The wait is over: it looks once more before it gives up.                *)
LooksOnce(t) == Full(at)

WaitOver(t) ==
  /\ at[t] = "waiting" /\ waiters' = SelectSeq(waiters, LAMBDA u : u # t)
  /\ IF LooksOnce(t) THEN /\ at' = [at EXCEPT ![t] = "refused"] /\ refused' = Taken(at)
                          /\ client' = [client EXCEPT ![t] = FALSE]
     ELSE at' = [at EXCEPT ![t] = "looking"] /\ UNCHANGED <<client, refused>>
  /\ UNCHANGED <<kind, opens>>

EgressNext ==
  \E t \in Tunnels :
    \/ \E k \in {"tunnel", "request", "upgrade"} : Ask(t, k)
    \/ Resolved(t) \/ Blocked(t) \/ TunnelConnected(t) \/ RequestConnected(t) \/ UpgradeConnected(t)
    \/ ConnectFails(t) \/ Closes(t) \/ ClientGoes(t) \/ WaitOver(t)

EgressSpec == EgressInit /\ [][EgressNext]_egressVars

---------------------------------------------------------------------------
(* There are never more sockets, and opens that will have one, than the    *)
(* limit, however the waits, the lookups and the closed sockets interleave *)
(* (egress.cjs:96-98).                                                     *)
SocketsBounded == Cardinality(Where({"looking", "connecting", "open"})) <= MaxConnections

(* A tunnel is refused for want of a place only when there is none.        *)
RefusedOnlyWhenFull == refused >= MaxConnections

(* The limit is exact: never exceeded, and nobody refused below it.        *)
LimitIsExact == SocketsBounded /\ RefusedOnlyWhenFull
=============================================================================
