----------------------------- MODULE TunnelPool -----------------------------
(***************************************************************************)
(* How the rewriter of Browser Lite reuses its connections to one site     *)
(* (proxy/tunnel-pool-patch.cjs).  A site that speaks HTTP/2 gets one      *)
(* session, which all requests share, those made while it opens as well;   *)
(* any other one, and what a session refused, goes through an agent with   *)
(* a limited number of tunnels.  Node's agent only counts a socket once it *)
(* is there, so the pool holds its place with a placeholder.               *)
(***************************************************************************)
EXTENDS Naturals, Sequences, FiniteSets

CONSTANTS PoolRequests, Sessions, H1Tunnels, MaxSockets, MaxDrops, NoSession

VARIABLES
  pooled,   \* per request: new, opening, stream, queued, tunnel, done or failed
  session,  \* per session: unused, opening, open, leaving (GOAWAY), stray or closed
  current,  \* sessions: the session in the map
  h1Only,   \* the site answered by ALPN that it does not speak HTTP/2
  tunnel,   \* per tunnel: none, opening, busy or free, and whose it is
  line,     \* the agent's requests without a tunnel
  drops

pool == <<session, current, h1Only>>
agent == <<tunnel, line>>
poolVars == <<pooled, pool, agent, drops>>

PoolInit ==
  /\ pooled = [r \in PoolRequests |-> [k |-> "new"]]
  /\ session = [s \in Sessions |-> "unused"] /\ current = NoSession /\ h1Only = FALSE
  /\ tunnel = [t \in H1Tunnels |-> [k |-> "none"]] /\ line = <<>>
  /\ drops = 0

PoolFault == drops < MaxDrops /\ drops' = drops + 1

Opening == {s \in Sessions : session[s] = "opening"}
Streams(s) == {r \in PoolRequests : pooled[r].k = "stream" /\ pooled[r].on = s}

---------------------------------------------------------------------------
(* The agent: a free tunnel is reused, a new one opened below the limit,   *)
(* where one that opens counts through its placeholder, and the rest of    *)
(* the requests queue.                                                     *)
Placed == {t \in H1Tunnels : tunnel[t].k # "none"}

IdleTunnels == {t \in H1Tunnels : tunnel[t].k = "free"}

AddRequest(r, a) ==
  IF IdleTunnels # {} THEN
    \E t \in IdleTunnels : /\ tunnel' = [tunnel EXCEPT ![t] = [k |-> "busy", of |-> r]]
                           /\ pooled' = [a EXCEPT ![r] = [k |-> "tunnel"]] /\ UNCHANGED line
  ELSE IF Cardinality(Placed) < MaxSockets THEN
    \E t \in H1Tunnels : /\ tunnel[t].k = "none"
                         /\ tunnel' = [tunnel EXCEPT ![t] = [k |-> "opening", of |-> r]]
                         /\ pooled' = [a EXCEPT ![r] = [k |-> "tunnel"]] /\ UNCHANGED line
  ELSE line' = Append(line, r) /\ pooled' = [a EXCEPT ![r] = [k |-> "queued"]] /\ UNCHANGED tunnel

(* Those that are told to use HTTP/1.1 come to the agent one by one.       *)
Sent1(r) ==
  /\ pooled[r].k = "http1" /\ AddRequest(r, pooled)
  /\ UNCHANGED <<pool, drops>>

(* createConnection ends; a queued request is not told of a failed one.    *)
TunnelOpens(t) ==
  /\ tunnel[t].k = "opening" /\ tunnel' = [tunnel EXCEPT ![t].k = "busy"]
  /\ UNCHANGED <<pooled, line, pool, drops>>

TunnelFails(t) ==
  /\ tunnel[t].k = "opening" /\ PoolFault
  /\ tunnel' = [tunnel EXCEPT ![t] = [k |-> "none"]]
  /\ pooled' = [pooled EXCEPT ![tunnel[t].of] = [k |-> "failed"]]
  /\ UNCHANGED <<line, pool>>

(* A response ends, and the tunnel serves the next of the queue, or waits; *)
(* or it closes, and a queued request opens another.                       *)
Answered1(t) ==
  /\ tunnel[t].k = "busy"
  /\ LET a == [pooled EXCEPT ![tunnel[t].of] = [k |-> "done"]] IN
     IF line = <<>> THEN tunnel' = [tunnel EXCEPT ![t] = [k |-> "free"]] /\ pooled' = a /\ UNCHANGED line
     ELSE /\ tunnel' = [tunnel EXCEPT ![t].of = Head(line)] /\ line' = Tail(line)
          /\ pooled' = [a EXCEPT ![Head(line)] = [k |-> "tunnel"]]
  /\ UNCHANGED <<pool, drops>>

TunnelCloses(t) ==
  /\ tunnel[t].k \in {"busy", "free"} /\ PoolFault
  /\ LET a == IF tunnel[t].k = "free" THEN pooled ELSE [pooled EXCEPT ![tunnel[t].of] = [k |-> "failed"]] IN
     IF line = <<>> THEN tunnel' = [tunnel EXCEPT ![t] = [k |-> "none"]] /\ pooled' = a /\ UNCHANGED line
     ELSE /\ tunnel' = [tunnel EXCEPT ![t] = [k |-> "opening", of |-> Head(line)]] /\ line' = Tail(line)
          /\ pooled' = [a EXCEPT ![Head(line)] = [k |-> "tunnel"]]
  /\ UNCHANGED pool

---------------------------------------------------------------------------
(* sessionFor: no HTTP/2 for a while once the site has declined it; the    *)
(* session there is; the one that opens; or a new one.                     *)
Send(r) ==
  /\ pooled[r].k = "new"
  /\ \/ h1Only /\ pooled' = [pooled EXCEPT ![r] = [k |-> "http1"]] /\ UNCHANGED pool
     \/ /\ ~h1Only /\ current # NoSession
        /\ pooled' = [pooled EXCEPT ![r] = [k |-> "stream", on |-> current, heard |-> FALSE]] /\ UNCHANGED pool
     \/ /\ ~h1Only /\ current = NoSession /\ Opening # {}
        /\ pooled' = [pooled EXCEPT ![r] = [k |-> "opening"]] /\ UNCHANGED pool
     \/ /\ ~h1Only /\ current = NoSession /\ Opening = {}
        /\ \E s \in Sessions : session[s] = "unused" /\ session' = [session EXCEPT ![s] = "opening"]
        /\ pooled' = [pooled EXCEPT ![r] = [k |-> "opening"]] /\ UNCHANGED <<current, h1Only>>
  /\ UNCHANGED <<agent, drops>>

OpeningEnded(way) == pooled' = [r \in PoolRequests |-> IF pooled[r].k = "opening" THEN way ELSE pooled[r]]

(* open: the session is there; or the connection failed, or the site       *)
(* speaks HTTP/1.1 only, or ten seconds have passed: a session that comes  *)
(* later than that is kept by nobody.                                      *)
Opens(s) ==
  /\ session[s] = "opening" /\ session' = [session EXCEPT ![s] = "open"] /\ current' = s
  /\ OpeningEnded([k |-> "stream", on |-> s, heard |-> FALSE])
  /\ UNCHANGED <<h1Only, agent, drops>>

OpensNot(s) ==
  /\ session[s] = "opening"
  /\ \/ session' = [session EXCEPT ![s] = "closed"] /\ h1Only' \in BOOLEAN
     \/ session' = [session EXCEPT ![s] = "stray"] /\ UNCHANGED h1Only
  /\ OpeningEnded([k |-> "http1"])
  /\ UNCHANGED <<current, agent, drops>>

(* Ten minutes later HTTP/2 is tried again.                                *)
RetryHttp2 == h1Only /\ h1Only' = FALSE /\ UNCHANGED <<pooled, session, current, agent, drops>>

---------------------------------------------------------------------------
Responds(r) ==
  /\ pooled[r].k = "stream"
  /\ pooled' = [pooled EXCEPT ![r] = IF pooled[r].heard THEN [k |-> "done"] ELSE [pooled[r] EXCEPT !.heard = TRUE]]
  /\ UNCHANGED <<pool, agent, drops>>

(* What had no response yet is sent again over HTTP/1.1; what had fails.   *)
StreamsDropped(R) ==
  pooled' = [r \in PoolRequests |-> IF r \notin R THEN pooled[r]
                                    ELSE IF pooled[r].heard THEN [k |-> "failed"] ELSE [k |-> "http1"]]

Refused(r) ==
  /\ pooled[r].k = "stream" /\ ~pooled[r].heard /\ PoolFault /\ StreamsDropped({r})
  /\ UNCHANGED <<pool, agent>>

ForgottenAny(s) == current' = NoSession

SessionForgotten(s) == current' = IF current = s THEN NoSession ELSE current

(* GOAWAY: the session leaves the map; its streams end by themselves.      *)
GoAway(s) ==
  /\ session[s] = "open" /\ PoolFault
  /\ session' = [session EXCEPT ![s] = "leaving"] /\ SessionForgotten(s)
  /\ UNCHANGED <<pooled, h1Only, agent>>

(* It closes: idle for a minute, after its last stream, or with an error.  *)
SessionCloses(s) ==
  /\ session[s] \in {"open", "leaving", "stray"}
  /\ IF Streams(s) = {} THEN UNCHANGED drops ELSE PoolFault
  /\ session' = [session EXCEPT ![s] = "closed"] /\ SessionForgotten(s) /\ StreamsDropped(Streams(s))
  /\ UNCHANGED <<h1Only, agent>>

PoolNext ==
  \/ \E r \in PoolRequests : Send(r) \/ Sent1(r) \/ Responds(r) \/ Refused(r)
  \/ \E t \in H1Tunnels : TunnelOpens(t) \/ TunnelFails(t) \/ Answered1(t) \/ TunnelCloses(t)
  \/ \E s \in Sessions : Opens(s) \/ OpensNot(s) \/ GoAway(s) \/ SessionCloses(s)
  \/ RetryHttp2

PoolSpec == PoolInit /\ [][PoolNext]_poolVars

---------------------------------------------------------------------------
(* A site sees one connection of a kind at a time that takes requests: one *)
(* session, and no more tunnels than the agent's limit, those that open    *)
(* included, whatever bursts, refusals and closed connections interleave   *)
(* (tunnel-pool-patch.cjs:39-42, 83-86).                                   *)
ConnectionsBounded ==
  /\ Cardinality({t \in H1Tunnels : tunnel[t].k # "none"}) <= MaxSockets
  /\ Cardinality({s \in Sessions : session[s] \in {"opening", "open"}}) <= 1
=============================================================================
