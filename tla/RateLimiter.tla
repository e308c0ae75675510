---------------------------- MODULE RateLimiter ----------------------------
(***************************************************************************)
(* limiter.Allow (observe-gateway/internal/limiter): a token bucket per    *)
(* tenant in the process, then a sliding window per tenant in Redis.  The  *)
(* handler reads its clock, then sends the script; the script runs later,  *)
(* in one piece.  External: x/time/rate and Redis, which may fail before   *)
(* or after it ran the script, and whose client may send it again.         *)
(***************************************************************************)
EXTENDS GatewayTypes

CONSTANTS
  Burst,     \* capacity of a bucket, and the limit of the window
  Refill,    \* tokens a bucket gains per tick (requests_per_second)
  Window     \* length of the sliding window

ASSUME LimiterAssumption ==
  Burst \in Nat \ {0} /\ Refill \in Nat \ {0} /\ Window \in Nat \ {0}

VARIABLES
  bucket,    \* tokens left, per tenant
  window,    \* the sorted set rate:<tenant>: members and scores are milliseconds
  expires,   \* when Redis drops it
  stamp,     \* the time each request sends to the script
  admitted   \* runs of the script that let a request pass: its tenant, its stamp, and
             \* when the script ran; read by the properties alone

limiterVars == <<bucket, window, expires, stamp, admitted>>

LimiterInit ==
  /\ bucket = [t \in Tenant |-> Burst]
  /\ window = [t \in Tenant |-> {}]
  /\ expires = [t \in Tenant |-> 0]
  /\ stamp = [r \in Request |-> 0]
  /\ admitted = {}

(* allowLocal takes a token; it is not given back when Redis refuses. *)
HasToken(t) == bucket[t] > 0
TakeToken(t) == bucket' = [bucket EXCEPT ![t] = @ - 1]

ReadClock(r) == stamp' = [stamp EXCEPT ![r] = now]

(* The members that the script keeps. *)
Recent(r, t) == {s \in window[t] : now < expires[t] /\ s > stamp[r] - Window}

\* Mutation: the script compares with > instead of >=.
ScriptAllowsOneMore(r, t) ==
  /\ Cardinality(Recent(r, t)) <= Burst
  /\ window' = [window EXCEPT ![t] = Recent(r, t) \cup {stamp[r]}]
  /\ expires' = [expires EXCEPT ![t] = now + Window]

(* The script returned 1 or 0. *)
ScriptAllows(r, t) ==
  /\ Cardinality(Recent(r, t)) < Burst
  /\ window' = [window EXCEPT ![t] = Recent(r, t) \cup {stamp[r]}]
  /\ expires' = [expires EXCEPT ![t] = now + Window]

Admit(r, t) == admitted' = admitted \cup {[tenant |-> t, stamp |-> stamp[r], ran |-> now]}

ScriptRefuses(r, t) ==
  /\ Cardinality(Recent(r, t)) >= Burst
  /\ window' = [window EXCEPT ![t] = Recent(r, t)]
  /\ UNCHANGED expires

(* Every bucket gains its tokens as the clock ticks. *)
RefillBuckets ==
  bucket' = [t \in Tenant |-> IF bucket[t] + Refill < Burst THEN bucket[t] + Refill
                              ELSE Burst]

LimiterTypeOK ==
  /\ bucket \in [Tenant -> 0..Burst]
  /\ \A t \in Tenant : window[t] \subseteq 0..now /\ Cardinality(window[t]) <= Burst
  /\ expires \in [Tenant -> 0..(MaxTime + Window)]
  /\ stamp \in [Request -> 0..now]
  /\ admitted \subseteq [tenant : Tenant, stamp : 0..now, ran : 0..now]

(* The global quota: in a window of time, a tenant passes at Burst milliseconds at most,
   counting those whose requests both read their clock (limiter.go:117) and had their
   script run within it, whatever ran before, between and late, however often scripts
   are repeated and whichever answers get lost.  (Requests of one millisecond count
   once.)  Requests that read their clock in the window and run after it may come on
   top, up to RequestTimeout later. *)
Within(t, from) ==
  {e.stamp : e \in {a \in admitted :
                      a.tenant = t /\ from <= a.stamp /\ a.ran < from + Window}}

QuotaHolds ==
  \A t \in Tenant : \A from \in 0..MaxTime : Cardinality(Within(t, from)) <= Burst
=============================================================================
