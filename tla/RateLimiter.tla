---------------------------- MODULE RateLimiter ----------------------------
(***************************************************************************)
(* The rate limiter of the public proxy (features/proxy/handler.go):       *)
(* Allow samples the clock, then waits for the mutex, so requests decide   *)
(* in another order than they sampled; opening a window prunes the buckets *)
(* of all keys that are two windows old.                                   *)
(*                                                                         *)
(* An absent bucket is the zero value that a Go map lookup yields: count 0.*)
(* windows is a history variable: the window of each key as it was last    *)
(* decided, never pruned.                                                  *)
(*                                                                         *)
(* A definition headed "Mutated form" is a plausible bug that a check run  *)
(* puts in the place of the definition that follows it.                    *)
(***************************************************************************)
EXTENDS Integers

CONSTANTS
  Keys,      \* "METHOD path client-ip"
  Requests,  \* handler goroutines that may be in Allow at the same time
  Limits,    \* the limits the configuration takes over time; 0 is "no limit"
  Window,    \* one minute, in ticks of the model's clock
  MaxLag,    \* assumed: longest wait between sampling the clock and the lock
  MaxClock   \* bound: last tick

ASSUME WindowAssumption == Window \in Nat \ {0}
ASSUME LagAssumption == MaxLag \in 0..Window
ASSUME LimitsAssumption == Limits \subseteq Nat
ASSUME ClockAssumption == MaxClock \in Nat

VARIABLES
  now,      \* the clock
  buckets,  \* r.buckets
  request,  \* request[r]: where goroutine r is in Allow, and its arguments
  windows   \* history: last window decided for each key

vars == <<now, buckets, request, windows>>

Bucket == [start : Nat, count : Nat]
NoBucket == [start |-> 0, count |-> 0]
Status == {"none", "waiting", "allowed", "denied"}
Request == [status : Status, key : Keys, limit : Limits, sample : Nat]

TypeInv ==
  /\ now \in 0..MaxClock
  /\ buckets \in [Keys -> Bucket]
  /\ request \in [Requests -> Request]
  /\ windows \in [Keys -> Bucket]

Init ==
  /\ now = 0
  /\ buckets = [k \in Keys |-> NoBucket]
  /\ windows = [k \in Keys |-> NoBucket]
  /\ request \in [Requests -> {[status |-> "none", key |-> k, limit |-> l, sample |-> 0] :
                                 k \in Keys, l \in Limits}]

Waiting(r) == request[r].status = "waiting"

(* bucket.windowStart.IsZero() || now.Sub(bucket.windowStart) >= window    *)
Expired(b, sample) == b.count = 0 \/ sample - b.start >= Window

(* Mutated form: a window that has just ended is forgotten.                *)
PrunedEarly(bs, sample) ==
  [k \in Keys |-> IF bs[k].count > 0 /\ sample - bs[k].start >= Window
                  THEN NoBucket ELSE bs[k]]

(* Mutated form: nothing is ever forgotten.                                *)
PrunedNever(bs, sample) == bs

(* The loop of prune, over the buckets as the caller just stored them.     *)
Pruned(bs, sample) ==
  [k \in Keys |-> IF bs[k].count > 0 /\ sample - bs[k].start >= 2 * Window
                  THEN NoBucket ELSE bs[k]]

(* time.Now() at the top of Allow; the limit was read with the rest of the *)
(* configuration by the caller.                                            *)
Arrive(r) ==
  /\ ~Waiting(r)
  /\ \E k \in Keys, l \in Limits :
       request' = [request EXCEPT ![r] =
                     [status |-> "waiting", key |-> k, limit |-> l, sample |-> now]]
  /\ UNCHANGED <<now, buckets, windows>>

Verdict(r, v) == request' = [request EXCEPT ![r].status = v]

(* limit <= 0: no bucket is looked at.                                     *)
Unlimited(r) ==
  /\ Waiting(r) /\ request[r].limit = 0
  /\ Verdict(r, "allowed")
  /\ UNCHANGED <<now, buckets, windows>>

(* The first request of a window: store count 1 and prune.                 *)
Open(r) ==
  LET q     == request[r]
      fresh == [start |-> q.sample, count |-> 1]
  IN
  /\ Waiting(r) /\ q.limit > 0 /\ Expired(buckets[q.key], q.sample)
  /\ buckets' = Pruned([buckets EXCEPT ![q.key] = fresh], q.sample)
  /\ windows' = [windows EXCEPT ![q.key] = fresh]
  /\ Verdict(r, "allowed")
  /\ UNCHANGED now

Count(r) ==
  LET q == request[r] IN
  /\ Waiting(r) /\ q.limit > 0 /\ ~Expired(buckets[q.key], q.sample)
  /\ buckets[q.key].count < q.limit
  /\ buckets' = [buckets EXCEPT ![q.key].count = @ + 1]
  /\ windows' = [windows EXCEPT ![q.key] = buckets'[q.key]]
  /\ Verdict(r, "allowed")
  /\ UNCHANGED now

Deny(r) ==
  LET q == request[r] IN
  /\ Waiting(r) /\ q.limit > 0 /\ ~Expired(buckets[q.key], q.sample)
  /\ buckets[q.key].count >= q.limit
  /\ Verdict(r, "denied")
  /\ UNCHANGED <<now, buckets, windows>>

(* Time passes; no goroutine waits longer than MaxLag for the mutex.       *)
Tick ==
  /\ now < MaxClock
  /\ \A r \in Requests : Waiting(r) => now < request[r].sample + MaxLag
  /\ now' = now + 1
  /\ UNCHANGED <<buckets, request, windows>>

Decide(r) == Unlimited(r) \/ Open(r) \/ Count(r) \/ Deny(r)

Next == Tick \/ \E r \in Requests : Arrive(r) \/ Decide(r)

Spec == Init /\ [][Next]_vars

-----------------------------------------------------------------------------
(* Properties.                                                             *)

(* Forgetting old buckets is unobservable: whatever Allow decides, it      *)
(* decides as if every key's window were kept for ever, although requests  *)
(* that sampled the clock before the prune may reach the lock after it     *)
(* (handler.go:492-515).                                                   *)
Promise == INSTANCE FixedWindow
KeepsPromise == Promise!Spec

(* A key's windows start at least one window length apart: a request that  *)
(* sampled the clock early cannot reopen a window and let a second batch   *)
(* through (handler.go:496-500).                                           *)
WindowsApart ==
  [][\A k \in Keys :
       (windows'[k].start # windows[k].start /\ windows[k].count > 0)
         => windows'[k].start - windows[k].start >= Window]_vars

(* The requests of the key that the step admits, if they have a limit.     *)
Admitted(k) ==
  {r \in Requests : /\ Waiting(r) /\ request[r].key = k /\ request[r].limit > 0
                    /\ request'[r].status = "allowed"}

(* One request is admitted: a new window, or one more in the open one.     *)
Counted(k, r) ==
  \/ /\ Expired(windows[k], request[r].sample)
     /\ windows'[k] = [start |-> request[r].sample, count |-> 1]
  \/ /\ ~Expired(windows[k], request[r].sample)
     /\ windows'[k] = [windows[k] EXCEPT !.count = @ + 1]
     /\ windows'[k].count <= request[r].limit

AdmissionsCounted(k) ==
  IF Admitted(k) = {} THEN windows'[k] = windows[k]
  ELSE \E r \in Admitted(k) : Admitted(k) = {r} /\ Counted(k, r)

(* A window counts the requests it has admitted, each of them once: the    *)
(* step that admits a request with a limit opens a window for its key, at  *)
(* least a window length after the last one, or adds one to the window     *)
(* that is open, up to the limit; no other step touches the window, the    *)
(* pruning by requests for other keys included (handler.go:485-507).       *)
CountsAdmitted == [][\A k \in Keys : AdmissionsCounted(k)]_vars

(* The map holds no two keys whose windows began two window lengths apart, *)
(* so its size follows the traffic of the last two windows instead of all  *)
(* paths and addresses ever seen (handler.go:509-515).                     *)
BucketsRecent ==
  \A j, k \in Keys :
    (buckets[j].count > 0 /\ buckets[k].count > 0)
      => buckets[j].start - buckets[k].start < 2 * Window

=============================================================================
