------------------------- MODULE RateLimiterProofs -------------------------
(***************************************************************************)
(* Proofs about RateLimiter for any keys, goroutines, limits and window.   *)
(*                                                                         *)
(* The invariant says when the map and the history may differ: only for a  *)
(* key whose window began at least two window lengths ago.  A request that *)
(* is still waiting sampled the clock at most MaxLag <= Window ticks ago,  *)
(* hence at least one window length after that window began: it would      *)
(* have opened a new window with the old bucket too.                       *)
(***************************************************************************)
EXTENDS RateLimiter, TLAPS

SampleRecent ==
  \A r \in Requests : Waiting(r) =>
    request[r].sample <= now /\ now <= request[r].sample + MaxLag

StartPast == \A k \in Keys : windows[k].count > 0 => windows[k].start <= now

Faithful ==
  \A k \in Keys :
    /\ buckets[k].count > 0 => buckets[k] = windows[k]
    /\ (buckets[k].count = 0 /\ windows[k].count > 0)
         => windows[k].start + 2 * Window <= now

LimiterInv == TypeInv /\ SampleRecent /\ StartPast /\ Faithful /\ BucketsRecent

USE WindowAssumption, LagAssumption, LimitsAssumption, ClockAssumption

-----------------------------------------------------------------------------

(* Every step keeps the variables in their types.                          *)
THEOREM TypeCorrect == Spec => []TypeInv
<1>1. Init => TypeInv
  BY DEF Init, TypeInv, Bucket, NoBucket, Request, Status
<1>2. TypeInv /\ [Next]_vars => TypeInv'
  <2> SUFFICES ASSUME TypeInv, [Next]_vars PROVE TypeInv'
    OBVIOUS
  <2>1. CASE Tick
    BY <2>1 DEF TypeInv, Tick
  <2>2. ASSUME NEW r \in Requests, Arrive(r) PROVE TypeInv'
    BY <2>2 DEF TypeInv, Arrive, Request, Status
  <2>3. ASSUME NEW r \in Requests, Unlimited(r) \/ Deny(r) PROVE TypeInv'
    BY <2>3 DEF TypeInv, Unlimited, Deny, Verdict, Request, Status
  <2>4. ASSUME NEW r \in Requests, Open(r) PROVE TypeInv'
    BY <2>4 DEF TypeInv, Open, Pruned, NoBucket, Bucket, Verdict, Request, Status
  <2>5. ASSUME NEW r \in Requests, Count(r) PROVE TypeInv'
    <3>1. request[r].key \in Keys
      BY DEF TypeInv, Request
    <3>2. buckets' \in [Keys -> Bucket] /\ windows' \in [Keys -> Bucket]
      BY <2>5, <3>1 DEF TypeInv, Count, Bucket
    <3>3. request' \in [Requests -> Request]
      BY <2>5 DEF TypeInv, Count, Verdict, Request, Status
    <3>4. QED
      BY <2>5, <3>2, <3>3 DEF TypeInv, Count
  <2>6. CASE UNCHANGED vars
    BY <2>6 DEF TypeInv, vars
  <2>7. QED
    BY <2>1, <2>2, <2>3, <2>4, <2>5, <2>6 DEF Next, Decide
<1>3. QED
  BY <1>1, <1>2, PTL DEF Spec

(* The types a decision works with.                                        *)
LEMMA RequestTypes ==
  ASSUME TypeInv, NEW r \in Requests
  PROVE  /\ request[r].key \in Keys
         /\ request[r].limit \in Limits /\ request[r].limit \in Nat
         /\ request[r].sample \in Nat
  BY DEF TypeInv, Request

LEMMA BucketTypes ==
  ASSUME TypeInv
  PROVE  /\ now \in Nat
         /\ \A k \in Keys : /\ buckets[k] \in Bucket /\ windows[k] \in Bucket
                            /\ buckets[k].start \in Nat /\ buckets[k].count \in Nat
                            /\ windows[k].start \in Nat /\ windows[k].count \in Nat
  BY DEF TypeInv, Bucket

(* What the state after Open looks like, key by key.                       *)
LEMMA OpenEffect ==
  ASSUME TypeInv, NEW r \in Requests, Open(r)
  PROVE  LET q == request[r] IN
         /\ windows'[q.key].start = q.sample /\ windows'[q.key].count = 1
         /\ buckets'[q.key] = windows'[q.key]
         /\ \A k \in Keys \ {q.key} :
              /\ windows'[k] = windows[k]
              /\ \/ buckets'[k] = buckets[k]
                      /\ (buckets[k].count > 0 => q.sample - buckets[k].start < 2 * Window)
                 \/ buckets'[k].count = 0 /\ buckets[k].count > 0
                      /\ q.sample - buckets[k].start >= 2 * Window
<1> DEFINE q == request[r]
           fresh == [start |-> q.sample, count |-> 1]
           stored == [buckets EXCEPT ![q.key] = fresh]
<1>1. q.key \in Keys /\ q.sample \in Nat
  BY RequestTypes
<1>2. windows' = [windows EXCEPT ![q.key] = fresh] /\ buckets' = Pruned(stored, q.sample)
  BY DEF Open
<1>3. windows'[q.key] = fresh /\ \A k \in Keys \ {q.key} : windows'[k] = windows[k]
  BY <1>1, <1>2 DEF TypeInv
<1>4. stored[q.key] = fresh /\ \A k \in Keys \ {q.key} : stored[k] = buckets[k]
  BY <1>1 DEF TypeInv
<1>5. \A k \in Keys : buckets'[k] = IF stored[k].count > 0 /\ q.sample - stored[k].start >= 2 * Window
                                    THEN NoBucket ELSE stored[k]
  BY <1>2 DEF Pruned
<1>6. buckets'[q.key] = fresh
  BY <1>1, <1>4, <1>5
<1>7. ASSUME NEW k \in Keys \ {q.key}
      PROVE  \/ buckets'[k] = buckets[k]
                  /\ (buckets[k].count > 0 => q.sample - buckets[k].start < 2 * Window)
             \/ buckets'[k].count = 0 /\ buckets[k].count > 0
                  /\ q.sample - buckets[k].start >= 2 * Window
  BY <1>1, <1>4, <1>5, <1>7, BucketTypes DEF NoBucket
<1>8. QED
  BY <1>3, <1>6, <1>7

LEMMA CountEffect ==
  ASSUME TypeInv, Faithful, NEW r \in Requests, Count(r)
  PROVE  LET q == request[r] IN
         /\ buckets[q.key] = windows[q.key] /\ windows[q.key].count > 0
         /\ windows'[q.key].start = windows[q.key].start
         /\ windows'[q.key].count = windows[q.key].count + 1
         /\ windows[q.key].count < q.limit
         /\ buckets'[q.key] = windows'[q.key]
         /\ windows' = [windows EXCEPT ![q.key].count = @ + 1]
         /\ \A k \in Keys \ {q.key} : windows'[k] = windows[k] /\ buckets'[k] = buckets[k]
<1> DEFINE q == request[r]
<1>1. q.key \in Keys
  BY RequestTypes
<1>2. buckets[q.key].count > 0
  BY <1>1, BucketTypes DEF Count, Expired
<1>3. buckets[q.key] = windows[q.key]
  BY <1>1, <1>2 DEF Faithful
<1>4. buckets' = [buckets EXCEPT ![q.key].count = @ + 1]
      /\ windows' = [windows EXCEPT ![q.key] = buckets'[q.key]]
      /\ buckets[q.key].count < q.limit
  BY DEF Count
<1>5. buckets'[q.key] = [buckets[q.key] EXCEPT !.count = @ + 1]
  BY <1>1, <1>4 DEF TypeInv
<1>6. buckets'[q.key] = [windows[q.key] EXCEPT !.count = @ + 1]
  BY <1>3, <1>5
<1>7. windows'[q.key] = buckets'[q.key]
      /\ \A k \in Keys \ {q.key} : windows'[k] = windows[k] /\ buckets'[k] = buckets[k]
  BY <1>1, <1>4 DEF TypeInv
<1>8. windows' = [windows EXCEPT ![q.key].count = @ + 1]
  BY <1>4, <1>6
<1>9. windows'[q.key].start = windows[q.key].start
      /\ windows'[q.key].count = windows[q.key].count + 1
  BY <1>1, <1>6, <1>7, BucketTypes DEF Bucket
<1>10. QED
  BY <1>2, <1>3, <1>4, <1>7, <1>8, <1>9

-----------------------------------------------------------------------------
(* Steps that decide nothing about the buckets.                            *)
LEMMA QuietStep ==
  ASSUME LimiterInv, TypeInv', UNCHANGED <<buckets, windows>>, now \in Nat, now' \in Nat,
         now <= now', SampleRecent'
  PROVE  LimiterInv'
<1>1. StartPast' /\ Faithful'
  BY BucketTypes DEF LimiterInv, StartPast, Faithful
<1>2. BucketsRecent'
  BY DEF LimiterInv, BucketsRecent
<1>3. QED
  BY <1>1, <1>2 DEF LimiterInv

(* A verdict ends the wait of its request and of no other.                 *)
LEMMA VerdictKeepsSamples ==
  ASSUME TypeInv, SampleRecent, NEW r \in Requests, NEW v, v # "waiting",
         Verdict(r, v), now' = now
  PROVE  SampleRecent'
  BY DEF TypeInv, SampleRecent, Waiting, Verdict, Request

LEMMA InvStep == LimiterInv /\ TypeInv' /\ [Next]_vars => LimiterInv'
<1> SUFFICES ASSUME LimiterInv, TypeInv', [Next]_vars PROVE LimiterInv'
  OBVIOUS
<1>0. TypeInv /\ now \in Nat /\ now' \in Nat
  BY DEF LimiterInv, TypeInv
<1>1. CASE Tick
  <2>1. now' = now + 1 /\ UNCHANGED <<buckets, windows, request>>
    BY <1>1 DEF Tick
  <2>2. SampleRecent'
    BY <1>0, <1>1, <2>1, RequestTypes DEF LimiterInv, SampleRecent, Tick, Waiting
  <2>3. QED
    BY <1>0, <2>1, <2>2, QuietStep
<1>2. ASSUME NEW r \in Requests, Arrive(r) PROVE LimiterInv'
  <2>1. UNCHANGED <<now, buckets, windows>>
    BY <1>2 DEF Arrive
  <2>2. SampleRecent'
    <3>1. request'[r].sample = now
      BY <1>0, <1>2 DEF TypeInv, Arrive
    <3>2. \A s \in Requests \ {r} : request'[s] = request[s]
      BY <1>0, <1>2 DEF TypeInv, Arrive
    <3>3. QED
      BY <1>0, <2>1, <3>1, <3>2 DEF LimiterInv, SampleRecent, Waiting
  <2>3. QED
    BY <1>0, <2>1, <2>2, QuietStep
<1>3. ASSUME NEW r \in Requests, Unlimited(r) \/ Deny(r) PROVE LimiterInv'
  <2>1. UNCHANGED <<now, buckets, windows>> /\ (Verdict(r, "allowed") \/ Verdict(r, "denied"))
    BY <1>3 DEF Unlimited, Deny
  <2>2. SampleRecent'
    BY <1>0, <2>1, VerdictKeepsSamples DEF LimiterInv
  <2>3. QED
    BY <1>0, <2>1, <2>2, QuietStep
<1>4. ASSUME NEW r \in Requests, Open(r) PROVE LimiterInv'
  <2> DEFINE q == request[r]
  <2>1. /\ q.key \in Keys /\ q.limit \in Limits /\ q.limit > 0 /\ q.sample \in Nat
        /\ q.sample <= now /\ now <= q.sample + MaxLag /\ now' = now
    BY <1>0, <1>4, RequestTypes DEF LimiterInv, SampleRecent, Open
  <2>2. /\ windows'[q.key].start = q.sample /\ windows'[q.key].count = 1
        /\ buckets'[q.key] = windows'[q.key]
    BY <1>0, <1>4, OpenEffect
  <2>3. \A k \in Keys \ {q.key} :
          /\ windows'[k] = windows[k]
          /\ \/ buckets'[k] = buckets[k]
                  /\ (buckets[k].count > 0 => q.sample - buckets[k].start < 2 * Window)
             \/ buckets'[k].count = 0 /\ buckets[k].count > 0
                  /\ q.sample - buckets[k].start >= 2 * Window
    BY <1>0, <1>4, OpenEffect
  <2>4. StartPast'
    BY <2>1, <2>2, <2>3 DEF LimiterInv, StartPast
  <2>5. Faithful'
    <3>1. ASSUME NEW k \in Keys \ {q.key}
          PROVE  /\ buckets'[k].count > 0 => buckets'[k] = windows'[k]
                 /\ (buckets'[k].count = 0 /\ windows'[k].count > 0)
                      => windows'[k].start + 2 * Window <= now'
      BY <1>0, <2>1, <2>3, <3>1, BucketTypes DEF LimiterInv, Faithful
    <3>2. QED
      BY <2>2, <3>1 DEF Faithful
  <2>6. BucketsRecent'
    <3>1. \A k \in Keys \ {q.key} : buckets'[k].count > 0 =>
            /\ buckets'[k] = buckets[k] /\ buckets[k] = windows[k]
            /\ q.sample - buckets[k].start < 2 * Window
            /\ buckets[k].start <= now
      BY <1>0, <2>3, BucketTypes DEF LimiterInv, Faithful, StartPast
    <3>2. \A k \in Keys \ {q.key} : buckets'[k].count > 0 =>
            /\ buckets'[q.key].start - buckets'[k].start < 2 * Window
            /\ buckets'[k].start - buckets'[q.key].start < 2 * Window
      BY <1>0, <2>1, <2>2, <3>1, BucketTypes
    <3>3. QED
      BY <1>0, <2>1, <2>2, <3>1, <3>2, BucketTypes DEF LimiterInv, BucketsRecent
  <2>7. SampleRecent'
    BY <1>0, <1>4, VerdictKeepsSamples DEF LimiterInv, Open
  <2>8. QED
    BY <2>4, <2>5, <2>6, <2>7 DEF LimiterInv
<1>5. ASSUME NEW r \in Requests, Count(r) PROVE LimiterInv'
  <2> DEFINE q == request[r]
  <2>1. q.key \in Keys /\ q.limit \in Limits /\ q.limit \in Nat /\ now' = now
    BY <1>0, <1>5, RequestTypes DEF Count
  <2>2. /\ buckets[q.key] = windows[q.key] /\ windows[q.key].count > 0
        /\ windows'[q.key].start = windows[q.key].start
        /\ windows'[q.key].count = windows[q.key].count + 1
        /\ windows[q.key].count < q.limit
        /\ buckets'[q.key] = windows'[q.key]
        /\ \A k \in Keys \ {q.key} : windows'[k] = windows[k] /\ buckets'[k] = buckets[k]
    BY <1>0, <1>5, CountEffect DEF LimiterInv
  <2>3. StartPast' /\ Faithful'
    BY <1>0, <2>1, <2>2, BucketTypes DEF LimiterInv, StartPast, Faithful
  <2>4. \A k \in Keys : /\ buckets'[k].start = buckets[k].start
                        /\ buckets'[k].count > 0 => buckets[k].count > 0
    BY <1>0, <2>2, BucketTypes
  <2>5. BucketsRecent'
    BY <2>4 DEF LimiterInv, BucketsRecent
  <2>6. SampleRecent'
    BY <1>0, <1>5, VerdictKeepsSamples DEF LimiterInv, Count
  <2>7. QED
    BY <2>3, <2>5, <2>6 DEF LimiterInv
<1>6. CASE UNCHANGED vars
  BY <1>6 DEF LimiterInv, TypeInv, SampleRecent, StartPast, Faithful, BucketsRecent,
              Waiting, vars
<1>7. QED
  BY <1>1, <1>2, <1>3, <1>4, <1>5, <1>6 DEF Next, Decide

LEMMA LimiterInvCorrect == Spec => []LimiterInv
<1>1. Init => LimiterInv
  <2> SUFFICES ASSUME Init PROVE LimiterInv
    OBVIOUS
  <2>1. TypeInv
    BY DEF Init, TypeInv, Bucket, NoBucket, Request, Status
  <2>2. \A r \in Requests : ~Waiting(r)
    BY DEF Init, Waiting
  <2>3. \A k \in Keys : buckets[k].count = 0 /\ windows[k].count = 0
    BY DEF Init, NoBucket
  <2>4. QED
    BY <2>1, <2>2, <2>3
       DEF LimiterInv, SampleRecent, StartPast, Faithful, BucketsRecent
<1>2. QED
  BY <1>1, InvStep, TypeCorrect, PTL DEF Spec

-----------------------------------------------------------------------------
(* The map never holds two keys two windows apart.                         *)
THEOREM BucketsRecentCorrect == Spec => []BucketsRecent
  BY LimiterInvCorrect, PTL DEF LimiterInv

(* For the request that decides, the map and the history agree on whether  *)
(* its key's window has run out.                                           *)
LEMMA SameDecision ==
  ASSUME LimiterInv, NEW r \in Requests, Waiting(r)
  PROVE  LET q == request[r] IN
         /\ Expired(buckets[q.key], q.sample) <=> Expired(windows[q.key], q.sample)
         /\ ~Expired(buckets[q.key], q.sample) => buckets[q.key] = windows[q.key]
<1> DEFINE q == request[r]
<1>1. /\ TypeInv /\ q.key \in Keys /\ q.sample \in Nat
      /\ now \in Nat /\ now <= q.sample + MaxLag
  BY RequestTypes DEF LimiterInv, SampleRecent, TypeInv
<1>2. CASE buckets[q.key].count > 0
  BY <1>1, <1>2 DEF LimiterInv, Faithful
<1>3. CASE buckets[q.key].count = 0 /\ windows[q.key].count = 0
  BY <1>3 DEF Expired
<1>4. CASE buckets[q.key].count = 0 /\ windows[q.key].count > 0
  <2>1. windows[q.key].start + 2 * Window <= now
    BY <1>1, <1>4 DEF LimiterInv, Faithful
  <2>2. q.sample - windows[q.key].start >= Window
    BY <1>1, <2>1, BucketTypes
  <2>3. QED
    BY <1>4, <2>2 DEF Expired
<1>5. QED
  BY <1>1, <1>2, <1>3, <1>4, BucketTypes

(* A window counts the requests it has admitted, each of them once and up  *)
(* to their limits; no step but the one that admits a request of the key   *)
(* touches the window of a key (handler.go:485-507).                       *)
THEOREM AdmittedAreCounted == Spec => CountsAdmitted
<1>1. ASSUME LimiterInv, Next, NEW k \in Keys PROVE AdmissionsCounted(k)
  <2>0. TypeInv /\ Faithful
    BY <1>1 DEF LimiterInv
  <2>1. CASE Tick
    BY <2>0, <2>1 DEF Tick, AdmissionsCounted, Admitted, Waiting
  <2>2. ASSUME NEW r \in Requests, Arrive(r) \/ Unlimited(r) \/ Deny(r) PROVE AdmissionsCounted(k)
    <3>1. ASSUME NEW s \in Requests PROVE s \notin Admitted(k)
      <4>1. CASE s # r
        <5>1. request'[s] = request[s]
          BY <2>0, <2>2, <4>1 DEF TypeInv, Arrive, Unlimited, Deny, Verdict
        <5> QED BY <5>1 DEF Admitted, Waiting
      <4>2. CASE s = r /\ (Arrive(r) \/ Unlimited(r))
        BY <4>2 DEF Arrive, Unlimited, Admitted, Waiting
      <4>3. CASE s = r /\ Deny(r)
        <5>1. request'[r].status = "denied"
          BY <2>0, <4>3 DEF TypeInv, Request, Deny, Verdict
        <5> QED BY <4>3, <5>1 DEF Admitted
      <4> QED BY <2>2, <4>1, <4>2, <4>3
    <3>2. windows' = windows
      BY <2>2 DEF Arrive, Unlimited, Deny
    <3>3. Admitted(k) = {}
      BY <3>1 DEF Admitted
    <3> QED BY <3>2, <3>3 DEF AdmissionsCounted
  <2>3. ASSUME NEW r \in Requests, Open(r) \/ Count(r) PROVE AdmissionsCounted(k)
    <3>1. /\ Waiting(r) /\ request[r].limit > 0 /\ request' = [request EXCEPT ![r].status = "allowed"]
      BY <2>3 DEF Open, Count, Verdict
    <3>2. Admitted(k) = IF k = request[r].key THEN {r} ELSE {}
      BY <2>0, <3>1 DEF TypeInv, Request, Admitted, Waiting
    <3>3. CASE k # request[r].key
      <4>1. windows'[k] = windows[k]
        BY <2>0, <2>3, <3>3, OpenEffect, CountEffect
      <4> QED BY <3>2, <3>3, <4>1 DEF AdmissionsCounted
    <3>4. CASE k = request[r].key /\ Open(r)
      <4>1. Expired(windows[k], request[r].sample)
        BY <1>1, <3>1, <3>4, SameDecision DEF Open
      <4>2. windows'[k] = [start |-> request[r].sample, count |-> 1]
        BY <2>0, <3>4 DEF Open, TypeInv
      <4> QED BY <3>2, <3>4, <4>1, <4>2 DEF AdmissionsCounted, Counted
    <3>5. CASE k = request[r].key /\ Count(r)
      <4>1. ~Expired(windows[k], request[r].sample)
        BY <1>1, <3>1, <3>5, SameDecision DEF Count
      <4>2. /\ windows' = [windows EXCEPT ![k].count = @ + 1]
            /\ windows'[k].count = windows[k].count + 1 /\ windows[k].count < request[r].limit
        BY <2>0, <3>5, CountEffect
      <4>3. windows'[k] = [windows[k] EXCEPT !.count = @ + 1]
        BY <2>0, <4>2 DEF TypeInv
      <4>4. windows'[k].count <= request[r].limit
        BY <2>0, <4>2, RequestTypes, BucketTypes
      <4> QED BY <3>2, <3>5, <4>1, <4>3, <4>4 DEF AdmissionsCounted, Counted
    <3> QED BY <2>3, <3>3, <3>4, <3>5
  <2> QED BY <1>1, <2>1, <2>2, <2>3 DEF Next, Decide
<1>2. LimiterInv /\ [Next]_vars => [\A k \in Keys : AdmissionsCounted(k)]_vars
  BY <1>1
<1> QED BY <1>2, LimiterInvCorrect, PTL DEF Spec, CountsAdmitted

(* A key's windows start at least one window length apart.                 *)
THEOREM WindowsApartCorrect == Spec => WindowsApart
<1>1. LimiterInv /\ [Next]_vars =>
        [\A k \in Keys :
           (windows'[k].start # windows[k].start /\ windows[k].count > 0)
             => windows'[k].start - windows[k].start >= Window]_vars
  <2> SUFFICES ASSUME LimiterInv, Next, NEW k \in Keys,
                      windows'[k].start # windows[k].start, windows[k].count > 0
               PROVE  windows'[k].start - windows[k].start >= Window
    OBVIOUS
  <2>0. TypeInv
    BY DEF LimiterInv
  <2>1. PICK r \in Requests : Open(r) \/ Count(r)
    BY DEF Next, Decide, Tick, Arrive, Unlimited, Deny
  <2>2. CASE Count(r)
    BY <2>0, <2>2, CountEffect DEF LimiterInv
  <2>3. CASE Open(r)
    <3>1. k = request[r].key /\ windows'[k].start = request[r].sample
      BY <2>0, <2>3, OpenEffect
    <3>2. Expired(windows[k], request[r].sample)
      BY <2>3, <3>1, SameDecision DEF Open
    <3>3. QED
      BY <2>0, <3>1, <3>2, BucketTypes DEF Expired
  <2>4. QED
    BY <2>1, <2>2, <2>3
<1>2. QED
  BY <1>1, LimiterInvCorrect, PTL DEF Spec, WindowsApart

(* The limiter implements the one that never forgets a window.             *)
THEOREM LimiterRefines == Spec => KeepsPromise
<1>1. Init => Promise!Init
  BY DEF Init, Promise!Init, NoBucket
<1>2. LimiterInv /\ [Next]_vars => [Promise!Next]_<<windows, request>>
  <2> SUFFICES ASSUME LimiterInv, [Next]_vars
               PROVE  Promise!Next \/ UNCHANGED <<windows, request>>
    OBVIOUS
  <2>0. TypeInv
    BY DEF LimiterInv
  <2>1. CASE Tick \/ UNCHANGED vars
    BY <2>1 DEF Tick, vars
  <2>2. ASSUME NEW r \in Requests, Arrive(r) PROVE Promise!Arrive(r)
    <3>1. PICK k \in Keys, l \in Limits :
            request' = [request EXCEPT ![r] =
                          [status |-> "waiting", key |-> k, limit |-> l, sample |-> now]]
      BY <2>2 DEF Arrive
    <3>2. request'[r] = [status |-> "waiting", key |-> k, limit |-> l, sample |-> now]
      BY <2>0, <3>1 DEF TypeInv
    <3>3. request' = [request EXCEPT ![r] = request'[r]]
      BY <3>1, <3>2
    <3>4. now \in Nat
      BY <2>0 DEF TypeInv
    <3>5. request'[r] \in [status : {"waiting"}, key : Keys, limit : Limits, sample : Nat]
      BY <3>2, <3>4
    <3>6. QED
      BY <2>2, <3>3, <3>5 DEF Arrive, Waiting, Promise!Arrive, Promise!Waiting
  <2>3. ASSUME NEW r \in Requests, Unlimited(r) PROVE Promise!Unlimited(r)
    BY <2>3 DEF Unlimited, Verdict, Waiting, Promise!Unlimited, Promise!Verdict, Promise!Waiting
  <2>4. ASSUME NEW r \in Requests, Open(r) PROVE Promise!Open(r)
    <3>1. Expired(windows[request[r].key], request[r].sample)
      BY <2>4, SameDecision DEF Open
    <3>2. QED
      BY <2>4, <3>1 DEF Open, Verdict, Waiting, Expired,
                        Promise!Open, Promise!Verdict, Promise!Waiting, Promise!Expired
  <2>5. ASSUME NEW r \in Requests, Count(r) PROVE Promise!Count(r)
    <3>1. ~Expired(windows[request[r].key], request[r].sample)
      BY <2>5, SameDecision DEF Count
    <3>2. /\ windows' = [windows EXCEPT ![request[r].key].count = @ + 1]
          /\ windows[request[r].key].count < request[r].limit
      BY <2>0, <2>5, CountEffect DEF LimiterInv
    <3>3. QED
      BY <2>5, <3>1, <3>2 DEF Count, Verdict, Waiting, Expired,
                              Promise!Count, Promise!Verdict, Promise!Waiting, Promise!Expired
  <2>6. ASSUME NEW r \in Requests, Deny(r) PROVE Promise!Deny(r)
    <3>1. /\ ~Expired(windows[request[r].key], request[r].sample)
          /\ buckets[request[r].key] = windows[request[r].key]
      BY <2>6, SameDecision DEF Deny
    <3>2. QED
      BY <2>6, <3>1 DEF Deny, Verdict, Waiting, Expired,
                        Promise!Deny, Promise!Verdict, Promise!Waiting, Promise!Expired
  <2>7. QED
    BY <2>1, <2>2, <2>3, <2>4, <2>5, <2>6 DEF Next, Decide, Promise!Next
<1>3. QED
  BY <1>1, <1>2, LimiterInvCorrect, PTL DEF Spec, KeepsPromise, Promise!Spec

=============================================================================
