---------------------------- MODULE FixedWindow ----------------------------
(***************************************************************************)
(* What the public proxy's rate limiter promises: one fixed window per key *)
(* for ever, at most as many requests in it as the limit in force when the *)
(* request arrived, a new window only for a request taken a whole window   *)
(* later.  No forgetting, no lock and no clock: a request carries the time *)
(* it was taken at.                                                        *)
(***************************************************************************)
EXTENDS Integers

CONSTANTS Keys, Requests, Limits, Window

VARIABLES
  windows,  \* windows[k]: start and number of admitted requests, 0 = never opened
  request   \* request[r]: the call in progress, or the verdict of the last one

Waiting(r) == request[r].status = "waiting"

Expired(w, sample) == w.count = 0 \/ sample - w.start >= Window

Init ==
  /\ windows = [k \in Keys |-> [start |-> 0, count |-> 0]]
  /\ \A r \in Requests : request[r].status = "none"

Arrive(r) ==
  /\ ~Waiting(r)
  /\ request'[r] \in [status : {"waiting"}, key : Keys, limit : Limits, sample : Nat]
  /\ request' = [request EXCEPT ![r] = request'[r]]
  /\ UNCHANGED windows

Verdict(r, v) == request' = [request EXCEPT ![r].status = v]

Unlimited(r) ==
  /\ Waiting(r) /\ request[r].limit = 0
  /\ Verdict(r, "allowed")
  /\ UNCHANGED windows

Open(r) ==
  LET q == request[r] IN
  /\ Waiting(r) /\ q.limit > 0 /\ Expired(windows[q.key], q.sample)
  /\ windows' = [windows EXCEPT ![q.key] = [start |-> q.sample, count |-> 1]]
  /\ Verdict(r, "allowed")

Count(r) ==
  LET q == request[r] IN
  /\ Waiting(r) /\ q.limit > 0 /\ ~Expired(windows[q.key], q.sample)
  /\ windows[q.key].count < q.limit
  /\ windows' = [windows EXCEPT ![q.key].count = @ + 1]
  /\ Verdict(r, "allowed")

Deny(r) ==
  LET q == request[r] IN
  /\ Waiting(r) /\ q.limit > 0 /\ ~Expired(windows[q.key], q.sample)
  /\ windows[q.key].count >= q.limit
  /\ Verdict(r, "denied")
  /\ UNCHANGED windows

Next == \E r \in Requests : Arrive(r) \/ Unlimited(r) \/ Open(r) \/ Count(r) \/ Deny(r)

Spec == Init /\ [][Next]_<<windows, request>>

=============================================================================
