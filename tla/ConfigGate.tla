----------------------------- MODULE ConfigGate -----------------------------
(***************************************************************************)
(* Those who read a configuration while it is updated.  Get of both        *)
(* config/proxyconfig and config/mcp reads the rows one query at a time    *)
(* and takes no lock; an update commits its rows one statement at a time.  *)
(* So a reader can return a mixture of configurations.  POST /mcp (mcp/    *)
(* handler.go) reads so, and then judges its request by each row in turn:  *)
(* enabled, origins, token.  The MCP service updates its three rows as     *)
(* ProxyConfigStore does, with every field given.                          *)
(***************************************************************************)
EXTENDS ProxyConfigStore, Sequences

CONSTANTS
  Whole,     \* the writers that give every field (PUT /engine/mcp-config)
  Readers,   \* requests judged by the configuration
  Requests,  \* what a request may present: its origin and its token
  Admits,    \* Admits[m]: the requests that a row saying m lets pass
  Order,     \* the fields in the order in which the gate looks at them
  Served     \* the verdict on a request that every row lets pass

ASSUME WholeAssumption == Whole \subseteq Writers
ASSUME AdmitsAssumption ==
  Admits \in [{Meaning[v] : v \in Values} -> SUBSET Requests]
ASSUME OrderAssumption ==
  /\ Order \in Seq(Fields) /\ {Order[i] : i \in DOMAIN Order} = Fields
  /\ Served \notin Fields

VARIABLES
  stage,    \* where the request of r is
  ask,      \* ask[r]: what it presents
  seen,     \* seen[r]: the rows r has read so far, in order
  verdict,  \* verdict[r]: Served, or the field whose row refused it
  said,     \* history: said[f]: what the row f may rightly say now
  may       \* history: may[r][f]: what it may have said since r began

gateVars == <<stage, ask, seen, verdict, said, may>>

GateInit ==
  /\ Init
  /\ stage = [r \in Readers |-> "idle"]
  /\ ask \in [Readers -> Requests]
  /\ seen = [r \in Readers |-> <<>>]
  /\ verdict = [r \in Readers |-> Served]
  /\ said = [f \in Fields |-> {Meaning[Default]}]
  /\ may = [r \in Readers |-> said]

-----------------------------------------------------------------------------
(* The updates.                                                            *)

PutConfig(w) == Submit(w) /\ \A f \in Fields : input'[w][f] # Keep

(* An update that starts saving may be seen in every row it was given;     *)
(* when it has been saved whole, nothing else may; when it failed half     *)
(* way, either.                                                            *)
Saying(f) ==
  LET given(from, to) == {w \in Writers : pc[w] = from /\ pc'[w] = to /\ Asked(w, f)}
      meant(ws) == {Meaning[input[w][f]] : w \in ws}
  IN IF given("saving", "announcing") # {} THEN meant(given("saving", "announcing"))
     ELSE said[f] \cup meant(given("reading", "saving"))

Watch ==
  /\ said' = [f \in Fields |-> Saying(f)]
  /\ may' = [r \in Readers |->
       IF stage[r] = "reading" THEN [f \in Fields |-> may[r][f] \cup said'[f]] ELSE may[r]]
  /\ UNCHANGED <<stage, ask, seen, verdict>>

Update(w) ==
  /\ \/ w \in Whole /\ PutConfig(w)
     \/ w \notin Whole /\ Submit(w)
     \/ Lock(w)
     \/ Work(w)
  /\ Watch

-----------------------------------------------------------------------------
(* The requests.                                                           *)

Arrive(r) ==
  /\ stage[r] # "reading"
  /\ \E q \in Requests : ask' = [ask EXCEPT ![r] = q]
  /\ stage' = [stage EXCEPT ![r] = "reading"]
  /\ seen' = [seen EXCEPT ![r] = <<>>]
  /\ verdict' = [verdict EXCEPT ![r] = Served]
  /\ may' = [may EXCEPT ![r] = said]
  /\ UNCHANGED said

(* getConfig: one query, no lock.                                          *)
ReadRow(r) ==
  /\ stage[r] = "reading" /\ Len(seen[r]) < FieldCount
  /\ seen' = [seen EXCEPT ![r] = Append(@, store[Len(@) + 1])]
  /\ UNCHANGED <<stage, ask, verdict, said, may>>

(* A query failed: answered with the status 500, judged by nothing.        *)
ReadFails(r) ==
  /\ stage[r] = "reading" /\ Len(seen[r]) < FieldCount
  /\ stage' = [stage EXCEPT ![r] = "idle"]
  /\ seen' = [seen EXCEPT ![r] = <<>>]
  /\ UNCHANGED <<ask, verdict, said, may>>

Passes(r, f) == ask[r] \in Admits[Meaning[seen[r][f]]]

PassesAll(r, n) == \A i \in 1..n : Passes(r, Order[i])

(* Mutated form: the last check is left out.                               *)
JudgePartly(r) ==
  /\ stage[r] = "reading" /\ Len(seen[r]) = FieldCount
  /\ \/ PassesAll(r, Len(Order) - 1) /\ verdict' = [verdict EXCEPT ![r] = Served]
     \/ \E i \in 1..Len(Order) - 1 :
          /\ PassesAll(r, i - 1) /\ ~Passes(r, Order[i])
          /\ verdict' = [verdict EXCEPT ![r] = Order[i]]
  /\ stage' = [stage EXCEPT ![r] = "judged"]
  /\ UNCHANGED <<ask, seen, said, may>>

(* The first row that refuses the request answers it.                      *)
Judge(r) ==
  /\ stage[r] = "reading" /\ Len(seen[r]) = FieldCount
  /\ \/ PassesAll(r, Len(Order)) /\ verdict' = [verdict EXCEPT ![r] = Served]
     \/ \E i \in DOMAIN Order :
          /\ PassesAll(r, i - 1) /\ ~Passes(r, Order[i])
          /\ verdict' = [verdict EXCEPT ![r] = Order[i]]
  /\ stage' = [stage EXCEPT ![r] = "judged"]
  /\ UNCHANGED <<ask, seen, said, may>>

Read(r) == Arrive(r) \/ ReadRow(r) \/ ReadFails(r) \/ Judge(r)

GateNext ==
  \/ \E w \in Writers : Update(w)
  \/ \E r \in Readers : Read(r) /\ UNCHANGED vars

GateSpec == GateInit /\ [][GateNext]_<<vars, gateVars>>

(* The fairness of updates; nobody waits for a reader.                     *)
GateFairSpec == GateSpec /\ Fairness

-----------------------------------------------------------------------------
(* Properties.                                                             *)

(* A configuration read without the lock is regular: each row says what    *)
(* the last update saved whole gave it, or what an update gave that failed *)
(* half way since, or was running during the read; never what an earlier   *)
(* update had replaced before the read began (proxyconfig/service.go:98).  *)
ReadIsRegular ==
  \A r \in Readers : \A f \in DOMAIN seen[r] : Meaning[seen[r][f]] \in may[r][f]

(* Some, or not all, of what the row f may have said lets r pass.          *)
Could(r, f) == \E m \in may[r][f] : ask[r] \in Admits[m]
CouldNot(r, f) == \E m \in may[r][f] : ask[r] \notin Admits[m]

Stands(r) ==
  IF verdict[r] = Served THEN \A f \in Fields : Could(r, f)
  ELSE \E i \in DOMAIN Order :
         /\ Order[i] = verdict[r] /\ CouldNot(r, Order[i])
         /\ \A j \in 1..i - 1 : Could(r, Order[j])

(* The verdict on an MCP request stands by those rows, although they are   *)
(* read apart: it is served only if each of them may have let it pass, and *)
(* the row that refused it may have, after those before it let it pass;    *)
(* with no update about, that is the saved configuration's own verdict     *)
(* (mcp/handler.go:79-94).                                                 *)
VerdictStands == \A r \in Readers : stage[r] = "judged" => Stands(r)

=============================================================================
