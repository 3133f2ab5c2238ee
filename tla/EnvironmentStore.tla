-------------------------- MODULE EnvironmentStore --------------------------
(***************************************************************************)
(* The environment variables (features/environment-variables): one table,  *)
(* keyed by the variable's name, which the admin API and the MCP tools     *)
(* change.  Each operation of the service locks writeMu, runs one          *)
(* statement and unlocks, so it is one step here; an upload is a loop of   *)
(* such operations, with those of other requests between them.  A request  *)
(* that succeeded broadcasts mcp:changed afterwards, and a viewer who gets *)
(* the event reads the variables again.  The broadcast may panic before it *)
(* reaches the viewer (RealtimeHub), and the process may restart between   *)
(* any two steps, events that wait for the viewer lost with it.            *)
(*                                                                         *)
(* A definition headed "Mutated form" is a plausible bug that a check run  *)
(* puts in the place of the definition that follows it.                    *)
(***************************************************************************)
EXTENDS Naturals, Sequences, Functions

CONSTANTS
  Writers,        \* clients that send requests, one at a time each
  Keys,           \* normalised names
  Raw,            \* names as a request spells them
  Blank,          \* a spelling that is nothing but white space
  Invalid,        \* the outcome of a name normalizeVariable rejects
  NormalForm,     \* NormalForm[raw], a key or Invalid
  Values,         \* values of variables
  Requests,       \* the requests a client may send
  CountsMatched,  \* UPDATE reports the rows it matched, not those it changed
  MaxClock,       \* bound: seconds that pass
  MaxRequests     \* bound: MaxRequests[w] requests by w

ASSUME ClockAssumption == MaxClock \in Nat
ASSUME NormalAssumption ==
  NormalForm \in [Raw -> Keys \cup {Invalid}] /\ Invalid \notin Keys /\ Blank \notin Raw

Item == [key : Raw \cup {Blank}, value : Values, enabled : BOOLEAN]
ASSUME RequestsAssumption ==
  \A r \in Requests :
    \/ r.op = "upload" /\ r.items \in Seq(Item)
    \/ r.op = "create" /\ r.key \in Raw /\ r.value \in Values
    \/ r.op = "update" /\ r.key \in Raw /\ r.next \in Raw /\ r.value \in Values
    \/ r.op = "delete" /\ r.key \in Raw

VARIABLES
  table,    \* the rows, a function on the names there are
  clock,    \* now, in seconds: what timestamp() tells apart
  pc,       \* where the request of w is
  request,  \* request[w]: what w asked for
  next,     \* next[w]: where an upload goes on among its items
  reply,    \* reply[w]: the answer w got
  seen,     \* the values a viewer who stays connected has last read
  told,     \* names in the events that wait for the viewer
  unannounced,  \* history: names whose writer ended, the viewer not told of it
  touched,  \* history: names that others wrote since w sent its request
  made      \* made[w]: number of requests of w

vars == <<table, clock, pc, request, next, reply, seen, told, unannounced, touched, made>>
viewer == <<seen, told, unannounced>>
work == <<pc, request, next, reply, made>>

Row == [value : Values, at : 0..MaxClock]
Shown(t) == [k \in DOMAIN t |-> t[k].value]
Normal(w) == NormalForm[request[w].key]
NextName(w) == NormalForm[request[w].next]
Idle == [op |-> "delete", key |-> CHOOSE raw \in Raw : TRUE]

Init ==
  /\ table = <<>>
  /\ clock = 0
  /\ pc = [w \in Writers |-> "idle"]
  /\ request = [w \in Writers |-> Idle]
  /\ next = [w \in Writers |-> 1]
  /\ reply = [w \in Writers |-> "none"]
  /\ seen = Shown(table)
  /\ told = {}
  /\ unannounced = {}
  /\ touched = [w \in Writers |-> {}]
  /\ made = [w \in Writers |-> 0]

Tick ==
  /\ clock < MaxClock
  /\ clock' = clock + 1
  /\ UNCHANGED <<table, work, viewer, touched>>

Receive(w, r) ==
  /\ pc[w] = "idle" /\ made[w] < MaxRequests[w]
  /\ made' = [made EXCEPT ![w] = @ + 1]
  /\ pc' = [pc EXCEPT ![w] = "working"]
  /\ request' = [request EXCEPT ![w] = r]
  /\ next' = [next EXCEPT ![w] = 1]
  /\ reply' = [reply EXCEPT ![w] = "none"]
  /\ touched' = [touched EXCEPT ![w] = {}]
  /\ UNCHANGED <<table, clock, viewer>>

Working(w, op) == pc[w] = "working" /\ request[w].op = op

Changed(new) ==
  {k \in Keys : Restrict(new, {k} \cap DOMAIN new) # Restrict(table, {k} \cap DOMAIN table)}

Write(w, new) ==
  /\ table' = new
  /\ touched' = [v \in Writers |->
       IF v = w THEN touched[v] ELSE touched[v] \cup Changed(new)]

Answer(w, r) ==
  /\ pc' = [pc EXCEPT ![w] = "idle"]
  /\ reply' = [reply EXCEPT ![w] = r]

Proceed(w) ==
  /\ pc' = [pc EXCEPT ![w] = "announcing"]
  /\ UNCHANGED reply

(* ImportPayload skips items that are switched off and items without name. *)
Imported(items) == {i \in DOMAIN items : items[i].enabled /\ items[i].key # Blank}

(* The names the request of w has written and not yet announced.            *)
Owed(w) ==
  {k \in Keys :
     \/ /\ pc[w] # "idle" /\ request[w].op = "upload"
        /\ \E i \in Imported(request[w].items) :
             i < next[w] /\ k = NormalForm[request[w].items[i].key]
     \/ pc[w] = "announcing" /\ request[w].op # "upload" /\ k = Normal(w)
     \/ pc[w] = "announcing" /\ request[w].op = "update" /\ k = NextName(w)}

(* A request that normalizeVariable or the database rejects.  The rows an   *)
(* upload has written by then stay, and no one is told of them.             *)
Reject(w) ==
  /\ Answer(w, "error")
  /\ unannounced' = unannounced \cup Owed(w)
  /\ UNCHANGED <<table, clock, seen, told, touched, request, next, made>>

Saved(k, value) ==
  [x \in DOMAIN table \cup {k} |->
     IF x = k THEN [value |-> value, at |-> clock] ELSE table[x]]
Without(t, k) == Restrict(t, DOMAIN t \ {k})

(* Mutated form: an item without name ends the loop.                        *)
ImportItemStops(w) ==
  /\ Working(w, "upload")
  /\ LET items == request[w].items
         left  == next[w] <= Len(items) /\ items[next[w]].key # Blank
     IN  IF ~left
         THEN /\ Proceed(w)
              /\ UNCHANGED <<table, clock, viewer, touched, request, next, made>>
         ELSE LET item == items[next[w]]
                  k    == NormalForm[item.key]
              IN  IF k = Invalid THEN Reject(w)
                  ELSE /\ Write(w, IF item.enabled THEN Saved(k, item.value) ELSE table)
                       /\ next' = [next EXCEPT ![w] = @ + 1]
                       /\ UNCHANGED <<clock, viewer, pc, request, reply, made>>

(* One round of the loop of ImportPayload, or its end.                      *)
ImportItem(w) ==
  /\ Working(w, "upload")
  /\ LET items == request[w].items
         left  == {i \in Imported(items) : i >= next[w]}
     IN  \/ \E i \in left :
               /\ \A j \in left : i <= j
               /\ LET k == NormalForm[items[i].key]
                  IN  IF k = Invalid THEN Reject(w)
                      ELSE /\ Write(w, Saved(k, items[i].value))
                           /\ next' = [next EXCEPT ![w] = i + 1]
                           /\ UNCHANGED <<clock, viewer, pc, request, reply, made>>
         \/ /\ Imported(items) = {}
            /\ Reject(w)
         \/ /\ Imported(items) # {} /\ left = {}
            /\ Proceed(w)
            /\ UNCHANGED <<table, clock, viewer, touched, request, next, made>>

(* Mutated form: the answer is given, and nothing broadcast.                *)
CreateQuiet(w) ==
  /\ Working(w, "create")
  /\ Normal(w) # Invalid
  /\ Write(w, Saved(Normal(w), request[w].value))
  /\ Answer(w, "ok")
  /\ UNCHANGED <<clock, viewer, request, next, made>>

Create(w) ==
  /\ Working(w, "create")
  /\ IF Normal(w) = Invalid THEN Reject(w)
     ELSE /\ Write(w, Saved(Normal(w), request[w].value))
          /\ Proceed(w)
          /\ UNCHANGED <<clock, viewer, request, next, made>>

(* Mutated form: the count of rows is not looked at.                        *)
AffectedAlways(k, new) == TRUE

(* RowsAffected of UPDATE ... SET key, value, updated_at WHERE key: the     *)
(* MySQL driver, whose DSN mysqlDSN does not ask for clientFoundRows,       *)
(* reports no row when the row already has these values.                    *)
Affected(k, new) ==
  /\ k \in DOMAIN table
  /\ CountsMatched \/ new # table

(* The new name is the primary key of another row.                          *)
Taken(k, n) == k # n /\ {k, n} \subseteq DOMAIN table

Renamed(k, n, value) ==
  IF k \notin DOMAIN table THEN table
  ELSE IF k = n THEN Saved(n, value) ELSE Without(Saved(n, value), k)

(* Mutated form: a rename saves the new name, then deletes the old one.     *)
UpdateBySaving(w) ==
  /\ Working(w, "update")
  /\ LET k == Normal(w)
         n == NextName(w)
     IN  IF Invalid \in {k, n} THEN Reject(w)
         ELSE /\ Write(w, Renamed(k, n, request[w].value))
              /\ Proceed(w)
              /\ UNCHANGED <<clock, viewer, request, next, made>>

Update(w) ==
  /\ Working(w, "update")
  /\ LET k   == Normal(w)
         n   == NextName(w)
         new == Renamed(k, n, request[w].value)
     IN  IF Invalid \in {k, n} \/ Taken(k, n) THEN Reject(w)
         ELSE /\ Write(w, new)
              /\ IF Affected(k, new) THEN Proceed(w) ELSE Answer(w, "notFound")
              /\ UNCHANGED <<clock, viewer, request, next, made>>

Delete(w) ==
  /\ Working(w, "delete")
  /\ LET k == Normal(w)
     IN  IF k = Invalid THEN Reject(w)
         ELSE /\ Write(w, Without(table, k))
              /\ IF k \in DOMAIN table THEN Proceed(w) ELSE Answer(w, "notFound")
              /\ UNCHANGED <<clock, viewer, request, next, made>>

(* A statement fails, for instance because the client went away.           *)
Fail(w) == pc[w] = "working" /\ Reject(w)

(* broadcastChanged, emitChanged: the viewer's event is queued.             *)
Announce(w) ==
  /\ pc[w] = "announcing"
  /\ Answer(w, "ok")
  /\ told' = told \cup Owed(w)
  /\ UNCHANGED <<table, clock, seen, unannounced, touched, request, next, made>>

(* The broadcast panics in a client that was unsubscribed meanwhile, which  *)
(* comes before or after the viewer in the order of the hub's map; the      *)
(* engine's Recovery answers.                                               *)
AnnouncePanics(w) ==
  /\ pc[w] = "announcing"
  /\ Answer(w, "error")
  /\ \/ told' = told \cup Owed(w) /\ UNCHANGED unannounced
     \/ unannounced' = unannounced \cup Owed(w) /\ UNCHANGED told
  /\ UNCHANGED <<table, clock, seen, touched, request, next, made>>

(* The viewer, told of a change, reads all variables again.                 *)
View ==
  /\ told # {}
  /\ seen' = Shown(table)
  /\ told' = {}
  /\ unannounced' = {}
  /\ UNCHANGED <<table, clock, work, touched>>

(* The process ends and starts again: what was under way is cut off.        *)
Restart ==
  /\ told # {} \/ \E w \in Writers : pc[w] # "idle"
  /\ pc' = [w \in Writers |-> "idle"]
  /\ told' = {}
  /\ unannounced' = unannounced \cup told \cup UNION {Owed(w) : w \in Writers}
  /\ UNCHANGED <<table, clock, seen, touched, request, next, reply, made>>

Next ==
  \/ Tick
  \/ \E w \in Writers :
       \/ \E r \in Requests : Receive(w, r)
       \/ ImportItem(w) \/ Create(w) \/ Update(w) \/ Delete(w)
       \/ Fail(w) \/ Announce(w) \/ AnnouncePanics(w)
  \/ View \/ Restart

Spec == Init /\ [][Next]_vars

-----------------------------------------------------------------------------

(* An upload that succeeds has saved every enabled variable it named, the   *)
(* last value where two items name one (service.go:59-73); only names that  *)
(* another request wrote meanwhile may differ.                              *)
ImportStands ==
  \A w \in Writers : pc[w] = "announcing" /\ request[w].op = "upload" =>
    LET items == request[w].items
    IN  \A i \in Imported(items) :
          LET k == NormalForm[items[i].key]
          IN  \/ k \in touched[w]
              \/ \E j \in Imported(items) : j > i /\ NormalForm[items[j].key] = k
              \/ k \in DOMAIN table /\ table[k].value = items[i].value

(* Once no request is on its way and no event waits, a viewer shows what is *)
(* stored (handler.go:149-160, rpc.go:663) under every name, but for those  *)
(* whose last writers ended without an event for it since it last read: an  *)
(* upload that failed part-way (service.go:69, handler.go:66-70), a request *)
(* whose broadcast panicked (hub.go:55), one that a restart cut off.        *)
ShownWhenQuiet ==
  (\A w \in Writers : pc[w] = "idle") /\ told = {} =>
    \A k \in Keys \ unannounced :
      Restrict(seen, {k} \cap DOMAIN seen) = Shown(Restrict(table, {k} \cap DOMAIN table))

(* A rename keeps every other variable: it does not take the name of one,   *)
(* whoever saved that name since the client looked (service.go:164).        *)
RenameKeepsOthers ==
  [][\A w \in Writers : Working(w, "update") /\ pc'[w] # "working" =>
       \A k \in DOMAIN table \ {Normal(w)} :
         k \in DOMAIN table' /\ table'[k] = table[k]]_vars

Stands(w, k, value) ==
  k \in touched[w] \/ (k \in DOMAIN table /\ table[k].value = value)
Gone(w, k) == k \in touched[w] \/ k \notin DOMAIN table
Done(w, op) == request[w].op = op /\ (pc[w] = "announcing" \/ reply[w] = "ok")

AnswerStands(w) ==
  /\ Done(w, "create") => Stands(w, Normal(w), request[w].value)
  /\ Done(w, "update") =>
       /\ Stands(w, NextName(w), request[w].value)
       /\ Normal(w) # NextName(w) => Gone(w, Normal(w))
  /\ Done(w, "delete") => Gone(w, Normal(w))
  /\ reply[w] = "notFound" =>
       \/ Gone(w, Normal(w))
       \/ /\ request[w].op = "update" /\ NextName(w) = Normal(w)
          /\ Stands(w, Normal(w), request[w].value)

(* What a client is answered stands until another request writes the name:  *)
(* a variable it created or renamed is stored under that name alone with    *)
(* that value, one it deleted is gone; and if it is answered "not found",   *)
(* there is none, or, where the driver counts the rows a statement changed, *)
(* it is as the client wanted it (service.go:168-171, 186-189).             *)
AnswersStand == \A w \in Writers : AnswerStands(w)
=============================================================================
