------------------------ MODULE EnvironmentStoreProofs ------------------------
(***************************************************************************)
(* What the environment variables promise their clients, for any number of *)
(* clients, names and requests: an upload that succeeds has saved what it  *)
(* named, viewers show what is stored, a rename leaves other variables     *)
(* alone, and what a client is answered stands.                            *)
(***************************************************************************)
EXTENDS EnvironmentStore, TLAPS

IsTable(t) == DOMAIN t \subseteq Keys /\ t \in [DOMAIN t -> Row]

EnvTypeInv ==
  /\ IsTable(table)
  /\ clock \in 0..MaxClock
  /\ pc \in [Writers -> {"idle", "working", "announcing"}]
  /\ request \in [Writers -> Requests \cup {Idle}]
  /\ next \in [Writers -> Nat \ {0}]
  /\ reply \in [Writers -> {"none", "ok", "error", "notFound"}]
  /\ touched \in [Writers -> SUBSET Keys]
  /\ \A w \in Writers : pc[w] # "idle" => request[w] \in Requests
  /\ \A w \in Writers : pc[w] # "idle" => reply[w] = "none"

(* The items of an upload that its loop is past are saved, but for names   *)
(* that a later item of it or another request has written since.           *)
KeyAt(w, i) == NormalForm[request[w].items[i].key]
ItemStands(w, i) ==
  LET k == KeyAt(w, i)
  IN  /\ k \in Keys
      /\ \/ k \in touched[w]
         \/ \E j \in Imported(request[w].items) : i < j /\ j < next[w] /\ KeyAt(w, j) = k
         \/ k \in DOMAIN table /\ table[k].value = request[w].items[i].value
UploadStands(w) ==
  pc[w] # "idle" /\ request[w].op = "upload" =>
    \A i \in Imported(request[w].items) :
      /\ i < next[w] => ItemStands(w, i)
      /\ pc[w] = "announcing" => i < next[w]

(* A viewer shows a name as it is stored, or an event for it waits, or     *)
(* some request has still to announce it or never will.                    *)
Shows(k) ==
  Restrict(seen, {k} \cap DOMAIN seen) = Shown(Restrict(table, {k} \cap DOMAIN table))
SeenIsDue ==
  \A k \in Keys :
    Shows(k) \/ k \in told \/ k \in unannounced \/ \E w \in Writers : k \in Owed(w)

EnvInv ==
  /\ EnvTypeInv /\ SeenIsDue
  /\ \A w \in Writers : UploadStands(w) /\ AnswerStands(w)

-----------------------------------------------------------------------------
(* What the operators on the table return. *)

LEMMA SavedIs ==
  ASSUME IsTable(table), clock \in 0..MaxClock, NEW k \in Keys, NEW value \in Values
  PROVE  /\ IsTable(Saved(k, value))
         /\ DOMAIN Saved(k, value) = DOMAIN table \cup {k}
         /\ Saved(k, value)[k].value = value
         /\ \A x \in DOMAIN table \ {k} : Saved(k, value)[x] = table[x]
BY DEF IsTable, Saved, Row

LEMMA WithoutIs ==
  ASSUME NEW t, IsTable(t), NEW k
  PROVE  /\ IsTable(Without(t, k))
         /\ DOMAIN Without(t, k) = DOMAIN t \ {k}
         /\ \A x \in DOMAIN t \ {k} : Without(t, k)[x] = t[x]
         /\ k \notin DOMAIN t => Without(t, k) = t
BY DEF IsTable, Without, Restrict

LEMMA RenamedIs ==
  ASSUME IsTable(table), clock \in 0..MaxClock,
         NEW k \in Keys, NEW n \in Keys, NEW value \in Values
  PROVE  /\ IsTable(Renamed(k, n, value))
         /\ k \notin DOMAIN table => Renamed(k, n, value) = table
         /\ ~Taken(k, n) => \A x \in DOMAIN table \ {k} :
              x \in DOMAIN Renamed(k, n, value) /\ Renamed(k, n, value)[x] = table[x]
         /\ k \in DOMAIN table =>
              /\ n \in DOMAIN Renamed(k, n, value) /\ Renamed(k, n, value)[n].value = value
              /\ k # n => k \notin DOMAIN Renamed(k, n, value)
<1> DEFINE saved == Saved(n, value)
<1>1. /\ IsTable(saved) /\ DOMAIN saved = DOMAIN table \cup {n} /\ saved[n].value = value
      /\ \A x \in DOMAIN table \ {n} : saved[x] = table[x]
  BY SavedIs
<1> HIDE DEF saved
<1>2. /\ IsTable(Without(saved, k)) /\ DOMAIN Without(saved, k) = DOMAIN saved \ {k}
      /\ \A x \in DOMAIN saved \ {k} : Without(saved, k)[x] = saved[x]
  BY <1>1, WithoutIs
<1>3. Renamed(k, n, value) = IF k \notin DOMAIN table THEN table
                             ELSE IF k = n THEN saved ELSE Without(saved, k)
  BY DEF Renamed, saved
<1>4. CASE k \notin DOMAIN table
  BY <1>3, <1>4
<1>5. CASE k \in DOMAIN table /\ k = n
  BY <1>1, <1>3, <1>5
<1>6. CASE k \in DOMAIN table /\ k # n
  BY <1>1, <1>2, <1>3, <1>6 DEF Taken
<1> QED BY <1>4, <1>5, <1>6

(* A name a write did not change has the row it had. *)
LEMMA UnchangedKept ==
  ASSUME NEW new, NEW k \in Keys, k \notin Changed(new), k \in DOMAIN table
  PROVE  k \in DOMAIN new /\ new[k] = table[k]
<1>1. Restrict(new, {k} \cap DOMAIN new) = Restrict(table, {k} \cap DOMAIN table)
  BY DEF Changed
<1>2. DOMAIN Restrict(new, {k} \cap DOMAIN new) = {k} \cap DOMAIN new
  BY DEF Restrict
<1>3. DOMAIN Restrict(table, {k} \cap DOMAIN table) = {k} \cap DOMAIN table
  BY DEF Restrict
<1>4. k \in DOMAIN new
  BY <1>1, <1>2, <1>3
<1>5. Restrict(new, {k} \cap DOMAIN new)[k] = new[k]
  BY <1>4 DEF Restrict
<1>6. Restrict(table, {k} \cap DOMAIN table)[k] = table[k]
  BY DEF Restrict
<1> QED BY <1>1, <1>4, <1>5, <1>6

LEMMA ChangedKeys == \A new : Changed(new) \in SUBSET Keys
BY DEF Changed

(* What a request carries, by its kind. *)
LEMMA RequestIs ==
  ASSUME NEW r \in Requests
  PROVE  /\ r.op = "upload" => r.items \in Seq(Item)
         /\ r.op \in {"create", "update", "delete"} => NormalForm[r.key] \in Keys \cup {Invalid}
         /\ r.op \in {"create", "update"} => r.value \in Values
         /\ r.op = "update" => NormalForm[r.next] \in Keys \cup {Invalid}
BY RequestsAssumption, NormalAssumption

LEMMA ImportedIs ==
  ASSUME NEW r \in Requests, r.op = "upload", NEW i \in Imported(r.items)
  PROVE  /\ i \in Nat \ {0}
         /\ NormalForm[r.items[i].key] \in Keys \cup {Invalid}
         /\ r.items[i].value \in Values
<1>1. r.items \in Seq(Item) /\ i \in DOMAIN r.items /\ r.items[i].key # Blank
  BY RequestIs DEF Imported
<1>2. r.items[i] \in Item /\ i \in Nat \ {0}
  BY <1>1
<1> QED BY <1>1, <1>2, NormalAssumption DEF Item

(* What is shown of one name is what is shown of the table under it. *)
LEMMA ShownOfOne ==
  ASSUME NEW t, NEW k
  PROVE  Restrict(Shown(t), {k} \cap DOMAIN Shown(t)) = Shown(Restrict(t, {k} \cap DOMAIN t))
BY DEF Shown, Restrict

-----------------------------------------------------------------------------
LEMMA InitEnv == Init => EnvInv
<1> SUFFICES ASSUME Init PROVE EnvInv
  OBVIOUS
<1>1. IsTable(table) /\ clock \in 0..MaxClock
  BY ClockAssumption DEF Init, IsTable
<1>2. EnvTypeInv
  <2>1. touched \in [Writers -> SUBSET Keys] /\ next \in [Writers -> Nat \ {0}]
    BY DEF Init
  <2>2. /\ pc \in [Writers -> {"idle", "working", "announcing"}]
        /\ request \in [Writers -> Requests \cup {Idle}]
        /\ reply \in [Writers -> {"none", "ok", "error", "notFound"}]
    BY DEF Init
  <2>3. \A w \in Writers : pc[w] = "idle"
    BY DEF Init
  <2> QED BY <1>1, <2>1, <2>2, <2>3 DEF Init, EnvTypeInv
<1>3. ASSUME NEW w \in Writers PROVE UploadStands(w)
  BY <1>3 DEF Init, UploadStands
<1>4. SeenIsDue
  BY ShownOfOne DEF Init, SeenIsDue, Shows
<1>5. ASSUME NEW w \in Writers PROVE AnswerStands(w)
  BY <1>5 DEF Init, AnswerStands, Done
<1> QED BY <1>2, <1>3, <1>4, <1>5 DEF EnvInv

(* A write of a table keeps the tables' type, and what it touches. *)
LEMMA WriteTyped ==
  ASSUME EnvTypeInv, NEW w \in Writers, NEW new, IsTable(new), Write(w, new)
  PROVE  IsTable(table)' /\ touched' \in [Writers -> SUBSET Keys]
<1>1. table' = new
  BY DEF Write
<1>2. touched' \in [Writers -> SUBSET Keys]
  BY ChangedKeys DEF Write, EnvTypeInv
<1> QED BY <1>1, <1>2 DEF IsTable

LEMMA RejectTyped ==
  ASSUME EnvTypeInv, NEW w \in Writers, pc[w] = "working", Reject(w)
  PROVE  EnvTypeInv'
BY DEF EnvTypeInv, Reject, Answer, IsTable

LEMMA NextTyped == EnvTypeInv /\ [Next]_vars => EnvTypeInv'
<1> SUFFICES ASSUME EnvTypeInv, [Next]_vars PROVE EnvTypeInv'
  OBVIOUS
<1>1. CASE Tick
  BY <1>1, ClockAssumption DEF EnvTypeInv, Tick, work, IsTable
<1>2. ASSUME NEW w \in Writers, NEW r \in Requests, Receive(w, r) PROVE EnvTypeInv'
  BY <1>2 DEF EnvTypeInv, Receive, IsTable
<1>3. ASSUME NEW w \in Writers, ImportItem(w) PROVE EnvTypeInv'
  <2> DEFINE items == request[w].items
             left == {i \in Imported(items) : i >= next[w]}
  <2>1. pc[w] = "working" /\ request[w] \in Requests /\ request[w].op = "upload"
    BY <1>3 DEF ImportItem, Working, EnvTypeInv
  <2>2. ASSUME NEW i \in left, KeyAt(w, i) # Invalid,
               Write(w, Saved(KeyAt(w, i), items[i].value)),
               next' = [next EXCEPT ![w] = i + 1],
               UNCHANGED <<clock, viewer, pc, request, reply, made>>
        PROVE  EnvTypeInv'
    <3>1. i \in Nat /\ KeyAt(w, i) \in Keys /\ items[i].value \in Values
      BY <2>1, <2>2, ImportedIs DEF KeyAt
    <3>2. IsTable(Saved(KeyAt(w, i), items[i].value))
      BY <3>1, SavedIs DEF EnvTypeInv
    <3>3. IsTable(table)' /\ touched' \in [Writers -> SUBSET Keys]
      BY <2>2, <3>2, WriteTyped
    <3>4. next' \in [Writers -> Nat \ {0}]
      BY <2>2, <3>1 DEF EnvTypeInv
    <3> QED BY <2>2, <3>3, <3>4 DEF EnvTypeInv
  <2>3. CASE Reject(w)
    BY <2>1, <2>3, RejectTyped
  <2>4. CASE Proceed(w) /\ UNCHANGED <<table, clock, viewer, touched, request, next, made>>
    BY <2>1, <2>4 DEF EnvTypeInv, Proceed, IsTable
  <2> QED BY <1>3, <2>2, <2>3, <2>4 DEF ImportItem, KeyAt
<1>4. ASSUME NEW w \in Writers, Create(w) PROVE EnvTypeInv'
  <2>1. /\ pc[w] = "working" /\ request[w] \in Requests /\ request[w].op = "create"
        /\ Normal(w) \in Keys \cup {Invalid} /\ request[w].value \in Values
    BY <1>4, RequestIs DEF Create, Working, EnvTypeInv, Normal
  <2>2. CASE Normal(w) = Invalid
    BY <1>4, <2>1, <2>2, RejectTyped DEF Create
  <2>3. CASE Normal(w) # Invalid
    <3>1. IsTable(Saved(Normal(w), request[w].value))
      BY <2>1, <2>3, SavedIs DEF EnvTypeInv
    <3>2. IsTable(table)' /\ touched' \in [Writers -> SUBSET Keys]
      BY <1>4, <2>3, <3>1, WriteTyped DEF Create
    <3> QED BY <1>4, <2>1, <2>3, <3>2 DEF EnvTypeInv, Create, Proceed
  <2> QED BY <2>2, <2>3
<1>5. ASSUME NEW w \in Writers, Update(w) PROVE EnvTypeInv'
  <2> DEFINE k == Normal(w)
             n == NextName(w)
             new == Renamed(k, n, request[w].value)
  <2>1. /\ pc[w] = "working" /\ request[w] \in Requests
        /\ k \in Keys \cup {Invalid} /\ n \in Keys \cup {Invalid} /\ request[w].value \in Values
    BY <1>5, RequestIs DEF Update, Working, EnvTypeInv, Normal, NextName
  <2>2. CASE Reject(w)
    BY <2>1, <2>2, RejectTyped
  <2>3. CASE k \in Keys /\ n \in Keys /\ ~Reject(w)
    <3>1. IsTable(new)
      BY <2>1, <2>3, RenamedIs DEF EnvTypeInv
    <3>2. /\ Write(w, new) /\ (Proceed(w) \/ Answer(w, "notFound"))
          /\ UNCHANGED <<clock, viewer, request, next, made>>
      BY <1>5, <2>3 DEF Update
    <3>3. IsTable(table)' /\ touched' \in [Writers -> SUBSET Keys]
      BY <3>1, <3>2, WriteTyped
    <3> QED BY <2>1, <3>2, <3>3 DEF EnvTypeInv, Proceed, Answer
  <2> QED BY <1>5, <2>1, <2>2, <2>3 DEF Update
<1>6. ASSUME NEW w \in Writers, Delete(w) PROVE EnvTypeInv'
  <2>1. pc[w] = "working" /\ request[w] \in Requests
    BY <1>6 DEF Delete, Working, EnvTypeInv
  <2>2. CASE Reject(w)
    BY <2>1, <2>2, RejectTyped
  <2>3. CASE ~Reject(w)
    <3>1. IsTable(Without(table, Normal(w)))
      BY WithoutIs DEF EnvTypeInv
    <3>2. /\ Write(w, Without(table, Normal(w))) /\ (Proceed(w) \/ Answer(w, "notFound"))
          /\ UNCHANGED <<clock, viewer, request, next, made>>
      BY <1>6, <2>3 DEF Delete
    <3>3. IsTable(table)' /\ touched' \in [Writers -> SUBSET Keys]
      BY <3>1, <3>2, WriteTyped
    <3> QED BY <2>1, <3>2, <3>3 DEF EnvTypeInv, Proceed, Answer
  <2> QED BY <2>2, <2>3
<1>7. ASSUME NEW w \in Writers, Fail(w) PROVE EnvTypeInv'
  BY <1>7, RejectTyped DEF Fail
<1>8. ASSUME NEW w \in Writers, Announce(w) \/ AnnouncePanics(w) PROVE EnvTypeInv'
  BY <1>8 DEF EnvTypeInv, Announce, AnnouncePanics, Answer, IsTable
<1>10. CASE View
  BY <1>10 DEF EnvTypeInv, View, work, IsTable
<1>11. CASE Restart
  BY <1>11 DEF EnvTypeInv, Restart, IsTable
<1>9. CASE UNCHANGED vars
  BY <1>9 DEF EnvTypeInv, vars, IsTable
<1> QED
  BY <1>1, <1>2, <1>3, <1>4, <1>5, <1>6, <1>7, <1>8, <1>9, <1>10, <1>11 DEF Next

-----------------------------------------------------------------------------
(* A step of one request leaves those of the others where they are, and    *)
(* notes every name it writes in what the others' requests have touched.   *)
Acts(v) ==
  \/ \E r \in Requests : Receive(v, r)
  \/ ImportItem(v) \/ Create(v) \/ Update(v) \/ Delete(v) \/ Fail(v)
  \/ Announce(v) \/ AnnouncePanics(v)

Kept(w) ==
  /\ pc'[w] = pc[w] /\ request'[w] = request[w] /\ next'[w] = next[w]
  /\ reply'[w] = reply[w]
  /\ touched[w] \subseteq touched'[w] /\ Changed(table') \subseteq touched'[w]

LEMMA NothingChanged == Changed(table) = {}
BY DEF Changed

LEMMA OthersKept ==
  ASSUME EnvTypeInv, NEW v \in Writers, Acts(v), NEW w \in Writers \ {v}
  PROVE  Kept(w)
<1>1. \/ table' = table /\ touched' = touched
      \/ table' = table /\ \E r : touched' = [touched EXCEPT ![v] = r]
      \/ \E new : Write(v, new)
  BY DEF Acts, Receive, ImportItem, Create, Update, Delete, Fail, Announce, AnnouncePanics,
         Reject
<1>2. touched[w] \subseteq touched'[w] /\ Changed(table') \subseteq touched'[w]
  <2>1. CASE table' = table /\ touched' = touched
    BY <2>1, NothingChanged
  <2>2. CASE table' = table /\ \E r : touched' = [touched EXCEPT ![v] = r]
    BY <2>2, NothingChanged DEF EnvTypeInv
  <2>3. CASE \E new : Write(v, new)
    BY <2>3 DEF Write
  <2> QED BY <1>1, <2>1, <2>2, <2>3
<1>3. pc'[w] = pc[w] /\ request'[w] = request[w] /\ next'[w] = next[w] /\ reply'[w] = reply[w]
  BY DEF Acts, EnvTypeInv, Receive, ImportItem, Create, Update, Delete, Fail, Announce,
         AnnouncePanics, Reject, Answer, Proceed
<1> QED BY <1>2, <1>3 DEF Kept

LEMMA NextKinds ==
  ASSUME [Next]_vars
  PROVE  \/ \E v \in Writers : Acts(v)
         \/ View \/ Restart
         \/ UNCHANGED <<table, work, viewer, touched>>
BY DEF Next, Acts, Tick, vars, work, viewer

(* Where w does not act, what its upload saved stands.                     *)
LEMMA UploadFrame ==
  ASSUME EnvTypeInv, NEW w \in Writers, UploadStands(w), Kept(w)
  PROVE  UploadStands(w)'
<1> SUFFICES ASSUME pc[w] # "idle", request[w].op = "upload",
                    NEW i \in Imported(request[w].items)
             PROVE  /\ i < next[w] => ItemStands(w, i)'
                    /\ pc[w] = "announcing" => i < next[w]
  BY DEF UploadStands, Kept
<1>1. pc[w] = "announcing" => i < next[w]
  BY DEF UploadStands
<1>2. ASSUME i < next[w] PROVE ItemStands(w, i)'
  <2>1. ItemStands(w, i)
    BY <1>2 DEF UploadStands
  <2>2. KeyAt(w, i) \in Keys /\ KeyAt(w, i)' = KeyAt(w, i)
    BY <2>1 DEF ItemStands, KeyAt, Kept
  <2>3. CASE KeyAt(w, i) \in touched[w]
    BY <2>2, <2>3 DEF ItemStands, Kept
  <2>4. CASE \E j \in Imported(request[w].items) :
               i < j /\ j < next[w] /\ KeyAt(w, j) = KeyAt(w, i)
    <3>1. \A j : KeyAt(w, j)' = KeyAt(w, j)
      BY DEF KeyAt, Kept
    <3> QED BY <2>2, <2>4, <3>1 DEF ItemStands, Kept
  <2>5. CASE /\ KeyAt(w, i) \in DOMAIN table
             /\ table[KeyAt(w, i)].value = request[w].items[i].value
    <3>1. CASE KeyAt(w, i) \in Changed(table')
      BY <2>2, <3>1 DEF ItemStands, Kept
    <3>2. CASE KeyAt(w, i) \notin Changed(table')
      <4>1. KeyAt(w, i) \in DOMAIN table' /\ table'[KeyAt(w, i)] = table[KeyAt(w, i)]
        BY <2>2, <2>5, <3>2, UnchangedKept
      <4> QED BY <2>2, <2>5, <4>1 DEF ItemStands, Kept
    <3> QED BY <3>1, <3>2
  <2> QED BY <2>1, <2>3, <2>4, <2>5 DEF ItemStands
<1> QED BY <1>1, <1>2

(* One round of the loop, or its end.                                      *)
LEMMA UploadRound ==
  ASSUME EnvTypeInv, NEW w \in Writers, UploadStands(w), ImportItem(w)
  PROVE  UploadStands(w)'
<1> DEFINE items == request[w].items
           left == {i \in Imported(items) : i >= next[w]}
<1>1. /\ pc[w] = "working" /\ request[w] \in Requests /\ request[w].op = "upload"
      /\ next[w] \in Nat
  BY DEF ImportItem, Working, EnvTypeInv
<1>2. CASE Reject(w)
  BY <1>2 DEF Reject, Answer, UploadStands, EnvTypeInv
<1>3. CASE left = {} /\ Proceed(w) /\ UNCHANGED <<table, touched, request, next>>
  <2>1. \A i \in Imported(items) : i < next[w]
    BY <1>1, <1>3, ImportedIs
  <2>2. \A i \in Imported(items) : ItemStands(w, i)
    BY <1>1, <2>1 DEF UploadStands
  <2>3. \A i \in Imported(items) : ItemStands(w, i)'
    BY <1>3, <2>2 DEF ItemStands, KeyAt
  <2> QED BY <1>3, <2>1, <2>3 DEF UploadStands
<1>4. ASSUME NEW i \in left, \A j \in left : i <= j, KeyAt(w, i) # Invalid,
             Write(w, Saved(KeyAt(w, i), items[i].value)),
             next' = [next EXCEPT ![w] = i + 1],
             UNCHANGED <<clock, viewer, pc, request, reply, made>>
      PROVE  UploadStands(w)'
  <2> DEFINE k == KeyAt(w, i)
  <2>1. i \in Nat /\ k \in Keys /\ items[i].value \in Values
    BY <1>1, <1>4, ImportedIs DEF KeyAt
  <2>2. /\ DOMAIN table' = DOMAIN table \cup {k}
        /\ table'[k].value = items[i].value
        /\ \A x \in DOMAIN table \ {k} : table'[x] = table[x]
        /\ touched'[w] = touched[w]
    <3>1. table' = Saved(k, items[i].value) /\ touched'[w] = touched[w]
      BY <1>4 DEF Write
    <3>2. IsTable(table) /\ clock \in 0..MaxClock
      BY DEF EnvTypeInv
    <3> HIDE DEF k
    <3> QED BY <2>1, <3>1, <3>2, SavedIs
  <2>3. next'[w] = i + 1 /\ request' = request /\ pc' = pc
    BY <1>4 DEF EnvTypeInv
  <2>4. \A j : KeyAt(w, j)' = KeyAt(w, j)
    BY <2>3 DEF KeyAt
  <2>5. ASSUME NEW j \in Imported(items), j < i + 1 PROVE ItemStands(w, j)'
    <3>1. j \in Nat
      BY <1>1, ImportedIs
    <3>2. CASE j = i
      BY <2>1, <2>2, <2>3, <2>4, <3>2 DEF ItemStands
    <3>3. CASE j # i
      <4>1. j < i /\ j < next[w]
        BY <1>1, <1>4, <2>1, <2>5, <3>1, <3>3
      <4>2. ItemStands(w, j)
        BY <1>1, <4>1 DEF UploadStands
      <4>3. CASE KeyAt(w, j) = k
        BY <1>4, <2>1, <2>3, <2>4, <4>1, <4>3 DEF ItemStands
      <4>4. CASE KeyAt(w, j) # k
        <5>1. CASE KeyAt(w, j) \in touched[w]
          BY <2>2, <2>4, <4>2, <5>1 DEF ItemStands
        <5>2. CASE KeyAt(w, j) \in DOMAIN table /\ table[KeyAt(w, j)].value = items[j].value
          BY <2>2, <2>3, <2>4, <4>2, <4>4, <5>2 DEF ItemStands
        <5>3. CASE \E m \in Imported(items) :
                     j < m /\ m < next[w] /\ KeyAt(w, m) = KeyAt(w, j)
          <6>1. PICK m \in Imported(items) :
                  j < m /\ m < next[w] /\ KeyAt(w, m) = KeyAt(w, j)
            BY <5>3
          <6>2. m \in Nat /\ m < i + 1
            BY <1>1, <1>4, <2>1, <6>1, ImportedIs
          <6> QED BY <2>3, <2>4, <4>2, <6>1, <6>2 DEF ItemStands
        <5> QED BY <4>2, <5>1, <5>2, <5>3 DEF ItemStands
      <4> QED BY <4>3, <4>4
    <3> QED BY <3>2, <3>3
  <2> QED BY <1>1, <2>3, <2>5 DEF UploadStands
<1> QED BY <1>2, <1>3, <1>4 DEF ImportItem, KeyAt

LEMMA NextUploads ==
  ASSUME EnvTypeInv, [Next]_vars, \A w \in Writers : UploadStands(w)
  PROVE  \A w \in Writers : UploadStands(w)'
<1> TAKE w \in Writers
<1>1. CASE UNCHANGED <<table, work, viewer, touched>>
  <2>1. Kept(w)
    BY <1>1, NothingChanged DEF Kept, work
  <2> QED BY <2>1, UploadFrame
<1>2. ASSUME NEW v \in Writers, Acts(v) PROVE UploadStands(w)'
  <2>1. CASE v # w
    BY <1>2, <2>1, OthersKept, UploadFrame
  <2>2. CASE v = w /\ ImportItem(w)
    BY <2>2, UploadRound
  <2>3. CASE v = w /\ (Create(w) \/ Update(w) \/ Delete(w))
    <3>1. request[w].op # "upload" /\ request' = request
      BY <2>3 DEF Create, Update, Delete, Working, Reject
    <3> QED BY <3>1 DEF UploadStands
  <2>4. CASE v = w /\ (Fail(w) \/ Announce(w) \/ AnnouncePanics(w))
    BY <2>4 DEF Fail, Announce, AnnouncePanics, Reject, Answer, UploadStands, EnvTypeInv
  <2>5. CASE v = w /\ \E r \in Requests : Receive(w, r)
    <3>1. PICK r \in Requests : Receive(w, r)
      BY <2>5
    <3>2. next'[w] = 1 /\ pc'[w] = "working" /\ request'[w] = r
      BY <3>1 DEF Receive, EnvTypeInv
    <3>3. ASSUME r.op = "upload" PROVE \A i \in Imported(r.items) : ~(i < 1)
      BY <3>3, ImportedIs
    <3> QED BY <3>2, <3>3 DEF UploadStands
  <2> QED BY <1>2, <2>1, <2>2, <2>3, <2>4, <2>5 DEF Acts
<1>3. CASE View
  <2>1. Kept(w)
    BY <1>3, NothingChanged DEF Kept, View, work
  <2> QED BY <2>1, UploadFrame
<1>4. CASE Restart
  BY <1>4 DEF Restart, UploadStands
<1> QED BY <1>1, <1>2, <1>3, <1>4, NextKinds

-----------------------------------------------------------------------------
(* What the answers of the others say stands through a step of v.          *)
LEMMA StandsKept ==
  ASSUME EnvTypeInv, EnvTypeInv', NEW w \in Writers, Kept(w), NEW k
  PROVE  /\ Gone(w, k) => Gone(w, k)'
         /\ \A value : Stands(w, k, value) => Stands(w, k, value)'
<1>1. DOMAIN table \subseteq Keys /\ DOMAIN table' \subseteq Keys
  BY DEF EnvTypeInv, IsTable
<1>2. touched[w] \subseteq touched'[w] /\ Changed(table') \subseteq touched'[w]
  BY DEF Kept
<1>3. CASE k \in Changed(table')
  BY <1>2, <1>3 DEF Gone, Stands
<1>4. CASE k \notin Changed(table') /\ k \in Keys
  <2>1. Restrict(table', {k} \cap DOMAIN table') = Restrict(table, {k} \cap DOMAIN table)
    BY <1>4 DEF Changed
  <2>2. k \in DOMAIN table' <=> k \in DOMAIN table
    BY <2>1 DEF Restrict
  <2>3. k \in DOMAIN table => table'[k] = table[k]
    BY <1>4, UnchangedKept
  <2> QED BY <1>2, <2>2, <2>3 DEF Gone, Stands
<1>5. CASE k \notin Keys
  BY <1>1, <1>5, <1>2 DEF Gone, Stands
<1> QED BY <1>3, <1>4, <1>5

LEMMA AnswerFrame ==
  ASSUME EnvTypeInv, EnvTypeInv', NEW w \in Writers, AnswerStands(w), Kept(w)
  PROVE  AnswerStands(w)'
<1>1. /\ Normal(w)' = Normal(w) /\ NextName(w)' = NextName(w)
      /\ request'[w] = request[w] /\ reply'[w] = reply[w]
      /\ \A op : Done(w, op)' <=> Done(w, op)
  BY DEF Kept, Normal, NextName, Done
<1>2. \A k : Gone(w, k) => Gone(w, k)'
  BY StandsKept
<1>3. \A k, value : Stands(w, k, value) => Stands(w, k, value)'
  BY StandsKept
<1> QED BY <1>1, <1>2, <1>3 DEF AnswerStands

LEMMA NextAnswers ==
  ASSUME EnvTypeInv, EnvTypeInv', [Next]_vars, \A w \in Writers : AnswerStands(w)
  PROVE  \A w \in Writers : AnswerStands(w)'
<1> TAKE w \in Writers
<1>1. CASE UNCHANGED <<table, work, viewer, touched>> \/ View
  <2>1. Kept(w)
    BY <1>1, NothingChanged DEF Kept, View, work
  <2> QED BY <2>1, AnswerFrame
<1>2. CASE Restart
  <2>1. /\ pc'[w] = "idle" /\ UNCHANGED <<table, touched, request, reply>>
        /\ pc[w] # "idle" => reply[w] = "none"
    BY <1>2 DEF Restart, EnvTypeInv
  <2> QED BY <2>1 DEF AnswerStands, Done, Stands, Gone, Normal, NextName
<1>3. ASSUME NEW v \in Writers, Acts(v) PROVE AnswerStands(w)'
  <2>1. CASE v # w
    BY <1>3, <2>1, OthersKept, AnswerFrame
  <2>2. CASE v = w /\ \E r \in Requests : Receive(w, r)
    BY <2>2 DEF Receive, EnvTypeInv, AnswerStands, Done
  <2>3. CASE v = w /\ (AnnouncePanics(w) \/ Reject(w))
    BY <2>3 DEF AnnouncePanics, Reject, Answer, EnvTypeInv, AnswerStands, Done
  <2>4. CASE v = w /\ Announce(w)
    <3>1. pc[w] = "announcing" /\ reply'[w] = "ok" /\ UNCHANGED <<table, touched, request>>
      BY <2>4 DEF Announce, Answer, EnvTypeInv
    <3> QED BY <3>1 DEF AnswerStands, Done, Stands, Gone, Normal, NextName
  <2>5. CASE v = w /\ ImportItem(w) /\ ~Reject(w)
    <3>1. request'[w].op = "upload" /\ reply'[w] = "none"
      BY <2>5 DEF ImportItem, Working, Proceed, EnvTypeInv
    <3> QED BY <3>1 DEF AnswerStands, Done
  <2>6. CASE v = w /\ Create(w) /\ ~Reject(w)
    <3>1. /\ request[w] \in Requests /\ request[w].op = "create" /\ Normal(w) # Invalid
          /\ Write(w, Saved(Normal(w), request[w].value)) /\ Proceed(w)
          /\ request' = request
      BY <2>6 DEF Create, Working, EnvTypeInv
    <3>2. Normal(w) \in Keys /\ request[w].value \in Values
      BY <3>1, RequestIs DEF Normal
    <3>3. table' = Saved(Normal(w), request[w].value) /\ IsTable(table) /\ clock \in 0..MaxClock
      BY <3>1 DEF Write, EnvTypeInv
    <3>4. Normal(w) \in DOMAIN table' /\ table'[Normal(w)].value = request[w].value
      BY <3>2, <3>3, SavedIs
    <3>5. Normal(w)' = Normal(w) /\ reply'[w] = "none"
      BY <2>6, <3>1 DEF Normal, Create, Working, Proceed, EnvTypeInv
    <3> QED BY <3>1, <3>4, <3>5 DEF AnswerStands, Done, Stands
  <2>7. CASE v = w /\ Update(w) /\ ~Reject(w)
    <3> DEFINE k == Normal(w)
               n == NextName(w)
               new == Renamed(k, n, request[w].value)
    <3>1. /\ request[w] \in Requests /\ request[w].op = "update" /\ Invalid \notin {k, n}
          /\ table' = new /\ request' = request /\ reply[w] = "none"
          /\ IF Affected(k, new) THEN Proceed(w) ELSE Answer(w, "notFound")
      BY <2>7 DEF Update, Working, Write, EnvTypeInv
    <3>2. k \in Keys /\ n \in Keys /\ request[w].value \in Values
      BY <3>1, RequestIs DEF Normal, NextName
    <3>3. /\ k \notin DOMAIN table => new = table
          /\ k \in DOMAIN table =>
               /\ n \in DOMAIN new /\ new[n].value = request[w].value
               /\ k # n => k \notin DOMAIN new
      BY <3>2, RenamedIs DEF EnvTypeInv
    <3>4. Normal(w)' = k /\ NextName(w)' = n
      BY <3>1 DEF Normal, NextName
    <3>5. CASE Affected(k, new)
      <4>1. k \in DOMAIN table /\ reply'[w] = "none"
        BY <3>1, <3>5 DEF Affected, Proceed
      <4> HIDE DEF k, n, new
      <4> QED BY <3>1, <3>3, <3>4, <4>1 DEF AnswerStands, Done, Stands, Gone
    <3>6. CASE ~Affected(k, new)
      <4>1. pc'[w] = "idle" /\ reply'[w] = "notFound"
        BY <3>1, <3>6 DEF Answer, EnvTypeInv
      <4> HIDE DEF k, n, new
      <4>2. \/ k \notin DOMAIN table'
            \/ n = k /\ k \in DOMAIN table' /\ table'[k].value = request[w].value
        BY <3>1, <3>3
      <4> QED BY <3>1, <3>4, <4>1, <4>2 DEF AnswerStands, Done, Stands, Gone
    <3> QED BY <3>5, <3>6
  <2>8. CASE v = w /\ Delete(w) /\ ~Reject(w)
    <3>1. /\ request[w].op = "delete" /\ request' = request
          /\ table' = Without(table, Normal(w))
      BY <2>8 DEF Delete, Working, Write
    <3>2. DOMAIN Without(table, Normal(w)) = DOMAIN table \ {Normal(w)}
      BY DEF Without, Restrict
    <3>3. Normal(w)' = Normal(w)
      BY <3>1 DEF Normal
    <3> QED BY <3>1, <3>2, <3>3 DEF AnswerStands, Done, Gone
  <2> QED BY <1>3, <2>1, <2>2, <2>3, <2>4, <2>5, <2>6, <2>7, <2>8 DEF Acts, Fail
<1> QED BY <1>1, <1>2, <1>3, NextKinds

-----------------------------------------------------------------------------
(* A step of v that shows nothing leaves every name shown or due, if it    *)
(* owes what it writes and forgets nothing it owed.                        *)
LEMMA SeenFrame ==
  ASSUME EnvTypeInv, NEW v \in Writers, Acts(v), SeenIsDue, seen' = seen,
         told \subseteq told', unannounced \subseteq unannounced',
         \A k \in Owed(v) : k \in told' \/ k \in unannounced' \/ k \in Owed(v)',
         Changed(table') \subseteq Owed(v)'
  PROVE  SeenIsDue'
<1> SUFFICES ASSUME NEW k \in Keys
             PROVE  \/ Shows(k)' \/ k \in told' \/ k \in unannounced'
                    \/ \E w \in Writers : k \in Owed(w)'
  BY DEF SeenIsDue
<1>1. CASE k \in Changed(table')
  BY <1>1
<1>2. CASE k \notin Changed(table') /\ Shows(k)
  <2>1. Restrict(table', {k} \cap DOMAIN table') = Restrict(table, {k} \cap DOMAIN table)
    BY <1>2 DEF Changed
  <2> QED BY <1>2, <2>1 DEF Shows
<1>3. ASSUME NEW w \in Writers, k \in Owed(w), w # v PROVE k \in Owed(w)'
  <2>1. pc'[w] = pc[w] /\ request'[w] = request[w] /\ next'[w] = next[w]
    BY <1>3, OthersKept DEF Kept
  <2> QED BY <1>3, <2>1 DEF Owed, Normal, NextName
<1> QED BY <1>1, <1>2, <1>3 DEF SeenIsDue

LEMMA RejectSeen ==
  ASSUME EnvTypeInv, NEW v \in Writers, Acts(v), SeenIsDue, Reject(v)
  PROVE  SeenIsDue'
BY SeenFrame, NothingChanged DEF Reject

(* What a write changes, by its kind. *)
LEMMA ChangesOf ==
  ASSUME IsTable(table), clock \in 0..MaxClock,
         NEW k \in Keys, NEW n \in Keys, NEW value \in Values
  PROVE  /\ Changed(Saved(k, value)) \subseteq {k}
         /\ Changed(Without(table, k)) \subseteq {k}
         /\ Changed(Renamed(k, n, value)) \subseteq {k, n}
<1>1. ASSUME NEW t, NEW x, x \in DOMAIN t <=> x \in DOMAIN table,
             x \in DOMAIN table => t[x] = table[x]
      PROVE  x \notin Changed(t)
  BY <1>1 DEF Changed, Restrict
<1>2. Changed(Saved(k, value)) \subseteq {k}
  BY <1>1, SavedIs DEF Changed
<1>3. Changed(Without(table, k)) \subseteq {k}
  <2>1. /\ DOMAIN Without(table, k) = DOMAIN table \ {k}
        /\ \A x \in DOMAIN table \ {k} : Without(table, k)[x] = table[x]
    BY WithoutIs
  <2>2. ASSUME NEW x, x # k PROVE x \notin Changed(Without(table, k))
    BY <1>1, <2>1, <2>2
  <2> QED BY <2>2
<1>4. ASSUME NEW x \in Keys \ {k, n} PROVE x \notin Changed(Renamed(k, n, value))
  <2> DEFINE saved == Saved(n, value)
  <2>1. /\ IsTable(saved) /\ DOMAIN saved = DOMAIN table \cup {n}
        /\ \A y \in DOMAIN table \ {n} : saved[y] = table[y]
    BY SavedIs
  <2> HIDE DEF saved
  <2>2. /\ DOMAIN Without(saved, k) = DOMAIN saved \ {k}
        /\ \A y \in DOMAIN saved \ {k} : Without(saved, k)[y] = saved[y]
    BY <2>1, WithoutIs
  <2>3. Renamed(k, n, value) \in {table, saved, Without(saved, k)}
    BY DEF Renamed, saved
  <2> QED BY <1>1, <1>4, <2>1, <2>2, <2>3
<1>5. Changed(Renamed(k, n, value)) \subseteq {k, n}
  BY <1>4 DEF Changed
<1> QED BY <1>2, <1>3, <1>5

LEMMA NextSeen ==
  ASSUME EnvTypeInv, [Next]_vars, SeenIsDue, \A w \in Writers : UploadStands(w)
  PROVE  SeenIsDue'
<1>1. CASE UNCHANGED <<table, work, viewer, touched>>
  BY <1>1 DEF SeenIsDue, Shows, Shown, Owed, Normal, NextName, work, viewer
<1>2. CASE View
  BY <1>2, ShownOfOne DEF View, SeenIsDue, Shows
<1>3. CASE Restart
  <2>1. ASSUME NEW k \in Keys, Shows(k) PROVE Shows(k)'
    BY <1>3, <2>1 DEF Restart, Shows, Shown
  <2>2. ASSUME NEW k, k \in told \/ k \in unannounced \/ \E w \in Writers : k \in Owed(w)
        PROVE  k \in unannounced'
    BY <1>3, <2>2 DEF Restart
  <2> QED BY <2>1, <2>2 DEF SeenIsDue
<1>4. ASSUME NEW v \in Writers, Acts(v) PROVE SeenIsDue'
  <2> DEFINE Calm == seen' = seen /\ told' = told /\ unannounced' = unannounced
  <2>1. CASE \E r \in Requests : Receive(v, r)
    <3>1. Owed(v) = {} /\ table' = table /\ Calm
      BY <2>1 DEF Receive, Owed, viewer
    <3> QED BY <1>4, <3>1, SeenFrame, NothingChanged
  <2>2. CASE Reject(v)
    BY <1>4, <2>2, RejectSeen
  <2>3. CASE ImportItem(v) /\ ~Reject(v)
    <3>1. pc[v] = "working" /\ request[v] \in Requests /\ request[v].op = "upload"
      BY <2>3 DEF ImportItem, Working, EnvTypeInv
    <3>2. CASE Proceed(v) /\ UNCHANGED <<table, viewer, request, next>>
      <4>1. Owed(v) \subseteq Owed(v)'
        BY <3>1, <3>2 DEF Owed, Proceed, EnvTypeInv
      <4> QED BY <1>4, <3>2, <4>1, SeenFrame, NothingChanged DEF viewer
    <3>3. ASSUME NEW i \in Imported(request[v].items), i >= next[v], KeyAt(v, i) # Invalid,
                 table' = Saved(KeyAt(v, i), request[v].items[i].value),
                 next' = [next EXCEPT ![v] = i + 1], UNCHANGED <<viewer, pc, request>>
          PROVE  SeenIsDue'
      <4>1. /\ i \in Nat /\ KeyAt(v, i) \in Keys /\ request[v].items[i].value \in Values
            /\ next[v] \in Nat /\ next'[v] = i + 1
        BY <3>1, <3>3, ImportedIs DEF KeyAt, EnvTypeInv
      <4>2. Changed(table') \subseteq {KeyAt(v, i)}
        BY <3>3, <4>1, ChangesOf DEF EnvTypeInv
      <4>3. KeyAt(v, i) \in Owed(v)'
        BY <3>1, <3>3, <4>1 DEF Owed, KeyAt
      <4>4. \A j \in Imported(request[v].items) : j < next[v] => j < i + 1
        <5>1. \A j \in Imported(request[v].items) : j \in Nat
          BY <3>1, ImportedIs
        <5> QED BY <3>3, <4>1, <5>1
      <4>5. Owed(v) \subseteq Owed(v)'
        BY <3>1, <3>3, <4>1, <4>4 DEF Owed
      <4> QED BY <1>4, <3>3, <4>2, <4>3, <4>5, SeenFrame DEF viewer
    <3> QED BY <2>3, <3>2, <3>3 DEF ImportItem, Write, KeyAt
  <2>4. CASE Create(v) /\ ~Reject(v)
    <3>1. /\ request[v] \in Requests /\ request[v].op = "create" /\ Normal(v) # Invalid
          /\ table' = Saved(Normal(v), request[v].value) /\ Proceed(v) /\ Calm
          /\ request' = request /\ pc[v] = "working"
      BY <2>4 DEF Create, Working, Write, EnvTypeInv, viewer
    <3>2. Normal(v) \in Keys /\ request[v].value \in Values
      BY <3>1, RequestIs DEF Normal
    <3>3. Changed(table') \subseteq {Normal(v)}
      BY <3>1, <3>2, ChangesOf DEF EnvTypeInv
    <3>4. Owed(v) = {} /\ Normal(v) \in Owed(v)'
      BY <3>1, <3>2 DEF Owed, Proceed, Normal, EnvTypeInv
    <3> QED BY <1>4, <3>1, <3>3, <3>4, SeenFrame
  <2>5. CASE Update(v) /\ ~Reject(v)
    <3> DEFINE k == Normal(v)
               n == NextName(v)
               new == Renamed(k, n, request[v].value)
    <3>1. /\ request[v] \in Requests /\ request[v].op = "update" /\ Invalid \notin {k, n}
          /\ table' = new /\ request' = request /\ Calm /\ pc[v] = "working"
          /\ IF Affected(k, new) THEN Proceed(v) ELSE Answer(v, "notFound")
      BY <2>5 DEF Update, Working, Write, EnvTypeInv, viewer
    <3>2. k \in Keys /\ n \in Keys /\ request[v].value \in Values
      BY <3>1, RequestIs DEF Normal, NextName
    <3>3. Owed(v) = {}
      BY <3>1 DEF Owed
    <3>4. CASE Affected(k, new)
      <4>1. Changed(table') \subseteq {k, n}
        BY <3>1, <3>2, ChangesOf DEF EnvTypeInv
      <4>2. k \in Owed(v)' /\ n \in Owed(v)'
        BY <3>1, <3>2, <3>4 DEF Owed, Proceed, Normal, NextName, EnvTypeInv
      <4> QED BY <1>4, <3>1, <3>3, <4>1, <4>2, SeenFrame
    <3>5. CASE ~Affected(k, new)
      <4>1. k \notin DOMAIN table => new = table
        BY <3>2, RenamedIs DEF EnvTypeInv
      <4>2. table' = table
        BY <3>1, <3>5, <4>1 DEF Affected
      <4> QED BY <1>4, <3>1, <3>3, <4>2, SeenFrame, NothingChanged
    <3> QED BY <3>4, <3>5
  <2>6. CASE Delete(v) /\ ~Reject(v)
    <3>1. /\ request[v] \in Requests /\ request[v].op = "delete" /\ Normal(v) # Invalid
          /\ table' = Without(table, Normal(v)) /\ request' = request /\ Calm
          /\ pc[v] = "working" /\ (Normal(v) \in DOMAIN table => Proceed(v))
      BY <2>6 DEF Delete, Working, Write, EnvTypeInv, viewer
    <3>2. Owed(v) = {} /\ Normal(v) \in Keys
      BY <3>1, RequestIs DEF Owed, Normal
    <3>3. CASE Normal(v) \in DOMAIN table
      <4>1. Changed(table') \subseteq {Normal(v)}
        <5>1. IsTable(table) /\ clock \in 0..MaxClock
          BY <3>1 DEF EnvTypeInv
        <5>2. \A value \in Values : Changed(Without(table, Normal(v))) \subseteq {Normal(v)}
          BY <3>2, <5>1, ChangesOf
        <5>3. table[Normal(v)].value \in Values
          BY <3>3, <5>1 DEF IsTable, Row
        <5> QED BY <3>1, <5>2, <5>3
      <4>2. Normal(v) \in Owed(v)'
        BY <3>1, <3>2, <3>3 DEF Owed, Proceed, Normal, EnvTypeInv
      <4> QED BY <1>4, <3>1, <3>2, <4>1, <4>2, SeenFrame
    <3>4. CASE Normal(v) \notin DOMAIN table
      <4>1. table' = table
        BY <3>1, <3>4, WithoutIs DEF EnvTypeInv
      <4> QED BY <1>4, <3>1, <3>2, <4>1, SeenFrame, NothingChanged
    <3> QED BY <3>3, <3>4
  <2>7. CASE Announce(v)
    <3>1. /\ seen' = seen /\ told \subseteq told' /\ unannounced' = unannounced
          /\ Owed(v) \subseteq told' /\ table' = table
      BY <2>7 DEF Announce
    <3> QED BY <1>4, <3>1, SeenFrame, NothingChanged
  <2>8. CASE AnnouncePanics(v)
    <3>1. /\ seen' = seen /\ told \subseteq told' /\ unannounced \subseteq unannounced'
          /\ Owed(v) \subseteq told' \/ Owed(v) \subseteq unannounced'
      BY <2>8 DEF AnnouncePanics
    <3>2. table' = table
      BY <2>8 DEF AnnouncePanics
    <3> QED BY <1>4, <3>1, <3>2, SeenFrame, NothingChanged
  <2> QED BY <1>4, <2>1, <2>2, <2>3, <2>4, <2>5, <2>6, <2>7, <2>8 DEF Acts, Fail
<1> QED BY <1>1, <1>2, <1>3, <1>4, NextKinds

LEMMA NextEnv == EnvInv /\ [Next]_vars => EnvInv'
BY NextTyped, NextUploads, NextAnswers, NextSeen DEF EnvInv

LEMMA EnvInvCorrect == Spec => []EnvInv
BY InitEnv, NextEnv, PTL DEF Spec

(* An upload that succeeds has saved every enabled variable it named, but  *)
(* for names another request wrote meanwhile (service.go:59-73).           *)
THEOREM ImportsStand == Spec => []ImportStands
<1>1. ASSUME EnvInv PROVE ImportStands
  <2> SUFFICES ASSUME NEW w \in Writers, pc[w] = "announcing", request[w].op = "upload",
                      NEW i \in Imported(request[w].items)
               PROVE  LET k == KeyAt(w, i)
                      IN  \/ k \in touched[w]
                          \/ \E j \in Imported(request[w].items) : j > i /\ KeyAt(w, j) = k
                          \/ k \in DOMAIN table /\ table[k].value = request[w].items[i].value
    BY DEF ImportStands, KeyAt
  <2>1. ItemStands(w, i)
    BY <1>1 DEF EnvInv, UploadStands
  <2>2. \A j \in Imported(request[w].items) : i < j => j > i
    <3>1. request[w] \in Requests
      BY <1>1 DEF EnvInv, EnvTypeInv
    <3> QED BY <3>1, ImportedIs
  <2> QED BY <2>1, <2>2 DEF ItemStands
<1> QED BY EnvInvCorrect, <1>1, PTL

(* With no request on its way and no event waiting, a viewer shows what is *)
(* stored, but for names whose writers ended without an event for it       *)
(* (handler.go:149-160, rpc.go:663).                                       *)
THEOREM QuietShowsStored == Spec => []ShownWhenQuiet
<1>1. ASSUME EnvInv, \A w \in Writers : pc[w] = "idle", told = {},
             NEW k \in Keys \ unannounced
      PROVE  Shows(k)
  <2>1. \A w \in Writers : k \notin Owed(w)
    BY <1>1 DEF Owed
  <2> QED BY <1>1, <2>1 DEF EnvInv, SeenIsDue
<1>2. EnvInv => ShownWhenQuiet
  BY <1>1 DEF ShownWhenQuiet, Shows
<1> QED BY EnvInvCorrect, <1>2, PTL

(* A rename keeps every other variable (service.go:164). *)
THEOREM RenamesKeepOthers == Spec => RenameKeepsOthers
<1>1. ASSUME EnvInv, [Next]_vars, NEW w \in Writers, Working(w, "update"), pc'[w] # "working",
             NEW x \in DOMAIN table \ {Normal(w)}
      PROVE  x \in DOMAIN table' /\ table'[x] = table[x]
  <2>1. EnvTypeInv /\ pc[w] = "working" /\ request[w].op = "update" /\ request[w] \in Requests
    BY <1>1 DEF EnvInv, EnvTypeInv, Working
  <2> SUFFICES ASSUME table' # table PROVE x \in DOMAIN table' /\ table'[x] = table[x]
    OBVIOUS
  <2>2. PICK v \in Writers : Acts(v)
    BY <1>1, <2>1, NextKinds DEF View, Restart
  <2>3. v = w
    BY <1>1, <2>1, <2>2, OthersKept DEF Kept
  <2>4. Update(w) \/ Fail(w)
    BY <2>1, <2>2, <2>3
       DEF Acts, Receive, ImportItem, Create, Delete, Announce, AnnouncePanics, Working
  <2>5. CASE Reject(w)
    BY <2>5 DEF Reject
  <2>6. CASE Update(w) /\ ~Reject(w)
    <3> DEFINE k == Normal(w)
               n == NextName(w)
    <3>1. /\ table' = Renamed(k, n, request[w].value) /\ ~Taken(k, n)
          /\ Invalid \notin {k, n}
      BY <2>6 DEF Update, Write
    <3>2. k \in Keys /\ n \in Keys /\ request[w].value \in Values
      BY <2>1, <3>1, RequestIs DEF Normal, NextName
    <3> QED BY <1>1, <2>1, <3>1, <3>2, RenamedIs DEF EnvTypeInv
  <2> QED BY <2>4, <2>5, <2>6 DEF Fail
<1>2. EnvInv /\ [Next]_vars =>
        [\A w \in Writers : Working(w, "update") /\ pc'[w] # "working" =>
           \A k \in DOMAIN table \ {Normal(w)} :
             k \in DOMAIN table' /\ table'[k] = table[k]]_vars
  BY <1>1
<1> QED BY EnvInvCorrect, <1>2, PTL DEF Spec, RenameKeepsOthers

(* What a client is answered stands until another request writes the name, *)
(* whichever rows the driver counts (service.go:168-171, 186-189).         *)
THEOREM AnswersStood == Spec => []AnswersStand
<1>1. EnvInv => AnswersStand
  BY DEF EnvInv, AnswersStand
<1> QED BY EnvInvCorrect, <1>1, PTL

=============================================================================
