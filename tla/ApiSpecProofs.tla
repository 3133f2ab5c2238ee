---------------------------- MODULE ApiSpecProofs ----------------------------
(***************************************************************************)
(* The API specifications under every client of theirs, dashboard and MCP  *)
(* tools, for any number of writers, rows, routes and requests.            *)
(***************************************************************************)
EXTENDS McpTools, TLAPS

-----------------------------------------------------------------------------
(* What is written: the rows that definitions, imports and snapshots make. *)

ExamplesTyped(e) ==
  /\ DOMAIN e.body \subseteq Statuses /\ e.body \in [DOMAIN e.body -> Bodies]
  /\ e.first \in DOMAIN e.body

LEMMA ExamplesAre == \A e \in Examples : ExamplesTyped(e)
BY DEF Examples, ExamplesTyped

LEMMA ChoiceIs ==
  ASSUME NEW e \in Examples, NEW status
  PROVE  /\ Choice(e, status) \in DOMAIN e.body
         /\ status \in DOMAIN e.body => Choice(e, status) = status
BY ExamplesAre DEF Choice, ExamplesTyped

LEMMA RowOfIs ==
  ASSUME NEW d \in Definition, NEW mock \in BOOLEAN, NEW proxy \in BOOLEAN,
         NEW status \in DOMAIN d.examples.body
  PROVE  LET row == RowOf(d, mock, proxy, status)
         IN  /\ row \in Row /\ Sound(row)
             /\ row.route = d.route /\ row.examples = d.examples /\ row.sel = status
             /\ row.mock = mock /\ row.proxy = proxy
<1>1. d.examples \in Examples
  BY DEF Definition
<1>2. status \in Statuses /\ d.examples.body[status] \in Bodies
  BY <1>1, ExamplesAre DEF ExamplesTyped
<1> QED BY <1>1, <1>2 DEF RowOf, Row, Sound, Definition

LEMMA ManualIs ==
  ASSUME NEW d \in Definition
  PROVE  /\ Manual(d) \in Row /\ Sound(Manual(d)) /\ ~(Manual(d).mock /\ Manual(d).proxy)
         /\ Manual(d).route = d.route /\ Manual(d).examples = d.examples
<1> DEFINE mock == d.mock
           proxy == d.proxy /\ ~d.mock
           status == Choice(d.examples, d.want)
<1>1. d.examples \in Examples /\ mock \in BOOLEAN /\ proxy \in BOOLEAN /\ ~(mock /\ proxy)
  BY DEF Definition
<1>2. status \in DOMAIN d.examples.body
  BY <1>1, ChoiceIs
<1>3. Manual(d) = RowOf(d, mock, proxy, status)
  BY DEF Manual
<1> HIDE DEF mock, proxy, status
<1> QED BY <1>1, <1>2, <1>3, RowOfIs

LEMMA ImportedIs ==
  ASSUME NEW d \in Definition, NEW row
  PROVE  Imported(d, row) \in Row /\ Sound(Imported(d, row)) /\ Imported(d, row).route = d.route
<1>1. d.examples \in Examples
  BY DEF Definition
<1>2. d.examples.first \in DOMAIN d.examples.body
  BY <1>1, ExamplesAre DEF ExamplesTyped
<1> DEFINE status == IF row = NoRow THEN d.examples.first ELSE Choice(d.examples, row.sel)
<1>3. status \in DOMAIN d.examples.body
  BY <1>1, <1>2, ChoiceIs
<1>4. Imported(d, row) = RowOf(d, TRUE, TRUE, status)
  BY DEF Imported
<1> HIDE DEF status
<1>5. RowOf(d, TRUE, TRUE, status) \in Row /\ Sound(RowOf(d, TRUE, TRUE, status))
  BY <1>3, RowOfIs
<1>6. RowOf(d, TRUE, TRUE, status).route = d.route
  BY <1>3, RowOfIs
<1> QED BY <1>4, <1>5, <1>6

(* An example with a registered status stays, under its status. *)
LEMMA MergedIs ==
  ASSUME NEW e \in Examples, NEW f \in Examples, NEW merged \in Merged(e, f)
  PROVE  /\ merged \in Examples
         /\ DOMAIN merged.body = (DOMAIN e.body \cap ValidStatuses) \cup DOMAIN f.body
<1> DEFINE S == (DOMAIN e.body \cap ValidStatuses) \cup DOMAIN f.body
           body == [s \in S |-> IF s \in DOMAIN f.body THEN f.body[s] ELSE e.body[s]]
<1>1. ExamplesTyped(e) /\ ExamplesTyped(f)
  BY ExamplesAre
<1>2. S \in SUBSET Statuses /\ body \in [S -> Bodies]
  BY <1>1 DEF ExamplesTyped
<1>3. PICK first \in S : merged = [first |-> first, body |-> body]
  BY <1>1 DEF ExamplesTyped, Merged
<1>4. merged \in [first : S, body : [S -> Bodies]]
  BY <1>2, <1>3
<1>5. merged \in Examples
  BY <1>2, <1>4 DEF Examples
<1> QED BY <1>3, <1>5

(* A sound row comes out of a snapshot as it went in. *)
LEMMA ReplacedIs ==
  ASSUME NEW row \in Row, Sound(row)
  PROVE  Replaced(row) = row
<1>1. Choice(row.examples, row.sel) = row.sel
  BY DEF Choice, Sound
<1>2. Replaced(row) = [row EXCEPT !.sel = row.sel, !.answer = row.answer]
  BY <1>1 DEF Replaced, Sound
<1> QED BY <1>2 DEF Row

LEMMA SameExamples ==
  ASSUME NEW row \in Row
  PROVE  [row EXCEPT !.examples = row.examples] = row
BY DEF Row

-----------------------------------------------------------------------------
(* The invariant of the store.                                             *)

AtWork(w) == pc[w] \notin {"idle", "locking"}
Exclusion == \A w \in Writers : writeMu = w <=> AtWork(w)

(* What a request carries, by its kind. *)
RequestIs(r) ==
  /\ r.kind \in {"create", "upsert", "update"} => r.def \in Definition
  /\ r.kind \in {"update", "mock", "proxy", "select", "delete"} => r.id \in Ids
  /\ r.kind = "import" => r.defs \in Seq(Definition)
  /\ r.kind \in {"restore", "revert"} => r.version \in Nat

(* A table, and the snapshots of it: sound rows, and one way to answer on  *)
(* a route that no import has touched.                                     *)
SoundTable(t, ids) ==
  /\ t \in Table /\ Present(t) \subseteq ids
  /\ \A i \in Present(t) : Sound(t[i])
Fine(t, ids, open) == SoundTable(t, ids) /\ \A r \in Routes \ open : OneActiveOn(t, r)

TablesFine ==
  /\ Fine(apis, used, imported)
  /\ versions \in Seq(Table)
  /\ \A k \in 1..Len(versions) : Fine(versions[k], used, imported)

(* What w, which holds the mutex, knows of the table is still so.          *)
Saving(w) ==
  /\ op[w].kind \in {"create", "upsert", "update"}
  /\ def[w] \in Definition /\ target[w] \in Ids \cup {NoId}
  /\ target[w] = NoId => OnRoute(apis, def[w].route) = {}
  /\ op[w].kind \in {"upsert", "update"} => def[w] = op[w].def
  /\ op[w].kind = "create" /\ target[w] # NoId =>
       /\ target[w] \in Present(apis)
       /\ DOMAIN apis[target[w]].examples.body \cap ValidStatuses
            \subseteq DOMAIN def[w].examples.body

RoutesOf(defs) == {defs[k].route : k \in DOMAIN defs}
Importing(w) ==
  /\ op[w].kind = "import" /\ op[w].defs \in Seq(Definition)
  /\ SoundTable(draft[w], used)
  /\ rest[w] \in Seq(Definition) /\ RoutesOf(rest[w]) \subseteq RoutesOf(op[w].defs)
  /\ \A j \in Present(apis) : j \in Present(draft[w]) /\ draft[w][j].route = apis[j].route
  /\ \A i \in Present(draft[w]) :
       /\ draft[w][i].route \notin RoutesOf(op[w].defs) => draft[w][i] = apis[i]
       /\ i \notin Present(apis) => \A j \in Present(apis) : apis[j].route # draft[w][i].route

WorkIs(w) ==
  /\ pc[w] # "idle" => RequestIs(op[w])
  /\ pc[w] = "saving" => Saving(w)
  /\ pc[w] = "importing" => Importing(w)
  /\ pc[w] \in {"listed", "attached"} => draft[w] = apis
  /\ pc[w] = "recording" =>
       op[w].version \in 1..Len(versions) /\ versions[op[w].version] = apis

StoreTyped ==
  /\ pc \in [Writers -> {"idle", "locking", "working", "saving", "importing",
                          "listed", "attached", "recording"}]
  /\ DOMAIN op = Writers /\ DOMAIN target = Writers /\ DOMAIN def = Writers
  /\ DOMAIN draft = Writers /\ DOMAIN rest = Writers
  /\ used \in SUBSET Ids

StoreInv == StoreTyped /\ Exclusion /\ TablesFine /\ \A w \in Writers : WorkIs(w)

-----------------------------------------------------------------------------
(* What the writes do to a table.                                          *)

Passive(row) == [row EXCEPT !.mock = FALSE, !.proxy = FALSE]

LEMMA PassiveIs ==
  ASSUME NEW row \in Row
  PROVE  /\ Passive(row) \in Row /\ ~Active(Passive(row)) /\ ~Passive(row).mock
         /\ Passive(row).route = row.route /\ Passive(row).examples = row.examples
         /\ Sound(row) => Sound(Passive(row))
BY DEF Passive, Row, Active, Sound

LEMMA PutIs ==
  ASSUME NEW t \in Table, NEW i \in Ids, NEW row \in Row
  PROVE  /\ Put(t, i, row) \in Table /\ Put(t, i, row)[i] = row
         /\ Present(Put(t, i, row)) = Present(t) \cup {i}
         /\ \A j \in Present(t) \ {i} :
              Put(t, i, row)[j] = IF t[j].route = row.route /\ Active(row)
                                  THEN Passive(t[j]) ELSE t[j]
<1> DEFINE p == Put(t, i, row)
<1>1. p[i] = row /\ row # NoRow
  BY RowAssumption DEF Put
<1>2. ASSUME NEW j \in Present(t) \ {i}
      PROVE  /\ p[j] = IF t[j].route = row.route /\ Active(row) THEN Passive(t[j]) ELSE t[j]
             /\ t[j] \in Row /\ p[j] \in Row
  <2>1. t[j] \in Row /\ j \in Ids
    BY DEF Present, Table
  <2>2. p[j] = IF t[j].route = row.route /\ Active(row) THEN Passive(t[j]) ELSE t[j]
    BY <2>1 DEF Put, OnRoute, Passive
  <2> QED BY <2>1, <2>2, PassiveIs
<1>3. ASSUME NEW j \in Ids \ {i}, j \notin Present(t) PROVE p[j] = NoRow
  BY <1>3 DEF Put, OnRoute, Present
<1>4. DOMAIN p = Ids /\ p = [j \in Ids |-> p[j]]
  BY DEF Put
<1> HIDE DEF p
<1>5. p \in Table
  BY <1>1, <1>2, <1>3, <1>4 DEF Table
<1>6. Present(p) = Present(t) \cup {i}
  BY <1>1, <1>2, <1>3, RowAssumption DEF Present
<1> QED BY <1>1, <1>2, <1>5, <1>6 DEF p

LEMMA PutFine ==
  ASSUME NEW t, NEW ids, NEW open, Fine(t, ids, open), NEW i \in Ids,
         NEW row \in Row, Sound(row), ~(row.mock /\ row.proxy)
  PROVE  Fine(Put(t, i, row), ids \cup {i}, open)
<1> DEFINE p == Put(t, i, row)
<1>1. t \in Table /\ Present(t) \subseteq ids /\ \A j \in Present(t) : t[j] \in Row /\ Sound(t[j])
  BY DEF Fine, SoundTable, Table, Present
<1>2. /\ p \in Table /\ p[i] = row /\ Present(p) = Present(t) \cup {i}
      /\ \A j \in Present(t) \ {i} :
           p[j] = IF t[j].route = row.route /\ Active(row) THEN Passive(t[j]) ELSE t[j]
  BY <1>1, PutIs
<1> HIDE DEF p
<1>3. \A j \in Present(p) : Sound(p[j])
  BY <1>1, <1>2, PassiveIs
<1>4. ASSUME NEW r \in Routes \ open PROVE OneActiveOn(p, r)
  <2>1. OneActiveOn(t, r)
    BY DEF Fine
  <2>2. ASSUME NEW j \in OnRoute(p, r), j # i
        PROVE  /\ j \in OnRoute(t, r) /\ ~(p[j].mock /\ p[j].proxy)
               /\ Active(p[j]) => Active(t[j]) /\ ~(row.route = r /\ Active(row))
    <3>1. j \in Present(t) /\ t[j] \in Row
      BY <1>1, <1>2, <2>2 DEF OnRoute
    <3>2. p[j] = IF t[j].route = row.route /\ Active(row) THEN Passive(t[j]) ELSE t[j]
      BY <1>2, <2>2, <3>1
    <3>3. t[j].route = r
      BY <2>2, <3>1, <3>2, PassiveIs DEF OnRoute
    <3> QED BY <2>1, <3>1, <3>2, <3>3, PassiveIs DEF OnRoute, OneActiveOn
  <2>3. i \in OnRoute(p, r) => row.route = r
    BY <1>2 DEF OnRoute
  <2> QED BY <1>2, <2>1, <2>2, <2>3 DEF OneActiveOn
<1> QED BY <1>1, <1>2, <1>3, <1>4 DEF Fine, SoundTable, p

(* A row may change without the others when no more of it is active.       *)
LEMMA ChangeFine ==
  ASSUME NEW t, NEW ids, NEW open, Fine(t, ids, open), NEW i \in Present(t),
         NEW row \in Row, Sound(row), row.route = t[i].route,
         row.mock => t[i].mock, row.proxy => t[i].proxy
  PROVE  Fine([t EXCEPT ![i] = row], ids, open)
<1> DEFINE p == [t EXCEPT ![i] = row]
<1>1. t \in Table /\ i \in Ids /\ \A j \in Present(t) : t[j] \in Row /\ Sound(t[j])
  BY DEF Fine, SoundTable, Table, Present
<1>2. /\ p \in Table /\ p[i] = row /\ Present(p) = Present(t)
      /\ \A j \in Present(t) \ {i} : p[j] = t[j]
  BY <1>1, RowAssumption DEF Table, Present
<1> HIDE DEF p
<1>3. ASSUME NEW r \in Routes \ open PROVE OneActiveOn(p, r)
  <2>1. OneActiveOn(t, r)
    BY DEF Fine
  <2>2. OnRoute(p, r) = OnRoute(t, r)
    BY <1>2 DEF OnRoute
  <2>3. \A j \in OnRoute(p, r) : Active(p[j]) => Active(t[j])
    BY <1>2 DEF Active, OnRoute
  <2> QED BY <1>2, <2>1, <2>2, <2>3 DEF OneActiveOn, OnRoute
<1> QED BY <1>1, <1>2, <1>3 DEF Fine, SoundTable, p

LEMMA RemoveFine ==
  ASSUME NEW t, NEW ids, NEW open, Fine(t, ids, open), NEW i \in Present(t)
  PROVE  Fine([t EXCEPT ![i] = NoRow], ids, open)
<1> DEFINE p == [t EXCEPT ![i] = NoRow]
<1>1. /\ p \in Table /\ Present(p) = Present(t) \ {i}
      /\ \A j \in Present(t) \ {i} : p[j] = t[j]
  BY DEF Fine, SoundTable, Table, Present
<1> HIDE DEF p
<1>2. \A r : OnRoute(p, r) = OnRoute(t, r) \ {i}
  BY <1>1 DEF OnRoute
<1> QED BY <1>1, <1>2 DEF Fine, SoundTable, OneActiveOn, OnRoute, p

LEMMA StillFine ==
  ASSUME NEW t, NEW ids, NEW open, Fine(t, ids, open),
         NEW ids2, ids \subseteq ids2, NEW open2, open \subseteq open2
  PROVE  Fine(t, ids2, open2)
BY DEF Fine, SoundTable

-----------------------------------------------------------------------------
(* Mutual exclusion, and what it saves a step from looking at.             *)

Places == {"working", "saving", "importing", "listed", "attached", "recording"}

LEMMA OthersRest ==
  ASSUME StoreTyped, Exclusion, NEW v \in Writers, AtWork(v), NEW w \in Writers \ {v}
  PROVE  ~AtWork(w)
BY DEF Exclusion

LEMMA OthersWork ==
  ASSUME StoreTyped, Exclusion, NEW v \in Writers, AtWork(v),
         NEW w \in Writers \ {v}, WorkIs(w), pc'[w] = pc[w], op'[w] = op[w]
  PROVE  WorkIs(w)'
<1>1. pc[w] \in {"idle", "locking"}
  BY OthersRest DEF AtWork
<1> QED BY <1>1 DEF WorkIs, RequestIs

LEMMA ReturnKeeps ==
  ASSUME StoreInv, NEW v \in Writers, AtWork(v), Return(v), used' \in SUBSET Ids
  PROVE  StoreTyped' /\ Exclusion' /\ \A w \in Writers : WorkIs(w)'
<1>1. StoreTyped'
  BY DEF StoreInv, StoreTyped, Return
<1>2. \A w \in Writers \ {v} : pc'[w] = pc[w] /\ op'[w] = op[w]
  BY DEF StoreInv, StoreTyped, Return
<1>3. pc'[v] = "idle" /\ writeMu' = Nobody
  BY DEF StoreInv, StoreTyped, Return
<1>4. Exclusion'
  <2>1. \A w \in Writers \ {v} : ~AtWork(w)'
    BY <1>2, OthersRest DEF StoreInv, AtWork
  <2>2. ~AtWork(v)'
    BY <1>3 DEF AtWork
  <2> QED BY <1>3, <2>1, <2>2, NobodyAssumption DEF Exclusion
<1>5. ASSUME NEW w \in Writers PROVE WorkIs(w)'
  <2>1. CASE w # v
    BY <1>2, <2>1, OthersWork DEF StoreInv
  <2>2. CASE w = v
    BY <1>3, <2>2 DEF WorkIs
  <2> QED BY <2>1, <2>2
<1> QED BY <1>1, <1>4, <1>5

(* A request that goes on at its next place keeps the mutex. *)
LEMMA GoToKeeps ==
  ASSUME StoreInv, NEW v \in Writers, AtWork(v), NEW place \in Places, GoTo(v, place),
         op' = op, WorkIs(v)', used' \in SUBSET Ids,
         DOMAIN target' = Writers, DOMAIN def' = Writers,
         DOMAIN draft' = Writers, DOMAIN rest' = Writers
  PROVE  StoreTyped' /\ Exclusion' /\ \A w \in Writers : WorkIs(w)'
<1>1. StoreTyped'
  BY DEF StoreInv, StoreTyped, GoTo, Places
<1>2. \A w \in Writers \ {v} : pc'[w] = pc[w]
  BY DEF StoreInv, StoreTyped, GoTo
<1>3. pc'[v] = place /\ writeMu' = writeMu
  BY DEF StoreInv, StoreTyped, GoTo
<1>4. Exclusion'
  BY <1>2, <1>3 DEF StoreInv, Exclusion, AtWork, Places
<1>5. ASSUME NEW w \in Writers \ {v} PROVE WorkIs(w)'
  BY <1>2, <1>5, OthersWork DEF StoreInv
<1> QED BY <1>1, <1>4, <1>5

(* What the clients of the store do to it: hand it a request.              *)
Handed(w) ==
  /\ pc[w] = "idle"
  /\ \E r : RequestIs(r) /\ op' = [op EXCEPT ![w] = r]
  /\ pc' = [pc EXCEPT ![w] = "locking"]
  /\ UNCHANGED <<apis, versions, writeMu, target, def, draft, rest, used, imported>>

LEMMA RequestsAre ==
  ASSUME NEW n \in Nat, NEW r \in Request(Definitions, n)
  PROVE  RequestIs(r)
<1>1. \A d \in Definitions : d \in Definition
  BY DefinitionsAssumption
<1>2. CASE r \in [kind : {"import"},
                  defs : {<<d>> : d \in Definitions} \cup (Definitions \X Definitions)]
  <2>1. \A d \in Definition : <<d>> \in Seq(Definition)
    OBVIOUS
  <2>2. \A d \in Definition, e \in Definition : <<d, e>> \in Seq(Definition)
    OBVIOUS
  <2>3. r.kind = "import" /\ r.defs \in Seq(Definition)
    <3>1. r.kind = "import" /\ r.defs \in {<<d>> : d \in Definitions} \cup (Definitions \X Definitions)
      BY <1>2
    <3>2. CASE r.defs \in {<<d>> : d \in Definitions}
      BY <1>1, <2>1, <3>1, <3>2
    <3>3. CASE r.defs \in Definitions \X Definitions
      <4>1. PICK d \in Definitions, e \in Definitions : r.defs = <<d, e>>
        BY <3>3
      <4> QED BY <1>1, <2>2, <3>1, <4>1
    <3> QED BY <3>1, <3>2, <3>3
  <2> QED BY <2>3 DEF RequestIs
<1>3. CASE \/ r \in [kind : {"create", "upsert"}, def : Definitions]
           \/ r \in [kind : {"update"}, id : Ids, def : Definitions]
  BY <1>1, <1>3 DEF RequestIs
<1>4. CASE \/ r \in [kind : {"mock", "proxy"}, id : Ids, on : BOOLEAN]
           \/ r \in [kind : {"select"}, id : Ids, status : Statuses]
           \/ r \in [kind : {"delete"}, id : Ids]
  BY <1>4 DEF RequestIs
<1>5. CASE \/ r \in [kind : {"version"}]
           \/ r \in [kind : {"restore", "revert"}, version : 1..n]
  BY <1>5 DEF RequestIs
<1> QED BY <1>2, <1>3, <1>4, <1>5 DEF Request

(* What w knows stands as long as the store does. *)
LEMMA WorkStays ==
  ASSUME NEW w, WorkIs(w), pc'[w] = pc[w], op'[w] = op[w],
         UNCHANGED <<apis, versions, target, def, draft, rest, used, imported>>
  PROVE  WorkIs(w)'
<1>1. RequestIs(op[w]) => RequestIs(op[w])'
  BY DEF RequestIs
<1>2. Saving(w) => Saving(w)'
  BY DEF Saving, OnRoute, Present
<1>3. SoundTable(draft[w], used) => SoundTable(draft[w], used)'
  BY DEF SoundTable, Present, Sound
<1>4. Importing(w) => Importing(w)'
  <2>1. /\ draft'[w] = draft[w] /\ rest'[w] = rest[w] /\ op'[w] = op[w] /\ apis' = apis
    OBVIOUS
  <2> QED BY <1>3, <2>1 DEF Importing
<1> QED BY <1>1, <1>2, <1>4 DEF WorkIs

LEMMA BeginHands ==
  ASSUME StoreInv, NEW w \in Writers, Begin(w)
  PROVE  Handed(w)
<1>1. Len(versions) + 1 \in Nat
  BY DEF StoreInv, TablesFine
<1> QED BY <1>1, RequestsAre DEF Begin, Handed

LEMMA HandedKeeps ==
  ASSUME StoreInv, NEW v \in Writers, Handed(v)
  PROVE  StoreInv'
<1>1. pc'[v] = "locking" /\ \A w \in Writers \ {v} : pc'[w] = pc[w] /\ op'[w] = op[w]
  BY DEF StoreInv, StoreTyped, Handed
<1>2. RequestIs(op'[v])
  BY DEF StoreInv, StoreTyped, Handed
<1>3. StoreTyped'
  BY DEF StoreInv, StoreTyped, Handed
<1>4. Exclusion'
  BY <1>1 DEF StoreInv, Exclusion, AtWork, Handed
<1>5. TablesFine'
  BY StillFine DEF StoreInv, TablesFine, Handed
<1>6. ASSUME NEW w \in Writers PROVE WorkIs(w)'
  <2>1. CASE w = v
    BY <1>1, <1>2, <2>1 DEF WorkIs, RequestIs
  <2>2. CASE w # v
    BY <1>1, <2>2, WorkStays DEF StoreInv, Handed
  <2> QED BY <2>1, <2>2
<1> QED BY <1>3, <1>4, <1>5, <1>6 DEF StoreInv

LEMMA LockKeeps ==
  ASSUME StoreInv, NEW v \in Writers, Lock(v)
  PROVE  StoreInv'
<1>1. /\ pc'[v] = "working" /\ \A w \in Writers \ {v} : pc'[w] = pc[w]
      /\ UNCHANGED <<apis, versions, locals, used, imported>>
  BY DEF StoreInv, StoreTyped, Lock
<1>2. StoreTyped'
  BY DEF StoreInv, StoreTyped, Lock, locals
<1>3. Exclusion'
  <2>1. \A w \in Writers : ~AtWork(w)
    BY NobodyAssumption DEF StoreInv, Exclusion, Lock
  <2> QED BY <1>1, <2>1 DEF Lock, Exclusion, AtWork
<1>4. TablesFine'
  BY <1>1, StillFine DEF StoreInv, TablesFine
<1>5. ASSUME NEW w \in Writers PROVE WorkIs(w)'
  <2>1. CASE w = v
    <3>1. RequestIs(op[v])
      BY DEF StoreInv, WorkIs, Lock
    <3> QED BY <1>1, <2>1, <3>1 DEF WorkIs, RequestIs, locals
  <2>2. CASE w # v
    BY <1>1, <2>2, WorkStays DEF StoreInv, locals
  <2> QED BY <2>1, <2>2
<1> QED BY <1>2, <1>3, <1>4, <1>5 DEF StoreInv

LEMMA RestartKeeps == StoreInv /\ Restart => StoreInv'
<1> SUFFICES ASSUME StoreInv, Restart PROVE StoreInv'
  OBVIOUS
<1>1. StoreTyped'
  BY DEF StoreInv, StoreTyped, Restart
<1>2. Exclusion' /\ \A w \in Writers : WorkIs(w)'
  BY NobodyAssumption DEF Restart, Exclusion, AtWork, WorkIs
<1>3. TablesFine'
  BY StillFine DEF StoreInv, TablesFine, Restart
<1> QED BY <1>1, <1>2, <1>3 DEF StoreInv

-----------------------------------------------------------------------------
(* The steps of a request at work.                                         *)

LEMMA WorkingIs ==
  ASSUME StoreInv, NEW w \in Writers, NEW kinds, Working(w, kinds)
  PROVE  AtWork(w) /\ RequestIs(op[w]) /\ op[w].kind \in kinds
BY DEF StoreInv, WorkIs, Working, AtWork

LEMMA PresentIs ==
  ASSUME NEW t \in Table, NEW i \in Present(t)
  PROVE  i \in Ids /\ t[i] \in Row /\ t[i] # NoRow
BY DEF Table, Present

(* A request that returns and has left the tables fine.                    *)
LEMMA ReturnInv ==
  ASSUME StoreInv, NEW w \in Writers, AtWork(w), Return(w), used' \in SUBSET Ids, TablesFine'
  PROVE  StoreInv'
BY ReturnKeeps DEF StoreInv

LEMMA SameTables ==
  ASSUME StoreInv, UNCHANGED <<apis, versions>>, used \subseteq used', imported \subseteq imported'
  PROVE  TablesFine'
BY StillFine DEF StoreInv, TablesFine

LEMMA OneTable ==
  ASSUME StoreInv, Fine(apis', used', imported'), versions' = versions,
         used \subseteq used', imported \subseteq imported'
  PROVE  TablesFine'
BY StillFine DEF StoreInv, TablesFine

LEMMA FindTargetKeeps ==
  ASSUME StoreInv, NEW w \in Writers, FindTarget(w)
  PROVE  StoreInv'
<1> DEFINE d == op[w].def
<1>1. /\ AtWork(w) /\ RequestIs(op[w]) /\ op[w].kind \in {"create", "upsert"} /\ d \in Definition
  <2>1. Working(w, {"create", "upsert"})
    BY DEF FindTarget
  <2>2. AtWork(w) /\ RequestIs(op[w]) /\ op[w].kind \in {"create", "upsert"}
    BY <2>1, WorkingIs
  <2> QED BY <2>2 DEF RequestIs
<1>2. /\ pc'[w] = "saving" /\ GoTo(w, "saving")
      /\ UNCHANGED <<apis, versions, op, draft, rest, used, imported>>
  BY DEF FindTarget, GoTo, StoreInv, StoreTyped
<1>3. Saving(w)'
  <2>1. CASE /\ OnRoute(apis, d.route) = {}
             /\ target' = [target EXCEPT ![w] = NoId] /\ def' = [def EXCEPT ![w] = d]
    <3>1. target'[w] = NoId /\ def'[w] = d
      BY <2>1 DEF StoreInv, StoreTyped
    <3> QED BY <1>1, <1>2, <2>1, <3>1 DEF Saving
  <2>2. CASE \E i \in OnRoute(apis, d.route) :
               /\ target' = [target EXCEPT ![w] = i]
               /\ IF op[w].kind = "upsert" THEN def' = [def EXCEPT ![w] = d]
                  ELSE \E merged \in Merged(apis[i].examples, d.examples) :
                         def' = [def EXCEPT ![w] =
                                   [d EXCEPT !.want = Choice(d.examples, d.want),
                                             !.examples = merged]]
    <3>1. PICK i \in OnRoute(apis, d.route) :
               /\ target' = [target EXCEPT ![w] = i]
               /\ IF op[w].kind = "upsert" THEN def' = [def EXCEPT ![w] = d]
                  ELSE \E merged \in Merged(apis[i].examples, d.examples) :
                         def' = [def EXCEPT ![w] =
                                   [d EXCEPT !.want = Choice(d.examples, d.want),
                                             !.examples = merged]]
      BY <2>2
    <3>2. i \in Present(apis) /\ i \in Ids /\ i # NoId /\ apis[i] \in Row
      BY PresentIs, RowAssumption DEF OnRoute, StoreInv, TablesFine, Fine, SoundTable
    <3>3. target'[w] = i
      BY <3>1 DEF StoreInv, StoreTyped
    <3>4. CASE op[w].kind = "upsert"
      <4>1. def'[w] = d
        BY <3>1, <3>4 DEF StoreInv, StoreTyped
      <4> QED BY <1>1, <1>2, <3>2, <3>3, <3>4, <4>1 DEF Saving
    <3>5. CASE op[w].kind = "create"
      <4> DEFINE want == Choice(d.examples, d.want)
      <4>1. PICK merged \in Merged(apis[i].examples, d.examples) :
                 def' = [def EXCEPT ![w] = [d EXCEPT !.want = want, !.examples = merged]]
        BY <3>1, <3>5
      <4>6. def'[w] = [d EXCEPT !.want = want, !.examples = merged]
        BY <4>1 DEF StoreInv, StoreTyped
      <4>2. apis[i].examples \in Examples /\ d.examples \in Examples
        BY <1>1, <3>2 DEF Row, Definition
      <4>3. /\ merged \in Examples
            /\ DOMAIN merged.body = (DOMAIN apis[i].examples.body \cap ValidStatuses)
                                      \cup DOMAIN d.examples.body
        BY <4>1, <4>2, MergedIs
      <4>4. want \in Statuses
        BY <4>2, ChoiceIs, ExamplesAre DEF ExamplesTyped
      <4> HIDE DEF want
      <4>5. def'[w] \in Definition /\ def'[w].examples = merged
        BY <1>1, <4>6, <4>3, <4>4 DEF Definition
      <4> QED BY <1>1, <1>2, <3>2, <3>3, <3>5, <4>3, <4>5 DEF Saving
    <3> QED BY <1>1, <3>4, <3>5
  <2> QED BY <2>1, <2>2 DEF FindTarget
<1>4. WorkIs(w)'
  BY <1>1, <1>2, <1>3 DEF WorkIs, RequestIs
<1>5. DOMAIN target' = Writers /\ DOMAIN def' = Writers
  BY DEF FindTarget, StoreInv, StoreTyped
<1> QED BY <1>1, <1>2, <1>4, <1>5, GoToKeeps, SameTables DEF StoreInv, StoreTyped, Places

LEMMA TakeIdKeeps ==
  ASSUME StoreInv, NEW w \in Writers, TakeId(w)
  PROVE  StoreInv'
<1>1. /\ AtWork(w) /\ RequestIs(op[w]) /\ op[w].kind = "update"
      /\ op[w].def \in Definition /\ op[w].id \in Ids
  BY WorkingIs DEF TakeId, RequestIs
<1>2. /\ pc'[w] = "saving" /\ GoTo(w, "saving")
      /\ UNCHANGED <<apis, versions, op, draft, rest, used, imported>>
      /\ target'[w] = op[w].id /\ def'[w] = op[w].def
      /\ DOMAIN target' = Writers /\ DOMAIN def' = Writers
  BY DEF TakeId, GoTo, StoreInv, StoreTyped
<1>3. Saving(w)'
  BY <1>1, <1>2, RowAssumption DEF Saving
<1>4. WorkIs(w)'
  BY <1>1, <1>2, <1>3 DEF WorkIs, RequestIs
<1> QED BY <1>1, <1>2, <1>4, GoToKeeps, SameTables DEF StoreInv, StoreTyped, Places

LEMMA SaveManualKeeps ==
  ASSUME StoreInv, NEW w \in Writers, SaveManual(w)
  PROVE  StoreInv'
<1>1. AtWork(w) /\ Saving(w) /\ Fine(apis, used, imported) /\ used \in SUBSET Ids
  BY DEF SaveManual, AtWork, StoreInv, StoreTyped, WorkIs, TablesFine
<1>2. /\ Manual(def[w]) \in Row /\ Sound(Manual(def[w]))
      /\ ~(Manual(def[w]).mock /\ Manual(def[w]).proxy)
  BY <1>1, ManualIs DEF Saving
<1>3. Return(w) /\ versions' = versions /\ imported' = imported
  BY DEF SaveManual
<1>4. CASE \E i \in Ids : /\ apis' = Put(apis, i, Manual(def[w]))
                          /\ used' = used \cup {i}
  <2>1. PICK i \in Ids : apis' = Put(apis, i, Manual(def[w])) /\ used' = used \cup {i}
    BY <1>4
  <2>2. Fine(Put(apis, i, Manual(def[w])), used \cup {i}, imported)
    BY <1>1, <1>2, PutFine
  <2>3. used' \in SUBSET Ids /\ used \subseteq used'
    BY <1>1, <2>1
  <2> QED BY <1>1, <1>3, <2>1, <2>2, <2>3, OneTable, ReturnInv
<1>5. CASE UNCHANGED <<apis, used>>
  BY <1>1, <1>3, <1>5, SameTables, ReturnInv
<1>6. ASSUME target[w] \in Present(apis) PROVE target[w] \in Ids /\ used = used \cup {target[w]}
  BY <1>1, <1>6 DEF Fine, SoundTable, Present
<1> QED BY <1>4, <1>5, <1>6 DEF SaveManual

LEMMA OneRowKeeps ==
  ASSUME StoreInv, NEW w \in Writers, OneRow(w)
  PROVE  StoreInv'
<1> DEFINE id == op[w].id
           row == apis[id]
<1>1. /\ Fine(apis, used, imported) /\ apis \in Table /\ used \in SUBSET Ids
      /\ \A i \in Present(apis) : i \in used /\ Sound(apis[i])
  BY DEF StoreInv, StoreTyped, TablesFine, Fine, SoundTable
<1>2. AtWork(w) /\ Return(w) /\ UNCHANGED <<versions, used, imported>>
  BY DEF OneRow, Enable, Change, Disable, Select, Delete, Missing, Working, AtWork
<1>3. CASE Fine(apis', used, imported)
  BY <1>1, <1>2, <1>3, OneTable, ReturnInv
<1>4. CASE Enable(w)
  <2> DEFINE mock == op[w].kind = "mock"
             proxy == op[w].kind = "proxy"
             new == [row EXCEPT !.mock = mock, !.proxy = proxy]
  <2>1. id \in Present(apis) /\ apis' = Put(apis, id, new)
    BY <1>4 DEF Enable, Change
  <2>2. id \in Ids /\ row \in Row /\ id \in used /\ Sound(row)
    BY <1>1, <2>1, PresentIs
  <2>3. mock \in BOOLEAN /\ proxy \in BOOLEAN /\ ~(mock /\ proxy)
    OBVIOUS
  <2> HIDE DEF mock, proxy, row
  <2>4. new \in Row /\ Sound(new) /\ ~(new.mock /\ new.proxy)
    BY <2>2, <2>3 DEF Row, Sound
  <2> HIDE DEF new
  <2>5. Fine(apis', used \cup {id}, imported)
    BY <1>1, <2>1, <2>2, <2>4, PutFine
  <2>6. used \cup {id} = used
    BY <2>2
  <2> QED BY <1>3, <2>5, <2>6
<1>5. CASE Disable(w)
  <2> DEFINE new == IF op[w].kind = "mock" THEN [row EXCEPT !.mock = FALSE]
                                           ELSE [row EXCEPT !.proxy = FALSE]
  <2>1. id \in Present(apis) /\ apis' = [apis EXCEPT ![id] = new]
    BY <1>5 DEF Disable
  <2>2. row \in Row /\ Sound(row)
    BY <1>1, <2>1, PresentIs
  <2> HIDE DEF row
  <2>3. /\ new \in Row /\ Sound(new) /\ new.route = row.route
        /\ (new.mock => row.mock) /\ (new.proxy => row.proxy)
    BY <2>2 DEF Row, Sound
  <2> HIDE DEF new
  <2>4. Fine([apis EXCEPT ![id] = new], used, imported)
    BY <1>1, <2>1, <2>3, ChangeFine DEF row
  <2> QED BY <1>3, <2>1, <2>4
<1>6. CASE Select(w)
  <2> DEFINE body == row.examples.body
             status == op[w].status
             new == [row EXCEPT !.sel = status, !.answer = body[status]]
  <2>1. /\ id \in Present(apis) /\ status \in DOMAIN body
        /\ apis' = [apis EXCEPT ![id].sel = status, ![id].answer = body[status]]
    BY <1>6 DEF Select
  <2>2. row \in Row
    BY <1>1, <2>1, PresentIs
  <2>3. apis' = [apis EXCEPT ![id] = new]
    BY <1>1, <2>1, <2>2 DEF Table, Present
  <2>4. status \in Statuses /\ body[status] \in Bodies
    BY <2>1, <2>2, ExamplesAre DEF ExamplesTyped, Row
  <2> HIDE DEF row, status
  <2>5. /\ new \in Row /\ Sound(new) /\ new.route = row.route
        /\ (new.mock => row.mock) /\ (new.proxy => row.proxy)
    BY <2>1, <2>2, <2>4 DEF Row, Sound
  <2> HIDE DEF new
  <2>6. Fine([apis EXCEPT ![id] = new], used, imported)
    BY <1>1, <2>1, <2>5, ChangeFine DEF row
  <2> QED BY <1>3, <2>3, <2>6
<1>7. CASE Delete(w)
  <2>1. id \in Present(apis) /\ apis' = [apis EXCEPT ![id] = NoRow]
    BY <1>7 DEF Delete
  <2>2. Fine([apis EXCEPT ![id] = NoRow], used, imported)
    BY <1>1, <2>1, RemoveFine
  <2> QED BY <1>3, <2>1, <2>2
<1>8. CASE Missing(w)
  <2>1. apis' = apis
    BY <1>8 DEF Missing
  <2> QED BY <1>1, <1>3, <2>1
<1> QED BY <1>4, <1>5, <1>6, <1>7, <1>8 DEF OneRow

LEMMA FailKeeps ==
  ASSUME StoreInv, NEW w \in Writers, Fail(w)
  PROVE  StoreInv'
<1>1. AtWork(w) /\ Return(w) /\ UNCHANGED <<apis, versions, used, imported>>
  BY DEF Fail, AtWork
<1> QED BY <1>1, SameTables, ReturnInv DEF StoreInv, StoreTyped

LEMMA StartImportKeeps ==
  ASSUME StoreInv, NEW w \in Writers, StartImport(w)
  PROVE  StoreInv'
<1>1. Working(w, {"import"})
  BY DEF StartImport
<1>2. /\ AtWork(w) /\ RequestIs(op[w]) /\ op[w].kind = "import"
      /\ op[w].defs \in Seq(Definition)
  BY <1>1, WorkingIs DEF RequestIs
<1>3. /\ pc'[w] = "importing" /\ GoTo(w, "importing")
      /\ UNCHANGED <<apis, versions, op, target, def, used, imported>>
      /\ draft'[w] = apis /\ rest'[w] = op[w].defs
      /\ DOMAIN draft' = Writers /\ DOMAIN rest' = Writers
  BY DEF StartImport, GoTo, StoreInv, StoreTyped
<1>4. SoundTable(apis, used)
  BY DEF StoreInv, TablesFine, Fine
<1>5. Importing(w)'
  BY <1>2, <1>3, <1>4 DEF Importing
<1>6. WorkIs(w)'
  BY <1>2, <1>3, <1>5 DEF WorkIs, RequestIs
<1> QED BY <1>2, <1>3, <1>6, GoToKeeps, SameTables DEF StoreInv, StoreTyped, Places

LEMMA ListRowsKeeps ==
  ASSUME StoreInv, NEW w \in Writers, ListRows(w)
  PROVE  StoreInv'
<1>1. Working(w, {"version"})
  BY DEF ListRows
<1>2. AtWork(w) /\ RequestIs(op[w])
  BY <1>1, WorkingIs
<1>3. /\ pc'[w] = "listed" /\ GoTo(w, "listed")
      /\ UNCHANGED <<apis, versions, op, target, def, rest, used, imported>>
      /\ draft'[w] = apis /\ DOMAIN draft' = Writers
  BY DEF ListRows, GoTo, StoreInv, StoreTyped
<1>4. WorkIs(w)'
  BY <1>2, <1>3 DEF WorkIs, RequestIs
<1> QED BY <1>2, <1>3, <1>4, GoToKeeps, SameTables DEF StoreInv, StoreTyped, Places

(* Nothing changed since the rows were listed, so each gets its examples.  *)
LEMMA AttachExamplesKeeps ==
  ASSUME StoreInv, NEW w \in Writers, AttachExamples(w)
  PROVE  StoreInv'
<1>1. AtWork(w) /\ RequestIs(op[w]) /\ draft[w] = apis /\ apis \in Table
  BY DEF StoreInv, AttachExamples, AtWork, WorkIs, TablesFine, Fine, SoundTable
<1>2. /\ pc'[w] = "attached" /\ GoTo(w, "attached")
      /\ UNCHANGED <<apis, versions, op, target, def, rest, used, imported>>
      /\ DOMAIN draft' = Writers
  BY DEF AttachExamples, GoTo, StoreInv, StoreTyped
<1>3. draft'[w] = [i \in Ids |-> LET row == apis[i] IN
          IF row = NoRow THEN NoRow
          ELSE [row EXCEPT !.examples = IF apis[i] = NoRow THEN OnlySelected(row)
                                                          ELSE apis[i].examples]]
  BY <1>1 DEF AttachExamples, StoreInv, StoreTyped
<1>4. \A i \in Ids : apis[i] # NoRow =>
        [apis[i] EXCEPT !.examples = apis[i].examples] = apis[i]
  BY <1>1, SameExamples DEF Table
<1>5. draft'[w] = apis
  BY <1>1, <1>3, <1>4 DEF Table
<1>6. WorkIs(w)'
  BY <1>1, <1>2, <1>5 DEF WorkIs, RequestIs
<1> QED BY <1>1, <1>2, <1>6, GoToKeeps, SameTables DEF StoreInv, StoreTyped, Places

LEMMA UpsertDefinitionKeeps ==
  ASSUME StoreInv, NEW w \in Writers, UpsertDefinition(w)
  PROVE  StoreInv'
<1> DEFINE d == Head(rest[w])
           t == draft[w]
           rows == OnRoute(t, d.route)
           done == RoutesOf(op[w].defs)
<1>1. /\ AtWork(w) /\ RequestIs(op[w]) /\ Importing(w) /\ used \in SUBSET Ids
      /\ SoundTable(t, used) /\ t \in Table /\ SoundTable(apis, used)
  BY DEF StoreInv, StoreTyped, UpsertDefinition, AtWork, WorkIs, Importing, SoundTable,
         TablesFine, Fine
<1>2. PICK i \in IF rows = {} THEN Ids \ used ELSE rows :
        /\ draft' = [draft EXCEPT ![w][i] = Imported(d, draft[w][i])]
        /\ used' = used \cup {i}
  BY DEF UpsertDefinition
<1>3. /\ pc'[w] = "importing" /\ GoTo(w, "importing") /\ rest[w] # <<>>
      /\ UNCHANGED <<apis, versions, op, target, def, imported>>
      /\ rest'[w] = Tail(rest[w])
      /\ DOMAIN draft' = Writers /\ DOMAIN rest' = Writers
  BY DEF UpsertDefinition, GoTo, StoreInv, StoreTyped
<1>4. rest[w] \in Seq(Definition) /\ RoutesOf(rest[w]) \subseteq done
  BY <1>1 DEF Importing
<1>5. /\ d \in Definition /\ d.route \in done
      /\ Tail(rest[w]) \in Seq(Definition) /\ RoutesOf(Tail(rest[w])) \subseteq done
  <2>1. Len(rest[w]) \in Nat \ {0} /\ d = rest[w][1] /\ 1 \in DOMAIN rest[w]
    BY <1>3, <1>4
  <2>2. d \in Definition /\ d.route \in done
    BY <1>4, <2>1 DEF RoutesOf
  <2>3. Tail(rest[w]) \in Seq(Definition)
    BY <1>3, <1>4
  <2>4. \A k \in DOMAIN Tail(rest[w]) :
          k + 1 \in DOMAIN rest[w] /\ Tail(rest[w])[k] = rest[w][k + 1]
    BY <1>3, <1>4
  <2>5. RoutesOf(Tail(rest[w])) \subseteq RoutesOf(rest[w])
    BY <2>4 DEF RoutesOf
  <2> QED BY <1>4, <2>2, <2>3, <2>5
<1> DEFINE row == Imported(d, draft[w][i])
<1> HIDE DEF d
<1>6. row \in Row /\ Sound(row) /\ row.route = d.route
  BY <1>5, ImportedIs
<1>7. i \in Ids
  BY <1>2 DEF OnRoute, Present
<1> HIDE DEF row
<1>8. draft'[w] = [t EXCEPT ![i] = row]
  BY <1>2 DEF StoreInv, StoreTyped, row
<1>9. /\ draft'[w] \in Table /\ draft'[w][i] = row /\ Present(draft'[w]) = Present(t) \cup {i}
      /\ \A j \in Present(t) \ {i} : draft'[w][j] = t[j]
  BY <1>1, <1>6, <1>7, <1>8, RowAssumption DEF Table, Present
<1>10. SoundTable(draft'[w], used')
  BY <1>1, <1>2, <1>6, <1>9 DEF SoundTable
<1>11. /\ \A j \in Present(apis) : j \in Present(t) /\ t[j].route = apis[j].route /\ j \in used
       /\ \A j \in Present(t) :
            /\ t[j].route \notin done => t[j] = apis[j]
            /\ j \notin Present(apis) => \A k \in Present(apis) : apis[k].route # t[j].route
  BY <1>1 DEF Importing, SoundTable
<1>12. ASSUME NEW j \in Present(apis)
       PROVE  j \in Present(draft'[w]) /\ draft'[w][j].route = apis[j].route
  <2>1. CASE j # i
    BY <1>9, <1>11, <2>1
  <2>2. CASE j = i
    <3>1. i \in rows
      BY <1>2, <1>11, <2>2
    <3> QED BY <1>6, <1>9, <1>11, <2>2, <3>1 DEF OnRoute
  <2> QED BY <2>1, <2>2
<1>13. ASSUME NEW j \in Present(draft'[w])
       PROVE  /\ draft'[w][j].route \notin done => draft'[w][j] = apis[j]
              /\ j \notin Present(apis) =>
                   \A k \in Present(apis) : apis[k].route # draft'[w][j].route
  <2>1. CASE j # i
    BY <1>9, <1>11, <2>1
  <2>2. CASE j = i
    <3>1. draft'[w][j].route = d.route /\ d.route \in done
      BY <1>5, <1>6, <1>9, <2>2
    <3>2. ASSUME i \notin Present(apis), NEW k \in Present(apis) PROVE apis[k].route # d.route
      <4>1. CASE rows = {}
        BY <1>11, <4>1 DEF OnRoute
      <4>2. CASE i \in rows
        BY <1>11, <3>2, <4>2 DEF OnRoute
      <4> QED BY <1>2, <4>1, <4>2
    <3> QED BY <2>2, <3>1, <3>2
  <2> QED BY <2>1, <2>2
<1>14. Importing(w)'
  BY <1>1, <1>3, <1>5, <1>10, <1>12, <1>13 DEF Importing
<1>15. WorkIs(w)'
  BY <1>1, <1>3, <1>14 DEF WorkIs, RequestIs
<1>16. used \subseteq used' /\ used' \in SUBSET Ids
  BY <1>1, <1>2, <1>7
<1> QED BY <1>1, <1>3, <1>15, <1>16, GoToKeeps, SameTables DEF StoreInv, StoreTyped, Places

LEMMA CommitImportKeeps ==
  ASSUME StoreInv, NEW w \in Writers, CommitImport(w)
  PROVE  StoreInv'
<1> DEFINE t == draft[w]
           done == RoutesOf(op[w].defs)
<1>1. /\ AtWork(w) /\ Importing(w) /\ used \in SUBSET Ids /\ Fine(apis, used, imported)
  BY DEF StoreInv, StoreTyped, CommitImport, AtWork, WorkIs, TablesFine
<1>2. /\ apis' = t /\ imported' = imported \cup done
      /\ Return(w) /\ UNCHANGED <<versions, used>>
  BY DEF CommitImport, RoutesOf
<1>3. ASSUME NEW r \in Routes \ (imported \cup done) PROVE OneActiveOn(t, r)
  <2>1. OneActiveOn(apis, r)
    BY <1>1 DEF Fine
  <2>2. ASSUME NEW i \in OnRoute(t, r) PROVE i \in OnRoute(apis, r) /\ t[i] = apis[i]
    <3>1. i \in Present(t) /\ t[i].route = r /\ r \notin done
      BY DEF OnRoute
    <3>2. t[i] = apis[i]
      BY <1>1, <3>1 DEF Importing
    <3> QED BY <3>1, <3>2 DEF OnRoute, Present
  <2> QED BY <2>1, <2>2 DEF OneActiveOn
<1>4. Fine(t, used, imported \cup done)
  BY <1>1, <1>3 DEF Fine, Importing
<1> HIDE DEF t, done
<1>5. imported \subseteq imported' /\ Fine(apis', used', imported')
  BY <1>2, <1>4
<1> QED BY <1>1, <1>2, <1>5, OneTable, ReturnInv

LEMMA InsertVersionKeeps ==
  ASSUME StoreInv, NEW w \in Writers, InsertVersion(w)
  PROVE  StoreInv' /\ versions' = Append(versions, apis)
<1>1. versions' = Append(versions, apis)
  BY DEF InsertVersion, StoreInv, WorkIs
<1>2. AtWork(w) /\ Return(w) /\ UNCHANGED <<apis, used, imported>> /\ used \in SUBSET Ids
  BY DEF InsertVersion, AtWork, StoreInv, StoreTyped
<1>3. /\ Fine(apis, used, imported) /\ apis \in Table /\ versions \in Seq(Table)
      /\ \A k \in 1..Len(versions) : Fine(versions[k], used, imported)
  BY DEF StoreInv, TablesFine, Fine, SoundTable
<1>4. /\ versions' \in Seq(Table) /\ Len(versions') = Len(versions) + 1
      /\ \A k \in 1..Len(versions') :
           versions'[k] = IF k <= Len(versions) THEN versions[k] ELSE apis
  BY <1>1, <1>3
<1>5. TablesFine'
  <2>1. ASSUME NEW k \in 1..Len(versions') PROVE Fine(versions'[k], used, imported)
    <3>1. CASE k <= Len(versions)
      BY <1>3, <1>4, <3>1
    <3>2. CASE ~(k <= Len(versions))
      BY <1>3, <1>4, <3>2
    <3> QED BY <3>1, <3>2
  <2> QED BY <1>2, <1>3, <1>4, <2>1 DEF TablesFine
<1> QED BY <1>1, <1>2, <1>5, ReturnInv

LEMMA ReplaceAllKeeps ==
  ASSUME StoreInv, NEW w \in Writers, ReplaceAll(w)
  PROVE  StoreInv' /\ apis' = versions[op[w].version]
<1> DEFINE t == versions[op[w].version]
<1>1. op[w].version \in 1..Len(versions) /\ Working(w, {"restore", "revert"})
  BY DEF ReplaceAll
<1>2. /\ AtWork(w) /\ RequestIs(op[w]) /\ used \in SUBSET Ids
      /\ Fine(t, used, imported) /\ t \in Table
  BY <1>1, WorkingIs DEF StoreInv, StoreTyped, TablesFine, Fine, SoundTable
<1>3. apis' = [i \in Ids |-> LET row == t[i] IN IF row = NoRow THEN NoRow ELSE Replaced(row)]
  BY DEF ReplaceAll
<1>4. ASSUME NEW i \in Ids, t[i] # NoRow PROVE Replaced(t[i]) = t[i]
  <2>1. t[i] \in Row /\ Sound(t[i])
    BY <1>2, <1>4 DEF Fine, SoundTable, Table, Present
  <2> QED BY <2>1, ReplacedIs
<1>5. apis' = t
  BY <1>2, <1>3, <1>4 DEF Table
<1>6. UNCHANGED <<versions, used, imported>>
  BY DEF ReplaceAll
<1>7. TablesFine'
  BY <1>2, <1>5, <1>6, OneTable
<1>8. CASE Return(w)
  BY <1>2, <1>5, <1>6, <1>7, <1>8, ReturnInv
<1>9. CASE GoTo(w, "recording") /\ UNCHANGED locals
  <2>1. pc'[w] = "recording" /\ op' = op
    BY <1>9 DEF GoTo, StoreInv, StoreTyped, locals
  <2>2. WorkIs(w)'
    BY <1>1, <1>2, <1>5, <1>6, <2>1 DEF WorkIs, RequestIs
  <2>3. /\ DOMAIN target' = Writers /\ DOMAIN def' = Writers
        /\ DOMAIN draft' = Writers /\ DOMAIN rest' = Writers
    BY <1>9 DEF locals, StoreInv, StoreTyped
  <2> QED BY <1>2, <1>5, <1>6, <1>7, <1>9, <2>1, <2>2, <2>3, GoToKeeps DEF StoreInv, Places
<1> QED BY <1>8, <1>9 DEF ReplaceAll

LEMMA WorkKeeps ==
  ASSUME StoreInv, NEW w \in Writers, Work(w)
  PROVE  StoreInv'
BY FindTargetKeeps, TakeIdKeeps, SaveManualKeeps, OneRowKeeps, FailKeeps, StartImportKeeps,
   UpsertDefinitionKeeps, CommitImportKeeps, ListRowsKeeps, AttachExamplesKeeps,
   InsertVersionKeeps, ReplaceAllKeeps DEF Work, Manually, Import, Version

LEMMA InitStore == Init => StoreInv
<1> SUFFICES ASSUME Init PROVE StoreInv
  OBVIOUS
<1>1. StoreTyped
  BY DEF Init, StoreTyped, Present
<1>2. Exclusion /\ \A w \in Writers : WorkIs(w)
  BY NobodyAssumption DEF Init, Exclusion, AtWork, WorkIs
<1>3. Fine(apis, used, imported)
  BY TablesAssumption DEF Init, Fine, SoundTable
<1>4. versions \in Seq(Table) /\ Len(versions) = 0
  BY DEF Init
<1> QED BY <1>1, <1>2, <1>3, <1>4 DEF StoreInv, TablesFine

-----------------------------------------------------------------------------
(* The tools: what a call has read, saved and still to save.               *)

(* The row that an item of a bulk request is saved as.                     *)
RowFor(item) == Manual(ManualInput(item))

(* A bulk request has handed over a first part of its items, and all but   *)
(* one the store is at have been saved.                                    *)
BulkIs(w) ==
  LET items == call[w].items
      busy  == IF pc[w] = "idle" THEN 0 ELSE 1
  IN  /\ items \in Seq(Definition)
      /\ step[w] \in {"storing", "announcing"}
      /\ kept[w] \in Seq(Row) /\ todo[w] \in Seq(Definition)
      /\ Len(kept[w]) + busy + Len(todo[w]) = Len(items)
      /\ \A k \in 1..Len(kept[w]) : kept[w][k] = RowFor(items[k])
      /\ \A k \in 1..Len(todo[w]) : todo[w][k] = items[Len(kept[w]) + busy + k]
      /\ pc[w] # "idle" =>
           op[w].kind = "upsert" /\ op[w].def = ManualInput(items[Len(kept[w]) + 1])
      /\ step[w] = "announcing" => todo[w] = <<>>

(* An update hands over one spec, with the fields it names.                *)
Edited(w, d) == \A f \in call[w].edit.named : d[f] = call[w].edit.value[f]
Written(w, row) == AsAsked(row, call[w].edit.named, call[w].edit.value)
UpdateIs(w) ==
  /\ todo[w] = <<>> /\ call[w].id \in Ids /\ call[w].edit \in Edit
  /\ step[w] = "examples" => existing[w] \in Row
  /\ pc[w] # "idle" => op[w].kind = "update" /\ Edited(w, op[w].def)
  /\ IF step[w] = "announcing"
     THEN Len(kept[w]) = 1 /\ Written(w, kept[w][1])
     ELSE kept[w] = <<>>

CallIs(w) ==
  /\ call[w] \in Call \cup {NoCall}
  /\ step[w] \in {"none", "reading", "examples", "storing", "announcing"}
  /\ step[w] = "none" <=> call[w] = NoCall
  /\ call[w] # NoCall /\ pc[w] # "idle" => step[w] = "storing"
  /\ call[w] = NoCall => kept[w] = <<>>
  /\ call[w] # NoCall => IF call[w].tool = "bulk" THEN BulkIs(w) ELSE UpdateIs(w)

ToolsTyped ==
  /\ DOMAIN call = Writers /\ DOMAIN step = Writers /\ DOMAIN existing = Writers
  /\ DOMAIN todo = Writers /\ DOMAIN kept = Writers
  /\ era \in Nat

ToolsInv == ToolsTyped /\ (\A w \in Writers : CallIs(w)) /\ AnnouncedIsDone

LEMMA ManualInputIs ==
  ASSUME NEW d \in Definition
  PROVE  /\ ManualInput(d) \in Definition
         /\ \A f \in Fields : ManualInput(d)[f] = d[f]
<1>1. d.examples \in Examples
  BY DEF Definition
<1>2. d.examples.first \in Statuses
  BY <1>1, ExamplesAre DEF ExamplesTyped
<1>3. ManualInput(d) \in Definition
  BY <1>2 DEF ManualInput, Definition
<1>4. \A f \in Fields : ManualInput(d)[f] = d[f]
  BY FieldsAssumption DEF ManualInput, Definition
<1> QED BY <1>3, <1>4

(* The row written holds what its definition asks for.                     *)
LEMMA ManualAsAsked ==
  ASSUME NEW d \in Definition
  PROVE  /\ AsAsked(Manual(d), Fields, d)
         /\ d.want \in DOMAIN d.examples.body => Manual(d).sel = d.want
<1>1. d.want \in DOMAIN d.examples.body => Choice(d.examples, d.want) = d.want
  BY DEF Choice
<1>2. /\ Manual(d).route = d.route /\ Manual(d).name = d.name /\ Manual(d).mock = d.mock
      /\ Manual(d).examples = d.examples /\ Manual(d).proxy = (d.proxy /\ ~d.mock)
      /\ Manual(d).sel = Choice(d.examples, d.want)
  BY DEF Manual, RowOf
<1>3. \A f \in Fields \ {"proxy"} : Manual(d)[f] = d[f]
  BY <1>2, FieldsAssumption
<1> QED BY <1>1, <1>2, <1>3 DEF AsAsked

LEMMA RowForIs ==
  ASSUME NEW d \in Definition
  PROVE  /\ RowFor(d) \in Row /\ AsAsked(RowFor(d), Fields, d)
         /\ RowFor(d).sel = d.examples.first
<1> DEFINE input == ManualInput(d)
<1>1. /\ input \in Definition /\ input.examples = d.examples /\ input.want = d.examples.first
      /\ input.proxy = d.proxy /\ \A f \in Fields : input[f] = d[f]
  BY ManualInputIs DEF ManualInput, Definition
<1>2. d.examples.first \in DOMAIN d.examples.body
  BY ExamplesAre DEF ExamplesTyped, Definition
<1> HIDE DEF input
<1>3. /\ Manual(input) \in Row /\ AsAsked(Manual(input), Fields, input)
      /\ Manual(input).sel = d.examples.first
  BY <1>1, <1>2, ManualIs, ManualAsAsked
<1>4. AsAsked(Manual(input), Fields, d)
  BY <1>1, <1>3 DEF AsAsked
<1> QED BY <1>3, <1>4 DEF RowFor, input

LEMMA MergeUpdateIs ==
  ASSUME NEW row \in Row, NEW edit \in Edit
  PROVE  /\ MergeUpdate(row, edit) \in Definition
         /\ \A f \in edit.named : MergeUpdate(row, edit)[f] = edit.value[f]
<1> DEFINE Value(f) == IF f \in edit.named THEN edit.value[f] ELSE row[f]
           d == [f \in Fields \cup {"want"} |-> IF f = "want" THEN row.sel ELSE Value(f)]
<1>1. edit.named \subseteq Fields /\ edit.value \in Definition
  BY DEF Edit
<1>2. /\ Value("route") \in Routes /\ Value("name") \in Names /\ Value("mock") \in BOOLEAN
      /\ Value("proxy") \in BOOLEAN /\ Value("examples") \in Examples
  BY <1>1 DEF Row, Definition
<1>3. d \in Definition
  BY <1>2, FieldsAssumption DEF Definition, Row
<1>4. \A f \in edit.named : d[f] = edit.value[f]
  BY <1>1, FieldsAssumption
<1>5. MergeUpdate(row, edit) = ManualInput(d)
  BY DEF MergeUpdate
<1> HIDE DEF d
<1> QED BY <1>1, <1>3, <1>4, <1>5, ManualInputIs

-----------------------------------------------------------------------------
(* A step of the store for one goroutine, as the others see it.            *)

LEMMA StoreStays ==
  ASSUME StoreInv, UNCHANGED <<apis, versions, writeMu, pc, locals, used, imported>>
  PROVE  StoreInv'
<1>1. StoreTyped'
  BY DEF StoreInv, StoreTyped, locals
<1>2. Exclusion'
  BY DEF StoreInv, Exclusion, AtWork
<1>3. TablesFine'
  BY SameTables
<1>4. \A w \in Writers : WorkIs(w)'
  BY WorkStays DEF StoreInv, locals
<1> QED BY <1>1, <1>2, <1>3, <1>4 DEF StoreInv

LEMMA WorkOthers ==
  ASSUME StoreInv, NEW v \in Writers, Lock(v) \/ Work(v) \/ Handed(v), NEW w \in Writers \ {v}
  PROVE  pc'[w] = pc[w] /\ op'[w] = op[w]
<1> USE DEF StoreInv, StoreTyped, Return, GoTo, locals
<1>1. CASE Lock(v) \/ Handed(v)
  BY <1>1 DEF Lock, Handed
<1>2. CASE Manually(v) \/ Fail(v)
  BY <1>2 DEF Manually, FindTarget, TakeId, SaveManual, Fail
<1>3. CASE OneRow(v)
  BY <1>3 DEF OneRow, Enable, Change, Disable, Select, Delete, Missing
<1>4. CASE Import(v) \/ Version(v)
  BY <1>4 DEF Import, StartImport, UpsertDefinition, CommitImport,
              Version, ListRows, AttachExamples, InsertVersion, ReplaceAll
<1> QED BY <1>1, <1>2, <1>3, <1>4 DEF Work

LEMMA WorkOwn ==
  ASSUME StoreInv, NEW v \in Writers, Lock(v) \/ Work(v)
  PROVE  pc[v] # "idle" /\ (pc'[v] = "idle" \/ op'[v] = op[v])
<1> USE DEF StoreInv, StoreTyped, Return, GoTo, locals, Working
<1>1. CASE Lock(v)
  BY <1>1 DEF Lock
<1>2. CASE Manually(v) \/ Fail(v)
  BY <1>2 DEF Manually, FindTarget, TakeId, SaveManual, Fail
<1>3. CASE OneRow(v)
  BY <1>3 DEF OneRow, Enable, Change, Disable, Select, Delete, Missing
<1>4. CASE Import(v) \/ Version(v)
  BY <1>4 DEF Import, StartImport, UpsertDefinition, CommitImport,
              Version, ListRows, AttachExamples, InsertVersion, ReplaceAll
<1> QED BY <1>1, <1>2, <1>3, <1>4 DEF Work

(* A call is where it was when neither its tool nor the store moved it.    *)
LEMMA CallStays ==
  ASSUME NEW w, CallIs(w), pc'[w] = pc[w], op'[w] = op[w], call'[w] = call[w],
         step'[w] = step[w], existing'[w] = existing[w], todo'[w] = todo[w], kept'[w] = kept[w]
  PROVE  CallIs(w)'
<1>1. BulkIs(w) => BulkIs(w)'
  BY DEF BulkIs
<1>2. UpdateIs(w) => UpdateIs(w)'
  BY DEF UpdateIs, Edited, Written
<1> QED BY <1>1, <1>2 DEF CallIs

LEMMA EndCallIs ==
  ASSUME ToolsTyped, NEW w \in Writers, EndCall(w)
  PROVE  CallIs(w)'
BY DEF ToolsTyped, EndCall, CallIs

LEMMA OthersCalls ==
  ASSUME StoreInv, ToolsInv, NEW v \in Writers, NEW w \in Writers \ {v},
         pc'[w] = pc[w], op'[w] = op[w],
         \/ UNCHANGED <<call, step, existing, todo, kept>>
         \/ EndCall(v)
         \/ StartCall(v) \/ ReadRow(v) \/ ReadExamples(v) \/ NextItem(v) \/ StoreSaved(v)
  PROVE  CallIs(w)'
<1>1. /\ call'[w] = call[w] /\ step'[w] = step[w] /\ existing'[w] = existing[w]
      /\ todo'[w] = todo[w] /\ kept'[w] = kept[w]
  BY DEF ToolsInv, ToolsTyped, EndCall, StartCall, ReadRow, ReadExamples, NextItem,
         StoreSaved, Hand
<1> QED BY <1>1, CallStays DEF ToolsInv

(* A step that moves the call of v and no other's.                         *)
LEMMA CallMoves ==
  ASSUME StoreInv, ToolsInv, NEW v \in Writers, CallIs(v)', era' \in Nat, announced' = announced,
         \A w \in Writers \ {v} : pc'[w] = pc[w] /\ op'[w] = op[w],
         \/ UNCHANGED <<call, step, existing, todo, kept>>
         \/ EndCall(v)
         \/ StartCall(v) \/ ReadRow(v) \/ ReadExamples(v) \/ NextItem(v) \/ StoreSaved(v)
  PROVE  ToolsInv'
<1>1. ASSUME NEW w \in Writers PROVE CallIs(w)'
  BY OthersCalls
<1>2. ToolsTyped'
  BY DEF ToolsInv, ToolsTyped, EndCall, StartCall, ReadRow, ReadExamples, NextItem,
         StoreSaved, Hand
<1>3. AnnouncedIsDone'
  BY DEF ToolsInv, AnnouncedIsDone
<1> QED BY <1>1, <1>2, <1>3 DEF ToolsInv

-----------------------------------------------------------------------------
(* The steps of a tool.                                                    *)

LEMMA CallsAre ==
  ASSUME NEW c \in Call
  PROVE  /\ c # NoCall /\ c.tool \in {"update", "bulk"}
         /\ c.tool = "update" => c.id \in Ids /\ c.edit \in Edit
         /\ c.tool = "bulk" => c.items \in Seq(Definition)
BY NoCallAssumption, EditsAssumption, BulksAssumption DEF Call

LEMMA StartCallKeeps ==
  ASSUME StoreInv, ToolsInv, NEW w \in Writers, StartCall(w)
  PROVE  StoreInv' /\ ToolsInv'
<1>1. StoreInv'
  BY StoreStays DEF StartCall
<1>2. PICK c \in Call :
        /\ call' = [call EXCEPT ![w] = c]
        /\ step' = [step EXCEPT ![w] = IF c.tool = "update" THEN "reading" ELSE "storing"]
        /\ todo' = [todo EXCEPT ![w] = IF c.tool = "bulk" THEN c.items ELSE <<>>]
  BY DEF StartCall
<1>3. /\ pc[w] = "idle" /\ pc'[w] = "idle" /\ kept'[w] = <<>> /\ call'[w] = c
      /\ step'[w] = (IF c.tool = "update" THEN "reading" ELSE "storing")
      /\ todo'[w] = (IF c.tool = "bulk" THEN c.items ELSE <<>>)
  BY <1>2 DEF StartCall, ToolsInv, ToolsTyped, CallIs
<1>4. ASSUME c.tool = "bulk" PROVE CallIs(w)'
  <2>1. BulkIs(w)'
    BY <1>3, <1>4, CallsAre DEF BulkIs
  <2> QED BY <1>3, <1>4, <2>1, CallsAre DEF CallIs
<1>5. ASSUME c.tool = "update" PROVE CallIs(w)'
  <2>1. UpdateIs(w)'
    BY <1>3, <1>5, CallsAre DEF UpdateIs
  <2> QED BY <1>3, <1>5, <2>1, CallsAre DEF CallIs
<1>6. CallIs(w)'
  BY <1>4, <1>5, CallsAre
<1>7. era' \in Nat /\ announced' = announced /\ pc' = pc /\ op' = op
  BY DEF StartCall, ToolsInv, ToolsTyped, locals
<1> QED BY <1>1, <1>6, <1>7, CallMoves

LEMMA ReadRowKeeps ==
  ASSUME StoreInv, ToolsInv, NEW w \in Writers, ReadRow(w)
  PROVE  StoreInv' /\ ToolsInv'
<1>1. StoreInv'
  BY StoreStays DEF ReadRow, vars
<1>2. /\ step[w] = "reading" /\ call[w] # NoCall /\ pc[w] = "idle" /\ call[w] \in Call
      /\ call[w].tool = "update" /\ UpdateIs(w) /\ call[w].id \in Ids
  BY CallsAre DEF ReadRow, ToolsInv, CallIs, BulkIs, UpdateIs
<1>3. apis[call[w].id] \in Row
  BY <1>2 DEF ReadRow, StoreInv, TablesFine, Fine, SoundTable, Table
<1>4. /\ existing'[w] = apis[call[w].id] /\ step'[w] = "examples"
      /\ UNCHANGED <<pc, op, call, todo, kept, era, announced>>
  BY DEF ReadRow, ToolsInv, ToolsTyped, vars, locals
<1>5. UpdateIs(w)'
  BY <1>2, <1>3, <1>4 DEF UpdateIs, Edited
<1>6. CallIs(w)'
  BY <1>2, <1>4, <1>5 DEF CallIs
<1> QED BY <1>1, <1>4, <1>6, CallMoves DEF ToolsInv, ToolsTyped

(* A call that ends and leaves the store as it is. *)
LEMMA NotFoundKeeps ==
  ASSUME StoreInv, ToolsInv, NEW w \in Writers, NotFound(w)
  PROVE  StoreInv' /\ ToolsInv'
<1>1. StoreInv'
  BY StoreStays DEF NotFound, vars
<1>2. EndCall(w) /\ CallIs(w)' /\ UNCHANGED <<pc, op, era, announced>>
  BY EndCallIs DEF NotFound, vars, locals, ToolsInv
<1> QED BY <1>1, <1>2, CallMoves DEF ToolsInv, ToolsTyped

LEMMA ReadExamplesKeeps ==
  ASSUME StoreInv, ToolsInv, NEW w \in Writers, ReadExamples(w)
  PROVE  StoreInv' /\ ToolsInv'
<1> DEFINE row == existing[w]
           found == apis[call[w].id] # NoRow /\ readIn[w] = era
           examples == IF found THEN apis[call[w].id].examples ELSE OnlySelected(row)
           read == [row EXCEPT !.examples = examples]
           d == MergeUpdate(read, call[w].edit)
<1>1. /\ step[w] = "examples" /\ call[w] # NoCall /\ pc[w] = "idle" /\ call[w] \in Call
      /\ call[w].tool = "update" /\ UpdateIs(w) /\ call[w].id \in Ids /\ call[w].edit \in Edit
      /\ row \in Row
  BY CallsAre DEF ReadExamples, ToolsInv, CallIs, BulkIs, UpdateIs
<1>2. examples \in Examples
  <2>1. apis[call[w].id] # NoRow => apis[call[w].id].examples \in Examples
    BY <1>1 DEF StoreInv, TablesFine, Fine, SoundTable, Table, Row
  <2>2. OnlySelected(row) \in Examples
    <3>1. row.sel \in Statuses /\ row.answer \in Bodies
      BY <1>1 DEF Row
    <3> DEFINE S == {row.sel}
    <3>2. S \in SUBSET Statuses
      BY <3>1
    <3>3. OnlySelected(row) \in [first : S, body : [S -> Bodies]]
      BY <3>1 DEF OnlySelected
    <3> QED BY <3>2, <3>3 DEF Examples
  <2> QED BY <2>1, <2>2
<1> HIDE DEF examples
<1>3. read \in Row
  BY <1>1, <1>2 DEF Row
<1> HIDE DEF read
<1>4. d \in Definition /\ \A f \in call[w].edit.named : d[f] = call[w].edit.value[f]
  BY <1>1, <1>3, MergeUpdateIs
<1> HIDE DEF d
<1>5. Hand(w, [kind |-> "update", id |-> call[w].id, def |-> d])
  BY DEF ReadExamples, d, read, examples
<1>6. /\ op'[w] = [kind |-> "update", id |-> call[w].id, def |-> d]
      /\ pc'[w] = "locking" /\ step'[w] = "storing"
      /\ UNCHANGED <<call, existing, todo, kept, era, announced>>
  BY <1>5 DEF ReadExamples, Hand, ToolsInv, ToolsTyped, StoreInv, StoreTyped
<1>7. Handed(w)
  <2>1. RequestIs([kind |-> "update", id |-> call[w].id, def |-> d])
    BY <1>1, <1>4 DEF RequestIs
  <2> QED BY <1>1, <1>5, <2>1 DEF Handed, Hand, ReadExamples
<1>8. StoreInv' /\ \A v \in Writers \ {w} : pc'[v] = pc[v] /\ op'[v] = op[v]
  BY <1>7, HandedKeeps, WorkOthers
<1>9. UpdateIs(w)'
  BY <1>1, <1>4, <1>6 DEF UpdateIs, Edited
<1>10. CallIs(w)'
  BY <1>1, <1>6, <1>9 DEF CallIs
<1> QED BY <1>6, <1>8, <1>10, CallMoves DEF ToolsInv, ToolsTyped

LEMMA NextItemKeeps ==
  ASSUME StoreInv, ToolsInv, NEW w \in Writers, NextItem(w)
  PROVE  StoreInv' /\ ToolsInv'
<1> DEFINE items == call[w].items
           d == ManualInput(Head(todo[w]))
           done == Len(kept[w])
<1>1. /\ step[w] = "storing" /\ call[w] # NoCall /\ pc[w] = "idle" /\ call[w] \in Call
      /\ todo[w] # <<>> /\ call[w].tool = "bulk" /\ BulkIs(w)
  BY CallsAre DEF NextItem, ToolsInv, CallIs, UpdateIs
<1>2. /\ items \in Seq(Definition) /\ kept[w] \in Seq(Row) /\ todo[w] \in Seq(Definition)
      /\ done + Len(todo[w]) = Len(items) /\ done \in Nat
      /\ Len(todo[w]) \in Nat
      /\ \A k \in 1..Len(todo[w]) : todo[w][k] = items[done + k]
  <2> DEFINE busy == IF pc[w] = "idle" THEN 0 ELSE 1
  <2>1. /\ items \in Seq(Definition) /\ kept[w] \in Seq(Row) /\ todo[w] \in Seq(Definition)
        /\ done + busy + Len(todo[w]) = Len(items)
        /\ \A k \in 1..Len(todo[w]) : todo[w][k] = items[done + busy + k]
    BY <1>1 DEF BulkIs
  <2>2. busy = 0
    BY <1>1
  <2>3. done \in Nat /\ Len(todo[w]) \in Nat
    BY <2>1
  <2> HIDE DEF busy, done
  <2> QED BY <2>1, <2>2, <2>3
<1> HIDE DEF done
<1>3. /\ Head(todo[w]) = items[done + 1] /\ Head(todo[w]) \in Definition
      /\ Tail(todo[w]) \in Seq(Definition) /\ Len(Tail(todo[w])) = Len(todo[w]) - 1
      /\ \A k \in 1..Len(Tail(todo[w])) : Tail(todo[w])[k] = items[done + 1 + k]
  <2>1. Len(todo[w]) \in Nat \ {0} /\ Head(todo[w]) = todo[w][1]
    BY <1>1, <1>2
  <2>2. Head(todo[w]) = items[done + 1] /\ Head(todo[w]) \in Definition
    BY <1>2, <2>1
  <2>3. Tail(todo[w]) \in Seq(Definition) /\ Len(Tail(todo[w])) = Len(todo[w]) - 1
    BY <1>1, <1>2
  <2>4. ASSUME NEW k \in 1..Len(Tail(todo[w])) PROVE Tail(todo[w])[k] = items[done + 1 + k]
    <3>1. Tail(todo[w])[k] = todo[w][k + 1] /\ k + 1 \in 1..Len(todo[w])
      BY <1>1, <1>2, <2>3
    <3>2. done + (k + 1) = done + 1 + k
      BY <1>2
    <3> QED BY <1>2, <3>1, <3>2
  <2> QED BY <2>2, <2>3, <2>4
<1>4. d \in Definition
  BY <1>3, ManualInputIs
<1> HIDE DEF d
<1>5. /\ op'[w] = [kind |-> "upsert", def |-> d] /\ pc'[w] = "locking" /\ step'[w] = "storing"
      /\ todo'[w] = Tail(todo[w])
      /\ UNCHANGED <<call, existing, kept, era, announced>>
  BY DEF NextItem, Hand, ToolsInv, ToolsTyped, StoreInv, StoreTyped, d
<1>6. Handed(w)
  <2>1. RequestIs([kind |-> "upsert", def |-> d])
    BY <1>4 DEF RequestIs
  <2> QED BY <1>1, <2>1 DEF Handed, Hand, NextItem, d
<1>7. StoreInv' /\ \A v \in Writers \ {w} : pc'[v] = pc[v] /\ op'[v] = op[v]
  BY <1>6, HandedKeeps, WorkOthers
<1>8. BulkIs(w)'
  <2>1. done + 1 + Len(Tail(todo[w])) = Len(items)
    BY <1>2, <1>3
  <2>2. d = ManualInput(items[done + 1])
    BY <1>3 DEF d
  <2>3. /\ call'[w].items = items /\ kept'[w] = kept[w] /\ Len(kept[w]) = done
        /\ pc'[w] # "idle" /\ step'[w] = "storing"
    BY <1>5 DEF done
  <2>4. op'[w].kind = "upsert" /\ op'[w].def = ManualInput(items[done + 1])
    BY <1>5, <2>2
  <2>5. \A k \in 1..done : kept[w][k] = RowFor(items[k])
    BY <1>1 DEF BulkIs, done
  <2> HIDE DEF items
  <2> QED BY <1>2, <1>3, <1>5, <2>1, <2>3, <2>4, <2>5 DEF BulkIs
<1>9. CallIs(w)'
  BY <1>1, <1>5, <1>8 DEF CallIs
<1> QED BY <1>5, <1>7, <1>9, CallMoves DEF ToolsInv, ToolsTyped

LEMMA AnnounceKeeps ==
  ASSUME StoreInv, ToolsInv, NEW w \in Writers, Announce(w)
  PROVE  StoreInv' /\ ToolsInv'
<1> DEFINE a == [call |-> call[w], kept |-> kept[w]]
           Done(b) ==
             IF b.call.tool = "bulk"
             THEN /\ Len(b.kept) = Len(b.call.items)
                  /\ \A k \in DOMAIN b.call.items :
                       /\ AsAsked(b.kept[k], Fields, b.call.items[k])
                       /\ b.kept[k].sel = b.call.items[k].examples.first
             ELSE /\ Len(b.kept) = 1
                  /\ AsAsked(b.kept[1], b.call.edit.named, b.call.edit.value)
<1>1. StoreInv'
  BY StoreStays DEF Announce, vars
<1>2. /\ step[w] = "announcing" /\ call[w] # NoCall /\ pc[w] = "idle" /\ CallIs(w)
  BY DEF Announce, ToolsInv, CallIs
<1>3. ASSUME call[w].tool = "bulk" PROVE Done(a)
  <2> DEFINE items == call[w].items
             busy == IF pc[w] = "idle" THEN 0 ELSE 1
  <2>1. /\ items \in Seq(Definition) /\ kept[w] \in Seq(Row) /\ todo[w] = <<>>
        /\ Len(kept[w]) + busy + Len(todo[w]) = Len(items)
        /\ \A k \in 1..Len(kept[w]) : kept[w][k] = RowFor(items[k])
    BY <1>2, <1>3 DEF CallIs, BulkIs
  <2>2. busy = 0 /\ Len(todo[w]) = 0 /\ Len(kept[w]) \in Nat
    BY <1>2, <2>1
  <2> HIDE DEF busy
  <2>3. Len(kept[w]) = Len(items)
    BY <2>1, <2>2
  <2>4. ASSUME NEW k \in DOMAIN items
        PROVE  AsAsked(kept[w][k], Fields, items[k]) /\ kept[w][k].sel = items[k].examples.first
    <3>1. kept[w][k] = RowFor(items[k]) /\ items[k] \in Definition
      BY <2>1, <2>3
    <3> QED BY <3>1, RowForIs
  <2> QED BY <1>3, <2>3, <2>4
<1>4. ASSUME call[w].tool # "bulk" PROVE Done(a)
  BY <1>2, <1>4 DEF CallIs, UpdateIs, Written
<1>5. announced' = announced \cup {a} /\ \A b \in announced : Done(b)
  BY DEF Announce, ToolsInv, AnnouncedIsDone
<1>6. AnnouncedIsDone'
  <2>1. \A b \in announced' : Done(b)
    BY <1>3, <1>4, <1>5
  <2> QED BY <2>1 DEF AnnouncedIsDone
<1>7. EndCall(w) /\ CallIs(w)' /\ UNCHANGED <<pc, op, era>>
  BY EndCallIs DEF Announce, vars, locals, ToolsInv
<1>8. \A v \in Writers \ {w} : CallIs(v)'
  BY <1>7, OthersCalls
<1>9. ToolsTyped'
  BY <1>7 DEF ToolsInv, ToolsTyped, EndCall
<1> QED BY <1>1, <1>6, <1>7, <1>8, <1>9 DEF ToolsInv

LEMMA DashboardKeeps ==
  ASSUME StoreInv, ToolsInv, NEW w \in Writers, Dashboard(w)
  PROVE  StoreInv' /\ ToolsInv'
<1>1. Handed(w) /\ call[w] = NoCall /\ UNCHANGED <<tools, era, announced>>
  BY BeginHands DEF Dashboard
<1>2. StoreInv' /\ \A v \in Writers \ {w} : pc'[v] = pc[v] /\ op'[v] = op[v]
  BY <1>1, HandedKeeps, WorkOthers
<1>3. CallIs(w)'
  BY <1>1 DEF ToolsInv, CallIs, tools
<1> QED BY <1>1, <1>2, <1>3, CallMoves DEF tools, ToolsInv, ToolsTyped

LEMMA StoreStepKeeps ==
  ASSUME StoreInv, ToolsInv, NEW w \in Writers, StoreStep(w)
  PROVE  StoreInv' /\ ToolsInv'
<1>1. /\ Lock(w) \/ Work(w)
      /\ pc'[w] # "idle" \/ call[w] = NoCall
      /\ era' \in Nat /\ UNCHANGED <<call, step, existing, todo, kept, announced>>
  BY DEF StoreStep, tools, ToolsInv, ToolsTyped
<1>2. /\ StoreInv' /\ pc[w] # "idle" /\ (pc'[w] = "idle" \/ op'[w] = op[w])
      /\ \A v \in Writers \ {w} : pc'[v] = pc[v] /\ op'[v] = op[v]
  BY <1>1, LockKeeps, WorkKeeps, WorkOthers, WorkOwn
<1>3. CallIs(w) /\ call'[w] = call[w] /\ step'[w] = step[w] /\ kept'[w] = kept[w]
  BY <1>1 DEF ToolsInv
<1>4. CASE call[w] = NoCall
  <2>1. CallIs(w)'
    BY <1>3, <1>4 DEF CallIs
  <2> QED BY <1>1, <1>2, <2>1, CallMoves
<1>5. CASE call[w] # NoCall
  <2>1. pc'[w] # "idle" /\ op'[w] = op[w]
    BY <1>1, <1>2, <1>5
  <2>2. BulkIs(w) => BulkIs(w)'
    BY <1>1, <1>2, <2>1 DEF BulkIs
  <2>3. UpdateIs(w) => UpdateIs(w)'
    BY <1>1, <1>2, <2>1 DEF UpdateIs, Edited, Written
  <2>4. CallIs(w)'
    BY <1>2, <1>3, <1>5, <2>1, <2>2, <2>3 DEF CallIs
  <2> QED BY <1>1, <1>2, <2>4, CallMoves
<1> QED BY <1>4, <1>5

LEMMA StoreSavedKeeps ==
  ASSUME StoreInv, ToolsInv, NEW w \in Writers, StoreSaved(w)
  PROVE  StoreInv' /\ ToolsInv'
<1>1. /\ call[w] # NoCall /\ SaveManual(w) /\ pc[w] = "saving" /\ step[w] = "storing"
      /\ CallIs(w) /\ Saving(w) /\ def[w] \in Definition
  BY DEF StoreSaved, SaveManual, ToolsInv, CallIs, StoreInv, WorkIs, Saving
<1>7. PICK i : /\ kept' = [kept EXCEPT ![w] = Append(@, apis'[i])]
               /\ apis'[i] = Manual(def[w])
  <2>1. CASE target[w] = NoId
    <3>1. PICK i \in Ids \ used : apis' = Put(apis, i, Manual(def[w])) /\ used' = used \cup {i}
      BY <1>1, <2>1, RowAssumption DEF SaveManual, Present
    <3>2. used' \ used = {i} /\ apis'[i] = Manual(def[w])
      BY <3>1 DEF Put
    <3> QED BY <2>1, <3>2 DEF StoreSaved
  <2>2. CASE target[w] # NoId
    <3>1. target[w] \in Present(apis) /\ apis' = Put(apis, target[w], Manual(def[w]))
      BY <1>1, <2>2 DEF SaveManual, StoreSaved
    <3>2. apis'[target[w]] = Manual(def[w])
      BY <3>1 DEF Put, Present
    <3> QED BY <2>2, <3>2 DEF StoreSaved
  <2> QED BY <2>1, <2>2
<1>2. /\ kept'[w] = Append(kept[w], Manual(def[w])) /\ pc'[w] = "idle"
      /\ step'[w] = IF todo[w] = <<>> THEN "announcing" ELSE "storing"
      /\ UNCHANGED <<call, existing, todo, era, announced>>
  BY <1>7 DEF StoreSaved, SaveManual, Return, ToolsInv, ToolsTyped, StoreInv, StoreTyped
<1>3. Work(w)
  BY <1>1 DEF Work, Manually
<1>4. StoreInv' /\ \A v \in Writers \ {w} : pc'[v] = pc[v] /\ op'[v] = op[v]
  BY <1>3, WorkKeeps, WorkOthers
<1>5. ASSUME call[w].tool = "bulk" PROVE BulkIs(w)'
  <2> DEFINE items == call[w].items
             busy == IF pc[w] = "idle" THEN 0 ELSE 1
             done == Len(kept[w])
  <2>1. /\ items \in Seq(Definition) /\ kept[w] \in Seq(Row) /\ todo[w] \in Seq(Definition)
        /\ done + busy + Len(todo[w]) = Len(items)
        /\ \A k \in 1..done : kept[w][k] = RowFor(items[k])
        /\ \A k \in 1..Len(todo[w]) : todo[w][k] = items[done + busy + k]
        /\ op[w].kind = "upsert" /\ op[w].def = ManualInput(items[done + 1])
    BY <1>1, <1>5 DEF CallIs, BulkIs
  <2>2. busy = 1 /\ done \in Nat /\ Len(todo[w]) \in Nat
    BY <1>1, <2>1
  <2>3. Manual(def[w]) = RowFor(items[done + 1]) /\ Manual(def[w]) \in Row
    BY <1>1, <2>1, ManualIs DEF Saving, RowFor
  <2>4. /\ kept'[w] \in Seq(Row) /\ Len(kept'[w]) = done + 1
        /\ \A k \in 1..done + 1 :
             kept'[w][k] = IF k = done + 1 THEN Manual(def[w]) ELSE kept[w][k]
    BY <1>2, <2>1, <2>3
  <2> HIDE DEF busy, done
  <2>5. \A k \in 1..Len(kept'[w]) : kept'[w][k] = RowFor(items[k])
    <3>1. ASSUME NEW k \in 1..done + 1 PROVE kept'[w][k] = RowFor(items[k])
      <4>1. CASE k = done + 1
        BY <2>3, <2>4, <4>1
      <4>2. CASE k # done + 1
        <5>1. k \in 1..done
          BY <2>2, <4>2
        <5> QED BY <2>1, <2>4, <4>2, <5>1
      <4> QED BY <4>1, <4>2
    <3> QED BY <2>4, <3>1
  <2>6. /\ Len(kept'[w]) + 0 + Len(todo[w]) = Len(items)
        /\ \A k \in 1..Len(todo[w]) : todo[w][k] = items[Len(kept'[w]) + 0 + k]
    <3>1. done + busy = Len(kept'[w]) + 0
      BY <2>2, <2>4
    <3> QED BY <2>1, <3>1
  <2>7. call'[w].items = items /\ todo'[w] = todo[w]
    BY <1>2
  <2> HIDE DEF items
  <2> QED BY <1>2, <2>1, <2>4, <2>5, <2>6, <2>7 DEF BulkIs
<1>6. ASSUME call[w].tool # "bulk" PROVE UpdateIs(w)'
  <2>1. /\ UpdateIs(w) /\ kept[w] = <<>> /\ todo[w] = <<>>
        /\ op[w].kind = "update" /\ Edited(w, op[w].def)
    BY <1>1, <1>6 DEF CallIs, UpdateIs
  <2>2. def[w] = op[w].def
    BY <1>1, <2>1 DEF Saving
  <2>3. Len(kept'[w]) = 1 /\ kept'[w][1] = Manual(def[w])
    BY <1>2, <2>1
  <2>4. Written(w, Manual(def[w]))
    <3>1. call[w].edit.named \subseteq Fields /\ AsAsked(Manual(def[w]), Fields, def[w])
      BY <1>1, <2>1, ManualAsAsked DEF UpdateIs, Edit
    <3>2. \A f \in call[w].edit.named : def[w][f] = call[w].edit.value[f]
      BY <2>1, <2>2 DEF Edited
    <3> QED BY <3>1, <3>2 DEF Written, AsAsked
  <2> QED BY <1>2, <2>1, <2>3, <2>4 DEF UpdateIs, Written
<1>8. CallIs(w)'
  BY <1>1, <1>2, <1>5, <1>6 DEF CallIs
<1> QED BY <1>2, <1>4, <1>8, CallMoves DEF ToolsInv, ToolsTyped

LEMMA StoreEndKeeps ==
  ASSUME StoreInv, ToolsInv, NEW w \in Writers, StoreError(w) \/ StoreNothing(w)
  PROVE  StoreInv' /\ ToolsInv'
<1>1. Work(w) /\ EndCall(w) /\ UNCHANGED <<era, announced>>
  BY DEF StoreError, StoreNothing, Work, Manually
<1>2. StoreInv' /\ \A v \in Writers \ {w} : pc'[v] = pc[v] /\ op'[v] = op[v]
  BY <1>1, WorkKeeps, WorkOthers
<1>3. CallIs(w)'
  BY <1>1, EndCallIs DEF ToolsInv
<1> QED BY <1>1, <1>2, <1>3, CallMoves DEF ToolsInv, ToolsTyped

LEMMA ToolsRestartKeeps ==
  ASSUME StoreInv, ToolsInv, ToolsRestart
  PROVE  StoreInv' /\ ToolsInv'
<1>1. StoreInv'
  BY RestartKeeps DEF ToolsRestart
<1>2. ToolsTyped'
  BY DEF ToolsRestart, ToolsInv, ToolsTyped
<1>3. \A w \in Writers : CallIs(w)'
  BY DEF ToolsRestart, CallIs
<1>4. AnnouncedIsDone'
  BY DEF ToolsRestart, ToolsInv, AnnouncedIsDone
<1> QED BY <1>1, <1>2, <1>3, <1>4 DEF ToolsInv

SpecsInv == StoreInv /\ ToolsInv

LEMMA InitSpecs == ToolsInit => SpecsInv
<1> SUFFICES ASSUME ToolsInit PROVE SpecsInv
  OBVIOUS
<1>1. StoreInv
  BY InitStore DEF ToolsInit
<1>2. ToolsTyped /\ AnnouncedIsDone
  BY DEF ToolsInit, ToolsTyped, AnnouncedIsDone
<1>3. \A w \in Writers : CallIs(w)
  BY DEF ToolsInit, CallIs
<1> QED BY <1>1, <1>2, <1>3 DEF SpecsInv, ToolsInv

LEMMA NextSpecs == SpecsInv /\ [ToolsNext]_allVars => SpecsInv'
<1> SUFFICES ASSUME StoreInv, ToolsInv, [ToolsNext]_allVars PROVE StoreInv' /\ ToolsInv'
  BY DEF SpecsInv
<1>1. CASE ToolsRestart
  BY <1>1, ToolsRestartKeeps
<1>2. ASSUME NEW w \in Writers, Tool(w) \/ Dashboard(w) PROVE StoreInv' /\ ToolsInv'
  BY <1>2, StartCallKeeps, ReadRowKeeps, NotFoundKeeps, ReadExamplesKeeps, NextItemKeeps,
     AnnounceKeeps, DashboardKeeps DEF Tool
<1>3. ASSUME NEW w \in Writers,
             StoreStep(w) \/ StoreSaved(w) \/ StoreError(w) \/ StoreNothing(w)
      PROVE  StoreInv' /\ ToolsInv'
  BY <1>3, StoreStepKeeps, StoreSavedKeeps, StoreEndKeeps
<1>4. CASE UNCHANGED allVars
  <2>1. StoreInv'
    BY <1>4, StoreStays DEF allVars, vars
  <2>2. ToolsTyped' /\ AnnouncedIsDone'
    BY <1>4 DEF allVars, tools, ToolsInv, ToolsTyped, AnnouncedIsDone
  <2>3. \A w \in Writers : CallIs(w)'
    BY <1>4, CallStays DEF allVars, vars, locals, tools, ToolsInv
  <2> QED BY <2>1, <2>2, <2>3 DEF ToolsInv
<1> QED BY <1>1, <1>2, <1>3, <1>4 DEF ToolsNext

LEMMA SpecsInvCorrect == ToolsSpec => []SpecsInv
BY InitSpecs, NextSpecs, PTL DEF ToolsSpec

-----------------------------------------------------------------------------
(* What follows from the invariant.                                        *)

(* The selected response of every row, in the table and in every saved     *)
(* version, is one of its examples (repository.go:46-52, 126-141, 517-542, *)
(* 706-716).                                                               *)
THEOREM SelectedExamples == ToolsSpec => []SelectedIsExample
<1>1. SpecsInv => SelectedIsExample
  BY DEF SpecsInv, StoreInv, TablesFine, Fine, SoundTable, SelectedIsExample
<1> QED BY <1>1, SpecsInvCorrect, PTL

(* A route that no import has touched is answered by one row at most, and  *)
(* in one way (repository.go:197-210, 488-502).                            *)
THEOREM OneAnswerPerRoute == ToolsSpec => []OneActive
<1>1. SpecsInv => OneActive
  BY DEF SpecsInv, StoreInv, TablesFine, Fine, OneActive
<1> QED BY <1>1, SpecsInvCorrect, PTL

(* The mutex is held by a goroutine at work in the store and by no other,  *)
(* however its request ended, and by no tool that reads (service.go:       *)
(* 271-372, rpc.go:403-443).                                               *)
THEOREM MutexIsReleased == ToolsSpec => []MutexReleased
<1>1. SpecsInv => MutexReleased
  BY DEF SpecsInv, StoreInv, Exclusion, AtWork, ToolsInv, CallIs, MutexReleased
<1> QED BY <1>1, SpecsInvCorrect, PTL

(* A bulk request that is announced has written a row for each of its      *)
(* items in their order, an update its one row, and every field that the   *)
(* caller named is in the row as asked, but that a row which is a mock is  *)
(* no proxy (rpc.go:403-422, 441-450, repository.go:197-210).              *)
THEOREM AnnouncedCallsAreDone == ToolsSpec => []AnnouncedIsDone
<1>1. SpecsInv => AnnouncedIsDone
  BY DEF SpecsInv, ToolsInv
<1> QED BY <1>1, SpecsInvCorrect, PTL

-----------------------------------------------------------------------------
(* The steps that write a table, and what each does to the rows.           *)

Writes(w) ==
  \/ SaveManual(w) \/ OneRow(w) \/ CommitImport(w) \/ InsertVersion(w)
  \/ ReplaceAll(w) /\ (era \in Nat => era' # era)

LEMMA WorkWrites ==
  ASSUME NEW w \in Writers, Lock(w) \/ Work(w), ReplaceAll(w) => era' = era + 1
  PROVE  UNCHANGED <<apis, versions>> \/ Writes(w)
<1>1. CASE Lock(w) \/ Manually(w) \/ Fail(w)
  BY <1>1 DEF Lock, Manually, FindTarget, TakeId, Fail, Writes
<1>2. CASE StartImport(w) \/ UpsertDefinition(w) \/ ListRows(w) \/ AttachExamples(w)
  BY <1>2 DEF StartImport, UpsertDefinition, ListRows, AttachExamples
<1>3. CASE OneRow(w) \/ CommitImport(w) \/ InsertVersion(w)
  BY <1>3 DEF Writes
<1>4. CASE ReplaceAll(w)
  <2>1. era \in Nat => era' # era
    BY <1>4
  <2> QED BY <1>4, <2>1 DEF Writes
<1> QED BY <1>1, <1>2, <1>3, <1>4 DEF Work, Import, Version

LEMMA StepsWrite ==
  ASSUME [ToolsNext]_allVars
  PROVE  UNCHANGED <<apis, versions>> \/ \E w \in Writers : Writes(w)
<1>1. CASE ToolsRestart \/ UNCHANGED allVars
  BY <1>1 DEF ToolsRestart, Restart, allVars, vars
<1>2. ASSUME NEW w \in Writers, Tool(w) \/ Dashboard(w) PROVE UNCHANGED <<apis, versions>>
  BY <1>2 DEF Tool, StartCall, ReadRow, NotFound, ReadExamples, NextItem, Announce,
              Dashboard, Begin, vars
<1>3. ASSUME NEW w \in Writers, StoreStep(w)
      PROVE  UNCHANGED <<apis, versions>> \/ Writes(w)
  BY <1>3, WorkWrites DEF StoreStep
<1>4. ASSUME NEW w \in Writers, StoreSaved(w) \/ StoreError(w) \/ StoreNothing(w)
      PROVE  UNCHANGED <<apis, versions>> \/ Writes(w)
  BY <1>4 DEF StoreSaved, StoreError, StoreNothing, Fail, Writes
<1>5. ASSUME NEW w \in Writers,
             \/ Tool(w) \/ Dashboard(w)
             \/ StoreStep(w) \/ StoreSaved(w) \/ StoreError(w) \/ StoreNothing(w)
      PROVE  UNCHANGED <<apis, versions>> \/ Writes(w)
  BY <1>2, <1>3, <1>4, <1>5
<1> QED BY <1>1, <1>5 DEF ToolsNext

(* Who writes has the mutex, so nobody else is in the middle of a request. *)
LEMMA WriterAlone ==
  ASSUME StoreInv, NEW v \in Writers, Writes(v), NEW w \in Writers, AtWork(w)
  PROVE  v = w
<1>1. AtWork(v)
  BY DEF Writes, SaveManual, OneRow, Enable, Change, Disable, Select, Delete, Missing,
         CommitImport, InsertVersion, ReplaceAll, Working, AtWork
<1> QED BY <1>1 DEF StoreInv, Exclusion

(* A manual save adds no row but a new one on a route that has none, and   *)
(* takes no example from a row but the one it saves.                       *)
LEMMA SaveManualAdds ==
  ASSUME StoreInv, NEW w \in Writers, SaveManual(w)
  PROVE  /\ \A i \in Present(apis') \ Present(apis) :
              i \notin used /\ \A j \in Present(apis) : apis[j].route # apis'[i].route
         /\ \A i \in Present(apis) \ {target[w]} : apis'[i].examples = apis[i].examples
         /\ target[w] \in Present(apis) => apis'[target[w]].examples = def[w].examples
<1> DEFINE row == Manual(def[w])
<1>1. /\ Saving(w) /\ apis \in Table /\ Present(apis) \subseteq used
      /\ \A i \in Present(apis) : apis[i] \in Row /\ i \in Ids
  BY DEF SaveManual, StoreInv, WorkIs, TablesFine, Fine, SoundTable, Table, Present
<1>2. row \in Row /\ row.route = def[w].route /\ row.examples = def[w].examples
  BY <1>1, ManualIs DEF Saving
<1> HIDE DEF row
<1>3. ASSUME NEW i \in Ids, apis' = Put(apis, i, row)
      PROVE  /\ apis'[i] = row /\ Present(apis') = Present(apis) \cup {i}
             /\ \A j \in Present(apis) \ {i} : apis'[j].examples = apis[j].examples
  <2>1. /\ Put(apis, i, row)[i] = row /\ Present(Put(apis, i, row)) = Present(apis) \cup {i}
        /\ \A j \in Present(apis) \ {i} :
             Put(apis, i, row)[j] = IF apis[j].route = row.route /\ Active(row)
                                    THEN Passive(apis[j]) ELSE apis[j]
    BY <1>1, <1>2, PutIs
  <2> QED BY <1>1, <1>3, <2>1, PassiveIs
<1>4. CASE /\ target[w] = NoId
           /\ \E i \in Ids \ used : apis' = Put(apis, i, row)
  <2>1. PICK i \in Ids \ used : apis' = Put(apis, i, row)
    BY <1>4
  <2>2. OnRoute(apis, def[w].route) = {} /\ target[w] \notin Present(apis)
    BY <1>1, <1>4, RowAssumption DEF Saving
  <2> QED BY <1>1, <1>2, <1>3, <2>1, <2>2 DEF OnRoute
<1>5. CASE target[w] \in Present(apis) /\ apis' = Put(apis, target[w], row)
  BY <1>1, <1>2, <1>3, <1>5
<1>6. CASE target[w] \notin Present(apis) /\ apis' = apis
  BY <1>6
<1> QED BY <1>4, <1>5, <1>6 DEF SaveManual, row, Present

LEMMA OneRowAdds ==
  ASSUME StoreInv, NEW w \in Writers, OneRow(w)
  PROVE  Present(apis') \subseteq Present(apis)
<1>1. apis \in Table /\ Present(apis) \subseteq Ids
  BY DEF StoreInv, TablesFine, Fine, SoundTable, Present
<1>2. CASE Enable(w)
  <2> DEFINE row == [apis[op[w].id] EXCEPT !.mock = (op[w].kind = "mock"),
                                           !.proxy = (op[w].kind = "proxy")]
  <2>1. op[w].id \in Present(apis) /\ apis' = Put(apis, op[w].id, row)
    BY <1>2 DEF Enable, Change
  <2> HIDE DEF row
  <2> QED BY <1>1, <2>1 DEF Put, OnRoute, Present
<1>3. CASE Disable(w) \/ Select(w) \/ Delete(w) \/ Missing(w)
  BY <1>1, <1>3 DEF Disable, Select, Delete, Missing, Table, Present
<1> QED BY <1>2, <1>3 DEF OneRow

-----------------------------------------------------------------------------
(* What no step does.                                                      *)

(* A row is only added to a route that has none, but when a version is     *)
(* restored (service.go:279, 300, repository.go:130).                      *)
THEOREM NoSecondRows == ToolsSpec => NoSecondRow
<1> DEFINE Added ==
      \A i \in Present(apis') \ Present(apis) :
        \/ \E w \in Writers : Working(w, {"restore", "revert"})
        \/ \A j \in Present(apis) : apis[j].route # apis'[i].route
<1>1. ASSUME StoreInv, [ToolsNext]_allVars PROVE Added
  <2>1. CASE UNCHANGED <<apis, versions>>
    BY <2>1 DEF Present
  <2>2. ASSUME NEW w \in Writers, Writes(w) PROVE Added
    <3>1. CASE SaveManual(w)
      BY <1>1, <3>1, SaveManualAdds
    <3>2. CASE OneRow(w)
      BY <1>1, <3>2, OneRowAdds
    <3>3. CASE CommitImport(w)
      <4>1. Importing(w) /\ apis' = draft[w]
        BY <1>1, <3>3 DEF CommitImport, StoreInv, WorkIs
      <4> QED BY <4>1 DEF Importing
    <3>4. CASE InsertVersion(w)
      BY <3>4 DEF InsertVersion, Present
    <3>5. CASE ReplaceAll(w)
      BY <3>5 DEF ReplaceAll
    <3> QED BY <2>2, <3>1, <3>2, <3>3, <3>4, <3>5 DEF Writes
  <2> QED BY <1>1, <2>1, <2>2, StepsWrite
<1>2. SpecsInv /\ [ToolsNext]_allVars => [Added]_vars
  BY <1>1 DEF SpecsInv
<1> QED BY <1>2, SpecsInvCorrect, PTL DEF ToolsSpec, NoSecondRow

(* Creating a spec for a route that exists loses no response example with  *)
(* a registered status that was there before (service.go:374-409).         *)
THEOREM NoExampleIsLost == ToolsSpec => NoLostExample
<1> DEFINE Kept ==
      \A w \in Writers, i \in Ids :
        (pc[w] = "saving" /\ pc'[w] # "saving" /\ op[w].kind = "create" /\ i \in Present(apis))
          => DOMAIN apis[i].examples.body \cap ValidStatuses
               \subseteq DOMAIN apis'[i].examples.body
<1>1. ASSUME StoreInv, [ToolsNext]_allVars PROVE Kept
  <2> SUFFICES ASSUME NEW w \in Writers, NEW i \in Present(apis),
                      pc[w] = "saving", op[w].kind = "create"
               PROVE  DOMAIN apis[i].examples.body \cap ValidStatuses
                        \subseteq DOMAIN apis'[i].examples.body
    OBVIOUS
  <2>1. CASE UNCHANGED <<apis, versions>>
    BY <2>1
  <2>2. ASSUME NEW v \in Writers, Writes(v) PROVE v = w
    BY <1>1, <2>2, WriterAlone DEF AtWork
  <2>3. CASE SaveManual(w)
    <3>1. /\ \A j \in Present(apis) \ {target[w]} : apis'[j].examples = apis[j].examples
          /\ target[w] \in Present(apis) => apis'[target[w]].examples = def[w].examples
      BY <1>1, <2>3, SaveManualAdds
    <3>2. Saving(w) /\ NoId \notin Present(apis)
      BY <1>1, RowAssumption DEF StoreInv, WorkIs, Present
    <3>3. CASE i = target[w]
      BY <3>1, <3>2, <3>3 DEF Saving
    <3>4. CASE i # target[w]
      BY <3>1, <3>4
    <3> QED BY <3>3, <3>4
  <2>4. CASE InsertVersion(w)
    BY <2>4 DEF InsertVersion
  <2>5. ~(OneRow(w) \/ CommitImport(w) \/ ReplaceAll(w))
    BY DEF OneRow, Enable, Change, Disable, Select, Delete, Missing, CommitImport, ReplaceAll,
           Working
  <2> QED BY <1>1, <2>1, <2>2, <2>3, <2>4, <2>5, StepsWrite DEF Writes
<1>2. SpecsInv /\ [ToolsNext]_allVars => [Kept]_vars
  BY <1>1 DEF SpecsInv
<1> QED BY <1>2, SpecsInvCorrect, PTL DEF ToolsSpec, NoLostExample

(* A saved version is the whole table at the moment it was saved, although *)
(* its rows and their examples are read one after the other (service.go:   *)
(* 210-227, 247-260).                                                      *)
THEOREM VersionsAreTables == ToolsSpec => VersionIsTable
<1> DEFINE Saved == Len(versions') > Len(versions) => versions'[Len(versions')] = apis
<1>1. ASSUME StoreInv, [ToolsNext]_allVars PROVE Saved
  <2>1. versions \in Seq(Table) /\ apis \in Table
    BY <1>1 DEF StoreInv, TablesFine, Fine, SoundTable
  <2>2. ASSUME versions' = versions PROVE Saved
    BY <2>1, <2>2
  <2>3. ASSUME NEW w \in Writers, Writes(w) PROVE Saved
    <3>1. CASE InsertVersion(w)
      <4>1. versions' = Append(versions, apis)
        BY <1>1, <3>1, InsertVersionKeeps
      <4> QED BY <2>1, <4>1
    <3>2. CASE SaveManual(w) \/ OneRow(w) \/ CommitImport(w) \/ ReplaceAll(w)
      <4>1. versions' = versions
        BY <3>2 DEF SaveManual, OneRow, Enable, Change, Disable, Select, Delete, Missing,
                    CommitImport, ReplaceAll
      <4> QED BY <2>2, <4>1
    <3> QED BY <2>3, <3>1, <3>2 DEF Writes
  <2> QED BY <1>1, <2>2, <2>3, StepsWrite
<1>2. SpecsInv /\ [ToolsNext]_allVars => [Saved]_vars
  BY <1>1 DEF SpecsInv
<1> QED BY <1>2, SpecsInvCorrect, PTL DEF ToolsSpec, VersionIsTable

(* Restoring a version gives back exactly what was saved (repository.go:   *)
(* 347-402).                                                               *)
THEOREM RestoresAreExact == ToolsSpec => RestoreIsExact
<1> DEFINE Exact ==
      \A w \in Writers : (Working(w, {"restore", "revert"}) /\ apis' # apis)
                           => apis' = versions[op[w].version]
<1>1. ASSUME StoreInv, [ToolsNext]_allVars PROVE Exact
  <2> SUFFICES ASSUME NEW w \in Writers, Working(w, {"restore", "revert"}), apis' # apis
               PROVE  apis' = versions[op[w].version]
    OBVIOUS
  <2>1. PICK v \in Writers : Writes(v)
    BY <1>1, StepsWrite
  <2>2. v = w
    BY <1>1, <2>1, WriterAlone DEF AtWork, Working
  <2>3. ~(SaveManual(w) \/ CommitImport(w) \/ InsertVersion(w))
    BY DEF SaveManual, CommitImport, InsertVersion, Working
  <2>4. ~OneRow(w)
    BY DEF OneRow, Enable, Change, Disable, Select, Delete, Missing, Working
  <2> QED BY <1>1, <2>1, <2>2, <2>3, <2>4, ReplaceAllKeeps DEF Writes
<1>2. SpecsInv /\ [ToolsNext]_allVars => [Exact]_vars
  BY <1>1 DEF SpecsInv
<1> QED BY <1>2, SpecsInvCorrect, PTL DEF ToolsSpec, RestoreIsExact

(* No update brings back a spec that was deleted while it was on its way:  *)
(* only restoring a version does, or an import that had begun (repository. *)
(* go:74-77).                                                              *)
THEOREM DeletedSpecsStayDeleted == ToolsSpec => DeletedStaysDeleted
<1> DEFINE Back ==
      \A i \in Ids : (i \in used /\ apis[i] = NoRow /\ apis'[i] # NoRow)
                       => era' # era \/ \E w \in Writers : pc[w] = "importing"
<1>1. ASSUME StoreInv, era \in Nat, [ToolsNext]_allVars PROVE Back
  <2> SUFFICES ASSUME NEW i \in Ids, i \in used, apis[i] = NoRow, apis'[i] # NoRow
               PROVE  era' # era \/ \E w \in Writers : pc[w] = "importing"
    OBVIOUS
  <2>1. PICK w \in Writers : Writes(w)
    BY <1>1, StepsWrite
  <2>2. i \in Present(apis') \ Present(apis)
    BY DEF Present
  <2>3. ~SaveManual(w)
    BY <1>1, <2>2, SaveManualAdds
  <2>4. ~OneRow(w)
    BY <1>1, <2>2, OneRowAdds
  <2>5. CASE CommitImport(w)
    BY <2>5 DEF CommitImport
  <2>6. ~InsertVersion(w)
    BY DEF InsertVersion
  <2> QED BY <1>1, <2>1, <2>3, <2>4, <2>5, <2>6 DEF Writes
<1>2. SpecsInv /\ [ToolsNext]_allVars => [Back]_allVars
  BY <1>1 DEF SpecsInv, ToolsInv, ToolsTyped
<1> QED BY <1>2, SpecsInvCorrect, PTL DEF ToolsSpec, DeletedStaysDeleted

=============================================================================
