---------------------------- MODULE ApiSpecStore ----------------------------
(***************************************************************************)
(* The API mock specifications (features/api-specs): the tables api_mocks, *)
(* api_mock_responses and api_mock_versions, and the operations of Service *)
(* that write them.  Every writer holds writeMu from its first read to its *)
(* last write; what it writes is one transaction or one statement, which   *)
(* may fail, and the process may be restarted between any two of them.     *)
(*                                                                         *)
(* A row of api_mocks is kept together with its response examples: a map   *)
(* from status to body, and the example that is first in sort order.  The  *)
(* selected response is stored twice, in the row (sel, answer) and as one  *)
(* of the examples.  "name" stands for the descriptive columns.            *)
(*                                                                         *)
(* A definition headed "Mutated form" is a plausible bug that a check run  *)
(* puts in the place of the definition that follows it.                    *)
(***************************************************************************)
EXTENDS Naturals, Sequences

CONSTANTS
  Writers,      \* requests that are in the service at the same time
  Nobody,       \* no writer
  Ids,          \* public ids; a uuid is never generated twice
  NoId,         \* no id
  NoRow,        \* the id is not in the table
  Routes,       \* method and route path
  Names,        \* descriptive columns
  Statuses,     \* response statuses, 100 to 599
  ValidStatuses, \* the registered ones: what validHTTPStatus accepts
  Bodies,       \* response bodies
  Definitions,  \* what the requests carry, after parsing
  Tables,       \* tables the process may find when it starts
  MaxRequests   \* bound: MaxRequests[w] requests by w

VARIABLES
  apis,      \* the rows by public id, with their examples
  versions,  \* api_mock_versions, oldest first: the saved snapshots
  writeMu,   \* the holder of the mutex, or Nobody
  pc,        \* where the operation of w is
  op,        \* op[w]: the request
  target,    \* target[w]: the row SaveManual updates, or NoId
  def,       \* def[w]: the definition SaveManual saves
  draft,     \* draft[w]: rows of an open transaction, or being read
  rest,      \* rest[w]: definitions an import has not upserted yet
  used,      \* history: ids ever generated
  imported,  \* history: routes an import has enabled
  made       \* made[w]: number of requests begun

locals == <<op, target, def, draft, rest>>
vars == <<apis, versions, writeMu, pc, locals, used, imported, made>>

Examples ==
  UNION {[first : S, body : [S -> Bodies]] : S \in SUBSET Statuses}

Row ==
  [route : Routes, name : Names, mock : BOOLEAN, proxy : BOOLEAN,
   examples : Examples, sel : Statuses, answer : Bodies]

(* want is the response status that the request asks to select.            *)
Definition ==
  [route : Routes, name : Names, mock : BOOLEAN, proxy : BOOLEAN,
   examples : Examples, want : Statuses]

Table == [Ids -> Row \cup {NoRow}]
Present(t) == {i \in Ids : t[i] # NoRow}
OnRoute(t, r) == {i \in Present(t) : t[i].route = r}
Active(row) == row.mock \/ row.proxy

(* The selected response is one of the examples.                           *)
Sound(row) ==
  /\ row.sel \in DOMAIN row.examples.body
  /\ row.answer = row.examples.body[row.sel]

OneActiveOn(t, r) ==
  /\ \A i, j \in OnRoute(t, r) : Active(t[i]) /\ Active(t[j]) => i = j
  /\ \A i \in OnRoute(t, r) : ~(t[i].mock /\ t[i].proxy)

ASSUME NobodyAssumption == Nobody \notin Writers
ASSUME RowAssumption == NoRow \notin Row /\ NoId \notin Ids
ASSUME ValidAssumption == ValidStatuses \subseteq Statuses
ASSUME DefinitionsAssumption == Definitions \subseteq Definition
ASSUME TablesAssumption ==
  \A t \in Tables : /\ t \in Table
                    /\ \A i \in Present(t) : Sound(t[i])
                    /\ \A r \in Routes : OneActiveOn(t, r)
ASSUME RequestsAssumption == MaxRequests \in [Writers -> Nat]

(* The requests that carry one of defs, when n versions can be named.      *)
Request(defs, n) ==
  [kind : {"create", "upsert"}, def : defs]
    \cup [kind : {"update"}, id : Ids, def : defs]
    \cup [kind : {"mock", "proxy"}, id : Ids, on : BOOLEAN]
    \cup [kind : {"select"}, id : Ids, status : Statuses]
    \cup [kind : {"delete"}, id : Ids]
    \cup [kind : {"import"}, defs : {<<d>> : d \in Definitions} \cup (Definitions \X Definitions)]
    \cup [kind : {"version"}]
    \cup [kind : {"restore", "revert"}, version : 1..n]

NoRequest == [kind |-> "none"]
NoTable == [i \in Ids |-> NoRow]

Init ==
  /\ apis \in Tables
  /\ versions = <<>>
  /\ writeMu = Nobody
  /\ pc = [w \in Writers |-> "idle"]
  /\ op = [w \in Writers |-> NoRequest]
  /\ target = [w \in Writers |-> NoId]
  /\ def = [w \in Writers |-> NoRequest]
  /\ draft = [w \in Writers |-> NoTable]
  /\ rest = [w \in Writers |-> <<>>]
  /\ used = Present(apis)
  /\ imported = {}
  /\ made = [w \in Writers |-> 0]

-----------------------------------------------------------------------------
(* What is written.                                                        *)

(* The example asked for, or else the first one.                           *)
Choice(examples, status) ==
  IF status \in DOMAIN examples.body THEN status ELSE examples.first

RowOf(d, mock, proxy, status) ==
  [route |-> d.route, name |-> d.name, mock |-> mock, proxy |-> proxy,
   examples |-> d.examples, sel |-> status, answer |-> d.examples.body[status]]

(* A row saved with both flags set is a mock.                              *)
Manual(d) == RowOf(d, d.mock, d.proxy /\ ~d.mock, Choice(d.examples, d.want))

(* An import enables the row both as a mock and as a proxy, and keeps the  *)
(* selected status if there is still an example for it.                    *)
Imported(d, row) ==
  RowOf(d, TRUE, TRUE,
        IF row = NoRow THEN d.examples.first ELSE Choice(d.examples, row.sel))

(* Mutated form: the incoming examples replace the existing ones.          *)
MergedReplaces(existing, incoming) == {incoming}

(* mergeResponseExamples: an incoming example replaces the one with its    *)
(* status and the others stay, but for those with a status that no         *)
(* registry knows: an import may have brought them.  If the first of the   *)
(* existing examples goes, another one is the first.                       *)
Merged(existing, incoming) ==
  LET kept == DOMAIN existing.body \cap ValidStatuses
      firsts == IF existing.first \in kept THEN {existing.first}
                ELSE IF kept # {} THEN kept ELSE {incoming.first}
      body == [s \in kept \cup DOMAIN incoming.body |->
                 IF s \in DOMAIN incoming.body THEN incoming.body[s] ELSE existing.body[s]]
  IN {[first |-> f, body |-> body] : f \in firsts}

(* Mutated form: the row comes back with its first response.               *)
ReplacedFirst(row) ==
  [row EXCEPT !.sel = row.examples.first, !.answer = row.examples.body[row.examples.first]]

(* selectedRecordResponse of a snapshot.                                   *)
Replaced(row) ==
  LET s == Choice(row.examples, row.sel) IN
  [row EXCEPT !.sel = s, !.answer = row.examples.body[s]]

(* Mutated form: the other rows of the route stay as they are.             *)
PutOnly(t, i, row) == [t EXCEPT ![i] = row]

(* The row goes in; if it is active, the other rows of its route are not.  *)
Put(t, i, row) ==
  [j \in Ids |->
     IF j = i THEN row
     ELSE IF j \in OnRoute(t, row.route) /\ Active(row)
          THEN [t[j] EXCEPT !.mock = FALSE, !.proxy = FALSE]
          ELSE t[j]]

-----------------------------------------------------------------------------
(* Requests and the mutex.                                                 *)

Begin(w) ==
  /\ pc[w] = "idle" /\ made[w] < MaxRequests[w]
  /\ \E r \in Request(Definitions, Len(versions) + 1) : op' = [op EXCEPT ![w] = r]
  /\ pc' = [pc EXCEPT ![w] = "locking"]
  /\ made' = [made EXCEPT ![w] = @ + 1]
  /\ UNCHANGED <<apis, versions, writeMu, target, def, draft, rest, used, imported>>

(* Mutated form: no mutual exclusion.                                      *)
LockShared(w) ==
  /\ pc[w] = "locking"
  /\ writeMu' = w
  /\ pc' = [pc EXCEPT ![w] = "working"]
  /\ UNCHANGED <<apis, versions, locals, used, imported, made>>

Lock(w) ==
  /\ pc[w] = "locking" /\ writeMu = Nobody
  /\ writeMu' = w
  /\ pc' = [pc EXCEPT ![w] = "working"]
  /\ UNCHANGED <<apis, versions, locals, used, imported, made>>

(* Return with the deferred Unlock; the operation's variables are gone.    *)
Return(w) ==
  /\ writeMu' = Nobody
  /\ pc' = [pc EXCEPT ![w] = "idle"]
  /\ op' = [op EXCEPT ![w] = NoRequest]
  /\ target' = [target EXCEPT ![w] = NoId]
  /\ def' = [def EXCEPT ![w] = NoRequest]
  /\ draft' = [draft EXCEPT ![w] = NoTable]
  /\ rest' = [rest EXCEPT ![w] = <<>>]

GoTo(w, place) ==
  /\ pc' = [pc EXCEPT ![w] = place]
  /\ UNCHANGED writeMu

Working(w, kinds) == pc[w] = "working" /\ op[w].kind \in kinds

(* Mutated form: an early return without Unlock.                           *)
FailLocked(w) ==
  /\ pc[w] \notin {"idle", "locking"}
  /\ pc' = [pc EXCEPT ![w] = "idle"]
  /\ UNCHANGED <<apis, versions, writeMu, locals, used, imported, made>>

(* A read, a statement or a commit fails; an open transaction is rolled    *)
(* back.                                                                   *)
Fail(w) ==
  /\ pc[w] \notin {"idle", "locking"}
  /\ Return(w)
  /\ UNCHANGED <<apis, versions, used, imported, made>>

(* The process ends and is started again: what was committed stays.        *)
Restart ==
  /\ \E w \in Writers : pc[w] # "idle"
  /\ writeMu' = Nobody
  /\ pc' = [w \in Writers |-> "idle"]
  /\ op' = [w \in Writers |-> NoRequest]
  /\ target' = [w \in Writers |-> NoId]
  /\ def' = [w \in Writers |-> NoRequest]
  /\ draft' = [w \in Writers |-> NoTable]
  /\ rest' = [w \in Writers |-> <<>>]
  /\ UNCHANGED <<apis, versions, used, imported, made>>

-----------------------------------------------------------------------------
(* CreateManual, UpsertManual and UpdateManual: find the row, which may be *)
(* any of those on the route, then save in one transaction.                *)

(* normalizeManualSpec refuses any other definition, and the request fails.*)
Normal(d) == DOMAIN d.examples.body \subseteq ValidStatuses

FindTarget(w) ==
  LET d == op[w].def IN
  /\ Working(w, {"create", "upsert"}) /\ Normal(d)
  /\ \/ /\ OnRoute(apis, d.route) = {}
        /\ target' = [target EXCEPT ![w] = NoId]
        /\ def' = [def EXCEPT ![w] = d]
     \/ \E i \in OnRoute(apis, d.route) :
        /\ target' = [target EXCEPT ![w] = i]
        /\ IF op[w].kind = "upsert" THEN def' = [def EXCEPT ![w] = d]
           ELSE \E merged \in Merged(apis[i].examples, d.examples) :
                  def' = [def EXCEPT ![w] =
                            [d EXCEPT !.want = Choice(d.examples, d.want), !.examples = merged]]
  /\ GoTo(w, "saving")
  /\ UNCHANGED <<apis, versions, op, draft, rest, used, imported, made>>

TakeId(w) ==
  /\ Working(w, {"update"}) /\ Normal(op[w].def)
  /\ target' = [target EXCEPT ![w] = op[w].id]
  /\ def' = [def EXCEPT ![w] = op[w].def]
  /\ GoTo(w, "saving")
  /\ UNCHANGED <<apis, versions, op, draft, rest, used, imported, made>>

(* Mutated form: a row that is gone is inserted again.                     *)
SaveManualRevives(w) ==
  /\ pc[w] = "saving"
  /\ \E i \in IF target[w] = NoId THEN Ids \ used ELSE {target[w]} \cap used :
       /\ apis' = Put(apis, i, Manual(def[w]))
       /\ used' = used \cup {i}
  /\ Return(w)
  /\ UNCHANGED <<versions, imported, made>>

(* SaveManual.  A row that was deleted meanwhile is not created again.     *)
SaveManual(w) ==
  /\ pc[w] = "saving"
  /\ \/ /\ target[w] = NoId
        /\ \E i \in Ids \ used :
             /\ apis' = Put(apis, i, Manual(def[w]))
             /\ used' = used \cup {i}
     \/ /\ target[w] \in Present(apis)
        /\ apis' = Put(apis, target[w], Manual(def[w]))
        /\ UNCHANGED used
     \/ /\ target[w] \in Ids \ Present(apis)
        /\ UNCHANGED <<apis, used>>
  /\ Return(w)
  /\ UNCHANGED <<versions, imported, made>>

-----------------------------------------------------------------------------
(* The operations on one row.                                              *)

Change(w, kinds, row) ==
  /\ Working(w, kinds) /\ op[w].id \in Present(apis)
  /\ apis' = Put(apis, op[w].id, row)
  /\ Return(w)
  /\ UNCHANGED <<versions, used, imported, made>>

(* updateBoolean: enabling one way of answering disables the other one.    *)
Enable(w) ==
  /\ op[w].kind \in {"mock", "proxy"} /\ op[w].on
  /\ Change(w, {"mock", "proxy"},
            [apis[op[w].id] EXCEPT !.mock = (op[w].kind = "mock"),
                                   !.proxy = (op[w].kind = "proxy")])

Disable(w) ==
  /\ Working(w, {"mock", "proxy"}) /\ ~op[w].on /\ op[w].id \in Present(apis)
  /\ apis' = [apis EXCEPT ![op[w].id] =
                IF op[w].kind = "mock" THEN [@ EXCEPT !.mock = FALSE]
                                       ELSE [@ EXCEPT !.proxy = FALSE]]
  /\ Return(w)
  /\ UNCHANGED <<versions, used, imported, made>>

(* Mutated form: the status is selected whether or not there is an example.*)
SelectAny(w) ==
  /\ Working(w, {"select"}) /\ op[w].id \in Present(apis)
  /\ apis' = [apis EXCEPT ![op[w].id].sel = op[w].status]
  /\ Return(w)
  /\ UNCHANGED <<versions, used, imported, made>>

(* SetSelectedResponse: three statements, between which no writer runs.    *)
Select(w) ==
  LET body == apis[op[w].id].examples.body IN
  /\ Working(w, {"select"}) /\ op[w].id \in Present(apis)
  /\ op[w].status \in DOMAIN body
  /\ apis' = [apis EXCEPT ![op[w].id].sel = op[w].status,
                          ![op[w].id].answer = body[op[w].status]]
  /\ Return(w)
  /\ UNCHANGED <<versions, used, imported, made>>

Delete(w) ==
  /\ Working(w, {"delete"}) /\ op[w].id \in Present(apis)
  /\ apis' = [apis EXCEPT ![op[w].id] = NoRow]
  /\ Return(w)
  /\ UNCHANGED <<versions, used, imported, made>>

(* No such row, no such example, no such version: nothing is written.      *)
Missing(w) ==
  /\ \/ Working(w, {"mock", "proxy", "select", "delete"}) /\ op[w].id \notin Present(apis)
     \/ /\ Working(w, {"select"}) /\ op[w].id \in Present(apis)
        /\ op[w].status \notin DOMAIN apis[op[w].id].examples.body
     \/ Working(w, {"restore", "revert"}) /\ op[w].version \notin 1..Len(versions)
  /\ Return(w)
  /\ UNCHANGED <<apis, versions, used, imported, made>>

-----------------------------------------------------------------------------
(* ImportCollection and ImportSwagger: all definitions in one transaction. *)

StartImport(w) ==
  /\ Working(w, {"import"})
  /\ draft' = [draft EXCEPT ![w] = apis]
  /\ rest' = [rest EXCEPT ![w] = op[w].defs]
  /\ GoTo(w, "importing")
  /\ UNCHANGED <<apis, versions, op, target, def, used, imported, made>>

(* upsertDefinition: it does not look at the other rows of the route.      *)
UpsertDefinition(w) ==
  LET d == Head(rest[w])
      rows == OnRoute(draft[w], d.route)
  IN
  /\ pc[w] = "importing" /\ rest[w] # <<>>
  /\ \E i \in IF rows = {} THEN Ids \ used ELSE rows :
       /\ draft' = [draft EXCEPT ![w][i] = Imported(d, draft[w][i])]
       /\ used' = used \cup {i}
  /\ rest' = [rest EXCEPT ![w] = Tail(@)]
  /\ GoTo(w, "importing")
  /\ UNCHANGED <<apis, versions, op, target, def, imported, made>>

CommitImport(w) ==
  /\ pc[w] = "importing" /\ rest[w] = <<>>
  /\ apis' = draft[w]
  /\ imported' = imported \cup {op[w].defs[k].route : k \in DOMAIN op[w].defs}
  /\ Return(w)
  /\ UNCHANGED <<versions, used, made>>

-----------------------------------------------------------------------------
(* Versions.  CreateVersion lists the rows and then reads the examples of  *)
(* each of them.                                                           *)

ListRows(w) ==
  /\ Working(w, {"version"})
  /\ draft' = [draft EXCEPT ![w] = apis]
  /\ GoTo(w, "listed")
  /\ UNCHANGED <<apis, versions, op, target, def, rest, used, imported, made>>

(* A row without examples gets the selected response as its only one.      *)
OnlySelected(row) == [first |-> row.sel, body |-> [s \in {row.sel} |-> row.answer]]

(* Mutated form: the examples of a row are not read.                       *)
AttachSelected(w) ==
  /\ pc[w] = "listed"
  /\ draft' = [draft EXCEPT ![w] =
       [i \in Ids |-> LET row == draft[w][i] IN
          IF row = NoRow THEN NoRow ELSE [row EXCEPT !.examples = OnlySelected(row)]]]
  /\ GoTo(w, "attached")
  /\ UNCHANGED <<apis, versions, op, target, def, rest, used, imported, made>>

(* toRecordWithEnv of every listed row.                                    *)
AttachExamples(w) ==
  /\ pc[w] = "listed"
  /\ draft' = [draft EXCEPT ![w] =
       [i \in Ids |-> LET row == draft[w][i] IN
          IF row = NoRow THEN NoRow
          ELSE [row EXCEPT !.examples = IF apis[i] = NoRow THEN OnlySelected(row)
                                                          ELSE apis[i].examples]]]
  /\ GoTo(w, "attached")
  /\ UNCHANGED <<apis, versions, op, target, def, rest, used, imported, made>>

InsertVersion(w) ==
  /\ \/ pc[w] = "attached" /\ versions' = Append(versions, draft[w])
     \/ pc[w] = "recording" /\ versions' = Append(versions, versions[op[w].version])
  /\ Return(w)
  /\ UNCHANGED <<apis, used, imported, made>>

(* RestoreVersion, and the first transaction of RevertVersion.             *)
ReplaceAll(w) ==
  /\ Working(w, {"restore", "revert"}) /\ op[w].version \in 1..Len(versions)
  /\ apis' = [i \in Ids |-> LET row == versions[op[w].version][i] IN
                            IF row = NoRow THEN NoRow ELSE Replaced(row)]
  /\ \/ op[w].kind = "restore" /\ Return(w)
     \/ op[w].kind = "revert" /\ GoTo(w, "recording") /\ UNCHANGED locals
  /\ UNCHANGED <<versions, used, imported, made>>

-----------------------------------------------------------------------------

Manually(w) == FindTarget(w) \/ TakeId(w) \/ SaveManual(w)
OneRow(w) == Enable(w) \/ Disable(w) \/ Select(w) \/ Delete(w) \/ Missing(w)
Import(w) == StartImport(w) \/ UpsertDefinition(w) \/ CommitImport(w)
Version(w) == ListRows(w) \/ AttachExamples(w) \/ InsertVersion(w) \/ ReplaceAll(w)

Work(w) == Manually(w) \/ OneRow(w) \/ Import(w) \/ Version(w) \/ Fail(w)

Next == Restart \/ \E w \in Writers : Begin(w) \/ Lock(w) \/ Work(w)

Spec == Init /\ [][Next]_vars

-----------------------------------------------------------------------------
(* Properties.                                                             *)

(* The response that a mock answers with is one of its examples, in the    *)
(* table and in every saved version: manual edits, imports that keep the   *)
(* selected status and restored snapshots all write it twice               *)
(* (repository.go:46-52, 126-141, 517-542, 706-716).                       *)
SelectedIsExample ==
  /\ \A i \in Present(apis) : Sound(apis[i])
  /\ \A k \in 1..Len(versions) : \A i \in Present(versions[k]) : Sound(versions[k][i])

(* A route that no import has touched is answered by one row at most, in   *)
(* one way, although several rows may have the route (repository.go:       *)
(* 197-210, 488-502).                                                      *)
OneActive == \A r \in Routes \ imported : OneActiveOn(apis, r)

(* A row is only added to a route that has none: two requests that create  *)
(* the same route end up in one row (service.go:279, 300, repository.go:   *)
(* 130).                                                                   *)
NoSecondRow ==
  [][\A i \in Present(apis') \ Present(apis) :
       \/ \E w \in Writers : Working(w, {"restore", "revert"})
       \/ \A j \in Present(apis) : apis[j].route # apis'[i].route]_vars

(* Creating a spec for a route that exists loses no response example that  *)
(* was there before, whatever imports, restores and other writers have put *)
(* there, except one with a status that only an import accepts             *)
(* (service.go:374-409).                                                   *)
NoLostExample ==
  [][\A w \in Writers, i \in Ids :
       (pc[w] = "saving" /\ pc'[w] # "saving" /\ op[w].kind = "create"
          /\ i \in Present(apis))
         => DOMAIN apis[i].examples.body \cap ValidStatuses
              \subseteq DOMAIN apis'[i].examples.body]_vars

(* A saved version is the table at the moment it was saved, although its   *)
(* rows and their examples are read one after the other; the version that  *)
(* a revert adds is the table it has restored (service.go:210-227, 247-260)*)
VersionIsTable ==
  [][Len(versions') > Len(versions) => versions'[Len(versions')] = apis]_vars

(* Restoring a version gives back exactly what was saved: ids, flags,      *)
(* examples and the selected response (repository.go:347-402).             *)
RestoreIsExact ==
  [][\A w \in Writers :
       (Working(w, {"restore", "revert"}) /\ apis' # apis)
         => apis' = versions[op[w].version]]_vars

=============================================================================
