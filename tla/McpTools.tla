------------------------------ MODULE McpTools ------------------------------
(***************************************************************************)
(* The MCP tools that write API specs (features/config/mcp/rpc.go) on top  *)
(* of the store: update_api_mock_spec reads a spec without the mutex,      *)
(* merges the named fields into what it read and saves the whole spec;     *)
(* bulk_upsert_api_mock_specs saves its items one call of the store after  *)
(* the other.  Each tool announces its change once, after the last save.   *)
(* The same goroutines may serve dashboard requests (the store's Begin).   *)
(***************************************************************************)
EXTENDS ApiSpecStore

CONSTANTS
  Fields,   \* fields of a spec that an update may name
  Edits,    \* updates: the fields they name and the values for them
  Bulks,    \* bulk requests: sequences of definitions, one per route
  NoCall    \* no tool is running

VARIABLES
  call,       \* call[w]: the tool that w runs, or NoCall
  step,       \* step[w]: where callTool is
  existing,   \* existing[w]: the spec update_api_mock_spec has read
  todo,       \* todo[w]: items of a bulk request not yet handed to the store
  era,        \* history: number of times ReplaceAll gave all rows new internal ids
  readIn,     \* history: the era in which existing[w] was read
  kept,       \* history: the rows that the call of w has saved, in order
  announced   \* history: calls announced, with what they had saved

tools == <<call, step, existing, todo, readIn, kept>>
allVars == <<vars, tools, era, announced>>

Edit == [named : SUBSET Fields, value : Definition]
Call == [tool : {"update"}, id : Ids, edit : Edits] \cup [tool : {"bulk"}, items : Bulks]

ASSUME NoCallAssumption == NoCall \notin Call
ASSUME FieldsAssumption == Fields = {"route", "name", "mock", "proxy", "examples"}
ASSUME EditsAssumption == Edits \subseteq Edit
ASSUME BulksAssumption ==
  \A b \in Bulks : /\ b \in Seq(Definition) /\ b # <<>>
                   /\ \A i, j \in DOMAIN b : b[i].route = b[j].route => i = j

ToolsInit ==
  /\ Init
  /\ call = [w \in Writers |-> NoCall]
  /\ step = [w \in Writers |-> "none"]
  /\ existing = [w \in Writers |-> NoRow]
  /\ todo = [w \in Writers |-> <<>>]
  /\ era = 0
  /\ readIn = [w \in Writers |-> 0]
  /\ kept = [w \in Writers |-> <<>>]
  /\ announced = {}

-----------------------------------------------------------------------------

(* The definition that an item of a request is saved as: manualInput       *)
(* selects the first example.                                              *)
ManualInput(d) == [d EXCEPT !.want = d.examples.first]

(* mergeAPIUpdate, then manualInput.                                       *)
MergeUpdate(row, edit) ==
  LET Value(f) == IF f \in edit.named THEN edit.value[f] ELSE row[f] IN
  ManualInput([f \in Fields \cup {"want"} |->
                 IF f = "want" THEN row.sel ELSE Value(f)])

(* callTool returns, with a result or an error.                            *)
EndCall(w) ==
  /\ call' = [call EXCEPT ![w] = NoCall]
  /\ step' = [step EXCEPT ![w] = "none"]
  /\ existing' = [existing EXCEPT ![w] = NoRow]
  /\ todo' = [todo EXCEPT ![w] = <<>>]
  /\ readIn' = [readIn EXCEPT ![w] = 0]
  /\ kept' = [kept EXCEPT ![w] = <<>>]

(* The request is handed to the store.                                     *)
Hand(w, request) ==
  /\ op' = [op EXCEPT ![w] = request]
  /\ pc' = [pc EXCEPT ![w] = "locking"]
  /\ step' = [step EXCEPT ![w] = "storing"]

StartCall(w) ==
  /\ pc[w] = "idle" /\ call[w] = NoCall /\ made[w] < MaxRequests[w]
  /\ made' = [made EXCEPT ![w] = @ + 1]
  /\ \E c \in Call :
       /\ call' = [call EXCEPT ![w] = c]
       /\ step' = [step EXCEPT ![w] = IF c.tool = "update" THEN "reading" ELSE "storing"]
       /\ todo' = [todo EXCEPT ![w] = IF c.tool = "bulk" THEN c.items ELSE <<>>]
  /\ UNCHANGED <<apis, versions, writeMu, pc, locals, used, imported,
                 existing, readIn, kept, era, announced>>

(* mockAPI.Get: the row, and its examples by another statement.            *)
ReadRow(w) ==
  /\ step[w] = "reading" /\ apis[call[w].id] # NoRow
  /\ existing' = [existing EXCEPT ![w] = apis[call[w].id]]
  /\ readIn' = [readIn EXCEPT ![w] = era]
  /\ step' = [step EXCEPT ![w] = "examples"]
  /\ UNCHANGED <<vars, call, todo, kept, era, announced>>

NotFound(w) ==
  /\ step[w] = "reading" /\ apis[call[w].id] = NoRow
  /\ EndCall(w)
  /\ UNCHANGED <<vars, era, announced>>

(* The examples are looked up by the internal id, which is another one     *)
(* after ReplaceAll.                                                       *)
ReadExamples(w) ==
  LET row == existing[w]
      found == apis[call[w].id] # NoRow /\ readIn[w] = era
      examples == IF found THEN apis[call[w].id].examples ELSE OnlySelected(row)
  IN
  /\ step[w] = "examples"
  /\ Hand(w, [kind |-> "update", id |-> call[w].id,
              def |-> MergeUpdate([row EXCEPT !.examples = examples], call[w].edit)])
  /\ UNCHANGED <<apis, versions, writeMu, target, def, draft, rest, used, imported, made,
                 call, existing, todo, readIn, kept, era, announced>>

(* The next item of a bulk request: UpsertManual.                          *)
NextItem(w) ==
  /\ step[w] = "storing" /\ pc[w] = "idle" /\ todo[w] # <<>>
  /\ Hand(w, [kind |-> "upsert", def |-> ManualInput(Head(todo[w]))])
  /\ todo' = [todo EXCEPT ![w] = Tail(@)]
  /\ UNCHANGED <<apis, versions, writeMu, target, def, draft, rest, used, imported, made,
                 call, existing, readIn, kept, era, announced>>

(* A dashboard request.                                                    *)
Dashboard(w) ==
  /\ call[w] = NoCall
  /\ Begin(w)
  /\ UNCHANGED <<tools, era, announced>>

(* The store at work for w, and not yet done.                              *)
StoreStep(w) ==
  /\ Lock(w) \/ Work(w)
  /\ pc'[w] # "idle" \/ call[w] = NoCall
  /\ era' = IF ReplaceAll(w) THEN era + 1 ELSE era
  /\ UNCHANGED <<tools, announced>>

(* The store answers with the saved spec, as it is in its row.             *)
StoreSaved(w) ==
  /\ call[w] # NoCall
  /\ SaveManual(w) /\ (target[w] = NoId \/ target[w] \in Present(apis))
  /\ \E i \in IF target[w] = NoId THEN used' \ used ELSE {target[w]} :
       kept' = [kept EXCEPT ![w] = Append(@, apis'[i])]
  /\ step' = [step EXCEPT ![w] = IF todo[w] = <<>> THEN "announcing" ELSE "storing"]
  /\ UNCHANGED <<call, existing, todo, readIn, era, announced>>

(* Mutated form: an item that fails is skipped.                            *)
StoreErrorSkipped(w) ==
  /\ call[w] # NoCall
  /\ Fail(w)
  /\ step' = [step EXCEPT ![w] = IF todo[w] = <<>> THEN "announcing" ELSE "storing"]
  /\ UNCHANGED <<call, existing, todo, readIn, kept, era, announced>>

(* The store answers with an error: the tool stops where it is.            *)
StoreError(w) ==
  /\ call[w] # NoCall
  /\ Fail(w)
  /\ EndCall(w)
  /\ UNCHANGED <<era, announced>>

(* The store finds that the spec has been deleted: "API not found".        *)
StoreNothing(w) ==
  /\ call[w] # NoCall
  /\ SaveManual(w) /\ target[w] \in Ids \ Present(apis)
  /\ EndCall(w)
  /\ UNCHANGED <<era, announced>>

(* emitChanged, and the result.                                            *)
Announce(w) ==
  /\ step[w] = "announcing"
  /\ announced' = announced \cup {[call |-> call[w], kept |-> kept[w]]}
  /\ EndCall(w)
  /\ UNCHANGED <<vars, era>>

ToolsRestart ==
  /\ Restart
  /\ call' = [w \in Writers |-> NoCall]
  /\ step' = [w \in Writers |-> "none"]
  /\ existing' = [w \in Writers |-> NoRow]
  /\ todo' = [w \in Writers |-> <<>>]
  /\ readIn' = [w \in Writers |-> 0]
  /\ kept' = [w \in Writers |-> <<>>]
  /\ UNCHANGED <<era, announced>>

Tool(w) ==
  \/ StartCall(w) \/ ReadRow(w) \/ NotFound(w) \/ ReadExamples(w)
  \/ NextItem(w) \/ Announce(w)

ToolsNext ==
  \/ ToolsRestart
  \/ \E w \in Writers :
       \/ Tool(w) \/ Dashboard(w)
       \/ StoreStep(w) \/ StoreSaved(w) \/ StoreError(w) \/ StoreNothing(w)

ToolsSpec == ToolsInit /\ [][ToolsNext]_allVars

-----------------------------------------------------------------------------
(* Properties.                                                             *)

(* A spec that was deleted while an update was on its way is not brought   *)
(* back by the update: only restoring a version does that                  *)
(* (repository.go:74-77).                                                  *)
DeletedStaysDeleted ==
  [][\A i \in Ids : (i \in used /\ apis[i] = NoRow /\ apis'[i] # NoRow)
       => era' # era \/ \E w \in Writers : pc[w] = "importing"]_allVars

(* A row holds what was asked for, but that a mock is no proxy.            *)
AsAsked(row, fields, asked) ==
  /\ \A f \in fields \ {"proxy"} : row[f] = asked[f]
  /\ "proxy" \in fields => row.proxy = (asked.proxy /\ ~row.mock)

(* What is announced has been done: a bulk request has written a row for   *)
(* each of its items, in their order, that answers with the first example  *)
(* of the item; an update has written its one row.  Every field that the   *)
(* caller named is in the row as asked; a proxy asked for is only lost in  *)
(* a row that is a mock (rpc.go:403-422, 441-450, repository.go:197-210).  *)
AnnouncedIsDone ==
  \A a \in announced :
    IF a.call.tool = "bulk"
    THEN /\ Len(a.kept) = Len(a.call.items)
         /\ \A k \in DOMAIN a.call.items :
              /\ AsAsked(a.kept[k], Fields, a.call.items[k])
              /\ a.kept[k].sel = a.call.items[k].examples.first
    ELSE /\ Len(a.kept) = 1
         /\ AsAsked(a.kept[1], a.call.edit.named, a.call.edit.value)

(* The mutex is held by a goroutine that is at work in the store, and by   *)
(* no other: no request, however it ended - in the middle of a             *)
(* transaction, on a missing row, half-way through the items of a bulk     *)
(* call, by a restart - leaves it locked for all who come later, and no    *)
(* tool holds it while it reads (service.go:271-372, rpc.go:403-443).      *)
MutexReleased ==
  \A w \in Writers :
    /\ writeMu = w <=> pc[w] \notin {"idle", "locking"}
    /\ writeMu = w => call[w] = NoCall \/ step[w] = "storing"

(* "Update fields on an existing API mock spec by ID." (tools.go:124): the *)
(* fields that the update does not name stay as they are, the selected     *)
(* response among them.                                                    *)
OtherFieldsStay ==
  [][\A w \in Writers :
       (pc[w] = "saving" /\ call[w] # NoCall /\ call[w].tool = "update" /\ apis' # apis
          /\ "examples" \notin call[w].edit.named)
         => apis'[call[w].id].sel = apis[call[w].id].sel]_allVars

=============================================================================
