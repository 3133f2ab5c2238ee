-------------------------- MODULE ProxyConfigStore --------------------------
(***************************************************************************)
(* The proxy configuration (features/config/proxyconfig): six rows of      *)
(* engine_config, one per field.  Every update, whichever endpoint or MCP  *)
(* tool it comes from, is UpdatePartial: under writeMu it reads all rows,  *)
(* merges the fields it was given, normalises, and writes all rows back    *)
(* one statement at a time, without a transaction; any statement may fail, *)
(* for instance because the client went away and its context is cancelled. *)
(* The rows of the running update are read by nobody else who writes.      *)
(*                                                                         *)
(* A definition headed "Mutated form" is a plausible bug that a check run  *)
(* puts in the place of the definition that follows it.                    *)
(***************************************************************************)
EXTENDS Naturals

CONSTANTS
  Writers,     \* requests that call UpdatePartial, concurrently
  Nobody,      \* no writer
  FieldCount,  \* number of fields, six; a field is its position in save
  Raw,         \* what a request may give for a field
  Values,      \* what is stored: normalised values
  Invalid,     \* the outcome of a value that save rejects
  NormalForm,  \* NormalForm[v]: v trimmed, truncated, numbered, or Invalid
  Meaning,     \* Meaning[v]: what v says, spelling and rule numbers aside
  Keep,        \* the request leaves this field alone (a nil pointer)
  Default,     \* what Get returns for a field that was never saved
  MaxUpdates   \* bound: MaxUpdates[w] updates by w

ASSUME FieldAssumption == FieldCount \in Nat \ {0}
ASSUME NormalAssumption ==
  /\ NormalForm \in [Raw \cup Values -> Values \cup {Invalid}]
  /\ Invalid \notin Values /\ Keep \notin Raw
ASSUME MeaningAssumption ==
  \A v \in Raw \cup Values : NormalForm[v] # Invalid => Meaning[NormalForm[v]] = Meaning[v]
ASSUME DefaultAssumption == Default \in Values
ASSUME UpdatesAssumption == MaxUpdates \in [Writers -> Nat]
ASSUME NobodyAssumption == Nobody \notin Writers

Fields == 1..FieldCount
Config == [Fields -> Values]

VARIABLES
  store,    \* the rows of engine_config
  writeMu,  \* the holder of the mutex, or Nobody
  pc,       \* where UpdatePartial is for w
  input,    \* input[w]: UpdateInput, Keep for nil
  merged,   \* merged[w]: the normalised configuration being saved
  pos,      \* pos[w]: the next field to write
  reply,    \* reply[w]: what the final Get returned
  owner,    \* history: the last update to start saving that was given f
  made      \* made[w]: number of updates w has begun

vars == <<store, writeMu, pc, input, merged, pos, reply, owner, made>>

TypeInv ==
  /\ store \in Config
  /\ writeMu \in Writers \cup {Nobody}
  /\ pc \in [Writers -> {"idle", "locking", "reading", "saving", "announcing"}]
  /\ input \in [Writers -> [Fields -> Raw \cup {Keep}]]
  /\ merged \in [Writers -> Config]
  /\ pos \in [Writers -> 1..FieldCount + 1]
  /\ reply \in [Writers -> Config]
  /\ owner \in [Fields -> Writers \cup {Nobody}]
  /\ made \in [Writers -> Nat]

Init ==
  /\ store = [f \in Fields |-> Default]
  /\ writeMu = Nobody
  /\ pc = [w \in Writers |-> "idle"]
  /\ input = [w \in Writers |-> [f \in Fields |-> Keep]]
  /\ merged = [w \in Writers |-> store]
  /\ pos = [w \in Writers |-> 1]
  /\ reply = [w \in Writers |-> store]
  /\ owner = [f \in Fields |-> Nobody]
  /\ made = [w \in Writers |-> 0]

Asked(w, f) == input[w][f] # Keep

(* current in UpdatePartial: the stored rows, with the fields that were    *)
(* given.                                                                  *)
Current(w) == [f \in Fields |-> IF Asked(w, f) THEN input[w][f] ELSE store[f]]

(* save looks at every field again, those it was not given too.            *)
Rejected(w) == \E f \in Fields : NormalForm[Current(w)[f]] = Invalid

(* What save writes.  A normal form may have another normal form: header   *)
(* rules are numbered by their place in the request, blank ones counted,   *)
(* and then again by their place in the row.                               *)
Merge(w) == [f \in Fields |-> NormalForm[Current(w)[f]]]

(* Return, with or without an error; the deferred Unlock.                  *)
Return(w, next) ==
  /\ writeMu' = Nobody
  /\ pc' = [pc EXCEPT ![w] = next]

-----------------------------------------------------------------------------

Submit(w) ==
  /\ pc[w] = "idle" /\ made[w] < MaxUpdates[w]
  /\ \E i \in [Fields -> Raw \cup {Keep}] : input' = [input EXCEPT ![w] = i]
  /\ pc' = [pc EXCEPT ![w] = "locking"]
  /\ made' = [made EXCEPT ![w] = @ + 1]
  /\ UNCHANGED <<store, writeMu, merged, pos, reply, owner>>

(* Mutated form: no mutual exclusion (RLock for Lock).                     *)
LockShared(w) ==
  /\ pc[w] = "locking"
  /\ writeMu' = w
  /\ pc' = [pc EXCEPT ![w] = "reading"]
  /\ UNCHANGED <<store, input, merged, pos, reply, owner, made>>

Lock(w) ==
  /\ pc[w] = "locking" /\ writeMu = Nobody
  /\ writeMu' = w
  /\ pc' = [pc EXCEPT ![w] = "reading"]
  /\ UNCHANGED <<store, input, merged, pos, reply, owner, made>>

(* Get succeeded and every field is valid: nothing has been written yet.   *)
BeginSave(w) ==
  /\ pc[w] = "reading" /\ ~Rejected(w)
  /\ merged' = [merged EXCEPT ![w] = Merge(w)]
  /\ pos' = [pos EXCEPT ![w] = 1]
  /\ owner' = [f \in Fields |-> IF Asked(w, f) THEN w ELSE owner[f]]
  /\ pc' = [pc EXCEPT ![w] = "saving"]
  /\ UNCHANGED <<store, writeMu, input, reply, made>>

(* Mutated form: an early return without Unlock.                           *)
RefuseLocked(w) ==
  /\ pc[w] = "reading"
  /\ pc' = [pc EXCEPT ![w] = "idle"]
  /\ UNCHANGED <<store, writeMu, input, merged, pos, reply, owner, made>>

(* Get failed, or a field did not pass validation.                         *)
Refuse(w) ==
  /\ pc[w] = "reading"
  /\ Return(w, "idle")
  /\ UNCHANGED <<store, input, merged, pos, reply, owner, made>>

WriteField(w) ==
  LET f == pos[w] IN
  /\ pc[w] = "saving" /\ f \in Fields
  /\ store' = [store EXCEPT ![f] = merged[w][f]]
  /\ pos' = [pos EXCEPT ![w] = @ + 1]
  /\ UNCHANGED <<writeMu, pc, input, merged, reply, owner, made>>

(* Mutated form: the error of a statement is ignored.                      *)
StatementSkipped(w) ==
  /\ pc[w] = "saving" /\ pos[w] \in Fields
  /\ pos' = [pos EXCEPT ![w] = @ + 1]
  /\ UNCHANGED <<store, writeMu, pc, input, merged, reply, owner, made>>

(* A statement failed: the fields before pos stay written.  After the last *)
(* field it is the final Get that failed: everything was saved, and the    *)
(* caller is told otherwise.                                               *)
StatementFails(w) ==
  /\ pc[w] = "saving"
  /\ Return(w, "idle")
  /\ UNCHANGED <<store, input, merged, pos, reply, owner, made>>

Reply(w) ==
  /\ pc[w] = "saving" /\ pos[w] = FieldCount + 1
  /\ reply' = [reply EXCEPT ![w] = store]
  /\ Return(w, "announcing")
  /\ UNCHANGED <<store, input, merged, pos, owner, made>>

(* The handler broadcasts mcp:changed, only after a success, and answers.  *)
Announce(w) ==
  /\ pc[w] = "announcing"
  /\ pc' = [pc EXCEPT ![w] = "idle"]
  /\ UNCHANGED <<store, writeMu, input, merged, pos, reply, owner, made>>

-----------------------------------------------------------------------------

Save(w) == WriteField(w) \/ StatementFails(w) \/ Reply(w)
Work(w) == BeginSave(w) \/ Refuse(w) \/ Save(w) \/ Announce(w)

Next == \E w \in Writers : Submit(w) \/ Lock(w) \/ Work(w)

Spec == Init /\ [][Next]_vars

(* A goroutine that can run does, a statement ends one way or the other,   *)
(* and sync.Mutex serves a goroutine that keeps waiting for it.            *)
Fairness == \A w \in Writers : WF_vars(Work(w)) /\ SF_vars(Lock(w))

-----------------------------------------------------------------------------
(* Properties.                                                             *)

(* An update never changes what a field says that it was not given,        *)
(* although it writes all of them back: no concurrent update is lost       *)
(* (service.go:157-184).                                                   *)
OnlyAsked ==
  [][\A f \in Fields : Meaning[store'[f]] # Meaning[store[f]] =>
       \E w \in Writers : pc[w] = "saving" /\ pos[w] = f /\ Asked(w, f)]_vars

(* The configuration in the answer is the one that was saved, whole: the   *)
(* final six reads run before the lock is released (service.go:246).       *)
AnswerIsSaved ==
  \A w \in Writers : pc[w] = "announcing" => reply[w] = merged[w]

(* When the change is announced, every field the update was given says so  *)
(* in the store, unless a later update was given that field too.           *)
AnnouncedIsStored ==
  \A w \in Writers, f \in Fields :
    (pc[w] = "announcing" /\ Asked(w, f) /\ owner[f] = w)
      => Meaning[store[f]] = Meaning[input[w][f]]

(* Every update ends, also when another one was refused or failed half way.*)
UpdatesEnd == \A w \in Writers : pc[w] = "locking" ~> pc[w] = "idle"

=============================================================================
