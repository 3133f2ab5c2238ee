------------------------- MODULE ProxyConfigProofs -------------------------
(***************************************************************************)
(* Proofs about ProxyConfigStore for any writers, any number of fields and *)
(* any values, and about ConfigGate for any readers, order of checks and   *)
(* requests.                                                               *)
(*                                                                         *)
(* Only the holder of writeMu reads or writes the rows, so what an update  *)
(* merged at its start still describes the fields it was not given.  What  *)
(* the fields say is compared up to Meaning: a row that an update rewrites *)
(* without having been given it may take another spelling.                 *)
(*                                                                         *)
(* A reader does not touch the rows, so the store behaves as if it were    *)
(* alone (GateImplementsStore) and its invariant holds in the gate.  From  *)
(* it follows that a row always says what "said" allows: only an update    *)
(* that saves changes it, to what it was given, and "said" has held that   *)
(* since the update began to save.                                         *)
(***************************************************************************)
EXTENDS ConfigGate, SequenceTheorems, TLAPS

Exclusive ==
  \A w \in Writers : pc[w] \in {"reading", "saving"} <=> writeMu = w

MergedCurrent ==
  \A w \in Writers : pc[w] = "saving" =>
    \A f \in Fields :
      /\ Asked(w, f) => Meaning[merged[w][f]] = Meaning[input[w][f]] /\ owner[f] = w
      /\ ~Asked(w, f) => Meaning[store[f]] = Meaning[merged[w][f]]
      /\ f < pos[w] => store[f] = merged[w][f]

ConfigInv == TypeInv /\ Exclusive /\ MergedCurrent /\ AnswerIsSaved /\ AnnouncedIsStored

USE FieldAssumption, NormalAssumption, MeaningAssumption, DefaultAssumption, UpdatesAssumption, NobodyAssumption
    DEF Fields, Config

-----------------------------------------------------------------------------

LEMMA MergeIsConfig ==
  ASSUME TypeInv, NEW w \in Writers, ~Rejected(w)
  PROVE  /\ Merge(w) \in Config
         /\ \A f \in Fields :
              /\ Asked(w, f) => Meaning[Merge(w)[f]] = Meaning[input[w][f]]
              /\ ~Asked(w, f) => Meaning[Merge(w)[f]] = Meaning[store[f]]
<1>1. ASSUME NEW f \in Fields
      PROVE  /\ Current(w)[f] \in Raw \cup Values
             /\ Merge(w)[f] = NormalForm[Current(w)[f]]
             /\ NormalForm[Current(w)[f]] # Invalid
  <2>1. Current(w)[f] \in Raw \cup Values
    <3>1. CASE Asked(w, f)
      BY <3>1 DEF Current, Asked, TypeInv
    <3>2. CASE ~Asked(w, f)
      BY <3>2 DEF Current, TypeInv
    <3>3. QED
      BY <3>1, <3>2
  <2>2. NormalForm[Current(w)[f]] # Invalid
    BY DEF Rejected
  <2>3. QED
    BY <2>1, <2>2 DEF Merge
<1>2. ASSUME NEW f \in Fields
      PROVE  Merge(w)[f] \in Values /\ Meaning[Merge(w)[f]] = Meaning[Current(w)[f]]
  BY <1>1
<1>3. Merge(w) \in Config
  BY <1>2 DEF Merge
<1>4. QED
  BY <1>2, <1>3 DEF Current

(* Every step keeps the variables in their types.                          *)
THEOREM TypeCorrect == Spec => []TypeInv
<1>1. Init => TypeInv
  BY DEF Init, TypeInv
<1>2. TypeInv /\ [Next]_vars => TypeInv'
  <2> SUFFICES ASSUME TypeInv, [Next]_vars PROVE TypeInv'
    OBVIOUS
  <2>1. ASSUME NEW w \in Writers, Submit(w) PROVE TypeInv'
    BY <2>1 DEF TypeInv, Submit
  <2>2. ASSUME NEW w \in Writers, Lock(w) PROVE TypeInv'
    BY <2>2 DEF TypeInv, Lock
  <2>3. ASSUME NEW w \in Writers, BeginSave(w) PROVE TypeInv'
    <3>1. merged' \in [Writers -> Config]
      BY <2>3, MergeIsConfig DEF TypeInv, BeginSave
    <3>2. QED
      BY <2>3, <3>1 DEF TypeInv, BeginSave
  <2>4. ASSUME NEW w \in Writers, Refuse(w) \/ StatementFails(w) PROVE TypeInv'
    BY <2>4 DEF TypeInv, Refuse, StatementFails, Return
  <2>5. ASSUME NEW w \in Writers, WriteField(w) PROVE TypeInv'
    <3>1. merged[w][pos[w]] \in Values
      BY <2>5 DEF TypeInv, WriteField
    <3>2. QED
      BY <2>5, <3>1 DEF TypeInv, WriteField
  <2>6. ASSUME NEW w \in Writers, Reply(w) PROVE TypeInv'
    BY <2>6 DEF TypeInv, Reply, Return
  <2>7. ASSUME NEW w \in Writers, Announce(w) PROVE TypeInv'
    BY <2>7 DEF TypeInv, Announce
  <2>8. CASE UNCHANGED vars
    BY <2>8 DEF TypeInv, vars
  <2>9. QED
    BY <2>1, <2>2, <2>3, <2>4, <2>5, <2>6, <2>7, <2>8 DEF Next, Work, Save
<1>3. QED
  BY <1>1, <1>2, PTL DEF Spec

LEMMA InvStep == ConfigInv /\ TypeInv' /\ [Next]_vars => ConfigInv'
<1> SUFFICES ASSUME ConfigInv, TypeInv', [Next]_vars PROVE ConfigInv'
  OBVIOUS
<1> USE DEF Asked
<1>0. TypeInv
  BY DEF ConfigInv
<1>1. ASSUME NEW w \in Writers, Submit(w) PROVE ConfigInv'
  <2>1. \A u \in Writers \ {w} : pc'[u] = pc[u] /\ input'[u] = input[u]
    BY <1>0, <1>1 DEF TypeInv, Submit
  <2>2. pc[w] = "idle" /\ pc'[w] = "locking"
    BY <1>0, <1>1 DEF TypeInv, Submit
  <2>3. UNCHANGED <<store, writeMu, merged, pos, reply, owner>>
    BY <1>1 DEF Submit
  <2>4. Exclusive'
    BY <2>1, <2>2, <2>3 DEF ConfigInv, Exclusive
  <2>5. MergedCurrent'
    BY <2>1, <2>2, <2>3 DEF ConfigInv, MergedCurrent
  <2>6. AnswerIsSaved' /\ AnnouncedIsStored'
    BY <2>1, <2>2, <2>3 DEF ConfigInv, AnswerIsSaved, AnnouncedIsStored
  <2>7. QED
    BY <2>4, <2>5, <2>6 DEF ConfigInv
<1>2. ASSUME NEW w \in Writers, Lock(w) \/ Refuse(w) \/ StatementFails(w) \/ Announce(w)
      PROVE  ConfigInv'
  <2>1. UNCHANGED <<store, input, merged, pos, reply, owner>>
    BY <1>2 DEF Lock, Refuse, StatementFails, Announce
  <2>2. \A u \in Writers : /\ pc'[u] = "saving" => pc[u] = "saving"
                           /\ pc'[u] = "announcing" => pc[u] = "announcing"
    BY <1>0, <1>2 DEF TypeInv, Lock, Refuse, StatementFails, Announce, Return
  <2>3. Exclusive'
    <3>1. CASE Lock(w)
      BY <1>0, <3>1 DEF ConfigInv, Exclusive, TypeInv, Lock
    <3>2. CASE Refuse(w)
      BY <1>0, <3>2 DEF ConfigInv, Exclusive, TypeInv, Refuse, Return
    <3>3. CASE StatementFails(w)
      BY <1>0, <3>3 DEF ConfigInv, Exclusive, TypeInv, StatementFails, Return
    <3>4. CASE Announce(w)
      BY <1>0, <3>4 DEF ConfigInv, Exclusive, TypeInv, Announce
    <3>5. QED
      BY <1>2, <3>1, <3>2, <3>3, <3>4
  <2>4. MergedCurrent' /\ AnswerIsSaved' /\ AnnouncedIsStored'
    BY <2>1, <2>2 DEF ConfigInv, MergedCurrent, AnswerIsSaved, AnnouncedIsStored
  <2>5. QED
    BY <2>3, <2>4 DEF ConfigInv
<1>3. ASSUME NEW w \in Writers, BeginSave(w) PROVE ConfigInv'
  <2>1. UNCHANGED <<store, writeMu, input, reply>> /\ pc[w] = "reading" /\ pc'[w] = "saving"
        /\ merged'[w] = Merge(w) /\ pos'[w] = 1 /\ ~Rejected(w)
    BY <1>0, <1>3 DEF TypeInv, BeginSave
  <2>2. \A u \in Writers \ {w} : pc'[u] = pc[u] /\ merged'[u] = merged[u] /\ pc[u] # "saving"
    BY <1>0, <1>3 DEF ConfigInv, Exclusive, TypeInv, BeginSave
  <2>3. \A f \in Fields : owner'[f] = IF input[w][f] # Keep THEN w ELSE owner[f]
    BY <1>3 DEF BeginSave
  <2>4. Exclusive'
    BY <2>1, <2>2 DEF ConfigInv, Exclusive
  <2>5. MergedCurrent'
    BY <1>0, <2>1, <2>2, <2>3, MergeIsConfig DEF MergedCurrent
  <2>6. AnswerIsSaved' /\ AnnouncedIsStored'
    BY <2>1, <2>2, <2>3 DEF ConfigInv, AnswerIsSaved, AnnouncedIsStored
  <2>7. QED
    BY <2>4, <2>5, <2>6 DEF ConfigInv
<1>4. ASSUME NEW w \in Writers, WriteField(w) PROVE ConfigInv'
  <2>1. UNCHANGED <<writeMu, pc, input, merged, reply, owner>> /\ pc[w] = "saving"
        /\ pos[w] \in Fields /\ pos'[w] = pos[w] + 1
    BY <1>0, <1>4 DEF TypeInv, WriteField
  <2>2. store'[pos[w]] = merged[w][pos[w]]
        /\ \A f \in Fields \ {pos[w]} : store'[f] = store[f]
    BY <1>0, <1>4 DEF TypeInv, WriteField
  <2>3. \A u \in Writers \ {w} : pc[u] # "saving"
    BY <2>1 DEF ConfigInv, Exclusive
  <2>4. Exclusive' /\ AnswerIsSaved'
    BY <2>1 DEF ConfigInv, Exclusive, AnswerIsSaved
  <2>5. MergedCurrent'
    <3>1. ASSUME NEW f \in Fields, f < pos'[w] PROVE store'[f] = merged[w][f]
      <4>1. CASE f = pos[w]
        BY <2>2, <4>1
      <4>2. CASE f # pos[w]
        BY <1>0, <2>1, <2>2, <3>1, <4>2 DEF ConfigInv, MergedCurrent, TypeInv
      <4>3. QED
        BY <4>1, <4>2
    <3>2. ASSUME NEW f \in Fields, ~Asked(w, f)
          PROVE  Meaning[store'[f]] = Meaning[merged[w][f]]
      BY <2>1, <2>2, <3>2 DEF ConfigInv, MergedCurrent
    <3>3. \A f \in Fields : Asked(w, f) =>
            Meaning[merged[w][f]] = Meaning[input[w][f]] /\ owner[f] = w
      BY <2>1 DEF ConfigInv, MergedCurrent
    <3>4. QED
      BY <2>1, <2>3, <3>1, <3>2, <3>3 DEF MergedCurrent
  <2>6. AnnouncedIsStored'
    <3>1. ASSUME NEW u \in Writers, NEW f \in Fields, pc[u] = "announcing", owner[f] = u
          PROVE  Meaning[store'[f]] = Meaning[store[f]]
      <4>1. ~Asked(w, f)
        BY <2>1, <3>1 DEF ConfigInv, MergedCurrent
      <4>2. QED
        BY <2>1, <2>2, <4>1 DEF ConfigInv, MergedCurrent
    <3>2. QED
      BY <2>1, <3>1 DEF ConfigInv, AnnouncedIsStored
  <2>7. QED
    BY <2>4, <2>5, <2>6 DEF ConfigInv
<1>5. ASSUME NEW w \in Writers, Reply(w) PROVE ConfigInv'
  <2>1. UNCHANGED <<store, input, merged, pos, owner>> /\ pc[w] = "saving"
        /\ pos[w] = FieldCount + 1 /\ reply'[w] = store /\ pc'[w] = "announcing"
    BY <1>0, <1>5 DEF TypeInv, Reply, Return
  <2>2. \A u \in Writers \ {w} : pc'[u] = pc[u] /\ reply'[u] = reply[u] /\ pc[u] \notin {"reading", "saving"}
    BY <1>0, <1>5 DEF ConfigInv, Exclusive, TypeInv, Reply, Return
  <2>3. \A f \in Fields : store[f] = merged[w][f]
    BY <2>1 DEF ConfigInv, MergedCurrent
  <2>4. Exclusive'
    BY <1>5, <2>1, <2>2 DEF Exclusive, Reply, Return
  <2>5. MergedCurrent'
    BY <2>1, <2>2 DEF MergedCurrent
  <2>6. AnswerIsSaved'
    <3>1. store = merged[w]
      BY <1>0, <2>3 DEF TypeInv
    <3>2. QED
      BY <2>1, <2>2, <3>1 DEF ConfigInv, AnswerIsSaved
  <2>7. AnnouncedIsStored'
    BY <2>1, <2>2, <2>3 DEF ConfigInv, MergedCurrent, AnnouncedIsStored
  <2>8. QED
    BY <2>4, <2>5, <2>6, <2>7 DEF ConfigInv
<1>6. CASE UNCHANGED vars
  BY <1>6 DEF ConfigInv, Exclusive, MergedCurrent, AnswerIsSaved, AnnouncedIsStored, vars
<1>7. QED
  BY <1>1, <1>2, <1>3, <1>4, <1>5, <1>6 DEF Next, Work, Save

LEMMA ConfigInvCorrect == Spec => []ConfigInv
<1>1. Init => ConfigInv
  BY DEF Init, ConfigInv, TypeInv, Exclusive, MergedCurrent, AnswerIsSaved, AnnouncedIsStored
<1>2. QED
  BY <1>1, InvStep, TypeCorrect, PTL DEF Spec

-----------------------------------------------------------------------------
(* The answer of an update is the configuration it saved, whole.           *)
THEOREM AnswerCorrect == Spec => []AnswerIsSaved
  BY ConfigInvCorrect, PTL DEF ConfigInv

(* An announced field is in the store until a later update is given it.    *)
THEOREM AnnouncementCorrect == Spec => []AnnouncedIsStored
  BY ConfigInvCorrect, PTL DEF ConfigInv

(* No update changes what a field says that it was not given, so no other  *)
(* update is lost.                                                         *)
THEOREM NoLostUpdate == Spec => OnlyAsked
<1>1. ConfigInv /\ [Next]_vars =>
        [\A f \in Fields : Meaning[store'[f]] # Meaning[store[f]] =>
           \E w \in Writers : pc[w] = "saving" /\ pos[w] = f /\ Asked(w, f)]_vars
  <2> SUFFICES ASSUME ConfigInv, Next, NEW f \in Fields,
                      Meaning[store'[f]] # Meaning[store[f]]
               PROVE  \E w \in Writers : pc[w] = "saving" /\ pos[w] = f /\ Asked(w, f)
    OBVIOUS
  <2>1. PICK w \in Writers : WriteField(w)
    BY DEF Next, Work, Save, Submit, Lock, BeginSave, Refuse, StatementFails, Reply, Announce
  <2>2. pc[w] = "saving" /\ pos[w] = f /\ store'[f] = merged[w][f]
    BY <2>1 DEF ConfigInv, TypeInv, WriteField
  <2>3. QED
    BY <2>2 DEF ConfigInv, MergedCurrent
<1>2. QED
  BY <1>1, ConfigInvCorrect, PTL DEF Spec, OnlyAsked

-----------------------------------------------------------------------------
(* The gate.                                                               *)

Meanings == {Meaning[v] : v \in Raw \cup Values}

GateTypeInv ==
  /\ stage \in [Readers -> {"idle", "reading", "judged"}]
  /\ ask \in [Readers -> Requests]
  /\ seen \in [Readers -> Seq(Values)]
  /\ \A r \in Readers : Len(seen[r]) <= FieldCount
  /\ verdict \in [Readers -> Fields \cup {Served}]
  /\ said \in [Fields -> SUBSET Meanings]
  /\ may \in [Readers -> [Fields -> SUBSET Meanings]]

(* What a row says, and what an update that saves will make it say.        *)
SaidHolds ==
  \A f \in Fields :
    /\ Meaning[store[f]] \in said[f]
    /\ \A w \in Writers : (pc[w] = "saving" /\ Asked(w, f)) => Meaning[input[w][f]] \in said[f]

(* A reader at work may read whatever a row may say.                       *)
MayGrows ==
  \A r \in Readers : stage[r] = "reading" => \A f \in Fields : said[f] \subseteq may[r][f]

GateInv == GateTypeInv /\ SaidHolds /\ MayGrows /\ ReadIsRegular

USE OrderAssumption

-----------------------------------------------------------------------------

LEMMA GateStep == [GateNext]_<<vars, gateVars>> => [Next]_vars
<1>1. ASSUME NEW w \in Writers, Update(w) PROVE Next
  BY <1>1 DEF Update, PutConfig, Next
<1>2. QED
  BY <1>1 DEF GateNext

(* Readers leave the store as it is: seen from its rows, the gate is the   *)
(* proxy configuration store.                                              *)
THEOREM GateImplementsStore == GateSpec => Spec
<1>1. GateInit => Init
  BY DEF GateInit
<1>2. QED
  BY <1>1, GateStep, PTL DEF GateSpec, Spec


-----------------------------------------------------------------------------
(* A step of an update.                                                    *)

(* Only a reply replaces what a row may say; every other step of an update *)
(* keeps it, and the start of a save adds what was given.                  *)
LEMMA SayingSound ==
  ASSUME ConfigInv, GateTypeInv, SaidHolds, NEW w \in Writers, Update(w), NEW f \in Fields
  PROVE  /\ said'[f] \in SUBSET Meanings
         /\ Reply(w) /\ Asked(w, f) => said'[f] = {Meaning[input[w][f]]}
         /\ ~(Reply(w) /\ Asked(w, f)) => said[f] \subseteq said'[f]
         /\ BeginSave(w) /\ Asked(w, f) => Meaning[input[w][f]] \in said'[f]
<1>1. said'[f] = Saying(f)
  BY DEF Update, Watch
<1>2. TypeInv /\ said[f] \in SUBSET Meanings
  BY DEF ConfigInv, GateTypeInv
<1>3. \A u \in Writers : Asked(u, f) => Meaning[input[u][f]] \in Meanings
  BY <1>2 DEF TypeInv, Asked, Meanings
<1>4. \A u \in Writers \ {w} : pc'[u] = pc[u]
  BY <1>2 DEF Update, PutConfig, Submit, Lock, Work, Save, BeginSave, Refuse, WriteField,
               StatementFails, Reply, Announce, Return, TypeInv
<1>5. (pc[w] = "saving" /\ pc'[w] = "announcing") <=> Reply(w)
  BY <1>2 DEF Update, PutConfig, Submit, Lock, Work, Save, BeginSave, Refuse, WriteField,
               StatementFails, Reply, Announce, Return, TypeInv
<1>6. BeginSave(w) => pc[w] = "reading" /\ pc'[w] = "saving"
  BY <1>2 DEF BeginSave, TypeInv
<1>7. CASE Reply(w) /\ Asked(w, f)
  <2>1. {u \in Writers : pc[u] = "saving" /\ pc'[u] = "announcing" /\ Asked(u, f)} = {w}
    BY <1>4, <1>5, <1>7
  <2>2. said'[f] = {Meaning[input[w][f]]}
    BY <1>1, <2>1 DEF Saying
  <2>3. QED
    BY <1>3, <1>5, <1>6, <1>7, <2>2
<1>8. CASE ~(Reply(w) /\ Asked(w, f))
  <2>1. {u \in Writers : pc[u] = "saving" /\ pc'[u] = "announcing" /\ Asked(u, f)} = {}
    BY <1>4, <1>5, <1>8
  <2>2. said'[f] = said[f] \cup
          {Meaning[input[u][f]] : u \in
             {u \in Writers : pc[u] = "reading" /\ pc'[u] = "saving" /\ Asked(u, f)}}
    BY <1>1, <2>1 DEF Saying
  <2>3. QED
    BY <1>2, <1>3, <1>6, <1>8, <2>2
<1>9. QED
  BY <1>7, <1>8

LEMMA UpdateKeepsSaid ==
  ASSUME ConfigInv, ConfigInv', GateTypeInv, SaidHolds, NEW w \in Writers, Update(w)
  PROVE  SaidHolds'
<1> SUFFICES ASSUME NEW f \in Fields
             PROVE  /\ Meaning[store'[f]] \in said'[f]
                    /\ \A u \in Writers : (pc'[u] = "saving" /\ Asked(u, f)')
                          => Meaning[input'[u][f]] \in said'[f]
  BY DEF SaidHolds
<1>0. TypeInv
  BY DEF ConfigInv
<1>1. CASE Reply(w)
  <2>1. UNCHANGED <<store, input>> /\ \A u \in Writers : pc'[u] # "saving"
    BY <1>0, <1>1 DEF Reply, Return, TypeInv, ConfigInv, Exclusive
  <2>2. Asked(w, f) => Meaning[store[f]] = Meaning[input[w][f]]
    <3>1. pc[w] = "saving" /\ f < pos[w]
      BY <1>1 DEF Reply
    <3>2. /\ Asked(w, f) => Meaning[merged[w][f]] = Meaning[input[w][f]]
          /\ f < pos[w] => store[f] = merged[w][f]
      BY <3>1 DEF ConfigInv, MergedCurrent
    <3>3. QED
      BY <3>1, <3>2
  <2>3. Meaning[store[f]] \in said[f]
    BY DEF SaidHolds
  <2>4. QED
    BY <1>1, <2>1, <2>2, <2>3, SayingSound
<1>2. CASE BeginSave(w)
  <2>1. UNCHANGED <<store, input>> /\ \A u \in Writers \ {w} : pc'[u] = pc[u]
    BY <1>0, <1>2 DEF BeginSave, TypeInv
  <2>2. ~Reply(w)
    BY <1>2 DEF BeginSave, Reply
  <2>3. said[f] \subseteq said'[f] /\ (Asked(w, f) => Meaning[input[w][f]] \in said'[f])
    BY <1>2, <2>2, SayingSound
  <2>4. QED
    BY <2>1, <2>3 DEF SaidHolds, Asked
<1>3. CASE WriteField(w)
  <2>1. pc[w] = "saving" /\ UNCHANGED <<pc, input>> /\ pos[w] \in Fields
        /\ store' = [store EXCEPT ![pos[w]] = merged[w][pos[w]]]
    BY <1>3 DEF WriteField
  <2>2. ~Reply(w)
    BY <1>0, <1>3 DEF WriteField, Reply, TypeInv
  <2>3. said[f] \subseteq said'[f]
    BY <2>2, SayingSound
  <2>4. Meaning[merged[w][f]] \in said[f]
    <3>1. CASE Asked(w, f)
      <4>1. Meaning[merged[w][f]] = Meaning[input[w][f]]
        BY <2>1, <3>1 DEF ConfigInv, MergedCurrent
      <4>2. QED
        BY <2>1, <3>1, <4>1 DEF SaidHolds
    <3>2. CASE ~Asked(w, f)
      <4>1. Meaning[store[f]] = Meaning[merged[w][f]]
        BY <2>1, <3>2 DEF ConfigInv, MergedCurrent
      <4>2. QED
        BY <4>1 DEF SaidHolds
    <3>3. QED
      BY <3>1, <3>2
  <2>5. store'[f] = store[f] \/ store'[f] = merged[w][f]
    BY <1>0, <2>1 DEF TypeInv
  <2>6. QED
    BY <2>1, <2>3, <2>4, <2>5 DEF SaidHolds, Asked
<1>4. CASE Submit(w)
  <2>1. UNCHANGED store /\ pc'[w] = "locking"
        /\ \A u \in Writers \ {w} : pc'[u] = pc[u] /\ input'[u] = input[u]
    BY <1>0, <1>4 DEF Submit, TypeInv
  <2>2. said[f] \subseteq said'[f]
    BY <1>0, <1>4, SayingSound DEF Submit, Reply
  <2>3. QED
    BY <2>1, <2>2 DEF SaidHolds, Asked
<1>5. CASE Lock(w) \/ Refuse(w) \/ StatementFails(w) \/ Announce(w)
  <2>1. UNCHANGED <<store, input>>
        /\ \A u \in Writers : pc'[u] = "saving" => pc[u] = "saving"
    BY <1>0, <1>5 DEF Lock, Refuse, StatementFails, Announce, Return, TypeInv
  <2>2. ~Reply(w)
    BY <1>0, <1>5 DEF Lock, Refuse, StatementFails, Announce, Return, Reply, TypeInv
  <2>3. said[f] \subseteq said'[f]
    BY <2>2, SayingSound
  <2>4. QED
    BY <2>1, <2>3 DEF SaidHolds, Asked
<1>6. QED
  BY <1>1, <1>2, <1>3, <1>4, <1>5 DEF Update, PutConfig, Work, Save

-----------------------------------------------------------------------------
(* The invariant of the gate.                                              *)

LEMMA GateInvInit == GateInit => GateInv
<1> SUFFICES ASSUME GateInit PROVE GateInv
  OBVIOUS
<1>1. store = [f \in Fields |-> Default] /\ said = [f \in Fields |-> {Meaning[Default]}]
      /\ pc = [w \in Writers |-> "idle"]
  BY DEF GateInit, Init
<1>2. Meaning[Default] \in Meanings
  BY DEF Meanings
<1>3. GateTypeInv
  BY <1>1, <1>2 DEF GateInit, GateTypeInv
<1>4. SaidHolds /\ MayGrows /\ ReadIsRegular
  BY <1>1 DEF GateInit, SaidHolds, MayGrows, ReadIsRegular
<1>5. QED
  BY <1>3, <1>4 DEF GateInv

LEMMA UpdateKeepsGate ==
  ASSUME ConfigInv, ConfigInv', GateInv, NEW w \in Writers, Update(w)
  PROVE  GateInv'
<1>0. GateTypeInv /\ SaidHolds /\ MayGrows /\ ReadIsRegular
  BY DEF GateInv
<1>1. UNCHANGED <<stage, ask, seen, verdict>>
  BY DEF Update, Watch
<1>2. \A r \in Readers :
        may'[r] = IF stage[r] = "reading" THEN [f \in Fields |-> may[r][f] \cup said'[f]] ELSE may[r]
  BY DEF Update, Watch
<1>3. \A f \in Fields : said'[f] \in SUBSET Meanings
  BY <1>0, SayingSound
<1>4. GateTypeInv'
  <2>1. said' \in [Fields -> SUBSET Meanings]
    BY <1>3 DEF Update, Watch
  <2>2. ASSUME NEW r \in Readers PROVE may'[r] \in [Fields -> SUBSET Meanings]
    <3>1. may[r] \in [Fields -> SUBSET Meanings]
      BY <1>0 DEF GateTypeInv
    <3>2. [f \in Fields |-> may[r][f] \cup said'[f]] \in [Fields -> SUBSET Meanings]
      BY <1>3, <3>1
    <3>3. QED
      BY <1>2, <3>1, <3>2
  <2>3. may' \in [Readers -> [Fields -> SUBSET Meanings]]
    BY <2>2 DEF Update, Watch
  <2>4. QED
    BY <1>0, <1>1, <2>1, <2>3 DEF GateTypeInv
<1>5. SaidHolds'
  BY <1>0, UpdateKeepsSaid
<1>6. MayGrows'
  <2>1. ASSUME NEW r \in Readers, stage[r] = "reading", NEW f \in Fields
        PROVE  said'[f] \subseteq may'[r][f]
    <3>1. may'[r] = [g \in Fields |-> may[r][g] \cup said'[g]]
      BY <1>2, <2>1
    <3>2. QED
      BY <3>1
  <2>2. QED
    BY <1>1, <2>1 DEF MayGrows
<1>7. ReadIsRegular'
  <2>1. \A r \in Readers : \A f \in DOMAIN seen[r] : f \in Fields
    BY <1>0 DEF GateTypeInv
  <2>2. ASSUME NEW r \in Readers, NEW f \in Fields PROVE may[r][f] \subseteq may'[r][f]
    <3>1. /\ stage[r] = "reading" => may'[r] = [g \in Fields |-> may[r][g] \cup said'[g]]
          /\ stage[r] # "reading" => may'[r] = may[r]
      BY <1>2
    <3>2. QED
      BY <3>1
  <2>3. QED
    BY <1>0, <1>1, <2>1, <2>2 DEF ReadIsRegular
<1>8. QED
  BY <1>4, <1>5, <1>6, <1>7 DEF GateInv

LEMMA ReadKeepsGate ==
  ASSUME ConfigInv, GateInv, NEW r \in Readers, Read(r), UNCHANGED vars
  PROVE  GateInv'
<1>0. GateTypeInv /\ SaidHolds /\ MayGrows /\ ReadIsRegular /\ TypeInv
  BY DEF GateInv, ConfigInv
<1>1. SaidHolds'
  BY <1>0 DEF Read, Arrive, ReadRow, ReadFails, Judge, SaidHolds, vars, Asked
<1>2. CASE Arrive(r)
  <2>1. GateTypeInv'
    BY <1>0, <1>2, EmptySeq DEF GateTypeInv, Arrive
  <2>2. MayGrows' /\ ReadIsRegular'
    BY <1>0, <1>2 DEF GateTypeInv, MayGrows, ReadIsRegular, Arrive
  <2>3. QED
    BY <1>1, <2>1, <2>2 DEF GateInv
<1>3. CASE ReadRow(r)
  <2> DEFINE n == Len(seen[r]) + 1
  <2>1. seen[r] \in Seq(Values) /\ n \in Fields /\ store[n] \in Values /\ stage[r] = "reading"
        /\ seen' = [seen EXCEPT ![r] = Append(seen[r], store[n])]
        /\ UNCHANGED <<stage, ask, verdict, said, may>>
    BY <1>0, <1>3 DEF GateTypeInv, TypeInv, ReadRow
  <2>2. /\ seen'[r] \in Seq(Values) /\ Len(seen'[r]) = n
        /\ \A i \in 1..n : seen'[r][i] = IF i = n THEN store[n] ELSE seen[r][i]
        /\ \A q \in Readers \ {r} : seen'[q] = seen[q]
    BY <1>0, <2>1, AppendProperties DEF GateTypeInv
  <2>3. GateTypeInv'
    BY <1>0, <2>1, <2>2 DEF GateTypeInv
  <2>4. MayGrows'
    BY <1>0, <2>1 DEF MayGrows
  <2>5. Meaning[store[n]] \in may[r][n]
    BY <1>0, <2>1 DEF SaidHolds, MayGrows
  <2>6. \A f \in DOMAIN seen'[r] : Meaning[seen'[r][f]] \in may[r][f]
    BY <1>0, <2>1, <2>2, <2>5 DEF ReadIsRegular
  <2>7. ReadIsRegular'
    BY <1>0, <2>1, <2>2, <2>6 DEF ReadIsRegular
  <2>8. QED
    BY <1>1, <2>3, <2>4, <2>7 DEF GateInv
<1>4. CASE ReadFails(r)
  <2>1. GateTypeInv'
    BY <1>0, <1>4, EmptySeq DEF GateTypeInv, ReadFails
  <2>2. MayGrows' /\ ReadIsRegular'
    BY <1>0, <1>4 DEF GateTypeInv, MayGrows, ReadIsRegular, ReadFails
  <2>3. QED
    BY <1>1, <2>1, <2>2 DEF GateInv
<1>5. CASE Judge(r)
  <2>1. GateTypeInv'
    <3>1. \A i \in DOMAIN Order : Order[i] \in Fields
      OBVIOUS
    <3>2. verdict' \in [Readers -> Fields \cup {Served}] /\ UNCHANGED <<ask, seen, said, may>>
      BY <1>0, <1>5, <3>1 DEF GateTypeInv, Judge
    <3>3. stage' \in [Readers -> {"idle", "reading", "judged"}]
      BY <1>0, <1>5 DEF GateTypeInv, Judge
    <3>4. QED
      BY <1>0, <3>2, <3>3 DEF GateTypeInv
  <2>2. MayGrows' /\ ReadIsRegular'
    BY <1>0, <1>5 DEF GateTypeInv, MayGrows, ReadIsRegular, Judge
  <2>3. QED
    BY <1>1, <2>1, <2>2 DEF GateInv
<1>6. QED
  BY <1>2, <1>3, <1>4, <1>5 DEF Read

LEMMA GateInvCorrect == GateSpec => [](ConfigInv /\ GateInv)
<1>1. GateInit => GateInv
  BY GateInvInit
<1>2. ConfigInv /\ ConfigInv' /\ GateInv /\ [GateNext]_<<vars, gateVars>> => GateInv'
  <2> SUFFICES ASSUME ConfigInv, ConfigInv', GateInv, [GateNext]_<<vars, gateVars>> PROVE GateInv'
    OBVIOUS
  <2>1. CASE \E w \in Writers : Update(w)
    BY <2>1, UpdateKeepsGate
  <2>2. CASE \E r \in Readers : Read(r) /\ UNCHANGED vars
    BY <2>2, ReadKeepsGate
  <2>3. CASE UNCHANGED <<vars, gateVars>>
    BY <2>3 DEF vars, gateVars, GateInv, GateTypeInv, SaidHolds, MayGrows, ReadIsRegular, Asked
  <2>4. QED
    BY <2>1, <2>2, <2>3 DEF GateNext
<1>3. QED
  BY <1>1, <1>2, GateImplementsStore, ConfigInvCorrect, PTL DEF GateSpec

(* A configuration read without the lock is regular.                       *)
THEOREM ReadsAreRegular == GateSpec => []ReadIsRegular
  BY GateInvCorrect, PTL DEF GateInv

-----------------------------------------------------------------------------
(* The verdict.                                                            *)

LEMMA OrderRange == Len(Order) \in Nat /\ DOMAIN Order = 1..Len(Order)
  BY LenProperties

LEMMA JudgeSound ==
  ASSUME GateInv, NEW r \in Readers, Judge(r)
  PROVE  Stands(r)'
<1>0. GateTypeInv /\ ReadIsRegular
  BY DEF GateInv
<1>1. DOMAIN seen[r] = Fields /\ UNCHANGED <<ask, seen, said, may>>
  BY <1>0 DEF Judge, GateTypeInv
<1>2. ASSUME NEW i \in DOMAIN Order
      PROVE  /\ Passes(r, Order[i]) => Could(r, Order[i])'
             /\ ~Passes(r, Order[i]) => CouldNot(r, Order[i])'
  <2>1. Meaning[seen[r][Order[i]]] \in may[r][Order[i]]
    BY <1>0, <1>1 DEF ReadIsRegular
  <2>2. QED
    BY <1>1, <2>1 DEF Passes, Could, CouldNot
<1>3. CASE PassesAll(r, Len(Order)) /\ verdict' = [verdict EXCEPT ![r] = Served]
  <2>1. verdict'[r] = Served
    BY <1>0, <1>3 DEF GateTypeInv
  <2>2. ASSUME NEW f \in Fields PROVE Could(r, f)'
    <3>1. PICK i \in DOMAIN Order : Order[i] = f
      OBVIOUS
    <3>2. Passes(r, Order[i])
      BY <1>3, OrderRange DEF PassesAll
    <3>3. QED
      BY <1>2, <3>1, <3>2
  <2>3. QED
    BY <2>1, <2>2 DEF Stands
<1>4. ASSUME NEW i \in DOMAIN Order, PassesAll(r, i - 1), ~Passes(r, Order[i]),
             verdict' = [verdict EXCEPT ![r] = Order[i]]
      PROVE  Stands(r)'
  <2>1. verdict'[r] = Order[i] /\ verdict'[r] # Served
    BY <1>0, <1>4 DEF GateTypeInv
  <2>2. CouldNot(r, Order[i])'
    BY <1>2, <1>4
  <2>3. ASSUME NEW j \in 1..i - 1 PROVE Could(r, Order[j])'
    <3>1. j \in DOMAIN Order
      BY OrderRange
    <3>2. QED
      BY <1>2, <1>4, <3>1 DEF PassesAll
  <2>4. QED
    BY <2>1, <2>2, <2>3 DEF Stands
<1>5. QED
  BY <1>3, <1>4 DEF Judge

(* What a reader presented, may have read and was told is its own.         *)
LEMMA StandsKept ==
  ASSUME NEW r \in Readers, Stands(r),
         ask'[r] = ask[r], verdict'[r] = verdict[r], may'[r] = may[r]
  PROVE  Stands(r)'
<1>1. \A f : (Could(r, f)' <=> Could(r, f)) /\ (CouldNot(r, f)' <=> CouldNot(r, f))
  BY DEF Could, CouldNot
<1>2. QED
  BY <1>1 DEF Stands

(* A request is judged only as rows allow that were there while it was.    *)
THEOREM VerdictsStand == GateSpec => []VerdictStands
<1>1. GateInit => VerdictStands
  BY DEF GateInit, VerdictStands
<1>2. GateInv /\ VerdictStands /\ [GateNext]_<<vars, gateVars>> => VerdictStands'
  <2> SUFFICES ASSUME GateInv, VerdictStands, [GateNext]_<<vars, gateVars>>,
                      NEW r \in Readers, stage'[r] = "judged"
               PROVE  Stands(r)'
    BY DEF VerdictStands
  <2>1. GateTypeInv
    BY DEF GateInv
  <2>2. ASSUME NEW w \in Writers, Update(w) PROVE Stands(r)'
    <3>1. UNCHANGED <<stage, ask, seen, verdict>> /\ may'[r] = may[r]
      BY <2>2 DEF Update, Watch
    <3>2. QED
      BY <3>1, StandsKept DEF VerdictStands
  <2>3. CASE Judge(r)
    BY <2>3, JudgeSound
  <2>4. ASSUME NEW q \in Readers, Read(q), ~(q = r /\ Judge(q)) PROVE Stands(r)'
    <3>1. q # r
      BY <2>1, <2>4 DEF Read, Arrive, ReadRow, ReadFails, GateTypeInv
    <3>2. stage'[r] = stage[r] /\ ask'[r] = ask[r] /\ verdict'[r] = verdict[r] /\ may'[r] = may[r]
      BY <2>1, <2>4, <3>1 DEF Read, Arrive, ReadRow, ReadFails, Judge, GateTypeInv
    <3>3. QED
      BY <3>2, StandsKept DEF VerdictStands
  <2>5. CASE UNCHANGED <<vars, gateVars>>
    BY <2>5, StandsKept DEF gateVars, VerdictStands
  <2>6. QED
    BY <2>2, <2>3, <2>4, <2>5 DEF GateNext
<1>3. QED
  BY <1>1, <1>2, GateInvCorrect, PTL DEF GateSpec

=============================================================================
