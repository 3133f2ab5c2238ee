-------------------------- MODULE ServiceContainer --------------------------
(***************************************************************************)
(* The registry of services that features and plugins share                *)
(* (container/container.go): entries are registered under types and names  *)
(* and looked up by exact type, else by a type they can be assigned to.    *)
(*                                                                         *)
(* A definition headed "Mutated form" is a plausible bug that a check run  *)
(* puts in the place of the definition that follows it.                    *)
(***************************************************************************)
CONSTANTS
  NoName,       \* an entry without a name
  TypeOf,       \* TypeOf[b]: the concrete type of b
  Implements    \* pairs of a type and an interface it implements

VARIABLES
  byType,   \* the map from types to entries
  byName    \* the map from names to entries

Assignable(s, t) == s = t \/ <<s, t>> \in Implements

-----------------------------------------------------------------------------
(* Lookup.                                                                 *)

(* The keys whose entry can be assigned to t.                              *)
Matching(t) ==
  {k \in DOMAIN byType : Assignable(k, t) \/ Assignable(TypeOf[byType[k]], t)}

(* Mutated form: the first match is taken.                                 *)
ResolveFirst(t) ==
  IF t \in DOMAIN byType THEN {byType[t]} ELSE {byType[k] : k \in Matching(t)}

(* What looking up t may give; nothing if there is no match or more than   *)
(* one.  Matches are counted by the concrete types of the entries, and the *)
(* map is walked in any order.                                             *)
ResolveType(t) ==
  IF t \in DOMAIN byType THEN {byType[t]}
  ELSE LET found == {byType[k] : k \in Matching(t)}
       IN IF \A b, c \in found : TypeOf[b] = TypeOf[c] THEN found ELSE {}

-----------------------------------------------------------------------------
(* Registration of b with the options WithName, WithNameOnly and AsType.   *)

Keys(b, concrete, as) == (IF concrete THEN {TypeOf[b]} ELSE {}) \cup as

(* Mutated form: a type that is taken is taken over.                       *)
AvailableName(keys, n) == n # NoName => n \notin DOMAIN byName

Available(keys, n) ==
  /\ keys \cap DOMAIN byType = {}
  /\ n # NoName => n \notin DOMAIN byName

Valid(b, n, concrete, as) ==
  /\ \A a \in as : Assignable(TypeOf[b], a)
  /\ Keys(b, concrete, as) # {} \/ n # NoName
  /\ Available(Keys(b, concrete, as), n)

(* The error of a registration that is not valid leaves no trace.          *)
Register(b, n, concrete, as) ==
  LET keys == Keys(b, concrete, as) IN
  /\ Valid(b, n, concrete, as)
  /\ byType' = [t \in DOMAIN byType \cup keys |-> IF t \in keys THEN b ELSE byType[t]]
  /\ byName' = IF n = NoName THEN byName
               ELSE [m \in DOMAIN byName \cup {n} |-> IF m = n THEN b ELSE byName[m]]

=============================================================================
