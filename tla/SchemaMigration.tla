--------------------------- MODULE SchemaMigration ---------------------------
(***************************************************************************)
(* What a start of the server does to a SQLite database before it serves:  *)
(* EnsureConnectionSchema (database/schema.go) runs the schema statements  *)
(* and then, on a database made by an old release whose api_mocks has      *)
(* UNIQUE(method, route_path), rebuilds the table without it.  Every       *)
(* statement commits on its own, so a start that stops part-way - the      *)
(* process dies, a statement fails - leaves the database between two of    *)
(* them, and the next start goes on from there.                            *)
(*                                                                         *)
(* database/sql runs the statements of one start on the connection it      *)
(* released last, so foreign_keys, which belongs to a connection, is one   *)
(* variable.  A row is its id and a name that tells it from every other    *)
(* row ever saved; an example (api_mock_responses) is the id it refers to  *)
(* and the name of the row it was saved for.                               *)
(*                                                                         *)
(* A definition headed "Mutated form" is a plausible bug that a check run  *)
(* puts in the place of the definition that follows it.                    *)
(***************************************************************************)
EXTENDS Naturals, FiniteSets, FiniteSetsExt

CONSTANTS MaxSaves,     \* bound: rows saved in a behaviour, ids and names
          OldRows,      \* bound: rows of the database the first start finds
          MaxStops      \* bound: how often the server stops

ASSUME BoundsAssumption ==
    MaxSaves \in Nat /\ OldRows \in 0 .. MaxSaves /\ MaxStops \in Nat

VARIABLES
    mocks,          \* table api_mocks
    copy,           \* table api_mocks_without_route_unique
    examples,       \* rows of api_mock_responses
    foreignKeys,    \* PRAGMA foreign_keys of the connection
    phase,          \* what the server does
    saved,          \* how many rows were ever saved
    wanted,         \* names of the rows saved and not deleted by a user
    stops           \* how often the server stopped

schemaVars == <<mocks, copy, examples, foreignKeys, phase, saved, wanted, stops>>
database == <<mocks, copy, examples>>
history == <<saved, wanted, stops>>

NoTable == [exists |-> FALSE, unique |-> FALSE, rows |-> {}, seq |-> 0]
Table(unique, rows, seq) ==
    [exists |-> TRUE, unique |-> unique, rows |-> rows, seq |-> seq]
Empty(unique) == Table(unique, {}, 0)
NamesIn(table) == {row.name : row \in table.rows}

(***************************************************************************)
(* The file a first start finds: none, one of this release, or one of an   *)
(* old release.  Every row has an example, as CreateMock leaves it.        *)
(***************************************************************************)
SchemaInit ==
    /\ \E n \in 0 .. OldRows, unique \in BOOLEAN :
          /\ mocks = Table(unique, {[id |-> i, name |-> i] : i \in 1 .. n}, n)
          /\ examples = {[mock |-> i, of |-> i] : i \in 1 .. n}
          /\ wanted = 1 .. n
          /\ saved = n
       \/ /\ mocks = NoTable
          /\ examples = {} /\ wanted = {} /\ saved = 0
    /\ copy = NoTable
    /\ foreignKeys = TRUE
    /\ phase = "stopped"
    /\ stops = 0

(* database.Open: a new connection, opened with _foreign_keys=on. *)
Open ==
    /\ phase = "stopped"
    /\ foreignKeys' = TRUE
    /\ phase' = "schema"
    /\ UNCHANGED <<database, history>>

(* The schema statements.  All are IF NOT EXISTS, or fail with a message   *)
(* that isDuplicateIndexError lets pass, so running some of them and then  *)
(* all of them again is the same as running them once.                     *)
SchemaStatements ==
    /\ phase = "schema"
    /\ mocks' = IF mocks.exists THEN mocks ELSE Empty(FALSE)
    /\ foreignKeys' = TRUE
    /\ phase' = "probe"
    /\ UNCHANGED <<copy, examples, history>>

(* Mutated form: a table that needs no rebuild is probed again.             *)
ProbeBusy ==
    /\ phase = "probe"
    /\ phase' = IF mocks.unique THEN "keysOff" ELSE "probe"
    /\ UNCHANGED <<database, foreignKeys, history>>

(* sqliteHasAPIMocksRouteUnique decides whether the table is rebuilt. *)
Probe ==
    /\ phase = "probe"
    /\ phase' = IF mocks.unique THEN "keysOff" ELSE "serving"
    /\ UNCHANGED <<database, foreignKeys, history>>

SetForeignKeys(at, on, next) ==
    /\ phase = at
    /\ foreignKeys' = on
    /\ phase' = next
    /\ UNCHANGED <<database, history>>

(* Mutated form: foreign keys are not switched on again.                    *)
ForeignKeysStayOff == SetForeignKeys("keysOn", FALSE, "serving")

ForeignKeysOff == SetForeignKeys("keysOff", FALSE, "createCopy")
ForeignKeysOn == SetForeignKeys("keysOn", TRUE, "serving")

(* CREATE TABLE, without IF NOT EXISTS and outside the tolerant loop: on a *)
(* copy an earlier start left, the error ends the start.                   *)
CreateCopy ==
    /\ phase = "createCopy"
    /\ copy' = IF copy.exists THEN copy ELSE Empty(FALSE)
    /\ phase' = IF copy.exists THEN "stopped" ELSE "copyRows"
    /\ UNCHANGED <<mocks, examples, foreignKeys, history>>

(* Mutated form: the newest row is left behind.                             *)
CopyRowsShort ==
    /\ phase = "copyRows"
    /\ copy' = Table(copy.unique, {r \in mocks.rows : r.id < mocks.seq}, mocks.seq)
    /\ phase' = "dropOld"
    /\ UNCHANGED <<mocks, examples, foreignKeys, history>>

CopyRows ==
    /\ phase = "copyRows"
    /\ copy' = Table(copy.unique, mocks.rows,
                     Max({0} \cup {r.id : r \in mocks.rows}))
    /\ phase' = "dropOld"
    /\ UNCHANGED <<mocks, examples, foreignKeys, history>>

(* DROP TABLE deletes every row first; with foreign keys on that takes the *)
(* examples with it (ON DELETE CASCADE).                                   *)
DropOld ==
    /\ phase = "dropOld"
    /\ examples' = IF foreignKeys
                   THEN {e \in examples : \A r \in mocks.rows : r.id # e.mock}
                   ELSE examples
    /\ mocks' = NoTable
    /\ phase' = "rename"
    /\ UNCHANGED <<copy, foreignKeys, history>>

Rename ==
    /\ phase = "rename"
    /\ mocks' = copy
    /\ copy' = NoTable
    /\ phase' = "createIndex"
    /\ UNCHANGED <<examples, foreignKeys, history>>

(* The index on public_id: rows had distinct ones (or none) in api_mocks,  *)
(* whose own index on them the schema statements made before.              *)
CreateIndex ==
    /\ phase = "createIndex"
    /\ phase' = "keysOn"
    /\ UNCHANGED <<database, foreignKeys, history>>

(* The server at work: a user saves a new API with an example, in place of *)
(* whatever examples its id had.                                           *)
SaveMock ==
    /\ phase = "serving"
    /\ saved < MaxSaves /\ mocks.seq < MaxSaves
    /\ LET id == mocks.seq + 1
           name == saved + 1
       IN  /\ mocks' = Table(mocks.unique,
                             mocks.rows \cup {[id |-> id, name |-> name]}, id)
           /\ examples' = {e \in examples : e.mock # id}
                            \cup {[mock |-> id, of |-> name]}
           /\ wanted' = wanted \cup {name}
           /\ saved' = name
    /\ UNCHANGED <<copy, foreignKeys, phase, stops>>

(* A user deletes an API; its examples go with it. *)
DeleteMock(row) ==
    /\ phase = "serving"
    /\ mocks' = Table(mocks.unique, mocks.rows \ {row}, mocks.seq)
    /\ examples' = {e \in examples : foreignKeys => e.mock # row.id}
    /\ wanted' = wanted \ {row.name}
    /\ UNCHANGED <<copy, foreignKeys, phase, saved, stops>>

(* The process dies, or a statement fails and Run returns its error. *)
Stop ==
    /\ phase # "stopped"
    /\ stops < MaxStops
    /\ stops' = stops + 1
    /\ phase' = "stopped"
    /\ UNCHANGED <<database, foreignKeys, saved, wanted>>

StartStep ==
    \/ Open \/ SchemaStatements \/ Probe
    \/ ForeignKeysOff \/ CreateCopy \/ CopyRows \/ DropOld \/ Rename
    \/ CreateIndex \/ ForeignKeysOn

SchemaNext ==
    \/ StartStep
    \/ SaveMock
    \/ \E row \in mocks.rows : DeleteMock(row)
    \/ Stop

SchemaSpec == SchemaInit /\ [][SchemaNext]_schemaVars

(* A start that is not stopped runs on to its next statement. *)
FairSchemaSpec == SchemaSpec /\ WF_schemaVars(StartStep)

-----------------------------------------------------------------------------
(* No start, wherever it stops and however often it is tried again,        *)
(* destroys a row (schema.go:33-76): every row a user saved and did not    *)
(* delete is in api_mocks or in the copy.                                  *)
RowsSurvive == wanted \subseteq NamesIn(mocks) \cup NamesIn(copy)

(* An interrupted rebuild can be told from the left-over table alone: a    *)
(* server whose database has none serves every row it was given, each with *)
(* its own examples and no one else's.  With the table there the rows in   *)
(* it are not served, and a new row that gets the id of one of them takes  *)
(* the place of its examples: the start after a stop between DROP and      *)
(* RENAME makes an empty api_mocks (schema.go:67-68, 153), whose ids begin *)
(* at 1 again.                                                             *)
CleanWithoutLeftover ==
    phase = "serving" /\ ~copy.exists =>
        /\ NamesIn(mocks) = wanted
        /\ examples = {[mock |-> row.id, of |-> row.name] : row \in mocks.rows}

(* A stop between CREATE and DROP leaves a copy beside a table that still  *)
(* has to be rebuilt: CREATE TABLE fails in every later start.             *)
Stuck == copy.exists /\ mocks.unique

(* Whatever a start finds, a start follows in the end that comes to serve, *)
(* unless one was stopped where it leaves the file stuck (schema.go:35-67).*)
StartEnds == (phase = "stopped") ~> (phase = "serving" \/ (phase = "stopped" /\ Stuck))
=============================================================================
