# Tunnelgate in TLA+

TLA+ modules, TLC runs and TLAPS proofs about the Go service in `src/backend`
(module `postman-transform/backend-golang`, called tunnelgate here): a gateway
that answers requests from stored API mocks, proxies them to a real server,
copies them to shadow servers, keeps an audit log, and is administered by a
dashboard API and by MCP tools that announce their changes over a websocket.

`I/` stands for `src/backend/internal/` and `F/` for `I/features/`.

## The system

| Component | State | Operations | Hard part | What makes it correct |
|---|---|---|---|---|
| realtime hub, `F/realtime/hub.go` | set of clients, a buffered channel each | subscribe, unsubscribe, Broadcast, serve | a broadcast works on a snapshot without the lock; slow clients are evicted | channels closed once, no event dropped without its client, broadcasts end |
| rate limiter, `F/proxy/handler.go:474-515` | bucket per key | Allow, prune | the clock is read before the lock; pruning by another request's clock | fixed windows per key, never more than the limit in one |
| proxy configuration, `F/config/proxyconfig` | six rows of `engine_config` | UpdatePartial from five endpoints and the MCP tools | read-merge-write over six statements without a transaction | no field changes unless asked for; what is announced was stored |
| API specifications, `F/api-specs` | `api_mocks`, `api_mock_responses`, `api_mock_versions` | import, create, update, upsert, toggles, select, delete, version, restore, revert | several rows may share a route; the selected response is stored twice | one active row per route, selected response is an example, restore is exact |
| specification formats and route matching, `I/postman/parser.go`, `F/api-specs/spec_transform.go`, `validation.go`, `service.go` | none of their own | parse, import, export, find the route, resolve variables, validate a request | two formats that hold different things; map order; a list and its examples read apart | what is imported is served; what is exported comes back |
| MCP tools, `F/config/mcp/rpc.go` | none of their own | update, bulk upsert, delete, … | read-merge-write across calls of the store | a deleted spec stays deleted, unnamed fields stay, announcements are true |
| MCP configuration and gate, `F/config/mcp/service.go`, `handler.go` | three rows of `engine_config` | Get, Update, the three checks before a request | three reads without a lock against three writes | a request is judged by what was configured while it was read |
| public proxy, `F/proxy/handler.go` | handler and shadow goroutines | Middleware, proxy, captureProxy | several table reads per request; goroutines that outlive it | answered as its route says; records, events and shadow entries agree |
| audit log, `F/audit-log/service.go` | records, shadow entries | Create, CreateShadow; PruneBefore, which nothing calls | shadow goroutines outlive the request and share the mutex | entries only for targets of their record |
| environment variables, `F/environment-variables` | one table | upload, create, update, delete | an upload is many writes; a broadcast may panic; row counts of the driver | uploads are complete, viewers catch up, answers are true, renames keep others |
| schema, `I/database/schema.go` | the SQLite file | start | seven statements, each committed alone | no row is lost; with no left-over copy rows and examples are all there |
| service container, `I/container/container.go` | beans by type and by name | Register, Get, Autowire | interfaces, aliases, map order | users of a service get the same one, or an error |
| start-up, `I/app/modules.go`, `I/container/loader.go` | container, routes | load, wire, mount, publish | any order of modules and plugins | one instance of each service; failures have a cause |

How they interact: handlers and tools call the services; every service guards
its writes with its own `writeMu`; after a write the handler broadcasts to the
hub; the public proxy reads the configuration and the API table on every
request and writes the audit log from the handler and from shadow goroutines.
That a `writeMu` excludes anything rests on there being one instance of each
service, which is `SharedServices` of `ModuleStartup`.

The hazards this code is exposed to, each at its line, with the properties
that cover it or the reason none does, are in `PROJECT.json`.

## Modules

Every module names the code it models in its header; `PROJECT.json` maps each
definition to lines. Definitions headed "Mutated form" are plausible bugs used
to show that a property can fail; nothing else uses them.

**RealtimeHub.** `clients` is `h.clients`; a channel is what was ever put in it
(`log`) and how much was taken out (`taken`). Broadcast is four kinds of step,
as the code: number and snapshot under the read lock, one select-send per client in any
order (map iteration), eviction, return. A send on a closed channel panics;
`Recovered` are the goroutines under gin.Recovery, for all others the process
ends. The serve goroutine and its reader are separate.

**FixedWindow, RateLimiter.** FixedWindow promises at most the limit per
window and key, with no pruning and no lock. RateLimiter is the code: sample
the clock, take the lock, decide, prune. `KeepsPromise` is the refinement:
FixedWindow with the history variable `windows` for its windows. `MaxLag`, how
long a goroutine may wait between sample and decision, is an assumption on
scheduling: at most one window.

**ProxyConfigStore.** Lock, read, merge and normalise, six upserts one at a
time, read, unlock, announce. Any statement may fail, which leaves the rows as a
stop of the process between two statements would; a restart has no step of its own. `NormalForm` is normalisation, `Meaning` what a value says
apart from spelling and rule numbers.

**ConfigGate** EXTENDS it with readers. Get of both configurations reads row by row
without the lock; the MCP handler then asks each row in turn whether the request passes
(`Order`, `Admits`). The MCP service updates its rows as ProxyConfigStore does,
with every field given: these are the `Whole` writers. The histories are
`said`, what each row may rightly say now, and `may`, what it may have said while a
reader was reading. A reader can get a mixture; `ReadIsRegular` says of what, and
`VerdictStands` what may follow from it.

**ApiSpecStore.** One action per operation of `Service`, split where a
transaction begins and ends. `draft` is an open transaction. **McpTools**
EXTENDS it: tools call the store's operations, and dashboard requests run
between their calls. `MutexReleased` says that no path out of an operation keeps the
lock.

**RouteMatch, SpecFormats, SpecExchange.** RouteMatch finds the row that answers a
request and whether its validation accepts it. A path is the sequence of its
segments; `Resolved` gives every path that some order of the variables map can
make of a template. `Before` compares segments where the database compares
characters; the two differ only for a segment that begins with another one
(`/a-b` and `/a/b`), and the instance has none. A body is kept with the types of its
keys: what the parser makes of it (`RequestBodyTypes`), what is sent (`SentBody`), and
what the validation finds in that (`FieldTypes`) are three definitions, as in the code. SpecFormats is the two parsers and the two exporters.
SpecExchange is their use: import under the mutex, an export that lists the
rows and then reads the examples of each, and the import of the file into another
instance. Folders nest; they are opened one level at a time, `Levels` times, which
gives the requests in the order in which `collect` finds them by recursion. Rows stay
enabled here, and the variables fixed: ApiSpecStore and EnvironmentStore change them.

**PublicProxy.** One request per element of `Requests`, one route, whose flags
an admin changes. Each read, each statement under the audit mutex, each
broadcast and each goroutine start is a step. The hub is taken as "the event
was broadcast" or "it panicked", as RealtimeHub allows. The configuration is any of
`Configs`: Get reads six rows without a lock, so a request may see a mixture.
No step deletes a record: nothing calls `startAuditRetention`.

**EnvironmentStore.** Each service call locks, runs one statement, unlocks: one
step. An upload is a loop of them. The broadcast that follows may panic before it
reaches the viewer, and a restart may come between any two steps; `unannounced` keeps
the names that were written and not told. `CountsMatched` is the driver: SQLite and
PostgreSQL count matched rows, MySQL with the DSN of `mysqlDSN` changed ones. The
run has the harder one, changed rows; the theorems hold for both.

**SchemaMigration.** One step per statement of the rebuild, `Stop` between any
two. `Stop` stands for the process dying and for a failed statement, which ends
`Run`. The tables are sets of rows with the AUTOINCREMENT sequence, as SQLite
keeps them.

**ServiceContainer, ModuleStartup.** ServiceContainer has the container's
operators. ModuleStartup instantiates it and loads every plan of modules. Beside the
built-in ones there are plugins of third parties: one that brings its own hub
(`custom`) and one that only uses it (`viewer`); three that register a store of
their own, one of them under the interface they share; and two (`catalog`,
`report`) that ask for the interface.

## Runs

| Run | Shows | Bounds, and why they are enough |
|---|---|---|
| realtime_hub | channel life cycle, no leaked client, no silent loss; broadcasts end, evicted handlers wind up | 2 connections, 2 broadcasters, buffer 1, 2 broadcasts by either: a full channel, two broadcasters evicting one client, a close in the middle; the safety properties are proved without bounds |
| hub_panic | *violated*: a subscriber gets nothing because another's channel was closed | the same |
| rate_limiter | refinement of the fixed windows, pruning keeps what matters | 2 keys, 2 goroutines, window 2, lag 2, clock to 6: three windows, so one is pruned |
| proxy_config | no lost updates, true announcements, reads and verdicts without the lock; updates end | a partial and a whole writer with one update each, a reader, 2 fields: a read that overlaps both updates, and one after a half-saved update; the proofs have any number of each |
| api_specs | rows, examples, versions, announcements and the mutex under every mixture of dashboard requests and tools | 2 goroutines, 2+1 requests: a save, a change and a restore, or a tool with two others in between; 2 routes, 2 ids, examples in 2 valid statuses and one that only an import takes; the first table has one row, or two on one route; 593,103 states |
| spec_exchange | imported requests are served and accepted, exports come back | 2 imports of 20 collections and 4 OpenAPI documents, each with the shapes the parsers treat apart: path arrays, texts with and without scheme, templates, wildcards, queries, nested, blank and empty folders, and bodies of every mode, type, JSON form and content type; 4 environments, one with a variable in a value; `Levels` 4, one more than the deepest collection has; two documents meet in one table, and an import falls between the two reads of an export. 57,436 states. The first two properties are proved without bounds |
| mcp_update | *violated*: an update that names one field changes the selected response | one request each |
| public_proxy | records, events, shadow entries and routing agree; requests are answered whatever shadow endpoints do | 2 requests, one with any of 5 configurations and up to 2 endpoints, one recorded, sharing the mutex with the goroutines; 1 change of the row; panics, failures and restarts; 339,460 states |
| audit_retention | *violated*: a record is never deleted | one request, one endpoint |
| module_startup | shared services, causes of failure | the built-in plan, every list of 2 or 3 of 14 admin and 4 public entries, every order of 4 of the 5 plugins around the interface, and 2 of them after a plugin that a wildcard found on the wrong side and that is skipped; both properties are proved for every list |
| schema_migration | rows survive; a start ends | 2 old rows, 2 more, 3 stops: a rebuild stopped, a start on the rest, another stop |
| environment_store | uploads, renames, answers, announcements | 2 clients with 1 and 2 requests over 2 names in 4 spellings, one of them invalid; 2 values, 2 seconds, so that a row may be saved again unchanged; any statement failing, broadcasts panicking, restarts; 1,800,037 states |

`CHECK_DEADLOCK FALSE` is set where the model really may stop: the process
panics, start-up is over, or the bounded number of requests is used up. Symmetry is used
only in rate_limiter, over keys and goroutines that no definition tells apart.

What the violated runs show is listed under `findings` in `PROJECT.json`.

What the code does beside the passing runs, and a reader should know:

* After a stop between `DROP TABLE` and `RENAME` the next start makes an empty
  `api_mocks` and serves it, with all rows in the left-over copy; after a stop
  between `CREATE TABLE` and `DROP TABLE` every later start fails (`Stuck`).
  `RowsSurvive` and `CleanWithoutLeftover` say exactly how much is kept: every
  row is somewhere, and no left-over means rows and examples are all there.
* An upload that fails part-way keeps what it saved and announces nothing; a
  broadcast that panics (`I/features/realtime/hub.go:55`) ends its request after the
  row was written. Viewers then stay behind for those names until someone announces a
  change of the variables again (`unannounced` in `ShownWhenQuiet`).
* Nothing calls `startAuditRetention` (`I/app/app.go:111`), so audit records stay
  for ever, although `AUDIT_LOG_RETENTION_DAYS` is read; the run audit_retention
  shows it.
* An import accepts any status from 100 to 599, the manual form only those that
  `validHTTPStatus` knows. A create on a route with an imported example of another
  status (520, 299) drops that example (`F/api-specs/service.go:390`), and an MCP update
  of such a spec is refused (`:653`). `NoLostExample` is about `ValidStatuses`.
* A request for mock and proxy at once is stored as a mock without proxy and
  announced (`F/api-specs/repository.go:204`); `AnnouncedIsDone` allows that and no
  other difference between what was asked and the row.
* `OnlyAsked` compares what a field says. A PATCH of another field saves the
  header rules too and numbers them anew when a blank one was dropped before
  (`F/config/proxyconfig/service.go:333`), so their numbers may change.
* `SharedServices` has a condition. Two entries of one concrete type under
  different keys count as one candidate (`I/container/container.go:337`), and
  after a plugin has registered its own store under the interface, later users
  of the interface hold that one while earlier ones keep what they were given.
* `ImportedIsServed` and `RoundTrip` leave out what the code does not keep:
  - where the value of a variable mentions another variable, what a template
    becomes depends on the order of a Go map, anew at every request
    (`F/api-specs/service.go:419`); `Settled` are the paths without such a variable;
  - `:id` sorts before letters, so a wildcard can win over an exact route, or a row
    whose variables resolve to the same path (`Shadowed`);
  - an absolute URL text with `{{v}}/` in its path is cut at the template, in
    `https://h/a/{{v}}` the braces are stored percent-encoded, and
    `localhost:3000/a` becomes `/` (`I/postman/parser.go`); `Plain` are the others;
  - OpenAPI: `{{v}}` comes back as the wildcard `:{v}`, methods the import does not
    know are dropped, and an operation under an upper-case key loses its
    content; with both "default" and "200" either body may be used;
  - routes that differ only by their query become one on export, query keys that
    are expected but not in the path are dropped, and the status a route answers
    with is not written to either format.
  - a key whose type is neither of array, object, number, boolean and string (null, a
    file) is exported as a string, so the copy refuses a body that the first accepted
    (`F/api-specs/spec_transform.go:409, 616, 664`); `HoldsBody` are the other rows;
  - an import between the two reads of an export makes a file of two tables
    (`F/api-specs/service.go:96`). Nothing promises otherwise, and `RoundTrip` is about
    files made of one table (`origin`).
* `ExampleAccepted` says exactly which mocks refuse the request they were made from.
  `ReadAlike` are the bodies that parser and validation read alike. The others: a form
  with a repeated key, which the parser calls a string and the validation an array, or
  with a value that is no string; a multipart form; a JSON array; JSON with
  comments; JSON under another content type, which the parser takes keys from also
  when the collection does not say what it is (`I/postman/parser.go:505`,
  `F/api-specs/validation.go:96`). And those mocks where some query keys, but not all,
  have the name of a wildcard of the path, which are then not expected and still sent
  (`F/api-specs/validation.go:66`).
* Where the driver counts changed rows, as MySQL does with the DSN of `mysqlDSN`, a
  variable saved again with the same value in the same second is answered "not
  found" (`F/environment-variables/service.go:169`). `AnswersStand` says that "not
  found" is then at least harmless: the variable is as the client wanted it.

## Fairness

* hub: weak fairness of `ServeStep` and `BroadcastStep`, which the Go scheduler
  gives a goroutine that can run. Nothing is assumed of peers: a write to one
  may block for ever.
* proxy configuration: weak fairness of the work of an update, strong fairness of Lock:
  `sync.Mutex` hands itself to a waiter that has starved for a millisecond. Nothing is
  assumed of readers, and no update waits for one.
* public proxy: weak fairness of handlers, whose calls have a timeout
  (`newProxyHTTPClient`), and of shadow goroutines that hold the mutex; strong
  fairness of the mutex. Nothing is assumed of shadow fetches. audit_retention is
  violated under the same fairness: every goroutine that exists runs.
* schema: weak fairness of a start's next statement; a stop may come first, `MaxStops` times.

## Proofs

TLAPS checks these for every value of the constants, from the assumptions
named in the modules.

* `RealtimeHubProofs`: TypeInv, ChannelLifecycle, BufferBound, NoLeakedClient,
  NoSilentLoss. TypeInv and ChannelLifecycle are inductive together. NoSilentLoss
  is not: `Visited` says which clients an unfinished broadcast has served,
  `Bookkeeping` ties snapshot, rest and victim to the broadcaster's place, and
  `HubInv` joins them.
* `RateLimiterProofs`: TypeInv, CountsAdmitted, BucketsRecent, WindowsApart and the
  refinement of FixedWindow. The buckets and the history may differ only for a key
  whose window began two windows ago (`Faithful`), and a waiting request's
  sample is at most a window old (`SampleRecent`, from MaxLag <= Window), so it
  decides alike by either (`SameDecision`).
* `ProxyConfigProofs`: TypeInv, AnswerIsSaved, AnnouncedIsStored, OnlyAsked,
  for any number of fields. Only the holder of the mutex writes (`Exclusive`),
  so what an update merged at its start still describes the fields it was not
  given (`MergedCurrent`).
  In the same module: the gate implements ProxyConfigStore (`GateStep`), so these
  hold beside readers; ReadIsRegular; VerdictStands. Each row says
  what it may (`SaidHolds`): an update's values are added when it starts
  saving and the others removed when it has saved all of it, by when every row it
  was given holds its value (`SayingSound`, from `MergedCurrent` and `Exclusive`).
  What a reader may have seen only grows while it reads (`MayGrows`), so each row
  read is regular and stays so, and a verdict is drawn from regular rows.
* `ApiSpecProofs`: SelectedIsExample, OneActive, MutexReleased, AnnouncedIsDone,
  and the action properties NoSecondRow, NoLostExample, VersionIsTable,
  RestoreIsExact, DeletedStaysDeleted, of the store with the tools at work on it.
  `Exclusion` says that a goroutine is at work in the store exactly when it holds the
  mutex; so what one has read (`WorkIs`: the row it found, the draft it makes, the
  pieces of the version it saves) still describes the tables when it writes.
  `Fine` is what every table is, live, drafted or saved as a version: sound rows of
  ids that were given out, one active row on a route no import has opened. `CallIs` says
  of a tool's call what the store has kept of it so far. The action properties
  follow from two lemmas: a step writes through one goroutine at work
  (`StepsWrite`), and no other is at work then (`WriterAlone`).
* `PublicProxyProofs`: ShadowsForTargets, RecordHeardFirst, EventsAreStored,
  NoTargetForgotten, SteadyRouteServed. `Recording` ties the record and its event to
  the place of its request, `Shadowing` each target's entry and event to the place of its
  goroutine, with the requests with a failed step (`failed`) as the only exceptions. `Routing` says that a request on its way has seen the
  route's flags as they are now, so what it saw in two reads differs only if they changed.
* `EnvironmentStoreProofs`: ImportStands, ShownWhenQuiet, RenameKeepsOthers and
  AnswersStand, on both kinds of driver. `UploadStands` says of every item an
  upload has passed that it is stored or that another request wrote its name since;
  `SeenIsDue` that viewers lag only for a name that a request still owes an
  announcement of, that waits in an event, or whose writer ended without one.
* `StartupProofs`, the schema: RowsSurvive and CleanWithoutLeftover, for any number of rows
  and stops. The place of a start says what the tables hold (`Tables`): a copy is filled
  only when just made, and the old table is gone only when all is in the
  copy. `Unbroken` says that `api_mocks` is `Whole`, its examples with it,
  while no copy is there and until it is dropped, and the copy from then until it
  takes the name; the examples outlive the drop because foreign keys are off then.
* `StartupProofs`, the modules: SharedServices and FailsForCause, for every list of
  modules and plugins, of any length and in any order. An entry of the container
  is found under its own type for good (`Registered`), so whoever was given it
  holds what is found now (`Agreed`). The list that a module registers has before each
  service what it needs (`Closed`, lemma by lemma for the lists the code
  concatenates), so nothing of the program's own is missing (`Pending`); and a module
  name, a store or a route that is taken was taken by an entry loaded before
  (`Causes`), which is the cause of the clash. The proof corrected the property: a
  plugin that a wildcard found and that was skipped had counted as loaded, so a
  list in which the only store was skipped seemed to fail without a cause.
* `SpecExchangeProofs`: ImportedIsServed and ExampleAccepted, for every collection,
  document, environment and number of imports. The inductive invariant `TableInv` says
  that at the route of every request of the last collection there is the row it makes
  or that of another request with that route (`Brought`). It rests on what an import
  leaves (`ImportHolds`: a row of some definition at each key) and on what `Collect`
  finds (`CollectItems`: the leaves of the collection and nothing else, by induction
  over its levels). From there to the answer: the order in which variables are
  replaced does not matter to a settled path (`ReplacedAtOnce`, by induction over the
  order); the row's path and the one Postman sends have the same segments
  (`RowSegments`); a path matches itself with its wildcards filled in
  (`FilledMatches`); and a row that matches whatever the order is answered by, unless
  a rival comes first (`RowAnswers`). What is sent is what the parser expects exactly
  for the bodies of `ReadAlike`, mode by mode (`BodyReadAlike`). The induction theorems of the library take
  operators, so induction is done over sets of numbers and of sequences
  (`AllNumbers`, `UpTo`, `AllSequences`), from well-foundedness. The proof corrected
  two definitions: in `NormalizePath` the cases of the parser overlapped, where the
  code takes the first; and `ExampleAccepted` did not say when a query key named as a
  wildcard lets the mock refuse.

Assumptions on constants are the named ones of each module. Those of SpecExchange say
that its inputs are documents at all: a collection has at most `Levels` levels, paths
are made of segments, environments and OpenAPI documents are finite, and a scheme is
no template. Two are there for the proofs alone: `ClockAssumption` (EnvironmentStore's
clock is bounded by a number) and `NoCallAssumption` (the mark of a goroutine without
a call is no call).

The theorems on BufferBound, CountsAdmitted, WindowsApart, AnswerIsSaved and the types of
the hub, the limiter and the store have no run of their own: they hold for every
value of the constants.

Only model-checked: the liveness properties (BroadcastEnds, EvictedHandlerEnds,
UpdatesEnd, RequestsAnswered, StartEnds), which the prover does not
reach, and RoundTrip of SpecExchange, which would need the exports as well: that a
tree of folders built from rows (`FolderItems`) is collected again into those rows,
and that rows sorted by route (`InRouteOrder`) are all there and in an order that a
second instance keeps. Every other property of a passing run is a theorem.

## Not modelled

* Header rules, placeholders and DSNs, sanitising, ids: pure functions of their
  input.
* Of the two document formats: values, sample bodies and headers. A body is its keys
  with their types, an example its status. Keys have no spaces around them, and the
  variables of a GraphQL body are JSON. `sampleForSchema` does not end on a schema that
  mentions itself (`F/api-specs/spec_transform.go:587`); a schema is the types of its
  properties here.
* An MCP update also clears the request headers and the raw body of a spec
  (`manualInput`); McpTools has the fields its properties tell apart.
* `PruneBefore` of the audit log, which nothing calls.
* `ensurePublicIDs` gives ids to rows of databases older than public ids
  (`F/api-specs/repository.go:610`).
* The websocket passthrough copies bytes. Opening plugin files is the Go runtime's.
* `FeaturePluginRegistry` is never constructed.
* The other SQL providers' schema statements are idempotent and have no rebuild.
* The frontend is a built bundle; on an event it reads again.
* Liveness of the API store: every path out of an operation releases the mutex
  (`MutexReleased`), but with fairness the state graph of api_specs is too large
  for TLC's liveness check.

## Plan

1. Done: the hub, the limiter, the proxy configuration with its readers and the MCP
   gate, their proofs; the API store with the MCP tools; formats, matching and the
   exchange of files; the public proxy with the audit log; the container and start-up with
   plugins; the schema with its proof; the environment variables.
2. Changed-row counts in ApiSpecStore: `SaveManual` reads the same MySQL count as
   the environment variables do (`F/config/mcp/rpc.go:388`).
3. PublicProxy over RealtimeHub and RateLimiter, as one composition; pages of the
   audit log read while records come in.
4. HeaderRules and the sampling of schemas as pure operators; ids for old rows.
5. Proofs: done for every safety property but RoundTrip. Left: its two halves, that
   sorting by route loses no row, and that exporting and collecting give the same
   definitions.
