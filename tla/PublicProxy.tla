---------------------------- MODULE PublicProxy ----------------------------
(***************************************************************************)
(* The public side of the gateway (features/proxy/handler.go) and what it  *)
(* leaves in the audit log (features/audit-log/service.go): the middleware *)
(* decides between mock, proxy and pass-through with several reads of      *)
(* tables that the admin side changes meanwhile; a proxied request is sent *)
(* to the real server, recorded, announced and sent to the shadow servers  *)
(* by goroutines that outlive it.  Nothing in this version of the program  *)
(* calls startAuditRetention (app/app.go:111), and nothing else deletes    *)
(* audit records, so no step here does.                                    *)
(*                                                                         *)
(* One route with one API row is modelled, and a request makes one audit   *)
(* row at most, so the row is named by the request.  The hub is taken as   *)
(* the set of events that were broadcast, or a panic (RealtimeHub).        *)
(*                                                                         *)
(* A definition headed "Mutated form" is a plausible bug that a check run  *)
(* puts in the place of the definition that follows it.                    *)
(***************************************************************************)
EXTENDS Naturals

CONSTANTS
  Requests,    \* requests that reach the public server
  Endpoints,   \* shadow endpoints
  Configs,     \* Configs[r]: proxy configurations that r may read
  Modes,       \* what the table says of the route, at first and later
  Nobody,      \* no holder of the audit service's writeMu
  MaxChanges   \* bound: changes of the API row

(* "absent": no row; "off": a row with both flags cleared.                 *)
AllModes == {"absent", "off", "mock", "proxy", "both"}
Config == [audit : BOOLEAN, capture : BOOLEAN, real : BOOLEAN, shadows : SUBSET Endpoints]

ASSUME ConfigsAssumption == Configs \in [Requests -> SUBSET Config]
ASSUME ModesAssumption == Modes \subseteq AllModes
ASSUME ProxyBoundsAssumption == MaxChanges \in Nat

VARIABLES
  mode,      \* the flags of the API row
  changes,   \* how often they have changed
  place,     \* place[r]: where the handler of r is
  cfg,       \* cfg[r]: the configuration it has read
  answer,    \* answer[r]: how it was answered
  seen,      \* history: modes of the route during the request
  auditMu,   \* the holder of the audit service's writeMu
  rows,      \* audit rows
  shadowRows,\* rows of proxy_audit_log_shadows
  launched,  \* launched[r]: endpoints whose goroutine has been started
  shadow,    \* shadow[r][e]: where that goroutine is
  events,    \* history: events broadcast
  failed     \* history: requests some step of which failed or was cut off

route == <<mode, changes>>
log == <<rows, shadowRows>>
shadows == <<launched, shadow>>
handler == <<place, cfg, answer>>
vars == <<route, handler, seen, auditMu, log, shadows, events, failed>>

Pairs == Requests \X Endpoints

NoConfig == [audit |-> FALSE, capture |-> FALSE, real |-> FALSE, shadows |-> {}]

Init ==
  /\ mode \in Modes /\ changes = 0
  /\ place = [r \in Requests |-> "new"]
  /\ cfg = [r \in Requests |-> NoConfig]
  /\ answer = [r \in Requests |-> "none"]
  /\ seen = [r \in Requests |-> {}]
  /\ auditMu = Nobody
  /\ rows = {} /\ shadowRows = {}
  /\ launched = [r \in Requests |-> {}]
  /\ shadow = [p \in Pairs |-> "none"]
  /\ events = {} /\ failed = {}

Mocks(m) == m \in {"mock", "both"}

GoTo(r, p) == place' = [place EXCEPT ![r] = p] /\ UNCHANGED <<cfg, answer>>

Reply(r, a) ==
  /\ place' = [place EXCEPT ![r] = "end"]
  /\ answer' = [answer EXCEPT ![r] = a]
  /\ UNCHANGED cfg

-----------------------------------------------------------------------------
(* Middleware.                                                             *)

(* proxyConfig.Get reads six rows: any mixture of what others write.  The  *)
(* request may be refused by the rate limit or the filters.                *)
Arrive(r) ==
  /\ place[r] = "new"
  /\ \E c \in Configs[r] :
       /\ cfg' = [cfg EXCEPT ![r] = c]
       /\ \/ /\ place' = [place EXCEPT ![r] = IF c.capture THEN "capturing" ELSE "mocks"]
             /\ UNCHANGED answer
          \/ /\ place' = [place EXCEPT ![r] = "end"]
             /\ answer' = [answer EXCEPT ![r] = "blocked"]
  /\ seen' = [seen EXCEPT ![r] = {mode}]
  /\ UNCHANGED <<route, auditMu, log, shadows, events, failed>>

(* A websocket upgrade is handed to the real server as it is: no limits,   *)
(* no mock, no record.                                                     *)
Tunnel(r) ==
  /\ place[r] = "new"
  /\ \E c \in Configs[r] : Reply(r, IF c.real THEN "tunnelled" ELSE "badGateway")
  /\ UNCHANGED <<route, seen, auditMu, log, shadows, events, failed>>

(* A read of the configuration or of the tables fails.                     *)
ReadFails(r) ==
  /\ place[r] \in {"new", "mocks", "routes", "capturing"}
  /\ Reply(r, "error")
  /\ UNCHANGED <<route, seen, auditMu, log, shadows, events, failed>>

FindActiveMock(r) ==
  /\ place[r] = "mocks"
  /\ GoTo(r, IF Mocks(mode) THEN "mocking" ELSE "routes")
  /\ UNCHANGED <<route, seen, auditMu, log, shadows, events, failed>>

(* The keys and parameters are right, or not.                              *)
ServeMock(r) ==
  /\ place[r] = "mocking"
  /\ \E a \in {"mock", "invalid"} : Reply(r, a)
  /\ UNCHANGED <<route, seen, auditMu, log, shadows, events, failed>>

(* Mutated form: the mock flag is tested the wrong way round.              *)
FindRouteNever(r) ==
  /\ place[r] = "routes"
  /\ IF mode = "both" THEN GoTo(r, "fetching") ELSE Reply(r, "passed")
  /\ UNCHANGED <<route, seen, auditMu, log, shadows, events, failed>>

FindRoute(r) ==
  /\ place[r] = "routes"
  /\ IF mode = "proxy" THEN GoTo(r, "fetching") ELSE Reply(r, "passed")
  /\ UNCHANGED <<route, seen, auditMu, log, shadows, events, failed>>

(* With capture on, every request is proxied, whatever the row says.       *)
FindCaptureRoute(r) ==
  /\ place[r] = "capturing"
  /\ GoTo(r, "fetching")
  /\ UNCHANGED <<route, seen, auditMu, log, shadows, events, failed>>

-----------------------------------------------------------------------------
(* proxy and captureProxy.                                                 *)

NoRealServer(r) ==
  /\ place[r] = "fetching" /\ ~cfg[r].real
  /\ Reply(r, "badGateway")
  /\ UNCHANGED <<route, seen, auditMu, log, shadows, events, failed>>

(* The real server answers, or fails, within the client's timeout; which   *)
(* of them it was shows again in the answer.                               *)
Fetch(r) ==
  /\ place[r] = "fetching" /\ cfg[r].real
  /\ GoTo(r, IF cfg[r].audit THEN "locking" ELSE "active")
  /\ UNCHANGED <<route, seen, auditMu, log, shadows, events, failed>>

LockAudit(r) ==
  /\ place[r] = "locking" /\ auditMu = Nobody
  /\ auditMu' = r
  /\ GoTo(r, "inserting")
  /\ UNCHANGED <<route, seen, log, shadows, events, failed>>

InsertAudit(r) ==
  /\ place[r] = "inserting"
  /\ rows' = rows \cup {r}
  /\ GoTo(r, "reading")
  /\ UNCHANGED <<route, seen, auditMu, shadowRows, shadows, events, failed>>

(* Mutated form: the shadows are started before the record is announced.   *)
ReadBackLaunches(r) ==
  /\ place[r] = "reading"
  /\ auditMu' = Nobody
  /\ GoTo(r, IF cfg[r].capture THEN "announcing" ELSE "launching")
  /\ UNCHANGED <<route, seen, log, shadows, events, failed>>

(* GetByInternalID, still under writeMu.                                   *)
ReadBack(r) ==
  /\ place[r] = "reading"
  /\ auditMu' = Nobody
  /\ GoTo(r, "announcing")
  /\ UNCHANGED <<route, seen, log, shadows, events, failed>>

(* Mutated form: the mutex stays locked after an error.                    *)
AuditErrorLocked(r) ==
  /\ place[r] \in {"inserting", "reading"}
  /\ failed' = failed \cup {r}
  /\ GoTo(r, IF cfg[r].capture THEN "active" ELSE "plain")
  /\ UNCHANGED <<route, seen, auditMu, log, shadows, events>>

(* Create returns an error (the client is gone, or the database fails):    *)
(* nothing is announced, and the shadows are called without being recorded. *)
AuditError(r) ==
  /\ place[r] \in {"inserting", "reading"}
  /\ auditMu' = Nobody
  /\ failed' = failed \cup {r}
  /\ GoTo(r, IF cfg[r].capture THEN "active" ELSE "plain")
  /\ UNCHANGED <<route, seen, log, shadows, events>>

BroadcastCreated(r) ==
  /\ place[r] = "announcing"
  /\ events' = events \cup {<<"created", r>>}
  /\ GoTo(r, "active")
  /\ UNCHANGED <<route, seen, auditMu, log, shadows, failed>>

(* broadcastActivity, and on to the shadows.  captureProxy has none.       *)
BroadcastActivity(r) ==
  /\ place[r] = "active"
  /\ GoTo(r, IF cfg[r].capture THEN "replying" ELSE IF cfg[r].audit THEN "launching" ELSE "plain")
  /\ UNCHANGED <<route, seen, auditMu, log, shadows, events, failed>>

(* The hub panics; gin.Recovery answers.                                   *)
BroadcastPanics(r) ==
  /\ place[r] \in {"mocking", "announcing", "active"}
  /\ Reply(r, "error")
  /\ failed' = failed \cup {r}
  /\ UNCHANGED <<route, seen, auditMu, log, shadows, events>>

Start(r, e, how) ==
  /\ launched' = [launched EXCEPT ![r] = @ \cup {e}]
  /\ shadow' = [shadow EXCEPT ![<<r, e>>] = how]
  /\ UNCHANGED <<route, handler, seen, auditMu, log, events, failed>>

(* Mutated form: the endpoints are those of the configuration by then.     *)
LaunchAnew(r) ==
  /\ place[r] = "launching"
  /\ \E c \in Configs[r] : \E e \in c.shadows \ launched[r] : Start(r, e, "fetching")

Launch(r) ==
  /\ place[r] = "launching"
  /\ \E e \in cfg[r].shadows \ launched[r] : Start(r, e, "fetching")

LaunchPlain(r) ==
  /\ place[r] = "plain"
  /\ \E e \in cfg[r].shadows \ launched[r] : Start(r, e, "plain")

(* Mutated form: one endpoint is enough.                                   *)
LaunchedOne(r) ==
  /\ place[r] \in {"launching", "plain"} /\ (launched[r] # {} \/ cfg[r].shadows = {})
  /\ GoTo(r, "replying")
  /\ UNCHANGED <<route, seen, auditMu, log, shadows, events, failed>>

Launched(r) ==
  /\ place[r] \in {"launching", "plain"} /\ cfg[r].shadows \subseteq launched[r]
  /\ GoTo(r, "replying")
  /\ UNCHANGED <<route, seen, auditMu, log, shadows, events, failed>>

(* The answer of the real server, or 502 if it failed.                     *)
ReplyProxied(r) ==
  /\ place[r] = "replying"
  /\ \E a \in {"proxied", "badGateway"} : Reply(r, a)
  /\ UNCHANGED <<route, seen, auditMu, log, shadows, events, failed>>

-----------------------------------------------------------------------------
(* The shadow goroutine of a pair <<r, e>>.                                *)

Shadow(p, to) == shadow' = [shadow EXCEPT ![p] = to] /\ UNCHANGED launched

(* The request to the endpoint comes to an end within its timeout.         *)
ShadowFetch(p) ==
  /\ shadow[p] \in {"fetching", "plain"}
  /\ Shadow(p, IF shadow[p] = "plain" THEN "done" ELSE "locking")
  /\ UNCHANGED <<route, handler, seen, auditMu, log, events, failed>>

ShadowLock(p) ==
  /\ shadow[p] = "locking" /\ auditMu = Nobody
  /\ auditMu' = p
  /\ Shadow(p, "updating")
  /\ UNCHANGED <<route, handler, seen, log, events, failed>>

(* UPDATE: if there is no such row, INSERT follows.                        *)
ShadowUpdate(p) ==
  /\ shadow[p] = "updating"
  /\ IF p \in shadowRows THEN auditMu' = Nobody /\ Shadow(p, "announcing")
                         ELSE UNCHANGED auditMu /\ Shadow(p, "inserting")
  /\ UNCHANGED <<route, handler, seen, log, events, failed>>

(* The foreign key asks for the audit row.                                 *)
ShadowInsert(p) ==
  /\ shadow[p] = "inserting" /\ p[1] \in rows
  /\ shadowRows' = shadowRows \cup {p}
  /\ auditMu' = Nobody
  /\ Shadow(p, "announcing")
  /\ UNCHANGED <<route, handler, seen, rows, events, failed>>

(* Mutated form: the error of CreateShadow is not looked at.               *)
ShadowErrorIgnored(p) ==
  /\ shadow[p] \in {"updating", "inserting"}
  /\ auditMu' = Nobody
  /\ Shadow(p, "announcing")
  /\ UNCHANGED <<route, handler, seen, log, events, failed>>

(* A statement fails.                                                      *)
ShadowError(p) ==
  /\ shadow[p] \in {"updating", "inserting"}
  /\ auditMu' = Nobody
  /\ Shadow(p, "done")
  /\ failed' = failed \cup {p[1]}
  /\ UNCHANGED <<route, handler, seen, log, events>>

ShadowAnnounce(p) ==
  /\ shadow[p] = "announcing"
  /\ events' = events \cup {<<"shadow", p>>}
  /\ Shadow(p, "done")
  /\ UNCHANGED <<route, handler, seen, auditMu, log, failed>>

-----------------------------------------------------------------------------
(* The rest of the system.                                                 *)

(* An admin request changes the row of the route.                          *)
ChangeRow ==
  /\ changes < MaxChanges
  /\ \E m \in Modes \ {mode} :
       /\ mode' = m
       /\ seen' = [r \in Requests |-> IF place[r] \in {"new", "end"} THEN seen[r]
                                      ELSE seen[r] \cup {m}]
  /\ changes' = changes + 1
  /\ UNCHANGED <<handler, auditMu, log, shadows, events, failed>>

Busy(r) == place[r] \notin {"new", "end"}
Running(p) == shadow[p] \notin {"none", "done"}

(* The process ends: Shutdown waits for handlers (for five seconds) but    *)
(* never for shadow goroutines; a panic in one of these has the same       *)
(* effect.                                                                 *)
Restart ==
  /\ \E r \in Requests : Busy(r) \/ \E e \in Endpoints : Running(<<r, e>>)
  /\ place' = [r \in Requests |-> IF Busy(r) THEN "end" ELSE place[r]]
  /\ answer' = [r \in Requests |-> IF Busy(r) THEN "lost" ELSE answer[r]]
  /\ shadow' = [p \in Pairs |-> IF Running(p) THEN "done" ELSE shadow[p]]
  /\ auditMu' = Nobody
  /\ failed' = failed \cup {r \in Requests :
                              Busy(r) \/ \E e \in Endpoints : Running(<<r, e>>)}
  /\ UNCHANGED <<route, cfg, seen, log, launched, events>>

-----------------------------------------------------------------------------

Decide(r) ==
  \/ ReadFails(r) \/ FindActiveMock(r) \/ ServeMock(r)
  \/ FindRoute(r) \/ FindCaptureRoute(r)

Record(r) ==
  \/ InsertAudit(r) \/ ReadBack(r) \/ AuditError(r)
  \/ BroadcastCreated(r) \/ BroadcastActivity(r) \/ BroadcastPanics(r)

Proxy(r) ==
  \/ NoRealServer(r) \/ Fetch(r) \/ Record(r)
  \/ Launch(r) \/ LaunchPlain(r) \/ Launched(r) \/ ReplyProxied(r)

StoreShadow(p) == ShadowUpdate(p) \/ ShadowInsert(p) \/ ShadowError(p)

Handle(r) == place[r] # "new" /\ (Decide(r) \/ Proxy(r))

Next ==
  \/ ChangeRow \/ Restart
  \/ \E r \in Requests : Arrive(r) \/ Tunnel(r) \/ Decide(r) \/ LockAudit(r) \/ Proxy(r)
  \/ \E p \in Pairs : ShadowFetch(p) \/ ShadowLock(p) \/ StoreShadow(p) \/ ShadowAnnounce(p)

Spec == Init /\ [][Next]_vars

(* Handlers and shadow goroutines that hold the mutex are run; the client  *)
(* has a timeout; sync.Mutex serves those that keep waiting.  Nothing is   *)
(* assumed of a shadow goroutine that does not hold the mutex.             *)
FairSpec ==
  /\ Spec
  /\ \A r \in Requests : WF_vars(Handle(r)) /\ SF_vars(LockAudit(r))
  /\ \A p \in Pairs : WF_vars(StoreShadow(p))

-----------------------------------------------------------------------------
(* Properties.                                                             *)

(* A record has shadow entries only for the targets it was recorded with,  *)
(* although the configuration may change before the goroutines are started *)
(* (handler.go:202-214, 250).                                              *)
ShadowsForTargets == \A p \in shadowRows : p[1] \in rows /\ p[2] \in cfg[p[1]].shadows

(* A listener never hears of a shadow entry before it has heard of its     *)
(* record, although they come from different goroutines (handler.go:       *)
(* 239-276).                                                               *)
RecordHeardFirst ==
  \A p \in Pairs : <<"shadow", p>> \in events => <<"created", p[1]>> \in events

(* What is announced is in the audit log: no event speaks of a row that    *)
(* was never stored (handler.go:239-241, 268-273).                         *)
EventsAreStored ==
  /\ \A r \in Requests :
       <<"created", r>> \in events => r \in rows
  /\ \A p \in Pairs :
       <<"shadow", p>> \in events => p \in shadowRows

(* A target of a record that has no entry is still being called, or some   *)
(* step of its request failed or was cut off: no target is forgotten       *)
(* (handler.go:246-276).                                                   *)
NoTargetForgotten ==
  \A p \in Pairs :
    (p[1] \in rows /\ ~cfg[p[1]].capture /\ p[2] \in cfg[p[1]].shadows)
      => p \in shadowRows \/ Running(p) \/ Busy(p[1]) \/ p[1] \in failed

(* A request is only passed on if the route was not the same all the time  *)
(* it was handled: a route that stays a mock is answered by the mock, one  *)
(* that stays proxied is proxied, although its row is read twice           *)
(* (handler.go:106-128).                                                   *)
SteadyRouteServed ==
  \A r \in Requests : answer[r] = "passed"
    => ~(\A m \in seen[r] : Mocks(m)) /\ seen[r] # {"proxy"}

(* A record is deleted in the end: the settings name the days that audit   *)
(* records are kept (app_config.go:14, 110), and those days pass.          *)
OldRecordsGo == \A r \in Requests : r \in rows ~> r \notin rows

(* A client gets its answer, or the process ends, however long the shadow  *)
(* endpoints take (handler.go:246-294).                                    *)
RequestsAnswered == \A r \in Requests : place[r] = "mocks" \/ place[r] = "capturing" ~> place[r] = "end"

=============================================================================
