--------------------------- MODULE ModuleStartup ---------------------------
(***************************************************************************)
(* How the program is put together (app/modules.go, container/loader.go    *)
(* and the container.go of every feature): the modules named by the        *)
(* configuration are loaded one after the other; each first makes sure     *)
(* that the services it needs are in the service container, then has its   *)
(* fields filled, is registered itself and mounts its routes.  Services    *)
(* hold a mutex and a hub each, so it matters that all users of a service  *)
(* share one.                                                              *)
(*                                                                         *)
(* A service is registered under its type and a name; here the name stands *)
(* for both.  A bean <<t, owner>> is of type t.                            *)
(*                                                                         *)
(* A definition headed "Mutated form" is a plausible bug that a check run  *)
(* puts in the place of the definition that follows it.                    *)
(***************************************************************************)
EXTENDS Integers, Sequences, FiniteSets

CONSTANT Plans   \* what may be configured: sequences of entries

VARIABLES
  byType, byName,  \* the service container
  plan,      \* the entries to load: built-in modules or plugins
  at,        \* the entry that is being loaded
  stage,     \* where its loading is
  todo,      \* services it has still to make sure of
  given,     \* given[b]: what the constructor or the fields of b were given
  routes,    \* routes mounted on the two routers
  features   \* the feature list of the feature flag service

vars == <<byType, byName, plan, at, stage, todo, given, routes, features>>

-----------------------------------------------------------------------------
(* The features: the services that RegisterContainers makes sure of, in    *)
(* its order.                                                              *)

(* A service, what its constructor must be given, and whether it takes the *)
(* hub if there is one (GetOptional).                                      *)
Service(t, needs, hub) == [type |-> t, needs |-> needs, hub |-> hub]

Realtime == <<Service("realtimeHub", {}, FALSE)>>

Environment ==
  Realtime
    \o <<Service("environmentService", {"database"}, FALSE),
         Service("environmentHandler", {"environmentService"}, TRUE)>>

(* Mutated form: it relies on the environment module.                      *)
ApiSpecsAlone ==
  <<Service("mockAPIRepository", {"database"}, FALSE),
    Service("mockAPIService", {"mockAPIRepository", "environmentService"}, FALSE),
    Service("mockAPIHandler", {"mockAPIService"}, TRUE)>>

ApiSpecs ==
  Environment
    \o <<Service("mockAPIRepository", {"database"}, FALSE),
         Service("mockAPIService", {"mockAPIRepository", "environmentService"}, FALSE),
         Service("mockAPIHandler", {"mockAPIService"}, TRUE)>>

ProxyConfig ==
  Realtime
    \o <<Service("proxyConfigService", {"database"}, FALSE),
         Service("proxyConfigHandler", {"proxyConfigService"}, TRUE)>>

AuditLog ==
  <<Service("auditLogService", {"database"}, FALSE),
    Service("auditLogHandler", {"auditLogService"}, FALSE)>>

Mcp ==
  Realtime \o Environment \o ApiSpecs \o ProxyConfig \o AuditLog
    \o <<Service("mcpService", {"database", "mockAPIService", "environmentService",
                                "proxyConfigService", "auditLogService"}, TRUE),
         Service("mcpHandler", {"mcpService"}, TRUE)>>

ConfigFeature == ProxyConfig \o Mcp

PublicProxy ==
  ApiSpecs \o ProxyConfig \o AuditLog \o Realtime
    \o <<Service("publicProxyHandler",
                 {"mockAPIService", "proxyConfigService", "auditLogService"}, TRUE)>>

FeatureFlag ==
  <<Service("featureFlagService", {}, FALSE),
    Service("featureFlagHandler", {"featureFlagService"}, FALSE)>>

Health ==
  <<Service("healthAdminHandler", {}, FALSE), Service("healthPublicHandler", {}, FALSE)>>

(* Plugins of third parties (pkg/pluginpkg): one brings its own hub, three *)
(* bring a store each, one of which is registered as the interface "store" *)
(* as well (AsType), two have a field of that interface, and one relies on *)
(* modules that have been loaded before it.                                *)
Bean(b, as) == [bean |-> b, as |-> as]

ThirdParty ==
  [customHub |-> Bean(<<"realtimeHub", "custom">>, {}),
   sqlite |-> Bean(<<"sqliteStore", "own">>, {}),
   memory |-> Bean(<<"memoryStore", "own">>, {}),
   main |-> Bean(<<"mainStore", "own">>, {"store"})]

StoreTypes == {"sqliteStore", "memoryStore", "mainStore"}

Registers(x) == <<Service(x, {}, FALSE)>>
Viewer == <<Service("viewerService", {"auditLogService"}, FALSE)>>

Module(containers, fields, mounts) ==
  [containers |-> containers, fields |-> fields, mounts |-> mounts]

(* The modules by name: RegisterContainers, injected fields, routes.       *)
Modules ==
  [realtime |-> Module(Realtime, {"realtimeHub"}, {"ws"}),
   featureflag |-> Module(FeatureFlag, {"featureFlagHandler"}, {"features"}),
   healthAdmin |-> Module(Health, {"healthAdminHandler"}, {"healthz"}),
   healthPublic |-> Module(Health, {"healthPublicHandler"}, {"healthz"}),
   environment |-> Module(Environment, {"environmentHandler"}, {"environment"}),
   apiSpecs |-> Module(ApiSpecs, {"mockAPIHandler"}, {"apis"}),
   apiSpecEditor |-> Module(ApiSpecs, {"mockAPIHandler"}, {"editor"}),
   snapshot |-> Module(ApiSpecs, {"mockAPIHandler"}, {"versions"}),
   config |-> Module(ConfigFeature, {"proxyConfigHandler", "mcpHandler"}, {"proxy-config", "mcp"}),
   mcp |-> Module(Mcp, {"mcpHandler"}, {"mcp"}),
   proxyconfig |-> Module(ProxyConfig, {"proxyConfigHandler"}, {"proxy-config"}),
   auditLog |-> Module(AuditLog, {"auditLogHandler"}, {"audit-logs"}),
   directRequest |-> Module(AuditLog, {"auditLogHandler"}, {"direct-request"}),
   proxyReplay |-> Module(AuditLog, {"auditLogHandler"}, {"replay"}),
   shadowCompare |-> Module(AuditLog, {"auditLogHandler"}, {}),
   proxy |-> Module(PublicProxy, {"publicProxyHandler"}, {}),
   custom |-> Module(Registers("customHub"), {}, {}),
   sqlitePlugin |-> Module(Registers("sqlite"), {}, {}),
   memoryPlugin |-> Module(Registers("memory"), {}, {}),
   mainPlugin |-> Module(Registers("main"), {}, {}),
   catalog |-> Module(<<>>, {"store"}, {}),
   report |-> Module(<<>>, {"store"}, {}),
   viewer |-> Module(Viewer, {"viewerService", "mcpHandler"}, {})]

Steps == UNION {{Modules[m].containers[i] : i \in DOMAIN Modules[m].containers} : m \in DOMAIN Modules}
Services == {x.type : x \in Steps} \ DOMAIN ThirdParty

-----------------------------------------------------------------------------
(* The service container.  The program's own types are pointers: none      *)
(* implements another one that is asked for.                               *)

AllTypes ==
  Services \cup DOMAIN Modules \cup StoreTypes \cup {"store", "database", "container"}
AllBeans == (AllTypes \X {"own"}) \cup {<<"database", "audit">>, <<"realtimeHub", "custom">>}

C == INSTANCE ServiceContainer WITH
       NoName <- "", TypeOf <- [b \in AllBeans |-> b[1]], Implements <- StoreTypes \X {"store"}

Found(t) == C!ResolveType(t) # {}

(* The database of the audit log is known by name only.                    *)
Given(x) ==
  (UNION {C!ResolveType(d) : d \in x.needs})
    \cup (IF x.hub THEN C!ResolveType("realtimeHub") ELSE {})
    \cup (IF x.type = "auditLogService" THEN {byName["auditDatabase"]} ELSE {})

(* Entries: a module, the side it is loaded for, and whether it was found  *)
(* by a wildcard.                                                          *)
Entry == [module : DOMAIN Modules, side : {"admin", "public"}, wildcard : BOOLEAN]

ASSUME PlansAssumption == Plans \subseteq Seq(Entry)

(* registerInfrastructureContainers.                                       *)
Init ==
  /\ byType = [t \in {"container", "database"} |-> <<t, "own">>]
  /\ byName = [n \in {"container", "database", "auditDatabase"} |->
                 IF n = "auditDatabase" THEN <<"database", "audit">> ELSE <<n, "own">>]
  /\ plan \in Plans /\ at = 1 /\ stage = "loading" /\ todo = <<>>
  /\ given = [b \in {} |-> {}]
  /\ routes = {} /\ features = {}

Current == plan[at]
Wired(m) == \A t \in Modules[m].fields : Found(t)

(* given, with what b is given.                                            *)
Extended(b, got) == [c \in DOMAIN given \cup {b} |-> IF c = b THEN got ELSE given[c]]

Fail == stage' = "failed" /\ UNCHANGED <<byType, byName, plan, at, todo, given, routes, features>>

-----------------------------------------------------------------------------

(* The symbol that the plugin exports for this side.                       *)
Exports(e) ==
  IF e.module \in {"proxy", "healthPublic"} THEN e.side = "public" ELSE e.side = "admin"

(* A plugin found by a wildcard that has no module for this side.          *)
Skipped(e) == e.wildcard /\ ~Exports(e)

Skip ==
  /\ stage = "loading" /\ at <= Len(plan) /\ Skipped(Current)
  /\ at' = at + 1
  /\ UNCHANGED <<byType, byName, plan, stage, todo, given, routes, features>>

Load ==
  /\ stage = "loading" /\ at <= Len(plan) /\ ~Skipped(Current)
  /\ todo' = Modules[Current.module].containers
  /\ stage' = "containers"
  /\ UNCHANGED <<byType, byName, plan, at, given, routes, features>>

Asks == stage = "containers" /\ todo # <<>> /\ Head(todo).type \in Services
AsksThirdParty == stage = "containers" /\ todo # <<>> /\ Head(todo).type \in DOMAIN ThirdParty

Keep ==
  /\ Asks /\ Found(Head(todo).type)
  /\ todo' = Tail(todo)
  /\ UNCHANGED <<byType, byName, plan, at, stage, given, routes, features>>

(* The service is not there: it is built and registered.                   *)
Build ==
  LET x == Head(todo)
      b == <<x.type, "own">> IN
  /\ Asks /\ ~Found(x.type) /\ \A d \in x.needs : Found(d)
  /\ C!Register(b, x.type, TRUE, {})
  /\ given' = Extended(b, Given(x))
  /\ todo' = Tail(todo)
  /\ UNCHANGED <<plan, at, stage, routes, features>>

BuildFails ==
  /\ Asks /\ ~Found(Head(todo).type) /\ \E d \in Head(todo).needs : ~Found(d)
  /\ Fail

(* What a third party brings is registered without looking for another one. *)
RegisterThirdParty ==
  LET n == Head(todo).type IN
  /\ AsksThirdParty
  /\ C!Register(ThirdParty[n].bean, n, TRUE, ThirdParty[n].as)
  /\ todo' = Tail(todo)
  /\ UNCHANGED <<plan, at, stage, given, routes, features>>

ThirdPartyFails ==
  /\ AsksThirdParty
  /\ LET n == Head(todo).type IN ~C!Valid(ThirdParty[n].bean, n, TRUE, ThirdParty[n].as)
  /\ Fail

(* wireModule: Autowire, then the module is registered under its name.     *)
Wire ==
  LET m == Current.module IN
  /\ stage = "containers" /\ todo = <<>> /\ Wired(m)
  /\ C!Register(<<m, "own">>, m, TRUE, {})
  /\ given' = Extended(<<m, "own">>, UNION {C!ResolveType(t) : t \in Modules[m].fields})
  /\ stage' = "mounting"
  /\ UNCHANGED <<plan, at, todo, routes, features>>

WireFails ==
  /\ stage = "containers" /\ todo = <<>>
  /\ \/ ~Wired(Current.module)
     \/ ~C!Valid(<<Current.module, "own">>, Current.module, TRUE, {})
  /\ Fail

Mounts(e) == {e.side} \X Modules[e.module].mounts

Mount ==
  /\ stage = "mounting" /\ Mounts(Current) \cap routes = {}
  /\ routes' = routes \cup Mounts(Current)
  /\ at' = at + 1 /\ stage' = "loading"
  /\ UNCHANGED <<byType, byName, plan, todo, given, features>>

(* gin panics when a route is added twice.                                 *)
MountPanics == stage = "mounting" /\ Mounts(Current) \cap routes # {} /\ Fail

(* publishLoadedFeatures, and the servers listen.                          *)
Publish ==
  /\ stage = "loading" /\ at > Len(plan)
  /\ stage' = "started"
  /\ features' = IF Found("featureFlagService") THEN DOMAIN byName ELSE {}
  /\ UNCHANGED <<byType, byName, plan, at, todo, given, routes>>

Next ==
  \/ Skip \/ Load \/ Keep \/ Build \/ BuildFails \/ RegisterThirdParty \/ ThirdPartyFails
  \/ Wire \/ WireFails \/ Mount \/ MountPanics \/ Publish

Spec == Init /\ [][Next]_vars

-----------------------------------------------------------------------------
(* Properties.                                                             *)

(* All that was built shares its services: whatever the order of modules,  *)
(* two users of a service hold the same one, so that its mutex excludes    *)
(* them from each other.  The audit log alone has two databases            *)
(* (audit-log/container.go:50-69).  Two users of an interface hold the     *)
(* same implementation, unless a plugin registered its own under the       *)
(* interface between them (container.go:317-355).                          *)
SharedServices ==
  \A b, c \in DOMAIN given : \A d \in given[b], e \in given[c] :
    /\ d = byType[d[1]] \/ (d = <<"database", "audit">> /\ b[1] = "auditLogService")
    /\ {d[1], e[1]} \subseteq StoreTypes =>
         d = e \/ ("store" \in DOMAIN byType /\ byType["store"] \in {d, e})

(* The entries that have not been skipped. *)
Loaded == {i \in 1..at : i <= Len(plan) /\ ~Skipped(plan[i])}

LoadedStores ==
  {plan[i].module : i \in Loaded \ {at}} \cap {"sqlitePlugin", "memoryPlugin", "mainPlugin"}

(* Starting fails only if two modules are the same or mount the same       *)
(* route, if a third party's plugin comes too early or too late, or if the *)
(* interface it asks for has no implementation or more than one, none of   *)
(* which was registered as the interface: no order of the program's own    *)
(* modules lacks a service.                                                *)
FailsForCause ==
  stage = "failed" =>
    \/ Current.module = "viewer"
    \/ /\ Current.module \in {"catalog", "report"}
       /\ Cardinality(LoadedStores) # 1 /\ "mainPlugin" \notin LoadedStores
    \/ \E i, j \in Loaded :
         /\ i < j
         /\ \/ plan[i].module = plan[j].module
            \/ Mounts(plan[i]) \cap Mounts(plan[j]) # {}
            \/ plan[j].module = "custom"

=============================================================================
