---------------------------- MODULE StartupProofs ----------------------------
(***************************************************************************)
(* Proofs about ModuleStartup for every list of modules, of any length and *)
(* in any order.                                                           *)
(*                                                                         *)
(* An entry of the container is found under its own type as long as the    *)
(* container lives (Registered), so whoever asked for a type holds the one *)
(* that is found under it now (Agreed).                                    *)
(*                                                                         *)
(* The list of services that a module registers holds, before each one,    *)
(* what it needs (Closed), so a module of the program's own can be loaded  *)
(* after any others; and whatever stands in the container, the name map or *)
(* the routers was put there by an entry loaded before (Causes), so that a *)
(* clash has an earlier entry as its cause.                                *)
(***************************************************************************)
EXTENDS SchemaMigration, ModuleStartup, FiniteSetTheorems, WellFoundedInduction, TLAPS

-----------------------------------------------------------------------------
(* What the modules register and ask for.                                  *)

ServiceNames ==
  {"realtimeHub", "environmentService", "environmentHandler", "mockAPIRepository",
   "mockAPIService", "mockAPIHandler", "proxyConfigService", "proxyConfigHandler",
   "auditLogService", "auditLogHandler", "mcpService", "mcpHandler", "publicProxyHandler",
   "featureFlagService", "featureFlagHandler", "healthAdminHandler", "healthPublicHandler",
   "viewerService"}

ThirdParties == {"customHub", "sqlite", "memory", "main"}

Part ==
  [type : ServiceNames \cup ThirdParties, needs : SUBSET (ServiceNames \cup {"database"}),
   hub : BOOLEAN]

LEMMA ThirdPartyIs ==
  /\ DOMAIN ThirdParty = ThirdParties
  /\ ThirdParty["customHub"] = Bean(<<"realtimeHub", "custom">>, {})
  /\ ThirdParty["sqlite"] = Bean(<<"sqliteStore", "own">>, {})
  /\ ThirdParty["memory"] = Bean(<<"memoryStore", "own">>, {})
  /\ ThirdParty["main"] = Bean(<<"mainStore", "own">>, {"store"})
BY DEF ThirdParty, ThirdParties

LEMMA PartsAre ==
  /\ Realtime \in Seq(Part) /\ Environment \in Seq(Part) /\ ApiSpecs \in Seq(Part)
  /\ ProxyConfig \in Seq(Part) /\ AuditLog \in Seq(Part) /\ Mcp \in Seq(Part)
  /\ ConfigFeature \in Seq(Part) /\ PublicProxy \in Seq(Part) /\ FeatureFlag \in Seq(Part)
  /\ Health \in Seq(Part) /\ Viewer \in Seq(Part)
  /\ \A x \in ThirdParties : Registers(x) \in Seq(Part)
<1> USE DEF Service, ServiceNames, ThirdParties, Part
<1>1. Realtime \in Seq(Part)
  BY DEF Realtime
<1>2. Environment \in Seq(Part)
  BY <1>1 DEF Environment
<1>3. ApiSpecs \in Seq(Part)
  BY <1>2 DEF ApiSpecs
<1>4. ProxyConfig \in Seq(Part)
  BY <1>1 DEF ProxyConfig
<1>5. AuditLog \in Seq(Part)
  BY DEF AuditLog
<1>6. Mcp \in Seq(Part)
  BY <1>1, <1>2, <1>3, <1>4, <1>5 DEF Mcp
<1>7. ConfigFeature \in Seq(Part)
  BY <1>4, <1>6 DEF ConfigFeature
<1>8. PublicProxy \in Seq(Part)
  BY <1>1, <1>3, <1>4, <1>5 DEF PublicProxy
<1>9. FeatureFlag \in Seq(Part) /\ Health \in Seq(Part) /\ Viewer \in Seq(Part)
  BY DEF FeatureFlag, Health, Viewer
<1>10. \A x \in ThirdParties : Registers(x) \in Seq(Part)
  BY DEF Registers
<1> QED BY <1>1, <1>2, <1>3, <1>4, <1>5, <1>6, <1>7, <1>8, <1>9, <1>10

ModuleNames ==
  {"realtime", "featureflag", "healthAdmin", "healthPublic", "environment", "apiSpecs",
   "apiSpecEditor", "snapshot", "config", "mcp", "proxyconfig", "auditLog", "directRequest",
   "proxyReplay", "shadowCompare", "proxy", "custom", "sqlitePlugin", "memoryPlugin",
   "mainPlugin", "catalog", "report", "viewer"}

LEMMA ModuleNamesAre == DOMAIN Modules = ModuleNames
BY DEF Modules, ModuleNames

LEMMA ModulesAre ==
  ASSUME NEW m \in DOMAIN Modules
  PROVE  /\ Modules[m].containers \in Seq(Part)
         /\ Modules[m].fields \subseteq ServiceNames \cup {"store"}
<1> DEFINE Fine(x) == x.containers \in Seq(Part) /\ x.fields \subseteq ServiceNames \cup {"store"}
<1>1. ASSUME NEW c \in Seq(Part), NEW f \in SUBSET (ServiceNames \cup {"store"}), NEW r
      PROVE  Fine(Module(c, f, r))
  BY DEF Module
<1>3. <<>> \in Seq(Part)
  OBVIOUS
<1> HIDE DEF Fine
<1>4. /\ Fine(Modules["realtime"]) /\ Fine(Modules["featureflag"]) /\ Fine(Modules["healthAdmin"])
      /\ Fine(Modules["healthPublic"]) /\ Fine(Modules["environment"])
      /\ Fine(Modules["apiSpecs"]) /\ Fine(Modules["apiSpecEditor"]) /\ Fine(Modules["snapshot"])
  BY <1>1, PartsAre DEF Modules, ServiceNames
<1>5. /\ Fine(Modules["config"]) /\ Fine(Modules["mcp"]) /\ Fine(Modules["proxyconfig"])
      /\ Fine(Modules["auditLog"]) /\ Fine(Modules["directRequest"])
      /\ Fine(Modules["proxyReplay"]) /\ Fine(Modules["shadowCompare"])
  BY <1>1, PartsAre DEF Modules, ServiceNames
<1>6. /\ Fine(Modules["proxy"]) /\ Fine(Modules["custom"]) /\ Fine(Modules["sqlitePlugin"])
      /\ Fine(Modules["memoryPlugin"]) /\ Fine(Modules["mainPlugin"])
      /\ Fine(Modules["catalog"]) /\ Fine(Modules["report"]) /\ Fine(Modules["viewer"])
  BY <1>1, <1>3, PartsAre DEF Modules, ServiceNames, ThirdParties
<1>7. Fine(Modules[m])
  BY <1>4, <1>5, <1>6, ModuleNamesAre DEF ModuleNames
<1> QED BY <1>7 DEF Fine

LEMMA ServicesAre == Services \subseteq ServiceNames
<1>1. ASSUME NEW x \in Steps PROVE x \in Part
  BY <1>1, ModulesAre DEF Steps
<1> QED BY <1>1, ThirdPartyIs DEF Services, Part

-----------------------------------------------------------------------------
(* The container.  A bean is its own type's; one alone is registered as an *)
(* interface as well.                                                      *)

Registered ==
  /\ \A k \in DOMAIN byType :
       /\ byType[k] \in AllBeans
       /\ byType[k][1] \in DOMAIN byType /\ byType[byType[k][1]] = byType[k]
       /\ byType[k][1] = k \/ (k = "store" /\ byType[k][1] \in StoreTypes)
  /\ "auditDatabase" \in DOMAIN byName /\ byName["auditDatabase"] = <<"database", "audit">>

LEMMA ResolveIs ==
  ASSUME Registered, NEW t, NEW d \in C!ResolveType(t)
  PROVE  /\ d[1] \in DOMAIN byType /\ d = byType[d[1]]
         /\ d[1] = t \/ (t = "store" /\ d[1] \in StoreTypes)
<1>1. CASE t \in DOMAIN byType
  BY <1>1 DEF C!ResolveType, Registered
<1>2. CASE t \notin DOMAIN byType
  <2>1. PICK k \in C!Matching(t) : d = byType[k]
    BY <1>2 DEF C!ResolveType
  <2>2. k \in DOMAIN byType /\ k # t /\ byType[k] \in AllBeans
    BY <1>2, <2>1 DEF C!Matching, Registered
  <2>3. /\ byType[k][1] \in DOMAIN byType /\ byType[byType[k][1]] = byType[k]
        /\ byType[k][1] = k \/ (k = "store" /\ byType[k][1] \in StoreTypes)
    BY <2>2 DEF Registered
  <2>4. \/ <<k, t>> \in StoreTypes \X {"store"}
        \/ <<byType[k][1], t>> \in StoreTypes \X {"store"}
    BY <1>2, <2>1, <2>2, <2>3 DEF C!Matching, C!Assignable
  <2> QED BY <2>1, <2>2, <2>3, <2>4
<1> QED BY <1>1, <1>2

(* A lookup of the interface has one answer or none.                       *)
LEMMA StoreResolves ==
  ASSUME Registered, NEW d \in C!ResolveType("store")
  PROVE  IF "store" \in DOMAIN byType
         THEN d = byType["store"]
         ELSE \A k \in StoreTypes \cap DOMAIN byType : d = byType[k]
<1>1. CASE "store" \in DOMAIN byType
  BY <1>1 DEF C!ResolveType
<1>2. CASE "store" \notin DOMAIN byType
  <2> DEFINE found == {byType[k] : k \in C!Matching("store")}
  <2>1. ASSUME NEW b \in found
        PROVE  /\ [c \in AllBeans |-> c[1]][b] = b[1]
               /\ b[1] \in StoreTypes /\ b = byType[b[1]]
    <3>1. PICK k \in C!Matching("store") : b = byType[k]
      OBVIOUS
    <3>2. k \in DOMAIN byType /\ k # "store" /\ b \in AllBeans
      BY <1>2, <3>1 DEF C!Matching, Registered
    <3>3. b[1] = k
      BY <3>1, <3>2 DEF Registered
    <3>4. \/ <<k, "store">> \in StoreTypes \X {"store"}
          \/ <<b[1], "store">> \in StoreTypes \X {"store"}
      BY <3>1, <3>2, <3>3 DEF C!Matching, C!Assignable
    <3> QED BY <3>1, <3>2, <3>3, <3>4
  <2>2. ASSUME NEW k \in StoreTypes \cap DOMAIN byType PROVE byType[k] \in found
    BY DEF C!Matching, C!Assignable
  <2>3. d \in found /\ \A b, c \in found : [e \in AllBeans |-> e[1]][b] = [e \in AllBeans |-> e[1]][c]
    BY <1>2 DEF C!ResolveType
  <2> HIDE DEF found
  <2>4. ASSUME NEW b \in found PROVE b = d
    <3>1. [c \in AllBeans |-> c[1]][b] = [c \in AllBeans |-> c[1]][d]
      BY <2>3
    <3>2. b[1] = d[1] /\ b = byType[b[1]] /\ d = byType[d[1]]
      BY <2>1, <2>3, <3>1
    <3> QED BY <3>2
  <2> QED BY <1>2, <2>2, <2>4
<1> QED BY <1>1, <1>2

(* A registration adds to the container and takes nothing away.            *)
LEMMA RegisterIs ==
  ASSUME Registered, NEW b \in AllBeans, NEW n, NEW as \in SUBSET {"store"},
         C!Register(b, n, TRUE, as), as # {} => b[1] \in StoreTypes
  PROVE  /\ Registered'
         /\ DOMAIN byType' = DOMAIN byType \cup {b[1]} \cup as
         /\ \A k \in DOMAIN byType : byType'[k] = byType[k]
<1>1. C!Keys(b, TRUE, as) = {b[1]} \cup as
  BY DEF C!Keys
<1>2. ({b[1]} \cup as) \cap DOMAIN byType = {} /\ (n # "" => n \notin DOMAIN byName)
  BY <1>1 DEF C!Register, C!Valid, C!Available
<1>3. byType' = [t \in DOMAIN byType \cup ({b[1]} \cup as) |->
                   IF t \in {b[1]} \cup as THEN b ELSE byType[t]]
  BY <1>1 DEF C!Register
<1>4. /\ DOMAIN byType' = DOMAIN byType \cup {b[1]} \cup as
      /\ \A k \in DOMAIN byType : byType'[k] = byType[k]
      /\ \A k \in {b[1]} \cup as : byType'[k] = b
  BY <1>2, <1>3
<1>5. "auditDatabase" \in DOMAIN byName' /\ byName'["auditDatabase"] = <<"database", "audit">>
  BY <1>2 DEF C!Register, Registered
<1> QED BY <1>4, <1>5 DEF Registered

-----------------------------------------------------------------------------
(* Whoever was given a bean holds the one that is found now.               *)

Placed ==
  /\ plan \in Seq(Entry) /\ at \in 1..(Len(plan) + 1)
  /\ stage \in {"loading", "containers", "mounting", "started", "failed"}
  /\ stage \in {"containers", "mounting"} => at <= Len(plan)
  /\ todo \in Seq(Part)

Holds(b, d) ==
  \/ d[1] \in DOMAIN byType /\ d = byType[d[1]]
  \/ d = <<"database", "audit">> /\ b[1] = "auditLogService"

SameStore(d, e) ==
  {d[1], e[1]} \subseteq StoreTypes =>
    d = e \/ ("store" \in DOMAIN byType /\ byType["store"] \in {d, e})

Agreed ==
  /\ \A b \in DOMAIN given : \A d \in given[b] : Holds(b, d)
  /\ \A b, c \in DOMAIN given : \A d \in given[b], e \in given[c] : SameStore(d, e)

SharedInv == Registered /\ Placed /\ Agreed

(* The container has grown. *)
Grown == DOMAIN byType \subseteq DOMAIN byType' /\ \A k \in DOMAIN byType : byType'[k] = byType[k]

LEMMA StillAgreed ==
  ASSUME Grown, NEW b, NEW d, NEW e
  PROVE  /\ Holds(b, d) => Holds(b, d)'
         /\ SameStore(d, e) => SameStore(d, e)'
BY DEF Grown, Holds, SameStore

LEMMA StoreAgrees ==
  ASSUME Registered, NEW d \in C!ResolveType("store"), NEW c, NEW e, Holds(c, e)
  PROVE  SameStore(d, e) /\ SameStore(e, d)
<1> SUFFICES ASSUME e[1] \in StoreTypes, "store" \notin DOMAIN byType
             PROVE  d = e
  BY StoreResolves DEF SameStore
<1>1. e[1] \in DOMAIN byType /\ e = byType[e[1]]
  BY DEF Holds, StoreTypes
<1> QED BY <1>1, StoreResolves

(* What a lookup gives. *)
Got(b, d) ==
  \/ \E t \in ServiceNames \cup {"database", "store"} : d \in C!ResolveType(t)
  \/ d = <<"database", "audit">> /\ b[1] = "auditLogService"

LEMMA GotIs ==
  ASSUME Registered, NEW b, NEW d, Got(b, d)
  PROVE  Holds(b, d) /\ (d[1] \in StoreTypes => d \in C!ResolveType("store"))
<1>1. CASE d = <<"database", "audit">> /\ b[1] = "auditLogService"
  BY <1>1 DEF Holds, StoreTypes
<1>2. ASSUME NEW t \in ServiceNames \cup {"database", "store"}, d \in C!ResolveType(t)
      PROVE  Holds(b, d) /\ (d[1] \in StoreTypes => d \in C!ResolveType("store"))
  BY <1>2, ResolveIs DEF Holds, StoreTypes, ServiceNames
<1> QED BY <1>1, <1>2 DEF Got

LEMMA ExtendedAgrees ==
  ASSUME Registered, Agreed, Grown, NEW b, NEW got, \A d \in got : Got(b, d),
         given' = Extended(b, got)
  PROVE  Agreed'
<1>1. ASSUME NEW c \in DOMAIN given', NEW d \in given'[c]
      PROVE  Holds(c, d) /\ ((c \in DOMAIN given /\ d \in given[c]) \/ (c = b /\ d \in got))
  <2>1. c \in DOMAIN given \cup {b} /\ given'[c] = IF c = b THEN got ELSE given[c]
    BY DEF Extended
  <2>2. CASE c = b
    BY <2>1, <2>2, GotIs
  <2>3. CASE c # b
    BY <2>1, <2>3 DEF Agreed
  <2> QED BY <2>2, <2>3, <2>1
<1>2. ASSUME NEW c \in DOMAIN given', NEW d \in given'[c],
             NEW f \in DOMAIN given', NEW e \in given'[f]
      PROVE  SameStore(d, e)
  <2>1. CASE d \in got /\ Got(b, d) /\ d[1] \in StoreTypes
    <3>1. d \in C!ResolveType("store") /\ Holds(f, e)
      BY <1>1, <2>1, GotIs
    <3> QED BY <3>1, StoreAgrees
  <2>2. CASE e \in got /\ Got(b, e) /\ e[1] \in StoreTypes
    <3>1. e \in C!ResolveType("store") /\ Holds(c, d)
      BY <1>1, <2>2, GotIs
    <3> QED BY <3>1, StoreAgrees
  <2>3. CASE c \in DOMAIN given /\ d \in given[c] /\ f \in DOMAIN given /\ e \in given[f]
    BY <2>3 DEF Agreed
  <2>4. CASE ~({d[1], e[1]} \subseteq StoreTypes)
    BY <2>4 DEF SameStore
  <2> QED BY <1>1, <2>1, <2>2, <2>3, <2>4
<1> QED BY <1>1, <1>2, StillAgreed DEF Agreed

LEMMA SameContainer ==
  ASSUME SharedInv, UNCHANGED <<byType, byName, given>>, Placed'
  PROVE  SharedInv'
BY DEF SharedInv, Registered, Agreed, Holds, SameStore

LEMMA SharedInit == Init => SharedInv
<1> SUFFICES ASSUME Init PROVE SharedInv
  OBVIOUS
<1>1. Registered
  BY DEF Init, Registered, AllBeans, AllTypes
<1>2. Placed
  BY PlansAssumption DEF Init, Placed
<1>3. Agreed
  BY DEF Init, Agreed
<1> QED BY <1>1, <1>2, <1>3 DEF SharedInv

LEMMA AskedIs ==
  ASSUME Placed, todo # <<>>
  PROVE  /\ Head(todo) \in Part /\ Tail(todo) \in Seq(Part)
         /\ Head(todo).type \in ServiceNames \cup ThirdParties
         /\ Head(todo).needs \subseteq ServiceNames \cup {"database"}
<1>1. Head(todo) \in Part /\ Tail(todo) \in Seq(Part)
  BY DEF Placed
<1> QED BY <1>1 DEF Part

LEMMA CurrentIs ==
  ASSUME Placed, at <= Len(plan)
  PROVE  Current \in Entry /\ Current.module \in DOMAIN Modules
<1>1. Current \in Entry
  BY DEF Placed, Current
<1> QED BY <1>1 DEF Entry

LEMMA BuildShares ==
  ASSUME SharedInv, Build
  PROVE  SharedInv'
<1> DEFINE x == Head(todo)
           b == <<x.type, "own">>
<1>1. /\ x.type \in Services /\ todo # <<>> /\ C!Register(b, x.type, TRUE, {})
      /\ given' = Extended(b, Given(x)) /\ todo' = Tail(todo) /\ UNCHANGED <<plan, at, stage>>
  BY DEF Build, Asks
<1>2. b \in AllBeans /\ b[1] = x.type
  BY <1>1 DEF AllBeans, AllTypes
<1>3. Registered' /\ Grown
  <2>1. /\ Registered' /\ DOMAIN byType' = DOMAIN byType \cup {b[1]} \cup {}
        /\ \A k \in DOMAIN byType : byType'[k] = byType[k]
    <3>1. {} \in SUBSET {"store"}
      OBVIOUS
    <3> HIDE DEF b, x
    <3> QED BY <1>1, <1>2, <3>1, RegisterIs DEF SharedInv
  <2> QED BY <2>1 DEF Grown
<1>4. \A d \in Given(x) : Got(b, d)
  <2>1. x.needs \subseteq ServiceNames \cup {"database"}
    BY <1>1, AskedIs DEF SharedInv
  <2>2. byName["auditDatabase"] = <<"database", "audit">>
    BY DEF SharedInv, Registered
  <2> SUFFICES ASSUME NEW d \in Given(x) PROVE Got(b, d)
    OBVIOUS
  <2>3. \/ \E t \in x.needs : d \in C!ResolveType(t)
        \/ d \in C!ResolveType("realtimeHub")
        \/ x.type = "auditLogService" /\ d = <<"database", "audit">>
    <3> HIDE DEF x
    <3>1. \/ d \in UNION {C!ResolveType(t) : t \in x.needs}
          \/ d \in IF x.hub THEN C!ResolveType("realtimeHub") ELSE {}
          \/ d \in IF x.type = "auditLogService" THEN {byName["auditDatabase"]} ELSE {}
      BY DEF Given
    <3> QED BY <2>2, <3>1
  <2>4. "realtimeHub" \in ServiceNames
    BY DEF ServiceNames
  <2> HIDE DEF x, b
  <2> QED BY <1>2, <2>1, <2>3, <2>4 DEF Got
<1>5. Placed'
  BY <1>1, AskedIs DEF SharedInv, Placed
<1> QED BY <1>1, <1>3, <1>4, <1>5, ExtendedAgrees DEF SharedInv

LEMMA RegisterThirdPartyShares ==
  ASSUME SharedInv, RegisterThirdParty
  PROVE  SharedInv'
<1> DEFINE n == Head(todo).type
           t == ThirdParty[n]
<1>1. /\ n \in ThirdParties /\ todo # <<>> /\ C!Register(t.bean, n, TRUE, t.as)
      /\ given' = given /\ todo' = Tail(todo) /\ UNCHANGED <<plan, at, stage>>
  BY ThirdPartyIs DEF RegisterThirdParty, AsksThirdParty
<1>2. t.bean \in AllBeans /\ t.as \in SUBSET {"store"} /\ (t.as # {} => t.bean[1] \in StoreTypes)
  BY <1>1, ThirdPartyIs DEF ThirdParties, Bean, AllBeans, AllTypes, StoreTypes
<1> HIDE DEF t, n
<1>3. Registered' /\ Grown
  <2>1. /\ Registered' /\ DOMAIN byType' = DOMAIN byType \cup {t.bean[1]} \cup t.as
        /\ \A k \in DOMAIN byType : byType'[k] = byType[k]
    BY <1>1, <1>2, RegisterIs DEF SharedInv
  <2> QED BY <2>1 DEF Grown
<1>4. Agreed'
  BY <1>1, <1>3, StillAgreed DEF SharedInv, Agreed
<1>5. Placed'
  BY <1>1, AskedIs DEF SharedInv, Placed
<1> QED BY <1>3, <1>4, <1>5 DEF SharedInv

LEMMA WireShares ==
  ASSUME SharedInv, Wire
  PROVE  SharedInv'
<1> DEFINE m == Current.module
           b == <<m, "own">>
           got == UNION {C!ResolveType(t) : t \in Modules[m].fields}
<1>1. /\ stage = "containers" /\ C!Register(b, m, TRUE, {})
      /\ given' = Extended(b, got) /\ stage' = "mounting" /\ UNCHANGED <<plan, at, todo>>
  BY DEF Wire
<1>2. m \in DOMAIN Modules
  BY <1>1, CurrentIs DEF SharedInv, Placed
<1>3. b \in AllBeans /\ b[1] = m
  BY <1>2 DEF AllBeans, AllTypes
<1>4. \A d \in got : Got(b, d)
  BY <1>2, ModulesAre DEF Got
<1> HIDE DEF m, got
<1>5. Registered' /\ Grown
  <2>1. /\ Registered' /\ DOMAIN byType' = DOMAIN byType \cup {b[1]} \cup {}
        /\ \A k \in DOMAIN byType : byType'[k] = byType[k]
    <3>1. {} \in SUBSET {"store"}
      OBVIOUS
    <3> HIDE DEF b
    <3> QED BY <1>1, <1>3, <3>1, RegisterIs DEF SharedInv
  <2> QED BY <2>1 DEF Grown
<1>6. Placed'
  BY <1>1 DEF SharedInv, Placed
<1> QED BY <1>1, <1>4, <1>5, <1>6, ExtendedAgrees DEF SharedInv

LEMMA SharedStep == SharedInv /\ [Next]_vars => SharedInv'
<1> SUFFICES ASSUME SharedInv, [Next]_vars PROVE SharedInv'
  OBVIOUS
<1>1. CASE Skip
  BY <1>1, SameContainer DEF Skip, SharedInv, Placed
<1>2. CASE Load
  <2>1. Modules[Current.module].containers \in Seq(Part)
    BY <1>2, CurrentIs, ModulesAre DEF Load, SharedInv
  <2> QED BY <1>2, <2>1, SameContainer DEF Load, SharedInv, Placed
<1>3. CASE Keep
  BY <1>3, AskedIs, SameContainer DEF Keep, Asks, SharedInv, Placed
<1>4. CASE Build \/ RegisterThirdParty \/ Wire
  BY <1>4, BuildShares, RegisterThirdPartyShares, WireShares
<1>5. CASE BuildFails \/ ThirdPartyFails \/ WireFails \/ MountPanics
  BY <1>5, SameContainer DEF BuildFails, ThirdPartyFails, WireFails, MountPanics, Fail,
                             SharedInv, Placed
<1>6. CASE Mount
  BY <1>6, SameContainer DEF Mount, SharedInv, Placed
<1>7. CASE Publish
  BY <1>7, SameContainer DEF Publish, SharedInv, Placed
<1>8. CASE UNCHANGED vars
  BY <1>8, SameContainer DEF vars, SharedInv, Placed
<1> QED BY <1>1, <1>2, <1>3, <1>4, <1>5, <1>6, <1>7, <1>8 DEF Next

LEMMA SharedCorrect == Spec => []SharedInv
BY SharedInit, SharedStep, PTL DEF Spec

(* Two users of a service hold the same one, so that its mutex excludes    *)
(* them from each other, for every list of modules and plugins             *)
(* (container.go:317-355).                                                 *)
THEOREM ServicesAreShared == Spec => []SharedServices
<1>1. SharedInv => SharedServices
  BY DEF SharedInv, Agreed, Holds, SameStore, SharedServices
<1> QED BY <1>1, SharedCorrect, PTL

-----------------------------------------------------------------------------
(* What a module needs it registers itself, before it needs it.            *)

Types(s) == {s[i].type : i \in DOMAIN s}

Met(s, before, i) ==
  \A d \in s[i].needs : d \in before \/ \E j \in 1..(i - 1) : s[j].type = d

Closed(s) == \A i \in DOMAIN s : Met(s, {"database"}, i)

LEMMA Joined ==
  ASSUME NEW s \in Seq(Part), NEW t \in Seq(Part), Closed(s),
         \A i \in DOMAIN t : Met(t, {"database"} \cup Types(s), i)
  PROVE  /\ s \o t \in Seq(Part) /\ Closed(s \o t)
         /\ Types(s \o t) = Types(s) \cup Types(t)
<1> DEFINE u == s \o t
<1>1. /\ u \in Seq(Part) /\ Len(s) \in Nat /\ Len(t) \in Nat
      /\ DOMAIN s = 1..Len(s) /\ DOMAIN t = 1..Len(t) /\ DOMAIN u = 1..(Len(s) + Len(t))
      /\ \A i \in 1..(Len(s) + Len(t)) : u[i] = IF i <= Len(s) THEN s[i] ELSE t[i - Len(s)]
  OBVIOUS
<1> HIDE DEF u
<1>2. \A i \in DOMAIN s : i \in DOMAIN u /\ u[i] = s[i]
  BY <1>1
<1>3. \A i \in DOMAIN t : Len(s) + i \in DOMAIN u /\ u[Len(s) + i] = t[i]
  BY <1>1
<1>4. \A i \in DOMAIN u : i \in DOMAIN s \/ (i - Len(s) \in DOMAIN t /\ i = Len(s) + (i - Len(s)))
  BY <1>1
<1>5. Types(u) = Types(s) \cup Types(t)
  BY <1>2, <1>3, <1>4 DEF Types
<1>6. ASSUME NEW i \in DOMAIN u PROVE Met(u, {"database"}, i)
  <2>1. CASE i \in DOMAIN s
    <3>1. Met(s, {"database"}, i) /\ u[i] = s[i]
      BY <1>2, <2>1 DEF Closed
    <3>2. \A j \in 1..(i - 1) : u[j] = s[j]
      BY <1>1, <2>1
    <3> QED BY <3>1, <3>2 DEF Met
  <2>2. CASE i \notin DOMAIN s
    <3> DEFINE k == i - Len(s)
    <3>1. k \in DOMAIN t /\ u[i] = t[k]
      BY <1>3, <1>4, <2>2
    <3>2. Met(t, {"database"} \cup Types(s), k)
      BY <3>1
    <3>3. \A j \in 1..(k - 1) : Len(s) + j \in 1..(i - 1) /\ u[Len(s) + j] = t[j]
      <4>1. k \in 1..Len(t) /\ i = Len(s) + k
        BY <1>1, <3>1
      <4> HIDE DEF k
      <4>2. \A j \in 1..(k - 1) : j \in DOMAIN t /\ Len(s) + j \in 1..(i - 1)
        BY <1>1, <4>1
      <4> QED BY <1>3, <4>2
    <3>4. \A j \in DOMAIN s : j \in 1..(i - 1) /\ u[j] = s[j]
      BY <1>1, <2>2
    <3>5. ASSUME NEW d \in u[i].needs
          PROVE  d = "database" \/ \E j \in 1..(i - 1) : u[j].type = d
      <4>1. d = "database" \/ d \in Types(s) \/ \E j \in 1..(k - 1) : t[j].type = d
        BY <3>1, <3>2 DEF Met
      <4> HIDE DEF k
      <4> QED BY <4>1, <3>3, <3>4 DEF Types
    <3> QED BY <3>5 DEF Met
  <2> QED BY <2>1, <2>2
<1> QED BY <1>1, <1>5, <1>6 DEF Closed, u

(* A list after another that needs nothing from it.                        *)
LEMMA Chained ==
  ASSUME NEW s \in Seq(Part), NEW t \in Seq(Part), Closed(s), Closed(t)
  PROVE  /\ s \o t \in Seq(Part) /\ Closed(s \o t)
         /\ Types(s \o t) = Types(s) \cup Types(t)
BY Joined DEF Closed, Met

LEMMA ClosedBase ==
  /\ Closed(Realtime) /\ Types(Realtime) = {"realtimeHub"}
  /\ Closed(AuditLog) /\ Types(AuditLog) = {"auditLogService", "auditLogHandler"}
  /\ Closed(FeatureFlag) /\ Types(FeatureFlag) = {"featureFlagService", "featureFlagHandler"}
  /\ Closed(Health) /\ Types(Health) = {"healthAdminHandler", "healthPublicHandler"}
  /\ Types(Viewer) = {"viewerService"}
  /\ \A x \in ThirdParties : Closed(Registers(x)) /\ Types(Registers(x)) = {x} /\ Len(Registers(x)) = 1
<1> USE DEF Closed, Met, Types, Service
<1>1. Closed(Realtime) /\ Types(Realtime) = {"realtimeHub"}
  BY DEF Realtime
<1>2. Closed(AuditLog) /\ Types(AuditLog) = {"auditLogService", "auditLogHandler"}
  BY DEF AuditLog
<1>3. Closed(FeatureFlag) /\ Types(FeatureFlag) = {"featureFlagService", "featureFlagHandler"}
  BY DEF FeatureFlag
<1>4. Closed(Health) /\ Types(Health) = {"healthAdminHandler", "healthPublicHandler"}
  BY DEF Health
<1>5. Types(Viewer) = {"viewerService"}
  BY DEF Viewer
<1>6. \A x \in ThirdParties : Closed(Registers(x)) /\ Types(Registers(x)) = {x} /\ Len(Registers(x)) = 1
  BY DEF Registers
<1> QED BY <1>1, <1>2, <1>3, <1>4, <1>5, <1>6

LEMMA ClosedParts ==
  /\ Closed(Environment)
  /\ Types(Environment) = {"realtimeHub", "environmentService", "environmentHandler"}
  /\ Closed(ApiSpecs)
  /\ Types(ApiSpecs) =
       Types(Environment) \cup {"mockAPIRepository", "mockAPIService", "mockAPIHandler"}
  /\ Closed(ProxyConfig)
  /\ Types(ProxyConfig) = {"realtimeHub", "proxyConfigService", "proxyConfigHandler"}
<1>1. /\ Closed(Environment)
      /\ Types(Environment) = {"realtimeHub", "environmentService", "environmentHandler"}
  <2> DEFINE t == <<Service("environmentService", {"database"}, FALSE),
                    Service("environmentHandler", {"environmentService"}, TRUE)>>
  <2>1. t \in Seq(Part) /\ Types(t) = {"environmentService", "environmentHandler"}
    BY DEF Part, ServiceNames, Service, Types
  <2>2. \A i \in DOMAIN t : Met(t, {"database"} \cup Types(Realtime), i)
    BY DEF Met, Service
  <2>3. Environment = Realtime \o t
    BY DEF Environment
  <2> HIDE DEF t
  <2>4. /\ Closed(Environment) /\ Types(Environment) = Types(Realtime) \cup Types(t)
    BY <2>1, <2>2, <2>3, Joined, ClosedBase, PartsAre
  <2> QED BY <2>1, <2>4, ClosedBase
<1>2. /\ Closed(ApiSpecs)
      /\ Types(ApiSpecs) =
           Types(Environment) \cup {"mockAPIRepository", "mockAPIService", "mockAPIHandler"}
  <2> DEFINE t == <<Service("mockAPIRepository", {"database"}, FALSE),
                    Service("mockAPIService", {"mockAPIRepository", "environmentService"}, FALSE),
                    Service("mockAPIHandler", {"mockAPIService"}, TRUE)>>
  <2>1. t \in Seq(Part) /\ Types(t) = {"mockAPIRepository", "mockAPIService", "mockAPIHandler"}
    BY DEF Part, ServiceNames, Service, Types
  <2>2. \A i \in DOMAIN t : Met(t, {"database"} \cup Types(Environment), i)
    BY <1>1 DEF Met, Service
  <2>3. ApiSpecs = Environment \o t
    BY DEF ApiSpecs
  <2> HIDE DEF t
  <2>4. Closed(ApiSpecs) /\ Types(ApiSpecs) = Types(Environment) \cup Types(t)
    BY <1>1, <2>1, <2>2, <2>3, Joined, PartsAre
  <2> QED BY <2>1, <2>4
<1>3. /\ Closed(ProxyConfig)
      /\ Types(ProxyConfig) = {"realtimeHub", "proxyConfigService", "proxyConfigHandler"}
  <2> DEFINE t == <<Service("proxyConfigService", {"database"}, FALSE),
                    Service("proxyConfigHandler", {"proxyConfigService"}, TRUE)>>
  <2>1. t \in Seq(Part) /\ Types(t) = {"proxyConfigService", "proxyConfigHandler"}
    BY DEF Part, ServiceNames, Service, Types
  <2>2. \A i \in DOMAIN t : Met(t, {"database"} \cup Types(Realtime), i)
    BY DEF Met, Service
  <2>3. ProxyConfig = Realtime \o t
    BY DEF ProxyConfig
  <2> HIDE DEF t
  <2>4. /\ Closed(ProxyConfig) /\ Types(ProxyConfig) = Types(Realtime) \cup Types(t)
    BY <2>1, <2>2, <2>3, Joined, ClosedBase, PartsAre
  <2> QED BY <2>1, <2>4, ClosedBase
<1> QED BY <1>1, <1>2, <1>3

LEMMA ClosedLists ==
  /\ Closed(Mcp)
  /\ Types(Mcp) = Types(ApiSpecs) \cup Types(ProxyConfig) \cup Types(AuditLog)
                    \cup {"mcpService", "mcpHandler"}
  /\ Closed(ConfigFeature) /\ Types(ConfigFeature) = Types(Mcp)
  /\ Closed(PublicProxy)
  /\ Types(PublicProxy) = Types(ApiSpecs) \cup Types(ProxyConfig) \cup Types(AuditLog)
                            \cup {"publicProxyHandler"}
<1>1. /\ Closed(Mcp)
      /\ Types(Mcp) = Types(ApiSpecs) \cup Types(ProxyConfig) \cup Types(AuditLog)
                        \cup {"mcpService", "mcpHandler"}
  <2> DEFINE t == <<Service("mcpService", {"database", "mockAPIService", "environmentService",
                                           "proxyConfigService", "auditLogService"}, TRUE),
                    Service("mcpHandler", {"mcpService"}, TRUE)>>
             a == Realtime \o Environment
             b == a \o ApiSpecs
             c == b \o ProxyConfig
             s == c \o AuditLog
  <2>1. t \in Seq(Part) /\ Types(t) = {"mcpService", "mcpHandler"}
    BY DEF Part, ServiceNames, Service, Types
  <2>2. Mcp = s \o t
    BY DEF Mcp
  <2>3. a \in Seq(Part) /\ Closed(a) /\ Types(a) = Types(Realtime) \cup Types(Environment)
    BY Chained, ClosedBase, ClosedParts, PartsAre
  <2> HIDE DEF a
  <2>4. b \in Seq(Part) /\ Closed(b) /\ Types(b) = Types(a) \cup Types(ApiSpecs)
    BY <2>3, Chained, ClosedParts, PartsAre
  <2> HIDE DEF b
  <2>5. c \in Seq(Part) /\ Closed(c) /\ Types(c) = Types(b) \cup Types(ProxyConfig)
    BY <2>4, Chained, ClosedParts, PartsAre
  <2> HIDE DEF c
  <2>6. s \in Seq(Part) /\ Closed(s) /\ Types(s) = Types(c) \cup Types(AuditLog)
    BY <2>5, Chained, ClosedBase, PartsAre
  <2> HIDE DEF s
  <2>7. Types(s) = Types(ApiSpecs) \cup Types(ProxyConfig) \cup Types(AuditLog)
    BY <2>3, <2>4, <2>5, <2>6, ClosedBase, ClosedParts
  <2>8. \A i \in DOMAIN t : Met(t, {"database"} \cup Types(s), i)
    BY <2>7, ClosedBase, ClosedParts DEF Met, Service
  <2> HIDE DEF t
  <2> QED BY <2>1, <2>2, <2>6, <2>7, <2>8, Joined
<1>2. Closed(ConfigFeature) /\ Types(ConfigFeature) = Types(Mcp)
  BY <1>1, Chained, ClosedParts, PartsAre DEF ConfigFeature
<1>3. /\ Closed(PublicProxy)
      /\ Types(PublicProxy) = Types(ApiSpecs) \cup Types(ProxyConfig) \cup Types(AuditLog)
                                \cup {"publicProxyHandler"}
  <2> DEFINE t == <<Service("publicProxyHandler",
                      {"mockAPIService", "proxyConfigService", "auditLogService"}, TRUE)>>
             a == ApiSpecs \o ProxyConfig
             b == a \o AuditLog
             s == b \o Realtime
  <2>1. t \in Seq(Part) /\ Types(t) = {"publicProxyHandler"}
    BY DEF Part, ServiceNames, Service, Types
  <2>2. PublicProxy = s \o t
    BY DEF PublicProxy
  <2>3. a \in Seq(Part) /\ Closed(a) /\ Types(a) = Types(ApiSpecs) \cup Types(ProxyConfig)
    BY Chained, ClosedParts, PartsAre
  <2> HIDE DEF a
  <2>4. b \in Seq(Part) /\ Closed(b) /\ Types(b) = Types(a) \cup Types(AuditLog)
    BY <2>3, Chained, ClosedBase, PartsAre
  <2> HIDE DEF b
  <2>5. s \in Seq(Part) /\ Closed(s) /\ Types(s) = Types(b) \cup Types(Realtime)
    BY <2>4, Chained, ClosedBase, PartsAre
  <2> HIDE DEF s
  <2>6. Types(s) = Types(ApiSpecs) \cup Types(ProxyConfig) \cup Types(AuditLog)
    BY <2>3, <2>4, <2>5, ClosedBase, ClosedParts
  <2>7. \A i \in DOMAIN t : Met(t, {"database"} \cup Types(s), i)
    BY <2>6, ClosedBase, ClosedParts DEF Met, Service
  <2> HIDE DEF t
  <2> QED BY <2>1, <2>2, <2>5, <2>6, <2>7, Joined
<1> QED BY <1>1, <1>2, <1>3

(* The plugins that bring a bean of a third party's. *)
PluginOf(n) ==
  CASE n = "customHub" -> "custom" [] n = "sqlite" -> "sqlitePlugin"
    [] n = "memory" -> "memoryPlugin" [] OTHER -> "mainPlugin"

StorePlugin(n) == n \in {"sqlite", "memory", "main"}
StoreOf(n) ==
  CASE n = "sqlite" -> "sqliteStore" [] n = "memory" -> "memoryStore" [] OTHER -> "mainStore"

LEMMA OwnTypes ==
  /\ Types(Realtime) \cap ThirdParties = {} /\ Types(Environment) \cap ThirdParties = {}
  /\ Types(ApiSpecs) \cap ThirdParties = {} /\ Types(ProxyConfig) \cap ThirdParties = {}
  /\ Types(AuditLog) \cap ThirdParties = {} /\ Types(Mcp) \cap ThirdParties = {}
  /\ Types(ConfigFeature) \cap ThirdParties = {} /\ Types(PublicProxy) \cap ThirdParties = {}
  /\ Types(FeatureFlag) \cap ThirdParties = {} /\ Types(Health) \cap ThirdParties = {}
  /\ Types(Viewer) \cap ThirdParties = {}
<1>1. /\ Types(Realtime) \cap ThirdParties = {} /\ Types(Environment) \cap ThirdParties = {}
      /\ Types(ProxyConfig) \cap ThirdParties = {} /\ Types(AuditLog) \cap ThirdParties = {}
      /\ Types(FeatureFlag) \cap ThirdParties = {} /\ Types(Health) \cap ThirdParties = {}
      /\ Types(Viewer) \cap ThirdParties = {}
  BY ClosedBase, ClosedParts DEF ThirdParties
<1>2. Types(ApiSpecs) \cap ThirdParties = {}
  BY <1>1, ClosedParts DEF ThirdParties
<1>3. Types(Mcp) \cap ThirdParties = {}
  BY <1>1, <1>2, ClosedLists DEF ThirdParties
<1>4. Types(PublicProxy) \cap ThirdParties = {}
  BY <1>1, <1>2, ClosedLists DEF ThirdParties
<1> QED BY <1>1, <1>2, <1>3, <1>4, ClosedLists

OwnModules == ModuleNames \ {"custom", "sqlitePlugin", "memoryPlugin", "mainPlugin",
                             "catalog", "report", "viewer"}

LEMMA OwnModulesAre ==
  ASSUME NEW m \in OwnModules
  PROVE  /\ Closed(Modules[m].containers)
         /\ Modules[m].fields \subseteq Types(Modules[m].containers)
         /\ Types(Modules[m].containers) \cap ThirdParties = {}
<1> DEFINE Sound(x) == /\ Closed(x.containers) /\ x.fields \subseteq Types(x.containers)
                       /\ Types(x.containers) \cap ThirdParties = {}
<1>1. ASSUME NEW c, NEW f, NEW r, Closed(c), f \subseteq Types(c), Types(c) \cap ThirdParties = {}
      PROVE  Sound(Module(c, f, r))
  BY <1>1 DEF Module
<1> HIDE DEF Sound
<1>2. /\ Sound(Modules["realtime"]) /\ Sound(Modules["featureflag"])
      /\ Sound(Modules["healthAdmin"]) /\ Sound(Modules["healthPublic"])
      /\ Sound(Modules["environment"])
  BY <1>1, ClosedBase, ClosedParts, OwnTypes DEF Modules
<1>3. Sound(Modules["apiSpecs"]) /\ Sound(Modules["apiSpecEditor"]) /\ Sound(Modules["snapshot"])
  BY <1>1, ClosedParts, OwnTypes DEF Modules
<1>4. Sound(Modules["config"]) /\ Sound(Modules["mcp"]) /\ Sound(Modules["proxyconfig"])
  BY <1>1, ClosedParts, ClosedLists, OwnTypes DEF Modules
<1>5. /\ Sound(Modules["auditLog"]) /\ Sound(Modules["directRequest"])
      /\ Sound(Modules["proxyReplay"]) /\ Sound(Modules["shadowCompare"])
  BY <1>1, ClosedBase, OwnTypes DEF Modules
<1>6. Sound(Modules["proxy"])
  BY <1>1, ClosedLists, OwnTypes DEF Modules
<1>7. Sound(Modules[m])
  BY <1>2, <1>3, <1>4, <1>5, <1>6 DEF OwnModules, ModuleNames
<1> QED BY <1>7 DEF Sound

LEMMA PluginsAre ==
  /\ \A n \in ThirdParties : /\ Modules[PluginOf(n)].containers = Registers(n)
                             /\ Modules[PluginOf(n)].fields = {}
  /\ Modules["catalog"].containers = <<>> /\ Modules["catalog"].fields = {"store"}
  /\ Modules["report"].containers = <<>> /\ Modules["report"].fields = {"store"}
  /\ Modules["viewer"].containers = Viewer
<1>1. /\ Modules["custom"] = Module(Registers("customHub"), {}, {})
      /\ Modules["sqlitePlugin"] = Module(Registers("sqlite"), {}, {})
      /\ Modules["memoryPlugin"] = Module(Registers("memory"), {}, {})
      /\ Modules["mainPlugin"] = Module(Registers("main"), {}, {})
      /\ Modules["catalog"] = Module(<<>>, {"store"}, {})
      /\ Modules["report"] = Module(<<>>, {"store"}, {})
      /\ Modules["viewer"] = Module(Viewer, {"viewerService", "mcpHandler"}, {})
  BY DEF Modules
<1> QED BY <1>1 DEF Module, ThirdParties, PluginOf

(* Whatever is loaded, unless it is a third party's, is complete.          *)
LEMMA ModuleIsComplete ==
  ASSUME NEW m \in DOMAIN Modules
  PROVE  /\ m # "viewer" => Closed(Modules[m].containers)
         /\ m \notin {"viewer", "catalog", "report"} =>
              Modules[m].fields \subseteq Types(Modules[m].containers)
         /\ m \in {"catalog", "report"} => Modules[m].fields = {"store"}
         /\ \A n \in ThirdParties :
              /\ n \in Types(Modules[m].containers) => m = PluginOf(n)
              /\ m = PluginOf(n) => Modules[m].containers = Registers(n)
<1>1. m \in ModuleNames
  BY ModuleNamesAre
<1>2. \A n \in ThirdParties : PluginOf(n) \notin OwnModules \cup {"catalog", "report", "viewer"}
  BY DEF ThirdParties, PluginOf, OwnModules
<1>3. CASE m \in OwnModules
  BY <1>2, <1>3, OwnModulesAre DEF OwnModules
<1>4. CASE m \in {"catalog", "report"}
  <2>1. Closed(<<>>) /\ Types(<<>>) = {}
    BY DEF Closed, Types
  <2> QED BY <1>2, <1>4, <2>1, PluginsAre
<1>5. CASE m = "viewer"
  BY <1>2, <1>5, PluginsAre, OwnTypes
<1>6. ASSUME NEW n \in ThirdParties, m = PluginOf(n)
      PROVE  /\ Closed(Modules[m].containers) /\ Modules[m].fields = {}
             /\ Modules[m].containers = Registers(n) /\ Types(Modules[m].containers) = {n}
  BY <1>6, PluginsAre, ClosedBase
<1>7. CASE \E n \in ThirdParties : m = PluginOf(n)
  <2>1. \A n, k \in ThirdParties : PluginOf(n) = PluginOf(k) => n = k
    BY DEF ThirdParties, PluginOf
  <2> QED BY <1>2, <1>6, <1>7, <2>1
<1>8. m \in OwnModules \cup {"catalog", "report", "viewer"} \/ \E n \in ThirdParties : m = PluginOf(n)
  BY <1>1 DEF OwnModules, ModuleNames, ThirdParties, PluginOf
<1> QED BY <1>3, <1>4, <1>5, <1>7, <1>8

(* The rest of a list, when its first service is there.                    *)
LEMMA RestIs ==
  ASSUME NEW s \in Seq(Part), s # <<>>, NEW before, NEW after, before \subseteq after,
         Head(s).type \in after \/ Head(s).type \in ThirdParties
  PROVE  /\ Types(s) = {Head(s).type} \cup Types(Tail(s))
         /\ (\A i \in DOMAIN s : Met(s, before, i)) =>
               \A i \in DOMAIN Tail(s) : Met(Tail(s), after, i)
<1> DEFINE r == Tail(s)
<1>1. /\ r \in Seq(Part) /\ Len(s) \in Nat /\ Len(s) > 0 /\ Head(s) = s[1] /\ DOMAIN s = 1..Len(s)
      /\ DOMAIN r = 1..(Len(s) - 1) /\ \A i \in 1..(Len(s) - 1) : r[i] = s[i + 1]
  OBVIOUS
<1> HIDE DEF r
<1>2. Types(s) = {s[1].type} \cup Types(r)
  <2>1. \A i \in DOMAIN r : i + 1 \in DOMAIN s /\ r[i] = s[i + 1]
    BY <1>1
  <2>2. \A i \in DOMAIN s : i = 1 \/ (i - 1 \in DOMAIN r /\ r[i - 1] = s[i])
    BY <1>1
  <2>3. 1 \in DOMAIN s
    BY <1>1
  <2> QED BY <2>1, <2>2, <2>3 DEF Types
<1>3. ASSUME \A i \in DOMAIN s : Met(s, before, i), NEW i \in DOMAIN r
      PROVE  Met(r, after, i)
  <2>1. i + 1 \in DOMAIN s /\ r[i] = s[i + 1] /\ s[i + 1] \in Part /\ i \in Nat
    BY <1>1
  <2>2. Met(s, before, i + 1)
    BY <1>3, <2>1
  <2>3. ASSUME NEW d \in r[i].needs
        PROVE  d \in after \/ \E j \in 1..(i - 1) : r[j].type = d
    <3>1. d \in before \/ \E j \in 1..((i + 1) - 1) : s[j].type = d
      BY <2>1, <2>2, <2>3 DEF Met
    <3>2. d \in ServiceNames \cup {"database"}
      BY <2>1, <2>3 DEF Part
    <3>3. d \notin ThirdParties
      BY <3>2 DEF ServiceNames, ThirdParties
    <3>4. CASE d \in before
      BY <3>4
    <3>5. ASSUME NEW j \in 1..((i + 1) - 1), s[j].type = d
          PROVE  d \in after \/ \E k \in 1..(i - 1) : r[k].type = d
      <4>1. CASE j = 1
        BY <1>1, <3>3, <3>5, <4>1
      <4>2. CASE j # 1
        <5>1. j - 1 \in 1..(i - 1) /\ j - 1 \in 1..(Len(s) - 1) /\ (j - 1) + 1 = j
          BY <1>1, <2>1, <4>2
        <5>2. r[j - 1] = s[j]
          BY <1>1, <5>1
        <5> QED BY <3>5, <5>1, <5>2
      <4> QED BY <4>1, <4>2
    <3> QED BY <3>1, <3>4, <3>5
  <2> QED BY <2>3 DEF Met
<1> QED BY <1>1, <1>2, <1>3 DEF r

-----------------------------------------------------------------------------
(* What is in the container comes from the entries that have been loaded.  *)

Before(m) == \E i \in Loaded : i < at /\ plan[i].module = m

Finished(m) == Before(m) \/ (stage = "mounting" /\ Current.module = m)

Brought(n) ==
  \/ Finished(PluginOf(n))
  \/ stage = "containers" /\ todo = <<>> /\ Current.module = PluginOf(n)

FromModules ==
  /\ \A m \in ModuleNames : m \in DOMAIN byType \/ m \in DOMAIN byName => Finished(m)
  /\ \A r \in routes : \E i \in Loaded : i < at /\ r \in Mounts(plan[i])

FromPlugins ==
  /\ \A n \in ThirdParties : n \in DOMAIN byName => Brought(n)
  /\ \A n \in ThirdParties : StorePlugin(n) => (StoreOf(n) \in DOMAIN byType <=> Brought(n))
  /\ "store" \in DOMAIN byType <=> "mainStore" \in DOMAIN byType

(* What is still to be made sure of finds what it needs. *)
Pending ==
  /\ "database" \in DOMAIN byType
  /\ stage \in {"containers", "mounting"} => ~Skipped(Current)
  /\ stage = "containers" =>
       /\ Current.module # "viewer" => \A i \in DOMAIN todo : Met(todo, DOMAIN byType, i)
       /\ Current.module \notin {"viewer", "catalog", "report"} =>
            Modules[Current.module].fields \subseteq DOMAIN byType \cup Types(todo)
       /\ \A n \in ThirdParties :
            /\ n \in Types(todo) => Current.module = PluginOf(n)
            /\ Current.module = PluginOf(n) => todo = <<>> \/ todo = Registers(n)

(* Nothing has been loaded and nothing been built. *)
Untouched ==
  (\A i \in Loaded : i = at) /\ (stage = "loading" \/ (stage = "containers" /\ "customHub" \in Types(todo)))
    => "realtimeHub" \notin DOMAIN byType

Causes == FromModules /\ FromPlugins /\ Pending /\ Untouched

(* The causes that FailsForCause names. *)
Cause ==
  \/ Current.module = "viewer"
  \/ /\ Current.module \in {"catalog", "report"}
     /\ Cardinality(LoadedStores) # 1 /\ "mainPlugin" \notin LoadedStores
  \/ \E i, j \in Loaded :
       /\ i < j
       /\ \/ plan[i].module = plan[j].module
          \/ Mounts(plan[i]) \cap Mounts(plan[j]) # {}
          \/ plan[j].module = "custom"

CauseInv == FailsForCause /\ (stage # "failed" => Causes)

LEMMA FoundIs ==
  ASSUME Registered, NEW t, t # "store"
  PROVE  Found(t) <=> t \in DOMAIN byType
<1>1. t \in DOMAIN byType => Found(t)
  BY DEF Found, C!ResolveType
<1>2. ASSUME Found(t) PROVE t \in DOMAIN byType
  <2>1. PICK d : d \in C!ResolveType(t)
    BY <1>2 DEF Found
  <2> QED BY <2>1, ResolveIs
<1> QED BY <1>1, <1>2

LEMMA FailsWith ==
  ASSUME Fail, Cause
  PROVE  CauseInv'
<1>1. Cause'
  <2>1. /\ plan' = plan /\ Current' = Current
        /\ Loaded' = Loaded
    BY DEF Fail, Current, Loaded, Skipped, Exports
  <2>2. LoadedStores' = LoadedStores
    BY <2>1 DEF Fail, LoadedStores
  <2> QED BY <2>1, <2>2 DEF Cause, Mounts
<1>2. FailsForCause'
  BY <1>1 DEF FailsForCause, Cause
<1> QED BY <1>2 DEF Fail, CauseInv

LEMMA CurrentIsLoaded ==
  ASSUME Placed, at <= Len(plan), ~Skipped(Current)
  PROVE  at \in Loaded
BY DEF Placed, Loaded, Current

LEMMA BuildFailsForCause ==
  ASSUME SharedInv, CauseInv, BuildFails
  PROVE  CauseInv'
<1> DEFINE x == Head(todo)
<1>1. stage = "containers" /\ todo # <<>> /\ Fail /\ \E d \in x.needs : ~Found(d)
  BY DEF BuildFails, Asks
<1>2. PICK d \in x.needs : ~Found(d)
  BY <1>1
<1>3. d \in ServiceNames \cup {"database"}
  BY <1>1, <1>2, AskedIs DEF SharedInv
<1>4. d \notin DOMAIN byType
  BY <1>2, <1>3, FoundIs DEF SharedInv, ServiceNames
<1>5. 1 \in DOMAIN todo /\ todo[1] = x
  BY <1>1 DEF SharedInv, Placed
<1>6. CASE Current.module # "viewer"
  <2>1. Met(todo, DOMAIN byType, 1)
    BY <1>1, <1>5, <1>6 DEF CauseInv, Causes, Pending
  <2> QED BY <1>2, <1>4, <1>5, <2>1 DEF Met
<1> QED BY <1>1, <1>6, FailsWith DEF Cause

(* The same module has been loaded before. *)
LEMMA AgainIsCause ==
  ASSUME Placed, at <= Len(plan), ~Skipped(Current), Before(Current.module)
  PROVE  Cause
<1>1. PICK i \in Loaded : i < at /\ plan[i].module = Current.module
  BY DEF Before
<1> QED BY <1>1, CurrentIsLoaded DEF Cause, Current

LEMMA ThirdPartyFailsForCause ==
  ASSUME SharedInv, CauseInv, ThirdPartyFails
  PROVE  CauseInv'
<1> DEFINE n == Head(todo).type
           t == ThirdParty[n]
<1>1. /\ stage = "containers" /\ todo # <<>> /\ Fail
      /\ n \in ThirdParties /\ ~C!Valid(t.bean, n, TRUE, t.as)
  BY ThirdPartyIs DEF ThirdPartyFails, AsksThirdParty
<1>2. at <= Len(plan) /\ ~Skipped(Current) /\ FromPlugins /\ Pending /\ Untouched
  BY <1>1 DEF SharedInv, Placed, CauseInv, Causes, Pending
<1>3. 1 \in DOMAIN todo /\ n \in Types(todo)
  BY <1>1 DEF SharedInv, Placed, Types
<1>4. Current.module = PluginOf(n)
  BY <1>1, <1>2, <1>3 DEF Pending
<1>5. Brought(n) => Before(Current.module)
  BY <1>1, <1>4 DEF Brought, Finished
<1>6. \/ n \in DOMAIN byName
      \/ t.bean[1] \in DOMAIN byType
      \/ n = "main" /\ "store" \in DOMAIN byType
  <2>1. t.bean \in AllBeans
    BY <1>1, ThirdPartyIs DEF ThirdParties, Bean, AllBeans, AllTypes, StoreTypes
  <2>2. C!Keys(t.bean, TRUE, t.as) = {t.bean[1]} \cup t.as
    BY <2>1 DEF C!Keys
  <2>3. \A a \in t.as : C!Assignable([b \in AllBeans |-> b[1]][t.bean], a)
    <3>1. \A a \in t.as : t.bean[1] \in StoreTypes /\ a = "store"
      BY <1>1, ThirdPartyIs DEF ThirdParties, Bean, StoreTypes
    <3> HIDE DEF t
    <3> QED BY <2>1, <3>1 DEF C!Assignable
  <2> HIDE DEF n
  <2>4. t.as = {} \/ (n = "main" /\ t.as = {"store"})
    BY <1>1, ThirdPartyIs DEF ThirdParties, Bean
  <2> HIDE DEF t
  <2>5. ~C!Available({t.bean[1]} \cup t.as, n)
    BY <1>1, <2>2, <2>3 DEF C!Valid
  <2> QED BY <2>4, <2>5 DEF C!Available
<1>7. CASE StorePlugin(n)
  <2>1. t.bean[1] = StoreOf(n)
    BY <1>7, ThirdPartyIs DEF StorePlugin, StoreOf, Bean
  <2>2. n = "main" => StoreOf(n) = "mainStore"
    BY DEF StoreOf
  <2> HIDE DEF n, t
  <2>3. Brought(n)
    BY <1>1, <1>2, <1>6, <1>7, <2>1, <2>2 DEF FromPlugins
  <2> QED BY <1>1, <1>2, <1>5, <2>3, AgainIsCause, FailsWith DEF SharedInv
<1>8. CASE n = "customHub"
  <2>1. t.bean[1] = "realtimeHub" /\ Current.module = "custom"
    BY <1>4, <1>8, ThirdPartyIs DEF Bean, PluginOf
  <2> HIDE DEF t
  <2>2. CASE n \in DOMAIN byName
    BY <1>1, <1>2, <1>5, <2>2, AgainIsCause, FailsWith DEF SharedInv, FromPlugins
  <2>3. CASE "realtimeHub" \in DOMAIN byType
    <3>1. PICK i \in Loaded : i # at
      BY <1>1, <1>2, <1>3, <1>8, <2>3 DEF Untouched
    <3>2. at \in Loaded /\ i < at
      BY <1>2, <3>1, CurrentIsLoaded DEF SharedInv, Placed, Loaded
    <3>3. Cause
      BY <2>1, <3>2 DEF Cause, Current
    <3> QED BY <1>1, <3>3, FailsWith
  <2> QED BY <1>6, <1>8, <2>1, <2>2, <2>3
<1>9. StorePlugin(n) \/ n = "customHub"
  BY <1>1 DEF StorePlugin, ThirdParties
<1> QED BY <1>7, <1>8, <1>9

(* A lookup of the interface fails for want of an implementation, or       *)
(* because there are two.                                                  *)
LEMMA StoreNotFound ==
  ASSUME Registered, ~Found("store")
  PROVE  /\ "store" \notin DOMAIN byType
         /\ \A k \in StoreTypes \cap DOMAIN byType :
              \E j \in StoreTypes \cap DOMAIN byType : j # k
<1>1. "store" \notin DOMAIN byType
  BY DEF Found, C!ResolveType
<1> DEFINE found == {byType[k] : k \in C!Matching("store")}
<1>2. ASSUME NEW b \in found
      PROVE  /\ [c \in AllBeans |-> c[1]][b] = b[1]
             /\ b[1] \in StoreTypes \cap DOMAIN byType
  <2>1. PICK k \in C!Matching("store") : b = byType[k]
    OBVIOUS
  <2>2. k \in DOMAIN byType /\ k # "store" /\ b \in AllBeans
    BY <1>1, <2>1 DEF C!Matching, Registered
  <2>3. b[1] = k
    BY <2>1, <2>2 DEF Registered
  <2>4. \/ <<k, "store">> \in StoreTypes \X {"store"}
        \/ <<b[1], "store">> \in StoreTypes \X {"store"}
    BY <2>1, <2>2, <2>3 DEF C!Matching, C!Assignable
  <2> QED BY <2>1, <2>2, <2>3, <2>4
<1>3. ASSUME NEW k \in StoreTypes \cap DOMAIN byType,
             \A j \in StoreTypes \cap DOMAIN byType : j = k
      PROVE  FALSE
  <2>1. byType[k] \in found
    BY DEF C!Matching, C!Assignable
  <2>2. \A b, c \in found : [e \in AllBeans |-> e[1]][b] = [e \in AllBeans |-> e[1]][c]
    <3> HIDE DEF found
    <3> QED BY <1>2, <1>3
  <2>3. C!ResolveType("store") = found
    BY <1>1, <2>2 DEF C!ResolveType
  <2> QED BY <2>1, <2>3 DEF Found
<1> QED BY <1>1, <1>3

LEMMA WireFailsForCause ==
  ASSUME SharedInv, CauseInv, WireFails
  PROVE  CauseInv'
<1> DEFINE m == Current.module
<1>1. stage = "containers" /\ todo = <<>> /\ Fail
  BY DEF WireFails
<1>2. /\ at <= Len(plan) /\ ~Skipped(Current) /\ m \in DOMAIN Modules /\ m \in ModuleNames
      /\ FromModules /\ FromPlugins /\ Pending
  BY <1>1, CurrentIs, ModuleNamesAre DEF SharedInv, Placed, CauseInv, Causes, Pending
<1>3. CASE ~C!Valid(<<m, "own">>, m, TRUE, {})
  <2>1. <<m, "own">> \in AllBeans /\ [b \in AllBeans |-> b[1]][<<m, "own">>] = m
    BY <1>2 DEF AllBeans, AllTypes
  <2> HIDE DEF m
  <2>2. C!Keys(<<m, "own">>, TRUE, {}) = {m}
    BY <2>1 DEF C!Keys
  <2>3. m \in DOMAIN byType \/ m \in DOMAIN byName
    BY <1>3, <2>2 DEF C!Valid, C!Available
  <2>4. Before(m)
    BY <1>1, <1>2, <2>3 DEF FromModules, Finished
  <2> QED BY <1>1, <1>2, <2>4, AgainIsCause, FailsWith DEF SharedInv, m
<1>4. CASE ~Wired(m)
  <2>1. PICK t \in Modules[m].fields : ~Found(t)
    BY <1>4 DEF Wired
  <2>2. CASE m \notin {"viewer", "catalog", "report"}
    <3>1. t \in DOMAIN byType \cup Types(todo)
      BY <1>1, <1>2, <2>1, <2>2 DEF Pending
    <3>2. Types(todo) = {}
      BY <1>1 DEF Types
    <3> QED BY <2>1, <3>1, <3>2 DEF Found, C!ResolveType
  <2>3. CASE m \in {"catalog", "report"}
    <3>1. /\ "store" \notin DOMAIN byType
          /\ \A k \in StoreTypes \cap DOMAIN byType :
               \E j \in StoreTypes \cap DOMAIN byType : j # k
      <4>1. t = "store"
        BY <1>2, <2>1, <2>3, ModuleIsComplete
      <4> QED BY <2>1, <4>1, StoreNotFound DEF SharedInv
    <3>2. ASSUME NEW n \in ThirdParties, StorePlugin(n)
          PROVE  StoreOf(n) \in DOMAIN byType <=> PluginOf(n) \in LoadedStores
      <4>1. m # PluginOf(n) /\ PluginOf(n) \in {"sqlitePlugin", "memoryPlugin", "mainPlugin"}
        BY <2>3, <3>2 DEF PluginOf, StorePlugin
      <4>2. Brought(n) <=> Before(PluginOf(n))
        BY <1>1, <4>1 DEF Brought, Finished
      <4>3. Before(PluginOf(n)) <=> PluginOf(n) \in LoadedStores
        BY <4>1 DEF Before, LoadedStores, Loaded, SharedInv, Placed
      <4> QED BY <1>2, <3>2, <4>2, <4>3 DEF FromPlugins
    <3>3. "mainPlugin" \notin LoadedStores
      <4>1. "main" \in ThirdParties /\ StorePlugin("main") /\ PluginOf("main") = "mainPlugin"
            /\ StoreOf("main") = "mainStore"
        BY DEF ThirdParties, StorePlugin, PluginOf, StoreOf
      <4> QED BY <1>2, <3>1, <3>2, <4>1 DEF FromPlugins
    <3>4. ASSUME NEW p, LoadedStores = {p} PROVE FALSE
      <4>1. p \in {"sqlitePlugin", "memoryPlugin", "mainPlugin"}
        BY <3>4 DEF LoadedStores
      <4>2. PICK n \in {"sqlite", "memory", "main"} : PluginOf(n) = p
        BY <4>1 DEF PluginOf
      <4>3. /\ StorePlugin(n) /\ n \in ThirdParties /\ StoreOf(n) \in StoreTypes
        BY <4>2 DEF StorePlugin, ThirdParties, StoreOf, StoreTypes
      <4>4. StoreOf(n) \in DOMAIN byType
        BY <3>2, <3>4, <4>2, <4>3
      <4>5. PICK j \in StoreTypes \cap DOMAIN byType : j # StoreOf(n)
        BY <3>1, <4>3, <4>4
      <4>6. PICK k \in {"sqlite", "memory", "main"} : StoreOf(k) = j
        BY <4>5 DEF StoreTypes, StoreOf
      <4>7. StorePlugin(k) /\ k \in ThirdParties /\ k # n
        BY <4>5, <4>6 DEF StorePlugin, ThirdParties
      <4>8. PluginOf(k) = PluginOf(n)
        BY <3>2, <3>4, <4>2, <4>5, <4>6, <4>7
      <4> QED BY <4>2, <4>6, <4>7, <4>8 DEF PluginOf
    <3>5. Cardinality(LoadedStores) # 1
      <4>1. IsFiniteSet({"sqlitePlugin", "memoryPlugin", "mainPlugin"})
        <5>1. IsFiniteSet({"sqlitePlugin"})
          BY FS_Singleton
        <5>2. IsFiniteSet({"sqlitePlugin"} \cup {"memoryPlugin"})
          BY <5>1, FS_AddElement
        <5>3. IsFiniteSet({"sqlitePlugin"} \cup {"memoryPlugin"} \cup {"mainPlugin"})
          BY <5>2, FS_AddElement
        <5>4. {"sqlitePlugin", "memoryPlugin", "mainPlugin"} =
                {"sqlitePlugin"} \cup {"memoryPlugin"} \cup {"mainPlugin"}
          OBVIOUS
        <5> QED BY <5>3, <5>4
      <4>2. IsFiniteSet(LoadedStores)
        BY <4>1, FS_Subset DEF LoadedStores
      <4> QED BY <3>4, <4>2, FS_Singleton
    <3> QED BY <1>1, <2>3, <3>3, <3>5, FailsWith DEF Cause
  <2>4. CASE m = "viewer"
    BY <1>1, <2>4, FailsWith DEF Cause
  <2> QED BY <2>2, <2>3, <2>4
<1> QED BY <1>3, <1>4 DEF WireFails

LEMMA MountPanicsForCause ==
  ASSUME SharedInv, CauseInv, MountPanics
  PROVE  CauseInv'
<1>1. stage = "mounting" /\ Fail /\ \E r \in routes : r \in Mounts(Current)
  BY DEF MountPanics
<1>2. PICK r \in routes : r \in Mounts(Current)
  BY <1>1
<1>3. PICK i \in Loaded : i < at /\ r \in Mounts(plan[i])
  BY <1>1 DEF CauseInv, Causes, FromModules
<1>4. at \in Loaded
  BY <1>1, CurrentIsLoaded DEF SharedInv, Placed, CauseInv, Causes, Pending
<1>5. Cause
  <2>1. Mounts(plan[i]) \cap Mounts(plan[at]) # {}
    BY <1>2, <1>3 DEF Current
  <2> QED BY <1>3, <1>4, <2>1 DEF Cause
<1> QED BY <1>1, <1>5, FailsWith

-----------------------------------------------------------------------------
(* The steps that fail nothing.                                            *)

(* The entry that is being loaded stays. *)
SameEntry == UNCHANGED <<plan, at>>

LEMMA EntryStays ==
  ASSUME SameEntry
  PROVE  /\ Loaded' = Loaded /\ Current' = Current
         /\ \A m : Before(m)' <=> Before(m)
<1>1. plan' = plan /\ at' = at /\ Loaded' = Loaded /\ Current' = Current
  BY DEF SameEntry, Loaded, Current, Skipped, Exports
<1> QED BY <1>1 DEF Before

LEMMA EntryPasses ==
  ASSUME Placed, at <= Len(plan), plan' = plan, at' = at + 1
  PROVE  /\ Loaded \subseteq Loaded' /\ at \in Nat
         /\ \A i : i \in Loaded' /\ i < at' <=>
                     (i \in Loaded /\ i < at) \/ (i = at /\ ~Skipped(Current))
         /\ \A m : Before(m)' <=> Before(m) \/ (~Skipped(Current) /\ Current.module = m)
<1>1. at \in Nat \ {0} /\ at \in 1..Len(plan) /\ Len(plan) \in Nat
  BY DEF Placed
<1>2. Loaded' = {i \in 1..(at + 1) : i <= Len(plan) /\ ~Skipped(plan[i])}
  BY DEF Loaded, Skipped, Exports
<1>3. \A i : i \in Loaded' /\ i < at' <=>
               (i \in Loaded /\ i < at) \/ (i = at /\ ~Skipped(Current))
  BY <1>1, <1>2 DEF Loaded, Current
<1>4. Loaded \subseteq Loaded'
  BY <1>1, <1>2 DEF Loaded
<1>5. \A m : Before(m)' <=> \E i : (i \in Loaded' /\ i < at') /\ plan[i].module = m
  BY DEF Before
<1> QED BY <1>1, <1>3, <1>4, <1>5 DEF Before, Current

LEMMA SkipKeepsCauses ==
  ASSUME SharedInv, CauseInv, Skip
  PROVE  CauseInv'
<1>1. /\ stage = "loading" /\ stage' = "loading" /\ at <= Len(plan) /\ Skipped(Current)
      /\ at' = at + 1 /\ UNCHANGED <<byType, byName, plan, routes>>
  BY DEF Skip
<1>2. /\ Loaded \subseteq Loaded' /\ at \in Nat
      /\ \A i : i \in Loaded' /\ i < at' <=> i \in Loaded /\ i < at
      /\ \A m : Before(m)' <=> Before(m)
  BY <1>1, EntryPasses DEF SharedInv
<1>3. Causes
  BY <1>1 DEF CauseInv
<1>4. \A m : Finished(m)' <=> Finished(m)
  BY <1>1, <1>2 DEF Finished
<1>5. \A n : Brought(n)' <=> Brought(n)
  BY <1>1, <1>4 DEF Brought
<1>6. FromModules'
  <2>1. \A r \in routes : \E i \in Loaded' : i < at' /\ r \in Mounts(plan[i])
    BY <1>2, <1>3 DEF Causes, FromModules
  <2> QED BY <1>1, <1>3, <1>4, <2>1 DEF Causes, FromModules, Mounts
<1>7. FromPlugins'
  BY <1>1, <1>3, <1>5 DEF Causes, FromPlugins
<1>8. Pending'
  BY <1>1, <1>3 DEF Causes, Pending
<1>9. Untouched'
  <2> SUFFICES ASSUME \A i \in Loaded' : i = at' PROVE "realtimeHub" \notin DOMAIN byType
    BY <1>1 DEF Untouched
  <2>1. \A i \in Loaded : i = at
    BY <1>1, <1>2 DEF Loaded
  <2> QED BY <1>1, <1>3, <2>1 DEF Causes, Untouched
<1> QED BY <1>1, <1>6, <1>7, <1>8, <1>9 DEF CauseInv, Causes, FailsForCause

LEMMA LoadKeepsCauses ==
  ASSUME SharedInv, CauseInv, Load
  PROVE  CauseInv'
<1> DEFINE m == Current.module
<1>1. /\ stage = "loading" /\ stage' = "containers" /\ at <= Len(plan) /\ ~Skipped(Current)
      /\ todo' = Modules[m].containers /\ UNCHANGED <<byType, byName, plan, at, routes>>
  BY DEF Load
<1>2. /\ Loaded' = Loaded /\ Current' = Current /\ \A k : Before(k)' <=> Before(k)
  BY <1>1, EntryStays DEF SameEntry
<1>3. Causes /\ m \in DOMAIN Modules
  BY <1>1, CurrentIs DEF CauseInv, SharedInv
<1>4. /\ m # "viewer" => Closed(todo')
      /\ m \notin {"viewer", "catalog", "report"} => Modules[m].fields \subseteq Types(todo')
      /\ \A n \in ThirdParties :
           /\ n \in Types(todo') => m = PluginOf(n)
           /\ m = PluginOf(n) => todo' = Registers(n)
  BY <1>1, <1>3, ModuleIsComplete
<1>5. \A k : Finished(k)' <=> Finished(k)
  BY <1>1, <1>2 DEF Finished
<1>6. \A n \in ThirdParties : Brought(n)' <=> Brought(n)
  <2>1. \A n \in ThirdParties : Registers(n) # <<>>
    BY DEF Registers
  <2> QED BY <1>1, <1>2, <1>4, <1>5, <2>1 DEF Brought
<1>7. FromModules'
  BY <1>1, <1>2, <1>3, <1>5 DEF Causes, FromModules, Mounts
<1>8. FromPlugins'
  BY <1>1, <1>3, <1>6 DEF Causes, FromPlugins
<1>9. Pending'
  <2>1. "database" \in DOMAIN byType' /\ ~Skipped(Current')
    BY <1>1, <1>2, <1>3 DEF Causes, Pending
  <2>2. m # "viewer" => \A i \in DOMAIN todo' : Met(todo', DOMAIN byType', i)
    BY <1>4, <2>1 DEF Closed, Met
  <2> HIDE DEF m
  <2>3. /\ m \notin {"viewer", "catalog", "report"} =>
             Modules[m].fields \subseteq DOMAIN byType' \cup Types(todo')
        /\ \A n \in ThirdParties :
             /\ n \in Types(todo') => m = PluginOf(n)
             /\ m = PluginOf(n) => todo' = <<>> \/ todo' = Registers(n)
    BY <1>4
  <2>4. Current'.module = m
    BY <1>2 DEF m
  <2> QED BY <1>1, <2>1, <2>2, <2>3, <2>4 DEF Pending, Types, Met, Skipped, Exports
<1>10. Untouched'
  BY <1>1, <1>2, <1>3 DEF Causes, Untouched
<1> QED BY <1>1, <1>7, <1>8, <1>9, <1>10 DEF CauseInv, Causes, FailsForCause

LEMMA NamesGrow ==
  ASSUME NEW b, NEW n, NEW as, C!Register(b, n, TRUE, as), n # ""
  PROVE  DOMAIN byName' = DOMAIN byName \cup {n}
BY DEF C!Register

(* A service that is there, or has been built, is not asked for again.     *)
LEMMA AskedKeepsCauses ==
  ASSUME SharedInv, CauseInv, Asks, todo' = Tail(todo), UNCHANGED <<plan, at, stage, routes>>,
         DOMAIN byType' = DOMAIN byType \cup {Head(todo).type},
         DOMAIN byName \subseteq DOMAIN byName',
         DOMAIN byName' \subseteq DOMAIN byName \cup {Head(todo).type}
  PROVE  CauseInv'
<1> DEFINE x == Head(todo)
<1>1. stage = "containers" /\ todo # <<>> /\ x.type \in Services
  BY DEF Asks
<1>2. x.type \in ServiceNames
  BY <1>1, ServicesAre
<1>3. /\ Loaded' = Loaded /\ Current' = Current /\ \A k : Before(k)' <=> Before(k)
  BY EntryStays DEF SameEntry
<1>4. Causes /\ todo \in Seq(Part)
  BY <1>1 DEF CauseInv, SharedInv, Placed
<1>5. Types(todo) = {x.type} \cup Types(Tail(todo))
  BY <1>1, <1>4, RestIs
<1>6. ASSUME NEW n \in ThirdParties PROVE Current.module # PluginOf(n) /\ n \notin Types(todo)
  <2>1. SUFFICES ASSUME Current.module = PluginOf(n) PROVE FALSE
    BY <1>1, <1>4 DEF Causes, Pending
  <2>2. todo = Registers(n)
    BY <1>1, <1>4, <2>1 DEF Causes, Pending
  <2>3. Head(Registers(n)).type = n
    BY DEF Registers, Service
  <2>4. n \notin ServiceNames
    BY DEF ThirdParties, ServiceNames
  <2> QED BY <1>2, <2>2, <2>3, <2>4
<1>7. /\ \A k : Finished(k)' <=> Finished(k)
      /\ \A n \in ThirdParties : Brought(n)' <=> Brought(n)
  <2>1. \A k : Finished(k)' <=> Finished(k)
    BY <1>1, <1>3 DEF Finished
  <2> QED BY <1>1, <1>3, <1>6, <2>1 DEF Brought
<1>8. FromModules'
  <2>1. \A m \in ModuleNames : m # x.type
    BY <1>2 DEF ModuleNames, ServiceNames
  <2> HIDE DEF x
  <2>2. \A m \in ModuleNames : m \in DOMAIN byType' \/ m \in DOMAIN byName' => Finished(m)'
    BY <1>4, <1>7, <2>1 DEF Causes, FromModules, x
  <2>3. \A r \in routes : \E i \in Loaded : i < at /\ r \in Mounts(plan[i])
    BY <1>4 DEF Causes, FromModules
  <2> QED BY <1>3, <2>2, <2>3 DEF FromModules, Mounts
<1>9. FromPlugins'
  <2>1. \A n \in ThirdParties : n # x.type /\ StoreOf(n) # x.type
    BY <1>2 DEF ThirdParties, StoreOf, ServiceNames
  <2>2. x.type # "store" /\ x.type # "mainStore"
    BY <1>2 DEF ServiceNames
  <2> HIDE DEF x
  <2>3. /\ \A n \in ThirdParties : n \in DOMAIN byName' => Brought(n)'
        /\ \A n \in ThirdParties : StorePlugin(n) => (StoreOf(n) \in DOMAIN byType' <=> Brought(n)')
    BY <1>4, <1>7, <2>1 DEF Causes, FromPlugins, x
  <2>4. "store" \in DOMAIN byType' <=> "mainStore" \in DOMAIN byType'
    BY <1>4, <2>2 DEF Causes, FromPlugins, x
  <2> QED BY <2>3, <2>4 DEF FromPlugins, StorePlugin, StoreOf
<1>10. Pending'
  <2>1. "database" \in DOMAIN byType' /\ ~Skipped(Current)
    BY <1>1, <1>4 DEF Causes, Pending
  <2>2. Current.module # "viewer" => \A i \in DOMAIN todo' : Met(todo', DOMAIN byType', i)
    BY <1>1, <1>4, RestIs DEF Causes, Pending
  <2>3. Current.module \notin {"viewer", "catalog", "report"} =>
          Modules[Current.module].fields \subseteq DOMAIN byType' \cup Types(todo')
    BY <1>1, <1>4, <1>5 DEF Causes, Pending
  <2>4. \A n \in ThirdParties : n \notin Types(todo') /\ Current.module # PluginOf(n)
    BY <1>5, <1>6
  <2> QED BY <1>1, <1>3, <2>1, <2>2, <2>3, <2>4 DEF Pending, Types, Met, Skipped, Exports
<1>11. Untouched'
  <2>1. "customHub" \in ThirdParties
    BY DEF ThirdParties
  <2>2. "customHub" \notin Types(todo')
    BY <1>5, <1>6, <2>1
  <2> QED BY <1>1, <2>2 DEF Untouched, Types
<1> QED BY <1>1, <1>8, <1>9, <1>10, <1>11 DEF CauseInv, Causes, FailsForCause

LEMMA KeepKeepsCauses ==
  ASSUME SharedInv, CauseInv, Keep
  PROVE  CauseInv'
<1>1. Asks /\ Found(Head(todo).type) /\ todo' = Tail(todo)
  BY DEF Keep
<1>2. Head(todo).type \in ServiceNames
  BY <1>1, ServicesAre DEF Asks
<1>3. Head(todo).type \in DOMAIN byType
  <2>1. Head(todo).type # "store"
    BY <1>2 DEF ServiceNames
  <2> QED BY <1>1, <2>1, FoundIs DEF SharedInv
<1> QED BY <1>1, <1>3, AskedKeepsCauses DEF Keep

LEMMA BuildKeepsCauses ==
  ASSUME SharedInv, CauseInv, Build
  PROVE  CauseInv'
<1> DEFINE x == Head(todo)
           b == <<x.type, "own">>
<1>1. /\ Asks /\ C!Register(b, x.type, TRUE, {})
      /\ todo' = Tail(todo) /\ UNCHANGED <<plan, at, stage, routes>>
  BY DEF Build
<1>2. b \in AllBeans /\ b[1] = x.type
  BY <1>1 DEF Asks, AllBeans, AllTypes
<1>3. x.type # ""
  BY <1>1, ServicesAre DEF Asks, ServiceNames
<1>4. DOMAIN byType' = DOMAIN byType \cup {x.type}
  <2>1. {} \in SUBSET {"store"}
    OBVIOUS
  <2>2. DOMAIN byType' = DOMAIN byType \cup {b[1]} \cup {}
    <3> HIDE DEF b, x
    <3> QED BY <1>1, <1>2, <2>1, RegisterIs DEF SharedInv
  <2> QED BY <1>2, <2>2
<1>5. DOMAIN byName' = DOMAIN byName \cup {x.type}
  BY <1>1, <1>3, NamesGrow
<1> QED BY <1>1, <1>4, <1>5, AskedKeepsCauses

LEMMA ThirdPartyKeepsCauses ==
  ASSUME SharedInv, CauseInv, RegisterThirdParty
  PROVE  CauseInv'
<1> DEFINE n == Head(todo).type
           t == ThirdParty[n]
           m == Current.module
<1>1. /\ stage = "containers" /\ todo # <<>> /\ n \in ThirdParties
      /\ C!Register(t.bean, n, TRUE, t.as)
      /\ todo' = Tail(todo) /\ UNCHANGED <<plan, at, stage, routes>>
  BY ThirdPartyIs DEF RegisterThirdParty, AsksThirdParty
<1>2. /\ Loaded' = Loaded /\ Current' = Current /\ \A k : Before(k)' <=> Before(k)
  BY <1>1, EntryStays DEF SameEntry
<1>3. /\ Causes /\ todo \in Seq(Part) /\ m \in DOMAIN Modules /\ ~Skipped(Current)
  BY <1>1, CurrentIs DEF CauseInv, Causes, Pending, SharedInv, Placed
<1>4. m = PluginOf(n) /\ todo = Registers(n) /\ n \in Types(todo)
  <2>1. n \in Types(todo)
    BY <1>1, <1>3 DEF Types
  <2> QED BY <1>1, <1>3, <2>1 DEF Causes, Pending
<1>5. todo' = <<>>
  <2>1. Len(todo) = 1
    BY <1>1, <1>4, ClosedBase
  <2> QED BY <1>1, <1>3, <2>1
<1>6. /\ t.bean \in AllBeans /\ t.as \in SUBSET {"store"} /\ (t.as # {} => t.bean[1] \in StoreTypes)
      /\ t.bean[1] \in StoreTypes \cup {"realtimeHub"}
      /\ \A k \in ThirdParties : StorePlugin(k) => (StoreOf(k) = t.bean[1] <=> k = n)
      /\ "store" \in t.as <=> t.bean[1] = "mainStore"
  BY <1>1, ThirdPartyIs DEF ThirdParties, Bean, AllBeans, AllTypes, StoreTypes, StorePlugin, StoreOf
<1> HIDE DEF t
<1>7. DOMAIN byType' = DOMAIN byType \cup {t.bean[1]} \cup t.as
  BY <1>1, <1>6, RegisterIs DEF SharedInv
<1>8. DOMAIN byName' = DOMAIN byName \cup {n}
  <2>1. n # ""
    BY <1>1 DEF ThirdParties
  <2> QED BY <1>1, <2>1, NamesGrow
<1>9. \A k \in ThirdParties : PluginOf(k) = m <=> k = n
  BY <1>1, <1>4 DEF ThirdParties, PluginOf
<1>10. /\ \A k : Finished(k)' <=> Finished(k)
       /\ \A k \in ThirdParties : Brought(k)' <=> Brought(k) \/ k = n
  <2>1. \A k : Finished(k)' <=> Finished(k)
    BY <1>1, <1>2 DEF Finished
  <2> QED BY <1>1, <1>2, <1>5, <1>9, <2>1 DEF Brought
<1> HIDE DEF n, m
<1>11. FromModules'
  <2>1. \A k \in ModuleNames : k # n /\ k # t.bean[1] /\ k \notin t.as
    BY <1>1, <1>6 DEF ModuleNames, ThirdParties, StoreTypes
  <2>2. \A k \in ModuleNames : k \in DOMAIN byType' \/ k \in DOMAIN byName' => Finished(k)'
    BY <1>3, <1>7, <1>8, <1>10, <2>1 DEF Causes, FromModules
  <2>3. \A r \in routes : \E i \in Loaded : i < at /\ r \in Mounts(plan[i])
    BY <1>3 DEF Causes, FromModules
  <2> QED BY <1>1, <1>2, <2>2, <2>3 DEF FromModules, Mounts
<1>12. FromPlugins'
  <2>1. \A k \in ThirdParties : k \in DOMAIN byName' => Brought(k)'
    BY <1>3, <1>8, <1>10 DEF Causes, FromPlugins
  <2>2. ASSUME NEW k \in ThirdParties, StorePlugin(k)
        PROVE  StoreOf(k) \in DOMAIN byType' <=> Brought(k)'
    <3>1. StoreOf(k) \notin t.as
      BY <1>6 DEF StoreOf
    <3>2. StoreOf(k) \in DOMAIN byType <=> Brought(k)
      BY <1>3, <2>2 DEF Causes, FromPlugins
    <3> QED BY <1>6, <1>7, <1>10, <2>2, <3>1, <3>2
  <2>3. "store" \in DOMAIN byType' <=> "mainStore" \in DOMAIN byType'
    <3>1. "store" # t.bean[1] /\ "mainStore" \notin t.as
      BY <1>6 DEF StoreTypes
    <3> QED BY <1>3, <1>6, <1>7, <3>1 DEF Causes, FromPlugins
  <2> QED BY <2>1, <2>2, <2>3 DEF FromPlugins, StorePlugin, StoreOf
<1>13. Pending'
  <2>1. "database" \in DOMAIN byType'
    BY <1>3, <1>7 DEF Causes, Pending
  <2>2. m \notin {"viewer", "catalog", "report"} =>
          Modules[m].fields \subseteq DOMAIN byType'
    <3>1. Modules[m].fields = {}
      BY <1>1, <1>4, PluginsAre
    <3> QED BY <3>1
  <2>3. /\ Types(<<>>) = {} /\ \A i \in DOMAIN <<>> : Met(<<>>, DOMAIN byType', i)
    BY DEF Types
  <2> QED BY <1>1, <1>2, <1>3, <1>5, <2>1, <2>2, <2>3 DEF Pending, m, Types, Met, Skipped, Exports
<1>14. Untouched'
  BY <1>1, <1>5 DEF Untouched, Types
<1> QED BY <1>1, <1>11, <1>12, <1>13, <1>14 DEF CauseInv, Causes, FailsForCause

LEMMA WireKeepsCauses ==
  ASSUME SharedInv, CauseInv, Wire
  PROVE  CauseInv'
<1> DEFINE m == Current.module
           b == <<m, "own">>
<1>1. /\ stage = "containers" /\ todo = <<>> /\ stage' = "mounting"
      /\ C!Register(b, m, TRUE, {}) /\ UNCHANGED <<plan, at, todo, routes>>
  BY DEF Wire
<1>2. /\ Loaded' = Loaded /\ Current' = Current /\ \A k : Before(k)' <=> Before(k)
  BY <1>1, EntryStays DEF SameEntry
<1>3. Causes /\ m \in DOMAIN Modules /\ m \in ModuleNames /\ ~Skipped(Current)
  BY <1>1, CurrentIs, ModuleNamesAre DEF CauseInv, Causes, Pending, SharedInv, Placed
<1>4. b \in AllBeans /\ b[1] = m
  BY <1>3 DEF AllBeans, AllTypes
<1>5. DOMAIN byType' = DOMAIN byType \cup {m}
  <2>1. {} \in SUBSET {"store"}
    OBVIOUS
  <2>2. DOMAIN byType' = DOMAIN byType \cup {b[1]} \cup {}
    <3> HIDE DEF b, m
    <3> QED BY <1>1, <1>4, <2>1, RegisterIs DEF SharedInv
  <2> QED BY <1>4, <2>2
<1>6. DOMAIN byName' = DOMAIN byName \cup {m}
  <2>1. m # ""
    BY <1>3 DEF ModuleNames
  <2> QED BY <1>1, <2>1, NamesGrow
<1>7. /\ \A k : Finished(k)' <=> Finished(k) \/ k = m
      /\ \A n \in ThirdParties : Brought(n)' <=> Brought(n)
  <2>1. \A k : Finished(k)' <=> Finished(k) \/ k = m
    BY <1>1, <1>2 DEF Finished
  <2> QED BY <1>1, <1>2, <2>1 DEF Brought
<1> HIDE DEF m
<1>8. FromModules'
  <2>1. \A k \in ModuleNames : k \in DOMAIN byType' \/ k \in DOMAIN byName' => Finished(k)'
    BY <1>3, <1>5, <1>6, <1>7 DEF Causes, FromModules
  <2>2. \A r \in routes : \E i \in Loaded : i < at /\ r \in Mounts(plan[i])
    BY <1>3 DEF Causes, FromModules
  <2> QED BY <1>1, <1>2, <2>1, <2>2 DEF FromModules, Mounts
<1>9. FromPlugins'
  <2>1. \A n \in ThirdParties : n # m /\ StoreOf(n) # m
    BY <1>3 DEF ThirdParties, StoreOf, ModuleNames
  <2>2. m # "store" /\ m # "mainStore"
    BY <1>3 DEF ModuleNames
  <2>3. /\ \A n \in ThirdParties : n \in DOMAIN byName' => Brought(n)'
        /\ \A n \in ThirdParties : StorePlugin(n) => (StoreOf(n) \in DOMAIN byType' <=> Brought(n)')
    BY <1>3, <1>5, <1>6, <1>7, <2>1 DEF Causes, FromPlugins
  <2>4. "store" \in DOMAIN byType' <=> "mainStore" \in DOMAIN byType'
    BY <1>3, <1>5, <2>2 DEF Causes, FromPlugins
  <2> QED BY <2>3, <2>4 DEF FromPlugins, StorePlugin, StoreOf
<1>10. Pending'
  BY <1>1, <1>2, <1>3, <1>5 DEF Causes, Pending, Skipped, Exports
<1>11. Untouched'
  BY <1>1 DEF Untouched
<1> QED BY <1>1, <1>8, <1>9, <1>10, <1>11 DEF CauseInv, Causes, FailsForCause

LEMMA MountKeepsCauses ==
  ASSUME SharedInv, CauseInv, Mount
  PROVE  CauseInv'
<1>1. /\ stage = "mounting" /\ stage' = "loading" /\ at' = at + 1
      /\ routes' = routes \cup Mounts(Current) /\ UNCHANGED <<byType, byName, plan>>
  BY DEF Mount
<1>2. Causes /\ at <= Len(plan) /\ ~Skipped(Current)
  BY <1>1 DEF CauseInv, Causes, Pending, SharedInv, Placed
<1>3. /\ at \in Nat
      /\ \A i : i \in Loaded' /\ i < at' <=> (i \in Loaded /\ i < at) \/ i = at
      /\ \A m : Before(m)' <=> Before(m) \/ Current.module = m
  BY <1>1, <1>2, EntryPasses DEF SharedInv
<1>4. /\ \A m : Finished(m)' <=> Finished(m)
      /\ \A n : Brought(n)' <=> Brought(n)
  <2>1. \A m : Finished(m)' <=> Finished(m)
    BY <1>1, <1>3 DEF Finished
  <2> QED BY <1>1, <2>1 DEF Brought
<1>5. FromModules'
  <2>1. ASSUME NEW r \in routes' PROVE \E i \in Loaded' : i < at' /\ r \in Mounts(plan[i])
    <3>1. r \in Mounts(plan[at]) \/ \E i \in Loaded : i < at /\ r \in Mounts(plan[i])
      BY <1>1, <1>2 DEF Causes, FromModules, Current
    <3> QED BY <1>3, <3>1
  <2>2. \A m \in ModuleNames : m \in DOMAIN byType' \/ m \in DOMAIN byName' => Finished(m)'
    BY <1>1, <1>2, <1>4 DEF Causes, FromModules
  <2> QED BY <1>1, <2>1, <2>2 DEF FromModules, Mounts
<1>6. FromPlugins'
  BY <1>1, <1>2, <1>4 DEF Causes, FromPlugins
<1>7. Pending'
  BY <1>1, <1>2 DEF Causes, Pending
<1>8. Untouched'
  <2>1. at \in Loaded' /\ at # at'
    BY <1>1, <1>3
  <2> QED BY <2>1 DEF Untouched
<1> QED BY <1>1, <1>5, <1>6, <1>7, <1>8 DEF CauseInv, Causes, FailsForCause

LEMMA PublishKeepsCauses ==
  ASSUME SharedInv, CauseInv, Publish
  PROVE  CauseInv'
<1>1. /\ stage = "loading" /\ stage' = "started"
      /\ UNCHANGED <<byType, byName, plan, at, todo, routes>>
  BY DEF Publish
<1>2. /\ Loaded' = Loaded /\ Current' = Current /\ \A k : Before(k)' <=> Before(k)
  BY <1>1, EntryStays DEF SameEntry
<1>3. Causes
  BY <1>1 DEF CauseInv
<1>4. /\ \A m : Finished(m)' <=> Finished(m)
      /\ \A n : Brought(n)' <=> Brought(n)
  BY <1>1, <1>2 DEF Finished, Brought
<1>5. FromModules'
  BY <1>1, <1>2, <1>3, <1>4 DEF Causes, FromModules, Mounts
<1>6. FromPlugins'
  BY <1>1, <1>3, <1>4 DEF Causes, FromPlugins
<1>7. Pending' /\ Untouched'
  BY <1>1, <1>3 DEF Causes, Pending, Untouched
<1> QED BY <1>1, <1>5, <1>6, <1>7 DEF CauseInv, Causes, FailsForCause

LEMMA CauseInit == Init => CauseInv
<1> SUFFICES ASSUME Init PROVE CauseInv
  OBVIOUS
<1>1. /\ DOMAIN byType = {"container", "database"} /\ stage = "loading" /\ at = 1 /\ routes = {}
      /\ DOMAIN byName = {"container", "database", "auditDatabase"}
  BY DEF Init
<1>2. \A m : ~Finished(m)
  BY <1>1 DEF Finished, Before, Loaded
<1>3. \A n : ~Brought(n)
  BY <1>1, <1>2 DEF Brought
<1>4. FromModules
  BY <1>1 DEF FromModules, ModuleNames
<1>5. FromPlugins
  BY <1>1, <1>3 DEF FromPlugins, ThirdParties, StoreOf
<1>6. Pending /\ Untouched
  BY <1>1 DEF Pending, Untouched
<1> QED BY <1>1, <1>4, <1>5, <1>6 DEF CauseInv, Causes, FailsForCause

LEMMA SameCauses ==
  ASSUME CauseInv, UNCHANGED vars
  PROVE  CauseInv'
<1>1. /\ Loaded' = Loaded /\ Current' = Current /\ \A k : Before(k)' <=> Before(k)
      /\ UNCHANGED <<byType, byName, plan, at, stage, todo, routes>>
  BY EntryStays DEF vars, SameEntry
<1>2. /\ \A m : Finished(m)' <=> Finished(m)
      /\ \A n : Brought(n)' <=> Brought(n)
  BY <1>1 DEF Finished, Brought
<1>3. FailsForCause'
  BY <1>1 DEF CauseInv, FailsForCause, LoadedStores, Mounts
<1>4. FromModules' <=> FromModules
  BY <1>1, <1>2 DEF FromModules, Mounts
<1>5. FromPlugins' <=> FromPlugins
  BY <1>1, <1>2 DEF FromPlugins
<1>6. Pending' <=> Pending
  BY <1>1 DEF Pending, Types, Met, Skipped, Exports
<1>7. Untouched' <=> Untouched
  BY <1>1 DEF Untouched, Types
<1> QED BY <1>1, <1>3, <1>4, <1>5, <1>6, <1>7 DEF CauseInv, Causes

LEMMA CauseStep == SharedInv /\ CauseInv /\ [Next]_vars => CauseInv'
<1> SUFFICES ASSUME SharedInv, CauseInv, [Next]_vars PROVE CauseInv'
  OBVIOUS
<1>1. CASE Skip \/ Load
  BY <1>1, SkipKeepsCauses, LoadKeepsCauses
<1>2. CASE Keep \/ Build \/ RegisterThirdParty
  BY <1>2, KeepKeepsCauses, BuildKeepsCauses, ThirdPartyKeepsCauses
<1>3. CASE Wire \/ Mount \/ Publish
  BY <1>3, WireKeepsCauses, MountKeepsCauses, PublishKeepsCauses
<1>4. CASE BuildFails \/ ThirdPartyFails \/ WireFails \/ MountPanics
  BY <1>4, BuildFailsForCause, ThirdPartyFailsForCause, WireFailsForCause, MountPanicsForCause
<1>5. CASE UNCHANGED vars
  BY <1>5, SameCauses
<1> QED BY <1>1, <1>2, <1>3, <1>4, <1>5 DEF Next

(* The program starts with its own modules in every order, and with        *)
(* plugins among them unless one of the causes that FailsForCause names    *)
(* stops it (modules.go:62-84, every container.go).                        *)
THEOREM FailuresHaveCauses == Spec => []FailsForCause
<1>1. CauseInv => FailsForCause
  BY DEF CauseInv
<1> QED BY <1>1, CauseInit, CauseStep, SharedInit, SharedStep, PTL DEF Spec

-----------------------------------------------------------------------------
(* The migration of the schema: no start destroys a row, and a server      *)
(* whose database has no left-over copy serves every row with its own      *)
(* examples, for any number of rows, saves and stops.                      *)

(* Where a start is in the rebuild says what the two tables hold.  A table *)
(* that is not there has no rows, a copy is filled only when it was just   *)
(* made, and api_mocks is gone only when all its rows are in the copy.     *)
Tables ==
    /\ ~mocks.exists => mocks.rows = {}
    /\ ~copy.exists => copy.rows = {}
    /\ phase = "copyRows" => copy.rows = {}
    /\ phase = "dropOld" => copy.rows = mocks.rows
    /\ phase = "rename" => mocks.rows = {}

NothingLost == Tables /\ RowsSurvive

LEMMA InitLosesNothing == SchemaInit => NothingLost
<1> SUFFICES ASSUME SchemaInit PROVE NothingLost
  OBVIOUS
<1>1. Tables
  BY DEF SchemaInit, Tables, NoTable, Table
<1>2. RowsSurvive
  <2>1. CASE mocks = NoTable /\ examples = {} /\ wanted = {} /\ saved = 0
    BY <2>1 DEF RowsSurvive
  <2>2. CASE \E n \in 0 .. OldRows, unique \in BOOLEAN :
                /\ mocks = Table(unique, {[id |-> i, name |-> i] : i \in 1 .. n}, n)
                /\ wanted = 1 .. n
    <3>1. PICK n \in 0 .. OldRows, unique \in BOOLEAN :
             /\ mocks = Table(unique, {[id |-> i, name |-> i] : i \in 1 .. n}, n)
             /\ wanted = 1 .. n
      BY <2>2
    <3>2. mocks.rows = {[id |-> i, name |-> i] : i \in 1 .. n}
      BY <3>1 DEF Table
    <3>3. ASSUME NEW i \in 1 .. n PROVE i \in NamesIn(mocks)
      <4>1. [id |-> i, name |-> i] \in mocks.rows
        BY <3>2
      <4> QED BY <4>1 DEF NamesIn
    <3> QED BY <3>1, <3>3 DEF RowsSurvive
  <2> QED BY <2>1, <2>2 DEF SchemaInit
<1> QED BY <1>1, <1>2 DEF NothingLost

LEMMA NextLosesNothing == NothingLost /\ [SchemaNext]_schemaVars => NothingLost'
<1> SUFFICES ASSUME NothingLost, [SchemaNext]_schemaVars PROVE NothingLost'
  OBVIOUS
<1> USE DEF NothingLost, Tables, RowsSurvive, NamesIn, database, history
<1>1. CASE Open
  BY <1>1 DEF Open
<1>2. CASE SchemaStatements
  BY <1>2 DEF SchemaStatements, Empty, Table
<1>3. CASE Probe
  BY <1>3 DEF Probe
<1>4. CASE ForeignKeysOff
  BY <1>4 DEF ForeignKeysOff, SetForeignKeys
<1>5. CASE CreateCopy
  BY <1>5 DEF CreateCopy, Empty, Table
<1>6. CASE CopyRows
  <2>1. copy'.rows = mocks.rows /\ copy'.exists = TRUE
    BY <1>6 DEF CopyRows, Table
  <2>2. mocks' = mocks /\ wanted' = wanted /\ phase' = "dropOld" /\ copy.rows = {}
    BY <1>6 DEF CopyRows
  <2> QED BY <2>1, <2>2
<1>7. CASE DropOld
  BY <1>7 DEF DropOld, NoTable
<1>8. CASE Rename
  BY <1>8 DEF Rename, NoTable
<1>9. CASE CreateIndex
  BY <1>9 DEF CreateIndex
<1>10. CASE ForeignKeysOn
  BY <1>10 DEF ForeignKeysOn, SetForeignKeys
<1>11. CASE SaveMock
  <2> DEFINE new == [id |-> mocks.seq + 1, name |-> saved + 1]
  <2>1. /\ mocks'.rows = mocks.rows \cup {new} /\ mocks'.exists = TRUE
        /\ wanted' = wanted \cup {saved + 1}
        /\ copy' = copy /\ phase = "serving" /\ phase' = phase
    BY <1>11 DEF SaveMock, Table
  <2>2. new.name = saved + 1
    OBVIOUS
  <2> HIDE DEF new
  <2> QED BY <2>1, <2>2
<1>12. ASSUME NEW row \in mocks.rows, DeleteMock(row) PROVE NothingLost'
  <2>1. /\ mocks'.rows = mocks.rows \ {row} /\ mocks'.exists = TRUE
        /\ wanted' = wanted \ {row.name}
        /\ copy' = copy /\ phase = "serving" /\ phase' = phase
    BY <1>12 DEF DeleteMock, Table
  <2> QED BY <2>1
<1>13. CASE Stop
  BY <1>13 DEF Stop
<1>14. CASE UNCHANGED schemaVars
  BY <1>14 DEF schemaVars
<1> QED
  BY <1>1, <1>2, <1>3, <1>4, <1>5, <1>6, <1>7, <1>8, <1>9, <1>10, <1>11,
     <1>12, <1>13, <1>14 DEF SchemaNext, StartStep

(* No start, wherever it stops and however often it is tried again,        *)
(* destroys a row a user saved and did not delete (schema.go:33-76).       *)
THEOREM RowsAlwaysSurvive == SchemaSpec => []RowsSurvive
<1>1. NothingLost => RowsSurvive
  BY DEF NothingLost
<1> QED BY InitLosesNothing, NextLosesNothing, <1>1, PTL DEF SchemaSpec

-----------------------------------------------------------------------------
(* A set of numbers that is not empty has a least member. *)
LEMMA LeastNat ==
    ASSUME NEW S \in SUBSET Nat, S # {}
    PROVE  \E m \in S : \A k \in S : m <= k
<1> DEFINE Less == OpToRel(<, Nat)
<1>1. IsWellFoundedOn(Less, Nat)
  BY NatLessThanWellFounded, Zenon
<1>2. \A y \in S, z \in S : y < z => <<y, z>> \in Less
  BY DEF OpToRel
<1> HIDE DEF Less
<1>3. PICK m \in S : \A y \in S : <<y, m>> \notin Less
  BY <1>1, WFMin
<1>4. \A y \in S : ~(y < m)
  BY <1>2, <1>3
<1> QED BY <1>4

(* Max, which chooses, finds the greatest member of a bounded set. *)
LEMMA MaxOfBounded ==
    ASSUME NEW S \in SUBSET Nat, S # {}, NEW b \in Nat, \A x \in S : x <= b
    PROVE  Max(S) \in S /\ \A x \in S : Max(S) >= x
<1> DEFINE Gaps == {b - x : x \in S}
<1>1. Gaps \in SUBSET Nat /\ Gaps # {}
  <2>1. \A x \in S : b - x \in Nat
    OBVIOUS
  <2> QED BY <2>1
<1> HIDE DEF Gaps
<1>2. PICK g \in Gaps : \A k \in Gaps : g <= k
  BY <1>1, LeastNat
<1> USE DEF Gaps
<1>3. PICK m \in S : g = b - m
  BY <1>2
<1>4. ASSUME NEW x \in S PROVE m >= x
  <2>1. b - x \in Gaps
    OBVIOUS
  <2>2. b - m <= b - x
    BY <1>2, <1>3, <2>1
  <2> QED BY <2>2
<1> QED BY <1>3, <1>4 DEF Max

(* A table that holds just the rows a user wants, each with its example,   *)
(* and that will give the next row an id of its own.                       *)
Distinct(rows) ==
    \A r \in rows, s \in rows : r # s => r.id # s.id /\ r.name # s.name
Bounded(rows, seq, last) ==
    \A r \in rows : r.id \in Nat /\ r.id <= seq /\ r.name \in Nat /\ r.name <= last
ExamplesOf(rows) == {[mock |-> r.id, of |-> r.name] : r \in rows}
Whole(rows, seq) ==
    /\ seq \in Nat
    /\ Distinct(rows) /\ Bounded(rows, seq, saved)
    /\ {r.name : r \in rows} = wanted
    /\ examples = ExamplesOf(rows)

(* api_mocks is whole while no copy is there, and until it is dropped; the *)
(* copy is whole from there until it takes its name.  The examples live    *)
(* through the drop because foreign keys are off for all of the rebuild.   *)
Unbroken ==
    /\ saved \in Nat
    /\ ~mocks.exists => mocks.rows = {}
    /\ ~copy.exists \/ phase \in {"copyRows", "dropOld"} => Whole(mocks.rows, mocks.seq)
    /\ phase = "dropOld" => copy.rows = mocks.rows /\ Whole(copy.rows, copy.seq)
    /\ phase = "rename" => Whole(copy.rows, copy.seq)
    /\ phase \in {"copyRows", "dropOld", "rename"} => copy.exists
    /\ phase \in {"createCopy", "copyRows", "dropOld"} => ~foreignKeys
    /\ phase \in {"probe", "serving"} => foreignKeys

LEMMA InitUnbroken == SchemaInit => Unbroken
<1> SUFFICES ASSUME SchemaInit PROVE Unbroken
  OBVIOUS
<1>1. saved \in Nat /\ Whole(mocks.rows, mocks.seq)
  <2>1. CASE mocks = NoTable /\ examples = {} /\ wanted = {} /\ saved = 0
    BY <2>1 DEF NoTable, Whole, Distinct, Bounded, ExamplesOf
  <2>2. CASE \E n \in 0 .. OldRows, unique \in BOOLEAN :
                /\ mocks = Table(unique, {[id |-> i, name |-> i] : i \in 1 .. n}, n)
                /\ examples = {[mock |-> i, of |-> i] : i \in 1 .. n}
                /\ wanted = 1 .. n
                /\ saved = n
    <3>1. PICK n \in 0 .. OldRows, unique \in BOOLEAN :
             /\ mocks = Table(unique, {[id |-> i, name |-> i] : i \in 1 .. n}, n)
             /\ examples = {[mock |-> i, of |-> i] : i \in 1 .. n}
             /\ wanted = 1 .. n
             /\ saved = n
      BY <2>2
    <3>2. n \in Nat /\ mocks.seq = n
      BY <3>1, BoundsAssumption DEF Table
    <3>3. mocks.rows = {[id |-> i, name |-> i] : i \in 1 .. n}
      BY <3>1 DEF Table
    <3>4. Distinct(mocks.rows) /\ Bounded(mocks.rows, n, n)
      BY <3>2, <3>3 DEF Distinct, Bounded
    <3>5. \A i \in 1 .. n : [id |-> i, name |-> i] \in mocks.rows
      BY <3>3
    <3>6. \A r \in mocks.rows : r.id \in 1 .. n /\ r.name = r.id
      BY <3>3
    <3>7. {r.name : r \in mocks.rows} = 1 .. n
      BY <3>5, <3>6
    <3>8. ExamplesOf(mocks.rows) = {[mock |-> i, of |-> i] : i \in 1 .. n}
      BY <3>5, <3>6 DEF ExamplesOf
    <3> QED BY <3>1, <3>2, <3>4, <3>7, <3>8 DEF Whole
  <2> QED BY <2>1, <2>2 DEF SchemaInit
<1> QED BY <1>1 DEF SchemaInit, Unbroken, NoTable, Table

(* A user at work on a whole table leaves it whole. *)
LEMMA SaveKeepsWhole ==
    ASSUME SaveMock, Whole(mocks.rows, mocks.seq), saved \in Nat
    PROVE  Whole(mocks.rows, mocks.seq)'
<1> DEFINE id == mocks.seq + 1
           name == saved + 1
           new == [id |-> id, name |-> name]
<1>1. /\ mocks'.rows = mocks.rows \cup {new} /\ mocks'.seq = id
      /\ examples' = {e \in examples : e.mock # id} \cup {[mock |-> id, of |-> name]}
      /\ wanted' = wanted \cup {name} /\ saved' = name
  BY DEF SaveMock, Table
<1>2. id \in Nat /\ name \in Nat /\ mocks.seq < id /\ saved < name
  BY DEF Whole
<1>3. new.id = id /\ new.name = name
  OBVIOUS
<1>4. \A r \in mocks.rows : /\ r.id \in Nat /\ r.id <= id /\ r.id # id
                            /\ r.name \in Nat /\ r.name <= name /\ r.name # name
  BY <1>2 DEF Whole, Bounded
<1> HIDE DEF new
<1>5. Distinct(mocks'.rows) /\ Bounded(mocks'.rows, id, name)
  BY <1>1, <1>2, <1>3, <1>4 DEF Distinct, Bounded, Whole
<1>6. {r.name : r \in mocks'.rows} = wanted'
  BY <1>1, <1>3 DEF Whole
<1>7. {e \in examples : e.mock # id} = examples
  BY <1>4 DEF Whole, ExamplesOf
<1>8. examples' = ExamplesOf(mocks'.rows)
  BY <1>1, <1>3, <1>7 DEF Whole, ExamplesOf
<1> HIDE DEF id, name
<1> QED BY <1>1, <1>2, <1>5, <1>6, <1>8 DEF Whole

LEMMA DeleteKeepsWhole ==
    ASSUME NEW row \in mocks.rows, DeleteMock(row), foreignKeys,
           Whole(mocks.rows, mocks.seq)
    PROVE  Whole(mocks.rows, mocks.seq)'
<1>1. /\ mocks'.rows = mocks.rows \ {row} /\ mocks'.seq = mocks.seq
      /\ examples' = {e \in examples : e.mock # row.id}
      /\ wanted' = wanted \ {row.name} /\ saved' = saved
  BY DEF DeleteMock, Table
<1>2. \A r \in mocks'.rows : r \in mocks.rows /\ r.id # row.id /\ r.name # row.name
  BY <1>1 DEF Whole, Distinct
<1>3. Distinct(mocks'.rows) /\ Bounded(mocks'.rows, mocks'.seq, saved')
  BY <1>1, <1>2 DEF Whole, Distinct, Bounded
<1>4. {r.name : r \in mocks'.rows} = wanted'
  BY <1>1, <1>2 DEF Whole
<1>5. examples' = ExamplesOf(mocks'.rows)
  BY <1>1, <1>2 DEF Whole, ExamplesOf
<1> QED BY <1>1, <1>3, <1>4, <1>5 DEF Whole

(* The copy's next id is past the greatest it holds. *)
LEMMA CopyKeepsWhole ==
    ASSUME CopyRows, Whole(mocks.rows, mocks.seq)
    PROVE  Whole(copy.rows, copy.seq)'
<1> DEFINE ids == {0} \cup {r.id : r \in mocks.rows}
<1>1. /\ copy'.rows = mocks.rows /\ copy'.seq = Max(ids)
      /\ UNCHANGED <<examples, saved, wanted>>
  BY DEF CopyRows, Table, history
<1>2. ids \in SUBSET Nat /\ ids # {} /\ mocks.seq \in Nat /\ \A x \in ids : x <= mocks.seq
  BY DEF Whole, Bounded
<1>3. Max(ids) \in ids /\ \A x \in ids : Max(ids) >= x
  BY <1>2, MaxOfBounded
<1>4. Bounded(mocks.rows, Max(ids), saved)
  BY <1>3 DEF Whole, Bounded
<1> HIDE DEF ids
<1> QED BY <1>1, <1>2, <1>3, <1>4 DEF Whole

LEMMA NextUnbroken == Unbroken /\ [SchemaNext]_schemaVars => Unbroken'
<1> SUFFICES ASSUME Unbroken, [SchemaNext]_schemaVars PROVE Unbroken'
  OBVIOUS
<1> USE DEF Unbroken, database, history
<1>1. CASE Open
  BY <1>1 DEF Open, Whole
<1>2. CASE SchemaStatements
  <2>1. mocks' = mocks \/ (mocks'.rows = {} /\ mocks.rows = {} /\ mocks'.seq = 0 /\ mocks'.exists)
    BY <1>2 DEF SchemaStatements, Empty, Table
  <2>2. ~copy.exists => Whole(mocks'.rows, mocks'.seq)
    BY <2>1 DEF Whole, Bounded, Distinct
  <2> QED BY <1>2, <2>1, <2>2 DEF SchemaStatements, Whole
<1>3. CASE Probe
  BY <1>3 DEF Probe, Whole
<1>4. CASE ForeignKeysOff
  BY <1>4 DEF ForeignKeysOff, SetForeignKeys, Whole
<1>5. CASE CreateCopy
  BY <1>5 DEF CreateCopy, Empty, Table, Whole
<1>6. CASE CopyRows
  <2>1. Whole(mocks.rows, mocks.seq) /\ Whole(copy.rows, copy.seq)'
    BY <1>6, CopyKeepsWhole DEF CopyRows
  <2>2. copy'.rows = mocks.rows /\ copy'.exists
    BY <1>6 DEF CopyRows, Table
  <2> QED BY <1>6, <2>1, <2>2 DEF CopyRows, Whole
<1>7. CASE DropOld
  BY <1>7 DEF DropOld, NoTable, Whole
<1>8. CASE Rename
  BY <1>8 DEF Rename, NoTable, Whole
<1>9. CASE CreateIndex
  BY <1>9 DEF CreateIndex, Whole
<1>10. CASE ForeignKeysOn
  BY <1>10 DEF ForeignKeysOn, SetForeignKeys, Whole
<1>11. CASE SaveMock
  <2>1. ~copy.exists => Whole(mocks.rows, mocks.seq)'
    BY <1>11, SaveKeepsWhole
  <2>2. /\ copy' = copy /\ foreignKeys' = foreignKeys /\ saved' = saved + 1
        /\ phase = "serving" /\ phase' = "serving" /\ mocks'.exists
    BY <1>11 DEF SaveMock, Table
  <2> QED BY <2>1, <2>2
<1>12. ASSUME NEW row \in mocks.rows, DeleteMock(row) PROVE Unbroken'
  <2>1. /\ copy' = copy /\ foreignKeys' = foreignKeys /\ saved' = saved
        /\ phase = "serving" /\ phase' = "serving" /\ mocks'.exists
    BY <1>12 DEF DeleteMock, Table
  <2>2. ~copy.exists => Whole(mocks.rows, mocks.seq)'
    BY <1>12, <2>1, DeleteKeepsWhole
  <2> QED BY <2>1, <2>2
<1>13. CASE Stop
  BY <1>13 DEF Stop, Whole
<1>14. CASE UNCHANGED schemaVars
  BY <1>14 DEF schemaVars, Whole
<1> QED
  BY <1>1, <1>2, <1>3, <1>4, <1>5, <1>6, <1>7, <1>8, <1>9, <1>10, <1>11,
     <1>12, <1>13, <1>14 DEF SchemaNext, StartStep

(* A server whose database has no left-over copy serves every row it was   *)
(* given, each with its own examples and no one else's (schema.go:33-76).  *)
THEOREM CleanServesAll == SchemaSpec => []CleanWithoutLeftover
<1>1. Unbroken => CleanWithoutLeftover
  BY DEF Unbroken, CleanWithoutLeftover, Whole, NamesIn, ExamplesOf
<1> QED BY InitUnbroken, NextUnbroken, <1>1, PTL DEF SchemaSpec

=============================================================================
