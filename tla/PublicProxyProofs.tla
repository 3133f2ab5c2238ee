------------------------- MODULE PublicProxyProofs -------------------------
(***************************************************************************)
(* What the audit log, the listeners and the routing of the public proxy   *)
(* agree on, for any requests, endpoints and configurations, whatever      *)
(* statements fail and wherever the process is restarted.                  *)
(***************************************************************************)
EXTENDS PublicProxy, TLAPS

Places ==
  {"new", "mocks", "mocking", "routes", "capturing", "fetching", "locking", "inserting",
   "reading", "announcing", "active", "launching", "plain", "replying", "end"}

(* The places of a request that has not been recorded yet.                 *)
Unrecorded ==
  {"new", "mocks", "mocking", "routes", "capturing", "fetching", "locking", "inserting"}

ShadowPlaces ==
  {"none", "fetching", "plain", "locking", "updating", "inserting", "announcing", "done"}

Answers ==
  {"none", "blocked", "tunnelled", "badGateway", "error", "mock", "invalid", "passed",
   "proxied", "lost"}

(* The variables' types; the audit mutex is left out: no property proved   *)
(* here rests on it.                                                       *)
ProxyTypeInv ==
  /\ mode \in AllModes
  /\ place \in [Requests -> Places]
  /\ cfg \in [Requests -> Config]
  /\ answer \in [Requests -> Answers]
  /\ seen \in [Requests -> SUBSET AllModes]
  /\ rows \subseteq Requests
  /\ shadowRows \subseteq Pairs
  /\ launched \in [Requests -> SUBSET Endpoints]
  /\ shadow \in [Pairs -> ShadowPlaces]
  /\ failed \subseteq Requests

-----------------------------------------------------------------------------
(* Routing.                                                                *)

(* A request on its way has seen the flags as they are now; it looks for a *)
(* proxied route only after it has seen the route without a mock.          *)
Routing ==
  \A r \in Requests :
    /\ place[r] \notin {"new", "end"} => mode \in seen[r]
    /\ place[r] = "routes" => \E m \in seen[r] : ~Mocks(m)
    /\ answer[r] = "passed" => place[r] = "end"

-----------------------------------------------------------------------------
(* Records and shadow entries.                                             *)

(* What the place of a handler says of the record of its request.          *)
RecordOf(r) ==
  /\ place[r] \in Unrecorded => r \notin rows /\ launched[r] = {}
  /\ place[r] \in {"locking", "inserting", "reading", "announcing"} => cfg[r].audit
  /\ r \in rows => cfg[r].audit
  /\ place[r] \in {"reading", "announcing"} \/ <<"created", r>> \in events => r \in rows
  /\ place[r] = "active" /\ cfg[r].audit /\ ~cfg[r].capture => <<"created", r>> \in events
  /\ place[r] = "launching" => <<"created", r>> \in events
  /\ place[r] = "plain" => r \in failed \/ ~cfg[r].audit
  /\ r \in rows /\ ~cfg[r].capture /\ r \notin failed /\ place[r] \in {"replying", "end"}
       => cfg[r].shadows \subseteq launched[r]

Recording == \A r \in Requests : RecordOf(r)

(* What the place of a shadow goroutine says of its entry.                 *)
EntryOf(p) ==
  /\ shadow[p] # "none" <=> p[2] \in launched[p[1]]
  /\ p[2] \in launched[p[1]] => p[2] \in cfg[p[1]].shadows
  /\ shadow[p] \in {"fetching", "locking", "updating", "inserting", "announcing"}
       => <<"created", p[1]>> \in events
  /\ <<"shadow", p>> \in events => <<"created", p[1]>> \in events
  /\ p \in shadowRows => p[1] \in rows /\ shadow[p] # "none"
  /\ shadow[p] = "announcing" \/ <<"shadow", p>> \in events
       => p \in shadowRows
  /\ shadow[p] = "plain" => p[1] \in failed \/ ~cfg[p[1]].audit
  /\ shadow[p] = "done"
       => p \in shadowRows \/ p[1] \in failed \/ ~cfg[p[1]].audit

Shadowing == \A p \in Pairs : EntryOf(p)

ProxyInv == ProxyTypeInv /\ Routing /\ SteadyRouteServed /\ Recording /\ Shadowing

-----------------------------------------------------------------------------
(* The types.                                                              *)

LEMMA InitTyped == Init => ProxyTypeInv
BY ModesAssumption
   DEF Init, ProxyTypeInv, Places, Answers, Config, NoConfig, Pairs, ShadowPlaces

LEMMA NextTyped == ProxyTypeInv /\ [Next]_vars => ProxyTypeInv'
<1> SUFFICES ASSUME ProxyTypeInv, [Next]_vars PROVE ProxyTypeInv'
  OBVIOUS
<1> USE DEF ProxyTypeInv, Places, Answers, ShadowPlaces, Pairs, route, log, shadows, handler, GoTo, Reply
<1>1. CASE ChangeRow
  BY <1>1, ModesAssumption DEF ChangeRow
<1>2. CASE Restart
  BY <1>2 DEF Restart
<1>3. ASSUME NEW r \in Requests, Arrive(r) PROVE ProxyTypeInv'
  <2>1. Configs[r] \subseteq Config
    BY ConfigsAssumption
  <2>2. PICK c \in Config : cfg' = [cfg EXCEPT ![r] = c]
    BY <1>3, <2>1 DEF Arrive
  <2>3. cfg' \in [Requests -> Config]
    BY <2>2
  <2> QED BY <1>3, <2>3 DEF Arrive
<1>4. ASSUME NEW r \in Requests, Tunnel(r) PROVE ProxyTypeInv'
  BY <1>4 DEF Tunnel
<1>5. ASSUME NEW r \in Requests, Decide(r) PROVE ProxyTypeInv'
  BY <1>5 DEF Decide, ReadFails, FindActiveMock, ServeMock, FindRoute, FindCaptureRoute
<1>6. ASSUME NEW r \in Requests, LockAudit(r) PROVE ProxyTypeInv'
  BY <1>6 DEF LockAudit
<1>7. ASSUME NEW r \in Requests, Record(r) PROVE ProxyTypeInv'
  BY <1>7 DEF Record, InsertAudit, ReadBack, AuditError, BroadcastCreated,
              BroadcastActivity, BroadcastPanics
<1>8. ASSUME NEW r \in Requests, Proxy(r), ~Record(r) PROVE ProxyTypeInv'
  <2>1. ASSUME NEW e \in cfg[r].shadows, NEW how \in {"fetching", "plain"}, Start(r, e, how)
        PROVE  ProxyTypeInv'
    <3>1. e \in Endpoints /\ <<r, e>> \in Pairs
      BY DEF Config
    <3> QED BY <2>1, <3>1 DEF Start
  <2>2. CASE Launch(r) \/ LaunchPlain(r)
    BY <2>1, <2>2 DEF Launch, LaunchPlain
  <2>3. CASE NoRealServer(r) \/ Fetch(r) \/ Launched(r) \/ ReplyProxied(r)
    BY <2>3 DEF NoRealServer, Fetch, Launched, ReplyProxied
  <2> QED BY <1>8, <2>2, <2>3 DEF Proxy
<1>9. ASSUME NEW p \in Pairs,
              ShadowFetch(p) \/ ShadowLock(p) \/ StoreShadow(p) \/ ShadowAnnounce(p)
       PROVE  ProxyTypeInv'
  <2>1. p[1] \in Requests
    OBVIOUS
  <2> HIDE DEF Pairs
  <2>2. CASE ShadowFetch(p) \/ ShadowLock(p) \/ ShadowAnnounce(p)
    BY <2>2 DEF ShadowFetch, ShadowLock, ShadowAnnounce, Shadow
  <2>3. CASE StoreShadow(p)
    BY <2>1, <2>3 DEF StoreShadow, ShadowUpdate, ShadowInsert, ShadowError, Shadow
  <2> QED BY <1>9, <2>2, <2>3
<1>10. CASE UNCHANGED vars
  BY <1>10 DEF vars
<1> QED
  BY <1>1, <1>2, <1>3, <1>4, <1>5, <1>6, <1>7, <1>8, <1>9, <1>10 DEF Next

-----------------------------------------------------------------------------
(* Routing.                                                                *)

LEMMA InitRouting == Init => Routing /\ SteadyRouteServed
BY DEF Init, Routing, SteadyRouteServed

LEMMA NextRouting ==
  ProxyTypeInv /\ Routing /\ SteadyRouteServed /\ [Next]_vars => (Routing /\ SteadyRouteServed)'
<1> SUFFICES ASSUME ProxyTypeInv, Routing, SteadyRouteServed, [Next]_vars
             PROVE  (Routing /\ SteadyRouteServed)'
  OBVIOUS
<1> USE DEF ProxyTypeInv, Routing, SteadyRouteServed, route, handler, GoTo, Reply
<1>1. CASE UNCHANGED vars
  BY <1>1 DEF vars
<1>2. CASE ChangeRow
  BY <1>2 DEF ChangeRow
<1>3. CASE Restart
  BY <1>3 DEF Restart, Busy
<1>4. ASSUME NEW r \in Requests, Arrive(r) \/ Tunnel(r) PROVE (Routing /\ SteadyRouteServed)'
  <2>1. CASE Arrive(r)
    BY <1>4, <2>1 DEF Arrive
  <2>2. CASE Tunnel(r)
    BY <1>4, <2>2 DEF Tunnel
  <2> QED BY <1>4, <2>1, <2>2
<1>5. ASSUME NEW r \in Requests, Decide(r) PROVE (Routing /\ SteadyRouteServed)'
  <2>1. CASE ReadFails(r) \/ ServeMock(r) \/ FindCaptureRoute(r)
    BY <1>5, <2>1 DEF ReadFails, ServeMock, FindCaptureRoute
  <2>2. CASE FindActiveMock(r)
    BY <1>5, <2>2 DEF FindActiveMock
  <2>3. CASE FindRoute(r)
    <3>1. place[r] = "routes" /\ seen' = seen /\ mode' = mode /\ mode \in seen[r]
      BY <2>3 DEF FindRoute
    <3>2. CASE mode = "proxy"
      BY <2>3, <3>1, <3>2 DEF FindRoute
    <3>3. CASE mode # "proxy"
      <4>1. seen[r] # {"proxy"} /\ ~(\A m \in seen[r] : Mocks(m))
        BY <3>1, <3>3
      <4> QED BY <2>3, <3>1, <3>3, <4>1 DEF FindRoute
    <3> QED BY <3>2, <3>3
  <2> QED BY <1>5, <2>1, <2>2, <2>3 DEF Decide
<1>6. ASSUME NEW r \in Requests, LockAudit(r) \/ Record(r) PROVE (Routing /\ SteadyRouteServed)'
  BY <1>6 DEF LockAudit, Record, InsertAudit, ReadBack, AuditError, BroadcastCreated,
              BroadcastActivity, BroadcastPanics
<1>7. ASSUME NEW r \in Requests, Proxy(r), ~Record(r) PROVE (Routing /\ SteadyRouteServed)'
  BY <1>7 DEF Proxy, NoRealServer, Fetch, Launch, LaunchPlain, Start, Launched, ReplyProxied
<1>8. ASSUME NEW p \in Pairs,
              ShadowFetch(p) \/ ShadowLock(p) \/ StoreShadow(p) \/ ShadowAnnounce(p)
      PROVE  (Routing /\ SteadyRouteServed)'
  BY <1>8 DEF ShadowFetch, ShadowLock, StoreShadow, ShadowUpdate, ShadowInsert, ShadowError,
              ShadowAnnounce
<1> QED
  BY <1>1, <1>2, <1>3, <1>4, <1>5, <1>6, <1>7, <1>8 DEF Next

-----------------------------------------------------------------------------
(* Records.                                                                *)

LEMMA InitRecording == Init => Recording
BY DEF Init, Recording, RecordOf, NoConfig

(* A request stays as it is recorded if nothing about it changes, but that *)
(* it fails.                                                               *)
LEMMA RecordFrame ==
  ASSUME NEW r, RecordOf(r),
         place'[r] = place[r], cfg'[r] = cfg[r], launched'[r] = launched[r],
         r \in rows' <=> r \in rows,
         <<"created", r>> \in events' <=> <<"created", r>> \in events,
         r \in failed => r \in failed'
  PROVE  RecordOf(r)'
BY DEF RecordOf

LEMMA NextRecording == ProxyTypeInv /\ Recording /\ [Next]_vars => Recording'
<1> SUFFICES ASSUME ProxyTypeInv, Recording, [Next]_vars, NEW q \in Requests
             PROVE  RecordOf(q)'
  BY DEF Recording
<1>0. RecordOf(q)
  BY DEF Recording
<1> USE DEF ProxyTypeInv, route, handler, log, shadows, GoTo, Reply
<1>1. CASE ChangeRow \/ UNCHANGED vars
  BY <1>0, <1>1, RecordFrame DEF ChangeRow, vars
<1>2. CASE Restart
  <2>1. CASE Busy(q)
    BY <1>0, <1>2, <2>1 DEF Restart, Busy, RecordOf, Unrecorded
  <2>2. CASE ~Busy(q)
    BY <1>0, <1>2, <2>2, RecordFrame DEF Restart
  <2> QED BY <2>1, <2>2
<1>3. ASSUME NEW r \in Requests, Arrive(r) \/ Tunnel(r) \/ Decide(r) \/ LockAudit(r)
      PROVE  RecordOf(q)'
  <2>1. UNCHANGED <<rows, launched, events, failed>>
    BY <1>3 DEF Arrive, Tunnel, Decide, ReadFails, FindActiveMock, ServeMock, FindRoute,
                FindCaptureRoute, LockAudit
  <2>2. CASE q # r
    <3>1. place'[q] = place[q] /\ cfg'[q] = cfg[q]
      BY <1>3, <2>2 DEF Arrive, Tunnel, Decide, ReadFails, FindActiveMock, ServeMock, FindRoute,
                        FindCaptureRoute, LockAudit
    <3> QED BY <1>0, <2>1, <3>1, RecordFrame
  <2>3. CASE q = r
    <3>1. place[r] \in Unrecorded /\ place'[r] \in Unrecorded \cup {"end"}
      BY <1>3 DEF Arrive, Tunnel, Decide, ReadFails, FindActiveMock, ServeMock, FindRoute,
                  FindCaptureRoute, LockAudit, Unrecorded
    <3>2. place'[r] = "inserting" => cfg'[r].audit
      BY <1>0, <1>3, <2>3 DEF Arrive, Tunnel, Decide, ReadFails, FindActiveMock, ServeMock,
                  FindRoute, FindCaptureRoute, LockAudit, RecordOf
    <3>3. place'[r] # "locking"
      BY <1>3 DEF Arrive, Tunnel, Decide, ReadFails, FindActiveMock, ServeMock, FindRoute,
                  FindCaptureRoute, LockAudit
    <3> QED BY <1>0, <2>1, <2>3, <3>1, <3>2, <3>3 DEF RecordOf, Unrecorded
  <2> QED BY <2>2, <2>3
<1>4. ASSUME NEW r \in Requests, Record(r) PROVE RecordOf(q)'
  <2> USE DEF Record, InsertAudit, ReadBack, AuditError, BroadcastCreated, BroadcastActivity,
              BroadcastPanics
  <2>1. CASE q # r
    <3>1. /\ place'[q] = place[q] /\ cfg'[q] = cfg[q] /\ launched'[q] = launched[q]
          /\ q \in rows' <=> q \in rows
          /\ <<"created", q>> \in events' <=> <<"created", q>> \in events
          /\ failed \subseteq failed'
      BY <1>4, <2>1
    <3> QED BY <1>0, <3>1, RecordFrame
  <2>2. CASE q = r
    <3> USE DEF RecordOf, Unrecorded
    <3>1. CASE InsertAudit(r)
      BY <1>0, <2>2, <3>1
    <3>2. CASE ReadBack(r) \/ BroadcastCreated(r)
      BY <1>0, <2>2, <3>2
    <3>3. CASE AuditError(r) \/ BroadcastPanics(r)
      BY <1>0, <2>2, <3>3
    <3>4. CASE BroadcastActivity(r)
      BY <1>0, <2>2, <3>4
    <3> QED BY <1>4, <3>1, <3>2, <3>3, <3>4
  <2> QED BY <2>1, <2>2
<1>5. ASSUME NEW r \in Requests, Proxy(r), ~Record(r) PROVE RecordOf(q)'
  <2> USE DEF Proxy, NoRealServer, Fetch, Launch, LaunchPlain, Start, Launched, ReplyProxied
  <2>1. UNCHANGED <<cfg, rows, events, failed>>
    BY <1>5
  <2>2. CASE q # r
    <3>1. place'[q] = place[q] /\ launched'[q] = launched[q]
      BY <1>5, <2>2
    <3> QED BY <1>0, <2>1, <3>1, RecordFrame
  <2>3. CASE q = r
    <3>1. CASE NoRealServer(r) \/ Fetch(r)
      BY <1>0, <2>1, <2>3, <3>1 DEF RecordOf, Unrecorded
    <3>2. CASE Launch(r) \/ LaunchPlain(r)
      <4>1. place' = place /\ place[r] \in {"launching", "plain"}
        BY <3>2
      <4> QED BY <1>0, <2>1, <2>3, <4>1 DEF RecordOf, Unrecorded
    <3>3. CASE Launched(r) \/ ReplyProxied(r)
      BY <1>0, <2>1, <2>3, <3>3 DEF RecordOf, Unrecorded
    <3> QED BY <1>5, <3>1, <3>2, <3>3
  <2> QED BY <2>2, <2>3
<1>6. ASSUME NEW p \in Pairs,
             ShadowFetch(p) \/ ShadowLock(p) \/ StoreShadow(p) \/ ShadowAnnounce(p)
      PROVE  RecordOf(q)'
  <2> USE DEF ShadowFetch, ShadowLock, StoreShadow, ShadowUpdate, ShadowInsert, ShadowError,
              ShadowAnnounce, Shadow
  <2>1. /\ UNCHANGED <<place, cfg, launched, rows>>
        /\ failed \subseteq failed'
    BY <1>6
  <2>2. <<"created", q>> \in events' <=> <<"created", q>> \in events
    BY <1>6
  <2> QED BY <1>0, <2>1, <2>2, RecordFrame
<1> QED
  BY <1>1, <1>2, <1>3, <1>4, <1>5, <1>6 DEF Next

-----------------------------------------------------------------------------
(* Shadow entries.                                                         *)

LEMMA InitShadowing == Init => Shadowing
BY DEF Init, Shadowing, EntryOf, Pairs

(* A target stays as it is if its goroutine and its entry do; its record   *)
(* may have been announced, its request may have failed.                   *)
LEMMA EntryFrame ==
  ASSUME NEW p, EntryOf(p),
         shadow'[p] = shadow[p], cfg'[p[1]] = cfg[p[1]],
         p[2] \in launched'[p[1]] <=> p[2] \in launched[p[1]],
         p \in shadowRows' <=> p \in shadowRows,
         <<"shadow", p>> \in events' <=> <<"shadow", p>> \in events,
         <<"created", p[1]>> \in events => <<"created", p[1]>> \in events',
         p[1] \in rows => p[1] \in rows',
         p[1] \in failed => p[1] \in failed'
  PROVE  EntryOf(p)'
BY DEF EntryOf

LEMMA NextShadowing == ProxyTypeInv /\ Recording /\ Shadowing /\ [Next]_vars => Shadowing'
<1> SUFFICES ASSUME ProxyTypeInv, Recording, Shadowing, [Next]_vars, NEW q \in Pairs
             PROVE  EntryOf(q)'
  BY DEF Shadowing
<1>0. EntryOf(q) /\ q[1] \in Requests /\ q[2] \in Endpoints /\ q = <<q[1], q[2]>>
  BY DEF Shadowing, Pairs
<1> USE DEF ProxyTypeInv, route, handler, log, shadows, GoTo, Reply
<1>1. CASE ChangeRow \/ UNCHANGED vars
  BY <1>0, <1>1, EntryFrame DEF ChangeRow, vars
<1>2. CASE Restart
  <2>1. shadow'[q] = (IF Running(q) THEN "done" ELSE shadow[q])
    BY <1>2 DEF Restart
  <2>2. Running(q) => q[1] \in failed'
    BY <1>0, <1>2 DEF Restart
  <2>3. UNCHANGED <<cfg, launched, shadowRows, rows, events>> /\ failed \subseteq failed'
    BY <1>2 DEF Restart
  <2>4. CASE Running(q)
    BY <1>0, <2>1, <2>2, <2>3, <2>4 DEF Running, EntryOf
  <2>5. CASE ~Running(q)
    BY <1>0, <2>1, <2>3, <2>5, EntryFrame
  <2> QED BY <2>4, <2>5
<1>3. ASSUME NEW r \in Requests, Arrive(r) PROVE EntryOf(q)'
  <2>1. launched[r] = {}
    BY <1>3 DEF Arrive, Recording, RecordOf, Unrecorded
  <2>2. UNCHANGED <<launched, shadow, shadowRows, rows, events, failed>>
    BY <1>3 DEF Arrive
  <2>3. CASE q[1] = r
    BY <1>0, <2>1, <2>2, <2>3 DEF EntryOf
  <2>4. CASE q[1] # r
    BY <1>0, <1>3, <2>2, <2>4, EntryFrame DEF Arrive
  <2> QED BY <2>3, <2>4
<1>4. ASSUME NEW r \in Requests, Tunnel(r) \/ Decide(r) \/ LockAudit(r) PROVE EntryOf(q)'
  <2>1. UNCHANGED <<cfg, launched, shadow, shadowRows, rows, events, failed>>
    BY <1>4 DEF Tunnel, Decide, ReadFails, FindActiveMock, ServeMock, FindRoute, FindCaptureRoute,
                LockAudit
  <2> QED BY <1>0, <2>1, EntryFrame
<1>5. ASSUME NEW r \in Requests, Record(r) PROVE EntryOf(q)'
  <2> USE DEF Record, InsertAudit, ReadBack, AuditError, BroadcastCreated, BroadcastActivity,
              BroadcastPanics
  <2>1. /\ UNCHANGED <<cfg, launched, shadow, shadowRows>>
        /\ rows \subseteq rows' /\ failed \subseteq failed' /\ events \subseteq events'
    BY <1>5
  <2>2. <<"shadow", q>> \in events' <=> <<"shadow", q>> \in events
    BY <1>5
  <2> QED BY <1>0, <2>1, <2>2, EntryFrame
<1>6. ASSUME NEW r \in Requests, Launch(r) \/ LaunchPlain(r) PROVE EntryOf(q)'
  <2>1. PICK e \in cfg[r].shadows \ launched[r], how \in {"fetching", "plain"} :
          /\ Start(r, e, how)
          /\ how = "fetching" => <<"created", r>> \in events
          /\ how = "plain" => r \in failed \/ ~cfg[r].audit
    BY <1>6 DEF Launch, LaunchPlain, Recording, RecordOf
  <2>2. e \in Endpoints /\ <<r, e>> \in Pairs
    BY DEF Config, Pairs
  <2>3. CASE q = <<r, e>>
    <3>1. q[1] = r /\ q[2] = e
      BY <2>3
    <3>2. shadow'[q] = how /\ e \in launched'[r]
      BY <2>1, <2>2, <2>3 DEF Start
    <3>3. q \notin shadowRows
      BY <1>0, <2>1, <3>1 DEF EntryOf
    <3> QED BY <1>0, <2>1, <3>1, <3>2, <3>3 DEF EntryOf, Start
  <2>4. CASE q # <<r, e>>
    <3>1. shadow'[q] = shadow[q] /\ (q[2] \in launched'[q[1]] <=> q[2] \in launched[q[1]])
      BY <1>0, <2>1, <2>2, <2>4 DEF Start
    <3> QED BY <1>0, <2>1, <3>1, EntryFrame DEF Start
  <2> QED BY <2>3, <2>4
<1>7. ASSUME NEW r \in Requests, NoRealServer(r) \/ Fetch(r) \/ Launched(r) \/ ReplyProxied(r)
      PROVE  EntryOf(q)'
  <2>1. UNCHANGED <<cfg, launched, shadow, shadowRows, rows, events, failed>>
    BY <1>7 DEF NoRealServer, Fetch, Launched, ReplyProxied
  <2> QED BY <1>0, <2>1, EntryFrame
<1>8. ASSUME NEW p \in Pairs,
             ShadowFetch(p) \/ ShadowLock(p) \/ StoreShadow(p) \/ ShadowAnnounce(p)
      PROVE  EntryOf(q)'
  <2> USE DEF ShadowFetch, ShadowLock, StoreShadow, ShadowUpdate, ShadowInsert, ShadowError,
              ShadowAnnounce, Shadow
  <2>1. /\ UNCHANGED <<cfg, launched, rows>>
        /\ failed \subseteq failed' /\ events \subseteq events'
    BY <1>8
  <2>2. CASE q # p
    <3>1. shadow'[q] = shadow[q] /\ (q \in shadowRows' <=> q \in shadowRows)
      BY <1>8, <2>2
    <3>2. <<"shadow", q>> \in events' <=> <<"shadow", q>> \in events
      BY <1>8, <2>2
    <3> QED BY <1>0, <2>1, <3>1, <3>2, EntryFrame
  <2>3. CASE q = p
    <3> USE DEF EntryOf
    <3>1. CASE ShadowFetch(p) \/ ShadowLock(p)
      BY <1>0, <2>3, <3>1
    <3>2. CASE ShadowUpdate(p) \/ ShadowInsert(p)
      BY <1>0, <2>3, <3>2
    <3>3. CASE ShadowError(p)
      <4>1. shadow'[q] = "done" /\ q[1] \in failed' /\ UNCHANGED <<shadowRows, events>>
        BY <2>3, <3>3
      <4> QED BY <1>0, <2>1, <2>3, <3>3, <4>1
    <3>4. CASE ShadowAnnounce(p)
      BY <1>0, <2>1, <2>3, <3>4
    <3> QED BY <1>8, <3>1, <3>2, <3>3, <3>4
  <2> QED BY <2>2, <2>3
<1> QED
  BY <1>1, <1>2, <1>3, <1>4, <1>5, <1>6, <1>7, <1>8 DEF Next, Proxy

-----------------------------------------------------------------------------

LEMMA ProxyInvCorrect == Spec => []ProxyInv
<1>1. Init => ProxyInv
  BY InitTyped, InitRouting, InitRecording, InitShadowing DEF ProxyInv
<1>2. ProxyInv /\ [Next]_vars => ProxyInv'
  BY NextTyped, NextRouting, NextRecording, NextShadowing DEF ProxyInv
<1> QED BY <1>1, <1>2, PTL DEF Spec

(* A record has shadow entries only for the targets it was recorded with,  *)
(* whatever the configuration has become since (handler.go:202-214, 250).  *)
THEOREM ShadowsOfTargets == Spec => []ShadowsForTargets
<1>1. ProxyInv => ShadowsForTargets
  <2> SUFFICES ASSUME ProxyInv, NEW p \in shadowRows
               PROVE  p[1] \in rows /\ p[2] \in cfg[p[1]].shadows
    BY DEF ShadowsForTargets
  <2> QED BY DEF ProxyInv, ProxyTypeInv, Shadowing, EntryOf
<1> QED BY <1>1, ProxyInvCorrect, PTL

(* A listener hears of a record before it hears of its shadow entries,     *)
(* which other goroutines announce (handler.go:239-276).                   *)
THEOREM RecordsHeardFirst == Spec => []RecordHeardFirst
<1>1. ProxyInv => RecordHeardFirst
  <2> SUFFICES ASSUME ProxyInv, NEW p \in Pairs, <<"shadow", p>> \in events
               PROVE  <<"created", p[1]>> \in events
    BY DEF RecordHeardFirst
  <2> QED BY DEF ProxyInv, Shadowing, EntryOf
<1> QED BY <1>1, ProxyInvCorrect, PTL

(* No event speaks of a row that was never there (handler.go:239, 268).    *)
THEOREM AnnouncedIsInLog == Spec => []EventsAreStored
<1>1. ProxyInv => EventsAreStored
  BY DEF ProxyInv, Recording, RecordOf, Shadowing, EntryOf, EventsAreStored
<1> QED BY <1>1, ProxyInvCorrect, PTL

(* Every target of a record has its entry, is still being called, or lost  *)
(* it to a step that failed (handler.go:246-276).                          *)
THEOREM TargetsAreCalled == Spec => []NoTargetForgotten
<1>1. ProxyInv => NoTargetForgotten
  <2> SUFFICES ASSUME ProxyInv, NEW p \in Pairs,
                      p[1] \in rows, ~cfg[p[1]].capture, p[2] \in cfg[p[1]].shadows,
                      ~Busy(p[1]), p[1] \notin failed, ~Running(p)
               PROVE  p \in shadowRows
    BY DEF NoTargetForgotten
  <2>1. p[1] \in Requests /\ RecordOf(p[1]) /\ EntryOf(p)
    BY DEF ProxyInv, Recording, Shadowing, Pairs
  <2>2. place[p[1]] = "end"
    BY <2>1 DEF Busy, RecordOf, Unrecorded
  <2>3. shadow[p] = "done"
    BY <2>1, <2>2 DEF RecordOf, EntryOf, Running
  <2> QED BY <2>1, <2>3 DEF RecordOf, EntryOf
<1> QED BY <1>1, ProxyInvCorrect, PTL

(* A route that stays as it is is answered as its flags say, although its  *)
(* row is read twice (handler.go:106-128).                                 *)
THEOREM SteadyRoutesServed == Spec => []SteadyRouteServed
<1>1. ProxyInv => SteadyRouteServed
  BY DEF ProxyInv
<1> QED BY <1>1, ProxyInvCorrect, PTL

=============================================================================
