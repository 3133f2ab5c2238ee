------------------------- MODULE RealtimeHubProofs -------------------------
(***************************************************************************)
(* Proofs about RealtimeHub for any set of connections and broadcasters,   *)
(* any buffer size and any number of broadcasts.                           *)
(*                                                                         *)
(* TypeInv and ChannelLifecycle are inductive together.  NoSilentLoss is   *)
(* not: the steps of a broadcast in progress have to be covered, so Visited*)
(* says which clients an unfinished broadcast has already served, and      *)
(* Bookkeeping ties the snapshot, what is left of it and the victim to the *)
(* place the broadcaster is at.  A client of a snapshot was subscribed, so *)
(* it cannot subscribe again after the broadcaster has evicted it.         *)
(***************************************************************************)
EXTENDS RealtimeHub, TLAPS

Bookkeeping ==
  \A b \in Broadcasters :
    /\ \A c \in snapshot[b] : handler[c] # "new"
    /\ caller[b] = "idle" => pending[b] = {} /\ victim[b] = {}
    /\ caller[b] = "visiting" => victim[b] = {}
    /\ \A c, d \in victim[b] : c = d

VictimTaken == \A b \in Broadcasters : pending[b] \cup victim[b] \subseteq snapshot[b]

Visited ==
  \A b \in Broadcasters, c \in Clients :
    (/\ caller[b] # "panicked"
     /\ c \in snapshot[b] /\ c \in clients
     /\ c \notin pending[b] /\ c \notin victim[b])
      => <<b, count[b]>> \in Received(c)

TakenBound == \A c \in Clients : taken[c] <= Len(log[c])

HubInv ==
  /\ TypeInv /\ ChannelLifecycle /\ NoLeakedClient
  /\ TakenBound /\ BufferBound
  /\ Bookkeeping /\ VictimTaken /\ Visited

-----------------------------------------------------------------------------

LEMMA AppendElements ==
  ASSUME NEW S, NEW s \in Seq(S), NEW e \in S
  PROVE  /\ Append(s, e) \in Seq(S)
         /\ Len(Append(s, e)) = Len(s) + 1
         /\ Append(s, e)[Len(s) + 1] = e
         /\ \A i \in 1..Len(s) : Append(s, e)[i] = s[i]
  OBVIOUS

(* The initial states and every step keep the variables in their types.    *)
THEOREM TypeCorrect == Spec => []TypeInv
<1> USE BufferAssumption, BroadcastsAssumption
<1>1. Init => TypeInv
  BY DEF Init, TypeInv, Event
<1>2. TypeInv /\ [Next]_vars => TypeInv'
  <2> SUFFICES ASSUME TypeInv, [Next]_vars PROVE TypeInv'
    OBVIOUS
  <2>1. ASSUME NEW c \in Clients, ConnectionStep(c) PROVE TypeInv'
    <3>1. CASE Subscribe(c)
      BY <3>1 DEF TypeInv, Subscribe, callVars
    <3>2. CASE Receive(c)
      <4>1. taken[c] < Len(log[c])
        BY <3>2 DEF TypeInv, Receive, Drained
      <4>2. taken'[c] = taken[c] + 1 /\ \A d \in Clients \ {c} : taken'[d] = taken[d]
        BY <3>2 DEF TypeInv, Receive
      <4>3. \A d \in Clients : taken'[d] <= Len(log'[d])
        BY <3>2, <4>1, <4>2 DEF TypeInv, Receive
      <4>4. QED
        BY <3>2, <4>3 DEF TypeInv, Receive, callVars
    <3>3. CASE ReceiveClosed(c) \/ Written(c) \/ WriteFails(c) \/ SeeDone(c)
      BY <3>3 DEF TypeInv, ReceiveClosed, Written, WriteFails, SeeDone, callVars
    <3>4. CASE ReaderFails(c)
      BY <3>4 DEF TypeInv, ReaderFails, callVars
    <3>5. CASE Leave(c)
      BY <3>5 DEF TypeInv, Leave, Unsubscribe, callVars
    <3>6. QED
      BY <2>1, <3>1, <3>2, <3>3, <3>4, <3>5 DEF ConnectionStep, ServeStep
  <2>2. ASSUME NEW b \in Broadcasters, TakeSnapshot(b) PROVE TypeInv'
    BY <2>2 DEF TypeInv, TakeSnapshot, connVars
  <2>3. ASSUME NEW b \in Broadcasters, NEW c \in Clients, Enqueue(b, c) PROVE TypeInv'
    <3>1. <<b, count[b]>> \in Event
      BY DEF TypeInv, Event
    <3>2. log' \in [Clients -> Seq(Event)]
      BY <2>3, <3>1, AppendElements DEF TypeInv, Enqueue
    <3>3. QED
      BY <2>3, <3>2 DEF TypeInv, Enqueue, Visit, connVars
  <2>4. ASSUME NEW b \in Broadcasters, NEW c \in Clients,
               FindFull(b, c) \/ Evict(b, c) \/ SendPanics(b, c)
        PROVE  TypeInv'
    <3>1. CASE FindFull(b, c)
      BY <3>1 DEF TypeInv, FindFull, Visit, connVars
    <3>2. CASE Evict(b, c)
      <4>1. clients' \in SUBSET Clients /\ closes' \in [Clients -> Nat]
        BY <3>2 DEF TypeInv, Evict, Unsubscribe
      <4>2. UNCHANGED <<log, taken, handler, done, count, snapshot, pending, up>>
        BY <3>2 DEF Evict, connVars
      <4>3. /\ caller' \in [Broadcasters -> {"idle", "visiting", "evicting", "panicked"}]
            /\ victim' \in [Broadcasters -> SUBSET Clients]
        BY <3>2 DEF TypeInv, Evict
      <4>4. QED
        BY <4>1, <4>2, <4>3 DEF TypeInv
    <3>3. CASE SendPanics(b, c)
      BY <3>3 DEF TypeInv, SendPanics, Visit, connVars
    <3>4. QED
      BY <2>4, <3>1, <3>2, <3>3
  <2>5. ASSUME NEW b \in Broadcasters, BroadcastReturns(b) PROVE TypeInv'
    BY <2>5 DEF TypeInv, BroadcastReturns, connVars
  <2>6. CASE UNCHANGED vars
    BY <2>6 DEF TypeInv, vars, connVars, callVars
  <2>7. QED
    BY <2>1, <2>2, <2>3, <2>4, <2>5, <2>6 DEF Next, BroadcastStep, VisitStep
<1>3. QED
  BY <1>1, <1>2, PTL DEF Spec

-----------------------------------------------------------------------------
(* Unsubscribe in a state where the channels are sound: whoever executes   *)
(* it, and however often, the channel is closed at most once.              *)
LEMMA UnsubscribeSound ==
  ASSUME TypeInv, ChannelLifecycle, NEW c \in Clients, handler[c] # "new", Unsubscribe(c)
  PROVE  /\ closes' \in [Clients -> Nat]
         /\ closes'[c] = 1 /\ c \notin clients'
         /\ \A d \in Clients \ {c} : closes'[d] = closes[d] /\ (d \in clients' <=> d \in clients)
  BY DEF TypeInv, ChannelLifecycle, Unsubscribe

LEMMA LifecycleStep ==
  ASSUME TypeInv, ChannelLifecycle, NoLeakedClient, Bookkeeping, VictimTaken, [Next]_vars
  PROVE  ChannelLifecycle' /\ NoLeakedClient'
<1>1. ASSUME NEW c \in Clients, Subscribe(c) PROVE ChannelLifecycle' /\ NoLeakedClient'
  BY <1>1 DEF TypeInv, ChannelLifecycle, NoLeakedClient, Subscribe
<1>2. ASSUME NEW c \in Clients, Leave(c) PROVE ChannelLifecycle' /\ NoLeakedClient'
  <2>1. handler[c] # "new" /\ Unsubscribe(c)
    BY <1>2 DEF Leave
  <2>2. handler' = [handler EXCEPT ![c] = "gone"]
    BY <1>2 DEF Leave
  <2>3. QED
    BY <2>1, <2>2, UnsubscribeSound DEF TypeInv, ChannelLifecycle, NoLeakedClient
<1>3. ASSUME NEW c \in Clients,
             \/ Receive(c) \/ ReceiveClosed(c) \/ SeeDone(c)
             \/ Written(c) \/ WriteFails(c) \/ ReaderFails(c)
      PROVE  ChannelLifecycle' /\ NoLeakedClient'
  <2>1. UNCHANGED <<clients, closes>>
    BY <1>3 DEF Receive, ReceiveClosed, SeeDone, Written, WriteFails, ReaderFails
  <2>2. \A d \in Clients : /\ handler'[d] = "new" <=> handler[d] = "new"
                           /\ handler'[d] = "gone" <=> handler[d] = "gone"
    BY <1>3 DEF TypeInv, Receive, ReceiveClosed, SeeDone, Written, WriteFails, ReaderFails
  <2>3. QED
    BY <2>1, <2>2 DEF ChannelLifecycle, NoLeakedClient
<1>4. ASSUME NEW b \in Broadcasters, NEW c \in Clients, Evict(b, c)
      PROVE  ChannelLifecycle' /\ NoLeakedClient'
  <2>1. handler[c] # "new" /\ Unsubscribe(c) /\ UNCHANGED handler
    BY <1>4 DEF Evict, connVars, VictimTaken, Bookkeeping
  <2>2. QED
    BY <2>1, UnsubscribeSound DEF ChannelLifecycle, NoLeakedClient
<1>5. ASSUME NEW b \in Broadcasters, NEW c \in Clients,
             \/ TakeSnapshot(b) \/ BroadcastReturns(b)
             \/ Enqueue(b, c) \/ FindFull(b, c) \/ SendPanics(b, c)
      PROVE  ChannelLifecycle' /\ NoLeakedClient'
  <2>1. UNCHANGED <<clients, closes, handler>>
    BY <1>5 DEF TakeSnapshot, BroadcastReturns, Enqueue, FindFull, SendPanics, connVars
  <2>2. QED
    BY <2>1 DEF ChannelLifecycle, NoLeakedClient
<1>6. CASE UNCHANGED vars
  BY <1>6 DEF ChannelLifecycle, NoLeakedClient, vars, connVars
<1>7. CASE Clients = {}
  BY <1>7 DEF ChannelLifecycle, NoLeakedClient
<1>8. QED
  BY <1>1, <1>2, <1>3, <1>4, <1>5, <1>6, <1>7
     DEF Next, ConnectionStep, ServeStep, BroadcastStep, VisitStep

-----------------------------------------------------------------------------
(* What a step of a connection leaves alone: it neither touches the        *)
(* broadcasters nor makes a client "new" again.                            *)
LEMMA ConnectionFrame ==
  ASSUME TypeInv, NEW c \in Clients, ConnectionStep(c)
  PROVE  /\ UNCHANGED <<log, callVars>>
         /\ clients' \subseteq clients \cup {c}
         /\ \A d \in Clients : handler[d] # "new" => handler'[d] # "new"
         /\ c \in clients' /\ c \notin clients => handler[c] = "new"
<1>1. CASE Subscribe(c)
  BY <1>1 DEF TypeInv, Subscribe
<1>2. CASE Leave(c)
  BY <1>2 DEF TypeInv, Leave, Unsubscribe
<1>3. CASE Receive(c) \/ ReceiveClosed(c) \/ SeeDone(c)
  BY <1>3 DEF TypeInv, Receive, ReceiveClosed, SeeDone
<1>4. CASE Written(c) \/ WriteFails(c) \/ ReaderFails(c)
  BY <1>4 DEF TypeInv, Written, WriteFails, ReaderFails
<1>5. QED
  BY <1>1, <1>2, <1>3, <1>4 DEF ConnectionStep, ServeStep

LEMMA BookkeepingStep ==
  ASSUME TypeInv, ChannelLifecycle, Bookkeeping, VictimTaken, [Next]_vars
  PROVE  Bookkeeping' /\ VictimTaken'
<1>1. ASSUME NEW c \in Clients, ConnectionStep(c) PROVE Bookkeeping' /\ VictimTaken'
  <2>1. UNCHANGED <<caller, snapshot, pending, victim>>
    BY <1>1, ConnectionFrame DEF callVars
  <2>2. \A d \in Clients : handler[d] # "new" => handler'[d] # "new"
    BY <1>1, ConnectionFrame
  <2>3. \A b \in Broadcasters : snapshot[b] \subseteq Clients
    BY DEF TypeInv
  <2>4. QED
    BY <2>1, <2>2, <2>3 DEF Bookkeeping, VictimTaken
<1>2. ASSUME NEW b \in Broadcasters, TakeSnapshot(b) PROVE Bookkeeping' /\ VictimTaken'
  <2>1. \A c \in clients : handler[c] # "new"
    BY DEF TypeInv, ChannelLifecycle
  <2>2. QED
    BY <1>2, <2>1 DEF TypeInv, Bookkeeping, VictimTaken, TakeSnapshot, connVars
<1>3. ASSUME NEW b \in Broadcasters, BroadcastReturns(b) PROVE Bookkeeping' /\ VictimTaken'
  BY <1>3 DEF TypeInv, Bookkeeping, VictimTaken, BroadcastReturns, connVars
<1>4. ASSUME NEW b \in Broadcasters, NEW c \in Clients, Enqueue(b, c) \/ SendPanics(b, c)
      PROVE  Bookkeeping' /\ VictimTaken'
  <2>1. CASE Enqueue(b, c)
    BY <2>1 DEF TypeInv, Bookkeeping, VictimTaken, Enqueue, Visit, connVars
  <2>2. CASE SendPanics(b, c)
    BY <2>2 DEF TypeInv, Bookkeeping, VictimTaken, SendPanics, Visit, connVars
  <2>3. QED
    BY <1>4, <2>1, <2>2
<1>5. ASSUME NEW b \in Broadcasters, NEW c \in Clients, FindFull(b, c)
      PROVE  Bookkeeping' /\ VictimTaken'
  BY <1>5 DEF TypeInv, Bookkeeping, VictimTaken, FindFull, Visit, connVars
<1>6. ASSUME NEW b \in Broadcasters, NEW c \in Clients, Evict(b, c)
      PROVE  Bookkeeping' /\ VictimTaken'
  BY <1>6 DEF TypeInv, Bookkeeping, VictimTaken, Evict, connVars
<1>7. CASE UNCHANGED vars
  BY <1>7 DEF Bookkeeping, VictimTaken, vars, connVars, callVars
<1>8. QED
  BY <1>1, <1>2, <1>3, <1>4, <1>5, <1>6, <1>7 DEF Next, BroadcastStep, VisitStep

LEMMA BufferStep ==
  ASSUME TypeInv, TakenBound, BufferBound, [Next]_vars
  PROVE  TakenBound' /\ BufferBound'
<1> USE BufferAssumption
<1>0. \A c \in Clients : taken[c] \in Nat /\ Len(log[c]) \in Nat
  BY DEF TypeInv
<1>1. ASSUME NEW c \in Clients, Receive(c) PROVE TakenBound' /\ BufferBound'
  BY <1>0, <1>1 DEF TypeInv, TakenBound, BufferBound, Receive, Drained
<1>2. ASSUME NEW b \in Broadcasters, NEW c \in Clients, Enqueue(b, c)
      PROVE  TakenBound' /\ BufferBound'
  <2>1. log[c] \in Seq(Event) /\ <<b, count[b]>> \in Event
    BY DEF TypeInv, Event
  <2>2. Len(log'[c]) = Len(log[c]) + 1
    BY <1>2, <2>1, AppendElements DEF TypeInv, Enqueue
  <2>3. \A d \in Clients \ {c} : log'[d] = log[d]
    BY <1>2 DEF TypeInv, Enqueue
  <2>4. UNCHANGED taken /\ Len(log[c]) - taken[c] < Buffer
    BY <1>0, <1>2 DEF Enqueue, Full, connVars
  <2>5. QED
    BY <1>0, <2>2, <2>3, <2>4 DEF TakenBound, BufferBound
<1>3. CASE UNCHANGED <<log, taken>>
  BY <1>3 DEF TakenBound, BufferBound
<1>4. ASSUME NEW c \in Clients, ConnectionStep(c), ~Receive(c) PROVE UNCHANGED <<log, taken>>
  BY <1>4 DEF ConnectionStep, ServeStep, Subscribe, ReceiveClosed, SeeDone, Leave,
              Written, WriteFails, ReaderFails
<1>5. ASSUME NEW b \in Broadcasters,
             \/ TakeSnapshot(b) \/ BroadcastReturns(b)
             \/ \E c \in Clients : FindFull(b, c) \/ Evict(b, c) \/ SendPanics(b, c)
      PROVE  UNCHANGED <<log, taken>>
  BY <1>5 DEF TakeSnapshot, BroadcastReturns, FindFull, Evict, SendPanics, connVars
<1>6. CASE UNCHANGED vars
  BY <1>3, <1>6 DEF vars, connVars
<1>7. QED
  BY <1>1, <1>2, <1>3, <1>4, <1>5, <1>6 DEF Next, BroadcastStep, VisitStep

(* The events a client has received only grow.                             *)
LEMMA ReceivedGrows ==
  ASSUME TypeInv, NEW b \in Broadcasters, NEW c \in Clients, Enqueue(b, c)
  PROVE  /\ <<b, count[b]>> \in Received(c)'
         /\ \A d \in Clients : Received(d) \subseteq Received(d)'
<1>1. log[c] \in Seq(Event) /\ <<b, count[b]>> \in Event
  BY DEF TypeInv, Event
<1>2. log'[c] = Append(log[c], <<b, count[b]>>)
  BY DEF TypeInv, Enqueue
<1>3. \A d \in Clients \ {c} : log'[d] = log[d]
  BY DEF TypeInv, Enqueue
<1>4. Len(log[c]) \in Nat /\ Len(log'[c]) = Len(log[c]) + 1
  BY <1>1, <1>2, AppendElements
<1>5. log'[c][Len(log[c]) + 1] = <<b, count[b]>>
      /\ \A i \in 1..Len(log[c]) : log'[c][i] = log[c][i]
  BY <1>1, <1>2, AppendElements
<1>6. <<b, count[b]>> \in Received(c)' /\ Received(c) \subseteq Received(c)'
  BY <1>4, <1>5 DEF Received
<1>7. QED
  BY <1>3, <1>6 DEF Received

LEMMA VisitedStep ==
  ASSUME TypeInv, Bookkeeping, Visited, [Next]_vars
  PROVE  Visited'
<1>1. ASSUME NEW c \in Clients, ConnectionStep(c) PROVE Visited'
  <2>1. UNCHANGED <<log, callVars>>
    BY <1>1, ConnectionFrame
  <2>2. \A b \in Broadcasters, d \in Clients :
          d \in snapshot[b] /\ d \in clients' => d \in clients
    BY <1>1, ConnectionFrame DEF Bookkeeping
  <2>3. QED
    BY <2>1, <2>2 DEF Visited, Received, callVars
<1>2. ASSUME NEW b \in Broadcasters, TakeSnapshot(b) PROVE Visited'
  <2>1. snapshot'[b] = clients /\ pending'[b] = clients /\ UNCHANGED <<log, clients, victim>>
    BY <1>2 DEF TypeInv, TakeSnapshot
  <2>2. \A a \in Broadcasters \ {b} :
          /\ snapshot'[a] = snapshot[a] /\ pending'[a] = pending[a]
          /\ count'[a] = count[a] /\ caller'[a] = caller[a]
    BY <1>2 DEF TypeInv, TakeSnapshot
  <2>3. \A d \in Clients : Received(d)' = Received(d)
    BY <2>1 DEF Received
  <2>4. QED
    BY <2>1, <2>2, <2>3 DEF Visited
<1>3. ASSUME NEW b \in Broadcasters, BroadcastReturns(b) PROVE Visited'
  <2>1. UNCHANGED <<log, clients, count, snapshot, pending, victim>>
    BY <1>3 DEF BroadcastReturns
  <2>2. \A a \in Broadcasters : caller'[a] # "panicked" => caller[a] # "panicked"
    BY <1>3 DEF TypeInv, BroadcastReturns
  <2>3. \A d \in Clients : Received(d)' = Received(d)
    BY <2>1 DEF Received
  <2>4. QED
    BY <2>1, <2>2, <2>3 DEF Visited
<1>4. ASSUME NEW b \in Broadcasters, NEW c \in Clients, Enqueue(b, c) PROVE Visited'
  <2>1. pending' = [pending EXCEPT ![b] = @ \ {c}]
        /\ UNCHANGED <<clients, caller, count, snapshot, victim>>
    BY <1>4 DEF Enqueue, Visit
  <2>2. \A a \in Broadcasters, d \in Clients :
          d \notin pending'[a] => d \notin pending[a] \/ (a = b /\ d = c)
    BY <2>1 DEF TypeInv
  <2>3. QED
    BY <1>4, <2>1, <2>2, ReceivedGrows DEF Visited
<1>5. ASSUME NEW b \in Broadcasters, NEW c \in Clients, FindFull(b, c) PROVE Visited'
  <2>1. UNCHANGED <<log, clients, count, snapshot>>
    BY <1>5 DEF FindFull
  <2>2. caller[b] = "visiting" /\ victim[b] = {} /\ victim'[b] = {c}
        /\ pending'[b] = pending[b] \ {c}
    BY <1>5 DEF TypeInv, FindFull, Visit, Bookkeeping
  <2>3. \A a \in Broadcasters \ {b} :
          pending'[a] = pending[a] /\ victim'[a] = victim[a] /\ caller'[a] = caller[a]
    BY <1>5 DEF TypeInv, FindFull, Visit
  <2>4. \A d \in Clients : Received(d)' = Received(d)
    BY <2>1 DEF Received
  <2>5. \A a \in Broadcasters, d \in Clients :
          d \notin pending'[a] /\ d \notin victim'[a] => d \notin pending[a] /\ d \notin victim[a]
    BY <2>2, <2>3
  <2>6. \A a \in Broadcasters : caller'[a] # "panicked" => caller[a] # "panicked"
    BY <2>2, <2>3
  <2>7. QED
    BY <2>1, <2>4, <2>5, <2>6 DEF Visited
<1>6. ASSUME NEW b \in Broadcasters, NEW c \in Clients, Evict(b, c) PROVE Visited'
  <2>1. c \notin clients' /\ clients' \subseteq clients
        /\ UNCHANGED <<log, count, snapshot, pending>>
    BY <1>6 DEF Evict, Unsubscribe
  <2>2. caller[b] = "evicting" /\ caller' = [caller EXCEPT ![b] = "visiting"]
        /\ victim' = [victim EXCEPT ![b] = {}]
    BY <1>6 DEF Evict
  <2>3. victim[b] = {c}
    BY <1>6 DEF Evict, Bookkeeping
  <2>4. \A a \in Broadcasters : caller'[a] # "panicked" => caller[a] # "panicked"
    BY <2>2 DEF TypeInv
  <2>5. \A a \in Broadcasters \ {b} : victim'[a] = victim[a]
    BY <2>2 DEF TypeInv
  <2>6. \A d \in Clients : Received(d)' = Received(d)
    BY <2>1 DEF Received
  <2>7. \A a \in Broadcasters, d \in Clients :
          d \in clients' /\ d \notin victim'[a] => d \in clients /\ d \notin victim[a]
    BY <2>1, <2>3, <2>5
  <2>8. QED
    BY <2>1, <2>4, <2>6, <2>7 DEF Visited
<1>7. ASSUME NEW b \in Broadcasters, NEW c \in Clients, SendPanics(b, c) PROVE Visited'
  <2>1. UNCHANGED <<log, clients, count, snapshot, victim>> /\ caller'[b] = "panicked"
    BY <1>7 DEF TypeInv, SendPanics
  <2>2. \A a \in Broadcasters \ {b} : pending'[a] = pending[a] /\ caller'[a] = caller[a]
    BY <1>7 DEF TypeInv, SendPanics, Visit
  <2>3. \A d \in Clients : Received(d)' = Received(d)
    BY <2>1 DEF Received
  <2>4. QED
    BY <2>1, <2>2, <2>3 DEF Visited
<1>8. CASE UNCHANGED vars
  BY <1>8 DEF Visited, Received, vars, connVars, callVars
<1>9. QED
  BY <1>1, <1>2, <1>3, <1>4, <1>5, <1>6, <1>7, <1>8 DEF Next, BroadcastStep, VisitStep

-----------------------------------------------------------------------------

LEMMA HubInvCorrect == Spec => []HubInv
<1> USE BufferAssumption
<1>1. Init => HubInv
  <2> SUFFICES ASSUME Init PROVE HubInv
    OBVIOUS
  <2>1. ChannelLifecycle /\ NoLeakedClient /\ TakenBound /\ BufferBound
    BY DEF Init, ChannelLifecycle, NoLeakedClient, TakenBound, BufferBound
  <2>2. Bookkeeping /\ VictimTaken /\ Visited
    BY DEF Init, Bookkeeping, VictimTaken, Visited
  <2>3. TypeInv
    BY BroadcastsAssumption DEF Init, TypeInv, Event
  <2>4. QED
    BY <2>1, <2>2, <2>3 DEF HubInv
<1>2. TypeInv' /\ HubInv /\ [Next]_vars => HubInv'
  BY LifecycleStep, BookkeepingStep, BufferStep, VisitedStep DEF HubInv
<1>3. QED
  BY <1>1, <1>2, TypeCorrect, PTL DEF Spec

(* However many goroutines unsubscribe a client, its channel is closed at  *)
(* most once and exactly when the client leaves the hub.                   *)
THEOREM LifecycleCorrect == Spec => []ChannelLifecycle
  BY HubInvCorrect, PTL DEF HubInv

(* No channel ever holds more than its capacity.                           *)
THEOREM BufferCorrect == Spec => []BufferBound
  BY HubInvCorrect, PTL DEF HubInv

(* No connection that has ended stays registered.                          *)
THEOREM LeakCorrect == Spec => []NoLeakedClient
  BY HubInvCorrect, PTL DEF HubInv

(* A broadcast that returned has reached every client of its snapshot that *)
(* is still registered.                                                    *)
THEOREM LossCorrect == Spec => []NoSilentLoss
<1>1. HubInv => NoSilentLoss
  BY DEF HubInv, Visited, Bookkeeping, NoSilentLoss
<1>2. QED
  BY <1>1, HubInvCorrect, PTL

=============================================================================
