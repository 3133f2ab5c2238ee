---------------------------- MODULE RealtimeHub ----------------------------
(***************************************************************************)
(* The websocket hub (features/realtime/hub.go): every websocket           *)
(* connection is a client with a buffered channel, a handler goroutine     *)
(* (serve) that drains the channel into the connection and a reader        *)
(* goroutine that only notices the peer going away; every admin or proxy   *)
(* handler, and every shadow goroutine, may broadcast.                     *)
(*                                                                         *)
(* A channel is modelled by everything that was ever put in it (log) and   *)
(* the number of elements the handler took out (taken), so its contents    *)
(* are the elements of log after position taken.  A connection is never    *)
(* reused: serve allocates a new client for each one.                      *)
(*                                                                         *)
(* A definition headed "Mutated form" is a plausible bug that a check run  *)
(* puts in the place of the definition that follows it; no other           *)
(* definition uses it.                                                     *)
(***************************************************************************)
EXTENDS Naturals, Sequences, FiniteSets

CONSTANTS
  Clients,        \* websocket connections that may ever be opened
  Broadcasters,   \* goroutines that call Broadcast
  Recovered,      \* broadcasters that run under gin.Recovery (HTTP handlers)
  Buffer,         \* capacity of a client's channel (32 in NewHub)
  MaxBroadcasts   \* bound: calls of Broadcast, by all goroutines together

ASSUME BufferAssumption == Buffer \in Nat \ {0}
ASSUME BroadcastsAssumption == MaxBroadcasts \in Nat
ASSUME RecoveredAssumption == Recovered \subseteq Broadcasters

VARIABLES
  clients,   \* h.clients, the registered clients
  log,       \* log[c]: every event ever put in c.send
  taken,     \* taken[c]: how many of them the handler has received
  closes,    \* closes[c]: how many times close(c.send) was executed
  handler,   \* where serve is for connection c
  done,      \* done[c]: the reader goroutine has closed the done channel
  caller,    \* where Broadcast is for goroutine b
  count,     \* count[b]: broadcasts b has begun; <<b, count[b]>> is its event
  snapshot,  \* snapshot[b]: the clients copied under the read lock
  pending,   \* pending[b]: those not visited yet
  victim,    \* victim[b]: the client whose buffer was found full
  up         \* FALSE once an unrecovered panic has ended the process

connVars == <<taken, handler, done>>
callVars == <<caller, count, snapshot, pending, victim>>
vars == <<clients, log, closes, connVars, callVars, up>>

Event == Broadcasters \X Nat

TypeInv ==
  /\ clients \in SUBSET Clients
  /\ log \in [Clients -> Seq(Event)]
  /\ taken \in [Clients -> Nat]
  /\ closes \in [Clients -> Nat]
  /\ handler \in [Clients -> {"new", "loop", "writing", "leaving", "gone"}]
  /\ done \in [Clients -> BOOLEAN]
  /\ caller \in [Broadcasters -> {"idle", "visiting", "evicting", "panicked"}]
  /\ count \in [Broadcasters -> Nat]
  /\ snapshot \in [Broadcasters -> SUBSET Clients]
  /\ pending \in [Broadcasters -> SUBSET Clients]
  /\ victim \in [Broadcasters -> SUBSET Clients]
  /\ up \in BOOLEAN
  /\ \A c \in Clients : taken[c] <= Len(log[c])

Init ==
  /\ clients = {}
  /\ log = [c \in Clients |-> <<>>]
  /\ taken = [c \in Clients |-> 0]
  /\ closes = [c \in Clients |-> 0]
  /\ handler = [c \in Clients |-> "new"]
  /\ done = [c \in Clients |-> FALSE]
  /\ caller = [b \in Broadcasters |-> "idle"]
  /\ count = [b \in Broadcasters |-> 0]
  /\ snapshot = [b \in Broadcasters |-> {}]
  /\ pending = [b \in Broadcasters |-> {}]
  /\ victim = [b \in Broadcasters |-> {}]
  /\ up = TRUE

-----------------------------------------------------------------------------
(* Channel operations.  A send on a closed channel panics even in a select *)
(* with a default case, so "closed" is looked at before "full".            *)

Closed(c) == closes[c] > 0
Full(c) == Len(log[c]) - taken[c] >= Buffer
Drained(c) == taken[c] = Len(log[c])

(* Mutated form: the channel is closed without looking the client up.      *)
UnsubscribeBlindly(c) ==
  /\ clients' = clients \ {c}
  /\ closes' = [closes EXCEPT ![c] = @ + 1]

(* h.unsubscribe: only the caller that finds the client registered closes  *)
(* its channel.                                                            *)
Unsubscribe(c) ==
  /\ clients' = clients \ {c}
  /\ closes' = IF c \in clients THEN [closes EXCEPT ![c] = @ + 1] ELSE closes

-----------------------------------------------------------------------------
(* The connection: serve and its reader goroutine.                         *)

Subscribe(c) ==
  /\ up /\ handler[c] = "new"
  /\ clients' = clients \cup {c}
  /\ handler' = [handler EXCEPT ![c] = "loop"]
  /\ UNCHANGED <<log, taken, closes, done, callVars, up>>

(* case message, ok := <-client.send with ok: buffered events come out     *)
(* first, also after the channel was closed.                               *)
Receive(c) ==
  /\ up /\ handler[c] = "loop" /\ ~Drained(c)
  /\ taken' = [taken EXCEPT ![c] = @ + 1]
  /\ handler' = [handler EXCEPT ![c] = "writing"]
  /\ UNCHANGED <<clients, log, closes, done, callVars, up>>

(* Mutated form: !ok is answered with "continue".                          *)
ReceiveClosedContinues(c) ==
  /\ up /\ handler[c] = "loop" /\ Closed(c) /\ Drained(c)
  /\ UNCHANGED vars

(* The same case with !ok: the hub has dropped this client.                *)
ReceiveClosed(c) ==
  /\ up /\ handler[c] = "loop" /\ Closed(c) /\ Drained(c)
  /\ handler' = [handler EXCEPT ![c] = "leaving"]
  /\ UNCHANGED <<clients, log, taken, closes, done, callVars, up>>

(* websocket.JSON.Send returns: the peer took the event, or the write      *)
(* failed.  A peer that stops reading delays this step for ever.           *)
Written(c) ==
  /\ up /\ handler[c] = "writing"
  /\ handler' = [handler EXCEPT ![c] = "loop"]
  /\ UNCHANGED <<clients, log, taken, closes, done, callVars, up>>

WriteFails(c) ==
  /\ up /\ handler[c] = "writing"
  /\ handler' = [handler EXCEPT ![c] = "leaving"]
  /\ UNCHANGED <<clients, log, taken, closes, done, callVars, up>>

(* The reader goroutine gets an error from the connection and closes done. *)
ReaderFails(c) ==
  /\ up /\ handler[c] # "new" /\ ~done[c]
  /\ done' = [done EXCEPT ![c] = TRUE]
  /\ UNCHANGED <<clients, log, taken, closes, handler, callVars, up>>

SeeDone(c) ==
  /\ up /\ handler[c] = "loop" /\ done[c]
  /\ handler' = [handler EXCEPT ![c] = "leaving"]
  /\ UNCHANGED <<clients, log, taken, closes, done, callVars, up>>

(* Mutated form: an early return before the defer.                         *)
LeaveRegistered(c) ==
  /\ up /\ handler[c] = "leaving"
  /\ handler' = [handler EXCEPT ![c] = "gone"]
  /\ UNCHANGED <<clients, closes, log, taken, done, callVars, up>>

(* The deferred h.unsubscribe(client) of serve.                            *)
Leave(c) ==
  /\ up /\ handler[c] = "leaving"
  /\ Unsubscribe(c)
  /\ handler' = [handler EXCEPT ![c] = "gone"]
  /\ UNCHANGED <<log, taken, done, callVars, up>>

-----------------------------------------------------------------------------
(* Broadcast.  The snapshot is taken under the read lock and visited after *)
(* the lock is released, in the (arbitrary) order of the map iteration.    *)

(* The events broadcast so far.                                            *)
Begun == UNION {{b} \X (1..count[b]) : b \in Broadcasters}

TakeSnapshot(b) ==
  /\ up /\ caller[b] = "idle" /\ Cardinality(Begun) < MaxBroadcasts
  /\ count' = [count EXCEPT ![b] = @ + 1]
  /\ snapshot' = [snapshot EXCEPT ![b] = clients]
  /\ pending' = [pending EXCEPT ![b] = clients]
  /\ caller' = [caller EXCEPT ![b] = "visiting"]
  /\ UNCHANGED <<clients, log, closes, connVars, victim, up>>

Visit(b, c) ==
  /\ up /\ caller[b] = "visiting" /\ c \in pending[b]
  /\ pending' = [pending EXCEPT ![b] = @ \ {c}]

(* case client.send <- message.                                            *)
Enqueue(b, c) ==
  /\ Visit(b, c) /\ ~Closed(c) /\ ~Full(c)
  /\ log' = [log EXCEPT ![c] = Append(@, <<b, count[b]>>)]
  /\ UNCHANGED <<clients, closes, connVars, caller, count, snapshot, victim, up>>

(* Mutated form: the event is dropped, the client stays.                   *)
FindFullDrops(b, c) ==
  /\ Visit(b, c) /\ ~Closed(c) /\ Full(c)
  /\ UNCHANGED <<clients, log, closes, connVars, caller, count, snapshot, victim, up>>

(* default: the client is too slow; unsubscribe needs the write lock, so   *)
(* other goroutines may run before it.                                     *)
FindFull(b, c) ==
  /\ Visit(b, c) /\ ~Closed(c) /\ Full(c)
  /\ victim' = [victim EXCEPT ![b] = {c}]
  /\ caller' = [caller EXCEPT ![b] = "evicting"]
  /\ UNCHANGED <<clients, log, closes, connVars, count, snapshot, up>>

(* Mutated form: the hub waits for the handler it evicts.                  *)
EvictWaits(b, c) ==
  /\ up /\ caller[b] = "evicting" /\ c \in victim[b]
  /\ handler[c] = "gone"
  /\ Unsubscribe(c)
  /\ victim' = [victim EXCEPT ![b] = {}]
  /\ caller' = [caller EXCEPT ![b] = "visiting"]
  /\ UNCHANGED <<log, connVars, count, snapshot, pending, up>>

Evict(b, c) ==
  /\ up /\ caller[b] = "evicting" /\ c \in victim[b]
  /\ Unsubscribe(c)
  /\ victim' = [victim EXCEPT ![b] = {}]
  /\ caller' = [caller EXCEPT ![b] = "visiting"]
  /\ UNCHANGED <<log, connVars, count, snapshot, pending, up>>

(* The client was unsubscribed after the snapshot: the send panics.  An    *)
(* HTTP handler is recovered by gin, a shadow goroutine takes the process  *)
(* down.                                                                   *)
SendPanics(b, c) ==
  /\ Visit(b, c) /\ Closed(c)
  /\ caller' = [caller EXCEPT ![b] = "panicked"]
  /\ up' = (b \in Recovered)
  /\ UNCHANGED <<clients, log, closes, connVars, count, snapshot, victim>>

BroadcastReturns(b) ==
  /\ up /\ caller[b] = "visiting" /\ pending[b] = {}
  /\ caller' = [caller EXCEPT ![b] = "idle"]
  /\ UNCHANGED <<clients, log, closes, connVars, count, snapshot, pending, victim, up>>

-----------------------------------------------------------------------------

ServeStep(c) ==
  \/ Receive(c) \/ ReceiveClosed(c) \/ SeeDone(c) \/ Leave(c)

ConnectionStep(c) ==
  \/ Subscribe(c) \/ ServeStep(c)
  \/ Written(c) \/ WriteFails(c) \/ ReaderFails(c)

VisitStep(b) ==
  \E c \in Clients :
    \/ Enqueue(b, c) \/ FindFull(b, c) \/ Evict(b, c) \/ SendPanics(b, c)

BroadcastStep(b) == VisitStep(b) \/ BroadcastReturns(b)

Next ==
  \/ \E c \in Clients : ConnectionStep(c)
  \/ \E b \in Broadcasters : TakeSnapshot(b) \/ BroadcastStep(b)

Spec == Init /\ [][Next]_vars

(* The Go scheduler runs every goroutine that can run.  Nothing is assumed *)
(* about the peers: they need not connect, read, answer or hang up.        *)
Fairness ==
  /\ \A c \in Clients : WF_vars(ServeStep(c))
  /\ \A b \in Broadcasters : WF_vars(BroadcastStep(b))

FairSpec == Spec /\ Fairness

-----------------------------------------------------------------------------
(* Properties.                                                             *)

Received(c) == {log[c][i] : i \in 1..Len(log[c])}

(* A client's channel is closed at most once, and exactly when the client  *)
(* has been taken out of the hub, although its own handler and any number  *)
(* of broadcasters may unsubscribe it (hub.go:57, 65, 99-106).             *)
ChannelLifecycle ==
  \A c \in Clients :
    /\ closes[c] \in {0, 1}
    /\ handler[c] = "new" => c \notin clients /\ closes[c] = 0
    /\ handler[c] # "new" => (c \in clients <=> closes[c] = 0)

(* No broadcaster ever puts more in a channel than it holds: the select    *)
(* with default keeps it from blocking (hub.go:54-58).                     *)
BufferBound == \A c \in Clients : Len(log[c]) <= taken[c] + Buffer

(* A connection whose handler has returned is not in the hub any more, so  *)
(* the map does not grow with dead connections (hub.go:65).                *)
NoLeakedClient == \A c \in Clients : handler[c] = "gone" => c \notin clients

(* A broadcast that returned has reached every client of its snapshot that *)
(* is still registered: an event is never dropped without dropping the     *)
(* client too (hub.go:53-59).                                              *)
NoSilentLoss ==
  \A b \in Broadcasters, c \in Clients :
    (caller[b] = "idle" /\ c \in snapshot[b] /\ c \in clients)
      => <<b, count[b]>> \in Received(c)

(* TestHubBroadcastsEventsToSubscribers expects the event in the channel   *)
(* of a subscriber once Broadcast is over, however it is over.             *)
EverySubscriberServed ==
  \A b \in Broadcasters, c \in Clients :
    (caller[b] \in {"idle", "panicked"} /\ c \in snapshot[b] /\ c \in clients)
      => <<b, count[b]>> \in Received(c)

(* Broadcast never waits for a client: with no assumption on the peers it  *)
(* comes to an end (or the process does).                                  *)
BroadcastEnds ==
  \A b \in Broadcasters :
    (caller[b] \in {"visiting", "evicting"})
      ~> (caller[b] \in {"idle", "panicked"} \/ ~up)

(* A client dropped by the hub is wound up: its handler drains what was    *)
(* buffered and returns, unless a write to its peer blocks for ever.       *)
EvictedHandlerEnds ==
  \A c \in Clients :
    Closed(c) ~> (handler[c] = "gone" \/ ~up \/ [](handler[c] = "writing"))

=============================================================================
