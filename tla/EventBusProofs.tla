--------------------------- MODULE EventBusProofs ---------------------------
(***************************************************************************)
(* Theorems about EventBus for any number of publishers, receivers,        *)
(* messages and crashes, any capacity and any retention.  First the        *)
(* durability guarantee: what a receiver was given is in the log until it  *)
(* is too old to be kept.  Then the way of an inbound message: the worker  *)
(* processes none twice, and those of the plugin queue in the order in     *)
(* which they were emitted; and every variable keeps its type.             *)
(***************************************************************************)
EXTENDS EventBus, FiniteSetTheorems, TLAPS

\* The types the argument needs.  The bounds of TypeOK on the counters are not
\* among them: they rest on counting the events, which this argument does not.
Index   == Nat \cup {Ended}

TypeInv == /\ now \in Nat
           /\ log \subseteq Event
           /\ plugin_rx \in Seq(Event)
           /\ task \in [Tasks -> TaskState]
           /\ stream \in Seq(Event)
           /\ rx \in [Receivers -> Index]
           /\ acked \subseteq Event
           /\ seen \subseteq Event

Logged(e) == Kept(e) => e \in log

\* SeenIsLogged is not inductive: a receiver is given what is on the channel,
\* and that was put there by a task whose append() had succeeded.
StreamLogged == \A i \in DOMAIN stream : Logged(stream[i])
SendLogged   == \A p \in Tasks : task[p] # Idle /\ task[p].step = "send"
                                     => Logged(task[p].event)

IInv == TypeInv /\ StreamLogged /\ SendLogged /\ SeenIsLogged

-----------------------------------------------------------------------------
\* The worker is a receiver, and the bridge a task.
LEMMA Parties == Worker \in Receivers /\ Bridge \in Tasks /\ Bridge \notin Adapters
  BY EventBusAssumption DEF Receivers, Tasks

\* A task that is not idle has an event.
LEMMA TaskEvent ==
    ASSUME TypeInv, NEW p \in Tasks, task[p] # Idle
    PROVE  /\ task[p] \in [step: {"created", "append", "send"}, event: Event]
           /\ task[p].event \in Event
  BY DEF TypeInv, TaskState

\* Giving a task an event keeps the type of the tasks.
LEMMA AtType ==
    ASSUME NEW step \in {"created", "append", "send"}, NEW e \in Event
    PROVE  /\ At(step, e) \in TaskState
           /\ At(step, e) # Idle
           /\ At(step, e).step = step
           /\ At(step, e).event = e
  BY DEF At, TaskState, Idle

\* The time of an event is a number.
LEMMA EventTime == ASSUME NEW e \in Event PROVE Time(e) \in Int
  BY EventBusAssumption DEF Event, EventIds, Time

\* The index of the oldest event kept is that of an event.
LEMMA OldestType == TypeInv => Oldest \in Nat \ {0}
  BY EventBusAssumption DEF TypeInv, Oldest

\* What was logged stays so while no event leaves the log.
LEMMA LoggedStable ==
    ASSUME log \subseteq log', now' = now, NEW e, Logged(e)
    PROVE  Logged(e)'
  BY DEF Logged, Kept

\* In a step that takes nothing from the log, at the same time, and puts no
\* event on the channel, into the hands of a receiver or at a publisher's
\* send, every part of the invariant but the types is kept.
LEMMA QuietStep ==
    ASSUME IInv, log \subseteq log', now' = now, stream' = stream,
           seen' = seen, acked' = acked,
           \A p \in Tasks : task'[p] # Idle /\ task'[p].step = "send"
                              => task'[p] = task[p]
    PROVE  (StreamLogged /\ SendLogged /\ SeenIsLogged)'
  <1>1. StreamLogged'
    BY LoggedStable DEF IInv, StreamLogged
  <1>2. SendLogged'
    BY LoggedStable DEF IInv, SendLogged
  <1>3. SeenIsLogged'
    BY DEF IInv, SeenIsLogged, Kept
  <1>. QED  BY <1>1, <1>2, <1>3

-----------------------------------------------------------------------------
\* Initially nothing was published.
LEMMA InitInv == Init => IInv
  <1>. SUFFICES ASSUME Init PROVE IInv
    OBVIOUS
  <1>1. TypeInv
    BY DEF Init, TypeInv, TaskState, Closed, Index
  <1>2. StreamLogged /\ SendLogged /\ SeenIsLogged
    BY DEF Init, StreamLogged, SendLogged, SeenIsLogged
  <1>. QED  BY <1>1, <1>2 DEF IInv

\* Publishing: an event reaches the channel only from a task that has logged it.
LEMMA PublishInv ==
    ASSUME IInv, NEW p \in Tasks, Create(p) \/ Publish(p)
    PROVE  IInv'
  <1>. USE DEF IInv
  <1>. DEFINE e == task[p].event
  <1>1. CASE Create(p)
    <2>1. PICK id \in EventIds, inbound \in BOOLEAN :
             task' = [task EXCEPT ![p] =
                        At(IF p \in Adapters THEN "created" ELSE "append",
                           [id |-> id, inbound |-> inbound])]
      BY <1>1 DEF Create
    <2>. DEFINE step == IF p \in Adapters THEN "created" ELSE "append"
                new  == [id |-> id, inbound |-> inbound]
    <2>2. step \in {"created", "append", "send"} /\ step # "send" /\ new \in Event
      BY DEF Event
    <2>3. At(step, new) \in TaskState /\ At(step, new).step = step
      BY <2>2, AtType
    <2>4. TypeInv'
      BY <1>1, <2>1, <2>3 DEF TypeInv, Create, Channel, History
    <2>5. \A q \in Tasks : task'[q].step = "send" => task'[q] = task[q]
      BY <2>1, <2>2, <2>3 DEF TypeInv
    <2>. QED  BY <1>1, <2>4, <2>5, QuietStep DEF Create, Channel, History
  <1>2. CASE Emit(p)
    <2>1. TypeInv'
      BY <1>2, TaskEvent DEF TypeInv, Emit, Channel, TaskState
    <2>2. \A q \in Tasks : task'[q] # Idle => task'[q] = task[q]
      BY <1>2 DEF TypeInv, Emit
    <2>. QED  BY <1>2, <2>1, <2>2, QuietStep DEF Emit, Channel
  <1>3. CASE Persist(p)
    <2>1. e \in Event /\ At("send", e) \in TaskState /\ At("send", e).event = e
      BY <1>3, TaskEvent, AtType DEF Persist
    <2>2. TypeInv'
      BY <1>3, <2>1 DEF TypeInv, Persist, Channel, History
    <2>3. StreamLogged' /\ SeenIsLogged'
      BY <1>3 DEF Persist, Channel, History, StreamLogged, SeenIsLogged, Logged,
                  Kept
    <2>4. ASSUME NEW q \in Tasks, task'[q] # Idle, task'[q].step = "send"
          PROVE  Logged(task[q].event)'
      <3>1. CASE q = p
        BY <1>3, <2>1, <3>1 DEF Persist, TypeInv, Logged
      <3>2. CASE q # p
        BY <1>3, <2>4, <3>2 DEF Persist, TypeInv, SendLogged, Logged, Kept
      <3>. QED  BY <3>1, <3>2
    <2>. QED  BY <2>2, <2>3, <2>4 DEF SendLogged
  <1>4. CASE PersistFails(p)
    <2>1. TypeInv'
      BY <1>4 DEF TypeInv, PersistFails, Channel, TaskState
    <2>2. \A q \in Tasks : task'[q] # Idle => task'[q] = task[q]
      BY <1>4 DEF TypeInv, PersistFails
    <2>. QED  BY <1>4, <2>1, <2>2, QuietStep DEF PersistFails, Channel
  <1>5. CASE Broadcast(p)
    <2>1. e \in Event /\ Logged(e)
      BY <1>5, TaskEvent DEF Broadcast, SendLogged
    <2>2. TypeInv'
      BY <1>5, <2>1 DEF TypeInv, Broadcast, TaskState
    <2>3. StreamLogged'
      BY <1>5, <2>1 DEF TypeInv, Broadcast, StreamLogged, Logged, Kept
    <2>4. SendLogged'
      BY <1>5 DEF TypeInv, Broadcast, SendLogged, Logged, Kept
    <2>5. SeenIsLogged'
      BY <1>5, <2>1 DEF Broadcast, SeenIsLogged, Logged, Kept
    <2>. QED  BY <2>2, <2>3, <2>4, <2>5
  <1>. QED  BY <1>1, <1>2, <1>3, <1>4, <1>5 DEF Publish

\* The bridge takes an event that is yet to be appended.
LEMMA BridgeInv == ASSUME IInv, BridgeTake PROVE IInv'
  <1>. USE DEF IInv
  <1>1. Head(plugin_rx) \in Event /\ Tail(plugin_rx) \in Seq(Event)
    BY DEF BridgeTake, TypeInv
  <1>2. At("append", Head(plugin_rx)) \in TaskState
        /\ At("append", Head(plugin_rx)).step = "append"
    BY <1>1, AtType
  <1>3. TypeInv'
    BY <1>1, <1>2 DEF TypeInv, BridgeTake, Channel, History
  <1>4. \A q \in Tasks : task'[q].step = "send" => task'[q] = task[q]
    BY <1>2 DEF TypeInv, BridgeTake
  <1>. QED  BY <1>3, <1>4, QuietStep DEF BridgeTake, Channel, History

\* Receiving: what a receiver is given is on the channel.
LEMMA ReceiveInv ==
    ASSUME IInv, NEW r \in Receivers,
           Subscribe(r) \/ Listen(r) \/ ClientMessage(r) \/ Disconnect(r)
             \/ (r = Worker /\ WorkerPanics)
    PROVE  IInv'
  <1>. USE DEF IInv
  <1>1. CASE Receive(r)
    <2>1. rx[r] \in DOMAIN stream
      BY <1>1, OldestType DEF Receive, TypeInv, Index, Ended, Open
    <2>2. stream[rx[r]] \in Event /\ Logged(stream[rx[r]])
      BY <2>1 DEF TypeInv, StreamLogged
    <2>3. TypeInv'
      <3>1. rx[r] + 1 \in Index
        BY <2>1, <1>1 DEF TypeInv, Index, Receive
      <3>. QED  BY <1>1, <2>2, <3>1 DEF TypeInv, Receive
    <2>4. StreamLogged' /\ SendLogged'
      BY <1>1 DEF Receive, StreamLogged, SendLogged, Logged, Kept
    <2>5. SeenIsLogged'
      BY <1>1, <2>2 DEF Receive, SeenIsLogged, Logged, Kept
    <2>. QED  BY <2>3, <2>4, <2>5
  <1>2. CASE Lag(r) \/ Answered(r) \/ Subscribe(r) \/ ClientMessage(r)
             \/ Disconnect(r) \/ (r = Worker /\ WorkerPanics)
    <2>. USE <1>2 DEF Lag, Answered, Subscribe, ClientMessage, Disconnect, WorkerPanics
    <2>1. /\ UNCHANGED <<now, log, plugin_rx, task, stream, acked, seen>>
          /\ \/ rx' = rx
             \/ rx' = [rx EXCEPT ![r] = Oldest]
             \/ rx' = [rx EXCEPT ![r] = Len(stream) + 1]
             \/ rx' = [rx EXCEPT ![r] = Closed]
             \/ rx' = [rx EXCEPT ![r] = Ended]
      BY DEF History
    <2>2. /\ Oldest \in Index /\ Len(stream) + 1 \in Index
          /\ Closed \in Index /\ Ended \in Index
      BY OldestType DEF TypeInv, Closed, Index
    <2>3. rx' \in [Receivers -> Index]
      BY <2>1, <2>2 DEF TypeInv
    <2>4. TypeInv'
      BY <2>1, <2>3 DEF TypeInv
    <2>. QED  BY <2>1, <2>4, QuietStep
  <1>. QED  BY <1>1, <1>2 DEF Listen

\* Pruning drops only what is no longer kept.
LEMMA PruneInv == ASSUME IInv, PruneBefore PROVE IInv'
  <1>. USE DEF IInv, PruneBefore, Channel, History
  <1>1. TypeInv'
    BY DEF TypeInv
  <1>2. StreamLogged' /\ SendLogged' /\ SeenIsLogged'
    BY DEF StreamLogged, SendLogged, SeenIsLogged, Logged, Kept
  <1>. QED  BY <1>1, <1>2

\* A crash leaves the log and what was seen, and empties the rest.
LEMMA CrashInv == ASSUME IInv, Crash PROVE IInv'
  <1>. USE DEF IInv, Crash
  <1>1. TypeInv'
    BY DEF TypeInv, TaskState, Closed, Index
  <1>2. StreamLogged' /\ SendLogged'
    BY DEF StreamLogged, SendLogged
  <1>3. SeenIsLogged'
    BY DEF SeenIsLogged, Kept
  <1>. QED  BY <1>1, <1>2, <1>3

\* Time passes: fewer events are kept.
LEMMA TickInv == ASSUME IInv, Tick PROVE IInv'
  <1>. USE DEF IInv, Tick, Channel, History
  <1>1. TypeInv'
    BY DEF TypeInv
  <1>2. \A e \in Event : Kept(e)' => Kept(e)
    BY EventTime, EventBusAssumption DEF TypeInv, Kept
  <1>3. StreamLogged'
    BY <1>2 DEF TypeInv, StreamLogged, Logged
  <1>4. SendLogged'
    BY <1>2, TaskEvent DEF SendLogged, Logged
  <1>5. SeenIsLogged'
    BY <1>2 DEF TypeInv, SeenIsLogged
  <1>. QED  BY <1>1, <1>3, <1>4, <1>5

\* Every step keeps the invariant.
LEMMA NextInv == IInv /\ [Next]_vars => IInv'
  <1>. SUFFICES ASSUME IInv, [Next]_vars PROVE IInv'
    OBVIOUS
  <1>1. CASE UNCHANGED vars
    <2>1. TypeInv'
      BY <1>1 DEF IInv, TypeInv, vars
    <2>. QED  BY <1>1, <2>1, QuietStep DEF IInv, vars
  <1>. QED
    BY <1>1, PublishInv, BridgeInv, ReceiveInv, PruneInv, CrashInv, TickInv, Parties
       DEF Next

\* "Persist first (durability guarantee)" (bus/src/lib.rs:66): whatever a
\* receiver was given and whatever publish() has acknowledged is in the log
\* until the retention task may drop it, whoever crashes, lags or fails.
THEOREM DurableDelivery == Spec => []SeenIsLogged
  <1>1. IInv => SeenIsLogged
    BY DEF IInv
  <1>. QED  BY <1>1, InitInv, NextInv, PTL DEF Spec

-----------------------------------------------------------------------------
(* Where the id of an event may be.                                        *)

IdOf(p)    == task[p].event.id
EmittedIds == {emitted[i].id : i \in DOMAIN emitted}
OutIds     == {stream[a].id : a \in DOMAIN stream}
                \cup {handled[k].id : k \in DOMAIN handled}

\* How many events the bridge has taken from the queue, or a crash.
Taken == Len(emitted) - Len(plugin_rx)

\* The types and bounds that TypeInv leaves out.
BoundInv == /\ now \in 0..MaxTime /\ crashes \in 0..MaxCrashes
            /\ used \subseteq EventIds /\ IsFiniteSet(used)
            /\ Cardinality(used) <= MaxEvents
            /\ busy \subseteq Receivers /\ \A r \in busy : Open(r)
            /\ emitted \in Seq(Event) /\ handled \in Seq(Event)
            /\ lost \subseteq Event
            /\ \A r \in Receivers : rx[r] <= Len(stream) + 1

\* Ids are handed out once; an event is in one place of its way at a time.
UsedInv   == /\ EmittedIds \cup OutIds \subseteq used
             /\ \A p \in Tasks : task[p] # Idle => IdOf(p) \in used
StepInv   == \A p \in Tasks : task[p] # Idle => (task[p].step = "created" <=> p \in Adapters)
TasksInv  == \A p, q \in Tasks :
                task[p] # Idle /\ task[q] # Idle /\ IdOf(p) = IdOf(q) => p = q
EmitInv   == \A i, j \in DOMAIN emitted : emitted[i].id = emitted[j].id => i = j
QueueInv  == /\ Taken >= 0
             /\ \A i \in DOMAIN plugin_rx : plugin_rx[i] = emitted[Taken + i]
             /\ task[Bridge] # Idle => Taken >= 1 /\ task[Bridge].event = emitted[Taken]
FreshInv  == \A p \in Tasks \ {Bridge} :
                task[p] # Idle => IdOf(p) \notin EmittedIds \cup OutIds

\* What is out has been taken before what the bridge has in hand.
OutInv    == \A x \in OutIds, i \in DOMAIN emitted :
                emitted[i].id = x => i <= Taken /\ (task[Bridge] # Idle => i < Taken)

PlaceInv == UsedInv /\ StepInv /\ TasksInv /\ EmitInv /\ QueueInv /\ FreshInv /\ OutInv

\* Another event, and not one emitted earlier.
Before(x, y) == /\ x # y
                /\ \A i, j \in DOMAIN emitted :
                      emitted[i].id = x /\ emitted[j].id = y => i < j

\* The channel holds the events in order, and so does what was handled, before
\* what the worker has still to receive: all of it before it subscribes, and
\* nothing after it has panicked.
Ahead(a) == rx[Worker] # Ended /\ a >= rx[Worker]
OrderInv == /\ \A a, b \in DOMAIN stream : a < b => Before(stream[a].id, stream[b].id)
            /\ \A k, l \in DOMAIN handled : k < l => Before(handled[k].id, handled[l].id)
            /\ \A k \in DOMAIN handled, a \in DOMAIN stream :
                  Ahead(a) => Before(handled[k].id, stream[a].id)

Way == IInv /\ BoundInv /\ PlaceInv /\ OrderInv

-----------------------------------------------------------------------------
LEMMA InitWay == Init => Way
  <1>. SUFFICES ASSUME Init PROVE Way
    OBVIOUS
  <1>1. BoundInv
    BY FS_EmptySet, EventBusAssumption DEF Init, BoundInv, Closed
  <1>2. EmittedIds = {} /\ OutIds = {} /\ Taken = 0
    BY DEF Init, EmittedIds, OutIds, Taken
  <1>3. PlaceInv
    BY <1>2 DEF Init, PlaceInv, UsedInv, StepInv, TasksInv, EmitInv, QueueInv, FreshInv,
                OutInv, Tasks
  <1>4. OrderInv
    BY DEF Init, OrderInv, Receivers
  <1>. QED  BY <1>1, <1>3, <1>4, InitInv DEF Way

\* The order does not change while nothing moves and the worker goes on.
LEMMA OrderStable ==
    ASSUME TypeInv, OrderInv, UNCHANGED <<emitted, stream, handled>>,
           rx'[Worker] \in Index,
           \/ rx'[Worker] = Ended
           \/ rx[Worker] # Ended /\ rx'[Worker] >= rx[Worker]
    PROVE  OrderInv'
  <1>1. \A x, y : Before(x, y) => Before(x, y)'
    BY DEF Before
  <1>2. ASSUME NEW a \in DOMAIN stream, Ahead(a)'
        PROVE  Ahead(a)
    <2>1. /\ a \in Nat /\ rx'[Worker] # Ended /\ rx'[Worker] \in Nat /\ a >= rx'[Worker]
          /\ rx[Worker] # Ended /\ rx'[Worker] >= rx[Worker] /\ rx[Worker] \in Index
      BY <1>2, Parties DEF TypeInv, Ahead, Index
    <2>. QED  BY <2>1 DEF Ahead, Index, Ended
  <1>. QED  BY <1>1, <1>2 DEF OrderInv

\* The places do not change while no task and no queue does.
LEMMA PlaceStable ==
    ASSUME PlaceInv, UNCHANGED <<used, task, emitted, plugin_rx>>, OutIds' \subseteq OutIds
    PROVE  PlaceInv'
  <1>1. EmittedIds' = EmittedIds /\ Taken' = Taken
    BY DEF EmittedIds, Taken
  <1>2. \A p \in Tasks : IdOf(p)' = IdOf(p)
    BY DEF IdOf
  <1>3. UsedInv' /\ StepInv' /\ TasksInv' /\ EmitInv'
    BY <1>1, <1>2 DEF PlaceInv, UsedInv, StepInv, TasksInv, EmitInv
  <1>4. QueueInv' /\ FreshInv' /\ OutInv'
    BY <1>1, <1>2 DEF PlaceInv, QueueInv, FreshInv, OutInv
  <1>. QED  BY <1>3, <1>4 DEF PlaceInv

\* A task that is idle afterwards does no harm, whichever it is.
LEMMA TaskDone ==
    ASSUME Way, NEW p \in Tasks, task' = [task EXCEPT ![p] = Idle],
           UNCHANGED <<used, emitted, plugin_rx, stream, handled>>
    PROVE  PlaceInv'
  <1>1. EmittedIds' = EmittedIds /\ OutIds' = OutIds /\ Taken' = Taken
    BY DEF EmittedIds, OutIds, Taken
  <1>2. \A q \in Tasks : task'[q] # Idle => q # p /\ task[q] # Idle /\ task'[q] = task[q]
                                              /\ IdOf(q)' = IdOf(q)
    BY DEF Way, IInv, TypeInv, IdOf
  <1>3. UsedInv' /\ StepInv' /\ TasksInv' /\ EmitInv'
    BY <1>1, <1>2 DEF Way, PlaceInv, UsedInv, StepInv, TasksInv, EmitInv
  <1>4. QueueInv' /\ FreshInv' /\ OutInv'
    BY <1>1, <1>2, Parties DEF Way, PlaceInv, QueueInv, FreshInv, OutInv
  <1>. QED  BY <1>3, <1>4 DEF PlaceInv

-----------------------------------------------------------------------------
\* What a step leaves of the invariant to show when nothing is put on the
\* channel, emitted or processed and the worker's place is the same.
LEMMA OrderSame ==
    ASSUME Way, UNCHANGED <<emitted, stream, handled, rx>>
    PROVE  OrderInv'
  <1>1. rx[Worker] \in Index /\ (rx[Worker] = Ended \/ rx[Worker] >= rx[Worker])
    BY Parties DEF Way, IInv, TypeInv, Index, Ended
  <1>. QED  BY <1>1, OrderStable DEF Way, IInv

\* An event is created with an id that nothing had before.
LEMMA CreateWay ==
    ASSUME Way, NEW p \in Tasks, Create(p)
    PROVE  (BoundInv /\ PlaceInv /\ OrderInv)'
  <1>1. PICK id \in EventIds \ used, inbound \in BOOLEAN :
           /\ used' = used \cup {id}
           /\ task' = [task EXCEPT ![p] =
                         At(IF p \in Adapters THEN "created" ELSE "append",
                            [id |-> id, inbound |-> inbound])]
    BY DEF Create
  <1>2. /\ p # Bridge /\ Cardinality(used) < MaxEvents
        /\ UNCHANGED <<now, log, plugin_rx, stream, rx, busy, crashes,
                       emitted, acked, seen, handled, lost>>
    BY DEF Create, Channel, History
  <1>3. IsFiniteSet(used') /\ Cardinality(used') = Cardinality(used) + 1
        /\ Cardinality(used) \in Nat
    BY <1>1, FS_AddElement, FS_CardinalityType DEF Way, BoundInv
  <1>4. BoundInv'
    BY <1>1, <1>2, <1>3, EventBusAssumption DEF Way, BoundInv, Open
  <1>5. EmittedIds' = EmittedIds /\ OutIds' = OutIds /\ Taken' = Taken
    BY <1>2 DEF EmittedIds, OutIds, Taken
  <1>6. IdOf(p)' = id /\ (task'[p].step = "created" <=> p \in Adapters)
    BY <1>1 DEF Way, IInv, TypeInv, IdOf, At
  <1>7. \A q \in Tasks \ {p} : task'[q] = task[q] /\ IdOf(q)' = IdOf(q)
    BY <1>1 DEF Way, IInv, TypeInv, IdOf
  <1>8. UsedInv' /\ StepInv'
    BY <1>1, <1>5, <1>6, <1>7 DEF Way, PlaceInv, UsedInv, StepInv
  <1>9. TasksInv'
    BY <1>1, <1>6, <1>7 DEF Way, PlaceInv, UsedInv, TasksInv
  <1>10. EmitInv' /\ QueueInv' /\ OutInv'
    BY <1>2, <1>5, <1>7, Parties DEF Way, PlaceInv, EmitInv, QueueInv, OutInv
  <1>11. FreshInv'
    BY <1>1, <1>5, <1>6, <1>7 DEF Way, PlaceInv, UsedInv, FreshInv
  <1>12. OrderInv'
    BY <1>2, OrderSame
  <1>. QED  BY <1>4, <1>8, <1>9, <1>10, <1>11, <1>12 DEF PlaceInv

\* An adapter's event joins the end of the queue.
LEMMA EmitWay ==
    ASSUME Way, NEW p \in Tasks, Emit(p)
    PROVE  (BoundInv /\ PlaceInv /\ OrderInv)'
  <1>. DEFINE e == task[p].event
  <1>1. p \in Adapters /\ p # Bridge /\ e \in Event /\ task[p] # Idle
    BY TaskEvent, Parties DEF Emit, Way, IInv, PlaceInv, StepInv
  <1>2. /\ emitted' = Append(emitted, e)
        /\ plugin_rx' = Append(plugin_rx, e)
        /\ task' = [task EXCEPT ![p] = Idle]
        /\ UNCHANGED <<now, log, used, stream, rx, busy, crashes, acked, seen, handled, lost>>
    BY DEF Emit, Channel
  <1>3. BoundInv'
    BY <1>1, <1>2 DEF Way, BoundInv, Open
  <1>4. emitted \in Seq(Event) /\ plugin_rx \in Seq(Event) /\ Taken \in Int
    BY DEF Way, IInv, TypeInv, BoundInv, Taken
  <1>5. /\ Len(emitted') = Len(emitted) + 1 /\ Len(plugin_rx') = Len(plugin_rx) + 1
        /\ DOMAIN emitted' = DOMAIN emitted \cup {Len(emitted) + 1}
        /\ DOMAIN plugin_rx' = DOMAIN plugin_rx \cup {Len(plugin_rx) + 1}
        /\ emitted'[Len(emitted) + 1] = e /\ plugin_rx'[Len(plugin_rx) + 1] = e
        /\ \A i \in DOMAIN emitted : emitted'[i] = emitted[i] /\ i # Len(emitted) + 1
    BY <1>2, <1>4, <1>1
  <1>6. EmittedIds' = EmittedIds \cup {IdOf(p)} /\ OutIds' = OutIds /\ Taken' = Taken
    <2>1. EmittedIds' = EmittedIds \cup {IdOf(p)}
      BY <1>5 DEF EmittedIds, IdOf
    <2>2. OutIds' = OutIds
      BY <1>2 DEF OutIds
    <2>3. Taken' = Taken
      BY <1>4, <1>5 DEF Taken
    <2>. QED  BY <2>1, <2>2, <2>3
  <1>7. \A q \in Tasks : task'[q] # Idle => q # p /\ task[q] # Idle /\ task'[q] = task[q]
                                              /\ IdOf(q)' = IdOf(q)
    BY <1>2 DEF Way, IInv, TypeInv, IdOf
  <1>8. IdOf(p) \in used /\ IdOf(p) \notin EmittedIds \cup OutIds
    BY <1>1 DEF Way, PlaceInv, UsedInv, FreshInv
  <1>9. UsedInv' /\ StepInv' /\ TasksInv'
    BY <1>2, <1>6, <1>7, <1>8 DEF Way, PlaceInv, UsedInv, StepInv, TasksInv
  <1>10. EmitInv'
    BY <1>5, <1>8 DEF Way, PlaceInv, EmitInv, EmittedIds, IdOf
  <1>11. QueueInv'
    <2>1. task'[Bridge] = task[Bridge]
      BY <1>1, <1>2, Parties DEF Way, IInv, TypeInv
    <2>2. Taken >= 0 /\ Taken <= Len(emitted) /\ Taken + Len(plugin_rx) = Len(emitted)
      BY <1>4 DEF Way, PlaceInv, QueueInv, Taken
    <2>3. \A i \in DOMAIN plugin_rx' : plugin_rx'[i] = emitted'[Taken + i]
      <3>. TAKE i \in DOMAIN plugin_rx'
      <3>1. CASE i \in DOMAIN plugin_rx
        <4>1. plugin_rx'[i] = plugin_rx[i] /\ Taken + i \in DOMAIN emitted
          BY <3>1, <1>2, <1>4, <2>2
        <4>. QED  BY <4>1, <3>1, <1>5 DEF Way, PlaceInv, QueueInv
      <3>2. CASE i = Len(plugin_rx) + 1
        <4>1. Taken + i = Len(emitted) + 1
          BY <3>2, <1>4, <2>2
        <4>. QED  BY <4>1, <3>2, <1>5
      <3>. QED  BY <3>1, <3>2, <1>5
    <2>4. task[Bridge] # Idle => Taken \in DOMAIN emitted
      BY <1>4, <2>2 DEF Way, PlaceInv, QueueInv
    <2>. QED  BY <1>5, <1>6, <2>1, <2>2, <2>3, <2>4 DEF Way, PlaceInv, QueueInv
  <1>12. FreshInv'
    BY <1>1, <1>6, <1>7 DEF Way, PlaceInv, FreshInv, TasksInv
  <1>13. OutInv'
    BY <1>5, <1>6, <1>7, <1>8, Parties DEF Way, PlaceInv, OutInv, IdOf
  <1>14. \A x \in OutIds, y \in OutIds : Before(x, y) => Before(x, y)'
    BY <1>5, <1>8 DEF Before, IdOf
  <1>15. OrderInv'
    BY <1>2, <1>14 DEF Way, OrderInv, OutIds, Ahead
  <1>. QED  BY <1>3, <1>9, <1>10, <1>11, <1>12, <1>13, <1>15 DEF PlaceInv

\* The bridge takes the next event of the queue.
LEMMA BridgeWay ==
    ASSUME Way, BridgeTake
    PROVE  (BoundInv /\ PlaceInv /\ OrderInv)'
  <1>. DEFINE e == Head(plugin_rx)
  <1>1. /\ task[Bridge] = Idle /\ plugin_rx # <<>>
        /\ task' = [task EXCEPT ![Bridge] = At("append", e)]
        /\ plugin_rx' = Tail(plugin_rx)
        /\ UNCHANGED <<now, log, used, stream, rx, busy, crashes,
                       emitted, acked, seen, handled, lost>>
    BY DEF BridgeTake, Channel, History
  <1>2. BoundInv'
    BY <1>1 DEF Way, BoundInv, Open
  <1>3. emitted \in Seq(Event) /\ plugin_rx \in Seq(Event) /\ Taken \in Nat
    BY DEF Way, IInv, TypeInv, BoundInv, Taken, PlaceInv, QueueInv
  <1>4. /\ Len(plugin_rx') = Len(plugin_rx) - 1 /\ 1 \in DOMAIN plugin_rx
        /\ \A i \in DOMAIN plugin_rx' : i + 1 \in DOMAIN plugin_rx
                                        /\ plugin_rx'[i] = plugin_rx[i + 1]
        /\ e = plugin_rx[1]
    BY <1>1, <1>3
  <1>5. EmittedIds' = EmittedIds /\ OutIds' = OutIds /\ Taken' = Taken + 1
    <2>1. EmittedIds' = EmittedIds /\ OutIds' = OutIds
      BY <1>1 DEF EmittedIds, OutIds
    <2>2. Taken' = Taken + 1
      BY <1>1, <1>3, <1>4 DEF Taken
    <2>. QED  BY <2>1, <2>2
  <1>6. e = emitted[Taken + 1] /\ Taken + 1 \in DOMAIN emitted
    <2>1. e = emitted[Taken + 1]
      BY <1>4 DEF Way, PlaceInv, QueueInv
    <2>2. Len(plugin_rx) >= 1 /\ Taken + 1 <= Len(emitted)
      BY <1>3, <1>4 DEF Taken
    <2>. QED  BY <1>3, <2>1, <2>2
  <1>7. task'[Bridge].event = e /\ IdOf(Bridge)' = e.id /\ task'[Bridge].step = "append"
    BY <1>1, Parties DEF Way, IInv, TypeInv, At, IdOf
  <1>8. \A q \in Tasks \ {Bridge} : task'[q] = task[q] /\ IdOf(q)' = IdOf(q)
    BY <1>1 DEF Way, IInv, TypeInv, IdOf
  <1>9. e.id \in EmittedIds
    BY <1>6 DEF EmittedIds
  <1>10. UsedInv' /\ StepInv'
    BY <1>1, <1>5, <1>7, <1>8, <1>9, Parties DEF Way, PlaceInv, UsedInv, StepInv
  <1>11. TasksInv'
    BY <1>7, <1>8, <1>9 DEF Way, PlaceInv, TasksInv, FreshInv
  <1>12. EmitInv' /\ FreshInv'
    BY <1>1, <1>5, <1>8 DEF Way, PlaceInv, EmitInv, FreshInv
  <1>13. QueueInv'
    <2>1. \A i \in DOMAIN plugin_rx' : plugin_rx'[i] = emitted'[Taken' + i]
      <3>. TAKE i \in DOMAIN plugin_rx'
      <3>1. plugin_rx'[i] = emitted[Taken + (i + 1)] /\ i \in Int
        <4>1. i + 1 \in DOMAIN plugin_rx /\ plugin_rx'[i] = plugin_rx[i + 1]
          BY <1>4
        <4>2. plugin_rx[i + 1] = emitted[Taken + (i + 1)]
          BY <4>1 DEF Way, PlaceInv, QueueInv
        <4>3. i \in Int
          BY <1>1, <1>3
        <4>. QED  BY <4>1, <4>2, <4>3
      <3>2. Taken + (i + 1) = Taken' + i
        BY <3>1, <1>3, <1>5
      <3>. QED  BY <3>1, <3>2, <1>1
    <2>. QED  BY <2>1, <1>1, <1>3, <1>5, <1>6, <1>7 DEF QueueInv
  <1>14. OutInv'
    <2>. SUFFICES ASSUME NEW x \in OutIds, NEW i \in DOMAIN emitted, emitted[i].id = x
                  PROVE  i <= Taken
      BY <1>1, <1>3, <1>5 DEF OutInv
    <2>. QED  BY DEF Way, PlaceInv, OutInv
  <1>15. OrderInv'
    BY <1>1, OrderSame
  <1>. QED  BY <1>2, <1>10, <1>11, <1>12, <1>13, <1>14, <1>15 DEF PlaceInv

\* Inserting keeps the event in hand; if it fails, it is let go.
LEMMA PersistWay ==
    ASSUME Way, NEW p \in Tasks, Persist(p) \/ PersistFails(p)
    PROVE  (BoundInv /\ PlaceInv /\ OrderInv)'
  <1>. DEFINE e == task[p].event
  <1>1. UNCHANGED <<now, used, plugin_rx, stream, rx, busy, crashes, emitted, handled>>
    BY DEF Persist, PersistFails, Channel, History
  <1>2. e \in Event /\ task[p] # Idle /\ task[p].step = "append"
    BY TaskEvent DEF Persist, PersistFails, Way, IInv
  <1>3. lost' \subseteq Event
    BY <1>2 DEF Persist, PersistFails, History, Inbound, Way, BoundInv
  <1>4. BoundInv'
    BY <1>1, <1>3 DEF Way, BoundInv, Open
  <1>5. OrderInv'
    BY <1>1, OrderSame
  <1>6. PlaceInv'
    <2>1. CASE Persist(p)
      <3>1. task' = [task EXCEPT ![p] = At("send", e)]
        BY <2>1 DEF Persist
      <3>2. EmittedIds' = EmittedIds /\ OutIds' = OutIds /\ Taken' = Taken
        BY <1>1 DEF EmittedIds, OutIds, Taken
      <3>3. \A q \in Tasks : /\ task'[q] # Idle => task[q] # Idle
                             /\ task'[q].event = task[q].event
                             /\ IdOf(q)' = IdOf(q)
        BY <3>1, <1>2 DEF Way, IInv, TypeInv, IdOf, At
      <3>4. task'[p].step = "send" /\ \A q \in Tasks \ {p} : task'[q] = task[q]
        BY <3>1 DEF Way, IInv, TypeInv, At
      <3>5. StepInv'
        BY <1>2, <3>4 DEF Way, PlaceInv, StepInv
      <3>6. UsedInv' /\ TasksInv' /\ EmitInv'
        BY <1>1, <3>2, <3>3 DEF Way, PlaceInv, UsedInv, TasksInv, EmitInv
      <3>7. QueueInv' /\ FreshInv' /\ OutInv'
        BY <1>1, <3>2, <3>3, Parties DEF Way, PlaceInv, QueueInv, FreshInv, OutInv
      <3>. QED  BY <3>5, <3>6, <3>7 DEF PlaceInv
    <2>2. CASE PersistFails(p)
      BY <1>1, <2>2, TaskDone DEF PersistFails
    <2>. QED  BY <2>1, <2>2
  <1>. QED  BY <1>4, <1>5, <1>6

\* What a task has in hand to send comes after all that is out.
LEMMA InHand ==
    ASSUME Way, NEW p \in Tasks, task[p] # Idle, task[p].step # "created",
           NEW x \in OutIds
    PROVE  Before(x, IdOf(p))
  <1>. USE DEF Way, PlaceInv
  <1>1. CASE p # Bridge
    BY <1>1 DEF FreshInv, Before, EmittedIds
  <1>2. CASE p = Bridge
    <2>1. Taken \in Int /\ Taken >= 1 /\ Taken <= Len(emitted) /\ emitted \in Seq(Event)
      BY <1>2 DEF QueueInv, Taken, BoundInv, IInv, TypeInv
    <2>2. Taken \in DOMAIN emitted /\ IdOf(p) = emitted[Taken].id
      BY <1>2, <2>1 DEF QueueInv, IdOf
    <2>3. \A i \in DOMAIN emitted : emitted[i].id = x => i < Taken
      BY <1>2 DEF OutInv
    <2>4. \A j \in DOMAIN emitted : emitted[j].id = IdOf(p) => j = Taken
      BY <2>2 DEF EmitInv
    <2>. QED  BY <2>1, <2>2, <2>3, <2>4 DEF Before
  <1>. QED  BY <1>1, <1>2

\* What was in hand joins the end of the channel.
LEMMA BroadcastWay ==
    ASSUME Way, NEW p \in Tasks, Broadcast(p)
    PROVE  (BoundInv /\ PlaceInv /\ OrderInv)'
  <1>. DEFINE e == task[p].event
  <1>1. /\ e \in Event /\ task[p] # Idle /\ task[p].step = "send"
        /\ stream' = Append(stream, e)
        /\ task' = [task EXCEPT ![p] = Idle]
        /\ UNCHANGED <<now, used, plugin_rx, rx, busy, crashes, emitted, seen, handled>>
        /\ lost' = lost \/ lost' = lost \cup Inbound({e})
    BY TaskEvent DEF Broadcast, Way, IInv
  <1>2. /\ Len(stream') = Len(stream) + 1 /\ Len(stream) \in Nat
        /\ DOMAIN stream' = DOMAIN stream \cup {Len(stream) + 1}
        /\ stream'[Len(stream) + 1] = e
        /\ \A a \in DOMAIN stream : stream'[a] = stream[a] /\ a \in Int /\ a < Len(stream) + 1
    BY <1>1 DEF Way, IInv, TypeInv
  <1>3. BoundInv'
    <2>1. \A r \in Receivers : rx'[r] <= Len(stream') + 1
      <3>. TAKE r \in Receivers
      <3>1. rx[r] \in Int /\ rx[r] <= Len(stream) + 1
        BY DEF Way, BoundInv, IInv, TypeInv, Index, Ended
      <3>. QED  BY <3>1, <1>1, <1>2
    <2>2. lost' \subseteq Event
      BY <1>1 DEF Way, BoundInv, Inbound
    <2>. QED  BY <1>1, <2>1, <2>2 DEF Way, BoundInv, Open
  <1>4. EmittedIds' = EmittedIds /\ Taken' = Taken
    BY <1>1 DEF EmittedIds, Taken
  <1>5. OutIds' = OutIds \cup {IdOf(p)}
    BY <1>1, <1>2 DEF OutIds, IdOf
  <1>6. \A q \in Tasks : task'[q] # Idle => q # p /\ task[q] # Idle /\ task'[q] = task[q]
                                              /\ IdOf(q)' = IdOf(q)
    BY <1>1 DEF Way, IInv, TypeInv, IdOf
  <1>7. UsedInv' /\ StepInv' /\ TasksInv' /\ EmitInv' /\ QueueInv'
    BY <1>1, <1>4, <1>5, <1>6, Parties
       DEF Way, PlaceInv, UsedInv, StepInv, TasksInv, EmitInv, QueueInv
  <1>8. FreshInv'
    BY <1>1, <1>4, <1>5, <1>6 DEF Way, PlaceInv, FreshInv, TasksInv
  <1>9. OutInv'
    <2>. SUFFICES ASSUME NEW x \in OutIds', NEW i \in DOMAIN emitted, emitted[i].id = x
                  PROVE  i <= Taken /\ (task'[Bridge] # Idle => i < Taken)
      BY <1>1, <1>4 DEF OutInv
    <2>1. CASE x \in OutIds
      BY <2>1, <1>6, Parties DEF Way, PlaceInv, OutInv
    <2>2. CASE x = IdOf(p)
      <3>1. p = Bridge
        BY <2>2, <1>1 DEF Way, PlaceInv, FreshInv, EmittedIds
      <3>2. task'[Bridge] = Idle
        BY <3>1, <1>6, Parties
      <3>3. Taken \in DOMAIN emitted /\ IdOf(p) = emitted[Taken].id
        <4>1. Taken \in Int /\ Taken >= 1 /\ Taken <= Len(emitted) /\ emitted \in Seq(Event)
          BY <3>1, <1>1 DEF Way, PlaceInv, QueueInv, Taken, BoundInv, IInv, TypeInv
        <4>. QED  BY <4>1, <3>1, <1>1 DEF Way, PlaceInv, QueueInv, IdOf
      <3>4. i = Taken
        BY <2>2, <3>3 DEF Way, PlaceInv, EmitInv
      <3>5. i \in Int
        BY DEF Way, BoundInv
      <3>. QED  BY <3>2, <3>4, <3>5
    <2>. QED  BY <2>1, <2>2, <1>5
  <1>10. \A x, y : Before(x, y)' <=> Before(x, y)
    BY <1>1 DEF Before
  <1>11. \A x \in OutIds : Before(x, e.id)
    BY <1>1, InHand DEF IdOf
  <1>12. OrderInv'
    BY <1>1, <1>2, <1>10, <1>11 DEF Way, OrderInv, OutIds, Ahead
  <1>. QED  BY <1>3, <1>7, <1>8, <1>9, <1>12 DEF PlaceInv

\* The worker takes the next event it has not had; the others change no order.
LEMMA ReceiveWay ==
    ASSUME Way, NEW r \in Receivers, Receive(r)
    PROVE  (BoundInv /\ PlaceInv /\ OrderInv)'
  <1>. DEFINE e == stream[rx[r]]
  <1>1. /\ rx[r] \in DOMAIN stream /\ e \in Event
        /\ rx[r] \in Nat /\ rx[r] # Ended /\ rx[r] <= Len(stream)
    <2>1. rx[r] \in Nat /\ rx[r] >= 1 /\ rx[r] <= Len(stream)
      BY DEF Receive, Way, IInv, TypeInv, Index, Ended, Open
    <2>. QED  BY <2>1 DEF Way, IInv, TypeInv, Ended
  <1>2. /\ rx' = [rx EXCEPT ![r] = @ + 1]
        /\ IF r = Worker /\ e.inbound
           THEN busy' = busy \cup {r} /\ handled' = Append(handled, e)
           ELSE UNCHANGED <<busy, handled>>
        /\ UNCHANGED <<now, log, used, plugin_rx, task, stream, crashes, emitted, lost>>
    BY DEF Receive
  <1>3. rx' \in [Receivers -> Index] /\ \A q \in Receivers : rx'[q] <= Len(stream) + 1
    <2>1. rx \in [Receivers -> Index] /\ Len(stream) \in Nat
      BY DEF Way, IInv, TypeInv
    <2>2. \A q \in Receivers : rx[q] <= Len(stream) + 1
      BY DEF Way, BoundInv
    <2>3. \A q \in Receivers : rx'[q] = IF q = r THEN rx[r] + 1 ELSE rx[q]
      BY <1>2, <2>1
    <2>4. rx' \in [Receivers -> Index]
      BY <1>1, <1>2, <2>1 DEF Index
    <2>. QED  BY <1>1, <2>1, <2>2, <2>3, <2>4
  <1>4. BoundInv'
    <2>1. busy' \subseteq Receivers
      BY <1>2 DEF Way, BoundInv
    <2>2. handled' \in Seq(Event)
      <3>1. handled' = handled \/ handled' = Append(handled, e)
        BY <1>2, Zenon
      <3>2. handled \in Seq(Event)
        BY DEF Way, BoundInv
      <3>. HIDE DEF e
      <3>. QED  BY <1>1, <3>1, <3>2
    <2>3. UNCHANGED <<now, used, stream, crashes, emitted, lost>>
      BY <1>2
    <2>4. ASSUME NEW q \in busy' PROVE Open(q)'
      <3>1. q \in Receivers /\ (q # r => q \in busy /\ rx[q] > 0)
        BY <1>2, <2>1 DEF Way, BoundInv, Open
      <3>2. rx'[q] = IF q = r THEN rx[r] + 1 ELSE rx[q]
        BY <1>2, <3>1 DEF Way, IInv, TypeInv
      <3>. QED  BY <1>1, <3>1, <3>2 DEF Open
    <2>. QED  BY <1>3, <2>1, <2>2, <2>3, <2>4 DEF Way, BoundInv
  <1>5. CASE r = Worker /\ e.inbound
    <2>1. /\ handled \in Seq(Event) /\ handled' = Append(handled, e)
          /\ DOMAIN handled' = DOMAIN handled \cup {Len(handled) + 1}
          /\ handled'[Len(handled) + 1] = e
          /\ \A k \in DOMAIN handled : handled'[k] = handled[k] /\ k \in Int
                                       /\ k < Len(handled) + 1
      BY <1>1, <1>2, <1>5 DEF Way, BoundInv
    <2>2. OutIds' \subseteq OutIds
      BY <1>1, <1>2, <2>1 DEF OutIds
    <2>3. PlaceInv'
      BY <1>2, <2>2, PlaceStable DEF Way
    <2>4. \A x, y : Before(x, y)' <=> Before(x, y)
      BY <1>2 DEF Before
    <2>5. rx'[Worker] = rx[Worker] + 1
      BY <1>2, <1>5 DEF Way, IInv, TypeInv
    <2>6. \A k \in DOMAIN handled : Before(handled[k].id, e.id)
      BY <1>1, <1>5 DEF Way, OrderInv, Ahead
    <2>7. \A a \in DOMAIN stream : /\ a \in Int
                                   /\ a >= rx[Worker] + 1 => a > rx[Worker] /\ Ahead(a)
      BY <1>1, <1>5 DEF Way, IInv, TypeInv, Ahead
    <2>8. \A a \in DOMAIN stream : a >= rx[Worker] + 1 => Before(e.id, stream[a].id)
      BY <1>1, <1>5, <2>7 DEF Way, OrderInv
    <2>9. \A k, l \in DOMAIN handled' : k < l => Before(handled'[k].id, handled'[l].id)
      BY <2>1, <2>6 DEF Way, OrderInv
    <2>10. \A k \in DOMAIN handled', a \in DOMAIN stream :
              a >= rx[Worker] + 1 => Before(handled'[k].id, stream[a].id)
      BY <2>1, <2>7, <2>8 DEF Way, OrderInv
    <2>11. OrderInv'
      BY <1>2, <2>4, <2>5, <2>9, <2>10 DEF Way, OrderInv, Ahead
    <2>. QED  BY <1>4, <2>3, <2>11
  <1>6. CASE ~(r = Worker /\ e.inbound)
    <2>1. handled' = handled
      BY <1>2, <1>6
    <2>2. PlaceInv'
      BY <1>2, <2>1, PlaceStable DEF Way, OutIds
    <2>3. /\ rx'[Worker] \in Index
          /\ rx'[Worker] = Ended \/ (rx[Worker] # Ended /\ rx'[Worker] >= rx[Worker])
      <3>1. rx[Worker] \in Index /\ rx'[Worker] \in Index
        BY <1>3, Parties DEF Way, IInv, TypeInv
      <3>2. rx'[Worker] = rx[Worker] \/ (r = Worker /\ rx'[Worker] = rx[r] + 1)
        BY <1>2, Parties DEF Way, IInv, TypeInv
      <3>. QED  BY <1>1, <3>1, <3>2 DEF Index, Ended
    <2>4. OrderInv'
      BY <1>2, <2>1, <2>3, OrderStable DEF Way, IInv
    <2>. QED  BY <1>4, <2>2, <2>4
  <1>. QED  BY <1>5, <1>6

\* A receiver that lags, comes, goes or turns to its client.
LEMMA ListenWay ==
    ASSUME Way, NEW r \in Receivers,
           Lag(r) \/ Answered(r) \/ Subscribe(r) \/ ClientMessage(r) \/ Disconnect(r)
             \/ (r = Worker /\ WorkerPanics)
    PROVE  (BoundInv /\ PlaceInv /\ OrderInv)'
  <1>. USE DEF Lag, Answered, Subscribe, ClientMessage, Disconnect, WorkerPanics
  <1>1. /\ UNCHANGED <<now, used, plugin_rx, task, stream, emitted, handled, crashes>>
        /\ busy' \subseteq busy \cup {r}
    BY DEF History
  <1>2. Oldest \in Nat /\ Oldest <= Len(stream) + 1 /\ Len(stream) \in Nat
    BY EventBusAssumption, OldestType DEF Way, IInv, TypeInv, Oldest
  <1>3. \/ rx' = rx
        \/ rx' = [rx EXCEPT ![r] = Oldest] /\ rx[r] < Oldest /\ rx[r] > 0
        \/ rx' = [rx EXCEPT ![r] = Len(stream) + 1] /\ rx[r] = 0
        \/ rx' = [rx EXCEPT ![r] = 0] /\ r \in Sockets
        \/ rx' = [rx EXCEPT ![r] = Ended]
    BY DEF Closed, Open
  <1>4. rx' \in [Receivers -> Index] /\ \A q \in Receivers : rx'[q] <= Len(stream) + 1
    <2>1. rx \in [Receivers -> Index]
      BY DEF Way, IInv, TypeInv
    <2>2. \A q \in Receivers : rx[q] <= Len(stream) + 1
      BY DEF Way, BoundInv
    <2>3. PICK n \in Index : n <= Len(stream) + 1 /\ (rx' = rx \/ rx' = [rx EXCEPT ![r] = n])
      BY <1>2, <1>3 DEF Index, Ended
    <2>4. rx' \in [Receivers -> Index]
      BY <2>1, <2>3
    <2>5. \A q \in Receivers : rx'[q] = rx[q] \/ rx'[q] = n
      BY <2>1, <2>3
    <2>. QED  BY <2>2, <2>3, <2>4, <2>5
  <1>5. lost' \subseteq Event
    <2>1. CASE lost' = lost
      BY <2>1 DEF Way, BoundInv
    <2>2. CASE Lag(r) /\ r = Worker
      <3>1. rx[r] >= 1 /\ rx[r] \in Nat /\ Oldest - 1 <= Len(stream)
        BY <2>2, <1>2, EventBusAssumption DEF Way, IInv, TypeInv, Index, Ended, Open
      <3>2. \A i \in rx[r]..(Oldest - 1) : stream[i] \in Event
        BY <1>2, <3>1 DEF Way, IInv, TypeInv
      <3>. QED  BY <2>2, <3>2 DEF Inbound, Way, BoundInv
    <2>3. CASE r = Worker /\ WorkerPanics
      <3>0. rx[Worker] > 0
        BY <2>3 DEF Way, BoundInv, Open
      <3>1. \A i \in rx[Worker]..Len(stream) : stream[i] \in Event
        BY <2>3, <1>2, <3>0, Parties DEF Way, IInv, TypeInv, Index, Ended
      <3>. QED  BY <2>3, <3>1 DEF Inbound, Way, BoundInv
    <2>. QED  BY <2>1, <2>2, <2>3 DEF History
  <1>6. BoundInv'
    <2>1. ASSUME NEW q \in busy' PROVE Open(q)'
      <3>1. q \in Receivers /\ (q \in busy => rx[q] > 0)
        BY <1>1 DEF Way, BoundInv, Open
      <3>2. CASE q = r
        BY <2>1, <3>1, <3>2 DEF Way, BoundInv, IInv, TypeInv, Open, History
      <3>3. CASE q # r
        BY <1>1, <1>3, <2>1, <3>1, <3>3 DEF Way, IInv, TypeInv, Open
      <3>. QED  BY <3>2, <3>3
    <2>. QED  BY <1>1, <1>4, <1>5, <2>1 DEF Way, BoundInv
  <1>7. PlaceInv'
    BY <1>1, PlaceStable DEF Way, OutIds
  <1>8. /\ rx'[Worker] \in Index
        /\ rx'[Worker] = Ended \/ (rx[Worker] # Ended /\ rx'[Worker] >= rx[Worker])
    <2>1. Worker \notin Sockets /\ rx[Worker] \in Index /\ rx'[Worker] \in Index
      BY <1>4, Parties, EventBusAssumption DEF Way, IInv, TypeInv
    <2>. QED  BY <1>2, <1>3, <2>1, Parties DEF Way, IInv, TypeInv, Index, Ended
  <1>9. OrderInv'
    BY <1>1, <1>8, OrderStable DEF Way, IInv
  <1>. QED  BY <1>6, <1>7, <1>9

\* After a crash nothing waits anywhere.
LEMMA CrashWay ==
    ASSUME Way, Crash
    PROVE  (BoundInv /\ PlaceInv /\ OrderInv)'
  <1>. USE DEF Crash
  <1>1. emitted \in Seq(Event) /\ acked \subseteq Event
    BY DEF Way, BoundInv, IInv, TypeInv
  <1>2. lost' \subseteq Event
    BY <1>1 DEF Accepted, Inbound, Range, Way, BoundInv
  <1>3. BoundInv'
    BY <1>2, EventBusAssumption DEF Way, BoundInv, Closed
  <1>4. EmittedIds' = EmittedIds /\ OutIds' \subseteq OutIds /\ Taken' = Len(emitted)
    <2>1. EmittedIds' = EmittedIds /\ OutIds' \subseteq OutIds
      BY DEF EmittedIds, OutIds
    <2>2. Taken' = Len(emitted)
      BY <1>1 DEF Taken
    <2>. QED  BY <2>1, <2>2
  <1>5. \A q \in Tasks : task'[q] = Idle
    OBVIOUS
  <1>6. UsedInv' /\ StepInv' /\ TasksInv' /\ EmitInv' /\ FreshInv'
    BY <1>4, <1>5 DEF Way, PlaceInv, UsedInv, StepInv, TasksInv, EmitInv, FreshInv
  <1>7. QueueInv' /\ OutInv'
    BY <1>1, <1>4, <1>5, Parties DEF QueueInv, OutInv
  <1>8. OrderInv'
    BY Parties DEF Way, OrderInv, Before, Ahead
  <1>. QED  BY <1>3, <1>6, <1>7, <1>8 DEF PlaceInv

\* Pruning and the clock touch none of it.
LEMMA QuietWay ==
    ASSUME Way, PruneBefore \/ Tick \/ UNCHANGED vars
    PROVE  (BoundInv /\ PlaceInv /\ OrderInv)'
  <1>1. /\ UNCHANGED <<used, plugin_rx, task, stream, rx, busy, emitted, handled, crashes, lost>>
        /\ now' = now \/ (now < MaxTime /\ now' = now + 1)
    BY DEF PruneBefore, Tick, Channel, History, vars
  <1>2. BoundInv'
    BY <1>1, EventBusAssumption DEF Way, BoundInv, Open
  <1>3. PlaceInv'
    BY <1>1, PlaceStable DEF Way, OutIds
  <1>. QED  BY <1>1, <1>2, <1>3, OrderSame

\* Every step keeps the invariant.
LEMMA NextWay == Way /\ [Next]_vars => Way'
  <1>. SUFFICES ASSUME Way, [Next]_vars PROVE Way'
    OBVIOUS
  <1>1. IInv'
    BY NextInv DEF Way
  <1>2. (BoundInv /\ PlaceInv /\ OrderInv)'
    BY CreateWay, EmitWay, BridgeWay, PersistWay, BroadcastWay, ReceiveWay, ListenWay,
       CrashWay, QuietWay, Parties DEF Next, Publish, Listen
  <1>. QED  BY <1>1, <1>2 DEF Way

-----------------------------------------------------------------------------
\* The events on the channel are different ones, so there are no more of them
\* than were created.
LEMMA StreamBound == ASSUME Way PROVE Len(stream) <= MaxEvents
  <1>. DEFINE id == [a \in 1..Len(stream) |-> stream[a].id]
  <1>1. stream \in Seq(Event) /\ Len(stream) \in Nat /\ DOMAIN stream = 1..Len(stream)
    BY DEF Way, IInv, TypeInv
  <1>2. id \in [1..Len(stream) -> used]
    BY <1>1 DEF Way, PlaceInv, UsedInv, OutIds
  <1>3. \A a, b \in 1..Len(stream) : a < b => id[a] # id[b]
    BY <1>1 DEF Way, OrderInv, Before
  <1>4. id \in Injection(1..Len(stream), used)
    <2>1. \A a, b \in 1..Len(stream) : a = b \/ a < b \/ b < a
      BY <1>1
    <2>2. \A a, b \in 1..Len(stream) : id[a] = id[b] => a = b
      BY <1>3, <2>1
    <2>3. DOMAIN id = 1..Len(stream)
      OBVIOUS
    <2>4. IsInjective(id)
      BY <2>2, <2>3 DEF IsInjective
    <2>. QED  BY <1>2, <2>4 DEF Injection
  <1>5. /\ IsFiniteSet(1..Len(stream)) /\ Cardinality(1..Len(stream)) = Len(stream)
        /\ IsFiniteSet(used) /\ Cardinality(used) \in Nat /\ Cardinality(used) <= MaxEvents
    <2>1. IsFiniteSet(1..Len(stream)) /\ Cardinality(1..Len(stream)) = Len(stream)
      <3>1. /\ IsFiniteSet(1..Len(stream))
            /\ Cardinality(1..Len(stream)) = IF 1 > Len(stream) THEN 0 ELSE Len(stream) - 1 + 1
        BY <1>1, FS_Interval
      <3>. QED  BY <1>1, <3>1
    <2>2. IsFiniteSet(used) /\ Cardinality(used) <= MaxEvents
      BY DEF Way, BoundInv
    <2>. QED  BY <2>1, <2>2, FS_CardinalityType
  <1>6. Cardinality(1..Len(stream)) <= Cardinality(used)
    BY <1>4, <1>5, FS_Injection
  <1>. QED  BY <1>1, <1>5, <1>6, EventBusAssumption

\* Every variable keeps its type, for any number of events in flight: in
\* particular no receiver's index passes the end of the channel.
THEOREM EventBusTypes == Spec => []TypeOK
  <1>1. Way => TypeOK
    <2>. SUFFICES ASSUME Way PROVE TypeOK
      OBVIOUS
    <2>1. Len(stream) <= MaxEvents /\ Len(stream) \in Nat /\ MaxEvents \in Nat
      BY StreamBound, EventBusAssumption DEF Way, IInv, TypeInv
    <2>2. rx \in [Receivers -> Ended..(MaxEvents + 1)]
      <3>1. \A r \in Receivers : rx[r] \in Index /\ rx[r] <= Len(stream) + 1
        BY DEF Way, IInv, TypeInv, BoundInv
      <3>2. \A r \in Receivers : rx[r] \in Ended..(MaxEvents + 1)
        BY <2>1, <3>1 DEF Index, Ended
      <3>. QED  BY <3>2 DEF Way, IInv, TypeInv
    <2>. QED  BY <2>2 DEF Way, IInv, TypeInv, BoundInv, TypeOK
  <1>. QED  BY <1>1, InitWay, NextWay, PTL DEF Spec

\* The worker processes no message twice, and those of the plugin queue in the
\* order in which they were emitted (main.rs forwards them one at a time), with
\* any number of tasks publishing beside the bridge, of crashes, of failed
\* inserts and of events skipped by a lagging worker.
THEOREM OnceInOrder == Spec => []HandledOnceInOrder
  <1>1. Way => HandledOnceInOrder
    <2>. SUFFICES ASSUME Way PROVE HandledOnceInOrder
      OBVIOUS
    <2>1. \A k, l \in DOMAIN handled : k = l \/ k < l \/ l < k
      BY DEF Way, BoundInv
    <2>2. \A k, l \in DOMAIN handled : k < l => handled[k] # handled[l]
      BY DEF Way, OrderInv, Before
    <2>3. IsInjective(handled)
      BY <2>1, <2>2 DEF IsInjective
    <2>4. ASSUME NEW i \in DOMAIN emitted, NEW j \in DOMAIN emitted,
                 NEW k \in DOMAIN handled, NEW l \in DOMAIN handled,
                 emitted[i] = handled[k], emitted[j] = handled[l], k < l
          PROVE  i < j
      BY <2>4 DEF Way, OrderInv, Before
    <2>. QED  BY <2>3, <2>4 DEF HandledOnceInOrder
  <1>. QED  BY <1>1, InitWay, NextWay, PTL DEF Spec
=============================================================================
