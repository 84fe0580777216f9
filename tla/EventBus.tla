------------------------------ MODULE EventBus ------------------------------
(***************************************************************************)
(* The durable event bus (crates/ngenorca-bus) and the tasks around it:    *)
(*                                                                         *)
(*   - adapters build an event and send it to an unbounded mpsc queue;     *)
(*   - the bridge task takes from that queue and publishes, one at a time; *)
(*   - route handlers and the orchestrator publish directly;               *)
(*   - the inbound worker and the WebSocket loops receive;                 *)
(*   - the retention task prunes the log;                                  *)
(*   - the process crashes and restarts: the log survives, queue, channel  *)
(*     and receivers do not.                                               *)
(*                                                                         *)
(* A start goes in this order: the bridge, the adapters, the worker's      *)
(* subscription, and last the HTTP server with its handlers and sockets.   *)
(* What is sent on the channel before the worker subscribes it never sees. *)
(*                                                                         *)
(* publish() is two critical sections, SQLite's insert and the channel's   *)
(* send, and an event gets its id and timestamp before the first of them.  *)
(* A ULID is ordered by its millisecond and random within it: a tick of    *)
(* the clock has IdsPerTick ids, handed out in any order.                  *)
(*                                                                         *)
(* External, modelled from their use: tokio's broadcast channel (a ring of *)
(* Capacity events; a receiver that falls behind it is told so and skips   *)
(* to the oldest event kept), mpsc (FIFO) and SQLite (an insert or delete  *)
(* is atomic and survives a crash of the process).                         *)
(***************************************************************************)
EXTENDS Integers, Sequences, FiniteSets, Functions

CONSTANTS Adapters,    \* channel adapters with a listening task
          Direct,      \* tasks that publish on their own
          Bridge,      \* the task that forwards the plugin queue
          Worker,      \* the inbound message worker
          Sockets,     \* WebSocket connections
          Capacity,    \* BROADCAST_CAPACITY
          Retention,   \* gateway.event_log_retention_days, in ticks
          IdsPerTick,  \* bound: ids of one millisecond
          MaxTime,     \* bound: last value of the clock
          MaxEvents,   \* bound: events created
          MaxCrashes   \* bound: crashes

ASSUME EventBusAssumption ==
    /\ Bridge \notin Adapters \cup Direct
    /\ Worker \notin Sockets
    /\ Adapters \cap Direct = {}
    /\ Capacity \in Nat \ {0}
    /\ Retention \in Nat \ {0}
    /\ IdsPerTick \in Nat \ {0}
    /\ MaxTime \in Nat
    /\ MaxEvents \in Nat
    /\ MaxCrashes \in Nat

Tasks      == Adapters \cup Direct \cup {Bridge}
Receivers  == Sockets \cup {Worker}
EventIds   == 0..(IdsPerTick * (MaxTime + 1) - 1)

VARIABLES now,        \* Utc::now()
          log,        \* the events table
          used,       \* ids handed out
          plugin_rx,  \* the mpsc queue of adapter events
          task,       \* per publishing task: what it does, and its event
          stream,     \* what was sent on the channel since the last start
          rx,         \* per receiver: index in stream of its next event,
                    \* Closed or Ended
          busy,       \* receivers that are processing what they received
          crashes,
          emitted,    \* history: events in the order they entered the queue
          acked,      \* history: events whose publish() has returned Ok
          seen,       \* history: events some receiver was given
          handled,    \* history: inbound messages in the order of processing
          lost        \* history: inbound messages given up

vars == <<now, log, used, plugin_rx, task, stream, rx, busy, crashes,
          emitted, acked, seen, handled, lost>>

(* An event: its id, which carries the time it was created, and whether it  *)
(* is an inbound message.                                                  *)
Event == [id: EventIds, inbound: BOOLEAN]
Time(e) == e.id \div IdsPerTick

Idle    == [step |-> "idle"]
Closed  == 0     \* not subscribed
Ended   == -1    \* the receiver's task has panicked: gone until a restart
At(step, e) == [step |-> step, event |-> e]
TaskState == [step: {"created", "append", "send"}, event: Event] \cup {Idle}

Open(r) == rx[r] > 0

\* The HTTP server is the last to start.
Serving == rx[Worker] # Closed

Init == /\ now = 0
        /\ log = {}
        /\ used = {}
        /\ plugin_rx = <<>>
        /\ task = [p \in Tasks |-> Idle]
        /\ stream = <<>>
        /\ rx = [r \in Receivers |-> Closed]
        /\ busy = {}
        /\ crashes = 0
        /\ emitted = <<>>
        /\ acked = {}
        /\ seen = {}
        /\ handled = <<>>
        /\ lost = {}

Inbound(events) == {e \in events : e.inbound}

History == <<emitted, acked, seen, handled, lost>>
Channel == <<stream, rx, busy>>

-----------------------------------------------------------------------------
(* Publishing.                                                             *)

\* Event { id: EventId::new(), timestamp: Utc::now(), .. }
Create(p) ==
    /\ p # Bridge
    /\ p \in Direct => Serving
    /\ task[p] = Idle
    /\ Cardinality(used) < MaxEvents
    /\ \E id \in EventIds \ used, inbound \in BOOLEAN :
         /\ p \in Adapters => inbound
         /\ id \div IdsPerTick = now
         /\ used' = used \cup {id}
         /\ task' = [task EXCEPT ![p] =
                       At(IF p \in Adapters THEN "created" ELSE "append",
                          [id |-> id, inbound |-> inbound])]
    /\ UNCHANGED <<now, log, plugin_rx, Channel, crashes, History>>

\* An adapter's sender.send(event).
Emit(p) ==
    /\ task[p] # Idle /\ task[p].step = "created"
    /\ emitted' = Append(emitted, task[p].event)
    /\ plugin_rx' = Append(plugin_rx, task[p].event)
    /\ task' = [task EXCEPT ![p] = Idle]
    /\ UNCHANGED <<now, log, used, Channel, crashes, acked, seen, handled, lost>>

\* Mutant: every event of the queue is published by a task of its own.
BridgeSpawns ==
    /\ plugin_rx # <<>>
    /\ \E p \in Tasks :
         /\ task[p] = Idle
         /\ task' = [task EXCEPT ![p] = At("append", Head(plugin_rx))]
    /\ plugin_rx' = Tail(plugin_rx)
    /\ UNCHANGED <<now, log, used, Channel, crashes, History>>

\* The bridge awaits publish() before it takes the next event.
BridgeTake ==
    /\ task[Bridge] = Idle
    /\ plugin_rx # <<>>
    /\ task' = [task EXCEPT ![Bridge] = At("append", Head(plugin_rx))]
    /\ plugin_rx' = Tail(plugin_rx)
    /\ UNCHANGED <<now, log, used, Channel, crashes, History>>

Persist(p) ==
    LET e == task[p].event IN
    /\ task[p] # Idle /\ task[p].step = "append"
    /\ log' = log \cup {e}
    /\ task' = [task EXCEPT ![p] = At("send", e)]
    /\ UNCHANGED <<now, used, plugin_rx, Channel, crashes, History>>

\* append() failed: publish() returns the error, which its callers log.
PersistFails(p) ==
    LET e == task[p].event IN
    /\ task[p] # Idle /\ task[p].step = "append"
    /\ task' = [task EXCEPT ![p] = Idle]
    /\ lost' = lost \cup Inbound({e})
    /\ UNCHANGED <<now, log, used, plugin_rx, Channel, crashes, emitted, acked,
                   seen, handled>>

\* The event is sent to those that are subscribed.
Broadcast(p) ==
    LET e == task[p].event IN
    /\ task[p] # Idle /\ task[p].step = "send"
    /\ stream' = Append(stream, e)
    /\ acked' = acked \cup {e}
    /\ task' = [task EXCEPT ![p] = Idle]
    /\ lost' = IF Open(Worker) THEN lost ELSE lost \cup Inbound({e})
    /\ UNCHANGED <<now, log, used, plugin_rx, rx, busy, crashes, emitted, seen,
                   handled>>

-----------------------------------------------------------------------------
(* Receiving.                                                              *)

Oldest == IF Len(stream) > Capacity THEN Len(stream) - Capacity + 1 ELSE 1

Subscribe(r) ==
    /\ rx[r] = Closed
    /\ r \in Sockets => Serving
    /\ rx' = [rx EXCEPT ![r] = Len(stream) + 1]
    /\ UNCHANGED <<now, log, used, plugin_rx, task, stream, busy, crashes,
                   History>>

\* Mutant: the loop ends on every error.
LagEndsLoop(r) ==
    /\ Open(r) /\ r \notin busy
    /\ rx[r] < Oldest
    /\ rx' = [rx EXCEPT ![r] = Ended]
    /\ lost' = IF r = Worker
               THEN lost \cup Inbound({stream[i] : i \in rx[r]..(Oldest - 1)})
               ELSE lost
    /\ UNCHANGED <<now, log, used, plugin_rx, task, stream, busy, crashes,
                   emitted, acked, seen, handled>>

\* RecvError::Lagged: the receiver goes on at the oldest event kept.
Lag(r) ==
    /\ Open(r) /\ r \notin busy
    /\ rx[r] < Oldest
    /\ rx' = [rx EXCEPT ![r] = Oldest]
    /\ lost' = IF r = Worker
               THEN lost \cup Inbound({stream[i] : i \in rx[r]..(Oldest - 1)})
               ELSE lost
    /\ UNCHANGED <<now, log, used, plugin_rx, task, stream, busy, crashes,
                   emitted, acked, seen, handled>>

\* Mutant: the index of the next event is off by one.
ReceiveSkips(r) ==
    LET e == stream[rx[r]] IN
    /\ Open(r) /\ r \notin busy
    /\ Oldest <= rx[r] /\ rx[r] <= Len(stream)
    /\ rx' = [rx EXCEPT ![r] = @ + 2]
    /\ seen' = seen \cup {e}
    /\ UNCHANGED <<now, log, used, plugin_rx, task, stream, busy, crashes,
                   emitted, acked, handled, lost>>

\* The worker processes inbound messages and ignores the rest; a
\* socket pushes the event to its client.
Receive(r) ==
    LET e == stream[rx[r]] IN
    /\ Open(r) /\ r \notin busy
    /\ Oldest <= rx[r] /\ rx[r] <= Len(stream)
    /\ rx' = [rx EXCEPT ![r] = @ + 1]
    /\ seen' = seen \cup {e}
    /\ IF r = Worker /\ e.inbound
       THEN busy' = busy \cup {r} /\ handled' = Append(handled, e)
       ELSE UNCHANGED <<busy, handled>>
    /\ UNCHANGED <<now, log, used, plugin_rx, task, stream, crashes, emitted,
                   acked, lost>>

\* A socket turns to a message of its client, which it answers before it
\* receives again.
ClientMessage(r) ==
    /\ r \in Sockets /\ Open(r) /\ r \notin busy
    /\ busy' = busy \cup {r}
    /\ UNCHANGED <<now, log, used, plugin_rx, task, stream, rx, crashes, History>>

Answered(r) ==
    /\ r \in busy
    /\ busy' = busy \ {r}
    /\ UNCHANGED <<now, log, used, plugin_rx, task, stream, rx, crashes, History>>

\* The worker resolves who has written inside its loop, and that may panic
\* (resolver.rs:112): the task is gone, and what is left to it with it.
WorkerPanics ==
    /\ Worker \in busy
    /\ busy' = busy \ {Worker}
    /\ rx' = [rx EXCEPT ![Worker] = Ended]
    /\ lost' = lost \cup Inbound({stream[i] : i \in rx[Worker]..Len(stream)})
    /\ UNCHANGED <<now, log, used, plugin_rx, task, stream, crashes, emitted,
                   acked, seen, handled>>

Disconnect(r) ==
    /\ r \in Sockets /\ Open(r) /\ r \notin busy
    /\ rx' = [rx EXCEPT ![r] = Closed]
    /\ UNCHANGED <<now, log, used, plugin_rx, task, stream, busy, crashes,
                   History>>

-----------------------------------------------------------------------------
(* Retention, crashes, time.                                               *)

\* Events the retention task leaves in the log at the present time.
Kept(e) == Time(e) >= now - Retention

\* Mutant: <= for <.
PruneUpTo ==
    /\ log' = {e \in log : Time(e) > now - Retention}
    /\ UNCHANGED <<now, used, plugin_rx, task, Channel, crashes, History>>

\* DELETE FROM events WHERE timestamp < now - retention.
PruneBefore ==
    /\ log' = {e \in log : Kept(e)}
    /\ UNCHANGED <<now, used, plugin_rx, task, Channel, crashes, History>>

\* The inbound messages the gateway has taken: an adapter has sent it to the
\* queue, or a webhook has published it.
Accepted == Range(emitted) \cup Inbound(acked)

\* The process stops and starts: only the log is left, which nobody replays.
Crash ==
    /\ crashes < MaxCrashes
    /\ crashes' = crashes + 1
    /\ plugin_rx' = <<>>
    /\ task' = [p \in Tasks |-> Idle]
    /\ stream' = <<>>
    /\ rx' = [r \in Receivers |-> Closed]
    /\ busy' = {}
    /\ lost' = lost \cup (Accepted \ Range(handled))
    /\ UNCHANGED <<now, log, used, emitted, acked, seen, handled>>

Tick == /\ now < MaxTime
        /\ now' = now + 1
        /\ UNCHANGED <<log, used, plugin_rx, task, Channel, crashes, History>>

Publish(p) == Emit(p) \/ Persist(p) \/ PersistFails(p) \/ Broadcast(p)
Listen(r)  == Lag(r) \/ Receive(r) \/ Answered(r)

Next == \/ \E p \in Tasks : Create(p) \/ Publish(p)
        \/ BridgeTake
        \/ \E r \in Receivers : \/ Subscribe(r) \/ Listen(r)
                                \/ ClientMessage(r) \/ Disconnect(r)
        \/ WorkerPanics
        \/ PruneBefore \/ Crash \/ Tick

Spec == Init /\ [][Next]_vars

\* tokio runs every task that can go on.  Nothing bounds how long a receiver
\* takes to answer (Answered): a call of a model has no timeout.
FairSpec == Spec /\ \A p \in Tasks : WF_vars(Publish(p))
                 /\ WF_vars(BridgeTake)
                 /\ WF_vars(Subscribe(Worker))
                 /\ \A r \in Receivers : WF_vars(Lag(r) \/ Receive(r))
-----------------------------------------------------------------------------
(* Properties.                                                             *)

\* Every variable keeps its type.
TypeOK ==
    /\ now \in 0..MaxTime
    /\ log \subseteq Event
    /\ used \subseteq EventIds
    /\ plugin_rx \in Seq(Event)
    /\ task \in [Tasks -> TaskState]
    /\ stream \in Seq(Event)
    /\ rx \in [Receivers -> Ended..(MaxEvents + 1)]
    /\ busy \subseteq Receivers
    /\ crashes \in 0..MaxCrashes
    /\ emitted \in Seq(Event) /\ handled \in Seq(Event)
    /\ acked \subseteq Event /\ seen \subseteq Event /\ lost \subseteq Event

\* "Persist first (durability guarantee)" (bus/src/lib.rs:66): whatever a
\* subscriber was ever given, and whatever publish() has returned Ok for, is
\* in the log until it is older than the retention, across crashes.
SeenIsLogged ==
    \A e \in seen \cup acked : Kept(e) => e \in log

\* The worker processes no message twice, and those of the plugin queue in the
\* order they were emitted, whatever is published beside them and whether or
\* not the process restarts in between.
HandledOnceInOrder ==
    /\ IsInjective(handled)
    /\ \A i, j \in DOMAIN emitted, k, l \in DOMAIN handled :
         emitted[i] = handled[k] /\ emitted[j] = handled[l] /\ k < l => i < j

\* If the worker comes to the end of every message it takes up, each message
\* the gateway has taken is taken up, unless its insert fails, the worker has
\* not subscribed yet, lags by a whole channel or has panicked, or the process
\* crashes.
AcceptedResolved ==
    []<>(Worker \notin busy) =>
        \A id \in EventIds : LET e == [id |-> id, inbound |-> TRUE] IN
            e \in Accepted ~> e \in Range(handled) \cup lost

=============================================================================
