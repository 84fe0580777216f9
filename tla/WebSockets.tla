----------------------------- MODULE WebSockets -----------------------------
(***************************************************************************)
(* The life of the /ws connections (handle_websocket of                    *)
(* gateway/src/routes.rs) with the two limits it keeps: the number of      *)
(* connections, through a gauge of the metrics, and the rate of messages   *)
(* of each connection.                                                     *)
(*                                                                         *)
(* The gauge is an atomic that is loaded, compared, and incremented later  *)
(* by another operation: two steps, with other connections in between.     *)
(* The connections' loops run each in a task of its own; a panic of that   *)
(* task ends the connection without the statements after the loop.         *)
(*                                                                         *)
(* Abstractions: the connection ends for one reason; what a message does   *)
(* and what is pushed to the client is the matter of other modules.        *)
(***************************************************************************)
EXTENDS Integers, FiniteSets, Functions

CONSTANTS Conns,
          MaxConns,     \* WS_MAX_CONNECTIONS
          MaxMessages,  \* WS_RATE_LIMIT_MAX
          Window,       \* WS_RATE_LIMIT_WINDOW, in ticks
          Burst,        \* bound: messages a connection reads at one time
          MaxTime,      \* bound: the clock stops there
          MaxPanics     \* bound: connections whose task panics

\* What the constants must be.
WebSocketsAssumption ==
    /\ {MaxMessages, Window} \subseteq Nat \ {0}
    /\ {MaxConns, Burst, MaxTime, MaxPanics} \subseteq Nat
    /\ IsFiniteSet(Conns)

VARIABLES now,
          state,    \* per connection: where its task is
          gauge,    \* ws_connections_active
          count,    \* ws_msg_count
          start,    \* ws_window_start
          served,   \* history: per connection, how many messages of each
                    \* time have passed its limit
          panics    \* history: tasks that have panicked

vars == <<now, state, gauge, count, start, served, panics>>

Times  == 0..MaxTime
States == {"closed", "accepted", "open", "answering"}

Init == /\ now = 0
        /\ state = [c \in Conns |-> "closed"]
        /\ gauge = 0
        /\ count = [c \in Conns |-> 0]
        /\ start = [c \in Conns |-> 0]
        /\ served = [c \in Conns |-> [t \in Times |-> 0]]
        /\ panics = 0

Goto(c, step) == state' = [state EXCEPT ![c] = step]

\* The task is over, and its locals with it.
Over(c) == /\ Goto(c, "closed")
           /\ count' = [count EXCEPT ![c] = 0]
           /\ start' = [start EXCEPT ![c] = 0]
           /\ served' = [served EXCEPT ![c] = [t \in Times |-> 0]]

\* The connections that count: those past the increment.
Live == {c \in Conns : state[c] \in {"open", "answering"}}

-----------------------------------------------------------------------------
(* The upgrade.                                                            *)

\* Mutant: one connection too many.
AcceptOneMore(c) ==
    /\ state[c] = "closed" /\ gauge <= MaxConns
    /\ Goto(c, "accepted")
    /\ UNCHANGED <<now, gauge, count, start, served, panics>>

\* The gauge is below the cap.
Accept(c) ==
    /\ state[c] = "closed" /\ gauge < MaxConns
    /\ Goto(c, "accepted")
    /\ UNCHANGED <<now, gauge, count, start, served, panics>>

\* inc_ws_connections, and the connection's first window.
Open(c) ==
    /\ state[c] = "accepted"
    /\ gauge' = gauge + 1
    /\ start' = [start EXCEPT ![c] = now]
    /\ Goto(c, "open")
    /\ UNCHANGED <<now, count, served, panics>>

-----------------------------------------------------------------------------
(* The loop.                                                               *)

\* ws_window_start.elapsed() >= WS_RATE_LIMIT_WINDOW
WindowOver(c) == now - start[c] >= Window

\* Mutant: the start of the window is not reset.
MessageKeepsStart(c) ==
    LET n == IF WindowOver(c) THEN 1 ELSE count[c] + 1 IN
    /\ state[c] = "open"
    /\ n <= Burst
    /\ count' = [count EXCEPT ![c] = n]
    /\ IF n > MaxMessages THEN UNCHANGED <<state, served>>
       ELSE /\ served' = [served EXCEPT ![c][now] = @ + 1]
            /\ Goto(c, "answering")
    /\ UNCHANGED <<now, gauge, start, panics>>

\* A text message is counted, and handled unless it exceeds the limit.
Message(c) ==
    LET n == IF WindowOver(c) THEN 1 ELSE count[c] + 1 IN
    /\ state[c] = "open"
    /\ n <= Burst
    /\ count' = [count EXCEPT ![c] = n]
    /\ start' = [start EXCEPT ![c] = IF WindowOver(c) THEN now ELSE @]
    /\ IF n > MaxMessages THEN UNCHANGED <<state, served>>
       ELSE /\ served' = [served EXCEPT ![c][now] = @ + 1]
            /\ Goto(c, "answering")
    /\ UNCHANGED <<now, gauge, panics>>

Answered(c) ==
    /\ state[c] = "answering"
    /\ Goto(c, "open")
    /\ UNCHANGED <<now, gauge, count, start, served, panics>>

\* Mutant: a connection that fails in its answer leaves without the decrement.
CloseEarly(c) ==
    /\ c \in Live
    /\ gauge' = IF state[c] = "open" THEN gauge - 1 ELSE gauge
    /\ Over(c)
    /\ UNCHANGED <<now, panics>>

\* The client leaves, or cannot be sent to any more: the loop ends, and
\* dec_ws_connections follows.
Close(c) ==
    /\ c \in Live
    /\ gauge' = gauge - 1
    /\ Over(c)
    /\ UNCHANGED <<now, panics>>

\* The handling of a message panics, for one in resolve_from_device.
Panic(c) ==
    /\ state[c] = "answering" /\ panics < MaxPanics
    /\ panics' = panics + 1
    /\ Over(c)
    /\ UNCHANGED <<now, gauge>>

Tick == /\ now < MaxTime
        /\ now' = now + 1
        /\ UNCHANGED <<state, gauge, count, start, served, panics>>

Loop(c) == Message(c) \/ Answered(c) \/ Close(c) \/ Panic(c)

Next == \/ \E c \in Conns : Accept(c) \/ Open(c) \/ Loop(c)
        \/ Tick

Spec == Init /\ [][Next]_vars
-----------------------------------------------------------------------------
(* Properties.                                                             *)

\* Every variable keeps its type; a u64 gauge must not fall below 0.
TypeOK ==
    /\ now \in Times
    /\ state \in [Conns -> States]
    /\ gauge \in Nat
    /\ count \in [Conns -> 0..Burst]
    /\ start \in [Conns -> Times]
    /\ served \in [Conns -> [Times -> Nat]]
    /\ panics \in 0..MaxPanics

\* "Decrement the active WS connection gauge (called on disconnect)"
\* (metrics.rs:96): however connections come and go, the gauge counts those
\* that are open; only tasks that panic stay in it, for good.
GaugeCountsOpen == gauge = Cardinality(Live) + panics

\* "max 30 messages per 60-second window" (routes.rs:2328): the window does
\* not slide, and what holds of every interval of its length is twice that.
TwoWindowsAtMost ==
    \A c \in Conns, t \in Times :
        SumFunctionOnSet(served[c], Times \cap t..(t + Window - 1))
            <= 2 * MaxMessages

\* "reject if too many concurrent WS connections" (routes.rs:2295).
ConnectionCap == Cardinality(Live) <= MaxConns
=============================================================================
