---------------------------- MODULE RateLimiter -----------------------------
(***************************************************************************)
(* RateLimiterState::check of gateway/src/rate_limit.rs, called by the     *)
(* middleware for every request, on as many threads as there are           *)
(* requests.                                                               *)
(*                                                                         *)
(* check reads the clock first and takes the lock of its key's queue       *)
(* afterwards: these are two steps, between which other requests of the    *)
(* key may pass.  What happens under the lock is one step.                 *)
(*                                                                         *)
(* Abstraction: time is a number of ticks; a shard of the DashMap and the  *)
(* mutex in its entry are one lock per key.                                *)
(***************************************************************************)
EXTENDS Integers, Sequences, FiniteSets, Functions, SequencesExt

CONSTANTS Keys,        \* user names, or "anonymous"
          Callers,     \* requests in flight
          None,
          MaxRequests, \* max_requests
          Window,      \* window, in ticks
          MaxTime      \* bound: the clock stops there

\* What the constants must be.
RateLimiterAssumption ==
    /\ {MaxRequests, Window, MaxTime} \subseteq Nat
    /\ IsFiniteSet(Callers) /\ Callers # {}
    /\ None \notin [key : Keys, time : 0..MaxTime]

VARIABLES now,
          queue,     \* per key: the timestamps in its VecDeque
          call,      \* per caller: its key and its local variable now
          admitted   \* history: per key, how many requests of each time
                     \* have been admitted

vars == <<now, queue, call, admitted>>

Times == 0..MaxTime
Call  == [key: Keys, time: Times]

Init == /\ now = 0
        /\ queue = [k \in Keys |-> <<>>]
        /\ call = [c \in Callers |-> None]
        /\ admitted = [k \in Keys |-> [t \in Times |-> 0]]

-----------------------------------------------------------------------------
\* The limiter is disabled by a maximum of 0.
Enabled == MaxRequests > 0

\* let now = Instant::now();
ReadClock(c, k) ==
    /\ Enabled /\ call[c] = None
    /\ call' = [call EXCEPT ![c] = [key |-> k, time |-> now]]
    /\ UNCHANGED <<now, queue, admitted>>

\* A queue without its leading timestamps before the cutoff.
Drained(q, cutoff) ==
    LET first == SelectInSeq(q, LAMBDA t : t >= cutoff)
    IN IF first = 0 THEN <<>> ELSE SubSeq(q, first, Len(q))

\* Mutant: a queue may hold one request too many.
AdmitOneMore(c, q) ==
    LET k == call[c].key
        t == call[c].time
    IN /\ Len(q) <= MaxRequests
       /\ queue' = [queue EXCEPT ![k] = Append(q, t)]
       /\ admitted' = [admitted EXCEPT ![k][t] = @ + 1]

Admit(c, q) ==
    LET k == call[c].key
        t == call[c].time
    IN /\ Len(q) < MaxRequests
       /\ queue' = [queue EXCEPT ![k] = Append(q, t)]
       /\ admitted' = [admitted EXCEPT ![k][t] = @ + 1]

\* Mutant: a refused request counts.
RefuseCounted(c, q) ==
    /\ Len(q) >= MaxRequests
    /\ queue' = [queue EXCEPT ![call[c].key] = Append(Tail(q), call[c].time)]
    /\ UNCHANGED admitted

Refuse(c, q) ==
    /\ Len(q) >= MaxRequests
    /\ queue' = [queue EXCEPT ![call[c].key] = q]
    /\ UNCHANGED admitted

\* The rest of check, under the lock of the key.
Check(c) ==
    /\ call[c] # None
    /\ LET q == Drained(queue[call[c].key], call[c].time - Window)
       IN Admit(c, q) \/ Refuse(c, q)
    /\ call' = [call EXCEPT ![c] = None]
    /\ UNCHANGED now

Tick == /\ now < MaxTime
        /\ now' = now + 1
        /\ UNCHANGED <<queue, call, admitted>>

Next == \/ \E c \in Callers : Check(c) \/ \E k \in Keys : ReadClock(c, k)
        \/ Tick

Spec == Init /\ [][Next]_vars
-----------------------------------------------------------------------------
(* Properties.                                                             *)

\* How many requests of k have been admitted at the times from a to b.
Admissions(k, a, b) == SumFunctionOnSet(admitted[k], Times \cap a..b)

\* Every variable keeps its type, and no queue grows beyond the maximum.
TypeOK ==
    /\ now \in Times
    /\ queue \in [Keys -> Seq(Times)]
    /\ \A k \in Keys : Len(queue[k]) <= MaxRequests
    /\ call \in [Callers -> Call \cup {None}]
    /\ admitted \in [Keys -> [Times -> Nat]]

\* "Per-user sliding-window rate limiter": check is made "against
\* `max_requests` per `window`" (rate_limit.rs:1-6): no window, wherever it
\* ends, holds more than MaxRequests admitted requests of a key.
AdmitsAtMost ==
    \A k \in Keys, t \in Times : Admissions(k, t - Window, t) <= MaxRequests

\* However the requests of a key overtake each other between the clock and
\* the lock, no window holds more than one excess request for each other
\* request in flight.
ExcessBounded ==
    \A k \in Keys, t \in Times :
        Admissions(k, t - Window, t) < MaxRequests + Cardinality(Callers)

\* A request is refused only if its window is full of admitted requests:
\* those that were refused do not count against it.
RefusesWhenFull ==
    \A c \in Callers :
        call[c] # None /\ call'[c] = None /\ admitted' = admitted =>
            Admissions(call[c].key, call[c].time - Window, call[c].time)
                >= MaxRequests
=============================================================================
