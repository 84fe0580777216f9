------------------------------- MODULE Matrix -------------------------------
(* The Matrix adapter: /sync from a token that lives in memory, set by an   *)
(* initial sync that skips the history.  An answer lists the newest events  *)
(* of each room; an older one that it leaves out is never asked for.        *)
EXTENDS Channels

CONSTANT TimelineLimit   \* events of a room in one answer

MatrixAssumption == TimelineLimit \in Nat

VARIABLES phase,   \* "initial" or "loop"
          since,   \* last message the token covers, NoToken before the first
          batch,   \* events of the last answer still to be processed
          room,    \* where the last one processed was written
          missed

mxVars == <<shared, phase, since, batch, room, missed>>

NoToken == -1
NoRoom == "none"

Init == /\ SharedInit /\ phase = "initial" /\ since = NoToken
        /\ batch = {} /\ room = NoRoom
        /\ missed = FALSE   \* the initial sync of this start failed

\* A text message of somebody else.
Accepts(u) == ~u.own /\ u.text

\* The answer or the failure of the initial sync; the failure is ignored.
InitialSync == /\ phase = "initial" /\ phase' = "loop"
               /\ \/ since' = Len(posted) /\ settled' = Posts /\ missed' = FALSE
                  \/ UNCHANGED <<since, settled>> /\ missed' = TRUE
               /\ UNCHANGED <<posted, handed, ever, running, stops, batch, room>>

\* An event after the token (any without one) is in the answer unless its room
\* has had too many since.
Timelines == LET From == {p \in Posts : p > since} IN
             {p \in From : Cardinality({q \in From : q > p /\ posted[q].room = posted[p].room})
                              < TimelineLimit}

\* The token is stored before the events are processed.
Sync == /\ phase = "loop" /\ running /\ batch = {}
        /\ batch' = Timelines /\ room' = NoRoom
        /\ since' = Len(posted) /\ settled' = Posts
        /\ UNCHANGED <<posted, handed, ever, running, stops, phase, missed>>

\* The rooms of an answer are a HashMap: one after another, in any order.
IsNext(p) == /\ \A q \in batch : posted[q].room = posted[p].room => p <= q
             /\ room \in {posted[q].room : q \in batch} => room = posted[p].room

Process(p) == /\ IsNext(p) /\ batch' = batch \ {p} /\ room' = posted[p].room
              /\ Take(p, Accepts(posted[p]))
              /\ UNCHANGED <<posted, settled, running, stops, phase, since, missed>>

Restart == /\ Die /\ phase' = "initial" /\ since' = NoToken /\ batch' = {}
           /\ room' = NoRoom /\ missed' = FALSE

Next == \/ Post /\ UNCHANGED <<phase, since, batch, room, missed>>
        \/ Shutdown /\ UNCHANGED <<phase, since, batch, room, missed>>
        \/ InitialSync \/ Sync \/ Restart \/ \E p \in batch : Process(p)

Spec == Init /\ [][Next]_mxVars

TypeOK == /\ SharedTypeOK /\ phase \in {"initial", "loop"}
          /\ since \in -1..Len(posted) /\ batch \subseteq Posts /\ missed \in BOOLEAN
          /\ room \in {NoRoom} \cup {u.room : u \in Updates}

Feed == INSTANCE ChannelFeed WITH
           Keeps <- FALSE, posted <- Len(posted),
           room <- [p \in Posts |-> posted[p].room],
           wanted <- {p \in Posts : Accepts(posted[p])}

\* What an earlier start has handed over is handed over again only by a
\* start whose initial sync failed.
Again == Len(handed') > Len(handed) /\ handed'[Len(handed')] \in ever => missed
=============================================================================
