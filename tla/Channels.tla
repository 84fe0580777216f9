------------------------------ MODULE Channels ------------------------------
(* What the listeners of the chat platforms share: the messages a platform  *)
(* has seen, which of them it will not offer again, and the events that the *)
(* adapter has put on the unbounded queue to the bus since the process was  *)
(* started (every one under a new event id).                                *)
EXTENDS Integers, Sequences, FiniteSets

CONSTANTS Updates,      \* what a platform may send
          MaxPosts,     \* bound: messages a platform sends
          MaxStops      \* bound: times the process dies

VARIABLES posted, settled, handed, ever, running, stops

shared == <<posted, settled, handed, ever, running, stops>>

ChannelsAssumption == MaxPosts \in Nat /\ MaxStops \in Nat

SharedInit == /\ posted = <<>> /\ settled = {} /\ handed = <<>> /\ ever = {}
              /\ running = TRUE /\ stops = 0

Posts == DOMAIN posted

\* A platform that orders all its messages is one room.
OneRoom == [p \in Posts |-> "all"]

\* A user writes on the platform.
Post == /\ Len(posted) < MaxPosts
        /\ \E u \in Updates : posted' = Append(posted, u)
        /\ UNCHANGED <<settled, handed, ever, running, stops>>

\* sender.send(event): the queue is unbounded and its reader lives as long
\* as the process.
Send(p) == handed' = Append(handed, p) /\ ever' = ever \cup {p}

\* The adapter hands over a message it accepts and ignores another.
Take(p, accepted) == IF accepted THEN Send(p) ELSE UNCHANGED <<handed, ever>>

\* The process dies and is started again: the queue goes with it.
Die == /\ stops < MaxStops
       /\ stops' = stops + 1 /\ running' = TRUE /\ handed' = <<>>
       /\ UNCHANGED <<posted, settled, ever>>

\* shutdown(): the flag is cleared, the listener sees it when it looks.
Shutdown == running /\ running' = FALSE
            /\ UNCHANGED <<posted, settled, handed, ever, stops>>

SharedTypeOK == /\ posted \in Seq(Updates)
                /\ settled \subseteq Posts /\ ever \subseteq Posts
                /\ handed \in Seq(Posts)
                /\ running \in BOOLEAN /\ stops \in 0..MaxStops
=============================================================================
