---------------------------- MODULE ChannelFeed ----------------------------
(* What a channel listener promises the gateway, whatever the platform.     *)
(* Between two starts of the process the messages of a room reach the bus   *)
(* in the order of the platform, none twice and none that the adapter       *)
(* refuses; and where the platform keeps a message until the adapter has    *)
(* taken it (Keeps), a message it no longer keeps has reached the bus.      *)
EXTENDS Integers, Sequences

CONSTANT Keeps

VARIABLES posted,    \* how many messages the platform has seen
          room,      \* and where each was written
          wanted,    \* those of them that the adapter accepts
          settled,   \* those the platform will not offer again
          handed,    \* those handed to the bus since the start, in order
          ever       \* those handed to the bus by any start

vars == <<posted, room, wanted, settled, handed, ever>>

Init == /\ posted = 0 /\ room = <<>> /\ wanted = {} /\ settled = {}
        /\ handed = <<>> /\ ever = {}

Post == /\ posted' = posted + 1
        /\ \A p \in 1..posted : room'[p] = room[p]
        /\ wanted' \in {wanted, wanted \cup {posted + 1}}
        /\ UNCHANGED <<handed, ever>>

Hand == \E p \in wanted :
           /\ \A i \in DOMAIN handed :
                 handed[i] # p /\ (room[handed[i]] = room[p] => handed[i] < p)
           /\ handed' = Append(handed, p)
           /\ ever' = ever \cup {p}
           /\ UNCHANGED <<posted, room, wanted>>

Restart == handed' = <<>> /\ UNCHANGED <<posted, room, wanted, ever>>

\* The platform may forget messages at any step, but none it should keep.
Forgets == /\ settled \subseteq settled'
           /\ Keeps => settled' \cap wanted' \subseteq ever'

Next == /\ Post \/ Hand \/ Restart \/ UNCHANGED <<posted, room, wanted, handed, ever>>
        /\ Forgets

Spec == Init /\ [][Next]_vars
=============================================================================
