------------------------------ MODULE Telegram ------------------------------
(* The Telegram adapter in polling mode: getUpdates is asked for the        *)
(* updates after the last one processed, which confirms the earlier ones.   *)
EXTENDS Channels

CONSTANT AllowedUsers   \* empty: everyone

VARIABLES lastUpdateId,
          offered         \* updates of the last answer still to be processed

tgVars == <<shared, lastUpdateId, offered>>

Init == SharedInit /\ lastUpdateId = 0 /\ offered = {}

\* A message with a sender and a text; the list of users applies to messages
\* that have a sender.
Accepts(u) == /\ AllowedUsers = {} \/ u.from \in AllowedUsers
              /\ u.from # "none" /\ u.text

\* The updates from the offset on that Telegram still has.
Offered(offset) == {p \in Posts : p >= offset} \ settled

\* One request: it may not arrive, and its answer may not come back.
Poll == /\ running /\ offered = {}
        /\ \E arrives, answered \in BOOLEAN :
              /\ answered => arrives
              /\ settled' = IF arrives THEN settled \cup 1..lastUpdateId ELSE settled
              /\ offered' = IF answered THEN Offered(lastUpdateId + 1) ELSE {}
        /\ UNCHANGED <<posted, handed, ever, running, stops, lastUpdateId>>

\* The answer lists its updates by their number.
IsNext(p) == p \in offered /\ \A q \in offered : p <= q

\* Mutant: the offset is not moved.
ProcessInPlace(p) == /\ IsNext(p)
                     /\ offered' = offered \ {p}
                     /\ Take(p, Accepts(posted[p]))
                     /\ UNCHANGED <<posted, settled, running, stops, lastUpdateId>>

\* The updates of an answer are processed to the last one, whatever the flag.
Process(p) == /\ IsNext(p)
              /\ lastUpdateId' = p
              /\ offered' = offered \ {p}
              /\ Take(p, Accepts(posted[p]))
              /\ UNCHANGED <<posted, settled, running, stops>>

\* The offset is in memory only.
Restart == Die /\ lastUpdateId' = 0 /\ offered' = {}

Next == \/ Post /\ UNCHANGED <<lastUpdateId, offered>>
        \/ Shutdown /\ UNCHANGED <<lastUpdateId, offered>>
        \/ Poll \/ Restart \/ \E p \in offered : Process(p)

Spec == Init /\ [][Next]_tgVars

TypeOK == /\ SharedTypeOK
          /\ lastUpdateId \in 0..Len(posted) /\ offered \subseteq Posts

Feed == INSTANCE ChannelFeed WITH
           Keeps <- TRUE, posted <- Len(posted), room <- OneRoom,
           wanted <- {p \in Posts : Accepts(posted[p])}
=============================================================================
