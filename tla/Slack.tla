-------------------------------- MODULE Slack --------------------------------
(* The Slack adapter in Socket Mode: every envelope is acknowledged when it *)
(* is read, before its event is put on the queue; Slack offers envelopes it *)
(* has no acknowledgement of again at the next connection.                  *)
EXTENDS Channels

VARIABLES listener,   \* "new", "failed" (start_listening returned an error) or "on"
          socket,     \* "down", "ready", or "mute" (half open)
          wire, reading, unacked, cut

slVars == <<shared, listener, socket, wire, reading, unacked, cut>>

conn == <<socket, wire, reading>>

Init == /\ SharedInit /\ listener = "new"
        /\ socket = "down" /\ wire = <<>> /\ reading = 0
        /\ unacked = {}   \* handed, with an acknowledgement that was not sent
        /\ cut = {}       \* acknowledged, the process died before the queue

\* Not the echo of a bot, no subtype, a text.
Accepts(u) == ~u.bot /\ ~u.subtype /\ u.text

\* start_listening is called once; its error is only logged.
Start == /\ listener = "new"
         /\ listener' \in {"on", "failed"}
         /\ UNCHANGED <<shared, conn, unacked, cut>>

\* What Slack has no acknowledgement of, in its order.
Envelopes ==
    LET upTo[i \in 0..Len(posted)] ==
          IF i = 0 THEN <<>>
          ELSE IF i \in settled THEN upTo[i - 1] ELSE Append(upTo[i - 1], i)
    IN upTo[Len(posted)]

Connect == /\ listener = "on" /\ running /\ socket = "down"
           /\ socket' = "ready" /\ wire' = Envelopes
           /\ UNCHANGED <<shared, listener, reading, unacked, cut>>

Write == /\ Post
         /\ wire' = IF socket = "ready" THEN Append(wire, Len(posted')) ELSE wire
         /\ UNCHANGED <<listener, socket, reading, unacked, cut>>

\* The result of sending the acknowledgement is dropped (bound: once for a
\* message).
Ack == /\ running /\ socket = "ready" /\ reading = 0 /\ wire # <<>>
       /\ reading' = Head(wire) /\ wire' = Tail(wire)
       /\ \/ settled' = settled \cup {Head(wire)} /\ UNCHANGED unacked
          \/ Head(wire) \notin unacked /\ unacked' = unacked \cup {Head(wire)} /\ UNCHANGED settled
       /\ UNCHANGED <<posted, handed, ever, running, stops, listener, socket, cut>>

Deliver == /\ reading # 0 /\ reading' = 0
           /\ Take(reading, Accepts(posted[reading]))
           /\ UNCHANGED <<posted, settled, running, stops, listener, socket, wire,
                          unacked, cut>>

\* Mutant: the connection can end under an envelope.
DropAnywhere == /\ socket # "down" /\ reading' = 0
                /\ socket' = "down" /\ wire' = <<>>
                /\ UNCHANGED <<shared, listener, unacked, cut>>

\* Disconnect advisory, error or end of the stream; the flag is seen between
\* two envelopes.
Drop == /\ socket # "down" /\ reading = 0
        /\ socket' = "down" /\ wire' = <<>>
        /\ UNCHANGED <<shared, listener, reading, unacked, cut>>

\* The peer is gone without a word: a read times out after 45 s and the loop
\* reads again.
Mute == /\ socket = "ready" /\ reading = 0 /\ socket' = "mute" /\ wire' = <<>>
        /\ UNCHANGED <<shared, listener, reading, unacked, cut>>

Restart == /\ Die /\ listener' = "new" /\ socket' = "down" /\ wire' = <<>>
           /\ reading' = 0
           /\ cut' = cut \cup ({reading} \ {0})
           /\ UNCHANGED unacked

Next == \/ Shutdown /\ UNCHANGED <<listener, conn, unacked, cut>>
        \/ Start \/ Connect \/ Write \/ Ack \/ Deliver \/ Drop \/ Mute \/ Restart

Spec == Init /\ [][Next]_slVars

TypeOK == /\ SharedTypeOK
          /\ listener \in {"new", "failed", "on"} /\ socket \in {"down", "ready", "mute"}
          /\ wire \in Seq(Posts) /\ reading \in Posts \cup {0}
          /\ unacked \subseteq Posts /\ cut \subseteq Posts

\* An acknowledged message has been handed over, is being handed over, or
\* was cut off between the two by the end of the process.
AckedIsHanded == \A p \in settled : Accepts(posted[p]) => p \in ever \cup cut \cup {reading}

\* A message is handed over twice between two starts only if one of its
\* acknowledgements was not sent.
TwiceOnlyUnacked ==
    \A i, j \in DOMAIN handed : i # j /\ handed[i] = handed[j] => handed[i] \in unacked
=============================================================================
