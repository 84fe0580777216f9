------------------------------- MODULE Discord -------------------------------
(* The Discord adapter: a gateway socket that is identified afresh at every *)
(* connection (no RESUME), so what is written while it is down is never     *)
(* offered.                                                                 *)
EXTENDS Channels

CONSTANTS GuildIds,       \* empty: every guild; a direct message has none
          CommandPrefix   \* "none": every text

VARIABLES socket, wire    \* "down", "open" (not identified) or "ready"; events in transit

dcVars == <<shared, socket, wire>>

Init == SharedInit /\ socket = "down" /\ wire = <<>>

\* The body is what follows the prefix.
Accepts(u) == /\ ~u.bot
              /\ GuildIds = {} \/ u.guild \in GuildIds \cup {"none"}
              /\ CommandPrefix \in {"none", u.prefix}
              /\ u.body

\* connect_async and the HELLO frame.
Connect == /\ running /\ socket = "down" /\ socket' = "open"
           /\ UNCHANGED <<shared, wire>>

Identify == socket = "open" /\ socket' = "ready" /\ UNCHANGED <<shared, wire>>

\* The platform sends an event to the identified socket, once.
Write == /\ Post
         /\ wire' = IF socket = "ready" THEN Append(wire, Len(posted')) ELSE wire
         /\ UNCHANGED socket

\* One event is read; the flag is looked at after it.
Read == /\ socket = "ready" /\ wire # <<>>
        /\ Take(Head(wire), Accepts(posted[Head(wire)]))
        /\ IF running THEN wire' = Tail(wire) /\ UNCHANGED socket
                      ELSE wire' = <<>> /\ socket' = "down"
        /\ UNCHANGED <<posted, settled, running, stops>>

\* IDENTIFY fails, reconnect requested, invalid session, close, read error,
\* a heartbeat that cannot be written: what is in transit is gone.
Drop == /\ socket # "down" /\ socket' = "down" /\ wire' = <<>>
        /\ settled' = settled \cup {wire[i] : i \in DOMAIN wire}
        /\ UNCHANGED <<posted, handed, ever, running, stops>>

Restart == Die /\ socket' = "down" /\ wire' = <<>>

Next == \/ Shutdown /\ UNCHANGED <<socket, wire>>
        \/ Connect \/ Identify \/ Write \/ Read \/ Drop \/ Restart

Spec == Init /\ [][Next]_dcVars

TypeOK == /\ SharedTypeOK /\ socket \in {"down", "open", "ready"}
          /\ wire \in Seq(Posts)

Feed == INSTANCE ChannelFeed WITH
           Keeps <- FALSE, posted <- Len(posted), room <- OneRoom,
           wanted <- {p \in Posts : Accepts(posted[p])}
=============================================================================
