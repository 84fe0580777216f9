-------------------------------- MODULE Edges --------------------------------
(* The edges of the gateway: the rate limiter and the connections at /ws,   *)
(* the webhooks, the credentials of the Teams adapter, the listeners of the *)
(* chat platforms, the way of a reply back to its chat, and the WhatsApp    *)
(* client, its connection and a Signal session.  They share no state; which *)
(* of them acts, and whether calls may overlap, is chosen at the start.     *)
EXTENDS Integers, Sequences, FiniteSets

CONSTANTS None, Torn,
          Parts,
          Keys, Callers, MaxRequests, Conns, MaxConns, MaxMessages, Burst,
          MaxPanics, Window, MaxTime,
          Messages, Batch, Hooks, MaxTries, MaxFails,
          Replies, Requests, Life, Margin, TTL, Slow, LastTime,
          Telegrams, Users, Discords, Guilds, Prefix, Slacks, Matrices, Signals,
          WhatsApps, MaxPosts, MaxStops, TimelineLimit, StderrRoom,
          WhatsAppPosts, MaxLinks,
          MaxSent, MaxChains, MaxFailed,
          Configured, Chats, MaxInbound,
          Senders, CounterSize, MaxFrames

VARIABLES part, overlap,
          now, queue, call, admitted,                            \* RateLimiter
          state, gauge, count, start, served, panics,            \* WebSockets
          setup, tries, request, answered, given, published,     \* Webhooks
          failed, fails,
          time, token, reply, keys, verification,                \* TeamsCredentials
          posted, settled, handed, ever, running, stops,         \* Channels
          lastUpdateId, offered, batch, socket, wire, listener, reading,
          unacked, cut, phase, since, room, missed, child, reader, stdin, pipe, stderr,
          paired, task, qr, handle, connected, down, links,      \* WhatsAppClient
          events, answer, halting,
          file, sending, receiving, saving, inbox, peer, sent,     \* SignalSession
          lost, failedSaves,
          at, h, ck, sendCounter, recvCounter, pending, used,    \* Noise
          dropped, counting, server, inbound, opened,
          channelsOn, todo, enrolled, adapterIndex, arrived,     \* Replies
          taken, replied, unrouted, up

limiter == <<queue, call, admitted>>
sockets == <<state, gauge, count, start, served, panics>>
hooks   == <<setup, tries, request, answered, given, published, failed, fails>>
teams   == <<time, token, reply, keys, verification>>
chat    == <<posted, settled, handed, ever, running, stops>>
polls   == <<lastUpdateId, offered>>
streams == <<socket, wire>>
slack   == <<listener, reading, unacked, cut>>
matrix  == <<phase, since, batch, room, missed>>
signal  == <<child, reader, stdin, pipe, stderr>>
native  == <<paired, task, qr, handle, connected, down, links, events, answer,
             halting>>
session == <<file, sending, receiving, saving, inbox, peer, sent, lost, failedSaves>>
noise   == <<at, h, ck, sendCounter, recvCounter, pending, used, dropped, counting,
             server, inbound, opened>>
answers == <<channelsOn, todo, enrolled, adapterIndex, arrived, taken, replied, unrouted, up>>

gates    == <<now, limiter, sockets, hooks, teams>>
adapters == <<chat, polls, streams, slack, matrix, signal, native>>
ciphers  == <<session, noise>>
edgeVars == <<part, overlap, gates, adapters, ciphers, answers>>

L == INSTANCE RateLimiter
W == INSTANCE WebSockets
H == INSTANCE Webhooks WITH Setups <- Hooks, MaxPosts <- MaxTries, cut <- given
T == INSTANCE TeamsCredentials WITH
        now <- time, request <- verification, MaxTime <- LastTime
TG == INSTANCE Telegram WITH Updates <- Telegrams, AllowedUsers <- Users
DC == INSTANCE Discord WITH
         Updates <- Discords, GuildIds <- Guilds, CommandPrefix <- Prefix
SL == INSTANCE Slack WITH Updates <- Slacks
MX == INSTANCE Matrix WITH Updates <- Matrices
SG == INSTANCE Signal WITH Updates <- Signals
WA == INSTANCE WhatsAppClient WITH
         Updates <- WhatsApps, MaxPosts <- WhatsAppPosts,
         failed <- down, reply <- answer
SS == INSTANCE SignalSession WITH NoSession <- None
NS == INSTANCE Noise
RP == INSTANCE Replies WITH
         Setups <- Configured, MaxMessages <- MaxInbound,
         setup <- channelsOn, adapters <- enrolled, inbox <- arrived

EdgesAssumption ==
    /\ L!RateLimiterAssumption /\ W!WebSocketsAssumption /\ H!WebhooksAssumption
    /\ T!TeamsCredentialsAssumption /\ TG!ChannelsAssumption /\ MX!MatrixAssumption
    /\ SG!SignalAssumption /\ SS!SignalSessionAssumption /\ RP!RepliesAssumption
    /\ NS!NoiseAssumption

\* A request is between its clock and its lock; a connection between the
\* load of the gauge and its increment; a session between load and save.
InFlight == Cardinality({c \in Callers : call[c] # None})
              + Cardinality({c \in Conns : state[c] = "accepted"})
              + Cardinality({s \in {1, 2} : <<sending, receiving>>[s] # None})

EdgesInit == /\ L!Init /\ W!Init /\ H!Init /\ T!Init /\ SS!Init /\ NS!Init /\ RP!Init
             /\ TG!Init /\ DC!Init /\ SL!Init /\ MX!Init /\ SG!Init /\ WA!Init
             /\ part \in Parts /\ overlap \in BOOLEAN

Gate ==
    \/ part = "limiter" /\ L!Next /\ UNCHANGED <<sockets, hooks, teams>>
    \/ part = "sockets" /\ W!Next /\ UNCHANGED <<limiter, hooks, teams>>
    \/ part = "webhooks" /\ H!Next /\ UNCHANGED <<now, limiter, sockets, teams>>
    \/ part = "teams" /\ T!Next /\ UNCHANGED <<now, limiter, sockets, hooks>>

Adapter ==
    \/ part = "telegram" /\ TG!Next /\ UNCHANGED <<streams, slack, matrix, signal, native>>
    \/ part = "discord" /\ DC!Next /\ UNCHANGED <<polls, slack, matrix, signal, native>>
    \/ part = "slack" /\ SL!Next /\ UNCHANGED <<polls, matrix, signal, native>>
    \/ part = "matrix" /\ MX!Next /\ UNCHANGED <<polls, streams, slack, signal, native>>
    \/ part = "signal" /\ SG!Next /\ UNCHANGED <<polls, streams, slack, matrix, native>>
    \/ part = "whatsapp" /\ WA!Next /\ UNCHANGED <<polls, streams, slack, matrix, signal>>

\* Where calls do not overlap, one at a time is between its two steps.
EdgesNext == /\ \/ Gate /\ UNCHANGED <<adapters, ciphers, answers>>
                \/ Adapter /\ UNCHANGED <<gates, ciphers, answers>>
                \/ part = "session" /\ SS!Next /\ UNCHANGED <<gates, adapters, noise, answers>>
                \/ part = "noise" /\ NS!Next /\ UNCHANGED <<gates, adapters, session, answers>>
                \/ part = "replies" /\ RP!Next /\ UNCHANGED <<gates, adapters, ciphers>>
             /\ overlap \/ (InFlight <= 1 /\ InFlight' <= 1)
             /\ UNCHANGED <<part, overlap>>

EdgesSpec == EdgesInit /\ [][EdgesNext]_edgeVars

-----------------------------------------------------------------------------
\* Every variable keeps its type, whichever part acts.
TypeOK == /\ L!TypeOK /\ W!TypeOK /\ H!TypeOK /\ T!TypeOK
          /\ SS!TypeOK /\ RP!TypeOK /\ NS!TypeOK
          /\ part = "telegram" => TG!TypeOK
          /\ part = "discord" => DC!TypeOK
          /\ part = "slack" => SL!TypeOK
          /\ part = "matrix" => MX!TypeOK
          /\ part = "signal" => SG!TypeOK
          /\ part = "whatsapp" => WA!TypeOK

\* Requests that overlap exceed the maximum of any window by one for each
\* other request in flight, so requests that do not overlap never do; and these
\* are refused only when their window is full.
LimiterIsExact ==
    /\ []L!ExcessBounded
    /\ [][part = "limiter" /\ ~overlap => L!RefusesWhenFull]_edgeVars

\* The gauge counts the open connections and the tasks that have panicked; no
\* interval as long as a window holds more than two windows' messages; and
\* upgrades that do not overlap respect the cap.
SocketsAreLimited ==
    W!GaugeCountsOpen /\ W!TwoWindowsAtMost /\ (~overlap => W!ConnectionCap)

\* A batch the platform may forget has been published but for publications
\* that failed, and one that it repeats was published twice only because an
\* attempt at it was cut.
Receipts == H!Receipts

\* Tokens and keys in use are fresh although refreshes overlap.
CredentialsFresh == T!CredentialsFresh

\* Slack forgets only what was handed over or cut off by a crash, and what
\* comes twice between two starts was never acknowledged the first time.
SlackAccounts == part = "slack" => SL!AckedIsHanded /\ SL!TwiceOnlyUnacked

\* Each listener implements ChannelFeed: between two starts, messages in the
\* platform's order, none twice, none that is refused; Telegram loses none.
\* The order of Matrix is that of each room: a sync hands its rooms over one
\* after the other in no order, and skips what a timeline no longer holds.  A
\* restarted Matrix adapter repeats messages only when its initial sync has
\* failed.  Slack is not held to its order (see SlackAccounts).
Feeds == /\ []SlackAccounts
         /\ part = "telegram" => TG!Feed!Init
         /\ part = "discord" => DC!Feed!Init
         /\ part = "matrix" => MX!Feed!Init
         /\ part = "signal" => SG!Feed!Init
         /\ [][/\ part = "telegram" => TG!Feed!Next
               /\ part = "discord" => DC!Feed!Next
               /\ part = "matrix" => MX!Feed!Next /\ MX!Again
               /\ part = "signal" => SG!Feed!Next]_edgeVars

\* The WhatsApp adapter cannot be listening and silent: the end of its
\* connection is still to be handled, or the one new attempt has failed.
DownIsNoticed == part = "whatsapp" => WA!DownIsNoticed

\* A reply to a chat whose channel tells all of its address goes there,
\* whatever channels are registered.
RepliesReachPlainChats == RP!RepliesReachPlainChats

\* A connection of the WhatsApp client and its server agree on their keys and
\* stay in step until a frame is lost, and no key enciphers two frames under one
\* counter but those of the handshake, which all go under 0 (noise.rs:281); and
\* replies and received messages that take turns never use a key of their
\* session twice and leave no message undeciphered, until saving the session
\* fails or is cut by a crash.
CiphersAgree ==
    /\ NS!InStep
    /\ ~overlap /\ failedSaves = 0 => SS!KeysUsedOnce /\ SS!AllDecrypted
=============================================================================
