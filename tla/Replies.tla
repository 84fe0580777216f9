------------------------------- MODULE Replies -------------------------------
(* The way of a reply back to its chat.  The adapters of the configuration  *)
(* are registered in turn, in a vector and in an index of it by kind; an    *)
(* inbound message carries the channel its adapter made of the chat; the    *)
(* inbound worker gives its reply that channel, and no metadata, to the     *)
(* adapter of the kind, which makes an address of it again.  The platforms  *)
(* are external: they deliver what they are given to the chat of an         *)
(* address, if they know one.                                               *)
EXTENDS Integers, Sequences, FiniteSets

CONSTANTS Setups,      \* what may be configured, by kind: see Kind
          Chats,       \* chats: kind, id, form and region
          MaxMessages  \* bound: inbound messages

VARIABLES setup, todo,     \* the configuration; kinds still to register
          adapters,        \* channel_adapters: kinds, in order
          adapterIndex,    \* positions in it, by kind
          inbox,           \* inbound messages on their way to the worker
          taken,           \* bound: messages so far
          replied,         \* pairs of a message's chat and its reply's address
          unrouted,        \* chats whose reply found no adapter
          up

vars == <<setup, todo, adapters, adapterIndex, inbox, taken, replied, unrouted, up>>

\* The order of register_adapters.
Order == <<"webchat", "telegram", "discord", "slack", "whatsapp", "signal", "matrix", "teams">>
Kinds == {Order[i] : i \in DOMAIN Order}

\* A channel is not there, has its token but is not enabled, is enabled
\* without the token it needs, or with it.
Kind == {"off", "idle", "bare", "full"}

Chat == [kind : Kinds, id : Nat, form : {"direct", "group"}, region : {"amer", "emea"}]

\* An id names one chat of its platform.
RepliesAssumption == /\ Setups \subseteq [Kinds -> Kind] /\ Chats \subseteq Chat
                     /\ \A c, d \in Chats : c.kind = d.kind /\ c.id = d.id => c = d
                     /\ MaxMessages \in Nat

Init == /\ setup \in Setups /\ todo = Order
        /\ adapters = <<>> /\ adapterIndex = [k \in {} |-> 0]
        /\ inbox = <<>> /\ taken = 0 /\ replied = {} /\ unrouted = {} /\ up = TRUE

\* WebChat needs no token, and WhatsApp without one runs its own client.
Wanted(kind) == \/ setup[kind] = "full"
                \/ setup[kind] = "bare" /\ kind \in {"webchat", "whatsapp"}

\* register_channel_adapter: the index is the length of the vector before
\* the push.
Enrol(kind) == /\ adapters' = Append(adapters, kind)
               /\ adapterIndex' = [k \in DOMAIN adapterIndex \cup {kind} |->
                                      IF k = kind THEN Len(adapters) ELSE adapterIndex[k]]

\* Mutant: an adapter is put in front of the others.
RegisterFirst == /\ todo # <<>> /\ todo' = Tail(todo)
                 /\ IF Wanted(Head(todo))
                    THEN /\ adapters' = <<Head(todo)>> \o adapters
                         /\ adapterIndex' = [k \in DOMAIN adapterIndex \cup {Head(todo)} |->
                                                IF k = Head(todo) THEN Len(adapters)
                                                ELSE adapterIndex[k]]
                    ELSE UNCHANGED <<adapters, adapterIndex>>
                 /\ UNCHANGED <<setup, inbox, taken, replied, unrouted, up>>

Register == /\ todo # <<>> /\ todo' = Tail(todo)
            /\ IF Wanted(Head(todo)) THEN Enrol(Head(todo))
                                     ELSE UNCHANGED <<adapters, adapterIndex>>
            /\ UNCHANGED <<setup, inbox, taken, replied, unrouted, up>>

\* The native client of WhatsApp takes the part before the @ of a JID.
Native == setup["whatsapp"] = "bare"

\* A message comes in through a listener; or through the webhook of its
\* channel, which needs no adapter, if the platform has a webhook at all.
ByListener(kind) == kind \in DOMAIN adapterIndex /\ kind \notin {"webchat", "teams"}
                      /\ (kind = "whatsapp" => Native)
ByWebhook(kind) == \/ kind \in {"slack", "telegram", "whatsapp"}
                        /\ setup[kind] \in {"bare", "full"}
                   \/ kind = "teams" /\ setup[kind] \in {"idle", "full"}

\* The Cloud API of WhatsApp has no groups.
Exists(chat) == chat.kind = "whatsapp" /\ ~Native => chat.form = "direct"

Inbound(chat) ==
    /\ up /\ todo = <<>> /\ taken < MaxMessages /\ Exists(chat)
    /\ ByListener(chat.kind) \/ ByWebhook(chat.kind)
    /\ inbox' = Append(inbox, [kind |-> chat.kind, channel |-> chat.id, from |-> chat])
    /\ taken' = taken + 1
    /\ UNCHANGED <<setup, todo, adapters, adapterIndex, replied, unrouted, up>>

\* What an adapter makes of a channel: Signal a phone number, the native
\* client of WhatsApp the JID of a person, and Teams, which looks for the
\* service of a conversation in the metadata, the American service.
NoChat == [kind |-> "none", id |-> 0, form |-> "direct", region |-> "amer"]
Delivered(kind, channel) ==
    LET known == {c \in Chats : /\ c.kind = kind /\ c.id = channel
                                /\ (kind = "signal" \/ (kind = "whatsapp" /\ Native)
                                       => c.form = "direct")
                                /\ kind = "teams" => c.region = "amer"}
    IN IF known = {} THEN NoChat ELSE CHOOSE c \in known : TRUE

\* The worker answers the next message: route_to_adapter looks the kind up
\* and the adapter sends; a reply that cannot be sent is only logged.
Route ==
    /\ inbox # <<>> /\ up
    /\ LET m == Head(inbox) IN
       IF m.kind \notin DOMAIN adapterIndex
       THEN unrouted' = unrouted \cup {m.from} /\ UNCHANGED replied
       ELSE /\ UNCHANGED unrouted
            /\ \/ replied' = replied \cup
                     {<<m.from, Delivered(adapters[adapterIndex[m.kind] + 1], m.channel)>>}
               \/ UNCHANGED replied
    /\ inbox' = Tail(inbox)
    /\ UNCHANGED <<setup, todo, adapters, adapterIndex, taken, up>>

\* shutdown_all, after the server: what is not answered is not answered.
ShutdownAll == /\ up /\ todo = <<>> /\ up' = FALSE
               /\ UNCHANGED <<setup, todo, adapters, adapterIndex, inbox, taken, replied, unrouted>>

Next == \/ Register \/ Route \/ ShutdownAll
        \/ \E chat \in Chats : Inbound(chat)

Spec == Init /\ [][Next]_vars

TypeOK == /\ setup \in Setups /\ todo \in Seq(Kinds) /\ adapters \in Seq(Kinds)
          /\ adapterIndex \in [DOMAIN adapterIndex -> 0..Len(Order)]
          /\ inbox \in Seq([kind : Kinds, channel : Nat, from : Chats])
          /\ taken \in 0..MaxMessages /\ up \in BOOLEAN
          /\ replied \subseteq Chats \X (Chats \cup {NoChat}) /\ unrouted \subseteq Chats

\* A reply goes to the chat of its message.
ToItsChat(chat) == \A r \in replied : r[1] = chat => r[2] = chat

\* Chats whose channel tells all of their address.
Plain(chat) ==
    /\ chat.kind = "signal" \/ (chat.kind = "whatsapp" /\ Native) => chat.form = "direct"
    /\ chat.kind = "teams" => chat.region = "amer"

\* Whatever is configured, in whatever order it is registered, the reply to
\* a message of a plain chat goes to that chat; and it finds no adapter only
\* if its channel was enabled without a token, or is not enabled at all.
RepliesReachPlainChats ==
    /\ \A chat \in Chats : Plain(chat) => ToItsChat(chat)
    /\ \A chat \in unrouted : setup[chat.kind] \in {"bare", "idle"}
=============================================================================
