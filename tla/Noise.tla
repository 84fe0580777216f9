--------------------------------- MODULE Noise ---------------------------------
(***************************************************************************)
(* One connection of the WhatsApp client: the Noise XX handshake of        *)
(* Transport::connect, then frames both ways, enciphered under a counter   *)
(* for each direction.  Several tasks send; the transport's mutex, which   *)
(* their callers hold, keeps the order of the counters and that of the     *)
(* socket together.                                                        *)
(*                                                                         *)
(* Abstractions: a key is the sequence of secrets it was derived from; a   *)
(* cipher text is its key, nonce and associated data, and opens under      *)
(* these only.  The server is external.                                    *)
(***************************************************************************)
EXTENDS Integers, Sequences, FiniteSets

CONSTANTS Senders,      \* tasks that send nodes
          CounterSize,  \* values of a counter: 2^32
          MaxFrames,    \* bound: frames each way
          None

VARIABLES at,           \* "new", "hello", "open" or "failed"
          h, ck,        \* the client's transcript and chaining key
          sendCounter, recvCounter,
          pending,      \* per sender: a frame that is not yet in the socket
          used,         \* history: keys and nonces of what the client enciphered
          dropped,      \* history: enciphered frames that were never sent
          counting,     \* the server counts its nonces in the handshake
          server,       \* what the server has: [at, h, ck, received, posted]
          inbound,      \* frames on their way to the client
          opened        \* history: what became of the frames that arrived

client == <<at, h, ck, sendCounter, recvCounter, pending, used, dropped>>
vars   == <<client, counting, server, inbound, opened>>

Cipher(key, nonce, ad) == [key |-> key, nonce |-> nonce, ad |-> ad]

\* The secrets of the pattern: the client's and the server's ephemeral and
\* static keys, combined.
ee == "ee"
es == "es"
se == "se"

\* split_keys: one key for each direction.
SendKey(k) == Append(k, "send")
RecvKey(k) == Append(k, "recv")

\* None stands for no frame.
NoiseAssumption ==
    /\ CounterSize \in Nat \ {0} /\ MaxFrames \in Nat
    /\ None \notin [key : {SendKey(<<ee, es, se>>)}, nonce : 0..CounterSize - 1, ad : {<< >>}]

\* init_handshake: the prologue and the ephemeral key are part of the hash.
Hello == <<"protocol", "prologue", "client ephemeral">>

Init == /\ at = "new" /\ h = <<"protocol">> /\ ck = << >>
        /\ sendCounter = 0 /\ recvCounter = 0
        /\ pending = [c \in Senders |-> None] /\ used = << >> /\ dropped = 0
        /\ counting \in BOOLEAN
        /\ server = [at |-> "wait", h |-> << >>, ck |-> << >>, received |-> 0, posted |-> 0]
        /\ inbound = << >> /\ opened = << >>

Fail == at' = "failed" /\ UNCHANGED <<h, ck, sendCounter, recvCounter, pending, used, dropped>>

\* The prologue, then the client hello; a send that fails ends the connect.
InitHandshake ==
    /\ at = "new"
    /\ \/ at' = "hello" /\ h' = Hello
          /\ UNCHANGED <<ck, sendCounter, recvCounter, pending, used, dropped>>
       \/ Fail
    /\ UNCHANGED <<counting, server, inbound, opened>>

\* The server answers with its keys, the static one and its certificate
\* enciphered; or with something else.
ServerHello ==
    /\ at = "hello" /\ server.at = "wait"
    /\ LET h1 == Append(Hello, "server_ephemeral")
           c1 == Cipher(<<ee>>, 0, h1)
           h2 == Append(h1, c1)
           c2 == Cipher(<<ee, es>>, 0, h2)
       IN \/ /\ inbound' = <<[static |-> c1, payload |-> c2]>>
             /\ server' = [server EXCEPT !.at = "answered", !.h = Append(h2, c2), !.ck = <<ee, es>>]
          \/ /\ inbound' = <<[static |-> None, payload |-> None]>>
             /\ server' = [server EXCEPT !.at = "gone"]
    /\ UNCHANGED <<client, counting, opened>>

\* process_server_hello and build_client_finish: both parts have to open; the
\* client's static key goes under the key that the server's payload came
\* under, its payload under the next, and the chaining key splits.
ClientFinish ==
    /\ at = "hello" /\ inbound # << >> /\ inbound' = << >>
    /\ LET c  == Head(inbound)
           h1 == Append(h, "server_ephemeral")
           h2 == Append(h1, c.static)
           h3 == Append(h2, c.payload)
           s1 == Cipher(<<ee, es>>, 0, h3)
           s2 == Cipher(<<ee, es, se>>, 0, Append(h3, s1))
       IN IF c.static = Cipher(<<ee>>, 0, h1) /\ c.payload = Cipher(<<ee, es>>, 0, h2)
          THEN /\ h' = h3 \o <<s1, s2>> /\ ck' = <<ee, es, se>>
               /\ used' = <<s1, s2>>
               /\ sendCounter' = 0 /\ recvCounter' = 0
               /\ at' \in {"open", "failed"}
               /\ UNCHANGED <<pending, dropped>>
          ELSE Fail
    /\ UNCHANGED <<counting, server, opened>>

\* The server opens both parts of the finish; the first with the second nonce
\* of its key if it counts, as the Noise protocol does.
ServerAccept ==
    /\ at = "open" /\ server.at = "answered"
    /\ LET s1 == Cipher(server.ck, IF counting THEN 1 ELSE 0, server.h)
           s2 == Cipher(Append(server.ck, se), 0, Append(server.h, s1))
       IN server' = IF used[1] = s1 /\ used[2] = s2
                    THEN [server EXCEPT !.at = "open", !.h = server.h \o <<s1, s2>>,
                                        !.ck = Append(server.ck, se)]
                    ELSE [server EXCEPT !.at = "refused"]
    /\ UNCHANGED <<client, counting, inbound, opened>>

-----------------------------------------------------------------------------
(* Frames.  A caller holds the transport's mutex over the whole of         *)
(* send_node: no other sender is between its two steps.                    *)

Mutex == \A c \in Senders : pending[c] = None

\* encrypt: the counter is taken under the lock of the handler alone; a
\* release build wraps it.
Enciphered(c) ==
    LET frame == Cipher(SendKey(ck), sendCounter, << >>) IN
    /\ at = "open" /\ pending[c] = None /\ Len(used) < MaxFrames + 2
    /\ pending' = [pending EXCEPT ![c] = frame]
    /\ used' = Append(used, frame)
    /\ sendCounter' = (sendCounter + 1) % CounterSize
    /\ UNCHANGED <<at, h, ck, recvCounter, dropped, counting, server, inbound, opened>>

\* Mutant: senders do without the transport's mutex.
EncryptUnlocked(c) == Enciphered(c)

Encrypt(c) == Mutex /\ Enciphered(c)

\* The frame goes into the socket, after the client finish; the server opens
\* it under its own count.  If the socket fails the counter has moved on.
SendFrame(c) ==
    /\ pending[c] # None /\ server.at # "answered"
    /\ pending' = [pending EXCEPT ![c] = None]
    /\ \/ /\ server.at = "open" /\ UNCHANGED dropped
          /\ server' = IF pending[c] = Cipher(SendKey(server.ck), server.received, << >>)
                       THEN [server EXCEPT !.received = (@ + 1) % CounterSize]
                       ELSE [server EXCEPT !.at = "refused"]
       \/ dropped' = dropped + 1 /\ UNCHANGED server
    /\ UNCHANGED <<at, h, ck, sendCounter, recvCounter, used, counting, inbound, opened>>

\* The server sends a frame with a header of its length, or without; of the
\* latter a few begin as a header would.
Post(form) ==
    /\ server.at = "open" /\ server.posted < MaxFrames
    /\ inbound' = Append(inbound, [form |-> form, cipher |->
           Cipher(RecvKey(server.ck), server.posted % CounterSize, << >>)])
    /\ server' = [server EXCEPT !.posted = @ + 1]
    /\ UNCHANGED <<client, counting, opened>>

\* Mutant: the counter moves only when the frame opens.
CountOpened(ok) == IF ok THEN (recvCounter + 1) % CounterSize ELSE recvCounter

Count(ok) == (recvCounter + 1) % CounterSize

\* recv_node: what looks like a header is taken off, and the counter moves on
\* whether the frame opens or not; after an error a pairing reads on, and the
\* receive loop ends.
RecvNode ==
    /\ at = "open" /\ inbound # << >> /\ inbound' = Tail(inbound)
    /\ LET f  == Head(inbound)
           ok == f.form # "lookalike" /\ f.cipher = Cipher(RecvKey(ck), recvCounter, << >>)
       IN /\ recvCounter' = Count(ok)
          /\ opened' = Append(opened, [form |-> f.form, ok |-> ok])
          /\ at' \in IF ok THEN {"open"} ELSE {"open", "failed"}
    /\ UNCHANGED <<h, ck, sendCounter, pending, used, dropped, counting, server>>

Next == \/ InitHandshake \/ ServerHello \/ ClientFinish \/ ServerAccept \/ RecvNode
        \/ \E c \in Senders : Encrypt(c) \/ SendFrame(c)
        \/ \E form \in {"framed", "bare", "lookalike"} : Post(form)

Spec == Init /\ [][Next]_vars

-----------------------------------------------------------------------------
TypeOK == /\ at \in {"new", "hello", "open", "failed"}
          /\ sendCounter \in 0..CounterSize - 1 /\ recvCounter \in 0..CounterSize - 1
          /\ server.received \in 0..CounterSize - 1 /\ server.posted \in 0..MaxFrames
          /\ DOMAIN pending = Senders /\ dropped \in Nat

\* The two ends stay in step: after the handshake they have the same hash and
\* keys; the server refuses the client only if it counts nonces in the
\* handshake, or a frame was lost; a frame fails to open only if it was taken
\* for one with a header; and no key enciphers two frames of the transport
\* under one nonce before the counter has come round.
InStep ==
    /\ server.at = "open" => server.h = h /\ server.ck = ck
    /\ server.at = "refused" => counting \/ dropped > 0
    /\ \A i \in DOMAIN opened : opened[i].ok <=> opened[i].form # "lookalike"
    /\ \A i, j \in DOMAIN used : i < j /\ used[i] = used[j] => j - i >= CounterSize
=============================================================================
