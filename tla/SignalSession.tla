--------------------------- MODULE SignalSession ----------------------------
(* The Signal session of one contact.  A reply and the receive loop each    *)
(* load it from its file, advance one of its chains and save it.  The file  *)
(* is not locked, a save truncates it before it writes, and one that fails  *)
(* is only logged.  The contact is external: its messages are numbered      *)
(* along the chains it starts.                                              *)
EXTENDS Integers, Sequences, FiniteSets

CONSTANTS NoSession,
          Torn,         \* a file that does not parse
          MaxSent,      \* bound: messages each side sends
          MaxChains,    \* bound: chains of one session
          MaxFailed     \* bound: saves that fail or are cut by a crash

VARIABLES file,      \* the session on disk
          sending, receiving,   \* what the reply and the loop hold in memory
          saving,    \* those of the two that have truncated the file
          inbox,     \* the contact's messages that the server holds, in order
          peer,      \* the contact's chain, and its messages on it
          sent,      \* keys our messages were encrypted with, in order
          lost,      \* a message of the contact was given up
          failedSaves

vars == <<file, sending, receiving, saving, inbox, peer, sent, lost, failedSaves>>

\* A key is a place on a chain of a session; every bootstrap draws a key of
\* its own, so its session is told by the message that it is made for.
Start(boot, chain) == [boot |-> boot, chain |-> chain, n |-> 0]
Place   == [boot : Nat, chain : 0..MaxChains, n : Nat]
Session == [remote : 0..MaxChains, send : Place, recv : Place]

\* The contact's own chain is the first after that of its keys.
SignalSessionAssumption == /\ {MaxSent, MaxFailed} \subseteq Nat /\ MaxChains \in Nat \ {0}
                           /\ {NoSession, Torn} \cap Session = {} /\ NoSession # Torn

\* from_prekey_bundle: both chains start from one key.
Bootstrapped == LET first == Start(Len(sent) + 1, 0)
                IN  [remote |-> 0, send |-> first, recv |-> first]

\* encrypt: the key of the place, and the next place.
Advance(chain) == [chain EXCEPT !.n = @ + 1]

\* decrypt: a new ratchet key starts both chains; the number and the
\* authentication code of the message are not looked at.
Ratcheted(s, m) ==
    IF m.chain = s.remote THEN s
    ELSE [remote |-> m.chain, send |-> Start(s.send.boot, m.chain),
          recv |-> Start(s.recv.boot, m.chain)]

Decrypts(s, m) == Ratcheted(s, m).recv = m
Decrypted(s, m) == [Ratcheted(s, m) EXCEPT !.recv = Advance(@)]

Init == /\ file = NoSession /\ sending = NoSession /\ receiving = NoSession /\ saving = {}
        /\ inbox = <<>> /\ peer = Start(1, 1)
        /\ sent = <<>> /\ lost = FALSE /\ failedSaves = 0

\* The contact writes, on its chain, on a new one or in a later session of
\* ours; before our first message it has no session with us.
PeerWrites == /\ sent # <<>> /\ peer.n < MaxSent
              /\ \E p \in {peer}
                         \cup (IF peer.chain < MaxChains
                               THEN {Start(peer.boot, peer.chain + 1)} ELSE {})
                         \cup {Start(sent[i].boot, 1) :
                                 i \in {j \in DOMAIN sent : sent[j].boot > peer.boot}} :
                    inbox' = Append(inbox, p) /\ peer' = Advance(p)
              /\ UNCHANGED <<file, sending, receiving, saving, sent, lost, failedSaves>>

\* send_text loads the session; if there is none, or it does not parse, it
\* gets one from the contact's keys (without these the text goes out in clear,
\* and nothing changes here).
SendLoad == /\ sending = NoSession /\ Len(sent) < MaxSent
            /\ sending' = IF file \in {NoSession, Torn} THEN Bootstrapped ELSE file
            /\ UNCHANGED <<file, receiving, saving, inbox, peer, sent, lost, failedSaves>>

\* fs::write opens and truncates the file, then writes it.
Truncate(who) == /\ who \notin saving /\ saving' = saving \cup {who} /\ file' = Torn
                 /\ UNCHANGED <<sending, receiving, inbox, peer, sent, lost, failedSaves>>

\* The session is written (over another's, it may leave the end of a longer
\* one); or it is not, and the file is as it was before or after the opening.
Save(who, session) ==
    /\ saving' = saving \ {who}
    /\ \/ /\ who \in saving /\ UNCHANGED failedSaves
          /\ file' \in IF file = Torn THEN {session} ELSE {session, Torn}
       \/ /\ failedSaves < MaxFailed /\ failedSaves' = failedSaves + 1
          /\ file' \in IF who \in saving THEN {file, Torn} ELSE {file}

SendTruncate == sending # NoSession /\ Truncate("reply")

\* Mutant: the session is saved before it is advanced.
SaveSend == /\ sending # NoSession
            /\ Save("reply", sending)
            /\ sent' = Append(sent, sending.send)
            /\ sending' = NoSession
            /\ UNCHANGED <<receiving, inbox, peer, lost>>

\* encrypt, save and send: the message goes out whether it is saved or not.
SendSave == /\ sending # NoSession
            /\ Save("reply", [sending EXCEPT !.send = Advance(@)])
            /\ sent' = Append(sent, sending.send)
            /\ sending' = NoSession
            /\ UNCHANGED <<receiving, inbox, peer, lost>>

\* The loop loads the session of a message's sender; without one the message
\* is passed over.
ReadLoad == /\ inbox # <<>> /\ receiving = NoSession
            /\ IF file = NoSession
               THEN /\ inbox' = Tail(inbox) /\ lost' = TRUE
                    /\ UNCHANGED receiving
               ELSE receiving' = file /\ UNCHANGED <<inbox, lost>>
            /\ UNCHANGED <<file, sending, saving, peer, sent, failedSaves>>

Reads == receiving \notin {NoSession, Torn} /\ Decrypts(receiving, Head(inbox))

ReadTruncate == Reads /\ Truncate("loop")

\* A message whose session does not parse, or that does not decrypt, is
\* dropped and nothing is saved.
ReadSave == /\ receiving # NoSession
            /\ IF Reads
               THEN /\ Save("loop", Decrypted(receiving, Head(inbox)))
                    /\ UNCHANGED lost
               ELSE /\ lost' = TRUE
                    /\ UNCHANGED <<file, saving, failedSaves>>
            /\ inbox' = Tail(inbox) /\ receiving' = NoSession
            /\ UNCHANGED <<sending, peer, sent>>

\* The process dies between a load and the end of a save; one that has begun
\* is cut.
Crash == /\ sending' = NoSession /\ receiving' = NoSession /\ saving' = {}
         /\ <<sending, receiving>> # <<NoSession, NoSession>>
         /\ IF saving = {} THEN UNCHANGED failedSaves
            ELSE failedSaves < MaxFailed /\ failedSaves' = failedSaves + 1
         /\ UNCHANGED <<file, inbox, peer, sent, lost>>

Next == \/ PeerWrites \/ SendLoad \/ SendTruncate \/ SendSave
        \/ ReadLoad \/ ReadTruncate \/ ReadSave \/ Crash

Spec == Init /\ [][Next]_vars

TypeOK == /\ sending \in Session \cup {NoSession}
          /\ {file, receiving} \subseteq Session \cup {NoSession, Torn}
          /\ saving \subseteq {"reply", "loop"} /\ failedSaves \in 0..MaxFailed /\ lost \in BOOLEAN

\* No key encrypts two messages.
KeysUsedOnce == \A i, j \in DOMAIN sent : i # j => sent[i] # sent[j]

\* Everything the server delivers is decrypted.
AllDecrypted == ~lost
=============================================================================
