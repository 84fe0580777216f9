------------------------------ MODULE Webhooks -------------------------------
(* POST /webhooks/{channel}: a platform posts a batch of messages and posts *)
(* it again until it is answered with success; the handler authenticates    *)
(* the request, publishes the messages one by one and answers.              *)
EXTENDS Integers, Sequences, FiniteSets

CONSTANTS Messages,     \* every message is posted in one batch
          Batch,        \* the messages of a batch, by batch
          Setups,       \* what the operator may have configured
          None,
          MaxPosts,     \* bound: attempts of the platform at a batch
          MaxFails      \* bound: publications that fail

VARIABLES setup,        \* channel, enabled, secret, and the app id for Teams
          tries,        \* attempts at each batch
          request,      \* the request being handled, by batch: what is left
          answered,     \* batches answered with success, as the platform knows
          cut,          \* batches with an attempt that the platform gave up
          published,    \* messages published, in order
          failed,       \* messages whose publication failed
          fails

vars == <<setup, tries, request, answered, cut, published, failed, fails>>

Batches == DOMAIN Batch

WebhooksAssumption == /\ Batch \in [Batches -> Seq(Messages)]
                      /\ \A b, c \in Batches : \A i \in DOMAIN Batch[b], j \in DOMAIN Batch[c] :
                            Batch[b][i] = Batch[c][j] => b = c /\ i = j
                      /\ None \notin Messages \cup Seq(Messages)
                      /\ MaxPosts \in Nat /\ MaxFails \in Nat

Init == /\ setup \in Setups
        /\ tries = [b \in Batches |-> 0]
        /\ request = [b \in Batches |-> None]
        /\ answered = {} /\ cut = {} /\ published = <<>> /\ failed = {}
        /\ fails = 0

\* What a platform that was set up by this program sends along: WhatsApp and
\* Slack sign with the secret the operator has copied from them, Teams brings
\* its token, and Telegram brings the token of setWebhook, which is called
\* without one.
Header == IF setup.channel = "telegram" THEN "missing" ELSE "good"

\* The handlers of the four channels.
Authentic ==
    CASE setup.channel = "whatsapp" -> setup.secret => Header = "good"
      [] setup.channel = "slack"    -> setup.secret => Header = "good"
      [] setup.channel = "telegram" -> setup.secret => Header = "good"
      [] setup.channel = "teams"    -> Header = "good" /\ setup.secret
Enabled == setup.channel = "teams" \/ setup.enabled

\* A request arrives; the platform has given up the one before it.
Arrive(b) ==
    /\ request[b] = None /\ b \notin answered /\ tries[b] < MaxPosts
    /\ tries' = [tries EXCEPT ![b] = @ + 1]
    /\ request' = [request EXCEPT ![b] = IF Enabled /\ Authentic THEN Batch[b] ELSE None]
    /\ UNCHANGED <<setup, answered, cut, published, failed, fails>>

\* Mutant: an error ends the loop.
PublishOrStop(b) ==
    /\ request[b] \notin {None, <<>>}
    /\ LET m == Head(request[b]) IN
          \/ /\ published' = Append(published, m) /\ UNCHANGED <<failed, fails>>
             /\ request' = [request EXCEPT ![b] = Tail(@)]
          \/ /\ fails < MaxFails /\ fails' = fails + 1
             /\ failed' = failed \cup {m} /\ UNCHANGED published
             /\ request' = [request EXCEPT ![b] = <<>>]
    /\ UNCHANGED <<setup, tries, answered, cut>>

\* publish() of the next message; an error is logged and the loop goes on.
Publish(b) ==
    /\ request[b] \notin {None, <<>>}
    /\ LET m == Head(request[b]) IN
          \/ published' = Append(published, m) /\ UNCHANGED <<failed, fails>>
          \/ /\ fails < MaxFails /\ fails' = fails + 1
             /\ failed' = failed \cup {m} /\ UNCHANGED published
    /\ request' = [request EXCEPT ![b] = Tail(@)]
    /\ UNCHANGED <<setup, tries, answered, cut>>

\* 200, whatever became of the messages.
Answer(b) == /\ request[b] = <<>>
             /\ request' = [request EXCEPT ![b] = None]
             /\ answered' = answered \cup {b}
             /\ UNCHANGED <<setup, tries, cut, published, failed, fails>>

\* The platform stops waiting, or the process dies: the handler is dropped
\* where it is, or its answer is lost.
GiveUp(b) == /\ request[b] # None
             /\ request' = [request EXCEPT ![b] = None]
             /\ cut' = cut \cup {b}
             /\ UNCHANGED <<setup, tries, answered, published, failed, fails>>

Next == \E b \in Batches : Arrive(b) \/ Publish(b) \/ Answer(b) \/ GiveUp(b)

Spec == Init /\ [][Next]_vars

TypeOK == /\ setup \in Setups /\ tries \in [Batches -> 0..MaxPosts]
          /\ request \in [Batches -> Seq(Messages) \cup {None}]
          /\ {answered, cut} \subseteq SUBSET Batches
          /\ published \in Seq(Messages) /\ failed \subseteq Messages
          /\ fails \in 0..MaxFails

Was(m) == \E i \in DOMAIN published : published[i] = m
BatchOf(m) == CHOOSE b \in Batches : \E i \in DOMAIN Batch[b] : Batch[b][i] = m

\* What a platform may forget has been published, unless its publication
\* failed; and a message is published twice only when an attempt at its
\* batch was given up, a failed publication never making it come again.
Receipts ==
    /\ \A b \in answered : \A i \in DOMAIN Batch[b] :
          Was(Batch[b][i]) \/ Batch[b][i] \in failed
    /\ \A i, j \in DOMAIN published :
          i < j /\ published[i] = published[j] => BatchOf(published[i]) \in cut
=============================================================================
