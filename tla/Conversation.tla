----------------------------- MODULE Conversation -----------------------------
(* Working memory, and the turns that read and write it.  A turn is a chat   *)
(* request, a message of a /ws connection or one of the inbound worker: it   *)
(* classifies its message, reads the conversation of its session, adds the   *)
(* message, calls the orchestrator and adds the answer, with no lock held    *)
(* from one step to the next.  Nothing ever clears a session.                *)
EXTENDS Integers, Sequences, FiniteSets, FiniteSetsExt

CONSTANTS Sessions,
          Turns,       \* turns, each with one message
          Sizes,       \* estimated tokens of a message
          MaxTokens    \* the context window of a session

VARIABLES working,     \* messages of a session, and total_tokens
          turn,        \* per turn: its step, session and context
          withdrawn    \* turns that ended after their message was added

vars == <<working, turn, withdrawn>>

Message == [role : {"user", "assistant"}, of : Turns, size : Sizes]

ConversationAssumption == Sizes \subseteq Nat /\ MaxTokens \in Nat

Idle == [pc |-> "new", session |-> "none", context |-> <<>>]

Init == /\ working = [s \in Sessions |-> [messages |-> <<>>, total |-> 0]]
        /\ turn = [t \in Turns |-> Idle]
        /\ withdrawn = {}

\* The total of a context.
Tokens(messages) ==
    LET upTo[i \in 0..Len(messages)] ==
            IF i = 0 THEN 0 ELSE upTo[i - 1] + messages[i].size
    IN  upTo[Len(messages)]

\* How many of the oldest messages go: as many as it takes to come within
\* the window, all but two at most.
Evicted(messages) ==
    LET enough == {n \in 0..Len(messages) :
                      \/ Tokens(SubSeq(messages, n + 1, Len(messages))) <= MaxTokens
                      \/ Len(messages) - n <= 2}
    IN Min(enough)

\* Mutant: what is evicted stays in the total.
PushKeepingTotal(s, m) ==
    LET all == Append(working[s].messages, m)
    IN working' = [working EXCEPT ![s] =
                     [messages |-> SubSeq(all, Evicted(all) + 1, Len(all)),
                      total |-> working[s].total + m.size]]

\* WorkingMemory::push.  No caller adds a system message, which alone would
\* not be evicted.
Push(s, m) ==
    LET all  == Append(working[s].messages, m)
        gone == Evicted(all)
    IN working' = [working EXCEPT ![s] =
                     [messages |-> SubSeq(all, gone + 1, Len(all)),
                      total |-> working[s].total + m.size - Tokens(SubSeq(all, 1, gone))]]

\* The session is known and the message is classified.
Begin(t, s) == /\ turn[t].pc = "new"
               /\ turn' = [turn EXCEPT ![t] = [pc |-> "classified", session |-> s,
                                               context |-> <<>>]]
               /\ UNCHANGED <<working, withdrawn>>

\* build_context_for_task: the conversation, or none for a caller who is
\* not known, or whose memory cannot be read.
ReadContext(t) ==
    /\ turn[t].pc = "classified"
    /\ \E known \in BOOLEAN :
          turn' = [turn EXCEPT ![t].pc = "context",
                               ![t].context = IF known THEN working[turn[t].session].messages
                                              ELSE <<>>]
    /\ UNCHANGED <<working, withdrawn>>

\* Mutant: the message is added before the conversation is read.
AddThenRead(t) ==
    /\ turn[t].pc = "context"
    /\ \E size \in Sizes :
          /\ Push(turn[t].session, [role |-> "user", of |-> t, size |-> size])
          /\ turn' = [turn EXCEPT ![t].pc = "asked",
                                  ![t].context = working'[turn[t].session].messages]
    /\ UNCHANGED withdrawn

AddMessage(t) ==
    /\ turn[t].pc = "context"
    /\ \E size \in Sizes : Push(turn[t].session, [role |-> "user", of |-> t, size |-> size])
    /\ turn' = [turn EXCEPT ![t].pc = "asked"]
    /\ UNCHANGED withdrawn

\* The orchestrator answers.
AddAnswer(t) ==
    /\ turn[t].pc = "asked"
    /\ \E size \in Sizes :
          Push(turn[t].session, [role |-> "assistant", of |-> t, size |-> size])
    /\ turn' = [turn EXCEPT ![t].pc = "done"]
    /\ UNCHANGED withdrawn

\* Classification or orchestration fails, or the client of a chat request
\* goes away and the handler is dropped at an await: the message stays.
Withdraw(t) ==
    /\ turn[t].pc \in {"classified", "asked"}
    /\ withdrawn' = IF turn[t].pc = "asked" THEN withdrawn \cup {t} ELSE withdrawn
    /\ turn' = [turn EXCEPT ![t].pc = "done"]
    /\ UNCHANGED working

Next == \E t \in Turns : \/ \E s \in Sessions : Begin(t, s)
                         \/ ReadContext(t) \/ AddMessage(t) \/ AddAnswer(t) \/ Withdraw(t)

Spec == Init /\ [][Next]_vars

TypeOK == /\ working \in [Sessions -> [messages : Seq(Message), total : Nat]]
          /\ turn \in [Turns -> [pc : {"new", "classified", "context", "asked", "done"},
                                 session : Sessions \cup {"none"}, context : Seq(Message)]]
          /\ withdrawn \subseteq Turns

Active == {t \in Turns : turn[t].pc \in {"classified", "context", "asked"}}

\* The total of a session is that of its messages, however many have come
\* and gone, and it exceeds the window only by the last two messages.
WindowKept ==
    \A s \in Sessions :
       /\ working[s].total = Tokens(working[s].messages)
       /\ working[s].total <= MaxTokens \/ Len(working[s].messages) <= 2

\* In the context of a turn, and in what it leaves behind, every answer
\* comes right after its question, unless the question has been evicted; a
\* question without an answer is one of a turn that was withdrawn; and the
\* message of the turn itself is not in its context.
InDialogue(messages) ==
    \A i \in DOMAIN messages :
       LET m == messages[i] IN
       IF m.role = "assistant"
       THEN i = 1 \/ (messages[i - 1].role = "user" /\ messages[i - 1].of = m.of)
       ELSE \/ m.of \in withdrawn \cup Active
            \/ i < Len(messages) /\ messages[i + 1].of = m.of

ContextIsDialogue ==
    /\ \A t \in Active : /\ InDialogue(turn[t].context)
                         /\ \A i \in DOMAIN turn[t].context : turn[t].context[i].of # t
    /\ \A s \in Sessions : InDialogue(working[s].messages)
=============================================================================
