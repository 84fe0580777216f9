--------------------------- MODULE WhatsAppClient ----------------------------
(* The WhatsApp adapter in native mode and the client it owns: one task     *)
(* that connects, hands events over and reconnects; a receive loop for      *)
(* every connection, which keeps the transport's mutex while it waits for a *)
(* node; and the replies, which need the same mutex under the mutex of the  *)
(* client handle.                                                           *)
EXTENDS Channels

CONSTANT MaxLinks       \* bound: connections

VARIABLES paired,      \* credentials on disk
          task,        \* "new", "pairing", "listening", "pause", "leaving" or "gone"
          qr,          \* the reference of a pairing: "none" or "ref" (received)
          handle,      \* the client is in the handle that replies use
          connected,
          failed,      \* the last attempt to connect again has failed
          links,       \* connections: open, the receive loop, nodes in transit
          events,      \* the client's queue to the task
          reply,       \* pc of the reply in progress, and its connection
          halting      \* shutdown() and disconnect(): [stop, closing, notes]

waVars == <<shared, paired, task, qr, handle, connected, failed, links, events, reply, halting>>

\* The events of the queue that are not messages.
Connected == 0
Disconnected == -1

Idle == [pc |-> "idle", link |-> 0]

\* stop: shutdown() has "none" of its steps behind it, the flag, or all;
\* closing: it, or the task, is in disconnect(), "nobody" is;
\* notes: loops that are told to end and have not.
Running == [stop |-> "none", closing |-> "nobody", notes |-> 0]

Init == /\ SharedInit
        /\ paired \in BOOLEAN /\ task = "new" /\ qr = "none"
        /\ handle = FALSE /\ connected = FALSE /\ failed = FALSE
        /\ links = <<>> /\ events = <<>> /\ reply = Idle /\ halting = Running

\* A text that was deciphered: one in clear arrives as bytes, where no text is
\* looked for, unless it is a word of the token table.
Accepts(u) == u.form \in {"deciphered", "word"}

Current == Len(links)
Link(loop) == [open |-> TRUE, loop |-> loop, wire |-> <<>>]

\* connect() with credentials: the handshake, the flag, the event, the loop.
Linked == /\ Len(links) < MaxLinks
          /\ links' = Append(links, Link("holding"))
          /\ connected' = TRUE
          /\ events' = Append(events, Connected)

\* The flag of the adapter is looked at before an event is waited for.
Goes == task' = IF running THEN "listening" ELSE "leaving"

\* The first connect; a failure ends the task.
Begin == /\ task = "new"
         /\ \/ task' = "gone" /\ UNCHANGED <<links, connected, events, handle>>
            \/ paired /\ Linked /\ Goes /\ handle' = TRUE
            \/ /\ ~paired /\ links' = <<Link("none")>> /\ task' = "pairing"
               /\ UNCHANGED <<connected, events, handle>>
         /\ UNCHANGED <<shared, paired, qr, failed, reply, halting>>

\* The first nodes of a pairing: the reference arrives, or an error or ten
\* other nodes.
PairingRef == /\ task = "pairing" /\ qr = "none"
              /\ \/ qr' = "ref" /\ UNCHANGED task
                 \/ task' = "gone" /\ UNCHANGED qr
              /\ UNCHANGED <<shared, paired, handle, connected, failed, links, events, reply, halting>>

\* The public key is read with blocking_lock(), which panics in a task.
ShowQr == /\ task = "pairing" /\ qr = "ref" /\ task' = "gone"
          /\ UNCHANGED <<shared, paired, qr, handle, connected, failed, links, events, reply, halting>>

Write == /\ Post
         /\ links' = IF links # <<>> /\ links[Current].open
                     THEN [links EXCEPT ![Current].wire = Append(@, Len(posted'))]
                     ELSE links
         /\ UNCHANGED <<paired, task, qr, handle, connected, failed, events, reply, halting>>

\* The loop reads a node, and lets the mutex go while it handles it.
Read(i, wire, news) ==
    /\ links[i].loop = "holding" /\ links[i].open
    /\ links' = [links EXCEPT ![i].loop = "handling", ![i].wire = wire]
    /\ events' = events \o news
    /\ UNCHANGED <<shared, paired, task, qr, handle, connected, failed, reply, halting>>

ReadMessage(i) ==
    LET wire == links[i].wire IN
    /\ wire # <<>>
    /\ Read(i, Tail(wire), IF Accepts(posted[Head(wire)]) THEN <<Head(wire)>> ELSE <<>>)

\* A receipt, an acknowledgement, a notification or an answer.
ReadControl(i) == Read(i, links[i].wire, <<>>)

\* The stream error announces the end; the loop goes on (bound: while no
\* other end is announced).
Announced == \E j \in DOMAIN events : events[j] = Disconnected

ReadStreamError(i) == /\ ~Announced
                      /\ Read(i, links[i].wire, <<Disconnected>>)

Waits(i) == \/ reply.link = i /\ reply.pc \in {"asking", "sending"}
            \/ i = Current /\ halting.closing # "nobody"

\* The mutex is fair: who waits for it comes first.
Relock(i) == /\ links[i].loop = "handling" /\ ~Waits(i)
             /\ links' = [links EXCEPT ![i].loop = "holding"]
             /\ UNCHANGED <<shared, paired, task, qr, handle, connected, failed,
                            events, reply, halting>>

\* The connection ends; a loop that reads it clears the flag of the client,
\* whichever connection that has by now.
Close(i) == /\ links[i].open
            /\ links' = [links EXCEPT ![i].open = FALSE, ![i].wire = <<>>]
            /\ UNCHANGED <<shared, paired, task, qr, handle, connected, failed, events, reply, halting>>

\* Mutant: the loop ends without a word.
EndLoopSilently(i) == /\ links[i].loop = "holding" /\ ~links[i].open
                      /\ links' = [links EXCEPT ![i].loop = "none"]
                      /\ connected' = FALSE
                      /\ UNCHANGED <<shared, paired, task, qr, handle, failed, events, reply, halting>>

EndLoop(i) == /\ links[i].loop = "holding" /\ ~links[i].open
              /\ links' = [links EXCEPT ![i].loop = "none"]
              /\ connected' = FALSE
              /\ events' = Append(events, Disconnected)
              /\ UNCHANGED <<shared, paired, task, qr, handle, failed, reply, halting>>

\* The handle is taken by replies and disconnects.
Unlocked == reply = Idle /\ halting.closing = "nobody"

Handle == /\ task = "listening" /\ events # <<>>
          /\ events' = Tail(events)
          /\ IF Head(events) = Disconnected /\ running THEN task' = "pause" ELSE Goes
          /\ IF Head(events) \in Posts THEN Send(Head(events)) ELSE UNCHANGED <<handed, ever>>
          /\ UNCHANGED <<posted, settled, running, stops, paired, qr, handle, connected,
                         failed, links, reply, halting>>

\* One attempt, five seconds later; if it fails nobody tries again.
Reconnect == /\ task = "pause" /\ Unlocked /\ Goes
             /\ \/ Linked /\ failed' = FALSE
                \/ failed' = TRUE /\ UNCHANGED <<links, connected, events>>
             /\ UNCHANGED <<shared, paired, qr, handle, reply, halting>>

\* send_text_native: the handle, the flag, and a session or a request for
\* the keys of one.
Reply == /\ Unlocked /\ handle /\ connected
         /\ \E pc \in {"asking", "sending"} : reply' = [pc |-> pc, link |-> Current]
         /\ UNCHANGED <<shared, paired, task, qr, handle, connected, failed, links, events, halting>>

Free(i) == links[i].loop # "holding"
Mutex == reply.link # 0 /\ Free(reply.link)

\* The request for the keys goes out, and its waiter is answered by the
\* loop, dropped after 10 s, or never sent.
Ask == /\ reply.pc = "asking" /\ Mutex
       /\ reply' = [reply EXCEPT !.pc = IF links[reply.link].open THEN "answer" ELSE "session"]
       /\ UNCHANGED <<shared, paired, task, qr, handle, connected, failed, links, events, halting>>

\* With or without a session: the body goes encrypted or in clear.
Answer == /\ reply.pc \in {"answer", "session"}
          /\ reply' = [reply EXCEPT !.pc = "sending"]
          /\ UNCHANGED <<shared, paired, task, qr, handle, connected, failed, links, events, halting>>

Sent == /\ reply.pc = "sending" /\ Mutex /\ reply' = Idle
        /\ UNCHANGED <<shared, paired, task, qr, handle, connected, failed, links, events, halting>>

\* shutdown(): the flag first.
StopFlag == /\ Shutdown /\ halting' = [halting EXCEPT !.stop = "flag"]
            /\ UNCHANGED <<paired, task, qr, handle, connected, failed, links, events, reply>>

\* disconnect() under the handle's mutex: notify_one tells one loop to end,
\* and if none waits keeps the note for the next.
Disconnect(who) ==
    /\ Unlocked /\ handle /\ connected' = FALSE
    /\ \E n \in {1, halting.notes + 1} :
          halting' = [halting EXCEPT !.closing = who, !.notes = n]
    /\ UNCHANGED <<shared, paired, task, qr, handle, failed, links, events, reply>>

Stop  == halting.stop = "flag" /\ Disconnect("shutdown")
Leave == task = "leaving" /\ Disconnect("task")

\* Without a client shutdown() has nothing to close.
StopEarly == /\ halting.stop = "flag" /\ Unlocked /\ ~handle
             /\ halting' = [halting EXCEPT !.stop = "done"]
             /\ UNCHANGED <<shared, paired, task, qr, handle, connected, failed, links,
                            events, reply>>

\* Any loop may take the note, that of an older connection, too.
Notified(i) == /\ halting.notes > 0 /\ links[i].loop # "none"
               /\ halting' = [halting EXCEPT !.notes = @ - 1]
               /\ links' = [links EXCEPT ![i].loop = "none"]
               /\ UNCHANGED <<shared, paired, task, qr, handle, connected, failed, events, reply>>

\* Once it has the mutex of the current connection it closes that; the task
\* drops the client and ends.
Closed == /\ halting.closing # "nobody" /\ Free(Current)
          /\ links' = [links EXCEPT ![Current].open = FALSE, ![Current].wire = <<>>]
          /\ halting' = [halting EXCEPT !.closing = "nobody",
                            !.stop = IF halting.closing = "shutdown" THEN "done" ELSE @]
          /\ IF halting.closing = "task" THEN task' = "gone" /\ handle' = FALSE
             ELSE UNCHANGED <<task, handle>>
          /\ UNCHANGED <<shared, paired, qr, connected, failed, events, reply>>

Restart == /\ Die /\ task' = "new" /\ qr' = "none" /\ handle' = FALSE
           /\ connected' = FALSE /\ failed' = FALSE
           /\ links' = <<>> /\ events' = <<>> /\ reply' = Idle /\ halting' = Running
           /\ UNCHANGED paired

Next == \/ Begin \/ PairingRef \/ ShowQr \/ Write \/ Handle \/ Reconnect
        \/ Reply \/ Ask \/ Answer \/ Sent \/ StopFlag \/ Stop \/ StopEarly \/ Leave
        \/ Closed \/ Restart
        \/ \E i \in DOMAIN links :
              ReadMessage(i) \/ ReadControl(i) \/ ReadStreamError(i) \/ Relock(i)
                 \/ Close(i) \/ EndLoop(i) \/ Notified(i)

Spec == Init /\ [][Next]_waVars

TypeOK == /\ SharedTypeOK
          /\ task \in {"new", "pairing", "listening", "pause", "leaving", "gone"}
          /\ qr \in {"none", "ref"}
          /\ {paired, handle, connected, failed} \subseteq BOOLEAN
          /\ \A i \in DOMAIN links : /\ links[i].open \in BOOLEAN
                                     /\ links[i].loop \in {"none", "holding", "handling"}
                                     /\ links[i].wire \in Seq(Posts)
          /\ halting \in [stop : {"none", "flag", "done"}, notes : Nat,
                           closing : {"nobody", "shutdown", "task"}]
          /\ reply.pc \in {"idle", "asking", "answer", "session", "sending"}
          /\ reply.link \in 0..Len(links)

\* While it listens, an adapter that cannot send still has the end of a
\* connection to handle, or has failed to connect again: the loop of an
\* older connection that ends late never leaves it silent.
DownIsNoticed ==
    (task = "listening" /\ running /\ ~connected) =>
        failed \/ Announced
=============================================================================
