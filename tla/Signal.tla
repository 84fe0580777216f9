------------------------------- MODULE Signal -------------------------------
(* The Signal adapter: a signal-cli child whose standard output carries the *)
(* messages and whose standard input carries the replies.  Its standard     *)
(* error is a pipe that nobody reads.                                       *)
EXTENDS Channels

CONSTANT StderrRoom    \* lines of log the pipe holds

SignalAssumption == StderrRoom \in Nat

VARIABLES child,       \* "none", "up" or "exited"
          reader,      \* of its output: "flag", "line" (waits for one) or "gone"
          stdin,       \* the adapter has a handle to write to
          pipe,        \* messages printed and not yet read
          stderr       \* lines printed and never read

sgVars == <<shared, child, reader, stdin, pipe, stderr>>

Init == /\ SharedInit /\ child = "none" /\ reader = "gone" /\ stdin = FALSE
        /\ pipe = <<>> /\ stderr = 0

\* A text that is not one of ours.
Accepts(u) == ~u.own /\ u.text

Spawn == /\ running /\ child = "none"
         /\ child' = "up" /\ reader' = "flag" /\ stdin' = TRUE /\ stderr' = 0
         /\ UNCHANGED <<shared, pipe>>

\* The child takes a message from the service and prints it, be it that
\* nobody reads any more; a child that waits for room on its standard error
\* does neither.
Blocked == stderr = StderrRoom

Offer == /\ child = "up" /\ ~Blocked
         /\ \E p \in Posts \ settled :
               /\ \A q \in Posts \ settled : p <= q
               /\ settled' = settled \cup {p}
               /\ pipe' = IF reader = "gone" THEN pipe ELSE Append(pipe, p)
         /\ UNCHANGED <<posted, handed, ever, running, stops, child, reader, stdin, stderr>>

Log == /\ child = "up" /\ ~Blocked /\ stderr' = stderr + 1
       /\ UNCHANGED <<shared, child, reader, stdin, pipe>>

\* The flag is looked at before a line is waited for.
Look == /\ running /\ reader = "flag" /\ reader' = "line"
        /\ UNCHANGED <<shared, child, stdin, pipe, stderr>>

ReadLine == /\ reader = "line" /\ pipe # <<>>
            /\ reader' = "flag" /\ pipe' = Tail(pipe)
            /\ Take(Head(pipe), Accepts(posted[Head(pipe)]))
            /\ UNCHANGED <<posted, settled, running, stops, child, stdin, stderr>>

\* The flag, the end of the output or an error of the read ends the reading,
\* and the handle to write to is dropped.
Leave == /\ \/ reader = "flag" /\ ~running
            \/ reader = "line"
         /\ reader' = "gone" /\ stdin' = FALSE /\ pipe' = <<>>
         /\ UNCHANGED <<shared, child, stderr>>

\* It exits by itself, or because its standard input was closed.
Exit == /\ child = "up" /\ ~Blocked /\ child' = "exited"
        /\ UNCHANGED <<shared, reader, stdin, pipe, stderr>>

\* The child is waited for once its output is read no more, even if it lives.
Reap == /\ child = "exited" /\ reader = "gone" /\ child' = "none"
        /\ UNCHANGED <<shared, reader, stdin, pipe, stderr>>

\* shutdown() takes the handle, too.
Close == Shutdown /\ stdin' = FALSE /\ UNCHANGED <<child, reader, pipe, stderr>>

Restart == /\ Die /\ child' = "none" /\ reader' = "gone" /\ stdin' = FALSE
           /\ pipe' = <<>> /\ stderr' = 0

Next == \/ Post /\ UNCHANGED <<child, reader, stdin, pipe, stderr>>
        \/ Spawn \/ Offer \/ Log \/ Look \/ ReadLine \/ Leave
        \/ Exit \/ Reap \/ Close \/ Restart

Spec == Init /\ [][Next]_sgVars

TypeOK == /\ SharedTypeOK /\ child \in {"none", "up", "exited"} /\ stdin \in BOOLEAN
          /\ reader \in {"flag", "line", "gone"}
          /\ pipe \in Seq(Posts) /\ stderr \in 0..StderrRoom

Feed == INSTANCE ChannelFeed WITH
           Keeps <- FALSE, posted <- Len(posted), room <- OneRoom,
           wanted <- {p \in Posts : Accepts(posted[p])}
=============================================================================
