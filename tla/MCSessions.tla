----------------------------- MODULE MCSessions -----------------------------
(* Two instances of Sessions for TLC, of which one is chosen at the start:  *)
(* requests that overlap, or requests one at a time and more sessions.      *)
EXTENDS Sessions, TLC

CONSTANT FewSessions  \* bound on the sessions of requests that overlap

VARIABLE overlap  \* whether a request may start while another is in flight

mcvars == <<vars, overlap>>

OneAtATime == \A g, h \in Busy : g = h

MCInit == Init /\ overlap \in BOOLEAN
MCNext == /\ Next
          /\ IF overlap THEN nextId' <= FewSessions + 1
                        ELSE OneAtATime'
          /\ UNCHANGED overlap
MCSpec == MCInit /\ [][MCNext]_mcvars

\* When requests do not overlap, promote_to_user moves the entry of a session
\* with the session, although pruning cycles run in between.
SequentialUserIsolation == ~overlap => UserIsolation

\* Users are interchangeable, and so are handlers, in the safety run.
Symmetry == Permutations(Users) \cup Permutations(Handlers)
=============================================================================
