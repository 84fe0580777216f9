------------------------------ MODULE MCLiveness ------------------------------
(* The event bus and what must happen in the end, for TLC: messages that    *)
(* the gateway has taken are taken up, requests between two pruning cycles  *)
(* finish, and episodes are learnt from.  One of the three parts, chosen at *)
(* the start, runs under its fairness.                                      *)
EXTENDS EventBus

CONSTANTS SessionUsers, NoUser, Channels, Handlers, MaxSessions, LastTime, TTL,
          MemoryUsers, Storers, None, Facts, Nothing, Splits, Window, Scan, Keep,
          Budget, MaxEpisodes, MaxFacts, MaxCycles, MaxFails

VARIABLES part,
          sessions, user_sessions, nextId, sessionTime, usersRead,  \* Sessions
          prune, cutoff, pc, req,
          cycle, due, episodes, facts, nextEpisode, nextFact,       \* Memory
          storing, job, deletion, erasing, erased, carried, fails

table    == <<sessions, user_sessions, nextId, sessionTime, usersRead, prune,
              cutoff, pc, req>>
memories == <<cycle, due, episodes, facts, nextEpisode, nextFact, storing, job,
              deletion, erasing, erased, carried, fails>>
mcvars   == <<vars, part, table, memories>>

Se == INSTANCE Sessions WITH
         Users <- SessionUsers, MaxTime <- LastTime, now <- sessionTime
Me == INSTANCE Memory WITH
         Users <- MemoryUsers, Handlers <- Storers, Deleters <- {},
         MaxTime <- MaxCycles, now <- cycle, turn <- storing

MCInit == /\ Init /\ Se!Init /\ Me!Init
          /\ part \in {"bus", "sessions", "memory"}

OfBus(A)      == part = "bus" /\ A /\ UNCHANGED <<part, table, memories>>
OfSessions(A) == part = "sessions" /\ A /\ UNCHANGED <<part, vars, memories>>
OfMemory(A)   == part = "memory" /\ A /\ UNCHANGED <<part, vars, table>>

\* Sockets come and go before the last tick and the first crash.
SocketsEarly == \A s \in Sockets : rx'[s] # Closed => now' < MaxTime /\ crashes' = 0

MCNext == \/ OfBus(Next) /\ SocketsEarly
          \/ OfSessions(Se!HandlerNext)
          \/ OfMemory(Me!Next)

\* The fairness of FairSpec of EventBus and of Memory, and of BetweenPrunes of
\* Sessions.
MCSpec == /\ MCInit /\ [][MCNext]_mcvars
          /\ \A p \in Tasks : WF_mcvars(OfBus(Publish(p)))
          /\ WF_mcvars(OfBus(BridgeTake))
          /\ WF_mcvars(OfBus(Subscribe(Worker)))
          /\ \A r \in Receivers : WF_mcvars(OfBus(Lag(r) \/ Receive(r)))
          /\ \A h \in Handlers : /\ WF_mcvars(OfSessions(Se!Continue(h)))
                                 /\ SF_mcvars(OfSessions(Se!UserWrite(h)))
          /\ WF_mcvars(OfMemory(Me!Consolidate))
          /\ WF_mcvars(OfMemory(Me!Tick))
          /\ \A h \in Storers : WF_mcvars(OfMemory(Me!StoreEpisode(h)))

\* Between two pruning cycles no request waits for a lock forever.
RequestsFinish == Se!RequestsFinish

\* Every fact that is said is learnt, in spite of one failure or restart,
\* unless a text panics the task or newer episodes displace it.
LearnedUnlessPanicked == Me!LearnedUnlessPanicked
=============================================================================
