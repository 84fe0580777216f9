-------------------------------- MODULE Agent --------------------------------
(* The agent: a turn, the table of learned routes that turns look up and     *)
(* record to, the skills with a staged run, the commands in their sandbox,   *)
(* and a call of a model.  Each has its own state; they interleave.          *)
EXTENDS Orchestrator

CONSTANTS Agents, Policy, RouteTasks, AutoAccept, Verdicts, Penalties, Turns,
          MaxDay, MaxRecords,                              \* LearnedRoutes
          Absent, Torn, Names, Tasks, MaxCalls, Artifacts, Root,      \* Skills
          Executions, NoOne,                                        \* Sandbox
          ModelPrefixes, Setups, Conversations, Answers             \* ModelCalls

VARIABLES rules, turn, day, records, rejected, failing,          \* LearnedRoutes
          store, pend, run, journal, backups, files, calls,      \* Skills
          tally, overlap, crashed, before,
          host, policy, exec, profile, ran, overlapped,          \* Sandbox
          setup, asked, at, attempt, backoff, result, sent, waits  \* ModelCalls

learning  == <<rules, turn, day, records, rejected, failing>>
skills    == <<store, pend, run, journal, backups, files, calls, tally, overlap,
               crashed, before>>
commands  == <<host, policy, exec, profile, ran, overlapped>>
modelCall == <<setup, asked, at, attempt, backoff, result, sent, waits>>
agentVars == <<vars, learning, skills, commands, modelCall>>

LR == INSTANCE LearnedRoutes WITH Tasks <- RouteTasks
SK == INSTANCE Skills
SB == INSTANCE Sandbox
MD == INSTANCE ModelCalls

ASSUME AgentAssumption == /\ OrchestratorAssumption /\ LR!LearnedAssumption
                          /\ SK!SkillsAssumption /\ MD!ModelCallsAssumption

AgentInit == Init /\ LR!Init /\ SK!Init /\ SB!Init /\ MD!Init

AgentNext == \/ Next /\ UNCHANGED <<learning, skills, commands, modelCall>>
             \/ LR!Next /\ UNCHANGED <<vars, skills, commands, modelCall>>
             \/ SK!Next /\ UNCHANGED <<vars, learning, commands, modelCall>>
             \/ SB!Next /\ UNCHANGED <<vars, learning, skills, modelCall>>
             \/ MD!Next /\ UNCHANGED <<vars, learning, skills, commands>>

AgentSpec == AgentInit /\ [][AgentNext]_agentVars

-----------------------------------------------------------------------------
\* Every variable keeps its type.
TypesOK == TypeOK /\ LR!TypeOK /\ SK!TypeOK /\ SB!TypeOK /\ MD!TypeOK

\* The work goes to agents that take it: a learned rule is earned by an
\* accepted answer, one that memory routes to has not failed time after time,
\* and the agents that no rule chose take tasks of the complexity.
RoutesHoldUp == LR!RulesAreEarned /\ LR!UsedRulesHoldUp /\ WorkersFit

\* An answer that is not good enough lowers the rule that it is recorded under.
BadRoutesPenalized == LR!RejectedPenalizedAtHome

\* Calls on a skill's file that do not overlap lose nothing.
SequentialStore == SK!SequentialStore

\* What a staged run overwrote can be had again wherever it was stopped.
Recoverable == SK!Recoverable

\* A run that says it was rolled back, or completed, was.
OutcomeIsTrue == SK!OutcomeIsTrue

\* What is done again was done in vain: a command is run again only after it
\* failed, and its audit tells which of the controls of its policy it ran
\* without; and a model is asked again only after a failure that may pass, and
\* what it is sent leaves out no message but earlier system messages.
RetriesAccounted == SB!CommandsAccounted /\ MD!SendsAccounted

\* A wait that a 429 asks for is kept (the comments of map_provider_http_error
\* and retry_with_backoff).
HintsAreKept == MD!HintsAreKept
=============================================================================
