---------------------------- MODULE Orchestrator ------------------------------
(***************************************************************************)
(* One turn of the agent: Orchestrator::classify and                       *)
(* process_with_classification of orchestrator.rs.  The task is classified *)
(* and routed; the routed worker answers, in a loop that runs the tools it *)
(* asks for, while support agents work beside it; the quality gate accepts *)
(* the answer, escalates it to another agent or has it augmented; an       *)
(* answer that rests on tools is verified and remedied; the primary model  *)
(* writes the final answer when a worker served, and it is verified again. *)
(*                                                                         *)
(* A step is one model call with the tools it asks for, or what the code   *)
(* does between two of them.  The models and the tools answer anything.    *)
(*                                                                         *)
(* Abstractions: an answer is one of a few kinds that the quality gate     *)
(* tells apart; prompts and wording are left out; of a tool's result only  *)
(* whether it failed, was blocked or, for a command, did not succeed.      *)
(***************************************************************************)
EXTENDS Routing, Functions, SequencesExt

CONSTANTS Configs,        \* configurations: those of Routing, with the quality
                          \* gate, auto_accept_learned and whether tools exist
          Messages,       \* what the rules see of a message
          SmallTasks,     \* what the small model may answer
          LearnedTargets, \* agents that an eligible learned rule may name
          Calls,          \* tool calls: records of a tool and its arguments
          Batches,        \* sequences of the calls of one model answer
          MaxToolRounds,  \* MAX_TOOL_ROUNDS
          MaxPasses,      \* MAX_REMEDIATION_PASSES
          MaxWork         \* bound: no tools are asked for after so many calls

OrchestratorAssumption ==
    /\ {MaxToolRounds, MaxPasses, MaxWork} \subseteq Nat /\ MaxToolRounds > 0
    /\ Batches \subseteq Seq(Calls) \ {<< >>}
    /\ \A c \in Calls : c.tool \in STRING

VARIABLES cfg, task,
          pc,        \* the part of the pipeline that runs
          route,     \* the routing decision
          support,   \* per support agent: how its branch stands
          loop,      \* the tool-call loop that runs, if one does
          trace,     \* the merged summary: tools and their outcomes
          response,  \* final_response: whether it has text and open tool calls
          drafts,    \* the stages of specialist_drafts
          served,    \* served_by
          report,    \* the latest verification
          passes,    \* remediation_passes
          flags,     \* what the diagnostics say happened
          runs,      \* history: per tool call, how often it ran
          lost,      \* history: a loop failed after it had run tools
          candid,    \* history: no report was both grounded and to be retried
          fresh,     \* history: no remediation began after the report
          checked    \* history: how much of trace the last verification had

pipeline == <<cfg, task, pc, route, support>>
answer   == <<response, drafts, served>>
checks   == <<report, passes, flags>>
history  == <<runs, lost, candid, fresh, checked>>
vars     == <<pipeline, loop, trace, answer, checks, history>>

\* What HeuristicQualityGate can find an answer to be.
Kinds(text) ==
    IF text THEN {"short", "refusal", "terse", "brief", "prose", "repetitive", "solid"}
    ELSE {"short"}

\* The parts of the pipeline in which a tool-call loop runs.
Loops == {"initial", "escalation", "augmentation", "remediation"}

\* The stages that leave drafts.
Stages == {"parallel_support", "initial", "escalation", "augmentation", "verified"}

Outcomes == {"success", "failed", "blocked", "unsuccessful"}

NoLoop     == [seen |-> {}, rounds |-> 0, trace |-> << >>]
NoReport   == [grounded |-> FALSE, retry |-> FALSE]
NoResponse == [text |-> FALSE, open |-> FALSE]
NoFlags    == [verified |-> FALSE, remedied |-> FALSE, cured |-> FALSE,
               synthesized |-> FALSE, reverified |-> FALSE]

Init ==
    /\ cfg \in Configs
    /\ task \in {RuleClassify(m) : m \in Messages}
    /\ pc = "classify" /\ route = ToPrimary /\ support = << >>
    /\ loop = NoLoop /\ trace = << >>
    /\ response = NoResponse /\ drafts = {}
    /\ served = Primary
    /\ report = NoReport /\ passes = 0 /\ flags = NoFlags
    /\ runs = [c \in Calls |-> 0]
    /\ lost = FALSE /\ candid = TRUE /\ fresh = FALSE /\ checked = 0

Flag(f) == flags' = [flags EXCEPT ![f] = TRUE]

\* remember_specialist_draft: an answer without text leaves no draft.
Remember(stage, text) == IF text THEN drafts \cup {stage} ELSE drafts

-----------------------------------------------------------------------------
(* Classification and routing.                                             *)

\* The rules' classification stands.
ClassifyByRules ==
    /\ pc = "classify" /\ ~AsksSmallModel(cfg, task)
    /\ pc' = "route"
    /\ UNCHANGED <<cfg, task, route, support, loop, trace, answer, checks, history>>

\* The small model is asked; its answer counts when it can be parsed.
ClassifyBySmallModel ==
    /\ pc = "classify" /\ AsksSmallModel(cfg, task)
    /\ pc' = "route"
    /\ task' \in SmallTasks \cup {task}
    /\ UNCHANGED <<cfg, route, support, loop, trace, answer, checks, runs, lost,
                   candid, fresh, checked>>

\* The route, the plan and its support branches; the worker's loop starts.
Route(learned) ==
    /\ pc = "route"
    /\ route' = RouteWithLearned(cfg, task, learned)
    /\ support' = [a \in SupportAgents(cfg, task, route'.target) |-> "asked"]
    /\ served' = route'.target
    /\ loop' = NoLoop /\ pc' = "initial"
    /\ UNCHANGED <<cfg, task, trace, response, drafts, checks, history>>

\* The one model call of a support branch, which has no tools: it leaves text
\* or, when it fails or says nothing, none.
Support(agent, outcome) ==
    /\ pc \in {"initial", "join", "abort"} /\ support[agent] = "asked"
    /\ support' = [support EXCEPT ![agent] = outcome]
    /\ UNCHANGED <<cfg, task, pc, route, loop, trace, answer, checks, runs, lost,
                   candid, fresh, checked>>

-----------------------------------------------------------------------------
(* call_with_tools.                                                        *)

\* What comes of a call: one that this loop has made before is blocked, one of
\* a tool that does not exist fails.
CallOutcomes(seen, call) ==
    IF call \in seen THEN {"blocked"}
    ELSE IF ~cfg.tools THEN {"failed"}
    ELSE {"success", "failed"}
           \cup (IF call.tool = "run_command" THEN {"unsuccessful"} ELSE {})

\* The calls of a batch are made in order; outs is what comes of each.
Made(batch, i, seen) == seen \cup {batch[j] : j \in 1..(i - 1)}
BatchOutcomes(batch, seen) ==
    {outs \in [DOMAIN batch -> Outcomes] :
        \A i \in DOMAIN batch : outs[i] \in CallOutcomes(Made(batch, i, seen), batch[i])}

\* How often a call of the batch was not blocked.
Ran(batch, outs, call) ==
    Cardinality({i \in DOMAIN batch : batch[i] = call /\ outs[i] # "blocked"})

\* Mutant: the round is not counted.
LoopRoundUncounted(batch, outs) ==
    /\ pc \in Loops /\ loop.rounds < MaxToolRounds
    /\ Len(trace) + Len(loop.trace) < MaxWork
    /\ outs \in BatchOutcomes(batch, loop.seen)
    /\ loop' = [loop EXCEPT !.seen = @ \cup Range(batch),
                            !.trace = @ \o [i \in DOMAIN batch |-> <<batch[i].tool, outs[i]>>]]
    /\ runs' = [c \in Calls |-> runs[c] + Ran(batch, outs, c)]
    /\ UNCHANGED <<pipeline, trace, answer, checks, lost, candid, fresh, checked>>

\* The model asks for tools: they are run, and it will be asked again.
LoopRound(batch, outs) ==
    /\ pc \in Loops /\ loop.rounds < MaxToolRounds
    /\ Len(trace) + Len(loop.trace) < MaxWork
    /\ outs \in BatchOutcomes(batch, loop.seen)
    /\ loop' = [seen   |-> loop.seen \cup Range(batch),
                rounds |-> loop.rounds + 1,
                trace  |-> loop.trace
                             \o [i \in DOMAIN batch |-> <<batch[i].tool, outs[i]>>]]
    /\ runs' = [c \in Calls |-> runs[c] + Ran(batch, outs, c)]
    /\ UNCHANGED <<pipeline, trace, answer, checks, lost, candid, fresh, checked>>

\* What a loop that returns leaves: after the last round one more answer is
\* taken as it is, with the tool calls in it.
LoopAnswers(text, open) ==
    /\ pc \in Loops
    /\ open => loop.rounds = MaxToolRounds
    /\ response' = [text |-> text, open |-> open]
    /\ trace' = trace \o loop.trace
    /\ loop' = NoLoop

LoopFails ==
    /\ pc \in Loops
    /\ lost' = (lost \/ loop.trace # << >>)
    /\ loop' = NoLoop

\* The worker has answered.
InitialAnswered(text, open) ==
    /\ pc = "initial" /\ LoopAnswers(text, open)
    /\ pc' = "join"
    /\ UNCHANGED <<cfg, task, route, support, drafts, served, checks, runs,
                   lost, candid, fresh, checked>>

\* The worker has failed; the branches beside it are waited for.
InitialFailed ==
    /\ pc = "initial" /\ LoopFails
    /\ pc' = "abort"
    /\ UNCHANGED <<cfg, task, route, support, trace, answer, checks, runs, candid,
                   fresh, checked>>

AllSupportIn == \A a \in DOMAIN support : support[a] # "asked"

\* tokio::join!: the drafts are the support branches' that answered, then the
\* worker's.
Join ==
    /\ pc = "join" /\ AllSupportIn
    /\ drafts' = (IF \E a \in DOMAIN support : support[a] = "text"
                  THEN {"parallel_support"} ELSE {})
                   \cup Remember("initial", response.text)
    /\ support' = [a \in DOMAIN support |-> "joined"]
    /\ pc' = "gate"
    /\ UNCHANGED <<cfg, task, route, loop, trace, response, served,
                   checks, history>>

\* Without the worker's answer the turn is over.
Abort ==
    /\ pc = "abort" /\ AllSupportIn
    /\ pc' = "failed"
    /\ UNCHANGED <<cfg, task, route, support, loop, trace, answer, checks, history>>

-----------------------------------------------------------------------------
(* The quality gate.                                                       *)

Accept(score) == [kind |-> "accept", score |-> score]
Escalate      == [kind |-> "escalate", score |-> "none"]
Augment       == [kind |-> "augment", score |-> "none"]

\* HeuristicQualityGate: an answer too short or a refusal is escalated, code
\* without code and an answer brief for its task augmented.  The scores are
\* below 0.5, below 0.6, below 0.7, and above.
Heuristic(kind) ==
    CASE kind \in {"short", "refusal"} -> Escalate
      [] /\ kind \in {"prose", "repetitive"}
         /\ task.intent = "Coding" /\ task.complexity >= Simple -> Augment
      [] kind = "terse" /\ task.complexity >= Simple   -> Augment
      [] kind = "brief" /\ task.complexity >= Moderate -> Augment
      [] kind \in {"terse", "brief"} -> Accept("low")
      [] kind = "prose"      -> Accept("fair")
      [] kind = "repetitive" -> Accept("poor")
      [] kind = "solid"      -> Accept("good")

\* A route from memory is accepted unseen, if so configured.
AcceptedUnseen == route.memory /\ cfg.autoAccept

\* The gate's method asks a model.
AsksJudge(kind) ==
    /\ ~AcceptedUnseen
    /\ \/ cfg.gate = "llm"
       \/ /\ cfg.gate = "auto"
          /\ Heuristic(kind) \in {Accept("low"), Accept("fair")}

\* The verdict of a gate that asks no model.
OwnVerdict(kind) ==
    CASE AcceptedUnseen     -> Accept("good")
      [] cfg.gate = "off"   -> Accept("none")
      [] OTHER              -> Heuristic(kind)

\* LlmQualityGate: what it can say; a failed call is an accept of 0.5.
JudgeVerdicts ==
    {Accept(s) : s \in {"none", "poor", "low", "fair", "good"}} \cup {Escalate, Augment}

Follow(v) == CASE v.kind = "escalate" -> "escalation"
               [] v.kind = "augment"  -> "augmentation"
               [] OTHER               -> "check"

GateItself(kind) ==
    /\ pc = "gate" /\ ~AsksJudge(kind)
    /\ pc' = Follow(OwnVerdict(kind))
    /\ UNCHANGED <<cfg, task, route, support, loop, trace, response, drafts, served,
                   checks, history>>

GateAsks(kind, v) ==
    /\ pc = "gate" /\ AsksJudge(kind)
    /\ pc' = Follow(v)
    /\ UNCHANGED <<cfg, task, route, support, loop, trace, response, drafts, served,
                   checks, runs, lost, candid, fresh, checked>>

\* The answer of the agent it is escalated to replaces the worker's.
EscalationAnswered(text, open) ==
    /\ pc = "escalation" /\ LoopAnswers(text, open)
    /\ drafts' = Remember("escalation", text)
    /\ served' = EscalationTarget(cfg, route.target)
    /\ pc' = "check"
    /\ UNCHANGED <<cfg, task, route, support, checks, runs, lost, candid,
                   fresh, checked>>

AugmentationAnswered(text, open) ==
    /\ pc = "augmentation" /\ LoopAnswers(text, open)
    /\ drafts' = Remember("augmentation", text)
    /\ pc' = "check"
    /\ UNCHANGED <<cfg, task, route, support, served, checks, runs, lost,
                   candid, fresh, checked>>

\* The worker's answer stays; what the failed loop did is forgotten.
SecondFailed ==
    /\ pc \in {"escalation", "augmentation"} /\ LoopFails
    /\ pc' = "check"
    /\ UNCHANGED <<cfg, task, route, support, trace, answer, checks, runs, candid,
                   fresh, checked>>

-----------------------------------------------------------------------------
(* Verification and remediation.                                           *)

UsedTools == trace # << >>

\* needs_write_verification: a write that nothing was read after.
WriteUnread ==
    \E i \in DOMAIN trace :
        /\ trace[i][1] = "write_file"
        /\ \A j \in DOMAIN trace :
              j > i => trace[j][1] \notin {"read_file", "grep_workspace"}

CommandSucceeded(i) == trace[i] = <<"run_command", "success">>
CommandUpset(i) == \/ trace[i][1] = "run_command" /\ ~CommandSucceeded(i)
                   \/ trace[i] = <<"write_file", "success">>

\* needs_command_verification: no command has succeeded since the last that
\* did not and the last write.
CommandUnproven ==
    /\ \E i \in DOMAIN trace : trace[i][1] = "run_command"
    /\ ~\E i \in DOMAIN trace :
           CommandSucceeded(i) /\ \A j \in DOMAIN trace : j > i => ~CommandUpset(j)

Had(outcome) == \E i \in DOMAIN trace : trace[i][2] = outcome

\* requires_follow_up_verification.
FollowUp == Had("failed") \/ WriteUnread \/ CommandUnproven

\* repeated_failure_tools is not empty.
RepeatedFailure ==
    \E i, j \in DOMAIN trace : /\ i < j /\ trace[i][1] = trace[j][1]
                             /\ trace[i][2] # "success" /\ trace[j][2] # "success"

\* should_abandon_tool_retries.
Abandons == RepeatedFailure /\ (Had("blocked") \/ Len(trace) >= 4)

\* parse_tool_verification_report: what the model says in JSON, whatever it
\* is; of anything else, what the summary says.
Reports == [grounded : BOOLEAN, retry : BOOLEAN]
Fallback == [grounded |-> ~FollowUp, retry |-> FollowUp]

\* A verification has answered: the corrected answer has no tool calls.
Verified ==
    /\ checked' = Len(trace)
    /\ response' = [response EXCEPT !.open = FALSE]
    /\ fresh' = TRUE

\* The report of a remediation that has been given up.
Stopped(r) == [r EXCEPT !.retry = FALSE]

\* No further pass is made.
Exhausted == passes >= MaxPasses \/ Abandons

VerifyEnds(r) ==
    /\ pc = "check" /\ UsedTools /\ ~(r.retry /\ cfg.tools)
    /\ Verified
    /\ report' = r /\ candid' = (candid /\ ~(r.grounded /\ r.retry))
    /\ Flag("verified") /\ pc' = "scan"
    /\ UNCHANGED <<cfg, task, route, support, loop, trace, drafts, served,
                   passes, runs, lost>>

VerifyStops(r) ==
    /\ pc = "check" /\ UsedTools /\ r.retry /\ cfg.tools /\ Exhausted
    /\ Verified
    /\ report' = Stopped(r) /\ candid' = (candid /\ ~r.grounded)
    /\ Flag("verified") /\ pc' = "scan"
    /\ UNCHANGED <<cfg, task, route, support, loop, trace, drafts, served,
                   passes, runs, lost>>

\* Another pass with tools.
VerifyRetries(r) ==
    /\ pc = "check" /\ UsedTools /\ r.retry /\ cfg.tools /\ ~Exhausted
    /\ checked' = Len(trace)
    /\ response' = [response EXCEPT !.open = FALSE]
    /\ fresh' = FALSE
    /\ report' = r /\ candid' = (candid /\ ~r.grounded)
    /\ flags' = [flags EXCEPT !.verified = TRUE, !.remedied = TRUE]
    /\ passes' = passes + 1 /\ pc' = "remediation"
    /\ UNCHANGED <<cfg, task, route, support, loop, trace, drafts, served,
                   runs, lost>>

VerifyFails ==
    /\ pc = "check" /\ UsedTools
    /\ checked' = Len(trace) /\ fresh' = TRUE
    /\ report' = [grounded |-> FALSE, retry |-> FollowUp]
    /\ Flag("verified") /\ pc' = "scan"
    /\ UNCHANGED <<cfg, task, route, support, loop, trace, answer, passes, runs, lost,
                   candid>>

\* Mutant: the remedied answer is trusted.
RemediationTrusted(text, open, changed) ==
    /\ pc = "remediation" /\ LoopAnswers(text, open)
    /\ pc' = "scan" /\ report' = Stopped(report)
    /\ UNCHANGED <<cfg, task, route, support, drafts, served, passes, flags,
                   runs, lost, candid, fresh, checked>>

\* The remedied answer is verified again, unless nothing has come of it.
RemediationAnswered(text, open, changed) ==
    /\ pc = "remediation" /\ LoopAnswers(text, open)
    /\ IF loop.rounds > 0 \/ changed
       THEN pc' = "check" /\ UNCHANGED report
       ELSE pc' = "scan" /\ report' = Stopped(report)
    /\ UNCHANGED <<cfg, task, route, support, drafts, served, passes, flags,
                   runs, lost, candid, fresh, checked>>

RemediationFailed ==
    /\ pc = "remediation" /\ LoopFails
    /\ report' = Stopped(report) /\ pc' = "scan"
    /\ UNCHANGED <<cfg, task, route, support, trace, answer, passes, flags, runs,
                   candid, fresh, checked>>

\* Nothing to verify.
SkipVerification ==
    /\ pc = "check" /\ ~UsedTools
    /\ pc' = "scan"
    /\ UNCHANGED <<cfg, task, route, support, loop, trace, answer, checks, history>>

-----------------------------------------------------------------------------
(* The final answer.                                                       *)

\* remediation_succeeded.
Cured == flags.remedied /\ report.grounded /\ ~report.retry

\* The record and the response are made, with a last draft of a verified answer.
Close(verified) ==
    /\ drafts' = IF verified THEN Remember("verified", response.text) ELSE drafts
    /\ pc' = "done"

\* The primary model has served: its answer is final.
KeepAnswer ==
    /\ pc = "scan" /\ served = Primary
    /\ flags' = [flags EXCEPT !.cured = Cured]
    /\ Close(flags.verified)
    /\ UNCHANGED <<cfg, task, route, support, loop, trace, response, served, report,
                   passes, history>>

\* The primary model writes the answer from the drafts; it is final unless it
\* rests on tools.
Synthesize ==
    /\ pc = "scan" /\ served # Primary
    /\ response' = [response EXCEPT !.open = FALSE]
    /\ served' = Primary
    /\ flags' = [flags EXCEPT !.cured = Cured, !.synthesized = TRUE]
    /\ IF UsedTools THEN pc' = "recheck" /\ UNCHANGED drafts ELSE Close(FALSE)
    /\ UNCHANGED <<cfg, task, route, support, loop, trace, report, passes, history>>

\* The worker's answer is final.
SynthesisFails ==
    /\ pc = "scan" /\ served # Primary
    /\ flags' = [flags EXCEPT !.cured = Cured]
    /\ Close(flags.verified)
    /\ UNCHANGED <<cfg, task, route, support, loop, trace, response, served, report,
                   passes, history>>

\* The final answer is verified once; the report asks for nothing any more.
Recheck(r) ==
    /\ pc = "recheck"
    /\ checked' = Len(trace)
    /\ report' \in {r, [grounded |-> FALSE, retry |-> FollowUp]}
    /\ Flag("reverified")
    /\ Close(TRUE)
    /\ UNCHANGED <<cfg, task, route, support, loop, trace, response, served, passes,
                   runs, lost, candid, fresh>>

-----------------------------------------------------------------------------

Loop == \/ \E b \in Batches : \E outs \in BatchOutcomes(b, loop.seen) : LoopRound(b, outs)
        \/ \E t, o \in BOOLEAN :
               \/ InitialAnswered(t, o)
               \/ EscalationAnswered(t, o)
               \/ AugmentationAnswered(t, o)
               \/ \E changed \in BOOLEAN : RemediationAnswered(t, o, changed)
        \/ InitialFailed \/ SecondFailed \/ RemediationFailed

\* The steps that wait for a model.
ModelCall ==
    \/ ClassifyBySmallModel
    \/ \E a \in DOMAIN support, o \in {"text", "none"} : Support(a, o)
    \/ Loop
    \/ \E k \in Kinds(response.text), v \in JudgeVerdicts : GateAsks(k, v)
    \/ \E r \in Reports : VerifyEnds(r) \/ VerifyStops(r) \/ VerifyRetries(r) \/ Recheck(r)
    \/ VerifyFails \/ Synthesize \/ SynthesisFails

\* The steps between them.
Between ==
    \/ ClassifyByRules
    \/ \E l \in LearnedTargets : Route(l)
    \/ Join \/ Abort
    \/ \E k \in Kinds(response.text) : GateItself(k)
    \/ SkipVerification \/ KeepAnswer

Next == ModelCall \/ Between

\* The turn runs on: every model call returns, with an answer or an error.
Spec == Init /\ [][Next]_vars /\ WF_vars(Next)

-----------------------------------------------------------------------------
(* What a turn promises.                                                   *)

TypeOK ==
    /\ cfg \in Configs
    /\ pc \in Loops \cup {"classify", "route", "join", "abort", "gate", "check", "scan",
                          "recheck", "done", "failed"}
    /\ route.memory \in BOOLEAN
    /\ loop.seen \subseteq Calls /\ loop.rounds \in 0..MaxToolRounds
    /\ loop.trace \in Seq(STRING \X Outcomes) /\ trace \in Seq(STRING \X Outcomes)
    /\ response \in [text : BOOLEAN, open : BOOLEAN]
    /\ report \in Reports /\ passes \in 0..MaxPasses
    /\ flags \in [DOMAIN NoFlags -> BOOLEAN]
    /\ drafts \subseteq Stages /\ runs \in [Calls -> Nat]
    /\ {lost, candid, fresh} \subseteq BOOLEAN /\ checked \in Nat

Status == CASE pc \in {"classify", "route", "initial", "abort"} -> "asked"
            [] pc = "done"   -> "answered"
            [] pc = "failed" -> "failed"
            [] OTHER         -> "drafted"

\* The loops of a turn: the worker's, one more after the gate, and one of each
\* remediation.
MaxLoops == 2 + MaxPasses

\* The model calls that may still be made: in a loop, in the verification and
\* the remediations from this pass on with what follows them, and in all.
LoopAsks  == MaxToolRounds + 1 - loop.rounds
PassAsks  == (MaxPasses - passes) * (MaxToolRounds + 2)
GateAsksLeft == 1 + (MaxToolRounds + 1) + 1 + PassAsks + 2
OpenBranches == Cardinality({a \in DOMAIN support : support[a] = "asked"})
Budget ==
    CASE pc = "classify" -> 1 + 2 + (MaxToolRounds + 1) + GateAsksLeft
      [] pc = "route"    -> 2 + (MaxToolRounds + 1) + GateAsksLeft
      [] pc = "initial"  -> OpenBranches + LoopAsks + GateAsksLeft
      [] pc = "abort"    -> OpenBranches
      [] pc = "join"     -> OpenBranches + GateAsksLeft
      [] pc = "gate"     -> GateAsksLeft
      [] pc \in {"escalation", "augmentation"} -> LoopAsks + 1 + PassAsks + 2
      [] pc = "check"       -> 1 + PassAsks + 2
      [] pc = "remediation" -> LoopAsks + 1 + PassAsks + 2
      [] pc = "scan"     -> 2
      [] pc = "recheck"  -> 1
      [] OTHER           -> 0

\* The turn keeps the promises of AgentTurn (the safety limits of
\* call_with_tools and of the remediation loop, the fallbacks to the worker's
\* answer): it ends, each model call uses up its budget, it does not fail once
\* a worker has answered, and no tool call runs more than once in each loop.
Turn == INSTANCE AgentTurn WITH status <- Status, budget <- Budget,
                                MaxRuns <- MaxLoops

\* How often the tools of the trace ran.
RanIn(tr) == Cardinality({i \in DOMAIN tr : tr[i][2] # "blocked"})

\* An answer that the turn hands over has been verified against every tool
\* that ran, but for those of a loop whose model failed: their outcomes are
\* lost with the error (process_with_classification: summaries are merged, and
\* verified, only of loops that return).
NothingUnverified ==
    pc = "done" =>
        /\ checked = Len(trace)
        /\ ~lost => RanIn(trace) = SumFunction(runs)

\* Tool calls that were never run leave with the answer only when its
\* verification failed, and the diagnostics say so (call_with_tools takes one
\* more answer after its last round; tool_verified_response drops its calls).
OpenCallsConfessed ==
    pc = "done" /\ response.open =>
        flags.verified /\ ~report.grounded /\ ~flags.synthesized

\* A remediation counts as a success only when a verification after it said
\* so, as long as no report is both grounded and to be retried (the retry
\* flag of a report is cleared when remediation is given up).
CureIsVerified == flags.cured /\ candid => fresh

\* The agents that work on a task, unless a learned rule or an escalation chose
\* them, take tasks of its complexity, and no agent works on it twice at once
\* (the routing strategies; find_plan_support_agent).
WorkersFit ==
    LET workers == DOMAIN support \cup (IF route.memory THEN {} ELSE {route.target})
    IN  /\ \A a \in workers \ {Primary} : WithinLimit(task, AgentNamed(cfg, a))
        /\ route.target \notin DOMAIN support

\* What the turn hands over has been verified against every tool that ran;
\* tool calls that never ran, and a cure, are never claimed silently.
AnswersAreHonest ==
    NothingUnverified /\ OpenCallsConfessed /\ CureIsVerified
=============================================================================
