----------------------------- MODULE LearnedRoutes ----------------------------
(***************************************************************************)
(* The table of learned routes (learned.rs of the gateway) under turns of  *)
(* the agent that look a route up, run, and record how it went, and an     *)
(* operator who deletes rules.  The connection's mutex makes lookup,       *)
(* ingest and delete_rules atomic; a turn is between two of them.          *)
(*                                                                         *)
(* A rule is keyed by intent, domain and agent.  Rates and confidences are *)
(* in units of 1/10000; the code's f64 agree with them to that precision.  *)
(***************************************************************************)
EXTENDS Integers, Sequences, FiniteSets

CONSTANTS Agents,     \* the primary model and the sub-agents
          Tasks,      \* [intent, tags, complexity]
          Policy,     \* agent.learned_routing
          AutoAccept, \* quality_gate.auto_accept_learned
          Verdicts,   \* outcomes that a turn may have
          Penalties,  \* contradiction_penalty of a record whose drafts disagree
          Turns,      \* turns that may run at once
          MaxDay, MaxRecords  \* bounds: days, and records that are ingested

Unit == 10000
NoDomain == "none"

\* The outcomes of a record.
Accepted == {"accepted_recovered", "accepted_verified", "accepted", "accepted_unverified"}
Outcomes == Accepted \cup {"escalated", "failed"}

LearnedAssumption ==
    /\ Policy \in [enabled : BOOLEAN, minConfidence : 0..Unit, minSamples : Nat,
                   decayAfter : Nat, maxAge : Nat, penalty : Nat]
    /\ AutoAccept \in BOOLEAN /\ {MaxDay, MaxRecords} \subseteq Nat
    /\ \A task \in Tasks : task.tags \in Seq(STRING)
    /\ Verdicts \subseteq Outcomes /\ Penalties \subseteq 0..800

VARIABLES rules,    \* the table: from keys to counters, confidence and dates
          turn,     \* per turn: what it was asked and where it was routed
          day,      \* Utc::now
          records,  \* how many records were ingested
          rejected, \* history: per key, the answers in a row from this rule that
                    \* were not good enough
          failing   \* history: per key, the records in a row that say failed

vars == <<rules, turn, day, records, rejected, failing>>

Key(intent, domain, agent) == [intent |-> intent, domain |-> domain, agent |-> agent]
NoRule == [intent |-> "none", domain |-> NoDomain, agent |-> "none"]
Idle   == [pc |-> "idle"]

KnownIntents == {task.intent : task \in Tasks}
Tags(task)   == {task.tags[i] : i \in DOMAIN task.tags}
Keys == [intent : KnownIntents, agent : Agents,
         domain : {NoDomain} \cup UNION {Tags(task) : task \in Tasks}]

Init == rules = << >> /\ turn = [t \in Turns |-> Idle] /\ day = 0 /\ records = 0
        /\ rejected = [k \in Keys |-> 0] /\ failing = [k \in Keys |-> 0]

-----------------------------------------------------------------------------
(* How good a rule is.                                                     *)

AtLeast(a, b) == IF a >= b THEN a ELSE b
AtMost(a, b)  == IF a <= b THEN a ELSE b
Clamp(x, lo, hi) == AtLeast(lo, AtMost(x, hi))
Times(x, y)   == (x * y) \div Unit
Percent(n, x) == (n * x) \div 100

Samples(r) == r.accepts + r.escalations + r.failures

\* routing_rates: of a count among the samples.
Rate(count, r) == IF Samples(r) = 0 THEN 0 ELSE (count * Unit) \div Samples(r)
Good(r)      == Rate(r.accepts, r)
Escalated(r) == Rate(r.escalations, r)
Failed(r)    == Rate(r.failures, r)

Age(r) == AtLeast(day - r.updated, 0)

\* recency_factor, sample_maturity, stability_score, recent_outcome_bias.
Recency(r) ==
    LET horizon == AtLeast(AtLeast(Policy.maxAge, Policy.decayAfter + 7), 1)
    IN  Clamp(Unit - (Age(r) * Unit) \div horizon, 0, Unit)
Maturity(r) == Clamp((Samples(r) * Unit) \div AtLeast(Policy.minSamples, 3), 3500, Unit)
Stability(r) ==
    Clamp(Good(r) - Percent(35, Escalated(r)) - Percent(75, Failed(r)), 0, Unit)
Bias == [accepted_recovered |-> 7500, accepted_verified |-> 6500, accepted |-> 5500,
         accepted_unverified |-> 2000, escalated |-> -4500, failed |-> -7500]

\* adaptive_decay_multiplier.
Decay(r) ==
    AtLeast(Unit + Times(Percent(38, Escalated(r)) + Percent(72, Failed(r)), Recency(r))
                 + Percent(14, Unit - Maturity(r))
                 - Times(Percent(18, Bias[r.last]), Recency(r)),
            7200)

\* staleness_penalty, as it decays.
Staleness(r) == Times(AtLeast(Age(r) - Policy.decayAfter, 0) * Policy.penalty, Decay(r))

\* outcome_trend_adjustment.
Trend(r) ==
    LET net   == Good(r) - Failed(r) - Percent(65, Escalated(r))
        shift == Times(Times(Percent(11, net - 4500), Maturity(r)), Recency(r))
        last  == Times((Bias[r.last] * 45) \div 1000, Recency(r))
    IN  Clamp(shift + last + Times(Percent(5, Stability(r) - 5000), Maturity(r)),
              -1800, 1400)

\* effective_confidence.
Effective(r) ==
    Clamp(r.confidence + Percent(8, AtLeast(Good(r) - 5000, 0))
            - Percent(16, Escalated(r)) - Percent(26, Failed(r))
            + Percent(5, AtLeast(Stability(r) - 5000, 0))
            - Staleness(r) + Trend(r),
          0, Unit)

\* is_stale and rule_is_eligible.
Stale(r) == Policy.maxAge > 0 /\ Age(r) > Policy.maxAge
Eligible(r) == /\ ~Stale(r)
               /\ Effective(r) >= Policy.minConfidence
               /\ r.samples >= Policy.minSamples

-----------------------------------------------------------------------------
(* Lookup.                                                                 *)

\* learned_route_candidate_score.
Score(k, task) ==
    LET r == rules[k]
    IN  Effective(r) + (IF k.domain \in Tags(task) THEN 500 ELSE 0)
          + 300 - (r.cap - task.complexity) * 100
          + Percent(4, Stability(r)) + Percent(2, Good(r))

\* The rules for the task in one of these domains that are eligible.
Candidates(task, domains) ==
    {k \in DOMAIN rules : /\ k.intent = task.intent /\ k.domain \in domains
                          /\ task.complexity <= rules[k].cap
                          /\ Eligible(rules[k])}

\* max_by: by score, then by samples; of equals the row that comes last.
Best(task, keys) ==
    {k \in keys : \A l \in keys :
        \/ Score(k, task) > Score(l, task)
        \/ Score(k, task) = Score(l, task) /\ rules[k].samples >= rules[l].samples}

\* lookup_for_task_with_policy: a rule of one of the task's domains before one
\* of none.
Lookup(task) ==
    LET tagged == Candidates(task, Tags(task))
        plain  == Candidates(task, {NoDomain})
    IN  IF ~Policy.enabled THEN {}
        ELSE IF tagged # {} THEN Best(task, tagged) ELSE Best(task, plain)

\* A turn begins: its route comes from memory, or from the strategy.
Begin(t, task) ==
    /\ turn[t].pc = "idle" /\ records < MaxRecords
    /\ \E k \in (IF Lookup(task) # {} THEN Lookup(task) ELSE {NoRule}) :
       \E a \in (IF k # NoRule THEN {k.agent} ELSE Agents) :
          turn' = [turn EXCEPT ![t] = [pc |-> "running", task |-> task, rule |-> k,
                                       agent |-> a]]
    /\ UNCHANGED <<rules, day, records, rejected, failing>>

-----------------------------------------------------------------------------
(* ingest.                                                                 *)

\* The domain of a record: the first tag.
DomainOf(task) == IF task.tags = << >> THEN NoDomain ELSE task.tags[1]

\* The signal of an outcome.
Signal == [accepted_recovered |-> 9800, accepted_verified |-> 9400, accepted |-> 10000,
           accepted_unverified |-> 7400, escalated |-> 1000, failed |-> 0]

\* An accepted answer counts less when the drafts it came from disagreed.
Signals(outcome) ==
    IF outcome \in Accepted THEN {Signal[outcome] - p : p \in Penalties}
    ELSE {Signal[outcome]}

\* A first accepted answer makes a rule.
NewRule(task, outcome, signal) ==
    [confidence |-> AtLeast(signal, 6000), samples |-> 1, accepts |-> 1,
     escalations |-> 0, failures |-> 0, last |-> outcome, updated |-> day,
     cap |-> task.complexity]

\* Mutant: only accepted answers are recorded.
UpdatedIfAccepted(r, outcome, signal) ==
    IF outcome \in Accepted
    THEN [r EXCEPT !.confidence = Percent(88, @) + Percent(12, signal),
                   !.samples = @ + 1, !.accepts = @ + 1, !.last = outcome, !.updated = day]
    ELSE r

\* Another one moves it.
Updated(r, outcome, signal) ==
    [r EXCEPT !.confidence  = Percent(88, @) + Percent(12, signal),
              !.samples     = @ + 1,
              !.accepts     = IF outcome \in Accepted THEN @ + 1 ELSE @,
              !.escalations = IF outcome = "escalated" THEN @ + 1 ELSE @,
              !.failures    = IF outcome = "failed" THEN @ + 1 ELSE @,
              !.last = outcome, !.updated = day]

\* ingest.
Ingest(k, task, outcome) ==
    \E signal \in Signals(outcome) :
        rules' = IF k \in DOMAIN rules
                 THEN [rules EXCEPT ![k] = Updated(@, outcome, signal)]
                 ELSE IF outcome \in Accepted
                      THEN [l \in DOMAIN rules \cup {k} |->
                               IF l = k THEN NewRule(task, outcome, signal) ELSE rules[l]]
                      ELSE rules

\* What the record says when the gate would say verdict: a route from memory is
\* accepted without asking it.
Recorded(t, verdict) ==
    IF turn[t].rule # NoRule /\ AutoAccept THEN Accepted \cap Verdicts ELSE {verdict}

\* The key of the turn's record.
RecordKey(run) == Key(run.task.intent, DomainOf(run.task), run.agent)

\* The turn ends, and is recorded.
Finish(t, verdict) ==
    LET run == turn[t]
        key == RecordKey(run)
    IN  /\ run.pc = "running" /\ records < MaxRecords
        /\ \E outcome \in Recorded(t, verdict) :
               /\ Ingest(key, run.task, outcome)
               /\ failing' = [failing EXCEPT ![key] =
                     IF outcome = "failed" /\ key \in DOMAIN rules THEN @ + 1 ELSE 0]
        /\ rejected' = [k \in Keys |-> IF k # run.rule THEN rejected[k]
                                       ELSE IF verdict \in Accepted THEN 0
                                       ELSE rejected[k] + 1]
        /\ records' = records + 1
        /\ turn' = [turn EXCEPT ![t] = Idle]
        /\ UNCHANGED day

\* The turn fails, or the record is not written, or the gateway restarts.
Lose(t) == /\ turn[t].pc = "running"
           /\ turn' = [turn EXCEPT ![t] = Idle]
           /\ UNCHANGED <<rules, day, records, rejected, failing>>

\* delete_rules: of an intent, of an agent, of both, or all.
Delete(intents, agents) ==
    /\ rules' = [k \in {k \in DOMAIN rules :
                          ~(k.intent \in intents /\ k.agent \in agents)} |-> rules[k]]
    /\ rules' # rules
    /\ failing' = [k \in Keys |-> IF k \in DOMAIN rules' THEN failing[k] ELSE 0]
    /\ UNCHANGED <<turn, day, records, rejected>>

Tick == /\ day < MaxDay /\ day' = day + 1
        /\ UNCHANGED <<rules, turn, records, rejected, failing>>

Next == \/ \E t \in Turns :
              \/ \E task \in Tasks : Begin(t, task)
              \/ \E verdict \in Verdicts : Finish(t, verdict)
              \/ Lose(t)
        \/ \E intents \in {KnownIntents} \cup {{i} : i \in KnownIntents},
              agents \in {Agents} \cup {{a} : a \in Agents} : Delete(intents, agents)
        \/ Tick

Spec == Init /\ [][Next]_vars

-----------------------------------------------------------------------------
(* What the table guarantees.                                              *)

Rules == [confidence : 0..Unit, samples : Nat, accepts : Nat, escalations : Nat,
          failures : Nat, last : Outcomes, updated : 0..MaxDay,
          cap : {task.complexity : task \in Tasks}]

TypeOK ==
    /\ DOMAIN rules \subseteq Keys /\ \A k \in DOMAIN rules : rules[k] \in Rules
    /\ \A t \in Turns :
          \/ turn[t] = Idle
          \/ turn[t] \in [pc : {"running"}, task : Tasks, rule : Keys \cup {NoRule},
                          agent : Agents]
    /\ day \in 0..MaxDay /\ records \in 0..MaxRecords

\* A rule exists only if an answer of its agent was accepted, and its counters
\* account for every record ("Create new rule only on successful outcomes").
RulesAreEarned ==
    \A k \in DOMAIN rules : /\ rules[k].accepts >= 1
                            /\ rules[k].samples = Samples(rules[k])

\* The confidence of a rule is at most this after so many failures in a row,
\* and what the other terms of its effective confidence add is at most this.
Faded == <<8800, 7744, 6814, 5996, 5276, 4642, 4084, 3593, 3161, 2781, 2447, 2153>>
Lift  == 2050

\* A run of failures makes a rule ineligible, however good it was before, in as
\* many answers as it takes its confidence to fade: a dozen by the default of
\* min_effective_confidence ("repeated bad routes are penalized during lookup").
UsedRulesHoldUp ==
    \A k \in DOMAIN rules, i \in DOMAIN Faded :
        failing[k] >= i /\ Faded[i] + Lift < Policy.minConfidence => ~Eligible(rules[k])

\* The rules whose answer has just been found not good enough.
RejectedNow == {k \in DOMAIN rules \cap DOMAIN rules' : rejected'[k] > rejected[k]}

\* A rule that can be followed, and is not aged.
InUse(r) == Eligible(r) /\ Staleness(r) = 0

\* "repeated bad routes are penalized during lookup"
\* (docs/OPENCLAW_PARITY_STATUS.md:172): a rule that memory has followed and
\* whose answer is not good enough counts less from then on, unless it still
\* has all the confidence that there is.  So it is when the gate is asked and
\* the answer is recorded under the rule itself, but not when lookup found the
\* rule by another tag than the task's first one, nor for a rule that had aged
\* or that other turns have meanwhile recorded out of use.
RejectedPenalizedAtHome ==
    [][~AutoAccept =>
          \A k \in RejectedNow :
             \/ Effective(rules[k])' < Effective(rules[k])
             \/ Effective(rules[k])' = Unit
             \/ ~InUse(rules[k])
             \/ \E t \in Turns : turn[t] # turn'[t] /\ RecordKey(turn[t]) # k]_vars
=============================================================================
