------------------------------- MODULE Routing --------------------------------
(***************************************************************************)
(* Which model a task goes to: the rule-based classifier (classifier.rs)   *)
(* and the router of the orchestrator (orchestrator.rs of the gateway), as *)
(* operators on a message, a task and a configuration.                     *)
(*                                                                         *)
(* A message is what the classifier sees of it: how many keywords of each  *)
(* intent it holds and whether it is long.  A configuration is a record    *)
(*   agents      the sub-agents, in the order of the file                  *)
(*   strategy    agent.routing                                             *)
(*   slm         agent.classifier is set                                   *)
(*   threshold   its confidence_threshold                                  *)
(* and a sub-agent a record of its name, roles, max_complexity (cap),      *)
(* is_local, cost_weight and priority.  Confidences are in thousandths of  *)
(* a percent, where the rounding of the code's f64 can be told apart.      *)
(***************************************************************************)
EXTENDS Integers, Sequences, FiniteSets

\* TaskComplexity, in its order.
Trivial  == 0
Simple   == 1
Moderate == 2
Complex  == 3
Expert   == 4

Complexities == Trivial..Expert

\* PATTERNS: in the order they are tried, the intents with a pattern, the
\* complexity each starts from, and its confidence.
Patterns ==
    << [intent |-> "Summarization",     base |-> Simple,   confidence |-> 85],
       [intent |-> "Translation",       base |-> Simple,   confidence |-> 90],
       [intent |-> "Coding",            base |-> Moderate, confidence |-> 80],
       [intent |-> "Analysis",          base |-> Complex,  confidence |-> 75],
       [intent |-> "Creative",          base |-> Moderate, confidence |-> 80],
       [intent |-> "Extraction",        base |-> Simple,   confidence |-> 80],
       [intent |-> "Reasoning",         base |-> Moderate, confidence |-> 85],
       [intent |-> "Planning",          base |-> Complex,  confidence |-> 75],
       [intent |-> "QuestionAnswering", base |-> Trivial,  confidence |-> 70] >>

PatternIntents == {Patterns[i].intent : i \in DOMAIN Patterns}
Intents        == PatternIntents \cup {"Unknown"}

\* The strategies of RoutingStrategy, and the name of the primary model.
Strategies == {"Single", "RuleBased", "Hybrid", "LocalFirst", "CostOptimized",
               "LlmRouted"}
Primary    == "primary"

-----------------------------------------------------------------------------
(* The rule-based classifier.                                              *)

\* (confidence + (n - 1) * 0.05).min(0.95) in f64: the sum of 0.8 and 0.05
\* lies just above 0.85, those of 0.7 with 0.1 and 0.2 just below 0.8 and 0.9.
Boosted(confidence, n) ==
    LET sum == 1000 * (confidence + 5 * (n - 1))
    IN  CASE sum >= 95000                   -> 95000
          [] confidence = 80 /\ n = 2       -> sum + 1
          [] confidence = 70 /\ n \in {3, 5} -> sum - 1
          [] OTHER                          -> sum

\* The confidence of pattern i on the message.
Confidence(message, i) ==
    Boosted(Patterns[i].confidence, message.hits[Patterns[i].intent])

\* The patterns of which the message holds a keyword.
Matching(message) == {i \in DOMAIN Patterns : message.hits[Patterns[i].intent] > 0}

\* The first of the patterns with the highest confidence.
BestMatch(message) ==
    CHOOSE i \in Matching(message) :
        \A j \in Matching(message) :
            \/ Confidence(message, i) > Confidence(message, j)
            \/ Confidence(message, i) = Confidence(message, j) /\ i <= j

\* A long message is a little more complex than its pattern says.
Lengthened(base, long) == IF long /\ base < Moderate THEN base + 1 ELSE base

\* RuleBasedClassifier::classify.
RuleClassify(message) ==
    IF Matching(message) # {}
    THEN LET best == Patterns[BestMatch(message)]
         IN  [intent     |-> best.intent,
              complexity |-> Lengthened(best.base, message.long),
              confidence |-> Confidence(message, BestMatch(message))]
    ELSE [intent     |-> "Unknown",
          complexity |-> Lengthened(Simple, message.long),
          confidence |-> 30000]

\* classify asks the small model only when the rules may be overruled, are
\* not confident, and a classifier is configured.
AsksSmallModel(cfg, task) ==
    /\ cfg.strategy \notin {"RuleBased", "Single"}
    /\ task.confidence < cfg.threshold \/ task.intent = "Unknown"
    /\ cfg.slm

\* parse_slm_classification: what a parseable answer of the small model makes.
SlmTask(intent, complexity) ==
    [intent |-> intent, complexity |-> complexity, confidence |-> 85000]

-----------------------------------------------------------------------------
(* The router.                                                             *)

\* intent_to_role_string.
RoleOf(intent) == IF intent = "Unknown" THEN "General" ELSE intent

AgentNames(cfg) == {cfg.agents[i].name : i \in DOMAIN cfg.agents}
AgentNamed(cfg, name) ==
    cfg.agents[CHOOSE i \in DOMAIN cfg.agents : cfg.agents[i].name = name]

\* complexity_within_limit.
WithinLimit(task, agent) == task.complexity <= agent.cap

\* The first of the agents at these positions with the least priority or cost.
Foremost(cfg, positions) ==
    cfg.agents[CHOOSE i \in positions : \A j \in positions :
                  \/ cfg.agents[i].priority < cfg.agents[j].priority
                  \/ cfg.agents[i].priority = cfg.agents[j].priority /\ i <= j]
Cheapest(cfg, positions) ==
    cfg.agents[CHOOSE i \in positions : \A j \in positions :
                  \/ cfg.agents[i].cost < cfg.agents[j].cost
                  \/ cfg.agents[i].cost = cfg.agents[j].cost /\ i <= j]

\* The positions of the agents with one of the roles that take the task.
Takers(cfg, task, roles) ==
    {i \in DOMAIN cfg.agents : /\ cfg.agents[i].roles \cap roles # {}
                               /\ WithinLimit(task, cfg.agents[i])}

ToPrimary == [target |-> Primary, memory |-> FALSE]
ToAgent(agent) == [target |-> agent.name, memory |-> FALSE]

\* route_by_role.
RouteByRole(cfg, task) ==
    LET matching == Takers(cfg, task, {RoleOf(task.intent)})
    IN  IF matching = {} THEN ToPrimary
        ELSE ToAgent(Foremost(cfg, matching))

\* route_local_first.
RouteLocalFirst(cfg, task) ==
    LET local == {i \in Takers(cfg, task, {RoleOf(task.intent), "General"}) :
                     cfg.agents[i].local}
    IN  IF local = {} THEN RouteByRole(cfg, task)
        ELSE ToAgent(Foremost(cfg, local))

\* route_cheapest.
RouteCheapest(cfg, task) ==
    LET takers == Takers(cfg, task, {RoleOf(task.intent), "General"})
    IN  IF takers = {} THEN ToPrimary ELSE ToAgent(Cheapest(cfg, takers))

\* route_with_learned without a learned rule.
RouteByStrategy(cfg, task) ==
    CASE cfg.agents = << >> \/ cfg.strategy = "Single" -> ToPrimary
      [] cfg.strategy = "LocalFirst"                   -> RouteLocalFirst(cfg, task)
      [] cfg.strategy = "CostOptimized"                -> RouteCheapest(cfg, task)
      [] OTHER                                         -> RouteByRole(cfg, task)

\* route_from_learned: the best rule for the task names this agent.  A rule
\* whose agent the configuration no longer has is passed over.
Usable(cfg, learned) == learned = Primary \/ learned \in AgentNames(cfg)

\* route_with_learned; "none" when no learned rule is eligible.
RouteWithLearned(cfg, task, learned) ==
    IF Usable(cfg, learned) THEN [target |-> learned, memory |-> TRUE]
    ELSE RouteByStrategy(cfg, task)

-----------------------------------------------------------------------------
(* Escalation and the delegation plan.                                     *)

CurrentCost(cfg, name) ==
    IF name \in AgentNames(cfg) THEN AgentNamed(cfg, name).cost ELSE 0

\* find_escalation_target: the cheapest of the agents that cost more.
EscalationTarget(cfg, name) ==
    LET dearer == {i \in DOMAIN cfg.agents :
                      /\ cfg.agents[i].name # name
                      /\ cfg.agents[i].cost > CurrentCost(cfg, name)}
    IN  IF dearer = {} THEN Primary ELSE Cheapest(cfg, dearer).name

\* should_build_delegation_plan.
Planned(task, target) ==
    /\ target # Primary
    /\ \/ task.complexity >= Complex
       \/ /\ task.complexity >= Moderate
          /\ task.intent \in {"Planning", "Analysis", "Coding"}

\* find_plan_support_agent: none or one name.
SupportAgent(cfg, task, roles, excluded) ==
    LET fit == {i \in Takers(cfg, task, roles) : cfg.agents[i].name \notin excluded}
    IN  IF fit = {} THEN {} ELSE {Foremost(cfg, fit).name}

FramingAgent(cfg, task, target) ==
    SupportAgent(cfg, task, {"Planning", "Analysis"}, {target})

ReviewAgent(cfg, task, target) ==
    SupportAgent(cfg, task, {"Analysis", "Reasoning", "QuestionAnswering", "General"},
                 {target} \cup FramingAgent(cfg, task, target))

\* build_delegation_plan and parallel_support_steps: the agents that work
\* beside the main one.
SupportAgents(cfg, task, target) ==
    IF Planned(task, target)
    THEN FramingAgent(cfg, task, target) \cup ReviewAgent(cfg, task, target)
    ELSE {}
=============================================================================
