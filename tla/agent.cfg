\* The agent.
CONSTANTS
    Configs <- MCConfigs
    Messages <- MCMessages
    SmallTasks <- MCSmallTasks
    Calls <- MCCalls
    Batches <- MCBatches
    MaxToolRounds = 2
    MaxPasses = 1
    MaxWork = 2
    LearnedTargets = {"none", "planner"}
    Agents = {"primary", "coder"}
    Policy <- MCPolicy
    RouteTasks <- MCRouteTasks
    AutoAccept = FALSE
    Verdicts = {"accepted", "accepted_unverified", "escalated", "failed"}
    Penalties = {0, 800}
    Turns = {t1}
    MaxDay = 2
    MaxRecords = 4
    Absent = Absent
    Torn = Torn
    Artifacts <- MCArtifacts
    Root <- MCRoot
    Names = {"deploy"}
    Tasks = {"t1", "t2"}
    MaxCalls = 2
    Executions = {"e1", "e2"}
    NoOne = NoOne
    Setups <- MCSetups
    Conversations <- MCConversations
    Answers <- MCAnswers
    ModelPrefixes = {"plain", "ollama", "anthropic", "kilocode", "google"}
SPECIFICATION MCSpec
INVARIANT TypesOK AnswersAreHonest RoutesHoldUp SequentialStore Recoverable OutcomeIsTrue
INVARIANT RetriesAccounted
PROPERTY TurnKeepsPromises BadRoutesPenalized
CHECK_DEADLOCK FALSE
