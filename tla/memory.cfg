\* Requests and consolidation, with deletions and a failure, or without; or
\* the turns of two sessions.
CONSTANTS
    Users = {u1, u2}
    Handlers = {h1, h2}
    Deleters = {d1}
    None = None
    Facts = {likes_rust, works_nights}
    Nothing = nothing
    Splits = {split}
    Window = 2
    Scan = 3
    Keep = 1
    Budget = 1
    MaxEpisodes = 4
    MaxFacts = 3
    MaxTime = 2
    MaxFails = 1
    FewEpisodes = 3
    EarlyTime = 1
    Sessions = {"s1", "s2"}
    Turns = {"t1", "t2", "t3"}
    Sizes = {1, 3}
    MaxTokens = 5
SPECIFICATION MCSpec
INVARIANT TypesOK FactsAreSound WindowKept SequentialContext
PROPERTY UndisturbedPruneKeepsNewest
SYMMETRY Symmetry
CHECK_DEADLOCK FALSE
