\* A user with one fact more than the budget of the retrieval holds.
CONSTANTS
    Users = {u1}
    Handlers = {h1}
    Deleters = {}
    None = None
    Facts = {likes_rust, works_nights}
    Nothing = nothing
    Splits = {}
    Window = 2
    Scan = 2
    Keep = 2
    Budget = 1
    MaxEpisodes = 2
    MaxFacts = 4
    MaxTime = 2
    MaxFails = 0
SPECIFICATION Spec
INVARIANT NoDuplicateFacts
CHECK_DEADLOCK FALSE
