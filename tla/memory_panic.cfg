\* An episode that panics the extraction.
CONSTANTS
    Users = {u1}
    Handlers = {h1}
    Deleters = {}
    None = None
    Facts = {likes_rust}
    Nothing = nothing
    Splits = {split}
    Window = 4
    Scan = 2
    Keep = 3
    Budget = 3
    MaxEpisodes = 2
    MaxFacts = 4
    MaxTime = 5
    MaxFails = 0
SPECIFICATION FairSpec
PROPERTY Learned
CHECK_DEADLOCK FALSE
