\* A deletion while a cycle has the episode in hand.
CONSTANTS
    Users = {u1}
    Handlers = {h1}
    Deleters = {d1}
    None = None
    Facts = {likes_rust}
    Nothing = nothing
    Splits = {}
    Window = 2
    Scan = 2
    Keep = 2
    Budget = 3
    MaxEpisodes = 2
    MaxFacts = 2
    MaxTime = 1
    MaxFails = 0
SPECIFICATION Spec
INVARIANT ErasedStaysErased
CHECK_DEADLOCK FALSE
