\* The bus with a crash and a panic; or the sessions between two pruning
\* cycles; or the consolidation.
CONSTANTS
    Adapters = {telegram}
    Direct = {webhook}
    Bridge = bridge
    Worker = worker
    Sockets = {ws}
    Capacity = 2
    Retention = 1
    IdsPerTick = 1
    MaxTime = 2
    MaxEvents = 3
    MaxCrashes = 1
    SessionUsers = {alice, bob}
    NoUser = NoUser
    Channels = {web}
    Handlers = {h1, h2}
    MaxSessions = 3
    LastTime = 1
    TTL = 1
    MemoryUsers = {u1}
    Storers = {s1}
    None = None
    Facts = {likes_rust}
    Nothing = nothing
    Splits = {split}
    Window = 4
    Scan = 1
    Keep = 1
    Budget = 3
    MaxEpisodes = 2
    MaxFacts = 3
    MaxCycles = 6
    MaxFails = 1
SPECIFICATION MCSpec
INVARIANT TypeOK SeenIsLogged HandledOnceInOrder
PROPERTY AcceptedResolved RequestsFinish LearnedUnlessPanicked
CHECK_DEADLOCK FALSE
