\* A request and a pruning cycle that take the two locks in opposite order.
CONSTANTS
    Users = {alice}
    NoUser = NoUser
    Channels = {web}
    Handlers = {h1}
    MaxSessions = 2
    MaxTime = 0
    TTL = 1
SPECIFICATION FairSpec
PROPERTY PruneCompletes
CHECK_DEADLOCK FALSE
