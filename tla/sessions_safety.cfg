\* Two handlers race with each other and with the pruning task.
CONSTANTS
    Users = {alice, bob}
    NoUser = NoUser
    Channels = {web, telegram}
    Handlers = {h1, h2}
    MaxSessions = 3
    MaxTime = 2
    TTL = 1
    FewSessions = 2
SPECIFICATION MCSpec
SYMMETRY Symmetry
INVARIANT TypeOK ChannelIsolation SequentialUserIsolation
PROPERTY PruneKeepsEntries RecentSurvive
CHECK_DEADLOCK FALSE
