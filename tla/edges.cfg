\* One part of the gateway's edges at a time.
CONSTANTS
    None = None
    Torn = Torn
    Parts <- MCParts
    Keys = {alice}
    Callers = {c1, c2, c3}
    MaxRequests = 2
    Conns = {s1, s2}
    MaxConns = 1
    MaxMessages = 1
    Burst = 2
    MaxPanics = 1
    Window = 2
    MaxTime = 4
    Messages = {"m1", "m2", "m3"}
    Batch <- MCBatch
    Hooks <- MCHooks
    MaxTries = 2
    MaxFails = 1
    Replies = {r1, r2}
    Requests = {q1, q2}
    Life = 2
    Margin = 1
    TTL = 1
    Slow = 1
    LastTime = 3
    Telegrams <- MCTelegrams
    Users = {"ann"}
    Discords <- MCDiscords
    Guilds = {"g"}
    Prefix = "!"
    Slacks <- MCSlacks
    Matrices <- MCMatrices
    Signals <- MCFromUs
    WhatsApps <- MCTexts
    MaxPosts = 3
    MaxStops = 1
    TimelineLimit = 2
    StderrRoom = 2
    WhatsAppPosts = 1
    MaxLinks = 2
    MaxSent = 3
    MaxChains = 2
    MaxFailed = 1
    Configured <- MCConfigured
    Chats <- MCChats
    MaxInbound = 2
    Senders = {w1, w2}
    CounterSize = 2
    MaxFrames = 3
    Radix = 4
    Nibble = 2
SPECIFICATION MCSpec
INVARIANT TypeOK SocketsAreLimited
INVARIANT Receipts CredentialsFresh DownIsNoticed CiphersAgree WireIsFaithful
INVARIANT RepliesReachPlainChats
PROPERTY LimiterIsExact Feeds
CHECK_DEADLOCK FALSE
