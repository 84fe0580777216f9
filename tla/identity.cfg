\* Two calls at once, or one call at a time that may fail half-way, and the
\* operator's CLI.
CONSTANTS
    Procs = {p1, p2}
    Users = {u1, u2}
    Devices = {phone}
    Handles = {Ana, ana}
    Candidates <- WebChatCandidates
    ana = ana
    Requests = {r1, r2}
    None = None
    MaxFails = 1
SPECIFICATION MCSpec
INVARIANT TypeOK BindingsHaveUsers CompletedIsLinked
INVARIANT SequentialAnswers
PROPERTY SequentialHandlesKeepUsers
SYMMETRY Symmetry
CHECK_DEADLOCK FALSE
