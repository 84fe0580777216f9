\* A device is revoked, or paired anew, while a signed message is resolved.
CONSTANTS
    Procs = {p1, p2}
    Users = {u1, u2}
    Devices = {phone}
    Handles = {ana}
    Candidates <- WebChatCandidates
    ana = ana
    Requests = {r1}
    None = None
    MaxFails = 0
SPECIFICATION MCSpec
INVARIANT ResolveNeverPanics
SYMMETRY Symmetry
CHECK_DEADLOCK FALSE
