\* Two accounts, two refreshes or registrations at a time, logouts, failures, expiry.
CONSTANTS
    lo = lo  up = up
    Clients = {c1, c2}
    Requests = {r1, r2}
    NoClient = NoClient
    Emails = {lo, up}
    Lower <- MCLower
    SampleEmail = lo
    TTL = 1
    AccessTTL = 1
    MaxTokens = 3
    MaxTime = 1
    MaxFaults = 1
SPECIFICATION AccountsSpec
INVARIANTS TypeOK RotationInFamily OneUsableToken EndedStaysEnded AccountsTypeOK TwinsOverlapped
PROPERTY NothingTakenBack
SYMMETRY MCSymmetry
\* The callers may stop and the bounds are reached.
CHECK_DEADLOCK FALSE
