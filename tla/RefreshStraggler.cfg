\* A refresh under way while reuse is detected, and nothing fails.
CONSTANTS
    Clients = {c1}
    Requests = {r1, r2}
    TTL = 2
    MaxTokens = 3
    MaxTime = 0
    MaxFaults = 0
SPECIFICATION Spec
INVARIANT ReuseRevokesFamily
SYMMETRY MCSymmetry
\* The callers may stop and the bounds are reached.
CHECK_DEADLOCK FALSE
