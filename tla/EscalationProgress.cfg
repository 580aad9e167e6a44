\* Handling is prompt; sessions break and processes die.
CONSTANTS
    i1 = i1  i2 = i2  d1 = d1  d2 = d2  heat = heat  auto = auto
    Instances = {i1, i2}
    Devices = {d1}
    Types = {heat, auto}
    Marker = auto
    Enabled = TRUE
    Threshold = 2
    Window = 1
    Cooldown = 2
    Skew = 0
    Faults = {"disconnect", "crash"}
    MaxFaults = 1
    MaxIngest = 3
    MaxTime = 3
    Prompt = TRUE
SPECIFICATION FairSpec
INVARIANTS BurstEscalated BurstEvidence
PROPERTY AlwaysSettles
\* The devices may stop sending and the clock is bounded.
CHECK_DEADLOCK FALSE
