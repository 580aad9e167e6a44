\* Two instances that share Redis, and every kind of fault.
CONSTANTS
    i1 = i1  i2 = i2  d1 = d1  d2 = d2  heat = heat  auto = auto
    Instances = {i1, i2}
    Devices = {d1}
    Types = {heat}
    Marker = auto
    Enabled = TRUE
    Threshold = 1
    Window = 0
    Cooldown = 1
    Skew = 1
    Faults = {"notification", "lookup", "scan", "claim", "reply", "insert", "notify", "disconnect", "crash"}
    MaxFaults = 2
    MaxIngest = 2
    MaxTime = 1
    Prompt = FALSE
SPECIFICATION Spec
INVARIANTS TypeOK EscalationsSpaced
SYMMETRY MCSymmetry
\* The devices may stop sending and the clock is bounded.
CHECK_DEADLOCK FALSE
