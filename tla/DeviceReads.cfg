\* Every walk of a client over its devices, by one or two to the page, while they change.
CONSTANTS
    Clients = {c1}
    Names = {m1, m2, m3}
    Statuses = {"inactive"}
    AnyStatus = AnyStatus
    Keys = {k1, k2, k3}
    MaxDevices = 3
    MaxPageSize = 2
    PageSizes = {1, 2, 3}
SPECIFICATION ReadsSpec
INVARIANTS ReadsTypeOK MissesAreExplained MuteKeysRefused
SYMMETRY MCSymmetry
\* The clients may stop and the bounds are reached.
CHECK_DEADLOCK FALSE
