\* Two devices of two clients, two names, two requests at a time.
CONSTANTS
    Clients = {c1, c2}
    Names = {m1, m2}
    Statuses = {"inactive"}
    Requests = {r1, r2}
    Window = 1
    MaxDevices = 2
    MaxKeys = 3
    MaxTime = 3
SPECIFICATION Spec
INVARIANTS TypeOK NamesUnique KeysStayDead ExpiredStaysDeleted
PROPERTIES DeletedKeepsKey ImplementsRegistry
SYMMETRY MCSymmetry
\* The clients may stop and the bounds are reached.
CHECK_DEADLOCK FALSE
