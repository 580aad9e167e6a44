\* A patch that read the device before it was deleted.
CONSTANTS
    Clients = {c1}
    Names = {m1, m2}
    Statuses = {"active", "inactive"}
    Requests = {r1, r2}
    Window = 1
    MaxDevices = 1
    MaxKeys = 1
    MaxTime = 1
SPECIFICATION Spec
PROPERTY DeletedNotUpdated
CHECK_DEADLOCK FALSE
