\* Two requests of two clients' devices, a listener that loses its session, one
\* connection that overflows.
CONSTANTS
    c1 = c1  c2 = c2  d1 = d1  d2 = d2  NoDevice = NoDevice  Listener = Listener
    SubIds = {s1}
    Clients = {c1, c2}
    Devices = {d1}
    Owner <- MCSoleOwner
    Dispatchers = {Listener}
    BufferSize = 1
    MaxAlerts = 3
    Requests = {r1, r2}
    BatchSize = 2
    MaxFaults = 1
SPECIFICATION FairSystem
INVARIANTS SystemTypeOK Isolation PublishedOnce BatchInOrder AcceptedAccountedFor
PROPERTY StoredIsShown
\* Devices may stop sending and clients may stay away.
CHECK_DEADLOCK FALSE
