\* One connection with room for every alert, one request at a time; the
\* listener's session breaks.
CONSTANTS
    c1 = c1  c2 = c2  d1 = d1  d2 = d2  NoDevice = NoDevice  Listener = Listener
    SubIds = {s1}
    Clients = {c1}
    Devices = {d1}
    Owner <- MCSoleOwner
    Dispatchers = {Listener}
    BufferSize = 2
    MaxAlerts = 2
    Requests = {r1}
    BatchSize = 1
    MaxFaults = 1
SPECIFICATION FairSystem
PROPERTY AcceptedIsSent
\* Devices may stop sending and clients may stay away.
CHECK_DEADLOCK FALSE
