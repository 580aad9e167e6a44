\* One dispatcher, two connections, one of which may be a stranger, a channel of
\* two: overflow, order, the refinement and progress in one state space.  Only
\* Dispatch is fair: a connection may stall for ever.
CONSTANTS
    s1 = s1  s2 = s2  c1 = c1  c2 = c2  d1 = d1  d2 = d2  d3 = d3  g1 = g1  g2 = g2
    NoDevice = NoDevice
    SubIds = {s1, s2}
    Clients = {c1, c2}
    Devices = {d1}
    Owner <- MCSoleOwner
    Dispatchers = {g1}
    BufferSize = 2
    MaxAlerts = 4
SPECIFICATION FairDispatch
INVARIANTS TypeOK InOrder NeverBlocks LostOnlyToNewer NoLossWithinCapacity
PROPERTIES ImplementsFeed ServesFeed DispatchReturns
\* No alert need come, and the bound ends every behaviour.
CHECK_DEADLOCK FALSE
