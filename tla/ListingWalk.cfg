\* Every walk over up to three alerts, stored at any time, in pages of 1 or 2,
\* while two devices of the client are renamed into a search and out of it.
CONSTANTS
    c1 = c1  d1 = d1  d2 = d2  None = None  smoke = smoke
    Clients = {c1}
    Devices = {d1, d2}
    Owner <- MCOwner
    Severities = {critical}
    Times = {1}
    AlertIds = {1, 2, 3}
    Texts = {smoke, other}
    Searches = {smoke}
    ILike <- MCILike
    MaxRenames = 2
    MaxPageSize = 2
SPECIFICATION Spec
SYMMETRY MCSymmetry
INVARIANTS TypeOK MissesHaveLeft PlainWalkMissesNothing RepeatsWerePushed TotalCoversPage
\* A behaviour ends with its walk.
CHECK_DEADLOCK FALSE
