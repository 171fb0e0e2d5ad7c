\* One player, one connection at a time, one change;
\* no symmetry, as liveness properties are checked.
SPECIFICATION FairLoginSpec
CONSTANTS
    Guid = {g1}
    Change = {c1}
    OfflineChange = {}
    Waiter = {w1}
    account <- OwnAccounts
    None = None
PROPERTIES
    ReservationReleased
    SaveAllEnds
