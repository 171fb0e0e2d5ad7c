\* One player, two connections, one change in play and one to an offline player.
SPECIFICATION LoginSpec
CONSTANTS
    Guid = {g1}
    Change = {c1, o1}
    OfflineChange = {o1}
    Waiter = {w1, w2}
    account <- OwnAccounts
    None = None
SYMMETRY Symmetry
INVARIANTS
    LoginTypeOK
    ReservationExact
    
PROPERTY LoginFresh
