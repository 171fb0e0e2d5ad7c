\* An offline save behind the flush of a logout.
SPECIFICATION LoginSpec
CONSTANTS
    Guid = {g1}
    Change = {c1, o1}
    OfflineChange = {o1}
    Waiter = {w1}
    account <- OwnAccounts
    None = None
PROPERTY FlushesInOrder
