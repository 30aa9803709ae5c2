SPECIFICATION FairSpec
CONSTANTS
    Requests = {r1, r2}
    Tokens = {t1}
    MaxConcurrency = 1
    DefaultTimeout = 1
    Parts = 2
    Expiries = {1}
    Horizon = 1
    NoToken = NoToken
    NoGrant = NoGrant
    Unreadable = Unreadable
INVARIANTS SlotAccounting
PROPERTIES SlotsComeBack KeepsPromise
