SPECIFICATION Spec
CONSTANTS
    Requests = {r1, r2}
    Tokens = {t1}
    MaxConcurrency = 2
    DefaultTimeout = 2
    Parts = 2
    Expiries = {2}
    Horizon = 1
    NoToken = NoToken
    NoGrant = NoGrant
    Unreadable = Unreadable
SYMMETRY Symmetry
INVARIANTS TypeOK AdmittedOnLiveGrant EmptyOnlyToHalfClosed
PROPERTIES DeliveryWithinOverrun
