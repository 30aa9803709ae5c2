SPECIFICATION Spec
CONSTANTS
    Cursors = {c0, c1, c2, cl}
    First = c0
    LongCursors = {cl}
    NoNext = NoNext
    HitCounts = {0, 1, 2}
    MaximumSearchPages = 3
    MaximumSearchLimit = 3
INVARIANTS InvalidArgumentIsCallersFault
