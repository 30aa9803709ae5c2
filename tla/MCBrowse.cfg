SPECIFICATION FairSpec
CONSTANTS
    c0 = c0
    c1 = c1
    cw = cw
    cl = cl
    Cursors = {c0, c1, cw, cl}
    First = c0
    NoNext = NoNext
    LongCursors = {cl}
    WideCursors = {cw}
    Catalogs <- MCCatalogs
    Tokens = {t1}
    None = None
    MaxCommands = 3
    MaxEdits = 2
INVARIANTS TypeOK UsageErrorsExplained DeniedOnlyWithoutGrant PagesOnGrant
PROPERTIES KeepsPromise Returns
