SPECIFICATION FairSpec
CONSTANTS
    Downloads = {local, remote}
    Remote = {remote}
    MaxBytes = 1
    Absent = Absent
    Foreign = Foreign
    Unknown = Unknown
INVARIANTS TypeOK TargetWhole NothingLeft CancelledUnpublished CollisionReported
PROPERTIES KeepsPromise Returns
