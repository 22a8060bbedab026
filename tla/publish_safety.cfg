SPECIFICATION Spec
CONSTANTS
    Calls = {c1, c2}
    NoCall = NoCall
    Unread = Unread
    Content = {0, 1}
    FirstPolicy <- MCFirstPolicy
    FirstRow = 1
    MaxEdits = 2
SYMMETRY CallSymmetry
INVARIANTS
    TypeOK
    SnapshotIsOneState
    SnapshotsOrdered
    VersionsHaveSnapshots
    SuccessLogMatches
    AcknowledgedPublishKept
    AuditShowsProgress
PROPERTIES
    PublishedForever
    ImplementsHistory
CHECK_DEADLOCK FALSE
