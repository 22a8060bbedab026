SPECIFICATION Spec
CONSTANTS
    Calls = {c1, c2}
    NoCall = NoCall
    Unread = Unread
    Content = {0, 1}
    FirstPolicy <- MCFirstPolicy
    FirstRow = 1
    MaxEdits = 0
INVARIANTS
    FailedPublishUnchanged
CHECK_DEADLOCK FALSE
