SPECIFICATION LiveSpec
CONSTANTS
    Calls = {c1, c2}
    NoCall = NoCall
    Unread = Unread
    Content = {0, 1}
    FirstPolicy <- MCFirstPolicy
    FirstRow = 0
    MaxEdits = 0
PROPERTIES
    CallsFinish
CHECK_DEADLOCK FALSE
