CONSTANTS
    Last = 1
    MaxDialogs = 1
    MaxErrors = 1
SPECIFICATION Spec
INVARIANTS TypeOK ClosedIsNotPolled OneEventAtATime
PROPERTY NothingWaits
CHECK_DEADLOCK FALSE
