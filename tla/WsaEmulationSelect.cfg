CONSTANTS
    Last = 1
    MaxDialogs = 0
    MaxErrors = 0
SPECIFICATION Spec
INVARIANT SelectedUntilClosed
CHECK_DEADLOCK FALSE
