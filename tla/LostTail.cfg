CONSTANTS
    Caller = {c1}
    MaxRid = 1
    MaxText = 2
VIEW View
SPECIFICATION Spec
INVARIANT FullText
CHECK_DEADLOCK FALSE
