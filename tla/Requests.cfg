CONSTANTS
    Caller = {c1, c2}
    MaxRid = 2
    MaxText = 2
VIEW View
SPECIFICATION Spec
INVARIANTS TypeOK OwnText TailUnderWay
PROPERTIES TextSpec RequestsEnd
CHECK_DEADLOCK FALSE
