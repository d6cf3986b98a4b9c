CONSTANTS
    i1 = i1  i2 = i2  o1 = o1  o2 = o2  s1 = s1  s2 = s2  c1 = c1  c2 = c2  p1 = p1
    Id = {i1, i2}
    Obj = {o1, o2}
    Slot = {s1, s2}
    Caller = {c1, c2}
    UserPath = {}
    MaxLen = 1
    Env = {"cancel", "overlap", "janitor", "ioerr", "decode", "persist", "crash"}
    NoId = NoId  NoObj = NoObj  NoSlot = NoSlot  NoFile = NoFile  NoHist = NoHist
SPECIFICATION Spec
SYMMETRY Symmetry
INVARIANTS TypeOK BoundIsMapped NoForeignHistory SlotAccounting FreeSlotsAreClean
PROPERTIES EvictionSparesGenerating PoolSpec
CHECK_DEADLOCK FALSE
