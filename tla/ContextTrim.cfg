CONSTANTS
    Slot = {default, s2}
    Default = default
    NoSlot = NoSlot
    NCtx = 5
    NBatch = 2
    Margin = 2
    Keep = 2
    PromptLens = {1, 3}
    Backend = {"shift", "noshift", "refuse"}
    Env = {}
SPECIFICATION Spec
INVARIANT PromptWhole
CHECK_DEADLOCK FALSE
