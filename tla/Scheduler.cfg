CONSTANTS
    N = 2
    NBatch = 2
    Cap = 1
    NCtx = 4
    Margin = 1
    PromptLens = {2}
    MediaSess = {0}
    MediaPrompts <- SmallMedia
SPECIFICATION Spec
INVARIANTS TypeOK PositionsFollow BatchFits GeneratingHasWork WithinContext
PROPERTY TextServed
VIEW View
CHECK_DEADLOCK FALSE
