CONSTANTS
    N = 2
    NBatch = 1
    Cap = 1
    NCtx = 3
    Margin = 1
    PromptLens = {1}
    MediaSess = {}
    MediaPrompts = {}
SPECIFICATION Spec
PROPERTY Served
CHECK_DEADLOCK FALSE
