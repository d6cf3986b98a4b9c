CONSTANTS
    p1 = p1
    p2 = p2
    s1 = s1
    Prompt = {p1, p2}
    Call = {1}
    Scope = {s1}
    ScopeOf <- OneScoped
    MaxText = 1
    Env = {"state"}
    NoPrompt = NoPrompt
    NoCall = NoCall
    NoScope = NoScope
SPECIFICATION Spec
INVARIANT WaitEndsWithPrompt
CHECK_DEADLOCK FALSE
