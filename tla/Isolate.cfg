CONSTANTS
    p1 = p1
    p2 = p2
    s1 = s1
    Prompt = {p1, p2}
    Call = {1, 2}
    Scope = {s1}
    ScopeOf <- OneScoped
    MaxText = 1
    Env = {"overlap", "interleave", "timeout", "stop", "scope", "clear", "state", "count", "shutdown"}
    NoPrompt = NoPrompt
    NoCall = NoCall
    NoScope = NoScope
SPECIFICATION Spec
INVARIANTS TypeOK NeverInterrupts OneAtATime EndsAfterAnswer TagsRight OwnAnswer
PROPERTIES StopSticks PromptsEnd
CHECK_DEADLOCK FALSE
