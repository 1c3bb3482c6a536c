SPECIFICATION Spec
CHECK_DEADLOCK FALSE
CONSTANTS
    Slots = {0, 1}
    FinishReasons = {"stop", "tool_calls"}
    NoReason = NoReason
    TokenReports = {2}
    MaxLines = 3
    MaxCalls = 2
    MaxUpIndex = 2
    MaxUpFragments = 2
    MaxUpTokens = 2
    MaxAsks = 3
    MaxMessages = 6
    Arguments = {"object", "no json"}
INVARIANT NoUsageStaysZero
