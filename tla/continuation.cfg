\* Two processes project the completions of a tool call and of a task that no plugin
\* handles, of one parent whose balance other children use meanwhile.
CONSTANTS
    s1 = s1  s2 = s2 
    Sources = {s1, s2}
    Method <- ToolAndOther
    Grant = 2
    Review = 0
    Processes = {i1, i2}
    MaxCrashes = 1
    NoSource = NoSource
SPECIFICATION FairSpec
INVARIANTS OneContinuation NeverStranded
PROPERTIES EveryCompletionProjected
CHECK_DEADLOCK FALSE
