\* Two processes answer the failures of a tool call, of another task and of their
\* repairs, when the parent can pay for one of them.
CONSTANTS
    tool = tool  prose = prose  payer = payer
    Kinds = {"expiration", "rejection", "refusal"}
    Tasks = {tool, prose}
    ToolTasks = {tool}
    Parents = {payer}
    Parent <- PaidByParent
    Cost <- UnitCost
    Allowance <- OneUnit
    DepthLimit = 1
    MaxFailures = 2
    MaxCrashes = 1
    NoSource = NoSource
    Processes = {i1, i2}
SPECIFICATION FairSpec
INVARIANTS OneRecoveryEach ScheduledIsPublished
PROPERTIES EveryFailureAnswered
CHECK_DEADLOCK FALSE
