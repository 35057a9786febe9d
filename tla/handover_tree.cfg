\* A task below an independently accepted root, with a part and a verifier below it and
\* prerequisite links: a handoff while the tree changes.
CONSTANTS
    root = root  task = task  part = part  check = check  other = other  next1 = next1  next2 = next2
    rev1 = rev1  x = x  y = y  z = z  v = v
    Contracts = {root, task, part, check, other, next1}
    Workers = {w1}
    NoWorker = NoWorker
    MaxVersion = 1
    Profile <- OneAtATime
    HoldIds = {}
    Edges <- TreeEdges
    Assignable = {}
    NoContract = NoContract
    NoHold = NoHold
    Parent <- TreeParent
    Ancestors <- AncestorsUpTo3
    Names = {x, y, z, v}
    Outputs <- TreeOutputs
    Independent = {root}
    Verifies <- TreeVerifies
    Controlled = {}
    Successors = {next1}
    Reviewers = {}
    Genesis = {root, task, other}
    Root = task
    Modes = {"handoff"}
    Sessions = {s1}

SPECIFICATION Spec
INVARIANTS NothingLeftBehind PrerequisitesKept
PROPERTIES ReplacementSparesVerifiers
CHECK_DEADLOCK FALSE
