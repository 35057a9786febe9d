\* An independently accepted task with two outputs, a review and two possible successors:
\* handoffs, edits and revisions while outputs are delivered and accepted, and while
\* holds, assignments and claims change.
CONSTANTS
    root = root  task = task  part = part  check = check  other = other  next1 = next1  next2 = next2
    rev1 = rev1  x = x  y = y  z = z  v = v
    Contracts = {task, rev1, next1, next2}
    Workers = {w1}
    NoWorker = NoWorker
    MaxVersion = 1
    Profile <- TwoAtATime
    HoldIds = {h1, h2}
    Edges <- NoEdges
    Assignable = {task}
    NoContract = NoContract
    NoHold = NoHold
    Parent <- ReviewParent
    Ancestors <- AncestorsUpTo3
    Names = {x, y, z, v}
    Outputs <- ReviewOutputs
    Independent = {task, next1, next2}
    Verifies <- NobodyVerifies
    Controlled = {}
    Successors = {next1, next2}
    Reviewers = {rev1}
    Genesis = {task}
    Root = task
    Modes = {"revise", "handoff", "edit"}
    Sessions = {s1}
SPECIFICATION Spec
INVARIANTS HoldsCarried AssignmentCarried OneClaimant
PROPERTIES ObligationKept
CHECK_DEADLOCK FALSE
