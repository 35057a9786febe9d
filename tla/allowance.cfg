\* Two processes publish, hand off and end tasks of one budgeted tree.
CONSTANTS
    root = root  task = task  leaf = leaf  next = next  other = other
    Contracts = {root, task, leaf, next, other}
    NoContract = NoContract
    Parent <- TaskForest
    Ancestors <- AncestorsUpTo3
    Budget <- BudgetOf
    Retry = {other}
    Genesis = {root, task}
    Sessions = {s1, s2}
SYMMETRY SessionSymmetry
SPECIFICATION Spec
INVARIANTS NeverOverdrawn TerminalHoldsNothing LineageBounded Conserved
CHECK_DEADLOCK FALSE
