\* An independently accepted root above a compile task with two verifiers of the
\* root; a system task is published late below one of them.
CONSTANTS
    root = root  mid = mid  left = left  right = right  late = late
    x = x  y = y  z = z  v = v
    Contracts = {root, mid, left, right, late}
    Names = {x, v, z}
    NoContract = NoContract
    Parent <- StagedParent
    Ancestors <- AncestorsUpTo3
    Outputs <- StagedOutputs
    Earlier <- EarlierById
    Independent = {root}
    Verifies <- ChildrenVerifyRoot
    System = {late}
    Genesis = {root, mid, left, right}
    Sessions = {s1, s2}
SYMMETRY SessionSymmetry
SPECIFICATION Spec
INVARIANTS CompleteIsSatisfied OneAssetPerSlot
PROPERTIES DirectOutputsTerminate DirectCompletionFences VerifiersKept
CHECK_DEADLOCK FALSE
