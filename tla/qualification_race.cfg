\* Two verifiers attest the two outputs of one Contract at the same time.
CONSTANTS
    root = root  mid = mid  left = left  right = right  late = late
    x = x  y = y  z = z  v = v
    Contracts = {root, left, right, late}
    Names = {x, y, z}
    NoContract = NoContract
    Parent <- PairParent
    Ancestors <- AncestorsUpTo3
    Outputs <- PairOutputs
    Earlier <- EarlierById
    Independent = {root}
    Verifies <- NobodyVerifies
    System = {}
    Genesis = {root, left, right}
    Sessions = {s1, s2}
SYMMETRY SessionSymmetry
SPECIFICATION Spec
PROPERTIES OutputCompleteTerminates
CHECK_DEADLOCK FALSE
