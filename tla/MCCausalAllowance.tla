-------------------------- MODULE MCCausalAllowance --------------------------
(* Small budgeted forests for CausalAllowance.                              *)
EXTENDS CausalAllowance, TLC

CONSTANTS root, task, leaf, next, other

Forest(p) == [c \in Contracts |-> IF c \in DOMAIN p THEN p[c] ELSE NoContract]

\* A root with a task inside it and a leaf inside the task; `next` is published
\* inside the root or succeeds it, and can be paid for only if `task` gives
\* something back; `other` is a retry that nobody funds.
TaskForest == Forest(task :> root @@ leaf :> task @@ next :> root)

\* The transitive closure of Parent, three levels deep.
AncestorsUpTo3 ==
    LET up(S) == {Parent[c] : c \in S} \ {NoContract}
    IN  [c \in Contracts |->
            LET a == up({c})
                b == up(a)
            IN  a \cup b \cup up(b)]

BudgetOf ==
    [c \in Contracts |-> CASE c = root -> 3 [] c \in {task, next} -> 2 [] OTHER -> 1]

SessionSymmetry == Permutations(Sessions)
=============================================================================
