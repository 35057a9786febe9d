----------------------------- MODULE MCHandover -----------------------------
(* Small instances of Handover.                                             *)
EXTENDS Handover, TLC

CONSTANTS root, task, part, check, other, next1, next2, rev1, x, y, z, v

In(default, f) == [c \in Contracts |-> IF c \in DOMAIN f THEN f[c] ELSE default]

\* The transitive closure of Parent, three levels deep.
AncestorsUpTo3 ==
    LET up(S) == {Parent[c] : c \in S} \ {NoContract}
    IN  [c \in Contracts |-> up({c}) \cup up(up({c})) \cup up(up(up({c})))]

OneProfile(room) ==
    [a \in Workers |-> [n \in Versions |->
        [enabled |-> TRUE, capacity |-> room, serves |-> Contracts]]]
OneAtATime == OneProfile(1)
\* Whether two claims exclude each other is not left to the capacity of a worker.
TwoAtATime == OneProfile(2)
NoEdges == {}
NobodyVerifies == [c \in Contracts |-> {}]

\* The root is accepted by the verifier `check`; `part` and `other` both produce one of
\* the two outputs of the task.
TreeParent ==
    In(NoContract, task :> root @@ part :> task @@ check :> part @@ next1 :> task)
TreeOutputs == In({}, root :> {z} @@ task :> {x, y} @@ part :> {x} @@ check :> {v} @@ other :> {x})
TreeVerifies == In({}, check :> {root})
TreeEdges == {<<part, other>>, <<task, part>>}

\* An independently accepted task with two outputs, a review task and two possible
\* successors.
ReviewParent ==
    In(NoContract, rev1 :> task @@ next1 :> task @@ next2 :> task)
ReviewOutputs == In({}, task :> {x, y} @@ rev1 :> {z})
=============================================================================
