---------------------------- MODULE MCCompletion ----------------------------
(* Small forests for Completion.                                            *)
EXTENDS Completion, TLC

CONSTANTS root, mid, left, right, late, x, y, z, v

ParentIn(p) == [c \in Contracts |-> IF c \in DOMAIN p THEN p[c] ELSE NoContract]
OutputsIn(o) == [c \in Contracts |-> IF c \in DOMAIN o THEN o[c] ELSE {}]

\* The transitive closure of Parent, three levels deep.
AncestorsUpTo3 ==
    LET up(S) == {Parent[c] : c \in S} \ {NoContract}
    IN  [c \in Contracts |->
            LET a == up({c})
                b == up(a)
            IN  a \cup b \cup up(b)]

\* A root with two outputs, produced below it by two children; one more task
\* is published late, next to them.
PairParent == ParentIn(left :> root @@ right :> root @@ late :> root)
PairOutputs == OutputsIn(root :> {x, y} @@ left :> {x} @@ right :> {y} @@ late :> {z})

\* Staged planning: the compile task owns two tasks that both verify the
\* independently accepted root; a system task is published late, below one of
\* them.
StagedParent == ParentIn(mid :> root @@ left :> mid @@ right :> mid @@ late :> left)
StagedOutputs ==
    OutputsIn(root :> {x} @@ mid :> {v} @@ left :> {x, z} @@ right :> {v} @@ late :> {z})
ChildrenVerifyRoot == [c \in Contracts |-> IF c \in {left, right} THEN {root} ELSE {}]

\* Contracts are looked at in the order of their ids.
Id == late :> 1 @@ left :> 2 @@ mid :> 3 @@ right :> 4 @@ root :> 5
LowerIds == [c \in Contracts |-> {d \in Contracts : Id[d] < Id[c]}]
EarlierById(c, B) == LowerIds[c]

NobodyVerifies == [c \in Contracts |-> {}]
SessionSymmetry == Permutations(Sessions)
=============================================================================
