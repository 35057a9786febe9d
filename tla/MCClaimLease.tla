---------------------------- MODULE MCClaimLease ----------------------------
(* Small instances of ClaimLease.                                           *)
EXTENDS ClaimLease, TLC

CONSTANTS c1, c2, w1, w2, r1, r2

\* Version 1 serves everything with room for one claim.
OneProfile ==
    [w \in Workers |-> [v \in Versions |->
        [enabled |-> TRUE, capacity |-> 1, serves |-> Contracts]]]

\* Version 2 of w1 no longer serves c1; version 2 of w2 is disabled.
ChangingProfile ==
    [w \in Workers |-> [v \in Versions |->
        [enabled  |-> ~(w = w2 /\ v = 2),
         capacity |-> 1,
         serves   |-> IF w = w1 /\ v = 2 THEN Contracts \ {c1} ELSE Contracts]]]

TwoSigners == [r \in Requests |-> IF r = r2 THEN w2 ELSE w1]
Ring == {<<c1, c2>>, <<c2, c1>>}
SessionsOnly == Permutations(Sessions)
NoEdges == {}
=============================================================================
