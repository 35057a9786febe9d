------------------------------ MODULE MCRecovery ------------------------------
(* Small instances of Recovery.                                             *)
EXTENDS Recovery

CONSTANTS tool, prose, payer           \* tasks that may fail, and who pays for them

PaidByParent == [a \in Tasks |-> payer]
UnitCost == [a \in Tasks |-> 1]
OneUnit == [a \in Parents |-> 1]
=============================================================================
