---------------------------- MODULE MCFleetService ----------------------------
(* Small instances of FleetService.                                         *)
EXTENDS FleetService

CONSTANTS k1, k2, s1, s2        \* commands and slots
=============================================================================
