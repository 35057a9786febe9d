---------------------------- MODULE MCLedgerIndexes ----------------------------
(* Small instances of LedgerIndexes.                                        *)
EXTENDS LedgerIndexes

CONSTANTS a, b, x, y            \* accounts and members of committed heads
=============================================================================
