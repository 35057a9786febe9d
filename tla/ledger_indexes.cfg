\* Every history of three records about two accounts and two members, written with and
\* without the tables, and every rebuild.
CONSTANTS
    a = a  b = b  x = x  y = y
    Accounts = {a, b}
    Members = {x, y}
    MaxRecords = 3
SPECIFICATION LedgerSpec
INVARIANTS ReadsAreExact FallsBackForAReason FindsEveryHead
CHECK_DEADLOCK FALSE
