---------------------------- MODULE LedgerIndexes ----------------------------
(***************************************************************************)
(* Two derived tables of the SQLite store and their readers: the allowance *)
(* checkpoints, one row of running totals per funding Contract, and the    *)
(* publication index, which finds the committed heads that contain a       *)
(* record.                                                                 *)
(*                                                                         *)
(* The records are the authority.  A writer refreshes the tables in the    *)
(* transaction of the record; a process in reference mode and an older     *)
(* release append records and leave the tables behind.  A reader combines  *)
(* a row with the records after it, or falls back to all the records when  *)
(* it cannot trust the row.  Nobody repairs a table while reading it: only *)
(* an explicit rebuild replaces a row that cannot be trusted.              *)
(***************************************************************************)
EXTENDS Integers, Sequences, FiniteSets

CONSTANTS
    Accounts,      \* funding Contracts
    Members,       \* record identities a committed head may list
    MaxRecords    \* bound: how many records are written

ASSUME LedgerAssumption == MaxRecords \in Nat

\* An allowance record names the accounts it touches and amounts that can be
\* added up, or not.  A committed head names its members, or is not readable.
AllowanceRecords ==
    [type : {"allowance"}, accounts : (SUBSET Accounts) \ {{}}, readable : BOOLEAN]
HeadRecords == [type : {"head"}, members : SUBSET Members, readable : BOOLEAN]
Entries == AllowanceRecords \cup HeadRecords

Positions == 1 .. MaxRecords

\* Totals say how often each record has been added up.
Nowhere == [r \in Positions |-> 0]
Totals == [Positions -> Nat]
Plus(t, u) == [r \in Positions |-> t[r] + u[r]]

Rows == [status : {"missing", "opaque", "valid"}, through : Nat, totals : Totals]
MissingRow == [status |-> "missing", through |-> 0, totals |-> Nowhere]
OpaqueRow(n) == [status |-> "opaque", through |-> n, totals |-> Nowhere]
ValidRow(n, t) == [status |-> "valid", through |-> n, totals |-> t]

MissingState == [present |-> FALSE, through |-> 0, opaque |-> FALSE]
IndexState(n, opaque) == [present |-> TRUE, through |-> n, opaque |-> opaque]

VARIABLES
    log,         \* the runtime records in the order of their revisions
    checkpoint,  \* checkpoint[a]: the row of account a
    index,       \* <<head, member>>: head is a revision
    state        \* the only row of publication_index_state

ledgerVars == <<log, checkpoint, index, state>>

LedgerTypeOK ==
    /\ log \in Seq(Entries)
    /\ Len(log) <= MaxRecords
    /\ checkpoint \in [Accounts -> Rows]
    /\ \A a \in Accounts : checkpoint[a].through <= Len(log)
    /\ index \subseteq (1 .. Len(log)) \X Members
    /\ state \in [present : BOOLEAN, through : 0 .. Len(log), opaque : BOOLEAN]

LedgerInit ==
    /\ log = <<>>
    /\ checkpoint = [a \in Accounts |-> MissingRow]
    /\ index = {}
    /\ state = MissingState

-----------------------------------------------------------------------------
(* Allowance checkpoints.                                                   *)

\* The records of account a in l after revision m and up to revision n.
Touches(l, r, a) == l[r].type = "allowance" /\ a \in l[r].accounts
Related(l, a, m, n) == {r \in 1 .. Len(l) : m < r /\ r <= n /\ Touches(l, r, a)}

\* fold_raw_allowance_records: an amount that cannot be read makes the fold fail.
Foldable(l, a, m, n) == \A r \in Related(l, a, m, n) : l[r].readable
Fold(l, a, m, n) == [r \in Positions |-> IF r \in Related(l, a, m, n) THEN 1 ELSE 0]

\* Mutant: the tail is folded from the last record instead of the cursor.
RefreshedRowLastOnly(l, a) ==
    LET row == checkpoint[a]
        n == Len(l)
    IN  IF row.status = "opaque" THEN row
        ELSE IF ~Foldable(l, a, n - 1, n) THEN OpaqueRow(n)
        ELSE ValidRow(n, Plus(row.totals, Fold(l, a, n - 1, n)))

\* A valid row takes in the records since its cursor, a missing one all records;
\* an opaque one stays as it is.
RefreshedRow(l, a) ==
    LET row == checkpoint[a]
        n == Len(l)
    IN  IF row.status = "opaque" THEN row
        ELSE IF ~Foldable(l, a, row.through, n) THEN OpaqueRow(n)
        ELSE ValidRow(n, Plus(row.totals, Fold(l, a, row.through, n)))

\* Mutant: one record that cannot be read spoils every row.
RecomputedTogether(l, a, n) ==
    IF Related(l, a, 0, n) = {} THEN MissingRow
    ELSE IF \A x \in Accounts : Foldable(l, x, 0, n)
    THEN ValidRow(n, Fold(l, a, 0, n)) ELSE OpaqueRow(n)

\* Every account with a record gets a row from the prefix up to n.
Recomputed(l, a, n) ==
    IF Related(l, a, 0, n) = {} THEN MissingRow
    ELSE IF Foldable(l, a, 0, n) THEN ValidRow(n, Fold(l, a, 0, n)) ELSE OpaqueRow(n)

\* read_raw_allowance_checkpoint: the row and the exact tail.
Unreadable == [status |-> "opaque", totals |-> Nowhere]

Read(a) ==
    LET row == checkpoint[a]
    IN  IF row.status = "opaque" \/ ~Foldable(log, a, row.through, Len(log)) THEN Unreadable
        ELSE [status |-> "valid",
              totals |-> Plus(row.totals, Fold(log, a, row.through, Len(log)))]

-----------------------------------------------------------------------------
(* The publication index.                                                   *)

Heads(l, m, n) == {r \in 1 .. Len(l) : m < r /\ r <= n /\ l[r].type = "head"}
Relations(l, m, n) ==
    {p \in Heads(l, m, n) \X Members : l[p[1]].readable /\ p[2] \in l[p[1]].members}
Illegible(l, m, n) == \E r \in Heads(l, m, n) : ~l[r].readable

\* Mutant: only the new head is indexed.
IndexedHeadOnly(l) ==
    /\ index' = index \cup Relations(l, Len(l) - 1, Len(l))
    /\ state' = IndexState(Len(l), state.opaque \/ Illegible(l, Len(l) - 1, Len(l)))

\* The heads since the cursor are indexed.  Without a cursor everything is, and
\* whatever the table holds is dropped.
Indexed(l) ==
    /\ index' = (IF state.present THEN index ELSE {}) \cup Relations(l, state.through, Len(l))
    /\ state' = IndexState(Len(l), state.opaque \/ Illegible(l, state.through, Len(l)))

\* read_allowance_publication_selection for the heads of x.
Find(x) ==
    IF \/ ~state.present \/ state.opaque
       \/ Illegible(log, state.through, Len(log))
    THEN [complete |-> FALSE, heads |-> {}]
    ELSE [complete |-> TRUE,
          heads |-> {r \in 1 .. state.through : <<r, x>> \in index}
                    \cup {r \in Heads(log, state.through, Len(log)) : x \in log[r].members}]

-----------------------------------------------------------------------------
(* Writers.                                                                 *)

\* A record is inserted, and its tables are refreshed in the same transaction.
Insert(e) ==
    LET l == Append(log, e)
    IN  /\ Len(log) < MaxRecords
        /\ log' = l
        /\ checkpoint' = [a \in Accounts |->
              IF Touches(l, Len(l), a) THEN RefreshedRow(l, a) ELSE checkpoint[a]]
        /\ IF e.type = "head" THEN Indexed(l) ELSE UNCHANGED <<index, state>>

\* An older release, or a process in reference mode.
InsertOnly(e) ==
    /\ Len(log) < MaxRecords
    /\ log' = Append(log, e)
    /\ UNCHANGED <<checkpoint, index, state>>

RebuildCheckpoints ==
    /\ checkpoint' = [a \in Accounts |-> Recomputed(log, a, Len(log))]
    /\ UNCHANGED <<log, index, state>>

RebuildIndex ==
    /\ index' = Relations(log, 0, Len(log))
    /\ state' = IndexState(Len(log), Illegible(log, 0, Len(log)))
    /\ UNCHANGED <<log, checkpoint>>

LedgerNext ==
    \/ \E e \in Entries : Insert(e) \/ InsertOnly(e)
    \/ RebuildCheckpoints
    \/ RebuildIndex

LedgerSpec == LedgerInit /\ [][LedgerNext]_ledgerVars

-----------------------------------------------------------------------------
(* Properties.                                                              *)

\* ADR-047: what a reader takes for the totals of an account is what adding up
\* every one of its records gives, each once, whoever wrote them.
ReadsAreExact ==
    \A a \in Accounts :
        Read(a).status = "valid" => Read(a).totals = Fold(log, a, 0, Len(log))

\* A reader falls back to the full history only for a reason in the history.
FallsBackForAReason ==
    \A a \in Accounts : Read(a).status = "opaque" => ~Foldable(log, a, 0, Len(log))

\* ADR-048: a selection that calls itself complete has every committed head that
\* contains the record, so that no competing publication is overlooked.
FindsEveryHead ==
    \A x \in Members :
        Find(x).complete =>
            Find(x).heads = {r \in Heads(log, 0, Len(log)) : x \in log[r].members}

\* audit_allowance_checkpoints and audit_publication_index never report what
\* these writers did: a digest of the Store is not refused for it.
CheckpointsPass ==
    \A a \in Accounts :
        LET row == checkpoint[a]
        IN  /\ row.status = "valid" =>
                  /\ Foldable(log, a, 0, row.through)
                  /\ row.totals = Fold(log, a, 0, row.through)
            /\ row.status # "valid" => row.totals = Nowhere
IndexPasses ==
    IF state.present
    THEN /\ index = Relations(log, 0, state.through)
         /\ state.opaque = Illegible(log, 0, state.through)
    ELSE index = {}
AuditsPass == CheckpointsPass /\ IndexPasses
=============================================================================
