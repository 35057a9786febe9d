--------------------------- MODULE CausalAllowance ---------------------------
(***************************************************************************)
(* Causal allowance: every Contract is granted its budget when it is       *)
(* declared, a child's budget is reserved from its parent, what is left    *)
(* when a Contract ends is extinguished, and a handoff returns what        *)
(* cancelled descendants have left to the Contract it replaces.            *)
(*                                                                         *)
(* There is no mutable counter: a balance is computed from the committed   *)
(* records.  A process computes it without the lock when it projects a     *)
(* batch, and the Store computes it again under the lock when the batch is *)
(* committed.  Other batches commit in between.                            *)
(*                                                                         *)
(* Which Contracts end, and why, is decided elsewhere (see Completion and  *)
(* ClaimLease): here any live Contracts may end together.                  *)
(***************************************************************************)
EXTENDS Integers, FiniteSetsExt

CONSTANTS
    Contracts,
    NoContract,
    Parent,        \* the containment parent, or NoContract
    Ancestors,     \* all Contracts above
    Budget,        \* Budget[c]: what c is granted when it is declared
    Retry,         \* Contracts of origin "retry"
    Genesis,       \* Contracts declared at the start
    Sessions       \* processes that commit batches

ASSUME ParentAssumption ==
    /\ IsFiniteSet(Contracts) /\ NoContract \notin Contracts
    /\ Parent \in [Contracts -> Contracts \cup {NoContract}]
    /\ Ancestors \in [Contracts -> SUBSET Contracts]
    /\ \A c \in Contracts :
          /\ c \notin Ancestors[c]
          /\ Ancestors[c] = IF Parent[c] = NoContract THEN {}
                            ELSE {Parent[c]} \cup Ancestors[Parent[c]]
ASSUME BudgetAssumption == Budget \in [Contracts -> Nat]

\* f[x], added up over the x in S.
Total(f, S) == MapThenSumSet(LAMBDA x : f[x], S)
Cost == [S \in SUBSET Contracts |-> Total(Budget, S)]

\* What exists at the start was published the same way: parents first, and paid for.
ASSUME GenesisAssumption ==
    /\ Retry \subseteq Contracts
    /\ Genesis \subseteq Contracts
    /\ \A c \in Genesis : Parent[c] \in Genesis \cup {NoContract}
    /\ \A c \in Contracts : Cost[{d \in Genesis : Parent[d] = c}] <= Cost[{c}]

VARIABLES
    declared,      \* Contracts in the Store; each has its grant and reservation
    terminal,      \* terminal[c]: how the lifecycle.terminal record of c came about
    extinguished,  \* extinguished[c]: the amount of its allowance.extinguished record
    returnedIn,    \* returnedIn[c]: what allowance.returned records credit to c
    returnedOut,   \* returnedOut[c]: ... and debit from c
    prepared       \* prepared[s]: the batch s has projected but not committed

records == <<declared, terminal, extinguished, returnedIn, returnedOut>>
vars == <<records, prepared>>

\* A "derived" terminal is a consequence: whoever derives it writes the same
\* record.  An "ended" one is an outcome with an author of its own.
Outcomes == {"none", "derived", "ended"}

Zero == [c \in Contracts |-> 0]
Batches ==
    [children  : SUBSET Contracts,         \* Contracts to declare
     ended     : SUBSET Contracts,         \* terminals of the batch itself
     derived   : SUBSET Contracts,         \* terminals derived before the lock
     amount    : [Contracts -> Nat],       \* projected extinguishments, 0 = none
     source    : Contracts \cup {NoContract},  \* the Contract a handoff replaces
     cancelled : SUBSET Contracts,         \* its cancelled descendants
     gift      : [Contracts -> Nat],       \* what each of them returns
     total     : Nat,                      \* ... and all of them together
     below     : SUBSET Contracts,         \* the live descendants that were seen
     held      : Nat]                      \* ... and the balance of the source
NoBatch ==
    [children |-> {}, ended |-> {}, derived |-> {}, amount |-> Zero,
     source |-> NoContract, cancelled |-> {}, gift |-> Zero, total |-> 0, below |-> {}, held |-> 0]

TypeOK ==
    /\ declared \subseteq Contracts
    /\ terminal \in [Contracts -> Outcomes]
    /\ extinguished \in [Contracts -> Nat]
    /\ returnedIn \in [Contracts -> Nat]
    /\ returnedOut \in [Contracts -> Nat]
    /\ prepared \in [Sessions -> Batches]

Init ==
    /\ declared = Genesis
    /\ terminal = [c \in Contracts |-> "none"]
    /\ extinguished = Zero
    /\ returnedIn = Zero
    /\ returnedOut = Zero
    /\ prepared = [s \in Sessions |-> NoBatch]

-----------------------------------------------------------------------------
\* Balances.

NonNeg(n) == IF n > 0 THEN n ELSE 0
Children(S, c) == {d \in S : Parent[d] = c}

\* What the records say: granted, less what children reserved, and so on.
Balance(c) ==
    Cost[{c}] - Cost[Children(declared, c)]
        + returnedIn[c] - returnedOut[c] - extinguished[c]

\* allowance_available never shows a negative balance.
Available(c) == NonNeg(Balance(c))

Requested(b, c) == Cost[Children(b.children, c)]
Credit(b, c) == IF c = b.source THEN b.total ELSE 0

\* Mutant: a donor keeps what it returns.
DebitForgotten(b, c) == 0
Debit(b, c) == IF c \in b.cancelled THEN b.gift[c] ELSE 0

\* The balance reservations of b are measured against, ...
Spendable(b, c) == NonNeg(Balance(c) + Credit(b, c) - Debit(b, c))

\* ... and what is left of c once b is committed.
Remainder(b, c) == NonNeg(Balance(c) + Credit(b, c) - Debit(b, c) - Requested(b, c))

Live(c) == c \in declared /\ terminal[c] = "none"

\* Mutant: anybody may donate.
LiveOthers(c) == {x \in declared : x # c /\ Live(x)}
LiveBelow(c) == {x \in declared : c \in Ancestors[x] /\ Live(x)}

-----------------------------------------------------------------------------
\* Projecting a batch without the lock.

\* New Contracts with known parents, each parent able to pay for its own; a
\* retry at the root has nobody to pay for it.
Publishable(b) ==
    /\ b.children \cap declared = {}
    /\ \A d \in b.children :
          /\ Parent[d] \in declared \cup b.children \cup {NoContract}
          /\ ~(Parent[d] = NoContract /\ d \in Retry)
          /\ Parent[d] # NoContract => Requested(b, Parent[d]) <= Spendable(b, Parent[d])

Amounts(b) ==
    [x \in Contracts |->
        IF x \in (b.ended \cup b.derived) \cap declared /\ Live(x)
        THEN Remainder(b, x) ELSE 0]

Project(s, b) ==
    /\ prepared[s] = NoBatch
    /\ Publishable(b)
    /\ prepared' = [prepared EXCEPT ![s] = [b EXCEPT !.amount = Amounts(b)]]
    /\ UNCHANGED records

\* A Candidate that declares Contracts, ends the Contracts E and with them the
\* unfinished F below, or both.
ProjectBatch(s, D, E, F) ==
    /\ D \cup E # {}
    /\ \A x \in E : Live(x)
    /\ F \subseteq UNION {LiveBelow(x) : x \in E} \ E
    /\ Project(s, [NoBatch EXCEPT !.children = D, !.ended = E, !.derived = F])

\* task.handoff cancels the live Contract c, cancels X and repairs Y below it
\* and declares one successor inside c, paid for by what c has left and what X
\* returns.
ProjectHandoff(s, c, n, X, Y) ==
    LET gift == [x \in Contracts |-> IF x \in X THEN Available(x) ELSE 0]
    IN  /\ Live(c)
        /\ X \cap Y = {}
        /\ n \notin declared /\ Parent[n] = c
        /\ Cost[{n}] > 0
        /\ Project(s, [NoBatch EXCEPT !.children = {n}, !.ended = {c} \cup X \cup Y,
                          !.source = c, !.cancelled = X, !.gift = gift,
                          !.total = Total(gift, X), !.below = LiveBelow(c),
                          !.held = Available(c)])

-----------------------------------------------------------------------------
\* Committing it under the lock.

\* Mutant: the pre-lock check is trusted.
AffordableUnchecked(b) == TRUE

\* No parent is terminal or pays more than it has.
Affordable(b) ==
    \A d \in b.children : Parent[d] # NoContract =>
        /\ terminal[Parent[d]] = "none"
        /\ Requested(b, Parent[d]) <= Spendable(b, Parent[d])

\* The projection of a handoff is computed once more and must not differ.
SameHandoff(b) ==
    b.source # NoContract =>
        /\ Live(b.source)
        /\ LiveBelow(b.source) = b.below
        /\ \A x \in b.cancelled : b.gift[x] = Available(x)
        /\ b.below # {} => Available(b.source) = b.held

\* Returns come from Contracts without an outcome, once, along the lineage, and
\* are no more than the donor has left.
ReturnsValid(b) ==
    \A x \in b.cancelled : b.gift[x] > 0 =>
        /\ terminal[x] = "none"
        /\ terminal[b.source] = "none"
        /\ returnedOut[x] = 0
        /\ b.gift[x] <= Available(x)

\* One terminal record per Contract; a derived one may already be there.
TerminalsAgree(b) ==
    /\ \A x \in b.ended : terminal[x] = "none"
    /\ \A x \in b.derived : terminal[x] \in {"none", "derived"}

\* Mutant: the projected amounts are trusted.
AmountsUnchecked(b) == TRUE

\* A projected extinguishment is the remainder found under the lock, unless the
\* very same record is there already.
AmountsAgree(b) ==
    \A x \in Contracts : b.amount[x] > 0 =>
        \/ terminal[x] # "none" /\ extinguished[x] = b.amount[x]
        \/ extinguished[x] = 0 /\ b.amount[x] = Remainder(b, x)

Committable(b) ==
    /\ b.children \cap declared = {}
    /\ SameHandoff(b)
    /\ ReturnsValid(b)
    /\ Affordable(b)
    /\ TerminalsAgree(b)
    /\ AmountsAgree(b)

\* The projected amount is written; one is worked out where none was projected.
Burnt(b, x) == IF b.amount[x] > 0 THEN b.amount[x] ELSE Remainder(b, x)

\* The Contracts N end with the batch b and lose what is left to them.
End(b, N, how) ==
    /\ terminal' = [x \in Contracts |-> IF x \in N THEN how[x] ELSE terminal[x]]
    /\ extinguished' =
          [x \in Contracts |->
              extinguished[x] + (IF x \in N THEN Burnt(b, x) ELSE 0)]

\* M are Contracts whose end is derived only now: an output delivered by
\* another process in the meantime completes more than was projected.
Commit(s, M) ==
    LET b == prepared[s]
        N == {x \in b.ended \cup b.derived \cup M : terminal[x] = "none"}
    IN  /\ b # NoBatch
        /\ Committable(b)
        /\ M \cap (b.ended \cup b.derived) = {}
        /\ \A x \in M : Live(x)
        /\ M # {} => b.source = NoContract
        /\ declared' = declared \cup b.children
        /\ returnedIn' = [x \in Contracts |-> returnedIn[x] + Credit(b, x)]
        /\ returnedOut' = [x \in Contracts |-> returnedOut[x] + Debit(b, x)]
        /\ End(b, N, [x \in N |-> IF x \in b.ended THEN "ended" ELSE "derived"])
        /\ prepared' = [prepared EXCEPT ![s] = NoBatch]

\* Any refusal, and a crash before COMMIT, rolls the whole batch back.
RollBack(s) ==
    /\ prepared[s] # NoBatch
    /\ prepared' = [prepared EXCEPT ![s] = NoBatch]
    /\ UNCHANGED records

\* Outcomes whose allowance is looked at under the lock only: an invocation
\* failure, an expired claim, a recovery outcome, late consequences.
EndNow(N, how) ==
    /\ N # {}
    /\ \A x \in N : Live(x)
    /\ End(NoBatch, N, [x \in N |-> how])
    /\ UNCHANGED <<declared, returnedIn, returnedOut, prepared>>

-----------------------------------------------------------------------------
Step(s) ==
    \/ \E D \in SUBSET (Contracts \ declared), E, F \in SUBSET declared :
          ProjectBatch(s, D, E, F)
    \/ \E c \in declared, n \in Contracts : \E X, Y \in SUBSET LiveBelow(c) :
          ProjectHandoff(s, c, n, X, Y)
    \/ \E M \in SUBSET declared : Commit(s, M)
    \/ RollBack(s)

Next ==
    \/ \E s \in Sessions : Step(s)
    \/ \E N \in SUBSET declared, how \in {"derived", "ended"} : EndNow(N, how)

Spec == Init /\ [][Next]_vars

-----------------------------------------------------------------------------
(***************************************************************************)
(* Safety.                                                                 *)
(***************************************************************************)

\* No Contract ever spends, returns or loses more than it was granted or
\* credited: the zero that allowance_available puts in the place of a negative
\* balance never hides a debt.
NeverOverdrawn == \A c \in Contracts : Balance(c) >= 0

\* A Contract with an outcome has nothing left, whatever was reserved from it,
\* returned to it or taken from it by the batch that ended it: no allowance is
\* stranded, and a terminal Contract can pay for nothing.
TerminalHoldsNothing ==
    \A c \in Contracts : terminal[c] # "none" => Balance(c) = 0

Within(c) == {d \in declared : d = c \/ c \in Ancestors[d]}
Held(c) == Total([d \in Contracts |-> Balance(d) + extinguished[d]], Within(c))

\* Allowance is lineage authority: the tasks below a Contract, together, never
\* have or burn more than the Contract itself was granted.
LineageBounded == \A c \in declared : Held(c) <= Cost[{c}]

\* ... and below a root exactly what the root was granted: concurrent
\* reservations, returns and outcomes neither mint nor lose a unit.
Conserved == \A c \in declared : Parent[c] = NoContract => Held(c) = Cost[{c}]
=============================================================================
