----------------------------- MODULE ClaimGates -----------------------------
(***************************************************************************)
(* The facts that decide whether a Contract may be claimed: terminal       *)
(* facts, operator holds, prerequisite links, task assignments and worker  *)
(* registrations, together with the claim rows they are checked against.   *)
(*                                                                         *)
(* Every action is one SQLite writer transaction (BEGIN IMMEDIATE ...      *)
(* COMMIT): its guard is what the writer re-validates under the lock.  A   *)
(* refused command raises, rolls back and changes nothing, so refusals are *)
(* not actions.  Signatures, receipts and provenance are not modelled:     *)
(* every command here is authenticated.                                    *)
(***************************************************************************)
EXTENDS Integers, FiniteSets

CONSTANTS
    Contracts,     \* declared Contracts
    Workers,       \* worker identities
    NoWorker,      \* "no assignment" / "no claimant"
    MaxVersion,    \* registration versions are 1..MaxVersion, 0 = unregistered
    Profile,       \* the immutable content of each registration version
    HoldIds,       \* placement record IDs, each used for at most one hold
    Edges,         \* prerequisite pairs <<target, prerequisite>> in play
    Assignable     \* Contracts that assignments are made for

Versions == 1 .. MaxVersion

ASSUME NoWorkerAssumption == NoWorker \notin Workers
ASSUME MaxVersionAssumption == MaxVersion \in Nat
ASSUME ProfileAssumption ==
    Profile \in [Workers -> [Versions -> [enabled  : BOOLEAN,
                                          capacity : Nat \ {0},
                                          serves   : SUBSET Contracts]]]
ASSUME EdgesAssumption == Edges \subseteq Contracts \X Contracts
ASSUME AssignableAssumption == Assignable \subseteq Contracts
ASSUME FiniteContractsAssumption == IsFiniteSet(Contracts)

VARIABLES
    terminal,   \* terminal[c]: the lifecycle.terminal fact of c, or "none"
    hold,       \* hold[h]: the state of placement h
    links,      \* open prerequisite placements
    assignee,   \* assignee[c]: the effective assignment, or NoWorker
    registry,   \* registry[w]: the current registration version, or 0
    claim       \* claim[c]: the worker_claims row of c

gateVars == <<terminal, hold, links, assignee, registry>>

\* "failed" stands for failed, cancelled and unreachable: a claim and a
\* prerequisite only tell `complete` from the rest.
Terminals == {"complete", "failed"}

\* The terminal facts one transaction may write: an outcome for some Contracts.
TerminalBatches == UNION {[S -> Terminals] : S \in SUBSET Contracts}

Unused == [state |-> "unused"]
Holds == {Unused}
    \cup [state : {"open", "released"}, contract : Contracts]

\* A Contract without a row; MAX(epoch) of no rows counts as 0.
NoClaim == [status |-> "none", worker |-> NoWorker, epoch |-> 0, lease |-> 0]

-----------------------------------------------------------------------------
\* What the gates say of a Contract and of a Worker.

OpenHolds(c) == {h \in HoldIds : hold[h] = [state |-> "open", contract |-> c]}

\* Only the typed terminal "complete" satisfies a prerequisite; a failed,
\* cancelled or missing terminal blocks.
Blockers(c) == {p \in Contracts : <<c, p>> \in links /\ terminal[p] # "complete"}

\* claim_contract refuses a Contract with any claim row, whatever its status.
NeverClaimed(c) == claim[c].status = "none"

\* Mutant: holds are left to the snapshot and not re-checked.
ClaimableIgnoringHolds(c) ==
    terminal[c] = "none" /\ Blockers(c) = {} /\ NeverClaimed(c)

Claimable(c) ==
    /\ terminal[c] = "none"
    /\ OpenHolds(c) = {}
    /\ Blockers(c) = {}
    /\ NeverClaimed(c)

Registered(w) == registry[w] # 0
Current(w) == Profile[w][registry[w]]
Enabled(w) == Registered(w) /\ Current(w).enabled
Compatible(c, w) == Enabled(w) /\ c \in Current(w).serves

ActiveClaims(w) == {c \in Contracts : claim[c].status = "active" /\ claim[c].worker = w}
HasRoom(w) == Cardinality(ActiveClaims(w)) < Current(w).capacity

\* An assignment narrows the Contract to one worker and is re-checked for
\* compatibility; without one the writer does not look at compatibility.
AdmitsWorker(c, w) ==
    assignee[c] # NoWorker => assignee[c] = w /\ Compatible(c, w)

\* The sets in which each Contract waits for one of the set: the relation E has
\* no cycle if there are none.
WaitingRings(E) ==
    {S \in (SUBSET Contracts) \ {{}} : \A c \in S : \E p \in S : <<c, p>> \in E}
Acyclic(E) == WaitingRings(E) = {}

-----------------------------------------------------------------------------
GatesTypeOK ==
    /\ terminal \in [Contracts -> Terminals \cup {"none"}]
    /\ hold \in [HoldIds -> Holds]
    /\ links \subseteq Edges
    /\ assignee \in [Contracts -> Workers \cup {NoWorker}]
    /\ registry \in [Workers -> 0 .. MaxVersion]

GatesInit ==
    /\ terminal = [c \in Contracts |-> "none"]
    /\ hold = [h \in HoldIds |-> Unused]
    /\ links = {}
    /\ assignee = [c \in Contracts |-> NoWorker]
    /\ registry = [w \in Workers |-> 0]

-----------------------------------------------------------------------------
\* Operator commands.

\* worker.register makes a registration version the current one.  A version
\* names one immutable content; an earlier one may be registered again.
Register(w, v) ==
    /\ registry[w] # v
    /\ registry' = [registry EXCEPT ![w] = v]
    /\ UNCHANGED <<terminal, hold, links, assignee>>

PlaceHold(h, c) ==
    /\ hold[h] = Unused
    /\ terminal[c] = "none"
    /\ NeverClaimed(c)
    /\ hold' = [hold EXCEPT ![h] = [state |-> "open", contract |-> c]]
    /\ UNCHANGED <<terminal, links, assignee, registry>>

\* Releasing an exact open hold is allowed whatever happened to its Contract.
ReleaseHold(h) ==
    /\ hold[h].state = "open"
    /\ hold' = [hold EXCEPT ![h].state = "released"]
    /\ UNCHANGED <<terminal, links, assignee, registry>>

\* A link or unlink is refused once its target is terminal or claimed.
LinkTargetOpen(c) == terminal[c] = "none" /\ NeverClaimed(c)

\* Mutant: the graph is validated without the new edge.
PlaceLinkLate(c, p) ==
    /\ c # p
    /\ LinkTargetOpen(c)
    /\ <<c, p>> \notin links
    /\ Acyclic(links)
    /\ links' = links \cup {<<c, p>>}
    /\ UNCHANGED <<terminal, hold, assignee, registry>>

PlaceLink(c, p) ==
    /\ c # p
    /\ LinkTargetOpen(c)
    /\ <<c, p>> \notin links
    /\ Acyclic(links \cup {<<c, p>>})
    /\ links' = links \cup {<<c, p>>}
    /\ UNCHANGED <<terminal, hold, assignee, registry>>

ReleaseLink(c, p) ==
    /\ <<c, p>> \in links
    /\ LinkTargetOpen(c)
    /\ links' = links \ {<<c, p>>}
    /\ UNCHANGED <<terminal, hold, assignee, registry>>

\* task.assign: w = NoWorker clears the assignment.
Assign(c, w) ==
    /\ w # assignee[c]
    /\ NeverClaimed(c)
    /\ terminal[c] = "none"
    /\ w # NoWorker => Compatible(c, w)
    /\ assignee' = [assignee EXCEPT ![c] = w]
    /\ UNCHANGED <<terminal, hold, links, registry>>

GateCommand ==
    \/ \E w \in Workers, v \in Versions : Register(w, v)
    \/ \E h \in HoldIds, c \in Contracts : PlaceHold(h, c)
    \/ \E h \in HoldIds : ReleaseHold(h)
    \/ \E e \in Edges : PlaceLink(e[1], e[2])
    \/ \E e \in Edges : ReleaseLink(e[1], e[2])
    \/ \E c \in Assignable, w \in Workers \cup {NoWorker} : Assign(c, w)

=============================================================================
