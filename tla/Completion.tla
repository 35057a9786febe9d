----------------------------- MODULE Completion -----------------------------
(***************************************************************************)
(* How Contracts get their outcome: a committed batch of output Assets or  *)
(* an independent attestation completes Contracts, and a completed         *)
(* Contract cancels the unfinished work below it.                          *)
(*                                                                         *)
(* A process decides a Candidate twice.  Before the writer lock it reduces *)
(* the batch against the Store it sees (CandidateCommitter.commit); under  *)
(* the lock the Store re-validates, reduces the Assets again and inserts   *)
(* the union (commit_ingress_batch).  Anything may commit in between.      *)
(*                                                                         *)
(* Contracts form an immutable forest.  An Asset is named by its producer  *)
(* and the output slot it fills; every Asset here is a business output.    *)
(* Claims appear only as the fence a submission must pass: see ClaimLease. *)
(***************************************************************************)
EXTENDS Naturals, FiniteSets

CONSTANTS
    Contracts,
    Names,         \* output names
    NoContract,
    Parent,        \* the containment parent, or NoContract
    Ancestors,     \* all Contracts above
    Outputs,       \* declared output names
    Independent,   \* Contracts whose outputs an independent verifier accepts
    Verifies,      \* Verifies[v]: independent Contracts v is able to verify
    System,        \* method and compile tasks: origin "system"
    Genesis,       \* Contracts declared at the start
    Sessions,      \* processes that commit Candidates
    Earlier(_, _)  \* Earlier(c, B): Contracts that Assets B complete before c

ASSUME ForestAssumption ==
    /\ NoContract \notin Contracts
    /\ Parent \in [Contracts -> Contracts \cup {NoContract}]
    /\ Ancestors \in [Contracts -> SUBSET Contracts]
    /\ \A c \in Contracts :
        /\ c \notin Ancestors[c]
        /\ IsFiniteSet(Ancestors[c])
        /\ Ancestors[c] = IF Parent[c] = NoContract THEN {}
                          ELSE {Parent[c]} \cup Ancestors[Parent[c]]
        /\ \A a \in Ancestors[c] : Ancestors[a] \subseteq Ancestors[c]
ASSUME ContractsAssumption ==
    /\ Outputs \in [Contracts -> SUBSET Names]
    /\ Independent \subseteq Contracts
    /\ Verifies \in [Contracts -> SUBSET Independent]
    /\ System \subseteq Contracts \ Independent
    /\ Genesis \subseteq Contracts
    /\ \A c \in Genesis : Ancestors[c] \subseteq Genesis

VARIABLES
    declared,    \* Contracts in the Store
    assets,      \* committed Assets
    qualified,   \* <<c, a>>: Asset a is accepted for its slot of c
    terminal,    \* terminal[c]: the lifecycle.terminal record of c
    submitted,   \* Contracts whose claim has been closed by a submission
    prepared,    \* prepared[s]: the batch s has decided but not committed
    derived,     \* derived[s]: the terminal records s derived before the lock
    climbing     \* climbing[s]: the ancestor s looks at next

store == <<declared, assets, qualified, terminal, submitted>>
vars == <<store, prepared, derived, climbing>>

Assets == [by : Contracts, name : Names]
OutputsOf(c) == {a \in Assets : a.by = c /\ a.name \in Outputs[c]}

\* A terminal record is identified by its content: what happened, and the
\* producer of the Asset that caused it.  The same outcome derived twice from
\* the same cause is one record.
NoOutcome == [what |-> "none", cause |-> NoContract]
Outcomes == [what : {"complete", "cancelled", "failed"},
             cause : Contracts \cup {NoContract}]
IsDerivation(T) ==
    /\ DOMAIN T \subseteq Contracts
    /\ T \in [DOMAIN T -> Outcomes]
Nothing == [x \in {} |-> NoOutcome]

\* A claim-bound Candidate delivers every declared output of its Contract or
\* publishes children of it, never both; a verifier may attest along with its
\* own report.  Operators publish and attest without a claim.
Batches == [by : Contracts \cup {NoContract}, assets : SUBSET Assets,
            children : SUBSET Contracts, quals : SUBSET (Contracts \X Assets)]
NoBatch == [by |-> NoContract, assets |-> {}, children |-> {}, quals |-> {}]

TypeOK ==
    /\ declared \subseteq Contracts
    /\ assets \subseteq Assets
    /\ qualified \subseteq Contracts \X Assets
    /\ terminal \in [Contracts -> Outcomes \cup {NoOutcome}]
    /\ submitted \subseteq Contracts
    /\ prepared \in [Sessions -> Batches]
    /\ derived = [s \in Sessions |-> derived[s]]
    /\ \A s \in Sessions : IsDerivation(derived[s])
    /\ climbing \in [Sessions -> Contracts \cup {NoContract}]

Init ==
    /\ declared = Genesis
    /\ assets = {}
    /\ qualified = {}
    /\ terminal = [c \in Contracts |-> NoOutcome]
    /\ submitted = {}
    /\ prepared = [s \in Sessions |-> NoBatch]
    /\ derived = [s \in Sessions |-> Nothing]
    /\ climbing = [s \in Sessions |-> NoContract]

-----------------------------------------------------------------------------
\* Output satisfaction.

Within(d, c) == d = c \/ c \in Ancestors[d]

\* A slot of an independent Contract needs a qualified Asset from the Contract
\* or from below it; a system task needs its own Asset; any other Contract
\* takes an Asset of the right name from anybody.
SlotFilled(c, n, A, Q) ==
    \E a \in A :
        /\ a.name = n
        /\ c \in Independent => <<c, a>> \in Q /\ Within(a.by, c)
        /\ c \in System => a.by = c

Satisfied(c, A, Q) == \A n \in Outputs[c] : SlotFilled(c, n, A, Q)

SatisfiedNow(c) == Satisfied(c, assets, qualified)

-----------------------------------------------------------------------------
\* The descendants that a completion leaves without a purpose.

Ended(x, known) == terminal[x] # NoOutcome \/ x \in known

\* Mutant: verifiers are cancelled like all others.
NobodyKept(x, p, known, A) == FALSE

\* Is x kept for an independent Contract above its parent that still waits?  A
\* Contract between p and x has just been cancelled, unless it is satisfied.
KeptForVerification(x, p, known, A) ==
    \E i \in Verifies[x] :
        /\ Parent[x] # NoContract
        /\ i \in Ancestors[Parent[x]]
        /\ ~Ended(i, known)
        /\ i # p
        /\ p \in Ancestors[i] => Satisfied(i, A, qualified)

\* The walk down from p passes through ended and satisfied Contracts and stops
\* at a live one that is kept.
Unreachable(p, known, A) ==
    {x \in declared :
        /\ p \in Ancestors[x]
        /\ ~Ended(x, known)
        /\ ~Satisfied(x, A, qualified)
        /\ \A y \in declared :
              /\ p \in Ancestors[y] /\ Within(x, y) /\ ~Ended(y, known)
              => ~KeptForVerification(y, p, known, A)}

\* The completions `done` (all for the reason `cause`) and what they cancel; the
\* walk down from p knows of the terminals known[p].
Fenced(done, known, cause, A) ==
    LET gone == UNION {Unreachable(p, known[p], A) : p \in done}
    IN  [x \in done \cup gone |->
            IF x \in done THEN [what |-> "complete", cause |-> cause]
            ELSE [what |-> "cancelled", cause |-> NoContract]]

\* Mutant: one output is enough.
AssetConsequencesOfOne(b) ==
    LET done == {c \in declared :
                    /\ terminal[c] = NoOutcome
                    /\ \E a \in b.assets : a.name \in Outputs[c]}
    IN  Fenced(done, [p \in done |-> {p}], b.by, assets \cup b.assets)

\* FactReducer.on_assets_created: Contracts that declare one of the new names
\* and now have all of their outputs, one after the other: by Asset, then by id.
AssetConsequences(b) ==
    LET A == assets \cup b.assets
        done == {c \in declared :
                    /\ terminal[c] = NoOutcome
                    /\ \E a \in b.assets : a.name \in Outputs[c]
                    /\ Satisfied(c, A, qualified)}
    IN  Fenced(done, [p \in done |-> done \cap ({p} \cup Earlier(p, b.assets))], b.by, A)

\* materialize_qualification_facts: Contracts that the new qualifications
\* complete, all before the first walk, given the terminals T already derived.
QualificationConsequences(b, T) ==
    LET done == {c \in declared \ DOMAIN T :
                    /\ terminal[c] = NoOutcome
                    /\ \E q \in b.quals : q[1] = c
                    /\ Satisfied(c, assets, qualified \cup b.quals)}
    IN  Fenced(done, [p \in done |-> DOMAIN T \cup done], NoContract, assets)

Merge(T, U) == [x \in DOMAIN T \cup DOMAIN U |-> IF x \in DOMAIN T THEN T[x] ELSE U[x]]

-----------------------------------------------------------------------------
\* Deciding a batch outside the lock.

Free(s) == prepared[s] = NoBatch /\ climbing[s] = NoContract

Prepare(s, b) ==
    LET T == AssetConsequences(b)
    IN  /\ Free(s)
        /\ prepared' = [prepared EXCEPT ![s] = b]
        /\ derived' = [derived EXCEPT ![s] = Merge(T, QualificationConsequences(b, T))]
        /\ UNCHANGED <<store, climbing>>

\* asset.attest binds a committed Asset to a slot that does not hold it yet.
Attestable(c, a) ==
    /\ c \in declared \cap Independent
    /\ a \in assets
    /\ a.name \in Outputs[c]
    /\ Within(a.by, c)
    /\ <<c, a>> \notin qualified

Deliver(s, c) ==
    /\ c \in declared
    /\ Outputs[c] # {}
    /\ Prepare(s, [NoBatch EXCEPT !.by = c, !.assets = OutputsOf(c)])

DeliverAndAttest(s, v, c, a) ==
    /\ v \in declared
    /\ Outputs[v] # {}
    /\ c \in Verifies[v]
    /\ Attestable(c, a)
    /\ Prepare(s, [NoBatch EXCEPT !.by = v, !.assets = OutputsOf(v), !.quals = {<<c, a>>}])

Attest(s, c, a) ==
    /\ Attestable(c, a)
    /\ Prepare(s, [NoBatch EXCEPT !.quals = {<<c, a>>}])

\* Children of the claimed Contract c.
Expand(s, c, D) ==
    /\ D # {}
    /\ D \cap declared = {}
    /\ c \in declared
    /\ \A d \in D : Parent[d] = c
    /\ Prepare(s, [NoBatch EXCEPT !.by = c, !.children = D])

\* An operator publishes under any declared Contract.
Publish(s, d) ==
    /\ d \notin declared
    /\ Parent[d] \in declared \cup {NoContract}
    /\ Prepare(s, [NoBatch EXCEPT !.children = {d}])

-----------------------------------------------------------------------------
\* Committing it under the lock.

\* A submission needs its claim, which every terminal fact releases.
ClaimStands(b) ==
    b.by # NoContract => terminal[b.by] = NoOutcome /\ b.by \notin submitted

\* Mutant: a slot may be filled twice.
SlotsUnchecked(b) == TRUE

\* A slot keeps the Asset it has; a Contract is granted its allowance once, and
\* never out of a terminal parent.
SlotsFree(b) ==
    \A q \in b.quals, r \in qualified \cup b.quals :
        q[1] = r[1] /\ q[2].name = r[2].name => q[2] = r[2]
Unpublished(b) == b.children \cap declared = {}
ParentsLive(b) ==
    \A d \in b.children : Parent[d] # NoContract => terminal[Parent[d]] = NoOutcome

\* Mutant: the snapshot taken before the lock is trusted.
RederivedNever(b) == Nothing

\* What the Store adds under the lock: the Assets are reduced once more, the
\* qualifications are not.
Rederived(b) == IF b.assets = {} THEN Nothing ELSE AssetConsequences(b)

\* One terminal record per Contract, whoever derived it and when.
Agree(T, U) ==
    /\ \A x \in DOMAIN T \cap DOMAIN U : T[x] = U[x]
    /\ \A x \in DOMAIN T \cup DOMAIN U :
          terminal[x] \in {NoOutcome, Merge(T, U)[x]}

Admissible(s) ==
    LET b == prepared[s]
    IN  /\ ClaimStands(b)
        /\ SlotsFree(b)
        /\ Unpublished(b)
        /\ ParentsLive(b)
        /\ Agree(derived[s], Rederived(b))

Accept(s) ==
    LET b == prepared[s]
        T == Merge(derived[s], Rederived(b))
    IN  /\ b # NoBatch
        /\ Admissible(s)
        /\ declared' = declared \cup b.children
        /\ assets' = assets \cup b.assets
        /\ qualified' = qualified \cup b.quals
        /\ terminal' = [x \in Contracts |-> IF x \in DOMAIN T THEN T[x] ELSE terminal[x]]
        /\ submitted' = submitted \cup ({b.by} \ {NoContract})
        /\ prepared' = [prepared EXCEPT ![s] = NoBatch]
        /\ derived' = [derived EXCEPT ![s] = Nothing]
        /\ UNCHANGED climbing

\* The whole batch rolls back; a rejection is recorded and the claim stays.  A
\* crash before COMMIT leaves the same Store.
RollBack(s) ==
    /\ prepared[s] # NoBatch
    /\ prepared' = [prepared EXCEPT ![s] = NoBatch]
    /\ derived' = [derived EXCEPT ![s] = Nothing]
    /\ UNCHANGED <<store, climbing>>

\* Failure, expiry, rejection and human cancellation: one terminal record of
\* their own, and nothing below the Contract changes.
Abort(c) ==
    /\ c \in declared
    /\ terminal[c] = NoOutcome
    /\ terminal' = [terminal EXCEPT ![c] = [what |-> "failed", cause |-> c]]
    /\ UNCHANGED <<declared, assets, qualified, submitted, prepared, derived, climbing>>

-----------------------------------------------------------------------------
\* process_task_completions: after a system task completed, its parent and then
\* the ancestors above are completed one by one, as long as they have their
\* outputs.  Each is a transaction of its own that cancels nobody.
StartClimb(s, m) ==
    /\ Free(s)
    /\ m \in System
    /\ terminal[m].what = "complete"
    /\ Parent[m] # NoContract
    /\ terminal[Parent[m]] = NoOutcome
    /\ climbing' = [climbing EXCEPT ![s] = Parent[m]]
    /\ UNCHANGED <<store, prepared, derived>>

Climb(s) ==
    LET c == climbing[s]
    IN  /\ c # NoContract
        /\ \/ /\ SatisfiedNow(c)
              /\ terminal' = [terminal EXCEPT ![c] =
                    IF @ = NoOutcome THEN [what |-> "complete", cause |-> NoContract] ELSE @]
              /\ climbing' = [climbing EXCEPT ![s] = Parent[c]]
           \/ /\ ~SatisfiedNow(c)
              /\ climbing' = [climbing EXCEPT ![s] = NoContract]
              /\ UNCHANGED terminal
        /\ UNCHANGED <<declared, assets, qualified, submitted, prepared, derived>>

-----------------------------------------------------------------------------
Step(s) ==
    \/ \E c \in Contracts : Deliver(s, c)
    \/ \E v, c \in Contracts, a \in assets : DeliverAndAttest(s, v, c, a)
    \/ \E c \in Contracts, a \in assets : Attest(s, c, a)
    \/ \E c \in Contracts, D \in SUBSET Contracts : Expand(s, c, D)
    \/ \E d \in Contracts : Publish(s, d)
    \/ Accept(s)
    \/ RollBack(s)
    \/ \E m \in Contracts : StartClimb(s, m)
    \/ Climb(s)

Next ==
    \/ \E s \in Sessions : Step(s)
    \/ \E c \in Contracts : Abort(c)

Spec == Init /\ [][Next]_vars

-----------------------------------------------------------------------------
(***************************************************************************)
(* Safety.                                                                 *)
(***************************************************************************)

\* A completion that was derived before the lock is still right when it is
\* committed: every output of a completed Contract is in its slot.
CompleteIsSatisfied ==
    \A c \in Contracts : terminal[c].what = "complete" => SatisfiedNow(c)

\* Verifiers that attest different Assets for one slot never both win.
OneAssetPerSlot ==
    \A q, r \in qualified :
        q[1] = r[1] /\ q[2].name = r[2].name => q[2] = r[2]

\* Work is cancelled as unreachable only below a Contract that did complete:
\* the completion its cancellation was derived with is never lost.
CancelledBelowComplete ==
    \A x \in Contracts : terminal[x].what = "cancelled" =>
        \E p \in Ancestors[x] : terminal[p].what = "complete"

\* A step fills the last slot of a declared Contract of C and gives it no
\* outcome.
LeavesUnterminated(C) ==
    \E c \in declared \cap C :
        ~SatisfiedNow(c) /\ SatisfiedNow(c)' /\ terminal'[c] = NoOutcome

\* A step completes a Contract of C by filling its last slot and leaves
\* something below it that is live and without a purpose.
LeavesLiveWork(C) ==
    \E c \in declared \cap C :
        /\ ~SatisfiedNow(c)
        /\ terminal[c] = NoOutcome
        /\ terminal'[c].what = "complete"
        /\ Unreachable(c, {}, assets)' # {}

\* Candidates that deliver different outputs converge: whoever fills the last
\* slot of a Contract terminates it, although neither saw the other's output.
DirectOutputsTerminate == [][~LeavesUnterminated(Contracts \ Independent)]_vars

\* No independent Contract was left with its outputs and without an outcome, the
\* batch brings no qualification, and no independent Contract is cancelled.
NothingUnsettled ==
    \A i \in declared \cap Independent : SatisfiedNow(i) => terminal[i] # NoOutcome
OnlyOutputs ==
    \A s \in Sessions : prepared'[s] # prepared[s] => prepared[s].quals = {}
CancelsNoIndependent ==
    \A i \in Independent : terminal[i] = NoOutcome => terminal'[i].what # "cancelled"

\* A completed Contract leaves no unfinished descendant behind, not even one
\* published while the completing Candidate was on its way to the lock.  A live
\* one may stay only because the walks take an independent Contract for waiting
\* that is not: the batch completes or cancels it, or it was left unsettled.
DirectCompletionFences ==
    [][NothingUnsettled /\ OnlyOutputs /\ CancelsNoIndependent
          => ~LeavesLiveWork(Contracts \ Independent)]_vars

\* A live verifier is cancelled only when none of the independent Contracts
\* above it waits for it any more.
VerifiersKept ==
    [][\A v \in Contracts :
          terminal[v] = NoOutcome /\ terminal'[v].what = "cancelled" =>
              \A i \in Verifies[v] \cap Ancestors[v] :
                  terminal'[i] # NoOutcome \/ SatisfiedNow(i)']_vars

\* DESIGN.md:349-351 of all Contracts, independent ones included: concurrent
\* Candidates never leave an output-complete Contract unterminated.
OutputCompleteTerminates == [][~LeavesUnterminated(Contracts)]_vars
=============================================================================
