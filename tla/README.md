# Aigineering: a TLA+ verification project

This directory holds TLA+ specifications of the aigineering runtime, the TLC
models that check them on small instances, and TLAPS proofs of their most
important properties for every instance. Paths below are relative to the
repository; line numbers are those named in `PROJECT.json` under `map`, which
ties every definition to the code it stands for.

The runtime is a blackboard for agents: **Contracts** declare work, **Assets**
are produced, signed **Candidates** propose changes, and one SQLite **Store** of
immutable records is the only shared state. Processes (CLI commands, servers,
worker hosts) share nothing but that file. Almost everything that is hard about
it follows from one pattern:

> a process reads the Store without a lock, decides, and later submits its
> decision to a writer transaction (`BEGIN IMMEDIATE` ... `COMMIT`) that checks
> part of it again.

What is checked again, what is computed again, and what is trusted differs from
place to place. The models keep that distinction: a decision before the lock
and its commitment under the lock are always two actions.

## 1. Inventory

| Component | State | Operations | Hard behaviour | What makes it correct |
|---|---|---|---|---|
| Claims and leases (`core/sqlite_store.py`, `runtime.py`) | `worker_claims` rows, `claim.*` records | request, grant, renew, submit, fail, expire, release, rebuild | several hosts, stale snapshots, replayed messages, crashed workers, stale clock readings | one worker per Contract, one attempt, no renewal overridden, every claim ends |
| Claim gates (`core/claim_holds.py`, `claim_constraints.py`, `claim_assignments.py`, `worker_routing.py`) | holds, prerequisite links, assignments, registrations as records | place, release, link, unlink, assign, register | commands prepared against an older Store than the claim they race with | a gate and a claim never contradict each other; links stay acyclic |
| Candidate commitment (`core/commitment.py`, `effect_projection.py`, `commit_snapshot.py`) | the batch in flight | decide, commit, reject | the Store moves between the decision and the commit | what is committed is justified by the Store it is committed to |
| Output satisfaction and completion (`core/output_satisfaction.py`, `fact_reducer.py`, `fact_materialization.py`, `task_lifecycle.py`) | Assets, terminal records | reduce new Assets, complete, cancel what is below | two Candidates fill two slots; a child is published below a completing parent | complete exactly when satisfied; nothing live is left without a purpose |
| Independent acceptance (`core/acceptance.py`) | qualifications | attest, complete | two verifiers; verifiers whose publisher completes first | one Asset per slot; verifiers outlive their publisher |
| Causal allowance (`core/causal_allowance.py`, `allowance_returns.py`) | grant, reservation, return, extinguishment records | reserve, return, extinguish | balances computed before the lock | no overspending, nothing stranded, nothing minted |
| Recovery after failure (`plugins/recovery.py`, `recovery_history.py`, `runtime.py`) | failure facts, recovery publications, outcome records, the snapshot of a maintenance scan | scan, prove the failure and an earlier publication, project, publish, prove again, record | several reads and transactions with other passes and crashes between them; old snapshots; a record that raises in every pass | one repair per Contract, paid for once, a record of `scheduled` that is true, every failure answered |
| Task completion plugins and continuation (`plugins/completion_projection.py`, `continuation_history.py`) | `task_completion.projected` records, disclosed contexts, continuation Contracts | look, inspect, prepare, publish, reject, mark; climb to ancestors | the balance of the parent moves while a continuation is named and paid for | one continuation per source; nobody is left without a successor or an outcome |
| Handoff, edit, revision, retry (`plugins/handoff.py`, `handoff_tree.py`, `task_successors.py`, `task_revision.py`, `core/commit_snapshot.py`) | `task.handed_off` and `task.revised` records, successor Contracts, copies of holds | inventory a tree, cancel it, declare a successor, project once more under the lock | claims, holds, links, outputs and reviews change between the two projections | assignment, holds, waits and open outputs move exactly once |
| Task review and promotion (`plugins/task_review.py`, `collaboration.py`) | `task.review.requested` and `.decided` records, reviewer Contracts | request, decide, promote | an attestation or a replacement overtakes the decision | one decision; a revision answers a request that still stands |
| Checkpoints and publication index (`core/sqlite_store.py`, `allowance_publication_index.py`) | `allowance_checkpoints`, `publication_index`, `publication_index_state` | refresh within the writer's transaction, rebuild, audit, read a row and its tail | writers that do not refresh; rows and cursors of older releases; records that cannot be read | a reader gets what a full scan gives, or is told that it must scan |
| Planning, staged planning, priority, dependencies, attachments (`plugins/`) | documents and the facts they compile to | validate, compile | mostly data | - |
| Activation expressions (`core/activation.py`) | none | evaluate | - | agrees with its definition |
| Redis stream and query projection (`redis_collaboration.py`, `adapters/redis_query.py`) | the stream, its metadata hash, a staged stream; per process a capture and a fence | sync, rebuild, events, wait; build and swap a read-side projection | concurrent relays, lost writes, expired staging, pages read while the stream changes | writes leave exact prefixes; a consumer gets every record once, in order |
| Local fleet and boards (`local_fleet.py`, `fleet_service.py`, `local_boards.py`) | the owner lock (an `flock`), `state.json`, `stop.json`; threads, the admission gate, the stop event | start, stop, restart, status; pull, execute, drain, report, join | kills between launch and report; late callbacks; two stops at once | one service per workspace; an answered stop has ended; metadata never goes back |
| Agents, providers, tools, MCP (`agent/`) | none of their own | call out | external | - |
| Protocol values, methods, business profiles, CLI, server | values | parse, format, serve | - | - |

How they interact: a worker host claims a Contract through the **gates**, runs
an agent, and submits a Candidate under its **claim**; **commitment** turns it
into Assets, Contracts and qualifications; **completion** derives terminal
records, each of which releases claims and burns **allowance**; failures and
completions are picked up by **recovery** and **completion plugins** in later
transactions. Terminal records are the hub: `ClaimLease`, `Completion` and
`CausalAllowance` all contain them, each with the part of the others that it
needs left nondeterministic (section 3).

Every hazard found while reading, with its line and the properties that would
notice it, is in `PROJECT.json` under `hazards`.

## 2. Plan

| # | Module | Content | State |
|---|---|---|---|
| 1 | `ClaimGates` | holds, links, assignments, registrations | done |
| 2 | `ClaimLease` (extends 1), `TaskAttempt` (its abstract specification) | claims and leases | done |
| 3 | `ClaimLeaseProofs` | safety of 1 and 2, refinement of `TaskAttempt`; what a grant may spend and whom it suits | done |
| 4 | `Completion`, `CompletionProofs` | commitment, completion, acceptance | done |
| 5 | `CausalAllowance`, `CausalAllowanceProofs` | allowance ledger with handoff returns | done |
| 6 | `Recovery`, `RecoveryProofs` | failure, proof, publication and outcome of a recovery in separate transactions, with crashes | done |
| 7 | `Continuation`, `ContinuationProofs` | completion passes and the continuation of a parent | done |
| 8 | `LedgerIndexes`, `DerivedViewsProofs` (with 9) | allowance checkpoints and publication index | done |
| 9 | `RedisStream`, `DerivedViewsProofs` | relay, rebuild and consumption of the collaboration stream under faults | done |
| 10 | `FleetService`, `FleetServiceProofs` | the persistent service: start, stop, restart, drain | done |
| 11 | `Handover` (extends 1), `Obligation` (its abstract specification), `HandoverProofs` | handoff, edit, revision, review and promotion over the gates; refinement of `Obligation` | done |

Left, in the order in which they would add most: the read-side query projection
in Redis (`adapters/redis_query.py`); the bounded cycles of `local_fleet.py` and
the boards of `local_boards.py`; the evaluator of `core/activation.py` against a
reference definition; the plan and replan completions; the recovery of a method
result; the promotion of a worker profile and the chain of assignment heads.

## 3. Modules and the code

**`ClaimGates`** - the records a claim depends on: `terminal`, `hold`, `links`,
`assignee`, `registry`, and the claim rows they are checked against. Each action
is one writer transaction whose guard is what the writer re-validates
(`commit_ingress_batch`, `validate_claim_hold_batch`,
`validate_claim_constraint_transition`, `validate_assignment_request`). A
refused command raises and rolls back: it changes nothing, so it is not an
action. The cycle search of the code is the existence of a ring: a nonempty set
of Contracts each of which waits for another of the set (`WaitingRings`).

**`ClaimLease`** - adds clock, `facts` (the `claim.*` records in order),
`session` (a process: scanning, choosing, working, lapsed), `sent` (signed
renewals and submissions, delivered late, repeatedly or never) and `observed`
(overdue leases a maintenance scan has read). Details that matter:

* `claim_next_package` takes one snapshot and then tries the Contracts of that
  snapshot one after the other; `claim_contract` decides again (`Grantable`).
* Without an assignment the writer looks at neither compatibility nor the
  snapshot again; only the registration version fence makes that safe
  (`GrantsAreEligible`). The fenced version (`version`) is noted first; the
  registration that routes and builds the package (`prepared`) is read again
  after maintenance. The remaining reads of a scan are one step, because `Grant`
  decides everything they say again.
* A registration version has one immutable content, but an earlier version may
  be registered again: `registration_is_replay` tells so and nobody asks.
* `now` is read before `BEGIN IMMEDIATE`, so the lock is held with a clock
  reading up to `LockWait` old (`LockedNow`).
* A lease keeper whose renewal is refused must not submit (`lapsed`).
* `commit_worker_invocation_failure` checks the claim, not the lease.
* A Candidate's verdict may write terminals of several Contracts; every other
  active claim on them is released in the same transaction.
* Epochs are kept although a Contract is never claimed twice: fences compare them.

**`TaskAttempt`** - the promise, without leases, clocks or messages: one attempt
per Contract, by one worker, ended once, aborted in the step that gives the
Contract an outcome from elsewhere. `ClaimLease` refines it (`Attempt`).

**`Completion`** - `Prepare` is `CandidateCommitter.commit` up to the call of the
Store: it derives terminals from the Store it sees. `Accept` is
`commit_ingress_batch`: it validates, derives the consequences of *Assets*
again, and inserts the union; it does not derive those of *qualifications*
again. A batch may complete several Contracts; it looks at them Asset by Asset,
and the walk below one of them knows only the completions made before it
(`Fenced`). That order is the parameter `Earlier`, about which nothing is
assumed. `StartClimb`/`Climb` are `process_task_completions`, one transaction per
ancestor. Terminal records are content-addressed: the same outcome derived from
the same cause by two processes is one record, which is why a terminal carries
its cause (`Agree`).

**`CausalAllowance`** - balances are computed from records, never stored.
`Project` fixes the projected amounts without the lock; `Commit` checks them
under the lock with the reservations, returns and late terminals of the batch
itself. `ProjectHandoff` is the producer of returns; its projection is
recomputed under the lock by the snapshot validator (`SameHandoff`). `EndNow` is
every outcome whose allowance is only looked at under the lock. `Budget` is what a
Contract is granted; `Total` and `Cost` add up over a set of Contracts.

**`Recovery`** - a maintenance pass (`pass`) answers the failure facts of one
scan in the order of their records (`log`, `IsNext`), in steps that are
transactions or reads of their own: `Scan` (of one kind of failure, `Stages`:
each has its function), `Preserve` (a rejection of a Contract that has an outcome
already needs no repair), `Take`, `Prove` (is the recovery of this failure in the
Store?), `CannotProve` (three captures of a history that changed each time),
`Project`, `Grant` or `Declare`, `ProveAgain`, `Record` (the outcome of the
failure, and the terminal fact of the Contract). A crash may fall between any
two. Details that matter:

* There are two kinds of rejection. One that the reduction decides closes claim
  and Contract in the same transaction (`close_claim_attempt`; `Fail`). One at
  the commit, because the lease has run out or the Contract has ended, is only
  recorded (`record_candidate_rejection`; `Refuse`): the claim stays.
* `process_rejected_submissions` proves a failed tool call from its claim before
  it looks at anything else. For a refusal there is no such proof, now or later
  (`Provable`), and the exception ends the pass (`Raise`).
* A recovery Contract is named after the Contract it repairs, so it is modelled
  as a function of it; whether it *discloses this failure* is what a proof has to
  look at (`Status`).
* The grant of a publication is projected on the Contracts known before the lock
  (`Project`): a Contract that is there already brings none. Under the lock a
  second grant is refused (`Grant`, `GrantRefused`), a second declaration of the
  same Contract is not (`Declare`). `granted` remembers who paid.
* Tool methods are repaired in the "method" or the "generic" form, depending on
  how they were repaired before (`Form`); `LegacyLogs` are failures that an older
  release repaired.
* A terminal that conflicts with the one a pass wants to write ends the pass
  (`Agrees`).

**`Continuation`** - a pass over completed system tasks: `Begin`, `Take`, `Look`
(is the parent live, can it go on), `Leave` (no plugin handles the completion: it
is traced and not marked), `Inspect` (was the source continued before), `Prepare`
(record the disclosed context), `Publish`, and, when the continuation is
rejected, `CheckOutcome` and `WriteOutcome` (fail the parent), and `Mark`. The
name of a continuation contains its budget; the budget is therefore taken from a
cut of the ledger at the declaration (`cut`, `Allocated`), not from the balance
of the moment. A terminal that others wrote differs in its record from one that a
pass writes ("ended" in `Terminals`) and ends the pass. A maintenance step comes
to the completions only after the failures and submissions; `blocked` says that
those raise from now on.

**`LedgerIndexes`** - a log of at most `MaxRecords` records with a checkpoint row per account (a total and the last record
it includes) and a publication index (relations and one cursor). `Insert`
refreshes both within its transaction; `InsertOnly` is a writer that does not
know the tables. A row that cannot be added up is marked opaque. `Read` and
`Find` are what a reader does: accept a row and fold the tail after it, or fall
back to a scan. `RebuildCheckpoints`, `RebuildIndex` and the audits are the
operator's commands.

**`RedisStream`** - `sync`, `rebuild` and `events`, one Redis command or
transaction per step: read the fence, prove that the stream is a prefix of the
Store's records, append, or stage a new stream page by page and swap it in. A
`WATCH` is the set `clean`: a process whose watched keys were changed by anyone
must not execute its transaction. A position of the stream is the sequence in an
event's identifier, so `XRANGE` (`Between`) selects by identifier and not by
place. Redis may restart without its last writes,
forget the metadata, lose or change an event, or expire a staged stream; each is
an action, and their number is bounded by `MaxFaults`.

**`FleetService`** - the owner lock of a service directory is an `flock` that the
child inherits through `Popen`: the command that starts a service and the
service itself hold one lock (`Held`). `meta` is `state.json`, `request` is
`stop.json`. Within a service the coordinator, the worker slots, the stop
watcher and the admission gate are separate; reports of the coordinator and the
watcher go through `_update_state`, which accepts forward transitions of the
same generation only (`Reported`, `Transitions`). A slot may raise while it works
and outside its permit, when it opens its Store or waits (`FailOutside`). Commands
and services may be killed at any time. That metadata moves forward is stated
by the meaning of the states (`Phase`) and not by the table of the code.

**`Handover`** - extends `ClaimGates`. `Project` is the projection of a
`task.handoff` (also with an `edit`) or a `task.revise` against the Store a
process sees; `Commit` projects again under the lock and goes on only if the
result is the same (`SameProjection`). Whatever is not part of that comparison,
such as claims and registrations, may have changed. The signed request (`Asked`)
names the choice of a worker and, for an edit, nothing about holds: an edit copies
all open holds of its source, and the request's snapshot of them is compared when
it is projected. `Command` are the gate commands of `ClaimGates`; `Promote`,
`RequestReview`, `Decide`, `Attest`, `Deliver`, `Publish` and `Fail` are what else
commits in between. An assignment is its worker: the chain of assignment records
behind it only strengthens the comparison.

**`Obligation`** - the promise of a replacement: a set of outputs is owed by one
Contract at a time, passing it on changes nothing about it, and it is met only
when nothing is due. `Handover` refines it (`Duty`).

**Left nondeterministic.** In `ClaimLease` any batch of terminals may be
committed at any time (why is `Completion`'s business); in `CausalAllowance` any
live Contracts may end together; in `Completion` claims are reduced to the fence
a submission passes; in `Recovery` and `Continuation` the balance is spent by
others at any time; in `Handover` any live Contracts below a completed one may be
cancelled. Each is a superset of what the other component does, so safety
carries over.

**Abstractions.** Signatures, keys, capabilities, receipts and provenance chains
are assumed valid. A claim package is its claim. Names, prompts and Asset
contents are model values. "failed" in `ClaimLease` and `Handover` stands for
every outcome but `complete`. Contracts are all declared from the start in
`ClaimLease`; they are declared during the run in the other modules. A
claim-bound Candidate delivers every declared output of its Contract or publishes
children, never both (`_validate_claim_bound_projection`).

The `MC` modules hold the constants of the small instances. Definitions marked
"Mutant" are plausible wrong versions of the definition that follows;
`PROJECT.json` says which property notices which.

## 4. Runs

| Run | Instance | Shows |
|---|---|---|
| `lease_clock` | 1 Contract, 2 workers, 2 processes, leases of 1 tick, clock to 3, 2 renewals and 1 Candidate per claim, `LockWait` 1 | An expiry never overrides a committed renewal, even one written with a stale clock; the claim table equals the replay of its records; the claim machine implements `TaskAttempt` with its fairness: attempts are exclusive, end once and visibly, and do end although a worker crashed. |
| `claim_gates` | 2 Contracts that may be linked to each other, a hold, an assignment, 2 workers with 2 registration versions, 1 signed request served by 2 processes | Gates and claims prepared from older snapshots never contradict each other; versions change and change back; one grant per request; no circle of Contracts. |
| `completion` | independent root, compile task with two verifiers of the root, a system task published late below one of them, 2 processes | Completions derived before the lock stay right and converge; a direct completion leaves nothing live below it unless an independent Contract is concerned; the verifiers outlive the compile task; one Asset per slot. |
| `allowance` | root (3), task (2), leaf (1), successor (2), an unfunded retry, 2 processes | Stale projections never overspend; an outcome burns exactly the remainder; units are conserved; a lineage stays within its grant. |
| `recovery` | a tool task and another, repairs of depth 1, expiry, rejection and refusal, 2 failures, an allowance for one repair, 2 processes, 1 crash | One recovery Contract per Contract, paid for once; a failure recorded as scheduled has its repair in the Store; every failure is answered, except submissions behind the refusal of a tool call. |
| `continuation` | a tool task and a task that no plugin handles, of one parent with 2 units, 2 processes, 1 crash, maintenance that may come to raise | A source is continued once; nobody is left without a continuation or an outcome; every completion that is handled is projected unless maintenance raises before. |
| `ledger_indexes` | 3 records about 2 accounts and 2 members | Accepted reads are exact, fallbacks have a reason, and a complete selection misses no head, for every mixture of writers, rows and rebuilds. |
| `redis_stream` | a relaying and a consuming process, 2 records, pages of one event, 2 faults | Writes leave exact prefixes; every record is delivered once, in order, and in the end. |
| `fleet` | 2 commands, 2 generations, 1 slot, 1 kill | One service at a time; an answered stop has ended and drained; metadata moves forward; a request to the live service ends it. |
| `handover` | independent task with 2 outputs, a review, 2 possible successors, 2 holds, 1 worker of capacity 2 | Handoffs, edits and revisions lose no hold, assignment or open output, leave one claimant, and implement `Obligation`. |
| `handover_tree` | a task below an independent root, with a part and a verifier below it and prerequisites inside and outside | A handoff settles everything below its source or spares it for a reason, and forgets no prerequisite. |
| `qualification_race` | root with two outputs, producers below, 2 processes, independent root | Violated: see findings. |

**Bounds.** `MaxClock`, `MaxRenewals`, `MaxCandidates`, `MaxVersion`,
`MaxRevision`, `MaxRecords`, `MaxGeneration`, `MaxFailures`, `MaxCrashes`, `MaxFaults`, `DepthLimit` and the
sets of requests, holds and edges bound a run. The races are between two
processes over one or two Contracts, so two sessions exhibit every pair of
decision and commit; a third process only adds more of the same commits in
between, which the nondeterministic commitments already provide. In
`lease_clock` the clock runs far enough for a lease to be granted, run out, be
observed, be renewed with a stale reading, and be expired; with a clock one tick
shorter the interesting case does not exist. In `claim_gates` a ring of two
links is the shortest that can be closed from both sides at once. `allowance`
has budgets so tight that the successor can be paid for only with what cancelled
tasks return, and `recovery` and `continuation` can pay for one of two. Two
failures are enough in `recovery` for a Contract that fails in two ways, for a
repair that fails, and for a submission behind one that raises. `continuation`
has no explicit failure and no parallel item: the theorems of section 6 cover
them.
`redis_stream` has as many faults as are needed to lose a write and damage the
repair. In the two `handover` runs a single session projects: `Publish`, `Fail`,
`Command`, `Deliver` and `Attest` stand for every rival transaction between its
projection and its commit. Successors of successors do not occur in that
instance; the theorems of section 6 cover them.

Symmetry is used for sessions only, and never in a run with a liveness property.
Deadlock is not checked in any run: a run may really end, with every Contract
terminal, every record delivered or every service gone.

**Fairness.** Each assumption is about a loop of the code. Nothing is assumed of
messages, failures and single commands, which may stop for ever, and of workers
only what the last point says.

* `ClaimLease`: time passes, and an overdue lease that a scan sees is expired
  (`Tick`, `ObserveExpired`, `CommitExpiration`): `process_expired_claims` is
  called at the beginning of every claim scan, and by nothing else. A worker that renews for
  ever keeps its claim in the code too; the bound on the clock ends renewals in
  the model, so the property reads "once renewals stop".
* `Recovery`: weak fairness of the steps of each process (`PassStep`): a pass
  goes on until it ends, crashes or raises. Strong fairness of the scan of each
  kind of failure: a claim scan begins with the expirations; a maintenance step
  looks at the invocations and then at the submissions. Both are made again and
  again by services and commands; a service or command that an exception ended
  must be started again by somebody.
* `Continuation`: weak fairness of `PassStep`. The completions come last in a
  maintenance step and in no claim scan, so a pass begins only while nothing
  raises before it (`blocked`), and the property is about that case.
* `RedisStream`: weak fairness of relaying and of starting a read: `wait` and the
  worker loops call `sync` and `events` again and again. Faults are not fair and
  bounded, so eventually there are none.
* `FleetService`: weak fairness of the threads of a live service (coordinator,
  watcher, slots). Commands are not fair: a user need not finish a stop. That a
  busy slot goes on assumes of its worker that `invoke` returns or raises:
  `runtime.py` sets no timeout, and a service whose worker never returns never
  ends. `StopIsHeard` is relative to that.

## 5. Findings

* **`qualification_race`** - `DESIGN.md:346-351` promises that two concurrent
  Candidates satisfying different outputs converge on one terminal fact "instead
  of leaving an output-complete Contract unterminated". Consequences are derived
  again under the lock only for Assets (`sqlite_store.py`,
  `_commit_time_ingress_consequences`). Two attestations of the last two slots
  both commit and no terminal is written. The trace: root has outputs x and y,
  both are delivered; two processes prepare an attestation of x and of y; both
  commit. `DirectOutputsTerminate` is the same statement for Contracts without
  independent acceptance; it holds, and is proved.

Observations made while modelling, without a run of their own:

* For the same reason a qualification does not cancel a child published after it
  was reduced (`acceptance.py:514`), although `DESIGN.md:1620-1626` says that
  qualification and output completion share unfinished-child cancellation.
  The walks under the lock stop at a verifier of an independent Contract that they
  take for waiting. Live work without a purpose can therefore stay below a directly
  completed Contract in three cases: the batch qualifies the independent Contract
  (a verifier that delivers its report and attests at once); the batch cancels it,
  in a walk that comes later; or it was left with its outputs and without an
  outcome by the race of the finding above. `DirectCompletionFences` excludes
  exactly these. Without the second the statement is true in the instance of
  `completion` and false in a chain of six Contracts (`i2 > p > i > y2 > c > y`; one
  batch completes `p` and `c` and cancels `i`): it was the attempt to prove it that
  showed so, and TLC confirmed the counterexample.
* What a batch cancels depends on the order of its Assets in one corner. The
  docstring of `on_assets_created` (`fact_reducer.py`) says "without depending on
  insertion order". In a chain `i0 > p > i > c > y`, where `c` verifies `i0` and
  `y` verifies `i`, a batch that completes `p` and `c` leaves `y` live when it
  looks at `p` first (the walk meets `i`, then stops at `c`) and cancels it when it
  looks at `c` first. Running the reducer on the two orders shows the difference;
  completions are the same in both.
* ADR-037 (lines 38-39) says a race that changes the registration after preflight
  rejects the command. `claim_contract` compares the version noted first with the
  current one (`sqlite_store.py:2787`); a registration that changes while the
  package is prepared and changes back before the lock is not noticed, because
  the answer of `registration_is_replay` is not used there (line 378).
  `GrantsAreEligible` says what remains true.
* A recovery whose history changes during each of three reads is recorded as
  `unavailable` although it may have been published;
  `docs/boundary-invariants.md:101-103` reads as if that could not be. The same
  three reads can fail the parent of a completed tool task that was continued.
* The refusal of a tool call stops maintenance. `process_rejected_submissions`
  ("Replay recovery from every durable claim-bound Candidate rejection.",
  `runtime.py:1004`) calls `_recovery_source_binding` (`runtime.py:1060`) for each
  rejection in turn. When a Candidate for a claimed tool task is refused at the
  commit (it is late, say), the claim was not closed by it, and
  `task_recovery_source_binding` raises `recovery_source_status_mismatch`
  (`task_diagnostics.py:1568-1570`), whatever happens to the claim afterwards. No
  outcome is recorded, so every later call raises at the same record. The
  submissions behind it are not answered, and `run_runtime_maintenance_step`
  never comes to the completions. Running the code shows it. Expirations and failed
  invocations are answered all the same. `EveryFailureAnswered` exempts exactly
  the submissions behind such a refusal (`Blocked`), and TLC refutes it without
  that exemption; `EveryCompletionProjected` exempts the case (`blocked`).
* A recovery Contract may be declared twice. Two passes that answer two failures
  of one Contract (its expiry and a refused submission, say) can both find no
  publication; the one that commits second, but projects after the first has
  committed, declares the same Contract with its own context. The Store accepts
  it (`_insert_contract` returns for an identical Contract,
  `project_contract_allowance_records` skips it), both failures are recorded as
  scheduled, and the Contract is granted once. Afterwards neither declaration can
  be proved (`recovery_contract_missing_or_ambiguous`,
  `recovery_history.py:114-115`), so that a pass which was cut off before its
  record reports `unavailable`. `OneRecoveryEach` says what remains true: one Contract, paid
  for once.
* A stop request is one file: when two stops of different generations run at the
  same time, the older one may write `stop.json` last, and the request for the
  live service is lost (`StopIsHeard` is stated for a request that is not
  replaced). While `status` or `stop` holds the lock for its look, a concurrent
  `start` reports the state of the previous generation.
* An attestation may still accept an Asset for a Contract that has been replaced
  in the meantime: acceptance does not look at its outcome. The successor still
  asks for that output.

## 6. Proofs

All assumptions are the named `ASSUME`s on constants; TLC evaluates them on every
run. The theorems hold for every number of Contracts, workers, processes,
requests, failures and crashes. What they assume of the constants is that
containment is a forest: `Ancestors` is what `Parent` says, a Contract is not
above itself, and only finitely many are (the Contracts of a ledger are a finite
set). Budgets are natural numbers. The installed provers cannot instantiate an
induction rule, so an induction is written as the choice of a least
counterexample, over numbers (`LeastNat`) or finite sets ordered by inclusion
(`SetInduction`).

* **`ClaimLeaseProofs`** - an inductive invariant joins the type invariant with:
  an active claim has no terminal and an aborted one has; holds, open
  prerequisites and foreign assignments exclude a claim; sessions that execute a
  Contract hold different claims or a closed one; observed leases are overdue;
  an expired lease lies in the past. No single one of them is inductive: expiry
  is safe because what was *observed* was already overdue and the row is compared
  with it, and exclusiveness of execution needs that a claim row, once made, is
  never made again. From it follow `GatesExclude`, the action properties
  `ClaimsNeverReopen` and `TerminalsImmutable`, and the refinement
  `LeaseImplementsAttempt`: initial states map to initial states and every step
  to a step of `TaskAttempt` or a stutter. The last part is about grants: a step
  appends at most one, and only for a request no record names (`StepFacts`),
  hence `RequestsSpentOnce`; and every Contract a process may still try suits the
  profile of the version its packages were prepared under (`PackageInv`), which
  survives every command because it speaks of immutable content. The fence then
  equates that version with the current one: `GrantsSuitTheirWorker`.
  `RebuildIsExact` is about the replay of all claim facts of a Contract: the
  replay of a longer history is one more step after the replay of the shorter one
  (`ReplayEnds`), so every commit moves row and replay alike.
* **`CompletionProofs`** - the key strengthening is `DerivedEarned`: terminals a
  process derived before the lock stay justified while others commit, because
  Assets and qualifications only grow and forests do not change. It yields
  `CompletionsAreEarned` and `CancellationsHaveCause`; `OutputsConverge` follows
  from the second derivation under the lock, `SlotsHoldOneAsset` from the
  writer's check. `WaitedVerifiersStay` rests on a second strengthening: whoever
  waits for a verifier that a derivation cancels is ended by the same derivation,
  has ended before, or has its outputs (`DerivedSpares`). A walk that reaches a
  Contract reaches what lies between (`UnreachablePasses`), which needs that the
  Store holds a Contract with all above it (`Rooted`). `CompletionsFence` takes
  the highest Contract without its outputs that a completion leaves live, and the
  lowest one that the batch completes between the two (`Highest`, `Lowest`). The
  walk down from there did not reach it, so it stopped on the way, at a verifier
  of a Contract that waits and is higher still (`WalkStops`). That one goes on
  waiting (`WaitersStay`), and the verifier is live after the commit, or the walk
  would have started lower (`EndedVerifiersFilled`). Either it shields what is
  below, or the waiting Contract is itself left live, which contradicts the
  choice of the highest. That a walk knows only earlier completions is no
  obstacle to this argument, whatever `Earlier` is.
* **`CausalAllowanceProofs`** - `NeverOverdrawn` and `TerminalHoldsNothing` are
  proved together with the types: a terminal burns the whole balance only because
  balances are not negative, and a terminal Contract stays at zero only because
  nobody may reserve from it, return to it or take from it. `BatchCovered` is the
  arithmetic core: under the lock, balance plus credit minus debit covers what
  the batch requests. The two statements about whole trees need sums. What the model adds up with
  `MapThenSumSet` is shown to be computed one element at a time, in an order that
  does not matter (`TotalRecursion`, `TotalStep`); sums over unions and
  differences follow. `LineageInv` says that returns go to a Contract above the donors
  (`ReturnsUp`: within a tree no more is returned in than out, and in a root's
  tree exactly as much). What a tree holds is then its top's grant, plus the
  returns into it, less those out of it (`HeldIsGrantAndReturns`), which gives
  `LineageIsBounded`, and `AllowanceIsConserved` for roots.
* **`RecoveryProofs`** - a Contract is repaired in one form for good
  (`FormStays`), a process publishes only after it looked (`PublisherLooked`),
  and what it found is still so (`FormKept`, `VerdictStands`): publications are
  never withdrawn, and whoever declares the same Contract once more does so in
  the same form (`SameForm`), without a grant. Hence `RepairedOnce` and
  `SchedulesArePublished`.
* **`ContinuationProofs`** - the budget in the name of a continuation is a
  function of the cut of the ledger at its completion, so two processes that
  publish publish the same Contract (`PublishedNamed`); a completion is marked
  only when a continuation or an outcome exists (`MarkEarned`), which later
  spending cannot undo.
* **`DerivedViewsProofs`** - what is derived from the Store's records elsewhere.
  For the Redis stream, the invariant says of the live stream only that its
  identifiers ascend (`Ordered`): faults may have removed or falsified any
  event. Everything exact is about a process: a staged stream is the records
  staged so far (`Stands`), and *until a watched key is written* what the process
  has read and proved of the live stream holds (`Watches`). A proof page by page
  extends a proved prefix (`ProvedPrefix`) because ranges select by identifier
  and identifiers ascend. What consumers were given is a prefix of the records
  (`Given`), so `DeliveredOnce`; a write happens with the watch intact, so
  `WritesAreWhole`. For the ledger, a row equals the fold over the records up to
  its cursor that are about its account (`RowStands`), and a fold splits at the
  cursor (`FoldSplits`); for the index, every head up to the cursor is related
  (`IndexStands`).
* **`FleetServiceProofs`** - an alive service has the lock open (`AliveHolds`),
  nobody else has (`OneOpen`), and a command that may launch or answer holds it
  alone (`Alone`); the end is reported by a service that has joined its threads
  (`Joins`) and is about to exit (`EndedExits`).
* **`HandoverProofs`** - a replaced Contract is terminal for good
  (`ReplacedFailed`), and no gate accepts a hold, link or assignment of a terminal
  Contract: what the commit saw under the lock stays so. Every step is a commit
  of a replacement (`CommitOf`) or preserves a common frame (`OtherStep`), so
  each theorem has two cases. A successor exists only because its parent was
  replaced (`SuccessorsFollow`), which gives `ClaimantsAreAlone`.
  `ReplacementKeepsObligation` is the refinement of `Obligation`: exactly one
  declared Contract of the line of successors has not been replaced
  (`OneHolder`); replacing it hands on exactly what is due, and every other step
  is work.

**Only model-checked.** Liveness: `ImplementsFairTaskAttempt`,
`EveryFailureAnswered`, `EveryCompletionProjected`, `EveryRecordDelivered` and
`StopIsHeard`, because TLAPS supports neither fairness nor `ENABLED`. Every other
property of a passing run is stated by a theorem.

## 7. Not modelled

Most of the repository is outside these models because it keeps no shared state:
about two thirds of its lines are command line and HTTP front ends, readers
(`task_lineage.py`, `task_logs.py`, `task_views.py`, `cli/`, `server/`), validation of documents, prompts and
encodings (`plugins/task_semantics.py`, `methods/`, `protocol/`, `agent/`), and
scripts that install and exercise a release (`scripts/`). They decide nothing
that another process could contradict. `task_diagnostics.py` is mostly a reader
too, but recovery depends on its proof of a failed claim: the verdict of that
proof is part of `Recovery`, and the records it looks at are not.

Left out of the modelled components:

* authentication: signatures, keys and changes of trust; provenance of allowance
  records (receipts, heads, funding paths); canonical encoding and hashing
  (records are compared by content); damage to a row or record itself;
* planning: the plan and replan completions and the documents they compile;
  task priority, attachments and comments, which never decide about a claim, an
  output or an outcome; the promotion of a worker profile; activation
  expressions;
* recovery of a method result; rejected submissions whose Contract or raw
  Candidate is missing, and passes without publishers, which raise as well
  (`runtime.py:1048-1059`, `757-831`); retry; replays of a replacement that has been
  committed already, which change nothing; histories written before typed
  terminals and before allowance records;
* relations of the publication index by causal parent and by declaration pair;
* `wait`, `status` and the contents of events in the Redis stream; the read-side
  projection of `adapters/redis_query.py`; the bounded cycles of `local_fleet.py`
  (`run_local_fleet`, `run_local_cycle`) and `local_boards.py`; the state
  `degraded` of a fleet service, which nothing writes;
* language model providers, tools and MCP (external; a worker is a process that
  may answer, fail or crash), business profiles and migrations of old schemas.
  Contracts of origin "recovery" behave like "system" ones wherever `Completion`
  tells them apart.
