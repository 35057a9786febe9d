----------------------------- MODULE ClaimLease -----------------------------
(***************************************************************************)
(* One Contract's execution: a worker asks for a claim, holds it under a   *)
(* lease it renews, and closes it by submitting a signed Candidate, by     *)
(* recording an invocation failure, by losing the Contract to a terminal   *)
(* fact of somebody else, or by letting the lease run out.                 *)
(*                                                                         *)
(* Sessions are the processes that serve claim requests and run workers.   *)
(* They read the Store outside the writer lock and act on what they read   *)
(* later.  Signed renewals and submissions travel through `sent`: each may *)
(* be delivered late, out of order, many times or never.  A Session may    *)
(* crash at any point; the Store keeps what was committed.                 *)
(*                                                                         *)
(* A transaction that raises rolls back and leaves the Store as it was, so *)
(* refused deliveries and replays of a committed Candidate are not actions.*)
(***************************************************************************)
EXTENDS ClaimGates, Sequences

CONSTANTS
    Sessions,      \* processes that serve requests and run workers
    Requests,      \* signed worker.claim requests
    Signer,        \* Signer[r]: the worker that signed r
    NoRequest,
    NoContract,
    MaxLease,      \* lease length, in ticks
    LockWait,      \* ticks that may pass between reading the clock and the lock
    MaxClock,      \* bound: the last instant a lease may reach
    MaxRenewals,   \* bound: signed renewals per claim
    MaxCandidates  \* bound: different signed Candidates per claim

ASSUME SignerAssumption == Signer \in [Requests -> Workers]
ASSUME NullAssumption == NoRequest \notin Requests /\ NoContract \notin Contracts
ASSUME TimeAssumption ==
    /\ MaxLease \in Nat \ {0} /\ LockWait \in Nat /\ MaxClock \in Nat
    /\ MaxRenewals \in Nat /\ MaxCandidates \in Nat

VARIABLES
    clock,      \* the present, in ticks
    facts,      \* facts[c]: the immutable claim.* records of c, in revision order
    session,    \* session[s]: what process s is doing
    sent,       \* signed renewals and submissions put on the wire so far
    observed    \* expired leases a maintenance scan has read but not acted on

leaseVars == <<clock, facts, session, sent, observed>>
vars == <<gateVars, claim, leaseVars>>

ClaimStatuses == {"none", "active", "submitted", "released", "expired"}
Claims == [status : ClaimStatuses, worker : Workers \cup {NoWorker},
           epoch : Nat, lease : Nat]

Facts == [kind : {"granted", "renewed", "submitted", "released", "expired"},
          worker : Workers, epoch : Nat, lease : Nat,
          by : Requests \cup Nat]

Messages == [kind : {"renew", "submit"}, contract : Contracts,
             worker : Workers, epoch : Nat, tag : Nat]

Idle == [phase |-> "idle", request |-> NoRequest, version |-> 0, prepared |-> 0,
         ready |-> {}, contract |-> NoContract, epoch |-> 0]
SessionStates ==
    [phase : {"idle", "scanning", "choosing", "working", "lapsed"},
     request : Requests \cup {NoRequest}, version : 0 .. MaxVersion,
     prepared : 0 .. MaxVersion, ready : SUBSET Contracts, contract : Contracts \cup {NoContract},
     epoch : Nat]

Observations == [contract : Contracts, epoch : Nat, lease : Nat]

TypeOK ==
    /\ GatesTypeOK
    /\ claim \in [Contracts -> Claims]
    /\ clock \in Nat
    /\ facts \in [Contracts -> Seq(Facts)]
    /\ session \in [Sessions -> SessionStates]
    /\ sent \subseteq Messages
    /\ observed \subseteq Observations

Init ==
    /\ GatesInit
    /\ claim = [c \in Contracts |-> NoClaim]
    /\ clock = 0
    /\ facts = [c \in Contracts |-> << >>]
    /\ session = [s \in Sessions |-> Idle]
    /\ sent = {}
    /\ observed = {}

-----------------------------------------------------------------------------
\* The claim.* record written with a change of the row of c.
Fact(kind, row, by) ==
    [kind |-> kind, worker |-> row.worker, epoch |-> row.epoch,
     lease |-> row.lease, by |-> by]

\* Mutant: a signed request may be served again.
RequestNeverUsed(r) == FALSE

\* A signed request is used once its request record has been inserted.
RequestUsed(r) ==
    \E c \in Contracts : \E i \in DOMAIN facts[c] :
        facts[c][i].kind = "granted" /\ facts[c][i].by = r
RenewalUsed(m) ==
    \E i \in DOMAIN facts[m.contract] :
        facts[m.contract][i].kind = "renewed" /\ facts[m.contract][i].by = m.tag

\* The active claim fence: claim, worker, package and epoch still match.
HoldsClaim(c, w, epoch) ==
    claim[c].status = "active" /\ claim[c].worker = w /\ claim[c].epoch = epoch

\* `now` is read before BEGIN IMMEDIATE and may be stale once the lock is held.
LockedNow == {t \in 0 .. clock : clock - t <= LockWait}

\* Terminal facts T are inserted only where no terminal exists, and every
\* other active claim of those Contracts is released with them; `kept` is the
\* claim that closes its own way in the same transaction.
Released(T, kept) == {x \in DOMAIN T \ kept : claim[x].status = "active"}

Unsettled(T) == \A x \in DOMAIN T : terminal[x] = "none"

Settled(T) == [x \in Contracts |-> IF x \in DOMAIN T THEN T[x] ELSE terminal[x]]

CloseRows(T, kept, how) ==
    [x \in Contracts |->
        IF x \in kept THEN [claim[x] EXCEPT !.status = how]
        ELSE IF x \in Released(T, kept) THEN [claim[x] EXCEPT !.status = "released"]
        ELSE claim[x]]

CloseFacts(T, kept, how, by) ==
    [x \in Contracts |->
        IF x \in kept THEN Append(facts[x], Fact(how, claim[x], by))
        ELSE IF x \in Released(T, kept)
             THEN Append(facts[x], Fact("released", claim[x], 0))
        ELSE facts[x]]

-----------------------------------------------------------------------------
\* A Session serves a signed request.  It first notes the registration version.
Begin(s, r) ==
    /\ session[s] = Idle
    /\ Enabled(Signer[r])
    /\ session' = [session EXCEPT ![s] =
                      [Idle EXCEPT !.phase = "scanning", !.request = r,
                                   !.version = registry[Signer[r]]]]
    /\ UNCHANGED <<gateVars, claim, clock, facts, sent, observed>>

\* Then it reads the registration again, which its packages will name, and the
\* Contracts, and keeps those it may try.  The reads are one step: what they
\* say is decided again by Grant, except for compatibility.
Eligible(c, w) ==
    Claimable(c) /\ AdmitsWorker(c, w) /\ Compatible(c, w) /\ HasRoom(w)

Scan(s) ==
    /\ session[s].phase = "scanning"
    /\ LET w == Signer[session[s].request]
           ready == {c \in Contracts : Eligible(c, w)}
       IN  session' = [session EXCEPT ![s] =
                          IF ready = {} THEN Idle
                          ELSE [@ EXCEPT !.phase = "choosing", !.ready = ready,
                                         !.prepared = registry[w]]]
    /\ UNCHANGED <<gateVars, claim, clock, facts, sent, observed>>

\* Mutant: the registration version is not fenced.
GrantableAnyVersion(c, r, version) ==
    LET w == Signer[r]
    IN  Claimable(c) /\ AdmitsWorker(c, w) /\ Enabled(w) /\ HasRoom(w) /\ ~RequestUsed(r)

\* claim_contract decides again under the writer lock.
Grantable(c, r, version) ==
    LET w == Signer[r]
    IN  /\ Claimable(c)
        /\ AdmitsWorker(c, w)
        /\ Enabled(w)
        /\ HasRoom(w)
        /\ registry[w] = version
        /\ ~RequestUsed(r)

Grant(s, c, now) ==
    LET r   == session[s].request
        row == [status |-> "active", worker |-> Signer[r],
                epoch |-> claim[c].epoch + 1, lease |-> now + MaxLease]
    IN  /\ session[s].phase = "choosing"
        /\ c \in session[s].ready
        /\ Grantable(c, r, session[s].version)
        /\ row.lease <= MaxClock
        /\ claim' = [claim EXCEPT ![c] = row]
        /\ facts' = [facts EXCEPT ![c] = Append(@, Fact("granted", row, r))]
        /\ session' = [session EXCEPT ![s] =
                          [@ EXCEPT !.phase = "working", !.contract = c,
                                    !.epoch = row.epoch, !.ready = {}]]
        /\ UNCHANGED <<gateVars, clock, sent, observed>>

\* A refused attempt moves on to the next Contract of the same snapshot,
\* unless the registration changed under the scan, which ends it.
Refuse(s, c) ==
    /\ session[s].phase = "choosing"
    /\ c \in session[s].ready
    /\ ~Grantable(c, session[s].request, session[s].version)
    /\ LET left == session[s].ready \ {c}
           stale == registry[Signer[session[s].request]] # session[s].version
       IN  session' = [session EXCEPT ![s] =
                          IF stale \/ left = {} THEN Idle
                          ELSE [@ EXCEPT !.ready = left]]
    /\ UNCHANGED <<gateVars, claim, clock, facts, sent, observed>>

-----------------------------------------------------------------------------
\* A working Session renews, answers or gives up.
Send(s, kind, bound) ==
    \E n \in 1 .. bound :
        LET m == [kind |-> kind, contract |-> session[s].contract,
                  worker |-> Signer[session[s].request],
                  epoch |-> session[s].epoch, tag |-> n]
        IN  m \notin sent /\ sent' = sent \cup {m}

AskRenewal(s) ==
    /\ session[s].phase = "working"
    /\ Send(s, "renew", MaxRenewals)
    /\ UNCHANGED <<gateVars, claim, clock, facts, session, observed>>

\* The worker signs its Candidate.  A local host is done with the claim; a
\* remote worker that lost the answer may sign another one.
Answer(s) ==
    /\ session[s].phase = "working"
    /\ Send(s, "submit", MaxCandidates)
    /\ \/ session' = [session EXCEPT ![s] = Idle]
       \/ UNCHANGED session
    /\ UNCHANGED <<gateVars, claim, clock, facts, observed>>

\* The provider failed, or the lease keeper did: failure, terminal fact and
\* release in one transaction, fenced on the claim but not on its lease.  When
\* the fence fails nothing is written and the Session stops.
FailInvocation(s) ==
    LET c == session[s].contract
        w == Signer[session[s].request]
    IN  /\ session[s].phase \in {"working", "lapsed"}
        /\ \/ /\ HoldsClaim(c, w, session[s].epoch)
              /\ terminal[c] = "none"
              /\ terminal' = [terminal EXCEPT ![c] = "failed"]
              /\ claim' = [claim EXCEPT ![c].status = "released"]
              /\ facts' = [facts EXCEPT ![c] = Append(@, Fact("released", claim[c], 0))]
           \/ /\ ~HoldsClaim(c, w, session[s].epoch)
              /\ UNCHANGED <<terminal, claim, facts>>
        /\ session' = [session EXCEPT ![s] = Idle]
        /\ UNCHANGED <<hold, links, assignee, registry, clock, sent, observed>>

Crash(s) ==
    /\ session[s] # Idle
    /\ session' = [session EXCEPT ![s] = Idle]
    /\ UNCHANGED <<gateVars, claim, clock, facts, sent, observed>>

-----------------------------------------------------------------------------
\* Delivery of a signed renewal.
Renewable(m, now) ==
    /\ m.kind = "renew"
    /\ HoldsClaim(m.contract, m.worker, m.epoch)
    /\ claim[m.contract].lease >= now
    /\ Enabled(m.worker)

Renew(m, now) ==
    LET c   == m.contract
        row == [claim[c] EXCEPT !.lease = now + MaxLease]
    IN  /\ Renewable(m, now)
        /\ ~RenewalUsed(m)
        /\ row.lease <= MaxClock
        /\ claim' = [claim EXCEPT ![c] = row]
        /\ facts' = [facts EXCEPT ![c] = Append(@, Fact("renewed", row, m.tag))]
        /\ UNCHANGED <<gateVars, clock, session, sent, observed>>

\* A refused renewal stops the lease keeper; the Session must not submit.
RenewalRefused(m, s, now) ==
    /\ m.kind = "renew"
    /\ ~Renewable(m, now)
    /\ session[s].phase = "working"
    /\ session[s].contract = m.contract
    /\ session' = [session EXCEPT ![s].phase = "lapsed"]
    /\ UNCHANGED <<gateVars, claim, clock, facts, sent, observed>>

\* Delivery of a signed Candidate.  A rejected one fails its own Contract; an
\* accepted one may complete it, may leave it open, and may settle others:
\* its outputs complete siblings, a completed parent cancels descendants.
Verdicts(c) ==
    {[x \in {c} |-> "failed"]}
    \cup {T \in TerminalBatches : c \in DOMAIN T => T[c] = "complete"}

CommitCandidate(m, T) ==
    LET c == m.contract
    IN  /\ m.kind = "submit"
        /\ Enabled(m.worker)
        /\ terminal[c] = "none"
        /\ HoldsClaim(c, m.worker, m.epoch)
        /\ claim[c].lease >= clock
        /\ Unsettled(T)
        /\ terminal' = Settled(T)
        /\ claim' = CloseRows(T, {c}, "submitted")
        /\ facts' = CloseFacts(T, {c}, "submitted", m.tag)
        /\ UNCHANGED <<hold, links, assignee, registry, clock, session, sent, observed>>

\* Any other commitment that ends in terminal facts: human cancellation,
\* method and review Candidates, successor publication, recovery outcomes.
CommitTerminals(T) ==
    /\ DOMAIN T # {}
    /\ Unsettled(T)
    /\ terminal' = Settled(T)
    /\ claim' = CloseRows(T, {}, "released")
    /\ facts' = CloseFacts(T, {}, "released", 0)
    /\ UNCHANGED <<hold, links, assignee, registry, clock, session, sent, observed>>

-----------------------------------------------------------------------------
\* Maintenance: read an overdue lease, then expire exactly that lease.
ObserveExpired(c) ==
    /\ claim[c].status = "active"
    /\ claim[c].lease < clock
    /\ observed' = observed \cup
          {[contract |-> c, epoch |-> claim[c].epoch, lease |-> claim[c].lease]}
    /\ UNCHANGED <<gateVars, claim, clock, facts, session, sent>>

\* Mutants: the fence forgets the lease; it compares with the next epoch.
StillOverdueAnyLease(o) ==
    claim[o.contract].status = "active" /\ claim[o.contract].epoch = o.epoch
StillOverdueNextEpoch(o) ==
    /\ claim[o.contract].status = "active"
    /\ claim[o.contract].epoch = o.epoch + 1
    /\ claim[o.contract].lease = o.lease

\* The row still is the one the scan read: same epoch, same deadline.
StillOverdue(o) ==
    /\ claim[o.contract].status = "active"
    /\ claim[o.contract].epoch = o.epoch
    /\ claim[o.contract].lease = o.lease

CommitExpiration(o) ==
    LET c == o.contract
    IN  /\ \/ /\ StillOverdue(o)
              /\ terminal[c] = "none"
              /\ terminal' = [terminal EXCEPT ![c] = "failed"]
              /\ claim' = [claim EXCEPT ![c].status = "expired"]
              /\ facts' = [facts EXCEPT ![c] = Append(@, Fact("expired", claim[c], 0))]
           \/ ~StillOverdue(o) /\ UNCHANGED <<terminal, claim, facts>>
        /\ observed' = observed \ {o}
        /\ UNCHANGED <<hold, links, assignee, registry, clock, session, sent>>

\* Time is bounded one tick past the last lease, so every lease can run out.
Tick ==
    /\ clock <= MaxClock
    /\ clock' = clock + 1
    /\ UNCHANGED <<gateVars, claim, facts, session, sent, observed>>

-----------------------------------------------------------------------------
SessionStep(s) ==
    \/ \E r \in Requests : Begin(s, r)
    \/ Scan(s)
    \/ \E c \in Contracts : \E now \in LockedNow : Grant(s, c, now)
    \/ \E c \in Contracts : Refuse(s, c)
    \/ AskRenewal(s)
    \/ Answer(s)
    \/ FailInvocation(s)
    \/ Crash(s)

Delivery(m) ==
    \/ \E now \in LockedNow : Renew(m, now)
    \/ \E s \in Sessions : \E now \in LockedNow : RenewalRefused(m, s, now)
    \/ \E T \in Verdicts(m.contract) : CommitCandidate(m, T)

Operator == GateCommand /\ UNCHANGED <<claim, leaseVars>>

Next ==
    \/ Operator
    \/ \E s \in Sessions : SessionStep(s)
    \/ \E m \in sent : Delivery(m)
    \/ \E T \in TerminalBatches : CommitTerminals(T)
    \/ \E c \in Contracts : ObserveExpired(c)
    \/ \E o \in observed : CommitExpiration(o)
    \/ Tick

Spec == Init /\ [][Next]_vars

\* Time passes, and some process keeps running process_expired_claims: every
\* claim scan of every worker calls it first.
Fairness ==
    /\ WF_vars(Tick)
    /\ \A c \in Contracts :
        /\ WF_vars(ObserveExpired(c))
        /\ WF_vars(\E o \in observed : o.contract = c /\ CommitExpiration(o))

FairSpec == Spec /\ Fairness
-----------------------------------------------------------------------------
(***************************************************************************)
(* Safety.                                                                 *)
(***************************************************************************)

\* A Contract with a terminal fact has no active claim: whoever writes the
\* terminal, in whatever transaction, releases the claim in that transaction.
NoLiveClaimOnTerminal ==
    \A c \in Contracts : claim[c].status = "active" => terminal[c] = "none"

\* An attempt that ended without a submission ended visibly: a released or
\* expired claim always leaves a terminal fact, never a Contract in limbo.
AbortedClaimIsTerminal ==
    \A c \in Contracts :
        claim[c].status \in {"released", "expired"} => terminal[c] # "none"

\* No two processes ever execute the same Contract, even though each chose it
\* from a snapshot that may have been stale.
SingleExecution ==
    \A s, t \in Sessions :
        /\ session[s].contract # NoContract
        /\ session[s].contract = session[t].contract
        => s = t

\* A signed claim request buys at most one Contract, however often it is
\* delivered and to however many processes.
OneGrantPerRequest ==
    \A c, d \in Contracts : \A i \in DOMAIN facts[c], j \in DOMAIN facts[d] :
        /\ facts[c][i].kind = "granted" /\ facts[d][j].kind = "granted"
        /\ facts[c][i].by = facts[d][j].by
        => c = d /\ i = j

\* An expired claim really ran out: no renewal that was committed before the
\* expiry is overridden by a maintenance scan that read the older lease.
ExpiredRanOut ==
    \A c \in Contracts : claim[c].status = "expired" => claim[c].lease < clock

\* Holds and claims exclude each other: a claimed Contract has no open hold,
\* whichever of the two commands was prepared first.
ClaimedNeverHeld ==
    \A c \in Contracts : claim[c].status # "none" => OpenHolds(c) = {}

\* Work on a Contract starts only after all of its prerequisites completed.
ClaimedPrerequisitesComplete ==
    \A c \in Contracts : claim[c].status # "none" => Blockers(c) = {}

\* A claim never belongs to another worker than the one assigned.
ClaimantIsAssignee ==
    \A c \in Contracts :
        /\ claim[c].status # "none"
        /\ assignee[c] # NoWorker
        => claim[c].worker = assignee[c]

\* A gate and a claim never contradict each other, whichever of the two commands
\* was prepared first.
ClaimsRespectGates ==
    ClaimedNeverHeld /\ ClaimedPrerequisitesComplete /\ ClaimantIsAssignee

\* Links placed by different operators never close a circle of Contracts that
\* wait for each other.
LinksAcyclic == Acyclic(links)

\* Mutant: the rebuild forgets renewals.
ReplayNoRenewals(row, f) ==
    CASE f.kind = "granted" ->
            [status |-> "active", worker |-> f.worker, epoch |-> f.epoch,
             lease |-> f.lease]
      [] f.kind = "renewed" -> row
      [] OTHER -> IF f.epoch = row.epoch THEN [row EXCEPT !.status = f.kind] ELSE row

\* rebuild_claim_projection: replay the claim.* records into an empty table.
Replay(row, f) ==
    CASE f.kind = "granted" ->
            [status |-> "active", worker |-> f.worker, epoch |-> f.epoch,
             lease |-> f.lease]
      [] f.kind = "renewed" ->
            IF f.epoch = row.epoch THEN [row EXCEPT !.lease = f.lease] ELSE row
      [] OTHER ->
            IF f.epoch = row.epoch THEN [row EXCEPT !.status = f.kind] ELSE row

\* The row of c after its first i records, and so after all of them.
Rebuilt(c) ==
    LET row[i \in 0 .. Len(facts[c])] ==
            IF i = 0 THEN NoClaim ELSE Replay(row[i - 1], facts[c][i])
    IN  row[Len(facts[c])]

\* The claim table can be dropped and rebuilt from the records at any time.
RebuildMatches == \A c \in Contracts : Rebuilt(c) = claim[c]

-----------------------------------------------------------------------------
(***************************************************************************)
(* Action properties.                                                      *)
(***************************************************************************)

\* A claim is granted once and never changes hands, and a closed claim never
\* changes at all: the no-reclaim rule behind recovery by new Contracts.
ClaimsNeverReopen ==
    [][\A c \in Contracts :
          /\ claim[c].status \notin {"none", "active"} => claim'[c] = claim[c]
          /\ claim[c].status = "active" =>
                /\ claim'[c].status # "none"
                /\ claim'[c].worker = claim[c].worker
                /\ claim'[c].epoch = claim[c].epoch]_vars

\* One terminal fact per Contract, for ever.
TerminalsImmutable ==
    [][\A c \in Contracts : terminal[c] # "none" => terminal'[c] = terminal[c]]_vars

\* A grant stays within the worker's capacity, and suits the registration that
\* is current when it is written, although compatibility was only looked at
\* before the lock - if that look was at the version the request had noted.
GrantsAreEligible ==
    [][\A s \in Sessions, w \in Workers :
          /\ session[s].phase = "choosing" /\ session'[s].phase = "working"
          /\ w = Signer[session[s].request]
          => /\ Cardinality(ActiveClaims(w)') <= Current(w).capacity
             /\ session[s].prepared = session[s].version =>
                   Compatible(session'[s].contract, w)]_vars

-----------------------------------------------------------------------------
(***************************************************************************)
(* Liveness, and the promise this machine keeps.                           *)
(***************************************************************************)

PhaseOf ==
    [none |-> "open", active |-> "running", submitted |-> "delivered",
     released |-> "aborted", expired |-> "aborted"]

Attempt == INSTANCE TaskAttempt WITH
    attempt <- [c \in Contracts |-> [phase  |-> PhaseOf[claim[c].status],
                                     worker |-> claim[c].worker]],
    outcome <- terminal

\* Claims under leases implement single attempts with single outcomes.
ImplementsTaskAttempt == Attempt!Spec

\* ... and every attempt that starts ends: a crashed or silent worker never keeps a
\* Contract for ever, because once renewals stop its claim closes.
ImplementsFairTaskAttempt == Attempt!FairSpec

=============================================================================
