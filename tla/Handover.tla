------------------------------ MODULE Handover ------------------------------
(***************************************************************************)
(* Replacing a task: a handoff, an edit or a revision cancels a Contract   *)
(* with the unfinished work below it and declares a successor that takes   *)
(* over its open outputs, its assignment and, for an edit, its holds.      *)
(*                                                                         *)
(* The Candidate is projected against the Store a process sees and, under  *)
(* the writer lock, projected once more: any difference rejects it.  The   *)
(* gate commands of ClaimGates, claims, deliveries, reviews and other      *)
(* outcomes commit in between, each in a transaction of its own that is    *)
(* validated under the lock.                                               *)
(*                                                                         *)
(* Which unfinished work a completion cancels is decided in Completion and *)
(* how much allowance moves in CausalAllowance: here any live Contracts    *)
(* below a completed one may be cancelled, and every successor is paid.    *)
(***************************************************************************)
EXTENDS ClaimGates, Functions

CONSTANTS
    NoContract, NoHold,
    Parent,        \* the containment parent, or NoContract
    Ancestors,     \* all Contracts above
    Names,         \* output names
    Outputs,       \* declared output names (a successor's are decided later)
    Independent,   \* Contracts whose outputs are accepted by a verifier
    Verifies,      \* Verifies[v]: independent Contracts v is able to verify
    Controlled,    \* Contracts of the system, of recovery or of a plugin
    Successors,    \* successors of their parents
    Reviewers,     \* review tasks for outputs of their parents
    Genesis,       \* Contracts declared at the start
    Root,          \* the one whose obligation is followed
    Modes,         \* the kinds of replacement in play
    Sessions       \* processes that project replacements

Kinds == {"handoff", "edit", "revise"}

ASSUME HandoverForestAssumption ==
    /\ NoContract \notin Contracts
    /\ NoHold \notin HoldIds
    /\ Parent \in [Contracts -> Contracts \cup {NoContract}]
    /\ Ancestors \in [Contracts -> SUBSET Contracts]
    /\ \A c \in Contracts :
        /\ c \notin Ancestors[c]
        /\ Ancestors[c] = IF Parent[c] = NoContract THEN {}
                          ELSE {Parent[c]} \cup Ancestors[Parent[c]]
        /\ \A a \in Ancestors[c] :
              /\ Ancestors[a] \subseteq Ancestors[c]
              /\ \E x \in {c} \cup Ancestors[c] : Parent[x] = a
ASSUME HandoverContractsAssumption ==
    /\ Genesis \cup Successors \cup Reviewers \cup Independent \subseteq Contracts
    /\ Outputs \in [Contracts -> SUBSET Names]
    /\ Verifies \in [Contracts -> SUBSET Independent]
    /\ Modes \subseteq Kinds
    /\ Root \in Genesis
    /\ Controlled \cap (Successors \cup Reviewers) = {}
    /\ Successors \cap Reviewers = {}
    /\ Genesis \cap (Successors \cup Reviewers) = {}
    /\ \A c \in Genesis : Ancestors[c] \subseteq Genesis
    /\ \A r \in Reviewers :
        /\ Parent[r] \in Independent \ Controlled
        /\ \E report \in Names :
              Outputs[r] = {report} /\ \A c \in Contracts \ {r} : report \notin Outputs[c]
    /\ \A d \in Successors :
        /\ Parent[d] \in Contracts \ Controlled
        /\ Outputs[d] = {}
        /\ d \in Independent <=> Parent[d] \in Independent

VARIABLES
    declared,    \* Contracts in the Store
    outputs,     \* the declared output names of each
    assets,      \* committed output Assets
    qualified,   \* <<c, a>>: Asset a is accepted for its slot of c
    copyOf,      \* copyOf[h]: the hold that h was copied from, or NoHold
    handed,      \* handed[c]: the replacement of c that was committed
    review,      \* review[r]: the Asset that r reviews, and the decision
    projected    \* projected[s]: the replacement that s has projected

work == <<declared, outputs, assets, qualified>>
vars == <<gateVars, claim, work, copyOf, handed, review, projected>>

Assets == [by : Contracts, name : Names]
Live(c) == c \in declared /\ terminal[c] = "none"
Within(d, c) == d = c \/ c \in Ancestors[d]
LiveBelow(c) == {x \in declared : Live(x) /\ c \in Ancestors[x]}

\* What a signed replacement asks for.  A choice of worker is either to inherit
\* the assignment or to override it; NoWorker clears it.  Only a handoff may ask
\* for a new hold, an edit inherits, and a revision names a review of its source.
Asked ==
    {q \in [kind   : Modes,
            source : Contracts,
            to     : Successors,
            choice : {"inherit"} \cup Workers \cup {NoWorker},
            held   : BOOLEAN,
            review : Reviewers \cup {NoContract}] :
        /\ q.source = Parent[q.to]
        /\ q.held => q.kind = "handoff"
        /\ q.kind = "edit" => q.choice = "inherit"
        /\ IF q.kind = "revise" THEN q.review # NoContract /\ Parent[q.review] = q.source
           ELSE q.review = NoContract}

\* ... and what it was found to do.
Replacements == [asked    : Asked,
                 due      : SUBSET Names,       \* the outputs of the successor
                 dropped  : SUBSET Contracts,   \* descendants to cancel,
                 finished : SUBSET Contracts,   \* ... to complete,
                 kept     : SUBSET Contracts,   \* ... and to leave alone
                 from     : Workers \cup {NoWorker},
                 holds    : SUBSET HoldIds]     \* holds to copy
None == [asked |-> "nothing"]

NoReview == [verdict |-> "unasked"]
Reviews == {NoReview} \cup [asset : Assets, verdict : {"none", "accept", "changes"}]

TypeOK ==
    /\ GatesTypeOK
    /\ declared \subseteq Contracts
    /\ outputs \in [Contracts -> SUBSET Names]
    /\ assets \subseteq Assets
    /\ qualified \subseteq Contracts \X Assets
    /\ copyOf \in [HoldIds -> HoldIds \cup {NoHold}]
    /\ handed \in [Contracts -> Replacements \cup {None}]
    /\ review \in [Reviewers -> Reviews]
    /\ projected \in [Sessions -> Replacements \cup {None}]

Init ==
    /\ GatesInit
    /\ claim = [c \in Contracts |-> NoClaim]
    /\ declared = Genesis
    /\ outputs = Outputs
    /\ assets = {}
    /\ qualified = {}
    /\ copyOf = [h \in HoldIds |-> NoHold]
    /\ handed = [c \in Contracts |-> None]
    /\ review = [r \in Reviewers |-> NoReview]
    /\ projected = [s \in Sessions |-> None]

-----------------------------------------------------------------------------
\* Outputs.

\* A slot of an independent Contract needs a qualified Asset, any other slot
\* takes an Asset by its name.
StillDue(c, A, Q) ==
    {n \in outputs[c] :
        ~\E a \in A : a.name = n /\ (c \in Independent => <<c, a>> \in Q)}

Due(c) == StillDue(c, assets, qualified)
Finished(c) == outputs[c] # {} /\ Due(c) = {}

\* Live Contracts of S that have all outputs with A and Q complete, unfinished
\* work below them may be cancelled, and every claim that ends is closed.
Conclude(S, A, Q, submitter) ==
    LET has(x) == outputs[x] # {} /\ StillDue(x, A, Q) = {}
        done == {x \in S : Live(x) /\ has(x)}
    IN  \E gone \in SUBSET {x \in UNION {LiveBelow(p) : p \in done} : ~has(x)} :
            /\ terminal' = [x \in Contracts |->
                    IF x \in done THEN "complete"
                    ELSE IF x \in gone THEN "failed" ELSE terminal[x]]
            /\ claim' = [x \in Contracts |->
                    IF x = submitter THEN [claim[x] EXCEPT !.status = "submitted"]
                    ELSE IF x \in done \cup gone /\ claim[x].status = "active"
                    THEN [claim[x] EXCEPT !.status = "released"] ELSE claim[x]]

-----------------------------------------------------------------------------
\* What other processes commit.

Command ==
    /\ \/ \E w \in Workers, v \in Versions : Register(w, v)
       \/ \E h \in HoldIds, c \in declared : PlaceHold(h, c)
       \/ \E h \in HoldIds : ReleaseHold(h)
       \/ \E e \in Edges : {e[1], e[2]} \subseteq declared /\ PlaceLink(e[1], e[2])
       \/ \E e \in Edges : ReleaseLink(e[1], e[2])
       \/ \E c \in Assignable \cap declared, w \in Workers \cup {NoWorker} :
            ~Finished(c) /\ Assign(c, w)
    /\ UNCHANGED <<claim, work, copyOf, handed, review, projected>>

\* task.promote releases all open holds of a task that nobody has started.
Promote(c) ==
    /\ OpenHolds(c) # {}
    /\ terminal[c] = "none"
    /\ NeverClaimed(c)
    /\ ~Finished(c)
    /\ hold' = [h \in HoldIds |->
            IF h \in OpenHolds(c) THEN [hold[h] EXCEPT !.state = "released"] ELSE hold[h]]
    /\ UNCHANGED <<terminal, links, assignee, registry, claim, work, copyOf, handed,
                   review, projected>>

Take(c, w) ==
    /\ c \in declared
    /\ Claimable(c)
    /\ Compatible(c, w)
    /\ AdmitsWorker(c, w)
    /\ HasRoom(w)
    /\ claim' = [claim EXCEPT ![c] = [@ EXCEPT !.status = "active", !.worker = w]]
    /\ UNCHANGED <<gateVars, work, copyOf, handed, review, projected>>

\* The claimant delivers every declared output.
Deliver(c) ==
    /\ claim[c].status = "active"
    /\ outputs[c] # {}
    /\ assets' = assets \cup {[by |-> c, name |-> n] : n \in outputs[c]}
    /\ Conclude({x \in declared : outputs[x] \cap outputs[c] # {}}, assets', qualified, c)
    /\ UNCHANGED <<hold, links, assignee, registry, declared, outputs, qualified,
                   copyOf, handed, review, projected>>

Publish(d) ==
    /\ d \in Contracts \ (declared \cup Successors \cup Reviewers)
    /\ Parent[d] # NoContract => Live(Parent[d])
    /\ declared' = declared \cup {d}
    /\ UNCHANGED <<gateVars, claim, outputs, assets, qualified, copyOf, handed, review,
                   projected>>

\* Failure, expiry, rejection and cancellation.
Fail(c) ==
    /\ Live(c)
    /\ terminal' = [terminal EXCEPT ![c] = "failed"]
    /\ claim' = [claim EXCEPT ![c].status = IF @ = "active" THEN "released" ELSE @]
    /\ UNCHANGED <<hold, links, assignee, registry, work, copyOf, handed, review, projected>>

-----------------------------------------------------------------------------
\* Independent acceptance and reviews.

Accepted(c, n) == \E q \in qualified : q[1] = c /\ q[2].name = n

\* Asset a is made for an empty slot of the independent Contract c.
Reviewable(c, a) ==
    /\ c \in declared \cap Independent
    /\ a \in assets
    /\ a.name \in outputs[c]
    /\ Within(a.by, c)
    /\ ~Accepted(c, a.name)

Accept(c, a) ==
    /\ qualified' = qualified \cup {<<c, a>>}
    /\ Conclude({c}, assets, qualified', NoContract)

\* asset.attest by a verifier that nobody asked for a review.
Attest(c, a) ==
    /\ Reviewable(c, a)
    /\ Accept(c, a)
    /\ UNCHANGED <<hold, links, assignee, registry, declared, outputs, assets, copyOf,
                   handed, review, projected>>

RequestReview(r, a) ==
    /\ r \notin declared
    /\ Live(Parent[r])
    /\ Reviewable(Parent[r], a)
    /\ declared' = declared \cup {r}
    /\ review' = [review EXCEPT ![r] = [asset |-> a, verdict |-> "none"]]
    /\ UNCHANGED <<gateVars, claim, outputs, assets, qualified, copyOf, handed, projected>>

\* A request is decided once, with the report of its reviewer at hand.
Decide(r, verdict) ==
    LET c == Parent[r]
        a == review[r].asset
    IN  /\ review[r].verdict = "none"
        /\ Live(c)
        /\ Reviewable(c, a)
        /\ \E report \in assets : report.name \in Outputs[r] /\ Within(report.by, r)
        /\ review' = [review EXCEPT ![r].verdict = verdict]
        /\ \/ verdict = "accept" /\ Accept(c, a)
           \/ verdict = "changes" /\ UNCHANGED <<terminal, claim, qualified>>
        /\ UNCHANGED <<hold, links, assignee, registry, declared, outputs, assets, copyOf,
                       handed, projected>>

-----------------------------------------------------------------------------
\* Projecting a replacement.

\* Mutant: no verifier is spared.
SparesNobody(c) == {}

\* Verifiers below c that an independent Contract above c still waits for, with
\* everything below them.
Spared(c) ==
    {x \in declared :
        \E v \in LiveBelow(c) :
            /\ Within(x, v)
            /\ \E i \in Verifies[v] \cap Ancestors[c] : terminal[i] = "none"}

\* The rest of the live work below c, whether its outputs are there or not.
Inventory(c) == LiveBelow(c) \ Spared(c)

\* Mutant: prerequisites are dropped with the Contract that had them.
WaitsForNothing(c) == FALSE

\* Something to be cancelled waits for a Contract that stays.
WaitsOutside(c) ==
    LET cancelled == {c} \cup {x \in Inventory(c) : ~Finished(x)}
    IN  \E e \in links :
            /\ e[1] \in cancelled
            /\ e[2] \notin {c} \cup Inventory(c)
            /\ terminal[e[2]] # "complete"

Given(q) == IF q.choice = "inherit" THEN assignee[q.source] ELSE q.choice

Assigns(q) ==
    /\ q.choice # assignee[q.source]
    /\ Given(q) # NoWorker => Compatible(q.to, Given(q))

\* A revision answers a review that asked for changes of an output that is still
\* not accepted, and there is nothing unfinished or held about its source.
Answers(q) ==
    /\ review[q.review].verdict = "changes"
    /\ review[q.review].asset.name \in Due(q.source)
    /\ LiveBelow(q.source) = {}
    /\ OpenHolds(q.source) = {}

\* Mutant: a handoff looks for holds below its source only.
UnheldBelow(q) == \A x \in Inventory(q.source) : OpenHolds(x) = {}

\* Open holds are in the way; only an edit takes those of its source along.
Unheld(q) ==
    /\ \A x \in Inventory(q.source) : OpenHolds(x) = {}
    /\ q.kind = "handoff" => OpenHolds(q.source) = {}

Admissible(q) ==
    /\ Live(q.source)
    /\ q.source \notin Controlled
    /\ q.to \notin declared
    /\ Due(q.source) # {}
    /\ ~WaitsOutside(q.source)
    /\ Assigns(q)
    /\ IF q.kind = "revise" THEN Answers(q) ELSE Unheld(q)

Replacement(q) ==
    [asked    |-> q,
     due      |-> Due(q.source),
     dropped  |-> {x \in Inventory(q.source) : ~Finished(x)},
     finished |-> {x \in Inventory(q.source) : Finished(x)},
     kept     |-> Spared(q.source),
     from     |-> assignee[q.source],
     holds    |-> IF q.kind = "edit" THEN OpenHolds(q.source) ELSE {}]

Project(s, q) ==
    /\ projected[s] = None
    /\ Admissible(q)
    /\ projected' = [projected EXCEPT ![s] = Replacement(q)]
    /\ UNCHANGED <<gateVars, claim, work, copyOf, handed, review>>

-----------------------------------------------------------------------------
\* Committing it under the lock.

\* Mutant: only the source is looked at again.
SourceStillLive(p) == Live(p.asked.source) /\ p.asked.to \notin declared

\* The projection validator: the Candidate still projects to the same records.
SameProjection(p) == Admissible(p.asked) /\ Replacement(p.asked) = p

\* The holds of the successor: a copy of each hold to carry, perhaps a new one.
ToPlace(p) == p.holds \cup (IF p.asked.held THEN {NoHold} ELSE {})
UnusedHolds == {h \in HoldIds : hold[h] = Unused}

\* Mutant: the claim of a cancelled Contract stays.
ReleasedNever(x, ended) == claim[x]
ReleasedBy(x, ended) ==
    IF x \in ended /\ claim[x].status = "active"
    THEN [claim[x] EXCEPT !.status = "released"] ELSE claim[x]

Commit(s) ==
    LET p == projected[s]
        c == p.asked.source
        d == p.asked.to
        cancelled == {c} \cup p.dropped
    IN  /\ p # None
        /\ SameProjection(p)
        /\ terminal' = [x \in Contracts |->
                IF x \in cancelled THEN "failed"
                ELSE IF x \in p.finished THEN "complete" ELSE terminal[x]]
        /\ claim' = [x \in Contracts |-> ReleasedBy(x, cancelled \cup p.finished)]
        /\ declared' = declared \cup {d}
        /\ outputs' = [outputs EXCEPT ![d] = p.due]
        /\ assignee' = [assignee EXCEPT ![d] = Given(p.asked)]
        /\ \E place \in Injection(ToPlace(p), UnusedHolds) :
              LET placed(h) == \E g \in ToPlace(p) : place[g] = h
              IN  /\ hold' = [h \in HoldIds |->
                        IF placed(h) THEN [state |-> "open", contract |-> d] ELSE hold[h]]
                  /\ copyOf' = [h \in HoldIds |->
                        IF placed(h) THEN CHOOSE g \in ToPlace(p) : place[g] = h ELSE copyOf[h]]
        /\ handed' = [handed EXCEPT ![c] = p]
        /\ projected' = [projected EXCEPT ![s] = None]
        /\ UNCHANGED <<links, registry, assets, qualified, review>>

\* The Candidate is rejected, or the process stops before COMMIT.
Reject(s) ==
    /\ projected[s] # None
    /\ projected' = [projected EXCEPT ![s] = None]
    /\ UNCHANGED <<gateVars, claim, work, copyOf, handed, review>>

-----------------------------------------------------------------------------
Next ==
    \/ Command
    \/ \E c \in Contracts : Promote(c) \/ Deliver(c) \/ Publish(c) \/ Fail(c)
    \/ \E c \in Contracts, w \in Workers : Take(c, w)
    \/ \E c \in Independent, a \in assets : Attest(c, a)
    \/ \E r \in Reviewers, a \in assets : RequestReview(r, a)
    \/ \E r \in Reviewers, verdict \in {"accept", "changes"} : Decide(r, verdict)
    \/ \E s \in Sessions, q \in Asked : Project(s, q)
    \/ \E s \in Sessions : Commit(s) \/ Reject(s)

Spec == Init /\ [][Next]_vars

-----------------------------------------------------------------------------
(***************************************************************************)
(* Safety.                                                                 *)
(***************************************************************************)

Replaced(c) == handed[c] # None
Successor(c) == handed[c].asked.to

\* A hold placed on a task at any time before it was replaced is not lost: if it
\* is still open, the successor got a copy of its own that has to be released.
HoldsCarried ==
    \A c \in Contracts : Replaced(c) =>
        \A h \in OpenHolds(c) : \E g \in HoldIds :
            copyOf[g] = h /\ hold[g].contract = Successor(c)

\* The assignment of the successor was decided from the last assignment that its
\* source ever had.
AssignmentCarried ==
    \A c \in Contracts : Replaced(c) => handed[c].from = assignee[c]

\* No wait is lost: whatever a cancelled Contract waited for is complete, or was
\* cancelled in the same replacement.
PrerequisitesKept ==
    \A c \in Contracts : Replaced(c) =>
        LET cancelled == {c} \cup handed[c].dropped
        IN  \A e \in links :
                e[1] \in cancelled => e[2] \in cancelled \/ terminal[e[2]] = "complete"

\* All work below a replaced Contract is work of its successor, or belongs to a
\* verifier that was spared.
NothingLeftBehind ==
    \A c \in Contracts : Replaced(c) =>
        \A x \in LiveBelow(c) :
            Within(x, Successor(c)) \/ \E k \in handed[c].kept : Within(x, k)

\* d owes what c owed: it is a successor of c, or a successor of one.
Passed(c, d) ==
    /\ c \in Ancestors[d]
    /\ \A x \in {d} \cup Ancestors[d] : c \in Ancestors[x] => x \in Successors

\* Two workers never hold claims for the same obligation, however often it was
\* replaced and whoever took the source or the successor in between.
OneClaimant ==
    \A c, d \in Contracts :
        claim[c].status = "active" /\ claim[d].status = "active" => ~Passed(c, d)

\* A replacement never cancels a verifier that a live independent Contract above
\* the source waits for when it commits.
ReplacementSparesVerifiers ==
    [][\A c, v \in Contracts :
          /\ handed'[c] # handed[c]
          /\ v \in LiveBelow(c)
          /\ \E i \in Verifies[v] \cap Ancestors[c] : terminal'[i] = "none"
          => terminal'[v] = "none"]_vars

Line == {Root} \cup {d \in Contracts : Passed(Root, d)}
Holder == CHOOSE c \in Line : c \in declared /\ ~Replaced(c)
Outcome ==
    CASE terminal[Holder] = "none" -> "open"
      [] terminal[Holder] = "complete" -> "met"
      [] OTHER -> "lost"

Duty == INSTANCE Obligation WITH
    Holders <- Contracts, First <- Root, All <- Outputs[Root],
    holder <- Holder, due <- Due(Holder), outcome <- Outcome

\* A replacement implements the hand-over of an obligation: one Contract holds
\* it at a time, and no output is dropped or asked for again.
ObligationKept == Duty!Spec
=============================================================================
