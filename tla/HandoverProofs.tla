--------------------------- MODULE HandoverProofs ---------------------------
(***************************************************************************)
(* Theorems about Handover, for every forest, number of successors,        *)
(* reviews, holds and processes.                                           *)
(*                                                                         *)
(* A replaced Contract is terminal for good (ReplacedFailed), and the      *)
(* gates refuse every further hold, link or assignment of a terminal       *)
(* Contract: what the commit has seen under the lock stays as it was.  A   *)
(* successor exists only because its parent was replaced                   *)
(* (SuccessorsFollow), and a claim only on a live Contract (ClaimsLive).   *)
(***************************************************************************)
EXTENDS Handover, TLAPS

Claims == [status : {"none", "active", "submitted", "released"},
           worker : Workers \cup {NoWorker}, epoch : Nat, lease : Nat]

Typed == TypeOK /\ claim \in [Contracts -> Claims]

\* Outcomes, claims and acceptances are about declared Contracts, which are
\* declared after everything above them.
AboutDeclared ==
    /\ \A c \in Contracts :
          terminal[c] # "none" \/ claim[c].status # "none" => c \in declared
    /\ \A c \in declared : Ancestors[c] \subseteq declared
    /\ \A q \in qualified : q[1] \in declared

ClaimsLive == \A c \in Contracts : claim[c].status = "active" => terminal[c] = "none"

ReplacedFailed ==
    \A c \in Contracts : Replaced(c) =>
        /\ handed[c].asked.source = c
        /\ Successor(c) \in declared
        /\ \A x \in {c} \cup handed[c].dropped : terminal[x] = "failed"

SuccessorsFollow == \A d \in declared \cap Successors : Replaced(Parent[d])

\* The copy of a hold that is open on a replaced Contract is in use.
CopiesUsed ==
    \A c \in Contracts : Replaced(c) =>
        \A h \in OpenHolds(c) : \E g \in HoldIds :
            copyOf[g] = h /\ hold[g] # Unused /\ hold[g].contract = Successor(c)

IInv == Typed /\ AboutDeclared /\ ClaimsLive /\ ReplacedFailed /\ SuccessorsFollow

-----------------------------------------------------------------------------
(* The forest and the projection.                                           *)

LEMMA AncestorsOf ==
    ASSUME NEW c \in Contracts
    PROVE  /\ Ancestors[c] \subseteq Contracts /\ c \notin Ancestors[c]
           /\ Ancestors[c] = IF Parent[c] = NoContract THEN {}
                             ELSE {Parent[c]} \cup Ancestors[Parent[c]]
           /\ Parent[c] \in Contracts \cup {NoContract}
BY HandoverForestAssumption

LEMMA AskedTyped ==
    ASSUME NEW q \in Asked
    PROVE  /\ q.source \in Contracts \ Controlled /\ q.to \in Successors
           /\ q.to \in Contracts /\ Parent[q.to] = q.source
           /\ Given(q) = assignee[q.source] \/ Given(q) \in Workers \cup {NoWorker}
<1>1. q.source = Parent[q.to] /\ q.to \in Successors /\ q.source \in Contracts
  BY DEF Asked
<1>2. Parent[q.to] \in Contracts \ Controlled
  BY <1>1, HandoverContractsAssumption
<1>3. q.to \in Contracts
  BY <1>1, HandoverContractsAssumption, HandoverForestAssumption
<1>4. q.choice = "inherit" \/ q.choice \in Workers \cup {NoWorker}
  BY DEF Asked
<1> QED BY <1>1, <1>2, <1>3, <1>4 DEF Given

LEMMA OpenHoldsOf ==
    ASSUME Typed, NEW h \in HoldIds, NEW c
    PROVE  h \in OpenHolds(c) <=>
              hold[h] # Unused /\ hold[h].state = "open" /\ hold[h].contract = c
<1>1. hold[h] \in Holds
  BY DEF Typed, TypeOK, GatesTypeOK
<1> QED BY <1>1 DEF OpenHolds, Holds, Unused

\* What the lock holder knows of the projection it is about to commit.
LEMMA ProjectionHolds ==
    ASSUME Typed, NEW s \in Sessions, projected[s] # None, SameProjection(projected[s])
    PROVE  LET p == projected[s]
               q == p.asked
           IN  /\ q \in Asked /\ p \in Replacements /\ Admissible(q)
               /\ p.due = Due(q.source) /\ p.from = assignee[q.source]
               /\ p.kept = Spared(q.source)
               /\ p.dropped = {x \in Inventory(q.source) : ~Finished(x)}
               /\ p.finished = {x \in Inventory(q.source) : Finished(x)}
               /\ p.holds = IF q.kind = "edit" THEN OpenHolds(q.source) ELSE {}
<1> DEFINE p == projected[s]
<1>1. p \in Replacements
  BY DEF Typed, TypeOK
<1>2. p.asked \in Asked
  BY <1>1 DEF Replacements
<1>3. Admissible(p.asked) /\ Replacement(p.asked) = p
  BY DEF SameProjection
<1>4. /\ Replacement(p.asked).due = Due(p.asked.source)
      /\ Replacement(p.asked).from = assignee[p.asked.source]
      /\ Replacement(p.asked).kept = Spared(p.asked.source)
      /\ Replacement(p.asked).dropped = {x \in Inventory(p.asked.source) : ~Finished(x)}
      /\ Replacement(p.asked).finished = {x \in Inventory(p.asked.source) : Finished(x)}
      /\ Replacement(p.asked).holds =
            IF p.asked.kind = "edit" THEN OpenHolds(p.asked.source) ELSE {}
  BY DEF Replacement
<1> QED BY <1>1, <1>2, <1>3, <1>4

-----------------------------------------------------------------------------
(* What the parts of a step do.                                             *)

\* Outcomes are final, and a claim ends with the outcome of its Contract.
OutcomesFinal ==
    \A x \in Contracts :
        /\ terminal[x] # "none" => terminal'[x] = terminal[x]
        /\ terminal'[x] # terminal[x] => x \in declared

LEMMA ConcludeFacts ==
    ASSUME Typed, NEW S \in SUBSET declared, NEW A, NEW Q, NEW submitter,
           Conclude(S, A, Q, submitter)
    PROVE  /\ terminal' \in [Contracts -> Terminals \cup {"none"}]
           /\ claim' \in [Contracts -> Claims]
           /\ OutcomesFinal
           /\ \A x \in Contracts :
                 /\ terminal'[x] = "complete" /\ terminal[x] = "none" => StillDue(x, A, Q) = {}
                 /\ claim'[x].status # "none" => claim[x].status # "none" \/ x = submitter
                 /\ claim'[x].status = "active" =>
                       claim[x].status = "active" /\ terminal'[x] = terminal[x]
<1> DEFINE has(x) == outputs[x] # {} /\ StillDue(x, A, Q) = {}
           done == {x \in S : Live(x) /\ has(x)}
<1>1. PICK gone \in SUBSET {x \in UNION {LiveBelow(p) : p \in done} : ~has(x)} :
        /\ terminal' = [x \in Contracts |->
                IF x \in done THEN "complete"
                ELSE IF x \in gone THEN "failed" ELSE terminal[x]]
        /\ claim' = [x \in Contracts |->
                IF x = submitter THEN [claim[x] EXCEPT !.status = "submitted"]
                ELSE IF x \in done \cup gone /\ claim[x].status = "active"
                THEN [claim[x] EXCEPT !.status = "released"] ELSE claim[x]]
  BY DEF Conclude
<1>2. \A x \in done \cup gone : x \in declared /\ terminal[x] = "none"
  BY <1>1 DEF LiveBelow, Live
<1>3. \A x \in done : StillDue(x, A, Q) = {}
  OBVIOUS
<1>4. claim \in [Contracts -> Claims] /\ terminal \in [Contracts -> Terminals \cup {"none"}]
  BY DEF Typed, TypeOK, GatesTypeOK
<1> HIDE DEF done, has
<1>5. claim' \in [Contracts -> Claims]
  <2>1. ASSUME NEW x \in Contracts PROVE claim'[x] \in Claims
    BY <1>1, <1>4 DEF Claims
  <2> QED BY <1>1, <2>1
<1>6. terminal' \in [Contracts -> Terminals \cup {"none"}]
  BY <1>1, <1>4 DEF Terminals
<1>7. ASSUME NEW x \in Contracts
      PROVE  /\ terminal[x] # "none" => terminal'[x] = terminal[x]
             /\ terminal'[x] # terminal[x] => x \in declared
             /\ terminal'[x] = "complete" /\ terminal[x] = "none" => StillDue(x, A, Q) = {}
  BY <1>1, <1>2, <1>3
<1>8. ASSUME NEW x \in Contracts
      PROVE  /\ claim'[x].status # "none" => claim[x].status # "none" \/ x = submitter
             /\ claim'[x].status = "active" =>
                   claim[x].status = "active" /\ terminal'[x] = terminal[x]
  <2>1. CASE x = submitter
    BY <1>1, <1>4, <2>1 DEF Claims
  <2>2. CASE x # submitter /\ x \in done \cup gone /\ claim[x].status = "active"
    BY <1>1, <1>4, <2>2 DEF Claims
  <2>3. CASE x # submitter /\ ~(x \in done \cup gone /\ claim[x].status = "active")
    BY <1>1, <1>4, <2>3 DEF Claims
  <2> QED BY <2>1, <2>2, <2>3
<1> QED BY <1>5, <1>6, <1>7, <1>8 DEF OutcomesFinal

\* Every step but the commit of a replacement.
Committed == \E s \in Sessions : Commit(s)

GatesOfLiveOnly ==
    /\ \A h \in HoldIds :
          /\ hold[h] # Unused =>
                /\ hold'[h] # Unused /\ hold'[h].contract = hold[h].contract
                /\ hold'[h].state = "open" => hold[h].state = "open"
          /\ hold[h] = Unused /\ hold'[h] # Unused => terminal[hold'[h].contract] = "none"
    /\ \A e \in links' \ links : terminal[e[1]] = "none"
    /\ \A c \in Contracts : terminal[c] # "none" => assignee'[c] = assignee[c]

ClaimsOfLiveOnly ==
    \A c \in Contracts :
        /\ claim'[c].status = "active" => terminal'[c] = "none"
        /\ claim'[c].status # "none" => c \in declared

\* A Contract declared by a step that is no replacement is no successor, and the
\* one above it is live.
DeclaresBelowLive ==
    /\ declared \subseteq declared'
    /\ \A d \in declared' \ declared :
          /\ d \in Contracts \ Successors
          /\ Parent[d] # NoContract => Live(Parent[d])

WorkGrows ==
    /\ outputs' = outputs
    /\ assets \subseteq assets'
    /\ qualified \subseteq qualified'
    /\ \A q \in qualified' \ qualified : q[1] \in declared
    /\ \A x \in Contracts :
          terminal'[x] = "complete" /\ terminal[x] = "none" =>
              StillDue(x, assets', qualified') = {}

OtherStep ==
    /\ OutcomesFinal
    /\ GatesOfLiveOnly
    /\ ClaimsOfLiveOnly
    /\ DeclaresBelowLive
    /\ WorkGrows
    /\ copyOf' = copyOf /\ handed' = handed

LEMMA Unchanged ==
    /\ UNCHANGED <<hold, links, assignee>> => GatesOfLiveOnly
    /\ UNCHANGED declared => DeclaresBelowLive
    /\ UNCHANGED terminal => OutcomesFinal
    /\ UNCHANGED <<terminal, outputs, assets, qualified>> => WorkGrows
BY DEF GatesOfLiveOnly, DeclaresBelowLive, OutcomesFinal, WorkGrows

LEMMA SameClaims ==
    ASSUME AboutDeclared, ClaimsLive, UNCHANGED <<terminal, claim>>
    PROVE  ClaimsOfLiveOnly
BY DEF AboutDeclared, ClaimsLive, ClaimsOfLiveOnly

LEMMA CommandSteps ==
    ASSUME Typed, AboutDeclared, ClaimsLive, Command
    PROVE  OtherStep
<1>1. UNCHANGED <<terminal, claim, declared, outputs, assets, qualified, copyOf, handed>>
  BY DEF Command, Register, PlaceHold, ReleaseHold, PlaceLink, ReleaseLink, Assign, work
<1>2. /\ hold \in [HoldIds -> Holds] /\ links \subseteq Edges
      /\ assignee \in [Contracts -> Workers \cup {NoWorker}]
  BY DEF Typed, TypeOK, GatesTypeOK
<1>3. ASSUME NEW w \in Workers, NEW v \in Versions, Register(w, v) PROVE GatesOfLiveOnly
  BY <1>3, Unchanged DEF Register
<1>4. ASSUME NEW h \in HoldIds, NEW c \in declared, PlaceHold(h, c) PROVE GatesOfLiveOnly
  <2>1. /\ hold[h] = Unused /\ terminal[c] = "none" /\ UNCHANGED <<links, assignee>>
        /\ hold' = [hold EXCEPT ![h] = [state |-> "open", contract |-> c]]
    BY <1>4 DEF PlaceHold
  <2>2. hold'[h].contract = c /\ \A g \in HoldIds \ {h} : hold'[g] = hold[g]
    BY <1>2, <2>1
  <2> QED BY <2>1, <2>2 DEF GatesOfLiveOnly
<1>5. ASSUME NEW h \in HoldIds, ReleaseHold(h) PROVE GatesOfLiveOnly
  <2>1. /\ hold[h].state = "open" /\ UNCHANGED <<links, assignee>>
        /\ hold' = [hold EXCEPT ![h].state = "released"]
    BY <1>5 DEF ReleaseHold
  <2>2. hold[h] \in [state : {"open", "released"}, contract : Contracts]
    BY <1>2, <2>1 DEF Holds, Unused
  <2>3. /\ hold'[h] = [state |-> "released", contract |-> hold[h].contract]
        /\ \A g \in HoldIds \ {h} : hold'[g] = hold[g]
    BY <1>2, <2>1, <2>2
  <2>4. hold'[h] # Unused /\ hold'[h].contract = hold[h].contract /\ hold[h].state = "open"
    BY <2>1, <2>3 DEF Unused
  <2> QED BY <2>1, <2>3, <2>4 DEF GatesOfLiveOnly, Unused
<1>6. ASSUME NEW e \in Edges, PlaceLink(e[1], e[2]) PROVE GatesOfLiveOnly
  BY <1>6 DEF PlaceLink, LinkTargetOpen, GatesOfLiveOnly
<1>7. ASSUME NEW e \in Edges, ReleaseLink(e[1], e[2]) PROVE GatesOfLiveOnly
  BY <1>7 DEF ReleaseLink, GatesOfLiveOnly
<1>8. ASSUME NEW c \in Assignable \cap declared, NEW w \in Workers \cup {NoWorker}, Assign(c, w)
      PROVE  GatesOfLiveOnly
  BY <1>2, <1>8 DEF Assign, GatesOfLiveOnly
<1>9. GatesOfLiveOnly
  BY <1>3, <1>4, <1>5, <1>6, <1>7, <1>8 DEF Command
<1>10. OutcomesFinal /\ DeclaresBelowLive /\ WorkGrows
  BY <1>1, Unchanged
<1>11. ClaimsOfLiveOnly
  BY <1>1, SameClaims
<1> QED BY <1>1, <1>9, <1>10, <1>11 DEF OtherStep

LEMMA PromoteSteps ==
    ASSUME Typed, AboutDeclared, ClaimsLive, NEW c \in Contracts, Promote(c)
    PROVE  OtherStep
<1>1. UNCHANGED <<terminal, links, assignee, claim, declared, outputs, assets, qualified,
                  copyOf, handed>>
  BY DEF Promote, work
<1>2. hold' = [h \in HoldIds |->
            IF h \in OpenHolds(c) THEN [hold[h] EXCEPT !.state = "released"] ELSE hold[h]]
  BY DEF Promote
<1>3. ASSUME NEW h \in HoldIds
      PROVE  \/ hold'[h] = hold[h]
             \/ hold[h].state = "open" /\ hold'[h] # Unused
                /\ hold'[h].contract = hold[h].contract
  <2>1. CASE h \in OpenHolds(c)
    <3>1. hold[h] = [state |-> "open", contract |-> c]
      BY <2>1 DEF OpenHolds
    <3>2. hold'[h] = [state |-> "released", contract |-> c]
      BY <1>2, <2>1, <3>1
    <3> QED BY <3>1, <3>2 DEF Unused
  <2> QED BY <1>2, <2>1
<1>4. GatesOfLiveOnly
  BY <1>1, <1>3 DEF GatesOfLiveOnly, Unused
<1> QED BY <1>1, <1>4, Unchanged, SameClaims DEF OtherStep

LEMMA TakeSteps ==
    ASSUME Typed, AboutDeclared, ClaimsLive, NEW c \in Contracts, NEW w \in Workers, Take(c, w)
    PROVE  OtherStep
<1>1. /\ UNCHANGED <<terminal, hold, links, assignee, declared, outputs, assets, qualified,
                     copyOf, handed>>
      /\ c \in declared /\ terminal[c] = "none"
      /\ claim' = [claim EXCEPT ![c] = [@ EXCEPT !.status = "active", !.worker = w]]
  BY DEF Take, work, gateVars, Claimable
<1>2. \A x \in Contracts \ {c} : claim'[x] = claim[x]
  BY <1>1 DEF Typed
<1>3. ClaimsOfLiveOnly
  BY <1>1, <1>2 DEF AboutDeclared, ClaimsLive, ClaimsOfLiveOnly
<1> QED BY <1>1, <1>3, Unchanged DEF OtherStep

LEMMA FailSteps ==
    ASSUME Typed, AboutDeclared, ClaimsLive, NEW c \in Contracts, Fail(c)
    PROVE  OtherStep
<1>1. /\ UNCHANGED <<hold, links, assignee, declared, outputs, assets, qualified,
                     copyOf, handed>>
      /\ c \in declared /\ terminal[c] = "none"
      /\ terminal' = [terminal EXCEPT ![c] = "failed"]
      /\ claim' = [claim EXCEPT ![c].status = IF @ = "active" THEN "released" ELSE @]
  BY DEF Fail, work, Live
<1>2. claim \in [Contracts -> Claims] /\ terminal \in [Contracts -> Terminals \cup {"none"}]
  BY DEF Typed, TypeOK, GatesTypeOK
<1>3. /\ \A x \in Contracts \ {c} : claim'[x] = claim[x] /\ terminal'[x] = terminal[x]
      /\ claim'[c].status # "active" /\ terminal'[c] = "failed"
  BY <1>1, <1>2 DEF Claims
<1>4. ClaimsOfLiveOnly
  BY <1>1, <1>3 DEF AboutDeclared, ClaimsLive, ClaimsOfLiveOnly
<1>5. OutcomesFinal
  BY <1>1, <1>3 DEF OutcomesFinal
<1>6. WorkGrows
  BY <1>1, <1>3 DEF WorkGrows
<1> QED BY <1>1, <1>4, <1>5, <1>6, Unchanged DEF OtherStep

LEMMA PublishSteps ==
    ASSUME Typed, AboutDeclared, ClaimsLive, NEW d \in Contracts, Publish(d)
    PROVE  OtherStep
<1>1. /\ UNCHANGED <<terminal, hold, links, assignee, claim, outputs, assets, qualified,
                     copyOf, handed>>
      /\ DeclaresBelowLive
  BY DEF Publish, gateVars, DeclaresBelowLive
<1> QED BY <1>1, Unchanged, SameClaims DEF OtherStep

\* Deliveries and acceptances.
LEMMA ConcludeSteps ==
    ASSUME Typed, AboutDeclared, ClaimsLive, NEW S \in SUBSET declared,
           NEW submitter \in declared \cup {NoContract},
           Conclude(S, assets', qualified', submitter),
           UNCHANGED <<hold, links, assignee, declared, outputs, copyOf, handed>>,
           assets \subseteq assets', qualified \subseteq qualified',
           \A q \in qualified' \ qualified : q[1] \in declared
    PROVE  OtherStep
<1>1. /\ OutcomesFinal
      /\ \A x \in Contracts :
            /\ terminal'[x] = "complete" /\ terminal[x] = "none" =>
                  StillDue(x, assets', qualified') = {}
            /\ claim'[x].status # "none" => claim[x].status # "none" \/ x = submitter
            /\ claim'[x].status = "active" =>
                  claim[x].status = "active" /\ terminal'[x] = terminal[x]
  BY ConcludeFacts
<1>2. WorkGrows
  BY <1>1 DEF WorkGrows
<1>3. ClaimsOfLiveOnly
  BY <1>1, HandoverForestAssumption DEF AboutDeclared, ClaimsLive, ClaimsOfLiveOnly
<1> QED BY <1>1, <1>2, <1>3, Unchanged DEF OtherStep

LEMMA DeliverSteps ==
    ASSUME Typed, AboutDeclared, ClaimsLive, NEW c \in Contracts, Deliver(c)
    PROVE  OtherStep
<1>1. c \in declared
  BY DEF Deliver, AboutDeclared
<1> DEFINE S == {x \in declared : outputs[x] \cap outputs[c] # {}}
<1>2. /\ Conclude(S, assets', qualified', c)
      /\ UNCHANGED <<hold, links, assignee, declared, outputs, qualified, copyOf, handed>>
      /\ assets \subseteq assets'
  <2>1. Conclude(S, assets', qualified, c) /\ qualified' = qualified
    BY DEF Deliver
  <2> QED BY <2>1 DEF Deliver
<1> HIDE DEF S
<1>3. S \in SUBSET declared
  BY DEF S
<1> QED BY <1>1, <1>2, <1>3, ConcludeSteps

LEMMA AcceptSteps ==
    ASSUME Typed, AboutDeclared, ClaimsLive, NEW c \in declared, NEW a \in assets,
           Accept(c, a),
           UNCHANGED <<hold, links, assignee, declared, outputs, assets, copyOf, handed>>
    PROVE  OtherStep
<1>1. /\ qualified' = qualified \cup {<<c, a>>}
      /\ Conclude({c}, assets', qualified', NoContract)
  <2>1. Conclude({c}, assets, qualified', NoContract) /\ assets' = assets
    BY DEF Accept
  <2> QED BY <2>1 DEF Accept
<1>2. {c} \in SUBSET declared /\ NoContract \in declared \cup {NoContract}
  OBVIOUS
<1>3. /\ assets \subseteq assets' /\ qualified \subseteq qualified'
      /\ \A q \in qualified' \ qualified : q[1] \in declared
  BY <1>1
<1> QED BY <1>1, <1>2, <1>3, ConcludeSteps

LEMMA ReviewSteps ==
    ASSUME Typed, AboutDeclared, ClaimsLive, NEW r \in Reviewers
    PROVE  /\ (\E a \in assets : RequestReview(r, a)) => OtherStep
           /\ (\E verdict \in {"accept", "changes"} : Decide(r, verdict)) => OtherStep
<1>1. ASSUME NEW a \in assets, RequestReview(r, a) PROVE OtherStep
  <2>1. /\ UNCHANGED <<terminal, hold, links, assignee, claim, outputs, assets, qualified,
                       copyOf, handed>>
        /\ declared' = declared \cup {r} /\ Live(Parent[r])
    BY <1>1 DEF RequestReview, gateVars
  <2>2. r \in Contracts \ Successors
    BY HandoverContractsAssumption
  <2>3. DeclaresBelowLive
    BY <2>1, <2>2 DEF DeclaresBelowLive
  <2> QED BY <2>1, <2>3, Unchanged, SameClaims DEF OtherStep
<1>2. ASSUME NEW verdict \in {"accept", "changes"}, Decide(r, verdict) PROVE OtherStep
  <2> DEFINE c == Parent[r]
             a == review[r].asset
  <2>1. /\ UNCHANGED <<hold, links, assignee, declared, outputs, assets, copyOf, handed>>
        /\ c \in declared /\ a \in assets
        /\ Accept(c, a) \/ UNCHANGED <<terminal, claim, qualified>>
    BY <1>2 DEF Decide, Reviewable, Live
  <2>2. CASE Accept(c, a)
    BY <2>1, <2>2, AcceptSteps
  <2>3. CASE UNCHANGED <<terminal, claim, qualified>>
    BY <2>1, <2>3, Unchanged, SameClaims DEF OtherStep
  <2> QED BY <2>1, <2>2, <2>3
<1> QED BY <1>1, <1>2

LEMMA StepsAreCommitsOrOthers ==
    ASSUME Typed, AboutDeclared, ClaimsLive, [Next]_vars
    PROVE  Committed \/ OtherStep
<1>1. CASE \E c \in Independent, a \in assets : Attest(c, a)
  <2>1. PICK c \in Independent, a \in assets : Attest(c, a)
    BY <1>1
  <2>2. /\ c \in declared /\ Accept(c, a)
        /\ UNCHANGED <<hold, links, assignee, declared, outputs, assets, copyOf, handed>>
    BY <2>1 DEF Attest, Reviewable
  <2> QED BY <2>2, AcceptSteps
<1>2. CASE \/ UNCHANGED vars
           \/ \E s \in Sessions : Reject(s) \/ \E q \in Asked : Project(s, q)
  <2>1. UNCHANGED <<terminal, hold, links, assignee, claim, declared, outputs, assets,
                    qualified, copyOf, handed>>
    BY <1>2 DEF Reject, Project, vars, gateVars, work
  <2> QED BY <2>1, Unchanged, SameClaims DEF OtherStep
<1> QED BY <1>1, <1>2, CommandSteps, PromoteSteps, DeliverSteps, PublishSteps, FailSteps,
           TakeSteps, ReviewSteps DEF Next, Committed

-----------------------------------------------------------------------------
(* The commit of a replacement.                                             *)

CommitOf(p) ==
    LET c == p.asked.source
        d == p.asked.to
    IN  /\ p \in Replacements /\ p.asked \in Asked /\ Admissible(p.asked)
        /\ p.due = Due(c) /\ p.from = assignee[c] /\ p.kept = Spared(c)
        /\ p.dropped = {x \in Inventory(c) : ~Finished(x)}
        /\ p.finished = {x \in Inventory(c) : Finished(x)}
        /\ p.holds = IF p.asked.kind = "edit" THEN OpenHolds(c) ELSE {}
        /\ c \in declared /\ terminal[c] = "none" /\ Parent[d] = c
        /\ d \in Successors \cap Contracts /\ d \notin declared
        /\ \A x \in {c} \cup p.dropped \cup p.finished :
              x \in declared \cap Contracts /\ terminal[x] = "none"
        /\ \A x \in Contracts : terminal'[x] =
              IF x \in {c} \cup p.dropped THEN "failed"
              ELSE IF x \in p.finished THEN "complete" ELSE terminal[x]
        /\ claim' = [x \in Contracts |->
              ReleasedBy(x, {c} \cup p.dropped \cup p.finished)]
        /\ declared' = declared \cup {d}
        /\ outputs' = [outputs EXCEPT ![d] = p.due]
        /\ assignee' = [assignee EXCEPT ![d] = Given(p.asked)]
        /\ \E place \in Injection(ToPlace(p), UnusedHolds) :
              LET placed(h) == \E g \in ToPlace(p) : place[g] = h
              IN  /\ hold' = [h \in HoldIds |->
                        IF placed(h) THEN [state |-> "open", contract |-> d] ELSE hold[h]]
                  /\ copyOf' = [h \in HoldIds |->
                        IF placed(h) THEN CHOOSE g \in ToPlace(p) : place[g] = h ELSE copyOf[h]]
        /\ handed' = [handed EXCEPT ![c] = p]
        /\ UNCHANGED <<links, registry, assets, qualified, review>>

LEMMA CommitSteps ==
    ASSUME Typed, AboutDeclared, NEW s \in Sessions, Commit(s)
    PROVE  CommitOf(projected[s])
<1> DEFINE p == projected[s]
           c == p.asked.source
           d == p.asked.to
<1>1. p # None /\ SameProjection(p)
  BY DEF Commit
<1>2. /\ p.asked \in Asked /\ p \in Replacements /\ Admissible(p.asked)
      /\ p.due = Due(c) /\ p.from = assignee[c] /\ p.kept = Spared(c)
      /\ p.dropped = {x \in Inventory(c) : ~Finished(x)}
      /\ p.finished = {x \in Inventory(c) : Finished(x)}
      /\ p.holds = IF p.asked.kind = "edit" THEN OpenHolds(c) ELSE {}
  BY <1>1, ProjectionHolds
<1>3. c \in declared /\ terminal[c] = "none" /\ d \notin declared
  BY <1>2 DEF Admissible, Live
<1>4. d \in Successors \cap Contracts /\ Parent[d] = c
  BY <1>2, AskedTyped
<1>5. \A x \in {c} \cup p.dropped \cup p.finished :
         x \in declared \cap Contracts /\ terminal[x] = "none"
  <2>1. \A x \in Inventory(c) : x \in declared /\ terminal[x] = "none"
    BY DEF Inventory, LiveBelow, Live
  <2>2. declared \subseteq Contracts
    BY DEF Typed, TypeOK
  <2> QED BY <1>2, <1>3, <2>1, <2>2
<1>6. /\ terminal' = [x \in Contracts |->
              IF x \in {c} \cup p.dropped THEN "failed"
              ELSE IF x \in p.finished THEN "complete" ELSE terminal[x]]
      /\ claim' = [x \in Contracts |-> ReleasedBy(x, {c} \cup p.dropped \cup p.finished)]
      /\ declared' = declared \cup {d}
      /\ outputs' = [outputs EXCEPT ![d] = p.due]
      /\ assignee' = [assignee EXCEPT ![d] = Given(p.asked)]
      /\ handed' = [handed EXCEPT ![c] = p]
      /\ UNCHANGED <<links, registry, assets, qualified, review>>
  BY DEF Commit
<1>7. \E place \in Injection(ToPlace(p), UnusedHolds) :
         LET placed(h) == \E g \in ToPlace(p) : place[g] = h
         IN  /\ hold' = [h \in HoldIds |->
                   IF placed(h) THEN [state |-> "open", contract |-> d] ELSE hold[h]]
             /\ copyOf' = [h \in HoldIds |->
                   IF placed(h) THEN CHOOSE g \in ToPlace(p) : place[g] = h ELSE copyOf[h]]
  BY DEF Commit
<1> QED BY <1>2, <1>3, <1>4, <1>5, <1>6, <1>7 DEF CommitOf

LEMMA CommitOutcomes ==
    ASSUME Typed, NEW p, CommitOf(p)
    PROVE  OutcomesFinal
BY DEF CommitOf, OutcomesFinal

-----------------------------------------------------------------------------
(* Type correctness.                                                        *)

LEMMA TypedInit == Init => Typed
<1> SUFFICES ASSUME Init PROVE Typed
  OBVIOUS
<1>1. GatesTypeOK
  BY MaxVersionAssumption DEF Init, GatesInit, GatesTypeOK, Holds
<1>2. declared \subseteq Contracts /\ outputs \in [Contracts -> SUBSET Names]
  BY HandoverContractsAssumption DEF Init
<1>3. claim \in [Contracts -> Claims]
  BY DEF Init, NoClaim, Claims
<1> QED BY <1>1, <1>2, <1>3 DEF Init, Typed, TypeOK, Reviews

LEMMA CommandTyped ==
    ASSUME Typed, Command
    PROVE  Typed'
<1>1. GatesTypeOK /\ declared \subseteq Contracts
  BY DEF Typed, TypeOK
<1>2. UNCHANGED <<claim, declared, outputs, assets, qualified, copyOf, handed, review, projected>>
  BY DEF Command, work
<1>3. ASSUME NEW w \in Workers, NEW v \in Versions, Register(w, v) PROVE GatesTypeOK'
  BY <1>1, <1>3, MaxVersionAssumption DEF Register, GatesTypeOK, Versions
<1>4. ASSUME NEW h \in HoldIds, NEW c \in declared, PlaceHold(h, c) PROVE GatesTypeOK'
  <2>1. [state |-> "open", contract |-> c] \in Holds
    BY <1>1 DEF Holds
  <2> QED BY <1>1, <1>4, <2>1 DEF PlaceHold, GatesTypeOK
<1>5. ASSUME NEW h \in HoldIds, ReleaseHold(h) PROVE GatesTypeOK'
  <2>1. hold[h] \in [state : {"open", "released"}, contract : Contracts]
    BY <1>1, <1>5 DEF ReleaseHold, GatesTypeOK, Holds, Unused
  <2>2. [hold[h] EXCEPT !.state = "released"] \in Holds
    BY <2>1 DEF Holds
  <2> QED BY <1>1, <1>5, <2>2 DEF ReleaseHold, GatesTypeOK
<1>6. ASSUME NEW e \in Edges, PlaceLink(e[1], e[2]) \/ ReleaseLink(e[1], e[2])
      PROVE  GatesTypeOK'
  <2>1. <<e[1], e[2]>> \in Edges
    BY EdgesAssumption
  <2> QED BY <1>1, <1>6, <2>1 DEF PlaceLink, ReleaseLink, GatesTypeOK
<1>7. ASSUME NEW c \in Assignable \cap declared, NEW w \in Workers \cup {NoWorker}, Assign(c, w)
      PROVE  GatesTypeOK'
  BY <1>1, <1>7 DEF Assign, GatesTypeOK
<1>8. GatesTypeOK'
  BY <1>3, <1>4, <1>5, <1>6, <1>7 DEF Command
<1> QED BY <1>2, <1>8 DEF Typed, TypeOK

LEMMA PromoteTyped ==
    ASSUME Typed, NEW c \in Contracts, Promote(c)
    PROVE  Typed'
<1>1. ASSUME NEW h \in HoldIds PROVE hold'[h] \in Holds
  <2>1. CASE h \in OpenHolds(c)
    <3>1. hold[h] = [state |-> "open", contract |-> c]
      BY <2>1 DEF OpenHolds
    <3>2. hold'[h] = [state |-> "released", contract |-> c]
      BY <2>1, <3>1 DEF Promote
    <3> QED BY <3>2 DEF Holds
  <2>2. CASE h \notin OpenHolds(c)
    BY <2>2 DEF Promote, Typed, TypeOK, GatesTypeOK
  <2> QED BY <2>1, <2>2
<1>2. hold' \in [HoldIds -> Holds]
  BY <1>1 DEF Promote
<1>3. UNCHANGED <<terminal, links, assignee, registry, claim, declared, outputs, assets,
                  qualified, copyOf, handed, review, projected>>
  BY DEF Promote, work
<1> QED BY <1>2, <1>3 DEF Typed, TypeOK, GatesTypeOK

LEMMA ClaimTyped ==
    ASSUME Typed, NEW c \in Contracts
    PROVE  /\ \A w \in Workers : Take(c, w) => Typed'
           /\ Fail(c) => Typed'
<1>1. claim \in [Contracts -> Claims]
  BY DEF Typed
<1>2. ASSUME NEW w \in Workers, Take(c, w) PROVE Typed'
  <2>1. [claim[c] EXCEPT !.status = "active", !.worker = w] \in Claims
    BY <1>1 DEF Claims
  <2>2. claim' = [claim EXCEPT ![c] = [claim[c] EXCEPT !.status = "active", !.worker = w]]
    BY <1>2 DEF Take
  <2>3. claim' \in [Contracts -> Claims]
    BY <1>1, <2>1, <2>2
  <2>4. UNCHANGED <<terminal, hold, links, assignee, registry, declared, outputs, assets,
                    qualified, copyOf, handed, review, projected>>
    BY <1>2 DEF Take, gateVars, work
  <2> QED BY <2>3, <2>4 DEF Typed, TypeOK, GatesTypeOK
<1>3. ASSUME Fail(c) PROVE Typed'
  <2>1. [claim[c] EXCEPT !.status = IF @ = "active" THEN "released" ELSE @] \in Claims
    BY <1>1 DEF Claims
  <2>2. claim' = [claim EXCEPT ![c] = [claim[c] EXCEPT !.status =
                      IF @ = "active" THEN "released" ELSE @]]
    BY <1>1, <1>3 DEF Fail, Claims
  <2>3. claim' \in [Contracts -> Claims]
    BY <1>1, <2>1, <2>2
  <2>4. terminal' \in [Contracts -> Terminals \cup {"none"}]
    BY <1>3 DEF Fail, Typed, TypeOK, GatesTypeOK, Terminals
  <2>5. UNCHANGED <<hold, links, assignee, registry, declared, outputs, assets,
                    qualified, copyOf, handed, review, projected>>
    BY <1>3 DEF Fail, work
  <2> QED BY <2>3, <2>4, <2>5 DEF Typed, TypeOK, GatesTypeOK
<1> QED BY <1>2, <1>3

LEMMA WorkTyped ==
    ASSUME Typed, NEW c \in Contracts, Deliver(c) \/ Publish(c)
    PROVE  Typed'
<1>1. CASE Deliver(c)
  <2> DEFINE S == {x \in declared : outputs[x] \cap outputs[c] # {}}
  <2>1. /\ Conclude(S, assets', qualified, c)
        /\ assets' = assets \cup {[by |-> c, name |-> n] : n \in outputs[c]}
        /\ UNCHANGED <<hold, links, assignee, registry, declared, outputs, qualified,
                       copyOf, handed, review, projected>>
    BY <1>1 DEF Deliver
  <2> HIDE DEF S
  <2>2. S \in SUBSET declared
    BY DEF S
  <2>3. /\ terminal' \in [Contracts -> Terminals \cup {"none"}]
        /\ claim' \in [Contracts -> Claims]
    BY <2>1, <2>2, ConcludeFacts
  <2>4. assets' \subseteq Assets
    BY <2>1 DEF Typed, TypeOK, Assets
  <2> QED BY <2>1, <2>3, <2>4 DEF Typed, TypeOK, GatesTypeOK
<1>2. CASE Publish(c)
  BY <1>2 DEF Publish, gateVars, Typed, TypeOK, GatesTypeOK
<1> QED BY <1>1, <1>2

LEMMA AcceptTyped ==
    ASSUME Typed, NEW c \in declared, NEW a \in assets, Accept(c, a),
           UNCHANGED <<hold, links, assignee, registry, declared, outputs, assets, copyOf,
                       handed, projected>>,
           review' \in [Reviewers -> Reviews]
    PROVE  Typed'
<1>1. Conclude({c}, assets, qualified', NoContract) /\ qualified' = qualified \cup {<<c, a>>}
  BY DEF Accept
<1>2. {c} \in SUBSET declared
  OBVIOUS
<1>3. /\ terminal' \in [Contracts -> Terminals \cup {"none"}]
      /\ claim' \in [Contracts -> Claims]
  BY <1>1, <1>2, ConcludeFacts
<1>4. qualified' \subseteq Contracts \X Assets
  BY <1>1 DEF Typed, TypeOK
<1> QED BY <1>3, <1>4 DEF Typed, TypeOK, GatesTypeOK

LEMMA ReviewTyped ==
    ASSUME Typed, NEW r \in Reviewers
    PROVE  /\ \A a \in assets : RequestReview(r, a) => Typed'
           /\ \A verdict \in {"accept", "changes"} : Decide(r, verdict) => Typed'
<1>1. review \in [Reviewers -> Reviews] /\ assets \subseteq Assets
  BY DEF Typed, TypeOK
<1>2. ASSUME NEW a \in assets, RequestReview(r, a) PROVE Typed'
  <2>1. [asset |-> a, verdict |-> "none"] \in Reviews
    BY <1>1 DEF Reviews
  <2>2. review' \in [Reviewers -> Reviews]
    BY <1>1, <1>2, <2>1 DEF RequestReview
  <2>3. r \in Contracts
    BY HandoverContractsAssumption
  <2> QED BY <1>2, <2>2, <2>3 DEF RequestReview, gateVars, Typed, TypeOK, GatesTypeOK
<1>3. ASSUME NEW verdict \in {"accept", "changes"}, Decide(r, verdict) PROVE Typed'
  <2> DEFINE c == Parent[r]
             a == review[r].asset
  <2>1. /\ UNCHANGED <<hold, links, assignee, registry, declared, outputs, assets, copyOf,
                       handed, projected>>
        /\ review[r].verdict = "none" /\ c \in declared /\ a \in assets
        /\ review' = [review EXCEPT ![r].verdict = verdict]
        /\ Accept(c, a) \/ UNCHANGED <<terminal, claim, qualified>>
    BY <1>3 DEF Decide, Reviewable, Live
  <2>2. review[r] \in [asset : Assets, verdict : {"none", "accept", "changes"}]
    BY <1>1, <2>1 DEF Reviews, NoReview
  <2>3. [review[r] EXCEPT !.verdict = verdict] \in Reviews
    BY <2>2 DEF Reviews
  <2>4. review' \in [Reviewers -> Reviews]
    BY <1>1, <2>1, <2>3
  <2>5. CASE Accept(c, a)
    BY <2>1, <2>4, <2>5, AcceptTyped
  <2>6. CASE UNCHANGED <<terminal, claim, qualified>>
    BY <2>1, <2>4, <2>6 DEF Typed, TypeOK, GatesTypeOK
  <2> QED BY <2>1, <2>5, <2>6
<1> QED BY <1>2, <1>3

LEMMA ProjectTyped ==
    ASSUME Typed, NEW s \in Sessions
    PROVE  /\ \A q \in Asked : Project(s, q) => Typed'
           /\ Reject(s) => Typed'
<1>1. ASSUME NEW q \in Asked PROVE Replacement(q) \in Replacements
  <2>1. q.source \in Contracts
    BY AskedTyped
  <2>2. Due(q.source) \subseteq Names
    BY <2>1 DEF Due, StillDue, Typed, TypeOK
  <2>3. Inventory(q.source) \subseteq Contracts /\ Spared(q.source) \subseteq Contracts
    BY DEF Inventory, LiveBelow, Spared, Typed, TypeOK
  <2>4. assignee[q.source] \in Workers \cup {NoWorker} /\ OpenHolds(q.source) \subseteq HoldIds
    BY <2>1 DEF OpenHolds, Typed, TypeOK, GatesTypeOK
  <2> QED BY <2>2, <2>3, <2>4 DEF Replacement, Replacements
<1>2. projected \in [Sessions -> Replacements \cup {None}]
  BY DEF Typed, TypeOK
<1>3. ASSUME NEW q \in Asked, Project(s, q) PROVE Typed'
  <2>1. projected' \in [Sessions -> Replacements \cup {None}]
    BY <1>1, <1>2, <1>3 DEF Project
  <2> QED BY <1>3, <2>1 DEF Project, gateVars, work, Typed, TypeOK, GatesTypeOK
<1>4. ASSUME Reject(s) PROVE Typed'
  <2>1. projected' \in [Sessions -> Replacements \cup {None}]
    BY <1>2, <1>4 DEF Reject
  <2> QED BY <1>4, <2>1 DEF Reject, gateVars, work, Typed, TypeOK, GatesTypeOK
<1> QED BY <1>3, <1>4

\* The holds that a commit places are copies of holds, or new; each is used once.
LEMMA PlacedHolds ==
    ASSUME Typed, NEW p, CommitOf(p)
    PROVE  /\ \A h \in HoldIds :
                 \/ hold'[h] = hold[h] /\ copyOf'[h] = copyOf[h]
                 \/ /\ hold[h] = Unused
                    /\ hold'[h] = [state |-> "open", contract |-> p.asked.to]
                    /\ copyOf'[h] \in ToPlace(p)
           /\ \A g \in p.holds : \E h \in HoldIds :
                 /\ copyOf'[h] = g
                 /\ hold'[h] = [state |-> "open", contract |-> p.asked.to]
           /\ ToPlace(p) \subseteq HoldIds \cup {NoHold}
           /\ DOMAIN hold' = HoldIds /\ hold' = [h \in HoldIds |-> hold'[h]]
           /\ DOMAIN copyOf' = HoldIds /\ copyOf' = [h \in HoldIds |-> copyOf'[h]]
<1> DEFINE d == p.asked.to
<1>1. PICK place \in Injection(ToPlace(p), UnusedHolds) :
         /\ hold' = [h \in HoldIds |->
              IF \E g \in ToPlace(p) : place[g] = h
              THEN [state |-> "open", contract |-> d] ELSE hold[h]]
         /\ copyOf' = [h \in HoldIds |->
              IF \E g \in ToPlace(p) : place[g] = h
              THEN CHOOSE g \in ToPlace(p) : place[g] = h ELSE copyOf[h]]
  BY DEF CommitOf
<1>2. /\ place \in [ToPlace(p) -> UnusedHolds]
      /\ \A a, b \in ToPlace(p) : place[a] = place[b] => a = b
  BY DEF Injection, IsInjective
<1>3. p.holds \subseteq HoldIds
  BY DEF CommitOf, OpenHolds
<1>4. ToPlace(p) \subseteq HoldIds \cup {NoHold} /\ p.holds \subseteq ToPlace(p)
  BY <1>3 DEF ToPlace
<1>5. ASSUME NEW h \in HoldIds
      PROVE  \/ hold'[h] = hold[h] /\ copyOf'[h] = copyOf[h]
             \/ /\ hold[h] = Unused
                /\ hold'[h] = [state |-> "open", contract |-> d]
                /\ copyOf'[h] \in ToPlace(p)
  <2>1. CASE \E g \in ToPlace(p) : place[g] = h
    <3>1. hold[h] = Unused
      BY <1>2, <2>1 DEF UnusedHolds
    <3> QED BY <1>1, <2>1, <3>1
  <2>2. CASE ~\E g \in ToPlace(p) : place[g] = h
    BY <1>1, <2>2
  <2> QED BY <2>1, <2>2
<1>6. ASSUME NEW g \in p.holds
      PROVE  \E h \in HoldIds : copyOf'[h] = g /\ hold'[h] = [state |-> "open", contract |-> d]
  <2>1. g \in ToPlace(p) /\ place[g] \in HoldIds
    BY <1>2, <1>4 DEF UnusedHolds
  <2>2. (CHOOSE k \in ToPlace(p) : place[k] = place[g]) = g
    BY <1>2, <2>1
  <2>3. copyOf'[place[g]] = g /\ hold'[place[g]] = [state |-> "open", contract |-> d]
    BY <1>1, <2>1, <2>2
  <2> QED BY <2>1, <2>3
<1>7. /\ DOMAIN hold' = HoldIds /\ hold' = [h \in HoldIds |-> hold'[h]]
      /\ DOMAIN copyOf' = HoldIds /\ copyOf' = [h \in HoldIds |-> copyOf'[h]]
  BY <1>1
<1> QED BY <1>4, <1>5, <1>6, <1>7

LEMMA CommitTyped ==
    ASSUME Typed, AboutDeclared, NEW s \in Sessions, Commit(s)
    PROVE  Typed'
<1> DEFINE p == projected[s]
           d == p.asked.to
<1>1. CommitOf(p)
  BY CommitSteps
<1>2. /\ \A h \in HoldIds :
            \/ hold'[h] = hold[h] /\ copyOf'[h] = copyOf[h]
            \/ /\ hold'[h] = [state |-> "open", contract |-> d]
               /\ copyOf'[h] \in HoldIds \cup {NoHold}
      /\ hold' = [h \in HoldIds |-> hold'[h]] /\ copyOf' = [h \in HoldIds |-> copyOf'[h]]
  BY <1>1, PlacedHolds
<1>3. d \in Contracts /\ p.asked.source \in Contracts /\ p \in Replacements /\ p.asked \in Asked
  BY <1>1, AskedTyped DEF CommitOf
<1>4. [state |-> "open", contract |-> d] \in Holds
  BY <1>3 DEF Holds
<1>5. hold \in [HoldIds -> Holds] /\ copyOf \in [HoldIds -> HoldIds \cup {NoHold}]
  BY DEF Typed, TypeOK, GatesTypeOK
<1>6. hold' \in [HoldIds -> Holds] /\ copyOf' \in [HoldIds -> HoldIds \cup {NoHold}]
  <2>1. \A h \in HoldIds : hold'[h] \in Holds /\ copyOf'[h] \in HoldIds \cup {NoHold}
    BY <1>2, <1>4, <1>5
  <2> QED BY <1>2, <2>1
<1>7. Given(p.asked) \in Workers \cup {NoWorker}
  BY <1>3, AskedTyped DEF Typed, TypeOK, GatesTypeOK
<1>8. assignee' \in [Contracts -> Workers \cup {NoWorker}]
  BY <1>7 DEF Commit, Typed, TypeOK, GatesTypeOK
<1>9. terminal' \in [Contracts -> Terminals \cup {"none"}]
  BY DEF Commit, Typed, TypeOK, GatesTypeOK, Terminals
<1>10. claim' \in [Contracts -> Claims]
  <2>1. \A x \in Contracts, S \in SUBSET Contracts : ReleasedBy(x, S) \in Claims
    BY DEF ReleasedBy, Typed, Claims
  <2>2. {p.asked.source} \cup p.dropped \cup p.finished \in SUBSET Contracts
    BY <1>3 DEF Replacements
  <2> QED BY <2>1, <2>2 DEF Commit
<1>11. outputs' \in [Contracts -> SUBSET Names] /\ declared' \subseteq Contracts
  <2>1. p.due \subseteq Names
    BY <1>3 DEF Replacements
  <2> QED BY <1>3, <2>1 DEF Commit, Typed, TypeOK
<1>12. /\ handed' \in [Contracts -> Replacements \cup {None}]
       /\ projected' \in [Sessions -> Replacements \cup {None}]
  BY <1>3 DEF Commit, Typed, TypeOK
<1>13. UNCHANGED <<links, registry, assets, qualified, review>>
  BY DEF Commit
<1> QED BY <1>6, <1>8, <1>9, <1>10, <1>11, <1>12, <1>13 DEF Typed, TypeOK, GatesTypeOK

LEMMA TypedStep ==
    ASSUME Typed, AboutDeclared, [Next]_vars
    PROVE  Typed'
<1>1. CASE \E c \in Independent, a \in assets : Attest(c, a)
  <2>1. PICK c \in Independent, a \in assets : Attest(c, a)
    BY <1>1
  <2>2. /\ c \in declared /\ Accept(c, a)
        /\ UNCHANGED <<hold, links, assignee, registry, declared, outputs, assets, copyOf,
                       handed, review, projected>>
    BY <2>1 DEF Attest, Reviewable
  <2>3. review' \in [Reviewers -> Reviews]
    BY <2>2 DEF Typed, TypeOK
  <2> QED BY <2>2, <2>3, AcceptTyped
<1>2. CASE UNCHANGED vars
  BY <1>2 DEF vars, gateVars, work, Typed, TypeOK, GatesTypeOK
<1>3. CASE Command \/ \E c \in Contracts : Promote(c) \/ Deliver(c) \/ Publish(c) \/ Fail(c)
  BY <1>3, CommandTyped, PromoteTyped, WorkTyped, ClaimTyped
<1>4. CASE \E c \in Contracts, w \in Workers : Take(c, w)
  BY <1>4, ClaimTyped
<1>5. CASE \E r \in Reviewers :
              (\E a \in assets : RequestReview(r, a))
              \/ \E verdict \in {"accept", "changes"} : Decide(r, verdict)
  BY <1>5, ReviewTyped
<1>6. CASE \E s \in Sessions : Commit(s) \/ Reject(s) \/ \E q \in Asked : Project(s, q)
  BY <1>6, ProjectTyped, CommitTyped
<1> QED BY <1>1, <1>2, <1>3, <1>4, <1>5, <1>6 DEF Next

-----------------------------------------------------------------------------
(* The invariant.                                                           *)

LEMMA InvInit == Init => IInv /\ CopiesUsed
<1> SUFFICES ASSUME Init PROVE IInv /\ CopiesUsed
  OBVIOUS
<1>1. Typed
  BY TypedInit
<1>2. /\ \A c \in Contracts : terminal[c] = "none" /\ claim[c].status = "none" /\ ~Replaced(c)
      /\ declared = Genesis /\ qualified = {}
  BY DEF Init, GatesInit, NoClaim, Replaced
<1>3. AboutDeclared /\ ClaimsLive /\ SuccessorsFollow
  BY <1>2, HandoverContractsAssumption DEF AboutDeclared, ClaimsLive, SuccessorsFollow
<1> QED BY <1>1, <1>2, <1>3 DEF IInv, ReplacedFailed, CopiesUsed

\* Everything above a new Contract is declared, because its parent is.
LEMMA DeclaredStep ==
    ASSUME IInv, [Next]_vars
    PROVE  AboutDeclared' /\ ClaimsLive' /\ OutcomesFinal /\ declared \subseteq declared'
<1>0. Typed /\ AboutDeclared /\ ClaimsLive /\ declared \subseteq Contracts
  BY DEF IInv, Typed, TypeOK
<1>1. CASE OtherStep
  <2>1. \A c \in Contracts : terminal'[c] # "none" => c \in declared
    BY <1>0, <1>1 DEF OtherStep, OutcomesFinal, AboutDeclared
  <2>2. \A c \in Contracts : claim'[c].status # "none" => c \in declared
    BY <1>1 DEF OtherStep, ClaimsOfLiveOnly
  <2>3. ASSUME NEW c \in declared' PROVE Ancestors[c] \subseteq declared'
    <3>1. CASE c \in declared
      BY <1>0, <1>1, <3>1 DEF OtherStep, DeclaresBelowLive, AboutDeclared
    <3>2. CASE c \notin declared
      <4>1. c \in Contracts /\ (Parent[c] # NoContract => Parent[c] \in declared)
        BY <1>1, <3>2 DEF OtherStep, DeclaresBelowLive, Live
      <4>2. Ancestors[c] \subseteq declared
        BY <1>0, <4>1, AncestorsOf DEF AboutDeclared
      <4> QED BY <1>1, <4>2 DEF OtherStep, DeclaresBelowLive
    <3> QED BY <3>1, <3>2
  <2>4. declared \subseteq declared' /\ \A q \in qualified' : q[1] \in declared
    BY <1>0, <1>1 DEF OtherStep, DeclaresBelowLive, WorkGrows, AboutDeclared
  <2>5. ClaimsLive'
    BY <1>1 DEF OtherStep, ClaimsOfLiveOnly, ClaimsLive
  <2> QED BY <1>1, <2>1, <2>2, <2>3, <2>4, <2>5 DEF AboutDeclared, OtherStep
<1>2. CASE Committed
  <2>1. PICK s \in Sessions : Commit(s)
    BY <1>2 DEF Committed
  <2> DEFINE p == projected[s]
             c == p.asked.source
             d == p.asked.to
  <2>2. CommitOf(p)
    BY <1>0, <2>1, CommitSteps
  <2>3. OutcomesFinal
    BY <1>0, <2>2, CommitOutcomes
  <2>4. /\ c \in declared /\ Parent[d] = c /\ d \in Contracts /\ qualified' = qualified
        /\ declared' = declared \cup {d}
        /\ claim' = [x \in Contracts |-> ReleasedBy(x, {c} \cup p.dropped \cup p.finished)]
        /\ \A x \in Contracts :
              x \notin {c} \cup p.dropped \cup p.finished => terminal'[x] = terminal[x]
    BY <2>2 DEF CommitOf
  <2> HIDE DEF p, c, d
  <2>5. Ancestors[d] \subseteq declared
    BY <1>0, <2>4, AncestorsOf, HandoverForestAssumption DEF AboutDeclared
  <2>6. ASSUME NEW x \in Contracts
        PROVE  /\ claim'[x].status # "none" => claim[x].status # "none"
               /\ claim'[x].status = "active" =>
                     claim[x].status = "active" /\ x \notin {c} \cup p.dropped \cup p.finished
    <3>1. claim[x] \in Claims
      BY <1>0 DEF Typed
    <3> QED BY <2>4, <3>1 DEF ReleasedBy, Claims
  <2>7. ClaimsLive'
    BY <1>0, <2>4, <2>6 DEF ClaimsLive
  <2> QED BY <1>0, <2>3, <2>4, <2>5, <2>6, <2>7 DEF AboutDeclared, OutcomesFinal
<1> QED BY <1>0, <1>1, <1>2, StepsAreCommitsOrOthers

LEMMA ReplacedStep ==
    ASSUME IInv, [Next]_vars
    PROVE  ReplacedFailed' /\ SuccessorsFollow'
<1>0. /\ Typed /\ AboutDeclared /\ ClaimsLive /\ ReplacedFailed /\ SuccessorsFollow
      /\ OutcomesFinal /\ declared \subseteq declared'
      /\ handed \in [Contracts -> Replacements \cup {None}]
  BY DeclaredStep DEF IInv, Typed, TypeOK
<1>1. ASSUME NEW c \in Contracts, Replaced(c), handed'[c] = handed[c]
      PROVE  /\ handed'[c].asked.source = c /\ Successor(c)' \in declared'
             /\ \A x \in {c} \cup handed'[c].dropped : terminal'[x] = "failed"
  <2>1. handed[c].dropped \subseteq Contracts
    BY <1>0, <1>1 DEF Replaced, Replacements
  <2> QED BY <1>0, <1>1, <2>1 DEF ReplacedFailed, OutcomesFinal, Successor
<1>2. CASE OtherStep
  <2>1. ReplacedFailed'
    BY <1>1, <1>2 DEF OtherStep, ReplacedFailed, Replaced
  <2>2. SuccessorsFollow'
    BY <1>0, <1>2 DEF OtherStep, DeclaresBelowLive, SuccessorsFollow, Replaced
  <2> QED BY <2>1, <2>2
<1>3. CASE Committed
  <2>1. PICK s \in Sessions : Commit(s)
    BY <1>3 DEF Committed
  <2> DEFINE p == projected[s]
             c == p.asked.source
             d == p.asked.to
  <2>2. CommitOf(p) /\ p # None
    BY <1>0, <2>1, CommitSteps DEF Commit
  <2>3. /\ c \in Contracts /\ Parent[d] = c /\ d \in declared'
        /\ handed' = [handed EXCEPT ![c] = p] /\ declared' = declared \cup {d}
        /\ \A x \in {c} \cup p.dropped : terminal'[x] = "failed"
    <3>1. \A x \in {c} \cup p.dropped : x \in Contracts
      BY <2>2 DEF CommitOf
    <3> QED BY <2>2, <3>1 DEF CommitOf
  <2> HIDE DEF p, d, c
  <2>4. handed'[c] = p /\ \A x \in Contracts \ {c} : handed'[x] = handed[x]
    BY <1>0, <2>3
  <2>5. ReplacedFailed'
    <3>1. p.asked.source = c /\ p.asked.to \in declared'
      BY <2>3 DEF c, d
    <3>2. ASSUME NEW x \in Contracts, Replaced(x)'
          PROVE  /\ handed'[x].asked.source = x /\ Successor(x)' \in declared'
                 /\ \A y \in {x} \cup handed'[x].dropped : terminal'[y] = "failed"
      <4>1. CASE x = c
        BY <2>3, <2>4, <3>1, <4>1 DEF Successor
      <4>2. CASE x # c
        BY <1>1, <2>4, <3>2, <4>2 DEF Replaced
      <4> QED BY <4>1, <4>2
    <3> QED BY <3>2 DEF ReplacedFailed
  <2>6. SuccessorsFollow'
    <3>1. ASSUME NEW e \in declared \cap Successors PROVE Replaced(Parent[e])'
      <4>1. Replaced(Parent[e]) /\ Parent[e] \in Contracts
        BY <1>0, HandoverContractsAssumption DEF SuccessorsFollow
      <4> QED BY <2>2, <2>4, <4>1 DEF Replaced
    <3> QED BY <2>2, <2>3, <2>4, <3>1 DEF SuccessorsFollow, Replaced
  <2> QED BY <2>5, <2>6
<1> QED BY <1>0, <1>2, <1>3, StepsAreCommitsOrOthers

LEMMA InvStep == IInv /\ [Next]_vars => IInv'
  BY TypedStep, DeclaredStep, ReplacedStep DEF IInv

LEMMA Invariant == Spec => []IInv
  BY InvInit, InvStep, PTL DEF Spec

\* Every reachable state of Handover is well typed.
THEOREM HandoverTypeCorrect == Spec => []TypeOK
<1>1. IInv => TypeOK
  BY DEF IInv, Typed
<1> QED BY <1>1, Invariant, PTL

-----------------------------------------------------------------------------
(* What a replacement carries over.                                         *)

\* A step replaces one Contract by committing its projection, or none.
LEMMA StepReplaces ==
    ASSUME IInv, [Next]_vars, NEW c \in Contracts
    PROVE  \/ handed'[c] = handed[c]
           \/ /\ ~Replaced(c) /\ Replaced(c)'
              /\ CommitOf(handed'[c]) /\ handed'[c].asked.source = c
<1>0. Typed /\ AboutDeclared /\ ClaimsLive /\ ReplacedFailed
      /\ handed \in [Contracts -> Replacements \cup {None}]
  BY DEF IInv, Typed, TypeOK
<1>1. CASE OtherStep
  BY <1>1 DEF OtherStep
<1>2. CASE Committed
  <2>1. PICK s \in Sessions : Commit(s)
    BY <1>2 DEF Committed
  <2> DEFINE p == projected[s]
  <2>2. CommitOf(p) /\ p # None
    BY <1>0, <2>1, CommitSteps DEF Commit
  <2>3. handed' = [handed EXCEPT ![p.asked.source] = p] /\ terminal[p.asked.source] = "none"
    BY <2>2 DEF CommitOf
  <2>4. CASE c = p.asked.source
    <3>1. handed'[c] = p
      BY <1>0, <2>3, <2>4
    <3>2. ~Replaced(c)
      BY <1>0, <2>3, <2>4 DEF ReplacedFailed
    <3> QED BY <2>2, <2>4, <3>1, <3>2 DEF Replaced
  <2>5. CASE c # p.asked.source
    BY <1>0, <2>3, <2>5
  <2> QED BY <2>4, <2>5
<1> QED BY <1>0, <1>1, <1>2, StepsAreCommitsOrOthers

\* What the gates say of a Contract that has been replaced before the step.
LEMMA GatesOfReplaced ==
    ASSUME IInv, [Next]_vars, NEW c \in Contracts, Replaced(c)
    PROVE  /\ terminal[c] = "failed" /\ c \in declared
           /\ assignee'[c] = assignee[c]
           /\ \A h \in HoldIds :
                 /\ h \in OpenHolds(c)' => h \in OpenHolds(c)
                 /\ hold[h] # Unused =>
                       /\ hold'[h] # Unused /\ hold'[h].contract = hold[h].contract
                       /\ copyOf'[h] = copyOf[h]
<1>0. Typed /\ AboutDeclared /\ ClaimsLive /\ Typed'
  BY TypedStep DEF IInv
<1>1. terminal[c] = "failed" /\ c \in declared
  BY DEF IInv, ReplacedFailed, AboutDeclared
<1>2. CASE OtherStep
  <2>1. ASSUME NEW h \in HoldIds
        PROVE  /\ hold[h] # Unused =>
                      /\ hold'[h] # Unused /\ hold'[h].contract = hold[h].contract
                      /\ hold'[h].state = "open" => hold[h].state = "open"
               /\ hold[h] = Unused /\ hold'[h] # Unused => terminal[hold'[h].contract] = "none"
    BY <1>2 DEF OtherStep, GatesOfLiveOnly
  <2>2. ASSUME NEW h \in HoldIds, h \in OpenHolds(c)' PROVE h \in OpenHolds(c)
    <3>1. hold'[h] = [state |-> "open", contract |-> c]
      BY <2>2 DEF OpenHolds
    <3>2. hold'[h] # Unused /\ hold'[h].contract = c /\ hold'[h].state = "open"
      BY <3>1 DEF Unused
    <3> QED BY <1>0, <1>1, <2>1, <3>2, OpenHoldsOf
  <2>3. assignee'[c] = assignee[c] /\ copyOf' = copyOf
    BY <1>1, <1>2 DEF OtherStep, GatesOfLiveOnly
  <2> QED BY <1>1, <2>1, <2>2, <2>3
<1>3. CASE Committed
  <2>1. PICK s \in Sessions : Commit(s)
    BY <1>3 DEF Committed
  <2> DEFINE p == projected[s]
             d == p.asked.to
  <2>2. CommitOf(p)
    BY <1>0, <2>1, CommitSteps
  <2>3. d \notin declared /\ assignee' = [assignee EXCEPT ![d] = Given(p.asked)]
    BY <2>2 DEF CommitOf
  <2>4. \A h \in HoldIds :
            \/ hold'[h] = hold[h] /\ copyOf'[h] = copyOf[h]
            \/ hold[h] = Unused /\ hold'[h] = [state |-> "open", contract |-> d]
    BY <1>0, <2>2, PlacedHolds
  <2> HIDE DEF p, d
  <2>5. assignee'[c] = assignee[c]
    BY <1>0, <1>1, <2>3 DEF Typed, TypeOK, GatesTypeOK
  <2>6. ASSUME NEW h \in HoldIds, h \in OpenHolds(c)' PROVE h \in OpenHolds(c)
    <3>1. hold'[h] = [state |-> "open", contract |-> c]
      BY <2>6 DEF OpenHolds
    <3>2. hold'[h].contract = c
      BY <3>1
    <3>3. hold'[h] = hold[h]
      BY <1>1, <2>3, <2>4, <3>2
    <3> QED BY <3>1, <3>3 DEF OpenHolds
  <2> QED BY <1>1, <2>4, <2>5, <2>6
<1> QED BY <1>0, <1>2, <1>3, StepsAreCommitsOrOthers

\* The assignment a successor was decided from stays the last of its source.
THEOREM AssignmentGoesAlong == Spec => []AssignmentCarried
<1>1. Init => AssignmentCarried
  BY DEF Init, AssignmentCarried, Replaced
<1>2. IInv /\ AssignmentCarried /\ [Next]_vars => AssignmentCarried'
  <2> SUFFICES ASSUME IInv, AssignmentCarried, [Next]_vars, NEW c \in Contracts, Replaced(c)'
               PROVE  handed'[c].from = assignee'[c]
    BY DEF AssignmentCarried
  <2>1. CASE handed'[c] = handed[c]
    <3>1. Replaced(c)
      BY <2>1 DEF Replaced
    <3> QED BY <2>1, <3>1, GatesOfReplaced DEF AssignmentCarried
  <2>2. CASE CommitOf(handed'[c]) /\ handed'[c].asked.source = c
    <3> DEFINE p == handed'[c]
    <3>1. /\ p.from = assignee[c] /\ c \in declared /\ p.asked.to \notin declared
          /\ assignee' = [assignee EXCEPT ![p.asked.to] = Given(p.asked)]
      BY <2>2 DEF CommitOf
    <3>2. assignee \in [Contracts -> Workers \cup {NoWorker}]
      BY DEF IInv, Typed, TypeOK, GatesTypeOK
    <3> QED BY <3>1, <3>2
  <2> QED BY <2>1, <2>2, StepReplaces
<1> QED BY <1>1, <1>2, Invariant, PTL DEF Spec

\* No hold is lost with the Contract it was placed on.
THEOREM HoldsGoAlong == Spec => []HoldsCarried
<1>1. IInv /\ CopiesUsed /\ [Next]_vars => CopiesUsed'
  <2> SUFFICES ASSUME IInv, CopiesUsed, [Next]_vars, NEW c \in Contracts, Replaced(c)',
                      NEW h \in HoldIds, h \in OpenHolds(c)'
               PROVE  \E g \in HoldIds : copyOf'[g] = h /\ hold'[g] # Unused
                                         /\ hold'[g].contract = Successor(c)'
    BY DEF CopiesUsed, OpenHolds
  <2>1. CASE handed'[c] = handed[c]
    <3>1. Replaced(c) /\ Successor(c)' = Successor(c)
      BY <2>1 DEF Replaced, Successor
    <3>2. h \in OpenHolds(c)
      BY <3>1, GatesOfReplaced
    <3>3. PICK g \in HoldIds : copyOf[g] = h /\ hold[g] # Unused
                               /\ hold[g].contract = Successor(c)
      BY <3>1, <3>2 DEF CopiesUsed
    <3> QED BY <3>1, <3>3, GatesOfReplaced
  <2>2. CASE CommitOf(handed'[c]) /\ handed'[c].asked.source = c
    <3> DEFINE p == handed'[c]
               d == p.asked.to
    <3>1. /\ Admissible(p.asked) /\ c \in declared /\ d \notin declared /\ p.asked \in Asked
          /\ p.holds = IF p.asked.kind = "edit" THEN OpenHolds(c) ELSE {}
      BY <2>2 DEF CommitOf
    <3>2. hold'[h] = [state |-> "open", contract |-> c]
      BY DEF OpenHolds
    <3>3. Typed
      BY DEF IInv
    <3>4. hold'[h] = hold[h] \/ hold'[h] = [state |-> "open", contract |-> d]
      BY <2>2, <3>3, PlacedHolds
    <3>5. hold'[h] # [state |-> "open", contract |-> d]
      <4>1. hold'[h].contract = c
        BY <3>2
      <4> QED BY <3>1, <4>1
    <3>6. h \in OpenHolds(c)
      BY <3>2, <3>4, <3>5 DEF OpenHolds
    <3>7. p.asked.kind = "edit"
      <4>1. p.asked.kind \in {"handoff", "edit", "revise"}
        BY <3>1, HandoverContractsAssumption DEF Asked, Kinds
      <4> QED BY <2>2, <3>1, <3>6, <4>1 DEF Admissible, Answers, Unheld
    <3>8. PICK g \in HoldIds : copyOf'[g] = h /\ hold'[g] = [state |-> "open", contract |-> d]
      BY <2>2, <3>1, <3>3, <3>6, <3>7, PlacedHolds
    <3>9. hold'[g] # Unused /\ hold'[g].contract = d
      BY <3>8 DEF Unused
    <3> QED BY <3>8, <3>9 DEF Successor
  <2> QED BY <2>1, <2>2, StepReplaces
<1>2. CopiesUsed => HoldsCarried
  BY DEF CopiesUsed, HoldsCarried
<1> QED BY <1>1, <1>2, InvInit, Invariant, PTL DEF Spec

-----------------------------------------------------------------------------
(* What a replacement leaves behind.                                        *)

\* Links of terminal Contracts are no longer added, and outcomes stay.
LEMMA LinksOfEnded ==
    ASSUME IInv, [Next]_vars
    PROVE  /\ OutcomesFinal
           /\ \A e \in links' : e \in links \/ terminal[e[1]] = "none"
<1>1. CASE OtherStep
  BY <1>1 DEF OtherStep, GatesOfLiveOnly
<1>2. CASE Committed
  <2>1. Typed /\ AboutDeclared
    BY DEF IInv
  <2> QED BY <1>2, <2>1, CommitSteps, CommitOutcomes DEF Committed, CommitOf
<1> QED BY <1>1, <1>2, StepsAreCommitsOrOthers DEF IInv

\* Whatever a replaced tree waited for is complete, or was cancelled with it.
THEOREM WaitsAreKept == Spec => []PrerequisitesKept
<1>1. Init => PrerequisitesKept
  BY DEF Init, PrerequisitesKept, Replaced
<1>2. IInv /\ PrerequisitesKept /\ [Next]_vars => PrerequisitesKept'
  <2> SUFFICES ASSUME IInv, PrerequisitesKept, [Next]_vars, NEW c \in Contracts, Replaced(c)',
                      NEW e \in links', e[1] \in {c} \cup handed'[c].dropped
               PROVE  e[2] \in {c} \cup handed'[c].dropped \/ terminal'[e[2]] = "complete"
    BY DEF PrerequisitesKept
  <2>0. /\ OutcomesFinal /\ (e \in links \/ terminal[e[1]] = "none")
        /\ links \subseteq Edges /\ links' \subseteq Edges /\ Typed
    <3>1. Typed /\ Typed'
      BY InvStep DEF IInv
    <3> QED BY <3>1, LinksOfEnded DEF Typed, TypeOK, GatesTypeOK
  <2>1. e[1] \in Contracts /\ e[2] \in Contracts
    BY <2>0, EdgesAssumption
  <2>2. CASE handed'[c] = handed[c]
    <3>1. Replaced(c)
      BY <2>2 DEF Replaced
    <3>2. terminal[e[1]] = "failed"
      BY <2>2, <3>1 DEF IInv, ReplacedFailed
    <3>3. e[2] \in {c} \cup handed[c].dropped \/ terminal[e[2]] = "complete"
      BY <2>0, <2>2, <3>1, <3>2 DEF PrerequisitesKept
    <3> QED BY <2>0, <2>1, <2>2, <3>3 DEF OutcomesFinal
  <2>3. CASE CommitOf(handed'[c]) /\ handed'[c].asked.source = c
    <3> DEFINE p == handed'[c]
    <3>1. /\ Admissible(p.asked) /\ links' = links
          /\ p.dropped = {x \in Inventory(c) : ~Finished(x)}
          /\ p.finished = {x \in Inventory(c) : Finished(x)}
          /\ \A x \in {c} \cup p.dropped \cup p.finished : terminal[x] = "none"
          /\ \A x \in Contracts : terminal'[x] =
                IF x \in {c} \cup p.dropped THEN "failed"
                ELSE IF x \in p.finished THEN "complete" ELSE terminal[x]
      BY <2>3 DEF CommitOf
    <3>2. ~WaitsOutside(c)
      BY <2>3, <3>1 DEF Admissible
    <3>3. e[2] \in {c} \cup Inventory(c) \/ terminal[e[2]] = "complete"
      BY <3>1, <3>2 DEF WaitsOutside
    <3>4. CASE e[2] \in {c} \cup Inventory(c)
      BY <2>1, <3>1, <3>4
    <3>5. CASE terminal[e[2]] = "complete"
      BY <2>0, <2>1, <3>5 DEF OutcomesFinal
    <3> QED BY <3>3, <3>4, <3>5
  <2> QED BY <2>2, <2>3, StepReplaces
<1> QED BY <1>1, <1>2, Invariant, PTL DEF Spec

\* A step declares below a Contract that is not live only what lies below work
\* that is live there already, or the successor of that very Contract.
LEMMA NewWork ==
    ASSUME IInv, [Next]_vars, NEW c \in Contracts, Replaced(c), NEW x \in LiveBelow(c)'
    PROVE  \/ x \in LiveBelow(c)
           \/ Parent[x] \in LiveBelow(c) /\ Ancestors[x] = {Parent[x]} \cup Ancestors[Parent[x]]
<1>1. Live(x)' /\ c \in Ancestors[x] /\ x \in Contracts
  <2>1. Typed'
    BY InvStep DEF IInv
  <2> QED BY <2>1 DEF LiveBelow, Live, Typed, TypeOK
<1>2. OutcomesFinal
  BY LinksOfEnded
<1>3. CASE x \in declared
  <2>1. terminal[x] = "none"
    BY <1>1, <1>2 DEF Live, OutcomesFinal
  <2> QED BY <1>1, <1>3, <2>1 DEF LiveBelow, Live
<1>4. CASE x \notin declared
  <2>1. Parent[x] # NoContract /\ Ancestors[x] = {Parent[x]} \cup Ancestors[Parent[x]]
    BY <1>1, AncestorsOf
  <2>2. Live(Parent[x])
    <3>1. CASE OtherStep
      BY <1>1, <1>4, <2>1, <3>1 DEF OtherStep, DeclaresBelowLive, Live
    <3>2. CASE Committed
      <4>1. PICK s \in Sessions : Commit(s)
        BY <3>2 DEF Committed
      <4>2. CommitOf(projected[s])
        BY <4>1, CommitSteps DEF IInv
      <4> QED BY <1>1, <1>4, <4>2 DEF CommitOf, Live
    <3> QED BY <3>1, <3>2, StepsAreCommitsOrOthers DEF IInv
  <2>3. c # Parent[x]
    BY <2>2 DEF IInv, ReplacedFailed, Live
  <2> QED BY <1>1, <2>1, <2>2, <2>3 DEF LiveBelow, Live
<1> QED BY <1>3, <1>4

\* Nothing stays live below a replaced Contract but what its successor or a
\* spared verifier is responsible for.
THEOREM NothingIsLeft == Spec => []NothingLeftBehind
<1>1. Init => NothingLeftBehind
  BY DEF Init, NothingLeftBehind, Replaced
<1>2. IInv /\ NothingLeftBehind /\ [Next]_vars => NothingLeftBehind'
  <2> SUFFICES ASSUME IInv, NothingLeftBehind, [Next]_vars, NEW c \in Contracts, Replaced(c)',
                      NEW x \in LiveBelow(c)'
               PROVE  Within(x, Successor(c)') \/ \E k \in handed'[c].kept : Within(x, k)
    BY DEF NothingLeftBehind, Within
  <2>1. CASE handed'[c] = handed[c]
    <3>1. Replaced(c) /\ Successor(c)' = Successor(c)
      BY <2>1 DEF Replaced, Successor
    <3>2. CASE x \in LiveBelow(c)
      BY <2>1, <3>1, <3>2 DEF NothingLeftBehind
    <3>3. CASE Parent[x] \in LiveBelow(c) /\ Ancestors[x] = {Parent[x]} \cup Ancestors[Parent[x]]
      <4>1. \/ Within(Parent[x], Successor(c))
            \/ \E k \in handed[c].kept : Within(Parent[x], k)
        BY <3>1, <3>3 DEF NothingLeftBehind
      <4> QED BY <2>1, <3>1, <3>3, <4>1 DEF Within
    <3> QED BY <3>1, <3>2, <3>3, NewWork
  <2>2. CASE CommitOf(handed'[c]) /\ handed'[c].asked.source = c
    <3> DEFINE p == handed'[c]
               d == p.asked.to
    <3>1. /\ p.kept = Spared(c) /\ declared' = declared \cup {d}
          /\ p.dropped = {y \in Inventory(c) : ~Finished(y)}
          /\ p.finished = {y \in Inventory(c) : Finished(y)}
          /\ \A y \in Contracts : terminal'[y] =
                IF y \in {c} \cup p.dropped THEN "failed"
                ELSE IF y \in p.finished THEN "complete" ELSE terminal[y]
      BY <2>2 DEF CommitOf
    <3>2. Live(x)' /\ c \in Ancestors[x] /\ x \in Contracts
      <4>1. Typed'
        BY InvStep DEF IInv
      <4> QED BY <4>1 DEF LiveBelow, Live, Typed, TypeOK
    <3>3. CASE x = d
      BY <3>3 DEF Within, Successor
    <3>4. CASE x # d
      <4>1. x \in declared /\ x \notin p.dropped \cup p.finished /\ terminal[x] = "none"
        BY <3>1, <3>2, <3>4 DEF Live
      <4>2. x \in LiveBelow(c)
        BY <3>2, <4>1 DEF LiveBelow, Live
      <4>3. x \in Spared(c)
        BY <3>1, <4>1, <4>2 DEF Inventory
      <4> QED BY <3>1, <4>3 DEF Within
    <3> QED BY <3>3, <3>4
  <2> QED BY <2>1, <2>2, StepReplaces
<1> QED BY <1>1, <1>2, Invariant, PTL DEF Spec

\* A replacement spares the verifiers that a live independent Contract above
\* its source waits for.
THEOREM VerifiersAreSpared == Spec => ReplacementSparesVerifiers
<1> DEFINE Spares ==
      \A c, v \in Contracts :
          /\ handed'[c] # handed[c]
          /\ v \in LiveBelow(c)
          /\ \E i \in Verifies[v] \cap Ancestors[c] : terminal'[i] = "none"
          => terminal'[v] = "none"
<1>1. IInv /\ [Next]_vars => [Spares]_vars
  <2> SUFFICES ASSUME IInv, [Next]_vars, NEW c \in Contracts, NEW v \in Contracts,
                      handed'[c] # handed[c], v \in LiveBelow(c),
                      NEW i \in Verifies[v] \cap Ancestors[c], terminal'[i] = "none"
               PROVE  terminal'[v] = "none"
    OBVIOUS
  <2> DEFINE p == handed'[c]
  <2>1. CommitOf(p) /\ p.asked.source = c
    BY StepReplaces
  <2>2. /\ \A x \in p.dropped \cup p.finished : x \in Inventory(c)
        /\ \A x \in Contracts : terminal'[x] =
              IF x \in {c} \cup p.dropped THEN "failed"
              ELSE IF x \in p.finished THEN "complete" ELSE terminal[x]
    BY <2>1 DEF CommitOf
  <2>3. terminal[i] = "none" /\ i \in Contracts
    BY LinksOfEnded, AncestorsOf DEF OutcomesFinal
  <2>4. v \in Spared(c) /\ terminal[v] = "none" /\ v # c
    BY <2>3, AncestorsOf DEF Spared, Within, LiveBelow, Live
  <2>5. v \notin Inventory(c)
    BY <2>4 DEF Inventory
  <2> QED BY <2>2, <2>4, <2>5
<1> QED BY <1>1, Invariant, PTL DEF Spec, ReplacementSparesVerifiers

\* A claimed Contract is declared, and so is the successor just below c on the
\* way to it: c has been replaced, and its claim has ended.
THEOREM ClaimantsAreAlone == Spec => []OneClaimant
<1>1. IInv => OneClaimant
  <2> SUFFICES ASSUME IInv, NEW c \in Contracts, NEW d \in Contracts,
                      claim[c].status = "active", claim[d].status = "active", Passed(c, d)
               PROVE  FALSE
    BY DEF OneClaimant
  <2>1. d \in declared /\ Ancestors[d] \subseteq declared
    BY DEF IInv, AboutDeclared
  <2>2. PICK x \in {d} \cup Ancestors[d] : Parent[x] = c
    BY HandoverForestAssumption DEF Passed
  <2>3. x \in Contracts /\ x \in declared
    BY <2>1, <2>2, AncestorsOf
  <2>4. c \in Ancestors[x]
    BY <2>2, <2>3, AncestorsOf, HandoverForestAssumption
  <2>5. Replaced(c)
    BY <2>2, <2>3, <2>4 DEF Passed, IInv, SuccessorsFollow
  <2> QED BY <2>5 DEF IInv, ReplacedFailed, ClaimsLive
<1> QED BY <1>1, Invariant, PTL

-----------------------------------------------------------------------------
(***************************************************************************)
(* Replacing a task implements the hand-over of an obligation.  Exactly    *)
(* one declared Contract of the line of the root has not been replaced: it *)
(* is the holder, and a step either replaces it or is work.                *)
(***************************************************************************)
Owes(c) == c \in Line /\ c \in declared /\ ~Replaced(c)
OneHolder == \E h \in Contracts : Owes(h) /\ \A c \in Line : Owes(c) => c = h

LEMMA LineOf ==
    /\ Root \in Line /\ Line \subseteq Contracts
    /\ \A d \in Line : d = Root \/ d \in Successors
    /\ \A d \in Contracts \cap Successors :
          Parent[d] \in Contracts => (d \in Line <=> Parent[d] \in Line)
<1>1. Root \in Line /\ Line \subseteq Contracts
  BY HandoverContractsAssumption DEF Line
<1>2. \A d \in Line : d = Root \/ d \in Successors
  BY DEF Line, Passed
<1>3. ASSUME NEW d \in Contracts \cap Successors, Parent[d] \in Contracts
      PROVE  d \in Line <=> Parent[d] \in Line
  <2> DEFINE c == Parent[d]
  <2>1. Ancestors[d] = {c} \cup Ancestors[c]
    BY <1>3, AncestorsOf, HandoverForestAssumption
  <2>2. Root # d
    BY HandoverContractsAssumption
  <2>3. CASE c = Root
    <3>1. ASSUME NEW x \in {d} \cup Ancestors[d], Root \in Ancestors[x] PROVE x \in Successors
      <4>1. x # Root
        BY <3>1, AncestorsOf, HandoverContractsAssumption
      <4>2. x \notin Ancestors[Root]
        <5>1. Root \in Contracts /\ Root \notin Ancestors[Root]
          BY AncestorsOf, HandoverContractsAssumption
        <5> QED BY <3>1, <5>1, HandoverForestAssumption
      <4> QED BY <2>1, <2>3, <3>1, <4>1, <4>2
    <3>2. Passed(Root, d)
      BY <2>1, <2>3, <3>1 DEF Passed
    <3> QED BY <1>1, <2>3, <3>2 DEF Line
  <2>4. CASE c # Root
    <3>1. Passed(Root, d) <=> Passed(Root, c)
      BY <2>1, <2>4 DEF Passed
    <3> QED BY <1>3, <2>2, <2>4, <3>1 DEF Line
  <2> QED BY <2>3, <2>4
<1> QED BY <1>1, <1>2, <1>3

LEMMA HolderOwes ==
    ASSUME NEW h \in Contracts, Owes(h), \A c \in Line : Owes(c) => c = h
    PROVE  Holder = h
<1>1. \A c \in Line : c \in declared /\ ~Replaced(c) <=> c = h
  BY DEF Owes
<1>2. h \in Line
  BY DEF Owes
<1> QED BY <1>1, <1>2 DEF Holder

LEMMA HolderInit == Init => OneHolder /\ Duty!Init
<1> SUFFICES ASSUME Init PROVE OneHolder /\ Duty!Init
  OBVIOUS
<1>1. \A c \in Line : Owes(c) <=> c = Root
  BY LineOf, HandoverContractsAssumption DEF Init, Owes, Replaced
<1>2. Root \in Contracts /\ Owes(Root)
  BY <1>1, LineOf
<1>3. Holder = Root
  BY <1>1, <1>2, HolderOwes
<1>4. Due(Root) = Outputs[Root]
  BY <1>2, HandoverContractsAssumption DEF Init, Due, StillDue
<1>5. Outcome = "open"
  BY <1>2, <1>3 DEF Init, GatesInit, Outcome
<1>6. OneHolder
  BY <1>1, <1>2 DEF OneHolder
<1> QED BY <1>3, <1>4, <1>5, <1>6 DEF Duty!Init

\* A step that is not the replacement of the holder.
LEMMA WorkOnObligation ==
    ASSUME IInv, [Next]_vars, NEW h \in Contracts, Holder = h, Holder' = h, h \in declared,
           outputs'[h] = outputs[h], assets \subseteq assets', qualified \subseteq qualified',
           terminal'[h] = "complete" /\ terminal[h] = "none" => Due(h)' = {}
    PROVE  Duty!Work
<1>1. Due(h)' \subseteq Due(h)
  BY DEF Due, StillDue
<1>2. OutcomesFinal
  BY LinksOfEnded
<1>3. /\ Outcome = CASE terminal[h] = "none" -> "open"
                     [] terminal[h] = "complete" -> "met"
                     [] OTHER -> "lost"
      /\ Outcome' = CASE terminal'[h] = "none" -> "open"
                     [] terminal'[h] = "complete" -> "met"
                     [] OTHER -> "lost"
  BY DEF Outcome
<1>4. terminal[h] # "none" => terminal'[h] = terminal[h]
  BY <1>2 DEF OutcomesFinal
<1>5. /\ Outcome' \in {"open", "met", "lost"}
      /\ Outcome' = "met" => Outcome = "met" \/ Due(h)' = {}
      /\ Outcome # "open" => Outcome' = Outcome
  BY <1>3, <1>4
<1> QED BY <1>1, <1>5 DEF Duty!Work

LEMMA HolderStep ==
    ASSUME IInv, OneHolder, [Next]_vars
    PROVE  OneHolder' /\ Duty!Next
<1>0. Typed /\ AboutDeclared /\ ReplacedFailed
      /\ handed \in [Contracts -> Replacements \cup {None}]
  BY DEF IInv, Typed, TypeOK
<1>1. PICK h \in Contracts : Owes(h) /\ \A c \in Line : Owes(c) => c = h
  BY DEF OneHolder
<1>2. Holder = h /\ h \in Line /\ h \in declared
  BY <1>1, HolderOwes DEF Owes
<1>3. CASE OtherStep
  <2>1. \A c \in Line : Owes(c)' <=> Owes(c)
    <3>1. ASSUME NEW c \in Line, c \in declared' PROVE c \in declared
      <4>1. Root \in declared
        <5>1. h = Root \/ Root \in Ancestors[h]
          BY <1>2 DEF Line, Passed
        <5> QED BY <1>0, <1>2, <5>1 DEF AboutDeclared
      <4> QED BY <1>3, <3>1, <4>1, LineOf DEF OtherStep, DeclaresBelowLive
    <3> QED BY <1>3, <3>1 DEF OtherStep, DeclaresBelowLive, Owes, Replaced
  <2>2. OneHolder'
    BY <1>1, <1>2, <2>1 DEF OneHolder
  <2>3. Holder' = Holder
    <3>1. \A c \in Line : (c \in declared /\ ~Replaced(c))' <=> c \in declared /\ ~Replaced(c)
      BY <2>1 DEF Owes
    <3>2. Line' = Line
      BY DEF Line, Passed
    <3>3. \A c \in Line : (c \in declared' /\ ~Replaced(c)') <=> c = h
      BY <1>1, <1>2, <3>1 DEF Owes
    <3>4. Holder' = CHOOSE c \in Line : c \in declared' /\ ~Replaced(c)'
      BY <3>2 DEF Holder
    <3> QED BY <1>2, <3>3, <3>4
  <2>4. /\ outputs'[h] = outputs[h] /\ assets \subseteq assets' /\ qualified \subseteq qualified'
        /\ terminal'[h] = "complete" /\ terminal[h] = "none" => Due(h)' = {}
    BY <1>3 DEF OtherStep, WorkGrows, Due, StillDue
  <2> QED BY <1>2, <2>2, <2>3, <2>4, WorkOnObligation DEF Duty!Next
<1>4. CASE Committed
  <2>1. PICK s \in Sessions : Commit(s)
    BY <1>4 DEF Committed
  <2>2. PICK p \in Replacements, c \in Contracts, d \in Contracts :
           CommitOf(p) /\ p # None /\ c = p.asked.source /\ d = p.asked.to
    <3>1. CommitOf(projected[s]) /\ projected[s] # None
      BY <1>0, <2>1, CommitSteps DEF Commit
    <3> QED BY <3>1 DEF CommitOf
  <2>3. /\ p.due = Due(c) /\ p.finished = {x \in Inventory(c) : Finished(x)}
        /\ c \in declared /\ terminal[c] = "none" /\ Parent[d] = c /\ Admissible(p.asked)
        /\ d \in Successors \cap Contracts /\ d \notin declared
        /\ \A x \in Contracts : terminal'[x] =
              IF x \in {c} \cup p.dropped THEN "failed"
              ELSE IF x \in p.finished THEN "complete" ELSE terminal[x]
        /\ \A x \in {c} \cup p.dropped \cup p.finished : x \in declared \cap Contracts
        /\ declared' = declared \cup {d} /\ outputs' = [outputs EXCEPT ![d] = p.due]
        /\ handed' = [handed EXCEPT ![c] = p] /\ assets' = assets /\ qualified' = qualified
    BY <2>2 DEF CommitOf
  <2>4. Due(c) # {} /\ c \in Contracts
    BY <2>2, <2>3 DEF Admissible
  <2>5. Line' = Line
    BY DEF Line, Passed
  <2>6. /\ \A x \in Contracts : Replaced(x)' <=> x = c \/ Replaced(x)
        /\ ~Replaced(c) /\ ~Replaced(d)
    <3>1. handed'[c] = p /\ \A x \in Contracts \ {c} : handed'[x] = handed[x]
      BY <1>0, <2>3, <2>4
    <3>2. ~Replaced(c)
      BY <1>0, <2>3, <2>4 DEF ReplacedFailed
    <3>3. ~Replaced(d)
      BY <1>0, <2>3 DEF ReplacedFailed, AboutDeclared
    <3> QED BY <2>2, <3>1, <3>2, <3>3 DEF Replaced
  <2>7. d \in Line <=> c \in Line
    BY <2>3, <2>4, LineOf
  <2>8. CASE c = h
    <3>1. \A x \in Line : (x \in declared' /\ ~Replaced(x)') <=> x = d
      BY <1>1, <1>2, <2>3, <2>6, <2>7, <2>8, LineOf DEF Owes
    <3>2. Holder' = d /\ d \in Line
      <4>1. Holder' = CHOOSE x \in Line : x \in declared' /\ ~Replaced(x)'
        BY <2>5 DEF Holder
      <4>2. d \in Line
        BY <1>2, <2>7, <2>8
      <4> QED BY <3>1, <4>1, <4>2
    <3>3. OneHolder'
      BY <2>3, <2>5, <3>1, <3>2 DEF OneHolder, Owes
    <3>4. Outcome = "open" /\ Outcome' = "open"
      <4>1. terminal[d] = "none"
        BY <1>0, <2>3 DEF AboutDeclared
      <4>2. terminal'[d] = "none"
        BY <2>3, <4>1
      <4> QED BY <1>2, <2>3, <2>8, <3>2, <4>2 DEF Outcome
    <3>5. Due(d)' = Due(c)
      <4>1. outputs'[d] = Due(c)
        BY <1>0, <2>3 DEF Typed, TypeOK
      <4>2. d \in Independent <=> c \in Independent
        BY <2>3, HandoverContractsAssumption
      <4>3. \A a \in assets : <<d, a>> \notin qualified
        BY <1>0, <2>3 DEF AboutDeclared
      <4>4. \A n \in Due(c) :
               ~\E a \in assets : a.name = n /\ (c \in Independent => <<c, a>> \in qualified)
        BY DEF Due, StillDue
      <4>5. Due(d)' = {n \in outputs'[d] : ~\E a \in assets' :
                          a.name = n /\ (d \in Independent => <<d, a>> \in qualified')}
        BY DEF Due, StillDue
      <4>6. \A n \in Due(c) :
               ~\E a \in assets : a.name = n /\ (d \in Independent => <<d, a>> \in qualified)
        BY <4>2, <4>3, <4>4
      <4> QED BY <2>3, <4>1, <4>5, <4>6
    <3>6. Duty!PassOn
      <4>1. d \in Contracts \ {h}
        BY <1>2, <2>3
      <4> QED BY <1>2, <2>4, <2>8, <3>2, <3>4, <3>5, <4>1 DEF Duty!PassOn
    <3> QED BY <3>3, <3>6 DEF Duty!Next
  <2>9. CASE c # h
    <3>1. c \notin Line
      BY <1>1, <2>3, <2>6, <2>9 DEF Owes
    <3>2. \A x \in Line : (x \in declared' /\ ~Replaced(x)') <=> x = h
      BY <1>1, <1>2, <2>3, <2>6, <2>7, <3>1, LineOf DEF Owes
    <3>3. Holder' = h
      <4>1. Holder' = CHOOSE x \in Line : x \in declared' /\ ~Replaced(x)'
        BY <2>5 DEF Holder
      <4> QED BY <1>2, <3>2, <4>1
    <3>4. OneHolder'
      BY <1>2, <2>5, <3>2 DEF OneHolder, Owes
    <3>5. outputs'[h] = outputs[h]
      BY <1>0, <1>2, <2>3 DEF Typed, TypeOK
    <3>6. Due(h)' = Due(h)
      BY <2>3, <3>5 DEF Due, StillDue
    <3>7. terminal'[h] = "complete" /\ terminal[h] = "none" => Due(h)' = {}
      BY <2>3, <3>6 DEF Finished
    <3> QED BY <1>2, <2>3, <3>3, <3>4, <3>5, <3>7, WorkOnObligation DEF Duty!Next
  <2> QED BY <2>8, <2>9
<1> QED BY <1>0, <1>3, <1>4, StepsAreCommitsOrOthers DEF IInv

\* Whoever replaces the task, one Contract owes its open outputs, and what is
\* due is neither dropped nor asked for again.
THEOREM ReplacementKeepsObligation == Spec => ObligationKept
<1>1. IInv /\ OneHolder /\ [Next]_vars => OneHolder' /\ [Duty!Next]_(Duty!vars)
  BY HolderStep
<1> QED BY <1>1, HolderInit, Invariant, PTL DEF Spec, ObligationKept, Duty!Spec
=============================================================================
