-------------------------- MODULE CompletionProofs --------------------------
(***************************************************************************)
(* What holds of Completion for every forest of Contracts, every number of *)
(* processes and every interleaving of decisions and commits.              *)
(*                                                                         *)
(* The invariant speaks about what a process derived before it got the     *)
(* lock: such a derivation stays Earned while others commit, because       *)
(* Assets and qualifications are only ever added.                          *)
(***************************************************************************)
EXTENDS Completion, FiniteSetTheorems, WellFoundedInduction, TLAPS

\* A derivation is earned: its completions are satisfied by the Assets A and
\* the qualifications Q, and what it cancels lies below one of its completions.
Earned(T, A, Q) ==
    \A x \in DOMAIN T :
        /\ T[x].what = "complete" => Satisfied(x, A, Q)
        /\ T[x].what = "cancelled" =>
              \E p \in Ancestors[x] : p \in DOMAIN T /\ T[p].what = "complete"

DerivedEarned ==
    \A s \in Sessions :
        Earned(derived[s], assets \cup prepared[s].assets,
               qualified \cup prepared[s].quals)

CompletionInv ==
    /\ TypeOK
    /\ CompleteIsSatisfied
    /\ CancelledBelowComplete
    /\ DerivedEarned

-----------------------------------------------------------------------------
(* Derivations.                                                             *)

\* More Assets and more qualifications keep a Contract satisfied.
LEMMA SatisfiedMonotone ==
    ASSUME NEW c, NEW A, NEW Q, NEW B, NEW R, A \subseteq B, Q \subseteq R,
           Satisfied(c, A, Q)
    PROVE  Satisfied(c, B, R)
  BY DEF Satisfied, SlotFilled

LEMMA EarnedMonotone ==
    ASSUME NEW T, NEW A, NEW Q, NEW B, NEW R, A \subseteq B, Q \subseteq R,
           Earned(T, A, Q)
    PROVE  Earned(T, B, R)
  BY SatisfiedMonotone DEF Earned

\* A walk completes exactly `done` and cancels only below `done`.
WalkShape(F, done, known) ==
    /\ done \subseteq DOMAIN F
    /\ \A x \in DOMAIN F :
          \/ x \in done /\ F[x].what = "complete"
          \/ /\ x \notin done
             /\ x \notin known
             /\ F[x].what = "cancelled"
             /\ \E p \in done : p \in Ancestors[x]

LEMMA FencedShape ==
    ASSUME NEW done \in SUBSET Contracts, NEW known, NEW A, NEW K,
           NEW cause \in Contracts \cup {NoContract},
           declared \subseteq Contracts,
           \A p \in done : K \subseteq known[p],
           \A x \in done : \/ Satisfied(x, A, qualified)
                           \/ \A p \in done : x \in known[p]
    PROVE  /\ IsDerivation(Fenced(done, known, cause, A))
           /\ WalkShape(Fenced(done, known, cause, A), done, K)
  <1> DEFINE gone == UNION {Unreachable(p, known[p], A) : p \in done}
             F == [x \in done \cup gone |->
                     IF x \in done THEN [what |-> "complete", cause |-> cause]
                     ELSE [what |-> "cancelled", cause |-> NoContract]]
  <1>1. \A x \in gone : /\ x \in Contracts /\ x \notin K /\ x \notin done
                        /\ \E p \in done : p \in Ancestors[x]
    BY DEF Unreachable, Ended
  <1>2. Fenced(done, known, cause, A) = F
    BY DEF Fenced
  <1>3. DOMAIN F = done \cup gone
    OBVIOUS
  <1>4. \A x \in done : F[x] = [what |-> "complete", cause |-> cause]
    OBVIOUS
  <1>5. \A x \in gone : F[x] = [what |-> "cancelled", cause |-> NoContract]
    BY <1>1
  <1>6. \A x \in DOMAIN F : x \in Contracts /\ F[x] \in Outcomes
    BY <1>1, <1>3, <1>4, <1>5 DEF Outcomes
  <1>7. F \in [DOMAIN F -> Outcomes] /\ DOMAIN F \subseteq Contracts
    <2> HIDE DEF gone
    <2>1. F = [x \in DOMAIN F |-> F[x]]
      OBVIOUS
    <2> QED BY <1>6, <2>1
  <1> HIDE DEF F, gone
  <1> QED BY <1>1, <1>2, <1>3, <1>4, <1>5, <1>7 DEF IsDerivation, WalkShape

\* Two earned derivations that agree merge into an earned one.
LEMMA MergeEarned ==
    ASSUME NEW T, NEW U, NEW A, NEW Q, Earned(T, A, Q), Earned(U, A, Q),
           \A x \in DOMAIN T \cap DOMAIN U : T[x] = U[x]
    PROVE  Earned(Merge(T, U), A, Q)
  <1> DEFINE M == Merge(T, U)
  <1>1. DOMAIN M = DOMAIN T \cup DOMAIN U
    BY DEF Merge
  <1>2. \A x \in DOMAIN T : M[x] = T[x]
    BY DEF Merge
  <1>3. \A x \in DOMAIN U : M[x] = U[x]
    BY DEF Merge
  <1> HIDE DEF M
  <1>4. Earned(M, A, Q)
    BY <1>1, <1>2, <1>3 DEF Earned
  <1> QED BY <1>4 DEF M

LEMMA MergeType ==
    ASSUME NEW T, NEW U, IsDerivation(T), IsDerivation(U)
    PROVE  IsDerivation(Merge(T, U))
  <1> DEFINE M == Merge(T, U)
  <1>1. M = [x \in DOMAIN T \cup DOMAIN U |-> IF x \in DOMAIN T THEN T[x] ELSE U[x]]
    BY DEF Merge
  <1>2. \A x \in DOMAIN T \cup DOMAIN U :
            (IF x \in DOMAIN T THEN T[x] ELSE U[x]) \in Outcomes
    BY DEF IsDerivation
  <1> QED BY <1>1, <1>2 DEF IsDerivation

\* The Contracts that a batch of Assets completes, and the completions that each
\* walk knows of.
Filled(b) ==
    {c \in declared :
        /\ terminal[c] = NoOutcome
        /\ \E a \in b.assets : a.name \in Outputs[c]
        /\ Satisfied(c, assets \cup b.assets, qualified)}
KnownTo(b) == [p \in Filled(b) |-> Filled(b) \cap ({p} \cup Earlier(p, b.assets))]

LEMMA AssetWalks ==
    ASSUME TypeOK, NEW b \in Batches
    PROVE  /\ AssetConsequences(b) = Fenced(Filled(b), KnownTo(b), b.by, assets \cup b.assets)
           /\ IsDerivation(AssetConsequences(b))
           /\ WalkShape(AssetConsequences(b), Filled(b), {})
           /\ \A p \in Filled(b) : p \in KnownTo(b)[p] /\ KnownTo(b)[p] \subseteq Filled(b)
  <1> DEFINE A == assets \cup b.assets
             D == Filled(b)
             known == KnownTo(b)
  <1>1. AssetConsequences(b) = Fenced(D, known, b.by, A)
    BY DEF AssetConsequences, Filled, KnownTo
  <1>2. b.by \in Contracts \cup {NoContract} /\ D \in SUBSET Contracts
        /\ declared \subseteq Contracts
    BY DEF TypeOK, Batches, Filled
  <1>3. \A c \in D : Satisfied(c, A, qualified)
    BY DEF Filled
  <1>4. \A p \in D : p \in known[p] /\ known[p] \subseteq D
    BY DEF KnownTo
  <1> HIDE DEF D, A, known
  <1>5. /\ IsDerivation(Fenced(D, known, b.by, A))
        /\ WalkShape(Fenced(D, known, b.by, A), D, {})
    <2>1. \A p \in D : {} \subseteq known[p]
      OBVIOUS
    <2> QED BY <1>2, <1>3, <2>1, FencedShape
  <1> QED BY <1>1, <1>4, <1>5 DEF A, D, known

\* What the reducer derives from a batch of Assets is earned.
LEMMA AssetsEarn ==
    ASSUME TypeOK, NEW b \in Batches
    PROVE  /\ IsDerivation(AssetConsequences(b))
           /\ Earned(AssetConsequences(b), assets \cup b.assets, qualified)
  <1>1. /\ IsDerivation(AssetConsequences(b))
        /\ WalkShape(AssetConsequences(b), Filled(b), {})
    BY AssetWalks
  <1>2. \A c \in Filled(b) : Satisfied(c, assets \cup b.assets, qualified)
    BY DEF Filled
  <1> QED BY <1>1, <1>2 DEF Earned, WalkShape

\* The Contracts that new qualifications complete.
Accepted(b, T) ==
    {c \in declared \ DOMAIN T :
        /\ terminal[c] = NoOutcome
        /\ \E q \in b.quals : q[1] = c
        /\ Satisfied(c, assets, qualified \cup b.quals)}

LEMMA QualificationWalks ==
    ASSUME TypeOK, NEW b \in Batches, NEW T
    PROVE  /\ IsDerivation(QualificationConsequences(b, T))
           /\ WalkShape(QualificationConsequences(b, T), Accepted(b, T), DOMAIN T)
  <1> DEFINE done == Accepted(b, T)
             K == DOMAIN T
             known == [p \in done |-> K \cup done]
             F == Fenced(done, known, NoContract, assets)
  <1>1. QualificationConsequences(b, T) = F
    BY DEF QualificationConsequences, Accepted
  <1>2. done \in SUBSET Contracts /\ declared \subseteq Contracts
        /\ NoContract \in Contracts \cup {NoContract}
    BY DEF TypeOK, Accepted
  <1>3. \A p \in done : K \subseteq known[p] /\ done \subseteq known[p]
    OBVIOUS
  <1> HIDE DEF K, known, done
  <1>4. IsDerivation(F) /\ WalkShape(F, done, K)
    BY <1>2, <1>3, FencedShape
  <1> QED BY <1>1, <1>4 DEF done, K

\* ... and so is what the new qualifications add to it.
LEMMA QualificationsEarn ==
    ASSUME TypeOK, NEW b \in Batches, NEW T
    PROVE  /\ IsDerivation(QualificationConsequences(b, T))
           /\ Earned(QualificationConsequences(b, T), assets, qualified \cup b.quals)
           /\ DOMAIN QualificationConsequences(b, T) \cap DOMAIN T = {}
  <1> DEFINE F == QualificationConsequences(b, T)
  <1>1. /\ IsDerivation(F)
        /\ WalkShape(F, Accepted(b, T), DOMAIN T)
    BY QualificationWalks
  <1>2. \A c \in Accepted(b, T) :
            c \notin DOMAIN T /\ Satisfied(c, assets, qualified \cup b.quals)
    BY DEF Accepted
  <1> HIDE DEF F
  <1>3. Earned(F, assets, qualified \cup b.quals)
    BY <1>1, <1>2 DEF Earned, WalkShape
  <1>4. DOMAIN F \cap DOMAIN T = {}
    BY <1>1, <1>2 DEF WalkShape
  <1> QED BY <1>1, <1>3, <1>4 DEF F

\* The derivation of an empty batch.
LEMMA NothingEarned ==
    /\ IsDerivation(Nothing)
    /\ \A A, Q : Earned(Nothing, A, Q)
    /\ DOMAIN Nothing = {}
  BY DEF Nothing, IsDerivation, Earned

LEMMA RederivedEarned ==
    ASSUME TypeOK, NEW b \in Batches
    PROVE  /\ IsDerivation(Rederived(b))
           /\ Earned(Rederived(b), assets \cup b.assets, qualified)
  BY AssetsEarn, NothingEarned DEF Rederived

-----------------------------------------------------------------------------
(* Initial states, and the steps that leave the Store alone.                *)

LEMMA NoBatchType == NoBatch \in Batches
  BY DEF NoBatch, Batches

LEMMA InitCompletion == Init => CompletionInv
  <1> SUFFICES ASSUME Init PROVE CompletionInv
    OBVIOUS
  <1>1. TypeOK
    <2>1. \A s \in Sessions : IsDerivation(derived[s])
      BY NothingEarned DEF Init
    <2>2. prepared \in [Sessions -> Batches]
      BY NoBatchType DEF Init
    <2> QED BY <2>1, <2>2, ContractsAssumption DEF Init, TypeOK
  <1>2. CompleteIsSatisfied /\ CancelledBelowComplete
    BY DEF Init, CompleteIsSatisfied, CancelledBelowComplete, NoOutcome
  <1>3. DerivedEarned
    BY NothingEarned DEF Init, DerivedEarned
  <1> QED BY <1>1, <1>2, <1>3 DEF CompletionInv

\* A decision is earned by the Store it read and the batch itself.
LEMMA PrepareInv ==
    ASSUME CompletionInv, NEW s \in Sessions, NEW b \in Batches, Prepare(s, b)
    PROVE  CompletionInv'
  <1> DEFINE T == AssetConsequences(b)
             U == QualificationConsequences(b, T)
             M == Merge(T, U)
             A == assets \cup b.assets
             Q == qualified \cup b.quals
  <1>t. TypeOK
    BY DEF CompletionInv
  <1>1. IsDerivation(T) /\ Earned(T, A, qualified)
    BY <1>t, AssetsEarn
  <1>2. IsDerivation(U) /\ Earned(U, assets, Q) /\ DOMAIN U \cap DOMAIN T = {}
    BY <1>t, QualificationsEarn
  <1> HIDE DEF T, U
  <1>3. A \subseteq A /\ qualified \subseteq Q /\ assets \subseteq A /\ Q \subseteq Q
    OBVIOUS
  <1> HIDE DEF A, Q
  <1>4. Earned(T, A, Q)
    BY <1>1, <1>3, EarnedMonotone
  <1>5. Earned(U, A, Q)
    BY <1>2, <1>3, EarnedMonotone
  <1>6. \A x \in DOMAIN T \cap DOMAIN U : T[x] = U[x]
    BY <1>2
  <1>7. Earned(M, A, Q) /\ IsDerivation(M)
    BY <1>1, <1>2, <1>4, <1>5, <1>6, MergeEarned, MergeType
  <1>8. /\ prepared' = [prepared EXCEPT ![s] = b]
        /\ derived' = [derived EXCEPT ![s] = M]
        /\ UNCHANGED <<store, climbing>>
    BY DEF Prepare, M, U, T
  <1> HIDE DEF M
  <1>9. /\ \A r \in Sessions : prepared'[r] = IF r = s THEN b ELSE prepared[r]
        /\ \A r \in Sessions : derived'[r] = IF r = s THEN M ELSE derived[r]
    BY <1>t, <1>8 DEF TypeOK
  <1>10. TypeOK'
    <2>1. derived' = [r \in Sessions |-> derived'[r]]
      BY <1>t, <1>8 DEF TypeOK
    <2>2. \A r \in Sessions : IsDerivation(derived'[r])
      BY <1>t, <1>7, <1>9 DEF TypeOK
    <2>3. prepared' \in [Sessions -> Batches]
      BY <1>t, <1>8 DEF TypeOK
    <2>4. UNCHANGED <<declared, assets, qualified, terminal, submitted, climbing>>
      BY <1>8 DEF store
    <2> QED BY <1>t, <2>1, <2>2, <2>3, <2>4 DEF TypeOK, IsDerivation
  <1>11. (CompleteIsSatisfied /\ CancelledBelowComplete)'
    BY <1>8 DEF CompletionInv, store, CompleteIsSatisfied, CancelledBelowComplete,
                SatisfiedNow, Satisfied, SlotFilled
  <1>12. DerivedEarned'
    <2> SUFFICES ASSUME NEW r \in Sessions
                 PROVE  Earned(derived'[r], assets' \cup prepared'[r].assets,
                               qualified' \cup prepared'[r].quals)
      BY DEF DerivedEarned, Earned, Satisfied, SlotFilled
    <2>1. assets' = assets /\ qualified' = qualified
      BY <1>8 DEF store
    <2>2. CASE r = s
      BY <1>7, <1>9, <2>1, <2>2 DEF A, Q
    <2>3. CASE r # s
      BY <1>9, <2>1, <2>3 DEF CompletionInv, DerivedEarned
    <2> QED BY <2>2, <2>3
  <1> QED BY <1>10, <1>11, <1>12 DEF CompletionInv

\* Children are published below Contracts of the Store.
PlacedIn(D, b) == \A d \in b.children : Parent[d] \in D \cup {NoContract}

\* A batch that delivers publishes nothing, and qualifies what is committed.
Plain(A, b) ==
    /\ b.assets = {} \/ b.children = {}
    /\ \A q \in b.quals : q[2] \in A

\* Every way of deciding prepares a well-formed batch.
LEMMA DecisionsPrepare ==
    ASSUME TypeOK, NEW s \in Sessions,
           \/ \E c \in Contracts : Deliver(s, c)
           \/ \E v, c \in Contracts, a \in assets : DeliverAndAttest(s, v, c, a)
           \/ \E c \in Contracts, a \in assets : Attest(s, c, a)
           \/ \E c \in Contracts, D \in SUBSET Contracts : Expand(s, c, D)
           \/ \E d \in Contracts : Publish(s, d)
    PROVE  \E b \in Batches : Prepare(s, b) /\ PlacedIn(declared, b) /\ Plain(assets, b)
  <1>1. \A c \in Contracts : OutputsOf(c) \subseteq Assets
    BY DEF OutputsOf
  <1>2. \A c \in Contracts, a \in assets : {<<c, a>>} \subseteq Contracts \X Assets
    BY DEF TypeOK
  <1>3. CASE \E c \in Contracts : Deliver(s, c)
    <2> PICK c \in Contracts : Deliver(s, c)
      BY <1>3
    <2>1. [NoBatch EXCEPT !.by = c, !.assets = OutputsOf(c)] \in Batches
      BY <1>1 DEF NoBatch, Batches
    <2>2. /\ PlacedIn(declared, [NoBatch EXCEPT !.by = c, !.assets = OutputsOf(c)])
          /\ Plain(assets, [NoBatch EXCEPT !.by = c, !.assets = OutputsOf(c)])
      BY DEF PlacedIn, Plain, NoBatch, Deliver
    <2> QED BY <2>1, <2>2 DEF Deliver
  <1>4. CASE \E v, c \in Contracts, a \in assets : DeliverAndAttest(s, v, c, a)
    <2> PICK v \in Contracts, c \in Contracts, a \in assets : DeliverAndAttest(s, v, c, a)
      BY <1>4
    <2>1. [NoBatch EXCEPT !.by = v, !.assets = OutputsOf(v), !.quals = {<<c, a>>}] \in Batches
      BY <1>1, <1>2 DEF NoBatch, Batches
    <2> DEFINE b == [NoBatch EXCEPT !.by = v, !.assets = OutputsOf(v), !.quals = {<<c, a>>}]
    <2>2. b.children = {} /\ b.quals = {<<c, a>>}
      BY DEF NoBatch
    <2>3. Prepare(s, b)
      BY DEF DeliverAndAttest
    <2> HIDE DEF b
    <2>4. PlacedIn(declared, b) /\ Plain(assets, b)
      BY <2>2 DEF PlacedIn, Plain
    <2> QED BY <2>1, <2>3, <2>4 DEF b
  <1>5. CASE \E c \in Contracts, a \in assets : Attest(s, c, a)
    <2> PICK c \in Contracts, a \in assets : Attest(s, c, a)
      BY <1>5
    <2>1. [NoBatch EXCEPT !.quals = {<<c, a>>}] \in Batches
      BY <1>2 DEF NoBatch, Batches
    <2>2. /\ PlacedIn(declared, [NoBatch EXCEPT !.quals = {<<c, a>>}])
          /\ Plain(assets, [NoBatch EXCEPT !.quals = {<<c, a>>}])
      BY DEF PlacedIn, Plain, NoBatch, Attest
    <2> QED BY <2>1, <2>2 DEF Attest
  <1>6. CASE \E c \in Contracts, D \in SUBSET Contracts : Expand(s, c, D)
    <2> PICK c \in Contracts, D \in SUBSET Contracts : Expand(s, c, D)
      BY <1>6
    <2>1. [NoBatch EXCEPT !.by = c, !.children = D] \in Batches
      BY DEF NoBatch, Batches
    <2>2. /\ PlacedIn(declared, [NoBatch EXCEPT !.by = c, !.children = D])
          /\ Plain(assets, [NoBatch EXCEPT !.by = c, !.children = D])
      BY DEF PlacedIn, Plain, NoBatch, Expand
    <2> QED BY <2>1, <2>2 DEF Expand
  <1>7. CASE \E d \in Contracts : Publish(s, d)
    <2> PICK d \in Contracts : Publish(s, d)
      BY <1>7
    <2>1. [NoBatch EXCEPT !.children = {d}] \in Batches
      BY DEF NoBatch, Batches
    <2>2. /\ PlacedIn(declared, [NoBatch EXCEPT !.children = {d}])
          /\ Plain(assets, [NoBatch EXCEPT !.children = {d}])
      BY DEF PlacedIn, Plain, NoBatch, Publish
    <2> QED BY <2>1, <2>2 DEF Publish
  <1> QED BY <1>3, <1>4, <1>5, <1>6, <1>7

\* A batch that is given up leaves nothing behind.
LEMMA RollBackInv ==
    ASSUME CompletionInv, NEW s \in Sessions, RollBack(s)
    PROVE  CompletionInv'
  <1>t. TypeOK
    BY DEF CompletionInv
  <1>1. UNCHANGED <<declared, assets, qualified, terminal, submitted, climbing>>
    BY DEF RollBack, store
  <1>2. /\ prepared' = [prepared EXCEPT ![s] = NoBatch]
        /\ derived' = [derived EXCEPT ![s] = Nothing]
    BY DEF RollBack
  <1>3. /\ \A r \in Sessions : r # s => prepared'[r] = prepared[r] /\ derived'[r] = derived[r]
        /\ derived'[s] = Nothing
    BY <1>t, <1>2 DEF TypeOK
  <1>4. TypeOK'
    <2>1. derived' = [r \in Sessions |-> derived'[r]]
      BY <1>t, <1>2 DEF TypeOK
    <2>2. \A r \in Sessions : IsDerivation(derived'[r])
      BY <1>t, <1>3, NothingEarned DEF TypeOK
    <2>3. prepared' \in [Sessions -> Batches]
      BY <1>t, <1>2, NoBatchType DEF TypeOK
    <2> QED BY <1>t, <1>1, <2>1, <2>2, <2>3 DEF TypeOK, IsDerivation
  <1>5. (CompleteIsSatisfied /\ CancelledBelowComplete)'
    BY <1>1 DEF CompletionInv, CompleteIsSatisfied, CancelledBelowComplete,
                SatisfiedNow, Satisfied, SlotFilled
  <1>6. DerivedEarned'
    <2> SUFFICES ASSUME NEW r \in Sessions
                 PROVE  Earned(derived'[r], assets' \cup prepared'[r].assets,
                               qualified' \cup prepared'[r].quals)
      BY DEF DerivedEarned, Earned, Satisfied, SlotFilled
    <2>1. CASE r = s
      BY <1>3, <2>1, NothingEarned
    <2>2. CASE r # s
      BY <1>1, <1>3, <2>2 DEF CompletionInv, DerivedEarned
    <2> QED BY <2>1, <2>2
  <1> QED BY <1>4, <1>5, <1>6 DEF CompletionInv

-----------------------------------------------------------------------------
(* Steps that write terminal facts.                                         *)

\* What a commit writes: the merged derivation, earned by the new Store, and
\* nothing over an older record.
LEMMA AcceptWrites ==
    ASSUME CompletionInv, NEW s \in Sessions, Accept(s)
    PROVE  LET T == Merge(derived[s], Rederived(prepared[s]))
           IN  /\ prepared[s] \in Batches
               /\ IsDerivation(T)
               /\ Earned(T, assets', qualified')
               /\ DOMAIN Rederived(prepared[s]) \subseteq DOMAIN T
               /\ \A x \in Contracts :
                     /\ x \in DOMAIN T => terminal'[x] = T[x]
                     /\ x \notin DOMAIN T => terminal'[x] = terminal[x]
                     /\ terminal[x] # NoOutcome => terminal'[x] = terminal[x]
  <1> DEFINE b == prepared[s]
             R == Rederived(b)
             T == Merge(derived[s], R)
  <1>t. TypeOK /\ b \in Batches
    BY DEF CompletionInv, TypeOK
  <1>1. IsDerivation(R) /\ Earned(R, assets \cup b.assets, qualified)
    BY <1>t, RederivedEarned
  <1>2. /\ IsDerivation(derived[s])
        /\ Earned(derived[s], assets \cup b.assets, qualified \cup b.quals)
    BY DEF CompletionInv, TypeOK, DerivedEarned
  <1>3. assets' = assets \cup b.assets /\ qualified' = qualified \cup b.quals
    BY DEF Accept
  <1>4. Agree(derived[s], R)
    BY DEF Accept, Admissible
  <1>5. terminal' = [x \in Contracts |-> IF x \in DOMAIN T THEN T[x] ELSE terminal[x]]
    BY DEF Accept
  <1> HIDE DEF R
  <1>6. Earned(R, assets', qualified')
    <2>1. assets \cup b.assets \subseteq assets' /\ qualified \subseteq qualified'
      BY <1>3
    <2> QED BY <1>1, <2>1, EarnedMonotone
  <1>7. Earned(derived[s], assets', qualified')
    BY <1>2, <1>3
  <1>8. \A x \in DOMAIN derived[s] \cap DOMAIN R : derived[s][x] = R[x]
    BY <1>4 DEF Agree
  <1>9. Earned(T, assets', qualified') /\ IsDerivation(T)
    BY <1>1, <1>2, <1>6, <1>7, <1>8, MergeEarned, MergeType
  <1>10. DOMAIN T = DOMAIN derived[s] \cup DOMAIN R
    BY DEF Merge
  <1>11. \A x \in DOMAIN T : terminal[x] \in {NoOutcome, T[x]}
    BY <1>4, <1>10 DEF Agree
  <1> HIDE DEF T
  <1>12. \A x \in Contracts :
            /\ x \in DOMAIN T => terminal'[x] = T[x]
            /\ x \notin DOMAIN T => terminal'[x] = terminal[x]
            /\ terminal[x] # NoOutcome => terminal'[x] = terminal[x]
    BY <1>5, <1>11
  <1> QED BY <1>t, <1>9, <1>10, <1>12 DEF T, R

LEMMA AcceptInv ==
    ASSUME CompletionInv, NEW s \in Sessions, Accept(s)
    PROVE  CompletionInv'
  <1> DEFINE b == prepared[s]
             T == Merge(derived[s], Rederived(b))
  <1>t. TypeOK
    BY DEF CompletionInv
  <1>1. /\ b \in Batches
        /\ IsDerivation(T)
        /\ Earned(T, assets', qualified')
        /\ \A x \in Contracts :
              /\ x \in DOMAIN T => terminal'[x] = T[x]
              /\ x \notin DOMAIN T => terminal'[x] = terminal[x]
              /\ terminal[x] # NoOutcome => terminal'[x] = terminal[x]
    BY AcceptWrites
  <1>2. /\ declared' = declared \cup b.children
        /\ assets' = assets \cup b.assets
        /\ qualified' = qualified \cup b.quals
        /\ terminal' = [x \in Contracts |-> IF x \in DOMAIN T THEN T[x] ELSE terminal[x]]
        /\ submitted' = submitted \cup ({b.by} \ {NoContract})
        /\ prepared' = [prepared EXCEPT ![s] = NoBatch]
        /\ derived' = [derived EXCEPT ![s] = Nothing]
        /\ climbing' = climbing
    BY DEF Accept
  <1> HIDE DEF T
  <1>3. /\ \A r \in Sessions : r # s => prepared'[r] = prepared[r] /\ derived'[r] = derived[r]
        /\ derived'[s] = Nothing
    BY <1>t, <1>2 DEF TypeOK
  <1>4. TypeOK'
    <2>1. derived' = [r \in Sessions |-> derived'[r]]
      BY <1>t, <1>2 DEF TypeOK
    <2>2. \A r \in Sessions : IsDerivation(derived'[r])
      BY <1>t, <1>3, NothingEarned DEF TypeOK
    <2>3. prepared' \in [Sessions -> Batches]
      BY <1>t, <1>2, NoBatchType DEF TypeOK
    <2>4. terminal' \in [Contracts -> Outcomes \cup {NoOutcome}]
      BY <1>t, <1>1, <1>2 DEF TypeOK, IsDerivation
    <2>5. /\ declared' \subseteq Contracts /\ assets' \subseteq Assets
          /\ qualified' \subseteq Contracts \X Assets /\ submitted' \subseteq Contracts
      BY <1>t, <1>1, <1>2 DEF TypeOK, Batches
    <2>6. climbing' \in [Sessions -> Contracts \cup {NoContract}]
      BY <1>t, <1>2 DEF TypeOK
    <2> QED BY <2>1, <2>2, <2>3, <2>4, <2>5, <2>6 DEF TypeOK, IsDerivation
  <1>5. CompleteIsSatisfied'
    <2> SUFFICES ASSUME NEW c \in Contracts, terminal'[c].what = "complete"
                 PROVE  Satisfied(c, assets', qualified')
      BY DEF CompleteIsSatisfied, SatisfiedNow, Satisfied, SlotFilled
    <2>1. CASE c \in DOMAIN T
      BY <1>1, <2>1 DEF Earned
    <2>2. CASE c \notin DOMAIN T
      <3>1. Satisfied(c, assets, qualified)
        BY <1>1, <2>2 DEF CompletionInv, CompleteIsSatisfied, SatisfiedNow
      <3>2. assets \subseteq assets' /\ qualified \subseteq qualified'
        BY <1>2
      <3> QED BY <3>1, <3>2, SatisfiedMonotone
    <2> QED BY <2>1, <2>2
  <1>6. CancelledBelowComplete'
    <2> SUFFICES ASSUME NEW x \in Contracts, terminal'[x].what = "cancelled"
                 PROVE  \E p \in Ancestors[x] : terminal'[p].what = "complete"
      BY DEF CancelledBelowComplete
    <2>1. \A p \in Ancestors[x] : p \in Contracts
      BY ForestAssumption
    <2>2. CASE x \in DOMAIN T
      BY <1>1, <2>1, <2>2 DEF Earned
    <2>3. CASE x \notin DOMAIN T
      <3>1. PICK p \in Ancestors[x] : terminal[p].what = "complete"
        BY <1>1, <2>3 DEF CompletionInv, CancelledBelowComplete
      <3>2. terminal[p] # NoOutcome
        BY <3>1 DEF NoOutcome
      <3> QED BY <1>1, <2>1, <3>1, <3>2
    <2> QED BY <2>2, <2>3
  <1>7. DerivedEarned'
    <2> SUFFICES ASSUME NEW r \in Sessions
                 PROVE  Earned(derived'[r], assets' \cup prepared'[r].assets,
                               qualified' \cup prepared'[r].quals)
      BY DEF DerivedEarned, Earned, Satisfied, SlotFilled
    <2>1. CASE r = s
      BY <1>3, <2>1, NothingEarned
    <2>2. CASE r # s
      <3>1. Earned(derived[r], assets \cup prepared[r].assets,
                   qualified \cup prepared[r].quals)
        BY DEF CompletionInv, DerivedEarned
      <3>2. /\ assets \cup prepared[r].assets \subseteq assets' \cup prepared[r].assets
            /\ qualified \cup prepared[r].quals \subseteq qualified' \cup prepared[r].quals
        BY <1>2
      <3>3. Earned(derived[r], assets' \cup prepared[r].assets,
                   qualified' \cup prepared[r].quals)
        BY <3>1, <3>2, EarnedMonotone
      <3> QED BY <1>3, <2>2, <3>3
    <2> QED BY <2>1, <2>2
  <1> QED BY <1>4, <1>5, <1>6, <1>7 DEF CompletionInv

\* A step that touches terminal facts only, writes no cancellation, overwrites
\* nothing, and completes only what is satisfied.
LEMMA LoneTerminalInv ==
    ASSUME CompletionInv, TypeOK',
           UNCHANGED <<declared, assets, qualified, submitted, prepared, derived>>,
           \A x \in Contracts :
              \/ terminal'[x] = terminal[x]
              \/ /\ terminal[x] = NoOutcome
                 /\ terminal'[x].what # "cancelled"
                 /\ terminal'[x].what = "complete" => SatisfiedNow(x)
    PROVE  CompletionInv'
  <1>1. CompleteIsSatisfied'
    BY DEF CompletionInv, CompleteIsSatisfied, SatisfiedNow, Satisfied, SlotFilled
  <1>2. CancelledBelowComplete'
    <2> SUFFICES ASSUME NEW x \in Contracts, terminal'[x].what = "cancelled"
                 PROVE  \E p \in Ancestors[x] : terminal'[p].what = "complete"
      BY DEF CancelledBelowComplete
    <2>1. PICK p \in Ancestors[x] : terminal[p].what = "complete"
      BY DEF CompletionInv, CancelledBelowComplete
    <2>2. p \in Contracts /\ terminal[p] # NoOutcome
      BY <2>1, ForestAssumption DEF NoOutcome
    <2> QED BY <2>1, <2>2
  <1>3. DerivedEarned'
    BY DEF CompletionInv, DerivedEarned, Earned, Satisfied, SlotFilled
  <1> QED BY <1>1, <1>2, <1>3 DEF CompletionInv

LEMMA AbortInv ==
    ASSUME CompletionInv, NEW c \in Contracts, Abort(c)
    PROVE  CompletionInv'
  <1>t. TypeOK
    BY DEF CompletionInv
  <1>1. TypeOK'
    BY <1>t DEF Abort, TypeOK, Outcomes, IsDerivation
  <1>2. \A x \in Contracts :
           \/ terminal'[x] = terminal[x]
           \/ terminal[x] = NoOutcome /\ terminal'[x].what = "failed"
    BY <1>t DEF Abort, TypeOK
  <1> QED BY <1>1, <1>2, LoneTerminalInv DEF Abort

LEMMA ClimbInv ==
    ASSUME CompletionInv, NEW s \in Sessions, Climb(s)
    PROVE  CompletionInv'
  <1> DEFINE c == climbing[s]
             done == [what |-> "complete", cause |-> NoContract]
  <1>t. TypeOK
    BY DEF CompletionInv
  <1>1. /\ c \in Contracts
        /\ UNCHANGED <<declared, assets, qualified, submitted, prepared, derived>>
    BY <1>t DEF Climb, TypeOK
  <1>2. CASE /\ SatisfiedNow(c)
             /\ terminal' = [terminal EXCEPT ![c] = IF @ = NoOutcome THEN done ELSE @]
             /\ climbing' = [climbing EXCEPT ![s] = Parent[c]]
    <2>1. \A x \in Contracts :
             \/ terminal'[x] = terminal[x]
             \/ x = c /\ terminal[x] = NoOutcome /\ terminal'[x] = done
      BY <1>t, <1>2 DEF TypeOK
    <2>2. TypeOK'
      <3>1. Parent[c] \in Contracts \cup {NoContract} /\ done \in Outcomes
        BY <1>1, ForestAssumption DEF Outcomes
      <3> QED BY <1>t, <1>1, <1>2, <3>1 DEF TypeOK, IsDerivation
    <2> QED BY <1>1, <1>2, <2>1, <2>2, LoneTerminalInv
  <1>3. CASE climbing' = [climbing EXCEPT ![s] = NoContract] /\ UNCHANGED terminal
    <2>1. TypeOK'
      BY <1>t, <1>1, <1>3 DEF TypeOK, IsDerivation
    <2> QED BY <1>1, <1>3, <2>1, LoneTerminalInv
  <1> QED BY <1>2, <1>3 DEF Climb

LEMMA StartClimbInv ==
    ASSUME CompletionInv, NEW s \in Sessions, NEW m \in Contracts, StartClimb(s, m)
    PROVE  CompletionInv'
  <1>t. TypeOK
    BY DEF CompletionInv
  <1>1. UNCHANGED <<declared, assets, qualified, terminal, submitted, prepared, derived>>
    BY DEF StartClimb, store
  <1>2. Parent[m] \in Contracts \cup {NoContract}
    BY ForestAssumption
  <1>3. TypeOK'
    BY <1>t, <1>1, <1>2 DEF StartClimb, TypeOK, IsDerivation
  <1> QED BY <1>1, <1>3, LoneTerminalInv

LEMMA NextCompletion == CompletionInv /\ [Next]_vars => CompletionInv'
  <1> SUFFICES ASSUME CompletionInv, [Next]_vars PROVE CompletionInv'
    OBVIOUS
  <1>1. CASE UNCHANGED vars
    <2>1. /\ UNCHANGED <<declared, assets, qualified, terminal, submitted>>
          /\ UNCHANGED <<prepared, derived, climbing>>
      BY <1>1 DEF vars, store
    <2>2. TypeOK'
      BY <2>1 DEF CompletionInv, TypeOK, IsDerivation
    <2> QED BY <2>1, <2>2, LoneTerminalInv
  <1>2. ASSUME NEW s \in Sessions, Step(s)
        PROVE  CompletionInv'
    <2>t. TypeOK
      BY DEF CompletionInv
    <2>1. CASE \E b \in Batches : Prepare(s, b)
      BY <2>1, PrepareInv
    <2>2. CASE Accept(s)
      BY <2>2, AcceptInv
    <2>3. CASE RollBack(s)
      BY <2>3, RollBackInv
    <2>4. CASE \E m \in Contracts : StartClimb(s, m)
      BY <2>4, StartClimbInv
    <2>5. CASE Climb(s)
      BY <2>5, ClimbInv
    <2> QED BY <1>2, <2>t, <2>1, <2>2, <2>3, <2>4, <2>5, DecisionsPrepare DEF Step
  <1>3. ASSUME NEW c \in Contracts, Abort(c)
        PROVE  CompletionInv'
    BY <1>3, AbortInv
  <1> QED BY <1>1, <1>2, <1>3 DEF Next

-----------------------------------------------------------------------------
(* The theorems.                                                            *)

LEMMA CompletionInvariant == Spec => []CompletionInv
  BY InitCompletion, NextCompletion, PTL DEF Spec

\* Every state of the Store and of the processes has its type.
THEOREM CompletionTypeCorrect == Spec => []TypeOK
  <1>1. CompletionInv => TypeOK
    BY DEF CompletionInv
  <1> QED BY <1>1, CompletionInvariant, PTL

\* A Contract is complete only when all of its outputs are in their slots,
\* although the completion may have been derived long before it was committed.
THEOREM CompletionsAreEarned == Spec => []CompleteIsSatisfied
  <1>1. CompletionInv => CompleteIsSatisfied
    BY DEF CompletionInv
  <1> QED BY <1>1, CompletionInvariant, PTL

\* The runtime cancels work only below a Contract that did complete.
THEOREM CancellationsHaveCause == Spec => []CancelledBelowComplete
  <1>1. CompletionInv => CancelledBelowComplete
    BY DEF CompletionInv
  <1> QED BY <1>1, CompletionInvariant, PTL

-----------------------------------------------------------------------------
(* Convergence: why the second reduction under the lock is enough for every *)
(* Contract that is accepted mechanically.                                  *)

LEMMA OnlyAcceptAdds ==
    ASSUME TypeOK, Next, ~(\E s \in Sessions : Accept(s))
    PROVE  UNCHANGED <<declared, assets, qualified>>
  <1>1. ASSUME NEW s \in Sessions, Step(s)
        PROVE  UNCHANGED <<declared, assets, qualified>>
    <2>1. CASE \E b \in Batches : Prepare(s, b)
      BY <2>1 DEF Prepare, store
    <2>2. CASE RollBack(s)
      BY <2>2 DEF RollBack, store
    <2>3. CASE \E m \in Contracts : StartClimb(s, m)
      BY <2>3 DEF StartClimb, store
    <2>4. CASE Climb(s)
      BY <2>4 DEF Climb
    <2> QED BY <1>1, <2>1, <2>2, <2>3, <2>4, DecisionsPrepare DEF Step
  <1>2. ASSUME NEW c \in Contracts, Abort(c)
        PROVE  UNCHANGED <<declared, assets, qualified>>
    BY <1>2 DEF Abort
  <1> QED BY <1>1, <1>2 DEF Next

\* The locked reduction sees every Asset committed so far, so it completes the
\* Contract whose last slot this batch fills.
LEMMA AcceptTerminates ==
    ASSUME CompletionInv, NEW s \in Sessions, Accept(s),
           NEW c \in declared \ Independent, ~SatisfiedNow(c), SatisfiedNow(c)'
    PROVE  terminal'[c] # NoOutcome
  <1> DEFINE b == prepared[s]
             T == Merge(derived[s], Rederived(b))
             A == assets \cup b.assets
  <1>t. TypeOK
    BY DEF CompletionInv
  <1>1. /\ b \in Batches
        /\ IsDerivation(T)
        /\ DOMAIN Rederived(b) \subseteq DOMAIN T
        /\ \A x \in Contracts :
              /\ x \in DOMAIN T => terminal'[x] = T[x]
              /\ terminal[x] # NoOutcome => terminal'[x] = terminal[x]
    BY AcceptWrites
  <1>2. assets' = A
    BY DEF Accept
  <1>3. PICK n \in Outputs[c] : ~SlotFilled(c, n, assets, qualified)
    BY DEF SatisfiedNow, Satisfied
  <1>4. \A m \in Outputs[c] : \E a \in A : a.name = m /\ (c \in System => a.by = c)
    BY <1>2 DEF SatisfiedNow, Satisfied, SlotFilled
  <1>5. Satisfied(c, A, qualified)
    BY <1>4 DEF Satisfied, SlotFilled
  <1>6. \E a \in b.assets : a.name \in Outputs[c]
    BY <1>3, <1>4 DEF SlotFilled
  <1>7. c \in Contracts
    BY <1>t DEF TypeOK
  <1>8. CASE terminal[c] # NoOutcome
    BY <1>1, <1>7, <1>8
  <1>9. CASE terminal[c] = NoOutcome
    <2>1. c \in Filled(b)
      BY <1>5, <1>6, <1>9 DEF Filled
    <2>2. Rederived(b) = AssetConsequences(b)
      BY <1>6 DEF Rederived
    <2>4. WalkShape(AssetConsequences(b), Filled(b), {})
      BY <1>t, <1>1, AssetWalks
    <2>5. c \in DOMAIN T
      BY <1>1, <2>1, <2>2, <2>4 DEF WalkShape
    <2> HIDE DEF T
    <2>6. terminal'[c] \in Outcomes
      BY <1>1, <1>7, <2>5 DEF IsDerivation
    <2> QED BY <2>6 DEF Outcomes, NoOutcome
  <1> QED BY <1>8, <1>9

\* Two Candidates that deliver different outputs of a mechanically accepted
\* Contract never leave it output-complete and unterminated.
THEOREM OutputsConverge == Spec => DirectOutputsTerminate
  <1>1. CompletionInv /\ [Next]_vars =>
            [~LeavesUnterminated(Contracts \ Independent)]_vars
    <2> SUFFICES ASSUME CompletionInv, Next,
                        NEW c \in declared \cap (Contracts \ Independent),
                        ~SatisfiedNow(c), SatisfiedNow(c)', terminal'[c] = NoOutcome
                 PROVE  FALSE
      BY DEF LeavesUnterminated
    <2>1. CASE \E s \in Sessions : Accept(s)
      BY <2>1, AcceptTerminates
    <2>2. CASE ~(\E s \in Sessions : Accept(s))
      <3>1. assets' = assets /\ qualified' = qualified
        BY <2>2, OnlyAcceptAdds DEF CompletionInv
      <3> QED BY <3>1 DEF SatisfiedNow, Satisfied, SlotFilled
    <2> QED BY <2>1, <2>2
  <1> QED BY <1>1, CompletionInvariant, PTL DEF Spec, DirectOutputsTerminate

\* A slot of an independently accepted Contract never holds two Assets, however
\* many verifiers attest at once.
THEOREM SlotsHoldOneAsset == Spec => []OneAssetPerSlot
  <1>1. Init => OneAssetPerSlot
    BY DEF Init, OneAssetPerSlot
  <1>2. CompletionInv /\ OneAssetPerSlot /\ [Next]_vars => OneAssetPerSlot'
    <2> SUFFICES ASSUME CompletionInv, OneAssetPerSlot, [Next]_vars
                 PROVE  OneAssetPerSlot'
      OBVIOUS
    <2>1. ASSUME NEW s \in Sessions, Accept(s)
          PROVE  OneAssetPerSlot'
      <3>1. /\ qualified' = qualified \cup prepared[s].quals
            /\ SlotsFree(prepared[s])
        BY <2>1 DEF Accept, Admissible
      <3> QED BY <3>1 DEF OneAssetPerSlot, SlotsFree
    <2>2. ASSUME Next, ~(\E s \in Sessions : Accept(s))
          PROVE  OneAssetPerSlot'
      <3>1. qualified' = qualified
        BY <2>2, OnlyAcceptAdds DEF CompletionInv
      <3> QED BY <3>1 DEF OneAssetPerSlot
    <2>3. CASE UNCHANGED vars
      BY <2>3 DEF vars, store, OneAssetPerSlot
    <2> QED BY <2>1, <2>2, <2>3
  <1> QED BY <1>1, <1>2, CompletionInvariant, PTL DEF Spec
-----------------------------------------------------------------------------
(* Verifiers: what a walk cancels is no longer waited for.  A walk that     *)
(* passes a Contract either ends it or finds it satisfied, because the walk *)
(* reaches whatever lies between its start and a Contract it reaches.       *)

\* The Store holds a Contract with all the Contracts above it.
Rooted == \A c \in declared : Ancestors[c] \subseteq declared

BatchesPlaced == \A s \in Sessions : PlacedIn(declared, prepared[s])

\* Whoever waits for a verifier cancelled by T is ended by T, has ended before
\* (by the terminal records t), or has its outputs.
Spares(T, t, A, Q) ==
    \A v \in DOMAIN T : T[v].what = "cancelled" =>
        \A i \in Verifies[v] \cap Ancestors[v] :
            i \in DOMAIN T \/ t[i] # NoOutcome \/ Satisfied(i, A, Q)

DerivedSpares ==
    \A s \in Sessions :
        Spares(derived[s], terminal, assets \cup prepared[s].assets,
               qualified \cup prepared[s].quals)

WaitInv == Rooted /\ BatchesPlaced /\ DerivedSpares

LEMMA SparesMonotone ==
    ASSUME NEW T, NEW t, NEW A, NEW Q, NEW u, NEW B, NEW R,
           IsDerivation(T), A \subseteq B, Q \subseteq R,
           \A x \in Contracts : t[x] # NoOutcome => u[x] # NoOutcome,
           Spares(T, t, A, Q)
    PROVE  Spares(T, u, B, R)
  <1> SUFFICES ASSUME NEW v \in DOMAIN T, T[v].what = "cancelled",
                      NEW i \in Verifies[v] \cap Ancestors[v],
                      i \notin DOMAIN T, ~Satisfied(i, B, R)
               PROVE  u[i] # NoOutcome
    BY DEF Spares
  <1>1. i \in Contracts
    BY ForestAssumption DEF IsDerivation
  <1>2. ~Satisfied(i, A, Q)
    BY SatisfiedMonotone
  <1> QED BY <1>1, <1>2 DEF Spares

\* One walk: whoever waits for x above its parent ended, or has its outputs, or
\* is passed by the walk itself.
LEMMA UnreachablePasses ==
    ASSUME TypeOK, Rooted, NEW p \in declared, NEW known, NEW A,
           NEW x \in Unreachable(p, known, A),
           NEW i \in Verifies[x] \cap Ancestors[x],
           ~Ended(i, known), i # p, ~Satisfied(i, A, qualified)
    PROVE  i \in Unreachable(p, known, A)
  <1>1. /\ x \in declared /\ x \in Contracts
        /\ p \in Ancestors[x]
        /\ ~Ended(x, known)
    BY DEF Unreachable, TypeOK
  <1>2. \A y \in declared :
            p \in Ancestors[y] /\ Within(x, y) /\ ~Ended(y, known)
            => ~KeptForVerification(y, p, known, A)
    BY DEF Unreachable
  <1>3. i \in declared
    BY <1>1 DEF Rooted
  <1>4. p \in Ancestors[i]
    <2>1. ~KeptForVerification(x, p, known, A)
      BY <1>1, <1>2 DEF Within
    <2>2. Parent[x] # NoContract /\ Ancestors[x] = {Parent[x]} \cup Ancestors[Parent[x]]
      BY <1>1, ForestAssumption
    <2>3. CASE i = Parent[x]
      BY <1>1, <2>2, <2>3
    <2>4. CASE i # Parent[x]
      BY <2>1, <2>2, <2>4 DEF KeptForVerification
    <2> QED BY <2>3, <2>4
  <1>5. \A y \in declared :
            p \in Ancestors[y] /\ Within(i, y) /\ ~Ended(y, known)
            => ~KeptForVerification(y, p, known, A)
    <2>1. \A y \in declared : Within(i, y) => Within(x, y)
      BY <1>1, ForestAssumption DEF Within
    <2> QED BY <1>2, <2>1
  <1> QED BY <1>3, <1>4, <1>5 DEF Unreachable

LEMMA FencedSpares ==
    ASSUME TypeOK, Rooted, NEW done \in SUBSET declared, NEW known, NEW A, NEW cause, NEW K,
           \A p \in done : known[p] \subseteq K \cup done,
           NEW v \in DOMAIN Fenced(done, known, cause, A),
           Fenced(done, known, cause, A)[v].what = "cancelled",
           NEW i \in Verifies[v] \cap Ancestors[v]
    PROVE  \/ i \in DOMAIN Fenced(done, known, cause, A)
           \/ i \in K
           \/ terminal[i] # NoOutcome
           \/ Satisfied(i, A, qualified)
  <1> DEFINE gone == UNION {Unreachable(p, known[p], A) : p \in done}
  <1>1. DOMAIN Fenced(done, known, cause, A) = done \cup gone
    BY DEF Fenced
  <1>2. v \in done => Fenced(done, known, cause, A)[v].what = "complete"
    BY DEF Fenced
  <1>3. v \in gone
    BY <1>1, <1>2
  <1>4. PICK p \in done : v \in Unreachable(p, known[p], A)
    BY <1>3
  <1>5. CASE Ended(i, known[p])
    BY <1>1, <1>5 DEF Ended
  <1>6. CASE i = p
    BY <1>1, <1>6
  <1>7. CASE Satisfied(i, A, qualified)
    BY <1>7
  <1>8. CASE ~Ended(i, known[p]) /\ i # p /\ ~Satisfied(i, A, qualified)
    <2>1. i \in Unreachable(p, known[p], A)
      BY <1>4, <1>8, UnreachablePasses
    <2> QED BY <1>1, <2>1
  <1> QED BY <1>5, <1>6, <1>7, <1>8

\* The two reductions of a batch, and their union, spare whoever still waits.
LEMMA AssetsSpare ==
    ASSUME TypeOK, Rooted, NEW b \in Batches
    PROVE  Spares(AssetConsequences(b), terminal, assets \cup b.assets, qualified)
  <1> DEFINE A == assets \cup b.assets
             D == Filled(b)
             known == KnownTo(b)
  <1>1. /\ AssetConsequences(b) = Fenced(D, known, b.by, A)
        /\ \A p \in D : known[p] \subseteq {} \cup D
    BY AssetWalks
  <1>2. D \in SUBSET declared
    BY DEF Filled
  <1> HIDE DEF D, A, known
  <1>3. Spares(Fenced(D, known, b.by, A), terminal, A, qualified)
    <2> SUFFICES ASSUME NEW v \in DOMAIN Fenced(D, known, b.by, A),
                        Fenced(D, known, b.by, A)[v].what = "cancelled",
                        NEW i \in Verifies[v] \cap Ancestors[v]
                 PROVE  \/ i \in DOMAIN Fenced(D, known, b.by, A)
                        \/ terminal[i] # NoOutcome
                        \/ Satisfied(i, A, qualified)
      BY DEF Spares
    <2>1. \/ i \in DOMAIN Fenced(D, known, b.by, A)
          \/ i \in {}
          \/ terminal[i] # NoOutcome
          \/ Satisfied(i, A, qualified)
      BY <1>1, <1>2, FencedSpares
    <2> QED BY <2>1
  <1> QED BY <1>1, <1>3 DEF A

LEMMA MergeSpares ==
    ASSUME NEW T, NEW U, NEW t, NEW A, NEW Q, Spares(T, t, A, Q),
           \A v \in DOMAIN U : U[v].what = "cancelled" =>
              \A i \in Verifies[v] \cap Ancestors[v] :
                 \/ i \in DOMAIN T \cup DOMAIN U
                 \/ t[i] # NoOutcome
                 \/ Satisfied(i, A, Q)
    PROVE  Spares(Merge(T, U), t, A, Q)
  <1> DEFINE M == Merge(T, U)
  <1>1. DOMAIN M = DOMAIN T \cup DOMAIN U
    BY DEF Merge
  <1>2. \A x \in DOMAIN M : \/ x \in DOMAIN T /\ M[x] = T[x]
                            \/ x \in DOMAIN U /\ M[x] = U[x]
    BY DEF Merge
  <1> HIDE DEF M
  <1>3. Spares(M, t, A, Q)
    BY <1>1, <1>2 DEF Spares
  <1> QED BY <1>3 DEF M

LEMMA DecisionSpares ==
    ASSUME TypeOK, Rooted, NEW b \in Batches
    PROVE  LET T == AssetConsequences(b)
           IN  Spares(Merge(T, QualificationConsequences(b, T)), terminal,
                      assets \cup b.assets, qualified \cup b.quals)
  <1> DEFINE T == AssetConsequences(b)
             U == QualificationConsequences(b, T)
             A == assets \cup b.assets
             Q == qualified \cup b.quals
             done == {c \in declared \ DOMAIN T :
                        /\ terminal[c] = NoOutcome
                        /\ \E q \in b.quals : q[1] = c
                        /\ Satisfied(c, assets, Q)}
             known == [p \in done |-> DOMAIN T \cup done]
  <1>1. Spares(T, terminal, A, qualified) /\ IsDerivation(T)
    BY AssetsSpare, AssetsEarn
  <1>2. U = Fenced(done, known, NoContract, assets)
    BY DEF QualificationConsequences
  <1>3. done \in SUBSET declared
    OBVIOUS
  <1> HIDE DEF T, U
  <1>4. assets \subseteq A /\ qualified \subseteq Q
    OBVIOUS
  <1> HIDE DEF A, Q
  <1>5. Spares(T, terminal, A, Q)
    <2>1. A \subseteq A
      OBVIOUS
    <2> QED BY <1>1, <1>4, <2>1, SparesMonotone
  <1> DEFINE K == DOMAIN T
  <1>6. \A p \in done : known[p] \subseteq K \cup done
    OBVIOUS
  <1> HIDE DEF K, done, known
  <1>7. \A v \in DOMAIN U : U[v].what = "cancelled" =>
            \A i \in Verifies[v] \cap Ancestors[v] :
               \/ i \in K \cup DOMAIN U
               \/ terminal[i] # NoOutcome
               \/ Satisfied(i, assets, qualified)
    BY <1>2, <1>3, <1>6, FencedSpares
  <1>8. \A i : Satisfied(i, assets, qualified) => Satisfied(i, A, Q)
    BY <1>4, SatisfiedMonotone
  <1>9. \A v \in DOMAIN U : U[v].what = "cancelled" =>
            \A i \in Verifies[v] \cap Ancestors[v] :
               \/ i \in DOMAIN T \cup DOMAIN U
               \/ terminal[i] # NoOutcome
               \/ Satisfied(i, A, Q)
    BY <1>7, <1>8 DEF K
  <1>10. Spares(Merge(T, U), terminal, A, Q)
    BY <1>5, <1>9, MergeSpares
  <1> QED BY <1>10 DEF A, Q, T, U

LEMMA NothingSpares == \A t, A, Q : Spares(Nothing, t, A, Q)
  BY NothingEarned DEF Spares

LEMMA InitWait == Init => WaitInv
  <1> SUFFICES ASSUME Init PROVE WaitInv
    OBVIOUS
  <1>1. Rooted
    BY ContractsAssumption DEF Init, Rooted
  <1>2. BatchesPlaced
    BY DEF Init, BatchesPlaced, PlacedIn, NoBatch
  <1>3. DerivedSpares
    BY NothingSpares DEF Init, DerivedSpares
  <1> QED BY <1>1, <1>2, <1>3 DEF WaitInv

\* A terminal record is never lost or changed.
LEMMA TerminalsStay ==
    ASSUME CompletionInv, [Next]_vars, NEW x \in Contracts, terminal[x] # NoOutcome
    PROVE  terminal'[x] = terminal[x]
  <1>t. TypeOK
    BY DEF CompletionInv
  <1>1. ASSUME NEW s \in Sessions, Step(s)
        PROVE  terminal'[x] = terminal[x]
    <2>1. CASE \E b \in Batches : Prepare(s, b)
      BY <2>1 DEF Prepare, store
    <2>2. CASE Accept(s)
      BY <2>2, AcceptWrites
    <2>3. CASE RollBack(s)
      BY <2>3 DEF RollBack, store
    <2>4. CASE \E m \in Contracts : StartClimb(s, m)
      BY <2>4 DEF StartClimb, store
    <2>5. CASE Climb(s)
      BY <1>t, <2>5 DEF Climb, TypeOK
    <2> QED BY <1>1, <1>t, <2>1, <2>2, <2>3, <2>4, <2>5, DecisionsPrepare DEF Step
  <1>2. ASSUME NEW c \in Contracts, Abort(c)
        PROVE  terminal'[x] = terminal[x]
    BY <1>2, <1>t DEF Abort, TypeOK
  <1>3. CASE UNCHANGED vars
    BY <1>3 DEF vars, store
  <1> QED BY <1>1, <1>2, <1>3 DEF Next

\* A process whose batch is unchanged keeps the invariant while the Store grows.
LEMMA BatchStands ==
    ASSUME CompletionInv, WaitInv, [Next]_vars, NEW r \in Sessions,
           prepared'[r] = prepared[r], derived'[r] = derived[r],
           declared \subseteq declared', assets \subseteq assets',
           qualified \subseteq qualified'
    PROVE  /\ PlacedIn(declared', prepared'[r])
           /\ Spares(derived'[r], terminal', assets' \cup prepared'[r].assets,
                     qualified' \cup prepared'[r].quals)
  <1>1. PlacedIn(declared', prepared'[r])
    BY DEF WaitInv, BatchesPlaced, PlacedIn
  <1>2. \A x \in Contracts : terminal[x] # NoOutcome => terminal'[x] # NoOutcome
    BY TerminalsStay
  <1>3. IsDerivation(derived[r])
    BY DEF CompletionInv, TypeOK
  <1>4. /\ assets \cup prepared[r].assets \subseteq assets' \cup prepared[r].assets
        /\ qualified \cup prepared[r].quals \subseteq qualified' \cup prepared[r].quals
    OBVIOUS
  <1>5. Spares(derived[r], terminal, assets \cup prepared[r].assets,
               qualified \cup prepared[r].quals)
    BY DEF WaitInv, DerivedSpares
  <1>6. Spares(derived[r], terminal', assets' \cup prepared[r].assets,
               qualified' \cup prepared[r].quals)
    BY <1>2, <1>3, <1>4, <1>5, SparesMonotone
  <1> QED BY <1>1, <1>6

LEMMA QuietWait ==
    ASSUME CompletionInv, WaitInv, [Next]_vars,
           UNCHANGED <<declared, assets, qualified, prepared, derived>>
    PROVE  WaitInv'
  <1>1. \A r \in Sessions :
           /\ PlacedIn(declared', prepared'[r])
           /\ Spares(derived'[r], terminal', assets' \cup prepared'[r].assets,
                     qualified' \cup prepared'[r].quals)
    BY BatchStands
  <1>2. Rooted'
    BY DEF WaitInv, Rooted
  <1> QED BY <1>1, <1>2 DEF WaitInv, BatchesPlaced, DerivedSpares, PlacedIn,
                            Spares, Satisfied, SlotFilled

LEMMA PrepareWait ==
    ASSUME CompletionInv, WaitInv, Next, NEW s \in Sessions, NEW b \in Batches,
           Prepare(s, b), PlacedIn(declared, b)
    PROVE  WaitInv'
  <1> DEFINE T == AssetConsequences(b)
             M == Merge(T, QualificationConsequences(b, T))
  <1>t. TypeOK
    BY DEF CompletionInv
  <1>1. Spares(M, terminal, assets \cup b.assets, qualified \cup b.quals)
    BY <1>t, DecisionSpares DEF WaitInv
  <1>2. /\ prepared' = [prepared EXCEPT ![s] = b]
        /\ derived' = [derived EXCEPT ![s] = M]
        /\ UNCHANGED <<declared, assets, qualified, terminal>>
    BY DEF Prepare, store
  <1> HIDE DEF M
  <1>3. /\ prepared'[s] = b /\ derived'[s] = M
        /\ \A r \in Sessions : r # s =>
              prepared'[r] = prepared[r] /\ derived'[r] = derived[r]
    BY <1>t, <1>2 DEF TypeOK
  <1>4. \A r \in Sessions :
           /\ PlacedIn(declared', prepared'[r])
           /\ Spares(derived'[r], terminal', assets' \cup prepared'[r].assets,
                     qualified' \cup prepared'[r].quals)
    <2> TAKE r \in Sessions
    <2>1. CASE r = s
      BY <1>1, <1>2, <1>3, <2>1
    <2>2. CASE r # s
      BY <1>2, <1>3, <2>2, BatchStands
    <2> QED BY <2>1, <2>2
  <1>5. Rooted'
    BY <1>2 DEF WaitInv, Rooted
  <1> QED BY <1>4, <1>5 DEF WaitInv, BatchesPlaced, DerivedSpares, PlacedIn,
                            Spares, Satisfied, SlotFilled

\* What a commit writes spares whoever still waits.
LEMMA AcceptSpares ==
    ASSUME CompletionInv, WaitInv, NEW s \in Sessions, Accept(s)
    PROVE  Spares(Merge(derived[s], Rederived(prepared[s])), terminal, assets', qualified')
  <1> DEFINE b == prepared[s]
             R == Rederived(b)
  <1>t. TypeOK /\ b \in Batches
    BY DEF CompletionInv, TypeOK
  <1>1. Spares(R, terminal, assets \cup b.assets, qualified) /\ IsDerivation(R)
    BY <1>t, AssetsSpare, NothingSpares, RederivedEarned DEF WaitInv, Rederived
  <1>2. assets' = assets \cup b.assets /\ qualified' = qualified \cup b.quals
    BY DEF Accept
  <1>3. Spares(derived[s], terminal, assets', qualified')
    BY <1>2 DEF WaitInv, DerivedSpares
  <1> HIDE DEF R
  <1>4. Spares(R, terminal, assets', qualified')
    <2>1. assets \cup b.assets \subseteq assets' /\ qualified \subseteq qualified'
      BY <1>2
    <2> QED BY <1>1, <2>1, SparesMonotone
  <1>5. \A v \in DOMAIN R : R[v].what = "cancelled" =>
           \A i \in Verifies[v] \cap Ancestors[v] :
              \/ i \in DOMAIN derived[s] \cup DOMAIN R
              \/ terminal[i] # NoOutcome
              \/ Satisfied(i, assets', qualified')
    BY <1>4 DEF Spares
  <1>6. Spares(Merge(derived[s], R), terminal, assets', qualified')
    BY <1>3, <1>5, MergeSpares
  <1> QED BY <1>6 DEF R

LEMMA AcceptWait ==
    ASSUME CompletionInv, WaitInv, Next, NEW s \in Sessions, Accept(s)
    PROVE  WaitInv'
  <1> DEFINE b == prepared[s]
  <1>t. TypeOK /\ b \in Batches
    BY DEF CompletionInv, TypeOK
  <1>1. /\ declared' = declared \cup b.children
        /\ assets' = assets \cup b.assets
        /\ qualified' = qualified \cup b.quals
        /\ prepared' = [prepared EXCEPT ![s] = NoBatch]
        /\ derived' = [derived EXCEPT ![s] = Nothing]
    BY DEF Accept
  <1>2. /\ prepared'[s] = NoBatch /\ derived'[s] = Nothing
        /\ \A r \in Sessions : r # s =>
              prepared'[r] = prepared[r] /\ derived'[r] = derived[r]
    BY <1>t, <1>1 DEF TypeOK
  <1>3. \A r \in Sessions :
           /\ PlacedIn(declared', prepared'[r])
           /\ Spares(derived'[r], terminal', assets' \cup prepared'[r].assets,
                     qualified' \cup prepared'[r].quals)
    <2> TAKE r \in Sessions
    <2>1. CASE r = s
      BY <1>2, <2>1, NothingSpares DEF PlacedIn, NoBatch
    <2>2. CASE r # s
      BY <1>1, <1>2, <2>2, BatchStands
    <2> QED BY <2>1, <2>2
  <1>4. Rooted'
    <2> SUFFICES ASSUME NEW c \in declared' PROVE Ancestors[c] \subseteq declared'
      BY DEF Rooted
    <2>1. CASE c \in declared
      BY <1>1, <2>1 DEF WaitInv, Rooted
    <2>2. CASE c \in b.children
      <3>1. c \in Contracts /\ Parent[c] \in declared \cup {NoContract}
        BY <1>t, <2>2 DEF Batches, WaitInv, BatchesPlaced, PlacedIn
      <3>2. CASE Parent[c] = NoContract
        BY <3>1, <3>2, ForestAssumption
      <3>3. CASE Parent[c] # NoContract
        <4>1. Ancestors[c] = {Parent[c]} \cup Ancestors[Parent[c]]
          BY <3>1, <3>3, ForestAssumption
        <4> QED BY <1>1, <3>1, <3>3, <4>1 DEF WaitInv, Rooted
      <3> QED BY <3>2, <3>3
    <2> QED BY <1>1, <2>1, <2>2
  <1> QED BY <1>3, <1>4 DEF WaitInv, BatchesPlaced, DerivedSpares, PlacedIn,
                            Spares, Satisfied, SlotFilled

LEMMA RollBackWait ==
    ASSUME CompletionInv, WaitInv, Next, NEW s \in Sessions, RollBack(s)
    PROVE  WaitInv'
  <1>t. TypeOK
    BY DEF CompletionInv
  <1>1. /\ UNCHANGED <<declared, assets, qualified, terminal>>
        /\ prepared' = [prepared EXCEPT ![s] = NoBatch]
        /\ derived' = [derived EXCEPT ![s] = Nothing]
    BY DEF RollBack, store
  <1>2. /\ prepared'[s] = NoBatch /\ derived'[s] = Nothing
        /\ \A r \in Sessions : r # s =>
              prepared'[r] = prepared[r] /\ derived'[r] = derived[r]
    BY <1>t, <1>1 DEF TypeOK
  <1>3. \A r \in Sessions :
           /\ PlacedIn(declared', prepared'[r])
           /\ Spares(derived'[r], terminal', assets' \cup prepared'[r].assets,
                     qualified' \cup prepared'[r].quals)
    <2> TAKE r \in Sessions
    <2>1. CASE r = s
      BY <1>2, <2>1, NothingSpares DEF PlacedIn, NoBatch
    <2>2. CASE r # s
      BY <1>1, <1>2, <2>2, BatchStands
    <2> QED BY <2>1, <2>2
  <1>4. Rooted'
    BY <1>1 DEF WaitInv, Rooted
  <1> QED BY <1>3, <1>4 DEF WaitInv, BatchesPlaced, DerivedSpares, PlacedIn,
                            Spares, Satisfied, SlotFilled

LEMMA NextWait == CompletionInv /\ WaitInv /\ [Next]_vars => WaitInv'
  <1> SUFFICES ASSUME CompletionInv, WaitInv, [Next]_vars PROVE WaitInv'
    OBVIOUS
  <1>1. CASE UNCHANGED vars
    BY <1>1, QuietWait DEF vars, store
  <1>2. ASSUME NEW s \in Sessions, Step(s), Next
        PROVE  WaitInv'
    <2>t. TypeOK
      BY DEF CompletionInv
    <2>1. CASE \E b \in Batches : Prepare(s, b) /\ PlacedIn(declared, b)
      BY <1>2, <2>1, PrepareWait
    <2>2. CASE Accept(s)
      BY <1>2, <2>2, AcceptWait
    <2>3. CASE RollBack(s)
      BY <1>2, <2>3, RollBackWait
    <2>4. CASE \E m \in Contracts : StartClimb(s, m)
      BY <2>4, QuietWait DEF StartClimb, store
    <2>5. CASE Climb(s)
      BY <2>5, QuietWait DEF Climb
    <2> QED BY <1>2, <2>t, <2>1, <2>2, <2>3, <2>4, <2>5, DecisionsPrepare DEF Step
  <1>3. ASSUME NEW c \in Contracts, Abort(c)
        PROVE  WaitInv'
    BY <1>3, QuietWait DEF Abort
  <1> QED BY <1>1, <1>2, <1>3 DEF Next

\* Only a commit cancels.
LEMMA OnlyAcceptCancels ==
    ASSUME TypeOK, Next, NEW v \in Contracts,
           terminal[v] = NoOutcome, terminal'[v].what = "cancelled"
    PROVE  \E s \in Sessions : Accept(s)
  <1>0. NoOutcome.what # "cancelled"
    BY DEF NoOutcome
  <1>1. ASSUME NEW s \in Sessions, Step(s), ~Accept(s)
        PROVE  FALSE
    <2>1. CASE \E b \in Batches : Prepare(s, b)
      BY <1>0, <2>1 DEF Prepare, store
    <2>2. CASE RollBack(s)
      BY <1>0, <2>2 DEF RollBack, store
    <2>3. CASE \E m \in Contracts : StartClimb(s, m)
      BY <1>0, <2>3 DEF StartClimb, store
    <2>4. CASE Climb(s)
      <3>1. \/ terminal'[v] = terminal[v]
            \/ terminal'[v] = [what |-> "complete", cause |-> NoContract]
        BY <2>4 DEF Climb, TypeOK
      <3> QED BY <1>0, <3>1
    <2> QED BY <1>1, <2>1, <2>2, <2>3, <2>4, DecisionsPrepare DEF Step
  <1>2. ASSUME NEW c \in Contracts, Abort(c)
        PROVE  FALSE
    <2>1. \/ terminal'[v] = terminal[v]
          \/ terminal'[v] = [what |-> "failed", cause |-> c]
      BY <1>2 DEF Abort, TypeOK
    <2> QED BY <1>0, <2>1
  <1> QED BY <1>1, <1>2 DEF Next

\* A live verifier is cancelled only when none of the independent Contracts
\* above it waits for it any more, however old the decision that cancels it.
THEOREM WaitedVerifiersStay == Spec => VerifiersKept
  <1>1. CompletionInv /\ WaitInv /\ [Next]_vars =>
            [\A v \in Contracts :
                terminal[v] = NoOutcome /\ terminal'[v].what = "cancelled" =>
                    \A i \in Verifies[v] \cap Ancestors[v] :
                        terminal'[i] # NoOutcome \/ SatisfiedNow(i)']_vars
    <2> SUFFICES ASSUME CompletionInv, WaitInv, Next, NEW v \in Contracts,
                        terminal[v] = NoOutcome, terminal'[v].what = "cancelled",
                        NEW i \in Verifies[v] \cap Ancestors[v],
                        terminal'[i] = NoOutcome
                 PROVE  Satisfied(i, assets', qualified')
      BY DEF SatisfiedNow, Satisfied, SlotFilled
    <2>1. PICK s \in Sessions : Accept(s)
      BY OnlyAcceptCancels DEF CompletionInv
    <2> DEFINE T == Merge(derived[s], Rederived(prepared[s]))
    <2>2. /\ IsDerivation(T)
          /\ \A x \in Contracts :
                /\ x \in DOMAIN T => terminal'[x] = T[x]
                /\ x \notin DOMAIN T => terminal'[x] = terminal[x]
                /\ terminal[x] # NoOutcome => terminal'[x] = terminal[x]
      BY <2>1, AcceptWrites
    <2>3. Spares(T, terminal, assets', qualified')
      BY <2>1, AcceptSpares
    <2> HIDE DEF T
    <2>4. v \in DOMAIN T /\ T[v].what = "cancelled"
      BY <2>2 DEF NoOutcome
    <2>5. i \in Contracts
      BY ForestAssumption
    <2>6. i \notin DOMAIN T
      BY <2>2, <2>5 DEF IsDerivation, Outcomes, NoOutcome
    <2> QED BY <2>2, <2>3, <2>4, <2>5, <2>6 DEF Spares
  <1> QED BY <1>1, InitWait, NextWait, CompletionInvariant, PTL DEF Spec, VerifiersKept

-----------------------------------------------------------------------------
(* Fences: what a completion leaves below it.  A walk stops only at what an *)
(* independent Contract above its start waits for.  Take the highest live   *)
(* Contract that a completed one leaves, and the lowest completion above    *)
(* it: the walk down from there stops in between, at a Contract that the    *)
(* completed one would cancel, and for one that is higher still.            *)

\* A set of numbers that is not empty has a least one.
LEMMA LeastNat ==
    ASSUME NEW Bad \in SUBSET Nat, Bad # {}
    PROVE  \E k \in Bad : \A j \in Bad : k <= j
  <1>1. PICK k \in Bad : \A j \in Bad : ~ (<<j, k>> \in OpToRel(<, Nat))
    BY NatLessThanWellFounded, WFMin, Zenon
  <1>2. ASSUME NEW j \in Bad PROVE k <= j
    <2>1. j \in Nat /\ k \in Nat
      OBVIOUS
    <2>2. j < k => <<j, k>> \in OpToRel(<, Nat)
      BY <2>1 DEF OpToRel
    <2>3. ~ (j < k)
      BY <1>1, <2>2
    <2> QED BY <2>1, <2>3
  <1> QED BY <1>2

Depth(c) == Cardinality(Ancestors[c])

LEMMA DeeperBelow ==
    ASSUME NEW c \in Contracts
    PROVE  /\ Depth(c) \in Nat
           /\ \A a \in Ancestors[c] : a \in Contracts /\ Depth(a) \in Nat /\ Depth(a) < Depth(c)
  <1>1. Depth(c) \in Nat
    BY FS_CardinalityType, ForestAssumption DEF Depth
  <1>2. ASSUME NEW a \in Ancestors[c]
        PROVE  a \in Contracts /\ Depth(a) \in Nat /\ Depth(a) < Depth(c)
    <2>1. /\ a \in Contracts /\ IsFiniteSet(Ancestors[a]) /\ IsFiniteSet(Ancestors[c])
          /\ Ancestors[a] \subseteq Ancestors[c] /\ a \notin Ancestors[a]
      BY ForestAssumption
    <2>2. Depth(a) \in Nat
      BY <2>1, FS_CardinalityType DEF Depth
    <2>3. Depth(a) <= Depth(c) /\ Depth(a) # Depth(c)
      BY <2>1, FS_Subset DEF Depth
    <2> QED BY <1>1, <2>1, <2>2, <2>3
  <1> QED BY <1>1, <1>2

\* A set of Contracts that is not empty has one with no other of them above it,
\* and, if they are all above one Contract, one with no other of them below it.
LEMMA Highest ==
    ASSUME NEW S \in SUBSET Contracts, S # {}
    PROVE  \E z \in S : \A w \in S : w \notin Ancestors[z]
  <1> DEFINE Bad == {Depth(w) : w \in S}
  <1>1. Bad \in SUBSET Nat /\ Bad # {}
    BY DeeperBelow
  <1>2. PICK k \in Bad : \A j \in Bad : k <= j
    BY <1>1, LeastNat
  <1>3. PICK z \in S : k = Depth(z)
    BY <1>2
  <1>4. \A w \in S : Depth(z) <= Depth(w)
    BY <1>2, <1>3
  <1> HIDE DEF Bad
  <1>5. ASSUME NEW w \in S, w \in Ancestors[z] PROVE FALSE
    <2>1. Depth(w) \in Nat /\ Depth(z) \in Nat /\ Depth(w) < Depth(z)
      BY <1>5, DeeperBelow
    <2> QED BY <1>4, <2>1
  <1> QED BY <1>5

LEMMA Lowest ==
    ASSUME NEW c \in Contracts, NEW S \in SUBSET Ancestors[c], S # {}
    PROVE  \E p \in S : \A w \in S : p \notin Ancestors[w]
  <1> DEFINE Bad == {Depth(c) - Depth(w) : w \in S}
  <1>1. Bad \in SUBSET Nat /\ Bad # {}
    <2>1. \A w \in S : Depth(c) - Depth(w) \in Nat
      BY DeeperBelow
    <2> QED BY <2>1
  <1>2. PICK k \in Bad : \A j \in Bad : k <= j
    BY <1>1, LeastNat
  <1>3. PICK p \in S : k = Depth(c) - Depth(p)
    BY <1>2
  <1>4. \A w \in S : Depth(c) - Depth(p) <= Depth(c) - Depth(w)
    BY <1>2, <1>3
  <1> HIDE DEF Bad
  <1>5. ASSUME NEW w \in S, p \in Ancestors[w] PROVE FALSE
    <2>1. w \in Contracts /\ Depth(w) \in Nat /\ Depth(c) \in Nat
      BY DeeperBelow
    <2>2. Depth(p) \in Nat /\ Depth(p) < Depth(w)
      BY <1>5, <2>1, DeeperBelow
    <2> QED BY <1>4, <2>1, <2>2
  <1> QED BY <1>5

\* Of two Contracts above a third one, one is above the other.
LEMMA AboveInLine ==
    \A c \in Contracts : \A a, b \in Ancestors[c] :
        a = b \/ a \in Ancestors[b] \/ b \in Ancestors[a]
  <1> DEFINE Bad == {c \in Contracts : \E a, b \in Ancestors[c] :
                        ~ (a = b \/ a \in Ancestors[b] \/ b \in Ancestors[a])}
  <1> SUFFICES ASSUME Bad # {} PROVE FALSE
    OBVIOUS
  <1>1. PICK c \in Bad : \A w \in Bad : w \notin Ancestors[c]
    BY Highest
  <1>2. PICK a \in Ancestors[c], b \in Ancestors[c] :
            ~ (a = b \/ a \in Ancestors[b] \/ b \in Ancestors[a])
    OBVIOUS
  <1>3. /\ Parent[c] \in Ancestors[c] /\ Parent[c] \in Contracts
        /\ Ancestors[c] = {Parent[c]} \cup Ancestors[Parent[c]]
    BY <1>2, ForestAssumption
  <1>4. a \in Ancestors[Parent[c]] /\ b \in Ancestors[Parent[c]]
    BY <1>2, <1>3
  <1>5. Parent[c] \in Bad
    BY <1>2, <1>3, <1>4
  <1> QED BY <1>1, <1>3, <1>5

\* What a decision that brings no qualification completes is named by its Assets.
Named(b, T) ==
    \A x \in DOMAIN T :
        /\ T[x].what \in {"complete", "cancelled"}
        /\ b.quals = {} /\ T[x].what = "complete" => \E a \in b.assets : a.name \in Outputs[x]

PlainInv ==
    /\ \A q \in qualified : q[2] \in assets
    /\ \A s \in Sessions : Plain(assets, prepared[s]) /\ Named(prepared[s], derived[s])

LEMMA DecisionNamed ==
    ASSUME TypeOK, NEW b \in Batches
    PROVE  LET T == AssetConsequences(b)
           IN  Named(b, T) /\ Named(b, Merge(T, QualificationConsequences(b, T)))
  <1> DEFINE T == AssetConsequences(b)
             U == QualificationConsequences(b, T)
             M == Merge(T, U)
  <1>1. WalkShape(T, Filled(b), {}) /\ WalkShape(U, Accepted(b, T), DOMAIN T)
    BY AssetWalks, QualificationWalks
  <1>2. /\ \A x \in Filled(b) : \E a \in b.assets : a.name \in Outputs[x]
        /\ b.quals = {} => Accepted(b, T) = {}
    BY DEF Filled, Accepted
  <1>3. \A x \in DOMAIN M : \/ x \in DOMAIN T /\ M[x] = T[x]
                            \/ x \in DOMAIN U /\ M[x] = U[x]
    BY DEF Merge
  <1> HIDE DEF T, U, M
  <1>4. Named(b, T)
    BY <1>1, <1>2 DEF WalkShape, Named
  <1>5. Named(b, U)
    BY <1>1, <1>2 DEF WalkShape, Named
  <1>6. Named(b, M)
    BY <1>3, <1>4, <1>5 DEF Named
  <1> QED BY <1>4, <1>6 DEF T, U, M

LEMMA NothingPlain ==
    /\ \A A : Plain(A, NoBatch)
    /\ \A b : Named(b, Nothing)
  BY NothingEarned DEF Plain, NoBatch, Named

LEMMA PlainInit == Init => PlainInv
  BY NothingPlain DEF Init, PlainInv

LEMMA PlainStep == CompletionInv /\ PlainInv /\ [Next]_vars => PlainInv'
  <1> SUFFICES ASSUME CompletionInv, PlainInv, [Next]_vars PROVE PlainInv'
    OBVIOUS
  <1>t. TypeOK
    BY DEF CompletionInv
  <1>1. ASSUME UNCHANGED <<assets, qualified, prepared, derived>>
        PROVE  PlainInv'
    BY <1>1 DEF PlainInv, Plain, Named
  <1>2. ASSUME NEW s \in Sessions, NEW b \in Batches, Prepare(s, b), Plain(assets, b)
        PROVE  PlainInv'
    <2> DEFINE M == Merge(AssetConsequences(b), QualificationConsequences(b, AssetConsequences(b)))
    <2>1. Named(b, M)
      BY <1>t, DecisionNamed
    <2>2. /\ prepared' = [prepared EXCEPT ![s] = b]
          /\ derived' = [derived EXCEPT ![s] = M]
          /\ assets' = assets /\ qualified' = qualified
      BY <1>2 DEF Prepare, store
    <2> HIDE DEF M
    <2>3. /\ prepared'[s] = b /\ derived'[s] = M
          /\ \A r \in Sessions : r # s => prepared'[r] = prepared[r] /\ derived'[r] = derived[r]
      BY <1>t, <2>2 DEF TypeOK
    <2> QED BY <1>2, <2>1, <2>2, <2>3 DEF PlainInv, Plain, Named
  <1>3. ASSUME NEW s \in Sessions, Accept(s)
        PROVE  PlainInv'
    <2>1. /\ assets' = assets \cup prepared[s].assets
          /\ qualified' = qualified \cup prepared[s].quals
          /\ prepared' = [prepared EXCEPT ![s] = NoBatch]
          /\ derived' = [derived EXCEPT ![s] = Nothing]
      BY <1>3 DEF Accept
    <2>2. /\ prepared'[s] = NoBatch /\ derived'[s] = Nothing
          /\ \A r \in Sessions : r # s => prepared'[r] = prepared[r] /\ derived'[r] = derived[r]
      BY <1>t, <2>1 DEF TypeOK
    <2>3. \A q \in qualified' : q[2] \in assets'
      BY <2>1 DEF PlainInv, Plain
    <2>4. \A r \in Sessions : Plain(assets', prepared'[r]) /\ Named(prepared'[r], derived'[r])
      BY <2>1, <2>2, NothingPlain DEF PlainInv, Plain
    <2> QED BY <2>3, <2>4 DEF PlainInv, Plain, Named
  <1>4. ASSUME NEW s \in Sessions, RollBack(s)
        PROVE  PlainInv'
    <2>1. /\ prepared' = [prepared EXCEPT ![s] = NoBatch]
          /\ derived' = [derived EXCEPT ![s] = Nothing]
          /\ assets' = assets /\ qualified' = qualified
      BY <1>4 DEF RollBack, store
    <2>2. /\ prepared'[s] = NoBatch /\ derived'[s] = Nothing
          /\ \A r \in Sessions : r # s => prepared'[r] = prepared[r] /\ derived'[r] = derived[r]
      BY <1>t, <2>1 DEF TypeOK
    <2>4. \A r \in Sessions : Plain(assets', prepared'[r]) /\ Named(prepared'[r], derived'[r])
      BY <2>1, <2>2, NothingPlain DEF PlainInv
    <2> QED BY <2>1, <2>4 DEF PlainInv, Plain, Named
  <1>5. ASSUME NEW s \in Sessions, Step(s)
        PROVE  PlainInv'
    <2>1. CASE \E m \in Contracts : StartClimb(s, m)
      BY <1>1, <2>1 DEF StartClimb, store
    <2>2. CASE Climb(s)
      BY <1>1, <2>2 DEF Climb
    <2> QED BY <1>t, <1>2, <1>3, <1>4, <1>5, <2>1, <2>2, DecisionsPrepare DEF Step
  <1>6. ASSUME NEW c \in Contracts, Abort(c)
        PROVE  PlainInv'
    BY <1>1, <1>6 DEF Abort
  <1>7. CASE UNCHANGED vars
    BY <1>1, <1>7 DEF vars, store
  <1> QED BY <1>5, <1>6, <1>7 DEF Next

\* What a commit that brings no qualification leaves alone, and where the walks
\* that it re-derived have stopped.  A Contract waits when it is independent,
\* declared and live.
Waits(i) == i \in declared \cap Independent /\ terminal[i] = NoOutcome

LEMMA WaitersStay ==
    ASSUME CompletionInv, PlainInv, NEW s \in Sessions, Accept(s), prepared[s].quals = {},
           NothingUnsettled, CancelsNoIndependent, NEW i, Waits(i)
    PROVE  ~Satisfied(i, assets', qualified') /\ terminal'[i] = NoOutcome
  <1> DEFINE T == Merge(derived[s], Rederived(prepared[s]))
  <1>1. qualified' = qualified /\ i \in Contracts /\ i \in Independent
    BY ContractsAssumption DEF Accept, Waits
  <1>2. ~Satisfied(i, assets, qualified)
    BY DEF Waits, NothingUnsettled, SatisfiedNow
  <1>3. ~Satisfied(i, assets', qualified')
    <2>1. PICK n \in Outputs[i] : ~SlotFilled(i, n, assets, qualified)
      BY <1>2 DEF Satisfied
    <2>2. \A a : <<i, a>> \in qualified => a \in assets
      BY DEF PlainInv
    <2>3. ~SlotFilled(i, n, assets', qualified')
      BY <1>1, <2>1, <2>2 DEF SlotFilled
    <2> QED BY <2>3 DEF Satisfied
  <1>4. /\ Earned(T, assets', qualified')
        /\ i \in DOMAIN T => terminal'[i] = T[i]
        /\ i \notin DOMAIN T => terminal'[i] = terminal[i]
    BY <1>1, AcceptWrites
  <1>5. \A x \in DOMAIN T : T[x].what \in {"complete", "cancelled"}
    <2>1. Named(prepared[s], derived[s])
      BY DEF PlainInv
    <2>2. Named(prepared[s], Rederived(prepared[s]))
      BY DecisionNamed, NothingPlain DEF CompletionInv, TypeOK, Rederived
    <2> QED BY <2>1, <2>2 DEF Named, Merge
  <1> HIDE DEF T
  <1>6. i \in DOMAIN T => T[i].what = "cancelled"
    BY <1>3, <1>4, <1>5 DEF Earned
  <1>7. terminal'[i].what # "cancelled"
    BY <1>1 DEF CancelsNoIndependent, Waits
  <1> QED BY <1>3, <1>4, <1>6, <1>7 DEF Waits

\* Whatever a commit ends while a waiting Contract has it as a verifier, it
\* completes.
LEMMA EndedVerifiersFilled ==
    ASSUME CompletionInv, WaitInv, PlainInv, NEW s \in Sessions, Accept(s),
           prepared[s].quals = {}, NothingUnsettled, CancelsNoIndependent,
           NEW y \in declared, terminal[y] = NoOutcome, terminal'[y] # NoOutcome,
           NEW i \in Verifies[y] \cap Ancestors[y], Waits(i)
    PROVE  y \in Filled(prepared[s])
  <1> DEFINE b == prepared[s]
             R == Rederived(b)
             T == Merge(derived[s], R)
  <1>t. TypeOK /\ b \in Batches /\ y \in Contracts
    BY DEF CompletionInv, TypeOK
  <1>1. /\ Earned(T, assets', qualified') /\ IsDerivation(T)
        /\ y \in DOMAIN T /\ terminal'[y] = T[y]
        /\ i \in Contracts => (i \in DOMAIN T => terminal'[i] = T[i])
    BY <1>t, AcceptWrites
  <1>2. Spares(T, terminal, assets', qualified')
    BY AcceptSpares
  <1>3. ~Satisfied(i, assets', qualified') /\ terminal'[i] = NoOutcome /\ terminal[i] = NoOutcome
        /\ i \in Contracts
    BY <1>t, WaitersStay, ContractsAssumption DEF Waits
  <1>4. Named(b, derived[s]) /\ Named(b, R)
    BY <1>t, DecisionNamed, NothingPlain DEF PlainInv, Rederived
  <1>5. Named(b, T)
    BY <1>4 DEF Named, Merge
  <1> HIDE DEF T
  <1>6. i \notin DOMAIN T
    BY <1>1, <1>3 DEF IsDerivation, Outcomes, NoOutcome
  <1>7. T[y].what # "cancelled"
    BY <1>1, <1>2, <1>3, <1>6 DEF Spares
  <1>8. T[y].what = "complete" /\ \E a \in b.assets : a.name \in Outputs[y]
    BY <1>1, <1>5, <1>7 DEF Named
  <1>9. Satisfied(y, assets', qualified')
    BY <1>1, <1>8 DEF Earned
  <1>10. assets' = assets \cup b.assets /\ qualified' = qualified
    BY DEF Accept
  <1> QED BY <1>8, <1>9, <1>10 DEF Filled

\* A walk that leaves z has stopped at a verifier of a Contract that waits above
\* its start.
LEMMA WalkStops ==
    ASSUME CompletionInv, WaitInv, PlainInv, NEW s \in Sessions, Accept(s),
           prepared[s].quals = {}, prepared[s].assets # {},
           NothingUnsettled, CancelsNoIndependent,
           NEW p \in Filled(prepared[s]), NEW z \in declared, p \in Ancestors[z],
           terminal'[z] = NoOutcome, ~Satisfied(z, assets', qualified')
    PROVE  \E y \in declared : \E i \in Verifies[y] :
              /\ p \in Ancestors[y] /\ Within(z, y) /\ terminal[y] = NoOutcome
              /\ Parent[y] # NoContract /\ i \in Ancestors[Parent[y]]
              /\ Waits(i) /\ i \in Ancestors[p]
  <1> DEFINE b == prepared[s]
             A == assets \cup b.assets
             R == Rederived(b)
             T == Merge(derived[s], R)
             K == KnownTo(b)
             D == Filled(b)
  <1>t. TypeOK /\ b \in Batches /\ z \in Contracts
    BY DEF CompletionInv, TypeOK
  <1>1. assets' = A /\ qualified' = qualified
    BY DEF Accept
  <1>2. /\ R = Fenced(D, K, b.by, A)
        /\ K[p] \subseteq D
    BY <1>t, AssetWalks DEF Rederived
  <1>3. DOMAIN R = D \cup UNION {Unreachable(q, K[q], A) : q \in D}
    BY <1>2 DEF Fenced
  <1>4. z \notin DOMAIN R /\ terminal[z] = NoOutcome
    <2>1. /\ IsDerivation(T) /\ DOMAIN R \subseteq DOMAIN T
          /\ z \in DOMAIN T => terminal'[z] = T[z]
          /\ terminal[z] # NoOutcome => terminal'[z] = terminal[z]
      BY <1>t, AcceptWrites
    <2> HIDE DEF T, R
    <2>2. z \notin DOMAIN T
      BY <2>1 DEF IsDerivation, Outcomes, NoOutcome
    <2> QED BY <2>1, <2>2
  <1>5. z \notin Unreachable(p, K[p], A) /\ ~Ended(z, K[p])
    BY <1>2, <1>3, <1>4 DEF Ended
  <1> HIDE DEF K, A, R, D
  <1>6. PICK y \in declared :
            /\ p \in Ancestors[y] /\ Within(z, y) /\ ~Ended(y, K[p])
            /\ KeptForVerification(y, p, K[p], A)
    BY <1>1, <1>5 DEF Unreachable
  <1>7. PICK i \in Verifies[y] :
            /\ Parent[y] # NoContract
            /\ i \in Ancestors[Parent[y]]
            /\ ~Ended(i, K[p])
            /\ i # p
            /\ p \in Ancestors[i] => Satisfied(i, A, qualified)
    BY <1>6 DEF KeptForVerification
  <1>8. y \in Contracts /\ i \in Ancestors[y] /\ i \in Independent /\ i \in declared
    <2>1. y \in Contracts
      BY <1>t DEF TypeOK
    <2>2. i \in Ancestors[y]
      BY <1>7, <2>1, ForestAssumption
    <2> QED BY <2>1, <2>2, ContractsAssumption DEF WaitInv, Rooted
  <1>9. Waits(i) /\ terminal[y] = NoOutcome
    BY <1>6, <1>7, <1>8 DEF Waits, Ended
  <1>10. p \notin Ancestors[i]
    BY <1>1, <1>7, <1>9, WaitersStay
  <1>11. i \in Ancestors[p]
    BY <1>6, <1>7, <1>8, <1>10, AboveInLine
  <1> QED BY <1>6, <1>7, <1>9, <1>11

LEMMA FenceStep ==
    ASSUME CompletionInv, CompletionInv', WaitInv, PlainInv, NEW s \in Sessions, Accept(s),
           prepared[s].quals = {}, NothingUnsettled, CancelsNoIndependent,
           NEW c \in declared \ Independent, ~SatisfiedNow(c), terminal[c] = NoOutcome,
           terminal'[c].what = "complete"
    PROVE  Unreachable(c, {}, assets)' = {}
  <1> DEFINE b == prepared[s]
             A == assets \cup b.assets
             D == Filled(b)
  <1>t. TypeOK /\ b \in Batches /\ c \in Contracts
    BY DEF CompletionInv, TypeOK
  <1>1. assets' = A /\ qualified' = qualified
    BY DEF Accept
  <1>2. Satisfied(c, A, qualified)
    <2>1. SatisfiedNow(c)'
      <3>1. CompleteIsSatisfied'
        BY DEF CompletionInv
      <3> QED BY <1>t, <3>1 DEF CompleteIsSatisfied
    <2>2. Satisfied(c, assets', qualified')
      BY <2>1 DEF SatisfiedNow, Satisfied, SlotFilled
    <2> QED BY <1>1, <2>2
  <1>3. \E a \in b.assets : a.name \in Outputs[c]
    <2>1. PICK n \in Outputs[c] : ~SlotFilled(c, n, assets, qualified)
      BY DEF SatisfiedNow, Satisfied
    <2>2. SlotFilled(c, n, A, qualified)
      BY <1>2, <2>1 DEF Satisfied
    <2> QED BY <2>1, <2>2 DEF SlotFilled
  <1>4. c \in D /\ b.assets # {}
    BY <1>2, <1>3 DEF Filled
  <1>5. declared' = declared
    BY <1>4 DEF Accept, PlainInv, Plain
  <1> DEFINE Kept(y) == \E i \in Verifies[y] :
                            /\ Parent[y] # NoContract
                            /\ i \in Ancestors[Parent[y]]
                            /\ terminal'[i] = NoOutcome
                            /\ i # c
                            /\ c \in Ancestors[i] => Satisfied(i, A, qualified)
  <1> SUFFICES ASSUME NEW x \in Unreachable(c, {}, assets)' PROVE FALSE
    OBVIOUS
  <1>x. /\ x \in declared /\ c \in Ancestors[x] /\ terminal'[x] = NoOutcome
        /\ ~Satisfied(x, A, qualified)
        /\ \A y \in declared :
              c \in Ancestors[y] /\ Within(x, y) /\ terminal'[y] = NoOutcome => ~Kept(y)
    <2>1. x \in declared /\ c \in Ancestors[x] /\ terminal'[x] = NoOutcome
      BY <1>5 DEF Unreachable, Ended
    <2>2. ~Satisfied(x, A, qualified)
      BY <1>1 DEF Unreachable, Satisfied, SlotFilled
    <2>3. ASSUME NEW y \in declared, c \in Ancestors[y], Within(x, y), terminal'[y] = NoOutcome,
                 NEW i \in Verifies[y], Parent[y] # NoContract, i \in Ancestors[Parent[y]],
                 terminal'[i] = NoOutcome, i # c, c \in Ancestors[i] => Satisfied(i, A, qualified)
          PROVE  FALSE
      <3>1. ~KeptForVerification(y, c, {}, assets)'
        BY <1>5, <2>3 DEF Unreachable, Ended, Within
      <3>2. c \in Ancestors[i] => Satisfied(i, assets, qualified)'
        BY <1>1, <2>3 DEF Satisfied, SlotFilled
      <3> QED BY <2>3, <3>1, <3>2 DEF KeptForVerification, Ended
    <2> QED BY <2>1, <2>2, <2>3
  <1> HIDE DEF A
  <1> DEFINE S == {z \in declared : /\ c \in Ancestors[z] /\ Within(x, z)
                                    /\ terminal'[z] = NoOutcome
                                    /\ ~Satisfied(z, A, qualified)}
  <1>6. PICK z \in S : \A w \in S : w \notin Ancestors[z]
    <2>1. x \in S
      BY <1>x DEF Within
    <2>2. S \in SUBSET Contracts
      BY <1>t DEF TypeOK
    <2> QED BY <2>1, <2>2, Highest
  <1>7. z \in declared /\ z \in Contracts /\ c \in Ancestors[z] /\ Within(x, z)
        /\ terminal'[z] = NoOutcome /\ ~Satisfied(z, A, qualified)
    BY <1>6, <1>t DEF TypeOK
  <1> DEFINE P == {p \in D \cap Ancestors[z] : p = c \/ c \in Ancestors[p]}
  <1>8. PICK p \in P : \A w \in P : p \notin Ancestors[w]
    <2>1. P \in SUBSET Ancestors[z] /\ c \in P
      BY <1>4, <1>7
    <2> HIDE DEF P
    <2> QED BY <1>7, <2>1, Lowest
  <1>9. p \in D /\ p \in Ancestors[z] /\ p \in Contracts /\ (p = c \/ c \in Ancestors[p])
    BY <1>7, <1>8, ForestAssumption
  <1>10. PICK y \in declared : \E i \in Verifies[y] :
              /\ p \in Ancestors[y] /\ Within(z, y) /\ terminal[y] = NoOutcome
              /\ Parent[y] # NoContract /\ i \in Ancestors[Parent[y]]
              /\ Waits(i) /\ i \in Ancestors[p]
    <2>1. ~Satisfied(z, assets', qualified')
      BY <1>1, <1>7
    <2> QED BY <1>4, <1>7, <1>9, <2>1, WalkStops
  <1>b. PICK i \in Verifies[y] :
              /\ p \in Ancestors[y] /\ Within(z, y) /\ terminal[y] = NoOutcome
              /\ Parent[y] # NoContract /\ i \in Ancestors[Parent[y]]
              /\ Waits(i) /\ i \in Ancestors[p]
    BY <1>10
  <1>11. /\ y \in Contracts /\ x \in Contracts
         /\ c \in Ancestors[y] /\ Within(x, y)
         /\ i \in Ancestors[y] /\ i \in Ancestors[z]
    <2>1. y \in Contracts /\ x \in Contracts
      BY <1>t, <1>x DEF TypeOK
    <2>2. c \in Ancestors[y] /\ i \in Ancestors[z]
      BY <1>7, <1>9, <1>b, <2>1, ForestAssumption
    <2>3. Within(x, y)
      BY <1>7, <1>b, <2>1, ForestAssumption DEF Within
    <2>4. i \in Ancestors[y]
      BY <1>b, <2>1, ForestAssumption
    <2> QED BY <2>1, <2>2, <2>3, <2>4
  <1>12. ~Satisfied(i, A, qualified) /\ terminal'[i] = NoOutcome
         /\ i \in declared /\ i \in Independent
    <2>1. Waits(i)
      BY <1>b
    <2> QED BY <1>1, <2>1, WaitersStay DEF Waits
  <1>13. terminal'[y] = NoOutcome
    <2> SUFFICES ASSUME terminal'[y] # NoOutcome PROVE FALSE
      OBVIOUS
    <2>1. y \in D
      BY <1>b, <1>11, EndedVerifiersFilled
    <2>2. y \in Ancestors[z]
      BY <1>7, <1>b DEF Within
    <2>3. y \in P
      BY <1>11, <2>1, <2>2
    <2> QED BY <1>8, <1>b, <2>3
  <1>14. c \in Ancestors[i]
    BY <1>x, <1>b, <1>11, <1>12, <1>13
  <1>15. Within(x, i)
    BY <1>11, ForestAssumption DEF Within
  <1>16. i \in S
    BY <1>12, <1>14, <1>15
  <1> QED BY <1>6, <1>11, <1>16

\* A completed Contract leaves nothing live and without a purpose below it, not
\* even what was published while its completion was on the way, whatever else
\* the batch completed and in which order.
THEOREM CompletionsFence == Spec => DirectCompletionFences
  <1>1. CompletionInv /\ CompletionInv' /\ WaitInv /\ PlainInv /\ [Next]_vars =>
            [NothingUnsettled /\ OnlyOutputs /\ CancelsNoIndependent
                => ~LeavesLiveWork(Contracts \ Independent)]_vars
    <2> SUFFICES ASSUME CompletionInv, CompletionInv', WaitInv, PlainInv, Next,
                        NothingUnsettled, OnlyOutputs, CancelsNoIndependent,
                        NEW c \in declared \cap (Contracts \ Independent),
                        ~SatisfiedNow(c), terminal[c] = NoOutcome,
                        terminal'[c].what = "complete"
                 PROVE  Unreachable(c, {}, assets)' = {}
      BY DEF LeavesLiveWork
    <2>1. SatisfiedNow(c)'
      BY DEF CompletionInv, CompleteIsSatisfied
    <2>2. PICK s \in Sessions : Accept(s)
      <3>1. CASE ~ \E s \in Sessions : Accept(s)
        <4>1. UNCHANGED <<declared, assets, qualified>>
          BY <3>1, OnlyAcceptAdds DEF CompletionInv
        <4> QED BY <2>1, <4>1 DEF SatisfiedNow, Satisfied, SlotFilled
      <3> QED BY <3>1
    <2>3. prepared[s].quals = {}
      <3>1. prepared'[s] = NoBatch /\ prepared[s] # NoBatch
        BY <2>2 DEF Accept, CompletionInv, TypeOK
      <3> QED BY <3>1 DEF OnlyOutputs
    <2> QED BY <2>2, <2>3, FenceStep
  <1> QED BY <1>1, InitWait, NextWait, PlainInit, PlainStep, CompletionInvariant, PTL
          DEF Spec, DirectCompletionFences
=============================================================================
