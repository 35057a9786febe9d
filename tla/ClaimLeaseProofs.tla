-------------------------- MODULE ClaimLeaseProofs --------------------------
(***************************************************************************)
(* Proofs about ClaimLease, for every set of Contracts, workers, processes *)
(* and requests and for every lease length and bound.                      *)
(***************************************************************************)
EXTENDS ClaimLease, FiniteSetTheorems, TLAPS

\* A Session past "idle" has a request, and one that works has a Contract.
SessionInv ==
    \A s \in Sessions :
        /\ session[s].phase # "idle" => session[s].request \in Requests
        /\ session[s].phase \in {"working", "lapsed"} =>
              session[s].contract \in Contracts

\* A claim row has an owner.
RowInv == \A c \in Contracts : claim[c].status # "none" => claim[c].worker \in Workers

TInv == TypeOK /\ SessionInv /\ RowInv

-----------------------------------------------------------------------------
LEMMA BatchType ==
    ASSUME NEW T \in TerminalBatches
    PROVE  /\ DOMAIN T \subseteq Contracts
           /\ \A x \in DOMAIN T : T[x] \in Terminals
  BY DEF TerminalBatches

LEMMA VerdictsAreBatches ==
    ASSUME NEW c \in Contracts, NEW T \in Verdicts(c)
    PROVE  T \in TerminalBatches
<1>1. CASE T \in {[x \in {c} |-> "failed"]}
  <2>1. T \in [{c} -> Terminals]
    BY <1>1 DEF Terminals
  <2>2. {c} \in SUBSET Contracts
    OBVIOUS
  <2> QED BY <2>1, <2>2 DEF TerminalBatches
<1>2. CASE T \in TerminalBatches
  BY <1>2
<1> QED BY <1>1, <1>2 DEF Verdicts

LEMMA InitTInv == Init => TInv
<1> SUFFICES ASSUME Init PROVE TInv
  OBVIOUS
<1> USE DEF Init, GatesInit
<1>1. GatesTypeOK
  BY MaxVersionAssumption DEF GatesTypeOK, Holds, Unused
<1>2. TypeOK
  BY <1>1, MaxVersionAssumption DEF TypeOK, Claims, ClaimStatuses, NoClaim, SessionStates, Idle
<1>3. SessionInv
  BY DEF SessionInv, Idle
<1>4. RowInv
  BY DEF RowInv, NoClaim
<1> QED BY <1>2, <1>3, <1>4 DEF TInv

LEMMA CloseTInv ==
    ASSUME TInv, NEW T \in TerminalBatches, NEW kept \in SUBSET Contracts,
           \A x \in kept : claim[x].status = "active",
           NEW how \in {"submitted", "released"}, NEW by \in Nat
    PROVE  /\ Settled(T) \in [Contracts -> Terminals \cup {"none"}]
           /\ CloseRows(T, kept, how) \in [Contracts -> Claims]
           /\ CloseFacts(T, kept, how, by) \in [Contracts -> Seq(Facts)]
           /\ \A x \in Contracts :
                /\ CloseRows(T, kept, how)[x].worker = claim[x].worker
                /\ CloseRows(T, kept, how)[x].status # "none"
                      => claim[x].status # "none"
<1> USE DEF TInv, TypeOK
<1>1. Settled(T) \in [Contracts -> Terminals \cup {"none"}]
  BY BatchType DEF Settled, GatesTypeOK
<1>2. \A x \in Contracts : [claim[x] EXCEPT !.status = how] \in Claims
                           /\ [claim[x] EXCEPT !.status = "released"] \in Claims
  BY DEF Claims, ClaimStatuses
<1>3. CloseRows(T, kept, how) \in [Contracts -> Claims]
  BY <1>2 DEF CloseRows
<1>4. ASSUME NEW x \in Contracts, claim[x].status = "active",
             NEW k \in {"submitted", "released"}, NEW b \in Nat
      PROVE  Fact(k, claim[x], b) \in Facts
  <2>1. claim[x].worker \in Workers /\ claim[x] \in Claims
    BY <1>4 DEF RowInv
  <2> QED BY <2>1 DEF Fact, Facts, Claims
<1>5. CloseFacts(T, kept, how, by) \in [Contracts -> Seq(Facts)]
  <2> SUFFICES ASSUME NEW x \in Contracts
               PROVE  CloseFacts(T, kept, how, by)[x] \in Seq(Facts)
    BY DEF CloseFacts
  <2>1. facts[x] \in Seq(Facts)
    OBVIOUS
  <2>2. CASE x \in kept
    <3>1. Fact(how, claim[x], by) \in Facts
      BY <1>4, <2>2
    <3> QED BY <2>1, <2>2, <3>1 DEF CloseFacts
  <2>3. CASE x \notin kept /\ x \in Released(T, kept)
    <3>1. Fact("released", claim[x], 0) \in Facts
      BY <1>4, <2>3 DEF Released
    <3> QED BY <2>1, <2>3, <3>1 DEF CloseFacts
  <2> QED BY <2>1, <2>2, <2>3 DEF CloseFacts
<1>6. ASSUME NEW x \in Contracts
      PROVE  /\ CloseRows(T, kept, how)[x].worker = claim[x].worker
             /\ CloseRows(T, kept, how)[x].status # "none" => claim[x].status # "none"
  <2>1. claim[x] \in Claims
    OBVIOUS
  <2> QED BY <2>1 DEF CloseRows, Released, Claims
<1> QED BY <1>1, <1>3, <1>5, <1>6

\* A Session that only changes its own record to another legal one.
LEMMA SessionTInv ==
    ASSUME TInv, NEW s \in Sessions, NEW new \in SessionStates,
           session' = [session EXCEPT ![s] = new],
           new.phase # "idle" => new.request \in Requests,
           new.phase \in {"working", "lapsed"} => new.contract \in Contracts
    PROVE  /\ session' \in [Sessions -> SessionStates]
           /\ SessionInv'
  BY DEF TInv, TypeOK, SessionInv

LEMMA IdleType == Idle \in SessionStates /\ Idle.phase = "idle"
  BY MaxVersionAssumption DEF Idle, SessionStates

LEMMA NextTInv == TInv /\ [Next]_vars => TInv'
<1> SUFFICES ASSUME TInv, [Next]_vars PROVE TInv'
  OBVIOUS
<1> USE DEF gateVars
<1>t. TypeOK /\ GatesTypeOK /\ SessionInv /\ RowInv
  BY DEF TInv, TypeOK
<1>1. CASE Operator
  <2>1. UNCHANGED <<claim, leaseVars>> /\ GateCommand
    BY <1>1 DEF Operator
  <2>2. GatesTypeOK'
    <3> USE <1>t DEF GatesTypeOK
    <3>1. CASE \E w \in Workers, v \in Versions : Register(w, v)
      BY <3>1, MaxVersionAssumption DEF Register, Versions
    <3>2. CASE \E h \in HoldIds, c \in Contracts : PlaceHold(h, c)
      BY <3>2 DEF PlaceHold, Holds
    <3>3. CASE \E h \in HoldIds : ReleaseHold(h)
      <4>1. PICK h \in HoldIds : ReleaseHold(h)
        BY <3>3
      <4>2. hold[h] \in [state : {"open", "released"}, contract : Contracts]
        BY <4>1 DEF ReleaseHold, Holds, Unused
      <4>3. [hold[h] EXCEPT !.state = "released"] \in Holds
        BY <4>2 DEF Holds
      <4> QED BY <4>1, <4>3 DEF ReleaseHold
    <3>4. CASE \E e \in Edges : PlaceLink(e[1], e[2])
      <4>1. PICK e \in Edges : PlaceLink(e[1], e[2])
        BY <3>4
      <4>2. e = <<e[1], e[2]>>
        BY EdgesAssumption
      <4> QED BY <4>1, <4>2 DEF PlaceLink
    <3>5. CASE \E e \in Edges : ReleaseLink(e[1], e[2])
      BY <3>5 DEF ReleaseLink
    <3>6. CASE \E c \in Assignable, w \in Workers \cup {NoWorker} : Assign(c, w)
      BY <3>6 DEF Assign
    <3> QED BY <2>1, <3>1, <3>2, <3>3, <3>4, <3>5, <3>6 DEF GateCommand
  <2> QED BY <1>t, <2>1, <2>2 DEF leaseVars, TInv, TypeOK, SessionInv, RowInv
<1>2. ASSUME NEW s \in Sessions, SessionStep(s)
      PROVE  TInv'
  <2>0. session[s] \in SessionStates
    BY <1>t DEF TypeOK
  <2> USE DEF SessionStates
  <2>1. CASE \E r \in Requests : Begin(s, r)
    <3>1. PICK r \in Requests : Begin(s, r)
      BY <2>1
    <3>2. registry[Signer[r]] \in 0 .. MaxVersion
      BY <1>t, SignerAssumption DEF GatesTypeOK
    <3> DEFINE new == [Idle EXCEPT !.phase = "scanning", !.request = r,
                                   !.version = registry[Signer[r]]]
    <3>3. new \in SessionStates /\ new.phase = "scanning" /\ new.request = r
      BY <3>2, IdleType DEF Idle
    <3>4. session' \in [Sessions -> SessionStates] /\ SessionInv'
      BY <3>1, <3>3, SessionTInv DEF Begin
    <3> QED BY <1>t, <3>1, <3>4 DEF Begin, TInv, TypeOK, GatesTypeOK, RowInv
  <2>2. CASE Scan(s)
    <3> DEFINE w == Signer[session[s].request]
               ready == {c \in Contracts : Eligible(c, w)}
               new == IF ready = {} THEN Idle
                      ELSE [session[s] EXCEPT !.phase = "choosing", !.ready = ready,
                                              !.prepared = registry[w]]
    <3>1. ready \in SUBSET Contracts
      OBVIOUS
    <3>2. session[s].request \in Requests /\ registry[w] \in 0 .. MaxVersion
      BY <1>t, <2>2, SignerAssumption DEF Scan, SessionInv, GatesTypeOK
    <3> HIDE DEF ready
    <3>3. new \in SessionStates /\ (new.phase # "idle" => new.request \in Requests)
          /\ new.phase \notin {"working", "lapsed"}
      BY <2>0, <3>1, <3>2, IdleType
    <3>4. session' = [session EXCEPT ![s] = new]
      BY <2>2 DEF Scan, ready
    <3> HIDE DEF new
    <3>5. session' \in [Sessions -> SessionStates] /\ SessionInv'
      BY <3>3, <3>4, SessionTInv
    <3> QED BY <1>t, <2>2, <3>5 DEF Scan, TInv, TypeOK, GatesTypeOK, RowInv
  <2>3. CASE \E c \in Contracts : \E now \in LockedNow : Grant(s, c, now)
    <3>1. PICK c \in Contracts, now \in LockedNow : Grant(s, c, now)
      BY <2>3
    <3> DEFINE r == session[s].request
               row == [status |-> "active", worker |-> Signer[r],
                       epoch |-> claim[c].epoch + 1, lease |-> now + MaxLease]
               new == [session[s] EXCEPT !.phase = "working", !.contract = c,
                                         !.epoch = row.epoch, !.ready = {}]
    <3>2. r \in Requests /\ Signer[r] \in Workers
      BY <1>t, <3>1, SignerAssumption DEF Grant, SessionInv
    <3>3. claim[c].epoch \in Nat /\ now + MaxLease \in Nat
      BY <1>t, TimeAssumption DEF TypeOK, Claims, LockedNow
    <3>4. row \in Claims /\ row.worker \in Workers /\ row.epoch \in Nat
      BY <3>2, <3>3 DEF Claims, ClaimStatuses
    <3>5. Fact("granted", row, r) \in Facts
      BY <3>2, <3>4 DEF Fact, Facts, Claims
    <3>6. /\ claim' = [claim EXCEPT ![c] = row]
          /\ facts' = [facts EXCEPT ![c] = Append(@, Fact("granted", row, r))]
          /\ session' = [session EXCEPT ![s] = new]
          /\ UNCHANGED <<gateVars, clock, sent, observed>>
      BY <3>1 DEF Grant
    <3>7. new \in SessionStates /\ new.request = r /\ new.contract = c
      BY <2>0, <3>2, <3>4
    <3> HIDE DEF row, new, r
    <3>8. claim' \in [Contracts -> Claims] /\ facts' \in [Contracts -> Seq(Facts)]
      BY <1>t, <3>4, <3>5, <3>6 DEF TypeOK
    <3>9. session' \in [Sessions -> SessionStates] /\ SessionInv'
      BY <3>2, <3>6, <3>7, SessionTInv
    <3>10. RowInv'
      BY <1>t, <3>4, <3>6 DEF RowInv, TypeOK
    <3> QED BY <1>t, <3>6, <3>8, <3>9, <3>10 DEF TInv, TypeOK, GatesTypeOK
  <2>4. CASE \E c \in Contracts : Refuse(s, c)
    <3>1. PICK c \in Contracts : Refuse(s, c)
      BY <2>4
    <3> DEFINE left == session[s].ready \ {c}
               stale == registry[Signer[session[s].request]] # session[s].version
               new == IF stale \/ left = {} THEN Idle
                      ELSE [session[s] EXCEPT !.ready = left]
    <3>2. session[s].phase = "choosing" /\ session[s].request \in Requests
      BY <1>t, <3>1 DEF Refuse, SessionInv
    <3>3. new \in SessionStates /\ (new.phase # "idle" => new.request \in Requests)
          /\ new.phase \notin {"working", "lapsed"}
      BY <2>0, <3>2, IdleType
    <3>4. session' = [session EXCEPT ![s] = new]
      BY <3>1 DEF Refuse
    <3> HIDE DEF new
    <3>5. session' \in [Sessions -> SessionStates] /\ SessionInv'
      BY <3>3, <3>4, SessionTInv
    <3> QED BY <1>t, <3>1, <3>5 DEF Refuse, TInv, TypeOK, GatesTypeOK, RowInv
  <2>5. ASSUME session[s].phase = "working", NEW kind \in {"renew", "submit"},
               NEW bound \in Nat, Send(s, kind, bound)
        PROVE  sent' \subseteq Messages
    <3>1. session[s].request \in Requests /\ session[s].contract \in Contracts
          /\ session[s].epoch \in Nat
      BY <1>t, <2>0, <2>5 DEF SessionInv
    <3>2. Signer[session[s].request] \in Workers
      BY <3>1, SignerAssumption
    <3> QED BY <1>t, <2>5, <3>1, <3>2 DEF Send, Messages, TypeOK
  <2>6. CASE AskRenewal(s)
    <3>1. sent' \subseteq Messages
      BY <2>5, <2>6, TimeAssumption DEF AskRenewal
    <3> QED BY <1>t, <2>6, <3>1
         DEF AskRenewal, TInv, TypeOK, GatesTypeOK, RowInv, SessionInv
  <2>7. CASE Answer(s)
    <3>1. sent' \subseteq Messages
      BY <2>5, <2>7, TimeAssumption DEF Answer
    <3>2. session' \in [Sessions -> SessionStates] /\ SessionInv'
      <4>1. CASE session' = [session EXCEPT ![s] = Idle]
        BY <4>1, IdleType, SessionTInv
      <4>2. CASE UNCHANGED session
        BY <1>t, <4>2 DEF TypeOK, SessionInv
      <4> QED BY <2>7, <4>1, <4>2 DEF Answer
    <3> QED BY <1>t, <2>7, <3>1, <3>2 DEF Answer, TInv, TypeOK, GatesTypeOK, RowInv
  <2>8. CASE FailInvocation(s)
    <3> DEFINE c == session[s].contract
    <3>1. c \in Contracts
      BY <1>t, <2>8 DEF FailInvocation, SessionInv
    <3>2. session' \in [Sessions -> SessionStates] /\ SessionInv'
      BY <2>8, IdleType, SessionTInv DEF FailInvocation
    <3>3. /\ terminal' \in [Contracts -> Terminals \cup {"none"}]
          /\ claim' \in [Contracts -> Claims]
          /\ facts' \in [Contracts -> Seq(Facts)]
          /\ RowInv'
      <4>1. CASE /\ claim[c].status = "active"
                 /\ terminal' = [terminal EXCEPT ![c] = "failed"]
                 /\ claim' = [claim EXCEPT ![c].status = "released"]
                 /\ facts' = [facts EXCEPT ![c] =
                                 Append(@, Fact("released", claim[c], 0))]
        <5>1. claim[c] \in Claims /\ claim[c].worker \in Workers
          BY <1>t, <3>1, <4>1 DEF TypeOK, RowInv
        <5>2. Fact("released", claim[c], 0) \in Facts
          BY <5>1 DEF Fact, Facts, Claims
        <5>3. [claim[c] EXCEPT !.status = "released"] \in Claims
          BY <5>1 DEF Claims, ClaimStatuses
        <5> HIDE DEF c
        <5>4. facts' \in [Contracts -> Seq(Facts)]
          BY <1>t, <3>1, <4>1, <5>2 DEF TypeOK
        <5>5. claim' \in [Contracts -> Claims] /\ RowInv'
          BY <1>t, <3>1, <4>1, <5>1, <5>3 DEF TypeOK, RowInv, Claims
        <5>6. terminal' \in [Contracts -> Terminals \cup {"none"}]
          BY <1>t, <3>1, <4>1 DEF GatesTypeOK, Terminals
        <5> QED BY <5>4, <5>5, <5>6
      <4>2. CASE UNCHANGED <<terminal, claim, facts>>
        BY <1>t, <4>2 DEF TypeOK, GatesTypeOK, RowInv
      <4> QED BY <2>8, <4>1, <4>2 DEF FailInvocation, HoldsClaim
    <3> QED BY <1>t, <2>8, <3>2, <3>3 DEF FailInvocation, TInv, TypeOK, GatesTypeOK
  <2>9. CASE Crash(s)
    <3>1. session' \in [Sessions -> SessionStates] /\ SessionInv'
      BY <2>9, IdleType, SessionTInv DEF Crash
    <3> QED BY <1>t, <2>9, <3>1 DEF Crash, TInv, TypeOK, GatesTypeOK, RowInv
  <2> QED BY <1>2, <2>1, <2>2, <2>3, <2>4, <2>6, <2>7, <2>8, <2>9 DEF SessionStep
<1>3. ASSUME NEW m \in sent, Delivery(m)
      PROVE  TInv'
  <2>0. m \in Messages /\ m.contract \in Contracts /\ m.tag \in Nat
    BY <1>t DEF TypeOK, Messages
  <2>1. CASE \E now \in LockedNow : Renew(m, now)
    <3>1. PICK now \in LockedNow : Renew(m, now)
      BY <2>1
    <3> DEFINE c == m.contract
               row == [claim[c] EXCEPT !.lease = now + MaxLease]
    <3>2. now + MaxLease \in Nat
      BY <1>t, TimeAssumption DEF TypeOK, LockedNow
    <3>3. claim[c] \in Claims /\ claim[c].worker \in Workers
      BY <1>t, <2>0, <3>1 DEF TypeOK, RowInv, Renew, Renewable, HoldsClaim
    <3>4. row \in Claims /\ row.worker \in Workers
      BY <3>2, <3>3 DEF Claims
    <3>5. Fact("renewed", row, m.tag) \in Facts
      BY <2>0, <3>4 DEF Fact, Facts, Claims
    <3>6. /\ claim' = [claim EXCEPT ![c] = row]
          /\ facts' = [facts EXCEPT ![c] = Append(@, Fact("renewed", row, m.tag))]
          /\ UNCHANGED <<gateVars, clock, session, sent, observed>>
      BY <3>1 DEF Renew
    <3>7. c \in Contracts
      BY <2>0
    <3> HIDE DEF c, row
    <3>8. claim' \in [Contracts -> Claims] /\ facts' \in [Contracts -> Seq(Facts)]
      BY <1>t, <3>4, <3>5, <3>6, <3>7 DEF TypeOK
    <3>9. RowInv'
      BY <1>t, <3>4, <3>6, <3>7 DEF RowInv, TypeOK
    <3> QED BY <1>t, <3>6, <3>8, <3>9 DEF TInv, TypeOK, GatesTypeOK, SessionInv
  <2>2. CASE \E s \in Sessions : \E now \in LockedNow : RenewalRefused(m, s, now)
    <3>1. PICK s \in Sessions, now \in LockedNow : RenewalRefused(m, s, now)
      BY <2>2
    <3> DEFINE new == [session[s] EXCEPT !.phase = "lapsed"]
    <3>2. session[s] \in SessionStates /\ session[s].phase = "working"
          /\ session[s].request \in Requests /\ session[s].contract \in Contracts
      BY <1>t, <3>1 DEF TypeOK, SessionInv, RenewalRefused
    <3>3. new \in SessionStates /\ new.request \in Requests /\ new.contract \in Contracts
      BY <3>2 DEF SessionStates
    <3>4. session' = [session EXCEPT ![s] = new]
      BY <3>1 DEF RenewalRefused
    <3> HIDE DEF new
    <3>5. session' \in [Sessions -> SessionStates] /\ SessionInv'
      BY <3>3, <3>4, SessionTInv
    <3> QED BY <1>t, <3>1, <3>5 DEF RenewalRefused, TInv, TypeOK, GatesTypeOK, RowInv
  <2>3. CASE \E T \in Verdicts(m.contract) : CommitCandidate(m, T)
    <3>1. PICK T \in Verdicts(m.contract) : CommitCandidate(m, T)
      BY <2>3
    <3> DEFINE kept == {m.contract}
    <3>2. T \in TerminalBatches
      BY <2>0, <3>1, VerdictsAreBatches
    <3>3. kept \in SUBSET Contracts /\ \A x \in kept : claim[x].status = "active"
      BY <2>0, <3>1 DEF CommitCandidate, HoldsClaim
    <3>4. /\ terminal' = Settled(T)
          /\ claim' = CloseRows(T, kept, "submitted")
          /\ facts' = CloseFacts(T, kept, "submitted", m.tag)
          /\ UNCHANGED <<hold, links, assignee, registry, clock, session, sent, observed>>
      BY <3>1 DEF CommitCandidate
    <3> HIDE DEF kept
    <3>5. /\ terminal' \in [Contracts -> Terminals \cup {"none"}]
          /\ claim' \in [Contracts -> Claims]
          /\ facts' \in [Contracts -> Seq(Facts)]
          /\ \A x \in Contracts : /\ claim'[x].worker = claim[x].worker
                                  /\ claim'[x].status # "none" => claim[x].status # "none"
      BY <2>0, <3>2, <3>3, <3>4, CloseTInv
    <3> QED BY <1>t, <3>4, <3>5 DEF TInv, TypeOK, GatesTypeOK, RowInv, SessionInv
  <2> QED BY <1>3, <2>1, <2>2, <2>3 DEF Delivery
<1>4. CASE \E T \in TerminalBatches : CommitTerminals(T)
  <2>1. PICK T \in TerminalBatches : CommitTerminals(T)
    BY <1>4
  <2>2. /\ terminal' = Settled(T)
        /\ claim' = CloseRows(T, {}, "released")
        /\ facts' = CloseFacts(T, {}, "released", 0)
        /\ UNCHANGED <<hold, links, assignee, registry, clock, session, sent, observed>>
    BY <2>1 DEF CommitTerminals
  <2>3. /\ terminal' \in [Contracts -> Terminals \cup {"none"}]
        /\ claim' \in [Contracts -> Claims]
        /\ facts' \in [Contracts -> Seq(Facts)]
        /\ \A x \in Contracts : /\ claim'[x].worker = claim[x].worker
                                /\ claim'[x].status # "none" => claim[x].status # "none"
    BY <2>2, CloseTInv
  <2> QED BY <1>t, <2>2, <2>3 DEF TInv, TypeOK, GatesTypeOK, RowInv, SessionInv
<1>5. CASE \E c \in Contracts : ObserveExpired(c)
  <2>1. PICK c \in Contracts : ObserveExpired(c)
    BY <1>5
  <2>2. observed' \subseteq Observations
    BY <1>t, <2>1 DEF ObserveExpired, Observations, TypeOK, Claims
  <2> QED BY <1>t, <2>1, <2>2
       DEF ObserveExpired, TInv, TypeOK, GatesTypeOK, RowInv, SessionInv
<1>6. CASE \E o \in observed : CommitExpiration(o)
  <2>1. PICK o \in observed : CommitExpiration(o)
    BY <1>6
  <2> DEFINE c == o.contract
  <2>2. c \in Contracts /\ observed' \subseteq Observations
    BY <1>t, <2>1 DEF TypeOK, Observations, CommitExpiration
  <2>3. /\ terminal' \in [Contracts -> Terminals \cup {"none"}]
        /\ claim' \in [Contracts -> Claims]
        /\ facts' \in [Contracts -> Seq(Facts)]
        /\ RowInv'
    <3>1. CASE /\ claim[c].status = "active"
               /\ terminal' = [terminal EXCEPT ![c] = "failed"]
               /\ claim' = [claim EXCEPT ![c].status = "expired"]
               /\ facts' = [facts EXCEPT ![c] = Append(@, Fact("expired", claim[c], 0))]
      <4>1. claim[c] \in Claims /\ claim[c].worker \in Workers
        BY <1>t, <2>2, <3>1 DEF TypeOK, RowInv
      <4>2. Fact("expired", claim[c], 0) \in Facts
        BY <4>1 DEF Fact, Facts, Claims
      <4>3. [claim[c] EXCEPT !.status = "expired"] \in Claims
        BY <4>1 DEF Claims, ClaimStatuses
      <4> HIDE DEF c
      <4>4. facts' \in [Contracts -> Seq(Facts)]
        BY <1>t, <2>2, <3>1, <4>2 DEF TypeOK
      <4>5. claim' \in [Contracts -> Claims] /\ RowInv'
        BY <1>t, <2>2, <3>1, <4>1, <4>3 DEF TypeOK, RowInv, Claims
      <4>6. terminal' \in [Contracts -> Terminals \cup {"none"}]
        BY <1>t, <2>2, <3>1 DEF GatesTypeOK, Terminals
      <4> QED BY <4>4, <4>5, <4>6
    <3>2. CASE UNCHANGED <<terminal, claim, facts>>
      BY <1>t, <3>2 DEF TypeOK, GatesTypeOK, RowInv
    <3> QED BY <2>1, <3>1, <3>2 DEF CommitExpiration, StillOverdue
  <2> QED BY <1>t, <2>1, <2>2, <2>3
       DEF CommitExpiration, TInv, TypeOK, GatesTypeOK, SessionInv
<1>7. CASE Tick
  BY <1>t, <1>7 DEF Tick, TInv, TypeOK, GatesTypeOK, RowInv, SessionInv
<1>8. CASE UNCHANGED vars
  BY <1>t, <1>8 DEF vars, leaseVars, TInv, TypeOK, GatesTypeOK, RowInv, SessionInv
<1> QED BY <1>1, <1>2, <1>3, <1>4, <1>5, <1>6, <1>7, <1>8 DEF Next

\* Type correctness: every reachable state of the claim machine is well typed.
THEOREM TypeCorrect == Spec => []TypeOK
<1>1. TInv => TypeOK
  BY DEF TInv
<1> QED BY <1>1, InitTInv, NextTInv, PTL DEF Spec

-----------------------------------------------------------------------------
(***************************************************************************)
(* The four ways a step can touch the gates and the claim rows.            *)
(***************************************************************************)
GrantShape(c, w) ==
    /\ Claimable(c) /\ AdmitsWorker(c, w)
    /\ \E l \in Nat :
          claim' = [claim EXCEPT ![c] = [status |-> "active", worker |-> w,
                                         epoch |-> claim[c].epoch + 1, lease |-> l]]
    /\ UNCHANGED gateVars

RenewShape(c) ==
    /\ claim[c].status = "active"
    /\ \E l \in Nat : claim' = [claim EXCEPT ![c] = [claim[c] EXCEPT !.lease = l]]
    /\ UNCHANGED gateVars

CloseShape(T, kept, how) ==
    /\ Unsettled(T)
    /\ \A x \in kept : claim[x].status = "active" /\ terminal[x] = "none"
    /\ how = "expired" => kept \subseteq DOMAIN T
    /\ kept = {} => DOMAIN T # {}
    /\ kept = {} \/ \E c \in Contracts : kept = {c}
    /\ terminal' = Settled(T)
    /\ claim' = CloseRows(T, kept, how)
    /\ UNCHANGED <<hold, links, assignee, registry>>

Shapes ==
    \/ GateCommand /\ UNCHANGED claim
    \/ \E c \in Contracts, w \in Workers : GrantShape(c, w)
    \/ \E c \in Contracts : RenewShape(c)
    \/ \E T \in TerminalBatches, kept \in SUBSET Contracts,
          how \in {"submitted", "expired"} : CloseShape(T, kept, how)
    \/ UNCHANGED <<gateVars, claim>>

\* Failing one Contract's claim is a batch of one terminal.
LEMMA FailOne ==
    ASSUME TypeOK, NEW c \in Contracts, claim[c].status = "active", terminal[c] = "none",
           NEW status \in {"released", "expired"},
           terminal' = [terminal EXCEPT ![c] = "failed"],
           claim' = [claim EXCEPT ![c].status = status],
           UNCHANGED <<hold, links, assignee, registry>>
    PROVE  Shapes
<1> DEFINE T == [x \in {c} |-> "failed"]
           kept == IF status = "expired" THEN {c} ELSE {}
<1>1. T \in TerminalBatches
  <2>1. T \in [{c} -> Terminals]
    BY DEF Terminals
  <2> QED BY <2>1 DEF TerminalBatches
<1>2. DOMAIN T = {c} /\ T[c] = "failed"
  OBVIOUS
<1> HIDE DEF T
<1>3. terminal' = Settled(T)
  BY <1>2 DEF Settled, TypeOK, GatesTypeOK
<1>4. claim' = CloseRows(T, kept, "expired")
  BY <1>2 DEF CloseRows, Released, TypeOK
<1>5. CloseShape(T, kept, "expired")
  BY <1>2, <1>3, <1>4 DEF CloseShape, Unsettled
<1> QED BY <1>1, <1>5 DEF Shapes

LEMMA StepShape == TInv /\ [Next]_vars => Shapes
<1> SUFFICES ASSUME TInv, [Next]_vars PROVE Shapes
  OBVIOUS
<1> USE DEF gateVars
<1>t. TypeOK /\ SessionInv
  BY DEF TInv
<1>1. CASE Operator
  BY <1>1 DEF Operator, Shapes
<1>2. ASSUME NEW s \in Sessions, SessionStep(s)
      PROVE  Shapes
  <2>1. ASSUME NEW c \in Contracts, NEW now \in LockedNow, Grant(s, c, now)
        PROVE  Shapes
    <3> DEFINE w == Signer[session[s].request]
    <3>1. w \in Workers
      BY <1>t, <2>1, SignerAssumption DEF Grant, SessionInv
    <3>2. now + MaxLease \in Nat
      BY <1>t, TimeAssumption DEF TypeOK, LockedNow
    <3>3. GrantShape(c, w)
      BY <2>1, <3>2 DEF GrantShape, Grant, Grantable
    <3> QED BY <3>1, <3>3 DEF Shapes
  <2>2. CASE FailInvocation(s)
    <3> DEFINE c == session[s].contract
    <3>1. c \in Contracts
      BY <1>t, <2>2 DEF FailInvocation, SessionInv
    <3>2. CASE UNCHANGED <<terminal, claim, facts>>
      BY <2>2, <3>2 DEF FailInvocation, Shapes
    <3>3. CASE /\ claim[c].status = "active" /\ terminal[c] = "none"
               /\ terminal' = [terminal EXCEPT ![c] = "failed"]
               /\ claim' = [claim EXCEPT ![c].status = "released"]
      BY <1>t, <2>2, <3>1, <3>3, FailOne DEF FailInvocation
    <3> QED BY <2>2, <3>2, <3>3 DEF FailInvocation, HoldsClaim
  <2>3. ASSUME UNCHANGED <<gateVars, claim>> PROVE Shapes
    BY <2>3 DEF Shapes
  <2> QED BY <1>2, <2>1, <2>2, <2>3
       DEF SessionStep, Begin, Scan, Refuse, AskRenewal, Answer, Crash
<1>3. ASSUME NEW m \in sent, Delivery(m)
      PROVE  Shapes
  <2>0. m.contract \in Contracts
    BY <1>t DEF TypeOK, Messages
  <2>1. ASSUME NEW now \in LockedNow, Renew(m, now) PROVE Shapes
    <3>1. now + MaxLease \in Nat
      BY <1>t, TimeAssumption DEF TypeOK, LockedNow
    <3>2. RenewShape(m.contract)
      BY <2>1, <3>1 DEF RenewShape, Renew, Renewable, HoldsClaim
    <3> QED BY <2>0, <3>2 DEF Shapes
  <2>2. ASSUME NEW T \in Verdicts(m.contract), CommitCandidate(m, T) PROVE Shapes
    <3>1. T \in TerminalBatches
      BY <2>0, VerdictsAreBatches
    <3>2. CloseShape(T, {m.contract}, "submitted")
      BY <2>0, <2>2 DEF CloseShape, CommitCandidate, HoldsClaim
    <3>3. {m.contract} \in SUBSET Contracts
      BY <2>0
    <3> QED BY <3>1, <3>2, <3>3 DEF Shapes
  <2>3. ASSUME NEW s \in Sessions, NEW now \in LockedNow, RenewalRefused(m, s, now)
        PROVE  Shapes
    BY <2>3 DEF RenewalRefused, Shapes
  <2> QED BY <1>3, <2>1, <2>2, <2>3 DEF Delivery
<1>4. ASSUME NEW T \in TerminalBatches, CommitTerminals(T) PROVE Shapes
  <2>1. CloseRows(T, {}, "released") = CloseRows(T, {}, "submitted")
    BY DEF CloseRows
  <2>2. CloseShape(T, {}, "submitted")
    BY <1>4, <2>1 DEF CloseShape, CommitTerminals
  <2> QED BY <2>2 DEF Shapes
<1>5. ASSUME NEW o \in observed, CommitExpiration(o) PROVE Shapes
  <2> DEFINE c == o.contract
  <2>1. c \in Contracts
    BY <1>t DEF TypeOK, Observations
  <2>2. CASE UNCHANGED <<terminal, claim, facts>>
    BY <1>5, <2>2 DEF CommitExpiration, Shapes
  <2>3. CASE /\ claim[c].status = "active" /\ terminal[c] = "none"
             /\ terminal' = [terminal EXCEPT ![c] = "failed"]
             /\ claim' = [claim EXCEPT ![c].status = "expired"]
    BY <1>t, <1>5, <2>1, <2>3, FailOne DEF CommitExpiration
  <2> QED BY <1>5, <2>2, <2>3 DEF CommitExpiration, StillOverdue
<1>6. CASE UNCHANGED <<gateVars, claim>>
  BY <1>6 DEF Shapes
<1> QED BY <1>1, <1>2, <1>3, <1>4, <1>5, <1>6
     DEF Next, ObserveExpired, Tick, vars

-----------------------------------------------------------------------------
(***************************************************************************)
(* The inductive invariant: the gates a claim passed stay as they were.    *)
(* None of its conjuncts needs the others; all of them need TInv.          *)
(***************************************************************************)
GateInv ==
    /\ NoLiveClaimOnTerminal
    /\ AbortedClaimIsTerminal
    /\ ClaimedNeverHeld
    /\ ClaimedPrerequisitesComplete
    /\ ClaimantIsAssignee
    /\ LinksAcyclic

LEMMA InitGateInv == Init => GateInv
<1> SUFFICES ASSUME Init PROVE GateInv
  OBVIOUS
<1>1. \A c \in Contracts : claim[c].status = "none"
  BY DEF Init, NoClaim
<1>2. LinksAcyclic
  <2>1. \A S \in (SUBSET Contracts) \ {{}} : \E c \in S : TRUE
    OBVIOUS
  <2>2. \A c, p \in Contracts : <<c, p>> \notin links
    BY DEF Init, GatesInit
  <2> QED
    BY <2>1, <2>2 DEF LinksAcyclic, Acyclic, WaitingRings
<1> QED BY <1>1, <1>2
     DEF GateInv, NoLiveClaimOnTerminal, AbortedClaimIsTerminal, ClaimedNeverHeld,
         ClaimedPrerequisitesComplete, ClaimantIsAssignee

\* Operator commands touch no gate of a claimed Contract.
LEMMA CommandGateInv ==
    ASSUME TInv, GateInv, GateCommand, UNCHANGED claim
    PROVE  GateInv'
<1> USE DEF TInv, TypeOK, GateInv, NoLiveClaimOnTerminal, AbortedClaimIsTerminal
<1>1. CASE \E w \in Workers, v \in Versions : Register(w, v)
  BY <1>1 DEF Register, ClaimedNeverHeld, OpenHolds, ClaimedPrerequisitesComplete,
              Blockers, ClaimantIsAssignee, LinksAcyclic
<1>2. CASE \E h \in HoldIds, c \in Contracts : PlaceHold(h, c)
  <2>1. PICK h \in HoldIds, c \in Contracts : PlaceHold(h, c)
    BY <1>2
  <2>2. ClaimedNeverHeld'
    <3> SUFFICES ASSUME NEW d \in Contracts, claim[d].status # "none",
                        NEW g \in HoldIds, hold'[g] = [state |-> "open", contract |-> d]
                 PROVE  FALSE
      BY DEF ClaimedNeverHeld, OpenHolds
    <3>1. CASE g = h
      <4>1. hold'[g] = [state |-> "open", contract |-> c]
        BY <2>1, <3>1 DEF PlaceHold, GatesTypeOK
      <4>2. d = c
        BY <4>1
      <4> QED BY <2>1, <4>2 DEF PlaceHold, NeverClaimed
    <3>2. CASE g # h
      BY <2>1, <3>2 DEF PlaceHold, GatesTypeOK, ClaimedNeverHeld, OpenHolds
    <3> QED BY <3>1, <3>2
  <2> QED BY <2>1, <2>2
       DEF PlaceHold, ClaimedPrerequisitesComplete, Blockers, ClaimantIsAssignee, LinksAcyclic
<1>3. CASE \E h \in HoldIds : ReleaseHold(h)
  <2>1. PICK h \in HoldIds : ReleaseHold(h)
    BY <1>3
  <2>2. ClaimedNeverHeld'
    <3> SUFFICES ASSUME NEW d \in Contracts, claim[d].status # "none",
                        NEW g \in HoldIds, hold'[g] = [state |-> "open", contract |-> d]
                 PROVE  FALSE
      BY <2>1 DEF ClaimedNeverHeld, OpenHolds, ReleaseHold
    <3>1. g # h
      <4> SUFFICES ASSUME g = h PROVE FALSE
        OBVIOUS
      <4>1. hold[h] \in [state : {"open", "released"}, contract : Contracts]
        BY <2>1 DEF ReleaseHold, GatesTypeOK, Holds, Unused
      <4>2. hold'[h].state = "released"
        BY <2>1, <4>1 DEF ReleaseHold, GatesTypeOK
      <4> QED BY <4>2
    <3> QED BY <2>1, <3>1 DEF ReleaseHold, GatesTypeOK, ClaimedNeverHeld, OpenHolds
  <2> QED BY <2>1, <2>2
       DEF ReleaseHold, ClaimedPrerequisitesComplete, Blockers, ClaimantIsAssignee, LinksAcyclic
<1>4. CASE \E e \in Edges : PlaceLink(e[1], e[2])
  <2>1. PICK e \in Edges : PlaceLink(e[1], e[2])
    BY <1>4
  <2>2. ClaimedPrerequisitesComplete'
    BY <2>1 DEF PlaceLink, LinkTargetOpen, NeverClaimed, ClaimedPrerequisitesComplete, Blockers
  <2>3. LinksAcyclic'
    BY <2>1 DEF PlaceLink, LinksAcyclic, Acyclic, WaitingRings
  <2> QED BY <2>1, <2>2, <2>3
       DEF PlaceLink, ClaimedNeverHeld, OpenHolds, ClaimantIsAssignee
<1>5. CASE \E e \in Edges : ReleaseLink(e[1], e[2])
  <2>1. PICK e \in Edges : ReleaseLink(e[1], e[2])
    BY <1>5
  <2>2. ClaimedPrerequisitesComplete'
    BY <2>1 DEF ReleaseLink, ClaimedPrerequisitesComplete, Blockers
  <2>3. LinksAcyclic'
    BY <2>1 DEF ReleaseLink, LinksAcyclic, Acyclic, WaitingRings
  <2> QED BY <2>1, <2>2, <2>3
       DEF ReleaseLink, ClaimedNeverHeld, OpenHolds, ClaimantIsAssignee
<1>6. CASE \E c \in Assignable, w \in Workers \cup {NoWorker} : Assign(c, w)
  <2>1. PICK c \in Assignable, w \in Workers \cup {NoWorker} : Assign(c, w)
    BY <1>6
  <2>2. ClaimantIsAssignee'
    BY <2>1, AssignableAssumption DEF Assign, NeverClaimed, ClaimantIsAssignee, GatesTypeOK
  <2> QED BY <2>1, <2>2
       DEF Assign, ClaimedNeverHeld, OpenHolds, ClaimedPrerequisitesComplete, Blockers, LinksAcyclic
<1> QED BY <1>1, <1>2, <1>3, <1>4, <1>5, <1>6 DEF GateCommand

LEMMA NextGateInv == TInv /\ GateInv /\ [Next]_vars => GateInv'
<1> SUFFICES ASSUME TInv, GateInv, Shapes PROVE GateInv'
  BY StepShape
<1> USE DEF TInv, TypeOK, GateInv
<1>1. CASE GateCommand /\ UNCHANGED claim
  BY <1>1, CommandGateInv
<1>2. ASSUME NEW c \in Contracts, NEW w \in Workers, GrantShape(c, w)
      PROVE  GateInv'
  <2>1. /\ terminal[c] = "none" /\ OpenHolds(c) = {} /\ Blockers(c) = {}
        /\ assignee[c] # NoWorker => assignee[c] = w
    BY <1>2 DEF GrantShape, Claimable, AdmitsWorker
  <2>2. /\ claim'[c].status = "active" /\ claim'[c].worker = w
        /\ \A d \in Contracts \ {c} : claim'[d] = claim[d]
        /\ UNCHANGED <<terminal, hold, links, assignee>>
    BY <1>2 DEF GrantShape, gateVars
  <2>3. NoLiveClaimOnTerminal' /\ AbortedClaimIsTerminal' /\ ClaimantIsAssignee'
    BY <2>1, <2>2 DEF NoLiveClaimOnTerminal, AbortedClaimIsTerminal, ClaimantIsAssignee
  <2>4. ClaimedNeverHeld' /\ LinksAcyclic'
    BY <2>1, <2>2 DEF ClaimedNeverHeld, OpenHolds, LinksAcyclic
  <2>5. ClaimedPrerequisitesComplete'
    BY <2>1, <2>2 DEF ClaimedPrerequisitesComplete, Blockers
  <2> QED BY <2>3, <2>4, <2>5
<1>3. ASSUME NEW c \in Contracts, RenewShape(c)
      PROVE  GateInv'
  <2>1. /\ \A d \in Contracts : /\ claim'[d].status = claim[d].status
                                /\ claim'[d].worker = claim[d].worker
        /\ UNCHANGED <<terminal, hold, links, assignee>>
    BY <1>3 DEF RenewShape, gateVars, Claims
  <2>2. NoLiveClaimOnTerminal' /\ AbortedClaimIsTerminal' /\ ClaimantIsAssignee'
    BY <2>1 DEF NoLiveClaimOnTerminal, AbortedClaimIsTerminal, ClaimantIsAssignee
  <2>3. ClaimedNeverHeld' /\ LinksAcyclic'
    BY <2>1 DEF ClaimedNeverHeld, OpenHolds, LinksAcyclic
  <2>4. ClaimedPrerequisitesComplete'
    BY <2>1 DEF ClaimedPrerequisitesComplete, Blockers
  <2> QED BY <2>2, <2>3, <2>4
<1>4. ASSUME NEW T \in TerminalBatches, NEW kept \in SUBSET Contracts,
             NEW how \in {"submitted", "expired"}, CloseShape(T, kept, how)
      PROVE  GateInv'
  <2>1. \A x \in Contracts :
          /\ claim[x].status = "none" <=> claim'[x].status = "none"
          /\ claim'[x].worker = claim[x].worker
          /\ claim'[x].status = "active" =>
                claim[x].status = "active" /\ x \notin DOMAIN T
          /\ claim'[x].status \in {"released", "expired"} =>
                claim[x].status \in {"released", "expired"} \/ x \in DOMAIN T
    BY <1>4 DEF CloseShape, CloseRows, Released, Claims
  <2>2. \A x \in Contracts :
          /\ x \notin DOMAIN T => terminal'[x] = terminal[x]
          /\ x \in DOMAIN T => terminal[x] = "none" /\ terminal'[x] \in Terminals
    BY <1>4, BatchType DEF CloseShape, Settled, Unsettled
  <2>3. UNCHANGED <<hold, links, assignee>>
    BY <1>4 DEF CloseShape
  <2>4. NoLiveClaimOnTerminal'
    BY <2>1, <2>2 DEF NoLiveClaimOnTerminal
  <2>5. AbortedClaimIsTerminal'
    BY <2>1, <2>2 DEF AbortedClaimIsTerminal, Terminals
  <2>6. ClaimedPrerequisitesComplete'
    <3> SUFFICES ASSUME NEW x \in Contracts, claim'[x].status # "none",
                        NEW p \in Contracts, <<x, p>> \in links
                 PROVE  terminal'[p] = "complete"
      BY <2>3 DEF ClaimedPrerequisitesComplete, Blockers
    <3>1. terminal[p] = "complete"
      BY <2>1 DEF ClaimedPrerequisitesComplete, Blockers
    <3> QED BY <2>2, <3>1
  <2> QED BY <2>1, <2>3, <2>4, <2>5, <2>6
       DEF ClaimedNeverHeld, OpenHolds, ClaimantIsAssignee, LinksAcyclic
<1>5. CASE UNCHANGED <<gateVars, claim>>
  BY <1>5 DEF gateVars, NoLiveClaimOnTerminal, AbortedClaimIsTerminal, ClaimedNeverHeld,
              OpenHolds, ClaimedPrerequisitesComplete, Blockers, ClaimantIsAssignee,
              LinksAcyclic
<1> QED BY <1>1, <1>2, <1>3, <1>4, <1>5 DEF Shapes

LEMMA GateInvariant == Spec => [](TInv /\ GateInv)
  BY InitTInv, NextTInv, InitGateInv, NextGateInv, PTL DEF Spec

\* No transaction leaves an active claim on a terminal Contract.
THEOREM TerminalReleasesClaims == Spec => []NoLiveClaimOnTerminal
<1>1. TInv /\ GateInv => NoLiveClaimOnTerminal
  BY DEF GateInv
<1> QED BY <1>1, GateInvariant, PTL

\* Every attempt that ends without a submission leaves a terminal fact.
THEOREM AbortsAreVisible == Spec => []AbortedClaimIsTerminal
<1>1. TInv /\ GateInv => AbortedClaimIsTerminal
  BY DEF GateInv
<1> QED BY <1>1, GateInvariant, PTL

\* No Contract is claimed while a hold on it is open, before its prerequisites are
\* complete, or by another than its assignee, however the command that places the
\* gate and the claim interleave.
THEOREM GatesExclude == Spec => []ClaimsRespectGates
<1>1. TInv /\ GateInv => ClaimsRespectGates
  BY DEF GateInv, ClaimsRespectGates
<1> QED BY <1>1, GateInvariant, PTL

\* Prerequisite links never form a cycle.
THEOREM NoPrerequisiteCycle == Spec => []LinksAcyclic
<1>1. TInv /\ GateInv => LinksAcyclic
  BY DEF GateInv
<1> QED BY <1>1, GateInvariant, PTL

-----------------------------------------------------------------------------
(***************************************************************************)
(* Action properties: every one is read off the shapes of a step.          *)
(***************************************************************************)
LEMMA ShapesKeepClosed ==
    ASSUME TInv, GateInv, Shapes, NEW c \in Contracts
    PROVE  /\ claim[c].status \notin {"none", "active"} => claim'[c] = claim[c]
           /\ claim[c].status = "active" =>
                 /\ claim'[c].status # "none"
                 /\ claim'[c].worker = claim[c].worker
                 /\ claim'[c].epoch = claim[c].epoch
           /\ terminal[c] # "none" => terminal'[c] = terminal[c]
<1> DEFINE Goal == /\ claim[c].status \notin {"none", "active"} => claim'[c] = claim[c]
                   /\ claim[c].status = "active" =>
                         /\ claim'[c].status # "none"
                         /\ claim'[c].worker = claim[c].worker
                         /\ claim'[c].epoch = claim[c].epoch
                   /\ terminal[c] # "none" => terminal'[c] = terminal[c]
<1> USE DEF TInv, TypeOK
<1>0. claim[c] \in Claims
  OBVIOUS
<1>1. CASE GateCommand /\ UNCHANGED claim
  BY <1>1 DEF GateCommand, Register, PlaceHold, ReleaseHold, PlaceLink, ReleaseLink, Assign
<1>2. ASSUME NEW d \in Contracts, NEW w \in Workers, GrantShape(d, w) PROVE Goal
  BY <1>0, <1>2 DEF GrantShape, gateVars, Claimable, NeverClaimed
<1>3. ASSUME NEW d \in Contracts, RenewShape(d) PROVE Goal
  BY <1>0, <1>3 DEF RenewShape, gateVars, Claims
<1>4. ASSUME NEW T \in TerminalBatches, NEW kept \in SUBSET Contracts,
             NEW how \in {"submitted", "expired"}, CloseShape(T, kept, how)
      PROVE  Goal
  BY <1>0, <1>4 DEF CloseShape, CloseRows, Released, Settled, Unsettled, Claims
<1>5. CASE UNCHANGED <<gateVars, claim>>
  BY <1>5 DEF gateVars
<1> QED BY <1>1, <1>2, <1>3, <1>4, <1>5 DEF Shapes

\* A claim is granted once, keeps its worker and epoch, and stays closed.
THEOREM NoReclaim == Spec => ClaimsNeverReopen
<1>1. TInv /\ GateInv /\ [Next]_vars =>
        [\A c \in Contracts :
          /\ claim[c].status \notin {"none", "active"} => claim'[c] = claim[c]
          /\ claim[c].status = "active" =>
                /\ claim'[c].status # "none"
                /\ claim'[c].worker = claim[c].worker
                /\ claim'[c].epoch = claim[c].epoch]_vars
  BY StepShape, ShapesKeepClosed
<1> QED BY <1>1, GateInvariant, PTL DEF Spec, ClaimsNeverReopen

\* The terminal fact of a Contract is written once.
THEOREM OneTerminal == Spec => TerminalsImmutable
<1>1. TInv /\ GateInv /\ [Next]_vars =>
        [\A c \in Contracts : terminal[c] # "none" => terminal'[c] = terminal[c]]_vars
  BY StepShape, ShapesKeepClosed
<1> QED BY <1>1, GateInvariant, PTL DEF Spec, TerminalsImmutable

-----------------------------------------------------------------------------
(***************************************************************************)
(* Processes: the Contract a Session works on has a claim row, and no      *)
(* other Session works on it.                                              *)
(***************************************************************************)
ExecInv ==
    /\ SingleExecution
    /\ \A s \in Sessions : session[s].contract # NoContract =>
          session[s].contract \in Contracts /\ claim[session[s].contract].status # "none"

LEMMA NextExecInv == TInv /\ GateInv /\ ExecInv /\ [Next]_vars => ExecInv'
<1> SUFFICES ASSUME TInv, GateInv, ExecInv, [Next]_vars PROVE ExecInv'
  OBVIOUS
<1>t. TypeOK /\ Shapes
  BY StepShape DEF TInv
<1>1. \A c \in Contracts : claim[c].status # "none" => claim'[c].status # "none"
  BY <1>t, ShapesKeepClosed DEF TypeOK, Claims, ClaimStatuses
\* A Session keeps its Contract, drops it, or gains one that had no row.
<1>2. \A s \in Sessions : \/ session'[s].contract = session[s].contract
                         \/ session'[s].contract = NoContract
                         \/ /\ session'[s].contract \in Contracts
                            /\ claim[session'[s].contract].status = "none"
                            /\ claim'[session'[s].contract].status # "none"
                            /\ \A t \in Sessions \ {s} : session'[t] = session[t]
  <2>1. ASSUME NEW s \in Sessions, NEW c \in Contracts, NEW now \in LockedNow,
               Grant(s, c, now)
        PROVE  /\ session'[s].contract = c /\ claim[c].status = "none"
               /\ claim'[c].status = "active"
               /\ \A t \in Sessions \ {s} : session'[t] = session[t]
    <3>1. session[s] \in SessionStates
      BY <1>t DEF TypeOK
    <3> QED BY <1>t, <2>1, <3>1
         DEF Grant, TypeOK, SessionStates, Grantable, Claimable, NeverClaimed
  <2>2. ASSUME NEW s \in Sessions, SessionStep(s),
               ~ \E c \in Contracts : \E now \in LockedNow : Grant(s, c, now)
        PROVE  \A t \in Sessions : \/ session'[t].contract = session[t].contract
                                  \/ session'[t].contract = NoContract
    <3>1. session[s] \in SessionStates /\ session \in [Sessions -> SessionStates]
      BY <1>t DEF TypeOK
    <3>2. CASE \E r \in Requests : Begin(s, r)
      BY <3>1, <3>2 DEF Begin, Idle
    <3>3. CASE Scan(s)
      BY <3>1, <3>3 DEF Scan, Idle, SessionStates
    <3>4. CASE \E c \in Contracts : Refuse(s, c)
      BY <3>1, <3>4 DEF Refuse, Idle, SessionStates
    <3>5. CASE AskRenewal(s)
      BY <3>5 DEF AskRenewal
    <3>6. CASE Answer(s)
      BY <3>1, <3>6 DEF Answer, Idle
    <3>7. CASE FailInvocation(s) \/ Crash(s)
      BY <3>1, <3>7 DEF FailInvocation, Crash, Idle
    <3> QED BY <2>2, <3>2, <3>3, <3>4, <3>5, <3>6, <3>7 DEF SessionStep
  <2>3. CASE \E s \in Sessions : SessionStep(s)
    <3>1. PICK s \in Sessions : SessionStep(s)
      BY <2>3
    <3>2. CASE \E c \in Contracts : \E now \in LockedNow : Grant(s, c, now)
      <4>1. PICK c \in Contracts, now \in LockedNow : Grant(s, c, now)
        BY <3>2
      <4> QED BY <2>1, <4>1
    <3> QED BY <2>2, <3>1, <3>2
  <2>4. CASE \E m \in sent : Delivery(m)
    <3>1. PICK m \in sent : Delivery(m)
      BY <2>4
    <3>2. ASSUME NEW s \in Sessions, NEW now \in LockedNow, RenewalRefused(m, s, now)
          PROVE  \A t \in Sessions : session'[t].contract = session[t].contract
      <4>1. session[s] \in SessionStates /\ session \in [Sessions -> SessionStates]
        BY <1>t DEF TypeOK
      <4> QED BY <3>2, <4>1 DEF RenewalRefused, SessionStates
    <3> QED BY <3>1, <3>2 DEF Delivery, Renew, CommitCandidate
  <2>5. CASE UNCHANGED session
    BY <2>5
  <2> QED BY <2>3, <2>4, <2>5
       DEF Next, Operator, leaseVars, CommitTerminals, ObserveExpired, CommitExpiration, Tick, vars
<1>3. \A s \in Sessions : session'[s].contract # NoContract =>
        session'[s].contract \in Contracts /\ claim'[session'[s].contract].status # "none"
  BY <1>1, <1>2 DEF ExecInv
<1>4. SingleExecution'
  <2> SUFFICES ASSUME NEW s \in Sessions, NEW t \in Sessions, s # t,
                      session'[s].contract # NoContract,
                      session'[s].contract = session'[t].contract
               PROVE  FALSE
    BY DEF SingleExecution
  <2>1. CASE session'[s].contract = session[s].contract
    <3>1. claim[session[s].contract].status # "none"
      BY <2>1 DEF ExecInv
    <3>2. session'[t].contract = session[t].contract
      BY <1>2, <2>1, <3>1
    <3> QED BY <2>1, <3>2 DEF ExecInv, SingleExecution
  <2>2. CASE session'[s].contract # session[s].contract
    <3>1. /\ claim[session'[s].contract].status = "none"
          /\ session'[t] = session[t]
      BY <1>2, <2>2
    <3> QED BY <3>1 DEF ExecInv
  <2> QED BY <2>1, <2>2
<1> QED BY <1>3, <1>4 DEF ExecInv

\* No two processes ever execute the same Contract.
THEOREM OneProcessPerContract == Spec => []SingleExecution
<1>1. Init => ExecInv
  BY DEF Init, ExecInv, SingleExecution, Idle
<1>2. ExecInv => SingleExecution
  BY DEF ExecInv
<1> QED BY <1>1, <1>2, NextExecInv, GateInvariant, PTL DEF Spec

-----------------------------------------------------------------------------
(***************************************************************************)
(* Expiry: an observation names a lease that had run out, and stays true   *)
(* because time does not go back.                                          *)
(***************************************************************************)
LeaseInv == ExpiredRanOut /\ \A o \in observed : o.lease < clock

LEMMA NextLeaseInv == TInv /\ GateInv /\ LeaseInv /\ [Next]_vars => LeaseInv'
<1> SUFFICES ASSUME TInv, GateInv, LeaseInv, [Next]_vars PROVE LeaseInv'
  OBVIOUS
<1>t. TypeOK /\ SessionInv
  BY DEF TInv
<1> USE DEF LeaseInv, ExpiredRanOut
<1>1. \A c \in Contracts : claim[c].status = "expired" => claim'[c] = claim[c]
  BY StepShape, ShapesKeepClosed
<1>2. clock \in Nat /\ \A c \in Contracts : claim[c] \in Claims
  BY <1>t DEF TypeOK
<1>3. ASSUME UNCHANGED <<clock, observed>>,
             \A c \in Contracts : claim'[c].status = "expired" => claim[c].status = "expired"
      PROVE  LeaseInv'
  BY <1>1, <1>3
<1>4. CASE Operator \/ UNCHANGED vars
  BY <1>3, <1>4 DEF Operator, leaseVars, vars
<1>5. ASSUME NEW s \in Sessions, SessionStep(s) PROVE LeaseInv'
  <2>1. ASSUME NEW c \in Contracts, NEW now \in LockedNow, Grant(s, c, now)
        PROVE  LeaseInv'
    <3>1. \A d \in Contracts : claim'[d].status = "expired" => claim[d].status = "expired"
      BY <1>t, <2>1 DEF Grant, TypeOK
    <3> QED BY <1>3, <2>1, <3>1 DEF Grant
  <2>2. CASE FailInvocation(s)
    <3>1. \A d \in Contracts : claim'[d].status = "expired" => claim[d].status = "expired"
      <4>1. CASE claim' = claim
        BY <4>1
      <4>2. CASE claim' = [claim EXCEPT ![session[s].contract].status = "released"]
        BY <1>2, <4>2 DEF Claims
      <4> QED BY <2>2, <4>1, <4>2 DEF FailInvocation
    <3> QED BY <1>3, <2>2, <3>1 DEF FailInvocation
  <2>3. CASE UNCHANGED <<claim, clock, observed>>
    BY <1>3, <2>3
  <2> QED BY <1>5, <2>1, <2>2, <2>3
       DEF SessionStep, Begin, Scan, Refuse, AskRenewal, Answer, Crash
<1>6. ASSUME NEW m \in sent, Delivery(m) PROVE LeaseInv'
  <2>1. ASSUME NEW now \in LockedNow, Renew(m, now) PROVE LeaseInv'
    <3>1. \A d \in Contracts : claim'[d].status = "expired" => claim[d].status = "expired"
      BY <1>t, <2>1 DEF Renew, TypeOK, Claims
    <3> QED BY <1>3, <2>1, <3>1 DEF Renew
  <2>2. ASSUME NEW T \in Verdicts(m.contract), CommitCandidate(m, T) PROVE LeaseInv'
    <3>1. \A d \in Contracts : claim'[d].status = "expired" => claim[d].status = "expired"
      BY <1>2, <2>2 DEF CommitCandidate, CloseRows, Released, Claims
    <3> QED BY <1>3, <2>2, <3>1 DEF CommitCandidate
  <2> QED BY <1>3, <1>6, <2>1, <2>2 DEF Delivery, RenewalRefused
<1>7. ASSUME NEW T \in TerminalBatches, CommitTerminals(T) PROVE LeaseInv'
  <2>1. \A d \in Contracts : claim'[d].status = "expired" => claim[d].status = "expired"
    BY <1>2, <1>7 DEF CommitTerminals, CloseRows, Released, Claims
  <2> QED BY <1>3, <1>7, <2>1 DEF CommitTerminals
<1>8. ASSUME NEW c \in Contracts, ObserveExpired(c) PROVE LeaseInv'
  BY <1>8 DEF ObserveExpired
<1>9. ASSUME NEW o \in observed, CommitExpiration(o) PROVE LeaseInv'
  <2>1. o.contract \in Contracts
    BY <1>t DEF TypeOK, Observations
  <2>2. CASE UNCHANGED claim
    BY <1>9, <2>2 DEF CommitExpiration
  <2>3. CASE /\ claim[o.contract].lease = o.lease
             /\ claim' = [claim EXCEPT ![o.contract].status = "expired"]
    <3>1. \A d \in Contracts : claim'[d].lease = claim[d].lease
             /\ (d # o.contract => claim'[d] = claim[d])
      BY <1>t, <2>3 DEF TypeOK, Claims
    <3> QED BY <1>9, <2>3, <3>1 DEF CommitExpiration
  <2> QED BY <1>9, <2>2, <2>3 DEF CommitExpiration, StillOverdue
<1>10. CASE Tick
  BY <1>2, <1>10, <1>t DEF Tick, TypeOK, Claims, Observations
<1> QED BY <1>4, <1>5, <1>6, <1>7, <1>8, <1>9, <1>10 DEF Next

\* A claim is only expired after its latest committed lease ran out.
THEOREM ExpiryIsFenced == Spec => []ExpiredRanOut
<1>1. Init => LeaseInv
  BY DEF Init, LeaseInv, ExpiredRanOut, NoClaim
<1>2. LeaseInv => ExpiredRanOut
  BY DEF LeaseInv
<1> QED BY <1>1, <1>2, NextLeaseInv, GateInvariant, PTL DEF Spec

-----------------------------------------------------------------------------
(***************************************************************************)
(* Implementation of TaskAttempt: each shape of a step is one of its       *)
(* actions, or leaves its variables alone.                                 *)
(***************************************************************************)
LEMMA InitImplements == Init => Attempt!Init
  BY DEF Init, GatesInit, Attempt!Init, NoClaim, PhaseOf

LEMMA NextImplements ==
    TInv /\ GateInv /\ [Next]_vars => [Attempt!Next]_(Attempt!attemptVars)
<1> SUFFICES ASSUME TInv, GateInv, Shapes
             PROVE  [Attempt!Next]_(Attempt!attemptVars)
  BY StepShape
<1> DEFINE att == [c \in Contracts |-> [phase  |-> PhaseOf[claim[c].status],
                                       worker |-> claim[c].worker]]
<1>t. TypeOK /\ NoLiveClaimOnTerminal
  BY DEF TInv, GateInv
<1>0. \A c \in Contracts : claim[c] \in Claims
  BY <1>t DEF TypeOK
<1>p. /\ PhaseOf["none"] = "open" /\ PhaseOf["active"] = "running"
      /\ PhaseOf["submitted"] = "delivered" /\ PhaseOf["released"] = "aborted"
      /\ PhaseOf["expired"] = "aborted"
  BY DEF PhaseOf
<1>b. Attempt!Batches = TerminalBatches
  BY DEF Attempt!Batches, TerminalBatches
<1>1. CASE GateCommand /\ UNCHANGED claim
  <2>1. UNCHANGED <<claim, terminal>>
    BY <1>1 DEF GateCommand, Register, PlaceHold, ReleaseHold, PlaceLink, ReleaseLink, Assign
  <2> QED BY <2>1 DEF Attempt!attemptVars
<1>2. ASSUME NEW c \in Contracts, NEW w \in Workers, GrantShape(c, w)
      PROVE  Attempt!Start(c, w)
  <2>1. /\ claim[c].status = "none" /\ terminal[c] = "none" /\ UNCHANGED terminal
    BY <1>2 DEF GrantShape, Claimable, NeverClaimed, gateVars
  <2>2. /\ claim'[c].status = "active" /\ claim'[c].worker = w
        /\ \A d \in Contracts \ {c} : claim'[d] = claim[d]
    BY <1>2, <1>t DEF GrantShape, TypeOK
  <2>3. att' = [att EXCEPT ![c] = [phase |-> "running", worker |-> w]]
    BY <1>p, <2>2
  <2> QED BY <1>p, <2>1, <2>3 DEF Attempt!Start
<1>3. ASSUME NEW c \in Contracts, RenewShape(c)
      PROVE  UNCHANGED Attempt!attemptVars
  <2>1. /\ \A d \in Contracts : /\ claim'[d].status = claim[d].status
                                /\ claim'[d].worker = claim[d].worker
        /\ UNCHANGED terminal
    BY <1>3, <1>t DEF RenewShape, gateVars, Claims, TypeOK
  <2> QED BY <2>1 DEF Attempt!attemptVars
<1>4. ASSUME NEW T \in TerminalBatches, NEW kept \in SUBSET Contracts,
             NEW how \in {"submitted", "expired"}, CloseShape(T, kept, how)
      PROVE  Attempt!Next
  <2>1. /\ \A x \in DOMAIN T : terminal[x] = "none"
        /\ terminal' = [x \in Contracts |-> IF x \in DOMAIN T THEN T[x] ELSE terminal[x]]
    BY <1>4 DEF CloseShape, Unsettled, Settled
  <2>2. ASSUME NEW x \in Contracts
        PROVE  att'[x] = IF x \in kept
                         THEN [att[x] EXCEPT !.phase = PhaseOf[how]]
                         ELSE IF x \in DOMAIN T /\ claim[x].status = "active"
                         THEN [att[x] EXCEPT !.phase = "aborted"] ELSE att[x]
    BY <1>0, <1>4, <1>p DEF CloseShape, CloseRows, Released, Claims
  <2>3. \A x \in Contracts : att[x].phase = "running" <=> claim[x].status = "active"
    BY <1>0, <1>p DEF Claims, ClaimStatuses
  <2>4. CASE kept = {}
    <3>1. Attempt!Settle(T)
      BY <1>4, <2>1, <2>2, <2>3, <2>4
         DEF CloseShape, Attempt!Settle, Attempt!Decide, Attempt!Running
    <3> QED BY <1>b, <3>1 DEF Attempt!Next
  <2>5. ASSUME NEW c \in Contracts, kept = {c}, how = "submitted"
        PROVE  Attempt!Next
    <3>1. Attempt!Running(c)
      BY <1>4, <2>3, <2>5 DEF CloseShape, Attempt!Running
    <3>2. PhaseOf[how] = "delivered"
      BY <1>p, <2>5
    <3>3. att' = [x \in Contracts |->
                    IF x \in {c} THEN [att[x] EXCEPT !.phase = "delivered"]
                    ELSE IF x \in DOMAIN T /\ att[x].phase = "running"
                         THEN [att[x] EXCEPT !.phase = "aborted"]
                    ELSE att[x]]
      BY <2>2, <2>3, <2>5, <3>2
    <3>4. Attempt!Deliver(c, T)
      BY <2>1, <3>1, <3>3 DEF Attempt!Deliver, Attempt!Decide, Attempt!Running
    <3> QED BY <1>b, <3>4 DEF Attempt!Next
  <2>6. ASSUME NEW c \in Contracts, kept = {c}, how = "expired"
        PROVE  Attempt!Next
    <3>1. c \in DOMAIN T /\ claim[c].status = "active"
      BY <1>4, <2>6 DEF CloseShape
    <3>2. Attempt!Settle(T)
      BY <1>p, <2>1, <2>2, <2>3, <2>6, <3>1
         DEF Attempt!Settle, Attempt!Decide, Attempt!Running
    <3> QED BY <1>b, <3>2 DEF Attempt!Next
  <2>7. kept = {} \/ \E c \in Contracts : kept = {c}
    BY <1>4 DEF CloseShape
  <2> QED BY <2>4, <2>5, <2>6, <2>7
<1>5. CASE UNCHANGED <<gateVars, claim>>
  BY <1>5 DEF gateVars, Attempt!attemptVars
<1>6. ASSUME NEW c \in Contracts, NEW w \in Workers, GrantShape(c, w)
      PROVE  Attempt!Next
  BY <1>2, <1>6 DEF Attempt!Next
<1> HIDE DEF att
<1> QED BY <1>1, <1>3, <1>4, <1>5, <1>6 DEF Shapes

\* Claims under leases implement one attempt and one outcome per Contract.
THEOREM LeaseImplementsAttempt == Spec => ImplementsTaskAttempt
  BY InitImplements, NextImplements, GateInvariant, PTL
     DEF Spec, ImplementsTaskAttempt, Attempt!Spec

-----------------------------------------------------------------------------
(***************************************************************************)
(* The grant of a claim: what it may spend and whom it may suit, although  *)
(* the Session decided on a snapshot that may be stale.                    *)
(***************************************************************************)
(***************************************************************************)
(* Requests: a step appends at most one grant, and only for a request that *)
(* no record names.                                                        *)
(***************************************************************************)
NoGrantAdded(c) ==
    \/ facts'[c] = facts[c]
    \/ \E f \in Facts : f.kind # "granted" /\ facts'[c] = Append(facts[c], f)

GrantAdded(c, f) ==
    /\ f.kind = "granted"
    /\ ~RequestUsed(f.by)
    /\ facts' = [facts EXCEPT ![c] = Append(facts[c], f)]

\* A closing or renewing record is well typed when the row it describes is owned.
LEMMA RowFact ==
    ASSUME TInv, NEW c \in Contracts, claim[c].status # "none", NEW lease \in Nat,
           NEW kind \in {"renewed", "submitted", "released", "expired"}, NEW by \in Nat
    PROVE  /\ Fact(kind, claim[c], by) \in Facts
           /\ Fact(kind, claim[c], by).kind # "granted"
           /\ Fact(kind, [claim[c] EXCEPT !.lease = lease], by) \in Facts
           /\ Fact(kind, [claim[c] EXCEPT !.lease = lease], by).kind # "granted"
<1>1. claim[c] \in Claims /\ claim[c].worker \in Workers
  BY DEF TInv, TypeOK, RowInv
<1> QED BY <1>1 DEF Fact, Facts, Claims

LEMMA CloseAddsNoGrant ==
    ASSUME TInv, NEW T \in TerminalBatches, NEW kept \in SUBSET Contracts,
           \A x \in kept : claim[x].status = "active",
           NEW how \in {"submitted", "released"}, NEW by \in Nat,
           facts' = CloseFacts(T, kept, how, by), NEW c \in Contracts
    PROVE  NoGrantAdded(c)
<1>1. CASE c \in kept
  <2>1. facts'[c] = Append(facts[c], Fact(how, claim[c], by))
    BY <1>1 DEF CloseFacts
  <2>2. Fact(how, claim[c], by) \in Facts /\ Fact(how, claim[c], by).kind # "granted"
    BY <1>1, RowFact
  <2> QED BY <2>1, <2>2 DEF NoGrantAdded
<1>2. CASE c \notin kept /\ c \in Released(T, kept)
  <2>1. facts'[c] = Append(facts[c], Fact("released", claim[c], 0))
    BY <1>2 DEF CloseFacts
  <2>2. /\ Fact("released", claim[c], 0) \in Facts
        /\ Fact("released", claim[c], 0).kind # "granted"
    BY <1>2, RowFact DEF Released
  <2> QED BY <2>1, <2>2 DEF NoGrantAdded
<1>3. CASE c \notin kept /\ c \notin Released(T, kept)
  BY <1>3 DEF CloseFacts, NoGrantAdded
<1> QED BY <1>1, <1>2, <1>3

\* One record of another kind, appended to the records of one Contract.
LEMMA OneRecordAddsNoGrant ==
    ASSUME TInv, NEW c \in Contracts, NEW f \in Facts, f.kind # "granted",
           facts' = [facts EXCEPT ![c] = Append(@, f)], NEW d \in Contracts
    PROVE  NoGrantAdded(d)
<1>1. facts \in [Contracts -> Seq(Facts)]
  BY DEF TInv, TypeOK
<1> QED BY <1>1 DEF NoGrantAdded

LEMMA StepFacts ==
    ASSUME TInv, [Next]_vars
    PROVE  \/ \A c \in Contracts : NoGrantAdded(c)
           \/ \E c \in Contracts, f \in Facts : GrantAdded(c, f)
<1> DEFINE Quiet == \A c \in Contracts : NoGrantAdded(c)
           Goal == Quiet \/ \E c \in Contracts, f \in Facts : GrantAdded(c, f)
<1>t. TypeOK /\ SessionInv
  BY DEF TInv
<1>u. UNCHANGED facts => Quiet
  BY DEF NoGrantAdded
<1>1. ASSUME NEW s \in Sessions, NEW c \in Contracts, NEW now \in LockedNow, Grant(s, c, now)
      PROVE  Goal
  <2> DEFINE r == session[s].request
             row == [status |-> "active", worker |-> Signer[r],
                     epoch |-> claim[c].epoch + 1, lease |-> now + MaxLease]
             f == Fact("granted", row, r)
  <2>1. r \in Requests /\ Signer[r] \in Workers
    BY <1>t, <1>1, SignerAssumption DEF Grant, SessionInv
  <2>2. claim[c].epoch + 1 \in Nat /\ now + MaxLease \in Nat
    BY <1>t, TimeAssumption DEF TypeOK, Claims, LockedNow
  <2>3. f \in Facts /\ f.kind = "granted" /\ f.by = r
    BY <2>1, <2>2 DEF Fact, Facts
  <2>4. facts' = [facts EXCEPT ![c] = Append(facts[c], f)] /\ ~RequestUsed(r)
    BY <1>1 DEF Grant, Grantable
  <2> HIDE DEF f, r
  <2>5. GrantAdded(c, f)
    BY <2>3, <2>4 DEF GrantAdded
  <2> QED BY <2>3, <2>5
<1>2. ASSUME NEW s \in Sessions, FailInvocation(s) PROVE Quiet
  <2> DEFINE c == session[s].contract
  <2>1. c \in Contracts
    BY <1>t, <1>2 DEF FailInvocation, SessionInv
  <2>2. CASE /\ claim[c].status = "active"
             /\ facts' = [facts EXCEPT ![c] = Append(@, Fact("released", claim[c], 0))]
    <3> HIDE DEF c
    <3>1. /\ Fact("released", claim[c], 0) \in Facts
          /\ Fact("released", claim[c], 0).kind # "granted"
      BY <2>1, <2>2, RowFact
    <3> QED BY <2>1, <2>2, <3>1, OneRecordAddsNoGrant
  <2> QED BY <1>u, <1>2, <2>2 DEF FailInvocation, HoldsClaim
<1>3. ASSUME NEW s \in Sessions, SessionStep(s) PROVE Goal
  <2>1. CASE UNCHANGED facts
    BY <1>u, <2>1
  <2> QED BY <1>1, <1>2, <1>3, <2>1
       DEF SessionStep, Begin, Scan, Refuse, AskRenewal, Answer, Crash
<1>4. ASSUME NEW m \in sent, Delivery(m) PROVE Quiet
  <2>0. m \in Messages /\ m.contract \in Contracts /\ m.tag \in Nat
    BY <1>t DEF TypeOK, Messages
  <2>1. ASSUME NEW now \in LockedNow, Renew(m, now) PROVE Quiet
    <3> DEFINE f == Fact("renewed",
                         [claim[m.contract] EXCEPT !.lease = now + MaxLease], m.tag)
    <3>1. now + MaxLease \in Nat /\ claim[m.contract].status # "none"
      BY <1>t, <2>1, TimeAssumption DEF TypeOK, LockedNow, Renew, Renewable, HoldsClaim
    <3>2. f \in Facts /\ f.kind # "granted"
      BY <2>0, <3>1, RowFact
    <3>3. facts' = [facts EXCEPT ![m.contract] = Append(@, f)]
      BY <2>1 DEF Renew
    <3> HIDE DEF f
    <3> QED BY <2>0, <3>2, <3>3, OneRecordAddsNoGrant
  <2>2. ASSUME NEW T \in Verdicts(m.contract), CommitCandidate(m, T) PROVE Quiet
    <3>1. T \in TerminalBatches
      BY <2>0, VerdictsAreBatches
    <3>2. /\ \A x \in {m.contract} : claim[x].status = "active"
          /\ facts' = CloseFacts(T, {m.contract}, "submitted", m.tag)
      BY <2>2 DEF CommitCandidate, HoldsClaim
    <3> QED BY <2>0, <3>1, <3>2, CloseAddsNoGrant
  <2> QED BY <1>u, <1>4, <2>1, <2>2 DEF Delivery, RenewalRefused
<1>5. ASSUME NEW T \in TerminalBatches, CommitTerminals(T) PROVE Quiet
  <2>1. facts' = CloseFacts(T, {}, "released", 0) /\ {} \in SUBSET Contracts
    BY <1>5 DEF CommitTerminals
  <2> QED BY <2>1, CloseAddsNoGrant
<1>6. ASSUME NEW o \in observed, CommitExpiration(o) PROVE Quiet
  <2>1. o.contract \in Contracts
    BY <1>t DEF TypeOK, Observations
  <2>2. CASE /\ claim[o.contract].status = "active"
             /\ facts' = [facts EXCEPT ![o.contract] =
                             Append(@, Fact("expired", claim[o.contract], 0))]
    <3>1. /\ Fact("expired", claim[o.contract], 0) \in Facts
          /\ Fact("expired", claim[o.contract], 0).kind # "granted"
      BY <2>1, <2>2, RowFact
    <3> QED BY <2>1, <2>2, <3>1, OneRecordAddsNoGrant
  <2> QED BY <1>u, <1>6, <2>2 DEF CommitExpiration, StillOverdue
<1>7. CASE UNCHANGED facts
  BY <1>u, <1>7
<1>8. Goal
  <2>1. CASE \E s \in Sessions : SessionStep(s)
    BY <1>3, <2>1
  <2>2. CASE Operator \/ Tick \/ UNCHANGED vars \/ \E c \in Contracts : ObserveExpired(c)
    <3>1. UNCHANGED facts
      BY <2>2 DEF Operator, leaseVars, ObserveExpired, Tick, vars
    <3> QED BY <1>7, <3>1
  <2>3. CASE \E m \in sent : Delivery(m)
    BY <1>4, <2>3
  <2>4. CASE \/ \E T \in TerminalBatches : CommitTerminals(T)
             \/ \E o \in observed : CommitExpiration(o)
    BY <1>5, <1>6, <2>4
  <2> QED BY <2>1, <2>2, <2>3, <2>4 DEF Next
<1> QED BY <1>8

LEMMA NextOneGrant == TInv /\ OneGrantPerRequest /\ [Next]_vars => OneGrantPerRequest'
<1> SUFFICES ASSUME TInv, OneGrantPerRequest, [Next]_vars,
                    NEW c \in Contracts, NEW d \in Contracts,
                    NEW i \in DOMAIN facts'[c], NEW j \in DOMAIN facts'[d],
                    facts'[c][i].kind = "granted", facts'[d][j].kind = "granted",
                    facts'[c][i].by = facts'[d][j].by
             PROVE  c = d /\ i = j
  BY DEF OneGrantPerRequest
<1>t. \A x \in Contracts : facts[x] \in Seq(Facts)
  BY DEF TInv, TypeOK
<1>1. CASE \A x \in Contracts : NoGrantAdded(x)
  <2>1. ASSUME NEW x \in Contracts, NEW k \in DOMAIN facts'[x],
               facts'[x][k].kind = "granted"
        PROVE  k \in DOMAIN facts[x] /\ facts[x][k] = facts'[x][k]
    <3>1. CASE facts'[x] = facts[x]
      BY <3>1
    <3>2. ASSUME NEW f \in Facts, f.kind # "granted", facts'[x] = Append(facts[x], f)
          PROVE  k \in DOMAIN facts[x] /\ facts[x][k] = facts'[x][k]
      BY <1>t, <2>1, <3>2
    <3> QED BY <1>1, <3>1, <3>2 DEF NoGrantAdded
  <2> QED BY <2>1 DEF OneGrantPerRequest
<1>2. ASSUME NEW x \in Contracts, NEW f \in Facts, GrantAdded(x, f)
      PROVE  c = d /\ i = j
  <2>1. \A y \in Contracts : facts'[y] = IF y = x THEN Append(facts[x], f) ELSE facts[y]
    BY <1>2 DEF GrantAdded, TInv, TypeOK
  <2>2. ASSUME NEW y \in Contracts, NEW k \in DOMAIN facts'[y],
               facts'[y][k].kind = "granted"
        PROVE  \/ y = x /\ k = Len(facts[x]) + 1 /\ facts'[y][k] = f
               \/ /\ k \in DOMAIN facts[y] /\ facts'[y][k] = facts[y][k]
                  /\ facts'[y][k].by # f.by
    <3>1. \A n \in DOMAIN facts[y] :
             facts[y][n].kind = "granted" => facts[y][n].by # f.by
      BY <1>2 DEF GrantAdded, RequestUsed
    <3>2. \/ y = x /\ k = Len(facts[x]) + 1 /\ facts'[y][k] = f
          \/ k \in DOMAIN facts[y] /\ facts'[y][k] = facts[y][k]
      <4>1. facts[y] \in Seq(Facts)
        BY <1>t
      <4>2. CASE y # x
        BY <2>1, <4>2
      <4>3. CASE y = x
        <5>1. facts'[y] = Append(facts[x], f) /\ facts[x] \in Seq(Facts)
          BY <2>1, <4>1, <4>3
        <5> QED BY <2>2, <4>3, <5>1
      <4> QED BY <4>2, <4>3
    <3> QED BY <2>2, <3>1, <3>2
  <2> QED BY <2>2 DEF OneGrantPerRequest
<1> QED BY <1>1, <1>2, StepFacts

\* A signed claim request buys at most one Contract, in however many Sessions
\* it is served and however often.
THEOREM RequestsSpentOnce == Spec => []OneGrantPerRequest
<1>1. Init => OneGrantPerRequest
  BY DEF Init, OneGrantPerRequest
<1> QED BY <1>1, NextOneGrant, GateInvariant, PTL DEF Spec

-----------------------------------------------------------------------------
(***************************************************************************)
(* Eligibility: compatibility was only read when the packages were         *)
(* prepared.  A package remembers the version it was prepared under, and   *)
(* versions have one immutable content, so what was read stays true of     *)
(* that version whatever is registered meanwhile.                          *)
(***************************************************************************)
PreparedFor(s, c) ==
    LET w == Signer[session[s].request]
        v == session[s].prepared
    IN  v # 0 /\ Profile[w][v].enabled /\ c \in Profile[w][v].serves

PackageInv ==
    \A s \in Sessions :
        session[s].phase = "choosing" => \A c \in session[s].ready : PreparedFor(s, c)

\* A Session that does not scan keeps its packages, drops some or stops choosing.
PackagesKept(s) ==
    session'[s].phase = "choosing" =>
        /\ session[s].phase = "choosing"
        /\ session'[s].request = session[s].request
        /\ session'[s].prepared = session[s].prepared
        /\ session'[s].ready \subseteq session[s].ready

LEMMA StepPackages ==
    ASSUME TInv, [Next]_vars, NEW s \in Sessions, ~Scan(s)
    PROVE  PackagesKept(s)
<1>t. session \in [Sessions -> SessionStates] /\ \A x \in Sessions : session[x] \in SessionStates
  BY DEF TInv, TypeOK
<1> USE DEF PackagesKept
<1>1. ASSUME NEW x \in Sessions, NEW r \in Requests, Begin(x, r) PROVE PackagesKept(s)
  BY <1>t, <1>1 DEF Begin, Idle
<1>2. ASSUME NEW x \in Sessions, Scan(x) PROVE PackagesKept(s)
  BY <1>t, <1>2 DEF Scan
<1>3. ASSUME NEW x \in Sessions, NEW c \in Contracts, NEW now \in LockedNow, Grant(x, c, now)
      PROVE  PackagesKept(s)
  BY <1>t, <1>3 DEF Grant, SessionStates
<1>4. ASSUME NEW x \in Sessions, NEW c \in Contracts, Refuse(x, c) PROVE PackagesKept(s)
  BY <1>t, <1>4 DEF Refuse, Idle, SessionStates
<1>5. ASSUME NEW x \in Sessions, AskRenewal(x) \/ Answer(x) \/ FailInvocation(x) \/ Crash(x)
      PROVE  PackagesKept(s)
  BY <1>t, <1>5 DEF AskRenewal, Answer, FailInvocation, Crash, Idle
<1>6. ASSUME NEW m \in sent, Delivery(m) PROVE PackagesKept(s)
  <2>1. ASSUME NEW x \in Sessions, NEW now \in LockedNow, RenewalRefused(m, x, now)
        PROVE  PackagesKept(s)
    BY <1>t, <2>1 DEF RenewalRefused, SessionStates
  <2> QED BY <1>6, <2>1 DEF Delivery, Renew, CommitCandidate
<1>7. UNCHANGED session => PackagesKept(s)
  OBVIOUS
<1>8. ASSUME NEW x \in Sessions, SessionStep(x) PROVE PackagesKept(s)
  BY <1>1, <1>2, <1>3, <1>4, <1>5, <1>8 DEF SessionStep
<1>9. \/ \E x \in Sessions : SessionStep(x)
      \/ \E m \in sent : Delivery(m)
      \/ UNCHANGED session
  BY DEF Next, Operator, leaseVars, CommitTerminals, ObserveExpired, CommitExpiration, Tick, vars
<1> QED BY <1>6, <1>7, <1>8, <1>9

LEMMA NextPackageInv == TInv /\ PackageInv /\ [Next]_vars => PackageInv'
<1> SUFFICES ASSUME TInv, PackageInv, [Next]_vars, NEW s \in Sessions,
                    session'[s].phase = "choosing", NEW c \in session'[s].ready
             PROVE  PreparedFor(s, c)'
  BY DEF PackageInv
<1>1. CASE Scan(s)
  <2> DEFINE w == Signer[session[s].request]
             ready == {x \in Contracts : Eligible(x, w)}
  <2>1. session' = [session EXCEPT ![s] =
                       [@ EXCEPT !.phase = "choosing", !.ready = ready,
                                 !.prepared = registry[w]]]
    BY <1>1 DEF Scan, Idle, TInv, TypeOK
  <2> HIDE DEF ready
  <2>2. /\ session'[s].request = session[s].request
        /\ session'[s].prepared = registry[w]
        /\ session'[s].ready = ready
    BY <2>1 DEF TInv, TypeOK, SessionStates
  <2>3. \A x \in ready : Compatible(x, w)
    BY DEF ready, Eligible
  <2> QED BY <2>2, <2>3 DEF PreparedFor, Compatible, Enabled, Registered, Current
<1>2. CASE ~Scan(s)
  <2>1. PackagesKept(s)
    BY <1>2, StepPackages
  <2> QED BY <2>1 DEF PackagesKept, PackageInv, PreparedFor
<1> QED BY <1>1, <1>2

\* A Session starts to work only by a grant.
LEMMA OnlyGrantsStart ==
    ASSUME TInv, [Next]_vars, NEW s \in Sessions,
           session[s].phase = "choosing", session'[s].phase = "working"
    PROVE  \E c \in Contracts : \E now \in LockedNow : Grant(s, c, now)
<1>t. session \in [Sessions -> SessionStates] /\ \A x \in Sessions : session[x] \in SessionStates
  BY DEF TInv, TypeOK
<1>1. ASSUME NEW x \in Sessions, SessionStep(x)
      PROVE  \E c \in Contracts : \E now \in LockedNow : Grant(s, c, now)
  <2>1. ASSUME NEW c \in Contracts, NEW now \in LockedNow, Grant(x, c, now)
        PROVE  x = s
    BY <1>t, <2>1 DEF Grant
  <2>2. ASSUME NEW r \in Requests, Begin(x, r) PROVE FALSE
    <3>1. /\ session[x] = Idle /\ x # s
          /\ \E v : session' = [session EXCEPT ![x] = v]
      <4>1. session[x] = Idle /\ Idle.phase = "idle"
        BY <2>2 DEF Begin, Idle
      <4>2. \E v : session' = [session EXCEPT ![x] = v] /\ v.phase = "scanning"
        BY <2>2 DEF Begin, Idle
      <4> QED BY <4>1, <4>2
    <3> QED BY <1>t, <3>1
  <2>3. ~ Scan(x)
    BY <1>t DEF Scan, Idle
  <2>4. ~ \E c \in Contracts : Refuse(x, c)
    BY <1>t DEF Refuse, Idle, SessionStates
  <2>5. ~ (AskRenewal(x) \/ Answer(x) \/ FailInvocation(x) \/ Crash(x))
    BY <1>t DEF AskRenewal, Answer, FailInvocation, Crash, Idle
  <2> QED BY <1>1, <2>1, <2>2, <2>3, <2>4, <2>5 DEF SessionStep
<1>2. ASSUME NEW m \in sent, Delivery(m) PROVE FALSE
  <2>1. ASSUME NEW x \in Sessions, NEW now \in LockedNow, RenewalRefused(m, x, now)
        PROVE  FALSE
    BY <1>t, <2>1 DEF RenewalRefused, SessionStates
  <2> QED BY <1>2, <2>1 DEF Delivery, Renew, CommitCandidate
<1>3. \/ \E x \in Sessions : SessionStep(x)
      \/ \E m \in sent : Delivery(m)
      \/ UNCHANGED session
  BY DEF Next, Operator, leaseVars, CommitTerminals, ObserveExpired, CommitExpiration, Tick, vars
<1> QED BY <1>1, <1>2, <1>3

\* One more active claim, for a worker with room, does not exceed its capacity.
LEMMA GrantFitsCapacity ==
    ASSUME TInv, NEW s \in Sessions, NEW c \in Contracts, NEW now \in LockedNow,
           Grant(s, c, now), NEW w \in Workers, w = Signer[session[s].request]
    PROVE  Cardinality(ActiveClaims(w)') <= Current(w).capacity
<1>1. HasRoom(w) /\ Registered(w) /\ claim[c].status = "none"
  BY DEF Grant, Grantable, Enabled, Claimable, NeverClaimed
<1>2. ActiveClaims(w)' = ActiveClaims(w) \cup {c}
  BY DEF Grant, ActiveClaims, TInv, TypeOK
<1>3. c \notin ActiveClaims(w)
  BY <1>1 DEF ActiveClaims
<1>4. IsFiniteSet(ActiveClaims(w))
  BY FS_Subset, FiniteContractsAssumption DEF ActiveClaims
<1>5. Cardinality(ActiveClaims(w)) \in Nat
  BY <1>4, FS_CardinalityType
<1>6. Cardinality(ActiveClaims(w)') = Cardinality(ActiveClaims(w)) + 1
  BY <1>2, <1>3, <1>4, FS_AddElement
<1>7. registry[w] \in Versions
  BY <1>1, MaxVersionAssumption DEF Registered, Versions, TInv, TypeOK, GatesTypeOK
<1>8. Current(w).capacity \in Nat
  BY <1>7, ProfileAssumption DEF Current
<1> QED BY <1>1, <1>5, <1>6, <1>8 DEF HasRoom

\* A grant stays within the worker's capacity, and suits the registration that
\* is current when it is written, when the package was prepared under the
\* version the writer compares.
THEOREM GrantsSuitTheirWorker == Spec => GrantsAreEligible
<1>1. Init => PackageInv
  BY DEF Init, PackageInv, Idle
<1>2. TInv /\ PackageInv /\ [Next]_vars =>
        [\A s \in Sessions, w \in Workers :
          /\ session[s].phase = "choosing" /\ session'[s].phase = "working"
          /\ w = Signer[session[s].request]
          => /\ Cardinality(ActiveClaims(w)') <= Current(w).capacity
             /\ session[s].prepared = session[s].version =>
                   Compatible(session'[s].contract, w)]_vars
  <2> SUFFICES ASSUME TInv, PackageInv, [Next]_vars, NEW s \in Sessions, NEW w \in Workers,
                      session[s].phase = "choosing", session'[s].phase = "working",
                      w = Signer[session[s].request]
               PROVE  /\ Cardinality(ActiveClaims(w)') <= Current(w).capacity
                      /\ session[s].prepared = session[s].version =>
                            Compatible(session'[s].contract, w)
    OBVIOUS
  <2>1. PICK c \in Contracts, now \in LockedNow : Grant(s, c, now)
    BY OnlyGrantsStart
  <2>2. Cardinality(ActiveClaims(w)') <= Current(w).capacity
    BY <2>1, GrantFitsCapacity
  <2>3. session'[s].contract = c
    BY <2>1 DEF Grant, TInv, TypeOK, SessionStates
  <2>4. registry[w] = session[s].version /\ PreparedFor(s, c)
    BY <2>1 DEF Grant, Grantable, PackageInv
  <2>5. session[s].prepared = session[s].version => Compatible(c, w)
    BY <2>4 DEF PreparedFor, Compatible, Enabled, Registered, Current
  <2> QED BY <2>2, <2>3, <2>5
<1> QED BY <1>1, <1>2, NextPackageInv, GateInvariant, PTL DEF Spec, GrantsAreEligible

-----------------------------------------------------------------------------
(***************************************************************************)
(* Rebuilding: a step that changes a claim row appends the one record      *)
(* whose replay makes the same change, so the rows computed by the replay  *)
(* grow by one as the records do and end in the live row.                  *)
(***************************************************************************)
Recorded(c) ==
    \/ claim'[c] = claim[c] /\ facts'[c] = facts[c]
    \/ \E f \in Facts : facts'[c] = Append(facts[c], f) /\ claim'[c] = Replay(claim[c], f)

\* `row` holds what the records of c make of its row, one after the other.
IsReplay(row, c) ==
    row = [i \in 0 .. Len(facts[c]) |->
              IF i = 0 THEN NoClaim ELSE Replay(row[i - 1], facts[c][i])]

ReplayEnds(c) ==
    /\ \E row : IsReplay(row, c)
    /\ \A row : IsReplay(row, c) => row[Len(facts[c])] = claim[c]

\* The record of a row that keeps its epoch replays as the change it records.
LEMMA ReplayOfClose ==
    ASSUME NEW row \in Claims, NEW how \in {"submitted", "released", "expired"}, NEW by
    PROVE  Replay(row, Fact(how, row, by)) = [row EXCEPT !.status = how]
  BY DEF Replay, Fact, Claims

LEMMA ReplayOfRenewal ==
    ASSUME NEW row \in Claims, NEW lease, NEW by
    PROVE  Replay(row, Fact("renewed", [row EXCEPT !.lease = lease], by))
              = [row EXCEPT !.lease = lease]
  BY DEF Replay, Fact, Claims

LEMMA CloseRecorded ==
    ASSUME TInv, NEW T \in TerminalBatches, NEW kept \in SUBSET Contracts,
           \A x \in kept : claim[x].status = "active",
           NEW how \in {"submitted", "released"}, NEW by \in Nat,
           claim' = CloseRows(T, kept, how), facts' = CloseFacts(T, kept, how, by),
           NEW c \in Contracts
    PROVE  Recorded(c)
<1>0. claim[c] \in Claims
  BY DEF TInv, TypeOK
<1>1. CASE c \in kept
  <2>1. /\ facts'[c] = Append(facts[c], Fact(how, claim[c], by))
        /\ claim'[c] = [claim[c] EXCEPT !.status = how]
    BY <1>1 DEF CloseFacts, CloseRows
  <2>2. Fact(how, claim[c], by) \in Facts
    BY <1>1, RowFact
  <2>3. Replay(claim[c], Fact(how, claim[c], by)) = [claim[c] EXCEPT !.status = how]
    BY <1>0, ReplayOfClose
  <2> QED BY <2>1, <2>2, <2>3, Zenon DEF Recorded
<1>2. CASE c \notin kept /\ c \in Released(T, kept)
  <2>1. /\ facts'[c] = Append(facts[c], Fact("released", claim[c], 0))
        /\ claim'[c] = [claim[c] EXCEPT !.status = "released"]
    BY <1>2 DEF CloseFacts, CloseRows
  <2>2. Fact("released", claim[c], 0) \in Facts
    BY <1>2, RowFact DEF Released
  <2>3. Replay(claim[c], Fact("released", claim[c], 0))
           = [claim[c] EXCEPT !.status = "released"]
    BY <1>0, ReplayOfClose
  <2> QED BY <2>1, <2>2, <2>3, Zenon DEF Recorded
<1>3. CASE c \notin kept /\ c \notin Released(T, kept)
  BY <1>3 DEF CloseFacts, CloseRows, Recorded
<1> QED BY <1>1, <1>2, <1>3

\* One row changes, and its record with it.
LEMMA OneRecorded ==
    ASSUME TInv, NEW c \in Contracts, NEW f \in Facts, NEW row,
           claim' = [claim EXCEPT ![c] = row], row = Replay(claim[c], f),
           facts' = [facts EXCEPT ![c] = Append(@, f)], NEW d \in Contracts
    PROVE  Recorded(d)
<1>1. claim \in [Contracts -> Claims] /\ facts \in [Contracts -> Seq(Facts)]
  BY DEF TInv, TypeOK
<1>2. CASE d = c
  BY <1>1, <1>2 DEF Recorded
<1>3. CASE d # c
  BY <1>1, <1>3 DEF Recorded
<1> QED BY <1>2, <1>3

\* Closing one claim of a Contract, however its Session ends.
LEMMA OneCloseRecorded ==
    ASSUME TInv, NEW c \in Contracts, claim[c].status = "active",
           NEW how \in {"released", "expired"},
           claim' = [claim EXCEPT ![c].status = how],
           facts' = [facts EXCEPT ![c] = Append(@, Fact(how, claim[c], 0))],
           NEW d \in Contracts
    PROVE  Recorded(d)
<1> DEFINE row == [claim[c] EXCEPT !.status = how]
           f == Fact(how, claim[c], 0)
<1>1. claim \in [Contracts -> Claims] /\ claim[c] \in Claims
  BY DEF TInv, TypeOK
<1>2. f \in Facts
  BY RowFact
<1>3. row = Replay(claim[c], f)
  BY <1>1, ReplayOfClose
<1>4. claim' = [claim EXCEPT ![c] = row]
  BY <1>1
<1> HIDE DEF row
<1>5. facts' = [facts EXCEPT ![c] = Append(@, f)]
  OBVIOUS
<1> HIDE DEF f
<1> QED BY <1>2, <1>3, <1>4, <1>5, OneRecorded

\* Every step records what it does to a row.
LEMMA StepRecorded ==
    ASSUME TInv, [Next]_vars
    PROVE  \A c \in Contracts : Recorded(c)
<1> DEFINE Goal == \A c \in Contracts : Recorded(c)
<1>t. TypeOK /\ SessionInv
  BY DEF TInv
<1>u. UNCHANGED <<claim, facts>> => Goal
  BY DEF Recorded
<1>1. ASSUME NEW s \in Sessions, NEW c \in Contracts, NEW now \in LockedNow, Grant(s, c, now)
      PROVE  Goal
  <2> DEFINE r == session[s].request
             row == [status |-> "active", worker |-> Signer[r],
                     epoch |-> claim[c].epoch + 1, lease |-> now + MaxLease]
             f == Fact("granted", row, r)
  <2>1. r \in Requests /\ Signer[r] \in Workers
    BY <1>t, <1>1, SignerAssumption DEF Grant, SessionInv
  <2>2. claim[c].epoch + 1 \in Nat /\ now + MaxLease \in Nat
    BY <1>t, TimeAssumption DEF TypeOK, Claims, LockedNow
  <2>3. f \in Facts
    BY <2>1, <2>2 DEF Fact, Facts
  <2>4. row = Replay(claim[c], f)
    BY DEF Replay, Fact
  <2>5. facts' = [facts EXCEPT ![c] = Append(@, f)] /\ claim' = [claim EXCEPT ![c] = row]
    BY <1>1 DEF Grant
  <2> HIDE DEF f, row
  <2> QED BY <2>3, <2>4, <2>5, OneRecorded
<1>2. ASSUME NEW s \in Sessions, FailInvocation(s) PROVE Goal
  <2> DEFINE c == session[s].contract
  <2>1. c \in Contracts
    BY <1>t, <1>2 DEF FailInvocation, SessionInv
  <2>2. CASE /\ claim[c].status = "active"
             /\ claim' = [claim EXCEPT ![c].status = "released"]
             /\ facts' = [facts EXCEPT ![c] = Append(@, Fact("released", claim[c], 0))]
    <3> HIDE DEF c
    <3> QED BY <2>1, <2>2, OneCloseRecorded
  <2> QED BY <1>u, <1>2, <2>2 DEF FailInvocation, HoldsClaim
<1>3. ASSUME NEW s \in Sessions, SessionStep(s) PROVE Goal
  <2>1. CASE UNCHANGED <<claim, facts>>
    BY <1>u, <2>1
  <2> QED BY <1>1, <1>2, <1>3, <2>1
       DEF SessionStep, Begin, Scan, Refuse, AskRenewal, Answer, Crash
<1>4. ASSUME NEW m \in sent, Delivery(m) PROVE Goal
  <2>0. m \in Messages /\ m.contract \in Contracts /\ m.tag \in Nat
    BY <1>t DEF TypeOK, Messages
  <2>1. ASSUME NEW now \in LockedNow, Renew(m, now) PROVE Goal
    <3> DEFINE row == [claim[m.contract] EXCEPT !.lease = now + MaxLease]
               f == Fact("renewed", row, m.tag)
    <3>1. now + MaxLease \in Nat /\ claim[m.contract].status # "none"
      BY <1>t, <2>1, TimeAssumption DEF TypeOK, LockedNow, Renew, Renewable, HoldsClaim
    <3>2. f \in Facts
      BY <2>0, <3>1, RowFact
    <3>3. claim[m.contract] \in Claims
      BY <1>t, <2>0 DEF TypeOK
    <3>4. row = Replay(claim[m.contract], f)
      BY <3>3, ReplayOfRenewal
    <3>5. /\ facts' = [facts EXCEPT ![m.contract] = Append(@, f)]
          /\ claim' = [claim EXCEPT ![m.contract] = row]
      BY <2>1 DEF Renew
    <3> HIDE DEF f, row
    <3> QED BY <2>0, <3>2, <3>4, <3>5, OneRecorded
  <2>2. ASSUME NEW T \in Verdicts(m.contract), CommitCandidate(m, T) PROVE Goal
    <3>1. T \in TerminalBatches
      BY <2>0, VerdictsAreBatches
    <3>2. /\ \A x \in {m.contract} : claim[x].status = "active"
          /\ claim' = CloseRows(T, {m.contract}, "submitted")
          /\ facts' = CloseFacts(T, {m.contract}, "submitted", m.tag)
      BY <2>2 DEF CommitCandidate, HoldsClaim
    <3> QED BY <2>0, <3>1, <3>2, CloseRecorded
  <2> QED BY <1>u, <1>4, <2>1, <2>2 DEF Delivery, RenewalRefused
<1>5. ASSUME NEW T \in TerminalBatches, CommitTerminals(T) PROVE Goal
  <2>1. /\ claim' = CloseRows(T, {}, "released")
        /\ facts' = CloseFacts(T, {}, "released", 0) /\ {} \in SUBSET Contracts
    BY <1>5 DEF CommitTerminals
  <2> QED BY <2>1, CloseRecorded
<1>6. ASSUME NEW o \in observed, CommitExpiration(o) PROVE Goal
  <2>1. o.contract \in Contracts
    BY <1>t DEF TypeOK, Observations
  <2>2. CASE /\ claim[o.contract].status = "active"
             /\ claim' = [claim EXCEPT ![o.contract].status = "expired"]
             /\ facts' = [facts EXCEPT ![o.contract] =
                             Append(@, Fact("expired", claim[o.contract], 0))]
    BY <2>1, <2>2, OneCloseRecorded
  <2> QED BY <1>u, <1>6, <2>2 DEF CommitExpiration, StillOverdue
<1>7. CASE UNCHANGED <<claim, facts>>
  BY <1>u, <1>7
<1>8. Goal
  <2>1. CASE \E s \in Sessions : SessionStep(s)
    BY <1>3, <2>1
  <2>2. CASE Operator \/ Tick \/ UNCHANGED vars \/ \E c \in Contracts : ObserveExpired(c)
    <3>1. UNCHANGED <<claim, facts>>
      BY <2>2 DEF Operator, leaseVars, ObserveExpired, Tick, vars
    <3> QED BY <1>7, <3>1
  <2>3. CASE \E m \in sent : Delivery(m)
    BY <1>4, <2>3
  <2>4. CASE \/ \E T \in TerminalBatches : CommitTerminals(T)
             \/ \E o \in observed : CommitExpiration(o)
    BY <1>5, <1>6, <2>4
  <2> QED BY <2>1, <2>2, <2>3, <2>4 DEF Next
<1> QED BY <1>8

LEMMA NextReplayEnds ==
    ASSUME TInv, [Next]_vars, NEW c \in Contracts, ReplayEnds(c)
    PROVE  ReplayEnds(c)'
<1> DEFINE n == Len(facts[c])
<1>t. facts[c] \in Seq(Facts) /\ n \in Nat
  BY DEF TInv, TypeOK
<1>1. CASE claim'[c] = claim[c] /\ facts'[c] = facts[c]
  BY <1>1 DEF ReplayEnds, IsReplay
<1>2. ASSUME NEW f \in Facts, facts'[c] = Append(facts[c], f),
             claim'[c] = Replay(claim[c], f)
      PROVE  ReplayEnds(c)'
  <2>1. /\ Len(facts'[c]) = n + 1 /\ facts'[c][n + 1] = f
        /\ \A i \in 1 .. n : facts'[c][i] = facts[c][i]
    BY <1>t, <1>2
  <2>2. \E row : IsReplay(row, c)'
    <3>1. PICK row : IsReplay(row, c)
      BY DEF ReplayEnds
    <3> PICK longer : longer = [i \in 0 .. n + 1 |->
                                   IF i = n + 1 THEN Replay(row[n], f) ELSE row[i]]
      OBVIOUS
    <3>2. ASSUME NEW i \in 0 .. n + 1
          PROVE  longer[i] = IF i = 0 THEN NoClaim ELSE Replay(longer[i - 1], facts'[c][i])
      <4>1. CASE i = n + 1
        BY <1>t, <2>1, <4>1
      <4>2. CASE i = 0
        BY <1>t, <3>1, <4>2 DEF IsReplay
      <4>3. CASE i \in 1 .. n
        <5>1. i - 1 \in 0 .. n /\ i \in 0 .. n /\ i # n + 1 /\ i - 1 # n + 1 /\ i # 0
          BY <1>t, <4>3
        <5>2. row[i] = Replay(row[i - 1], facts[c][i])
          BY <3>1, <5>1 DEF IsReplay
        <5>3. longer[i] = row[i] /\ longer[i - 1] = row[i - 1]
          BY <5>1
        <5> QED BY <2>1, <4>3, <5>1, <5>2, <5>3
      <4> QED BY <1>t, <4>1, <4>2, <4>3
    <3>4. longer = [i \in 0 .. n + 1 |-> longer[i]]
      OBVIOUS
    <3>5. longer = [i \in 0 .. n + 1 |->
                       IF i = 0 THEN NoClaim ELSE Replay(longer[i - 1], facts'[c][i])]
      BY <3>2, <3>4
    <3>6. Len(facts'[c]) = n + 1
      BY <2>1
    <3> HIDE DEF n
    <3>7. IsReplay(longer, c)'
      BY <3>5, <3>6 DEF IsReplay
    <3> QED BY <3>7
  <2>3. ASSUME NEW row, IsReplay(row, c)'
        PROVE  row[Len(facts'[c])] = claim'[c]
    <3> DEFINE shorter == [i \in 0 .. n |-> row[i]]
    <3>1. \A i \in 0 .. n + 1 :
              row[i] = IF i = 0 THEN NoClaim ELSE Replay(row[i - 1], facts'[c][i])
      BY <2>1, <2>3 DEF IsReplay
    <3>2. ASSUME NEW i \in 0 .. n
          PROVE  shorter[i] = IF i = 0 THEN NoClaim ELSE Replay(shorter[i - 1], facts[c][i])
      <4>1. i \in 0 .. n + 1
        BY <1>t
      <4>2. CASE i = 0
        BY <3>1, <4>1, <4>2
      <4>3. CASE i # 0
        <5>1. i - 1 \in 0 .. n /\ i \in 1 .. n
          BY <1>t, <4>3
        <5> QED BY <2>1, <3>1, <4>1, <4>3, <5>1
      <4> QED BY <4>2, <4>3
    <3>3. shorter = [i \in 0 .. n |-> shorter[i]]
      OBVIOUS
    <3>4. shorter[n] = row[n]
      BY <1>t
    <3> HIDE DEF shorter
    <3>5. IsReplay(shorter, c)
      BY <3>2, <3>3 DEF IsReplay
    <3>6. row[n] = claim[c]
      BY <3>4, <3>5 DEF ReplayEnds
    <3>7. n + 1 \in 0 .. n + 1 /\ n + 1 # 0 /\ (n + 1) - 1 = n
      BY <1>t
    <3>8. row[n + 1] = Replay(row[n], f)
      BY <2>1, <3>1, <3>7
    <3> QED BY <1>2, <2>1, <3>6, <3>8
  <2> QED BY <2>2, <2>3 DEF ReplayEnds
<1> QED BY <1>1, <1>2, StepRecorded DEF Recorded

\* Dropping the claim table and replaying the records gives back the live rows,
\* after any crash, and whatever was granted, renewed, released or expired.
THEOREM RebuildIsExact == Spec => []RebuildMatches
<1> DEFINE RInv == \A c \in Contracts : ReplayEnds(c)
<1>1. Init => RInv
  <2> SUFFICES ASSUME Init, NEW c \in Contracts PROVE ReplayEnds(c)
    OBVIOUS
  <2>1. Len(facts[c]) = 0 /\ claim[c] = NoClaim
    BY DEF Init
  <2> DEFINE one == [i \in 0 .. 0 |-> NoClaim]
  <2>2. one = [i \in 0 .. 0 |->
                  IF i = 0 THEN NoClaim ELSE Replay(one[i - 1], facts[c][i])]
    OBVIOUS
  <2> HIDE DEF one
  <2>3. IsReplay(one, c)
    BY <2>1, <2>2 DEF IsReplay
  <2>4. ASSUME NEW row, IsReplay(row, c) PROVE row[Len(facts[c])] = claim[c]
    <3>1. row = [i \in 0 .. 0 |->
                    IF i = 0 THEN NoClaim ELSE Replay(row[i - 1], facts[c][i])]
      BY <2>1, <2>4 DEF IsReplay
    <3>2. row[0] = NoClaim
      BY <3>1
    <3> QED BY <2>1, <3>2
  <2> QED BY <2>3, <2>4 DEF ReplayEnds
<1>2. TInv /\ RInv /\ [Next]_vars => RInv'
  BY NextReplayEnds
<1>3. RInv => RebuildMatches
  BY DEF ReplayEnds, IsReplay, RebuildMatches, Rebuilt
<1> HIDE DEF RInv
<1> QED BY <1>1, <1>2, <1>3, GateInvariant, PTL DEF Spec

=============================================================================
