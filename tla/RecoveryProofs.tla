---------------------------- MODULE RecoveryProofs ----------------------------
(***************************************************************************)
(* Theorems about Recovery, for every set of tasks, kinds of failure,      *)
(* depth and number of passes.                                             *)
(*                                                                         *)
(* Why a Contract is repaired once: the form of a repair is decided by the *)
(* publications that declared the Contract, which all have one form, so    *)
(* that it does not change once the Contract is declared (FormStays), and  *)
(* a pass that is about to publish a tool call has seen that no generic    *)
(* repair exists.                                                          *)
(***************************************************************************)
EXTENDS Recovery, TLAPS

USE DEF Sources, Publications, Records, Terminals, NotEnded, Completed, FailedBy, Steps

\* What is known of the declared Contracts and of the passes at work.
FailuresDeclared == \A f \in failures : Declared(f.of)
RepairsDeclared == \A p \in published : Declared(p.of)
WorkOnFailures ==
    \A i \in Processes :
        /\ pass[i].todo \subseteq failures
        /\ pass[i].at # "next" => pass[i].source \in failures
OutcomesOfFailures == \A r \in outcomes : r.source \in failures

\* The steps of a publication.
Publishing == {"publish", "grant", "declare"}
USE DEF Publishing

\* A tool call repeated as a tool call was not repaired generically before.
FormKept == \A p \in published : p.form = "method" => Form(p.of) = "method"
PublisherLooked ==
    \A i \in Processes, c \in Contracts :
        pass[i].at \in Publishing /\ pass[i].source.of = c /\ Form(c) = "method" =>
            \A p \in published : p.of = c => p.form # "generic"

\* A pass that is about to record a schedule has the publication behind it.
VerdictStands ==
    \A i \in Processes, f \in Sources :
        pass[i].at = "record" /\ pass[i].source = f /\ pass[i].verdict = "scheduled" =>
            Repairs(f, Form(f.of)) \in published

Known == FailuresDeclared /\ RepairsDeclared /\ WorkOnFailures /\ OutcomesOfFailures
IInv == TypeOK /\ Known /\ OneRecoveryEach /\ FormKept /\ PublisherLooked
        /\ VerdictStands /\ ScheduledIsPublished

-----------------------------------------------------------------------------
LEMMA FailuresTyped ==
    ASSUME TypeOK
    PROVE  failures \subseteq Sources
<1> HIDE DEF Sources
<1>1. \A n \in DOMAIN log : log[n] \in Sources
    BY DEF TypeOK
<1> QED BY <1>1 DEF failures

\* The log grows at its end.
LEMMA LogStays ==
    ASSUME log' = log
    PROVE  failures' = failures
BY DEF failures

LEMMA LogGrows ==
    ASSUME TypeOK, NEW f, Happens(f)
    PROVE  /\ f \in Sources
           /\ log' \in Seq(Sources)
           /\ failures' = failures \cup {f}
<1>1. log \in Seq(Sources) /\ f \in Sources /\ log' = Append(log, f)
    BY DEF TypeOK, Happens
<1>2. /\ log' \in Seq(Sources) /\ Len(log') = Len(log) + 1 /\ log'[Len(log) + 1] = f
      /\ \A n \in 1 .. Len(log) : log'[n] = log[n]
    BY <1>1
<1>3. DOMAIN log = 1 .. Len(log) /\ DOMAIN log' = 1 .. Len(log) + 1 /\ Len(log) \in Nat
    BY <1>1, <1>2
<1>4. \A g : g \in failures' <=> g \in failures \cup {f}
    BY <1>2, <1>3 DEF failures
<1> QED BY <1>1, <1>2, <1>4

LEMMA SuccessorInjective ==
    ASSUME NEW c \in Contracts, NEW d \in Contracts, Successor(c) = Successor(d)
    PROVE  c = d
BY DEF Contracts, Successor

LEMMA SuccessorDeep ==
    ASSUME NEW c \in Contracts
    PROVE  Successor(c).depth # 0
BY DEF Contracts, Successor

LEMMA IdleTyped == Idle \in Passes
BY RecoveryAssumption DEF Idle, Passes

LEMMA DoneTyped ==
    ASSUME NEW s \in Passes
    PROVE  /\ Done(s) \in Passes
           /\ Done(s).at = "next"
           /\ Done(s).todo = s.todo
           /\ Done(s).verdict = "unavailable"
BY IdleTyped DEF Done, Passes, Idle


LEMMA LegacyTyped ==
    ASSUME Init
    PROVE  /\ log \in Seq(Sources)
           /\ published \subseteq Publications
           /\ \/ failures = {} /\ published = {}
              \/ \E f \in Sources : /\ f.of.depth = 0 /\ failures = {f}
                                    /\ published = {Repairs(f, "generic")}
<1>1. published = {Repairs(f, "generic") : f \in failures}
    BY DEF Init
<1>2. CASE log = <<>>
  <2>1. failures = {}
    BY <1>2 DEF failures
  <2> QED BY <1>1, <1>2, <2>1
<1>3. ASSUME NEW f \in Sources, f.of.depth = 0, log = <<f>>
      PROVE  /\ log \in Seq(Sources) /\ failures = {f}
             /\ published = {Repairs(f, "generic")} /\ published \subseteq Publications
  <2>1. failures = {f}
    BY <1>3 DEF failures
  <2>2. f.of \in Contracts
    OBVIOUS
  <2>3. Repairs(f, "generic") \in Publications
    BY <2>2 DEF Repairs, Forms
  <2> QED BY <1>1, <1>3, <2>1, <2>3
<1>4. log = <<>> \/ \E f \in Sources : f.of.depth = 0 /\ log = <<f>>
    BY DEF Init, LegacyLogs
<1> QED BY <1>2, <1>3, <1>4

\* Every reachable state is well typed, and the passes work on failures.
LEMMA TypeInit == Init => TypeOK /\ WorkOnFailures
<1> SUFFICES ASSUME Init PROVE TypeOK /\ WorkOnFailures
    OBVIOUS
<1>1. published \subseteq Publications /\ failures \subseteq Sources /\ log \in Seq(Sources)
    BY LegacyTyped
<1>2. terminal \in [Contracts -> Terminals]
    <2>1. ASSUME NEW c \in Contracts, \E f \in failures : f.of = c
          PROVE  (CHOOSE f \in failures : f.of = c) \in Sources
        BY <1>1, <2>1
    <2> HIDE DEF Sources
    <2> QED BY <2>1, <1>1 DEF Init
<1>3. balance \in [Parents -> Nat] /\ crashes \in 0 .. MaxCrashes
    BY RecoveryAssumption DEF Init
<1>4. WorkOnFailures
    BY DEF Init, WorkOnFailures, Idle
<1> QED BY <1>1, <1>2, <1>3, <1>4, IdleTyped DEF Init, TypeOK

\* A step of process i that leaves its pass in a state of the right type,
\* with nothing but failures at work.
Moves(i) ==
    \E s \in Passes :
        /\ pass' = [pass EXCEPT ![i] = s]
        /\ s.todo \subseteq failures
        /\ s.at # "next" => s.source \in failures

LEMMA MovesTyped ==
    ASSUME TypeOK, WorkOnFailures, NEW i \in Processes, Moves(i), failures \subseteq failures'
    PROVE  pass' \in [Processes -> Passes] /\ WorkOnFailures'
<1>1. PICK s \in Passes :
        /\ pass' = [pass EXCEPT ![i] = s]
        /\ s.todo \subseteq failures
        /\ s.at # "next" => s.source \in failures
    BY DEF Moves
<1> HIDE DEF Steps
<1>2. pass \in [Processes -> Passes]
    BY DEF TypeOK
<1>3. pass' \in [Processes -> Passes] /\ pass'[i] = s
        /\ \A j \in Processes : j # i => pass'[j] = pass[j]
    BY <1>1, <1>2
<1> QED BY <1>1, <1>3 DEF WorkOnFailures

LEMMA GoMoves ==
    ASSUME TypeOK, WorkOnFailures, NEW i \in Processes, pass[i].at # "next",
           NEW step \in Steps, NEW verdict \in {"scheduled", "unavailable"}
    PROVE  /\ pass' = [pass EXCEPT ![i].at = step] => Moves(i)
           /\ pass' = [pass EXCEPT ![i].at = step, ![i].verdict = verdict] => Moves(i)
<1>1. pass[i] \in Passes
    BY DEF TypeOK
<1>2. [pass[i] EXCEPT !.at = step] \in Passes
        /\ [pass[i] EXCEPT !.at = step, !.verdict = verdict] \in Passes
    BY <1>1 DEF Passes
<1>3. pass[i].todo \subseteq failures /\ pass[i].source \in failures
    BY DEF WorkOnFailures
<1>4. [pass[i] EXCEPT !.at = step].todo = pass[i].todo
      /\ [pass[i] EXCEPT !.at = step].source = pass[i].source
      /\ [pass[i] EXCEPT !.at = step, !.verdict = verdict].todo = pass[i].todo
      /\ [pass[i] EXCEPT !.at = step, !.verdict = verdict].source = pass[i].source
    BY <1>1 DEF Passes
<1>5. ASSUME pass' = [pass EXCEPT ![i].at = step] PROVE Moves(i)
  <2>1. pass' = [pass EXCEPT ![i] = [pass[i] EXCEPT !.at = step]]
    BY <1>5
  <2> QED BY <1>2, <1>3, <1>4, <2>1 DEF Moves
<1>6. ASSUME pass' = [pass EXCEPT ![i].at = step, ![i].verdict = verdict] PROVE Moves(i)
  <2>1. pass' = [pass EXCEPT ![i] = [pass[i] EXCEPT !.at = step, !.verdict = verdict]]
    BY <1>6, <1>1 DEF TypeOK
  <2> QED BY <1>2, <1>3, <1>4, <2>1 DEF Moves
<1> QED BY <1>5, <1>6

LEMMA PassStepMoves ==
    ASSUME TypeOK, WorkOnFailures, NEW i \in Processes, PassStep(i) \/ Crash(i)
    PROVE  Moves(i) /\ log' = log
<1> USE DEF records
<1>0. pass \in [Processes -> Passes] /\ pass[i] \in Passes /\ failures \subseteq Sources
    BY FailuresTyped DEF TypeOK
<1>1. ASSUME NEW stage \in Stages, Scan(i, stage)
      PROVE  Moves(i) /\ log' = log
  <2> DEFINE s == [Idle EXCEPT !.todo = Unanswered(stage),
                        !.seen = [c \in Contracts |->
                            IF stage = "submissions" /\ \E f \in Unanswered(stage) : f.of = c
                            THEN terminal[c].what ELSE "none"]]
  <2>1. Unanswered(stage) \subseteq failures /\ Unanswered(stage) \subseteq Sources
    BY <1>0 DEF Unanswered
  <2>2. \A c \in Contracts : terminal[c].what \in {"none", "complete", "failed"}
    BY DEF TypeOK
  <2>3. s \in Passes /\ s.todo = Unanswered(stage) /\ s.at = "next"
    BY <2>1, <2>2, IdleTyped DEF Idle, Passes
  <2>4. pass' = [pass EXCEPT ![i] = s] /\ log' = log
    BY <1>1 DEF Scan
  <2> QED BY <2>1, <2>3, <2>4 DEF Moves
<1>2. ASSUME NEW f \in Sources, Preserve(i, f)
      PROVE  Moves(i) /\ log' = log
  <2> DEFINE r == [pass[i] EXCEPT !.todo = @ \ {f}]
  <2>1. r \in Passes /\ r.todo \subseteq pass[i].todo
    BY <1>0 DEF Passes
  <2>2. pass' = [pass EXCEPT ![i] = Done(r)] /\ log' = log
    BY <1>2 DEF Preserve, Done
  <2> HIDE DEF r
  <2>3. Done(r) \in Passes /\ Done(r).todo \subseteq failures /\ Done(r).at = "next"
    BY <2>1, DoneTyped DEF WorkOnFailures
  <2> QED BY <2>2, <2>3 DEF Moves
<1>3. ASSUME NEW f \in Sources, Take(i, f)
      PROVE  Moves(i) /\ log' = log
  <2> DEFINE s == [pass[i] EXCEPT !.source = f, !.todo = @ \ {f}, !.verdict = "unavailable",
                        !.at = IF f.of.depth = DepthLimit THEN "record" ELSE "prove"]
  <2>1. s \in Passes /\ s.todo \subseteq pass[i].todo /\ s.source = f
    BY <1>0 DEF Passes
  <2>2. pass' = [pass EXCEPT ![i] = s] /\ log' = log /\ f \in pass[i].todo
    BY <1>3 DEF Take, IsNext
  <2> HIDE DEF s
  <2> QED BY <2>1, <2>2 DEF Moves, WorkOnFailures
<1>31. ASSUME NEW f, Raise(i, f)
      PROVE  Moves(i) /\ log' = log
  BY <1>31, IdleTyped DEF Raise, Moves, Idle
<1>4. CASE Prove(i)
  <2>1. pass[i].at # "next" /\ log' = log
    BY <1>4 DEF Prove
  <2>2. \/ pass' = [pass EXCEPT ![i].at = "publish"]
        \/ pass' = [pass EXCEPT ![i].at = "record", ![i].verdict = "scheduled"]
        \/ pass' = [pass EXCEPT ![i].at = "record", ![i].verdict = "unavailable"]
    <3>1. History(pass[i].source) \in {"absent", "matched", "conflict"}
      BY DEF History, Status
    <3> QED BY <3>1, <1>4 DEF Prove, Go, Conclude
  <2> QED BY <2>1, <2>2, GoMoves
<1>5. CASE CannotProve(i)
  BY <1>5, GoMoves DEF CannotProve, Conclude
<1>6. CASE Project(i) \/ Grant(i) \/ Declare(i) \/ GrantRefused(i)
  <2>1. pass[i].at # "next" /\ log' = log
    BY <1>6 DEF Project, Grant, Declare, GrantRefused, Commit
  <2>2. \/ pass' = [pass EXCEPT ![i].at = "grant"]
        \/ pass' = [pass EXCEPT ![i].at = "declare"]
        \/ pass' = [pass EXCEPT ![i].at = "prove again"]
        \/ pass' = [pass EXCEPT ![i].at = "record", ![i].verdict = "scheduled"]
    BY <1>6 DEF Project, Grant, Declare, GrantRefused, Commit, Go, Conclude
  <2> QED BY <2>1, <2>2, GoMoves
<1>7. CASE ProveAgain(i)
  BY <1>7, GoMoves DEF ProveAgain, Conclude
<1>8. CASE Record(i)
  <2> DEFINE f == pass[i].source
             r == [pass[i] EXCEPT !.seen[f.of] = IF StageOf(f.kind) = "submissions" THEN "failed" ELSE @]
  <2>1. pass[i].at = "record" /\ log' = log
    BY <1>8 DEF Record
  <2>2. f \in Sources /\ f.of \in Contracts
    BY <1>0, <2>1 DEF WorkOnFailures
  <2>3. r \in Passes /\ r.todo = pass[i].todo
    BY <1>0, <2>2 DEF Passes
  <2>4. pass' = [pass EXCEPT ![i] = Done(r)] \/ pass' = [pass EXCEPT ![i] = Idle]
    BY <1>8 DEF Record, Done
  <2> HIDE DEF r
  <2>5. Done(r) \in Passes /\ Done(r).todo \subseteq failures /\ Done(r).at = "next"
    BY <2>3, DoneTyped DEF WorkOnFailures
  <2>6. Idle \in Passes /\ Idle.todo \subseteq failures /\ Idle.at = "next"
    BY IdleTyped DEF Idle
  <2> QED BY <2>1, <2>4, <2>5, <2>6 DEF Moves
<1>9. CASE Crash(i)
  BY <1>9, IdleTyped DEF Crash, Moves, Idle
<1>32. \A f \in pass[i].todo : f \in Sources
    BY <1>0 DEF Passes
<1> QED BY <1>1, <1>2, <1>3, <1>31, <1>32, <1>4, <1>5, <1>6, <1>7, <1>8, <1>9 DEF PassStep

LEMMA TypeStep ==
    ASSUME TypeOK, WorkOnFailures, [Next]_vars
    PROVE  TypeOK' /\ WorkOnFailures'
<1> USE DEF records
<1>0. /\ log \in Seq(Sources) /\ failures \subseteq Sources
      /\ published \subseteq Publications /\ granted \subseteq published /\ outcomes \subseteq Records
      /\ terminal \in [Contracts -> Terminals] /\ balance \in [Parents -> Nat]
      /\ ended \subseteq Parents /\ crashes \in 0 .. MaxCrashes
    BY FailuresTyped DEF TypeOK
<1>1. ASSUME NEW i \in Processes, PassStep(i) \/ Crash(i)
      PROVE  TypeOK' /\ WorkOnFailures'
  <2>1. Moves(i) /\ log' = log /\ failures' = failures
    BY <1>1, PassStepMoves, LogStays
  <2>2. pass' \in [Processes -> Passes] /\ WorkOnFailures'
    BY <2>1, MovesTyped
  <2> SUFFICES published' \subseteq Publications /\ granted' \subseteq published' /\ outcomes' \subseteq Records
               /\ terminal' \in [Contracts -> Terminals] /\ balance' \in [Parents -> Nat]
               /\ ended' \subseteq Parents /\ crashes' \in 0 .. MaxCrashes
    BY <2>1, <2>2, <1>0 DEF TypeOK
  <2>3. pass[i] \in Passes /\ (pass[i].at # "next" => pass[i].source \in failures)
    BY DEF TypeOK, WorkOnFailures
  <2>4. CASE \E stage \in Stages : Scan(i, stage)
    BY <2>4, <1>0 DEF Scan
  <2>5. ASSUME NEW f \in Sources, Raise(i, f) \/ Preserve(i, f) \/ Take(i, f)
        PROVE  published' \subseteq Publications /\ granted' \subseteq published' /\ outcomes' \subseteq Records
               /\ terminal' \in [Contracts -> Terminals] /\ balance' \in [Parents -> Nat]
               /\ ended' \subseteq Parents /\ crashes' \in 0 .. MaxCrashes
    BY <2>5, <1>0 DEF Raise, Preserve, Take
  <2>6. CASE Prove(i) \/ CannotProve(i) \/ ProveAgain(i) \/ Project(i) \/ GrantRefused(i)
    BY <2>6, <1>0 DEF Prove, CannotProve, ProveAgain, Project, GrantRefused
  <2>7. CASE Grant(i) \/ Declare(i)
    <3> DEFINE f == pass[i].source
    <3>1. f \in failures /\ f \in Sources /\ f.of \in Contracts
      BY <2>3, <2>7, <1>0 DEF Grant, Declare
    <3>2. Repairs(f, Form(f.of)) \in Publications
      BY <3>1 DEF Repairs, Form, Forms
    <3>3. Parent[f.of.task] \in Parents /\ Cost[f.of.task] \in Nat
      BY <3>1, RecoveryAssumption DEF Contracts
    <3>4. /\ UNCHANGED <<outcomes, terminal, ended, crashes>>
          /\ published' = published \cup {Repairs(f, Form(f.of))}
      BY <2>7 DEF Grant, Declare, Commit, Asked
    <3>5. CASE UNCHANGED <<granted, balance>>
      BY <3>2, <3>4, <3>5, <1>0
    <3>6. CASE /\ Payable(f.of)
               /\ granted' = granted \cup {Repairs(f, Form(f.of))}
               /\ balance' = [balance EXCEPT ![Parent[f.of.task]] = @ - Cost[f.of.task]]
      <4>1. balance[Parent[f.of.task]] - Cost[f.of.task] \in Nat
        <5>1. balance[Parent[f.of.task]] \in Nat
          BY <3>3, <1>0
        <5>2. balance[Parent[f.of.task]] >= Cost[f.of.task]
          BY <3>6 DEF Payable
        <5> QED BY <3>3, <5>1, <5>2
      <4>2. balance' \in [Parents -> Nat]
        BY <4>1, <3>3, <3>6, <1>0
      <4> QED BY <3>2, <3>4, <3>6, <4>2, <1>0
    <3> QED BY <2>7, <3>5, <3>6 DEF Grant, Declare, Asked
  <2>8. CASE Record(i)
    <3> DEFINE f == pass[i].source
    <3>1. f \in Sources /\ f.of \in Contracts /\ pass[i].verdict \in {"scheduled", "unavailable"}
      BY <2>3, <2>8, <1>0 DEF Record, Passes
    <3>2. UNCHANGED <<published, granted, balance, ended, crashes>>
      BY <2>8 DEF Record
    <3>3. CASE UNCHANGED <<outcomes, terminal>>
      BY <3>2, <3>3, <1>0
    <3>4. CASE /\ outcomes' = outcomes \cup {[what |-> pass[i].verdict, source |-> f]}
               /\ terminal' = [terminal EXCEPT ![f.of] = IF Ends(i, f) THEN FailedBy(f) ELSE @]
      <4>1. FailedBy(f) \in Terminals
        BY <3>1
      <4>2. terminal' \in [Contracts -> Terminals]
        <5> HIDE DEF Terminals, FailedBy
        <5> QED BY <4>1, <3>1, <3>4, <1>0
      <4>3. outcomes' \subseteq Records
        BY <3>1, <3>4, <1>0
      <4> QED BY <3>2, <4>2, <4>3, <1>0
    <3> QED BY <2>8, <3>3, <3>4 DEF Record
  <2>9. CASE Crash(i)
    BY <2>9, <1>0, RecoveryAssumption DEF Crash
  <2>10. \A f \in pass[i].todo : f \in Sources
    BY <2>3 DEF Passes
  <2> QED BY <1>1, <2>4, <2>5, <2>6, <2>7, <2>8, <2>9, <2>10 DEF PassStep
<1>2. ASSUME UNCHANGED <<pass, crashes>>, failures \subseteq failures', log' \in Seq(Sources),
             terminal' \in [Contracts -> Terminals], balance' \in [Parents -> Nat],
             ended' \subseteq Parents, UNCHANGED <<published, granted, outcomes>>
      PROVE  TypeOK' /\ WorkOnFailures'
    BY <1>2, <1>0 DEF TypeOK, WorkOnFailures
<1>3. ASSUME NEW c \in Contracts, NEW kind \in Kinds, Fail(c, kind)
      PROVE  TypeOK' /\ WorkOnFailures'
  <2> DEFINE f == [kind |-> kind, of |-> c]
  <2>1. f \in Sources /\ FailedBy(f) \in Terminals
    OBVIOUS
  <2>2. Happens(f) /\ terminal' = [terminal EXCEPT ![c] = FailedBy(f)]
        /\ UNCHANGED <<pass, crashes, published, granted, outcomes, balance, ended>>
    BY <1>3 DEF Fail, UnchangedPasses
  <2>3. terminal' \in [Contracts -> Terminals]
    <3> HIDE DEF Terminals, FailedBy
    <3> QED BY <2>1, <2>2, <1>0
  <2>4. log' \in Seq(Sources) /\ failures \subseteq failures'
    BY <2>2, LogGrows
  <2> QED BY <2>2, <2>3, <2>4, <1>0, <1>2
<1>4. ASSUME NEW c \in Contracts, Refuse(c)
      PROVE  TypeOK' /\ WorkOnFailures'
  <2>1. log' \in Seq(Sources) /\ failures \subseteq failures'
    BY <1>4, LogGrows DEF Refuse
  <2> QED BY <1>4, <2>1, <1>0, <1>2 DEF Refuse, UnchangedPasses
<1>5. ASSUME NEW c \in Contracts, Complete(c)
      PROVE  TypeOK' /\ WorkOnFailures'
  <2>1. Completed \in Terminals
    OBVIOUS
  <2>2. terminal' \in [Contracts -> Terminals]
    <3> HIDE DEF Terminals, Completed
    <3> QED BY <2>1, <1>5, <1>0 DEF Complete
  <2> QED BY <2>2, <1>5, <1>0, <1>2, LogStays DEF Complete, UnchangedPasses
<1>6. ASSUME NEW p \in Parents, SpendElsewhere(p) \/ EndParent(p)
      PROVE  TypeOK' /\ WorkOnFailures'
    BY <1>6, <1>0, <1>2, LogStays DEF SpendElsewhere, EndParent, UnchangedPasses
<1>7. CASE UNCHANGED vars
    BY <1>7, <1>0, <1>2, LogStays DEF vars
<1> QED BY <1>1, <1>3, <1>4, <1>5, <1>6, <1>7 DEF Next, Environment

\* Every reachable state is well typed, and every pass works on failure facts
\* of the Store.
THEOREM RecoveryTypeCorrect == Spec => []TypeOK
<1>1. Init => TypeOK /\ WorkOnFailures
    BY TypeInit
<1>2. TypeOK /\ WorkOnFailures /\ [Next]_vars => (TypeOK /\ WorkOnFailures)'
    BY TypeStep
<1> QED BY <1>1, <1>2, PTL DEF Spec

-----------------------------------------------------------------------------
LEMMA AtWork ==
    ASSUME IInv, NEW i \in Processes, pass[i].at # "next"
    PROVE  /\ pass[i].source \in failures /\ pass[i].source \in Sources
           /\ pass[i].source.of \in Contracts /\ Declared(pass[i].source.of)
<1>1. pass[i].source \in failures /\ pass[i].source \in Sources
    BY FailuresTyped DEF IInv, Known, WorkOnFailures
<1> QED BY <1>1 DEF IInv, Known, FailuresDeclared

\* What a step may publish: nothing, or the repair of the failure at work; with
\* a grant when no other of the same form is there.
Publishes(i) ==
    LET p == Repairs(pass[i].source, Form(pass[i].source.of))
    IN  /\ pass[i].at \in Publishing
        /\ published' = published \cup {p}
        /\ \/ granted' = granted
           \/ granted' = granted \cup {p} /\ Fresh(p)

LEMMA PublishedGrows ==
    ASSUME NEW i \in Processes, PassStep(i) \/ Crash(i)
    PROVE  UNCHANGED <<published, granted>> \/ Publishes(i)
<1>1. CASE Grant(i) \/ Declare(i)
  BY <1>1 DEF Grant, Declare, Commit, Asked, Publishes
<1>2. CASE ~(Grant(i) \/ Declare(i))
  BY <1>2 DEF PassStep, Scan, Raise, Preserve, Take, Prove, CannotProve, Project, GrantRefused,
              ProveAgain, Record, Crash, records
<1> QED BY <1>1, <1>2

\* The new repair has the form of those there are of its Contract.
LEMMA SameForm ==
    ASSUME IInv, NEW i \in Processes, pass[i].at \in Publishing,
           NEW q \in published, q.of = pass[i].source.of
    PROVE  q.form = Form(pass[i].source.of)
<1> DEFINE c == pass[i].source.of
<1>1. pass[i].at # "next"
    OBVIOUS
<1>2. c \in Contracts
    BY <1>1, AtWork
<1>3. q.form \in Forms /\ Form(c) \in Forms
    BY DEF IInv, TypeOK, Forms, Form
<1>4. CASE q.form = "method"
    BY <1>4 DEF IInv, FormKept
<1>5. CASE q.form = "generic"
    BY <1>5, <1>2, <1>3 DEF IInv, PublisherLooked, Forms
<1> QED BY <1>3, <1>4, <1>5 DEF Forms

\* The form in which a declared Contract is repaired never changes.
LEMMA FormStays ==
    ASSUME IInv, NEW i \in Processes, PassStep(i) \/ Crash(i),
           NEW c \in Contracts, Declared(c)
    PROVE  Form(c)' = Form(c)
<1>1. CASE published' = published
    BY <1>1 DEF Form
<1>2. CASE Publishes(i)
  <2> DEFINE f == pass[i].source
             p0 == Repairs(f, Form(f.of))
  <2>1. published' = published \cup {p0} /\ pass[i].at \in Publishing /\ pass[i].at # "next"
    BY <1>2 DEF Publishes
  <2>2. p0.of = f.of /\ p0.form = Form(f.of) /\ f.of \in Contracts
    BY <2>1, AtWork DEF Repairs
  <2>3. Successor(p0.of) = c => \E p \in published : Successor(p.of) = c /\ p.form = p0.form
    <3>1. SUFFICES ASSUME Successor(f.of) = c
                   PROVE  \E p \in published : Successor(p.of) = c /\ p.form = p0.form
      BY <2>2
    <3>2. CASE c.depth = 0
      BY <3>1, <3>2, <2>2, SuccessorDeep
    <3>3. CASE \E p \in published : Successor(p.of) = c
      <4>1. PICK p1 \in published : Successor(p1.of) = c
        BY <3>3
      <4>2. p1.of \in Contracts
        BY DEF IInv, TypeOK
      <4>3. p1.of = f.of
        BY <4>1, <4>2, <3>1, <2>2, SuccessorInjective
      <4>4. p1.form = p0.form
        BY <4>3, <2>1, <2>2, SameForm
      <4> QED BY <4>1, <4>4
    <3> QED BY <3>2, <3>3 DEF Declared
  <2> HIDE DEF p0
  <2> QED BY <2>1, <2>3 DEF Form
<1> QED BY <1>1, <1>2, PublishedGrows

\* A Contract stays declared.
LEMMA StaysDeclared ==
    ASSUME NEW c, Declared(c), published \subseteq published'
    PROVE  Declared(c)'
BY DEF Declared

-----------------------------------------------------------------------------
\* Steps of a pass.
LEMMA PassKeepsPublications ==
    ASSUME IInv, NEW i \in Processes, PassStep(i) \/ Crash(i)
    PROVE  RepairsDeclared' /\ OneRecoveryEach' /\ FormKept'
<1>0. /\ \A p \in published : p.of \in Contracts
      /\ RepairsDeclared /\ OneRecoveryEach /\ FormKept
    BY DEF IInv, TypeOK, Known
<1>1. CASE UNCHANGED <<published, granted>>
    BY <1>0, <1>1 DEF RepairsDeclared, OneRecoveryEach, FormKept, Declared, Form
<1>2. CASE Publishes(i)
  <2> DEFINE f == pass[i].source
             p0 == Repairs(f, Form(f.of))
  <2>1. published' = published \cup {p0} /\ pass[i].at \in Publishing /\ pass[i].at # "next"
    BY <1>2 DEF Publishes
  <2>2. f \in failures /\ f.of \in Contracts /\ Declared(f.of) /\ p0.of = f.of
        /\ p0.form = Form(f.of)
    BY <2>1, AtWork DEF Repairs
  <2>3. \A q \in published : q.of = p0.of => q.form = p0.form
    BY <2>1, <2>2, SameForm
  <2>4. \A c \in Contracts : Declared(c) => Form(c)' = Form(c)
    BY FormStays
  <2>41. granted' = granted \/ (granted' = granted \cup {p0} /\ Fresh(p0))
    BY <1>2 DEF Publishes
  <2> HIDE DEF p0
  <2>5. OneRecoveryEach'
    <3>1. \A p, q \in published' : p.of = q.of => p.form = q.form
      BY <2>1, <2>3, <1>0 DEF OneRecoveryEach
    <3>2. Fresh(p0) => \A q \in granted : q.of # p0.of
      BY <2>3 DEF Fresh, IInv, TypeOK
    <3>3. \A p, q \in granted' : p.of = q.of => p = q
      BY <3>2, <2>41, <1>0 DEF OneRecoveryEach
    <3> QED BY <3>1, <3>3 DEF OneRecoveryEach
  <2>6. FormKept'
    <3>1. SUFFICES ASSUME NEW q \in published', q.form = "method"
                   PROVE  Form(q.of)' = "method"
      BY DEF FormKept
    <3>2. CASE q \in published
      <4>1. q.of \in Contracts /\ Declared(q.of) /\ Form(q.of) = "method"
        BY <3>1, <3>2, <1>0 DEF FormKept, RepairsDeclared
      <4> QED BY <4>1, <2>4
    <3>3. CASE q = p0
      <4>1. q.of \in Contracts /\ Declared(q.of) /\ Form(q.of) = "method"
        BY <3>1, <3>3, <2>2
      <4> QED BY <4>1, <2>4
    <3> QED BY <3>2, <3>3, <2>1
  <2>7. RepairsDeclared'
    <3>1. \A c \in Contracts : Declared(c) => Declared(c)'
      BY <2>1, StaysDeclared
    <3> QED BY <3>1, <2>1, <2>2, <1>0 DEF RepairsDeclared
  <2> QED BY <2>5, <2>6, <2>7
<1> QED BY <1>1, <1>2, PublishedGrows

\* The passes of the others look at Contracts whose form stays.
LEMMA OthersUndisturbed ==
    ASSUME IInv, NEW i \in Processes, PassStep(i) \/ Crash(i),
           NEW j \in Processes, j # i
    PROVE  /\ pass'[j] = pass[j]
           /\ pass[j].at # "next" =>
                 /\ pass[j].source.of \in Contracts
                 /\ Declared(pass[j].source.of)
<1>1. Moves(i)
    BY PassStepMoves DEF IInv, Known
<1>2. pass'[j] = pass[j]
    BY <1>1 DEF Moves, IInv, TypeOK
<1> QED BY <1>2, AtWork

LEMMA GoSets ==
    ASSUME TypeOK, NEW i \in Processes, NEW step \in Steps, NEW verdict \in {"scheduled", "unavailable"}
    PROVE  /\ pass' = [pass EXCEPT ![i].at = step] =>
                /\ pass'[i].at = step
                /\ pass'[i].source = pass[i].source
           /\ pass' = [pass EXCEPT ![i].at = step, ![i].verdict = verdict] =>
                /\ pass'[i].at = step
                /\ pass'[i].source = pass[i].source
                /\ pass'[i].verdict = verdict
<1>1. pass[i] \in Passes /\ pass \in [Processes -> Passes]
    BY DEF TypeOK
<1>2. ASSUME pass' = [pass EXCEPT ![i].at = step]
      PROVE  pass'[i].at = step /\ pass'[i].source = pass[i].source
  <2>1. pass'[i] = [pass[i] EXCEPT !.at = step]
    BY <1>1, <1>2
  <2> QED BY <1>1, <2>1 DEF Passes
<1>3. ASSUME pass' = [pass EXCEPT ![i].at = step, ![i].verdict = verdict]
      PROVE  /\ pass'[i].at = step /\ pass'[i].source = pass[i].source
             /\ pass'[i].verdict = verdict
  <2>1. pass'[i] = [pass[i] EXCEPT !.at = step, !.verdict = verdict]
    BY <1>1, <1>3
  <2> QED BY <1>1, <2>1 DEF Passes
<1> QED BY <1>2, <1>3

\* How a pass comes to stand before a publication, or before the record of a
\* schedule.
LEMMA WhereStands ==
    ASSUME TypeOK, WorkOnFailures, NEW i \in Processes, PassStep(i) \/ Crash(i)
    PROVE  /\ pass'[i].at \in Publishing =>
                /\ \/ pass[i].at = "prove" /\ History(pass[i].source) = "absent"
                   \/ pass[i].at = "publish"
                /\ pass'[i].source = pass[i].source /\ published' = published
           /\ pass'[i].at = "record" /\ pass'[i].verdict = "scheduled" =>
                /\ pass[i].at # "next"
                /\ pass'[i].source = pass[i].source
                /\ \/ (History(pass[i].source) = "matched" /\ published' = published)
                   \/ Repairs(pass[i].source, Form(pass[i].source.of)) \in published'
<1> DEFINE Stands ==
             /\ \/ pass[i].at = "prove" /\ History(pass[i].source) = "absent"
                \/ pass[i].at = "publish"
             /\ pass'[i].source = pass[i].source /\ published' = published
           Scheduling ==
             /\ pass[i].at # "next"
             /\ pass'[i].source = pass[i].source
             /\ \/ (History(pass[i].source) = "matched" /\ published' = published)
                \/ Repairs(pass[i].source, Form(pass[i].source.of)) \in published'
           Goal == /\ pass'[i].at \in Publishing => Stands
                   /\ pass'[i].at = "record" /\ pass'[i].verdict = "scheduled" => Scheduling
<1>0. pass \in [Processes -> Passes] /\ pass[i] \in Passes /\ failures \subseteq Sources
    BY FailuresTyped DEF TypeOK
<1>1. CASE Prove(i)
  <2>1. pass[i].at = "prove" /\ published' = published
    BY <1>1 DEF Prove, records
  <2>2. History(pass[i].source) \in {"absent", "matched", "conflict"}
    BY DEF History, Status
  <2>3. CASE History(pass[i].source) = "absent"
    <3>1. pass' = [pass EXCEPT ![i].at = "publish"]
      BY <1>1, <2>3 DEF Prove, Go
    <3> QED BY <2>1, <2>3, <3>1, GoSets
  <2>4. CASE History(pass[i].source) = "matched"
    <3>1. pass' = [pass EXCEPT ![i].at = "record", ![i].verdict = "scheduled"]
      BY <1>1, <2>4 DEF Prove, Conclude
    <3> QED BY <2>1, <2>4, <3>1, GoSets
  <2>5. CASE History(pass[i].source) = "conflict"
    <3>1. pass' = [pass EXCEPT ![i].at = "record", ![i].verdict = "unavailable"]
      BY <1>1, <2>5 DEF Prove, Conclude
    <3>2. pass'[i].at = "record" /\ pass'[i].verdict = "unavailable"
      BY <3>1, GoSets
    <3> QED BY <3>2
  <2> QED BY <2>2, <2>3, <2>4, <2>5
<1>2. CASE CannotProve(i)
  <2>1. pass'[i].at = "record" /\ pass'[i].verdict = "unavailable"
    BY <1>2, GoSets DEF CannotProve, Conclude
  <2> QED BY <2>1
<1>3. CASE ProveAgain(i)
  <2>1. pass[i].at = "prove again" /\ published' = published
    BY <1>3 DEF ProveAgain, records
  <2>2. CASE History(pass[i].source) = "matched"
    <3>1. pass' = [pass EXCEPT ![i].at = "record", ![i].verdict = "scheduled"]
      BY <1>3, <2>2 DEF ProveAgain, Conclude
    <3> QED BY <2>1, <2>2, <3>1, GoSets
  <2>3. CASE History(pass[i].source) # "matched"
    <3>1. pass' = [pass EXCEPT ![i].at = "record", ![i].verdict = "unavailable"]
      BY <1>3, <2>3 DEF ProveAgain, Conclude
    <3>2. pass'[i].at = "record" /\ pass'[i].verdict = "unavailable"
      BY <3>1, GoSets
    <3> QED BY <3>2
  <2> QED BY <2>2, <2>3
<1>4. CASE Grant(i) \/ Declare(i)
  <2>1. /\ pass[i].at # "next"
        /\ Repairs(pass[i].source, Form(pass[i].source.of)) \in published'
        /\ pass' = [pass EXCEPT ![i].at = "record", ![i].verdict = "scheduled"]
    BY <1>4 DEF Grant, Declare, Commit, Conclude, Asked
  <2>2. pass'[i].at = "record" /\ pass'[i].source = pass[i].source
    BY <2>1, GoSets
  <2> QED BY <2>1, <2>2
<1>41. CASE GrantRefused(i)
  <2>1. pass'[i].at = "prove again"
    BY <1>41, GoSets DEF GrantRefused, Go
  <2> QED BY <2>1
<1>42. CASE Project(i)
  <2>1. /\ pass[i].at = "publish" /\ published' = published
        /\ \/ pass' = [pass EXCEPT ![i].at = "grant"]
           \/ pass' = [pass EXCEPT ![i].at = "declare"]
           \/ pass' = [pass EXCEPT ![i].at = "prove again"]
    BY <1>42 DEF Project, Go, records
  <2>2. pass'[i].at \in {"grant", "declare", "prove again"} /\ pass'[i].source = pass[i].source
    BY <2>1, GoSets
  <2> QED BY <2>1, <2>2
<1>5. ASSUME pass' = [pass EXCEPT ![i] = Idle]
             \/ \E s \in Passes : pass' = [pass EXCEPT ![i] = Done(s)]
      PROVE  Goal
  <2>1. \A s \in Passes : Done(s).at = "next"
    BY DoneTyped
  <2>2. pass'[i].at = "next"
    BY <1>5, <2>1, <1>0 DEF Idle
  <2> QED BY <2>2
<1>6. CASE Crash(i)
  BY <1>5, <1>6 DEF Crash
<1>7. ASSUME NEW stage \in Stages, Scan(i, stage) PROVE Goal
  <2>1. pass'[i].at = "next"
    BY <1>7, <1>0 DEF Scan, Idle
  <2> QED BY <2>1
<1>71. ASSUME NEW f, Raise(i, f) PROVE Goal
  BY <1>5, <1>71 DEF Raise
<1>8. ASSUME NEW f, Take(i, f) PROVE Goal
  <2> DEFINE s == [pass[i] EXCEPT !.source = f, !.todo = @ \ {f}, !.verdict = "unavailable",
                        !.at = IF f.of.depth = DepthLimit THEN "record" ELSE "prove"]
  <2>1. s.verdict = "unavailable" /\ s.at \in {"record", "prove"}
    BY <1>0 DEF Passes
  <2>2. pass' = [pass EXCEPT ![i] = s]
    BY <1>8 DEF Take
  <2> HIDE DEF s
  <2>3. pass'[i] = s
    BY <2>2, <1>0
  <2> QED BY <2>1, <2>3
<1>9. ASSUME NEW f, Preserve(i, f) PROVE Goal
  <2> DEFINE r == [pass[i] EXCEPT !.todo = @ \ {f}]
  <2>1. r \in Passes
    BY <1>0 DEF Passes
  <2>2. pass' = [pass EXCEPT ![i] = Done(r)]
    BY <1>9 DEF Preserve
  <2> HIDE DEF r
  <2> QED BY <2>1, <2>2, <1>5
<1>10. CASE Record(i)
  <2> DEFINE f == pass[i].source
             r == [pass[i] EXCEPT !.seen[f.of] = IF StageOf(f.kind) = "submissions" THEN "failed" ELSE @]
  <2>1. pass[i].at = "record"
    BY <1>10 DEF Record
  <2>2. f \in Sources /\ f.of \in Contracts
    BY <1>0, <2>1 DEF WorkOnFailures
  <2>3. r \in Passes
    BY <1>0, <2>2 DEF Passes
  <2>4. pass' = [pass EXCEPT ![i] = Done(r)] \/ pass' = [pass EXCEPT ![i] = Idle]
    BY <1>10 DEF Record
  <2> HIDE DEF r
  <2> QED BY <2>3, <2>4, <1>5
<1> QED BY <1>1, <1>2, <1>3, <1>4, <1>41, <1>42, <1>6, <1>7, <1>71, <1>8, <1>9, <1>10 DEF PassStep

\* Nobody repairs generically what a pass is about to repair as a tool call.
LEMMA PassKeepsLooks ==
    ASSUME IInv, NEW i \in Processes, PassStep(i) \/ Crash(i)
    PROVE  PublisherLooked'
<1>1. \A c \in Contracts : Declared(c) => Form(c)' = Form(c)
    BY FormStays
<1>2. pass \in [Processes -> Passes] /\ failures \subseteq Sources /\ published \subseteq Publications
    BY FailuresTyped DEF IInv, TypeOK
<1>3. pass[i].at # "next" => pass[i].source \in failures /\ pass[i].source.of \in Contracts
                             /\ Declared(pass[i].source.of)
    BY AtWork
<1>4. SUFFICES ASSUME NEW j \in Processes, NEW c \in Contracts, pass'[j].at \in Publishing,
                      pass'[j].source.of = c, Form(c)' = "method",
                      NEW p \in published', p.of = c
               PROVE  p.form # "generic"
    BY DEF PublisherLooked
<1>5. CASE j = i
  <2>1. /\ \/ pass[i].at = "prove" /\ History(pass[i].source) = "absent"
           \/ pass[i].at = "publish"
        /\ pass'[i].source = pass[i].source /\ published' = published
    BY <1>4, <1>5, WhereStands DEF IInv, Known
  <2>2. published' = published /\ pass[i].source.of = c /\ Form(c) = "method"
    BY <2>1, <1>1, <1>3, <1>4, <1>5
  <2>3. CASE pass[i].at = "prove" /\ History(pass[i].source) = "absent"
    <3>1. Status(pass[i].source, "generic") = "absent"
      BY <2>2, <2>3 DEF History
    <3> QED BY <2>2, <3>1, <1>4 DEF Status
  <2>4. CASE pass[i].at = "publish"
    BY <2>2, <2>4, <1>4 DEF IInv, PublisherLooked
  <2> QED BY <2>1, <2>3, <2>4
<1>6. CASE j # i
  <2>1. pass'[j] = pass[j] /\ pass[j].source.of \in Contracts /\ Declared(pass[j].source.of)
    BY <1>6, <1>4, OthersUndisturbed
  <2>2. Form(pass[j].source.of) = "method"
    BY <2>1, <1>1, <1>4
  <2>3. CASE p \in published
    BY <2>1, <2>2, <2>3, <1>4 DEF IInv, PublisherLooked
  <2>4. CASE Publishes(i) /\ p \notin published
    <3>1. p = Repairs(pass[i].source, Form(pass[i].source.of))
      BY <2>4 DEF Publishes
    <3>2. p.of = pass[i].source.of /\ p.form = Form(pass[i].source.of)
      BY <3>1 DEF Repairs
    <3> QED BY <3>2, <2>1, <2>2, <1>4
  <2> QED BY <2>3, <2>4, PublishedGrows
<1> QED BY <1>5, <1>6

\* Nobody takes back the publication behind a schedule.
LEMMA PassKeepsVerdicts ==
    ASSUME IInv, NEW i \in Processes, PassStep(i) \/ Crash(i)
    PROVE  VerdictStands'
<1>1. \A c \in Contracts : Declared(c) => Form(c)' = Form(c)
    BY FormStays
<1>2. pass[i].at # "next" => pass[i].source.of \in Contracts /\ Declared(pass[i].source.of)
    BY AtWork
<1>3. published \subseteq published'
    BY PublishedGrows DEF Publishes
<1>4. SUFFICES ASSUME NEW j \in Processes, NEW f \in Sources, pass'[j].at = "record",
                      pass'[j].source = f, pass'[j].verdict = "scheduled"
               PROVE  [of |-> f.of, form |-> Form(f.of)', source |-> f] \in published'
    BY DEF VerdictStands, Repairs
<1>5. CASE j = i
  <2>1. /\ pass[i].at # "next" /\ pass[i].source = f
        /\ \/ /\ History(f) = "matched"
              /\ published' = published
           \/ Repairs(f, Form(f.of)) \in published'
    BY <1>4, <1>5, WhereStands DEF IInv, Known
  <2>2. Form(f.of)' = Form(f.of)
    BY <2>1, <1>1, <1>2
  <2>3. CASE History(f) = "matched" /\ published' = published
    <3>1. Repairs(f, Form(f.of)) \in published
      BY <2>3 DEF History, Status, Form
    <3> QED BY <3>1, <2>2, <2>3 DEF Repairs
  <2> QED BY <2>1, <2>2, <2>3 DEF Repairs
<1>6. CASE j # i
  <2>1. pass'[j] = pass[j] /\ (pass[j].at # "next" => f.of \in Contracts /\ Declared(f.of))
    BY <1>4, <1>6, OthersUndisturbed
  <2>2. Repairs(f, Form(f.of)) \in published
    BY <2>1, <1>4 DEF IInv, VerdictStands
  <2>3. Form(f.of)' = Form(f.of)
    BY <2>1, <1>1, <1>4
  <2> QED BY <2>2, <2>3, <1>3 DEF Repairs
<1> QED BY <1>5, <1>6

LEMMA PassKeepsOutcomes ==
    ASSUME IInv, NEW i \in Processes, PassStep(i) \/ Crash(i)
    PROVE  ScheduledIsPublished' /\ OutcomesOfFailures' /\ FailuresDeclared'
<1>0. \A c \in Contracts : Declared(c) => Form(c)' = Form(c)
    BY FormStays
<1>1. published \subseteq published' /\ failures' = failures
    BY PublishedGrows, PassStepMoves, LogStays DEF Publishes, IInv, Known
<1>2. FailuresDeclared /\ OutcomesOfFailures /\ ScheduledIsPublished /\ WorkOnFailures
      /\ failures \subseteq Sources
    BY FailuresTyped DEF IInv, Known
<1>3. FailuresDeclared'
    BY <1>1, <1>2, StaysDeclared DEF FailuresDeclared
<1>4. ASSUME NEW r \in outcomes'
      PROVE  \/ r \in outcomes
             \/ /\ r.what = "unavailable"
                /\ r.source \in failures
             \/ /\ pass[i].at = "record" /\ r.source = pass[i].source
                /\ r.what = pass[i].verdict
  <2>1. CASE outcomes' = outcomes
    BY <2>1
  <2>2. ASSUME NEW f, Preserve(i, f)
        PROVE  r \in outcomes \/ (r.what = "unavailable" /\ r.source \in failures)
    BY <2>2, <1>2 DEF Preserve, IsNext, WorkOnFailures
  <2>3. CASE Record(i)
    BY <2>3 DEF Record
  <2> QED BY <2>1, <2>2, <2>3
          DEF PassStep, Scan, Raise, Take, Prove, CannotProve, Project, Grant, Declare, GrantRefused, Commit, ProveAgain, Crash,
              records
<1>5. OutcomesOfFailures'
    BY <1>1, <1>2, <1>4 DEF OutcomesOfFailures, WorkOnFailures
<1>6. SUFFICES ASSUME NEW r \in outcomes', r.what = "scheduled"
               PROVE  [of |-> r.source.of, form |-> Form(r.source.of)', source |-> r.source]
                            \in published'
    BY <1>3, <1>5 DEF ScheduledIsPublished, Repairs
<1>7. Repairs(r.source, Form(r.source.of)) \in published /\ r.source \in failures
  <2>1. CASE r \in outcomes
    BY <2>1, <1>2, <1>6 DEF OutcomesOfFailures, ScheduledIsPublished
  <2>2. CASE pass[i].at = "record" /\ r.source = pass[i].source /\ r.what = pass[i].verdict
    BY <2>2, <1>2, <1>6 DEF IInv, VerdictStands, WorkOnFailures
  <2> QED BY <2>1, <2>2, <1>4, <1>6
<1>8. Form(r.source.of)' = Form(r.source.of)
    BY <1>0, <1>2, <1>7 DEF FailuresDeclared
<1> QED BY <1>1, <1>7, <1>8 DEF Repairs

-----------------------------------------------------------------------------
\* The others add failures of declared Contracts and leave the rest alone.
LEMMA EnvironmentKeeps ==
    ASSUME IInv, Environment \/ UNCHANGED vars
    PROVE  (Known /\ OneRecoveryEach /\ FormKept /\ PublisherLooked
            /\ VerdictStands /\ ScheduledIsPublished)'
<1>1. UNCHANGED <<pass, published, granted, outcomes>>
    BY DEF Environment, Fail, Refuse, Complete, SpendElsewhere, EndParent, UnchangedPasses,
           vars, records
<1>2. failures \subseteq failures' /\ \A f \in failures' : f \in failures \/ Declared(f.of)
  <2>1. CASE log' = log
    BY <2>1, LogStays
  <2>2. ASSUME NEW c \in Contracts, NEW kind, Happens([kind |-> kind, of |-> c]), Declared(c)
        PROVE  failures \subseteq failures' /\ \A f \in failures' : f \in failures \/ Declared(f.of)
    BY <2>2, LogGrows DEF IInv
  <2> QED BY <2>1, <2>2
          DEF Environment, Fail, Live, Refuse, Complete, SpendElsewhere, EndParent,
              vars, records
<1>3. \A c : Form(c)' = Form(c) /\ Declared(c)' = Declared(c)
    BY <1>1 DEF Form, Declared
<1>4. Known'
    BY <1>1, <1>2, <1>3 DEF IInv, Known, FailuresDeclared, RepairsDeclared, WorkOnFailures,
                            OutcomesOfFailures
<1>5. (OneRecoveryEach /\ FormKept)'
    BY <1>1, <1>3 DEF IInv, OneRecoveryEach, FormKept
<1>6. PublisherLooked'
    BY <1>1, <1>3 DEF IInv, PublisherLooked
<1>7. (VerdictStands /\ ScheduledIsPublished)'
    BY <1>1, <1>3 DEF IInv, VerdictStands, ScheduledIsPublished, Repairs
<1> QED BY <1>4, <1>5, <1>6, <1>7

LEMMA InvInit == Init => IInv
<1> SUFFICES ASSUME Init PROVE IInv
    OBVIOUS
<1>1. TypeOK /\ WorkOnFailures
    BY TypeInit
<1>2. \/ failures = {} /\ published = {}
      \/ \E f \in Sources : /\ f.of.depth = 0 /\ failures = {f}
                            /\ published = {Repairs(f, "generic")}
    BY LegacyTyped
<1>3. \A p \in published : p.of.depth = 0 /\ p.form = "generic"
    BY <1>2 DEF Repairs
<1>4. OneRecoveryEach
    BY <1>2 DEF OneRecoveryEach, Init
<1>5. \A f \in failures : f.of.depth = 0
    BY <1>2
<1>6. Known
    BY <1>1, <1>3, <1>5 DEF Known, FailuresDeclared, RepairsDeclared, OutcomesOfFailures,
                            Declared, Init
<1>7. FormKept
    BY <1>3 DEF FormKept
<1>8. PublisherLooked /\ VerdictStands /\ ScheduledIsPublished
    BY DEF Init, Idle, PublisherLooked, VerdictStands, ScheduledIsPublished
<1> QED BY <1>1, <1>4, <1>6, <1>7, <1>8 DEF IInv

LEMMA InvStep == IInv /\ [Next]_vars => IInv'
<1> SUFFICES ASSUME IInv, [Next]_vars PROVE IInv'
    OBVIOUS
<1>1. TypeOK' /\ WorkOnFailures'
    BY TypeStep DEF IInv, Known
<1>2. ASSUME NEW i \in Processes, PassStep(i) \/ Crash(i) PROVE IInv'
  <2>1. RepairsDeclared' /\ OneRecoveryEach' /\ FormKept'
    BY <1>2, PassKeepsPublications
  <2>2. PublisherLooked'
    BY <1>2, PassKeepsLooks
  <2>3. VerdictStands'
    BY <1>2, PassKeepsVerdicts
  <2>4. ScheduledIsPublished' /\ OutcomesOfFailures' /\ FailuresDeclared'
    BY <1>2, PassKeepsOutcomes
  <2> QED BY <1>1, <2>1, <2>2, <2>3, <2>4 DEF IInv, Known
<1>3. CASE Environment \/ UNCHANGED vars
    BY <1>1, <1>3, EnvironmentKeeps DEF IInv
<1> QED BY <1>2, <1>3 DEF Next

\* A Contract is repaired by one recovery Contract at most, and that is paid for
\* once, whatever number of passes, failures and crashes there is, and with a
\* repair of an older release.
THEOREM RepairedOnce == Spec => []OneRecoveryEach
<1>1. IInv => OneRecoveryEach
    BY DEF IInv
<1> QED BY InvInit, InvStep, <1>1, PTL DEF Spec

\* A failure recorded as scheduled has, in the Store, the recovery Contract
\* that discloses this very failure.
THEOREM SchedulesArePublished == Spec => []ScheduledIsPublished
<1>1. IInv => ScheduledIsPublished
    BY DEF IInv
<1> QED BY InvInit, InvStep, <1>1, PTL DEF Spec

\* No step, however old the snapshot it works from, changes the outcome of a
\* Contract that has one.
THEOREM OutcomesNeverChange == Spec => OutcomesStay
<1> DEFINE Stay == \A c \in Contracts : terminal[c] # NotEnded => terminal'[c] = terminal[c]
<1>1. TypeOK /\ [Next]_vars => [Stay]_vars
  <2> SUFFICES ASSUME TypeOK, [Next]_vars, NEW c \in Contracts, terminal[c] # NotEnded
               PROVE  terminal'[c] = terminal[c]
    BY DEF Stay
  <2>0. terminal \in [Contracts -> Terminals]
    BY DEF TypeOK
  <2> HIDE DEF Terminals, NotEnded, Completed, FailedBy
  <2>1. CASE UNCHANGED terminal
    BY <2>1
  <2>2. ASSUME NEW d \in Contracts, NEW t, terminal[d] = NotEnded,
               terminal' = [terminal EXCEPT ![d] = t]
        PROVE  terminal'[c] = terminal[c]
    BY <2>2, <2>0
  <2>3. ASSUME NEW d \in Contracts, NEW kind \in Kinds, Fail(d, kind)
        PROVE  terminal'[c] = terminal[c]
    BY <2>3, <2>2 DEF Fail, Live
  <2>4. ASSUME NEW d \in Contracts, Complete(d)
        PROVE  terminal'[c] = terminal[c]
    BY <2>4, <2>2 DEF Complete, Live
  <2>5. ASSUME NEW i \in Processes, Record(i)
        PROVE  terminal'[c] = terminal[c]
    BY <2>5, <2>0 DEF Record, Agrees
  <2>6. ASSUME NEW i \in Processes, PassStep(i) \/ Crash(i)
        PROVE  terminal'[c] = terminal[c]
    BY <2>6, <2>5, <2>1 DEF PassStep, Scan, Raise, Preserve, Take, Prove, CannotProve, Project,
                            Grant, Declare, GrantRefused, Commit, ProveAgain, Crash, records
  <2> QED BY <2>1, <2>3, <2>4, <2>6
          DEF Next, Environment, Refuse, SpendElsewhere, EndParent, vars, records
<1> QED BY RecoveryTypeCorrect, <1>1, PTL DEF Spec, OutcomesStay
=============================================================================
