------------------------- MODULE ContinuationProofs -------------------------
(***************************************************************************)
(* Theorems about Continuation, for every set of method tasks, grant,      *)
(* review reserve and number of processes.                                 *)
(*                                                                         *)
(* A source is continued once because the only continuation that a pass    *)
(* ever publishes is ContinuationOf(source), whose budget comes from the   *)
(* balance right after the source was declared: that is a fact of the      *)
(* history, and no declaration changes it afterwards.  A completion is     *)
(* marked only when MarkEarned: the outcome and the continuation that a    *)
(* pass has seen are never taken back while it is on its way to the mark.  *)
(***************************************************************************)
EXTENDS Continuation, TLAPS

Passes == [todo : SUBSET Sources, at : Steps, source : Sources \cup {NoSource}, seen : BOOLEAN]

\* Somebody goes on after s, or nobody has to.
Answered(s) ==
    \/ Method[s] = "parallel_tool_item"
    \/ terminal # "none"
    \/ Method[s] = "tool" /\ \E p \in published : p.source = s

\* Passes work on completed tasks; only a tool task gets as far as a publication.
WorkCompleted ==
    \A i \in Processes :
        /\ pass[i].todo \subseteq complete
        /\ pass[i].at # "idle" => pass[i].source \in complete
ToolsContinued ==
    \A i \in Processes, s \in Sources :
        pass[i].at \in {"inspect", "prepare", "publish"} /\ pass[i].source = s
            => Method[s] = "tool"
MarkEarned ==
    \A i \in Processes, s \in Sources :
        pass[i].at = "mark" /\ pass[i].source = s => Answered(s)
ContextReady ==
    \A i \in Processes, s \in Sources :
        pass[i].at = "publish" /\ pass[i].source = s => ContinuationOf(s) \in prepared

PublishedNamed == \A p \in published : p.source \in declared /\ p = ContinuationOf(p.source)
ProjectedAnswered == \A s \in projected : Answered(s)

Types == TypeOK /\ WorkCompleted
IInv == Types /\ ToolsContinued /\ MarkEarned /\ ContextReady
        /\ PublishedNamed /\ WorkIsPrepared /\ ProjectedAnswered

-----------------------------------------------------------------------------
LEMMA BudgetTyped ==
    ASSUME NEW c \in Nat
    PROVE  Allocated(Larger(1, c)) \in Nat
<1>1. Larger(1, c) \in Nat /\ Larger(1, c) >= 1
    BY DEF Larger
<1>2. ASSUME NEW a \in Nat, a >= 1 PROVE Allocated(a) \in Nat
    BY <1>2, ContinuationAssumption DEF Allocated, Larger, Smaller
<1> QED BY <1>1, <1>2

LEMMA ContinuationTyped ==
    ASSUME TypeOK, NEW s \in Sources
    PROVE  /\ ContinuationOf(s) \in Continuations
           /\ ContinuationOf(s).source = s
<1>1. cut[s] \in Nat
    BY DEF TypeOK
<1> QED BY <1>1, BudgetTyped DEF ContinuationOf, Continuations

LEMMA IdleTyped == Idle \in Passes
BY DEF Idle, Passes, Steps

\* A step of process i to a pass of the right type, with nothing but completed
\* tasks at work.
Moves(i) ==
    \E r \in Passes :
        /\ pass' = [pass EXCEPT ![i] = r]
        /\ r.todo \subseteq complete
        /\ r.at # "idle" => r.source \in complete

LEMMA MovesTyped ==
    ASSUME Types, NEW i \in Processes, Moves(i), complete \subseteq complete'
    PROVE  pass' \in [Processes -> Passes] /\ WorkCompleted'
<1>1. PICK r \in Passes :
        /\ pass' = [pass EXCEPT ![i] = r]
        /\ r.todo \subseteq complete
        /\ r.at # "idle" => r.source \in complete
    BY DEF Moves
<1>2. pass \in [Processes -> Passes]
    BY DEF Types, TypeOK, Passes
<1>3. pass' \in [Processes -> Passes] /\ pass'[i] = r
        /\ \A j \in Processes : j # i => pass'[j] = pass[j]
    BY <1>1, <1>2
<1> QED BY <1>1, <1>3 DEF Types, WorkCompleted

\* A pass that goes on with the same source.
LEMMA GoesOn ==
    ASSUME Types, NEW i \in Processes, NEW step \in Steps, NEW seen \in BOOLEAN
    PROVE  /\ pass' = [pass EXCEPT ![i].at = step] =>
                 /\ pass'[i].at = step /\ pass'[i].source = pass[i].source
                 /\ pass[i].at # "idle" => Moves(i)
           /\ pass' = [pass EXCEPT ![i].at = step, ![i].seen = seen] =>
                 /\ pass'[i].at = step /\ pass'[i].source = pass[i].source
                 /\ pass[i].at # "idle" => Moves(i)
           /\ pass' = [pass EXCEPT ![i].seen = seen] =>
                 /\ pass'[i].at = pass[i].at /\ pass'[i].source = pass[i].source
                 /\ pass[i].at # "idle" => Moves(i)
<1>1. pass[i] \in Passes /\ pass \in [Processes -> Passes]
    BY DEF Types, TypeOK, Passes
<1>2. ASSUME NEW r \in Passes, pass' = [pass EXCEPT ![i] = r], r.todo = pass[i].todo,
             r.source = pass[i].source
      PROVE  /\ pass'[i].at = r.at /\ pass'[i].source = pass[i].source
             /\ pass[i].at # "idle" => Moves(i)
  <2>1. pass'[i] = r
    BY <1>1, <1>2
  <2>2. pass[i].at # "idle" => r.todo \subseteq complete /\ r.source \in complete
    BY <1>2 DEF Types, WorkCompleted
  <2>3. pass[i].at # "idle" => Moves(i)
    BY <1>2, <2>2 DEF Moves
  <2> QED BY <1>2, <2>1, <2>3
<1>3. ASSUME pass' = [pass EXCEPT ![i].at = step]
      PROVE  /\ pass'[i].at = step /\ pass'[i].source = pass[i].source
             /\ pass[i].at # "idle" => Moves(i)
  <2> DEFINE r == [pass[i] EXCEPT !.at = step]
  <2>1. r \in Passes /\ r.todo = pass[i].todo /\ r.source = pass[i].source /\ r.at = step
    BY <1>1 DEF Passes
  <2>2. pass' = [pass EXCEPT ![i] = r]
    BY <1>3
  <2> HIDE DEF r
  <2> QED BY <2>1, <2>2, <1>2
<1>4. ASSUME pass' = [pass EXCEPT ![i].at = step, ![i].seen = seen]
      PROVE  /\ pass'[i].at = step /\ pass'[i].source = pass[i].source
             /\ pass[i].at # "idle" => Moves(i)
  <2> DEFINE r == [pass[i] EXCEPT !.at = step, !.seen = seen]
  <2>1. r \in Passes /\ r.todo = pass[i].todo /\ r.source = pass[i].source /\ r.at = step
    BY <1>1 DEF Passes
  <2>2. pass' = [pass EXCEPT ![i] = r]
    BY <1>1, <1>4
  <2> HIDE DEF r
  <2> QED BY <2>1, <2>2, <1>2
<1>5. ASSUME pass' = [pass EXCEPT ![i].seen = seen]
      PROVE  /\ pass'[i].at = pass[i].at /\ pass'[i].source = pass[i].source
             /\ pass[i].at # "idle" => Moves(i)
  <2> DEFINE r == [pass[i] EXCEPT !.seen = seen]
  <2>1. r \in Passes /\ r.todo = pass[i].todo /\ r.source = pass[i].source /\ r.at = pass[i].at
    BY <1>1 DEF Passes
  <2>2. pass' = [pass EXCEPT ![i] = r]
    BY <1>5
  <2> HIDE DEF r
  <2> QED BY <2>1, <2>2, <1>2
<1> QED BY <1>3, <1>4, <1>5

-----------------------------------------------------------------------------
\* What a pass does, step by step: where it stands afterwards, and what of the
\* records it changes.
LEMMA RestTyped ==
    ASSUME NEW r \in Passes
    PROVE  Rest(r) \in Passes /\ Rest(r).todo = r.todo /\ Rest(r).at = "idle"
BY DEF Rest, Idle, Passes, Steps

\* What the steps of a pass have in common.
PassFrame(i) ==
    /\ Moves(i)
    /\ UNCHANGED <<declared, cut, complete, satisfied, blocked>>

\* The steps before the first write.
LEMMA ReadingSteps ==
    ASSUME Types, NEW i \in Processes,
           \/ Begin(i) \/ (\E s \in Sources : Take(i, s)) \/ Leave(i)
           \/ Look(i) \/ Inspect(i) \/ CannotInspect(i)
    PROVE  /\ PassFrame(i)
           /\ UNCHANGED <<terminal, balance, prepared, published, projected, blocked, crashes>>
           /\ pass'[i].at # "publish"
<1> USE DEF records
<1>0. /\ pass \in [Processes -> Passes] /\ pass[i] \in Passes /\ WorkCompleted
      /\ complete \subseteq Sources
    BY DEF Types, TypeOK, Passes
<1>1. CASE Begin(i)
  <2> DEFINE r == [pass[i] EXCEPT !.todo = complete \ projected]
  <2>1. r \in Passes /\ r.todo \subseteq complete /\ r.at = "idle"
    BY <1>0, <1>1 DEF Begin, At, Passes
  <2>2. pass' = [pass EXCEPT ![i] = r]
    BY <1>1 DEF Begin
  <2> HIDE DEF r
  <2>3. Moves(i) /\ pass'[i].at = "idle"
    BY <2>1, <2>2, <1>0 DEF Moves
  <2> QED BY <2>3, <1>1 DEF Begin, PassFrame
<1>2. ASSUME NEW s \in Sources, Take(i, s)
      PROVE  /\ PassFrame(i) /\ pass'[i].at # "publish"
             /\ UNCHANGED <<terminal, balance, prepared, published, projected, blocked, crashes>>
  <2> DEFINE r == [pass[i] EXCEPT !.todo = @ \ {s}, !.source = s, !.at = "look"]
  <2>1. r \in Passes /\ r.todo \subseteq pass[i].todo /\ r.at = "look" /\ r.source = s
    BY <1>0 DEF Passes, Steps
  <2>2. pass' = [pass EXCEPT ![i] = r] /\ s \in pass[i].todo
    BY <1>2 DEF Take
  <2> HIDE DEF r
  <2>3. Moves(i) /\ pass'[i].at = "look"
    BY <2>1, <2>2, <1>0 DEF Moves, WorkCompleted
  <2> QED BY <2>3, <1>2 DEF Take, PassFrame
<1>3. ASSUME NEW step \in Steps \ {"publish"}, pass' = [pass EXCEPT ![i].at = step],
             pass[i].at # "idle", UNCHANGED <<records, blocked, crashes>>
      PROVE  /\ PassFrame(i) /\ pass'[i].at # "publish"
             /\ UNCHANGED <<terminal, balance, prepared, published, projected, blocked, crashes>>
  <2>1. Moves(i) /\ pass'[i].at = step
    BY <1>3, GoesOn
  <2> QED BY <2>1, <1>3 DEF PassFrame
<1>31. CASE Leave(i)
  <2>1. Rest(pass[i]) \in Passes /\ Rest(pass[i]).todo = pass[i].todo /\ Rest(pass[i]).at = "idle"
    BY <1>0, RestTyped
  <2>2. pass' = [pass EXCEPT ![i] = Rest(pass[i])] /\ UNCHANGED <<records, blocked, crashes>>
    BY <1>31 DEF Leave
  <2>3. Moves(i) /\ pass'[i].at = "idle"
    BY <2>1, <2>2, <1>0 DEF Moves, WorkCompleted
  <2> QED BY <2>2, <2>3 DEF PassFrame
<1>4. CASE Look(i)
    BY <1>4, <1>3 DEF Look, At, Goto, Steps
<1>5. CASE Inspect(i) \/ CannotInspect(i)
    BY <1>5, <1>3 DEF Inspect, CannotInspect, At, Goto, Steps
<1> QED BY <1>1, <1>2, <1>31, <1>4, <1>5

\* The steps that write.
LEMMA WritingSteps ==
    ASSUME Types, NEW i \in Processes,
           \/ Prepare(i) \/ Publish(i) \/ Mark(i) \/ Crash(i)
           \/ \E outcome \in Outcomes : CheckOutcome(i, outcome) \/ WriteOutcome(i, outcome)
    PROVE  PassFrame(i)
<1> USE DEF records
<1>0. pass \in [Processes -> Passes] /\ pass[i] \in Passes /\ WorkCompleted
    BY DEF Types, TypeOK, Passes
<1>1. CASE Prepare(i)
    BY <1>1, GoesOn DEF Prepare, At, Goto, Steps, PassFrame
<1>2. CASE Publish(i)
  <2>1. pass[i].at # "idle" /\ UNCHANGED <<declared, cut, complete, satisfied, blocked>>
    BY <1>2 DEF Publish, At
  <2>2. \E step \in Steps : pass' = [pass EXCEPT ![i].at = step]
    BY <1>2 DEF Publish, Goto, Rejected, Steps
  <2> QED BY <2>1, <2>2, GoesOn DEF PassFrame
<1>3. CASE Mark(i)
  <2>1. Rest(pass[i]) \in Passes /\ Rest(pass[i]).todo = pass[i].todo /\ Rest(pass[i]).at = "idle"
    BY <1>0, RestTyped
  <2>2. /\ pass' = [pass EXCEPT ![i] = Rest(pass[i])]
        /\ UNCHANGED <<declared, cut, complete, satisfied, blocked>>
    BY <1>3 DEF Mark
  <2>3. Moves(i)
    BY <2>1, <2>2, <1>0 DEF Moves, WorkCompleted
  <2> QED BY <2>2, <2>3 DEF PassFrame
<1>4. ASSUME pass' = [pass EXCEPT ![i] = Idle] PROVE Moves(i)
    BY <1>4, IdleTyped DEF Moves, Idle
<1>5. CASE Crash(i)
    BY <1>5, <1>4 DEF Crash, PassFrame
<1>6. ASSUME NEW outcome \in Outcomes, CheckOutcome(i, outcome)
      PROVE  PassFrame(i)
  <2>1. pass[i].at # "idle" /\ UNCHANGED <<declared, cut, complete, satisfied, blocked>>
    BY <1>6 DEF CheckOutcome, At, Outcomes
  <2>2. pass' = [pass EXCEPT ![i].seen = TRUE] \/ pass' = [pass EXCEPT ![i].at = "mark"]
    BY <1>6 DEF CheckOutcome, Goto
  <2> QED BY <2>1, <2>2, GoesOn DEF PassFrame, Steps
<1>7. ASSUME NEW outcome \in Outcomes, WriteOutcome(i, outcome)
      PROVE  PassFrame(i)
  <2>1. pass[i].at # "idle" /\ UNCHANGED <<declared, cut, complete, satisfied, blocked>>
    BY <1>7 DEF WriteOutcome, At, Outcomes
  <2>2. \/ pass' = [pass EXCEPT ![i].at = "mark", ![i].seen = FALSE]
        \/ pass' = [pass EXCEPT ![i] = Idle]
    BY <1>7 DEF WriteOutcome, Seen
  <2> QED BY <2>1, <2>2, <1>4, GoesOn DEF PassFrame, Steps
<1> QED BY <1>1, <1>2, <1>3, <1>5, <1>6, <1>7

LEMMA PassTypes ==
    ASSUME Types, NEW i \in Processes, PassStep(i) \/ Crash(i)
    PROVE  PassFrame(i) /\ Types'
<1>1. PassFrame(i)
    BY ReadingSteps, WritingSteps DEF PassStep
<1>2. pass' \in [Processes -> Passes] /\ WorkCompleted'
    BY <1>1, MovesTyped DEF PassFrame
<1>3. pass[i].at # "idle" => pass[i].source \in complete /\ pass[i].source \in Sources
    BY DEF Types, TypeOK, WorkCompleted
<1>4. projected' \subseteq complete
    <2>1. projected' = projected \/ (Mark(i) /\ projected' = projected \cup {pass[i].source})
        BY DEF PassStep, Begin, Take, Leave, Look, Inspect, CannotInspect, Prepare, Publish,
               CheckOutcome, WriteOutcome, Mark, Crash, records
    <2> QED BY <2>1, <1>3 DEF Types, TypeOK, Mark, At
<1>5. terminal' \in Terminals
    <2>1. terminal' = terminal \/ \E outcome \in Outcomes : terminal' = outcome
        BY DEF PassStep, Begin, Take, Leave, Look, Inspect, CannotInspect, Prepare, Publish,
               CheckOutcome, WriteOutcome, Mark, Crash, records
    <2> QED BY <2>1 DEF Types, TypeOK, Terminals
<1>6. crashes' \in 0 .. MaxCrashes
    <2>1. crashes' = crashes \/ (crashes < MaxCrashes /\ crashes' = crashes + 1)
        BY DEF PassStep, Begin, Take, Leave, Look, Inspect, CannotInspect, Prepare, Publish,
               CheckOutcome, WriteOutcome, Mark, Crash, records
    <2> QED BY <2>1, ContinuationAssumption DEF Types, TypeOK
<1>7. prepared' \subseteq Continuations
    <2>1. prepared' = prepared \/ (Prepare(i) /\ prepared' = Prepared(i))
        BY DEF PassStep, Begin, Take, Leave, Look, Inspect, CannotInspect, Prepare, Publish,
               CheckOutcome, WriteOutcome, Mark, Crash, records
    <2>2. Prepare(i) => ContinuationOf(pass[i].source) \in Continuations
        BY <1>3, ContinuationTyped DEF Prepare, At, Types
    <2> QED BY <2>1, <2>2 DEF Types, TypeOK, Prepared
<1>8. published' \subseteq Continuations /\ balance' \in 0 .. Grant
    <2>1. \/ UNCHANGED <<published, balance>>
          \/ /\ Publish(i)
             /\ published' = published \cup {ContinuationOf(pass[i].source)}
             /\ ContinuationOf(pass[i].source).budget <= balance
             /\ balance' = balance - ContinuationOf(pass[i].source).budget
        BY DEF PassStep, Begin, Take, Leave, Look, Inspect, CannotInspect, Prepare, Publish,
               CheckOutcome, WriteOutcome, Mark, Crash, records
    <2>2. Publish(i) => ContinuationOf(pass[i].source) \in Continuations
        BY <1>3, ContinuationTyped DEF Publish, At, Types
    <2>3. ASSUME NEW b \in Nat, b <= balance PROVE balance - b \in 0 .. Grant
        BY <2>3, ContinuationAssumption DEF Types, TypeOK
    <2>4. Publish(i) => ContinuationOf(pass[i].source).budget \in Nat
        BY <2>2 DEF Continuations
    <2> QED BY <2>1, <2>2, <2>3, <2>4 DEF Types, TypeOK
<1> QED BY <1>1, <1>2, <1>4, <1>5, <1>6, <1>7, <1>8 DEF Types, TypeOK, PassFrame, Passes

LEMMA EnvironmentTypes ==
    ASSUME Types, Environment \/ UNCHANGED vars
    PROVE  Types' /\ UNCHANGED <<pass, prepared, published, projected>>
<1> USE DEF Types, TypeOK
<1>1. ASSUME NEW s \in Sources, Declare(s)
      PROVE  Types' /\ UNCHANGED <<pass, prepared, published, projected>>
    BY <1>1, ContinuationAssumption DEF Declare, WorkCompleted
<1>2. ASSUME NEW s \in Sources, Complete(s)
      PROVE  Types' /\ UNCHANGED <<pass, prepared, published, projected>>
    BY <1>2 DEF Complete, WorkCompleted
<1>3. CASE Spend \/ Return
    BY <1>3, ContinuationAssumption DEF Spend, Return, WorkCompleted
<1>4. ASSUME NEW outcome \in {"none", "complete", "ended"}, Satisfy(outcome)
      PROVE  Types' /\ UNCHANGED <<pass, prepared, published, projected>>
    BY <1>4 DEF Satisfy, WorkCompleted, Terminals, Outcomes
<1>5. CASE Expire \/ Block
    BY <1>5 DEF Expire, Block, records, WorkCompleted, Terminals
<1>6. CASE UNCHANGED vars
    BY <1>6 DEF vars, records, WorkCompleted
<1> QED BY <1>1, <1>2, <1>3, <1>4, <1>5, <1>6 DEF Environment

LEMMA TypeInit == Init => Types
<1> SUFFICES ASSUME Init PROVE Types
    OBVIOUS
<1>1. pass \in [Processes -> Passes]
    BY IdleTyped DEF Init
<1>2. WorkCompleted
    BY DEF Init, WorkCompleted, Idle
<1>3. balance \in 0 .. Grant /\ crashes \in 0 .. MaxCrashes /\ cut \in [Sources -> Nat]
    BY ContinuationAssumption DEF Init
<1>4. satisfied \in BOOLEAN /\ terminal \in Terminals /\ blocked \in BOOLEAN
    BY DEF Init, Terminals
<1>5. declared = {} /\ complete = {} /\ projected = {} /\ prepared = {} /\ published = {}
    BY DEF Init
<1> QED BY <1>1, <1>2, <1>3, <1>4, <1>5 DEF Types, TypeOK, Passes

\* Every reachable state is well typed: a projected task is completed, a
\* completed one declared, and the parent never owes.
THEOREM ContinuationTypeCorrect == Spec => []TypeOK
<1>1. Types /\ [Next]_vars => Types'
    BY PassTypes, EnvironmentTypes DEF Next
<1>2. Types => TypeOK
    BY DEF Types
<1> QED BY TypeInit, <1>1, <1>2, PTL DEF Spec

-----------------------------------------------------------------------------
\* An answer is never taken back.
LEMMA AnswersStay ==
    ASSUME terminal # "none" => terminal' # "none", published \subseteq published',
           NEW s, Answered(s)
    PROVE  Answered(s)'
BY DEF Answered

\* The step of a pass, as the invariant sees it.
LEMMA RecordsMoveForward ==
    ASSUME Types, NEW i \in Processes, PassStep(i) \/ Crash(i)
    PROVE  /\ terminal # "none" => terminal' = terminal
           /\ published \subseteq published' /\ prepared \subseteq prepared'
           /\ \A p \in published' : p \in published
                 \/ (pass[i].at = "publish" /\ p = ContinuationOf(pass[i].source))
           /\ \A s \in projected' : s \in projected
                 \/ (pass[i].at = "mark" /\ s = pass[i].source)
<1> USE DEF records, At
<1>1. terminal # "none" => terminal' = terminal
    BY DEF PassStep, Begin, Take, Leave, Look, Inspect, CannotInspect, Prepare, Publish,
           CheckOutcome, WriteOutcome, Writable, Mark, Crash
<1>2. published \subseteq published'
      /\ \A p \in published' : p \in published
                 \/ (pass[i].at = "publish" /\ p = ContinuationOf(pass[i].source))
    BY DEF PassStep, Begin, Take, Leave, Look, Inspect, CannotInspect, Prepare, Publish,
           CheckOutcome, WriteOutcome, Mark, Crash
<1>3. prepared \subseteq prepared'
    BY DEF PassStep, Begin, Take, Leave, Look, Inspect, CannotInspect, Prepare, Prepared, Publish,
           CheckOutcome, WriteOutcome, Mark, Crash
<1>4. \A s \in projected' : s \in projected \/ (pass[i].at = "mark" /\ s = pass[i].source)
    BY DEF PassStep, Begin, Take, Leave, Look, Inspect, CannotInspect, Prepare, Publish,
           CheckOutcome, WriteOutcome, Mark, Crash
<1> QED BY <1>1, <1>2, <1>3, <1>4

\* Where a pass can get to from where it is.
Reaches(i) ==
    /\ pass'[i].at \in {"inspect", "prepare", "publish"} =>
          /\ pass'[i].source = pass[i].source
          /\ \/ pass[i].at = "look" /\ Method[pass[i].source] = "tool"
             \/ pass[i].at \in {"inspect", "prepare", "publish"}
    /\ pass'[i].at = "publish" =>
          ContinuationOf(pass[i].source) \in prepared'
    /\ pass'[i].at = "mark" =>
          /\ pass'[i].source = pass[i].source
          /\ pass[i].at # "idle"
          /\ \/ terminal' # "none"
             \/ Method[pass[i].source] = "parallel_tool_item"
             \/ pass[i].at \in {"inspect", "publish"}
                /\ \E p \in published' : p = ContinuationOf(pass[i].source)

LEMMA NowhereElse ==
    ASSUME Types, NEW i \in Processes, pass'[i].at \in {"idle", "look", "complete", "failed"}
    PROVE  Reaches(i)
BY DEF Reaches

LEMMA PassReaches ==
    ASSUME IInv, NEW i \in Processes, PassStep(i) \/ Crash(i)
    PROVE  Reaches(i)
<1> USE DEF records, At
<1>0. /\ pass \in [Processes -> Passes] /\ pass[i] \in Passes /\ Types
    BY DEF IInv, Types, TypeOK, Passes
<1>1. CASE Begin(i)
  <2>1. pass'[i].at = "idle"
    BY <1>0, <1>1 DEF Begin
  <2> QED BY <2>1, <1>0, NowhereElse
<1>2. ASSUME NEW s \in Sources, Take(i, s) PROVE Reaches(i)
  <2>1. pass'[i].at = "look"
    <3> DEFINE r == [pass[i] EXCEPT !.todo = @ \ {s}, !.source = s, !.at = "look"]
    <3>1. r.at = "look"
      BY <1>0 DEF Passes
    <3>2. pass' = [pass EXCEPT ![i] = r]
      BY <1>2 DEF Take
    <3> HIDE DEF r
    <3> QED BY <3>1, <3>2, <1>0
  <2> QED BY <2>1, <1>0, NowhereElse
<1>3. CASE Look(i)
  <2> DEFINE step == IF terminal # "none" THEN "mark"
                     ELSE IF Method[pass[i].source] = "fail" THEN "failed"
                     ELSE IF satisfied THEN "complete"
                     ELSE IF Method[pass[i].source] = "tool" THEN "inspect" ELSE "mark"
  <2>1. pass[i].at = "look" /\ UNCHANGED records /\ pass' = [pass EXCEPT ![i].at = step]
    BY <1>3 DEF Look, Goto
  <2>2. step \in Steps
    BY DEF Steps
  <2>3. pass'[i].at = step /\ pass'[i].source = pass[i].source
    BY <2>1, <2>2, <1>0, GoesOn
  <2>4. step = "mark" => terminal # "none" \/ Method[pass[i].source] = "parallel_tool_item"
    <3>1. pass[i].source \in Sources
      BY <2>1, <1>0 DEF Types, TypeOK, WorkCompleted
    <3> QED BY <1>3, <3>1, ContinuationAssumption DEF Look, Unhandled, Methods
  <2> QED BY <2>1, <2>3, <2>4 DEF Reaches
<1>31. CASE Leave(i)
  <2>1. Rest(pass[i]) \in Passes /\ Rest(pass[i]).at = "idle"
    BY <1>0, RestTyped
  <2>2. pass'[i].at = "idle"
    BY <2>1, <1>31, <1>0 DEF Leave
  <2> QED BY <2>2, <1>0, NowhereElse
<1>4. CASE Inspect(i)
  <2> DEFINE known == {p \in published : p.source = pass[i].source}
             step == IF known = {} THEN "prepare"
                     ELSE IF known = {ContinuationOf(pass[i].source)} THEN "mark" ELSE "failed"
  <2>1. pass[i].at = "inspect" /\ UNCHANGED records /\ pass' = [pass EXCEPT ![i].at = step]
    BY <1>4 DEF Inspect, Goto
  <2>2. step \in Steps
    BY DEF Steps
  <2>3. pass'[i].at = step /\ pass'[i].source = pass[i].source
    BY <2>1, <2>2, <1>0, GoesOn
  <2>4. step = "mark" => ContinuationOf(pass[i].source) \in published
    OBVIOUS
  <2>5. step \in {"prepare", "mark", "failed"}
    OBVIOUS
  <2> HIDE DEF step, known
  <2> QED BY <2>1, <2>3, <2>4, <2>5 DEF Reaches
<1>5. CASE CannotInspect(i)
  <2>1. pass'[i].at = "failed"
    BY <1>5, <1>0, GoesOn DEF CannotInspect, Goto, Steps
  <2> QED BY <2>1, <1>0, NowhereElse
<1>6. CASE Prepare(i)
  <2>1. pass[i].at = "prepare" /\ pass' = [pass EXCEPT ![i].at = "publish"] /\ prepared' = Prepared(i)
    BY <1>6 DEF Prepare, Goto
  <2>2. pass'[i].at = "publish" /\ pass'[i].source = pass[i].source
    BY <2>1, <1>0, GoesOn DEF Steps
  <2> QED BY <2>1, <2>2 DEF Reaches, Prepared
<1>7. CASE Publish(i)
  <2>1. pass[i].at = "publish"
    BY <1>7 DEF Publish
  <2>2. CASE /\ pass' = [pass EXCEPT ![i].at = "mark"]
             /\ ContinuationOf(pass[i].source) \in published'
    <3>1. pass'[i].at = "mark" /\ pass'[i].source = pass[i].source
      BY <2>2, <1>0, GoesOn DEF Steps
    <3> QED BY <2>1, <2>2, <3>1 DEF Reaches
  <2>3. CASE pass' = [pass EXCEPT ![i].at = "failed"]
    <3>1. pass'[i].at = "failed"
      BY <2>3, <1>0, GoesOn DEF Steps
    <3> QED BY <3>1, <1>0, NowhereElse
  <2> QED BY <1>7, <2>2, <2>3 DEF Publish, Goto, Rejected
<1>8. ASSUME NEW outcome \in Outcomes, CheckOutcome(i, outcome) PROVE Reaches(i)
  <2>1. pass[i].at = outcome /\ UNCHANGED records
    BY <1>8 DEF CheckOutcome
  <2>2. CASE terminal = "none" /\ pass' = [pass EXCEPT ![i].seen = TRUE]
    <3>1. pass'[i].at = outcome
      BY <2>1, <2>2, <1>0, GoesOn DEF Steps
    <3> QED BY <3>1, <1>0, NowhereElse DEF Outcomes
  <2>3. CASE terminal # "none" /\ pass' = [pass EXCEPT ![i].at = "mark"]
    <3>1. pass'[i].at = "mark" /\ pass'[i].source = pass[i].source
      BY <2>3, <1>0, GoesOn DEF Steps
    <3> QED BY <2>1, <2>3, <3>1 DEF Reaches, Outcomes
  <2> QED BY <1>8, <2>2, <2>3 DEF CheckOutcome, Goto
<1>9. ASSUME NEW outcome \in Outcomes, WriteOutcome(i, outcome) PROVE Reaches(i)
  <2>1. pass[i].at = outcome
    BY <1>9 DEF WriteOutcome
  <2>2. CASE terminal' = outcome /\ pass' = [pass EXCEPT ![i].at = "mark", ![i].seen = FALSE]
    <3>1. pass'[i].at = "mark" /\ pass'[i].source = pass[i].source
      BY <2>2, <1>0, GoesOn DEF Steps
    <3> QED BY <2>1, <2>2, <3>1 DEF Reaches, Outcomes
  <2>3. CASE pass' = [pass EXCEPT ![i] = Idle]
    <3>1. pass'[i].at = "idle"
      BY <2>3, <1>0 DEF Idle
    <3> QED BY <3>1, <1>0, NowhereElse
  <2> QED BY <1>9, <2>2, <2>3 DEF WriteOutcome, Seen
<1>10. CASE Mark(i)
  <2>1. Rest(pass[i]) \in Passes /\ Rest(pass[i]).at = "idle"
    BY <1>0, RestTyped
  <2>2. pass'[i].at = "idle"
    BY <2>1, <1>10, <1>0 DEF Mark
  <2> QED BY <2>2, <1>0, NowhereElse
<1>11. CASE Crash(i)
  <2>1. pass'[i].at = "idle"
    BY <1>11, <1>0 DEF Crash, Idle
  <2> QED BY <2>1, <1>0, NowhereElse
<1> QED BY <1>1, <1>2, <1>3, <1>31, <1>4, <1>5, <1>6, <1>7, <1>8, <1>9, <1>10, <1>11
    DEF PassStep

LEMMA PassKeeps ==
    ASSUME IInv, NEW i \in Processes, PassStep(i) \/ Crash(i)
    PROVE  IInv'
<1>1. /\ Types' /\ PassFrame(i) /\ Reaches(i)
      /\ terminal # "none" => terminal' = terminal
      /\ published \subseteq published' /\ prepared \subseteq prepared'
      /\ \A p \in published' : p \in published
            \/ (pass[i].at = "publish" /\ p = ContinuationOf(pass[i].source))
      /\ \A s \in projected' : s \in projected \/ (pass[i].at = "mark" /\ s = pass[i].source)
    BY PassTypes, PassReaches, RecordsMoveForward DEF IInv
<1>2. \A s : ContinuationOf(s)' = ContinuationOf(s)
    BY <1>1 DEF PassFrame, ContinuationOf
<1>3. \A j \in Processes : j # i => pass'[j] = pass[j]
    BY <1>1 DEF PassFrame, Moves, IInv, Types, TypeOK
<1>4. pass[i].at # "idle" => /\ pass[i].source \in complete
                             /\ pass[i].source \in declared /\ pass[i].source \in Sources
    BY DEF IInv, Types, TypeOK, WorkCompleted
<1>5. \A s : Answered(s) => Answered(s)'
    BY <1>1, AnswersStay
<1>6. ToolsContinued'
  <2>1. SUFFICES ASSUME NEW j \in Processes, NEW s \in Sources,
                        pass'[j].at \in {"inspect", "prepare", "publish"}, pass'[j].source = s
                 PROVE  Method[s] = "tool"
    BY DEF ToolsContinued
  <2>2. CASE j = i
    BY <1>1, <2>1, <2>2 DEF Reaches, IInv, ToolsContinued
  <2>3. CASE j # i
    BY <1>3, <2>1, <2>3 DEF IInv, ToolsContinued
  <2> QED BY <2>2, <2>3
<1>7. ContextReady'
  <2>1. SUFFICES ASSUME NEW j \in Processes, NEW s \in Sources,
                        pass'[j].at = "publish", pass'[j].source = s
                 PROVE  ContinuationOf(s) \in prepared'
    BY <1>2 DEF ContextReady
  <2>2. CASE j = i
    BY <1>1, <2>1, <2>2 DEF Reaches
  <2>3. CASE j # i
    BY <1>1, <1>3, <2>1, <2>3 DEF IInv, ContextReady
  <2> QED BY <2>2, <2>3
<1>8. MarkEarned'
  <2>1. SUFFICES ASSUME NEW j \in Processes, NEW s \in Sources,
                        pass'[j].at = "mark", pass'[j].source = s
                 PROVE  Answered(s)'
    BY DEF MarkEarned
  <2>2. CASE j = i
    <3>1. pass[i].source = s /\ pass[i].at # "idle"
      BY <1>1, <2>1, <2>2 DEF Reaches
    <3>2. CASE terminal' # "none"
      BY <3>2 DEF Answered
    <3>3. CASE Method[s] = "parallel_tool_item"
      BY <3>3 DEF Answered
    <3>4. CASE pass[i].at \in {"inspect", "publish"}
               /\ \E p \in published' : p = ContinuationOf(s)
      <4>1. Method[s] = "tool"
        BY <3>1, <3>4 DEF IInv, ToolsContinued
      <4>2. ContinuationOf(s).source = s
        BY DEF ContinuationOf
      <4> QED BY <3>4, <4>1, <4>2 DEF Answered
    <3> QED BY <1>1, <2>1, <2>2, <3>1, <3>2, <3>3, <3>4 DEF Reaches
  <2>3. CASE j # i
    BY <1>3, <1>5, <2>1, <2>3 DEF IInv, MarkEarned
  <2> QED BY <2>2, <2>3
<1>9. PublishedNamed'
  <2>1. SUFFICES ASSUME NEW p \in published'
                 PROVE  p.source \in declared' /\ p = ContinuationOf(p.source)
    BY <1>2 DEF PublishedNamed
  <2>2. CASE p \in published
    BY <2>2, <1>1 DEF IInv, PublishedNamed, PassFrame
  <2>3. CASE pass[i].at = "publish" /\ p = ContinuationOf(pass[i].source)
    <3>1. p.source = pass[i].source
      BY <2>3 DEF ContinuationOf
    <3> QED BY <2>3, <3>1, <1>1, <1>4 DEF PassFrame
  <2> QED BY <1>1, <2>2, <2>3
<1>10. WorkIsPrepared'
    BY <1>1, <1>4 DEF IInv, WorkIsPrepared, ContextReady
<1>11. ProjectedAnswered'
  <2>1. \A s \in projected' : Answered(s)
    BY <1>1, <1>4 DEF IInv, ProjectedAnswered, MarkEarned
  <2> QED BY <2>1, <1>5 DEF ProjectedAnswered
<1> QED BY <1>1, <1>6, <1>7, <1>8, <1>9, <1>10, <1>11 DEF IInv

\* A declaration fixes the cut of its own task, which no pass works on yet.
LEMMA EnvironmentKeeps ==
    ASSUME IInv, Environment \/ UNCHANGED vars
    PROVE  IInv'
<1>1. Types' /\ UNCHANGED <<pass, prepared, published, projected>>
    BY EnvironmentTypes DEF IInv
<1>2. terminal # "none" => terminal' = terminal
    BY DEF Environment, Declare, Complete, Spend, Return, Satisfy, Expire, Block, vars, records
<1>3. declared \subseteq declared'
    BY DEF Environment, Declare, Complete, Spend, Return, Satisfy, Expire, Block, vars, records
<1>4. \A s \in declared : cut'[s] = cut[s]
    BY DEF Environment, Declare, Complete, Spend, Return, Satisfy, Expire, Block, vars, records,
           IInv, Types, TypeOK
<1>5. \A s \in declared : ContinuationOf(s)' = ContinuationOf(s)
    BY <1>4 DEF ContinuationOf
<1>6. \A s : Answered(s) => Answered(s)'
    BY <1>1, <1>2, AnswersStay
<1>7. (ToolsContinued /\ WorkIsPrepared)'
    BY <1>1 DEF IInv, ToolsContinued, WorkIsPrepared
<1>8. MarkEarned' /\ ProjectedAnswered'
    BY <1>1, <1>6 DEF IInv, MarkEarned, ProjectedAnswered
<1>9. ContextReady'
  <2>1. SUFFICES ASSUME NEW j \in Processes, NEW s \in Sources,
                        pass[j].at = "publish", pass[j].source = s
                 PROVE  ContinuationOf(s)' \in prepared
    BY <1>1 DEF ContextReady
  <2>2. s \in declared
    BY <2>1 DEF IInv, Types, TypeOK, WorkCompleted
  <2> QED BY <1>5, <2>1, <2>2 DEF IInv, ContextReady
<1>10. PublishedNamed'
  <2>1. SUFFICES ASSUME NEW p \in published
                 PROVE  p.source \in declared' /\ p = ContinuationOf(p.source)'
    BY <1>1 DEF PublishedNamed
  <2>2. p.source \in declared /\ p = ContinuationOf(p.source)
    BY DEF IInv, PublishedNamed
  <2> QED BY <1>3, <1>5, <2>2
<1> QED BY <1>1, <1>7, <1>8, <1>9, <1>10 DEF IInv

LEMMA InvInit == Init => IInv
<1> SUFFICES ASSUME Init PROVE IInv
    OBVIOUS
<1>1. \A i \in Processes : pass[i].at = "idle"
    BY DEF Init, Idle
<1> QED BY TypeInit, <1>1
        DEF Init, IInv, ToolsContinued, MarkEarned, ContextReady, PublishedNamed,
            WorkIsPrepared, ProjectedAnswered

LEMMA InvStep == IInv /\ [Next]_vars => IInv'
BY PassKeeps, EnvironmentKeeps DEF Next

-----------------------------------------------------------------------------
\* A completed tool task is continued by one Contract at most, whatever the
\* parent spends and however many passes there are.
THEOREM ContinuedOnce == Spec => []OneContinuation
<1>1. IInv => OneContinuation
    BY DEF IInv, PublishedNamed, OneContinuation
<1> QED BY InvInit, InvStep, <1>1, PTL DEF Spec

\* A continuation is declared after the context it discloses is recorded.
THEOREM ContinuationsArePrepared == Spec => []WorkIsPrepared
<1>1. IInv => WorkIsPrepared
    BY DEF IInv
<1> QED BY InvInit, InvStep, <1>1, PTL DEF Spec

\* A completion that is marked as projected has left its parent with a
\* continuation or with an outcome.
THEOREM NobodyStranded == Spec => []NeverStranded
<1>1. IInv => NeverStranded
    BY DEF IInv, ProjectedAnswered, Answered, NeverStranded
<1> QED BY InvInit, InvStep, <1>1, PTL DEF Spec

\* No pass and nobody else changes the outcome of the parent.
THEOREM ParentOutcomeStays == Spec => OutcomeStays
<1>1. Types /\ [Next]_vars => [terminal # "none" => terminal' = terminal]_vars
  <2> SUFFICES ASSUME Types, [Next]_vars, terminal # "none" PROVE terminal' = terminal
    OBVIOUS
  <2>1. CASE Environment \/ UNCHANGED vars
    BY <2>1 DEF Environment, Declare, Complete, Spend, Return, Satisfy, Expire, Block, vars, records
  <2>2. ASSUME NEW i \in Processes, PassStep(i) \/ Crash(i) PROVE terminal' = terminal
    BY <2>2, RecordsMoveForward
  <2> QED BY <2>1, <2>2 DEF Next
<1>2. Types /\ [Next]_vars => Types'
    BY PassTypes, EnvironmentTypes DEF Next
<1> QED BY TypeInit, <1>1, <1>2, PTL DEF Spec, OutcomeStays
=============================================================================
