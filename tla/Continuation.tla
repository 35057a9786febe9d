----------------------------- MODULE Continuation -----------------------------
(***************************************************************************)
(* The completions of method tasks and what becomes of their parent.  A    *)
(* tool task that completed is followed by one continuation Contract, an   *)
(* explicit failure ends the parent, and an item of a parallel tool call   *)
(* leaves the work to the join that was declared with it.  A completion    *)
(* that no plugin handles waits until its parent is satisfied or ends.     *)
(*                                                                         *)
(* Any number of processes project completions, each as the last part of a *)
(* maintenance step, and so only while the parts before do not raise (see  *)
(* Raise in Recovery).  A pass reads which are projected already, and then *)
(* looks, inspects the history, prepares the disclosed context, publishes  *)
(* and marks: every step is a read or a transaction of its own, and the    *)
(* pass may be cut off between two.  The name of the continuation contains *)
(* its budget, which is taken from the balance of the parent as it was     *)
(* when the task was declared.                                             *)
(***************************************************************************)
EXTENDS Naturals, FiniteSets

CONSTANTS
    Sources,      \* method tasks of one parent
    Method,       \* Method[s]: what the task does, see Methods
    Grant,        \* the allowance of the parent
    Review,       \* what the parent needs for an independent review
    Processes,
    MaxCrashes,   \* bound: how often a pass is cut off
    NoSource

\* "other": no plugin is registered for the method, or the outputs of a tool
\* task are somebody else's.
Methods == {"tool", "fail", "parallel_tool_item", "other"}

ASSUME ContinuationAssumption ==
    /\ Method \in [Sources -> Methods]
    /\ NoSource \notin Sources
    /\ Grant \in Nat /\ Review \in Nat /\ MaxCrashes \in Nat

VARIABLES
    declared,    \* method tasks in the Store
    cut,         \* cut[s]: the balance of the parent right after s was declared
    complete,    \* method tasks with a complete entry
    satisfied,   \* all outputs of the parent are satisfied
    terminal,    \* the terminal fact of the parent, see Terminals
    balance,     \* what the parent may still spend
    prepared,    \* continuations whose context is recorded
    published,   \* declared continuations
    projected,   \* sources with a task_completion.projected record
    blocked,     \* maintenance raises before it comes to the completions
    pass,        \* pass[i]: the pass of process i
    crashes

records ==
    <<declared, cut, complete, satisfied, terminal, balance, prepared, published, projected>>
vars == <<records, blocked, pass, crashes>>

Continuations == [source : Sources, budget : Nat]

\* The derived outcomes are records of the Contract and the outcome alone.
\* "ended" is a record with a reason or causal parents: of an expired lease,
\* a cancellation, or the Asset that completed the Contract.
Outcomes == {"complete", "failed"}
Terminals == {"none", "ended"} \cup Outcomes
Steps == {"idle", "look", "inspect", "prepare", "publish", "complete", "failed", "mark"}
Idle == [todo |-> {}, at |-> "idle", source |-> NoSource, seen |-> FALSE]

TypeOK ==
    /\ declared \subseteq Sources /\ complete \subseteq declared
    /\ projected \subseteq complete
    /\ cut \in [Sources -> Nat]
    /\ satisfied \in BOOLEAN
    /\ terminal \in Terminals
    /\ balance \in 0 .. Grant
    /\ prepared \subseteq Continuations /\ published \subseteq Continuations
    /\ pass \in [Processes -> [todo : SUBSET Sources, at : Steps,
                               source : Sources \cup {NoSource}, seen : BOOLEAN]]
    /\ blocked \in BOOLEAN
    /\ crashes \in 0 .. MaxCrashes

Init ==
    /\ declared = {} /\ complete = {} /\ projected = {}
    /\ cut = [s \in Sources |-> 0]
    /\ satisfied = FALSE /\ terminal = "none"
    /\ balance = Grant
    /\ prepared = {} /\ published = {}
    /\ pass = [i \in Processes |-> Idle]
    /\ blocked = FALSE /\ crashes = 0

-----------------------------------------------------------------------------
(* Workers, other children and derived completion.                          *)

\* A claimed method action declares a task of one unit.
Declare(s) ==
    /\ s \notin declared
    /\ terminal = "none"
    /\ balance > 0
    /\ declared' = declared \cup {s}
    /\ balance' = balance - 1
    /\ cut' = [cut EXCEPT ![s] = balance - 1]
    /\ UNCHANGED <<complete, satisfied, terminal, prepared, published, projected,
                   blocked, pass, crashes>>

Complete(s) ==
    /\ s \in declared
    /\ complete' = complete \cup {s}
    /\ UNCHANGED <<declared, cut, satisfied, terminal, balance, prepared, published,
                   projected, blocked, pass, crashes>>

\* Other children of the parent are declared, or return what they did not use.
Spend ==
    /\ terminal = "none"
    /\ balance > 0
    /\ balance' = balance - 1
    /\ UNCHANGED <<declared, cut, complete, satisfied, terminal, prepared, published,
                   projected, blocked, pass, crashes>>

Return ==
    /\ balance < Grant
    /\ balance' = balance + 1
    /\ UNCHANGED <<declared, cut, complete, satisfied, terminal, prepared, published,
                   projected, blocked, pass, crashes>>

\* The last output is produced; its transaction may record the outcome or not.
Satisfy(outcome) ==
    /\ satisfied' = TRUE
    /\ terminal' = IF terminal = "none" THEN outcome ELSE terminal
    /\ UNCHANGED <<declared, cut, complete, balance, prepared, published, projected,
                   blocked, pass, crashes>>

\* The lease of the parent runs out, or the parent is cancelled.
Expire ==
    /\ terminal = "none"
    /\ terminal' = "ended"
    /\ UNCHANGED <<declared, cut, complete, satisfied, balance, prepared, published,
                   projected, blocked, pass, crashes>>

\* A submission of a tool call is refused: every later maintenance step raises.
Block ==
    /\ blocked' = TRUE
    /\ UNCHANGED <<records, pass, crashes>>

Environment ==
    \/ \E s \in Sources : Declare(s) \/ Complete(s)
    \/ Spend
    \/ Return
    \/ \E outcome \in {"none", "complete", "ended"} : Satisfy(outcome)
    \/ Expire
    \/ Block

-----------------------------------------------------------------------------
(* The continuation of a source.                                            *)

Larger(m, n) == IF m < n THEN n ELSE m
Smaller(m, n) == IF m < n THEN m ELSE n

\* allocate_continuation_budget: as much of the review as leaves one unit is
\* kept back.  (Natural subtraction is guarded by Larger.)
Allocated(available) ==
    Larger(1, available - Smaller(Review, IF available = 0 THEN 0 ELSE available - 1))

\* Mutant: the budget is allocated from what the parent has now.
ContinuationNow(s) == [source |-> s, budget |-> Allocated(Larger(1, balance))]

ContinuationOf(s) == [source |-> s, budget |-> Allocated(Larger(1, cut[s]))]

-----------------------------------------------------------------------------
(* A pass.                                                                  *)

At(i, step) == pass[i].at = step
Goto(i, step) == pass' = [pass EXCEPT ![i].at = step]
Seen(i, step) == pass' = [pass EXCEPT ![i].at = step, ![i].seen = FALSE]

\* The next completion, or the end of the pass.
Rest(r) == IF r.todo = {} THEN Idle ELSE [r EXCEPT !.at = "idle", !.source = NoSource]

Begin(i) ==
    /\ ~blocked
    /\ At(i, "idle")
    /\ pass[i].todo = {}
    /\ complete \ projected # {}
    /\ pass' = [pass EXCEPT ![i].todo = complete \ projected]
    /\ UNCHANGED <<records, blocked, crashes>>

Take(i, s) ==
    /\ At(i, "idle")
    /\ s \in pass[i].todo
    /\ pass' = [pass EXCEPT ![i].todo = @ \ {s}, ![i].source = s, ![i].at = "look"]
    /\ UNCHANGED <<records, blocked, crashes>>

\* No plugin handles the completion.
Unhandled(s) == Method[s] = "other" /\ terminal = "none" /\ ~satisfied

\* It is traced and not marked, and the next pass looks at it again.
Leave(i) ==
    /\ At(i, "look")
    /\ Unhandled(pass[i].source)
    /\ pass' = [pass EXCEPT ![i] = Rest(pass[i])]
    /\ UNCHANGED <<records, blocked, crashes>>

\* TaskCompletionProjector.project up to its first write.
Look(i) ==
    LET s == pass[i].source
    IN  /\ At(i, "look")
        /\ ~Unhandled(s)
        /\ Goto(i, IF terminal # "none" THEN "mark"
                   ELSE IF Method[s] = "fail" THEN "failed"
                   ELSE IF satisfied THEN "complete"
                   ELSE IF Method[s] = "tool" THEN "inspect" ELSE "mark")
        /\ UNCHANGED <<records, blocked, crashes>>

\* The history proves the continuation of the source published or absent.
Inspect(i) ==
    LET known == {p \in published : p.source = pass[i].source}
    IN  /\ At(i, "inspect")
        /\ Goto(i, IF known = {} THEN "prepare"
                   ELSE IF known = {ContinuationOf(pass[i].source)} THEN "mark" ELSE "failed")
        /\ UNCHANGED <<records, blocked, crashes>>

\* The records changed during each of three reads, or there is no publisher:
\* the continuation is rejected, whether it was published or not.
CannotInspect(i) ==
    /\ At(i, "inspect")
    /\ Goto(i, "failed")
    /\ UNCHANGED <<records, blocked, crashes>>

Prepared(i) == prepared \cup {ContinuationOf(pass[i].source)}

Prepare(i) ==
    /\ At(i, "prepare")
    /\ prepared' = Prepared(i)
    /\ Goto(i, "publish")
    /\ UNCHANGED <<declared, cut, complete, satisfied, terminal, balance, published,
                   projected, blocked, crashes>>

\* Mutants: a rejected publication is only traced, or tried again.
RejectedMarks == "mark"
RejectedAgain == "inspect"

\* _reject_continuation ends the parent.
Rejected == "failed"

Publish(i) ==
    LET c == ContinuationOf(pass[i].source)
    IN  /\ At(i, "publish")
        /\ \/ c \in published /\ Goto(i, "mark") /\ UNCHANGED <<published, balance>>
           \/ /\ c \notin published
              /\ terminal = "none"
              /\ c.budget <= balance
              /\ published' = published \cup {c}
              /\ balance' = balance - c.budget
              /\ Goto(i, "mark")
           \/ /\ c \notin published
              /\ ~(terminal = "none" /\ c.budget <= balance)
              /\ Goto(i, Rejected)
              /\ UNCHANGED <<published, balance>>
        /\ UNCHANGED <<declared, cut, complete, satisfied, terminal, prepared, projected,
                       blocked, crashes>>

\* commit_terminal_outcome looks for an outcome first, without the lock.
CheckOutcome(i, outcome) ==
    /\ At(i, outcome)
    /\ ~pass[i].seen
    /\ IF terminal = "none" THEN pass' = [pass EXCEPT ![i].seen = TRUE] ELSE Goto(i, "mark")
    /\ UNCHANGED <<records, blocked, crashes>>

\* A terminal fact is immutable; the very same record may be written again.
Writable(outcome) == terminal \in {"none", outcome}

\* A conflict ends the pass.
WriteOutcome(i, outcome) ==
    /\ At(i, outcome)
    /\ pass[i].seen
    /\ IF Writable(outcome)
       THEN terminal' = outcome /\ Seen(i, "mark")
       ELSE pass' = [pass EXCEPT ![i] = Idle] /\ UNCHANGED terminal
    /\ UNCHANGED <<declared, cut, complete, satisfied, balance, prepared, published,
                   projected, blocked, crashes>>

Mark(i) ==
    /\ At(i, "mark")
    /\ projected' = projected \cup {pass[i].source}
    /\ pass' = [pass EXCEPT ![i] = Rest(pass[i])]
    /\ UNCHANGED <<declared, cut, complete, satisfied, terminal, balance, prepared,
                   published, blocked, crashes>>

Crash(i) ==
    /\ pass[i] # Idle
    /\ crashes < MaxCrashes
    /\ crashes' = crashes + 1
    /\ pass' = [pass EXCEPT ![i] = Idle]
    /\ UNCHANGED <<records, blocked>>

PassStep(i) ==
    \/ Begin(i)
    \/ \E s \in Sources : Take(i, s)
    \/ Leave(i)
    \/ Look(i)
    \/ Inspect(i)
    \/ CannotInspect(i)
    \/ Prepare(i)
    \/ Publish(i)
    \/ \E outcome \in Outcomes : CheckOutcome(i, outcome) \/ WriteOutcome(i, outcome)
    \/ Mark(i)

Next ==
    \/ Environment
    \/ \E i \in Processes : PassStep(i) \/ Crash(i)

Spec == Init /\ [][Next]_vars

\* A pass that is not cut off goes on, and unless the parts of a maintenance
\* step before the completions raise, which is what Begin asks for, there is
\* always another one: the services and commands make a new step after an
\* exception.  (A claim scan makes none; it only answers expirations.)
Fairness == \A i \in Processes : WF_vars(PassStep(i))
FairSpec == Spec /\ Fairness

-----------------------------------------------------------------------------
(* Properties.                                                              *)

\* However many passes, crashes and retries there are, and whatever the parent
\* spends meanwhile, a completed tool task is continued once.
OneContinuation == \A p, q \in published : p.source = q.source => p = q

\* A Worker that claims a continuation as soon as it is declared finds the
\* context that it discloses.
WorkIsPrepared == published \subseteq prepared

\* A completion that is never looked at again has left its parent with somebody
\* to go on, or with an outcome.
NeverStranded ==
    \A s \in projected :
        Method[s] # "parallel_tool_item" =>
            \/ terminal # "none"
            \/ Method[s] = "tool" /\ \E p \in published : p.source = s

\* A pass never changes the outcome of the parent.
OutcomeStays == [][terminal # "none" => terminal' = terminal]_vars

\* Every completion is projected in the end, although passes conflict, abort and
\* crash, unless maintenance raises before, or no plugin handles the completion
\* and the parent is neither satisfied nor ended.  (There are finitely many
\* completions, and none is taken back.)
EveryCompletionProjected ==
    <>[](\/ blocked
         \/ \A s \in complete \ projected :
               Method[s] = "other" /\ terminal = "none" /\ ~satisfied)
=============================================================================
