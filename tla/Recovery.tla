------------------------------ MODULE Recovery ------------------------------
(***************************************************************************)
(* Recovery after failure.  A failed invocation, an expired claim and a    *)
(* rejected Candidate are immutable facts; maintenance passes of any       *)
(* number of processes answer each of them with a recovery Contract and an *)
(* outcome record.                                                         *)
(*                                                                         *)
(* There are two kinds of rejection.  A Candidate that the reduction       *)
(* rejects closes its claim and ends its Contract.  A Candidate that is    *)
(* refused at the commit, because its lease has run out or its Contract    *)
(* has ended, say, closes nothing.  A pass that answers the failures of a  *)
(* tool call first proves each of them from the history of its claim; of a *)
(* refusal there is no such proof, and the pass ends there.                *)
(*                                                                         *)
(* A pass reads the records once, without the lock, and works through them *)
(* in their order.  For each failure it proves from the history whether    *)
(* the recovery was published before, publishes it if not, and records the *)
(* outcome.  The publication is projected before it is committed: which    *)
(* grant it brings is decided on the Contracts then known.  Another pass,  *)
(* a worker or a crash comes between any two of these steps.               *)
(*                                                                         *)
(* A recovery Contract is named after the Contract it repairs, and not     *)
(* after the failure: its disclosed context is.  Two failures of one       *)
(* Contract ask for the same Contract with different contexts, and passes  *)
(* that answer them at once may declare it twice; it is paid for once.     *)
(***************************************************************************)
EXTENDS Naturals, Sequences

CONSTANTS
    Kinds,         \* the failures that happen
    Tasks,         \* tasks that may fail; a recovery repeats its task
    ToolTasks,     \* tasks that execute one claimed tool call
    Parents,       \* Contracts above, which pay for a recovery
    Parent,        \* Parent[t]: who pays for task t
    Cost,          \* Cost[t]: max(1, budget) of t
    Allowance,     \* Allowance[p]: what p may still spend at the start
    DepthLimit,    \* recoveries of recoveries: 3 in the code
    MaxFailures,   \* bound: how many failure facts there are
    MaxCrashes,    \* bound: how often a pass is cut off
    NoSource,
    Processes

ASSUME RecoveryAssumption ==
    /\ Kinds \subseteq {"worker_failure", "rejection", "refusal", "expiration"}
    /\ ToolTasks \subseteq Tasks
    /\ Parent \in [Tasks -> Parents]
    /\ Cost \in [Tasks -> Nat \ {0}]
    /\ Allowance \in [Parents -> Nat]
    /\ DepthLimit \in Nat
    /\ MaxFailures \in Nat /\ MaxCrashes \in Nat

\* A Contract is its task and the number of ".recover" in its name.
Contracts == [task : Tasks, depth : 0 .. DepthLimit]
Successor(c) == [c EXCEPT !.depth = @ + 1]

\* A failure fact; further refusals of one Contract are like the first.
Sources == [kind : Kinds, of : Contracts]
ASSUME NoSource \notin Sources

\* The generic repair of a task, or the same tool call once more.
Forms == {"generic", "method"}
Publications == [of : Contracts, form : Forms, source : Sources]
Repairs(f, form) == [of |-> f.of, form |-> form, source |-> f]
Records == [what : {"scheduled", "unavailable"}, source : Sources]

NotEnded == [what |-> "none", cause |-> NoSource]
Completed == [what |-> "complete", cause |-> NoSource]
FailedBy(f) == [what |-> "failed", cause |-> f]
Terminals == {NotEnded, Completed} \cup {FailedBy(f) : f \in Sources}

VARIABLES
    log,        \* failure facts, in the order of their records
    published,  \* committed recovery publications
    granted,    \* those of them that brought the grant of the Contract
    outcomes,   \* recovery_scheduled and recovery_unavailable records
    terminal,   \* terminal[c]: the lifecycle.terminal record of c
    balance,    \* balance[p]: what is left of the allowance of p
    ended,      \* Parents with a terminal fact
    pass,       \* pass[i]: what the running pass of process i read and works on
    crashes

records == <<log, published, granted, outcomes, terminal, balance, ended>>
vars == <<records, pass, crashes>>

failures == {log[n] : n \in DOMAIN log}
Before(f, g) == \E m, n \in DOMAIN log : m <= n /\ log[m] = f /\ log[n] = g

\* The functions that answer failures, by what each of them looks for.
StageOf(kind) ==
    CASE kind = "worker_failure" -> "invocations"
      [] kind \in {"rejection", "refusal"} -> "submissions"
      [] kind = "expiration" -> "expirations"
Stages == {StageOf(kind) : kind \in Kinds}

Steps == {"next", "prove", "publish", "grant", "declare", "prove again", "record"}
Passes == [todo : SUBSET Sources, seen : [Contracts -> {"none", "complete", "failed"}],
           at : Steps, source : Sources \cup {NoSource},
           verdict : {"scheduled", "unavailable"}]
Idle == [todo |-> {}, seen |-> [c \in Contracts |-> "none"], at |-> "next",
         source |-> NoSource, verdict |-> "unavailable"]

TypeOK ==
    /\ log \in Seq(Sources)
    /\ published \subseteq Publications
    /\ granted \subseteq published
    /\ outcomes \subseteq Records
    /\ terminal \in [Contracts -> Terminals]
    /\ balance \in [Parents -> Nat]
    /\ ended \subseteq Parents
    /\ pass \in [Processes -> Passes]
    /\ crashes \in 0 .. MaxCrashes

\* A Store written by an older release may hold a generic repair of a failed
\* tool call.
LegacyLogs ==
    {<<>>} \cup {<<f>> : f \in {g \in Sources : g.kind # "refusal" /\ g.of.task \in ToolTasks
                                               /\ g.of.depth = 0 /\ DepthLimit > 0}}

Init ==
    /\ log \in LegacyLogs
    /\ published = {Repairs(f, "generic") : f \in failures}
    /\ granted = published
    /\ outcomes = {}
    /\ terminal = [c \in Contracts |->
                      IF \E f \in failures : f.of = c
                      THEN FailedBy(CHOOSE f \in failures : f.of = c) ELSE NotEnded]
    /\ balance = Allowance
    /\ ended = {}
    /\ pass = [i \in Processes |-> Idle]
    /\ crashes = 0

-----------------------------------------------------------------------------
(* What the workers and the rest of the runtime do meanwhile.               *)

Declared(c) == c.depth = 0 \/ \E p \in published : Successor(p.of) = c
Live(c) == Declared(c) /\ terminal[c] = NotEnded

UnchangedPasses == UNCHANGED <<pass, crashes>>

Happens(f) ==
    /\ f \in Sources /\ f \notin failures
    /\ Len(log) < MaxFailures
    /\ log' = Append(log, f)

\* A failed invocation, an expired lease and a Candidate that the reduction
\* rejects end the Contract with the fact.
Fail(c, kind) ==
    LET f == [kind |-> kind, of |-> c]
    IN  /\ kind # "refusal"
        /\ Live(c)
        /\ Happens(f)
        /\ terminal' = [terminal EXCEPT ![c] = FailedBy(f)]
        /\ UNCHANGED <<published, granted, outcomes, balance, ended>>
        /\ UnchangedPasses

\* A Candidate refused at the commit ends nothing.  It may also be late.
Refuse(c) ==
    /\ Declared(c)
    /\ Happens([kind |-> "refusal", of |-> c])
    /\ UNCHANGED <<published, granted, outcomes, terminal, balance, ended>>
    /\ UnchangedPasses

\* A better Candidate, or another producer's outputs.
Complete(c) ==
    /\ Live(c)
    /\ terminal' = [terminal EXCEPT ![c] = Completed]
    /\ UNCHANGED <<log, published, granted, outcomes, balance, ended>>
    /\ UnchangedPasses

\* A parent spends on other children, or ends.
SpendElsewhere(p) ==
    /\ balance[p] > 0
    /\ balance' = [balance EXCEPT ![p] = @ - 1]
    /\ UNCHANGED <<log, published, granted, outcomes, terminal, ended>>
    /\ UnchangedPasses

EndParent(p) ==
    /\ ended' = ended \cup {p}
    /\ UNCHANGED <<log, published, granted, outcomes, terminal, balance>>
    /\ UnchangedPasses

Environment ==
    \/ \E c \in Contracts, kind \in Kinds : Fail(c, kind)
    \/ \E c \in Contracts : Refuse(c) \/ Complete(c)
    \/ \E p \in Parents : SpendElsewhere(p) \/ EndParent(p)

-----------------------------------------------------------------------------
(* The history of a recovery.                                               *)

\* A tool call is repeated as a tool call, unless it was repaired generically.
Form(c) ==
    IF /\ c.task \in ToolTasks
       /\ \A p \in published : Successor(p.of) = c => p.form = "method"
    THEN "method" ELSE "generic"

\* Mutant: the name of the recovery Contract proves the publication.
StatusByName(f, form) ==
    IF \E p \in published : p.of = f.of /\ p.form = form
    THEN "matched" ELSE "absent"

\* The recovery Contract is the anchor; it must have been declared once, by the
\* Candidate that this failure asks for, its context included.
Status(f, form) ==
    LET declared == {p \in published : p.of = f.of /\ p.form = form}
    IN  IF declared = {} THEN "absent"
        ELSE IF declared = {Repairs(f, form)} THEN "matched" ELSE "conflict"

\* Mutant: repairs of older releases are not looked for.
HistoryOfForm(f) == Status(f, Form(f.of))

\* A tool call must have neither form; finding the older one is no schedule.
History(f) ==
    IF Form(f.of) = "generic" THEN Status(f, "generic")
    ELSE IF Status(f, "generic") # "absent" THEN "conflict"
    ELSE Status(f, "method")

-----------------------------------------------------------------------------
(* One maintenance pass.                                                    *)

\* The snapshot is dropped with the last failure of the scan.
Done(s) == IF s.todo = {} THEN Idle ELSE [s EXCEPT !.at = "next", !.source = NoSource,
                                                   !.verdict = "unavailable"]

Go(i, step) == pass' = [pass EXCEPT ![i].at = step]
Conclude(i, verdict) ==
    pass' = [pass EXCEPT ![i].at = "record", ![i].verdict = verdict]

Answered(f) == \E r \in outcomes : r.source = f
Unanswered(stage) == {f \in failures : StageOf(f.kind) = stage /\ ~Answered(f)}

\* The scan that process_worker_failures, process_rejected_submissions and
\* process_expired_claims begin with.
Scan(i, stage) ==
    /\ pass[i].at = "next"
    /\ pass[i].todo = {}
    /\ Unanswered(stage) # {}
    /\ pass' = [pass EXCEPT ![i] = [Idle EXCEPT
          !.todo = Unanswered(stage),
          !.seen = [c \in Contracts |->
                       IF stage = "submissions" /\ \E f \in Unanswered(stage) : f.of = c
                       THEN terminal[c].what ELSE "none"]]]
    /\ UNCHANGED <<records, crashes>>

\* The failures are answered in the order of their records.
IsNext(i, f) ==
    /\ pass[i].at = "next"
    /\ f \in pass[i].todo
    /\ \A g \in pass[i].todo : Before(f, g)

\* The claim of a tool call must prove its failure.  A refusal is not what the
\* claim ended with, and never will be.
Provable(f) == f.of.task \in ToolTasks => f.kind # "refusal"

\* The exception ends the pass, before it looks at what became of the Contract.
Raise(i, f) ==
    /\ IsNext(i, f)
    /\ ~Provable(f)
    /\ pass' = [pass EXCEPT ![i] = Idle]
    /\ UNCHANGED <<records, crashes>>

\* A rejected submission of a Contract that completed asks for nothing.
Preserved(i, f) == StageOf(f.kind) = "submissions" /\ pass[i].seen[f.of] = "complete"

Preserve(i, f) ==
    /\ IsNext(i, f)
    /\ Provable(f)
    /\ Preserved(i, f)
    /\ outcomes' = outcomes \cup {[what |-> "unavailable", source |-> f]}
    /\ pass' = [pass EXCEPT ![i] = Done([pass[i] EXCEPT !.todo = @ \ {f}])]
    /\ UNCHANGED <<log, published, granted, terminal, balance, ended, crashes>>

Take(i, f) ==
    /\ IsNext(i, f)
    /\ Provable(f)
    /\ ~Preserved(i, f)
    /\ pass' = [pass EXCEPT ![i].source = f, ![i].todo = @ \ {f},
                            ![i].verdict = "unavailable",
                            ![i].at = IF f.of.depth = DepthLimit THEN "record" ELSE "prove"]
    /\ UNCHANGED <<records, crashes>>

Prove(i) ==
    /\ pass[i].at = "prove"
    /\ CASE History(pass[i].source) = "absent" -> Go(i, "publish")
         [] History(pass[i].source) = "matched" -> Conclude(i, "scheduled")
         [] History(pass[i].source) = "conflict" -> Conclude(i, "unavailable")
    /\ UNCHANGED <<records, crashes>>

\* The records changed during each of three reads, or the process has no key.
\* (The first read of a tool call raises then: see Crash.)
CannotProve(i) ==
    /\ \/ pass[i].at = "prove" /\ pass[i].source.of.task \notin ToolTasks
       \/ pass[i].at = "prove again"
    /\ Conclude(i, "unavailable")
    /\ UNCHANGED <<records, crashes>>

\* The Contract does not exist, and its parent lives and can pay.
Fresh(p) == ~\E q \in published : q.of = p.of /\ q.form = p.form
Payable(c) == Parent[c.task] \notin ended /\ balance[Parent[c.task]] >= Cost[c.task]

Asked(i) == Repairs(pass[i].source, Form(pass[i].source.of))

\* Without the lock: a Contract that exists is declared once more and granted
\* nothing; a new one needs a grant that its parent can pay.
Project(i) ==
    /\ pass[i].at = "publish"
    /\ Go(i, IF ~Fresh(Asked(i)) THEN "declare"
             ELSE IF Payable(pass[i].source.of) THEN "grant" ELSE "prove again")
    /\ UNCHANGED <<records, crashes>>

Commit(i) ==
    /\ published' = published \cup {Asked(i)}
    /\ Conclude(i, "scheduled")
    /\ UNCHANGED <<log, outcomes, terminal, ended, crashes>>

\* Under the writer lock: an exact replay is accepted as it is, and a second
\* grant for a Contract, or one that can no longer be paid, is refused.
Grant(i) ==
    LET parent == Parent[pass[i].source.of.task]
    IN  /\ pass[i].at = "grant"
        /\ Fresh(Asked(i))
        /\ Payable(pass[i].source.of)
        /\ granted' = granted \cup {Asked(i)}
        /\ balance' = [balance EXCEPT ![parent] = @ - Cost[pass[i].source.of.task]]
        /\ Commit(i)

Declare(i) ==
    /\ pass[i].at = "declare" \/ (pass[i].at = "grant" /\ Asked(i) \in published)
    /\ UNCHANGED <<granted, balance>>
    /\ Commit(i)

GrantRefused(i) ==
    /\ pass[i].at = "grant"
    /\ Asked(i) \notin published
    /\ ~(Fresh(Asked(i)) /\ Payable(pass[i].source.of))
    /\ Go(i, "prove again")
    /\ UNCHANGED <<records, crashes>>

ProveAgain(i) ==
    /\ pass[i].at = "prove again"
    /\ Conclude(i, IF History(pass[i].source) = "matched" THEN "scheduled" ELSE "unavailable")
    /\ UNCHANGED <<records, crashes>>

\* Mutant: the failure is recorded as terminal whatever the scan has seen.
EndsAlways(i, f) == StageOf(f.kind) = "submissions"

\* A rejection ends its Contract when the scan saw no terminal fact.
Ends(i, f) == StageOf(f.kind) = "submissions" /\ pass[i].seen[f.of] = "none"

\* A terminal fact is written once; the same one may be written again.
Agrees(i, f) == Ends(i, f) => terminal[f.of] \in {NotEnded, FailedBy(f)}

\* The outcome, and for a rejection the terminal fact, in one transaction.  A
\* conflict ends the pass: the next one starts from what is then recorded.
Record(i) ==
    LET f == pass[i].source
    IN  /\ pass[i].at = "record"
        /\ IF Agrees(i, f)
           THEN /\ outcomes' = outcomes \cup {[what |-> pass[i].verdict, source |-> f]}
                /\ terminal' = [terminal EXCEPT ![f.of] = IF Ends(i, f) THEN FailedBy(f) ELSE @]
                /\ pass' = [pass EXCEPT ![i] = Done(
                      [pass[i] EXCEPT !.seen[f.of] = IF StageOf(f.kind) = "submissions" THEN "failed" ELSE @])]
           ELSE /\ pass' = [pass EXCEPT ![i] = Idle]
                /\ UNCHANGED <<outcomes, terminal>>
        /\ UNCHANGED <<log, published, granted, balance, ended, crashes>>

\* The process dies, or an exception that will not recur ends the pass: the
\* records of a tool call changed during each of three reads.
Crash(i) ==
    /\ pass[i] # Idle
    /\ crashes < MaxCrashes
    /\ crashes' = crashes + 1
    /\ pass' = [pass EXCEPT ![i] = Idle]
    /\ UNCHANGED records

PassStep(i) ==
    \/ \E stage \in Stages : Scan(i, stage)
    \/ \E f \in pass[i].todo : Raise(i, f) \/ Preserve(i, f) \/ Take(i, f)
    \/ Prove(i)
    \/ CannotProve(i)
    \/ Project(i) \/ Grant(i) \/ Declare(i) \/ GrantRefused(i)
    \/ ProveAgain(i)
    \/ Record(i)

Next ==
    \/ Environment
    \/ \E i \in Processes : PassStep(i) \/ Crash(i)

Spec == Init /\ [][Next]_vars

\* A pass that is not cut off goes on.  Each of the functions is called
\* again and again by somebody, whatever became of the calls before: every
\* claim scan begins with the expirations, and every maintenance step, of
\* which the services and commands make a new one after an exception, with the
\* invocations and then the submissions.
Fairness ==
    /\ \A i \in Processes : WF_vars(PassStep(i))
    /\ \A stage \in Stages : SF_vars(\E i \in Processes : Scan(i, stage))
FairSpec == Spec /\ Fairness

-----------------------------------------------------------------------------
(* Properties.                                                              *)

\* However many passes, failures, crashes and older releases there are, a
\* Contract is repaired by one recovery Contract at most, and its parent pays
\* for that repair once, although it may be declared with two contexts.
OneRecoveryEach ==
    /\ \A p, q \in published : p.of = q.of => p.form = q.form
    /\ \A p, q \in granted : p.of = q.of => p = q

\* A failure is recorded as scheduled only when the recovery that discloses
\* this very failure is in the Store.
ScheduledIsPublished ==
    \A r \in outcomes :
        r.what = "scheduled" => Repairs(r.source, Form(r.source.of)) \in published

\* A pass that answers a rejection with an old snapshot never overwrites the
\* outcome the Contract got meanwhile.
OutcomesStay == [][\A c \in Contracts : terminal[c] # NotEnded => terminal'[c] = terminal[c]]_vars

\* Every failure fact is answered in the end, although passes conflict, raise
\* and crash, except for the submissions that stand behind a refused one of a
\* tool call.  (There are finitely many facts, and none is taken back.)
Blocked(f) ==
    /\ StageOf(f.kind) = "submissions"
    /\ \E g \in failures :
          g.kind = "refusal" /\ g.of.task \in ToolTasks /\ Before(g, f)

EveryFailureAnswered == <>[](\A f \in failures : Answered(f) \/ Blocked(f))
=============================================================================
