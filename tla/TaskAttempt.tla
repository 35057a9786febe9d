---------------------------- MODULE TaskAttempt ----------------------------
(***************************************************************************)
(* What the runtime promises of a Contract, with no lease, clock, message  *)
(* or process in sight: it is attempted at most once, by one worker; its   *)
(* outcome is written once; and an attempt that runs when its Contract     *)
(* gets an outcome from elsewhere ends in the same step.                   *)
(***************************************************************************)
EXTENDS Naturals

CONSTANTS Contracts, Workers, NoWorker, Terminals

VARIABLES
    attempt,   \* attempt[c]: the phase of the only attempt at c, and its worker
    outcome    \* outcome[c]: the terminal outcome of c, or "none"

attemptVars == <<attempt, outcome>>

Phases == {"open", "running", "delivered", "aborted"}
Batches == UNION {[S -> Terminals] : S \in SUBSET Contracts}

AttemptTypeOK ==
    /\ attempt \in [Contracts -> [phase : Phases, worker : Workers \cup {NoWorker}]]
    /\ outcome \in [Contracts -> Terminals \cup {"none"}]

Init ==
    /\ attempt = [c \in Contracts |-> [phase |-> "open", worker |-> NoWorker]]
    /\ outcome = [c \in Contracts |-> "none"]

Running(c) == attempt[c].phase = "running"

Start(c, w) ==
    /\ attempt[c].phase = "open"
    /\ outcome[c] = "none"
    /\ attempt' = [attempt EXCEPT ![c] = [phase |-> "running", worker |-> w]]
    /\ UNCHANGED outcome

\* The outcomes T are written together.  The attempts in `by` delivered them;
\* every other attempt that runs at a Contract of T is aborted.
Decide(T, by) ==
    /\ \A x \in DOMAIN T : outcome[x] = "none"
    /\ outcome' = [x \in Contracts |-> IF x \in DOMAIN T THEN T[x] ELSE outcome[x]]
    /\ attempt' = [x \in Contracts |->
          IF x \in by THEN [attempt[x] EXCEPT !.phase = "delivered"]
          ELSE IF x \in DOMAIN T /\ Running(x)
               THEN [attempt[x] EXCEPT !.phase = "aborted"]
          ELSE attempt[x]]

\* A delivered attempt may leave its own Contract without an outcome: its
\* outputs, or its children, still have to qualify.
Deliver(c, T) == Running(c) /\ Decide(T, {c})

Settle(T) == DOMAIN T # {} /\ Decide(T, {})

End(c) ==
    \E T \in Batches : Deliver(c, T) \/ (Running(c) /\ c \in DOMAIN T /\ Settle(T))

Next ==
    \/ \E c \in Contracts, w \in Workers : Start(c, w)
    \/ \E c \in Contracts, T \in Batches : Deliver(c, T)
    \/ \E T \in Batches : Settle(T)

Spec == Init /\ [][Next]_attemptVars

FairSpec == Spec /\ \A c \in Contracts : WF_attemptVars(End(c))
=============================================================================
