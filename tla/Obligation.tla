----------------------------- MODULE Obligation -----------------------------
(***************************************************************************)
(* What replacing a task promises: one obligation, a set of outputs that   *)
(* are still due, held by one Contract at a time.  The holder may change   *)
(* any number of times; what is due only shrinks, by work, never because   *)
(* the holder changed, and the obligation is met only when nothing is due. *)
(***************************************************************************)
CONSTANTS Holders, Names, First, All

VARIABLES
    holder,    \* the Contract that owes the outputs
    due,       \* the outputs it still owes
    outcome    \* "open", "met" or "lost"

vars == <<holder, due, outcome>>

TypeOK ==
    /\ holder \in Holders
    /\ due \subseteq Names
    /\ outcome \in {"open", "met", "lost"}

Init ==
    /\ holder = First
    /\ due = All
    /\ outcome = "open"

\* Work fills outputs; an open obligation is met with the last one, or lost.
Work ==
    /\ due' \in SUBSET due
    /\ outcome' \in {"open", "met", "lost"}
    /\ outcome' = "met" => outcome = "met" \/ due' = {}
    /\ outcome # "open" => outcome' = outcome
    /\ UNCHANGED holder

\* An open obligation with something due is passed on as it is.
PassOn ==
    /\ outcome = "open"
    /\ due # {}
    /\ holder' \in Holders \ {holder}
    /\ UNCHANGED <<due, outcome>>

Next == Work \/ PassOn

Spec == Init /\ [][Next]_vars
=============================================================================
