----------------------------- MODULE BudgetedRun -----------------------------
(***************************************************************************)
(* What a top-level interpretFunction promises about a whole run, with    *)
(* the call tree, the frames and the budget arithmetic abstracted away     *)
(* (spec sections 4.4, 5 and 7, with the bound the code keeps, B + 1):    *)
(*                                                                         *)
(*  - blocks are interpreted one at a time while the run is going on, and *)
(*    no more than Budget + 1 of them unless some frame lost its budget   *)
(*    to a maxSteps of UINT32_MAX;                                        *)
(*  - a call record that ends early marks the run as truncated, and a run *)
(*    that had one never reports itself complete;                         *)
(*  - the run ends complete, truncated, or with the process dead, and     *)
(*    nothing happens after that.                                          *)
(*                                                                         *)
(* work counts blocks up to Budget + 2, enough to tell "over the bound".   *)
(***************************************************************************)
EXTENDS Naturals

CONSTANT Budget

VARIABLES
    work,       \* blocks interpreted so far (saturating at Budget + 2)
    outcome,    \* "running", "complete", "truncated" or "crashed"
    early,      \* some call record has ended with earlyExit
    lost        \* some frame was started with maxSteps = UINT32_MAX

avars == <<work, outcome, early, lost>>

Running == outcome = "running"

Init ==
    /\ work = 0
    /\ outcome = "running"
    /\ early = FALSE
    /\ lost \in BOOLEAN

\* One more block, within the bound unless the budget was lost.
Visit ==
    /\ Running
    /\ lost \/ work <= Budget
    /\ work' = IF work <= Budget + 1 THEN work + 1 ELSE work
    /\ UNCHANGED <<outcome, early, lost>>

\* A frame starts with an unbounded budget.
LoseBudget ==
    /\ Running
    /\ lost' = TRUE
    /\ UNCHANGED <<work, outcome, early>>

\* A call record inside the tree ends early.
Truncate ==
    /\ Running
    /\ early' = TRUE
    /\ UNCHANGED <<work, outcome, lost>>

\* The top record is returned complete: nothing ended early.
Complete ==
    /\ Running
    /\ ~early
    /\ outcome' = "complete"
    /\ UNCHANGED <<work, early, lost>>

\* The top record is returned with earlyExit.
EndTruncated ==
    /\ Running
    /\ outcome' = "truncated"
    /\ early' = TRUE
    /\ UNCHANGED <<work, lost>>

\* The process dies (stack exhaustion).
Crash ==
    /\ Running
    /\ outcome' = "crashed"
    /\ UNCHANGED <<work, early, lost>>

Next == Visit \/ LoseBudget \/ Truncate \/ Complete \/ EndTruncated \/ Crash

Spec == Init /\ [][Next]_avars

=============================================================================
