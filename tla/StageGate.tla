----------------------------- MODULE StageGate -----------------------------
(***************************************************************************)
(* What the checklist gate of transition_stage promises: one unit moves    *)
(* along the chain of stages, and only out of a stage that is ready, that  *)
(* is, all of whose mandatory items are checked; ACTIVE takes all stages.  *)
(* Checking and moving are one step here.  Nothing keeps them together in  *)
(* the code, so the promise is made for handlers that do not overlap       *)
(* (exact); otherwise a unit still moves to a successor of some stage.     *)
(***************************************************************************)
EXTENDS BessStages

CONSTANTS Stages  \* the stages the unit passes

VARIABLES
    stage,    \* where the unit is
    removed,  \* whether it is out of the books
    ready,    \* the stages whose mandatory items are checked
    exact     \* whether the promise is made; it never changes

gateVars == <<stage, removed, ready, exact>>

Init ==
    /\ stage \in Stages
    /\ removed = FALSE
    /\ ready \in SUBSET Stages
    /\ exact \in BOOLEAN

\* Items are checked, unchecked, added, changed or taken away.
Work ==
    /\ ready' \in SUBSET Stages
    /\ UNCHANGED <<stage, removed, exact>>

Remove ==
    /\ ~removed
    /\ removed' = TRUE
    /\ UNCHANGED <<stage, ready, exact>>

Advance(from) ==
    /\ stage' \in Stages
    /\ <<from, stage'>> \in STAGE_TRANSITIONS
    /\ exact =>
        /\ ~removed
        /\ from = stage
        /\ from \in ready
        /\ stage' = "ACTIVE" => ready = Stages
    /\ UNCHANGED <<removed, ready, exact>>

Next ==
    \/ Work
    \/ Remove
    \/ \E from \in Stages : Advance(from)

Spec == Init /\ [][Next]_gateVars
=============================================================================
