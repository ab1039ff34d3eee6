--------------------------- MODULE MCStaffedUnits ---------------------------
(***************************************************************************)
(* A small instance of StaffedUnits for TLC: one unit that was seeded at   *)
(* the gate of the commissioning, and one engineer who commissions.        *)
(***************************************************************************)
EXTENDS StaffedUnits

CONSTANTS near

\* The whole chain up to the hot commissioning.
TrailToHotCommission ==
    {e \in STAGE_TRANSITIONS : e[1] \notin {"HOT_COMMISSION", "FINAL_ACCEPTANCE"}}

Everyone == [u \in Unit |-> Engineer]

Specialists == [e \in Engineer |-> "GENERAL"]

MaxConcurrent == [e \in Engineer |-> 2]

\* Everything at the same time, with faults.
Racing == {[overlap |-> TRUE, faulty |-> TRUE, created |-> Engineer,
            stages |-> {"HOT_COMMISSION", "FINAL_ACCEPTANCE"}]}
=============================================================================
