-------------------------- MODULE MCBessLifecycle --------------------------
(***************************************************************************)
(* Small instances of BessLifecycle for TLC.                               *)
(***************************************************************************)
EXTENDS BessLifecycle, TLC

\* The whole chain up to the last gates of the acceptance.
TrailToHotCommission ==
    {e \in STAGE_TRANSITIONS : e[1] \notin {"HOT_COMMISSION", "FINAL_ACCEPTANCE"}}

\* The same of a unit that a shipment carried past the gates on the way.
TrailFromSite ==
    {e \in STAGE_TRANSITIONS : e[1] \in SITE_STAGES \ {"HOT_COMMISSION", "FINAL_ACCEPTANCE"}}

Carried == Shipment \X SeedUnits

\* A unit unloaded from its ship.
TrailToPortArrival ==
    {e \in STAGE_TRANSITIONS :
        e[2] \in {"SHIPMENT_ASSIGNED", "PACKED", "IN_TRANSIT", "PORT_ARRIVED"}}

NoTrail == {}

\* Units, shipments and requests are interchangeable: no definition names one.
Interchangeable ==
    Permutations(Unit) \cup Permutations(Shipment) \cup Permutations(Request)
============================================================================
