---------------------------- MODULE BessStages ----------------------------
(***************************************************************************)
(* The vocabulary every component of the backend shares                    *)
(* (app/shared/enums.py): the twenty stages in a BESS unit's life, the     *)
(* single legal successor of each, and the stage sets the services branch  *)
(* on.  Everything here is a constant, so the module has no behaviour.     *)
(***************************************************************************)

\* BESSStage.
Stage == {
    "FACTORY_REGISTERED", "SHIPMENT_ASSIGNED", "PACKED", "IN_TRANSIT",
    "PORT_ARRIVED", "PORT_CLEARED", "WAREHOUSE_STORED", "DISPATCHED_TO_SITE",
    "PRE_DELIVERY", "SITE_ARRIVED", "PRE_INSTALLATION", "CIVIL_INSTALLATION",
    "DC_INSTALLATION", "AC_INSTALLATION", "POST_INSTALLATION",
    "PRE_COMMISSION", "COLD_COMMISSION", "HOT_COMMISSION",
    "FINAL_ACCEPTANCE", "ACTIVE" }

\* STAGE_TRANSITIONS, the dictionary as the set of its <<key, value>> items.
\* It is a chain: ACTIVE has no successor.
STAGE_TRANSITIONS == {
    <<"FACTORY_REGISTERED", "SHIPMENT_ASSIGNED">>,
    <<"SHIPMENT_ASSIGNED",  "PACKED">>,
    <<"PACKED",             "IN_TRANSIT">>,
    <<"IN_TRANSIT",         "PORT_ARRIVED">>,
    <<"PORT_ARRIVED",       "PORT_CLEARED">>,
    <<"PORT_CLEARED",       "WAREHOUSE_STORED">>,
    <<"WAREHOUSE_STORED",   "DISPATCHED_TO_SITE">>,
    <<"DISPATCHED_TO_SITE", "PRE_DELIVERY">>,
    <<"PRE_DELIVERY",       "SITE_ARRIVED">>,
    <<"SITE_ARRIVED",       "PRE_INSTALLATION">>,
    <<"PRE_INSTALLATION",   "CIVIL_INSTALLATION">>,
    <<"CIVIL_INSTALLATION", "DC_INSTALLATION">>,
    <<"DC_INSTALLATION",    "AC_INSTALLATION">>,
    <<"AC_INSTALLATION",    "POST_INSTALLATION">>,
    <<"POST_INSTALLATION",  "PRE_COMMISSION">>,
    <<"PRE_COMMISSION",     "COLD_COMMISSION">>,
    <<"COLD_COMMISSION",    "HOT_COMMISSION">>,
    <<"HOT_COMMISSION",     "FINAL_ACCEPTANCE">>,
    <<"FINAL_ACCEPTANCE",   "ACTIVE">> }

\* SITE_STAGES: the stages an engineer is assigned to.
SITE_STAGES == {
    "SITE_ARRIVED", "PRE_INSTALLATION", "CIVIL_INSTALLATION",
    "DC_INSTALLATION", "AC_INSTALLATION", "POST_INSTALLATION",
    "PRE_COMMISSION", "COLD_COMMISSION", "HOT_COMMISSION",
    "FINAL_ACCEPTANCE" }

\* LOGISTICS_CERT_REQUIRED_STAGES: leaving one of these through the
\* transition API takes a certificate filed under it.
LOGISTICS_CERT_REQUIRED_STAGES ==
    {"PORT_ARRIVED", "PORT_CLEARED", "WAREHOUSE_STORED"}

\* ShipmentStatus.
ShipmentStatus == {
    "CREATED", "PACKED", "IN_TRANSIT", "ARRIVED", "PORT_CLEARED",
    "WAREHOUSE_STORED", "DISPATCHED_TO_SITE", "SITE_ARRIVED" }

\* STATUS_TO_BESS_STAGE.get(status), for the statuses it has a key for.
MovesUnits(status) == status # "CREATED"
StatusToStageForgotten(status) == status
STATUS_TO_BESS_STAGE(status) ==
    IF status = "ARRIVED" THEN "PORT_ARRIVED" ELSE status

\* The stages no shipment writes: STATUS_TO_BESS_STAGE has no key for them and
\* linking a unit does not set them, so only the transition API enters them.
GatedStages == (SITE_STAGES \ {"SITE_ARRIVED"}) \cup {"PRE_DELIVERY", "ACTIVE"}

\* The rest, but the stage a unit is created in.
ShipmentStages == Stage \ (GatedStages \cup {"FACTORY_REGISTERED"})
===========================================================================
