--------------------------- MODULE BessLifecycle ---------------------------
(***************************************************************************)
(* BESS units and the shipments that carry them, as the API handlers of    *)
(* app/domains/bess_unit/service.py and app/domains/shipment/service.py    *)
(* change them in one PostgreSQL database at READ COMMITTED.               *)
(*                                                                         *)
(* A handler that decides on rows it read earlier is a request that moves  *)
(* through its awaits one action at a time, so that other requests commit  *)
(* in between; what it read travels with it in req.  Its transaction is    *)
(* one commit action: the rows it updates are locked from the flush to the *)
(* commit, so no other writer sees the middle of it, and a reader sees the *)
(* rows as they were.  SQLAlchemy sends an UPDATE only for a column whose  *)
(* value differs from the one loaded, so a request remembers whether it    *)
(* will write.  A handler whose effect does not depend on what it read is  *)
(* one action.                                                             *)
(***************************************************************************)
EXTENDS BessStages, FiniteSets, Naturals

CONSTANTS
    Unit,               \* the ids bess_units can hold
    Shipment,           \* the ids shipments can hold
    Request,            \* the API requests in flight at a time
    MandatoryStages,    \* the stages with a mandatory checklist template
    SeedUnits,          \* units already registered at the start,
    SeedStage,          \*   the stage they are in,
    SeedTrail,          \*   the transitions that took them there,
    SeedItems,          \*   and the shipments that took them to the site
    TransitionTargets,  \* the inputs users send: to_stage of a transition,
    StatusInputs,       \*   status of a shipment update,
    CertificateInputs,  \*   stage of a certificate,
    DocumentInputs,     \*   document_type of a shipment document,
    EditInputs,         \*   the places a unit's payload may set or clear,
    PlaceInputs,        \*   and those a shipment is given
    ExpectedQuantity    \* shipments.expected_quantity

CertificateKind == {"UPLOADED", "AUTO_HANDOVER_DOCUMENT"}
Place == {"warehouse", "site"}
DocumentType == {"PORT_CLEARED", "OTHER"}

ASSUME InputAssumption ==
    /\ MandatoryStages \subseteq Stage
    /\ TransitionTargets \subseteq Stage
    /\ StatusInputs \subseteq ShipmentStatus
    /\ CertificateInputs \subseteq Stage
    /\ DocumentInputs \subseteq DocumentType
    /\ EditInputs \subseteq Place
    /\ PlaceInputs \subseteq Place
    /\ ExpectedQuantity \in Nat

\* A seeded unit got where it is by the transition API, or, up to a stage that
\* shipments write, with its shipment.
ASSUME SeedAssumption ==
    /\ SeedUnits \subseteq Unit
    /\ SeedStage \in Stage
    /\ SeedTrail \subseteq STAGE_TRANSITIONS
    /\ <<"FINAL_ACCEPTANCE", "ACTIVE">> \notin SeedTrail
    /\ SeedStage # "FACTORY_REGISTERED" =>
           \E p \in Stage : <<p, SeedStage>> \in SeedTrail
    /\ \A e \in SeedTrail : e[1] # "FACTORY_REGISTERED" =>
           \/ \E p \in Stage : <<p, e[1]>> \in SeedTrail
           \/ e[1] \in ShipmentStages /\ \A u \in SeedUnits : \E s \in Shipment : <<s, u>> \in SeedItems
    /\ SeedItems \subseteq Shipment \X SeedUnits
    /\ \A x, y \in SeedItems : x[2] = y[2] => x = y
    /\ SeedItems # {} => SeedStage # "FACTORY_REGISTERED"

VARIABLES
    units,          \* the registered units
    stage,          \* bess_units.current_stage
    active,         \* the units with is_active
    deleted,        \* the units with is_deleted
    placedIn,       \* [Place -> the units with a warehouse_id, a site_address]
    history,        \* [Unit -> the <<from_stage, to_stage>> of stage_history]
    certs,          \* [Unit -> the <<stage, kind>> of stage_certificates]
    complete,       \* [Unit -> the stages whose mandatory items are all checked]
    shipments,      \* the created shipments
    status,         \* shipments.status
    bound,          \* [Place -> the shipments with a warehouse_id, a site_id]
    documents,      \* [Shipment -> the document types uploaded]
    items,          \* the <<shipment_id, bess_unit_id>> of shipment_items
    req,            \* [Request -> the state of the handler it runs]
    tasks           \* the <<unit, stage>> auto_assign_engineer_task was queued for

unitVars == <<units, stage, active, deleted, placedIn>>
trailVars == <<history, certs, complete>>
shipmentVars == <<shipments, status, bound, documents, items>>
vars == <<unitVars, trailVars, shipmentVars, req, tasks>>

----------------------------------------------------------------------------
(* Requests: the handler a request runs, how far it is and what it read.   *)

Idle == [pc |-> "idle"]

TransitionRequest ==
    [pc : {"loaded", "certified", "checked", "documented", "transitioned"},
     unit : Unit, from : Stage, to : Stage]

\* rewrite: the units whose row, as read, is not in SHIPMENT_ASSIGNED already.
AssignRequest ==
    [pc : {"assigning"}, ship : Shipment, group : SUBSET Unit, rewrite : SUBSET Unit]

\* writes: the shipment's loaded row has another status.
\* rewrite: the live linked units whose row, as read, is not in the new stage.
StatusRequest ==
    [pc : {"status_read", "status_flushed"}, ship : Shipment,
     to : ShipmentStatus, writes : BOOLEAN, rewrite : SUBSET Unit]

PlaceRequest ==
    [pc : {"placing"}, ship : Shipment, place : Place, rewrite : SUBSET Unit]

RequestState ==
    {Idle} \cup TransitionRequest \cup AssignRequest \cup StatusRequest
           \cup PlaceRequest

IsIdle(r) == req[r].pc = "idle"

Become(r, state) == req' = [req EXCEPT ![r] = state]

Step(r, pc) == req' = [req EXCEPT ![r].pc = pc]

\* The row lock an uncommitted UPDATE of the shipment holds.
Locked(s) ==
    \E q \in Request : /\ req[q].pc = "status_flushed"
                       /\ req[q].ship = s
                       /\ req[q].writes

Linked(s) == {u \in Unit : <<s, u>> \in items}

Live == units \ deleted

----------------------------------------------------------------------------

TypeOK ==
    /\ units \subseteq Unit
    /\ stage \in [Unit -> Stage]
    /\ active \subseteq Unit
    /\ deleted \subseteq Unit
    /\ placedIn \in [Place -> SUBSET Unit]
    /\ history \in [Unit -> SUBSET STAGE_TRANSITIONS]
    /\ certs \in [Unit -> SUBSET (Stage \X CertificateKind)]
    /\ complete \in [Unit -> SUBSET MandatoryStages]
    /\ shipments \subseteq Shipment
    /\ status \in [Shipment -> ShipmentStatus]
    /\ bound \in [Place -> SUBSET Shipment]
    /\ documents \in [Shipment -> SUBSET DocumentType]
    /\ items \subseteq Shipment \X Unit
    /\ req \in [Request -> RequestState]
    /\ tasks \subseteq Unit \X SITE_STAGES

SeedCertificates ==
    {<<s, "UPLOADED">> : s \in {t \in LOGISTICS_CERT_REQUIRED_STAGES :
                                  \E n \in Stage : <<t, n>> \in SeedTrail}}

Init ==
    /\ units = SeedUnits
    /\ stage = [u \in Unit |-> IF u \in SeedUnits THEN SeedStage
                               ELSE "FACTORY_REGISTERED"]
    /\ active = {}
    /\ deleted = {}
    /\ placedIn = [p \in Place |-> SeedUnits]
    /\ history = [u \in Unit |-> IF u \in SeedUnits THEN SeedTrail ELSE {}]
    /\ certs = [u \in Unit |-> IF u \in SeedUnits THEN SeedCertificates ELSE {}]
    /\ complete = [u \in Unit |-> IF u \in SeedUnits THEN MandatoryStages ELSE {}]
    /\ shipments = {x[1] : x \in SeedItems}
    /\ status = [s \in Shipment |-> IF s \in shipments THEN "SITE_ARRIVED" ELSE "CREATED"]
    /\ bound = [p \in Place |-> shipments]
    /\ documents = [s \in Shipment |-> {}]
    /\ items = SeedItems
    /\ req = [r \in Request |-> Idle]
    /\ tasks = {}

----------------------------------------------------------------------------
(* BESS units: registration, edits and evidence.                           *)

\* create_bess_unit, and the registrations from a QR code or a photo that end
\* in it.  The payload may carry a warehouse and a site address.
CreateUnit(u, places) ==
    /\ u \notin units
    /\ units' = units \cup {u}
    /\ stage' = [stage EXCEPT ![u] = "FACTORY_REGISTERED"]
    /\ placedIn' = [p \in Place |-> IF p \in places THEN placedIn[p] \cup {u}
                                    ELSE placedIn[p]]
    /\ UNCHANGED <<active, deleted, trailVars, shipmentVars, req, tasks>>

\* update_bess_unit: a PATCH sets a warehouse_id or a site_address, or clears
\* it with an explicit null.
UpdateUnit(u, p) ==
    /\ u \in Live
    /\ \/ placedIn' = [placedIn EXCEPT ![p] = @ \cup {u}]
       \/ placedIn' = [placedIn EXCEPT ![p] = @ \ {u}]
    /\ UNCHANGED <<units, stage, active, deleted, trailVars, shipmentVars, req, tasks>>

DeleteUnit(u) ==
    /\ u \in Live
    /\ deleted' = deleted \cup {u}
    /\ UNCHANGED <<units, stage, active, placedIn, trailVars, shipmentVars, req, tasks>>

\* add_stage_certificate: any stage, whatever stage the unit is in.
AddCertificate(u, s) ==
    /\ u \in Live
    /\ certs' = [certs EXCEPT ![u] = @ \cup {<<s, "UPLOADED">>}]
    /\ UNCHANGED <<unitVars, history, complete, shipmentVars, req, tasks>>

\* update_checklist_item, seen by the gate: the last mandatory item of a stage
\* is checked, or one of them is unchecked again.  Any stage, at any time.
UpdateChecklist(u, s) ==
    /\ u \in Live
    /\ \/ complete' = [complete EXCEPT ![u] = @ \cup {s}]
       \/ complete' = [complete EXCEPT ![u] = @ \ {s}]
    /\ UNCHANGED <<unitVars, history, certs, shipmentVars, req, tasks>>

----------------------------------------------------------------------------
(* transition_stage.                                                       *)

TransitionOfDeleted(r, u, to) ==
    /\ IsIdle(r)
    /\ u \in units
    /\ <<stage[u], to>> \in STAGE_TRANSITIONS
    /\ Become(r, [pc |-> "loaded", unit |-> u, from |-> stage[u], to |-> to])
    /\ UNCHANGED <<unitVars, trailVars, shipmentVars, tasks>>

\* The load, and every check made on the loaded row alone.
TransitionLoad(r, u, to) ==
    /\ IsIdle(r)
    /\ u \in Live
    /\ <<stage[u], to>> \in STAGE_TRANSITIONS
    /\ to = "WAREHOUSE_STORED" => u \in placedIn["warehouse"]
    /\ to = "DISPATCHED_TO_SITE" => u \in placedIn["site"]
    /\ Become(r, [pc |-> "loaded", unit |-> u, from |-> stage[u], to |-> to])
    /\ UNCHANGED <<unitVars, trailVars, shipmentVars, tasks>>

HasAnyCertificate(u, s) == certs[u] # {}

\* count_stage_certificates(...) >= 1.
HasCertificate(u, s) == \E k \in CertificateKind : <<s, k>> \in certs[u]

TransitionCertificateGate(r) ==
    /\ req[r].pc = "loaded"
    /\ req[r].from \in LOGISTICS_CERT_REQUIRED_STAGES =>
           HasCertificate(req[r].unit, req[r].from)
    /\ Step(r, "certified")
    /\ UNCHANGED <<unitVars, trailVars, shipmentVars, tasks>>

TransitionQueuesEarly(r) ==
    /\ req[r].pc = "certified"
    /\ req[r].from \in MandatoryStages => req[r].from \in complete[req[r].unit]
    /\ Step(r, "checked")
    /\ tasks' = IF req[r].to \in SITE_STAGES
                THEN tasks \cup {<<req[r].unit, req[r].to>>} ELSE tasks
    /\ UNCHANGED <<unitVars, trailVars, shipmentVars>>

\* get_incomplete_mandatory for the stage the unit was loaded in.
TransitionChecklistGate(r) ==
    /\ req[r].pc = "certified"
    /\ req[r].from \in MandatoryStages => req[r].from \in complete[req[r].unit]
    /\ Step(r, "checked")
    /\ UNCHANGED <<unitVars, trailVars, shipmentVars, tasks>>

\* ensure_handover_document: every mandatory item of every stage.
TransitionHandoverGate(r) ==
    /\ req[r].pc = "checked"
    /\ req[r].to = "ACTIVE"
    /\ MandatoryStages \subseteq complete[req[r].unit]
    /\ Step(r, "documented")
    /\ UNCHANGED <<unitVars, trailVars, shipmentVars, tasks>>

AlwaysReady(r) == req[r].pc \in {"checked", "documented"}

ReadyToCommit(r) ==
    \/ req[r].pc = "checked" /\ req[r].to # "ACTIVE"
    \/ req[r].pc = "documented"

\* The same rows with the history row in a transaction of its own.
TransitionCommitInTwo(r) ==
    /\ ReadyToCommit(r)
    /\ LET u == req[r].unit
           e == <<req[r].from, req[r].to>>
       IN  /\ stage' = [stage EXCEPT ![u] = e[2]]
           /\ \/ history' = [history EXCEPT ![u] = @ \cup {e}]
              \/ UNCHANGED history
           /\ active' = IF e[2] = "ACTIVE" THEN active \cup {u} ELSE active
           /\ certs' = IF req[r].pc = "documented"
                       THEN [certs EXCEPT ![u] = @ \cup {
                               <<"FINAL_ACCEPTANCE", "AUTO_HANDOVER_DOCUMENT">>}]
                       ELSE certs
           /\ IF e[2] \in SITE_STAGES THEN Step(r, "transitioned")
                                      ELSE Become(r, Idle)
    /\ UNCHANGED <<units, deleted, placedIn, complete, shipmentVars, tasks>>

\* The same with a task for every stage.
TransitionCommitCallsAlways(r) ==
    /\ ReadyToCommit(r)
    /\ LET u == req[r].unit
           e == <<req[r].from, req[r].to>>
       IN  /\ stage' = [stage EXCEPT ![u] = e[2]]
           /\ history' = [history EXCEPT ![u] = @ \cup {e}]
           /\ active' = IF e[2] = "ACTIVE" THEN active \cup {u} ELSE active
           /\ certs' = IF req[r].pc = "documented"
                       THEN [certs EXCEPT ![u] = @ \cup {
                               <<"FINAL_ACCEPTANCE", "AUTO_HANDOVER_DOCUMENT">>}]
                       ELSE certs
           /\ Step(r, "transitioned")
    /\ UNCHANGED <<units, deleted, placedIn, complete, shipmentVars, tasks>>

\* The atomic block: unit, history row and handover certificate commit
\* together.  from is the stage loaded, which may not be the stage overwritten.
\* Leaving the block, a handler that entered a site stage has a task to queue.
TransitionCommit(r) ==
    /\ ReadyToCommit(r)
    /\ LET u == req[r].unit
           e == <<req[r].from, req[r].to>>
       IN  /\ stage' = [stage EXCEPT ![u] = e[2]]
           /\ history' = [history EXCEPT ![u] = @ \cup {e}]
           /\ active' = IF e[2] = "ACTIVE" THEN active \cup {u} ELSE active
           /\ certs' = IF req[r].pc = "documented"
                       THEN [certs EXCEPT ![u] = @ \cup {
                               <<"FINAL_ACCEPTANCE", "AUTO_HANDOVER_DOCUMENT">>}]
                       ELSE certs
           /\ IF e[2] \in SITE_STAGES THEN Step(r, "transitioned")
                                      ELSE Become(r, Idle)
    /\ UNCHANGED <<units, deleted, placedIn, complete, shipmentVars, tasks>>

\* auto_assign_engineer_task.delay, after the commit and outside it.
QueueEngineerTask(r) ==
    /\ req[r].pc = "transitioned"
    /\ tasks' = tasks \cup {<<req[r].unit, req[r].to>>}
    /\ Become(r, Idle)
    /\ UNCHANGED <<unitVars, trailVars, shipmentVars>>

----------------------------------------------------------------------------
(* Shipments.                                                              *)

\* create_shipment: the payload may name a warehouse and a site already.
CreateShipment(s, places) ==
    /\ s \notin shipments
    /\ shipments' = shipments \cup {s}
    /\ status' = [status EXCEPT ![s] = "CREATED"]
    /\ bound' = [p \in Place |-> IF p \in places THEN bound[p] \cup {s}
                                 ELSE bound[p]]
    /\ UNCHANGED <<unitVars, trailVars, documents, items, req, tasks>>

\* upload_shipment_document.
UploadDocument(s, d) ==
    /\ s \in shipments
    /\ documents' = [documents EXCEPT ![s] = @ \cup {d}]
    /\ UNCHANGED <<unitVars, trailVars, shipments, status, bound, items, req, tasks>>

\* assign_unit_to_shipment (a group of one) and assign_units_to_shipment_bulk:
\* the checks, each of them made before the atomic block opens.
AssignLoad(r, s, group) ==
    /\ IsIdle(r)
    /\ s \in shipments
    /\ group # {} /\ group \subseteq Live
    /\ \A u \in group, t \in Shipment : <<t, u>> \notin items
    /\ Become(r, [pc |-> "assigning", ship |-> s, group |-> group,
                  rewrite |-> {u \in group : stage[u] # "SHIPMENT_ASSIGNED"}])
    /\ UNCHANGED <<unitVars, trailVars, shipmentVars, tasks>>

\* The bulk loop gets every unit again.  The session's identity map is weak: a
\* unit no variable of the handler holds any more is read anew, and left where
\* it is if it was deleted meanwhile.  Only the unit of a group of one is held
\* until its turn.
AssignReread(r, u) ==
    /\ req[r].pc = "assigning"
    /\ u \in req[r].group
    /\ req[r].group # {u}
    /\ Become(r, [req[r] EXCEPT
           !.rewrite = IF u \in Live /\ stage[u] # "SHIPMENT_ASSIGNED"
                       THEN @ \cup {u} ELSE @ \ {u}])
    /\ UNCHANGED <<unitVars, trailVars, shipmentVars, tasks>>

NeverViolated(r) == FALSE

\* uq_shipment_items_bess_unit_id, as the INSERTs find the table.
ViolatesUnique(r) ==
    \E u \in req[r].group, t \in Shipment : <<t, u>> \in items

\* The assignment of current_stage after the loop instead of in it.
AssignCommitLastOnly(r) ==
    /\ req[r].pc = "assigning"
    /\ ~ViolatesUnique(r)
    /\ items' = items \cup ({req[r].ship} \X req[r].group)
    /\ \E last \in req[r].group : stage' = [stage EXCEPT ![last] = "SHIPMENT_ASSIGNED"]
    /\ Become(r, Idle)
    /\ UNCHANGED <<units, active, deleted, placedIn, trailVars, shipments, status,
                   bound, documents, tasks>>

\* Every item of the group and the stages to write, or nothing.
AssignCommit(r) ==
    /\ req[r].pc = "assigning"
    /\ ~ViolatesUnique(r)
    /\ items' = items \cup ({req[r].ship} \X req[r].group)
    /\ stage' = [u \in Unit |-> IF u \in req[r].rewrite THEN "SHIPMENT_ASSIGNED"
                                ELSE stage[u]]
    /\ Become(r, Idle)
    /\ UNCHANGED <<units, active, deleted, placedIn, trailVars, shipments, status,
                   bound, documents, tasks>>

StatusLoadUnguarded(r, s, to) ==
    /\ IsIdle(r)
    /\ s \in shipments
    /\ Become(r, [pc |-> "status_read", ship |-> s, to |-> to,
                  writes |-> status[s] # to, rewrite |-> {}])
    /\ UNCHANGED <<unitVars, trailVars, shipmentVars, tasks>>

\* update_shipment_status: the load and the one condition it checks.
StatusLoad(r, s, to) ==
    /\ IsIdle(r)
    /\ s \in shipments
    /\ to = "DISPATCHED_TO_SITE" => s \in bound["site"]
    /\ Become(r, [pc |-> "status_read", ship |-> s, to |-> to,
                  writes |-> status[s] # to, rewrite |-> {}])
    /\ UNCHANGED <<unitVars, trailVars, shipmentVars, tasks>>

\* The flush of shipment.status, which waits for the row lock if it writes,
\* then the SELECT of the linked items and their units.
StatusFlush(r) ==
    /\ req[r].pc = "status_read"
    /\ req[r].writes => ~Locked(req[r].ship)
    /\ Become(r, [req[r] EXCEPT
           !.pc = "status_flushed",
           !.rewrite = IF MovesUnits(req[r].to)
                       THEN {u \in Linked(req[r].ship) \ deleted :
                                 stage[u] # STATUS_TO_BESS_STAGE(req[r].to)}
                       ELSE {}])
    /\ UNCHANGED <<unitVars, trailVars, shipmentVars, tasks>>

\* The UPDATE of the units, and the commit.  No stage_history row is written.
StatusCommit(r) ==
    /\ req[r].pc = "status_flushed"
    /\ status' = IF req[r].writes THEN [status EXCEPT ![req[r].ship] = req[r].to]
                                  ELSE status
    /\ stage' = [u \in Unit |-> IF u \in req[r].rewrite
                                THEN STATUS_TO_BESS_STAGE(req[r].to) ELSE stage[u]]
    /\ Become(r, Idle)
    /\ UNCHANGED <<units, active, deleted, placedIn, trailVars, shipments, bound,
                   documents, items, tasks>>

\* assign_shipment_warehouse and assign_shipment_site: the linked units as they
\* are listed.  A unit that already has this very place is not written again.
PlaceLoad(r, s, p) ==
    /\ IsIdle(r)
    /\ s \in shipments
    /\ \E same \in SUBSET (Linked(s) \cap placedIn[p]) :
           Become(r, [pc |-> "placing", ship |-> s, place |-> p,
                      rewrite |-> (Linked(s) \ deleted) \ same])
    /\ UNCHANGED <<unitVars, trailVars, shipmentVars, tasks>>

PlaceCommit(r) ==
    /\ req[r].pc = "placing"
    /\ ~Locked(req[r].ship)
    /\ bound' = [bound EXCEPT ![req[r].place] = @ \cup {req[r].ship}]
    /\ placedIn' = [placedIn EXCEPT ![req[r].place] = @ \cup req[r].rewrite]
    /\ Become(r, Idle)
    /\ UNCHANGED <<units, stage, active, deleted, trailVars, shipments, status,
                   documents, items, tasks>>

\* A check failed, a constraint was violated, the client went away or the
\* worker died: the transaction rolls back, and what was committed stays.
Fail(r) ==
    /\ ~IsIdle(r)
    /\ Become(r, Idle)
    /\ UNCHANGED <<unitVars, trailVars, shipmentVars, tasks>>

----------------------------------------------------------------------------

UnitStep(u) ==
    \/ \E places \in SUBSET EditInputs : CreateUnit(u, places)
    \/ \E p \in EditInputs : UpdateUnit(u, p)
    \/ DeleteUnit(u)
    \/ \E s \in CertificateInputs : AddCertificate(u, s)
    \/ \E s \in MandatoryStages : UpdateChecklist(u, s)

ShipmentStep(s) ==
    \/ \E places \in SUBSET PlaceInputs : CreateShipment(s, places)
    \/ \E d \in DocumentInputs : UploadDocument(s, d)

RequestStart(r) ==
    \/ \E u \in Unit, to \in TransitionTargets : TransitionLoad(r, u, to)
    \/ \E s \in Shipment, group \in SUBSET Unit : AssignLoad(r, s, group)
    \/ \E s \in Shipment, to \in StatusInputs : StatusLoad(r, s, to)
    \/ \E s \in Shipment, p \in PlaceInputs : PlaceLoad(r, s, p)

RequestStep(r) ==
    \/ TransitionCertificateGate(r)
    \/ TransitionChecklistGate(r)
    \/ TransitionHandoverGate(r)
    \/ TransitionCommit(r)
    \/ QueueEngineerTask(r)
    \/ \E u \in Unit : AssignReread(r, u)
    \/ AssignCommit(r)
    \/ StatusFlush(r)
    \/ StatusCommit(r)
    \/ PlaceCommit(r)
    \/ Fail(r)

Next ==
    \/ \E u \in Unit : UnitStep(u)
    \/ \E s \in Shipment : ShipmentStep(s)
    \/ \E r \in Request : RequestStart(r) \/ RequestStep(r)

Spec == Init /\ [][Next]_vars

----------------------------------------------------------------------------
(* Safety.                                                                 *)

Entered(u, s) == \E p \in Stage : <<p, s>> \in history[u]

\* A unit is where its history or its shipment put it: off FACTORY_REGISTERED,
\* either the transition API recorded its entry into the current stage, or it
\* is linked and the stage is one a shipment writes.
StageProvenance ==
    \A u \in Unit :
        \/ stage[u] = "FACTORY_REGISTERED"
        \/ Entered(u, stage[u])
        \/ stage[u] \in ShipmentStages /\ \E s \in Shipment : <<s, u>> \in items

\* stage_history has no hole past the stages a shipment writes: a row that
\* leaves such a stage follows the row that entered it, whatever the other
\* requests overwrote between this handler's read and its commit.
TrailUnbroken ==
    \A u \in Unit : \A e \in history[u] :
        e[1] \in GatedStages => Entered(u, e[1])

\* Every history row out of PORT_ARRIVED, PORT_CLEARED or WAREHOUSE_STORED has
\* a certificate behind it, although the count and the commit are apart.
CertificateGate ==
    \A u \in Unit : \A e \in history[u] :
        e[1] \in LOGISTICS_CERT_REQUIRED_STAGES =>
            \E k \in CertificateKind : <<e[1], k>> \in certs[u]

\* is_active means accepted: the flag, the acceptance row and the handover
\* certificate come together, and a unit in stage ACTIVE has the flag.
ActivationJustified ==
    \A u \in Unit :
        /\ u \in active <=> <<"FINAL_ACCEPTANCE", "ACTIVE">> \in history[u]
        /\ u \in active =>
               <<"FINAL_ACCEPTANCE", "AUTO_HANDOVER_DOCUMENT">> \in certs[u]
        /\ stage[u] = "ACTIVE" => u \in active

\* "One BESS can be linked to only one shipment globally", however the checks
\* and the inserts of concurrent single and bulk assignments interleave.
OneShipmentPerUnit ==
    \A s, t \in Shipment, u \in Unit :
        <<s, u>> \in items /\ <<t, u>> \in items => s = t

\* A unit that is carried by a shipment, and not deleted, has left the factory
\* stage for good, whatever moved it between the handler's read of its stage,
\* the second read of a bulk assignment and the commit.
LinkedUnitsLeftFactory ==
    \A u \in Live : (\E s \in Shipment : <<s, u>> \in items) =>
                    stage[u] # "FACTORY_REGISTERED"

\* A shipment on its way to the site has a site, although the site was checked
\* on a row read earlier.
DispatchHasSite ==
    \A s \in Shipment : status[s] = "DISPATCHED_TO_SITE" => s \in bound["site"]

\* An engineer is only called to a stage whose entry is committed.
TasksFollowHistory == \A t \in tasks : Entered(t[1], t[2])

\* The requests that will write current_stage of u, if they commit.
WillWrite(r, u) ==
    \/ /\ req[r].pc \in {"loaded", "certified", "checked", "documented"}
       /\ req[r].unit = u
    \/ /\ req[r].pc \in {"assigning", "status_flushed"}
       /\ u \in req[r].rewrite

Writers(u) == {r \in Request : WillWrite(r, u)}

\* A deleted unit comes to rest: no handler picks it up, and each change of its
\* stage uses up one of the requests that had read it before it was deleted.
DeletedUnitsDrain ==
    [][\A u \in deleted :
           /\ Writers(u)' \subseteq Writers(u)
           /\ stage'[u] # stage[u] => Writers(u)' # Writers(u)]_vars

\* What the auditor reads is a sound ledger (StageLedger).
Ledger == INSTANCE StageLedger WITH ledger <- history, evidence <- certs, live <- active

LedgerImplemented == Ledger!Spec

----------------------------------------------------------------------------
(* What the documents say and the code does not do.                        *)

\* API_FLOW_GUIDE.md: "Transition is allowed only to the exact next stage."
TransitionsAreExactNext ==
    [][\A u \in Unit : history'[u] # history[u] =>
                       <<stage[u], stage'[u]>> \in STAGE_TRANSITIONS]_vars

\* API_FLOW_GUIDE.md: to set PACKED, the backend enforces assigned_units >=
\* expected_quantity and at least one uploaded document.
PackedShipmentsAreComplete ==
    \A s \in Shipment : status[s] = "PACKED" =>
        /\ Cardinality(Linked(s)) >= ExpectedQuantity
        /\ documents[s] # {}
============================================================================
