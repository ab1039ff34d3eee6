------------------------ MODULE BessLifecycleProofs ------------------------
(***************************************************************************)
(* Proofs about BessLifecycle for every set of units, shipments, requests, *)
(* inputs and mandatory stages.                                            *)
(***************************************************************************)
EXTENDS BessLifecycle, TLAPS

----------------------------------------------------------------------------
(* Facts about the stages and about the records of the requests.           *)

\* A legal transition joins two stages, never re-enters the factory stage, and
\* reaches ACTIVE from FINAL_ACCEPTANCE only.
LEMMA TransitionFacts ==
    \A a, b : <<a, b>> \in STAGE_TRANSITIONS =>
        /\ a \in Stage /\ b \in Stage
        /\ b # "FACTORY_REGISTERED"
        /\ b = "ACTIVE" => a = "FINAL_ACCEPTANCE"
  BY DEF STAGE_TRANSITIONS, Stage

\* Every element of STAGE_TRANSITIONS is a pair.
LEMMA TransitionPairs ==
    \A e \in STAGE_TRANSITIONS : e = <<e[1], e[2]>>
  BY DEF STAGE_TRANSITIONS

\* What a shipment writes is a stage of its own kind, disjoint from the stages
\* the transition API alone reaches.
LEMMA StageFacts ==
    /\ "FACTORY_REGISTERED" \in Stage
    /\ "SHIPMENT_ASSIGNED" \in ShipmentStages
    /\ ShipmentStages \subseteq Stage
    /\ "FACTORY_REGISTERED" \notin ShipmentStages
    /\ "FACTORY_REGISTERED" \notin GatedStages
    /\ "ACTIVE" \in GatedStages
    /\ SITE_STAGES \subseteq Stage
    /\ \A s \in GatedStages : s \notin ShipmentStages
    /\ \A s \in ShipmentStatus : MovesUnits(s) =>
           STATUS_TO_BESS_STAGE(s) \in ShipmentStages
  BY DEF Stage, GatedStages, ShipmentStages, SITE_STAGES, ShipmentStatus,
         MovesUnits, STATUS_TO_BESS_STAGE

\* pc tells which handler a request runs, and so what its record holds.
LEMMA RequestByPc ==
    ASSUME NEW x \in RequestState
    PROVE  /\ x.pc \in {"loaded", "certified", "checked", "documented", "transitioned"}
              => x \in TransitionRequest
           /\ x.pc = "assigning" => x \in AssignRequest
           /\ x.pc \in {"status_read", "status_flushed"} => x \in StatusRequest
           /\ x.pc = "placing" => x \in PlaceRequest
  BY DEF RequestState, Idle, TransitionRequest, AssignRequest, StatusRequest,
         PlaceRequest

----------------------------------------------------------------------------
(* The inductive invariant: what holds of the database, and what a request *)
(* in flight may still rely on when it commits.                            *)

CertifiedIn(u, s) == \E k \in CertificateKind : <<s, k>> \in certs[u]

\* What the checks of a transition established is still true: certificates and
\* history rows are never taken back, although stages are.
TransitionSound(x) ==
    /\ <<x.from, x.to>> \in STAGE_TRANSITIONS
    /\ x.from \in GatedStages => Entered(x.unit, x.from)
    /\ x.pc # "loaded" /\ x.from \in LOGISTICS_CERT_REQUIRED_STAGES =>
           CertifiedIn(x.unit, x.from)
    /\ x.pc = "documented" => x.to = "ACTIVE"
    /\ x.pc = "transitioned" => x.to \in SITE_STAGES /\ Entered(x.unit, x.to)

\* A unit of the group that would not be written is off the factory stage.
AssignSound(x) ==
    /\ x.group \subseteq units
    /\ x.rewrite \subseteq x.group
    /\ \A u \in x.group \cap Live :
           u \in x.rewrite \/ stage[u] # "FACTORY_REGISTERED"

StatusSound(x) ==
    /\ x.to = "DISPATCHED_TO_SITE" => x.ship \in bound["site"]
    /\ x.rewrite \subseteq Linked(x.ship)
    /\ x.rewrite # {} => MovesUnits(x.to)

RequestSound(r) ==
    /\ req[r] \in TransitionRequest => TransitionSound(req[r])
    /\ req[r] \in AssignRequest => AssignSound(req[r])
    /\ req[r] \in StatusRequest => StatusSound(req[r])

InFlight == \A r \in Request : RequestSound(r)

\* Only registered units are deleted or carried.
Registered == deleted \subseteq units /\ items \subseteq Shipment \X units

IInv ==
    /\ TypeOK
    /\ InFlight
    /\ Registered
    /\ StageProvenance
    /\ TrailUnbroken
    /\ CertificateGate
    /\ ActivationJustified
    /\ OneShipmentPerUnit
    /\ LinkedUnitsLeftFactory
    /\ DispatchHasSite
    /\ TasksFollowHistory

----------------------------------------------------------------------------
(* Types.                                                                  *)

\* The seeded database is well typed.
LEMMA TypeInit == Init => TypeOK
  <1>1. SeedCertificates \in SUBSET (Stage \X CertificateKind)
    <2>1. LOGISTICS_CERT_REQUIRED_STAGES \subseteq Stage /\ "UPLOADED" \in CertificateKind
      BY DEF LOGISTICS_CERT_REQUIRED_STAGES, Stage, CertificateKind
    <2> QED
      BY <2>1 DEF SeedCertificates
  <1>2. "CREATED" \in ShipmentStatus /\ "SITE_ARRIVED" \in ShipmentStatus
    BY DEF ShipmentStatus
  <1>3. Idle \in RequestState
    BY DEF RequestState
  <1>4. Init => shipments \subseteq Shipment
    BY SeedAssumption DEF Init
  <1> QED
    BY <1>1, <1>2, <1>3, <1>4, SeedAssumption, StageFacts DEF Init, TypeOK

\* A request that moves to another pc of the same handler keeps its type.
LEMMA StepType ==
    ASSUME TypeOK, NEW r \in Request, NEW pc, Step(r, pc),
           \/ /\ req[r] \in TransitionRequest
              /\ pc \in {"certified", "checked", "documented", "transitioned"}
    PROVE  req' \in [Request -> RequestState]
  <1>1. [req[r] EXCEPT !.pc = pc] \in RequestState
    BY DEF TransitionRequest, RequestState
  <1>2. req \in [Request -> RequestState]
    BY DEF TypeOK
  <1> QED
    BY <1>1, <1>2 DEF Step

\* A request that takes on a state of RequestState keeps req in its type.
LEMMA BecomeType ==
    ASSUME TypeOK, NEW r \in Request, NEW x \in RequestState, Become(r, x)
    PROVE  req' \in [Request -> RequestState]
  BY DEF TypeOK, Become

\* Idle is a request state.
LEMMA IdleType == Idle \in RequestState
  BY DEF RequestState

\* Each action keeps every variable in its type.
LEMMA TypeStep == TypeOK /\ InFlight /\ [Next]_vars => TypeOK'
  <1> SUFFICES ASSUME TypeOK, InFlight, [Next]_vars PROVE TypeOK'
    OBVIOUS
  <1> USE DEF unitVars, trailVars, shipmentVars
  <1>1. ASSUME NEW u \in Unit, UnitStep(u) PROVE TypeOK'
    <2>1. ASSUME NEW places \in SUBSET EditInputs, CreateUnit(u, places) PROVE TypeOK'
      BY <2>1, StageFacts DEF CreateUnit, TypeOK
    <2>2. ASSUME NEW p \in EditInputs, UpdateUnit(u, p) PROVE TypeOK'
      BY <2>2 DEF UpdateUnit, TypeOK
    <2>3. ASSUME DeleteUnit(u) PROVE TypeOK'
      BY <2>3 DEF DeleteUnit, TypeOK
    <2>4. ASSUME NEW s \in CertificateInputs, AddCertificate(u, s) PROVE TypeOK'
      BY <2>4, InputAssumption DEF AddCertificate, TypeOK, CertificateKind
    <2>5. ASSUME NEW s \in MandatoryStages, UpdateChecklist(u, s) PROVE TypeOK'
      BY <2>5 DEF UpdateChecklist, TypeOK
    <2> QED
      BY <1>1, <2>1, <2>2, <2>3, <2>4, <2>5 DEF UnitStep
  <1>2. ASSUME NEW s \in Shipment, ShipmentStep(s) PROVE TypeOK'
    <2>1. ASSUME NEW places \in SUBSET PlaceInputs, CreateShipment(s, places) PROVE TypeOK'
      BY <2>1 DEF CreateShipment, TypeOK, ShipmentStatus
    <2>2. ASSUME NEW d \in DocumentInputs, UploadDocument(s, d) PROVE TypeOK'
      BY <2>2, InputAssumption DEF UploadDocument, TypeOK
    <2> QED
      BY <1>2, <2>1, <2>2 DEF ShipmentStep
  <1>3. ASSUME NEW r \in Request, RequestStart(r) PROVE TypeOK'
    <2>1. ASSUME NEW u \in Unit, NEW to \in TransitionTargets, TransitionLoad(r, u, to)
          PROVE TypeOK'
      <3> DEFINE x == [pc |-> "loaded", unit |-> u, from |-> stage[u], to |-> to]
      <3>1. x \in RequestState
        BY InputAssumption DEF TypeOK, RequestState, TransitionRequest
      <3> QED
        BY <2>1, <3>1, BecomeType DEF TransitionLoad, TypeOK
    <2>2. ASSUME NEW s \in Shipment, NEW group \in SUBSET Unit, AssignLoad(r, s, group)
          PROVE TypeOK'
      <3> DEFINE x == [pc |-> "assigning", ship |-> s, group |-> group,
                       rewrite |-> {u \in group : stage[u] # "SHIPMENT_ASSIGNED"}]
      <3>1. x \in RequestState
        BY DEF RequestState, AssignRequest
      <3> QED
        BY <2>2, <3>1, BecomeType DEF AssignLoad, TypeOK
    <2>3. ASSUME NEW s \in Shipment, NEW to \in StatusInputs, StatusLoad(r, s, to)
          PROVE TypeOK'
      <3> DEFINE x == [pc |-> "status_read", ship |-> s, to |-> to,
                       writes |-> status[s] # to, rewrite |-> {}]
      <3>1. x \in RequestState
        BY InputAssumption DEF RequestState, StatusRequest
      <3> QED
        BY <2>3, <3>1, BecomeType DEF StatusLoad, TypeOK
    <2>4. ASSUME NEW s \in Shipment, NEW p \in PlaceInputs, PlaceLoad(r, s, p)
          PROVE TypeOK'
      <3>1. PICK same \in SUBSET (Linked(s) \cap placedIn[p]) :
              Become(r, [pc |-> "placing", ship |-> s, place |-> p,
                         rewrite |-> (Linked(s) \ deleted) \ same])
        BY <2>4 DEF PlaceLoad
      <3> DEFINE x == [pc |-> "placing", ship |-> s, place |-> p,
                       rewrite |-> (Linked(s) \ deleted) \ same]
      <3>2. x \in RequestState
        BY InputAssumption DEF RequestState, PlaceRequest, Linked
      <3> QED
        BY <2>4, <3>1, <3>2, BecomeType DEF PlaceLoad, TypeOK
    <2> QED
      BY <1>3, <2>1, <2>2, <2>3, <2>4 DEF RequestStart
  <1>4. ASSUME NEW r \in Request, RequestStep(r) PROVE TypeOK'
    <2>0. req[r] \in RequestState
      BY DEF TypeOK
    <2>1. CASE TransitionCertificateGate(r)
      <3>1. req[r] \in TransitionRequest
        BY <2>0, <2>1, RequestByPc DEF TransitionCertificateGate
      <3> QED
        BY <2>1, <3>1, StepType DEF TransitionCertificateGate, TypeOK
    <2>2. CASE TransitionChecklistGate(r)
      <3>1. req[r] \in TransitionRequest
        BY <2>0, <2>2, RequestByPc DEF TransitionChecklistGate
      <3> QED
        BY <2>2, <3>1, StepType DEF TransitionChecklistGate, TypeOK
    <2>3. CASE TransitionHandoverGate(r)
      <3>1. req[r] \in TransitionRequest
        BY <2>0, <2>3, RequestByPc DEF TransitionHandoverGate
      <3> QED
        BY <2>3, <3>1, StepType DEF TransitionHandoverGate, TypeOK
    <2>4. CASE TransitionCommit(r)
      <3> DEFINE u == req[r].unit
                 e == <<req[r].from, req[r].to>>
                 h == <<"FINAL_ACCEPTANCE", "AUTO_HANDOVER_DOCUMENT">>
      <3>1. req[r] \in TransitionRequest
        BY <2>0, <2>4, RequestByPc DEF TransitionCommit, ReadyToCommit
      <3>2. u \in Unit /\ e[1] \in Stage /\ e[2] \in Stage
        BY <3>1 DEF TransitionRequest
      <3>3. e \in STAGE_TRANSITIONS
        BY <3>1 DEF InFlight, RequestSound, TransitionSound
      <3>4. h \in Stage \X CertificateKind
        BY DEF Stage, CertificateKind
      <3>5. req' \in [Request -> RequestState]
        BY <2>4, <3>1, StepType, BecomeType, IdleType DEF TransitionCommit
      <3> QED
        BY <2>4, <3>2, <3>3, <3>4, <3>5 DEF TransitionCommit, TypeOK
    <2>5. CASE QueueEngineerTask(r)
      <3>1. req[r] \in TransitionRequest
        BY <2>0, <2>5, RequestByPc DEF QueueEngineerTask
      <3>2. <<req[r].unit, req[r].to>> \in Unit \X SITE_STAGES
        BY <2>5, <3>1 DEF InFlight, RequestSound, TransitionSound, TransitionRequest, QueueEngineerTask
      <3> QED
        BY <2>5, <3>2, IdleType, BecomeType DEF QueueEngineerTask, TypeOK
    <2>6. ASSUME NEW u \in Unit, AssignReread(r, u) PROVE TypeOK'
      <3>1. req[r] \in AssignRequest
        BY <2>0, <2>6, RequestByPc DEF AssignReread
      <3> DEFINE rewrite == IF u \in Live /\ stage[u] # "SHIPMENT_ASSIGNED"
                            THEN req[r].rewrite \cup {u} ELSE req[r].rewrite \ {u}
                 x == [req[r] EXCEPT !.rewrite = rewrite]
      <3>2. x \in RequestState
        BY <3>1 DEF AssignRequest, RequestState
      <3> QED
        BY <2>6, <3>2, BecomeType DEF AssignReread, TypeOK
    <2>7. CASE AssignCommit(r)
      <3>1. req[r] \in AssignRequest
        BY <2>0, <2>7, RequestByPc DEF AssignCommit
      <3>2. {req[r].ship} \X req[r].group \subseteq Shipment \X Unit
        BY <3>1 DEF AssignRequest
      <3> QED
        BY <2>7, <3>2, IdleType, BecomeType, StageFacts DEF AssignCommit, TypeOK
    <2>8. CASE StatusFlush(r)
      <3>1. req[r] \in StatusRequest
        BY <2>0, <2>8, RequestByPc DEF StatusFlush
      <3> DEFINE rewrite == IF MovesUnits(req[r].to)
                            THEN {u \in Linked(req[r].ship) \ deleted :
                                      stage[u] # STATUS_TO_BESS_STAGE(req[r].to)}
                            ELSE {}
                 x == [req[r] EXCEPT !.pc = "status_flushed", !.rewrite = rewrite]
      <3>2. rewrite \subseteq Unit
        BY DEF Linked
      <3>3. x \in RequestState
        BY <3>1, <3>2 DEF StatusRequest, RequestState
      <3> QED
        BY <2>8, <3>3, BecomeType DEF StatusFlush, TypeOK
    <2>9. CASE StatusCommit(r)
      <3>1. req[r] \in StatusRequest
        BY <2>0, <2>9, RequestByPc DEF StatusCommit
      <3>2. STATUS_TO_BESS_STAGE(req[r].to) \in Stage \/ req[r].rewrite = {}
        BY <3>1, StageFacts DEF InFlight, RequestSound, StatusSound, StatusRequest
      <3> QED
        BY <2>9, <3>1, <3>2, IdleType, BecomeType
        DEF StatusCommit, TypeOK, StatusRequest
    <2>10. CASE PlaceCommit(r)
      <3>1. req[r] \in PlaceRequest
        BY <2>0, <2>10, RequestByPc DEF PlaceCommit
      <3> QED
        BY <2>10, <3>1, IdleType, BecomeType DEF PlaceCommit, TypeOK, PlaceRequest
    <2>11. CASE Fail(r)
      BY <2>11, IdleType, BecomeType DEF Fail, TypeOK
    <2> QED
      BY <1>4, <2>1, <2>2, <2>3, <2>4, <2>5, <2>6, <2>7, <2>8, <2>9, <2>10, <2>11
      DEF RequestStep
  <1>5. CASE UNCHANGED vars
    BY <1>5 DEF vars, TypeOK
  <1> QED
    BY <1>1, <1>2, <1>3, <1>4, <1>5 DEF Next

----------------------------------------------------------------------------
(* What no step undoes.                                                    *)

Evolves ==
    /\ \A u \in Unit : history[u] \subseteq history'[u] /\ certs[u] \subseteq certs'[u]
    /\ units \subseteq units'
    /\ items \subseteq items'
    /\ bound["site"] \subseteq bound'["site"]
    /\ Live' \cap units \subseteq Live
    /\ \A u \in units : stage[u] # "FACTORY_REGISTERED" =>
                        stage'[u] # "FACTORY_REGISTERED"

\* A request that does not move stays sound whatever the others commit.
LEMMA OthersStaySound ==
    ASSUME TypeOK, TypeOK', InFlight, Evolves,
           \A q \in Request : req'[q] = req[q] \/ RequestSound(q)'
    PROVE  InFlight'
  <1> SUFFICES ASSUME NEW q \in Request, req'[q] = req[q] PROVE RequestSound(q)'
    BY DEF InFlight
  <1>0. RequestSound(q)
    BY DEF InFlight
  <1>1. ASSUME req[q] \in TransitionRequest PROVE TransitionSound(req[q])'
    BY <1>0, <1>1 DEF RequestSound, TransitionSound, TransitionRequest, Evolves,
                      Entered, CertifiedIn
  <1>2. ASSUME req[q] \in AssignRequest PROVE AssignSound(req[q])'
    BY <1>0, <1>2 DEF RequestSound, AssignSound, AssignRequest, Evolves
  <1>3. ASSUME req[q] \in StatusRequest PROVE StatusSound(req[q])'
    BY <1>0, <1>3 DEF RequestSound, StatusSound, StatusRequest, Evolves, Linked
  <1> QED
    BY <1>0, <1>1, <1>2, <1>3 DEF RequestSound

\* A step that only moves one request preserves IInv if that request stays sound.
LEMMA RequestOnly ==
    ASSUME IInv, TypeOK', UNCHANGED <<unitVars, trailVars, shipmentVars, tasks>>,
           NEW r \in Request, \A q \in Request \ {r} : req'[q] = req[q],
           RequestSound(r)'
    PROVE  IInv'
  <1> USE DEF unitVars, trailVars, shipmentVars
  <1>1. Evolves
    BY DEF Evolves, Live
  <1>2. InFlight'
    BY <1>1, OthersStaySound DEF IInv
  <1>3. /\ Registered' /\ StageProvenance' /\ TrailUnbroken' /\ CertificateGate'
        /\ ActivationJustified' /\ OneShipmentPerUnit' /\ LinkedUnitsLeftFactory'
        /\ DispatchHasSite' /\ TasksFollowHistory'
    BY DEF IInv, Registered, StageProvenance, TrailUnbroken, CertificateGate,
           ActivationJustified, OneShipmentPerUnit, LinkedUnitsLeftFactory,
           DispatchHasSite, TasksFollowHistory, Entered, Live
  <1> QED
    BY <1>2, <1>3 DEF IInv

\* The sets of records are told apart by pc.
LEMMA RequestKinds ==
    /\ Idle \notin TransitionRequest \cup AssignRequest \cup StatusRequest
    /\ \A x \in TransitionRequest :
           /\ x.pc \in {"loaded", "certified", "checked", "documented", "transitioned"}
           /\ x \notin AssignRequest /\ x \notin StatusRequest
    /\ \A x \in AssignRequest :
           x.pc = "assigning" /\ x \notin TransitionRequest /\ x \notin StatusRequest
    /\ \A x \in StatusRequest :
           /\ x.pc \in {"status_read", "status_flushed"}
           /\ x \notin TransitionRequest /\ x \notin AssignRequest
    /\ \A x \in PlaceRequest :
           /\ x \notin TransitionRequest /\ x \notin AssignRequest
           /\ x \notin StatusRequest
  BY DEF Idle, TransitionRequest, AssignRequest, StatusRequest, PlaceRequest

\* An idle request relies on nothing.
LEMMA IdleSound ==
    ASSUME TypeOK, NEW r \in Request, Become(r, Idle)
    PROVE  RequestSound(r)' /\ \A q \in Request \ {r} : req'[q] = req[q]
  BY RequestKinds DEF TypeOK, Become, RequestSound

----------------------------------------------------------------------------
(* The inductive invariant holds at the start and is preserved by each     *)
(* action.                                                                 *)

\* The seeded database satisfies the inductive invariant.
LEMMA InvInit == Init => IInv
  <1> SUFFICES ASSUME Init PROVE IInv
    OBVIOUS
  <1>1. TypeOK
    BY TypeInit
  <1>2. InFlight
    BY RequestKinds DEF Init, InFlight, RequestSound
  <1>3. StageProvenance
    BY SeedAssumption DEF Init, StageProvenance, Entered
  <1>4. TrailUnbroken
    BY SeedAssumption, StageFacts DEF Init, TrailUnbroken, Entered
  <1>5. CertificateGate
    <2> SUFFICES ASSUME NEW u \in SeedUnits, NEW e \in SeedTrail,
                        e[1] \in LOGISTICS_CERT_REQUIRED_STAGES
                 PROVE  <<e[1], "UPLOADED">> \in SeedCertificates
      BY SeedAssumption DEF Init, CertificateGate, CertificateKind
    <2>1. e = <<e[1], e[2]>> /\ e[2] \in Stage
      BY SeedAssumption, TransitionPairs, TransitionFacts
    <2> QED
      BY <2>1 DEF SeedCertificates
  <1>6. ActivationJustified
    BY SeedAssumption, TransitionFacts, StageFacts DEF Init, ActivationJustified
  <1>7. /\ Registered /\ OneShipmentPerUnit /\ LinkedUnitsLeftFactory
        /\ DispatchHasSite /\ TasksFollowHistory
    BY SeedAssumption
       DEF Init, Registered, OneShipmentPerUnit, LinkedUnitsLeftFactory,
           DispatchHasSite, TasksFollowHistory
  <1> QED
    BY <1>1, <1>2, <1>3, <1>4, <1>5, <1>6, <1>7 DEF IInv

\* Registering, editing, deleting and documenting a unit preserve it.
LEMMA UnitStepInv ==
    ASSUME IInv, TypeOK', NEW u \in Unit, UnitStep(u)
    PROVE  IInv'
  <1> USE DEF unitVars, trailVars, shipmentVars
  <1>1. ASSUME NEW places \in SUBSET EditInputs, CreateUnit(u, places) PROVE IInv'
    <2>1. Evolves
      BY <1>1 DEF CreateUnit, IInv, TypeOK, Registered, Evolves, Live
    <2>2. InFlight'
      BY <1>1, <2>1, OthersStaySound DEF CreateUnit, IInv
    <2>3. Registered' /\ OneShipmentPerUnit' /\ DispatchHasSite' /\ TasksFollowHistory'
      BY <1>1 DEF CreateUnit, IInv, Registered, OneShipmentPerUnit, DispatchHasSite,
                  TasksFollowHistory, Entered
    <2>4. TrailUnbroken' /\ CertificateGate'
      BY <1>1 DEF CreateUnit, IInv, TrailUnbroken, CertificateGate, Entered
    <2>5. \A v \in Unit : stage'[v] = IF v = u THEN "FACTORY_REGISTERED" ELSE stage[v]
      BY <1>1 DEF CreateUnit, IInv, TypeOK
    <2>6. StageProvenance'
      BY <1>1, <2>5 DEF CreateUnit, IInv, StageProvenance, Entered
    <2>7. ActivationJustified'
      BY <1>1, <2>5 DEF CreateUnit, IInv, ActivationJustified
    <2>8. LinkedUnitsLeftFactory'
      <3> SUFFICES ASSUME NEW v \in Live', NEW t \in Shipment, <<t, v>> \in items'
                   PROVE  stage'[v] # "FACTORY_REGISTERED"
        BY DEF LinkedUnitsLeftFactory
      <3>1. v \in units /\ v # u
        BY <1>1 DEF CreateUnit, IInv, Registered
      <3> QED
        BY <1>1, <2>5, <3>1 DEF CreateUnit, IInv, TypeOK, LinkedUnitsLeftFactory, Live
    <2> QED
      BY <2>2, <2>3, <2>4, <2>6, <2>7, <2>8 DEF IInv
  <1>2. ASSUME NEW p \in EditInputs, UpdateUnit(u, p) PROVE IInv'
    <2>1. Evolves
      BY <1>2 DEF UpdateUnit, Evolves, Live
    <2>2. InFlight'
      BY <1>2, <2>1, OthersStaySound DEF UpdateUnit, IInv
    <2> QED
      BY <1>2, <2>2 DEF UpdateUnit, IInv, Registered, StageProvenance, TrailUnbroken,
           CertificateGate, ActivationJustified, OneShipmentPerUnit,
           LinkedUnitsLeftFactory, DispatchHasSite, TasksFollowHistory, Entered, Live
  <1>3. ASSUME DeleteUnit(u) PROVE IInv'
    <2>1. Evolves
      BY <1>3 DEF DeleteUnit, Evolves, Live
    <2>2. InFlight'
      BY <1>3, <2>1, OthersStaySound DEF DeleteUnit, IInv
    <2> QED
      BY <1>3, <2>2 DEF DeleteUnit, IInv, Registered, StageProvenance, TrailUnbroken,
           CertificateGate, ActivationJustified, OneShipmentPerUnit,
           LinkedUnitsLeftFactory, DispatchHasSite, TasksFollowHistory, Entered, Live
  <1>4. ASSUME NEW s \in CertificateInputs, AddCertificate(u, s) PROVE IInv'
    <2>1. Evolves
      BY <1>4 DEF AddCertificate, IInv, TypeOK, Evolves, Live
    <2>2. InFlight'
      BY <1>4, <2>1, OthersStaySound DEF AddCertificate, IInv
    <2>3. CertificateGate' /\ ActivationJustified'
      BY <1>4 DEF AddCertificate, IInv, TypeOK, CertificateGate, ActivationJustified
    <2> QED
      BY <1>4, <2>2, <2>3 DEF AddCertificate, IInv, Registered, StageProvenance,
           TrailUnbroken, OneShipmentPerUnit, LinkedUnitsLeftFactory, DispatchHasSite,
           TasksFollowHistory, Entered, Live
  <1>5. ASSUME NEW s \in MandatoryStages, UpdateChecklist(u, s) PROVE IInv'
    <2>1. Evolves
      BY <1>5 DEF UpdateChecklist, Evolves, Live
    <2>2. InFlight'
      BY <1>5, <2>1, OthersStaySound DEF UpdateChecklist, IInv
    <2> QED
      BY <1>5, <2>2 DEF UpdateChecklist, IInv, Registered, StageProvenance,
           TrailUnbroken, CertificateGate, ActivationJustified, OneShipmentPerUnit,
           LinkedUnitsLeftFactory, DispatchHasSite, TasksFollowHistory, Entered, Live
  <1> QED
    BY <1>1, <1>2, <1>3, <1>4, <1>5 DEF UnitStep

\* So do the creation of a shipment and an upload to it.
LEMMA ShipmentStepInv ==
    ASSUME IInv, TypeOK', NEW s \in Shipment, ShipmentStep(s)
    PROVE  IInv'
  <1> USE DEF unitVars, trailVars, shipmentVars
  <1>1. ASSUME NEW places \in SUBSET PlaceInputs, CreateShipment(s, places) PROVE IInv'
    <2>1. Evolves
      BY <1>1 DEF CreateShipment, IInv, TypeOK, Evolves, Live, Place
    <2>2. InFlight'
      BY <1>1, <2>1, OthersStaySound DEF CreateShipment, IInv
    <2>3. DispatchHasSite'
      BY <1>1, <2>1 DEF CreateShipment, IInv, TypeOK, DispatchHasSite, Evolves
    <2> QED
      BY <1>1, <2>2, <2>3 DEF CreateShipment, IInv, Registered, StageProvenance,
           TrailUnbroken, CertificateGate, ActivationJustified, OneShipmentPerUnit,
           LinkedUnitsLeftFactory, TasksFollowHistory, Entered, Live
  <1>2. ASSUME NEW d \in DocumentInputs, UploadDocument(s, d) PROVE IInv'
    <2>1. Evolves
      BY <1>2 DEF UploadDocument, Evolves, Live
    <2>2. InFlight'
      BY <1>2, <2>1, OthersStaySound DEF UploadDocument, IInv
    <2> QED
      BY <1>2, <2>2 DEF UploadDocument, IInv, Registered, StageProvenance,
           TrailUnbroken, CertificateGate, ActivationJustified, OneShipmentPerUnit,
           LinkedUnitsLeftFactory, DispatchHasSite, TasksFollowHistory, Entered, Live
  <1> QED
    BY <1>1, <1>2 DEF ShipmentStep

\* The start of a handler reads and writes nothing else.
LEMMA RequestStartInv ==
    ASSUME IInv, TypeOK', NEW r \in Request, RequestStart(r)
    PROVE  IInv'
  <1> USE DEF unitVars, trailVars, shipmentVars
  <1>0. req \in [Request -> RequestState]
    BY DEF IInv, TypeOK
  <1>1. ASSUME NEW u \in Unit, NEW to \in TransitionTargets, TransitionLoad(r, u, to)
        PROVE IInv'
    <2> DEFINE x == [pc |-> "loaded", unit |-> u, from |-> stage[u], to |-> to]
    <2>1. req'[r] = x /\ \A q \in Request \ {r} : req'[q] = req[q]
      BY <1>0, <1>1 DEF TransitionLoad, Become
    <2>2. x \in TransitionRequest
      BY <1>1, InputAssumption DEF IInv, TypeOK, TransitionRequest
    <2>3. stage[u] \in GatedStages => Entered(u, stage[u])
      BY StageFacts DEF IInv, StageProvenance
    <2>4. RequestSound(r)'
      BY <1>1, <2>1, <2>2, <2>3, RequestKinds
      DEF TransitionLoad, RequestSound, TransitionSound, Entered
    <2> QED
      BY <1>1, <2>1, <2>4, RequestOnly DEF TransitionLoad
  <1>2. ASSUME NEW s \in Shipment, NEW group \in SUBSET Unit, AssignLoad(r, s, group)
        PROVE IInv'
    <2> DEFINE rewrite == {u \in group : stage[u] # "SHIPMENT_ASSIGNED"}
    <2> DEFINE x == [pc |-> "assigning", ship |-> s, group |-> group,
                     rewrite |-> rewrite]
    <2>2. req'[r] = x /\ \A q \in Request \ {r} : req'[q] = req[q]
      BY <1>0, <1>2 DEF AssignLoad, Become
    <2>3. /\ req'[r] \in AssignRequest
          /\ req'[r].group = group /\ req'[r].rewrite = rewrite
      BY <2>2 DEF AssignRequest
    <2>4. AssignSound(req[r])'
      BY <1>2, <2>3, StageFacts DEF AssignLoad, AssignSound, Live
    <2>5. RequestSound(r)'
      BY <2>3, <2>4, RequestKinds DEF RequestSound
    <2> QED
      BY <1>2, <2>2, <2>5, RequestOnly DEF AssignLoad
  <1>3. ASSUME NEW s \in Shipment, NEW to \in StatusInputs, StatusLoad(r, s, to)
        PROVE IInv'
    <2> DEFINE x == [pc |-> "status_read", ship |-> s, to |-> to,
                     writes |-> status[s] # to, rewrite |-> {}]
    <2>1. req'[r] = x /\ \A q \in Request \ {r} : req'[q] = req[q]
      BY <1>0, <1>3 DEF StatusLoad, Become
    <2>2. x \in StatusRequest
      BY InputAssumption DEF StatusRequest
    <2>3. RequestSound(r)'
      BY <1>3, <2>1, <2>2, RequestKinds DEF StatusLoad, RequestSound, StatusSound
    <2> QED
      BY <1>3, <2>1, <2>3, RequestOnly DEF StatusLoad
  <1>4. ASSUME NEW s \in Shipment, NEW p \in PlaceInputs, PlaceLoad(r, s, p)
        PROVE IInv'
    <2>1. PICK same \in SUBSET (Linked(s) \cap placedIn[p]) :
            Become(r, [pc |-> "placing", ship |-> s, place |-> p,
                       rewrite |-> (Linked(s) \ deleted) \ same])
      BY <1>4 DEF PlaceLoad
    <2> DEFINE x == [pc |-> "placing", ship |-> s, place |-> p,
                     rewrite |-> (Linked(s) \ deleted) \ same]
    <2>2. req'[r] = x /\ \A q \in Request \ {r} : req'[q] = req[q]
      BY <1>0, <2>1 DEF Become
    <2>3. x \in PlaceRequest
      BY InputAssumption DEF PlaceRequest, Linked
    <2>4. RequestSound(r)'
      BY <2>2, <2>3, RequestKinds DEF RequestSound
    <2> QED
      BY <1>4, <2>2, <2>4, RequestOnly DEF PlaceLoad
  <1> QED
    BY <1>1, <1>2, <1>3, <1>4 DEF RequestStart

\* The steps of a handler between its start and its commit.
LEMMA RequestWaitInv ==
    ASSUME IInv, TypeOK', NEW r \in Request,
           \/ TransitionCertificateGate(r)
           \/ TransitionChecklistGate(r)
           \/ TransitionHandoverGate(r)
           \/ \E u \in Unit : AssignReread(r, u)
           \/ StatusFlush(r)
           \/ Fail(r)
    PROVE  IInv'
  <1> USE DEF unitVars, trailVars, shipmentVars
  <1>0. /\ req \in [Request -> RequestState]
        /\ req[r] \in RequestState
        /\ RequestSound(r)
    BY DEF IInv, TypeOK, InFlight
  <1>1. CASE TransitionCertificateGate(r)
    <2>1. req[r] \in TransitionRequest /\ TransitionSound(req[r])
      BY <1>0, <1>1, RequestByPc DEF TransitionCertificateGate, RequestSound
    <2> DEFINE x == [req[r] EXCEPT !.pc = "certified"]
    <2>2. req'[r] = x /\ \A q \in Request \ {r} : req'[q] = req[q]
      BY <1>0, <1>1 DEF TransitionCertificateGate, Step
    <2>3. /\ x \in TransitionRequest /\ x.pc = "certified"
          /\ x.unit = req[r].unit /\ x.from = req[r].from /\ x.to = req[r].to
      BY <2>1 DEF TransitionRequest
    <2>4. x.from \in LOGISTICS_CERT_REQUIRED_STAGES => CertifiedIn(x.unit, x.from)
      BY <1>1, <2>3 DEF TransitionCertificateGate, HasCertificate, CertifiedIn
    <2>5. RequestSound(r)'
      BY <1>1, <2>1, <2>2, <2>3, <2>4, RequestKinds
      DEF TransitionCertificateGate, RequestSound, TransitionSound, Entered, CertifiedIn
    <2> QED
      BY <1>1, <2>2, <2>5, RequestOnly DEF TransitionCertificateGate
  <1>2. CASE TransitionChecklistGate(r)
    <2>1. /\ req[r] \in TransitionRequest /\ TransitionSound(req[r])
          /\ req[r].pc = "certified"
      BY <1>0, <1>2, RequestByPc DEF TransitionChecklistGate, RequestSound
    <2> DEFINE x == [req[r] EXCEPT !.pc = "checked"]
    <2>2. req'[r] = x /\ \A q \in Request \ {r} : req'[q] = req[q]
      BY <1>0, <1>2 DEF TransitionChecklistGate, Step
    <2>3. /\ x \in TransitionRequest /\ x.pc = "checked"
          /\ x.unit = req[r].unit /\ x.from = req[r].from /\ x.to = req[r].to
      BY <2>1 DEF TransitionRequest
    <2>4. RequestSound(r)'
      BY <1>2, <2>1, <2>2, <2>3, RequestKinds
      DEF TransitionChecklistGate, RequestSound, TransitionSound, Entered, CertifiedIn
    <2> QED
      BY <1>2, <2>2, <2>4, RequestOnly DEF TransitionChecklistGate
  <1>3. CASE TransitionHandoverGate(r)
    <2>1. /\ req[r] \in TransitionRequest /\ TransitionSound(req[r])
          /\ req[r].pc = "checked" /\ req[r].to = "ACTIVE"
      BY <1>0, <1>3, RequestByPc DEF TransitionHandoverGate, RequestSound
    <2> DEFINE x == [req[r] EXCEPT !.pc = "documented"]
    <2>2. req'[r] = x /\ \A q \in Request \ {r} : req'[q] = req[q]
      BY <1>0, <1>3 DEF TransitionHandoverGate, Step
    <2>3. /\ x \in TransitionRequest /\ x.pc = "documented"
          /\ x.unit = req[r].unit /\ x.from = req[r].from /\ x.to = req[r].to
      BY <2>1 DEF TransitionRequest
    <2>4. RequestSound(r)'
      BY <1>3, <2>1, <2>2, <2>3, RequestKinds
      DEF TransitionHandoverGate, RequestSound, TransitionSound, Entered, CertifiedIn
    <2> QED
      BY <1>3, <2>2, <2>4, RequestOnly DEF TransitionHandoverGate
  <1>4. ASSUME NEW u \in Unit, AssignReread(r, u) PROVE IInv'
    <2>1. req[r] \in AssignRequest /\ AssignSound(req[r])
      BY <1>0, <1>4, RequestByPc DEF AssignReread, RequestSound
    <2> DEFINE rewrite == IF u \in Live /\ stage[u] # "SHIPMENT_ASSIGNED"
                          THEN req[r].rewrite \cup {u} ELSE req[r].rewrite \ {u}
               x == [req[r] EXCEPT !.rewrite = rewrite]
    <2>2. req'[r] = x /\ \A q \in Request \ {r} : req'[q] = req[q]
      BY <1>0, <1>4 DEF AssignReread, Become
    <2>3. /\ req'[r] \in AssignRequest
          /\ req'[r].group = req[r].group /\ req'[r].rewrite = rewrite
      BY <2>1, <2>2 DEF AssignRequest
    <2>4. AssignSound(req[r])'
      BY <1>4, <2>1, <2>3 DEF AssignReread, AssignSound, Live
    <2>5. RequestSound(r)'
      BY <2>3, <2>4, RequestKinds DEF RequestSound
    <2> QED
      BY <1>4, <2>2, <2>5, RequestOnly DEF AssignReread
  <1>5. CASE StatusFlush(r)
    <2>1. req[r] \in StatusRequest /\ StatusSound(req[r])
      BY <1>0, <1>5, RequestByPc DEF StatusFlush, RequestSound
    <2> DEFINE rewrite == IF MovesUnits(req[r].to)
                          THEN {u \in Linked(req[r].ship) \ deleted :
                                    stage[u] # STATUS_TO_BESS_STAGE(req[r].to)}
                          ELSE {}
               x == [req[r] EXCEPT !.pc = "status_flushed", !.rewrite = rewrite]
    <2>2. req'[r] = x /\ \A q \in Request \ {r} : req'[q] = req[q]
      BY <1>0, <1>5 DEF StatusFlush, Become
    <2>3. rewrite \subseteq Linked(req[r].ship) /\ rewrite \subseteq Unit
      BY DEF Linked
    <2>4. /\ req'[r] \in StatusRequest /\ req'[r].to = req[r].to
          /\ req'[r].ship = req[r].ship /\ req'[r].rewrite = rewrite
      BY <2>1, <2>2, <2>3 DEF StatusRequest
    <2>5. StatusSound(req[r])'
      BY <1>5, <2>1, <2>3, <2>4 DEF StatusFlush, StatusSound, Linked
    <2>6. RequestSound(r)'
      BY <2>4, <2>5, RequestKinds DEF RequestSound
    <2> QED
      BY <1>5, <2>2, <2>6, RequestOnly DEF StatusFlush
  <1>6. CASE Fail(r)
    BY <1>6, IdleSound, RequestOnly DEF Fail, IInv
  <1> QED
    BY <1>1, <1>2, <1>3, <1>4, <1>5, <1>6

\* What the commit of a transition of unit u from a to b does.
TransitionEffect(r, u, a, b) ==
    /\ req[r] \in TransitionRequest
    /\ req[r].unit = u /\ req[r].from = a /\ req[r].to = b
    /\ <<a, b>> \in STAGE_TRANSITIONS
    /\ b # "FACTORY_REGISTERED"
    /\ b = "ACTIVE" => a = "FINAL_ACCEPTANCE"
    /\ a \in GatedStages => Entered(u, a)
    /\ a \in LOGISTICS_CERT_REQUIRED_STAGES => CertifiedIn(u, a)
    /\ \A v \in Unit :
         /\ stage'[v] = IF v = u THEN b ELSE stage[v]
         /\ history'[v] = IF v = u THEN history[v] \cup {<<a, b>>} ELSE history[v]
         /\ certs'[v] = IF v = u /\ b = "ACTIVE"
                        THEN certs[v] \cup {<<"FINAL_ACCEPTANCE", "AUTO_HANDOVER_DOCUMENT">>}
                        ELSE certs[v]
    /\ active' = IF b = "ACTIVE" THEN active \cup {u} ELSE active
    /\ UNCHANGED <<units, deleted, placedIn, complete, shipmentVars, tasks>>

\* transition_stage commits an edge it loaded, from a request that had passed
\* every gate of that edge.
LEMMA TransitionCommitEffect ==
    ASSUME IInv, NEW r \in Request, TransitionCommit(r)
    PROVE  \E u \in Unit, a \in Stage, b \in Stage : TransitionEffect(r, u, a, b)
  <1>1. req[r] \in RequestState /\ RequestSound(r)
    BY DEF IInv, TypeOK, InFlight
  <1>2. /\ req[r].pc \in {"checked", "documented"}
        /\ req[r].to = "ACTIVE" => req[r].pc = "documented"
    BY DEF TransitionCommit, ReadyToCommit
  <1>3. req[r] \in TransitionRequest /\ TransitionSound(req[r])
    BY <1>1, <1>2, RequestByPc DEF RequestSound
  <1>4. PICK u \in Unit, a \in Stage, b \in Stage :
          req[r].unit = u /\ req[r].from = a /\ req[r].to = b
    BY <1>3 DEF TransitionRequest
  <1>5. /\ <<a, b>> \in STAGE_TRANSITIONS
        /\ b # "FACTORY_REGISTERED"
        /\ b = "ACTIVE" => a = "FINAL_ACCEPTANCE"
    BY <1>3, <1>4, TransitionFacts DEF TransitionSound
  <1>6. b = "ACTIVE" <=> req[r].pc = "documented"
    BY <1>2, <1>3, <1>4 DEF TransitionSound
  <1>7. /\ stage \in [Unit -> Stage] /\ history \in [Unit -> SUBSET STAGE_TRANSITIONS]
        /\ certs \in [Unit -> SUBSET (Stage \X CertificateKind)]
    BY DEF IInv, TypeOK
  <1>8. \A v \in Unit :
          /\ stage'[v] = IF v = u THEN b ELSE stage[v]
          /\ history'[v] = IF v = u THEN history[v] \cup {<<a, b>>} ELSE history[v]
          /\ certs'[v] = IF v = u /\ b = "ACTIVE"
                         THEN certs[v] \cup {<<"FINAL_ACCEPTANCE", "AUTO_HANDOVER_DOCUMENT">>}
                         ELSE certs[v]
    BY <1>4, <1>6, <1>7 DEF TransitionCommit
  <1>9. /\ active' = IF b = "ACTIVE" THEN active \cup {u} ELSE active
        /\ UNCHANGED <<units, deleted, placedIn, complete, shipmentVars, tasks>>
    BY <1>4 DEF TransitionCommit
  <1>10. /\ a \in GatedStages => Entered(u, a)
         /\ a \in LOGISTICS_CERT_REQUIRED_STAGES => CertifiedIn(u, a)
    BY <1>2, <1>3, <1>4 DEF TransitionSound
  <1>11. TransitionEffect(r, u, a, b)
    BY <1>3, <1>4, <1>5, <1>8, <1>9, <1>10 DEF TransitionEffect
  <1> QED
    BY <1>11

\* The atomic block of transition_stage preserves IInv, whatever stage it
\* overwrites.
LEMMA TransitionCommitInv ==
    ASSUME IInv, TypeOK', NEW r \in Request, TransitionCommit(r)
    PROVE  IInv'
  <1> DEFINE handover == <<"FINAL_ACCEPTANCE", "AUTO_HANDOVER_DOCUMENT">>
  <1>0. PICK u \in Unit, a \in Stage, b \in Stage : TransitionEffect(r, u, a, b)
    BY TransitionCommitEffect
  <1> USE <1>0 DEF TransitionEffect
  <1>3. Evolves
    BY DEF Evolves, Live, shipmentVars, IInv, TypeOK
  <1>4. Entered(u, b)'
    BY DEF Entered
  <1>5. InFlight'
    <2>1. \A q \in Request \ {r} : req'[q] = req[q]
      BY DEF TransitionCommit, Step, Become, IInv, TypeOK
    <2>2. CASE b \notin SITE_STAGES
      <3>1. Become(r, Idle)
        BY <2>2 DEF TransitionCommit
      <3> QED
        BY <1>3, <2>1, <3>1, IdleSound, OthersStaySound DEF IInv
    <2>3. CASE b \in SITE_STAGES
      <3>1. req'[r] = [req[r] EXCEPT !.pc = "transitioned"]
        BY <2>3 DEF TransitionCommit, Step, IInv, TypeOK
      <3>2. /\ req'[r] \in TransitionRequest /\ req'[r].pc = "transitioned"
            /\ req'[r].unit = u /\ req'[r].from = a /\ req'[r].to = b
        BY <3>1 DEF TransitionRequest
      <3>3. a \in GatedStages => Entered(u, a)'
        BY <1>3 DEF Evolves, Entered
      <3>4. a \in LOGISTICS_CERT_REQUIRED_STAGES => CertifiedIn(u, a)'
        BY <1>3 DEF Evolves, CertifiedIn
      <3>5. TransitionSound(req[r])'
        BY <1>4, <2>3, <3>2, <3>3, <3>4 DEF TransitionSound, Entered, CertifiedIn
      <3>6. RequestSound(r)'
        BY <3>2, <3>5, RequestKinds DEF RequestSound
      <3> QED
        BY <1>3, <2>1, <3>6, OthersStaySound DEF IInv
    <2> QED
      BY <2>2, <2>3
  <1>6. StageProvenance'
    <2> SUFFICES ASSUME NEW v \in Unit
                 PROVE  \/ stage'[v] = "FACTORY_REGISTERED"
                        \/ Entered(v, stage[v])'
                        \/ /\ stage'[v] \in ShipmentStages
                           /\ \E s \in Shipment : <<s, v>> \in items'
      BY DEF StageProvenance, Entered
    <2>1. CASE v = u
      BY <1>4, <2>1 DEF Entered
    <2>2. CASE v # u
      BY <2>2 DEF IInv, StageProvenance, Entered, shipmentVars
    <2> QED
      BY <2>1, <2>2
  <1>7. TrailUnbroken'
    <2> SUFFICES ASSUME NEW v \in Unit, NEW e \in history'[v], e[1] \in GatedStages
                 PROVE  \E p \in Stage : <<p, e[1]>> \in history'[v]
      BY DEF TrailUnbroken, Entered
    <2>1. CASE e \in history[v]
      BY <1>3, <2>1 DEF IInv, TrailUnbroken, Entered, Evolves
    <2>2. CASE e \notin history[v]
      <3>1. v = u /\ e = <<a, b>>
        BY <2>2
      <3>2. Entered(u, a) /\ history[u] \subseteq history'[u]
        BY <3>1
      <3> QED
        BY <3>1, <3>2 DEF Entered
    <2> QED
      BY <2>1, <2>2
  <1>8. CertificateGate'
    <2> SUFFICES ASSUME NEW v \in Unit, NEW e \in history'[v],
                        e[1] \in LOGISTICS_CERT_REQUIRED_STAGES
                 PROVE  \E k \in CertificateKind : <<e[1], k>> \in certs'[v]
      BY DEF CertificateGate
    <2>1. CASE e \in history[v]
      BY <1>3, <2>1 DEF IInv, CertificateGate, Evolves
    <2>2. CASE e \notin history[v]
      <3>1. v = u /\ e = <<a, b>>
        BY <2>2
      <3>2. CertifiedIn(u, a) /\ certs[u] \subseteq certs'[u]
        BY <3>1
      <3> QED
        BY <3>1, <3>2 DEF CertifiedIn
    <2> QED
      BY <2>1, <2>2
  <1>9. ActivationJustified'
    <2> SUFFICES ASSUME NEW v \in Unit
                 PROVE  /\ v \in active' <=> <<"FINAL_ACCEPTANCE", "ACTIVE">> \in history'[v]
                        /\ v \in active' => handover \in certs'[v]
                        /\ stage'[v] = "ACTIVE" => v \in active'
      BY DEF ActivationJustified
    <2>1. CASE v = u /\ b = "ACTIVE"
      BY <2>1
    <2>2. CASE ~(v = u /\ b = "ACTIVE")
      <3>1. /\ v \in active' <=> v \in active
            /\ certs'[v] = certs[v]
            /\ stage'[v] = "ACTIVE" => stage[v] = "ACTIVE"
        BY <2>2
      <3>2. v = u => <<a, b>> # <<"FINAL_ACCEPTANCE", "ACTIVE">>
        BY <2>2
      <3>3. history'[v] = IF v = u THEN history[v] \cup {<<a, b>>} ELSE history[v]
        OBVIOUS
      <3>4. <<"FINAL_ACCEPTANCE", "ACTIVE">> \in history'[v]
              <=> <<"FINAL_ACCEPTANCE", "ACTIVE">> \in history[v]
        BY <3>2, <3>3
      <3> QED
        BY <3>1, <3>4 DEF IInv, ActivationJustified
    <2> QED
      BY <2>1, <2>2
  <1>10. LinkedUnitsLeftFactory'
    BY DEF IInv, TypeOK, LinkedUnitsLeftFactory, Live, shipmentVars
  <1>11. TasksFollowHistory'
    BY <1>3 DEF IInv, TypeOK, TasksFollowHistory, Entered, Evolves
  <1>12. Registered' /\ OneShipmentPerUnit' /\ DispatchHasSite'
    BY DEF IInv, Registered, OneShipmentPerUnit, DispatchHasSite, shipmentVars
  <1> QED
    BY <1>5, <1>6, <1>7, <1>8, <1>9, <1>10, <1>11, <1>12 DEF IInv

\* Queueing the task after the commit preserves IInv.
LEMMA QueueEngineerTaskInv ==
    ASSUME IInv, TypeOK', NEW r \in Request, QueueEngineerTask(r)
    PROVE  IInv'
  <1> USE DEF unitVars, trailVars, shipmentVars
  <1>1. req[r] \in TransitionRequest /\ TransitionSound(req[r])
    BY RequestByPc DEF QueueEngineerTask, IInv, TypeOK, InFlight, RequestSound
  <1>2. Evolves
    BY DEF QueueEngineerTask, Evolves, Live
  <1>3. InFlight'
    BY <1>2, IdleSound, OthersStaySound DEF QueueEngineerTask, IInv
  <1>4. Entered(req[r].unit, req[r].to)
    BY <1>1 DEF QueueEngineerTask, TransitionSound
  <1>5. TasksFollowHistory'
    <2> SUFFICES ASSUME NEW t \in tasks' PROVE \E p \in Stage : <<p, t[2]>> \in history'[t[1]]
      BY DEF TasksFollowHistory, Entered
    <2>1. CASE t \in tasks
      BY <2>1 DEF QueueEngineerTask, IInv, TasksFollowHistory, Entered
    <2>2. CASE t = <<req[r].unit, req[r].to>>
      BY <1>4, <2>2 DEF QueueEngineerTask, Entered
    <2> QED
      BY <2>1, <2>2 DEF QueueEngineerTask
  <1> QED
    BY <1>3, <1>5 DEF QueueEngineerTask, IInv, Registered, StageProvenance, TrailUnbroken,
       CertificateGate, ActivationJustified, OneShipmentPerUnit, LinkedUnitsLeftFactory,
       DispatchHasSite, Entered, Live

\* Linking a group of units preserves IInv, though some of the stages it
\* overwrites are not the ones it read.
LEMMA AssignCommitInv ==
    ASSUME IInv, TypeOK', NEW r \in Request, AssignCommit(r)
    PROVE  IInv'
  <1>1. req[r] \in AssignRequest /\ AssignSound(req[r])
    BY RequestByPc DEF AssignCommit, IInv, TypeOK, InFlight, RequestSound
  <1>2. PICK s \in Shipment, group \in SUBSET Unit, rewrite \in SUBSET Unit :
          s = req[r].ship /\ group = req[r].group /\ rewrite = req[r].rewrite
    BY <1>1 DEF AssignRequest
  <1>3. /\ group \subseteq units /\ rewrite \subseteq group
        /\ \A u \in group \cap Live : u \in rewrite \/ stage[u] # "FACTORY_REGISTERED"
    BY <1>1, <1>2 DEF AssignSound
  <1>4. /\ \A u \in group, t \in Shipment : <<t, u>> \notin items
        /\ items' = items \cup ({s} \X group)
        /\ \A u \in Unit : stage'[u] = IF u \in rewrite THEN "SHIPMENT_ASSIGNED" ELSE stage[u]
        /\ UNCHANGED <<units, active, deleted, placedIn, trailVars, status, bound, tasks>>
    BY <1>2 DEF AssignCommit, ViolatesUnique
  <1> USE DEF trailVars
  <1>5. Evolves
    BY <1>4 DEF Evolves, Live, IInv, TypeOK
  <1>6. InFlight'
    BY <1>5, IdleSound, OthersStaySound DEF AssignCommit, IInv
  <1>7. Registered'
    BY <1>3, <1>4 DEF IInv, Registered
  <1>8. StageProvenance'
    <2> SUFFICES ASSUME NEW u \in Unit
                 PROVE  \/ stage'[u] = "FACTORY_REGISTERED"
                        \/ Entered(u, stage'[u])
                        \/ /\ stage'[u] \in ShipmentStages
                           /\ \E t \in Shipment : <<t, u>> \in items'
      BY <1>4 DEF StageProvenance, Entered
    <2>1. CASE u \in rewrite
      BY <1>3, <1>4, <2>1, StageFacts
    <2>2. CASE u \notin rewrite
      BY <1>4, <2>2 DEF IInv, StageProvenance
    <2> QED
      BY <2>1, <2>2
  <1>9. OneShipmentPerUnit'
    BY <1>4 DEF IInv, OneShipmentPerUnit
  <1>10. LinkedUnitsLeftFactory'
    <2> SUFFICES ASSUME NEW u \in Live, NEW t \in Shipment, <<t, u>> \in items'
                 PROVE  stage'[u] # "FACTORY_REGISTERED"
      BY <1>4 DEF LinkedUnitsLeftFactory, Live
    <2>0. u \in Unit
      BY DEF IInv, TypeOK, Live
    <2>1. CASE u \in group
      BY <1>3, <1>4, <2>0, <2>1
    <2>2. CASE u \notin group
      BY <1>3, <1>4, <2>0, <2>2 DEF IInv, LinkedUnitsLeftFactory
    <2> QED
      BY <2>1, <2>2
  <1>11. ActivationJustified'
    BY <1>4 DEF IInv, ActivationJustified
  <1>12. TrailUnbroken' /\ CertificateGate' /\ DispatchHasSite' /\ TasksFollowHistory'
    BY <1>4 DEF IInv, TrailUnbroken, CertificateGate, DispatchHasSite, TasksFollowHistory,
                Entered
  <1> QED
    BY <1>6, <1>7, <1>8, <1>9, <1>10, <1>11, <1>12 DEF IInv

\* The commit of update_shipment_status preserves IInv.
LEMMA StatusCommitInv ==
    ASSUME IInv, TypeOK', NEW r \in Request, StatusCommit(r)
    PROVE  IInv'
  <1>1. req[r] \in StatusRequest /\ StatusSound(req[r])
    BY RequestByPc DEF StatusCommit, IInv, TypeOK, InFlight, RequestSound
  <1>2. PICK s \in Shipment, to \in ShipmentStatus, rewrite \in SUBSET Unit :
          s = req[r].ship /\ to = req[r].to /\ rewrite = req[r].rewrite
    BY <1>1 DEF StatusRequest
  <1>3. PICK n : n = STATUS_TO_BESS_STAGE(to)
    OBVIOUS
  <1>4. /\ to = "DISPATCHED_TO_SITE" => s \in bound["site"]
        /\ \A u \in rewrite : <<s, u>> \in items /\ n \in ShipmentStages
    BY <1>1, <1>2, <1>3, StageFacts DEF StatusSound, Linked
  <1>5. /\ status' \in {status, [status EXCEPT ![s] = to]}
        /\ \A u \in Unit : stage'[u] = IF u \in rewrite THEN n ELSE stage[u]
        /\ UNCHANGED <<units, active, deleted, placedIn, trailVars, bound, items, tasks>>
    BY <1>2, <1>3 DEF StatusCommit
  <1> USE DEF trailVars
  <1>6. \A u \in Unit : stage[u] # "FACTORY_REGISTERED" => stage'[u] # "FACTORY_REGISTERED"
    BY <1>4, <1>5, StageFacts
  <1>7. Evolves
    BY <1>5, <1>6 DEF Evolves, Live, IInv, TypeOK
  <1>8. InFlight'
    BY <1>7, IdleSound, OthersStaySound DEF StatusCommit, IInv
  <1>9. StageProvenance'
    BY <1>4, <1>5 DEF IInv, StageProvenance, Entered
  <1>10. ActivationJustified'
    BY <1>4, <1>5, StageFacts DEF IInv, ActivationJustified
  <1>11. LinkedUnitsLeftFactory'
    BY <1>5, <1>6 DEF IInv, TypeOK, LinkedUnitsLeftFactory, Live
  <1>12. DispatchHasSite'
    BY <1>4, <1>5 DEF IInv, TypeOK, DispatchHasSite
  <1>13. /\ Registered' /\ OneShipmentPerUnit' /\ TrailUnbroken' /\ CertificateGate'
         /\ TasksFollowHistory'
    BY <1>5 DEF IInv, Registered, OneShipmentPerUnit, TrailUnbroken, CertificateGate,
                TasksFollowHistory, Entered
  <1> QED
    BY <1>8, <1>9, <1>10, <1>11, <1>12, <1>13 DEF IInv

\* The commit of a warehouse or a site preserves IInv.
LEMMA PlaceCommitInv ==
    ASSUME IInv, TypeOK', NEW r \in Request, PlaceCommit(r)
    PROVE  IInv'
  <1> USE DEF trailVars
  <1>1. req[r] \in PlaceRequest
    BY RequestByPc DEF PlaceCommit, IInv, TypeOK
  <1>2. bound["site"] \subseteq bound'["site"]
    BY <1>1 DEF PlaceCommit, PlaceRequest, Place, IInv, TypeOK
  <1>3. Evolves
    BY <1>2 DEF PlaceCommit, Evolves, Live
  <1>4. InFlight'
    BY <1>3, IdleSound, OthersStaySound DEF PlaceCommit, IInv
  <1>5. DispatchHasSite'
    BY <1>2 DEF PlaceCommit, IInv, DispatchHasSite
  <1> QED
    BY <1>4, <1>5 DEF PlaceCommit, IInv, Registered, StageProvenance, TrailUnbroken,
       CertificateGate, ActivationJustified, OneShipmentPerUnit, LinkedUnitsLeftFactory,
       TasksFollowHistory, Entered, Live

\* IInv is inductive.
LEMMA InvStep == IInv /\ [Next]_vars => IInv'
  <1> SUFFICES ASSUME IInv, [Next]_vars PROVE IInv'
    OBVIOUS
  <1>0. TypeOK'
    BY TypeStep DEF IInv
  <1>1. ASSUME NEW u \in Unit, UnitStep(u) PROVE IInv'
    BY <1>0, <1>1, UnitStepInv
  <1>2. ASSUME NEW s \in Shipment, ShipmentStep(s) PROVE IInv'
    BY <1>0, <1>2, ShipmentStepInv
  <1>3. ASSUME NEW r \in Request, RequestStart(r) PROVE IInv'
    BY <1>0, <1>3, RequestStartInv
  <1>4. ASSUME NEW r \in Request, RequestStep(r) PROVE IInv'
    BY <1>0, <1>4, RequestWaitInv, TransitionCommitInv, QueueEngineerTaskInv,
       AssignCommitInv, StatusCommitInv, PlaceCommitInv DEF RequestStep
  <1>5. CASE UNCHANGED vars
    BY <1>5 DEF vars, unitVars, trailVars, shipmentVars, IInv, TypeOK, InFlight,
       RequestSound, TransitionSound, AssignSound, StatusSound, Registered,
       StageProvenance, TrailUnbroken, CertificateGate, ActivationJustified,
       OneShipmentPerUnit, LinkedUnitsLeftFactory, DispatchHasSite,
       TasksFollowHistory, Entered, CertifiedIn, Live, Linked
  <1> QED
    BY <1>1, <1>2, <1>3, <1>4, <1>5 DEF Next

\* Every behaviour satisfies the inductive invariant: the safety invariants, and
\* what each request in flight may still rely on of the rows it read earlier.
THEOREM InductiveInvariant == Spec => []IInv
  BY InvInit, InvStep, PTL DEF Spec

----------------------------------------------------------------------------
(* The properties of the runs, for every instance.                         *)

\* Every column, request and task stays in its type: no interleaving of
\* handlers writes a stage, a status or a history row that does not exist.
THEOREM TypeCorrect == Spec => []TypeOK
  <1>1. IInv => TypeOK
    BY DEF IInv
  <1> QED
    BY <1>1, InductiveInvariant, PTL

\* A unit off the factory stage is where its history or its shipment put it.
THEOREM StagesHaveProvenance == Spec => []StageProvenance
  <1>1. IInv => StageProvenance
    BY DEF IInv
  <1> QED
    BY <1>1, InductiveInvariant, PTL

\* The gated stages of stage_history are left only after they were entered.
THEOREM HistoryUnbroken == Spec => []TrailUnbroken
  <1>1. IInv => TrailUnbroken
    BY DEF IInv
  <1> QED
    BY <1>1, InductiveInvariant, PTL

\* A logistics stage is left through transition_stage only with a certificate,
\* although the count of certificates and the commit are separate steps.
THEOREM CertificatesGate == Spec => []CertificateGate
  <1>1. IInv => CertificateGate
    BY DEF IInv
  <1> QED
    BY <1>1, InductiveInvariant, PTL

\* is_active, the acceptance row and the handover certificate come together.
THEOREM ActivationIsJustified == Spec => []ActivationJustified
  <1>1. IInv => ActivationJustified
    BY DEF IInv
  <1> QED
    BY <1>1, InductiveInvariant, PTL

\* No interleaving of single and bulk assignments links a unit twice.
THEOREM UnitsHaveOneShipment == Spec => []OneShipmentPerUnit
  <1>1. IInv => OneShipmentPerUnit
    BY DEF IInv
  <1> QED
    BY <1>1, InductiveInvariant, PTL

\* A live unit on a shipment never shows the factory stage.
THEOREM LinkedUnitsLeave == Spec => []LinkedUnitsLeftFactory
  <1>1. IInv => LinkedUnitsLeftFactory
    BY DEF IInv
  <1> QED
    BY <1>1, InductiveInvariant, PTL

\* A shipment dispatched to its site has one.
THEOREM DispatchedHaveSite == Spec => []DispatchHasSite
  <1>1. IInv => DispatchHasSite
    BY DEF IInv
  <1> QED
    BY <1>1, InductiveInvariant, PTL

\* auto_assign_engineer_task is only queued for a stage entry that committed.
THEOREM TasksAreCommitted == Spec => []TasksFollowHistory
  <1>1. IInv => TasksFollowHistory
    BY DEF IInv
  <1> QED
    BY <1>1, InductiveInvariant, PTL

----------------------------------------------------------------------------
(* Deleted units come to rest.                                             *)

Drains ==
    \A u \in deleted :
        /\ Writers(u)' \subseteq Writers(u)
        /\ stage'[u] # stage[u] => Writers(u)' # Writers(u)

\* A step of request r drains if r does not become a writer of a deleted unit,
\* and stops being one when it writes.
LEMMA DrainsByRequest ==
    ASSUME NEW r \in Request, \A q \in Request \ {r} : req'[q] = req[q],
           \A u \in deleted : WillWrite(r, u)' => WillWrite(r, u) /\ stage'[u] = stage[u],
           \A u \in deleted : stage'[u] # stage[u] => WillWrite(r, u)
    PROVE  Drains
  <1>1. \A q \in Request \ {r}, u \in deleted : WillWrite(q, u)' <=> WillWrite(q, u)
    BY DEF WillWrite
  <1> QED
    BY <1>1 DEF Drains, Writers

\* Each step drains: no request comes to write a deleted unit.
LEMMA DrainStep == IInv /\ [Next]_vars => Drains
  <1> SUFFICES ASSUME IInv, [Next]_vars PROVE Drains
    OBVIOUS
  <1> USE DEF unitVars, trailVars, shipmentVars
  <1>0. /\ req \in [Request -> RequestState]
        /\ stage \in [Unit -> Stage]
        /\ deleted \subseteq units /\ units \subseteq Unit
    BY DEF IInv, TypeOK, Registered
  <1>1. ASSUME UNCHANGED req, \A u \in deleted : stage'[u] = stage[u] PROVE Drains
    BY <1>1 DEF Drains, Writers, WillWrite
  <1>2. ASSUME NEW u \in Unit, UnitStep(u) PROVE Drains
    <2>1. UNCHANGED req /\ \A v \in deleted : stage'[v] = stage[v]
      BY <1>0, <1>2 DEF UnitStep, CreateUnit, UpdateUnit, DeleteUnit, AddCertificate,
                        UpdateChecklist
    <2> QED
      BY <1>1, <2>1
  <1>3. ASSUME NEW s \in Shipment, ShipmentStep(s) PROVE Drains
    BY <1>1, <1>3 DEF ShipmentStep, CreateShipment, UploadDocument
  <1>4. ASSUME NEW r \in Request, RequestStart(r) PROVE Drains
    <2>1. UNCHANGED stage /\ \A q \in Request \ {r} : req'[q] = req[q]
      BY <1>0, <1>4 DEF RequestStart, TransitionLoad, AssignLoad, StatusLoad, PlaceLoad, Become
    <2>2. \A u \in deleted : ~WillWrite(r, u)'
      <3>1. ASSUME NEW v \in Unit, NEW to \in TransitionTargets, TransitionLoad(r, v, to),
                   NEW u \in deleted
            PROVE  ~WillWrite(r, u)'
        BY <1>0, <3>1 DEF TransitionLoad, Become, WillWrite, Live
      <3>2. ASSUME NEW s \in Shipment, NEW group \in SUBSET Unit, AssignLoad(r, s, group),
                   NEW u \in deleted
            PROVE  ~WillWrite(r, u)'
        BY <1>0, <3>2 DEF AssignLoad, Become, WillWrite, Live
      <3>3. ASSUME NEW s \in Shipment, NEW to \in StatusInputs, StatusLoad(r, s, to),
                   NEW u \in deleted
            PROVE  ~WillWrite(r, u)'
        BY <1>0, <3>3 DEF StatusLoad, Become, WillWrite
      <3>4. ASSUME NEW s \in Shipment, NEW p \in PlaceInputs, PlaceLoad(r, s, p),
                   NEW u \in deleted
            PROVE  ~WillWrite(r, u)'
        BY <1>0, <3>4 DEF PlaceLoad, Become, WillWrite
      <3> QED
        BY <1>4, <3>1, <3>2, <3>3, <3>4 DEF RequestStart
    <2> QED
      BY <2>1, <2>2, DrainsByRequest
  <1>5. ASSUME NEW r \in Request, RequestStep(r) PROVE Drains
    <2>1. \A q \in Request \ {r} : req'[q] = req[q]
      BY <1>0, <1>5 DEF RequestStep, TransitionCertificateGate, TransitionChecklistGate,
         TransitionHandoverGate, TransitionCommit, QueueEngineerTask, AssignReread,
         AssignCommit, StatusFlush, StatusCommit, PlaceCommit, Fail, Step, Become
    <2>2. CASE \/ TransitionCertificateGate(r)
               \/ TransitionChecklistGate(r)
               \/ TransitionHandoverGate(r)
      <3>1. PICK pc \in {"certified", "checked", "documented"} : Step(r, pc)
        BY <2>2 DEF TransitionCertificateGate, TransitionChecklistGate, TransitionHandoverGate
      <3>2. /\ UNCHANGED stage
            /\ req[r].pc \in {"loaded", "certified", "checked"}
        BY <2>2 DEF TransitionCertificateGate, TransitionChecklistGate, TransitionHandoverGate
      <3>3. req[r] \in TransitionRequest
        BY <1>0, <3>2, RequestByPc
      <3>4. req'[r].unit = req[r].unit /\ req'[r].pc = pc
        BY <1>0, <3>1, <3>3 DEF Step, TransitionRequest
      <3>5. \A u \in deleted : WillWrite(r, u)' => WillWrite(r, u)
        BY <3>2, <3>4 DEF WillWrite
      <3> QED
        BY <2>1, <3>2, <3>5, DrainsByRequest
    <2>3. CASE TransitionCommit(r)
      <3>1. \A u \in deleted : ~WillWrite(r, u)'
        <4>1. req'[r].pc \in {"idle", "transitioned"}
          <5>1. req[r] \in TransitionRequest
            BY <1>0, <2>3, RequestByPc DEF TransitionCommit, ReadyToCommit
          <5> QED
            BY <1>0, <2>3, <5>1 DEF TransitionCommit, Step, Become, Idle, TransitionRequest
        <4> QED
          BY <4>1 DEF WillWrite
      <3>2. \A u \in deleted : stage'[u] # stage[u] => WillWrite(r, u)
        BY <1>0, <2>3 DEF TransitionCommit, ReadyToCommit, WillWrite
      <3> QED
        BY <2>1, <3>1, <3>2, DrainsByRequest
    <2>4. ASSUME NEW v \in Unit, AssignReread(r, v) PROVE Drains
      <3>1. req[r] \in AssignRequest
        BY <1>0, <2>4, RequestByPc DEF AssignReread
      <3>2. \A u \in deleted : u \in req'[r].rewrite => u \in req[r].rewrite
        BY <1>0, <2>4, <3>1 DEF AssignReread, Become, Live, AssignRequest
      <3>3. req'[r].pc = "assigning" /\ req[r].pc = "assigning" /\ UNCHANGED stage
        BY <1>0, <2>4, <3>1 DEF AssignReread, Become, AssignRequest
      <3>4. \A u \in deleted : WillWrite(r, u)' => WillWrite(r, u)
        BY <3>2, <3>3 DEF WillWrite
      <3> QED
        BY <2>1, <3>3, <3>4, DrainsByRequest
    <2>5. CASE StatusFlush(r)
      <3>1. req[r] \in StatusRequest
        BY <1>0, <2>5, RequestByPc DEF StatusFlush
      <3>2. /\ req'[r].pc = "status_flushed" /\ UNCHANGED stage
            /\ \A u \in deleted : u \notin req'[r].rewrite
        BY <1>0, <2>5, <3>1 DEF StatusFlush, Become, StatusRequest
      <3>3. \A u \in deleted : ~WillWrite(r, u)'
        BY <3>2 DEF WillWrite
      <3> QED
        BY <2>1, <3>2, <3>3, DrainsByRequest
    <2>6. CASE \/ AssignCommit(r) \/ StatusCommit(r) \/ PlaceCommit(r)
               \/ QueueEngineerTask(r) \/ Fail(r)
      <3>1. \A u \in deleted : ~WillWrite(r, u)'
        BY <1>0, <2>6 DEF AssignCommit, StatusCommit, PlaceCommit, QueueEngineerTask, Fail,
                          Become, Idle, WillWrite
      <3>2. \A u \in deleted : stage'[u] # stage[u] => WillWrite(r, u)
        BY <1>0, <2>6 DEF AssignCommit, StatusCommit, PlaceCommit, QueueEngineerTask, Fail,
                          WillWrite
      <3> QED
        BY <2>1, <3>1, <3>2, DrainsByRequest
    <2> QED
      BY <1>5, <2>2, <2>3, <2>4, <2>5, <2>6 DEF RequestStep
  <1>6. CASE UNCHANGED vars
    BY <1>1, <1>6 DEF vars
  <1> QED
    BY <1>2, <1>3, <1>4, <1>5, <1>6 DEF Next

\* Once a unit is deleted no handler picks it up any more, and each change of its
\* stage spends a request that had read it before.
THEOREM DeletedUnitsComeToRest == Spec => DeletedUnitsDrain
  <1>1. IInv /\ [Next]_vars => [Drains]_vars
    BY DrainStep
  <1> QED
    BY <1>1, InductiveInvariant, PTL DEF Spec, DeletedUnitsDrain, Drains

----------------------------------------------------------------------------
(* The detailed specification implements the ledger.                       *)

\* StageLedger reads the same constants.
LEMMA LedgerVocabulary ==
    /\ Ledger!Stage = Stage
    /\ Ledger!STAGE_TRANSITIONS = STAGE_TRANSITIONS
    /\ Ledger!GatedStages = GatedStages
    /\ Ledger!LOGISTICS_CERT_REQUIRED_STAGES = LOGISTICS_CERT_REQUIRED_STAGES
    /\ Ledger!CertificateKind = CertificateKind
    /\ Ledger!HandoverDocument = <<"FINAL_ACCEPTANCE", "AUTO_HANDOVER_DOCUMENT">>
  <1>1. Ledger!Stage = Stage /\ Ledger!SITE_STAGES = SITE_STAGES
    BY DEF Ledger!Stage, Stage, Ledger!SITE_STAGES, SITE_STAGES
  <1>2. Ledger!STAGE_TRANSITIONS = STAGE_TRANSITIONS
    BY DEF Ledger!STAGE_TRANSITIONS, STAGE_TRANSITIONS
  <1>3. Ledger!GatedStages = GatedStages
    BY <1>1 DEF Ledger!GatedStages, GatedStages
  <1>4. Ledger!LOGISTICS_CERT_REQUIRED_STAGES = LOGISTICS_CERT_REQUIRED_STAGES
    BY DEF Ledger!LOGISTICS_CERT_REQUIRED_STAGES, LOGISTICS_CERT_REQUIRED_STAGES
  <1>5. Ledger!CertificateKind = CertificateKind
    BY DEF Ledger!CertificateKind, CertificateKind
  <1>6. Ledger!HandoverDocument = <<"FINAL_ACCEPTANCE", "AUTO_HANDOVER_DOCUMENT">>
    BY DEF Ledger!HandoverDocument
  <1> QED
    BY <1>1, <1>2, <1>3, <1>4, <1>5, <1>6

\* The initial database is a sound ledger.
LEMMA LedgerInit == Init => Ledger!Init
  <1> SUFFICES ASSUME Init PROVE Ledger!Init
    OBVIOUS
  <1>1. IInv
    BY InvInit
  <1>2. Ledger!Unbroken
    BY <1>1, LedgerVocabulary
    DEF IInv, TrailUnbroken, Entered, Ledger!Unbroken, Ledger!Entered
  <1>3. Ledger!Certified
    BY <1>1, LedgerVocabulary
    DEF IInv, CertificateGate, Ledger!Certified, Ledger!HasCertificate
  <1>4. Ledger!Accepted
    BY <1>1, LedgerVocabulary DEF IInv, ActivationJustified, Ledger!Accepted
  <1> QED
    BY <1>1, <1>2, <1>3, <1>4, LedgerVocabulary DEF IInv, TypeOK, Ledger!Init, Ledger!Sound

\* Adding a certificate files it, committing a transition records it, and no
\* other step touches the ledger.
LEMMA LedgerStep == IInv /\ [Next]_vars => [Ledger!Next]_(Ledger!ledgerVars)
  <1> SUFFICES ASSUME IInv, [Next]_vars
               PROVE  Ledger!Next \/ UNCHANGED <<history, certs, active>>
    BY DEF Ledger!ledgerVars
  <1> USE DEF unitVars, trailVars, shipmentVars
  <1>1. ASSUME NEW u \in Unit, UnitStep(u)
        PROVE  Ledger!Next \/ UNCHANGED <<history, certs, active>>
    <2>1. ASSUME NEW s \in CertificateInputs, AddCertificate(u, s) PROVE Ledger!Next
      <3>1. s \in Stage
        BY InputAssumption
      <3>2. Ledger!File(u, s)
        BY <2>1 DEF AddCertificate, Ledger!File
      <3> QED
        BY <3>1, <3>2, LedgerVocabulary DEF Ledger!Next
    <2> QED
      BY <1>1, <2>1 DEF UnitStep, CreateUnit, UpdateUnit, DeleteUnit, UpdateChecklist
  <1>2. ASSUME NEW s \in Shipment, ShipmentStep(s) PROVE UNCHANGED <<history, certs, active>>
    BY <1>2 DEF ShipmentStep, CreateShipment, UploadDocument
  <1>3. ASSUME NEW r \in Request, RequestStart(r) PROVE UNCHANGED <<history, certs, active>>
    BY <1>3 DEF RequestStart, TransitionLoad, AssignLoad, StatusLoad, PlaceLoad
  <1>4. ASSUME NEW r \in Request, TransitionCommit(r) PROVE Ledger!Next
    <2>1. PICK u \in Unit, a \in Stage, b \in Stage : TransitionEffect(r, u, a, b)
      BY <1>4, TransitionCommitEffect
    <2>2. /\ req[r].unit = u /\ req[r].from = a /\ req[r].to = b
          /\ <<a, b>> \in STAGE_TRANSITIONS
      BY <2>1 DEF TransitionEffect
    <2>3. a \in GatedStages => Ledger!Entered(u, a)
      BY <2>1, LedgerVocabulary DEF TransitionEffect, Entered, Ledger!Entered
    <2>4. a \in LOGISTICS_CERT_REQUIRED_STAGES => Ledger!HasCertificate(u, a)
      BY <2>1, LedgerVocabulary DEF TransitionEffect, CertifiedIn, Ledger!HasCertificate
    <2>5. history' = [history EXCEPT ![u] = @ \cup {<<a, b>>}]
      BY <1>4, <2>2 DEF TransitionCommit
    <2>6. IF b = "ACTIVE"
          THEN /\ active' = active \cup {u}
               /\ certs' = [certs EXCEPT ![u] = @ \cup
                              {<<"FINAL_ACCEPTANCE", "AUTO_HANDOVER_DOCUMENT">>}]
          ELSE UNCHANGED <<active, certs>>
      <3>1. req[r] \in TransitionRequest /\ TransitionSound(req[r])
        BY <2>1 DEF TransitionEffect, IInv, InFlight, RequestSound
      <3>2. b = "ACTIVE" <=> req[r].pc = "documented"
        BY <1>4, <2>2, <3>1 DEF TransitionCommit, ReadyToCommit, TransitionSound
      <3> QED
        BY <1>4, <2>2, <3>2 DEF TransitionCommit
    <2>7. Ledger!Record(u, <<a, b>>)
      BY <2>3, <2>4, <2>5, <2>6, LedgerVocabulary DEF Ledger!Record
    <2> QED
      BY <2>2, <2>7, LedgerVocabulary DEF Ledger!Next
  <1>5. ASSUME NEW r \in Request, RequestStep(r), ~TransitionCommit(r)
        PROVE  UNCHANGED <<history, certs, active>>
    BY <1>5 DEF RequestStep, TransitionCertificateGate, TransitionChecklistGate,
       TransitionHandoverGate, QueueEngineerTask, AssignReread, AssignCommit, StatusFlush,
       StatusCommit, PlaceCommit, Fail
  <1>6. CASE UNCHANGED vars
    BY <1>6 DEF vars
  <1> QED
    BY <1>1, <1>2, <1>3, <1>4, <1>5, <1>6 DEF Next

\* Whatever requests interleave, an auditor who reads stage_history,
\* stage_certificates and is_active sees a behaviour of StageLedger.
THEOREM ImplementsLedger == Spec => LedgerImplemented
  <1>1. Init => Ledger!Init
    BY LedgerInit
  <1>2. IInv /\ [Next]_vars => [Ledger!Next]_(Ledger!ledgerVars)
    BY LedgerStep
  <1> QED
    BY <1>1, <1>2, InductiveInvariant, PTL DEF Spec, LedgerImplemented, Ledger!Spec
============================================================================
