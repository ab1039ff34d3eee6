\* The commissioning of one unit: transitions, tasks and assignments at the
\* same time, with faults.
SPECIFICATION StaffedSpec
CONSTANTS
    near = near
    Unit = {u1}
    Shipment = {}
    Request = {r1}
    MandatoryStages = {}
    SeedUnits = {u1}
    SeedStage = "HOT_COMMISSION"
    SeedTrail <- TrailToHotCommission
    SeedItems = {}
    TransitionTargets = {"FINAL_ACCEPTANCE", "ACTIVE"}
    StatusInputs = {}
    CertificateInputs = {}
    DocumentInputs = {}
    EditInputs = {}
    PlaceInputs = {}
    ExpectedQuantity = 1
    Engineer = {near}
    InCity <- Everyone
    InCountry <- Everyone
    Specialization <- Specialists
    Capacity <- MaxConcurrent
    Task = {t1, t2}
    Workers = 2
    CrewRequest = {c1}
    MaxRetries = 1
    MaxRows = 3
    Modes <- Racing
INVARIANT
    EngineersAreCalled
PROPERTY
    WorkersAreServed
\* A deleted unit is left alone.
CHECK_DEADLOCK FALSE
