\* A unit that its shipment carried past the gates of port and warehouse stands
\* before the last steps to operation, and the shipment can pull it back to
\* them; checklists can be unchecked.
SPECIFICATION Spec
CONSTANTS
    Unit = {u1}
    Shipment = {s1}
    Request = {r1, r2}
    MandatoryStages = {"PORT_CLEARED", "FINAL_ACCEPTANCE"}
    SeedUnits = {u1}
    SeedStage = "HOT_COMMISSION"
    SeedTrail <- TrailFromSite
    SeedItems <- Carried
    TransitionTargets = {"FINAL_ACCEPTANCE", "ACTIVE", "PORT_CLEARED", "WAREHOUSE_STORED", "DISPATCHED_TO_SITE"}
    StatusInputs = {"ARRIVED"}
    CertificateInputs = {"PORT_ARRIVED", "PORT_CLEARED"}
    DocumentInputs = {"OTHER"}
    EditInputs = {"warehouse"}
    PlaceInputs = {"warehouse"}
    ExpectedQuantity = 1
SYMMETRY Interchangeable
INVARIANTS
    TypeOK
    StageProvenance
    CertificateGate
    TrailUnbroken
    ActivationJustified
    TasksFollowHistory
PROPERTY
    LedgerImplemented
