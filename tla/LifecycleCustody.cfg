\* Two units, two shipments and two concurrent handlers: linking, moving and
\* deleting.
SPECIFICATION Spec
CONSTANTS
    Unit = {u1, u2}
    Shipment = {s1, s2}
    Request = {r1, r2}
    MandatoryStages = {}
    SeedUnits = {}
    SeedStage = "FACTORY_REGISTERED"
    SeedTrail <- NoTrail
    SeedItems = {}
    TransitionTargets = {"SHIPMENT_ASSIGNED"}
    StatusInputs = {"DISPATCHED_TO_SITE"}
    CertificateInputs = {}
    DocumentInputs = {}
    EditInputs = {}
    PlaceInputs = {"site"}
    ExpectedQuantity = 2
SYMMETRY Interchangeable
INVARIANTS
    OneShipmentPerUnit
    LinkedUnitsLeftFactory
    DispatchHasSite
PROPERTY
    DeletedUnitsDrain
