\* The guards API_FLOW_GUIDE.md gives the status PACKED.
SPECIFICATION Spec
CONSTANTS
    Unit = {u1}
    Shipment = {s1}
    Request = {r1}
    MandatoryStages = {}
    SeedUnits = {u1}
    SeedStage = "FACTORY_REGISTERED"
    SeedTrail <- NoTrail
    SeedItems = {}
    TransitionTargets = {}
    StatusInputs = {"PACKED"}
    CertificateInputs = {}
    DocumentInputs = {"OTHER"}
    EditInputs = {}
    PlaceInputs = {}
    ExpectedQuantity = 1
INVARIANT
    PackedShipmentsAreComplete
