\* A transition and a shipment update on one unit, against the rule
\* API_FLOW_GUIDE.md gives for a transition.
SPECIFICATION Spec
CONSTANTS
    Unit = {u1}
    Shipment = {s1}
    Request = {r1, r2}
    MandatoryStages = {}
    SeedUnits = {u1}
    SeedStage = "FACTORY_REGISTERED"
    SeedTrail <- NoTrail
    SeedItems = {}
    TransitionTargets = {"PACKED"}
    StatusInputs = {"IN_TRANSIT"}
    CertificateInputs = {}
    DocumentInputs = {}
    EditInputs = {}
    PlaceInputs = {}
    ExpectedQuantity = 1
PROPERTY
    TransitionsAreExactNext
