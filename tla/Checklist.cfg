\* Two handlers, together and one at a time, while the panel and the scripts
\* change items and responses.
SPECIFICATION Spec
CONSTANTS
    t1 = t1
    t2 = t2
    i1 = i1
    i2 = i2
    i3 = i3
    r1 = r1
    r2 = r2
    Template = {t1, t2}
    Response = {i1, i2, i3}
    Stages = {"HOT_COMMISSION", "FINAL_ACCEPTANCE", "ACTIVE"}
    Text = {"rated power", "customer trained"}
    Files <- TemplateFiles
    Forms <- Moved
    Photo = {"photo"}
    Person = {"engineer"}
    Request = {r1, r2}
    Overlaps = {TRUE, FALSE}
    MaxEdits = 2
\* A deleted unit is left alone.
CHECK_DEADLOCK FALSE
SYMMETRY Alike
INVARIANTS
    TypeOK
    ResponsesBounded
    GatesHold
    AnswersHoldTogether
PROPERTY
    GatesAskForTicks
    GateImplemented
