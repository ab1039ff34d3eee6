\* Two handlers answer one item that requires a photo; nobody else changes
\* anything once the file is loaded.
SPECIFICATION Spec
CONSTANTS
    t1 = t1
    t2 = t2
    i1 = i1
    i2 = i2
    i3 = i3
    r1 = r1
    r2 = r2
    Template = {t1}
    Response = {i1}
    Stages = {"HOT_COMMISSION", "FINAL_ACCEPTANCE", "ACTIVE"}
    Text = {"rated power", "customer trained"}
    Files <- TemplateFiles
    Forms = {}
    Photo = {"photo"}
    Person = {"engineer"}
    Request = {r1, r2}
    Overlaps = {TRUE}
    MaxEdits = 1
CHECK_DEADLOCK FALSE
INVARIANT
    PhotoForEveryCheckedItem
