SPECIFICATION Spec
CONSTANTS
    r1 = r1
    r2 = r2
    here = here
    there = there
    uess = uess
    serial = serial
    MaxId = 6
    Name = {here, there}
    Code = {here, there}
    Family = {uess}
    Serial = {serial}
    Seeded <- SeededRows
    Request = {r1, r2}
    Modes <- AllModes
    MaxEdits = 1
\* A behaviour ends when the ids are used up.
CHECK_DEADLOCK FALSE
SYMMETRY Alike
INVARIANTS
    TypeOK
    PlacesNest
    SitesBounded
    OneRowPerFamily
    QrNamesItsUnit
    QrShowsProfile
PROPERTY
    RegistrationIsAtomic
