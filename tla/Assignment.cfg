\* Two workers and one API request: everything overlapping, with and without
\* faults, and one handler or task at a time.
SPECIFICATION FairSpec
CONSTANTS
    near = near
    far = far
    Unit = {u1}
    Engineer = {near, far}
    InCity <- CityOf
    InCountry <- CountryOf
    Specialization <- Specialists
    Capacity <- MaxConcurrent
    Task = {t1, t2}
    Workers = 2
    Request = {r1}
    MaxRetries = 1
    MaxRows = 3
    Modes <- AllModes
INVARIANTS
    TypeOK
    OneAutoRowPerWorker
    UnavailableIsFull
PROPERTIES
    AutoRespectsCapacity
    DeletedUnitsRest
    TasksFinish
    StagesGetEngineers
