\* Two active rows of one stage, with one handler or task at a time.
SPECIFICATION Spec
CONSTANTS
    near = near
    far = far
    Unit = {u1}
    Engineer = {near, far}
    InCity <- CityOf
    InCountry <- CountryOf
    Specialization <- Specialists
    Capacity <- MaxConcurrent
    Task = {t1}
    Workers = 1
    Request = {r1}
    MaxRetries = 1
    MaxRows = 2
    Modes <- OneAtATimeOnOne
INVARIANT
    OneActivePerStage
