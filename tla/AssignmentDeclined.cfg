\* What follows a decline, if no process dies.
SPECIFICATION FairSpec
CONSTANTS
    near = near
    far = far
    Unit = {u1}
    Engineer = {near, far}
    InCity <- CityOf
    InCountry <- CountryOf
    Specialization <- Specialists
    Capacity <- MaxConcurrent
    Task = {t1}
    Workers = 1
    Request = {r1}
    MaxRetries = 1
    MaxRows = 2
    Modes <- FaultlessOnOne
PROPERTY
    DeclinedIsReassigned
