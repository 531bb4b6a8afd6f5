SPECIFICATION Spec
CONSTANTS
    Calls = {q1, q2}
    RetryTimes = 2
    MaxUpsets = 2
    Threads = {th1, th2}
    Slots = {s1}
    MaxJobs = 2
    MaxPools = 2
    MaxPoolFaults = 2
    Configs = {c1}
    Engines = {e1}
    Intervals = {30, 60}
    Ttl = 2
    MaxClock = 4
    MaxVersion = 3
    MaxRestarts = 1
    Entries = {i1, i2}
    Names = {n1, n2}
    NoName = NoName
    Probes = {p1}
    MaxRevision = 2
    MaxLives = 2
    Fields = {f1, f2, f3}
    Stamps = {f3}
    NoField = NoField
    MaxDefinitions = 2
    MaxWidth = 2
    Offsets = {0, 24, 25, 701}
    Texts = {"", "a", "ab"}
    Within <- MCWithin
    TypeNames = {"", "absent", "INT", "INT UNSIGNED", "CHAR", "TINYINT", "BOOL", "DOUBLE", "DECIMAL", "NUMERIC", "ENUM", "VARCHAR", "TEXT", "LONGTEXT", "BLOB", "JSON", "DATETIME", "TIMESTAMP", "UUID"}
    Forms <- MCForms
    KeyColumns = {"k"}
    DataColumns = {"d"}
    ColumnTypes = {"INT", "BOOL", "TEXT"}
    MaxRows = 3
    BatchSizes = {1, 2}
    MaxPoints = 2
    MaxEvents = 3
    Window = 1
    MaxTime = 3
    MaxSyncs = 4
    Samples = {1, 9, 10, 19, 20, 99, 100, 101}
    Criticals = {0, 1, 3, 4, 11}
    Undelivered = {99, 100, 101, 140, 141}
    Recents = {9, 10, 11, 20, 21}
CHECK_DEADLOCK FALSE
INVARIANTS
    ServicesTypeOK
    ExhaustedByFaults
    NoConnectionLost
    ResultIsTrue
    NoForeignLogId
    StalenessBounded
    JobHasStoredInterval
    SecretsReadable
    RoundTripInPlace
    ProposalUsable
    AcceptedIsUsable
    PortableTable
    AcceptedIsMade
    BatchedIsRowByRow
    ValidRowsHaveKeys
    RatesBounded
    EventsAreNewest
    PercentilesOrdered
    HealthFitsChecks
PROPERTIES
    ReportsWhatHappened
    EveryRequestEnds
    DeletedStayDeleted
    StatusNotOfOlder
