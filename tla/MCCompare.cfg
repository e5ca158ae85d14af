SPECIFICATION Spec
CONSTANTS
    Digit <- MCDigit
    SectionWidth = 2
    Lines <- MCLines
    Threads = {1, 2, 3}
    Process <- MCProcess
    BufSize = 2
    Scenarios <- MCScenarios
    Number <- MCNumber
    CMaxBytes = 3
    ReadSizes = {1, 4}
CHECK_DEADLOCK FALSE
INVARIANTS
    TypeOK
    RequestRestored
    EnvMatches
    
    CassandraReported
    CassandraComplete
    LogExclusive
    RecordsKept
    RecordsWhole
PROPERTIES
    WritersProceed
