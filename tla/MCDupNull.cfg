SPECIFICATION Spec
CONSTANTS
    Upper <- MCUpper
    Unescaped <- MCUnescaped
    Escaped <- MCEscaped
    Locations <- MCLocations
    DestOrder <- MCDestOrder
    Workers <- MCWorkers
    Scenarios <- UninitialisedScenarios
    Rands = {0, 49, 50, 99}
    UnsignedRange = 20000
    MaxReports = 1
CHECK_DEADLOCK FALSE
INVARIANT
    ProcessorExists
