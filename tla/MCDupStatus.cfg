SPECIFICATION Spec
CONSTANTS
    Highest = {0, 2, 3}
    MaxBody = 2
    MaxBuckets = 1
    MaxBrigades = 2
    MaxCalls = 2
    MaxHops = 0
INVARIANT StatusTruthful
