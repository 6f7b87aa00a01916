\* A cycle fails after the collector took the session into its memory, and is retried.
SPECIFICATION Spec
CONSTANTS
    Workers = {w1}
    Logins = {}
    Commands = {}
    Sessions = {s1}
    TicksPerSecond = 1
    Lookback = 2
    MaxTime = 4
    MaxFaults = 1
INVARIANTS RetryLosesNoStart
