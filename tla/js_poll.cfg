\* One worker process; a record and a session; cycles are cut short before and
\* after the post, and the process is replaced.
SPECIFICATION FairSpec
CONSTANTS
    Workers = {w1}
    Logins = {l1}
    Commands = {}
    Sessions = {s1}
    TicksPerSecond = 2
    Lookback = 2
    MaxTime = 4
    MaxFaults = 2
INVARIANTS OnlyCutoffSecondSkipped SessionEventsOncePerProcess
PROPERTIES EventuallyIngested
