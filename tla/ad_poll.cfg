\* Two workers; cycles overlap and are cut short before and after the API
\* accepted a batch; queries fail silently and run in the second of the cutoff.
SPECIFICATION FairSpec
CONSTANTS
    Workers = {w1, w2}
    Events = {logon, unreadable}
    Malformed = {unreadable}
    TicksPerSecond = 2
    Lookback = 3
    MaxTime = 4
    MaxFaults = 1
INVARIANTS NothingSkipped DuplicatesOwedToRetries
PROPERTIES EventuallyIngested
