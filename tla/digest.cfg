\* The scheduled task and the route, everything in flight at once.
SPECIFICATION FairSpec
CONSTANTS
    Events = {"e1", "e2"}
    Incidents = {i1}
    Evidence <- BothEvents
    Requests = {r1}
    About <- TheIncident
    Calls = {c1, c2}
    Builds = {"task", "route"}
    Scheduled = {"task"}
    Day = 1
    MaxRunning = 1
    MaxTime = 2
    Kind <- FailedLogons
    Named <- Users
    Severity <- High
    RealMode = {r1}
    RankingLimit = 1
INVARIANTS AdjacentCountOnce IncidentsRestOnCounted DeliveredIsRetained NarrativeOfItsFacts RankingsAreTop
PROPERTIES ScheduledIsRetained
CHECK_DEADLOCK FALSE
