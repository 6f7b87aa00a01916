\* Two connections, two changes of filters or two incidents opened.
SPECIFICATION FairSpec
CONSTANTS
    MaxSockets = 2
    Incidents = {"i1", "i2"}
    Filters = {"all", "high"}
    Matching <- Severities
    FirstFilter = "all"
    MaxFilterChanges = 2
    MaxAnnouncements = 3
    Subjects = {"i1", "i2"}
    Records = {"r1"}
    RecordOf <- OfFirst
    MaxSnapshots = 2
    MaxOpened = 2
    MaxAnalyses = 1
    NoIncident = NoIncident
INVARIANTS QueueMatchesFilter MissingOnlyInGaps DetailIsSelected ForeignAnalysisOnlyAfterLeaving RecordsCurrent
PROPERTIES AnnouncedIsShown
CHECK_DEADLOCK FALSE
