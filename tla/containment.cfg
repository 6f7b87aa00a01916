\* Three blocks, two calls of each other client and one of each direct request,
\* with late requests and two changes by administrators.
SPECIFICATION FairSpec
CONSTANTS
    Blocks = {"block1", "block2", "block3"}
    BlockIp <- Ips
    InitialGroup <- FirstGroup
    AdminMembers <- Edited
    MaxGroupEdits = 2
    Disables = {"disable1", "disable2"}
    OtherFlags = {"NORMAL_ACCOUNT", "SMARTCARD_REQUIRED"}
    FirstControl = {"NORMAL_ACCOUNT"}
    MaxFlagChanges = 2
    Kills = {"kill1", "kill2"}
    KillSession <- OneSession
    Verifies = {"verify1", "verify2"}
    ConfirmationAttempts = 3
    MaxUserChanges = 2
    Posts = {"post1", "post2", "post3"}
    PostKind <- Kinds
    OpsRuns = {"run1", "run2"}
    CompletionTimeout = 3
    SlowestRead = 2
INVARIANTS GroupAsMeant FlagsAsMeant
PROPERTIES ClientsKeepPromise
CHECK_DEADLOCK FALSE
