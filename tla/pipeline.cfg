\* Ingests of device events and analyses of their incidents, two requests at a
\* time, with every fault; every call in flight is resumed until it ends.
SPECIFICATION FairSpec
CONSTANTS
    Calls = {c1, c2}
    Events <- SomeEvents
    MaxBatch = 1
    Citations <- SomeCitations
    Window = 3
    Username <- MCUsername
    MacAddress <- MCMacAddress
    Identifier <- MCIdentifier
    TierZeroAssets = {"srv-t0"}
    PawDevices = {"paw"}
    IsolatedDevices = {"aa:01"}
    NoIncident = NoIncident
INVARIANTS IncidentsJustified NoMatchLost EveryChainMet CreatedOnce GrownClustersOverlap RiskGrowsWithEvidence AnalysesGrounded
PROPERTIES ChainsReported
