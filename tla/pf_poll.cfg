\* Two workers; cycles overlap and are cut short before and after the post.
SPECIFICATION FairSpec
CONSTANTS
    Workers = {w1, w2}
    Macs = {m1}
    MaxEpisodes = 3
    MaxFaults = 2
INVARIANTS KnownWasAlerted SerialReentryAlerted RepeatsOwedToRetries
PROPERTIES EventuallyKnown
