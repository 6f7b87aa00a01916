\* Re-entry when cycles overlap.
SPECIFICATION Spec
CONSTANTS
    Workers = {w1, w2}
    Macs = {m1}
    MaxEpisodes = 2
    MaxFaults = 0
INVARIANTS ReentryAlerted
