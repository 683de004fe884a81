SPECIFICATION FairSpec
CONSTANTS
    s1 = s1
    s2 = s2
    h1 = h1
    h2 = h2
    w1 = w1
    w2 = w2
    None = None
    Subs = {s1, s2}
    Inline = {}
    Workers = {w1, w2}
    Hashes = {h1}
    Canonical <- Twins
    PurgeRaw = TRUE
    MaxAttempts = 2
    Faults = {"twice", "object"}
    MaxFaults = 3
INVARIANTS
    ExclusiveAttempt
PROPERTIES
    LifecycleKept
    JobsSettle
CHECK_DEADLOCK FALSE
