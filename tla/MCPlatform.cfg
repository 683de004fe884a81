SPECIFICATION MCSpec
CONSTANTS
    c1 = c1
    c2 = c2
    q1 = q1
    q2 = q2
    o1 = o1
    o2 = o2
    t1 = t1
    t2 = t2
    g1 = g1
    g2 = g2
    None = None
    Procs = {q1, q2}
    Releases = {1, 2, 3}
    Tables = {t1, t2}
    Groups = {g1, g2}
    Group <- SomeGroups
    Definition <- SomeDefinitions
    Configs <- SomeConfigs
    ComplianceTypes = {"agreement"}
    Placeholder = "internal_test_evidence"
    Clients = {c1, c2}
    Threads = {q1, q2}
    Limit = 1
    Window = 3
    Capacity = 2
    Delay = 1
    MaxTime = 8
    Owners = {o1, o2}
    Address <- SomeAddress
    Uses = {"private", "training"}
    Submissions = {c1, c2}
    Assets = {t1, t2}
    TextAssets = {t1}
    Requests = {q1, q2}
INVARIANTS
    TypesOK
    BurstBounded
    StatusTellsTables
    ReadyIsQuiet
    NothingMisfiled
PROPERTIES
    RefusedIsBusy
SYMMETRY Interchangeable
CHECK_DEADLOCK FALSE
