SPECIFICATION MCSpec
CONSTANTS
    c1 = c1
    c2 = c2
    c3 = c3
    o1 = o1
    o2 = o2
    x1 = x1
    b1 = b1
    g1 = g1
    p1 = p1
    r1 = r1
    q1 = q1
    q2 = q2
    None = None
    Cases = {c1, c2, c3}
    Owners = {o1, o2}
    Owner <- SomeOwner
    AuthorizationID <- SomeAuthorizations
    Unsafe = {c3}
    Artifacts = {"data", "manifest"}
    Purposes = {"eval", "commercial"}
    MaxDatasets = 2
    CaseLimit = 2
    OverlapLimit = 6
    Orders = {x1}
    Customers = {b1}
    Grants = {g1}
    Budgets = {1}
    Disputes = {p1}
    DSRs = {r1}
    Requests = {q1, q2}
INVARIANTS
    TypeOK
    BilledIsComplete
    HoldoutIsolation
    GrantSendsOnlySafe
    GrantIsOrdered
    FulfilledIsWithdrawn
PROPERTIES
    ExportIsAuthorized
    DownloadIsClear
    ReadsMetered
SYMMETRY Interchangeable
