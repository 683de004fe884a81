SPECIFICATION Spec
CONSTANTS
    e1 = e1
    e2 = e2
    u1 = u1
    u2 = u2
    c1 = c1
    x1 = x1
    x2 = x2
    None = None
    Events = {e1, e2}
    Usage <- TwoUsages
    Amount <- Amounts
    Payee <- OneContributor
    Entities = {x1, x2}
    Covers <- Scope
    Batches = {b1, b2}
    Settlers = {r1}
    Transfers = {t1, t2}
    Disputes = {d1}
    Limits = {1, 2}
    Minimums = {0, 2}
INVARIANTS
    TypeOK
    BatchAddsUp
    EventFollowsBatch
    SettledWasPaid
    SettledToVerified
PROPERTIES
    HoldStops
    PayoutsKept
SYMMETRY Interchangeable
CHECK_DEADLOCK FALSE
