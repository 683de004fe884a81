SPECIFICATION MCSpec
CONSTANTS
    c1 = c1
    c2 = c2
    r1 = r1
    q1 = q1
    q2 = q2
    r2 = r2
    None = None
    Cases = {c1, c2}
    Reviewers = {r1, r2}
    Requests = {q1, q2}
    Texts <- SomeTexts
    Edits <- SomeEdits
    GatewayMode = "http"
    Endpoint = TRUE
    Lease = 0
INVARIANTS
    TypeOK
    Quarantined
    ReadyIsEarned
    LabelTellsFields
    InReviewIsHeld
PROPERTIES
    LiveClaimKept OldestIsServed
