SPECIFICATION Spec
CONSTANTS
    None = None
    Scores = {0, 5, 50, 78, 100}
    Revenues <- SmallRevenues
    Costs = {0, 2}
    MaxCases = 4
INVARIANTS
    SplitsThePool
    NoFairerSplit
    MoreWeightEarnsMore
CHECK_DEADLOCK FALSE
