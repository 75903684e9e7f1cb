SPECIFICATION Spec
CONSTANTS
    c1 = c1
    c2 = c2
    w1 = w1
    w2 = w2
    Complaints = {c1}
    Keys <- TwoKeys
    JobIds = {1}
    Workers = {w1, w2}
    Releases <- Rollover
    RetrySeconds = 1
    LeaseSeconds = 2
    MaxRestarts = 1
SYMMETRY Symmetric
INVARIANTS TypeOK ClaimsConsistent CallsWithinBudget
PROPERTIES OnlyHolderEndsClaim
CHECK_DEADLOCK FALSE
