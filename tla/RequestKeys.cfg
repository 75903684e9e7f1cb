SPECIFICATION KeySpec
CONSTANTS
    c1 = c1
    w1 = w1
    Complaints = {c1}
    Keys <- TwoKeys
    JobIds = {1, 2}
    Workers = {w1}
    Releases <- SensitiveRelease
    RetrySeconds = 1
    LeaseSeconds = 2
    MaxRestarts = 0
PROPERTIES ExistingKeyReopensNothing
CHECK_DEADLOCK FALSE
