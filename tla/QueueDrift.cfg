SPECIFICATION FairSpec
CONSTANTS
    c1 = c1
    c2 = c2
    w1 = w1
    w2 = w2
    Complaints = {c1}
    Keys <- OneKey
    JobIds = {1}
    Workers = {w1}
    Releases <- Drift
    RetrySeconds = 1
    LeaseSeconds = 2
    MaxRestarts = 1

PROPERTIES JobsFinish OnlyCurrentResults
CHECK_DEADLOCK FALSE
