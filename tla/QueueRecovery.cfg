SPECIFICATION Spec
CONSTANTS
    c1 = c1
    c2 = c2
    w1 = w1
    w2 = w2
    Complaints = {c1, c2}
    Keys <- OneKey
    JobIds = {1, 2}
    Workers = {w1}
    Releases <- OneRelease
    RetrySeconds = 1
    LeaseSeconds = 2
    MaxRestarts = 1


PROPERTIES ImplementsLifecycle
CHECK_DEADLOCK FALSE
