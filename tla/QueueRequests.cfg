SPECIFICATION Spec
CONSTANTS
    c1 = c1
    c2 = c2
    w1 = w1
    w2 = w2
    Complaints = {c1}
    Keys <- TwoKeys
    JobIds = {1, 2}
    Workers = {w1}
    Releases <- ModeSwitch
    RetrySeconds = 1
    LeaseSeconds = 2
    MaxRestarts = 0

INVARIANT OneActiveJob
PROPERTIES KeepsGates AnswersStay
CHECK_DEADLOCK FALSE
