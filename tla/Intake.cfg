SPECIFICATION Spec
CONSTANTS
    s1 = s1
    s2 = s2
    f1 = f1
    f2 = f2
    r1 = r1
    r2 = r2
    c1 = c1
    c2 = c2
    c3 = c3
    Sessions = {s1, s2}
    Forms = {f1, f2}
    Requests = {r1, r2}
    Complaints = {c1, c2, c3}
    NoSession = NoSession
    NoForm = NoForm
    NoComplaint = NoComplaint
SYMMETRY Symmetry
INVARIANTS TypeOK OneFilingPerForm ReceiptsAgree OnlyWithCode
PROPERTY ImplementsDesk
CHECK_DEADLOCK FALSE
