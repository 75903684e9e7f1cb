SPECIFICATION Spec
CONSTANTS
    p1 = p1
    p2 = p2
    A = A
    B = B
    C = C
    NoVersion = NoVersion
    Nobody = Nobody
    Processes = {p1, p2}
    Complaints = {"c1"}
    Departments = {A, B, C}
    Files <- Rivals
    MaxDay = 1
INVARIANT SuccessorsNameCurrent
