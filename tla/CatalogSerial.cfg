SPECIFICATION Spec
CONSTANTS
    p1 = p1
    p2 = p2
    A = A
    B = B
    C = C
    NoVersion = NoVersion
    Nobody = Nobody
    Processes = {p1}
    Complaints = {"c1"}
    Departments = {A, B, C}
    Files <- Generations
    MaxDay = 1
INVARIANTS SuccessorsNameCurrent RetiredStaysRetired StableOwners ProjectionIsCurrent
