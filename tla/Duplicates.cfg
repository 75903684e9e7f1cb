SPECIFICATION Spec
CONSTANTS
    c1 = c1
    c2 = c2
    c3 = c3
    c4 = c4
    o1 = o1
    o2 = o2
    q1 = q1
    q2 = q2
    Complaints = {c1, c2, c3, c4}
    Legacy = {c2}
    Officers = {o1, o2}
    Requests = {q1, q2}
    Outcomes <- Triages
    Created <- Days
    Similarity <- Alike
    Window = 30
    MaxCandidates = 1
    MaxRowId = 3
    NoPlace = NoPlace
    Nobody = Nobody
SYMMETRY Symmetric
INVARIANTS TypeOK LocationsFollowTriage SuggestionsCurrent NoMatchMissed RowsTellDecisions
PROPERTY ImplementsReview
