SPECIFICATION Spec
CONSTANTS
    Departments <- Offices
    CategoryOf <- Categories
    TasksOf <- Work
    Rules <- RuleList
    Fallback = "desk"
    CatalogVersion = "current"
    NoVersion = ""
    SensitiveCategories = {"welfare"}
    Words <- Strings
    Documents <- Titles
    Guide <- Shelf
    NoDocument = ""
    NoUntil <- Open
    MaxDocuments = 2
    Texts <- Messages
    Answers <- Replies
    Drafts <- Proposals
    Threshold = 90
    CatalogUntil = 1
    MaxDay = 2
    MaxTriages = 1
    Nowhere = "nowhere"
    Projections <- Tables
INVARIANTS TypeOK AssignedIsSafe CandidatesAreOurs DangerIsKept CitationsHold QueuedIsHarmless
PROPERTIES StoredAsPrepared KeepsGate
CHECK_DEADLOCK FALSE
