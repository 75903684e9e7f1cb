SPECIFICATION Spec
CONSTANTS
    p1 = p1
    p2 = p2
    Pages = {p1, p2}
    Texts = {"draft", "answer", "phone"}
    Identifying = {"phone"}
    MaxReviews = 2
INVARIANTS TypeOK RepliesFollowReviews GroundingHonest
PROPERTY ShowsLatestDecision
