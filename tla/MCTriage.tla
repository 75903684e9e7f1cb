----------------------------- MODULE MCTriage ------------------------------
(* An instance of Triage for TLC. *)
EXTENDS Triage, TLC

\* Two ordinary departments, a sensitive one, and the fallback; "ghost" is none.
Offices == {"roads", "parks", "welfare", "desk"}

\* The department table as the catalog says, or with a department still retired.
Tables == {Offices, Offices \ {"roads"}}

Categories == [d \in Offices |-> IF d = "desk" THEN "other" ELSE d]

Strings == STRING

Work == "roads" :> {"r1", "r2"} @@ "parks" :> {"p1"} @@ "welfare" :> {"w1"} @@ "desk" :> {"d1"}

Rule(department, subcategory, task, needsPlace) ==
    [department |-> department, subcategory |-> subcategory, tasks |-> {task},
     needsPlace |-> needsPlace]

RuleList ==
    <<Rule("roads", "pothole", "r1", TRUE), Rule("roads", "sign", "r2", FALSE),
      Rule("parks", "bench", "p1", FALSE), Rule("welfare", "benefit", "w1", FALSE)>>

-----------------------------------------------------------------------------
(* Guidance.  road1 is replaced by road2 on day 1; road2 lasts one day and is *)
(* to be replaced by a draft; park1 ends on day 0; trap is not safe to cite.  *)

Open == -1

Guidance(category, from, until, approval, successor, unsafe, lead, place) ==
    [category |-> category, from |-> from, until |-> until, approval |-> approval,
     successor |-> successor, unsafe |-> unsafe, personal |-> FALSE, lead |-> lead,
     place |-> place]

Shelf ==
    "road1" :> Guidance("roads", 0, Open, "approved", "road2", FALSE, 5, 1) @@
    "road2" :> Guidance("roads", 1, 1, "approved", "road3", FALSE, 3, 2) @@
    "road3" :> Guidance("roads", 0, Open, "draft", "", FALSE, 5, 3) @@
    "road4" :> Guidance("roads", 0, Open, "approved", "", FALSE, 2, 4) @@
    "park1" :> Guidance("parks", 0, 0, "approved", "", FALSE, 4, 5) @@
    "trap" :> Guidance("parks", 0, Open, "approved", "", TRUE, 4, 6)

Titles == DOMAIN Shelf

-----------------------------------------------------------------------------
(* Texts.                                                                     *)

About(hits, shared) ==
    [hits |-> hits, emergency |-> "normal", sensitive |-> FALSE, located |-> TRUE,
     unsafe |-> FALSE, tokens |-> shared, concepts |-> [d \in Titles |-> 1],
     score |-> [d \in Titles |-> IF d = "road4" THEN 1 ELSE 2]]

All(n) == [d \in Titles |-> n]

Pothole == About(<<2, 0, 0, 0>>, [All(2) EXCEPT !["road4"] = 1])

Messages ==
    {Pothole,
     [Pothole EXCEPT !.located = FALSE],
     [Pothole EXCEPT !.emergency = "high"],
     [Pothole EXCEPT !.emergency = "critical", !.located = FALSE],
     [Pothole EXCEPT !.sensitive = TRUE],
     [Pothole EXCEPT !.unsafe = TRUE],
     [Pothole EXCEPT !.hits = <<1, 0, 0, 0>>],
     [Pothole EXCEPT !.hits = <<2, 1, 0, 0>>],
     [Pothole EXCEPT !.hits = <<2, 0, 2, 0>>],
     [Pothole EXCEPT !.hits = <<3, 0, 0, 1>>],
     [Pothole EXCEPT !.hits = <<0, 2, 0, 0>>, !.located = FALSE],
     About(<<0, 0, 2, 0>>, All(2)),
     About(<<0, 0, 0, 0>>, All(0)),
     About(<<3, 0, 0, 0>>, All(2))}

-----------------------------------------------------------------------------
(* Answers of classifiers that cannot be relied on.                           *)

Candidate(department, confidence) ==
    [department |-> department, confidence |-> confidence, version |-> "", tasks |-> {}]

Answer(candidates) ==
    [failed |-> FALSE, category |-> "roads", subcategory |-> "pothole", urgency |-> "normal",
     missing |-> FALSE, review |-> FALSE, reasons |-> {}, candidates |-> candidates]

Roads == Candidate("roads", 95)

Replies ==
    {Answer(<<Roads>>),
     Answer(<<Roads, Candidate("parks", 60)>>),
     Answer(<<Candidate("ghost", 97), Roads>>),
     Answer(<<Candidate("ghost", 97)>>),
     Answer(<<Roads, Candidate("roads", 60)>>),
     Answer(<<Candidate("roads", 99), Candidate("parks", 92)>>),
     Answer(<<Candidate("roads", 94), Candidate("parks", 89)>>),
     Answer(<<Roads, Candidate("welfare", 50)>>),
     Answer(<<Roads, Candidate("desk", 50)>>),
     Answer(<<Candidate("roads", 89)>>),
     Answer(<<Candidate("desk", 95)>>),
     Answer(<<[Roads EXCEPT !.tasks = {"r1"}]>>),
     Answer(<<[Roads EXCEPT !.tasks = {"r1", "p1"}]>>),
     Answer(<<[Roads EXCEPT !.version = "old"]>>),
     [Answer(<<Roads>>) EXCEPT !.subcategory = "tunnel"],
     [Answer(<<Roads>>) EXCEPT !.subcategory = "sign"],
     [Answer(<<Roads>>) EXCEPT !.category = "parks"],
     [Answer(<<Roads>>) EXCEPT !.category = "welfare"],
     [Answer(<<Roads>>) EXCEPT !.urgency = "critical"],
     [Answer(<<Roads>>) EXCEPT !.missing = TRUE],
     [Answer(<<Roads>>) EXCEPT !.review = TRUE],
     [Answer(<<Roads>>) EXCEPT !.reasons = {"doubt"}]}

-----------------------------------------------------------------------------
(* Drafts of providers that cannot be relied on.                              *)

Claim == Quotation("road1")

Proposals ==
    {{Operational(FALSE)},
     {Operational(FALSE), Claim},
     {Claim, [Claim EXCEPT !.shared = 1]},
     {Claim, [Claim EXCEPT !.sources = {}]},
     {Claim, [Claim EXCEPT !.sources = {"park1"}]},
     {Claim, [Claim EXCEPT !.personal = TRUE]},
     {Claim, [Claim EXCEPT !.unsafe = TRUE]},
     {Claim, [Operational(FALSE) EXCEPT !.form = FALSE]},
     {Claim, [Operational(FALSE) EXCEPT !.sources = {"road1"}]}}
============================================================================
