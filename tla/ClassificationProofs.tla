------------------------ MODULE ClassificationProofs ------------------------
(***************************************************************************)
(* Lemmas about Classification: what a ranking is, what binding an answer  *)
(* to the catalog guarantees, and that the rules' own answers are answers. *)
(***************************************************************************)
EXTENDS Classification, FiniteSetTheorems, TLAPS

-----------------------------------------------------------------------------
(* Rankings.                                                               *)

StrictOrder(S, before) ==
    /\ \A i, j \in S : i # j => <<i, j>> \in before \/ <<j, i>> \in before
    /\ \A i \in S : <<i, i>> \notin before
    /\ \A i, j, k \in S : <<i, j>> \in before /\ <<j, k>> \in before => <<i, k>> \in before

\* r lists each element of S once, in the order given.
IsRanking(r, S, before) ==
    /\ Cardinality(S) \in Nat
    /\ r \in [1..Cardinality(S) -> S]
    /\ \A k, l \in 1..Cardinality(S) : k < l => <<r[k], r[l]>> \in before
    /\ \A i \in S : \E k \in 1..Cardinality(S) : r[k] = i

\* Ranked returns such a list.
LEMMA RankedFacts ==
    ASSUME NEW S, IsFiniteSet(S), NEW before, StrictOrder(S, before)
    PROVE  IsRanking(Ranked(S, before), S, before)
<1> USE DEF StrictOrder
<1>1. PICK n \in Nat : n = Cardinality(S)
    BY FS_CardinalityType
<1> DEFINE Below(i) == {j \in S : <<j, i>> \in before}
           place == [i \in S |-> Cardinality(Below(i))]
<1>2. ASSUME NEW i \in S
      PROVE  Cardinality(Below(i)) \in 0..(n - 1) /\ IsFiniteSet(Below(i))
  <2>1. Below(i) \in SUBSET S /\ i \notin Below(i)
      OBVIOUS
  <2>2. Below(i) # S
      BY <2>1
  <2> HIDE DEF Below
  <2>3. IsFiniteSet(Below(i)) /\ Cardinality(Below(i)) <= n /\ Cardinality(Below(i)) # n
      BY <1>1, <2>1, <2>2, FS_Subset
  <2>4. Cardinality(Below(i)) \in Nat
      BY <2>3, FS_CardinalityType
  <2> QED BY <2>3, <2>4
<1>3. ASSUME NEW i \in S, NEW j \in S, <<i, j>> \in before
      PROVE  Cardinality(Below(i)) < Cardinality(Below(j))
  <2>1. Below(i) \in SUBSET Below(j) /\ i \in Below(j) /\ i \notin Below(i)
      BY <1>3
  <2>2. Below(i) # Below(j)
      BY <2>1
  <2>3. Cardinality(Below(i)) \in Nat /\ Cardinality(Below(j)) \in Nat /\ IsFiniteSet(Below(j))
      BY <1>2
  <2> HIDE DEF Below
  <2>4. Cardinality(Below(i)) <= Cardinality(Below(j)) /\ Cardinality(Below(i)) # Cardinality(Below(j))
      BY <2>1, <2>2, <2>3, FS_Subset
  <2> QED BY <2>3, <2>4
<1> HIDE DEF Below
<1>4. \A i, j \in S : i # j => place[i] # place[j]
  <2> TAKE i, j \in S
  <2>1. CASE <<i, j>> \in before
      BY <1>2, <1>3, <2>1
  <2>2. CASE <<j, i>> \in before
      BY <1>2, <1>3, <2>2
  <2> QED BY <2>1, <2>2
<1>5. place \in [S -> 0..(n - 1)]
    BY <1>2
<1>6. place \in Injection(S, 0..(n - 1))
    BY <1>4, <1>5 DEF Injection, IsInjective
<1>7. IsFiniteSet(0..(n - 1)) /\ Cardinality(0..(n - 1)) = n
    BY FS_Interval
<1>8. place \in Surjection(S, 0..(n - 1))
    BY <1>1, <1>6, <1>7, FS_Injection
<1>9. ASSUME NEW k \in 1..n
      PROVE  Ranked(S, before)[k] \in S /\ place[Ranked(S, before)[k]] = k - 1
  <2>1. k - 1 \in 0..(n - 1)
      OBVIOUS
  <2>2. \E i \in S : place[i] = k - 1
      BY <1>8, <2>1 DEF Surjection
  <2>3. \E i \in S : Cardinality({j \in S : <<j, i>> \in before}) = k - 1
      BY <2>2 DEF Below
  <2>4. PICK r : r = CHOOSE i \in S : Cardinality({j \in S : <<j, i>> \in before}) = k - 1
      OBVIOUS
  <2>5. r \in S /\ Cardinality({j \in S : <<j, r>> \in before}) = k - 1
      BY <2>3, <2>4
  <2>6. Ranked(S, before)[k] = r
      BY <1>1, <2>4 DEF Ranked
  <2> QED BY <2>5, <2>6 DEF Below
<1>10. PICK f : f = [k \in 1..n |->
                        CHOOSE i \in S : Cardinality({j \in S : <<j, i>> \in before}) = k - 1]
    OBVIOUS
<1>11. Ranked(S, before) \in [1..n -> S]
  <2>1. Ranked(S, before) = f
      BY <1>1, <1>10 DEF Ranked
  <2>2. \A k \in 1..n : f[k] \in S
      BY <1>9, <2>1
  <2> QED BY <1>10, <2>1, <2>2
<1> HIDE DEF place
<1>12. ASSUME NEW k \in 1..n, NEW l \in 1..n, k < l
       PROVE  <<Ranked(S, before)[k], Ranked(S, before)[l]>> \in before
  <2>1. PICK i \in S, j \in S : /\ i = Ranked(S, before)[k] /\ j = Ranked(S, before)[l]
                               /\ place[i] = k - 1 /\ place[j] = l - 1
      BY <1>9
  <2>2. i # j
      BY <1>12, <2>1
  <2>3. ASSUME <<j, i>> \in before PROVE FALSE
    <3>1. place[j] < place[i]
        BY <1>3, <2>3 DEF place
    <3> QED BY <1>12, <2>1, <3>1
  <2> QED BY <2>1, <2>2, <2>3
<1>13. ASSUME NEW i \in S PROVE \E k \in 1..n : Ranked(S, before)[k] = i
  <2>1. place[i] \in 0..(n - 1)
      BY <1>5
  <2>2. PICK k \in 1..n : k = place[i] + 1
      BY <2>1
  <2>3. Ranked(S, before)[k] \in S /\ place[Ranked(S, before)[k]] = place[i]
      BY <1>9, <2>1, <2>2
  <2> QED BY <1>4, <2>3
<1> QED BY <1>1, <1>11, <1>12, <1>13 DEF IsRanking

\* Places in a list are ranked from the front.
LEMMA RankedPlaces ==
    ASSUME NEW m \in Nat, NEW S \in SUBSET (1..m)
    PROVE  /\ IsRanking(Ranked(S, Earlier(m)), S, Earlier(m))
           /\ \A k, l \in 1..Cardinality(S) :
                 k < l => Ranked(S, Earlier(m))[k] < Ranked(S, Earlier(m))[l]
<1>1. \A i, j \in 1..m : <<i, j>> \in Earlier(m) <=> i < j
    BY DEF Earlier
<1>2. \A i \in S : i \in 1..m /\ i \in Int
    OBVIOUS
<1>3. StrictOrder(S, Earlier(m))
    BY <1>1, <1>2 DEF StrictOrder
<1>4. IsFiniteSet(1..m)
    BY FS_Interval
<1>5. IsFiniteSet(S)
    BY <1>4, FS_Subset
<1>6. IsRanking(Ranked(S, Earlier(m)), S, Earlier(m))
    BY <1>3, <1>5, RankedFacts
<1>7. \A k \in 1..Cardinality(S) : Ranked(S, Earlier(m))[k] \in 1..m
    BY <1>6 DEF IsRanking
<1> QED BY <1>1, <1>6, <1>7 DEF IsRanking

-----------------------------------------------------------------------------
(* Binding.                                                                *)

\* Candidates by falling confidence.
Sorted(list) ==
    \A i, j \in DOMAIN list : i < j => list[i].confidence >= list[j].confidence

\* What a classifier returns, if it does not fail.
AnswerOK(x) ==
    /\ x \in ClassificationType
    /\ Len(x.candidates) >= 1
    /\ Sorted(x.candidates)

\* Candidates of the loaded catalog.
Ours(list) ==
    \A i, j \in DOMAIN list :
       /\ list[i].department \in Departments
       /\ list[i].version = CatalogVersion
       /\ list[i].tasks # {} /\ list[i].tasks \subseteq TasksOf[list[i].department]
       /\ list[j].department = list[i].department => i = j

\* Work named for a department is some of its work, and never none.
LEMMA TasksForFacts ==
    ASSUME NEW d \in Departments, NEW s
    PROVE  TasksFor(d, s) # {} /\ TasksFor(d, s) \subseteq TasksOf[d]
<1> DEFINE matched == UNION {Rules[i].tasks : i \in {j \in RulesOf(d) : Rules[j].subcategory = s}}
<1>1. matched \subseteq TasksOf[d]
  <2>1. \A i \in RulesOf(d) : Rules[i].tasks \subseteq TasksOf[d]
      BY CatalogAssumption DEF CatalogAssumption, RulesOf
  <2> QED BY <2>1
<1>2. TasksOf[d] # {}
    BY CatalogAssumption DEF CatalogAssumption
<1>3. TasksFor(d, s) = IF matched = {} THEN TasksOf[d] ELSE matched
    BY DEF TasksFor
<1> HIDE DEF matched
<1> QED BY <1>1, <1>2, <1>3

\* A bound candidate is the catalog's, and keeps its department and confidence.
LEMMA BoundCandidateFacts ==
    ASSUME NEW x \in ClassificationType, NEW i \in Kept(x)
    PROVE  /\ BoundCandidate(x, i) \in CandidateType
           /\ BoundCandidate(x, i).department = x.candidates[i].department
           /\ BoundCandidate(x, i).department \in Departments
           /\ BoundCandidate(x, i).confidence = x.candidates[i].confidence
           /\ BoundCandidate(x, i).version = CatalogVersion
           /\ BoundCandidate(x, i).tasks # {}
           /\ BoundCandidate(x, i).tasks \subseteq TasksOf[x.candidates[i].department]
<1>1. PICK c : c = x.candidates[i]
    OBVIOUS
<1>2. x.candidates \in Seq(CandidateType) /\ i \in DOMAIN x.candidates
    BY DEF ClassificationType, Kept
<1>3. c \in CandidateType
    BY <1>1, <1>2
<1>4. c.department \in Departments
    BY <1>1 DEF Kept, Known
<1>5. PICK work : work = TasksFor(c.department, x.subcategory)
    OBVIOUS
<1>6. work # {} /\ work \subseteq TasksOf[c.department] /\ work \in SUBSET Words
    BY <1>4, <1>5, TasksForFacts, CatalogAssumption DEF CatalogAssumption
<1>7. PICK tasks : tasks = IF c.tasks # {} /\ ValidTasks(x, i) THEN c.tasks ELSE work
    OBVIOUS
<1>8. tasks # {} /\ tasks \subseteq work
    BY <1>1, <1>5, <1>6, <1>7 DEF ValidTasks
<1>9. BoundCandidate(x, i) = [c EXCEPT !.version = CatalogVersion, !.tasks = tasks]
    BY <1>1, <1>5, <1>7 DEF BoundCandidate
<1>10. CatalogVersion \in Words
    BY CatalogAssumption DEF CatalogAssumption
<1>11. /\ [c EXCEPT !.version = CatalogVersion, !.tasks = tasks] \in CandidateType
       /\ [c EXCEPT !.version = CatalogVersion, !.tasks = tasks].department = c.department
       /\ [c EXCEPT !.version = CatalogVersion, !.tasks = tasks].confidence = c.confidence
       /\ [c EXCEPT !.version = CatalogVersion, !.tasks = tasks].version = CatalogVersion
       /\ [c EXCEPT !.version = CatalogVersion, !.tasks = tasks].tasks = tasks
    BY <1>3, <1>6, <1>8, <1>10 DEF CandidateType
<1> QED BY <1>1, <1>4, <1>6, <1>8, <1>9, <1>11

\* What is left of an answer in the catalog: its candidates, first mentions in
\* their order, and at least the reasons it had, the repairs and the doubts.
BindsTo(x, b) ==
    /\ AnswerOK(b) /\ Ours(b.candidates)
    /\ b.category = x.category /\ b.subcategory = x.subcategory
    /\ b.urgency = x.urgency /\ b.missing = x.missing
    /\ x.reasons \subseteq b.reasons /\ Repairs(x) \subseteq b.reasons
    /\ Doubts(x, b.candidates) \subseteq b.reasons
    /\ x.review => b.review
    /\ \A i \in Kept(x) : \E k \in DOMAIN b.candidates :
          b.candidates[k].department = x.candidates[i].department

\* bind_classification returns such an answer, or raises.
LEMMA BoundFacts ==
    ASSUME NEW x, AnswerOK(x)
    PROVE  Bound(x) = Failure \/ BindsTo(x, Bound(x))
<1>1. CASE Kept(x) = {}
    BY <1>1 DEF Bound
<1>2. CASE Kept(x) # {}
  <2>1. x \in ClassificationType /\ x.candidates \in Seq(CandidateType) /\ Sorted(x.candidates)
      BY DEF AnswerOK, ClassificationType
  <2>2. PICK m \in Nat : m = Len(x.candidates) /\ DOMAIN x.candidates = 1..m
      BY <2>1
  <2>3. Kept(x) \in SUBSET (1..m)
      BY <2>2 DEF Kept
  <2>4. PICK order : order = Ranked(Kept(x), Earlier(m))
      OBVIOUS
  <2>5. PICK n : n = Cardinality(Kept(x))
      OBVIOUS
  <2>6. /\ IsRanking(order, Kept(x), Earlier(m))
        /\ \A k, l \in 1..n : k < l => order[k] < order[l]
      BY <2>3, <2>4, <2>5, RankedPlaces
  <2>7. /\ n \in Nat /\ order \in [1..n -> Kept(x)]
        /\ \A i \in Kept(x) : \E k \in 1..n : order[k] = i
      BY <2>5, <2>6 DEF IsRanking
  <2>8. n >= 1
      BY <1>2, <2>7
  <2>9. PICK bound : bound = [k \in 1..n |-> BoundCandidate(x, order[k])]
      OBVIOUS
  <2>10. bound \in Seq(CandidateType) /\ Len(bound) = n /\ DOMAIN bound = 1..n
      BY <2>1, <2>7, <2>9, BoundCandidateFacts
  <2>11. \A k \in 1..n :
            /\ bound[k].department = x.candidates[order[k]].department
            /\ bound[k].department \in Departments
            /\ bound[k].confidence = x.candidates[order[k]].confidence
            /\ bound[k].version = CatalogVersion
            /\ bound[k].tasks # {} /\ bound[k].tasks \subseteq TasksOf[bound[k].department]
      BY <2>1, <2>7, <2>9, BoundCandidateFacts
  <2>12. Sorted(bound)
    <3>1. ASSUME NEW k \in 1..n, NEW l \in 1..n, k < l
          PROVE  bound[k].confidence >= bound[l].confidence
      <4>1. order[k] \in 1..m /\ order[l] \in 1..m /\ order[k] < order[l]
          BY <2>3, <2>6, <2>7, <3>1
      <4>2. x.candidates[order[k]].confidence >= x.candidates[order[l]].confidence
          BY <2>1, <2>2, <4>1 DEF Sorted
      <4> QED BY <2>11, <4>2
    <3> QED BY <2>10, <3>1 DEF Sorted
  <2>13. Ours(bound)
    <3>1. ASSUME NEW k \in 1..n, NEW l \in 1..n, bound[l].department = bound[k].department
          PROVE  k = l
      <4>1. ASSUME NEW i \in Kept(x), NEW j \in Kept(x), i < j
            PROVE  x.candidates[i].department # x.candidates[j].department
        <5>1. i \in 1..(j - 1)
            BY <2>3, <4>1
        <5> QED BY <5>1 DEF Kept
      <4>2. order[k] \in Kept(x) /\ order[l] \in Kept(x)
          BY <2>7
      <4>3. x.candidates[order[k]].department = x.candidates[order[l]].department
          BY <2>11, <3>1
      <4>4. ~(order[k] < order[l]) /\ ~(order[l] < order[k])
          BY <4>1, <4>2, <4>3
      <4> QED BY <2>6, <4>4
    <3> QED BY <2>10, <2>11, <3>1 DEF Ours
  <2>14. PICK reasons : reasons = x.reasons \cup Repairs(x) \cup Doubts(x, bound)
      OBVIOUS
  <2>15. reasons \in SUBSET Words
    <3>1. x.reasons \in SUBSET Words
        BY <2>1 DEF ClassificationType
    <3>2. Repairs(x) \in SUBSET Words
        BY CatalogAssumption DEF CatalogAssumption, OwnWords, Repairs
    <3>3. Doubts(x, bound) \in SUBSET Words
        BY CatalogAssumption DEF CatalogAssumption, OwnWords, Doubts, When
    <3> QED BY <2>14, <3>1, <3>2, <3>3
  <2>16. PICK review \in BOOLEAN : review = (x.review \/ reasons # {})
      BY <2>1 DEF ClassificationType
  <2>17. PICK b : b = [x EXCEPT !.candidates = bound, !.reasons = reasons, !.review = review]
      OBVIOUS
  <2>18. Bound(x) = [x EXCEPT !.candidates = bound, !.reasons = reasons, !.review = review]
      BY <1>2, <2>2, <2>4, <2>7, <2>9, <2>14, <2>16 DEF Bound
  <2>19. /\ b \in ClassificationType
         /\ b.candidates = bound /\ b.reasons = reasons /\ b.review = review
         /\ b.category = x.category /\ b.subcategory = x.subcategory
         /\ b.urgency = x.urgency /\ b.missing = x.missing
      BY <2>1, <2>10, <2>15, <2>17 DEF ClassificationType
  <2>20. AnswerOK(b)
      BY <2>8, <2>10, <2>12, <2>19 DEF AnswerOK
  <2>21. \A i \in Kept(x) : \E k \in DOMAIN bound :
            bound[k].department = x.candidates[i].department
      BY <2>7, <2>10, <2>11
  <2>22. BindsTo(x, b)
      BY <2>13, <2>14, <2>16, <2>19, <2>20, <2>21 DEF BindsTo
  <2> QED BY <2>17, <2>18, <2>22
<1> QED BY <1>1, <1>2

\* An answer that needed no repair names only the catalog's departments and work,
\* each department once.
LEMMA NoRepairs ==
    ASSUME NEW x, x.candidates \in Seq(CandidateType), Repairs(x) = {},
           NEW i \in DOMAIN x.candidates
    PROVE  /\ i \in Kept(x)
           /\ x.candidates[i].department \in Departments
           /\ x.candidates[i].version \in {NoVersion, CatalogVersion}
           /\ x.candidates[i].tasks \subseteq TasksOf[x.candidates[i].department]
           /\ \A j \in DOMAIN x.candidates :
                 j # i => x.candidates[j].department # x.candidates[i].department
<1>1. \A j \in DOMAIN x.candidates : Known(x, j)
    BY DEF Repairs
<1>2. \A j \in DOMAIN x.candidates : j \in Kept(x)
    BY <1>1 DEF Repairs
<1>3. x.candidates[i].version \in {NoVersion, CatalogVersion} /\ ValidTasks(x, i)
    BY <1>2 DEF Repairs
<1>4. x.candidates[i].department \in Departments
    BY <1>1 DEF Known
<1>5. x.candidates[i].tasks \subseteq TasksOf[x.candidates[i].department]
    BY <1>3, <1>4, TasksForFacts DEF ValidTasks
<1>6. ASSUME NEW j \in DOMAIN x.candidates, j # i
      PROVE  x.candidates[j].department # x.candidates[i].department
  <2>1. i \in Int /\ j \in Int /\ DOMAIN x.candidates = 1..Len(x.candidates)
      OBVIOUS
  <2>2. CASE j < i
    <3>1. j \in 1..(i - 1)
        BY <2>1, <2>2
    <3> QED BY <1>2, <3>1 DEF Kept
  <2>3. CASE i < j
    <3>1. i \in 1..(j - 1)
        BY <2>1, <2>3
    <3> QED BY <1>2, <3>1 DEF Kept
  <2> QED BY <1>6, <2>1, <2>2, <2>3
<1> QED BY <1>2, <1>3, <1>4, <1>5, <1>6

-----------------------------------------------------------------------------
(* The rules.                                                              *)

TextOK(text) == text.hits \in [DOMAIN Rules -> Nat]

Hit(text) == {i \in DOMAIN Rules : text.hits[i] > 0}

\* A routing rule names one department, a subcategory, and work.
LEMMA RuleFacts ==
    ASSUME NEW i \in DOMAIN Rules
    PROVE  /\ Rules[i].department \in Departments /\ Rules[i].department \in Words
           /\ Rules[i].subcategory \in Words /\ Rules[i].tasks \in SUBSET Words
           /\ CategoryOf[Rules[i].department] \in Words
<1> DEFINE Rule == [department : Departments, subcategory : Words, tasks : SUBSET Words,
                    needsPlace : BOOLEAN]
<1>a. Rules \in Seq(Rule)
    BY CatalogAssumption DEF CatalogAssumption
<1> HIDE DEF Rule
<1>b. Rules[i] \in Rule
    BY <1>a
<1>1. Rules[i] \in [department : Departments, subcategory : Words, tasks : SUBSET Words,
                     needsPlace : BOOLEAN]
    BY <1>b DEF Rule
<1>2. Departments \subseteq Words /\ CategoryOf \in [Departments -> Words]
    BY CatalogAssumption DEF CatalogAssumption
<1> QED BY <1>1, <1>2

\* A confidence is a percentage.
LEMMA ConfidenceFacts ==
    ASSUME NEW n \in Nat
    PROVE  Confidence(n) \in 0..98 /\ Confidence(n) \in 0..100
BY DEF Confidence

\* The matched rules, each once, by falling confidence.
LEMMA ScoredFacts ==
    ASSUME NEW text, TextOK(text)
    PROVE  /\ Cardinality(Hit(text)) \in Nat
           /\ Scored(text) \in [1..Cardinality(Hit(text)) -> Hit(text)]
           /\ \A k, l \in 1..Cardinality(Hit(text)) :
                 k < l => Confidence(text.hits[Scored(text)[k]])
                             >= Confidence(text.hits[Scored(text)[l]])
           /\ \A i \in Hit(text) : \E k \in 1..Cardinality(Hit(text)) : Scored(text)[k] = i
<1>1. PICK m \in Nat : DOMAIN Rules = 1..m
    BY CatalogAssumption DEF CatalogAssumption
<1>2. \A i \in DOMAIN Rules : Confidence(text.hits[i]) \in 0..98 /\ i \in Int
  <2> TAKE i \in DOMAIN Rules
  <2>1. PICK h \in Nat : h = text.hits[i]
      BY DEF TextOK
  <2>2. Confidence(h) \in 0..98
      BY ConfidenceFacts
  <2> QED BY <1>1, <2>1, <2>2
<1>3. ASSUME NEW i \in DOMAIN Rules, NEW j \in DOMAIN Rules
      PROVE  <<i, j>> \in Surer(text) <=>
                \/ Confidence(text.hits[i]) > Confidence(text.hits[j])
                \/ /\ Confidence(text.hits[i]) = Confidence(text.hits[j])
                   /\ i < j
    BY DEF Surer
<1>4. Hit(text) \subseteq DOMAIN Rules
    BY DEF Hit
<1>5. StrictOrder(Hit(text), Surer(text))
  <2>1. \A i, j \in DOMAIN Rules : i # j => <<i, j>> \in Surer(text) \/ <<j, i>> \in Surer(text)
      BY <1>2, <1>3
  <2>2. \A i \in DOMAIN Rules : <<i, i>> \notin Surer(text)
      BY <1>2, <1>3
  <2>3. \A i, j, k \in DOMAIN Rules :
           <<i, j>> \in Surer(text) /\ <<j, k>> \in Surer(text) => <<i, k>> \in Surer(text)
    <3> TAKE i, j, k \in DOMAIN Rules
    <3>1. PICK a, b, c \in 0..98 : /\ a = Confidence(text.hits[i])
                                   /\ b = Confidence(text.hits[j])
                                   /\ c = Confidence(text.hits[k])
        BY <1>2
    <3>2. /\ <<i, j>> \in Surer(text) <=> (a > b \/ (a = b /\ i < j))
          /\ <<j, k>> \in Surer(text) <=> (b > c \/ (b = c /\ j < k))
          /\ <<i, k>> \in Surer(text) <=> (a > c \/ (a = c /\ i < k))
        BY <1>3, <3>1
    <3>3. i \in Int /\ j \in Int /\ k \in Int
        BY <1>2
    <3> QED BY <3>2, <3>3
  <2> QED BY <1>4, <2>1, <2>2, <2>3 DEF StrictOrder
<1>6. IsFiniteSet(1..m)
    BY FS_Interval
<1>7. IsFiniteSet(Hit(text))
    BY <1>1, <1>4, <1>6, FS_Subset
<1>8. IsRanking(Scored(text), Hit(text), Surer(text))
  <2>1. Scored(text) = Ranked(Hit(text), Surer(text))
      BY DEF Scored, Hit
  <2> QED BY <1>5, <1>7, <2>1, RankedFacts
<1>9. ASSUME NEW k \in 1..Cardinality(Hit(text)), NEW l \in 1..Cardinality(Hit(text)), k < l
      PROVE  Confidence(text.hits[Scored(text)[k]]) >= Confidence(text.hits[Scored(text)[l]])
  <2>1. /\ Scored(text)[k] \in DOMAIN Rules /\ Scored(text)[l] \in DOMAIN Rules
        /\ <<Scored(text)[k], Scored(text)[l]>> \in Surer(text)
      BY <1>4, <1>8, <1>9 DEF IsRanking
  <2> QED BY <1>2, <1>3, <2>1
<1> QED BY <1>8, <1>9 DEF IsRanking

\* The candidates of a text that some rule matches.
LEMMA RuleCandidatesFacts ==
    ASSUME NEW text, TextOK(text), Scored(text) # <<>>
    PROVE  /\ RuleCandidates(text) \in Seq(CandidateType)
           /\ Len(RuleCandidates(text)) >= 1
           /\ Sorted(RuleCandidates(text))
<1>1. PICK n, scored : n = Cardinality(Hit(text)) /\ scored = Scored(text)
    OBVIOUS
<1>2. /\ n \in Nat /\ scored \in [1..n -> Hit(text)]
      /\ \A k, l \in 1..n : k < l =>
            Confidence(text.hits[scored[k]]) >= Confidence(text.hits[scored[l]])
    BY <1>1, ScoredFacts
<1>3. scored \in Seq(Hit(text)) /\ Len(scored) = n /\ DOMAIN scored = 1..n /\ n >= 1
    BY <1>1, <1>2
<1>4. PICK first : first = {k \in DOMAIN scored : \A l \in 1..(k - 1) :
                               Rules[scored[l]].department # Rules[scored[k]].department}
    OBVIOUS
<1>5. first \in SUBSET (1..n) /\ 1 \in first
    BY <1>3, <1>4
<1>6. PICK p, order : p = Cardinality(first) /\ order = Ranked(first, Earlier(n))
    OBVIOUS
<1>7. /\ p \in Nat /\ order \in [1..p -> first]
      /\ \A i \in first : \E k \in 1..p : order[k] = i
      /\ \A k, l \in 1..p : k < l => order[k] < order[l]
    BY <1>2, <1>5, <1>6, RankedPlaces DEF IsRanking
<1>8. p >= 1
    BY <1>5, <1>7
<1>9. PICK size \in Nat : size = (IF p < 3 THEN p ELSE 3)
    BY <1>7
<1>10. DOMAIN order \cap 1..3 = 1..size /\ size >= 1 /\ size <= p
    BY <1>7, <1>8, <1>9
<1>11. PICK list : list = [k \in 1..size |->
              [department |-> Rules[scored[order[k]]].department, version |-> CatalogVersion,
               confidence |-> Confidence(text.hits[scored[order[k]]]),
               tasks |-> Rules[scored[order[k]]].tasks]]
    OBVIOUS
<1>12. RuleCandidates(text) = list
    BY <1>1, <1>3, <1>4, <1>6, <1>10, <1>11 DEF RuleCandidates
<1>13. \A i \in DOMAIN Rules : Confidence(text.hits[i]) \in 0..100
    BY ConfidenceFacts DEF TextOK
<1>14. ASSUME NEW k \in 1..size
       PROVE  list[k] \in CandidateType
  <2>1. scored[order[k]] \in DOMAIN Rules
      BY <1>2, <1>5, <1>7, <1>10 DEF Hit
  <2>2. PICK i \in DOMAIN Rules : i = scored[order[k]]
      BY <2>1
  <2>3. Rules[i].department \in Words /\ Rules[i].tasks \in SUBSET Words /\ CatalogVersion \in Words
      BY RuleFacts, CatalogAssumption DEF CatalogAssumption
  <2>4. PICK number \in 0..100 : number = Confidence(text.hits[i])
      BY <1>13
  <2>5. list[k] = [department |-> Rules[i].department, version |-> CatalogVersion,
                   confidence |-> number, tasks |-> Rules[i].tasks]
      BY <1>11, <2>2, <2>4
  <2> QED BY <2>3, <2>5 DEF CandidateType
<1>15. list \in Seq(CandidateType) /\ Len(list) = size /\ DOMAIN list = 1..size
    BY <1>11, <1>14
<1>16. ASSUME NEW k \in 1..size, NEW l \in 1..size, k < l
       PROVE  list[k].confidence >= list[l].confidence
  <2>1. order[k] \in 1..n /\ order[l] \in 1..n /\ order[k] < order[l]
      BY <1>5, <1>7, <1>10, <1>16
  <2>2. Confidence(text.hits[scored[order[k]]]) >= Confidence(text.hits[scored[order[l]]])
      BY <1>2, <2>1
  <2> QED BY <1>11, <2>2
<1> QED BY <1>10, <1>12, <1>15, <1>16 DEF Sorted

\* The rules' answer is an answer; it never raises but where binding does.
LEMMA ByRulesFacts ==
    ASSUME NEW text, TextOK(text)
    PROVE  ByRules(text) = Failure \/ AnswerOK(ByRules(text))
<1>1. CASE Scored(text) = <<>>
  <2>1. /\ Fallback \in Words /\ CategoryOf[Fallback] \in Words /\ "unmatched" \in Words
        /\ TasksOf[Fallback] \in SUBSET Words /\ CatalogVersion \in Words
      BY CatalogAssumption DEF CatalogAssumption, OwnWords
  <2>2. PICK c : c = [department |-> Fallback, confidence |-> 45,
                      version |-> CatalogVersion, tasks |-> TasksOf[Fallback]]
      OBVIOUS
  <2>3. c \in CandidateType
      BY <2>1, <2>2 DEF CandidateType
  <2>4. <<c>> \in Seq(CandidateType) /\ Len(<<c>>) = 1 /\ DOMAIN <<c>> = 1..1
      BY <2>3
  <2>5. Unmatched = [failed |-> FALSE, category |-> CategoryOf[Fallback],
                     subcategory |-> "unmatched", urgency |-> "normal", missing |-> FALSE,
                     review |-> TRUE, reasons |-> {}, candidates |-> <<c>>]
      BY <2>2 DEF Unmatched
  <2>6. Unmatched \in ClassificationType /\ Unmatched.candidates = <<c>>
      BY <2>1, <2>4, <2>5 DEF ClassificationType, Urgencies
  <2>7. AnswerOK(Unmatched)
      BY <2>4, <2>6 DEF AnswerOK, Sorted
  <2> QED BY <1>1, <2>7 DEF ByRules
<1>2. CASE Scored(text) # <<>>
  <2>1. PICK i : i = Scored(text)[1]
      OBVIOUS
  <2>2. i \in DOMAIN Rules
    <3>1. PICK n : n = Cardinality(Hit(text))
        OBVIOUS
    <3>2. n \in Nat /\ Scored(text) \in [1..n -> Hit(text)] /\ n # 0
        BY <1>2, <3>1, ScoredFacts
    <3>3. 1 \in 1..n
        BY <3>2
    <3> QED BY <2>1, <3>2, <3>3 DEF Hit
  <2>3. PICK missing \in BOOLEAN : missing = (Rules[i].needsPlace /\ ~text.located)
      OBVIOUS
  <2>4. PICK reasons \in SUBSET Words :
           reasons = When(AmbiguousWork(text), "ambiguous_work_assignments")
      BY CatalogAssumption DEF CatalogAssumption, OwnWords, When
  <2>5. PICK answer :
           answer = [failed |-> FALSE, category |-> CategoryOf[Rules[i].department],
                     subcategory |-> Rules[i].subcategory, urgency |-> "normal",
                     missing |-> missing, review |-> missing, reasons |-> reasons,
                     candidates |-> RuleCandidates(text)]
      OBVIOUS
  <2>6. ByRules(text) = Bound(answer)
      BY <1>2, <2>1, <2>3, <2>4, <2>5 DEF ByRules
  <2>7. CategoryOf[Rules[i].department] \in Words /\ Rules[i].subcategory \in Words
      BY <2>2, RuleFacts
  <2>8. answer \in ClassificationType /\ answer.candidates = RuleCandidates(text)
      BY <1>2, <2>5, <2>7, RuleCandidatesFacts DEF ClassificationType, Urgencies
  <2>9. AnswerOK(answer)
      BY <1>2, <2>8, RuleCandidatesFacts DEF AnswerOK
  <2> QED BY <2>6, <2>9, BoundFacts DEF BindsTo
<1> QED BY <1>1, <1>2

-----------------------------------------------------------------------------
(* Binding again.                                                          *)

\* The ranking of all places of a list is the list of places.
LEMMA RankedAll ==
    ASSUME NEW n \in Nat
    PROVE  Ranked(1..n, Earlier(n)) = [k \in 1..n |-> k]
<1>1. Cardinality(1..n) = n
    BY FS_Interval
<1>2. ASSUME NEW i \in 1..n
      PROVE  Cardinality({j \in 1..n : <<j, i>> \in Earlier(n)}) = i - 1
  <2>1. {j \in 1..n : <<j, i>> \in Earlier(n)} = 1..(i - 1)
      BY DEF Earlier
  <2>2. Cardinality(1..(i - 1)) = i - 1
      BY FS_Interval
  <2> QED BY <2>1, <2>2
<1>3. ASSUME NEW k \in 1..n
      PROVE  (CHOOSE i \in 1..n : Cardinality({j \in 1..n : <<j, i>> \in Earlier(n)}) = k - 1) = k
  <2>1. \A i \in 1..n : Cardinality({j \in 1..n : <<j, i>> \in Earlier(n)}) = k - 1 <=> i = k
    <3> TAKE i \in 1..n
    <3>1. Cardinality({j \in 1..n : <<j, i>> \in Earlier(n)}) = i - 1
        BY <1>2
    <3> QED BY <3>1
  <2> QED BY <2>1
<1>4. Ranked(1..n, Earlier(n)) =
          [k \in 1..n |->
              CHOOSE i \in 1..n : Cardinality({j \in 1..n : <<j, i>> \in Earlier(n)}) = k - 1]
    BY <1>1 DEF Ranked
<1> QED BY <1>3, <1>4

\* What binding leaves behind besides the catalog's candidates: work that fits the
\* subcategory, and a review wherever there is a reason.
LEMMA BoundWork ==
    ASSUME NEW x, AnswerOK(x), NEW b, b = Bound(x), b # Failure
    PROVE  /\ \A k \in DOMAIN b.candidates : ValidTasks(b, k)
           /\ b.reasons # {} => b.review
<1>1. PICK order : order = Ranked(Kept(x), Earlier(Len(x.candidates)))
    OBVIOUS
<1>2. PICK bound : bound = [k \in DOMAIN order |-> BoundCandidate(x, order[k])]
    OBVIOUS
<1>3. PICK reasons : reasons = x.reasons \cup Repairs(x) \cup Doubts(x, bound)
    OBVIOUS
<1>4. PICK review : review = (x.review \/ reasons # {})
    OBVIOUS
<1>5. Kept(x) # {} /\ b = [x EXCEPT !.candidates = bound, !.reasons = reasons, !.review = review]
    BY <1>1, <1>2, <1>3, <1>4, Zenon DEF Bound
<1>6. x \in ClassificationType /\ x.candidates \in Seq(CandidateType)
    BY DEF AnswerOK, ClassificationType
<1>7. b.candidates = bound /\ b.reasons = reasons /\ b.review = review /\ b.subcategory = x.subcategory
    BY <1>5, <1>6 DEF ClassificationType
<1>8. ASSUME NEW k \in DOMAIN b.candidates
      PROVE  ValidTasks(b, k)
  <2>1. PICK i : i = order[k]
      OBVIOUS
  <2>2. i \in Kept(x)
    <3>1. PICK m \in Nat : m = Len(x.candidates) /\ DOMAIN x.candidates = 1..m
        BY <1>6
    <3>2. Kept(x) \in SUBSET (1..m)
        BY <3>1 DEF Kept
    <3>3. IsRanking(order, Kept(x), Earlier(m))
        BY <1>1, <3>1, <3>2, RankedPlaces
    <3> QED BY <1>2, <1>7, <2>1, <3>3 DEF IsRanking
  <2>3. PICK c \in CandidateType : c = x.candidates[i]
      BY <1>6, <2>2 DEF Kept
  <2>4. PICK work : work = TasksFor(c.department, x.subcategory)
      OBVIOUS
  <2>5. PICK tasks : tasks = IF c.tasks # {} /\ ValidTasks(x, i) THEN c.tasks ELSE work
      OBVIOUS
  <2>6. tasks \subseteq work
      BY <2>3, <2>4, <2>5 DEF ValidTasks
  <2>7. b.candidates[k] = [c EXCEPT !.version = CatalogVersion, !.tasks = tasks]
      BY <1>2, <1>7, <2>1, <2>3, <2>4, <2>5 DEF BoundCandidate
  <2>8. b.candidates[k].department = c.department /\ b.candidates[k].tasks = tasks
      BY <2>3, <2>7 DEF CandidateType
  <2> QED BY <1>7, <2>4, <2>6, <2>8 DEF ValidTasks
<1> QED BY <1>4, <1>7, <1>8

\* An answer is bound two or three times before it is stored (openai_classifier,
\* prepare_deferred, _process_existing): once is enough, as binding what binding
\* returned changes nothing, not the order, the work, the reasons or the review.
THEOREM BindingIsIdempotent ==
    \A x : AnswerOK(x) /\ Bound(x) # Failure => Bound(Bound(x)) = Bound(x)
<1> SUFFICES ASSUME NEW x, AnswerOK(x), Bound(x) # Failure
             PROVE  Bound(Bound(x)) = Bound(x)
    OBVIOUS
<1>1. PICK b : b = Bound(x)
    OBVIOUS
<1>2. BindsTo(x, b)
    BY <1>1, BoundFacts
<1>3. b \in ClassificationType /\ Len(b.candidates) >= 1 /\ Ours(b.candidates)
    BY <1>2 DEF BindsTo, AnswerOK
<1>4. PICK n \in Nat : n = Len(b.candidates) /\ DOMAIN b.candidates = 1..n /\ n >= 1
    BY <1>3 DEF ClassificationType
<1>5. \A k \in 1..n : ValidTasks(b, k)
    BY <1>1, <1>4, BoundWork
<1>6. \A k, l \in 1..n :
         /\ b.candidates[k].department \in Departments
         /\ b.candidates[k].version = CatalogVersion /\ b.candidates[k].tasks # {}
         /\ b.candidates[l].department = b.candidates[k].department => k = l
    BY <1>3, <1>4 DEF Ours
<1>7. Kept(b) = 1..n
  <2>1. \A k \in 1..n : \A l \in 1..(k - 1) :
           b.candidates[l].department # b.candidates[k].department
    <3> TAKE k \in 1..n
    <3> TAKE l \in 1..(k - 1)
    <3>1. l \in 1..n /\ l # k
        OBVIOUS
    <3> QED BY <1>6, <3>1
  <2> QED BY <1>4, <1>6, <2>1 DEF Kept, Known
<1>8. Ranked(Kept(b), Earlier(Len(b.candidates))) = [k \in 1..n |-> k]
    BY <1>4, <1>7, RankedAll
<1>9. ASSUME NEW k \in 1..n
      PROVE  BoundCandidate(b, k) = b.candidates[k]
  <2>1. PICK c : c = b.candidates[k]
      OBVIOUS
  <2>2. b.candidates \in Seq(CandidateType)
      BY <1>3 DEF ClassificationType
  <2>3. c \in CandidateType
      BY <1>4, <2>1, <2>2
  <2>4. c.version = CatalogVersion /\ c.tasks # {} /\ ValidTasks(b, k)
      BY <1>5, <1>6, <2>1
  <2>5. BoundCandidate(b, k) = [c EXCEPT !.version = c.version, !.tasks = c.tasks]
      BY <2>1, <2>4 DEF BoundCandidate
  <2> QED BY <2>1, <2>3, <2>5 DEF CandidateType
<1>10. PICK order : order = Ranked(Kept(b), Earlier(Len(b.candidates)))
    OBVIOUS
<1>11. [k \in DOMAIN order |-> BoundCandidate(b, order[k])] = b.candidates
  <2>1. order = [k \in 1..n |-> k]
      BY <1>8, <1>10
  <2>2. [k \in DOMAIN order |-> BoundCandidate(b, order[k])] =
            [k \in 1..n |-> BoundCandidate(b, k)]
      BY <2>1
  <2>3. [k \in 1..n |-> BoundCandidate(b, k)] = [k \in 1..n |-> b.candidates[k]]
      BY <1>9
  <2>4. b.candidates = [k \in 1..n |-> b.candidates[k]]
      BY <1>3, <1>4 DEF ClassificationType
  <2> QED BY <2>2, <2>3, <2>4
<1>12. Repairs(b) = {}
    BY <1>4, <1>5, <1>6, <1>7 DEF Repairs, Known
<1>13. Doubts(b, b.candidates) \subseteq b.reasons
  <2>1. Doubts(b, b.candidates) = Doubts(x, b.candidates)
      BY <1>2 DEF BindsTo, Doubts
  <2> QED BY <1>2, <2>1 DEF BindsTo
<1>14. b.reasons \cup Repairs(b) \cup Doubts(b, b.candidates) = b.reasons
    BY <1>12, <1>13
<1>15. (b.review \/ b.reasons # {}) = b.review
    BY <1>1, <1>3, BoundWork DEF ClassificationType
<1>16. Kept(b) # {}
    BY <1>4, <1>7
<1>17. Bound(b) = [b EXCEPT !.candidates = b.candidates, !.reasons = b.reasons,
                            !.review = b.review]
    BY <1>10, <1>11, <1>14, <1>15, <1>16 DEF Bound
<1>18. [b EXCEPT !.candidates = b.candidates, !.reasons = b.reasons, !.review = b.review] = b
    BY <1>3 DEF ClassificationType
<1> QED BY <1>1, <1>17, <1>18
=============================================================================
