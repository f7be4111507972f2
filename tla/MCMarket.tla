------------------------------- MODULE MCMarket -------------------------------
(* Market for TLC: every population of four performers of these kinds, at    *)
(* scales small enough for the kinds to overtake one another.                *)
EXTENDS Market

OneHalf == <<1, 2>>
Weights == [Q |-> 60, R |-> 25, E |-> 20, A |-> 5, L |-> 10]
RWeights == [cat |-> 50, skills |-> 35, price |-> 15]
Logarithm == [n \in 0..3 |-> <<0, 69, 110, 139>>[n + 1]]
Exponent  == [d \in 0..2 |-> <<100, 93, 87>>[d + 1]]

CONSTANTS c1, c2, s1, s2

Kind(completed, sum, count, filled, seen, categories, skills, price) ==
    [completed |-> completed, inProgress |-> 0, ratingSum |-> sum, reviewsCount |-> count,
     eligible |-> IsEligible(filled, TRUE), lastSeen |-> seen, categories |-> categories,
     skills |-> skills, price |-> price]

Kinds == {Kind(3, 15, 3, Fields, 0, {c1}, {s1}, 5),
          Kind(3, 3, 2, Fields \ {"avatar"}, 2, {c1, c2}, {s2}, 1),
          Kind(0, 0, 0, Fields \ {"city"}, 0, {c1}, {s1, s2}, 2),
          Kind(1, 1, 1, Fields, None, {c1}, {}, 2),
          Kind(0, 0, 0, {}, 1, {c1, c2}, {s2}, 1)}

Populations == [Id -> Kinds]

Order(owner, active, category, skills, budget) ==
    [owner |-> owner, active |-> active, category |-> category, skills |-> skills, budget |-> budget]

Orders == {Order(None, TRUE, c2, {s1, s2}, 2),
           Order(1, TRUE, None, {s1}, 0),
           Order(None, TRUE, None, {}, 1),
           Order(2, FALSE, c1, {s2}, 1)}
=============================================================================
