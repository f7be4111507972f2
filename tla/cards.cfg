\* The cards of one order: two handlers at once, or one at a time.
SPECIFICATION MCSpec
CONSTANTS
    User = {u1, u2, u3, v1, v2}
    RaceUser = {u1, u2, u3}
    None = None
    Order = {o1}
    Card = {c1, c2, c3, d1, d2, d3, d4}
    RaceCard = {c1, c2, c3}
    d1 = d1
    d2 = d2
    d3 = d3
    d4 = d4
    Request = {r1, r2, s1}
    RaceRequest = {r1, r2}
    Ops <- AllOps
SYMMETRY Symmetry
INVARIANTS
    AcceptedTruth
    OneWinner
    SoloReview
    SoloDangling
PROPERTIES
    SoloAnswers
    SoloDelivery
CHECK_DEADLOCK FALSE
