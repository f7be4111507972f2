\* All lists of four performers, and two orders placed among them.
SPECIFICATION Spec
CONSTANTS
    None = None
    Unit = 100
    Log1p <- Logarithm
    Decay <- Exponent
    WEIGHTS <- Weights
    RELEVANCE_WEIGHTS <- RWeights
    ALPHA = 50
    N_EXP = 3
    N_NEW = 2
    L_CAP = 2
    PRIOR_MEAN = 450
    PRIOR_WEIGHT = 3
    NEWCOMER_SHARE <- OneHalf
    Id = {1, 2, 3, 4}
    Category = {c1, c2}
    Skill = {s1, s2}
    c1 = c1
    c2 = c2
    s1 = s1
    s2 = s2
    Population <- Populations
    Asked <- Orders
    Rating = {1, 5}
    Mode = {"legacy", "weighted-base", "weighted"}
    COMPLETE_AFTER = 1
    TOP_K = 2
    MaxOrders = 2
INVARIANTS
    QuotaHolds
    ListHolds
    BooksHold
PROPERTY WorkConserved
CHECK_DEADLOCK FALSE
