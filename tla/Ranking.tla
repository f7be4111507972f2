-------------------------------- MODULE Ranking --------------------------------
(* The ranking of performers (ranking.math.ts and RankingService): the       *)
(* factors, the score, the order by score and the list rebuilt with the      *)
(* quota of newcomers. Shares of one are whole numbers of Unit; the          *)
(* logarithm and the exponent are tables, of which only the shape matters.   *)
EXTENDS FiniteSets, Integers, Sequences

CONSTANTS None,
          Unit,            \* what stands for 1
          Log1p,           \* ln(1 + n) for 0..N_EXP, in any unit
          Decay,           \* exp(-days / D_ACT) by whole days
          WEIGHTS,         \* the weights of Q, R, E, A and L, in hundredths
          RELEVANCE_WEIGHTS,
          ALPHA,           \* in hundredths
          N_EXP, N_NEW, L_CAP,
          PRIOR_MEAN,      \* a rating of 1..5, in units
          PRIOR_WEIGHT,
          NEWCOMER_SHARE   \* p as a numerator and a denominator

ASSUME RankingAssumption ==
    /\ Unit \in Nat \ {0} /\ N_NEW \in Nat /\ N_EXP \in Nat \ {0} /\ L_CAP \in Nat \ {0}
    /\ Log1p \in [0..N_EXP -> Nat] /\ Log1p[0] = 0
    /\ \A n \in 1..N_EXP : Log1p[n - 1] < Log1p[n]
    /\ \A d \in DOMAIN Decay : Decay[d] \in Nat
    /\ \A d, e \in DOMAIN Decay : d <= e => Decay[e] <= Decay[d]
    /\ WEIGHTS \in [{"Q", "R", "E", "A", "L"} -> Nat]
    /\ RELEVANCE_WEIGHTS \in [{"cat", "skills", "price"} -> Nat]
    /\ ALPHA \in Nat /\ PRIOR_MEAN \in Nat /\ PRIOR_WEIGHT \in Nat
    /\ NEWCOMER_SHARE \in Nat \X (Nat \ {0})
    /\ NEWCOMER_SHARE[1] <= NEWCOMER_SHARE[2]

Least(a, b)    == IF a < b THEN a ELSE b
Greatest(a, b) == IF a < b THEN b ELSE a
Clamp01(x)     == Least(Unit, Greatest(0, x))

(***************************************************************************)
(* The factors                                                             *)
(***************************************************************************)
BayesianScore(sum, count) ==
    IF count = 0 THEN 0 ELSE (sum * Unit + PRIOR_MEAN * PRIOR_WEIGHT) \div (count + PRIOR_WEIGHT)

Quality(ratingScore, reviewsCount) ==
    Clamp01(((IF reviewsCount > 0 THEN ratingScore ELSE PRIOR_MEAN) - Unit) \div 4)

Experience(completed) == (Log1p[Least(completed, N_EXP)] * Unit) \div Log1p[N_EXP]

ExperienceAdvanced(completed, eligible, alpha) ==
    LET e == Experience(completed)
    IN  IF eligible THEN e + (alpha * (Unit - e)) \div 100 ELSE e

\* lastSeen is counted in days ago; a visit older than the table leaves nothing.
Activity(lastSeen) == IF lastSeen \in DOMAIN Decay THEN Decay[lastSeen] ELSE 0

Workload(inProgress) == Clamp01((inProgress * Unit) \div L_CAP)

\* The profile, as the set of its fields that are filled well enough.
Fields == {"avatar", "description", "speciality", "categories", "skills",
           "price_from", "city", "email_verified"}

Missing(filled, remote) == (Fields \ filled) \ (IF remote THEN {"city"} ELSE {})
IsEligible(filled, remote) == Missing(filled, remote) = {}

IsNewcomer(eligible, completed) == eligible /\ completed < N_NEW

\* An order asks for a category, skills and a price; a budget of 0 or another
\* price type is not compared.
Relevance(order, p) ==
    LET cat    == IF order.category \in p.categories THEN Unit ELSE 0
        skills == IF order.skills = {} THEN cat
                  ELSE (Cardinality(order.skills \intersect p.skills) * Unit)
                         \div Cardinality(order.skills)
        price  == IF order.budget = 0 \/ p.price <= order.budget THEN Unit
                  ELSE Greatest(0, Unit - ((p.price - order.budget) * Unit) \div order.budget)
    IN  (RELEVANCE_WEIGHTS.cat * cat + RELEVANCE_WEIGHTS.skills * skills
           + RELEVANCE_WEIGHTS.price * price) \div 100

(***************************************************************************)
(* The score. The positive weights are divided by their sum, the penalty   *)
(* is not; here everything is multiplied by that sum, which is the same    *)
(* for all performers of one list.                                         *)
(***************************************************************************)
WeightSum(withR) == WEIGHTS.Q + (IF withR THEN WEIGHTS.R ELSE 0) + WEIGHTS.E + WEIGHTS.A

Contributions(f, withR) ==
    [Q |-> 100 * WEIGHTS.Q * f.Q,
     R |-> IF withR THEN 100 * WEIGHTS.R * f.R ELSE 0,
     E |-> 100 * WEIGHTS.E * f.Eadv,
     A |-> 100 * WEIGHTS.A * f.A,
     L |-> -(WEIGHTS.L * WeightSum(withR) * f.L)]

Score(f, withR) ==
    LET c == Contributions(f, withR) IN c.Q + c.R + c.E + c.A + c.L

(***************************************************************************)
(* The order of two performers: the score, the number of reviews, the last *)
(* visit (none comes last), the id.                                        *)
(***************************************************************************)
Later(a, b) == a # None /\ (b = None \/ a < b)   \* fewer days ago

CompareRanked(a, b) ==
    \/ a.score > b.score
    \/ /\ a.score = b.score
       /\ \/ a.reviewsCount > b.reviewsCount
          \/ /\ a.reviewsCount = b.reviewsCount
             /\ \/ Later(a.lastSeen, b.lastSeen)
                \/ a.lastSeen = b.lastSeen /\ a.id < b.id

Sorted(items) ==
    [k \in 1..Cardinality(items) |->
       CHOOSE x \in items : Cardinality({y \in items : CompareRanked(y, x)}) = k - 1]

(***************************************************************************)
(* rerankWithNewcomerQuota. At position k at least floor(p * k) newcomers  *)
(* are placed while any are left; 1e-9 makes the floor of a decimal p      *)
(* exact, as it is here.                                                   *)
(***************************************************************************)
RequiredLate(k, p) == (p[1] * (k - 1)) \div p[2]   \* mistake: the positions count from 0
Required(k, p)     == (p[1] * k) \div p[2]

\* mistake: a place by quota is not marked
ChoiceUnmarked(k, placed, newcomers, others, p) ==
    IF others = <<>> \/ (newcomers # <<>> /\ (placed < Required(k, p)
                                               \/ CompareRanked(newcomers[1], others[1])))
    THEN [item |-> newcomers[1], newcomer |-> TRUE, quotaSlot |-> FALSE]
    ELSE [item |-> others[1], newcomer |-> FALSE, quotaSlot |-> FALSE]

Choice(k, placed, newcomers, others, p) ==
    IF placed < Required(k, p) /\ newcomers # <<>>
    THEN [item |-> newcomers[1], newcomer |-> TRUE,
          quotaSlot |-> others = <<>> \/ CompareRanked(others[1], newcomers[1])]
    ELSE IF others = <<>> \/ (newcomers # <<>> /\ CompareRanked(newcomers[1], others[1]))
         THEN [item |-> newcomers[1], newcomer |-> TRUE, quotaSlot |-> FALSE]
         ELSE [item |-> others[1], newcomer |-> FALSE, quotaSlot |-> FALSE]

Turn(s, k, p) ==
    LET next == Choice(k, s.placed, s.newcomers, s.others, p)
        row  == [item |-> next.item, quotaSlot |-> next.quotaSlot]
    IN  IF next.newcomer
        THEN [s EXCEPT !.placed = @ + 1, !.newcomers = Tail(@), !.result = Append(@, row)]
        ELSE [s EXCEPT !.others = Tail(@), !.result = Append(@, row)]

Start(items) == [placed |-> 0, result |-> <<>>,
                 newcomers |-> Sorted({x \in items : x.isNewcomer}),
                 others    |-> Sorted({x \in items : ~x.isNewcomer})]

Turns(items, p) ==
    LET after[k \in 0..Cardinality(items)] ==
            IF k = 0 THEN Start(items) ELSE Turn(after[k - 1], k, p)
    IN  after

RerankWithNewcomerQuota(items, p) == Turns(items, p)[Cardinality(items)].result

(***************************************************************************)
(* What a list has to be, for any list ranked from these items             *)
(***************************************************************************)
Newcomers(list, k) == Cardinality({i \in 1..k : list[i].item.isNewcomer})

QuotaKept(list, p) ==
    \A k \in 1..Len(list) :
        \/ Newcomers(list, k) * p[2] > p[1] * k - p[2]
        \/ Newcomers(list, k) = Newcomers(list, Len(list))

GroupsKept(list, items) ==
    /\ Len(list) = Cardinality(items)
    /\ {list[i].item : i \in 1..Len(list)} = items
    /\ \A i, j \in 1..Len(list) :
          i < j /\ list[i].item.isNewcomer = list[j].item.isNewcomer
              => CompareRanked(list[i].item, list[j].item)

\* Whoever stands before a better one is a newcomer on a place by quota, and
\* such a place is given only where newcomers were lacking.
SlotsKept(list, p) ==
    /\ \A i, j \in 1..Len(list) :
          i < j /\ CompareRanked(list[j].item, list[i].item) => list[i].quotaSlot
    /\ \A k \in 1..Len(list) :
          list[k].quotaSlot => /\ list[k].item.isNewcomer
                               /\ (Newcomers(list, k) - 1) * p[2] <= p[1] * k - p[2]
=============================================================================
