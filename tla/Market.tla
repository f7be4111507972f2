--------------------------------- MODULE Market ---------------------------------
(* The market of the ranking experiment (scripts/ranking-experiment), which  *)
(* runs the ranking of the server on a population: orders are placed one     *)
(* after the other, each goes to one of the first performers of the list,    *)
(* is completed some orders later and may be rated, and all of that moves    *)
(* the next list. A customer may also ask for recommendations (the server's  *)
(* getRecommendations) or look into the catalogue (getSpecialists).          *)
EXTENDS Ranking

CONSTANTS Id,               \* the performers
          Category, Skill,
          Population,       \* the populations generated
          Asked,            \* the orders recommendations are asked for
          Rating,           \* the ratings customers give
          Mode,             \* the modes of ranking compared
          COMPLETE_AFTER, TOP_K, MaxOrders

Performer == [completed : Nat, inProgress : Nat, ratingSum : Nat, reviewsCount : Nat,
              eligible : BOOLEAN, lastSeen : Nat \union {None},
              categories : SUBSET Category, skills : SUBSET Skill, price : Nat]

\* A performer starts with at most one rating for each order completed.
ASSUME MarketAssumption ==
    /\ Id \subseteq Nat /\ IsFiniteSet(Id)
    /\ Population \subseteq [Id -> Performer]
    /\ \A population \in Population : \A i \in Id :
          population[i].reviewsCount <= population[i].completed
    /\ \A order \in Asked : order.skills \subseteq Skill /\ IsFiniteSet(order.skills)
                             /\ order.budget \in Nat
    /\ Rating \subseteq 1..5
    /\ Mode \subseteq {"legacy", "weighted-base", "weighted"}
    /\ COMPLETE_AFTER \in Nat \ {0} /\ TOP_K \in Nat \ {0} /\ MaxOrders \in Nat

VARIABLES mode,         \* how this simulation ranks
          performers,
          pending,      \* the orders in work, by the time of their completion
          t,            \* how many orders were placed
          received,     \* how many of them each performer got
          firstOrder,   \* the number of the first of them; 0: none
          startNewcomers, newcomersServed, newcomerOrders,
          listed        \* the last list and what it was ranked from

books == <<received, firstOrder, startNewcomers, newcomersServed, newcomerOrders>>
vars  == <<mode, performers, pending, t, books, listed>>

NewcomerAt(population, i) == IsNewcomer(population[i].eligible, population[i].completed)

NoList == [list |-> <<>>, items |-> {}, share |-> <<0, 1>>]

TypeOK ==
    /\ mode \in Mode
    /\ performers \in [Id -> Performer]
    /\ pending \in Seq([performer : Id, at : Nat])
    /\ t \in 0..MaxOrders
    /\ received \in [Id -> Nat]
    /\ firstOrder \in [Id -> 0..MaxOrders]
    /\ startNewcomers \in SUBSET Id
    /\ newcomersServed \in Nat /\ newcomerOrders \in Nat
    /\ DOMAIN listed = {"list", "items", "share"}

Init ==
    /\ mode \in Mode
    /\ performers \in Population
    /\ pending = <<>>
    /\ t = 0
    /\ received   = [i \in Id |-> 0]
    /\ firstOrder = [i \in Id |-> 0]
    /\ startNewcomers = {i \in Id : NewcomerAt(performers, i)}
    /\ newcomersServed = 0
    /\ newcomerOrders = 0
    /\ listed = NoList

(***************************************************************************)
(* The modes. weighted-base is the score without the two mechanisms for    *)
(* newcomers; legacy sorts by the rating alone.                            *)
(***************************************************************************)
Alpha == IF mode = "weighted" THEN ALPHA ELSE 0
Share == IF mode = "weighted" THEN NEWCOMER_SHARE ELSE <<0, 1>>

RatingScore(p) == BayesianScore(p.ratingSum, p.reviewsCount)

Factors(p, order) ==
    [Q    |-> Quality(RatingScore(p), p.reviewsCount),
     Eadv |-> ExperienceAdvanced(p.completed, p.eligible, Alpha),
     A    |-> Activity(p.lastSeen),
     L    |-> Workload(p.inProgress),
     R    |-> IF order = None THEN 0 ELSE Relevance(order, p)]

Item(population, i, order) ==
    LET p == population[i]
    IN  [id |-> i,
         score |-> IF mode = "legacy" THEN RatingScore(p)
                   ELSE Score(Factors(p, order), order # None),
         isNewcomer   |-> NewcomerAt(population, i),
         reviewsCount |-> p.reviewsCount,
         lastSeen     |-> p.lastSeen]

Rank(candidates, population, order) ==
    LET items == {Item(population, i, order) : i \in candidates}
    IN  [list |-> RerankWithNewcomerQuota(items, Share), items |-> items, share |-> Share]

\* The hard filters: the category in the catalogue; in recommendations the
\* category or a common skill, and not the customer himself.
InCategory(population, category) == {i \in Id : category \in population[i].categories}
CandidatesFor(population, order) ==
    {i \in Id \ {order.owner} : \/ order.category \in population[i].categories
                                \/ order.skills \intersect population[i].skills # {}}

Top == {listed'.list[k].item.id : k \in 1..Least(TOP_K, Len(listed'.list))}

(***************************************************************************)
(* One order of the simulation                                             *)
(***************************************************************************)
Due == pending # <<>> /\ Head(pending).at = t

Rated(p, rating) ==
    IF rating = None THEN p
    ELSE [p EXCEPT !.ratingSum = @ + rating, !.reviewsCount = @ + 1]

CompletedStillBusy(rating) ==   \* mistake: the order stays in the workload
    IF ~Due THEN performers
    ELSE [performers EXCEPT ![Head(pending).performer] =
            Rated([@ EXCEPT !.completed = @ + 1], rating)]

Done(p) == [p EXCEPT !.inProgress = @ - 1, !.completed = @ + 1]

Completed(rating) ==
    IF ~Due THEN performers
    ELSE [performers EXCEPT ![Head(pending).performer] = Rated(Done(@), rating)]

EveryServed(i) == i \in startNewcomers   \* mistake: every order of a newcomer counts
FirstServed(i) == i \in startNewcomers /\ firstOrder[i] = 0

\* The customer takes one of the first TOP_K, more likely one with a better
\* place and rating; every one of them has a chance.
PlaceOrder(category, rating, chosen) ==
    /\ t < MaxOrders
    /\ rating # None => Due
    /\ listed' = Rank(InCategory(Completed(rating), category), Completed(rating), None)
    /\ chosen \in Top
    /\ performers' = [Completed(rating) EXCEPT ![chosen].inProgress = @ + 1]
    /\ pending' = Append(IF Due THEN Tail(pending) ELSE pending,
                         [performer |-> chosen, at |-> t + COMPLETE_AFTER])
    /\ t' = t + 1
    /\ received' = [received EXCEPT ![chosen] = @ + 1]
    /\ firstOrder' = [firstOrder EXCEPT ![chosen] = IF @ = 0 THEN t + 1 ELSE @]
    /\ newcomersServed' = newcomersServed + (IF FirstServed(chosen) THEN 1 ELSE 0)
    /\ newcomerOrders' = newcomerOrders + (IF chosen \in startNewcomers THEN 1 ELSE 0)
    /\ UNCHANGED <<mode, startNewcomers>>

\* The catalogue ranks everybody who passes its filter and cuts the page from
\* that list.
GetSpecialists(category) ==
    /\ listed' = Rank(InCategory(performers, category), performers, None)
    /\ UNCHANGED <<mode, performers, pending, t, books>>

\* getOrderCandidates ranks those who match a category or a skill; an order
\* that names neither, or is not published, gets an empty list.
GetRecommendations(order) ==
    /\ listed' = IF ~order.active \/ (order.category = None /\ order.skills = {}) THEN NoList
                 ELSE Rank(CandidatesFor(performers, order), performers, order)
    /\ UNCHANGED <<mode, performers, pending, t, books>>

Next ==
    \/ \E category \in Category : \E rating \in Rating \union {None} : \E chosen \in Id :
          PlaceOrder(category, rating, chosen)
    \/ \E category \in Category : GetSpecialists(category)
    \/ \E order \in Asked : GetRecommendations(order)

Spec == Init /\ [][Next]_vars

(***************************************************************************)
(* Properties                                                              *)
(***************************************************************************)
(* docs/ranking.md, section 4: every beginning of a list has the share of  *)
(* newcomers that the quota asks for, rounded down, while any are left.    *)
QuotaHolds == QuotaKept(listed.list, listed.share)

(* The quota moves newcomers as a group: the list has every candidate once,*)
(* newcomers stand among themselves as the score orders them, and so do    *)
(* the others. Whoever stands before a better one is marked as placed by   *)
(* the quota, and the quota places nobody where there are newcomers enough;*)
(* without a quota the list is the sorted one.                             *)
ListHolds == /\ GroupsKept(listed.list, listed.items)
             /\ SlotsKept(listed.list, listed.share)

PendingOf(i) == Cardinality({k \in 1..Len(pending) : pending[k].performer = i})

(* The books of the simulation: every order placed is completed exactly    *)
(* COMPLETE_AFTER orders later and is in somebody's workload until then,   *)
(* nobody is rated for what he has not completed, and the newcomers        *)
(* counted as served are those who got an order.                           *)
BooksHold ==
    /\ \A k \in 1..Len(pending) : pending[k].at = t + k - 1 + COMPLETE_AFTER - Len(pending)
    /\ Len(pending) = Least(t, COMPLETE_AFTER)
    /\ \A i \in Id : /\ PendingOf(i) <= Least(performers[i].inProgress, received[i])
                     /\ performers[i].reviewsCount <= performers[i].completed
                     /\ received[i] > 0 <=> firstOrder[i] \in 1..t
    /\ newcomersServed = Cardinality({i \in startNewcomers : received[i] > 0})
    /\ newcomersServed <= newcomerOrders /\ newcomerOrders <= t

(* No order is lost between the workload and the experience that rank the  *)
(* next list: the two together grow by one with each order received.       *)
WorkConserved ==
    [][\A i \in Id : LET work(p) == p[i].completed + p[i].inProgress
                      IN  work(performers') - work(performers) = received'[i] - received[i]]_vars
=============================================================================
