----------------------------- MODULE ScriptsProofs ----------------------------
(* The two scripts. The ranking experiment: its books and the lists that are *)
(* ranked, for every population, every way of ranking, every quota and every *)
(* number of orders. The seed script: what it leaves of the real documents   *)
(* and of its own, for every number of runs and of stops.                    *)
EXTENDS Market, MCSeed, Counting, SequenceTheorems

Order == [performer : Id, at : Nat]

\* A performer while only the books are looked at: his workload is a number.
Worker == [completed : Nat, inProgress : Int, ratingSum : Nat, reviewsCount : Nat,
           eligible : BOOLEAN, lastSeen : Nat \union {None},
           categories : SUBSET Category, skills : SUBSET Skill, price : Nat]

Types ==
    /\ performers \in [Id -> Worker]
    /\ pending \in Seq(Order)
    /\ t \in Nat
    /\ received \in [Id -> Nat]
    /\ firstOrder \in [Id -> 0..t]
    /\ startNewcomers \in SUBSET Id
    /\ newcomersServed \in Nat /\ newcomerOrders \in Nat

IInv == Types /\ BooksHold

(***************************************************************************)
(* Orders of a performer in a list of orders in work                       *)
(***************************************************************************)
Places(s, i) == {k \in 1..Len(s) : s[k].performer = i}
Count(s, i)  == Cardinality(Places(s, i))

LEMMA PlacesFinite ==
    ASSUME NEW s \in Seq(Order), NEW i
    PROVE  IsFiniteSet(Places(s, i)) /\ Count(s, i) \in Nat
<1>1. IsFiniteSet(1..Len(s))
  BY FS_Interval
<1>2. IsFiniteSet(Places(s, i))
  BY <1>1, FS_Subset DEF Places
<1> QED BY <1>2, FS_CardinalityType DEF Count

LEMMA CountAppend ==
    ASSUME NEW s \in Seq(Order), NEW e \in Order, NEW i
    PROVE  Count(Append(s, e), i) = Count(s, i) + (IF e.performer = i THEN 1 ELSE 0)
<1> DEFINE size == Len(s) + 1
           a == Append(s, e)
<1>1. Len(s) \in Nat /\ Len(a) = size /\ a[size] = e /\ \A k \in 1..Len(s) : a[k] = s[k]
  BY AppendProperties
<1>2. IsFiniteSet(Places(s, i)) /\ Count(s, i) \in Nat
  BY PlacesFinite
<1>5. size \notin Places(s, i)
  BY <1>1 DEF Places
<1> HIDE DEF a
<1>3. CASE e.performer = i
  <2>1. Places(a, i) = Places(s, i) \union {size}
    BY <1>1, <1>3 DEF Places
  <2> QED BY <1>2, <1>5, <1>3, <2>1, FS_AddElement DEF Count, a
<1>4. CASE e.performer # i
  <2>1. Places(a, i) = Places(s, i)
    BY <1>1, <1>4 DEF Places
  <2> QED BY <1>2, <1>4, <2>1 DEF Count, a
<1> QED BY <1>3, <1>4

LEMMA CountTail ==
    ASSUME NEW s \in Seq(Order), s # <<>>, NEW i
    PROVE  Count(Tail(s), i) = Count(s, i) - (IF Head(s).performer = i THEN 1 ELSE 0)
<1> DEFINE rest == Tail(s)
           up == [k \in Places(rest, i) |-> k + 1]
<1>1. /\ rest \in Seq(Order) /\ Len(s) \in Nat \ {0} /\ Len(rest) = Len(s) - 1
      /\ Head(s) = s[1] /\ \A k \in 1..Len(rest) : rest[k] = s[k + 1]
  BY HeadTailProperties
<1>2. Places(s, i) \ {1} = {k + 1 : k \in Places(rest, i)}
  <2>1. ASSUME NEW k \in Places(s, i) \ {1}
        PROVE  k - 1 \in Places(rest, i) /\ k = (k - 1) + 1
    BY <1>1, <2>1 DEF Places
  <2>2. ASSUME NEW k \in Places(rest, i)
        PROVE  k + 1 \in Places(s, i) \ {1}
    BY <1>1, <2>2 DEF Places
  <2>3. Places(s, i) \ {1} \subseteq {k + 1 : k \in Places(rest, i)}
    BY <2>1
  <2> QED BY <2>2, <2>3
<1>3. up \in Bijection(Places(rest, i), Places(s, i) \ {1})
  <2> DEFINE low == Places(rest, i)
             top == Places(s, i) \ {1}
  <2>1. low \subseteq Int
    BY DEF Places
  <2>2. up \in [low -> top]
    BY <1>2
  <2>3. \A j, k \in low : up[j] = up[k] => j = k
    BY <2>1
  <2>4. \A k \in top : \E j \in low : up[j] = k
    BY <1>2
  <2> HIDE DEF low, top, up
  <2>5. up \in Bijection(low, top)
    BY <2>2, <2>3, <2>4, Fun_IsBij
  <2> QED BY <2>5 DEF low, top, up
<1>4. IsFiniteSet(Places(rest, i)) /\ IsFiniteSet(Places(s, i)) /\ Count(s, i) \in Nat
  BY <1>1, PlacesFinite
<1>5. Count(rest, i) = Cardinality(Places(s, i) \ {1})
  BY <1>3, <1>4, FS_Bijection DEF ExistsBijection, Count
<1>6. 1 \in Places(s, i) <=> Head(s).performer = i
  BY <1>1 DEF Places
<1>7. Cardinality(Places(s, i) \ {1}) = IF 1 \in Places(s, i) THEN Count(s, i) - 1 ELSE Count(s, i)
  BY <1>4, FS_RemoveElement DEF Count
<1> HIDE DEF rest
<1>8. Count(rest, i) = Count(s, i) - (IF Head(s).performer = i THEN 1 ELSE 0)
  BY <1>4, <1>5, <1>6, <1>7
<1> QED BY <1>8 DEF rest

(***************************************************************************)
(* The books                                                               *)
(***************************************************************************)
(* What the properties say of an order that is due: it is the one placed     *)
(* COMPLETE_AFTER orders ago.                                                *)
LEMMA DueWhen ==
    ASSUME IInv
    PROVE  /\ Len(pending) \in Nat /\ Len(pending) = Least(t, COMPLETE_AFTER)
           /\ Due <=> Len(pending) = COMPLETE_AFTER
           /\ \A k \in 1..Len(pending) : pending[k].at = t + k - 1 + COMPLETE_AFTER - Len(pending)
<1>1. /\ pending \in Seq(Order) /\ Len(pending) \in Nat /\ t \in Nat /\ COMPLETE_AFTER \in Nat \ {0}
      /\ Len(pending) = Least(t, COMPLETE_AFTER)
      /\ \A k \in 1..Len(pending) : pending[k].at = t + k - 1 + COMPLETE_AFTER - Len(pending)
  BY MarketAssumption DEF IInv, Types, BooksHold
<1>2. CASE pending = <<>>
  BY <1>1, <1>2, EmptySeq DEF Due
<1>3. CASE pending # <<>>
  <2>1. Head(pending) = pending[1] /\ 1 \in 1..Len(pending)
    BY <1>1, <1>3, HeadTailProperties
  <2>2. Head(pending).at = t + COMPLETE_AFTER - Len(pending)
    BY <1>1, <2>1
  <2> QED BY <1>1, <1>3, <2>2 DEF Due
<1> QED BY <1>1, <1>2, <1>3

(* The order that is due is completed, and rated or not. *)
LEMMA CompletedBooks ==
    ASSUME IInv, NEW rating \in Rating \union {None}, rating # None => Due, Due
    PROVE  LET j == Head(pending).performer
               w == Completed(rating)
           IN  /\ j \in Id
               /\ w \in [Id -> Worker]
               /\ \A i \in Id \ {j} : w[i] = performers[i]
               /\ w[j].completed = performers[j].completed + 1
               /\ w[j].inProgress = performers[j].inProgress - 1
               /\ w[j].reviewsCount \in {performers[j].reviewsCount, performers[j].reviewsCount + 1}
<1> DEFINE j == Head(pending).performer
           w == Completed(rating)
           p == performers[j]
           q == Done(p)
<1>1. j \in Id /\ p \in Worker
  <2>1. Head(pending) \in Order
    BY HeadTailProperties DEF IInv, Types, Due
  <2> QED BY <2>1 DEF Order, IInv, Types
<1>2. w = [performers EXCEPT ![j] = Rated(q, rating)]
  BY DEF Completed
<1> HIDE DEF j, w, p
<1>3. /\ q \in Worker /\ q.completed = p.completed + 1 /\ q.inProgress = p.inProgress - 1
      /\ q.reviewsCount = p.reviewsCount
  <2>1. q = [p EXCEPT !.inProgress = p.inProgress - 1, !.completed = p.completed + 1]
    BY DEF Done
  <2>2. p.inProgress \in Int /\ p.completed \in Nat
    BY <1>1 DEF Worker
  <2> DEFINE less == p.inProgress - 1
             more == p.completed + 1
  <2>3. less \in Int /\ more \in Nat
    BY <2>2
  <2> HIDE DEF q, less, more
  <2>4. q = [p EXCEPT !.inProgress = less, !.completed = more]
    BY <2>1 DEF less, more
  <2>5. q \in Worker /\ q.completed = more /\ q.inProgress = less /\ q.reviewsCount = p.reviewsCount
    BY <1>1, <2>3, <2>4 DEF Worker
  <2> QED BY <2>5 DEF less, more
<1> HIDE DEF q
<1>4. /\ Rated(q, rating) \in Worker /\ Rated(q, rating).completed = q.completed
      /\ Rated(q, rating).inProgress = q.inProgress
      /\ Rated(q, rating).reviewsCount \in {q.reviewsCount, q.reviewsCount + 1}
  <2>1. CASE rating = None
    BY <1>3, <2>1 DEF Rated
  <2>2. CASE rating # None
    <3>1. rating \in Nat
      <4>1. Rating \subseteq 1..5
        BY MarketAssumption
      <4> QED BY <2>2, <4>1
    <3> DEFINE sum == q.ratingSum + rating
               count == q.reviewsCount + 1
    <3>2. sum \in Nat /\ count \in Nat
      BY <1>3, <3>1 DEF Worker
    <3>3. Rated(q, rating) = [q EXCEPT !.ratingSum = sum, !.reviewsCount = count]
      BY <2>2 DEF Rated
    <3> HIDE DEF sum, count
    <3>4. /\ Rated(q, rating) \in Worker /\ Rated(q, rating).completed = q.completed
          /\ Rated(q, rating).inProgress = q.inProgress /\ Rated(q, rating).reviewsCount = count
      BY <1>3, <3>2, <3>3 DEF Worker
    <3> QED BY <3>4 DEF count
  <2> QED BY <2>1, <2>2
<1> QED BY <1>1, <1>2, <1>3, <1>4 DEF IInv, Types, p, j, w

(* The orders in work and the performers when the next order is placed. *)
Rest == IF Due THEN Tail(pending) ELSE pending

LEMMA RestBooks ==
    ASSUME IInv, NEW rating \in Rating \union {None}, rating # None => Due
    PROVE  LET w == Completed(rating)
           IN  /\ Rest \in Seq(Order) /\ Len(Rest) \in Nat
               /\ Len(Rest) + 1 = Least(t + 1, COMPLETE_AFTER)
               /\ \A k \in 1..Len(Rest) : Rest[k].at = t + k - 1 + COMPLETE_AFTER - Len(Rest)
               /\ w \in [Id -> Worker]
               /\ \A i \in Id :
                     /\ w[i].completed + w[i].inProgress = performers[i].completed + performers[i].inProgress
                     /\ Count(Rest, i) <= w[i].inProgress
                     /\ Count(Rest, i) <= received[i]
                     /\ w[i].reviewsCount <= w[i].completed
<1> DEFINE w == Completed(rating)
<1>t. /\ pending \in Seq(Order) /\ t \in Nat /\ COMPLETE_AFTER \in Nat \ {0}
      /\ performers \in [Id -> Worker] /\ received \in [Id -> Nat]
  BY MarketAssumption DEF IInv, Types
<1>b. \A i \in Id : /\ Count(pending, i) \in Nat
                    /\ performers[i].completed \in Nat /\ performers[i].inProgress \in Int
                    /\ performers[i].reviewsCount \in Nat /\ received[i] \in Nat
                    /\ Count(pending, i) <= performers[i].inProgress
                    /\ Count(pending, i) <= received[i]
                    /\ performers[i].reviewsCount <= performers[i].completed
  <2> TAKE i \in Id
  <2>1. /\ performers[i].completed \in Nat /\ performers[i].inProgress \in Int
        /\ performers[i].reviewsCount \in Nat /\ received[i] \in Nat
    BY <1>t DEF Worker
  <2>2. Count(pending, i) = PendingOf(i) /\ Count(pending, i) \in Nat
    BY <1>t, PlacesFinite DEF Count, Places, PendingOf
  <2>3. /\ PendingOf(i) <= Least(performers[i].inProgress, received[i])
        /\ performers[i].reviewsCount <= performers[i].completed
    BY DEF IInv, BooksHold
  <2> QED BY <2>1, <2>2, <2>3 DEF Least
<1>1. CASE ~Due
  <2>1. w = performers /\ Rest = pending
    BY <1>1 DEF Completed, Rest
  <2>2. Len(Rest) + 1 = Least(t + 1, COMPLETE_AFTER)
    BY <1>1, <1>t, <2>1, DueWhen DEF Least
  <2> HIDE DEF w
  <2> QED BY <1>t, <1>b, <2>1, <2>2, DueWhen DEF w
<1>2. CASE Due
  <2> DEFINE j == Head(pending).performer
  <2>1. /\ Rest = Tail(pending) /\ pending # <<>>
    BY <1>2 DEF Rest, Due
  <2>2. /\ Rest \in Seq(Order) /\ Len(Rest) \in Nat /\ Len(Rest) = Len(pending) - 1
        /\ \A k \in 1..Len(Rest) : Rest[k] = pending[k + 1]
    BY <1>t, <2>1, HeadTailProperties
  <2>3. Len(Rest) + 1 = Least(t + 1, COMPLETE_AFTER)
    BY <1>2, <1>t, <2>2, DueWhen DEF Least
  <2>4. \A k \in 1..Len(Rest) : Rest[k].at = t + k - 1 + COMPLETE_AFTER - Len(Rest)
    <3> TAKE k \in 1..Len(Rest)
    <3>1. k + 1 \in 1..Len(pending)
      BY <2>2, DueWhen
    <3>2. pending[k + 1].at = t + (k + 1) - 1 + COMPLETE_AFTER - Len(pending)
      BY <3>1, DueWhen
    <3> QED BY <1>t, <2>2, <3>2, DueWhen
  <2>5. \A i \in Id : Count(Rest, i) = Count(pending, i) - (IF j = i THEN 1 ELSE 0)
    BY <1>t, <2>1, CountTail
  <2>6. /\ j \in Id /\ w \in [Id -> Worker]
        /\ \A i \in Id \ {j} : w[i] = performers[i]
        /\ w[j].completed = performers[j].completed + 1
        /\ w[j].inProgress = performers[j].inProgress - 1
        /\ w[j].reviewsCount \in {performers[j].reviewsCount, performers[j].reviewsCount + 1}
    BY <1>2, CompletedBooks
  <2> HIDE DEF w, j
  <2>7. ASSUME NEW i \in Id
        PROVE  /\ w[i].completed + w[i].inProgress = performers[i].completed + performers[i].inProgress
               /\ Count(Rest, i) <= w[i].inProgress
               /\ Count(Rest, i) <= received[i]
               /\ w[i].reviewsCount <= w[i].completed
    <3>1. CASE i = j
      BY <1>b, <2>5, <2>6, <3>1
    <3>2. CASE i # j
      BY <1>b, <2>5, <2>6, <3>2
    <3> QED BY <3>1, <3>2
  <2> QED BY <2>2, <2>3, <2>4, <2>6, <2>7 DEF w
<1> QED BY <1>1, <1>2

LEMMA InitIInv ==
    ASSUME Init
    PROVE  IInv
<1>1. performers \in [Id -> Performer] /\ \A i \in Id : performers[i].reviewsCount <= performers[i].completed
  BY MarketAssumption DEF Init
<1>2. Performer \subseteq Worker
  BY DEF Performer, Worker
<1>3. Types
  BY <1>1, <1>2, EmptySeq DEF Init, Types
<1>4. Len(pending) = 0 /\ t = 0 /\ Least(t, COMPLETE_AFTER) = 0
  BY MarketAssumption, EmptySeq DEF Init, Least
<1>5. \A i \in Id : PendingOf(i) = 0
  <2> TAKE i \in Id
  <2>1. {k \in 1..Len(pending) : pending[k].performer = i} = {}
    BY <1>4
  <2> QED BY <2>1, FS_EmptySet DEF PendingOf
<1>6. \A i \in Id : PendingOf(i) <= Least(performers[i].inProgress, received[i])
  BY <1>1, <1>5 DEF Init, Least, Performer
<1>7. \A i \in Id : received[i] = 0 /\ firstOrder[i] = 0
  BY DEF Init
<1>8. newcomersServed = Cardinality({i \in startNewcomers : received[i] > 0})
  <2>1. {i \in startNewcomers : received[i] > 0} = {}
    BY <1>7, <1>3 DEF Types
  <2> QED BY <2>1, FS_EmptySet DEF Init
<1>9. newcomersServed <= newcomerOrders /\ newcomerOrders <= t
  BY DEF Init
<1>10. BooksHold
  BY <1>1, <1>4, <1>6, <1>7, <1>8, <1>9 DEF BooksHold
<1> QED BY <1>3, <1>10 DEF IInv

(* What an order changes, performer by performer. *)
LEMMA PlaceStep ==
    ASSUME IInv, NEW category, NEW rating \in Rating \union {None}, NEW chosen \in Id,
           PlaceOrder(category, rating, chosen)
    PROVE  /\ IInv'
           /\ \A i \in Id :
                (performers'[i].completed + performers'[i].inProgress)
                  - (performers[i].completed + performers[i].inProgress) = received'[i] - received[i]
<1> PICK w, e, rest : /\ w = Completed(rating) /\ rest = Rest
                      /\ e = [performer |-> chosen, at |-> t + COMPLETE_AFTER]
  OBVIOUS
<1>a. /\ rating # None => Due
      /\ performers' = [w EXCEPT ![chosen].inProgress = @ + 1]
      /\ pending' = Append(rest, e)
      /\ t' = t + 1
      /\ received' = [received EXCEPT ![chosen] = @ + 1]
      /\ firstOrder' = [firstOrder EXCEPT ![chosen] = IF @ = 0 THEN t + 1 ELSE @]
      /\ newcomersServed' = newcomersServed + (IF FirstServed(chosen) THEN 1 ELSE 0)
      /\ newcomerOrders' = newcomerOrders + (IF chosen \in startNewcomers THEN 1 ELSE 0)
      /\ startNewcomers' = startNewcomers
  BY DEF PlaceOrder, Rest
<1>t. /\ t \in Nat /\ COMPLETE_AFTER \in Nat \ {0} /\ received \in [Id -> Nat]
      /\ firstOrder \in [Id -> 0..t] /\ startNewcomers \in SUBSET Id
      /\ newcomersServed \in Nat /\ newcomerOrders \in Nat
      /\ performers \in [Id -> Worker]
  BY MarketAssumption DEF IInv, Types
<1>r. /\ rest \in Seq(Order) /\ Len(rest) \in Nat
      /\ Len(rest) + 1 = Least(t + 1, COMPLETE_AFTER)
      /\ \A k \in 1..Len(rest) : rest[k].at = t + k - 1 + COMPLETE_AFTER - Len(rest)
      /\ w \in [Id -> Worker]
      /\ \A i \in Id :
            /\ w[i].completed + w[i].inProgress = performers[i].completed + performers[i].inProgress
            /\ Count(rest, i) <= w[i].inProgress
            /\ Count(rest, i) <= received[i]
            /\ w[i].reviewsCount <= w[i].completed
  BY <1>a, RestBooks
<1>e. e \in Order /\ e.performer = chosen /\ e.at = t + COMPLETE_AFTER
  BY <1>t DEF Order
<1>1. /\ performers' \in [Id -> Worker]
      /\ \A i \in Id : /\ performers'[i].completed = w[i].completed
                       /\ performers'[i].reviewsCount = w[i].reviewsCount
                       /\ performers'[i].inProgress = w[i].inProgress + (IF i = chosen THEN 1 ELSE 0)
  <2> DEFINE more == w[chosen].inProgress + 1
  <2>1. w[chosen] \in Worker /\ more \in Int
    BY <1>r DEF Worker
  <2>2. performers' = [w EXCEPT ![chosen] = [w[chosen] EXCEPT !.inProgress = more]]
    BY <1>a
  <2>m. \A i \in Id : w[i].inProgress \in Int
    BY <1>r DEF Worker
  <2> HIDE DEF more
  <2>3. /\ [w[chosen] EXCEPT !.inProgress = more] \in Worker
        /\ performers'[chosen] = [w[chosen] EXCEPT !.inProgress = more]
        /\ \A i \in Id \ {chosen} : performers'[i] = w[i]
    BY <1>r, <2>1, <2>2 DEF Worker
  <2>4. performers' \in [Id -> Worker]
    BY <1>r, <2>2, <2>3
  <2>5. /\ performers'[chosen].completed = w[chosen].completed
        /\ performers'[chosen].reviewsCount = w[chosen].reviewsCount
        /\ performers'[chosen].inProgress = w[chosen].inProgress + 1
    BY <2>1, <2>3 DEF Worker, more
  <2>6. ASSUME NEW i \in Id
        PROVE  /\ performers'[i].completed = w[i].completed
               /\ performers'[i].reviewsCount = w[i].reviewsCount
               /\ performers'[i].inProgress = w[i].inProgress + (IF i = chosen THEN 1 ELSE 0)
    <3>1. CASE i = chosen
      BY <2>5, <3>1
    <3>2. CASE i # chosen
      <4>1. performers'[i] = w[i]
        BY <2>3, <3>2
      <4> QED BY <2>m, <3>2, <4>1
    <3> QED BY <3>1, <3>2
  <2> QED BY <2>4, <2>6
<1>2. /\ received' \in [Id -> Nat]
      /\ \A i \in Id : received'[i] = received[i] + (IF i = chosen THEN 1 ELSE 0)
  BY <1>a, <1>t
<1>3. /\ firstOrder' \in [Id -> 0..t']
      /\ \A i \in Id : received'[i] > 0 <=> firstOrder'[i] \in 1..t'
  <2>1. \A i \in Id : firstOrder'[i] = IF i = chosen /\ firstOrder[i] = 0 THEN t + 1 ELSE firstOrder[i]
    BY <1>a, <1>t
  <2>2. \A i \in Id : received[i] > 0 <=> firstOrder[i] \in 1..t
    BY DEF IInv, BooksHold
  <2>3. DOMAIN firstOrder' = Id /\ firstOrder' = [i \in Id |-> firstOrder'[i]]
    BY <1>a, <1>t
  <2>4. \A i \in Id : firstOrder'[i] \in 0..t'
    BY <1>a, <1>t, <2>1
  <2> QED BY <1>a, <1>t, <1>2, <2>1, <2>2, <2>3, <2>4
<1>4. pending' \in Seq(Order) /\ Len(pending') = Len(rest) + 1
      /\ pending'[Len(rest) + 1] = e /\ \A k \in 1..Len(rest) : pending'[k] = rest[k]
  BY <1>a, <1>r, <1>e, AppendProperties
<1>5. /\ \A k \in 1..Len(pending') : pending'[k].at = t' + k - 1 + COMPLETE_AFTER - Len(pending')
      /\ Len(pending') = Least(t', COMPLETE_AFTER)
  BY <1>a, <1>t, <1>r, <1>e, <1>4
<1>6. \A i \in Id : PendingOf(i)' <= Least(performers'[i].inProgress, received'[i])
  <2> TAKE i \in Id
  <2>1. PendingOf(i)' = Count(pending', i)
    BY DEF PendingOf, Count, Places
  <2>2. Count(pending', i) = Count(rest, i) + (IF chosen = i THEN 1 ELSE 0)
    BY <1>a, <1>r, <1>e, CountAppend
  <2>3. Count(rest, i) \in Nat /\ w[i].inProgress \in Int /\ received[i] \in Nat
    BY <1>r, <1>t, PlacesFinite DEF Worker
  <2>4. Count(pending', i) <= performers'[i].inProgress /\ Count(pending', i) <= received'[i]
    BY <1>r, <1>1, <1>2, <2>2, <2>3
  <2> QED BY <2>1, <2>4 DEF Least
<1>7. newcomersServed' = Cardinality({i \in startNewcomers' : received'[i] > 0})
  <2> DEFINE Served == {i \in startNewcomers : received[i] > 0}
             Now    == {i \in startNewcomers' : received'[i] > 0}
  <2>1. newcomersServed = Cardinality(Served) /\ IsFiniteSet(Served)
    <3>1. Served \in SUBSET Id
      BY <1>t
    <3> QED BY <3>1, MarketAssumption, FS_Subset DEF IInv, BooksHold
  <2>2. received[chosen] > 0 <=> firstOrder[chosen] # 0
    BY <1>t DEF IInv, BooksHold
  <2>3. FirstServed(chosen) <=> chosen \in startNewcomers /\ chosen \notin Served
    BY <1>t, <2>2 DEF FirstServed
  <2>4. CASE chosen \in startNewcomers
    <3>1. Now = Served \union {chosen}
      BY <1>a, <1>t, <1>2, <2>4
    <3>2. Cardinality(Now) = IF chosen \in Served THEN Cardinality(Served) ELSE Cardinality(Served) + 1
      <4> HIDE DEF Served, Now
      <4> QED BY <2>1, <3>1, FS_AddElement
    <3> HIDE DEF Served, Now
    <3>3. Cardinality(Now) = newcomersServed + (IF FirstServed(chosen) THEN 1 ELSE 0)
      BY <1>t, <2>1, <2>3, <2>4, <3>2
    <3>4. newcomersServed' = Cardinality(Now)
      BY <1>a, <3>3
    <3> QED BY <3>4 DEF Now
  <2>5. CASE chosen \notin startNewcomers
    <3>1. Now = Served
      BY <1>a, <1>t, <1>2, <2>5
    <3> HIDE DEF Served, Now
    <3>2. newcomersServed' = Cardinality(Now)
      BY <1>a, <1>t, <2>1, <2>3, <2>5, <3>1
    <3> QED BY <3>2 DEF Now
  <2> QED BY <2>4, <2>5
<1>8. newcomersServed' <= newcomerOrders' /\ newcomerOrders' <= t'
      /\ newcomersServed' \in Nat /\ newcomerOrders' \in Nat
  BY <1>a, <1>t DEF IInv, BooksHold, FirstServed
<1>9. \A i \in Id : performers'[i].reviewsCount <= performers'[i].completed
  BY <1>r, <1>1
<1>10. Types'
  BY <1>a, <1>t, <1>1, <1>2, <1>3, <1>4, <1>8 DEF Types
<1>11. BooksHold'
  BY <1>3, <1>5, <1>6, <1>7, <1>8, <1>9 DEF BooksHold
<1>12. \A i \in Id :
         (performers'[i].completed + performers'[i].inProgress)
           - (performers[i].completed + performers[i].inProgress) = received'[i] - received[i]
  <2> TAKE i \in Id
  <2>1. /\ w[i].completed \in Nat /\ w[i].inProgress \in Int
        /\ performers[i].completed \in Nat /\ performers[i].inProgress \in Int /\ received[i] \in Nat
    BY <1>r, <1>t DEF Worker
  <2> QED BY <2>1, <1>r, <1>1, <1>2
<1> QED BY <1>10, <1>11, <1>12 DEF IInv

(* Looking at a list changes no book. *)
LEMMA LookStep ==
    ASSUME IInv, UNCHANGED <<performers, pending, t, books>>
    PROVE  /\ IInv'
           /\ \A i \in Id :
                (performers'[i].completed + performers'[i].inProgress)
                  - (performers[i].completed + performers[i].inProgress) = received'[i] - received[i]
<1>1. IInv'
  BY DEF IInv, Types, BooksHold, PendingOf, books
<1>2. \A i \in Id :
        /\ performers[i].completed \in Nat /\ performers[i].inProgress \in Int /\ received[i] \in Nat
        /\ performers'[i] = performers[i] /\ received'[i] = received[i]
  BY DEF IInv, Types, Worker, books
<1> QED BY <1>1, <1>2

LEMMA Inductive ==
    ASSUME IInv, [Next]_vars
    PROVE  /\ IInv'
           /\ \A i \in Id :
                (performers'[i].completed + performers'[i].inProgress)
                  - (performers[i].completed + performers[i].inProgress) = received'[i] - received[i]
<1>1. CASE \E category \in Category : \E rating \in Rating \union {None} : \E chosen \in Id :
             PlaceOrder(category, rating, chosen)
  BY <1>1, PlaceStep
<1>2. CASE \/ \E category \in Category : GetSpecialists(category)
           \/ \E order \in Asked : GetRecommendations(order)
           \/ UNCHANGED vars
  BY <1>2, LookStep DEF GetSpecialists, GetRecommendations, vars
<1> QED BY <1>1, <1>2 DEF Next

(* The types and the books of the simulation (dynamic.ts) after every order, *)
(* for every population and every choice of the customers.                   *)
THEOREM Invariance == Spec => []IInv
<1>1. IInv /\ [Next]_vars => IInv'
  BY Inductive
<1> QED BY InitIInv, <1>1, PTL DEF Spec

(* The books of the simulation (dynamic.ts): orders are completed in turn,   *)
(* COMPLETE_AFTER orders after they were placed, and are in the workload of  *)
(* their performers until then; ratings do not outnumber completed orders,   *)
(* and the newcomers served are counted once each.                           *)
THEOREM Books == Spec => []BooksHold
<1>1. IInv => BooksHold
  BY DEF IInv
<1> QED BY Invariance, <1>1, PTL

(* No order is lost between the workload and the experience that rank the    *)
(* next list (dynamic.ts), whoever is chosen.                                *)
THEOREM Conservation == Spec => WorkConserved
<1>1. IInv /\ [Next]_vars =>
        [\A i \in Id : LET work(p) == p[i].completed + p[i].inProgress
                       IN  work(performers') - work(performers) = received'[i] - received[i]]_vars
  BY Inductive
<1> QED BY Invariance, <1>1, PTL DEF Spec, WorkConserved

(***************************************************************************)
(* The quota                                                               *)
(***************************************************************************)
LEMMA Dividing ==
    ASSUME NEW a \in Nat, NEW b \in Nat \ {0}
    PROVE  a \div b \in Nat /\ (a \div b) * b <= a /\ a < (a \div b) * b + b
OBVIOUS

Quotas == Nat \X (Nat \ {0})

(* The number of newcomers required grows by at most one from a place to the *)
(* next, when the quota is a share of one.                                   *)
LEMMA RequiredGrows ==
    ASSUME NEW p \in Quotas, p[1] <= p[2], NEW k \in Nat \ {0}
    PROVE  /\ Required(k, p) \in Nat /\ Required(k - 1, p) \in Nat
           /\ Required(k, p) <= Required(k - 1, p) + 1
           /\ Required(0, p) = 0
           /\ Required(k, p) * p[2] <= p[1] * k
           /\ p[1] * k < Required(k, p) * p[2] + p[2]
<1> DEFINE a == p[1]
           b == p[2]
           low == a * (k - 1)
           q == low \div b
           r == (low + a) \div b
<1>1. a \in Nat /\ b \in Nat \ {0} /\ a <= b
  BY DEF Quotas
<1>2. low \in Nat /\ a * k = low + a
  BY <1>1
<1>3. Required(k, p) = r /\ Required(k - 1, p) = q
  BY <1>2 DEF Required
<1> HIDE DEF low
<1>4. /\ q \in Nat /\ q * b <= low /\ low < q * b + b
      /\ r \in Nat /\ r * b <= low + a /\ low + a < r * b + b
  <2> DEFINE high == low + a
  <2>1. high \in Nat
    BY <1>1, <1>2
  <2> HIDE DEF high, a, b
  <2>2. high \div b \in Nat /\ (high \div b) * b <= high /\ high < (high \div b) * b + b
    BY <1>1, <2>1, Dividing
  <2>3. q \in Nat /\ q * b <= low /\ low < q * b + b
    BY <1>1, <1>2, Dividing
  <2> QED BY <2>2, <2>3 DEF high
<1>5. Required(0, p) = 0
  BY <1>1 DEF Required
<1> HIDE DEF a, b, q, r
<1>6. r * b < (q + 2) * b
  <2>1. (q + 2) * b = q * b + b + b
    BY <1>1, <1>4
  <2>2. q * b \in Int /\ r * b \in Int
    BY <1>1, <1>4
  <2> QED BY <1>1, <1>2, <1>4, <2>1, <2>2
<1>7. r < q + 2
  BY <1>1, <1>4, <1>6
<1> QED BY <1>1, <1>2, <1>3, <1>4, <1>5, <1>7 DEF a, b

(***************************************************************************)
(* The order by score                                                      *)
(***************************************************************************)
Better(items) == {pair \in items \X items : CompareRanked(pair[1], pair[2])}

LEMMA SortedLists ==
    ASSUME NEW items, IsFiniteSet(items), Orders(items, Better(items))
    PROVE  LET size == Cardinality(items)
               s == Sorted(items)
           IN  /\ size \in Nat /\ s \in [1..size -> items] /\ s \in Seq(items) /\ Len(s) = size
               /\ \A i, j \in 1..size : i < j => CompareRanked(s[i], s[j])
               /\ \A x \in items : \E i \in 1..size : s[i] = x
<1> DEFINE size == Cardinality(items)
           s == Sorted(items)
           R == Better(items)
<1>1. size \in Nat
  BY FS_CardinalityType
<1>2. ASSUME NEW k \in 1..size
      PROVE  s[k] \in items /\ Cardinality(Below(items, R, s[k])) = k - 1
  <2> DEFINE rank(x) == Cardinality({y \in items : CompareRanked(y, x)})
  <2>1. \A x \in items : rank(x) = Cardinality(Below(items, R, x))
    <3> TAKE x \in items
    <3>1. {y \in items : CompareRanked(y, x)} = Below(items, R, x)
      BY DEF Below, Better
    <3> QED BY <3>1
  <2>2. \E x \in items : rank(x) = k - 1
    BY <2>1, EveryRank
  <2>3. s[k] = CHOOSE x \in items : rank(x) = k - 1
    BY DEF Sorted
  <2> HIDE DEF rank
  <2>4. s[k] \in items /\ rank(s[k]) = k - 1
    BY <2>2, <2>3
  <2> QED BY <2>1, <2>4
<1>3. s \in [1..size -> items]
  BY <1>2 DEF Sorted
<1>6. /\ \A i, j \in 1..size : i < j => <<s[i], s[j]>> \in R
      /\ \A x \in items : \E i \in 1..size : s[i] = x
  <2>1. ByRank(s, items, R)
    BY <1>2, <1>3 DEF ByRank
  <2> HIDE DEF s
  <2> QED BY <2>1, RankLists
<1> HIDE DEF size, s, R
<1>4. s \in Seq(items) /\ Len(s) = size
  BY <1>1, <1>3
<1>5. \A i, j \in 1..size : i < j => CompareRanked(s[i], s[j])
  BY <1>6 DEF Better, R
<1> QED BY <1>1, <1>3, <1>4, <1>5, <1>6 DEF size, s

(* Numbers that decide between any two performers make the order total. *)
Ranked == [id : Nat, score : Int, isNewcomer : BOOLEAN, reviewsCount : Nat,
           lastSeen : Nat \union {None}]

LEMMA ScoreOrders ==
    ASSUME NEW items \in SUBSET Ranked, \A x, y \in items : x.id = y.id => x = y
    PROVE  Orders(items, Better(items))
<1>1. \A x \in items : ~CompareRanked(x, x)
  BY DEF CompareRanked, Ranked, Later
<1>2. ASSUME NEW x \in items, NEW y \in items, x # y
      PROVE  CompareRanked(x, y) \/ CompareRanked(y, x)
  <2>1. x.id # y.id /\ x.id \in Nat /\ y.id \in Nat /\ x.score \in Int /\ y.score \in Int
        /\ x.reviewsCount \in Nat /\ y.reviewsCount \in Nat
        /\ x.lastSeen \in Nat \union {None} /\ y.lastSeen \in Nat \union {None}
    BY <1>2 DEF Ranked
  <2>2. x.lastSeen # y.lastSeen => Later(x.lastSeen, y.lastSeen) \/ Later(y.lastSeen, x.lastSeen)
    BY <2>1 DEF Later
  <2> QED BY <2>1, <2>2 DEF CompareRanked
<1>3. ASSUME NEW x \in items, NEW y \in items, NEW z \in items,
             CompareRanked(x, y), CompareRanked(y, z)
      PROVE  CompareRanked(x, z)
  <2>1. \A v \in {x, y, z} : /\ v.id \in Nat /\ v.score \in Int /\ v.reviewsCount \in Nat
                             /\ v.lastSeen \in Nat \union {None}
    BY DEF Ranked
  <2>2. Later(x.lastSeen, y.lastSeen) /\ Later(y.lastSeen, z.lastSeen)
          => Later(x.lastSeen, z.lastSeen)
    BY <2>1 DEF Later
  <2> QED BY <1>3, <2>1, <2>2 DEF CompareRanked
<1> QED BY <1>1, <1>2, <1>3 DEF Orders, Better

(***************************************************************************)
(* One turn                                                                *)
(***************************************************************************)
New(items) == {x \in items : x.isNewcomer}
Old(items) == {x \in items : ~x.isNewcomer}
After(s, c) == [i \in 1..(Len(s) - c) |-> s[i + c]]

LEMMA AfterFacts ==
    ASSUME NEW S, NEW s \in Seq(S), NEW c \in 0..Len(s)
    PROVE  /\ After(s, c) \in Seq(S)
           /\ After(s, c) = <<>> <=> c = Len(s)
           /\ c < Len(s) => After(s, c)[1] = s[c + 1] /\ Tail(After(s, c)) = After(s, c + 1)
           /\ After(s, 0) = s
<1>1. Len(s) \in Nat /\ \A i \in 1..Len(s) : s[i] \in S
  BY LenProperties
<1>2. After(s, c) \in [1..(Len(s) - c) -> S]
  BY <1>1 DEF After
<1>3. After(s, c) \in Seq(S) /\ Len(After(s, c)) = Len(s) - c
  BY <1>1, <1>2
<1>4. After(s, c) = <<>> <=> c = Len(s)
  BY <1>1, <1>3, EmptySeq
<1>5. ASSUME c < Len(s)
      PROVE  After(s, c)[1] = s[c + 1] /\ Tail(After(s, c)) = After(s, c + 1)
  <2> DEFINE a == After(s, c)
             b == Tail(a)
             d == After(s, c + 1)
  <2>1. /\ b \in Seq(S) /\ Len(b) = Len(s) - c - 1
        /\ \A i \in 1..(Len(s) - c - 1) : b[i] = a[i + 1]
    BY <1>1, <1>3, <1>4, <1>5, HeadTailProperties
  <2>2. d \in Seq(S) /\ Len(d) = Len(s) - c - 1
    <3>1. d \in [1..(Len(s) - (c + 1)) -> S]
      BY <1>1, <1>5 DEF After
    <3> QED BY <1>1, <1>5, <3>1
  <2>3. ASSUME NEW i \in 1..(Len(s) - c - 1)
        PROVE  b[i] = d[i]
    <3>1. i + 1 \in 1..(Len(s) - c) /\ i \in 1..(Len(s) - (c + 1)) /\ (i + 1) + c = i + (c + 1)
      BY <1>1
    <3> QED BY <2>1, <3>1 DEF After
  <2>4. b = d
    <3> HIDE DEF b, d
    <3> QED BY <2>1, <2>2, <2>3, SeqEqual
  <2>5. 1 \in 1..(Len(s) - c)
    BY <1>1, <1>5
  <2> QED BY <2>4, <2>5 DEF After
<1>6. After(s, 0) = s
  <2>1. 0 \in 0..Len(s) /\ After(s, 0) \in [1..Len(s) -> S]
    BY <1>1 DEF After
  <2>2. After(s, 0) \in Seq(S) /\ Len(After(s, 0)) = Len(s)
    BY <1>1, <2>1
  <2>3. \A i \in 1..Len(s) : After(s, 0)[i] = s[i]
    BY <1>1 DEF After
  <2> QED BY <2>2, <2>3, SeqEqual
<1> QED BY <1>3, <1>4, <1>5, <1>6

Row(items) == [item : items, quotaSlot : BOOLEAN]

(* The lists after k turns: the newcomers and the others that are left are   *)
(* what remains of the two sorted lists.                                     *)
At(items, s, k) ==
    /\ s \in [placed : Nat, result : Seq(Row(items)), newcomers : Seq(items), others : Seq(items)]
    /\ s.placed \in 0..Len(Sorted(New(items)))
    /\ k - s.placed \in 0..Len(Sorted(Old(items)))
    /\ s.newcomers = After(Sorted(New(items)), s.placed)
    /\ s.others = After(Sorted(Old(items)), k - s.placed)
    /\ Len(s.result) = k

(* What the row at place k says, c newcomers being placed before it and d    *)
(* with it.                                                                  *)
NewcomerRow(items, p, k, c, d, row) ==
    LET N == Sorted(New(items))
        O == Sorted(Old(items))
    IN  /\ d = c + 1 /\ d <= Len(N)
        /\ row.item = N[d]
        /\ row.quotaSlot => c < Required(k, p)
        /\ k - d < Len(O) /\ ~row.quotaSlot => ~CompareRanked(O[k - d + 1], N[d])

OtherRow(items, p, k, c, d, row) ==
    LET N == Sorted(New(items))
        O == Sorted(Old(items))
    IN  /\ d = c /\ k - d \in 1..Len(O)
        /\ row.item = O[k - d]
        /\ ~row.quotaSlot
        /\ d < Len(N) => d >= Required(k, p) /\ ~CompareRanked(N[d + 1], O[k - d])

LEMMA Parts ==
    ASSUME NEW items, IsFiniteSet(items), Orders(items, Better(items))
    PROVE  LET N == Sorted(New(items))
               O == Sorted(Old(items))
           IN  /\ N \in Seq(items) /\ O \in Seq(items)
               /\ Len(N) + Len(O) = Cardinality(items)
               /\ \A i, j \in 1..Len(N) : i < j => CompareRanked(N[i], N[j])
               /\ \A i, j \in 1..Len(O) : i < j => CompareRanked(O[i], O[j])
               /\ \A i \in 1..Len(N) : N[i] \in items /\ N[i].isNewcomer
               /\ \A i \in 1..Len(O) : O[i] \in items /\ ~O[i].isNewcomer
               /\ \A x \in items : x.isNewcomer => \E i \in 1..Len(N) : N[i] = x
               /\ \A x \in items : ~x.isNewcomer => \E i \in 1..Len(O) : O[i] = x
<1>1. ASSUME NEW part \in SUBSET items
      PROVE  LET s == Sorted(part)
             IN  /\ IsFiniteSet(part)
                 /\ s \in Seq(items) /\ Len(s) = Cardinality(part)
                 /\ \A i, j \in 1..Len(s) : i < j => CompareRanked(s[i], s[j])
                 /\ \A i \in 1..Len(s) : s[i] \in part
                 /\ \A x \in part : \E i \in 1..Len(s) : s[i] = x
  <2> DEFINE s == Sorted(part)
  <2>1. IsFiniteSet(part)
    BY FS_Subset
  <2>2. Orders(part, Better(part))
    BY DEF Orders, Better
  <2>3. /\ s \in Seq(part) /\ Len(s) = Cardinality(part)
        /\ \A i, j \in 1..Len(s) : i < j => CompareRanked(s[i], s[j])
        /\ \A x \in part : \E i \in 1..Len(s) : s[i] = x
    BY <2>1, <2>2, SortedLists
  <2> HIDE DEF s
  <2>4. \A i \in 1..Len(s) : s[i] \in part
    BY <2>3, LenProperties
  <2>5. s \in Seq(items)
    BY <2>3, <2>4, LenProperties, IsASeq
  <2> QED BY <2>1, <2>3, <2>4, <2>5 DEF s
<1>2. New(items) \in SUBSET items /\ Old(items) = items \ New(items)
  BY DEF New, Old
<1>3. Cardinality(Old(items)) = Cardinality(items) - Cardinality(New(items))
  <2>1. items \intersect New(items) = New(items)
    BY <1>2
  <2> QED BY <1>2, <2>1, FS_Difference
<1>4. Cardinality(New(items)) \in Nat /\ Cardinality(items) \in Nat
  BY <1>1, <1>2, FS_CardinalityType
<1> DEFINE N == Sorted(New(items))
           O == Sorted(Old(items))
<1>5. /\ N \in Seq(items) /\ Len(N) = Cardinality(New(items))
      /\ \A i, j \in 1..Len(N) : i < j => CompareRanked(N[i], N[j])
      /\ \A i \in 1..Len(N) : N[i] \in New(items)
      /\ \A x \in New(items) : \E i \in 1..Len(N) : N[i] = x
  BY <1>1, <1>2
<1>6. /\ O \in Seq(items) /\ Len(O) = Cardinality(Old(items))
      /\ \A i, j \in 1..Len(O) : i < j => CompareRanked(O[i], O[j])
      /\ \A i \in 1..Len(O) : O[i] \in Old(items)
      /\ \A x \in Old(items) : \E i \in 1..Len(O) : O[i] = x
  BY <1>1, <1>2
<1> HIDE DEF N, O
<1>7. Len(N) + Len(O) = Cardinality(items)
  BY <1>3, <1>4, <1>5, <1>6
<1> QED BY <1>5, <1>6, <1>7 DEF New, Old, N, O

LEMMA TurnStep ==
    ASSUME NEW items, IsFiniteSet(items), Orders(items, Better(items)),
           NEW p \in Quotas, p[1] <= p[2], NEW k \in 1..Cardinality(items),
           NEW s, At(items, s, k - 1)
    PROVE  LET u == Turn(s, k, p)
           IN  /\ At(items, u, k)
               /\ \A i \in 1..(k - 1) : u.result[i] = s.result[i]
               /\ \/ NewcomerRow(items, p, k, s.placed, u.placed, u.result[k])
                  \/ OtherRow(items, p, k, s.placed, u.placed, u.result[k])
<1> DEFINE N == Sorted(New(items))
           O == Sorted(Old(items))
           c == s.placed
           u == Turn(s, k, p)
           next == Choice(k, s.placed, s.newcomers, s.others, p)
           row == [item |-> next.item, quotaSlot |-> next.quotaSlot]
<1>1. /\ N \in Seq(items) /\ O \in Seq(items) /\ Len(N) \in Nat /\ Len(O) \in Nat
      /\ Len(N) + Len(O) = Cardinality(items)
      /\ \A i \in 1..Len(N) : N[i] \in items
      /\ \A i \in 1..Len(O) : O[i] \in items
  BY Parts, LenProperties
<1>2. /\ s \in [placed : Nat, result : Seq(Row(items)), newcomers : Seq(items), others : Seq(items)]
      /\ c \in Nat /\ c \in 0..Len(N) /\ k - 1 - c \in 0..Len(O) /\ k \in Nat
      /\ s.newcomers = After(N, c) /\ s.others = After(O, k - 1 - c)
      /\ s.result \in Seq(Row(items)) /\ Len(s.result) = k - 1
  BY FS_CardinalityType DEF At
<1>3. \A x, y \in items : ~(CompareRanked(x, y) /\ CompareRanked(y, x))
  BY DEF Orders, Better
<1> HIDE DEF N, O
<1>4. /\ s.newcomers \in Seq(items) /\ s.others \in Seq(items)
      /\ s.newcomers = <<>> <=> c = Len(N)
      /\ s.others = <<>> <=> k - 1 - c = Len(O)
      /\ c < Len(N) => s.newcomers[1] = N[c + 1] /\ Tail(s.newcomers) = After(N, c + 1)
      /\ k - 1 - c < Len(O) => s.others[1] = O[k - c] /\ Tail(s.others) = After(O, k - c)
  <2> DEFINE d == k - 1 - c
  <2>1. d \in 0..Len(O) /\ d + 1 = k - c
    BY <1>2
  <2> HIDE DEF d
  <2>2. /\ After(O, d) \in Seq(items) /\ (After(O, d) = <<>> <=> d = Len(O))
        /\ d < Len(O) => After(O, d)[1] = O[d + 1] /\ Tail(After(O, d)) = After(O, d + 1)
    BY <1>1, <2>1, AfterFacts
  <2>3. /\ After(N, c) \in Seq(items) /\ (After(N, c) = <<>> <=> c = Len(N))
        /\ c < Len(N) => After(N, c)[1] = N[c + 1] /\ Tail(After(N, c)) = After(N, c + 1)
    BY <1>1, <1>2, AfterFacts
  <2>4. s.newcomers = After(N, c) /\ s.others = After(O, d)
    BY <1>2 DEF d
  <2> QED BY <2>1, <2>2, <2>3, <2>4 DEF d
<1>5. Required(k, p) \in Nat
  BY <1>2, RequiredGrows
<1>6. CASE next.newcomer
  <2>1. /\ c < Len(N) /\ next.item = N[c + 1] /\ next.quotaSlot \in BOOLEAN
        /\ next.quotaSlot => c < Required(k, p)
        /\ k - 1 - c < Len(O) /\ ~next.quotaSlot => ~CompareRanked(O[k - c], N[c + 1])
    <3>1. CASE c < Required(k, p) /\ s.newcomers # <<>>
      <4>1. next = [item |-> s.newcomers[1], newcomer |-> TRUE,
                    quotaSlot |-> s.others = <<>> \/ CompareRanked(s.others[1], s.newcomers[1])]
        BY <3>1 DEF Choice
      <4>2. c < Len(N)
        BY <1>1, <1>2, <1>4, <3>1
      <4>3. /\ next.item = s.newcomers[1]
            /\ next.quotaSlot = (s.others = <<>> \/ CompareRanked(s.others[1], s.newcomers[1]))
        BY <4>1
      <4>4. next.quotaSlot \in BOOLEAN
        BY <4>3
      <4>5. k - 1 - c < Len(O) => s.others # <<>> /\ s.others[1] = O[k - c]
        BY <1>1, <1>2, <1>4
      <4> HIDE DEF next
      <4>6. k - 1 - c < Len(O) /\ ~next.quotaSlot => ~CompareRanked(O[k - c], N[c + 1])
        BY <1>4, <4>2, <4>3, <4>5
      <4> QED BY <1>4, <3>1, <4>2, <4>3, <4>4, <4>6
    <3>2. CASE ~(c < Required(k, p) /\ s.newcomers # <<>>)
      <4>1. s.others = <<>> \/ (s.newcomers # <<>> /\ CompareRanked(s.newcomers[1], s.others[1]))
        BY <1>6, <3>2 DEF Choice
      <4>2. next = [item |-> s.newcomers[1], newcomer |-> TRUE, quotaSlot |-> FALSE]
        BY <3>2, <4>1 DEF Choice
      <4>3. CASE s.others = <<>>
        <5>1. k - 1 - c = Len(O) /\ c < Len(N)
          BY <1>1, <1>2, <1>4, <4>3
        <5> QED BY <1>4, <4>2, <5>1
      <4>4. CASE s.others # <<>>
        <5>1. c < Len(N) /\ k - 1 - c < Len(O) /\ CompareRanked(N[c + 1], O[k - c])
          BY <1>1, <1>2, <1>4, <4>1, <4>4
        <5>2. N[c + 1] \in items /\ O[k - c] \in items
          BY <1>1, <1>2, <5>1
        <5> QED BY <1>3, <1>4, <4>2, <5>1, <5>2
      <4> QED BY <4>3, <4>4
    <3> QED BY <3>1, <3>2
  <2>2. u = [s EXCEPT !.placed = c + 1, !.newcomers = Tail(s.newcomers), !.result = Append(s.result, row)]
    BY <1>6 DEF Turn
  <2>3. row \in Row(items)
    BY <1>1, <1>2, <2>1 DEF Row
  <2> HIDE DEF u, row, next
  <2>4. /\ Append(s.result, row) \in Seq(Row(items)) /\ Len(Append(s.result, row)) = k
        /\ Append(s.result, row)[k] = row
        /\ \A i \in 1..(k - 1) : Append(s.result, row)[i] = s.result[i]
    BY <1>2, <2>3, AppendProperties
  <2>5. Tail(s.newcomers) \in Seq(items)
    BY <1>1, <1>2, <1>4, <2>1, AfterFacts
  <2>6. /\ u.placed = c + 1 /\ u.newcomers = Tail(s.newcomers) /\ u.others = s.others
        /\ u.result = Append(s.result, row)
        /\ u \in [placed : Nat, result : Seq(Row(items)), newcomers : Seq(items), others : Seq(items)]
    <3> DEFINE more == c + 1
               waiting == Tail(s.newcomers)
               rows == Append(s.result, row)
    <3>1. more \in Nat /\ waiting \in Seq(items) /\ rows \in Seq(Row(items))
      BY <1>2, <2>4, <2>5
    <3>2. u = [s EXCEPT !.placed = more, !.newcomers = waiting, !.result = rows]
      BY <2>2
    <3> HIDE DEF more, waiting, rows
    <3>3. /\ u.placed = more /\ u.newcomers = waiting /\ u.others = s.others /\ u.result = rows
          /\ u \in [placed : Nat, result : Seq(Row(items)), newcomers : Seq(items), others : Seq(items)]
      BY <1>2, <3>1, <3>2
    <3> QED BY <3>3 DEF more, waiting, rows
  <2>7. At(items, u, k)
    <3>1. u.placed = c + 1 /\ c + 1 \in 0..Len(N)
      BY <1>1, <1>2, <2>1, <2>6
    <3>2. k - u.placed = k - 1 - c /\ k - u.placed \in 0..Len(O)
      BY <1>2, <3>1
    <3>3. u.newcomers = After(N, u.placed) /\ u.others = After(O, k - u.placed) /\ Len(u.result) = k
      BY <1>2, <1>4, <2>1, <2>4, <2>6, <3>2
    <3>4. u.placed \in 0..Len(N)
      BY <3>1
    <3> HIDE DEF c
    <3> QED BY <2>6, <3>2, <3>3, <3>4 DEF At, N, O
  <2>8. NewcomerRow(items, p, k, c, u.placed, u.result[k])
    <3>1. row.item = N[c + 1] /\ row.quotaSlot = next.quotaSlot
      BY <2>1 DEF row
    <3>2. k - (c + 1) + 1 = k - c /\ (k - (c + 1) < Len(O) => k - 1 - c < Len(O))
      BY <1>1, <1>2
    <3>3. u.placed = c + 1 /\ c + 1 <= Len(N) /\ u.result[k] = row
      BY <1>1, <1>2, <2>1, <2>4, <2>6
    <3> HIDE DEF c
    <3> QED BY <2>1, <3>1, <3>2, <3>3 DEF NewcomerRow, N, O
  <2>9. \A i \in 1..(k - 1) : u.result[i] = s.result[i]
    BY <2>4, <2>6
  <2> QED BY <2>7, <2>8, <2>9 DEF c, u
<1>7. CASE ~next.newcomer
  <2>1. /\ k - 1 - c < Len(O) /\ next.item = O[k - c] /\ next.quotaSlot = FALSE
        /\ c < Len(N) => c >= Required(k, p) /\ ~CompareRanked(N[c + 1], O[k - c])
    <3>1. ~(c < Required(k, p) /\ s.newcomers # <<>>)
      BY <1>7 DEF Choice
    <3>2. ~(s.others = <<>> \/ (s.newcomers # <<>> /\ CompareRanked(s.newcomers[1], s.others[1])))
      BY <1>7, <3>1 DEF Choice
    <3>3. next = [item |-> s.others[1], newcomer |-> FALSE, quotaSlot |-> FALSE]
      BY <3>1, <3>2 DEF Choice
    <3>4. k - 1 - c < Len(O)
      BY <1>1, <1>2, <1>4, <3>2
    <3>5. s.others[1] = O[k - c]
      BY <1>4, <3>4
    <3>6. c < Len(N) => s.newcomers # <<>> /\ s.newcomers[1] = N[c + 1]
      BY <1>4
    <3>7. next.item = O[k - c] /\ next.quotaSlot = FALSE
      BY <3>3, <3>5
    <3>8. c < Len(N) => c >= Required(k, p) /\ ~CompareRanked(N[c + 1], O[k - c])
      BY <1>2, <1>5, <3>1, <3>2, <3>5, <3>6
    <3> QED BY <3>4, <3>7, <3>8
  <2>2. u = [s EXCEPT !.others = Tail(s.others), !.result = Append(s.result, row)]
    BY <1>7 DEF Turn
  <2>3. row \in Row(items)
    <3>1. k - c \in 1..Len(O)
      BY <1>1, <1>2, <2>1
    <3> QED BY <1>1, <2>1, <3>1 DEF Row
  <2> HIDE DEF u, row, next
  <2>4. /\ Append(s.result, row) \in Seq(Row(items)) /\ Len(Append(s.result, row)) = k
        /\ Append(s.result, row)[k] = row
        /\ \A i \in 1..(k - 1) : Append(s.result, row)[i] = s.result[i]
    BY <1>2, <2>3, AppendProperties
  <2>5. Tail(s.others) \in Seq(items)
    <3>1. k - c \in 0..Len(O)
      BY <1>1, <1>2, <2>1
    <3> QED BY <1>1, <1>4, <2>1, <3>1, AfterFacts
  <2>6. /\ u.placed = c /\ u.newcomers = s.newcomers /\ u.others = Tail(s.others)
        /\ u.result = Append(s.result, row)
        /\ u \in [placed : Nat, result : Seq(Row(items)), newcomers : Seq(items), others : Seq(items)]
    BY <1>2, <2>2, <2>4, <2>5
  <2>7. At(items, u, k)
    <3>1. k - c \in 0..Len(O)
      BY <1>1, <1>2, <2>1
    <3> QED BY <1>1, <1>2, <1>4, <2>1, <2>4, <2>6, <3>1 DEF At, N, O
  <2>8. OtherRow(items, p, k, c, u.placed, u.result[k])
    <3>1. row.item = O[k - c] /\ row.quotaSlot = FALSE
      BY <2>1 DEF row
    <3>2. k - c \in 1..Len(O)
      BY <1>1, <1>2, <2>1
    <3>3. u.placed = c /\ u.result[k] = row
      BY <2>4, <2>6
    <3> HIDE DEF c
    <3> QED BY <2>1, <3>1, <3>2, <3>3 DEF OtherRow, N, O
  <2>9. \A i \in 1..(k - 1) : u.result[i] = s.result[i]
    BY <2>4, <2>6
  <2> QED BY <2>7, <2>8, <2>9 DEF c, u
<1> QED BY <1>6, <1>7

(***************************************************************************)
(* All turns                                                               *)
(***************************************************************************)
(* The turns of a list, as their definition has them: a function f on 0..m.  *)
Taken(items, p, f, m) ==
    f = [k \in 0..m |-> IF k = 0 THEN Start(items) ELSE Turn(f[k - 1], k, p)]

LEMMA TurnsTaken ==
    ASSUME NEW items, NEW p, Cardinality(items) \in Nat
    PROVE  Taken(items, p, Turns(items, p), Cardinality(items))
<1> DEFINE Reached == {m \in Nat : \E f : Taken(items, p, f, m)}
<1>1. 0 \in Reached
  <2>1. Taken(items, p, [k \in 0..0 |-> Start(items)], 0)
    BY DEF Taken
  <2> QED BY <2>1
<1>2. ASSUME NEW m \in Nat, m \in Reached
      PROVE  m + 1 \in Reached
  <2>1. PICK f : Taken(items, p, f, m)
    BY <1>2
  <2> DEFINE g == [k \in 0..(m + 1) |-> IF k = m + 1 THEN Turn(f[m], m + 1, p) ELSE f[k]]
             h == [k \in 0..(m + 1) |-> IF k = 0 THEN Start(items) ELSE Turn(g[k - 1], k, p)]
  <2>2. ASSUME NEW k \in 0..(m + 1)
        PROVE  g[k] = h[k]
    <3>1. CASE k = m + 1
      <4>1. g[k - 1] = f[m] /\ k # 0 /\ k - 1 = m
        BY <3>1
      <4> QED BY <3>1, <4>1
    <3>2. CASE k # m + 1 /\ k # 0
      <4>1. k \in 0..m /\ k - 1 \in 0..(m + 1) /\ k - 1 # m + 1
        BY <3>2
      <4>2. g[k] = f[k] /\ g[k - 1] = f[k - 1]
        BY <3>2, <4>1
      <4>3. f[k] = Turn(f[k - 1], k, p)
        BY <2>1, <3>2, <4>1 DEF Taken
      <4> QED BY <3>2, <4>2, <4>3
    <3>3. CASE k = 0
      <4>1. f[0] = Start(items) /\ 0 \in 0..m /\ 0 # m + 1
        BY <2>1 DEF Taken
      <4> QED BY <3>3, <4>1
    <3> QED BY <3>1, <3>2, <3>3
  <2>3. g = h
    <3> DEFINE gk(k) == IF k = m + 1 THEN Turn(f[m], m + 1, p) ELSE f[k]
               hk(k) == IF k = 0 THEN Start(items) ELSE Turn(g[k - 1], k, p)
    <3>1. g = [k \in 0..(m + 1) |-> gk(k)] /\ h = [k \in 0..(m + 1) |-> hk(k)]
      OBVIOUS
    <3>2. \A k \in 0..(m + 1) : gk(k) = hk(k)
      BY <2>2
    <3> HIDE DEF g, h, gk, hk
    <3> QED BY <3>1, <3>2
  <2>4. Taken(items, p, g, m + 1)
    BY <2>3 DEF Taken
  <2> HIDE DEF g
  <2> QED BY <2>4
<1> HIDE DEF Reached
<1>3. \A m \in Nat : m \in Reached
  BY <1>1, <1>2, AllNumbers
<1>4. \E f : Taken(items, p, f, Cardinality(items))
  BY <1>3 DEF Reached
<1>5. Turns(items, p) = CHOOSE f : Taken(items, p, f, Cardinality(items))
  BY DEF Turns, Taken
<1> QED BY <1>4, <1>5

(* The numbers of newcomers placed, and the rows, of a finished list.        *)
Placed(items, p) == [k \in 0..Cardinality(items) |-> Turns(items, p)[k].placed]

LEMMA Rows ==
    ASSUME NEW items, IsFiniteSet(items), Orders(items, Better(items)),
           NEW p \in Quotas, p[1] <= p[2]
    PROVE  LET size == Cardinality(items)
               list == RerankWithNewcomerQuota(items, p)
               C == Placed(items, p)
           IN  /\ size \in Nat /\ list \in Seq(Row(items)) /\ Len(list) = size
               /\ C[0] = 0
               /\ \A k \in 0..size : /\ C[k] \in 0..Len(Sorted(New(items)))
                                  /\ k - C[k] \in 0..Len(Sorted(Old(items)))
               /\ \A k \in 1..size : \/ NewcomerRow(items, p, k, C[k - 1], C[k], list[k])
                                  \/ OtherRow(items, p, k, C[k - 1], C[k], list[k])
<1> DEFINE size == Cardinality(items)
           T == Turns(items, p)
           C == Placed(items, p)
<1>1. size \in Nat
  BY FS_CardinalityType
<1>2. T[0] = Start(items) /\ \A k \in 1..size : T[k] = Turn(T[k - 1], k, p)
  <2>1. T = [k \in 0..size |-> IF k = 0 THEN Start(items) ELSE Turn(T[k - 1], k, p)]
    BY <1>1, TurnsTaken DEF Taken
  <2> HIDE DEF T, size
  <2>2. \A k \in 0..size : T[k] = IF k = 0 THEN Start(items) ELSE Turn(T[k - 1], k, p)
    BY <2>1
  <2> QED BY <1>1, <2>2
<1> HIDE DEF T, size
<1>3. At(items, T[0], 0)
  <2>1. /\ Sorted(New(items)) \in Seq(items) /\ Sorted(Old(items)) \in Seq(items)
        /\ Len(Sorted(New(items))) \in Nat /\ Len(Sorted(Old(items))) \in Nat
    BY Parts, LenProperties
  <2>2. /\ After(Sorted(New(items)), 0) = Sorted(New(items))
        /\ After(Sorted(Old(items)), 0) = Sorted(Old(items))
    BY <2>1, AfterFacts
  <2>3. T[0] = [placed |-> 0, result |-> <<>>, newcomers |-> Sorted(New(items)),
                others |-> Sorted(Old(items))]
    BY <1>2 DEF Start, New, Old
  <2> QED BY <2>1, <2>2, <2>3 DEF At
<1>4. \A k \in 0..size : At(items, T[k], k)
  <2> DEFINE Good == {k \in Nat : k \in 0..size => At(items, T[k], k)}
  <2>1. 0 \in Good
    BY <1>3
  <2>2. ASSUME NEW k \in Nat, k \in Good
        PROVE  k + 1 \in Good
    <3> SUFFICES ASSUME k + 1 \in 0..size
                 PROVE  At(items, T[k + 1], k + 1)
      BY <2>2
    <3>1. At(items, T[(k + 1) - 1], (k + 1) - 1) /\ k + 1 \in 1..size
      BY <1>1, <2>2
    <3> QED BY <1>2, <3>1, TurnStep DEF size
  <2> HIDE DEF Good
  <2>3. \A k \in Nat : k \in Good
    BY <2>1, <2>2, AllNumbers
  <2> QED BY <1>1, <2>3 DEF Good
<1>5. ASSUME NEW k \in 1..size
      PROVE  /\ \A i \in 1..(k - 1) : T[k].result[i] = T[k - 1].result[i]
             /\ \/ NewcomerRow(items, p, k, T[k - 1].placed, T[k].placed, T[k].result[k])
                \/ OtherRow(items, p, k, T[k - 1].placed, T[k].placed, T[k].result[k])
  <2>1. At(items, T[k - 1], k - 1) /\ T[k] = Turn(T[k - 1], k, p)
    BY <1>1, <1>2, <1>4
  <2> QED BY <2>1, TurnStep DEF size
<1>6. \A k \in 1..size : T[size].result[k] = T[k].result[k]
  <2> TAKE k \in 1..size
  <2> DEFINE Good == {m \in Nat : k + m \in 1..size => T[k + m].result[k] = T[k].result[k]}
  <2>1. 0 \in Good
    BY <1>1
  <2>2. ASSUME NEW m \in Nat, m \in Good
        PROVE  m + 1 \in Good
    <3> SUFFICES ASSUME k + (m + 1) \in 1..size
                 PROVE  T[k + (m + 1)].result[k] = T[k].result[k]
      BY <2>2
    <3>1. /\ k + m \in 1..size /\ (k + (m + 1)) - 1 = k + m
          /\ k \in 1..(k + (m + 1) - 1)
      BY <1>1
    <3> QED BY <1>5, <2>2, <3>1
  <2> HIDE DEF Good
  <2>3. \A m \in Nat : m \in Good
    BY <2>1, <2>2, AllNumbers
  <2>4. size - k \in Nat /\ k + (size - k) = size /\ size \in 1..size
    BY <1>1
  <2> QED BY <2>3, <2>4 DEF Good
<1>7. RerankWithNewcomerQuota(items, p) = T[size].result
  BY DEF RerankWithNewcomerQuota, T, size
<1>8. \A k \in 0..size : C[k] = T[k].placed
  BY DEF Placed, T, size
<1> HIDE DEF C
<1>9. T[size].result \in Seq(Row(items)) /\ Len(T[size].result) = size
  BY <1>1, <1>4 DEF At
<1>10. /\ C[0] = 0
       /\ \A k \in 0..size : /\ C[k] \in 0..Len(Sorted(New(items)))
                          /\ k - C[k] \in 0..Len(Sorted(Old(items)))
  <2>1. C[0] = 0
    BY <1>1, <1>2, <1>8 DEF Start
  <2> QED BY <1>4, <1>8, <2>1 DEF At
<1>11. \A k \in 1..size : \/ NewcomerRow(items, p, k, C[k - 1], C[k], T[size].result[k])
                       \/ OtherRow(items, p, k, C[k - 1], C[k], T[size].result[k])
  <2> TAKE k \in 1..size
  <2>1. C[k] = T[k].placed /\ C[k - 1] = T[k - 1].placed /\ T[size].result[k] = T[k].result[k]
    BY <1>1, <1>6, <1>8
  <2> QED BY <1>5, <2>1
<1> QED BY <1>1, <1>7, <1>9, <1>10, <1>11 DEF C, size

(* A later place has as many newcomers before it, or more, and as many       *)
(* others, or more.                                                          *)
LEMMA PlacedGrows ==
    ASSUME NEW items, IsFiniteSet(items), Orders(items, Better(items)),
           NEW p \in Quotas, p[1] <= p[2]
    PROVE  LET size == Cardinality(items)
               C == Placed(items, p)
           IN  \A i, j \in 0..size : i <= j => C[i] <= C[j] /\ i - C[i] <= j - C[j]
<1> DEFINE size == Cardinality(items)
           C == Placed(items, p)
           NL == Len(Sorted(New(items)))
           list == RerankWithNewcomerQuota(items, p)
<1>1. /\ size \in Nat /\ NL \in Nat
      /\ \A k \in 0..size : C[k] \in 0..NL
      /\ \A k \in 1..size : C[k] = C[k - 1] + 1 \/ C[k] = C[k - 1]
  <2>1. /\ size \in Nat /\ \A k \in 0..size : C[k] \in 0..NL
        /\ \A k \in 1..size : \/ NewcomerRow(items, p, k, C[k - 1], C[k], list[k])
                           \/ OtherRow(items, p, k, C[k - 1], C[k], list[k])
    BY Rows
  <2>2. NL \in Nat
    BY Parts, LenProperties
  <2> HIDE DEF size, C, NL, list
  <2> QED BY <2>1, <2>2 DEF NewcomerRow, OtherRow
<1> HIDE DEF size, C, NL
<1>2. ASSUME NEW i \in 0..size
      PROVE  \A m \in Nat : i + m \in 0..size => C[i] <= C[i + m] /\ i - C[i] <= (i + m) - C[i + m]
  <2> DEFINE Good == {m \in Nat : i + m \in 0..size => C[i] <= C[i + m] /\ i - C[i] <= (i + m) - C[i + m]}
  <2>1. 0 \in Good
    <3>1. C[i] \in Int /\ i \in Int /\ i + 0 = i
      BY <1>1
    <3> QED BY <3>1
  <2>2. ASSUME NEW m \in Nat, m \in Good
        PROVE  m + 1 \in Good
    <3> SUFFICES ASSUME i + (m + 1) \in 0..size
                 PROVE  C[i] <= C[i + (m + 1)] /\ i - C[i] <= (i + (m + 1)) - C[i + (m + 1)]
      BY <2>2
    <3>1. i + m \in 0..size /\ i + (m + 1) \in 1..size /\ (i + (m + 1)) - 1 = i + m
      BY <1>1
    <3>2. C[i + (m + 1)] = C[i + m] + 1 \/ C[i + (m + 1)] = C[i + m]
      BY <1>1, <3>1
    <3>3. C[i] \in Int /\ C[i + m] \in Int
      BY <1>1, <3>1
    <3> QED BY <2>2, <3>1, <3>2, <3>3
  <2> HIDE DEF Good
  <2>3. \A m \in Nat : m \in Good
    BY <2>1, <2>2, AllNumbers
  <2> QED BY <2>3 DEF Good
<1>3. ASSUME NEW i \in 0..size, NEW j \in 0..size, i <= j
      PROVE  C[i] <= C[j] /\ i - C[i] <= j - C[j]
  <2>1. j - i \in Nat /\ i + (j - i) = j
    BY <1>1, <1>3
  <2> QED BY <1>2, <2>1
<1> QED BY <1>3 DEF size, C

(* The newcomers in a beginning of the list are those placed by the turns.   *)
LEMMA NewcomersPlaced ==
    ASSUME NEW items, IsFiniteSet(items), Orders(items, Better(items)),
           NEW p \in Quotas, p[1] <= p[2]
    PROVE  LET size == Cardinality(items)
               list == RerankWithNewcomerQuota(items, p)
               C == Placed(items, p)
           IN  /\ \A k \in 1..size : list[k].item.isNewcomer <=> C[k] = C[k - 1] + 1
               /\ \A k \in 0..size : Newcomers(list, k) = C[k]
<1> DEFINE size == Cardinality(items)
           C == Placed(items, p)
           N == Sorted(New(items))
           O == Sorted(Old(items))
           list == RerankWithNewcomerQuota(items, p)
<1>1. /\ size \in Nat /\ C[0] = 0
      /\ \A k \in 0..size : C[k] \in 0..Len(N) /\ k - C[k] \in 0..Len(O)
      /\ \A k \in 1..size : \/ NewcomerRow(items, p, k, C[k - 1], C[k], list[k])
                         \/ OtherRow(items, p, k, C[k - 1], C[k], list[k])
  BY Rows
<1>2. /\ Len(N) \in Nat /\ Len(O) \in Nat
      /\ \A i \in 1..Len(N) : N[i].isNewcomer
      /\ \A i \in 1..Len(O) : ~O[i].isNewcomer
  BY Parts, LenProperties
<1> HIDE DEF size, C, list
<1>3. ASSUME NEW k \in 1..size
      PROVE  \/ C[k] = C[k - 1] + 1 /\ list[k].item.isNewcomer
             \/ C[k] = C[k - 1] /\ ~list[k].item.isNewcomer
  <2>0. k - 1 \in 0..size /\ k \in 0..size
    BY <1>1
  <2>t. C[k] \in 0..Len(N) /\ C[k - 1] \in 0..Len(N) /\ k - C[k] \in 0..Len(O)
    BY <1>1, <2>0
  <2>1. CASE NewcomerRow(items, p, k, C[k - 1], C[k], list[k])
    <3>1. C[k] = C[k - 1] + 1 /\ C[k] <= Len(N) /\ list[k].item = N[C[k]]
      BY <2>1 DEF NewcomerRow
    <3>2. C[k] \in 1..Len(N)
      BY <1>2, <2>t, <3>1
    <3> HIDE DEF N
    <3> QED BY <1>2, <3>1, <3>2
  <2>2. CASE OtherRow(items, p, k, C[k - 1], C[k], list[k])
    <3>1. C[k] = C[k - 1] /\ k - C[k] \in 1..Len(O) /\ list[k].item = O[k - C[k]]
      BY <2>2 DEF OtherRow
    <3> HIDE DEF O
    <3> QED BY <1>2, <3>1
  <2> QED BY <1>1, <2>1, <2>2
<1>c. \A k \in 0..size : C[k] \in Nat
  BY <1>1, <1>2
<1> HIDE DEF N, O
<1>4. \A k \in 1..size : list[k].item.isNewcomer <=> C[k] = C[k - 1] + 1
  <2> TAKE k \in 1..size
  <2>1. C[k - 1] \in Nat
    BY <1>1, <1>c
  <2> QED BY <1>3, <2>1
<1>5. \A k \in 0..size : Newcomers(list, k) = C[k]
  <2> DEFINE Set(k) == {i \in 1..k : list[i].item.isNewcomer}
             Good == {k \in Nat : k \in 0..size => Newcomers(list, k) = C[k]}
  <2>1. 0 \in Good
    <3>1. Set(0) = {}
      OBVIOUS
    <3>2. Newcomers(list, 0) = 0
      BY <3>1, FS_EmptySet DEF Newcomers
    <3> QED BY <1>1, <3>2
  <2>2. ASSUME NEW k \in Nat, k \in Good
        PROVE  k + 1 \in Good
    <3> SUFFICES ASSUME k + 1 \in 0..size
                 PROVE  Newcomers(list, k + 1) = C[k + 1]
      BY <2>2
    <3>1. k \in 0..size /\ k + 1 \in 1..size /\ (k + 1) - 1 = k
      BY <1>1
    <3>2. IsFiniteSet(Set(k))
      <4>1. Set(k) \subseteq 1..k /\ IsFiniteSet(1..k)
        BY FS_Interval
      <4> QED BY <4>1, FS_Subset
    <3>3. Cardinality(Set(k)) = C[k] /\ k + 1 \notin Set(k)
      BY <2>2, <3>1 DEF Newcomers
    <3>4. CASE C[k + 1] = C[k] + 1 /\ list[k + 1].item.isNewcomer
      <4>1. Set(k + 1) = Set(k) \union {k + 1}
        BY <3>4
      <4> HIDE DEF Set
      <4>2. Cardinality(Set(k + 1)) = C[k] + 1
        BY <3>2, <3>3, <4>1, FS_AddElement
      <4> QED BY <3>4, <4>2 DEF Newcomers, Set
    <3>5. CASE C[k + 1] = C[k] /\ ~list[k + 1].item.isNewcomer
      <4>1. Set(k + 1) = Set(k)
        BY <3>5
      <4> HIDE DEF Set
      <4> QED BY <3>3, <3>5, <4>1 DEF Newcomers, Set
    <3> QED BY <1>3, <3>1, <3>4, <3>5
  <2> HIDE DEF Good
  <2>3. \A k \in Nat : k \in Good
    BY <2>1, <2>2, AllNumbers
  <2> QED BY <1>1, <2>3 DEF Good
<1> QED BY <1>4, <1>5 DEF size, C, list

(***************************************************************************)
(* What the finished list has                                              *)
(***************************************************************************)
(* Every beginning of the list has the share of newcomers that the quota     *)
(* asks for, while any are left.                                             *)
LEMMA QuotaOfList ==
    ASSUME NEW items, IsFiniteSet(items), Orders(items, Better(items)),
           NEW p \in Quotas, p[1] <= p[2]
    PROVE  QuotaKept(RerankWithNewcomerQuota(items, p), p)
<1> DEFINE size == Cardinality(items)
           C == Placed(items, p)
           N == Sorted(New(items))
           O == Sorted(Old(items))
           list == RerankWithNewcomerQuota(items, p)
<1>1. /\ size \in Nat /\ C[0] = 0 /\ Len(list) = size
      /\ \A k \in 0..size : C[k] \in 0..Len(N) /\ k - C[k] \in 0..Len(O)
      /\ \A k \in 1..size : \/ NewcomerRow(items, p, k, C[k - 1], C[k], list[k])
                         \/ OtherRow(items, p, k, C[k - 1], C[k], list[k])
      /\ \A k \in 0..size : Newcomers(list, k) = C[k]
  BY Rows, NewcomersPlaced
<1>2. Len(N) \in Nat /\ Len(O) \in Nat /\ Len(N) + Len(O) = size
  BY Parts, LenProperties
<1>p. p[1] \in Nat /\ p[2] \in Nat \ {0}
  BY DEF Quotas
<1> HIDE DEF size, C, list
<1>3. \A k \in 0..size : C[k] >= Required(k, p) \/ C[k] = Len(N)
  <2> DEFINE Good == {k \in Nat : k \in 0..size => C[k] >= Required(k, p) \/ C[k] = Len(N)}
  <2>1. 0 \in Good
    <3>1. Required(0, p) = 0
      BY <1>p DEF Required
    <3> QED BY <1>1, <3>1
  <2>2. ASSUME NEW k \in Nat, k \in Good
        PROVE  k + 1 \in Good
    <3> SUFFICES ASSUME k + 1 \in 0..size
                 PROVE  C[k + 1] >= Required(k + 1, p) \/ C[k + 1] = Len(N)
      BY <2>2
    <3>1. k \in 0..size /\ k + 1 \in 1..size /\ (k + 1) - 1 = k /\ k + 1 \in Nat \ {0}
      BY <1>1
    <3>2. /\ Required(k + 1, p) \in Nat /\ Required(k, p) \in Nat
          /\ Required(k + 1, p) <= Required(k, p) + 1
      BY <3>1, RequiredGrows
    <3>3. C[k] \in 0..Len(N) /\ C[k + 1] \in 0..Len(N)
      BY <1>1, <3>1
    <3>4. CASE NewcomerRow(items, p, k + 1, C[k], C[k + 1], list[k + 1])
      <4>1. C[k + 1] = C[k] + 1 /\ C[k + 1] <= Len(N)
        BY <3>4 DEF NewcomerRow
      <4> QED BY <1>2, <2>2, <3>1, <3>2, <3>3, <4>1
    <3>5. CASE OtherRow(items, p, k + 1, C[k], C[k + 1], list[k + 1])
      <4>1. C[k + 1] < Len(N) => C[k + 1] >= Required(k + 1, p)
        BY <3>5 DEF OtherRow
      <4> QED BY <1>2, <3>3, <4>1
    <3> QED BY <1>1, <3>1, <3>4, <3>5
  <2> HIDE DEF Good
  <2>3. \A k \in Nat : k \in Good
    BY <2>1, <2>2, AllNumbers
  <2> QED BY <1>1, <2>3 DEF Good
<1>4. C[size] = Len(N)
  <2>1. C[size] \in 0..Len(N) /\ size - C[size] \in 0..Len(O)
    BY <1>1
  <2> QED BY <1>1, <1>2, <2>1
<1>5. ASSUME NEW k \in 1..size
      PROVE  C[k] * p[2] > p[1] * k - p[2] \/ C[k] = C[size]
  <2>0. k \in 0..size /\ k \in Nat \ {0}
    BY <1>1
  <2>1. CASE C[k] = Len(N)
    BY <1>4, <2>1
  <2>2. CASE C[k] >= Required(k, p)
    <3> DEFINE q == Required(k, p)
    <3>1. q \in Nat /\ p[1] * k < q * p[2] + p[2]
      BY <2>0, RequiredGrows
    <3>2. C[k] \in Nat /\ q <= C[k]
      BY <1>1, <1>2, <2>0, <2>2, <3>1
    <3> HIDE DEF q
    <3>3. q * p[2] <= C[k] * p[2]
      BY <1>p, <3>1, <3>2
    <3>4. q * p[2] \in Int /\ C[k] * p[2] \in Int /\ p[1] * k \in Int
      BY <1>p, <2>0, <3>1, <3>2
    <3> QED BY <1>p, <3>1, <3>3, <3>4
  <2> QED BY <1>3, <2>0, <2>1, <2>2
<1>6. size \in 0..size /\ \A k \in 1..size : k \in 0..size
  BY <1>1
<1> QED BY <1>1, <1>5, <1>6 DEF QuotaKept, list

(* The list has every performer once, and the newcomers, and the others,     *)
(* stand among themselves by their score.                                    *)
LEMMA GroupsOfList ==
    ASSUME NEW items, IsFiniteSet(items), Orders(items, Better(items)),
           NEW p \in Quotas, p[1] <= p[2]
    PROVE  GroupsKept(RerankWithNewcomerQuota(items, p), items)
<1> DEFINE size == Cardinality(items)
           C == Placed(items, p)
           N == Sorted(New(items))
           O == Sorted(Old(items))
           list == RerankWithNewcomerQuota(items, p)
<1>1. /\ size \in Nat /\ C[0] = 0 /\ Len(list) = size /\ list \in Seq(Row(items))
      /\ \A k \in 0..size : C[k] \in 0..Len(N) /\ k - C[k] \in 0..Len(O)
      /\ \A k \in 1..size : \/ NewcomerRow(items, p, k, C[k - 1], C[k], list[k])
                         \/ OtherRow(items, p, k, C[k - 1], C[k], list[k])
      /\ \A k \in 1..size : list[k].item.isNewcomer <=> C[k] = C[k - 1] + 1
      /\ \A i, j \in 0..size : i <= j => C[i] <= C[j] /\ i - C[i] <= j - C[j]
  BY Rows, NewcomersPlaced, PlacedGrows
<1>2. /\ Len(N) \in Nat /\ Len(O) \in Nat /\ Len(N) + Len(O) = size
      /\ \A i, j \in 1..Len(N) : i < j => CompareRanked(N[i], N[j])
      /\ \A i, j \in 1..Len(O) : i < j => CompareRanked(O[i], O[j])
      /\ \A x \in items : x.isNewcomer => \E i \in 1..Len(N) : N[i] = x
      /\ \A x \in items : ~x.isNewcomer => \E i \in 1..Len(O) : O[i] = x
  BY Parts, LenProperties
<1> HIDE DEF size, C, list
<1>3. ASSUME NEW k \in 1..size
      PROVE  /\ k \in 0..size /\ k - 1 \in 0..size /\ C[k - 1] \in 0..Len(N) /\ C[k] \in 0..Len(N)
             /\ \/ C[k] = C[k - 1] + 1 /\ list[k].item = N[C[k]] /\ C[k] \in 1..Len(N)
                \/ /\ C[k] = C[k - 1] /\ list[k].item = O[k - C[k]] /\ k - C[k] \in 1..Len(O)
  <2>1. k \in 0..size /\ k - 1 \in 0..size /\ C[k - 1] \in 0..Len(N) /\ C[k] \in 0..Len(N)
    BY <1>1
  <2> QED BY <1>1, <1>2, <2>1 DEF NewcomerRow, OtherRow
<1> HIDE DEF N, O
<1>4. {list[i].item : i \in 1..size} = items
  <2>1. \A i \in 1..size : list[i].item \in items
    <3>1. \A i \in 1..size : list[i] \in Row(items)
      BY <1>1, LenProperties
    <3> QED BY <3>1 DEF Row
  <2>2. ASSUME NEW a \in 1..Len(N)
        PROVE  \E i \in 1..size : list[i].item = N[a]
    <3> DEFINE Reached == {i \in 0..size : C[i] >= a}
    <3>1. size \in Reached /\ Reached \in SUBSET Nat
      BY <1>1, <1>2
    <3>2. PICK k \in Reached : \A i \in Reached : k <= i
      BY <3>1, LeastNumber
    <3>3. k # 0 /\ k \in 1..size /\ C[k] >= a
      BY <1>1, <3>2
    <3>4. C[k - 1] < a
      BY <1>3, <1>2, <3>2, <3>3
    <3>5. C[k] = a /\ C[k] = C[k - 1] + 1
      BY <1>2, <1>3, <3>3, <3>4
    <3>6. list[k].item = N[a]
      <4>1. C[k - 1] # C[k]
        BY <1>3, <3>3, <3>4, <3>5
      <4> QED BY <1>3, <3>3, <3>5, <4>1
    <3> QED BY <3>3, <3>6
  <2>3. ASSUME NEW a \in 1..Len(O)
        PROVE  \E i \in 1..size : list[i].item = O[a]
    <3> DEFINE Reached == {i \in 0..size : i - C[i] >= a}
    <3>1. size \in Reached /\ Reached \in SUBSET Nat
      BY <1>1, <1>2
    <3>2. PICK k \in Reached : \A i \in Reached : k <= i
      BY <3>1, LeastNumber
    <3>3. k # 0 /\ k \in 1..size /\ k - C[k] >= a
      BY <1>1, <3>2
    <3>4. (k - 1) - C[k - 1] < a
      BY <1>3, <1>2, <3>2, <3>3
    <3>5. k - C[k] = a /\ C[k] = C[k - 1]
      BY <1>2, <1>3, <3>3, <3>4
    <3>6. list[k].item = O[a]
      <4>1. C[k] # C[k - 1] + 1
        BY <1>3, <3>3, <3>5
      <4> QED BY <1>3, <3>3, <3>5, <4>1
    <3> QED BY <3>3, <3>6
  <2>4. \A x \in items : \E i \in 1..size : list[i].item = x
    <3> TAKE x \in items
    <3>1. CASE x.isNewcomer
      BY <1>2, <2>2, <3>1
    <3>2. CASE ~x.isNewcomer
      BY <1>2, <2>3, <3>2
    <3> QED BY <3>1, <3>2
  <2> QED BY <2>1, <2>4
<1>5. ASSUME NEW i \in 1..size, NEW j \in 1..size, i < j,
             list[i].item.isNewcomer = list[j].item.isNewcomer
      PROVE  CompareRanked(list[i].item, list[j].item)
  <2>1. /\ i <= j - 1 /\ i \in 0..size /\ j - 1 \in 0..size
        /\ C[i] <= C[j - 1] /\ i - C[i] <= (j - 1) - C[j - 1]
    <3>1. i <= j - 1 /\ i \in 0..size /\ j - 1 \in 0..size
      BY <1>1, <1>5
    <3> QED BY <1>1, <3>1
  <2>2. C[i] \in Int /\ C[j] \in Int /\ C[i - 1] \in Int /\ C[j - 1] \in Int
    BY <1>2, <1>3
  <2>3. CASE list[i].item.isNewcomer
    <3>1. C[i] = C[i - 1] + 1 /\ C[j] = C[j - 1] + 1
      BY <1>1, <1>5, <2>3
    <3>2. /\ list[i].item = N[C[i]] /\ list[j].item = N[C[j]]
          /\ C[i] \in 1..Len(N) /\ C[j] \in 1..Len(N)
      <4>1. C[i] # C[i - 1] /\ C[j] # C[j - 1]
        BY <2>2, <3>1
      <4> QED BY <1>3, <4>1
    <3>3. C[i] < C[j]
      BY <2>1, <2>2, <3>1
    <3> QED BY <1>2, <3>2, <3>3
  <2>4. CASE ~list[i].item.isNewcomer
    <3>1. C[i] # C[i - 1] + 1 /\ C[j] # C[j - 1] + 1
      BY <1>1, <1>5, <2>4
    <3>2. /\ list[i].item = O[i - C[i]] /\ list[j].item = O[j - C[j]]
          /\ i - C[i] \in 1..Len(O) /\ j - C[j] \in 1..Len(O) /\ C[j] = C[j - 1]
      BY <1>3, <3>1
    <3>3. i - C[i] < j - C[j]
      BY <2>1, <2>2, <3>2
    <3> QED BY <1>2, <3>2, <3>3
  <2> QED BY <2>3, <2>4
<1> QED BY <1>1, <1>4, <1>5 DEF GroupsKept, list, size

(* Only a place by quota puts somebody before a better one, and the quota    *)
(* gives a place only where newcomers are lacking.                           *)
LEMMA SlotsOfList ==
    ASSUME NEW items, IsFiniteSet(items), Orders(items, Better(items)),
           \A x \in items : x.isNewcomer \in BOOLEAN, NEW p \in Quotas, p[1] <= p[2]
    PROVE  SlotsKept(RerankWithNewcomerQuota(items, p), p)
<1> DEFINE size == Cardinality(items)
           C == Placed(items, p)
           N == Sorted(New(items))
           O == Sorted(Old(items))
           list == RerankWithNewcomerQuota(items, p)
           Worse(x, y) == CompareRanked(y, x)
<1>1. /\ size \in Nat /\ Len(list) = size
      /\ \A k \in 0..size : C[k] \in 0..Len(N) /\ k - C[k] \in 0..Len(O)
      /\ \A k \in 1..size : \/ NewcomerRow(items, p, k, C[k - 1], C[k], list[k])
                         \/ OtherRow(items, p, k, C[k - 1], C[k], list[k])
      /\ \A k \in 1..size : list[k].item.isNewcomer <=> C[k] = C[k - 1] + 1
      /\ \A k \in 0..size : Newcomers(list, k) = C[k]
      /\ \A i, j \in 0..size : i <= j => C[i] <= C[j] /\ i - C[i] <= j - C[j]
  BY Rows, NewcomersPlaced, PlacedGrows
<1>2. /\ Len(N) \in Nat /\ Len(O) \in Nat /\ Len(N) + Len(O) = size
      /\ \A i, j \in 1..Len(N) : i < j => CompareRanked(N[i], N[j])
      /\ \A i, j \in 1..Len(O) : i < j => CompareRanked(O[i], O[j])
      /\ \A i \in 1..Len(N) : N[i] \in items
      /\ \A i \in 1..Len(O) : O[i] \in items
  BY Parts, LenProperties
<1>o. /\ \A x \in items : ~CompareRanked(x, x)
      /\ \A x, y, z \in items : CompareRanked(x, y) /\ CompareRanked(y, z) => CompareRanked(x, z)
  BY DEF Orders, Better
<1>p. p[1] \in Nat /\ p[2] \in Nat \ {0}
  BY DEF Quotas
<1>g. \A i, j \in 1..size :
          i < j /\ list[i].item.isNewcomer = list[j].item.isNewcomer
              => CompareRanked(list[i].item, list[j].item)
  BY <1>1, GroupsOfList DEF GroupsKept
<1> HIDE DEF size, C, list
<1>3. ASSUME NEW k \in 1..size
      PROVE  /\ k \in 0..size /\ k - 1 \in 0..size /\ C[k - 1] \in 0..Len(N) /\ C[k] \in 0..Len(N)
             /\ \/ /\ C[k] = C[k - 1] + 1 /\ list[k].item = N[C[k]] /\ C[k] \in 1..Len(N)
                   /\ list[k].item.isNewcomer
                   /\ list[k].quotaSlot => C[k - 1] < Required(k, p)
                   /\ k - C[k] < Len(O) /\ ~list[k].quotaSlot => ~CompareRanked(O[k - C[k] + 1], N[C[k]])
                \/ /\ C[k] = C[k - 1] /\ list[k].item = O[k - C[k]] /\ k - C[k] \in 1..Len(O)
                   /\ ~list[k].item.isNewcomer
                   /\ ~list[k].quotaSlot
                   /\ C[k] < Len(N) => ~CompareRanked(N[C[k] + 1], O[k - C[k]])
  <2>1. k \in 0..size /\ k - 1 \in 0..size /\ C[k - 1] \in 0..Len(N) /\ C[k] \in 0..Len(N)
    BY <1>1
  <2>2. C[k - 1] \in Int /\ (list[k].item.isNewcomer <=> C[k] = C[k - 1] + 1)
    BY <1>1, <1>2, <2>1
  <2>3. CASE NewcomerRow(items, p, k, C[k - 1], C[k], list[k])
    BY <1>2, <2>1, <2>2, <2>3 DEF NewcomerRow
  <2>4. CASE OtherRow(items, p, k, C[k - 1], C[k], list[k])
    BY <1>2, <2>1, <2>2, <2>4 DEF OtherRow
  <2> QED BY <1>1, <2>3, <2>4
<1> HIDE DEF N, O
<1>4. ASSUME NEW i \in 1..size, NEW j \in 1..size, i < j,
             CompareRanked(list[j].item, list[i].item)
      PROVE  list[i].quotaSlot
  <2>1. /\ i <= j - 1 /\ i \in 0..size /\ j - 1 \in 0..size
        /\ C[i] <= C[j - 1] /\ i - C[i] <= (j - 1) - C[j - 1]
    <3>1. i <= j - 1 /\ i \in 0..size /\ j - 1 \in 0..size
      BY <1>1, <1>4
    <3> QED BY <1>1, <3>1
  <2>2. C[i] \in Int /\ C[j] \in Int /\ C[i - 1] \in Int /\ C[j - 1] \in Int
    BY <1>2, <1>3
  <2>3. list[i].item \in items /\ list[j].item \in items
    <3>1. \A k \in 1..size : list[k].item \in items
      BY <1>2, <1>3
    <3> QED BY <3>1
  <2>4. list[i].item.isNewcomer # list[j].item.isNewcomer
    BY <1>4, <1>g, <1>o, <2>3
  <2>5. CASE list[i].item.isNewcomer /\ ~list[j].item.isNewcomer
    <3>1. /\ list[i].item = N[C[i]]
          /\ i - C[i] < Len(O) /\ ~list[i].quotaSlot => ~CompareRanked(O[i - C[i] + 1], N[C[i]])
      BY <1>3, <2>5
    <3>2. C[j] = C[j - 1] /\ list[j].item = O[j - C[j]] /\ j - C[j] \in 1..Len(O)
      BY <1>3, <2>5
    <3> DEFINE b == i - C[i] + 1
    <3>3. b \in Int /\ b <= j - C[j] /\ i - C[i] >= 0 /\ b \in 1..Len(O) /\ i - C[i] < Len(O)
      <4> DEFINE x == i - C[i]
                 y == j - C[j]
      <4>1. x \in 0..Len(O)
        BY <1>1, <2>1
      <4>2. (j - 1) - C[j - 1] = y - 1 /\ x <= (j - 1) - C[j - 1] /\ y \in 1..Len(O)
        BY <1>1, <2>1, <2>2, <3>2
      <4> HIDE DEF x, y
      <4>3. x + 1 \in Int /\ x + 1 <= y /\ x >= 0 /\ x + 1 \in 1..Len(O) /\ x < Len(O)
        BY <1>2, <4>1, <4>2
      <4> QED BY <4>3 DEF x, y
    <3> HIDE DEF b
    <3>4. O[b] = list[j].item \/ CompareRanked(O[b], list[j].item)
      BY <1>2, <3>2, <3>3
    <3>5. CompareRanked(O[b], list[i].item)
      <4>1. O[b] \in items
        BY <1>2, <3>3
      <4> QED BY <1>4, <1>o, <2>3, <3>4, <4>1
    <3> QED BY <3>1, <3>3, <3>5 DEF b
  <2>6. CASE ~list[i].item.isNewcomer /\ list[j].item.isNewcomer
    <3>1. /\ list[i].item = O[i - C[i]]
          /\ C[i] < Len(N) => ~CompareRanked(N[C[i] + 1], O[i - C[i]])
      BY <1>3, <2>6
    <3>2. C[j] = C[j - 1] + 1 /\ list[j].item = N[C[j]] /\ C[j] \in 1..Len(N)
      BY <1>3, <2>6
    <3> DEFINE a == C[i] + 1
    <3>3. a \in Int /\ a <= C[j] /\ a \in 1..Len(N) /\ C[i] < Len(N)
      <4>1. C[i] \in 0..Len(N) /\ C[i] <= C[j - 1]
        BY <1>1, <2>1
      <4>2. Len(N) \in Nat
        BY <1>2
      <4> QED BY <2>2, <3>2, <4>1, <4>2
    <3> HIDE DEF a
    <3>4. N[a] = list[j].item \/ CompareRanked(N[a], list[j].item)
      BY <1>2, <3>2, <3>3
    <3>5. CompareRanked(N[a], list[i].item)
      <4>1. N[a] \in items
        BY <1>2, <3>3
      <4> QED BY <1>4, <1>o, <2>3, <3>4, <4>1
    <3> QED BY <3>1, <3>3, <3>5 DEF a
  <2>7. list[i].item.isNewcomer \in BOOLEAN /\ list[j].item.isNewcomer \in BOOLEAN
    BY <2>3
  <2> QED BY <2>4, <2>5, <2>6, <2>7
<1>5. ASSUME NEW k \in 1..size, list[k].quotaSlot
      PROVE  /\ list[k].item.isNewcomer
             /\ (Newcomers(list, k) - 1) * p[2] <= p[1] * k - p[2]
  <2>1. C[k] = C[k - 1] + 1 /\ list[k].item.isNewcomer /\ C[k - 1] < Required(k, p)
    BY <1>3, <1>5
  <2> DEFINE q == Required(k, p)
             c == C[k - 1]
  <2>2. k \in Nat \ {0} /\ c \in Nat /\ q \in Nat /\ q * p[2] <= p[1] * k
    <3>1. k \in Nat \ {0} /\ c \in Nat
      BY <1>1, <1>2, <1>3
    <3> QED BY <3>1, RequiredGrows
  <2>3. Newcomers(list, k) - 1 = c
    <3>1. Newcomers(list, k) = C[k]
      BY <1>1, <1>3
    <3> QED BY <2>1, <2>2, <3>1
  <2>4. c + 1 <= q
    BY <2>1, <2>2
  <2> HIDE DEF c, q
  <2> DEFINE b == p[2]
  <2> HIDE DEF b
  <2>b. b \in Nat /\ b = p[2]
    BY <1>p DEF b
  <2>5. (c + 1) * b <= q * b
    BY <2>b, <2>2, <2>4
  <2>6. (c + 1) * b = c * b + b
    BY <2>b, <2>2
  <2>7. c * p[2] \in Int /\ q * p[2] \in Int /\ p[1] * k \in Int
    BY <1>p, <2>2
  <2> QED BY <1>p, <2>1, <2>2, <2>3, <2>5, <2>6, <2>7, <2>b
<1> QED BY <1>1, <1>4, <1>5 DEF SlotsKept, list

(***************************************************************************)
(* The items that are ranked                                               *)
(***************************************************************************)
LEMMA Quotient ==
    ASSUME NEW a \in Int, NEW b \in Nat \ {0}
    PROVE  a \div b \in Int
OBVIOUS

LEMMA Clamped ==
    ASSUME NEW x \in Int
    PROVE  Clamp01(x) \in Int
BY RankingAssumption DEF Clamp01, Least, Greatest

LEMMA LogarithmPositive == Log1p[N_EXP] \in Nat \ {0}
<1>1. N_EXP \in 1..N_EXP /\ N_EXP - 1 \in 0..N_EXP /\ N_EXP \in 0..N_EXP
  BY RankingAssumption
<1>2. Log1p[N_EXP - 1] \in Nat /\ Log1p[N_EXP] \in Nat /\ Log1p[N_EXP - 1] < Log1p[N_EXP]
  BY <1>1, RankingAssumption
<1> QED BY <1>2

LEMMA RatingTyped ==
    ASSUME NEW w \in Worker
    PROVE  RatingScore(w) \in Int
<1>1. w.ratingSum \in Nat /\ w.reviewsCount \in Nat
  BY DEF Worker
<1>2. Unit \in Nat /\ PRIOR_MEAN \in Nat /\ PRIOR_WEIGHT \in Nat
  BY RankingAssumption
<1>3. CASE w.reviewsCount = 0
  BY <1>3 DEF RatingScore, BayesianScore
<1>4. CASE w.reviewsCount # 0
  <2> DEFINE a == w.ratingSum * Unit + PRIOR_MEAN * PRIOR_WEIGHT
             b == w.reviewsCount + PRIOR_WEIGHT
  <2>1. a \in Int /\ b \in Nat \ {0}
    BY <1>1, <1>2, <1>4
  <2>2. RatingScore(w) = a \div b
    BY <1>4 DEF RatingScore, BayesianScore
  <2> HIDE DEF a, b
  <2> QED BY <2>1, <2>2, Quotient
<1> QED BY <1>3, <1>4

LEMMA ExperienceTyped ==
    ASSUME NEW w \in Worker
    PROVE  ExperienceAdvanced(w.completed, w.eligible, Alpha) \in Int
<1> DEFINE m == Least(w.completed, N_EXP)
           e == Experience(w.completed)
<1>1. m \in 0..N_EXP
  BY RankingAssumption DEF Worker, Least
<1>2. Log1p[m] \in Nat /\ Unit \in Nat /\ Log1p[N_EXP] \in Nat \ {0}
  BY <1>1, RankingAssumption, LogarithmPositive
<1>3. e \in Int
  <2> DEFINE a == Log1p[m] * Unit
  <2>1. a \in Int
    BY <1>2
  <2>2. e = a \div Log1p[N_EXP]
    BY DEF Experience
  <2> HIDE DEF a, e
  <2> QED BY <1>2, <2>1, <2>2, Quotient
<1>4. Alpha \in Nat
  BY RankingAssumption DEF Alpha
<1> HIDE DEF e
<1>5. (Alpha * (Unit - e)) \div 100 \in Int
  <2> DEFINE a == Alpha * (Unit - e)
  <2>1. a \in Int
    BY <1>2, <1>3, <1>4
  <2> HIDE DEF a
  <2>2. a \div 100 \in Int
    BY <2>1, Quotient
  <2> QED BY <2>2 DEF a
<1> DEFINE d == (Alpha * (Unit - e)) \div 100
<1> HIDE DEF d
<1>6. ExperienceAdvanced(w.completed, w.eligible, Alpha) = IF w.eligible THEN e + d ELSE e
  BY DEF ExperienceAdvanced, e, d
<1>7. d \in Int
  BY <1>5 DEF d
<1> QED BY <1>3, <1>6, <1>7

LEMMA RelevanceTyped ==
    ASSUME NEW w \in Worker, NEW order \in Asked
    PROVE  Relevance(order, w) \in Int
<1> DEFINE cat    == IF order.category \in w.categories THEN Unit ELSE 0
           common == Cardinality(order.skills \intersect w.skills)
           all    == Cardinality(order.skills)
           skills == IF order.skills = {} THEN cat ELSE (common * Unit) \div all
           over   == ((w.price - order.budget) * Unit) \div order.budget
           price  == IF order.budget = 0 \/ w.price <= order.budget THEN Unit
                     ELSE Greatest(0, Unit - over)
<1>1. Unit \in Nat /\ order.budget \in Nat /\ w.price \in Nat /\ IsFiniteSet(order.skills)
  BY RankingAssumption, MarketAssumption DEF Worker
<1>2. cat \in Int
  BY <1>1
<1>3. skills \in Int
  <2>1. CASE order.skills = {}
    BY <1>2, <2>1
  <2>2. CASE order.skills # {}
    <3>1. all \in Nat \ {0}
      BY <1>1, <2>2, FS_CardinalityType, FS_EmptySet
    <3>2. common \in Nat
      BY <1>1, FS_Intersection, FS_CardinalityType
    <3> DEFINE a == common * Unit
    <3>3. a \in Int
      BY <1>1, <3>2
    <3> HIDE DEF a, all
    <3>4. a \div all \in Int
      BY <3>1, <3>3, Quotient
    <3> QED BY <2>2, <3>4 DEF a
  <2> QED BY <2>1, <2>2
<1>4. price \in Int
  <2>1. CASE order.budget = 0 \/ w.price <= order.budget
    BY <1>1, <2>1
  <2>2. CASE ~(order.budget = 0 \/ w.price <= order.budget)
    <3> DEFINE a == (w.price - order.budget) * Unit
    <3>1. a \in Int /\ order.budget \in Nat \ {0}
      BY <1>1, <2>2
    <3> HIDE DEF a
    <3>2. a \div order.budget \in Int
      BY <3>1, Quotient
    <3>3. over \in Int
      BY <3>2 DEF a
    <3> HIDE DEF over
    <3>4. Greatest(0, Unit - over) \in Int
      BY <1>1, <3>3 DEF Greatest
    <3> QED BY <2>2, <3>4
  <2> QED BY <2>1, <2>2
<1> DEFINE r == RELEVANCE_WEIGHTS
           a == r.cat * cat + r.skills * skills + r.price * price
<1>5. r.cat \in Nat /\ r.skills \in Nat /\ r.price \in Nat
  BY RankingAssumption
<1>6. Relevance(order, w) = a \div 100
  BY DEF Relevance
<1> HIDE DEF cat, skills, price
<1>7. a \in Int
  <2>1. r.cat * cat \in Int /\ r.skills * skills \in Int /\ r.price * price \in Int
    BY <1>2, <1>3, <1>4, <1>5
  <2> QED BY <2>1
<1> HIDE DEF a
<1> QED BY <1>6, <1>7, Quotient

LEMMA ScoreTyped ==
    ASSUME NEW w \in Worker, NEW order, order \in Asked \/ order = None
    PROVE  Score(Factors(w, order), order # None) \in Int
<1> DEFINE f == Factors(w, order)
           withR == order # None
           c == Contributions(f, withR)
<1>1. f.Q \in Int
  <2> DEFINE s == IF w.reviewsCount > 0 THEN RatingScore(w) ELSE PRIOR_MEAN
  <2>1. s \in Int /\ Unit \in Nat
    BY RatingTyped, RankingAssumption
  <2>2. f.Q = Clamp01((s - Unit) \div 4)
    BY DEF Factors, Quality
  <2> HIDE DEF s, f
  <2>3. (s - Unit) \div 4 \in Int
    BY <2>1, Quotient
  <2> QED BY <2>2, <2>3, Clamped
<1>2. f.Eadv \in Int
  BY ExperienceTyped DEF Factors
<1>3. f.A \in Int
  BY RankingAssumption DEF Factors, Activity
<1>4. f.L \in Int
  <2> DEFINE a == w.inProgress * Unit
  <2>1. a \in Int /\ L_CAP \in Nat \ {0}
    BY RankingAssumption DEF Worker
  <2>2. f.L = Clamp01(a \div L_CAP)
    BY DEF Factors, Workload
  <2> HIDE DEF a, f
  <2> QED BY <2>1, <2>2, Quotient, Clamped
<1>5. f.R \in Int
  BY RelevanceTyped DEF Factors
<1> HIDE DEF f
<1>6. WEIGHTS.Q \in Nat /\ WEIGHTS.R \in Nat /\ WEIGHTS.E \in Nat /\ WEIGHTS.A \in Nat /\ WEIGHTS.L \in Nat
  BY RankingAssumption
<1>7. WeightSum(withR) \in Nat
  BY <1>6 DEF WeightSum
<1>8. c.Q \in Int /\ c.R \in Int /\ c.E \in Int /\ c.A \in Int /\ c.L \in Int
  <2>1. /\ 100 * WEIGHTS.Q * f.Q \in Int /\ 100 * WEIGHTS.R * f.R \in Int
        /\ 100 * WEIGHTS.E * f.Eadv \in Int /\ 100 * WEIGHTS.A * f.A \in Int
    BY <1>1, <1>2, <1>3, <1>5, <1>6
  <2>2. -(WEIGHTS.L * WeightSum(withR) * f.L) \in Int
    BY <1>4, <1>6, <1>7
  <2>3. (IF withR THEN 100 * WEIGHTS.R * f.R ELSE 0) \in Int
    BY <2>1
  <2> QED BY <2>1, <2>2, <2>3 DEF Contributions
<1>9. Score(f, withR) = c.Q + c.R + c.E + c.A + c.L
  BY DEF Score
<1> HIDE DEF c
<1> QED BY <1>8, <1>9 DEF f

(* The order by score is total on the candidates of any list.                *)
LEMMA ItemsOrdered ==
    ASSUME NEW population \in [Id -> Worker], NEW order, order \in Asked \/ order = None,
           NEW candidates \in SUBSET Id
    PROVE  LET items == {Item(population, i, order) : i \in candidates}
           IN  /\ IsFiniteSet(items) /\ Orders(items, Better(items))
               /\ \A x \in items : x.isNewcomer \in BOOLEAN
<1> DEFINE items == {Item(population, i, order) : i \in candidates}
<1>1. ASSUME NEW i \in Id
      PROVE  Item(population, i, order) \in Ranked /\ Item(population, i, order).id = i
  <2> DEFINE w == population[i]
             score == IF mode = "legacy" THEN RatingScore(w) ELSE Score(Factors(w, order), order # None)
  <2>1. w \in Worker /\ w.reviewsCount \in Nat /\ w.lastSeen \in Nat \union {None} /\ i \in Nat
    BY MarketAssumption DEF Worker
  <2>2. score \in Int
    BY <2>1, RatingTyped, ScoreTyped
  <2>3. NewcomerAt(population, i) \in BOOLEAN
    BY DEF NewcomerAt, IsNewcomer
  <2>4. Item(population, i, order) =
          [id |-> i, score |-> score, isNewcomer |-> NewcomerAt(population, i),
           reviewsCount |-> w.reviewsCount, lastSeen |-> w.lastSeen]
    BY DEF Item
  <2> HIDE DEF w, score
  <2> QED BY <2>1, <2>2, <2>3, <2>4 DEF Ranked
<1>2. items \in SUBSET Ranked /\ \A x, y \in items : x.id = y.id => x = y
  <2>1. \A x \in items : x \in Ranked /\ \E i \in Id : x = Item(population, i, order) /\ x.id = i
    <3> TAKE x \in items
    <3>1. PICK i \in candidates : x = Item(population, i, order)
      OBVIOUS
    <3> QED BY <1>1, <3>1
  <2> HIDE DEF items
  <2>2. ASSUME NEW x \in items, NEW y \in items, x.id = y.id
        PROVE  x = y
    <3>1. PICK i \in Id : x = Item(population, i, order) /\ x.id = i
      BY <2>1
    <3>2. PICK j \in Id : y = Item(population, j, order) /\ y.id = j
      BY <2>1
    <3>3. i = j
      BY <2>2, <3>1, <3>2
    <3> QED BY <3>1, <3>2, <3>3
  <2>3. \A x \in items : x \in Ranked
    BY <2>1
  <2> QED BY <2>2, <2>3
<1>3. IsFiniteSet(items)
  <2>1. IsFiniteSet(candidates)
    BY MarketAssumption, FS_Subset
  <2> DEFINE item == [i \in candidates |-> Item(population, i, order)]
  <2>2. item \in Surjection(candidates, items)
    BY DEF Surjection
  <2> HIDE DEF item, items
  <2> QED BY <2>1, <2>2, FS_Surjection
<1>4. \A x \in items : x.isNewcomer \in BOOLEAN
  BY <1>2 DEF Ranked
<1> HIDE DEF items
<1> QED BY <1>2, <1>3, <1>4, ScoreOrders DEF items

(* Every list that is ranked has what a list has to have.                    *)
ListKept(l) == /\ QuotaKept(l.list, l.share)
               /\ GroupsKept(l.list, l.items) /\ SlotsKept(l.list, l.share)

LEMMA RankKept ==
    ASSUME NEW population \in [Id -> Worker], NEW order, order \in Asked \/ order = None,
           NEW candidates \in SUBSET Id
    PROVE  ListKept(Rank(candidates, population, order))
<1> DEFINE items == {Item(population, i, order) : i \in candidates}
<1>1. /\ IsFiniteSet(items) /\ Orders(items, Better(items))
      /\ \A x \in items : x.isNewcomer \in BOOLEAN
  BY ItemsOrdered
<1>2. Share \in Quotas /\ Share[1] <= Share[2]
  BY RankingAssumption DEF Share, Quotas
<1>3. Rank(candidates, population, order) =
        [list |-> RerankWithNewcomerQuota(items, Share), items |-> items, share |-> Share]
  BY DEF Rank
<1> HIDE DEF items
<1>4. /\ QuotaKept(RerankWithNewcomerQuota(items, Share), Share)
      /\ GroupsKept(RerankWithNewcomerQuota(items, Share), items)
      /\ SlotsKept(RerankWithNewcomerQuota(items, Share), Share)
  BY <1>1, <1>2, QuotaOfList, GroupsOfList, SlotsOfList
<1> QED BY <1>3, <1>4 DEF ListKept

LEMMA NoListKept == ListKept(NoList)
<1>1. Len(<<>>) = 0 /\ \A k \in 1..0 : FALSE
  OBVIOUS
<1>2. Cardinality({}) = 0
  BY FS_EmptySet
<1>3. QuotaKept(<<>>, <<0, 1>>)
  BY <1>1 DEF QuotaKept
<1>4. GroupsKept(<<>>, {})
  BY <1>1, <1>2 DEF GroupsKept
<1>5. SlotsKept(<<>>, <<0, 1>>)
  BY <1>1 DEF SlotsKept
<1> QED BY <1>3, <1>4, <1>5 DEF ListKept, NoList

LEMMA ListedStep ==
    ASSUME IInv, ListKept(listed), [Next]_vars
    PROVE  ListKept(listed)'
<1>0. performers \in [Id -> Worker]
  BY DEF IInv, Types
<1>1. ASSUME NEW category \in Category, NEW rating \in Rating \union {None}, NEW chosen \in Id,
             PlaceOrder(category, rating, chosen)
      PROVE  ListKept(listed')
  <2>1. Completed(rating) \in [Id -> Worker]
    <3>1. rating # None => Due
      BY <1>1 DEF PlaceOrder
    <3> QED BY <3>1, RestBooks
  <2>2. InCategory(Completed(rating), category) \in SUBSET Id
    BY DEF InCategory
  <2>3. listed' = Rank(InCategory(Completed(rating), category), Completed(rating), None)
    BY <1>1 DEF PlaceOrder
  <2> QED BY <2>1, <2>2, <2>3, RankKept
<1>2. ASSUME NEW category \in Category, GetSpecialists(category)
      PROVE  ListKept(listed')
  <2>1. InCategory(performers, category) \in SUBSET Id
    BY DEF InCategory
  <2> QED BY <1>0, <1>2, <2>1, RankKept DEF GetSpecialists
<1>3. ASSUME NEW order \in Asked, GetRecommendations(order)
      PROVE  ListKept(listed')
  <2>1. CandidatesFor(performers, order) \in SUBSET Id
    BY DEF CandidatesFor
  <2> QED BY <1>0, <1>3, <2>1, RankKept, NoListKept DEF GetRecommendations
<1>4. CASE UNCHANGED vars
  BY <1>4 DEF vars
<1> QED BY <1>1, <1>2, <1>3, <1>4 DEF Next

(* The lists of the ranking (rerankWithNewcomerQuota), for every population, *)
(* every weight, every quota and every number of performers, in the          *)
(* catalogue, in recommendations and in the simulation.                      *)
LEMMA ListsKept == Spec => []ListKept(listed)
<1>1. Init => ListKept(listed)
  BY NoListKept DEF Init
<1>2. IInv /\ ListKept(listed) /\ [Next]_vars => ListKept(listed)'
  BY ListedStep
<1> QED BY Invariance, <1>1, <1>2, PTL DEF Spec

(* The quota of newcomers (rerankWithNewcomerQuota): in every list, every    *)
(* beginning has the share of newcomers the quota asks for while any are     *)
(* left, for every population and every quota.                               *)
THEOREM Quota == Spec => []QuotaHolds
<1>1. ListKept(listed) => QuotaHolds
  BY DEF ListKept, QuotaHolds
<1> QED BY ListsKept, <1>1, PTL

(* The quota reorders nothing else: every candidate is in the list once, the *)
(* newcomers and the others keep their order by score, and whoever stands    *)
(* before a better one is marked as placed by the quota.                     *)
THEOREM Lists == Spec => []ListHolds
<1>1. ListKept(listed) => ListHolds
  BY DEF ListKept, ListHolds
<1> QED BY ListsKept, <1>1, PTL

(***************************************************************************)
(* The seed script: the ids of the set                                     *)
(***************************************************************************)
LEMMA KeysApart ==
    ASSUME SeedParameters, run \in Nat
    PROVE  /\ Ids(Keys) \intersect Real = {}
           /\ Keys \intersect Real = {}
           /\ \A i \in Nat : IdOf(i) # HostOrder
           /\ Host \in Real /\ Visitor \in Real
BY DEF SeedParameters, Apart, Ids, IdOf, Real

(* Whatever the set says of an order is between two of its users.            *)
LEMMA PerformerOfSet ==
    ASSUME SeedParameters, NEW i \in Numbers(AllOrders), NEW o, o = AllOrders[i]
    PROVE  /\ IdOf(o.owner) \in Ids(Keys)
           /\ \A j \in Numbers(o.responses) : IdOf(o.responses[j][1]) \in Ids(Keys)
           /\ Accepted(o) # {} => PerformerOf(o) \in Ids(Keys)
           /\ StatusOf(o) = "completed" => PerformerOf(o) \in Ids(Keys)
<1>1. /\ o.owner \in Keys /\ o.history \in Keys \union {Null}
      /\ \A j \in Numbers(o.responses) : o.responses[j][1] \in Keys
  BY DEF SeedParameters, Closed
<1>2. \A k \in Keys : IdOf(k) \in Ids(Keys)
  BY DEF Ids
<1>3. Accepted(o) # {} => (CHOOSE j \in Accepted(o) : TRUE) \in Numbers(o.responses)
  BY DEF Accepted
<1>4. /\ WorkerOf(o) \in Keys \union {Null}
      /\ Accepted(o) # {} => WorkerOf(o) \in Keys
  BY <1>1, <1>3 DEF WorkerOf
<1>5. Null \notin Keys
  BY DEF SeedParameters, Apart
<1>6. PerformerOf(o) \in Ids(Keys) \/ WorkerOf(o) = Null
  BY <1>2, <1>4 DEF PerformerOf
<1>7. StatusOf(o) = "completed" => WorkerOf(o) # Null
  BY DEF StatusOf
<1> QED BY <1>1, <1>2, <1>4, <1>5, <1>6, <1>7

\* A message, or a review, about an order between two users of the set.
MessageOfSet(m, S) == {m.senderId, m.receiverId} \subseteq Ids(Keys) /\ m.orderId \in S
ReviewOfSet(r, id) == {r.author_id, r.target_id} \subseteq Ids(Keys) /\ r.order_id = id

(* A message between two users of the set.                                   *)
LEMMA MessageEnds ==
    ASSUME NEW from \in Ids(Keys), NEW to \in Ids(Keys), NEW kind, NEW s, NEW id, NEW read, NEW at,
           NEW S, id \in S
    PROVE  MessageOfSet(Message(from, to, kind, s, id, read, at), S)
BY DEF Message, MessageOfSet

LEMMA SaysEnds ==
    ASSUME NEW from \in Ids(Keys), NEW to \in Ids(Keys), NEW id, NEW at, NEW S, id \in S
    PROVE  MessageOfSet(Says(from, to, id, at), S)
BY MessageEnds DEF Says

(* The messages about an order are between two users of the set.             *)
LEMMA MessagesOfOrder ==
    ASSUME SeedParameters, NEW i \in Numbers(AllOrders), NEW o, o = AllOrders[i], NEW id
    PROVE  \A m \in OrderMessages(o, id) : MessageOfSet(m, {id, Null})
<1> USE PerformerOfSet
<1>1. ASSUME NEW j \in Numbers(o.responses), NEW m \in ResponseMessages(o, id, j)
      PROVE  MessageOfSet(m, {id, Null})
  <2>1. IdOf(o.responses[j][1]) \in Ids(Keys) /\ IdOf(o.owner) \in Ids(Keys)
    OBVIOUS
  <2> QED BY <2>1, MessageEnds, SaysEnds DEF ResponseMessages
<1>2. ASSUME NEW m \in CancelMessages(o, id)
      PROVE  MessageOfSet(m, {id, Null})
  <2>1. Accepted(o) # {}
    BY DEF CancelMessages
  <2>2. PerformerOf(o) \in Ids(Keys) /\ IdOf(o.owner) \in Ids(Keys)
    BY <2>1
  <2> QED BY <2>2, MessageEnds, SaysEnds DEF CancelMessages
<1>3. ASSUME NEW m \in DeliveryMessages(o, id)
      PROVE  MessageOfSet(m, {id, Null})
  <2>1. Accepted(o) # {}
    BY DEF DeliveryMessages
  <2>2. PerformerOf(o) \in Ids(Keys) /\ IdOf(o.owner) \in Ids(Keys)
    BY <2>1
  <2>3. PICK j \in Accepted(o) :
           m \in {Message(PerformerOf(o), IdOf(o.owner), "delivery", "accepted", id, TRUE, DeliveredAt(o, j)),
                  Says(PerformerOf(o), IdOf(o.owner), Null, CompletedAt(o, j))}
    BY DEF DeliveryMessages
  <2>4. CASE m = Message(PerformerOf(o), IdOf(o.owner), "delivery", "accepted", id, TRUE, DeliveredAt(o, j))
    BY <2>2, <2>4 DEF MessageOfSet, Message
  <2>5. CASE m = Says(PerformerOf(o), IdOf(o.owner), Null, CompletedAt(o, j))
    BY <2>2, <2>5, SaysEnds
  <2> QED BY <2>3, <2>4, <2>5
<1>4. ASSUME NEW m \in OrderMessages(o, id)
      PROVE  \/ \E j \in Numbers(o.responses) : m \in ResponseMessages(o, id, j)
             \/ m \in CancelMessages(o, id) \/ m \in DeliveryMessages(o, id)
  <2> DEFINE R == {ResponseMessages(o, id, j) : j \in Numbers(o.responses)}
  <2>1. m \in (UNION R) \union CancelMessages(o, id) \union DeliveryMessages(o, id)
    BY DEF OrderMessages
  <2>2. \A S \in R : \E j \in Numbers(o.responses) : S = ResponseMessages(o, id, j)
    OBVIOUS
  <2> HIDE DEF R
  <2> QED BY <2>1, <2>2
<1> QED BY <1>1, <1>2, <1>3, <1>4

(* The reviews of an order are between two users of the set.                 *)
LEMMA ReviewsOfOrder ==
    ASSUME SeedParameters, NEW i \in Numbers(AllOrders), NEW o, o = AllOrders[i], NEW id
    PROVE  \A r \in SeedReviews(o, id) : ReviewOfSet(r, id)
<1> SUFFICES ASSUME NEW r \in SeedReviews(o, id)
             PROVE  ReviewOfSet(r, id)
  OBVIOUS
<1>1. StatusOf(o) = "completed"
  BY DEF SeedReviews
<1>2. PerformerOf(o) \in Ids(Keys) /\ IdOf(o.owner) \in Ids(Keys)
  BY <1>1, PerformerOfSet
<1> QED BY <1>2 DEF SeedReviews, ReviewOfSet

(***************************************************************************)
(* What the script knows of the real documents                             *)
(***************************************************************************)

(* The next record is one of the list that the script goes through.          *)
InLists ==
    /\ n \in Nat \ {0} /\ run \in Nat /\ stops \in Nat
    /\ pc \in {"users", "ratings", "counters"} => n <= Len(USERS)
    /\ pc = "portfolios" => n <= Len(PORTFOLIOS)
    /\ pc = "orders"     => n <= Len(AllOrders)
    /\ pc = "suggests"   => n <= Len(SUGGESTS)
    /\ pc = "dialogs"    => n <= Len(DIALOGS)

RealSafe ==
    /\ Real \subseteq DOMAIN users /\ found.users \intersect Real = {}
    /\ HostOrder \in DOMAIN orders /\ HostOrder \notin found.orders
    /\ orders[HostOrder].user_id = Host
    /\ \A o \in DOMAIN orders : /\ {"user_id", "response_count", "draft"} \subseteq DOMAIN orders[o]
                                /\ orders[o].user_id \in Real => o = HostOrder
    /\ \A m \in messages : {m.senderId, m.receiverId} \subseteq Real => m.orderId \in {HostOrder, Null}
    /\ \A r \in reviews : {r.author_id, r.target_id} \subseteq Real => r.order_id \in {HostOrder, Null}

ScriptInv == InLists /\ RealSafe

(* Every step leaves the script at a record of a list.                       *)
LEMMA ListStep ==
    ASSUME SeedParameters, InLists, [SeedNext]_seedVars
    PROVE  InLists'
<1>1. \A k \in {Len(USERS), Len(PORTFOLIOS), Len(AllOrders), Len(SUGGESTS), Len(DIALOGS)} :
        k \in Nat /\ 1 <= k
  BY DEF SeedParameters, Closed
<1>2. CASE Begin(TRUE) \/ Begin(FALSE) \/ Find \/ DeleteReviews \/ Stop
  BY <1>2 DEF InLists, Begin, Find, DeleteReviews, Stop
<1>3. ASSUME NEW d \in Deletes, Delete(d)
      PROVE  InLists'
  BY <1>3 DEF InLists, Delete
<1>4. CASE DeleteFiles
  BY <1>1, <1>4 DEF InLists, DeleteFiles
<1>5. CASE CreateUser
  BY <1>1, <1>5 DEF InLists, CreateUser, Pass
<1>6. CASE CreatePortfolio
  BY <1>1, <1>6 DEF InLists, CreatePortfolio, Pass
<1>7. CASE CreateOrder
  BY <1>1, <1>7 DEF InLists, CreateOrder, Pass
<1>8. CASE Recalculate
  BY <1>1, <1>8 DEF InLists, Recalculate, Pass
<1>9. CASE Suggest
  BY <1>1, <1>9 DEF InLists, Suggest, Pass
<1>10. CASE Talk
  BY <1>1, <1>10 DEF InLists, Talk, Pass
<1>11. CASE CountOrders
  BY <1>1, <1>11 DEF InLists, CountOrders, Pass
<1>12. CASE UNCHANGED script
  BY <1>12 DEF InLists, script
<1> QED BY <1>2, <1>3, <1>4, <1>5, <1>6, <1>7, <1>8, <1>9, <1>10, <1>11, <1>12
        DEF SeedNext, Script, Site, Respond, seedVars

(***************************************************************************)
(* The real documents, one action after the other                          *)
(***************************************************************************)
\* What a step must do for the real documents: nothing.
Untouched == RealSafe' /\ RealDocs' = RealDocs

(* A step that writes nothing.                                               *)
LEMMA DataStill ==
    ASSUME RealSafe, UNCHANGED data, found' = found \/ found' = [users |-> {}, orders |-> {}]
    PROVE  Untouched
BY DEF RealSafe, data, Untouched, RealDocs

(* What clear() finds is not real.                                           *)
LEMMA FindSafe ==
    ASSUME SeedParameters, ScriptInv, Find
    PROVE  Untouched
<1>1. found'.users = DOMAIN users \ Real /\ HostOrder \notin found'.orders
  BY KeysApart DEF Find, TestUsers, ScriptInv, InLists, RealSafe
<1>2. RealSafe'
  BY <1>1 DEF Find, ScriptInv, RealSafe, data
<1> QED BY <1>2 DEF Find, Untouched, RealDocs, data

LEMMA DeleteReviewsSafe ==
    ASSUME SeedParameters, ScriptInv, DeleteReviews
    PROVE  Untouched
<1>1. RealSafe'
  BY DEF DeleteReviews, ScriptInv, RealSafe
<1>2. {r \in reviews' : {r.author_id, r.target_id} \subseteq Real}
      = {r \in reviews : {r.author_id, r.target_id} \subseteq Real}
  BY DEF DeleteReviews, ScriptInv, RealSafe
<1> QED BY <1>1, <1>2 DEF DeleteReviews, Untouched, RealDocs

(* The five deletes name users that were found.                              *)
LEMMA DeleteSafe ==
    ASSUME SeedParameters, ScriptInv, NEW d \in Deletes, Delete(d)
    PROVE  Untouched
<1>1. DeleteMany(d) /\ found' = found /\ reviews' = reviews /\ files' = files
  BY DEF Delete
<1>2. Host \in Real /\ Visitor \in Real
  BY DEF Real
<1>3. /\ Real \subseteq DOMAIN users /\ DOMAIN users' \subseteq DOMAIN users
      /\ Real \subseteq DOMAIN users'
      /\ \A u \in Real : users'[u] = users[u]
  BY <1>1 DEF DeleteMany, Drop, ScriptInv, RealSafe
<1>4. /\ DOMAIN orders' \subseteq DOMAIN orders /\ HostOrder \in DOMAIN orders'
      /\ \A o \in DOMAIN orders' : orders'[o] = orders[o]
  BY <1>1, <1>2 DEF DeleteMany, Drop, ScriptInv, RealSafe
<1>5. messages' \subseteq messages
  BY <1>1 DEF DeleteMany
<1>6. RealSafe'
  BY <1>1, <1>3, <1>4, <1>5 DEF ScriptInv, RealSafe
<1>7. [u \in Real |-> users'[u]] = [u \in Real |-> users[u]] /\ orders'[HostOrder] = orders[HostOrder]
  BY <1>3, <1>4
<1>8. {p \in projects' : p.user_id \in Real} = {p \in projects : p.user_id \in Real}
  BY <1>1 DEF DeleteMany, ScriptInv, RealSafe
<1>9. {r \in responses' : r.order_id = HostOrder /\ r.user_id \in Real}
      = {r \in responses : r.order_id = HostOrder /\ r.user_id \in Real}
  BY <1>1 DEF DeleteMany, OfFound, ScriptInv, RealSafe
<1>10. {m \in messages' : {m.senderId, m.receiverId} \subseteq Real}
       = {m \in messages : {m.senderId, m.receiverId} \subseteq Real}
  BY <1>1 DEF DeleteMany, ScriptInv, RealSafe
<1> QED BY <1>1, <1>6, <1>7, <1>8, <1>9, <1>10 DEF Untouched, RealDocs

LEMMA DeleteFilesSafe ==
    ASSUME SeedParameters, ScriptInv, DeleteFiles
    PROVE  Untouched
<1>1. RealSafe'
  BY DEF DeleteFiles, ScriptInv, RealSafe
<1>2. {f \in files' : f[1] = "avatars" /\ f[2] \in Real}
      = {f \in files : f[1] = "avatars" /\ f[2] \in Real}
  BY DEF DeleteFiles, Prefixed
<1> QED BY <1>1, <1>2 DEF DeleteFiles, Untouched, RealDocs

(* seed() writes documents of the set only.                                  *)
LEMMA CreateUserSafe ==
    ASSUME SeedParameters, ScriptInv, CreateUser
    PROVE  Untouched
<1>1. PICK u : u = USERS[n] /\ u.key \in Keys
  BY DEF CreateUser, ScriptInv, InLists, Keys, Numbers
<1>2. IdOf(u.key) \notin Real /\ u.key \notin Real
  BY <1>1, KeysApart DEF Ids, ScriptInv, InLists
<1>3. /\ users' = Put(users, IdOf(u.key), UserDoc(u.performer, u.avatar))
      /\ files' = files \union (IF u.avatar THEN {<<"avatars", u.key>>} ELSE {})
      /\ UNCHANGED <<found, projects, orders, responses, messages, reviews>>
  BY <1>1 DEF CreateUser
<1>4. RealSafe'
  BY <1>3 DEF Put, ScriptInv, RealSafe
<1>5. [x \in Real |-> users'[x]] = [x \in Real |-> users[x]]
  BY <1>2, <1>3 DEF Put, ScriptInv, RealSafe
<1>6. {f \in files' : f[1] = "avatars" /\ f[2] \in Real}
      = {f \in files : f[1] = "avatars" /\ f[2] \in Real}
  BY <1>2, <1>3
<1> QED BY <1>3, <1>4, <1>5, <1>6 DEF Untouched, RealDocs

LEMMA CreatePortfolioSafe ==
    ASSUME SeedParameters, ScriptInv, CreatePortfolio
    PROVE  Untouched
<1>1. PICK p : p = PORTFOLIOS[n] /\ p.owner \in Keys
  BY DEF CreatePortfolio, ScriptInv, InLists, SeedParameters, Closed, Numbers
<1>2. IdOf(p.owner) \notin Real
  BY <1>1, KeysApart DEF Ids, ScriptInv, InLists
<1> DEFINE F == {<<"files", n, j>> : j \in 1..p.images}
           x == [user_id |-> IdOf(p.owner), images |-> p.images,
                 liked_by |-> Ids(p.likedBy), viewed_by |-> Ids(p.viewedBy)]
<1>3. /\ x.user_id = IdOf(p.owner) /\ projects' = projects \union {x}
      /\ files' = files \union F /\ \A f \in F : f[1] = "files"
      /\ UNCHANGED <<found, users, orders, responses, messages, reviews>>
  BY <1>1 DEF CreatePortfolio
<1> HIDE DEF F, x
<1>4. RealSafe'
  BY <1>3 DEF ScriptInv, RealSafe
<1>5. {y \in projects' : y.user_id \in Real} = {y \in projects : y.user_id \in Real}
  BY <1>2, <1>3
<1>6. {f \in files' : f[1] = "avatars" /\ f[2] \in Real}
      = {f \in files : f[1] = "avatars" /\ f[2] \in Real}
  BY <1>3
<1> QED BY <1>3, <1>4, <1>5, <1>6 DEF Untouched, RealDocs

LEMMA CreateOrderSafe ==
    ASSUME SeedParameters, ScriptInv, CreateOrder
    PROVE  Untouched
<1>1. n \in Numbers(AllOrders) /\ n \in Nat
  BY DEF CreateOrder, ScriptInv, InLists, Numbers
<1>2. PICK o : o = AllOrders[n]
  OBVIOUS
<1> DEFINE id == IdOf(n)
<1>3. /\ orders' = Put(orders, id, OrderDoc(o))
      /\ responses' = responses \union {[order_id |-> id, user_id |-> IdOf(o.responses[i][1])] :
                                        i \in Numbers(o.responses)}
      /\ messages' = messages \union OrderMessages(o, id)
      /\ reviews' = reviews \union SeedReviews(o, id)
      /\ UNCHANGED <<found, users, projects, files>>
  BY <1>2 DEF CreateOrder
<1>4. id # HostOrder /\ IdOf(o.owner) \notin Real /\ Host \in Real /\ Ids(Keys) \intersect Real = {}
  BY <1>1, <1>2, KeysApart, PerformerOfSet DEF ScriptInv, InLists
<1>5. \A m \in OrderMessages(o, id) : ~({m.senderId, m.receiverId} \subseteq Real)
  BY <1>1, <1>2, <1>4, MessagesOfOrder DEF MessageOfSet
<1>6. \A r \in SeedReviews(o, id) : ~({r.author_id, r.target_id} \subseteq Real)
  BY <1>1, <1>2, <1>4, ReviewsOfOrder DEF ReviewOfSet
<1>7. /\ OrderDoc(o).user_id = IdOf(o.owner)
      /\ {"user_id", "response_count", "draft"} \subseteq DOMAIN OrderDoc(o)
  BY DEF OrderDoc
<1> HIDE DEF id
<1>8. /\ HostOrder \in DOMAIN orders' /\ orders'[HostOrder] = orders[HostOrder]
      /\ \A x \in DOMAIN orders' : x = id \/ (x \in DOMAIN orders /\ orders'[x] = orders[x])
      /\ orders'[id] = OrderDoc(o)
  BY <1>3, <1>4 DEF Put, ScriptInv, RealSafe
<1>9. RealSafe'
  <2>1. \A x \in DOMAIN orders' : /\ {"user_id", "response_count", "draft"} \subseteq DOMAIN orders'[x]
                                  /\ orders'[x].user_id \in Real => x = HostOrder
    BY <1>4, <1>7, <1>8 DEF ScriptInv, RealSafe
  <2>2. \A m \in messages' : {m.senderId, m.receiverId} \subseteq Real => m.orderId \in {HostOrder, Null}
    BY <1>3, <1>5 DEF ScriptInv, RealSafe
  <2>3. \A r \in reviews' : {r.author_id, r.target_id} \subseteq Real => r.order_id \in {HostOrder, Null}
    BY <1>3, <1>6 DEF ScriptInv, RealSafe
  <2> QED BY <1>3, <1>8, <2>1, <2>2, <2>3 DEF ScriptInv, RealSafe
<1>10. {r \in responses' : r.order_id = HostOrder /\ r.user_id \in Real}
       = {r \in responses : r.order_id = HostOrder /\ r.user_id \in Real}
  BY <1>3, <1>4
<1>11. {m \in messages' : {m.senderId, m.receiverId} \subseteq Real}
       = {m \in messages : {m.senderId, m.receiverId} \subseteq Real}
  BY <1>3, <1>5
<1>12. {r \in reviews' : {r.author_id, r.target_id} \subseteq Real}
       = {r \in reviews : {r.author_id, r.target_id} \subseteq Real}
  BY <1>3, <1>6
<1> QED BY <1>3, <1>8, <1>9, <1>10, <1>11, <1>12 DEF Untouched, RealDocs

(* A step that writes into one document of a user of the set.                *)
LEMMA UserSafe ==
    ASSUME RealSafe, NEW u, u \notin Real, DOMAIN users' = DOMAIN users,
           \A v \in DOMAIN users : v # u => users'[v] = users[v],
           UNCHANGED <<found, projects, orders, responses, messages, reviews, files>>
    PROVE  Untouched
<1>1. [x \in Real |-> users'[x]] = [x \in Real |-> users[x]]
  BY DEF RealSafe
<1> QED BY <1>1 DEF RealSafe, Untouched, RealDocs

LEMMA RecountSafe ==
    ASSUME SeedParameters, ScriptInv, Recalculate \/ CountOrders
    PROVE  Untouched
<1>1. PICK u : u = IdOf(USERS[n].key) /\ u \notin Real
  <2>1. USERS[n].key \in Keys
    BY DEF Recalculate, CountOrders, ScriptInv, InLists, Keys, Numbers
  <2> QED BY <2>1, KeysApart DEF Ids, ScriptInv, InLists
<1>2. /\ DOMAIN users' = DOMAIN users
      /\ \A v \in DOMAIN users : v # u => users'[v] = users[v]
      /\ UNCHANGED <<found, projects, orders, responses, messages, reviews, files>>
  BY <1>1 DEF Recalculate, CountOrders
<1> QED BY <1>1, <1>2, UserSafe DEF ScriptInv

(* A step that adds messages of the users of the set.                        *)
LEMMA MessagesSafe ==
    ASSUME SeedParameters, ScriptInv, NEW M, messages' = messages \union M,
           \A m \in M : ~({m.senderId, m.receiverId} \subseteq Real),
           UNCHANGED <<found, users, projects, orders, responses, reviews, files>>
    PROVE  Untouched
<1>1. RealSafe'
  BY DEF ScriptInv, RealSafe
<1>2. {m \in messages' : {m.senderId, m.receiverId} \subseteq Real}
      = {m \in messages : {m.senderId, m.receiverId} \subseteq Real}
  OBVIOUS
<1> QED BY <1>1, <1>2 DEF Untouched, RealDocs

(* The messages of one suggested order, and of one dialogue.                 *)
SuggestMessages(s) ==
    {Message(IdOf(s.from), IdOf(s.to), "suggest", IF s.outcome # "pending" THEN s.outcome ELSE Null,
             IdOf(s.order), s.outcome # "pending", -s.age)}
    \union (IF s.outcome # "pending" THEN {Says(IdOf(s.from), IdOf(s.to), Null, Hour - s.age)} ELSE {})

Other(d, key) == IF key = d.between[1] THEN d.between[2] ELSE d.between[1]

TalkMessages(d) ==
    {Message(IdOf(d.messages[i][1]), IdOf(Other(d, d.messages[i][1])), "text", Null, Null,
             ~(i = Len(d.messages) /\ d.unread), -d.messages[i][2]) : i \in Numbers(d.messages)}

LEMMA SuggestEnds ==
    ASSUME SeedParameters, NEW i \in Numbers(SUGGESTS)
    PROVE  \A m \in SuggestMessages(SUGGESTS[i]) : MessageOfSet(m, {IdOf(SUGGESTS[i].order), Null})
<1>1. IdOf(SUGGESTS[i].from) \in Ids(Keys) /\ IdOf(SUGGESTS[i].to) \in Ids(Keys)
  BY DEF SeedParameters, Closed, Ids
<1> QED BY <1>1, MessageEnds, SaysEnds DEF SuggestMessages

LEMMA TalkEnds ==
    ASSUME SeedParameters, NEW i \in Numbers(DIALOGS)
    PROVE  \A m \in TalkMessages(DIALOGS[i]) : MessageOfSet(m, {Null})
<1> SUFFICES ASSUME NEW m \in TalkMessages(DIALOGS[i])
             PROVE  MessageOfSet(m, {Null})
  OBVIOUS
<1>1. PICK d : d = DIALOGS[i]
  OBVIOUS
<1>2. PICK j \in Numbers(d.messages) :
         m = Message(IdOf(d.messages[j][1]), IdOf(Other(d, d.messages[j][1])), "text", Null, Null,
                     ~(j = Len(d.messages) /\ d.unread), -d.messages[j][2])
  BY <1>1 DEF TalkMessages
<1>3. d.messages[j][1] \in Keys /\ Other(d, d.messages[j][1]) \in Keys
  BY <1>1 DEF SeedParameters, Closed, Other
<1>4. IdOf(d.messages[j][1]) \in Ids(Keys) /\ IdOf(Other(d, d.messages[j][1])) \in Ids(Keys)
  BY <1>3 DEF Ids
<1> QED BY <1>2, <1>4, MessageEnds

LEMMA SuggestSafe ==
    ASSUME SeedParameters, ScriptInv, Suggest
    PROVE  Untouched
<1>1. messages' = messages \union SuggestMessages(SUGGESTS[n])
  BY DEF Suggest, SuggestMessages
<1>2. n \in Numbers(SUGGESTS)
  BY DEF Suggest, ScriptInv, InLists, Numbers
<1>3. \A m \in SuggestMessages(SUGGESTS[n]) : ~({m.senderId, m.receiverId} \subseteq Real)
  BY <1>2, SuggestEnds, KeysApart DEF MessageOfSet, ScriptInv, InLists
<1> QED BY <1>1, <1>3, MessagesSafe DEF Suggest

LEMMA TalkSafe ==
    ASSUME SeedParameters, ScriptInv, Talk
    PROVE  Untouched
<1>1. messages' = messages \union TalkMessages(DIALOGS[n])
  BY DEF Talk, TalkMessages, Other
<1>2. n \in Numbers(DIALOGS)
  BY DEF Talk, ScriptInv, InLists, Numbers
<1>3. \A m \in TalkMessages(DIALOGS[n]) : ~({m.senderId, m.receiverId} \subseteq Real)
  BY <1>2, TalkEnds, KeysApart DEF MessageOfSet, ScriptInv, InLists
<1> QED BY <1>1, <1>3, MessagesSafe DEF Talk

(* The site answers an order of the set, or one of the set answers a real    *)
(* order: between the two one is of the set.                                 *)
LEMMA RespondSafe ==
    ASSUME SeedParameters, ScriptInv, NEW u, NEW id, Respond(u, id),
           ~({u, orders[id].user_id} \subseteq Real), id = HostOrder => u \notin Real
    PROVE  Untouched
<1> DEFINE owner == orders[id].user_id
           m == Message(u, owner, "response", "response", id, FALSE, 0)
           x == [order_id |-> id, user_id |-> u]
           doc == [orders[id] EXCEPT !.response_count = orders[id].response_count + 1]
<1>1. /\ id \in DOMAIN orders /\ orders' = [orders EXCEPT ![id] = doc]
      /\ responses' = responses \union {x} /\ messages' = messages \union {m}
      /\ UNCHANGED <<found, users, projects, reviews, files>>
  BY DEF Respond, script
<1>2. m.senderId = u /\ m.receiverId = owner /\ x.order_id = id /\ x.user_id = u
  BY DEF Message
<1>3. /\ {"user_id", "response_count", "draft"} \subseteq DOMAIN orders[id]
      /\ DOMAIN doc = DOMAIN orders[id]
      /\ \A f \in DOMAIN doc : f # "response_count" => doc[f] = orders[id][f]
      /\ doc.user_id = orders[id].user_id
      /\ [doc EXCEPT !.response_count = 0] = [orders[id] EXCEPT !.response_count = 0]
  BY <1>1 DEF ScriptInv, RealSafe
<1> HIDE DEF m, x, doc
<1>4. /\ DOMAIN orders' = DOMAIN orders /\ orders'[id] = doc
      /\ \A o \in DOMAIN orders : o # id => orders'[o] = orders[o]
  BY <1>1
<1>5. RealSafe'
  <2>1. \A o \in DOMAIN orders' : /\ {"user_id", "response_count", "draft"} \subseteq DOMAIN orders'[o]
                                  /\ orders'[o].user_id = orders[o].user_id
    BY <1>3, <1>4 DEF ScriptInv, RealSafe
  <2>2. \A y \in messages' : {y.senderId, y.receiverId} \subseteq Real => y.orderId \in {HostOrder, Null}
    BY <1>1, <1>2 DEF ScriptInv, RealSafe
  <2> QED BY <1>1, <1>4, <2>1, <2>2 DEF ScriptInv, RealSafe
<1>6. [orders'[HostOrder] EXCEPT !.response_count = 0] = [orders[HostOrder] EXCEPT !.response_count = 0]
  BY <1>3, <1>4 DEF ScriptInv, RealSafe
<1>7. {r \in responses' : r.order_id = HostOrder /\ r.user_id \in Real}
      = {r \in responses : r.order_id = HostOrder /\ r.user_id \in Real}
  BY <1>1, <1>2
<1>8. {y \in messages' : {y.senderId, y.receiverId} \subseteq Real}
      = {y \in messages : {y.senderId, y.receiverId} \subseteq Real}
  BY <1>1, <1>2
<1> QED BY <1>1, <1>5, <1>6, <1>7, <1>8 DEF Untouched, RealDocs

(* The site in use.                                                          *)
LEMMA SiteSafe ==
    ASSUME SeedParameters, ScriptInv, Site
    PROVE  Untouched
<1>1. ASSUME NEW id \in DOMAIN orders \ {HostOrder}, Respond(Visitor, id)
      PROVE  Untouched
  <2>1. orders[id].user_id \notin Real
    BY DEF ScriptInv, RealSafe
  <2> QED BY <1>1, <2>1, RespondSafe
<1>2. ASSUME NEW u \in TestUsers, Respond(u, HostOrder)
      PROVE  Untouched
  BY <1>2, RespondSafe DEF TestUsers
<1> QED BY <1>1, <1>2 DEF Site

(* The real documents before the first run.                                  *)
LEMMA InitSafe ==
    ASSUME SeedParameters, SeedInit
    PROVE  ScriptInv
<1>1. InLists
  BY DEF SeedInit, InLists
<1> DEFINE doc == NewOrder(Host)
<1>3. doc.user_id = Host /\ DOMAIN doc = {"user_id", "performer", "status", "draft", "is_active",
                                         "response_count", "completed_at"}
  BY DEF NewOrder
<1> HIDE DEF doc
<1>4. /\ DOMAIN orders = {HostOrder} /\ orders[HostOrder].user_id = Host
      /\ {"user_id", "response_count", "draft"} \subseteq DOMAIN orders[HostOrder]
  BY <1>3 DEF SeedInit, doc
<1>5. DOMAIN users = Real /\ found = [users |-> {}, orders |-> {}]
  BY DEF SeedInit
<1>6. messages = {Message(Visitor, Host, "response", "response", HostOrder, TRUE, 0)}
  BY DEF SeedInit
<1>7. \A m \in messages : m.orderId = HostOrder
  BY <1>6 DEF Message
<1>8. \A r \in reviews : r.order_id = Null
  BY DEF SeedInit
<1> QED BY <1>1, <1>4, <1>5, <1>7, <1>8 DEF ScriptInv, RealSafe

(* No step touches a real document.                                          *)
LEMMA EveryStepSafe ==
    ASSUME SeedParameters, ScriptInv, [SeedNext]_seedVars
    PROVE  ScriptInv' /\ RealDocs' = RealDocs
<1>1. InLists'
  BY ListStep DEF ScriptInv
<1>2. ASSUME Begin(TRUE) \/ Begin(FALSE) \/ Stop \/ UNCHANGED seedVars
      PROVE  Untouched
  BY <1>2, DataStill DEF Begin, Stop, seedVars, script, ScriptInv
<1>3. ASSUME Recalculate \/ CountOrders
      PROVE  Untouched
  BY <1>3, RecountSafe
<1>4. Untouched
  BY <1>2, <1>3, FindSafe, DeleteReviewsSafe, DeleteSafe, DeleteFilesSafe, CreateUserSafe,
     CreatePortfolioSafe, CreateOrderSafe, SuggestSafe, TalkSafe, SiteSafe DEF SeedNext, Script
<1> QED BY <1>1, <1>4 DEF Untouched, ScriptInv

(***************************************************************************)
(* The set as a whole                                                      *)
(***************************************************************************)
\* Nothing names a user, or an order, who is not there.
Owned ==
    /\ \A o \in DOMAIN orders : orders[o].user_id \in DOMAIN users
    /\ \A p \in projects  : p.user_id \in DOMAIN users
    /\ \A r \in responses : r.user_id \in DOMAIN users /\ r.order_id \in DOMAIN orders \union {Null}
    /\ \A m \in messages  : {m.senderId, m.receiverId} \subseteq DOMAIN users
    /\ \A r \in reviews   : {r.author_id, r.target_id} \subseteq DOMAIN users

\* What is left of S where the delete d is still to come.
Remains(d, S) == {x \in S : d \in left}

\* clear() between its five deletes.
Deleting ==
    /\ left \subseteq Deletes /\ left # {}
    /\ DOMAIN users  = Real \union Remains("users", found.users)
    /\ DOMAIN orders = {HostOrder} \union Remains("orders", found.orders)
    /\ \A o \in DOMAIN orders : orders[o].user_id \in Real \union found.users
    /\ \A p \in projects  : p.user_id \in Real \union Remains("projects", found.users)
    /\ \A r \in responses : /\ r.user_id \in Real \union Remains("responses", found.users)
                            /\ r.order_id \in {HostOrder, Null} \union Remains("responses", found.orders)
    /\ \A m \in messages  : {m.senderId, m.receiverId} \subseteq Real \union Remains("messages", found.users)
    /\ \A r \in reviews   : {r.author_id, r.target_id} \subseteq Real

\* The real documents and nothing else.
Bare == DOMAIN users = Real /\ DOMAIN orders = {HostOrder} /\ Owned

\* seed() has written what its later records name.
Making == {"users", "portfolios", "orders", "ratings", "suggests", "dialogs", "counters"}
Made ==
    /\ pc = "users" => \A i \in 1..(n - 1) : IdOf(USERS[i].key) \in DOMAIN users
    /\ pc \in Making \ {"users"} => Ids(Keys) \subseteq DOMAIN users
    /\ pc = "orders" => \A i \in 1..(n - 1) : IdOf(i) \in DOMAIN orders
    /\ pc \in {"ratings", "suggests", "dialogs", "counters"} => Ids(Numbers(AllOrders)) \subseteq DOMAIN orders

(* What is in the database at each stage of the script.                      *)
Stages ==
    /\ pc \in {"idle", "find", "reviews", "delete", "files"} \union Making
    /\ pc # "idle" => ~torn /\ ~ready
    /\ pc = "idle" /\ ~torn => Owned
    /\ pc = "idle" /\ (ready \/ (clearOnly /\ stops = 0)) => OneSet
    /\ pc \in {"find", "reviews"} => Owned
    /\ pc = "reviews" => found.users = TestUsers /\ found.orders = TestOrders
    /\ pc = "delete" => Deleting
    /\ pc = "files" => Bare
    /\ pc \in Making => ~clearOnly /\ OneSet /\ Made

(* A whole set is one that names nobody who is gone.                         *)
LEMMA SetOwned == OneSet => Owned
BY DEF OneSet, Owned

\* What a run of the script that is not stopped says of its end.
Marked == ~torn' /\ (ready' => pc = "counters" /\ pc' = "idle")

(* A step of the script that is not a stop.                                  *)
LEMMA MarkedScript ==
    ASSUME MCNext, Stages, pc # "idle", stops' = stops
    PROVE  Marked
<1>1. ~torn /\ ~ready
  BY DEF Stages
<1>2. ~torn'
  BY <1>1 DEF MCNext
<1>3. ready' => pc = "counters" /\ pc' = "idle"
  BY <1>1 DEF MCNext
<1> QED BY <1>2, <1>3 DEF Marked

(* A run starts; no run follows a stop that tore the deletes.                *)
LEMMA StagesBegin ==
    ASSUME Stages, MCNext, run \in Nat, NEW only, Begin(only)
    PROVE  Stages'
<1>1. run' # run /\ pc = "idle" /\ pc' = "find" /\ stops' = stops /\ UNCHANGED data
  BY DEF Begin
<1>2. ~torn
  BY <1>1 DEF MCNext
<1>3. ~torn' /\ ~ready'
  BY <1>1, <1>2 DEF MCNext
<1>4. Owned'
  BY <1>1, <1>2 DEF Stages, Owned, data
<1> QED BY <1>1, <1>3, <1>4 DEF Stages, Making

(* clear() finds every user of the set, and every order of the set.          *)
LEMMA StagesFind ==
    ASSUME RealSafe, Stages, Marked, Find, Host \in Real
    PROVE  Stages'
<1>1. Owned /\ pc = "find" /\ pc' = "reviews" /\ UNCHANGED <<clearOnly, stops, data>>
  BY DEF Find, Stages
<1>2. Owned'
  BY <1>1 DEF Owned, data
<1>3. found'.users = TestUsers /\ found'.orders = {o \in DOMAIN orders : orders[o].user_id \in TestUsers}
  BY DEF Find
<1>4. found'.orders = TestOrders
  BY <1>1, <1>3 DEF TestUsers, TestOrders, Owned, RealSafe
<1>5. TestUsers' = TestUsers /\ TestOrders' = TestOrders
  BY <1>1 DEF TestUsers, TestOrders, data
<1> QED BY <1>1, <1>2, <1>3, <1>4, <1>5 DEF Stages, Marked, Making

(* The reviews go first.                                                     *)
LEMMA StagesReviews ==
    ASSUME RealSafe, Stages, Marked, DeleteReviews
    PROVE  Stages'
<1>1. /\ Owned /\ pc = "reviews" /\ pc' = "delete" /\ left' = Deletes
      /\ found.users = TestUsers /\ found.orders = TestOrders
      /\ UNCHANGED <<clearOnly, found, stops, users, projects, orders, responses, messages>>
      /\ reviews' = {r \in reviews : {r.author_id, r.target_id} \intersect found.users = {}}
  BY DEF DeleteReviews, Stages
<1>2. /\ \A d \in Deletes : \A S : Remains(d, S)' = S'
      /\ Deletes # {}
  BY <1>1 DEF Remains, Deletes
<1>3. /\ Real \union found.users = DOMAIN users
      /\ {HostOrder} \union found.orders = DOMAIN orders
  BY <1>1 DEF TestUsers, TestOrders, RealSafe
<1>4. \A r \in reviews' : {r.author_id, r.target_id} \subseteq Real
  BY <1>1 DEF Owned, TestUsers
<1>5. /\ left' \subseteq Deletes /\ left' # {}
      /\ \A d \in Deletes : Remains(d, found.users)' = found.users /\ Remains(d, found.orders)' = found.orders
  BY <1>1, <1>2
<1>6. /\ Real \union found.users = DOMAIN users' /\ {HostOrder} \union found.orders = DOMAIN orders'
      /\ found' = found
  BY <1>1, <1>3
<1>7. /\ \A o \in DOMAIN orders' : orders'[o].user_id \in DOMAIN users'
      /\ \A p \in projects'  : p.user_id \in DOMAIN users'
      /\ \A r \in responses' : r.user_id \in DOMAIN users' /\ r.order_id \in DOMAIN orders' \union {Null}
      /\ \A m \in messages'  : {m.senderId, m.receiverId} \subseteq DOMAIN users'
  BY <1>1 DEF Owned
<1>8. Deleting'
  BY <1>4, <1>5, <1>6, <1>7 DEF Deleting, Deletes
<1> QED BY <1>1, <1>8 DEF Stages, Marked, Making

(* One of the five deletes: the last of them leaves the real documents only. *)
LEMMA DeletingStep ==
    ASSUME RealSafe, Deleting, NEW d \in left, DeleteMany(d), left' = left \ {d},
           UNCHANGED <<found, reviews>>
    PROVE  /\ left' # {} => Deleting'
           /\ left' = {} => Bare'
<1>1. /\ \A e, S : Remains(e, S)' = {x \in S' : e \in left'}
      /\ \A e : e # d => \A S : {x \in S : e \in left'} = Remains(e, S)
      /\ \A S : {x \in S : d \in left'} = {}
      /\ \A S : Remains(d, S) = S
  BY DEF Remains
<1>2. DOMAIN users' = Real \union {x \in found.users : "users" \in left'}
  <2>1. CASE d = "users"
    BY <1>1, <2>1 DEF DeleteMany, Drop, Deleting, RealSafe
  <2>2. CASE d # "users"
    BY <1>1, <2>2 DEF DeleteMany, Deleting
  <2> QED BY <2>1, <2>2
<1>3. /\ DOMAIN orders' = {HostOrder} \union {x \in found.orders : "orders" \in left'}
      /\ \A o \in DOMAIN orders' : orders'[o].user_id \in Real \union found.users
      /\ left' = {} => \A o \in DOMAIN orders' : orders'[o].user_id \in Real
  <2>1. CASE d = "orders"
    <3>1. DOMAIN orders' = DOMAIN orders \ {o \in DOMAIN orders : orders[o].user_id \in found.users}
      BY <2>1 DEF DeleteMany, Drop
    <3>2. \A o \in DOMAIN orders' : orders'[o] = orders[o]
      BY <2>1 DEF DeleteMany, Drop
    <3>3. \A o \in DOMAIN orders' : orders'[o].user_id \in Real
      BY <3>1, <3>2 DEF Deleting
    <3>4. DOMAIN orders' = {HostOrder}
      BY <3>1, <3>2, <3>3 DEF RealSafe, Real
    <3> QED BY <1>1, <2>1, <3>3, <3>4
  <2>2. CASE d # "orders"
    <3>1. orders' = orders
      BY <2>2 DEF DeleteMany
    <3>2. DOMAIN orders = {HostOrder} \union {x \in found.orders : "orders" \in left'}
      BY <1>1, <2>2 DEF Deleting
    <3>3. left' = {} => DOMAIN orders = {HostOrder}
      BY <3>2
    <3> QED BY <3>1, <3>2, <3>3 DEF Deleting, RealSafe, Real
  <2> QED BY <2>1, <2>2
<1>4. \A p \in projects' : p.user_id \in Real \union {x \in found.users : "projects" \in left'}
  <2>1. CASE d = "projects"
    BY <1>1, <2>1 DEF DeleteMany, Deleting
  <2>2. CASE d # "projects"
    BY <1>1, <2>2 DEF DeleteMany, Deleting
  <2> QED BY <2>1, <2>2
<1>5. \A r \in responses' :
         /\ r.user_id \in Real \union {x \in found.users : "responses" \in left'}
         /\ r.order_id \in {HostOrder, Null} \union {x \in found.orders : "responses" \in left'}
  <2>1. CASE d = "responses"
    BY <1>1, <2>1 DEF DeleteMany, OfFound, Deleting
  <2>2. CASE d # "responses"
    <3>1. responses' = responses
      BY <2>2 DEF DeleteMany
    <3>2. /\ Remains("responses", found.users) = {x \in found.users : "responses" \in left'}
          /\ Remains("responses", found.orders) = {x \in found.orders : "responses" \in left'}
      BY <1>1, <2>2
    <3> QED BY <3>1, <3>2 DEF Deleting
  <2> QED BY <2>1, <2>2
<1>6. \A m \in messages' :
         {m.senderId, m.receiverId} \subseteq Real \union {x \in found.users : "messages" \in left'}
  <2>1. CASE d = "messages"
    BY <1>1, <2>1 DEF DeleteMany, Deleting
  <2>2. CASE d # "messages"
    <3>1. messages' = messages
      BY <2>2 DEF DeleteMany
    <3>2. Remains("messages", found.users) = {x \in found.users : "messages" \in left'}
      BY <1>1, <2>2
    <3> QED BY <3>1, <3>2 DEF Deleting
  <2> QED BY <2>1, <2>2
<1>7. ASSUME left' # {}
      PROVE  Deleting'
  BY <1>1, <1>2, <1>3, <1>4, <1>5, <1>6, <1>7 DEF Deleting
<1>8. ASSUME left' = {}
      PROVE  Bare'
  <2>1. \A e, S : {x \in S : e \in left'} = {}
    BY <1>8
  <2>2. DOMAIN users' = Real /\ DOMAIN orders' = {HostOrder}
    BY <1>2, <1>3, <2>1
  <2> QED BY <1>3, <1>4, <1>5, <1>6, <1>8, <2>1, <2>2 DEF Bare, Owned, Deleting
<1> QED BY <1>7, <1>8

LEMMA StagesDelete ==
    ASSUME RealSafe, Stages, Marked, NEW d \in Deletes, Delete(d)
    PROVE  Stages'
<1>1. /\ pc = "delete" /\ Deleting /\ d \in left /\ DeleteMany(d) /\ left' = left \ {d}
      /\ pc' = IF left' = {} THEN "files" ELSE "delete"
      /\ UNCHANGED <<clearOnly, found, stops, reviews>>
  BY DEF Delete, Stages
<1>2. /\ left' # {} => Deleting'
      /\ left' = {} => Bare'
  BY <1>1, DeletingStep
<1> QED BY <1>1, <1>2 DEF Stages, Marked, Making

LEMMA StagesFiles ==
    ASSUME RealSafe, RealSafe', Stages, Marked, DeleteFiles
    PROVE  Stages'
<1>1. /\ pc = "files" /\ Bare /\ pc' = IF clearOnly THEN "idle" ELSE "users"
      /\ n' = 1
      /\ UNCHANGED <<clearOnly, stops, users, projects, orders, responses, messages, reviews>>
  BY DEF DeleteFiles, Stages
<1>2. Bare'
  BY <1>1 DEF Bare, Owned
<1>3. OneSet' /\ Owned'
  BY <1>2 DEF RealSafe, Bare, Owned, OneSet, TestUsers, Real
<1>4. pc' = "users" => Made'
  BY <1>1 DEF Made, Making
<1> QED BY <1>1, <1>3, <1>4 DEF Stages, Marked, Making

(* A stop between two deletes tears the set only if it is marked so.         *)
LEMMA StagesStop ==
    ASSUME RealSafe, Stages, MCNext, Stop, stops \in Nat
    PROVE  Stages'
<1>1. /\ pc # "idle" /\ pc' = "idle" /\ stops' = stops + 1 /\ stops' # stops /\ stops' # 0
      /\ UNCHANGED <<run, clearOnly, data>> /\ ~torn /\ ~ready
  BY DEF Stop, Stages
<1>2. ~ready'
  BY <1>1 DEF MCNext
<1>3. torn' <=> Tears
  BY <1>1 DEF MCNext
<1>4. ASSUME ~torn'
      PROVE  Owned
  <2>1. CASE pc \in {"find", "reviews", "files"}
    BY <2>1 DEF Stages, Bare
  <2>2. CASE pc \in Making
    BY <2>2, SetOwned DEF Stages
  <2>3. CASE pc = "delete"
    <3>1. Deleting /\ "users" \in left /\ ("orders" \in left \/ "responses" \notin left)
      BY <1>3, <1>4, <2>3 DEF Tears, Stages, Deleting
    <3>2. DOMAIN users = Real \union found.users
      BY <3>1 DEF Deleting, Remains
    <3>3. \A d, S : Remains(d, S) \subseteq S
      BY DEF Remains
    <3>4. \A r \in responses : r.order_id \in DOMAIN orders \union {Null}
      BY <3>1, <3>3 DEF Deleting, Remains
    <3>5. \A d : Remains(d, found.users) \subseteq found.users
      BY <3>3
    <3>6. \A o \in DOMAIN orders : orders[o].user_id \in DOMAIN users
      BY <3>1, <3>2 DEF Deleting
    <3>7. \A p \in projects : p.user_id \in DOMAIN users
      BY <3>1, <3>2, <3>5 DEF Deleting
    <3>8. \A r \in responses : r.user_id \in DOMAIN users
      BY <3>1, <3>2, <3>5 DEF Deleting
    <3>9. \A m \in messages : {m.senderId, m.receiverId} \subseteq DOMAIN users
      BY <3>1, <3>2, <3>5 DEF Deleting
    <3>10. \A r \in reviews : {r.author_id, r.target_id} \subseteq DOMAIN users
      BY <3>1, <3>2 DEF Deleting
    <3> QED BY <3>4, <3>6, <3>7, <3>8, <3>9, <3>10 DEF Owned
  <2> QED BY <1>1, <2>1, <2>2, <2>3 DEF Stages
<1>5. ~torn' => Owned'
  BY <1>1, <1>4 DEF Owned, data
<1> QED BY <1>1, <1>2, <1>5 DEF Stages, Making

(* A step of seed() keeps what is there and adds what is there whole.        *)
LEMMA SetGrows ==
    ASSUME RealSafe, OneSet, run' = run,
           \A u \in DOMAIN users' \ DOMAIN users : u \notin Real => u[2] = run,
           DOMAIN users \subseteq DOMAIN users', DOMAIN orders \subseteq DOMAIN orders',
           \A o \in DOMAIN orders' : \/ o \in DOMAIN orders /\ orders'[o].user_id = orders[o].user_id
                                    \/ orders'[o].user_id \in DOMAIN users',
           \A p \in projects' \ projects : p.user_id \in DOMAIN users',
           \A r \in responses' \ responses :
               r.user_id \in DOMAIN users' /\ r.order_id \in DOMAIN orders' \union {Null},
           \A m \in messages' \ messages : /\ {m.senderId, m.receiverId} \subseteq DOMAIN users'
                                            /\ m.orderId \in DOMAIN orders' \union {Null},
           \A r \in reviews' \ reviews : /\ {r.author_id, r.target_id} \subseteq DOMAIN users'
                                          /\ r.order_id \in DOMAIN orders' \union {Null}
    PROVE  OneSet'
<1> DEFINE AllIds == DOMAIN orders \union {Null}
<1>1. AllIds \subseteq DOMAIN orders' \union {Null}
  OBVIOUS
<1>2. \A u \in TestUsers' : u[2] = run'
  BY DEF OneSet, TestUsers
<1>3. \A o \in DOMAIN orders' : orders'[o].user_id \in DOMAIN users'
  BY DEF OneSet
<1>4. \A p \in projects' : p.user_id \in DOMAIN users'
  BY DEF OneSet
<1>5. \A r \in responses' : r.user_id \in DOMAIN users' /\ r.order_id \in DOMAIN orders' \union {Null}
  BY <1>1 DEF OneSet
<1>6. \A m \in messages' : /\ {m.senderId, m.receiverId} \subseteq DOMAIN users'
                           /\ m.orderId \in DOMAIN orders' \union {Null}
  BY <1>1 DEF OneSet
<1>7. \A r \in reviews' : /\ {r.author_id, r.target_id} \subseteq DOMAIN users'
                          /\ r.order_id \in DOMAIN orders' \union {Null}
  BY <1>1 DEF OneSet
<1> QED BY <1>2, <1>3, <1>4, <1>5, <1>6, <1>7 DEF OneSet

(* A record of the set is written and the set is whole so far.               *)
LEMMA StagesMaking ==
    ASSUME Stages, Marked, pc \in Making, pc' \in Making, OneSet', Made', clearOnly' = clearOnly
    PROVE  Stages'
BY DEF Stages, Marked, Making

LEMMA SetCreateUser ==
    ASSUME SeedParameters, ScriptInv, Stages, Marked, CreateUser
    PROVE  Stages'
<1>1. PICK u : u = USERS[n] /\ u.key \in Keys
  BY DEF CreateUser, ScriptInv, InLists, Keys, Numbers
<1>2. /\ pc = "users" /\ run' = run /\ clearOnly' = clearOnly
      /\ users' = Put(users, IdOf(u.key), UserDoc(u.performer, u.avatar))
      /\ UNCHANGED <<projects, orders, responses, messages, reviews>>
      /\ IF n < Len(USERS) THEN n' = n + 1 /\ pc' = pc ELSE n' = 1 /\ pc' = "portfolios"
  BY <1>1 DEF CreateUser, Pass
<1>3. OneSet /\ Made /\ n \in Nat /\ n <= Len(USERS) /\ RealSafe
  BY <1>2 DEF Stages, Making, ScriptInv, InLists
<1>4. DOMAIN users' = DOMAIN users \union {IdOf(u.key)} /\ IdOf(u.key)[2] = run
  BY <1>2 DEF Put, IdOf
<1>5. OneSet'
  BY <1>2, <1>3, <1>4, SetGrows DEF OneSet
<1>6. \A i \in 1..n : IdOf(USERS[i].key) \in DOMAIN users'
  <2>1. \A i \in 1..(n - 1) : IdOf(USERS[i].key) \in DOMAIN users
    BY <1>2, <1>3 DEF Made
  <2> QED BY <1>1, <1>3, <1>4, <2>1
<1>7. \A k : IdOf(k)' = IdOf(k)
  BY <1>2 DEF IdOf
<1>8. CASE n < Len(USERS)
  <2>1. Made'
    BY <1>2, <1>3, <1>6, <1>7, <1>8 DEF Made, Making
  <2> QED BY <1>2, <1>5, <1>8, <2>1, StagesMaking DEF Making
<1>9. CASE ~(n < Len(USERS))
  <2>1. n = Len(USERS)
    BY <1>3, <1>9 DEF SeedParameters, Closed
  <2>2. Ids(Keys)' \subseteq DOMAIN users'
    BY <1>6, <1>7, <2>1 DEF Ids, Keys, Numbers
  <2>3. Made'
    BY <1>2, <1>9, <2>2 DEF Made, Making
  <2> QED BY <1>2, <1>5, <1>9, <2>3, StagesMaking DEF Making
<1> QED BY <1>8, <1>9

LEMMA SetCreatePortfolio ==
    ASSUME SeedParameters, ScriptInv, Stages, Marked, CreatePortfolio
    PROVE  Stages'
<1>1. PICK p : p = PORTFOLIOS[n] /\ p.owner \in Keys
  BY DEF CreatePortfolio, ScriptInv, InLists, SeedParameters, Closed, Numbers
<1> DEFINE x == [user_id |-> IdOf(p.owner), images |-> p.images,
                 liked_by |-> Ids(p.likedBy), viewed_by |-> Ids(p.viewedBy)]
<1>2. /\ pc = "portfolios" /\ run' = run /\ clearOnly' = clearOnly
      /\ projects' = projects \union {x} /\ x.user_id = IdOf(p.owner)
      /\ UNCHANGED <<users, orders, responses, messages, reviews>>
      /\ IF n < Len(PORTFOLIOS) THEN n' = n + 1 /\ pc' = pc ELSE n' = 1 /\ pc' = "orders"
  BY <1>1 DEF CreatePortfolio, Pass
<1> HIDE DEF x
<1>3. OneSet /\ Ids(Keys) \subseteq DOMAIN users /\ RealSafe
  BY <1>2 DEF Stages, Making, Made, ScriptInv
<1>4. IdOf(p.owner) \in DOMAIN users
  BY <1>1, <1>3 DEF Ids
<1>5. OneSet'
  BY <1>2, <1>3, <1>4, SetGrows DEF OneSet
<1>6. Ids(Keys)' = Ids(Keys)
  BY <1>2 DEF Ids, IdOf
<1>7. pc' \in {"portfolios", "orders"} /\ (pc' = "orders" => n' = 1)
  BY <1>2
<1>8. Made'
  BY <1>2, <1>3, <1>6, <1>7 DEF Made, Making
<1> QED BY <1>2, <1>5, <1>7, <1>8, StagesMaking DEF Making

LEMMA SetCreateOrder ==
    ASSUME SeedParameters, ScriptInv, Stages, Marked, CreateOrder
    PROVE  Stages'
<1>1. n \in Numbers(AllOrders) /\ n \in Nat
  BY DEF CreateOrder, ScriptInv, InLists, Numbers
<1>2. PICK o : o = AllOrders[n]
  OBVIOUS
<1> DEFINE id == IdOf(n)
           R  == {[order_id |-> id, user_id |-> IdOf(o.responses[i][1])] : i \in Numbers(o.responses)}
<1>3. /\ orders' = Put(orders, id, OrderDoc(o))
      /\ responses' = responses \union R
      /\ messages' = messages \union OrderMessages(o, id)
      /\ reviews' = reviews \union SeedReviews(o, id)
      /\ pc = "orders" /\ run' = run /\ clearOnly' = clearOnly
      /\ UNCHANGED <<users, projects>>
      /\ IF n < Len(AllOrders) THEN n' = n + 1 /\ pc' = pc ELSE n' = 1 /\ pc' = "ratings"
  BY <1>2 DEF CreateOrder, Pass
<1>4. OneSet /\ Made /\ Ids(Keys) \subseteq DOMAIN users /\ RealSafe
  BY <1>3 DEF Stages, Making, Made, ScriptInv
<1>5. \A m \in OrderMessages(o, id) : {m.senderId, m.receiverId} \subseteq DOMAIN users /\ m.orderId \in {id, Null}
  BY <1>1, <1>2, <1>4, MessagesOfOrder DEF MessageOfSet
<1>6. \A r \in SeedReviews(o, id) : {r.author_id, r.target_id} \subseteq DOMAIN users /\ r.order_id = id
  BY <1>1, <1>2, <1>4, ReviewsOfOrder DEF ReviewOfSet
<1>7. \A r \in R : r.user_id \in DOMAIN users /\ r.order_id = id
  BY <1>1, <1>2, <1>4, PerformerOfSet
<1>8. OrderDoc(o).user_id \in DOMAIN users
  BY <1>1, <1>2, <1>4, PerformerOfSet DEF OrderDoc
<1>9. \A k : IdOf(k)' = IdOf(k)
  BY <1>3 DEF IdOf
<1> HIDE DEF id, R
<1>10. /\ DOMAIN orders' = DOMAIN orders \union {id} /\ orders'[id] = OrderDoc(o)
       /\ \A x \in DOMAIN orders : x # id => orders'[x] = orders[x]
  BY <1>3 DEF Put
<1>11. OneSet'
  BY <1>3, <1>4, <1>5, <1>6, <1>7, <1>8, <1>10, SetGrows
<1>12. \A i \in 1..n : IdOf(i) \in DOMAIN orders'
  <2>1. \A i \in 1..(n - 1) : IdOf(i) \in DOMAIN orders
    BY <1>3, <1>4 DEF Made
  <2> QED BY <1>1, <1>10, <2>1 DEF id
<1>13. Ids(Keys)' \subseteq DOMAIN users'
  BY <1>3, <1>4, <1>9 DEF Ids
<1>14. CASE n < Len(AllOrders)
  <2>1. Made'
    BY <1>1, <1>3, <1>9, <1>12, <1>13, <1>14 DEF Made, Making
  <2> QED BY <1>3, <1>11, <1>14, <2>1, StagesMaking DEF Making
<1>15. CASE ~(n < Len(AllOrders))
  <2>1. n = Len(AllOrders)
    BY <1>1, <1>15 DEF Numbers, SeedParameters, Closed
  <2>2. Ids(Numbers(AllOrders))' \subseteq DOMAIN orders'
    BY <1>9, <1>12, <2>1 DEF Ids, Numbers
  <2>3. Made'
    BY <1>3, <1>13, <1>15, <2>2 DEF Made, Making
  <2> QED BY <1>3, <1>11, <1>15, <2>3, StagesMaking DEF Making
<1> QED BY <1>14, <1>15

(* The later steps of seed() make no user and no order.                      *)
LEMMA SetLater ==
    ASSUME Stages, Marked, pc \in {"ratings", "suggests", "dialogs", "counters"},
           pc' \in {"ratings", "suggests", "dialogs", "counters", "idle"},
           OneSet', UNCHANGED <<run, clearOnly, orders>>, DOMAIN users' = DOMAIN users
    PROVE  Stages'
<1>1. Made /\ ~torn' /\ (pc' # "idle" => ~ready')
  BY DEF Stages, Making, Marked
<1>2. Ids(Keys)' = Ids(Keys) /\ Ids(Numbers(AllOrders))' = Ids(Numbers(AllOrders))
  BY DEF Ids, IdOf
<1>3. CASE pc' = "idle"
  <2>1. Owned'
    BY DEF OneSet, Owned
  <2> QED BY <1>1, <1>3, <2>1 DEF Stages, Making
<1>4. CASE pc' # "idle"
  <2>1. Made'
    BY <1>1, <1>2, <1>4 DEF Made, Making
  <2> QED BY <1>1, <1>4, <2>1, StagesMaking DEF Making
<1> QED BY <1>3, <1>4

LEMMA SetRecount ==
    ASSUME SeedParameters, ScriptInv, Stages, Marked, Recalculate \/ CountOrders
    PROVE  Stages'
<1>1. /\ pc \in {"ratings", "counters"} /\ pc' \in {"ratings", "counters", "suggests", "idle"}
      /\ DOMAIN users' = DOMAIN users
      /\ UNCHANGED <<run, clearOnly, projects, orders, responses, messages, reviews>>
  BY DEF Recalculate, CountOrders, Pass
<1>2. OneSet
  BY <1>1 DEF Stages, Making
<1>3. OneSet'
  BY <1>1, <1>2 DEF OneSet, TestUsers
<1> QED BY <1>1, <1>3, SetLater

LEMMA SetSuggest ==
    ASSUME SeedParameters, ScriptInv, Stages, Marked, Suggest
    PROVE  Stages'
<1>1. messages' = messages \union SuggestMessages(SUGGESTS[n])
  BY DEF Suggest, SuggestMessages
<1>2. n \in Numbers(SUGGESTS)
  BY DEF Suggest, ScriptInv, InLists, Numbers
<1>3. /\ pc = "suggests" /\ pc' \in {"suggests", "dialogs"}
      /\ UNCHANGED <<run, clearOnly, users, projects, orders, responses, reviews>>
  BY DEF Suggest, Pass
<1>4. /\ OneSet /\ Ids(Keys) \subseteq DOMAIN users
      /\ Ids(Numbers(AllOrders)) \subseteq DOMAIN orders /\ RealSafe
  BY <1>3 DEF Stages, Making, Made, ScriptInv
<1>5. IdOf(SUGGESTS[n].order) \in DOMAIN orders
  BY <1>2, <1>4 DEF SeedParameters, Closed, Ids
<1>6. \A m \in SuggestMessages(SUGGESTS[n]) : /\ {m.senderId, m.receiverId} \subseteq DOMAIN users
                                              /\ m.orderId \in DOMAIN orders \union {Null}
  BY <1>2, <1>4, <1>5, SuggestEnds DEF MessageOfSet
<1>7. OneSet'
  BY <1>1, <1>3, <1>4, <1>6, SetGrows DEF OneSet
<1> QED BY <1>3, <1>7, SetLater

LEMMA SetTalk ==
    ASSUME SeedParameters, ScriptInv, Stages, Marked, Talk
    PROVE  Stages'
<1>1. messages' = messages \union TalkMessages(DIALOGS[n])
  BY DEF Talk, TalkMessages, Other
<1>2. n \in Numbers(DIALOGS)
  BY DEF Talk, ScriptInv, InLists, Numbers
<1>3. /\ pc = "dialogs" /\ pc' \in {"dialogs", "counters"}
      /\ UNCHANGED <<run, clearOnly, users, projects, orders, responses, reviews>>
  BY DEF Talk, Pass
<1>4. OneSet /\ Ids(Keys) \subseteq DOMAIN users /\ RealSafe
  BY <1>3 DEF Stages, Making, Made, ScriptInv
<1>5. \A m \in TalkMessages(DIALOGS[n]) : {m.senderId, m.receiverId} \subseteq DOMAIN users /\ m.orderId = Null
  BY <1>2, <1>4, TalkEnds DEF MessageOfSet
<1>6. OneSet'
  BY <1>1, <1>3, <1>4, <1>5, SetGrows DEF OneSet
<1> QED BY <1>3, <1>6, SetLater

(* The site in use between two runs.                                         *)
LEMMA StagesRespond ==
    ASSUME RealSafe, Stages, MCNext, pc = "idle", NEW u, NEW id, Respond(u, id)
    PROVE  Stages'
<1> DEFINE m == Message(u, orders[id].user_id, "response", "response", id, FALSE, 0)
           x == [order_id |-> id, user_id |-> u]
<1>1. /\ id \in DOMAIN orders /\ u \in DOMAIN users
      /\ orders' = [orders EXCEPT ![id].response_count = orders[id].response_count + 1]
      /\ responses' = responses \union {x} /\ messages' = messages \union {m}
      /\ UNCHANGED <<script, users, projects, reviews, files>>
  BY DEF Respond
<1>2. /\ m.senderId = u /\ m.receiverId = orders[id].user_id /\ m.orderId = id
      /\ x.order_id = id /\ x.user_id = u
  BY DEF Message
<1> HIDE DEF m, x
<1>3. /\ DOMAIN orders' = DOMAIN orders
      /\ \A o \in DOMAIN orders : orders'[o].user_id = orders[o].user_id
  BY <1>1 DEF RealSafe
<1>4. pc' = "idle" /\ (torn' <=> torn) /\ (ready' <=> ready) /\ clearOnly' = clearOnly /\ stops' = stops
      /\ run' = run
  BY <1>1 DEF MCNext, script
<1>5. Owned => Owned'
  BY <1>1, <1>2, <1>3 DEF Owned
<1>6. OneSet => OneSet'
  <2>1. OneSet => orders[id].user_id \in DOMAIN users
    BY <1>1 DEF OneSet
  <2>2. TestUsers' = TestUsers
    BY <1>1 DEF TestUsers
  <2> QED BY <1>1, <1>2, <1>3, <1>4, <2>1, <2>2 DEF OneSet
<1> QED BY <1>4, <1>5, <1>6 DEF Stages, Making

(* The database before the first run.                                        *)
LEMMA StagesInit ==
    ASSUME SeedParameters, MCInit
    PROVE  Stages
<1>1. /\ pc = "idle" /\ ~ready /\ ~torn /\ ~clearOnly
      /\ DOMAIN users = Real /\ DOMAIN orders = {HostOrder}
      /\ \A p \in projects : p.user_id = Visitor
      /\ \A r \in responses : r.user_id = Visitor /\ r.order_id = HostOrder
      /\ \A r \in reviews : r.author_id = Host /\ r.target_id = Visitor
  BY DEF MCInit, SeedInit
<1>2. messages = {Message(Visitor, Host, "response", "response", HostOrder, TRUE, 0)}
  BY DEF MCInit, SeedInit
<1>3. \A m \in messages : m.senderId = Visitor /\ m.receiverId = Host
  BY <1>2 DEF Message
<1>4. orders[HostOrder].user_id = Host
  BY InitSafe DEF MCInit, ScriptInv, RealSafe
<1>5. Owned
  BY <1>1, <1>3, <1>4 DEF Owned, Real
<1> QED BY <1>1, <1>5 DEF Stages, Making

(* Every step keeps the stages.                                              *)
LEMMA StagesStep ==
    ASSUME SeedParameters, ScriptInv, ScriptInv', Stages, [MCNext]_<<seedVars, ready, torn>>
    PROVE  Stages'
<1>1. CASE UNCHANGED <<seedVars, ready, torn>>
  <2>1. /\ Owned' = Owned /\ OneSet' = OneSet /\ Bare' = Bare /\ Deleting' = Deleting /\ Made' = Made
        /\ TestUsers' = TestUsers /\ TestOrders' = TestOrders
    BY <1>1 DEF seedVars, script, data, Owned, OneSet, Bare, Deleting, Remains, Made, TestUsers, TestOrders,
                Ids, IdOf
  <2> QED BY <1>1, <2>1 DEF Stages, seedVars, script, data
<1>2. ASSUME MCNext, Begin(TRUE) \/ Begin(FALSE) \/ Stop
      PROVE  Stages'
  BY <1>2, StagesBegin, StagesStop DEF ScriptInv, InLists
<1>3. ASSUME MCNext, NEW u, NEW id, pc = "idle", Respond(u, id)
      PROVE  Stages'
  BY <1>3, StagesRespond DEF ScriptInv
<1>4. ASSUME MCNext, ~(Begin(TRUE) \/ Begin(FALSE) \/ Stop), Script
      PROVE  Stages'
  <2>1. pc # "idle" /\ stops' = stops
    BY <1>4 DEF Script, Find, DeleteReviews, Delete, DeleteFiles, CreateUser, CreatePortfolio,
                CreateOrder, Recalculate, Suggest, Talk, CountOrders
  <2>2. Marked
    BY <1>4, <2>1, MarkedScript
  <2>3. Host \in Real
    BY DEF Real
  <2> QED BY <1>4, <2>2, <2>3, StagesFind, StagesReviews, StagesDelete, StagesFiles, SetCreateUser,
             SetCreatePortfolio, SetCreateOrder, SetRecount, SetSuggest, SetTalk DEF Script, ScriptInv
<1> QED BY <1>1, <1>2, <1>3, <1>4 DEF MCNext

(***************************************************************************)
(* The steps that MCSeed allows are steps of Seed                           *)
(***************************************************************************)
IsList(s) == \E S : s \in Seq(S)

(* A list begins with the elements of its first part.                        *)
LEMMA FirstPart ==
    ASSUME NEW s, NEW r, IsList(s), IsList(r), NEW i \in 1..Len(s)
    PROVE  IsList(s \o r) /\ i \in 1..Len(s \o r) /\ (s \o r)[i] = s[i]
<1>1. PICK S, T : s \in Seq(S) /\ r \in Seq(T)
  BY DEF IsList
<1>2. s \in Seq(S \union T) /\ r \in Seq(S \union T)
  BY <1>1
<1>3. s \o r \in Seq(S \union T) /\ i \in 1..Len(s \o r) /\ (s \o r)[i] = s[i]
  BY <1>2
<1> QED BY <1>3 DEF IsList

(* The lists of users are short.                                            *)
LEMMA Two   == ASSUME NEW a, NEW b PROVE IsList(<<a, b>>)
<1>1. <<a, b>> \in Seq({a, b})
  OBVIOUS
<1> QED BY <1>1 DEF IsList

LEMMA Four  == ASSUME NEW a, NEW b, NEW c, NEW d PROVE IsList(<<a, b, c, d>>)
<1>1. <<a, b, c, d>> \in Seq({a, b, c, d})
  OBVIOUS
<1> QED BY <1>1 DEF IsList

LEMMA Six   == ASSUME NEW a, NEW b, NEW c, NEW d, NEW e, NEW f PROVE IsList(<<a, b, c, d, e, f>>)
<1>1. <<a, b, c, d, e, f>> \in Seq({a, b, c, d, e, f})
  OBVIOUS
<1> QED BY <1>1 DEF IsList

LEMMA Eight == ASSUME NEW a, NEW b, NEW c, NEW d, NEW e, NEW f, NEW g, NEW h
               PROVE  IsList(<<a, b, c, d, e, f, g, h>>) /\ 4 \in 1..Len(<<a, b, c, d, e, f, g, h>>)
<1>1. <<a, b, c, d, e, f, g, h>> \in Seq({a, b, c, d, e, f, g, h})
  OBVIOUS
<1>2. 4 \in 1..Len(<<a, b, c, d, e, f, g, h>>)
  OBVIOUS
<1>3. IsList(<<a, b, c, d, e, f, g, h>>)
  BY <1>1 DEF IsList
<1> QED BY <1>2, <1>3

(* The performer who answers the real order is one of the set.               *)
LEMMA AnswererInSet == Answers \in Keys
<1>1. Performers[4].key = "katya"
  BY DEF Performers, SeedUser
<1>2. IsList(Performers) /\ 4 \in 1..Len(Performers)
  BY Eight, Zenon DEF Performers
<1>3. IsList(Customers)
  BY Four, Zenon DEF Customers
<1>4. IsList(OnsitePerformers)
  BY Six, Zenon DEF OnsitePerformers
<1>5. IsList(Experienced)
  BY Six, Zenon DEF Experienced
<1>6. IsList(NearlyEmpty)
  BY Two, Zenon DEF NearlyEmpty
<1> DEFINE A == Performers \o Customers
           B == A \o OnsitePerformers
           C == B \o Experienced
<1>7. IsList(A) /\ 4 \in 1..Len(A) /\ A[4] = Performers[4]
  BY <1>2, <1>3, FirstPart
<1> HIDE DEF A
<1>8. IsList(B) /\ 4 \in 1..Len(B) /\ B[4] = A[4]
  BY <1>4, <1>7, FirstPart
<1> HIDE DEF B
<1>9. IsList(C) /\ 4 \in 1..Len(C) /\ C[4] = B[4]
  BY <1>5, <1>8, FirstPart
<1> HIDE DEF C
<1>10. 4 \in 1..Len(C \o NearlyEmpty) /\ (C \o NearlyEmpty)[4] = C[4]
  BY <1>6, <1>9, FirstPart
<1>11. USERS = C \o NearlyEmpty
  BY DEF USERS, C, B, A
<1> QED BY <1>1, <1>7, <1>8, <1>9, <1>10, <1>11 DEF Answers, Keys, Numbers

(* The steps that MCSeed allows are steps of the script or of the site.      *)
LEMMA UsedSteps ==
    ASSUME SeedParameters, ScriptInv, [MCNext]_<<seedVars, ready, torn>>
    PROVE  [SeedNext]_seedVars
<1>1. ASSUME Respond(Visitor, <<Noticed, run>>)
      PROVE  SeedNext
  <2>1. <<Noticed, run>> \in DOMAIN orders \ {HostOrder}
    BY <1>1, KeysApart DEF Respond, Noticed, IdOf, ScriptInv, InLists
  <2> QED BY <1>1, <2>1 DEF SeedNext, Site
<1>2. ASSUME Respond(<<Answers, run>>, HostOrder)
      PROVE  SeedNext
  <2>1. <<Answers, run>> \in DOMAIN users \ Real
    BY <1>2, KeysApart, AnswererInSet DEF Respond, Ids, IdOf, ScriptInv, InLists
  <2> QED BY <1>2, <2>1 DEF SeedNext, Site, TestUsers
<1> QED BY <1>1, <1>2 DEF MCNext, SeedNext, seedVars

(* "Real data in the same base is not touched" (seed.ts): no step of any run *)
(* of the script, whole or stopped, changes a document of a user who is not  *)
(* of the set, whether the site is used between the runs as in MCSeed or by  *)
(* anybody at any time.                                                      *)
THEOREM RealStays == (SeedSpec => RealKept) /\ (MCSpec => RealKept)
<1> USE SeedAssumption
<1>1. SeedInit => ScriptInv
  BY InitSafe
<1>2. ScriptInv /\ [SeedNext]_seedVars => ScriptInv' /\ [RealDocs' = RealDocs]_seedVars
  BY EveryStepSafe
<1>3. MCInit => SeedInit
  BY DEF MCInit
<1>4. ScriptInv /\ [MCNext]_<<seedVars, ready, torn>> => [SeedNext]_seedVars
  BY UsedSteps
<1> QED BY <1>1, <1>2, <1>3, <1>4, PTL DEF SeedSpec, MCSpec, RealKept

(* A run that came to its end leaves the set once, whole, and nothing of an  *)
(* earlier run: clear() finds everything unless a stop tore its deletes.     *)
THEOREM Once == MCSpec => []SetOnce
<1> USE SeedAssumption
<1>1. MCInit => ScriptInv /\ Stages
  BY InitSafe, StagesInit DEF MCInit
<1>2. ScriptInv /\ Stages /\ [MCNext]_<<seedVars, ready, torn>> => (ScriptInv /\ Stages)'
  <2> SUFFICES ASSUME ScriptInv, Stages, [MCNext]_<<seedVars, ready, torn>>
               PROVE  (ScriptInv /\ Stages)'
    OBVIOUS
  <2>1. ScriptInv'
    BY UsedSteps, EveryStepSafe
  <2> QED BY <2>1, StagesStep
<1>3. Stages => SetOnce
  BY DEF Stages, SetOnce, Making
<1> QED BY <1>1, <1>2, <1>3, PTL DEF MCSpec

(***************************************************************************)
(* What a whole set says                                                   *)
(***************************************************************************)
\* A set is being written, or stands whole.
Fresh == pc \in Making \/ ready

\* The records that each list of steps is through with.
DoneUsers  == IF pc = "users" THEN 1..(n - 1) ELSE Numbers(USERS)
DoneOrders == IF pc \in {"users", "portfolios"} THEN {}
              ELSE IF pc = "orders" THEN 1..(n - 1) ELSE Numbers(AllOrders)
RatedUsers == IF pc \in {"users", "portfolios", "orders"} THEN {}
              ELSE IF pc = "ratings" THEN 1..(n - 1) ELSE Numbers(USERS)
CountedUsers == IF pc = "idle" THEN Numbers(USERS)
                ELSE IF pc = "counters" THEN 1..(n - 1) ELSE {}

NameOf(i) == IdOf(USERS[i].key)

\* The users of the set are those of its list.
UsersTrue ==
    /\ TestUsers = {NameOf(i) : i \in DoneUsers}
    /\ \A i \in DoneUsers :
          /\ DOMAIN users[NameOf(i)] = DOMAIN UserDoc(TRUE, TRUE)
          /\ users[NameOf(i)].is_verified = TRUE
          /\ users[NameOf(i)].is_performer = USERS[i].performer

\* An order of the set is as its record says, the count of its responses aside.
SameDeal(d, e) == DOMAIN d = DOMAIN e /\ \A f \in DOMAIN e \ {"response_count"} : d[f] = e[f]
OrdersTrue ==
    /\ TestOrders = Ids(DoneOrders)
    /\ \A k \in DoneOrders : SameDeal(orders[IdOf(k)], OrderDoc(AllOrders[k]))

\* The responses to an order of the set are counted on it; none is its owner's.
AnswersTo(id) == {r \in responses : r.order_id = id}
AnswersTrue == \A k \in DoneOrders :
    /\ IsFiniteSet(AnswersTo(IdOf(k)))
    /\ orders[IdOf(k)].response_count = Cardinality(AnswersTo(IdOf(k)))
    /\ \A r \in AnswersTo(IdOf(k)) : r.user_id # IdOf(AllOrders[k].owner)

\* The reviews are real ones and those of the records.
ReviewsTrue ==
    /\ \A k \in DoneOrders : SeedReviews(AllOrders[k], IdOf(k)) \subseteq reviews
    /\ \A r \in reviews : \/ {r.author_id, r.target_id} \subseteq Real
                            \/ \E k \in DoneOrders : r \in SeedReviews(AllOrders[k], IdOf(k))

\* So are the proposals to cancel, the deliveries and the suggestions.
CardsTrue ==
    /\ \A k \in DoneOrders : OrderMessages(AllOrders[k], IdOf(k)) \subseteq messages
    /\ \A m \in messages : m.kind \in {"cancel", "delivery"} =>
          \E k \in DoneOrders : m \in OrderMessages(AllOrders[k], IdOf(k))
    /\ \A m \in messages : m.kind = "suggest" =>
          \E i \in Numbers(SUGGESTS) : m \in SuggestMessages(SUGGESTS[i])

\* The counters of a user are those of the documents.
UserRated(u) ==
    /\ users[u].rating = Tenths(Marks(u, "performer"))
    /\ users[u].reviews_count = Cardinality(Marks(u, "performer"))
    /\ users[u].customer_rating = Tenths(Marks(u, "customer"))
    /\ users[u].customer_reviews_count = Cardinality(Marks(u, "customer"))
OwnOrders(u) == {o \in DOMAIN orders : orders[o].user_id = u /\ ~orders[o].draft}
RatingsTrue == \A i \in RatedUsers : UserRated(NameOf(i))
CountsTrue  == \A i \in CountedUsers : users[NameOf(i)].orders_count = Cardinality(OwnOrders(NameOf(i)))

\* The real messages are responses, and the real reviews are open.
RealPlain ==
    /\ \A m \in messages : {m.senderId, m.receiverId} \subseteq Real => m.kind = "response"
    /\ \A r \in reviews : {r.author_id, r.target_id} \subseteq Real => r.published

Contents == /\ UsersTrue /\ OrdersTrue /\ AnswersTrue /\ ReviewsTrue /\ CardsTrue
            /\ RatingsTrue /\ CountsTrue
Whole == Fresh => Contents

(* The steps that make a set, or find one whole.                             *)
LEMMA FreshStep ==
    ASSUME SeedParameters, ScriptInv, Stages, MCNext, Fresh'
    PROVE  \/ DeleteFiles /\ pc' = "users"
           \/ /\ pc \in Making
              /\ \/ CreateUser \/ CreatePortfolio \/ CreateOrder \/ Recalculate
                 \/ Suggest \/ Talk \/ CountOrders
           \/ /\ pc = "idle" /\ ready
              /\ \/ Respond(Visitor, <<Noticed, run>>)
                 \/ Respond(<<Answers, run>>, HostOrder)
<1>1. CASE Begin(TRUE) \/ Begin(FALSE)
  <2>1. pc = "idle" /\ pc' = "find"
    BY <1>1 DEF Begin
  <2>2. ~ready'
    BY <2>1 DEF MCNext
  <2> QED BY <2>1, <2>2 DEF Fresh, Making
<1>2. CASE Stop
  <2>1. pc # "idle" /\ pc' = "idle" /\ stops' # stops /\ ~ready
    BY <1>2 DEF Stop, ScriptInv, InLists, Stages
  <2>2. ~ready'
    BY <2>1 DEF MCNext
  <2> QED BY <2>1, <2>2 DEF Fresh, Making
<1>3. CASE Find \/ DeleteReviews \/ \E d \in Deletes : Delete(d)
  <2>1. pc # "idle" /\ pc \notin Making /\ pc' \notin Making /\ stops' = stops
    BY <1>3 DEF Find, DeleteReviews, Delete, Making
  <2>2. ~ready'
    BY <2>1, MarkedScript DEF Marked, Making
  <2> QED BY <2>1, <2>2 DEF Fresh
<1>4. CASE DeleteFiles
  <2>1. pc = "files" /\ stops' = stops /\ pc' \in {"idle", "users"}
    BY <1>4 DEF DeleteFiles
  <2>2. ~ready'
    BY <2>1, MarkedScript DEF Marked
  <2> QED BY <1>4, <2>1, <2>2 DEF Fresh, Making
<1>5. CASE CreateUser \/ CreatePortfolio \/ CreateOrder \/ Recalculate \/ Suggest \/ Talk \/ CountOrders
  BY <1>5 DEF CreateUser, CreatePortfolio, CreateOrder, Recalculate, Suggest, Talk, CountOrders, Making
<1>6. CASE pc = "idle" /\ (Respond(Visitor, <<Noticed, run>>) \/ Respond(<<Answers, run>>, HostOrder))
  <2>1. pc = "idle" /\ pc' = "idle" /\ UNCHANGED script
    BY <1>6 DEF Respond, script
  <2>2. ready' <=> ready
    <3>1. pc # "counters" /\ pc' # "find"
      BY <2>1
    <3> QED BY <3>1, Zenon DEF MCNext
  <2> QED BY <1>6, <2>1, <2>2 DEF Fresh, Making
<1> QED BY <1>1, <1>2, <1>3, <1>4, <1>5, <1>6 DEF MCNext, Script

\* The steps by what they finish.
Finished(U, O, R, C) ==
    /\ DoneUsers' = DoneUsers \union U /\ DoneOrders' = DoneOrders \union O
    /\ RatedUsers' = RatedUsers \union R /\ CountedUsers' = CountedUsers \union C

(* Each list of steps is through with one record more.                       *)
LEMMA FinishUser ==
    ASSUME SeedParameters, InLists, CreateUser
    PROVE  /\ Finished({n}, {}, {}, {}) /\ n \in Numbers(USERS) \ DoneUsers
           /\ DoneOrders = {} /\ RatedUsers = {} /\ CountedUsers = {}
           /\ DoneUsers \subseteq Numbers(USERS)
<1>1. /\ pc = "users" /\ n \in Nat \ {0} /\ n <= Len(USERS) /\ Len(USERS) \in Nat
      /\ IF n < Len(USERS) THEN n' = n + 1 /\ pc' = pc ELSE n' = 1 /\ pc' = "portfolios"
  BY DEF CreateUser, Pass, InLists, SeedParameters, Closed
<1>2. DoneUsers = 1..(n - 1) /\ DoneOrders = {} /\ RatedUsers = {} /\ CountedUsers = {}
  BY <1>1 DEF DoneUsers, DoneOrders, RatedUsers, CountedUsers
<1>3. DoneUsers' = 1..n
  <2>1. CASE n < Len(USERS)
    BY <1>1, <2>1 DEF DoneUsers
  <2>2. CASE ~(n < Len(USERS))
    BY <1>1, <2>2 DEF DoneUsers, Numbers
  <2> QED BY <2>1, <2>2
<1>4. DoneOrders' = {} /\ RatedUsers' = {} /\ CountedUsers' = {}
  BY <1>1 DEF DoneOrders, RatedUsers, CountedUsers
<1> QED BY <1>1, <1>2, <1>3, <1>4 DEF Finished, Numbers

LEMMA FinishOrder ==
    ASSUME SeedParameters, InLists, CreateOrder
    PROVE  /\ Finished({}, {n}, {}, {}) /\ n \in Numbers(AllOrders) \ DoneOrders
           /\ RatedUsers = {} /\ CountedUsers = {}
           /\ DoneUsers = Numbers(USERS) /\ DoneOrders \subseteq Nat
<1>1. /\ pc = "orders" /\ n \in Nat \ {0} /\ n <= Len(AllOrders) /\ Len(AllOrders) \in Nat
      /\ IF n < Len(AllOrders) THEN n' = n + 1 /\ pc' = pc ELSE n' = 1 /\ pc' = "ratings"
  BY DEF CreateOrder, Pass, InLists, SeedParameters, Closed
<1>2. DoneUsers = Numbers(USERS) /\ DoneOrders = 1..(n - 1) /\ RatedUsers = {} /\ CountedUsers = {}
  BY <1>1 DEF DoneUsers, DoneOrders, RatedUsers, CountedUsers
<1>3. DoneOrders' = 1..n
  <2>1. CASE n < Len(AllOrders)
    BY <1>1, <2>1 DEF DoneOrders
  <2>2. CASE ~(n < Len(AllOrders))
    BY <1>1, <2>2 DEF DoneOrders, Numbers
  <2> QED BY <2>1, <2>2
<1>4. DoneUsers' = Numbers(USERS) /\ RatedUsers' = {} /\ CountedUsers' = {}
  BY <1>1 DEF DoneUsers, RatedUsers, CountedUsers
<1> QED BY <1>1, <1>2, <1>3, <1>4 DEF Finished, Numbers

LEMMA FinishRating ==
    ASSUME SeedParameters, InLists, Recalculate
    PROVE  /\ Finished({}, {}, {n}, {}) /\ n \in Numbers(USERS)
           /\ DoneUsers = Numbers(USERS) /\ RatedUsers \subseteq Numbers(USERS) \ {n}
           /\ CountedUsers = {}
<1>1. /\ pc = "ratings" /\ n \in Nat \ {0} /\ n <= Len(USERS) /\ Len(USERS) \in Nat
      /\ IF n < Len(USERS) THEN n' = n + 1 /\ pc' = pc ELSE n' = 1 /\ pc' = "suggests"
  BY DEF Recalculate, Pass, InLists, SeedParameters, Closed
<1>2. DoneUsers = Numbers(USERS) /\ DoneOrders = Numbers(AllOrders) /\ RatedUsers = 1..(n - 1) /\ CountedUsers = {}
  BY <1>1 DEF DoneUsers, DoneOrders, RatedUsers, CountedUsers
<1>3. RatedUsers' = 1..n
  <2>1. CASE n < Len(USERS)
    BY <1>1, <2>1 DEF RatedUsers
  <2>2. CASE ~(n < Len(USERS))
    BY <1>1, <2>2 DEF RatedUsers, Numbers
  <2> QED BY <2>1, <2>2
<1>4. DoneUsers' = Numbers(USERS) /\ DoneOrders' = Numbers(AllOrders) /\ CountedUsers' = {}
  BY <1>1 DEF DoneUsers, DoneOrders, CountedUsers
<1> QED BY <1>1, <1>2, <1>3, <1>4 DEF Finished, Numbers

LEMMA FinishCount ==
    ASSUME SeedParameters, InLists, CountOrders
    PROVE  /\ Finished({}, {}, {}, {n}) /\ n \in Numbers(USERS)
           /\ DoneUsers = Numbers(USERS) /\ RatedUsers = Numbers(USERS)
           /\ CountedUsers \subseteq Numbers(USERS) \ {n}
<1>1. /\ pc = "counters" /\ n \in Nat \ {0} /\ n <= Len(USERS) /\ Len(USERS) \in Nat
      /\ IF n < Len(USERS) THEN n' = n + 1 /\ pc' = pc ELSE n' = 1 /\ pc' = "idle"
  BY DEF CountOrders, Pass, InLists, SeedParameters, Closed
<1>2. /\ DoneUsers = Numbers(USERS) /\ DoneOrders = Numbers(AllOrders)
      /\ RatedUsers = Numbers(USERS) /\ CountedUsers = 1..(n - 1)
  BY <1>1 DEF DoneUsers, DoneOrders, RatedUsers, CountedUsers
<1>3. CountedUsers' = 1..n
  <2>1. CASE n < Len(USERS)
    BY <1>1, <2>1 DEF CountedUsers
  <2>2. CASE ~(n < Len(USERS))
    BY <1>1, <2>2 DEF CountedUsers, Numbers
  <2> QED BY <2>1, <2>2
<1>4. DoneUsers' = Numbers(USERS) /\ DoneOrders' = Numbers(AllOrders) /\ RatedUsers' = Numbers(USERS)
  BY <1>1 DEF DoneUsers, DoneOrders, RatedUsers
<1> QED BY <1>1, <1>2, <1>3, <1>4 DEF Finished, Numbers

(* The portfolios, the messages and the site finish no user and no order.    *)
LEMMA FinishNothing ==
    ASSUME SeedParameters, InLists,
           \/ CreatePortfolio \/ Suggest \/ Talk
           \/ UNCHANGED script
    PROVE  Finished({}, {}, {}, {})
<1>1. CASE CreatePortfolio
  BY <1>1 DEF CreatePortfolio, Pass, Finished, DoneUsers, DoneOrders, RatedUsers, CountedUsers
<1>2. CASE Suggest
  BY <1>2 DEF Suggest, Pass, Finished, DoneUsers, DoneOrders, RatedUsers, CountedUsers
<1>3. CASE Talk
  BY <1>3 DEF Talk, Pass, Finished, DoneUsers, DoneOrders, RatedUsers, CountedUsers
<1>4. CASE UNCHANGED script
  BY <1>4 DEF script, Finished, DoneUsers, DoneOrders, RatedUsers, CountedUsers
<1> QED BY <1>1, <1>2, <1>3, <1>4

(* The users of the set, one step after the other.                           *)
LEMMA NamesApart ==
    ASSUME SeedParameters, LawfulData, run \in Nat,
           NEW i \in Numbers(USERS), NEW j \in Numbers(USERS)
    PROVE  /\ NameOf(i) = NameOf(j) => i = j
           /\ NameOf(i) \notin Real /\ NameOf(i) \in Ids(Keys)
<1>1. USERS[i].key \in Keys
  BY DEF Keys
<1>2. NameOf(i) \in Ids(Keys)
  BY <1>1 DEF NameOf, Ids
<1>3. NameOf(i) = NameOf(j) => USERS[i].key = USERS[j].key
  BY DEF NameOf, IdOf
<1> QED BY <1>2, <1>3, KeysApart DEF LawfulData, Distinct

(* A user written is as his record says; the users stay so.                  *)
LEMMA UsersCreated ==
    ASSUME SeedParameters, LawfulData, InLists, UsersTrue, CreateUser
    PROVE  UsersTrue'
<1> DEFINE u == USERS[n]
<1>1. /\ users' = Put(users, NameOf(n), UserDoc(u.performer, u.avatar)) /\ run' = run /\ run \in Nat
  BY DEF CreateUser, NameOf, InLists
<1>2. /\ n \in Numbers(USERS) \ DoneUsers /\ DoneUsers' = DoneUsers \union {n}
      /\ DoneUsers \subseteq Numbers(USERS)
  BY FinishUser DEF Finished
<1>3. \A i : NameOf(i)' = NameOf(i)
  BY <1>1 DEF NameOf, IdOf
<1>4. /\ NameOf(n) \notin Real
      /\ \A i \in DoneUsers : NameOf(i) # NameOf(n)
  BY <1>1, <1>2, NamesApart
<1>5. /\ DOMAIN users' = DOMAIN users \union {NameOf(n)}
      /\ users'[NameOf(n)] = UserDoc(u.performer, u.avatar)
      /\ \A x \in DOMAIN users : x # NameOf(n) => users'[x] = users[x]
  BY <1>1 DEF Put
<1>6. /\ DOMAIN UserDoc(u.performer, u.avatar) = DOMAIN UserDoc(TRUE, TRUE)
      /\ UserDoc(u.performer, u.avatar).is_verified = TRUE
      /\ UserDoc(u.performer, u.avatar).is_performer = u.performer
  BY DEF UserDoc
<1> HIDE DEF u
<1>7. TestUsers' = TestUsers \union {NameOf(n)}
  BY <1>4, <1>5 DEF TestUsers
<1>8. TestUsers' = {NameOf(i) : i \in DoneUsers'}
  BY <1>2, <1>7 DEF UsersTrue
<1>9. ASSUME NEW i \in DoneUsers'
      PROVE  /\ DOMAIN users'[NameOf(i)] = DOMAIN UserDoc(TRUE, TRUE)
             /\ users'[NameOf(i)].is_verified = TRUE
             /\ users'[NameOf(i)].is_performer = USERS[i].performer
  <2>1. CASE i = n
    BY <1>5, <1>6, <2>1 DEF u
  <2>2. CASE i # n
    <3>1. i \in DoneUsers /\ NameOf(i) \in DOMAIN users /\ NameOf(i) # NameOf(n)
      BY <1>2, <1>4, <2>2 DEF UsersTrue, TestUsers
    <3> QED BY <1>5, <3>1 DEF UsersTrue
  <2> QED BY <2>1, <2>2
<1> QED BY <1>3, <1>8, <1>9 DEF UsersTrue

LEMMA UsersKept ==
    ASSUME UsersTrue, NEW O, NEW R, NEW C, Finished({}, O, R, C), run' = run,
           DOMAIN users' = DOMAIN users,
           \A u \in DOMAIN users : /\ DOMAIN users'[u] = DOMAIN users[u]
                                   /\ users'[u].is_verified = users[u].is_verified
                                   /\ users'[u].is_performer = users[u].is_performer
    PROVE  UsersTrue'
<1>1. \A i : NameOf(i)' = NameOf(i)
  BY DEF NameOf, IdOf
<1>2. DoneUsers' = DoneUsers
  BY DEF Finished
<1>3. TestUsers' = TestUsers
  BY DEF TestUsers
<1>4. \A i \in DoneUsers : NameOf(i) \in DOMAIN users
  BY DEF UsersTrue, TestUsers
<1> QED BY <1>1, <1>2, <1>3, <1>4 DEF UsersTrue

(* The two steps that write into a user of the set.                          *)
LEMMA RatingWritten ==
    ASSUME SeedParameters, InLists, UsersTrue, Recalculate
    PROVE  LET u == NameOf(n)
           IN  /\ DOMAIN users' = DOMAIN users /\ u \in DOMAIN users
               /\ DOMAIN users'[u] = DOMAIN users[u]
               /\ users'[u].is_verified = users[u].is_verified
               /\ users'[u].is_performer = users[u].is_performer
               /\ users'[u].rating = Tenths(Marks(u, "performer"))
               /\ users'[u].reviews_count = Cardinality(Marks(u, "performer"))
               /\ users'[u].customer_rating = Tenths(Marks(u, "customer"))
               /\ users'[u].customer_reviews_count = Cardinality(Marks(u, "customer"))
               /\ \A v \in DOMAIN users : v # u => users'[v] = users[v]
<1> DEFINE u == NameOf(n)
           a == Tenths(Marks(u, "performer"))
           b == Cardinality(Marks(u, "performer"))
           c == Tenths(Marks(u, "customer"))
           d == Cardinality(Marks(u, "customer"))
<1>1. users' = [users EXCEPT ![u].rating = a, ![u].reviews_count = b,
                             ![u].customer_rating = c, ![u].customer_reviews_count = d]
  BY DEF Recalculate, NameOf
<1>2. u \in DOMAIN users /\ DOMAIN users[u] = DOMAIN UserDoc(TRUE, TRUE)
  BY FinishRating DEF UsersTrue, TestUsers
<1>3. DOMAIN UserDoc(TRUE, TRUE) = {"is_verified", "is_performer", "avatar", "orders_count", "rating",
                                    "reviews_count", "customer_rating", "customer_reviews_count"}
  BY DEF UserDoc
<1> HIDE DEF u, a, b, c, d
<1>4. /\ DOMAIN users' = DOMAIN users /\ DOMAIN users'[u] = DOMAIN users[u]
      /\ users'[u].is_verified = users[u].is_verified
      /\ users'[u].is_performer = users[u].is_performer
      /\ users'[u].rating = a /\ users'[u].reviews_count = b
      /\ users'[u].customer_rating = c /\ users'[u].customer_reviews_count = d
      /\ \A v \in DOMAIN users : v # u => users'[v] = users[v]
  BY <1>1, <1>2, <1>3
<1> QED BY <1>2, <1>4 DEF u, a, b, c, d

(* So is one whose orders were counted.                                      *)
LEMMA CountWritten ==
    ASSUME SeedParameters, InLists, UsersTrue, CountOrders
    PROVE  LET u == NameOf(n)
           IN  /\ DOMAIN users' = DOMAIN users /\ u \in DOMAIN users
               /\ users'[u].orders_count = Cardinality(OwnOrders(u))
               /\ DOMAIN users'[u] = DOMAIN users[u]
               /\ \A f \in DOMAIN users[u] \ {"orders_count"} : users'[u][f] = users[u][f]
               /\ \A v \in DOMAIN users : v # u => users'[v] = users[v]
<1> DEFINE u == NameOf(n)
           a == Cardinality(OwnOrders(u))
<1>1. users' = [users EXCEPT ![u].orders_count = a]
  BY DEF CountOrders, NameOf, OwnOrders
<1>2. u \in DOMAIN users /\ DOMAIN users[u] = DOMAIN UserDoc(TRUE, TRUE)
  BY FinishCount DEF UsersTrue, TestUsers
<1>3. "orders_count" \in DOMAIN UserDoc(TRUE, TRUE)
  BY DEF UserDoc
<1> HIDE DEF u, a
<1>4. /\ DOMAIN users' = DOMAIN users /\ DOMAIN users'[u] = DOMAIN users[u]
      /\ users'[u].orders_count = a
      /\ \A f \in DOMAIN users[u] \ {"orders_count"} : users'[u][f] = users[u][f]
      /\ \A v \in DOMAIN users : v # u => users'[v] = users[v]
  BY <1>1, <1>2, <1>3
<1> QED BY <1>2, <1>4 DEF u, a

(* The ratings and the counts, one step after the other.                     *)
LEMMA RatingsKept ==
    ASSUME RatingsTrue, NEW U, NEW O, NEW C, Finished(U, O, {}, C), run' = run,
           RatedUsers = {} \/ UNCHANGED reviews,
           \A i \in RatedUsers :
               /\ users'[NameOf(i)].rating = users[NameOf(i)].rating
               /\ users'[NameOf(i)].reviews_count = users[NameOf(i)].reviews_count
               /\ users'[NameOf(i)].customer_rating = users[NameOf(i)].customer_rating
               /\ users'[NameOf(i)].customer_reviews_count = users[NameOf(i)].customer_reviews_count
    PROVE  RatingsTrue'
<1>1. RatedUsers' = RatedUsers /\ \A i : NameOf(i)' = NameOf(i)
  BY DEF Finished, NameOf, IdOf
<1>2. CASE RatedUsers = {}
  BY <1>1, <1>2 DEF RatingsTrue
<1>3. CASE UNCHANGED reviews
  <2>1. \A u, role : Marks(u, role)' = Marks(u, role)
    BY <1>3 DEF Marks
  <2>2. ASSUME NEW i \in RatedUsers
        PROVE  UserRated(NameOf(i))'
    <3>1. UserRated(NameOf(i))
      BY DEF RatingsTrue
    <3> QED BY <1>1, <2>1, <3>1 DEF UserRated
  <2> QED BY <1>1, <2>2 DEF RatingsTrue
<1> QED BY <1>2, <1>3

(* A rating written is that of the reviews there are.                        *)
LEMMA RatingsWritten ==
    ASSUME SeedParameters, LawfulData, InLists, UsersTrue, RatingsTrue, Recalculate
    PROVE  RatingsTrue'
<1>1. run' = run /\ run \in Nat /\ UNCHANGED reviews
  BY DEF Recalculate, InLists
<1>2. \A i : NameOf(i)' = NameOf(i)
  BY <1>1 DEF NameOf, IdOf
<1>3. \A u, role : Marks(u, role)' = Marks(u, role)
  BY <1>1 DEF Marks
<1>4. /\ RatedUsers' = RatedUsers \union {n} /\ n \in Numbers(USERS) /\ DoneUsers = Numbers(USERS)
      /\ RatedUsers \subseteq Numbers(USERS) \ {n}
  BY FinishRating DEF Finished
<1>5. ASSUME NEW i \in RatedUsers'
      PROVE  UserRated(NameOf(i))'
  <2>1. CASE i = n
    BY <1>2, <1>3, <2>1, RatingWritten DEF UserRated
  <2>2. CASE i # n
    <3>1. UserRated(NameOf(i)) /\ i \in Numbers(USERS)
      BY <1>4, <2>2 DEF RatingsTrue
    <3>2. NameOf(i) # NameOf(n) /\ NameOf(i) \in DOMAIN users
      BY <1>1, <1>4, <2>2, <3>1, NamesApart DEF UsersTrue, TestUsers
    <3>3. users'[NameOf(i)] = users[NameOf(i)]
      BY <3>2, RatingWritten
    <3> QED BY <1>2, <1>3, <3>1, <3>3 DEF UserRated
  <2> QED BY <2>1, <2>2
<1> QED BY <1>5 DEF RatingsTrue

(* The numbers of orders already counted stay true, and one more is.         *)
LEMMA CountsKept ==
    ASSUME CountsTrue, NEW U, NEW O, NEW R, Finished(U, O, R, {}), run' = run,
           \A i \in CountedUsers : users'[NameOf(i)].orders_count = users[NameOf(i)].orders_count,
           \/ CountedUsers = {}
           \/ /\ DOMAIN orders' = DOMAIN orders
              /\ \A o \in DOMAIN orders : /\ orders'[o].user_id = orders[o].user_id
                                          /\ orders'[o].draft = orders[o].draft
    PROVE  CountsTrue'
<1>1. CountedUsers' = CountedUsers /\ \A i : NameOf(i)' = NameOf(i)
  BY DEF Finished, NameOf, IdOf
<1>2. CASE CountedUsers = {}
  BY <1>1, <1>2 DEF CountsTrue
<1>3. CASE /\ DOMAIN orders' = DOMAIN orders
           /\ \A o \in DOMAIN orders : /\ orders'[o].user_id = orders[o].user_id
                                       /\ orders'[o].draft = orders[o].draft
  <2>1. \A u : OwnOrders(u)' = OwnOrders(u)
    BY <1>3 DEF OwnOrders
  <2> QED BY <1>1, <2>1 DEF CountsTrue
<1> QED BY <1>2, <1>3

LEMMA CountsWritten ==
    ASSUME SeedParameters, LawfulData, InLists, UsersTrue, CountsTrue, CountOrders
    PROVE  CountsTrue'
<1>1. run' = run /\ run \in Nat /\ UNCHANGED orders
  BY DEF CountOrders, InLists
<1>2. \A i : NameOf(i)' = NameOf(i)
  BY <1>1 DEF NameOf, IdOf
<1>3. \A u : OwnOrders(u)' = OwnOrders(u)
  BY <1>1 DEF OwnOrders
<1>4. /\ CountedUsers' = CountedUsers \union {n} /\ n \in Numbers(USERS) /\ DoneUsers = Numbers(USERS)
      /\ CountedUsers \subseteq Numbers(USERS) \ {n}
  BY FinishCount DEF Finished
<1>5. users'[NameOf(n)].orders_count = Cardinality(OwnOrders(NameOf(n)))
  BY CountWritten
<1>6. ASSUME NEW i \in CountedUsers
      PROVE  users'[NameOf(i)].orders_count = Cardinality(OwnOrders(NameOf(i)))
  <2>1. i \in Numbers(USERS) /\ i # n
    BY <1>4
  <2>2. NameOf(i) # NameOf(n) /\ NameOf(i) \in DOMAIN users
    BY <1>1, <1>4, <2>1, NamesApart DEF UsersTrue, TestUsers
  <2>3. users'[NameOf(i)] = users[NameOf(i)]
    BY <2>2, CountWritten
  <2> QED BY <2>3 DEF CountsTrue
<1> QED BY <1>2, <1>3, <1>4, <1>5, <1>6 DEF CountsTrue

(* The orders of the set and their responses.                                *)
LEMMA RecordsStill ==
    ASSUME run' = run, NEW o, NEW id
    PROVE  /\ PerformerOf(o)' = PerformerOf(o) /\ OrderDoc(o)' = OrderDoc(o)
           /\ SeedReviews(o, id)' = SeedReviews(o, id)
           /\ OrderMessages(o, id)' = OrderMessages(o, id)
<1>1. \A k : IdOf(k)' = IdOf(k)
  BY DEF IdOf
<1>2. PerformerOf(o)' = PerformerOf(o)
  BY <1>1 DEF PerformerOf
<1>3. OrderDoc(o)' = OrderDoc(o)
  BY <1>1, <1>2 DEF OrderDoc
<1>4. SeedReviews(o, id)' = SeedReviews(o, id)
  BY <1>1, <1>2 DEF SeedReviews
<1>5. \A i : ResponseMessages(o, id, i)' = ResponseMessages(o, id, i)
  BY <1>1 DEF ResponseMessages
<1>6. CancelMessages(o, id)' = CancelMessages(o, id)
  BY <1>1, <1>2 DEF CancelMessages
<1>7. DeliveryMessages(o, id)' = DeliveryMessages(o, id)
  BY <1>1, <1>2 DEF DeliveryMessages
<1>8. OrderMessages(o, id)' = OrderMessages(o, id)
  BY <1>5, <1>6, <1>7 DEF OrderMessages
<1> QED BY <1>2, <1>3, <1>4, <1>8

(* An order written is as its record says, and stays so.                     *)
LEMMA OrdersCreated ==
    ASSUME SeedParameters, InLists, OrdersTrue, CreateOrder
    PROVE  /\ OrdersTrue'
           /\ IdOf(n) \notin DOMAIN orders \union {Null}
           /\ DOMAIN orders' = DOMAIN orders \union {IdOf(n)}
           /\ orders'[IdOf(n)] = OrderDoc(AllOrders[n])
           /\ \A x \in DOMAIN orders : orders'[x] = orders[x]
<1>1. /\ orders' = Put(orders, IdOf(n), OrderDoc(AllOrders[n]))
      /\ run' = run /\ run \in Nat /\ n \in Nat
  BY DEF CreateOrder, InLists
<1>2. DoneOrders' = DoneOrders \union {n} /\ n \notin DoneOrders /\ DoneOrders \subseteq Nat
  BY FinishOrder DEF Finished
<1>3. \A i : IdOf(i)' = IdOf(i) /\ OrderDoc(i)' = OrderDoc(i)
  BY <1>1, RecordsStill DEF IdOf
<1>4. IdOf(n) \notin {HostOrder, Null} /\ \A i \in DoneOrders : IdOf(i) # IdOf(n)
  BY <1>1, <1>2 DEF SeedParameters, Apart, IdOf
<1>5. IdOf(n) \notin DOMAIN orders
  BY <1>2, <1>4 DEF OrdersTrue, TestOrders, Ids
<1>6. /\ DOMAIN orders' = DOMAIN orders \union {IdOf(n)}
      /\ orders'[IdOf(n)] = OrderDoc(AllOrders[n])
      /\ \A x \in DOMAIN orders : orders'[x] = orders[x]
  BY <1>1, <1>5 DEF Put
<1>7. TestOrders' = TestOrders \union {IdOf(n)}
  BY <1>4, <1>6 DEF TestOrders
<1>8. Ids(DoneOrders)' = Ids(DoneOrders) \union {IdOf(n)}
  BY <1>2, <1>3 DEF Ids
<1>9. ASSUME NEW k \in DoneOrders'
      PROVE  SameDeal(orders'[IdOf(k)], OrderDoc(AllOrders[k]))
  <2>1. CASE k = n
    BY <1>6, <2>1 DEF SameDeal
  <2>2. CASE k # n
    <3>1. k \in DoneOrders /\ IdOf(k) \in DOMAIN orders
      BY <1>2, <2>2 DEF OrdersTrue, TestOrders, Ids
    <3> QED BY <1>6, <3>1 DEF OrdersTrue
  <2> QED BY <2>1, <2>2
<1>10. OrdersTrue'
  BY <1>3, <1>7, <1>8, <1>9 DEF OrdersTrue
<1> QED BY <1>4, <1>5, <1>6, <1>10

LEMMA OrdersKept ==
    ASSUME OrdersTrue, NEW U, NEW R, NEW C, Finished(U, {}, R, C), run' = run,
           DOMAIN orders' = DOMAIN orders,
           \A o \in DOMAIN orders : SameDeal(orders'[o], orders[o])
    PROVE  OrdersTrue'
<1>1. DoneOrders' = DoneOrders
  BY DEF Finished
<1>2. \A i : IdOf(i)' = IdOf(i) /\ OrderDoc(i)' = OrderDoc(i)
  BY RecordsStill DEF IdOf
<1>3. TestOrders' = TestOrders /\ Ids(DoneOrders)' = Ids(DoneOrders)
  BY <1>1, <1>2 DEF TestOrders, Ids
<1>4. ASSUME NEW k \in DoneOrders
      PROVE  SameDeal(orders'[IdOf(k)], OrderDoc(AllOrders[k]))
  <2>1. IdOf(k) \in DOMAIN orders
    BY DEF OrdersTrue, TestOrders, Ids
  <2>2. SameDeal(orders'[IdOf(k)], orders[IdOf(k)]) /\ SameDeal(orders[IdOf(k)], OrderDoc(AllOrders[k]))
    BY <2>1 DEF OrdersTrue
  <2> QED BY <2>2 DEF SameDeal
<1> QED BY <1>1, <1>2, <1>3, <1>4 DEF OrdersTrue

(* The responses of an order are counted when it is written and stay so.     *)
LEMMA AnswersCreated ==
    ASSUME SeedParameters, LawfulData, InLists, OneSet, OrdersTrue, AnswersTrue, CreateOrder
    PROVE  AnswersTrue'
<1>1. PICK o : o = AllOrders[n]
  OBVIOUS
<1>2. PICK id : id = IdOf(n)
  OBVIOUS
<1> DEFINE N == Numbers(o.responses)
           x(i) == [order_id |-> id, user_id |-> IdOf(o.responses[i][1])]
           R == {x(i) : i \in N}
           f == [i \in N |-> x(i)]
<1>3. responses' = responses \union R /\ run' = run
  BY <1>1, <1>2 DEF CreateOrder
<1>4. /\ DoneOrders' = DoneOrders \union {n} /\ n \in Numbers(AllOrders) /\ n \notin DoneOrders
      /\ DoneOrders \subseteq Nat
  BY FinishOrder DEF Finished
<1>5. /\ id \notin DOMAIN orders \union {Null} /\ orders'[id] = OrderDoc(o)
      /\ \A y \in DOMAIN orders : orders'[y] = orders[y]
  BY <1>1, <1>2, OrdersCreated
<1>6. \A i : IdOf(i)' = IdOf(i)
  BY <1>3 DEF IdOf
<1>7. LawfulSides(o)
  BY <1>1, <1>4 DEF LawfulData
<1>8. \A r \in R : r.order_id = id
  OBVIOUS
<1>9. \A r \in responses : r.order_id # id
  BY <1>5 DEF OneSet
<1>10. {r \in responses' : r.order_id = id} = R
  BY <1>3, <1>8, <1>9
<1>11. IsFiniteSet(R) /\ Cardinality(R) = Len(o.responses)
  <2>1. f \in [N -> R] /\ \A y \in R : \E i \in N : f[i] = y
    OBVIOUS
  <2>2. \A i, j \in N : f[i] = f[j] => i = j
    <3> SUFFICES ASSUME NEW i \in N, NEW j \in N, f[i] = f[j]
                 PROVE  i = j
      OBVIOUS
    <3>1. IdOf(o.responses[i][1]) = IdOf(o.responses[j][1])
      OBVIOUS
    <3>2. o.responses[i][1] = o.responses[j][1]
      BY <3>1 DEF IdOf
    <3> QED BY <1>7, <3>2 DEF LawfulSides
  <2>3. IsFiniteSet(N) /\ Cardinality(N) = Len(o.responses)
    <3>1. PICK l \in Nat : l = Len(o.responses) /\ N = 1..l
      BY <1>7 DEF LawfulSides, Numbers
    <3>2. IsFiniteSet(1..l) /\ Cardinality(1..l) = IF 1 > l THEN 0 ELSE l - 1 + 1
      BY FS_Interval
    <3> QED BY <3>1, <3>2
  <2> HIDE DEF f, R, N
  <2> QED BY <2>1, <2>2, <2>3, PairedOff
<1>12. \A r \in R : r.user_id # IdOf(o.owner)
  <2>1. \A i \in N : o.responses[i][1] # o.owner
    BY <1>7 DEF LawfulSides
  <2>2. \A i \in N : IdOf(o.responses[i][1]) # IdOf(o.owner)
    BY <2>1 DEF IdOf
  <2> QED BY <2>2
<1>13. OrderDoc(o).response_count = Len(o.responses)
  BY DEF OrderDoc
<1> HIDE DEF R, f, N
<1>14. ASSUME NEW k \in DoneOrders'
       PROVE  /\ IsFiniteSet({r \in responses' : r.order_id = IdOf(k)})
              /\ orders'[IdOf(k)].response_count = Cardinality({r \in responses' : r.order_id = IdOf(k)})
              /\ \A r \in responses' : r.order_id = IdOf(k) => r.user_id # IdOf(AllOrders[k].owner)
  <2>1. CASE k = n
    <3>1. IdOf(k) = id /\ AllOrders[k] = o
      BY <1>1, <1>2, <2>1
    <3> QED BY <1>5, <1>10, <1>11, <1>12, <1>13, <3>1
  <2>2. CASE k # n
    <3>1. k \in DoneOrders /\ IdOf(k) \in DOMAIN orders
      BY <1>4, <2>2 DEF OrdersTrue, TestOrders, Ids
    <3>2. {r \in responses' : r.order_id = IdOf(k)} = AnswersTo(IdOf(k))
      BY <1>3, <1>5, <1>8, <3>1 DEF AnswersTo
    <3>3. /\ IsFiniteSet(AnswersTo(IdOf(k)))
          /\ orders[IdOf(k)].response_count = Cardinality(AnswersTo(IdOf(k)))
          /\ \A r \in AnswersTo(IdOf(k)) : r.user_id # IdOf(AllOrders[k].owner)
      BY <3>1 DEF AnswersTrue
    <3> QED BY <1>5, <3>1, <3>2, <3>3
  <2> QED BY <2>1, <2>2
<1> QED BY <1>6, <1>14 DEF AnswersTrue, AnswersTo

LEMMA AnswersKept ==
    ASSUME AnswersTrue, NEW U, NEW R, NEW C, Finished(U, {}, R, C), UNCHANGED <<run, orders, responses>>
    PROVE  AnswersTrue'
<1>1. DoneOrders' = DoneOrders /\ \A i : IdOf(i)' = IdOf(i)
  BY DEF Finished, IdOf
<1>2. \A id : AnswersTo(id)' = AnswersTo(id)
  BY DEF AnswersTo
<1> QED BY <1>1, <1>2 DEF AnswersTrue

(* A response of the site, and what it changes.                              *)
LEMMA Responded ==
    ASSUME RealSafe, NEW u, NEW id, Respond(u, id)
    PROVE  /\ id \in DOMAIN orders /\ u # orders[id].user_id
           /\ responses' = responses \union {[order_id |-> id, user_id |-> u]}
           /\ [order_id |-> id, user_id |-> u] \notin responses
           /\ DOMAIN orders' = DOMAIN orders
           /\ orders'[id].response_count = orders[id].response_count + 1
           /\ \A o \in DOMAIN orders : SameDeal(orders'[o], orders[o])
           /\ \A o \in DOMAIN orders \ {id} : orders'[o] = orders[o]
           /\ UNCHANGED <<script, users, projects, reviews, files>>
<1> DEFINE d == orders[id].response_count + 1
<1>1. orders' = [orders EXCEPT ![id].response_count = d]
  BY DEF Respond
<1>2. id \in DOMAIN orders /\ "response_count" \in DOMAIN orders[id]
  BY DEF Respond, RealSafe
<1> HIDE DEF d
<1>3. /\ DOMAIN orders' = DOMAIN orders /\ orders'[id].response_count = d
      /\ \A o \in DOMAIN orders : SameDeal(orders'[o], orders[o])
      /\ \A o \in DOMAIN orders : o # id => orders'[o] = orders[o]
  BY <1>1, <1>2 DEF SameDeal
<1> QED BY <1>2, <1>3 DEF Respond, d

(* An answer given by the site is counted too.                               *)
LEMMA AnswersGrown ==
    ASSUME RealSafe, OrdersTrue, AnswersTrue, Finished({}, {}, {}, {}), NEW u, NEW id, Respond(u, id)
    PROVE  AnswersTrue'
<1>1. PICK x : x = [order_id |-> id, user_id |-> u]
  OBVIOUS
<1>2. x.order_id = id /\ x.user_id = u /\ responses' = responses \union {x} /\ x \notin responses
  BY <1>1, Responded
<1>3. DoneOrders' = DoneOrders /\ \A i : IdOf(i)' = IdOf(i)
  BY Responded DEF Finished, IdOf, script
<1>4. ASSUME NEW k \in DoneOrders
      PROVE  /\ IsFiniteSet({r \in responses' : r.order_id = IdOf(k)})
             /\ orders'[IdOf(k)].response_count = Cardinality({r \in responses' : r.order_id = IdOf(k)})
             /\ \A r \in responses' : r.order_id = IdOf(k) => r.user_id # IdOf(AllOrders[k].owner)
  <2>1. /\ IsFiniteSet(AnswersTo(IdOf(k)))
        /\ orders[IdOf(k)].response_count = Cardinality(AnswersTo(IdOf(k)))
        /\ \A r \in AnswersTo(IdOf(k)) : r.user_id # IdOf(AllOrders[k].owner)
    BY DEF AnswersTrue
  <2>2. IdOf(k) \in DOMAIN orders
    BY DEF OrdersTrue, TestOrders, Ids
  <2>3. CASE IdOf(k) = id
    <3>1. {r \in responses' : r.order_id = IdOf(k)} = AnswersTo(IdOf(k)) \union {x}
      BY <1>2, <2>3 DEF AnswersTo
    <3>2. x \notin AnswersTo(IdOf(k))
      BY <1>2 DEF AnswersTo
    <3>3. /\ IsFiniteSet(AnswersTo(IdOf(k)) \union {x})
          /\ Cardinality(AnswersTo(IdOf(k)) \union {x}) = Cardinality(AnswersTo(IdOf(k))) + 1
      BY <2>1, <3>2, FS_AddElement
    <3>4. orders'[IdOf(k)].response_count = orders[IdOf(k)].response_count + 1
      BY <2>3, Responded
    <3>5. orders[id].user_id = IdOf(AllOrders[k].owner)
      <4>1. SameDeal(orders[id], OrderDoc(AllOrders[k]))
        BY <2>3 DEF OrdersTrue
      <4> QED BY <4>1 DEF SameDeal, OrderDoc
    <3>6. u # IdOf(AllOrders[k].owner)
      BY <3>5, Responded
    <3>7. \A r \in responses' : r.order_id = IdOf(k) => r.user_id # IdOf(AllOrders[k].owner)
      BY <1>2, <2>1, <3>6 DEF AnswersTo
    <3> QED BY <2>1, <3>1, <3>3, <3>4, <3>7
  <2>4. CASE IdOf(k) # id
    <3>1. {r \in responses' : r.order_id = IdOf(k)} = AnswersTo(IdOf(k))
      BY <1>2, <2>4 DEF AnswersTo
    <3>2. orders'[IdOf(k)] = orders[IdOf(k)]
      <4>1. IdOf(k) \in DOMAIN orders \ {id}
        BY <2>2, <2>4
      <4> QED BY <4>1, Responded
    <3> QED BY <2>1, <3>1, <3>2
  <2> QED BY <2>3, <2>4
<1> QED BY <1>3, <1>4 DEF AnswersTrue, AnswersTo

(* The reviews and the cards of the set.                                     *)
LEMMA ReviewsCreated ==
    ASSUME SeedParameters, InLists, ReviewsTrue, CreateOrder
    PROVE  ReviewsTrue'
<1>1. run' = run /\ reviews' = reviews \union SeedReviews(AllOrders[n], IdOf(n))
  BY DEF CreateOrder
<1>2. DoneOrders' = DoneOrders \union {n}
  BY FinishOrder DEF Finished
<1>3. \A k : /\ IdOf(k)' = IdOf(k)
             /\ SeedReviews(AllOrders[k], IdOf(k))' = SeedReviews(AllOrders[k], IdOf(k))
  <2>1. \A k : IdOf(k)' = IdOf(k)
    BY <1>1 DEF IdOf
  <2>2. \A o, id : SeedReviews(o, id)' = SeedReviews(o, id)
    BY <1>1, RecordsStill
  <2> QED BY <2>1, <2>2
<1>4. ASSUME NEW k \in DoneOrders'
      PROVE  SeedReviews(AllOrders[k], IdOf(k)) \subseteq reviews'
  <2>1. k \in DoneOrders => SeedReviews(AllOrders[k], IdOf(k)) \subseteq reviews
    BY DEF ReviewsTrue
  <2> QED BY <1>1, <1>2, <2>1
<1>5. ASSUME NEW r \in reviews'
      PROVE  \/ {r.author_id, r.target_id} \subseteq Real
             \/ \E k \in DoneOrders' : r \in SeedReviews(AllOrders[k], IdOf(k))
  <2>1. CASE r \in reviews
    BY <1>2, <2>1 DEF ReviewsTrue
  <2>2. CASE r \in SeedReviews(AllOrders[n], IdOf(n))
    BY <1>2, <2>2
  <2> QED BY <1>1, <2>1, <2>2
<1> QED BY <1>3, <1>4, <1>5 DEF ReviewsTrue

(* Reviews are written with their orders only.                               *)
LEMMA ReviewsKept ==
    ASSUME ReviewsTrue, NEW U, NEW R, NEW C, Finished(U, {}, R, C), UNCHANGED <<run, reviews>>
    PROVE  ReviewsTrue'
<1>1. DoneOrders' = DoneOrders /\ \A k : IdOf(k)' = IdOf(k)
  BY DEF Finished, IdOf
<1>2. \A o, id : SeedReviews(o, id)' = SeedReviews(o, id)
  BY RecordsStill
<1> QED BY <1>1, <1>2 DEF ReviewsTrue

(* Every message about an order of the set is one of these.                  *)
LEMMA OrderMessageCases ==
    ASSUME NEW o, NEW id, NEW m \in OrderMessages(o, id)
    PROVE  \/ \E j \in Numbers(o.responses) : m \in ResponseMessages(o, id, j)
           \/ m \in CancelMessages(o, id)
           \/ m \in DeliveryMessages(o, id)
<1> DEFINE R == {ResponseMessages(o, id, j) : j \in Numbers(o.responses)}
<1>1. m \in (UNION R) \union CancelMessages(o, id) \union DeliveryMessages(o, id)
  BY DEF OrderMessages
<1>2. \A S \in R : \E j \in Numbers(o.responses) : S = ResponseMessages(o, id, j)
  OBVIOUS
<1> HIDE DEF R
<1> QED BY <1>1, <1>2

(* The fields of a message.                                                  *)
LEMMA MessageKind ==
    ASSUME NEW a, NEW b, NEW kind, NEW s, NEW id, NEW read, NEW at, NEW m,
           m = Message(a, b, kind, s, id, read, at)
    PROVE  /\ m.senderId = a /\ m.receiverId = b /\ m.kind = kind /\ m.status = s
           /\ m.orderId = id /\ m.at = at
BY DEF Message

LEMMA SaysKind ==
    ASSUME NEW a, NEW b, NEW id, NEW at, NEW m, m = Says(a, b, id, at)
    PROVE  m.kind = "server"
BY DEF Says, Message

\* Who proposes to cancel, and to whom.
Proposer(o) == IF o.cancel.by = "owner" THEN IdOf(o.owner) ELSE PerformerOf(o)
Proposee(o) == IF o.cancel.by = "owner" THEN PerformerOf(o) ELSE IdOf(o.owner)
ProposalOf(o, id) ==
    Message(Proposer(o), Proposee(o), "cancel",
            IF o.cancel.outcome # "pending" THEN o.cancel.outcome ELSE Null, id,
            o.cancel.outcome # "pending", ProposedAt(o))

(* What the messages of each sort say.                                       *)
LEMMA ResponseKinds ==
    ASSUME NEW o, NEW id, NEW j, NEW m \in ResponseMessages(o, id, j)
    PROVE  m.kind \in {"response", "server"}
BY MessageKind, SaysKind DEF ResponseMessages

LEMMA CancelKinds ==
    ASSUME NEW o, NEW id, NEW m \in CancelMessages(o, id)
    PROVE  /\ o.cancel.by # Null /\ Accepted(o) # {}
           /\ m = ProposalOf(o, id) \/ m.kind = "server"
<1>1. o.cancel.by # Null /\ Accepted(o) # {}
  BY DEF CancelMessages
<1>2. m = ProposalOf(o, id) \/ m = Says(Proposer(o), Proposee(o), Null, ProposedAt(o) + Hour)
  BY <1>1, Zenon DEF CancelMessages, ProposalOf, Proposer, Proposee
<1> QED BY <1>1, <1>2, SaysKind

LEMMA DeliveryKinds ==
    ASSUME NEW o, NEW id, NEW m \in DeliveryMessages(o, id)
    PROVE  /\ o.state = "completed"
           /\ \E j \in Accepted(o) :
                 \/ m.kind = "delivery" /\ m.orderId = id /\ m.at = DeliveredAt(o, j)
                 \/ m.kind = "server"
<1>1. o.state = "completed"
  BY DEF DeliveryMessages
<1>2. PICK j \in Accepted(o) :
         m \in {Message(PerformerOf(o), IdOf(o.owner), "delivery", "accepted", id, TRUE, DeliveredAt(o, j)),
                Says(PerformerOf(o), IdOf(o.owner), Null, CompletedAt(o, j))}
  BY DEF DeliveryMessages
<1>3. CASE m = Message(PerformerOf(o), IdOf(o.owner), "delivery", "accepted", id, TRUE, DeliveredAt(o, j))
  BY <1>1, <1>3 DEF Message
<1>4. CASE m = Says(PerformerOf(o), IdOf(o.owner), Null, CompletedAt(o, j))
  BY <1>1, <1>4, SaysKind
<1> QED BY <1>2, <1>3, <1>4

LEMMA OrderKinds ==
    ASSUME NEW o, NEW id, NEW m \in OrderMessages(o, id)
    PROVE  /\ m.kind \in {"response", "server", "cancel", "delivery"}
           /\ m.kind = "cancel" => m \in CancelMessages(o, id) /\ m = ProposalOf(o, id)
           /\ m.kind = "delivery" => m \in DeliveryMessages(o, id)
<1>1. ASSUME NEW j, m \in ResponseMessages(o, id, j)
      PROVE  m.kind \in {"response", "server"}
  BY <1>1, ResponseKinds
<1>2. ASSUME m \in CancelMessages(o, id)
      PROVE  m = ProposalOf(o, id) \/ m.kind = "server"
  BY <1>2, CancelKinds
<1>3. ASSUME m \in DeliveryMessages(o, id)
      PROVE  m.kind \in {"delivery", "server"}
  BY <1>3, DeliveryKinds
<1>4. m = ProposalOf(o, id) => m.kind = "cancel"
  BY MessageKind DEF ProposalOf
<1> QED BY <1>1, <1>2, <1>3, <1>4, OrderMessageCases

LEMMA SuggestKinds ==
    ASSUME NEW s, NEW m \in SuggestMessages(s)
    PROVE  /\ m.kind \in {"suggest", "server"}
           /\ m.kind = "suggest" => m.senderId = IdOf(s.from) /\ m.orderId = IdOf(s.order)
<1>1. CASE m = Message(IdOf(s.from), IdOf(s.to), "suggest",
                       IF s.outcome # "pending" THEN s.outcome ELSE Null,
                       IdOf(s.order), s.outcome # "pending", -s.age)
  <2>1. m.kind = "suggest" /\ m.senderId = IdOf(s.from) /\ m.orderId = IdOf(s.order)
    BY <1>1, MessageKind
  <2> QED BY <2>1
<1>2. CASE m = Says(IdOf(s.from), IdOf(s.to), Null, Hour - s.age)
  BY <1>2, SaysKind
<1> QED BY <1>1, <1>2 DEF SuggestMessages

LEMMA TalkKinds ==
    ASSUME NEW d, NEW m \in TalkMessages(d)
    PROVE  m.kind = "text"
BY DEF TalkMessages, Message

(* The cards of an order come with it; other messages add none to it.        *)
LEMMA CardsCreated ==
    ASSUME SeedParameters, InLists, CardsTrue, CreateOrder
    PROVE  CardsTrue'
<1>1. run' = run /\ messages' = messages \union OrderMessages(AllOrders[n], IdOf(n))
  BY DEF CreateOrder
<1>2. DoneOrders' = DoneOrders \union {n}
  BY FinishOrder DEF Finished
<1>3. /\ \A k : OrderMessages(AllOrders[k], IdOf(k))' = OrderMessages(AllOrders[k], IdOf(k))
      /\ \A i : SuggestMessages(SUGGESTS[i])' = SuggestMessages(SUGGESTS[i])
  <2>1. \A k : IdOf(k)' = IdOf(k)
    BY <1>1 DEF IdOf
  <2>2. \A o, id : OrderMessages(o, id)' = OrderMessages(o, id)
    BY <1>1, RecordsStill
  <2>3. \A s : SuggestMessages(s)' = SuggestMessages(s)
    BY <2>1 DEF SuggestMessages
  <2> QED BY <2>1, <2>2, <2>3
<1>4. ASSUME NEW k \in DoneOrders'
      PROVE  OrderMessages(AllOrders[k], IdOf(k)) \subseteq messages'
  <2>1. k \in DoneOrders => OrderMessages(AllOrders[k], IdOf(k)) \subseteq messages
    BY DEF CardsTrue
  <2> QED BY <1>1, <1>2, <2>1
<1>5. ASSUME NEW m \in messages', m.kind \in {"cancel", "delivery"}
      PROVE  \E k \in DoneOrders' : m \in OrderMessages(AllOrders[k], IdOf(k))
  <2>1. CASE m \in messages
    BY <1>2, <1>5, <2>1 DEF CardsTrue
  <2>2. CASE m \in OrderMessages(AllOrders[n], IdOf(n))
    BY <1>2, <2>2
  <2> QED BY <1>1, <2>1, <2>2
<1>6. ASSUME NEW m \in messages', m.kind = "suggest"
      PROVE  \E i \in Numbers(SUGGESTS) : m \in SuggestMessages(SUGGESTS[i])
  <2>1. m \notin OrderMessages(AllOrders[n], IdOf(n))
    BY <1>6, OrderKinds
  <2> QED BY <1>1, <1>6, <2>1 DEF CardsTrue
<1> QED BY <1>3, <1>4, <1>5, <1>6 DEF CardsTrue

LEMMA CardsGrown ==
    ASSUME CardsTrue, NEW U, NEW R, NEW C, Finished(U, {}, R, C), run' = run,
           NEW M, messages' = messages \union M,
           \A m \in M : m.kind \notin {"cancel", "delivery"},
           \A m \in M : m.kind = "suggest" =>
               \E i \in Numbers(SUGGESTS) : m \in SuggestMessages(SUGGESTS[i])
    PROVE  CardsTrue'
<1>1. DoneOrders' = DoneOrders
  BY DEF Finished
<1>2. /\ \A k : OrderMessages(AllOrders[k], IdOf(k))' = OrderMessages(AllOrders[k], IdOf(k))
      /\ \A i : SuggestMessages(SUGGESTS[i])' = SuggestMessages(SUGGESTS[i])
  <2>1. \A k : IdOf(k)' = IdOf(k)
    BY DEF IdOf
  <2>2. \A o, id : OrderMessages(o, id)' = OrderMessages(o, id)
    BY RecordsStill
  <2>3. \A s : SuggestMessages(s)' = SuggestMessages(s)
    BY <2>1 DEF SuggestMessages
  <2> QED BY <2>1, <2>2, <2>3
<1>3. \A k \in DoneOrders : OrderMessages(AllOrders[k], IdOf(k)) \subseteq messages'
  BY DEF CardsTrue
<1>4. \A m \in messages' : m.kind \in {"cancel", "delivery"} =>
          \E k \in DoneOrders : m \in OrderMessages(AllOrders[k], IdOf(k))
  BY DEF CardsTrue
<1>5. \A m \in messages' : m.kind = "suggest" =>
          \E i \in Numbers(SUGGESTS) : m \in SuggestMessages(SUGGESTS[i])
  BY DEF CardsTrue
<1> QED BY <1>1, <1>2, <1>3, <1>4, <1>5 DEF CardsTrue

(* The whole of it, one action after the other.                              *)
LEMMA WholeBegun ==
    ASSUME SeedParameters, RealSafe, RealPlain, Bare, DeleteFiles, pc' = "users"
    PROVE  Contents'
<1>1. /\ n' = 1
      /\ UNCHANGED <<run, users, projects, orders, responses, messages, reviews>>
  BY DEF DeleteFiles
<1>2. DoneUsers' = {} /\ DoneOrders' = {} /\ RatedUsers' = {} /\ CountedUsers' = {}
  BY <1>1 DEF DoneUsers, DoneOrders, RatedUsers, CountedUsers
<1>3. DOMAIN users = Real /\ DOMAIN orders = {HostOrder} /\ Owned
  BY DEF Bare
<1>4. TestUsers' = {} /\ TestOrders' = {}
  BY <1>1, <1>3 DEF TestUsers, TestOrders
<1>5. UsersTrue'
  BY <1>2, <1>4 DEF UsersTrue
<1>6. OrdersTrue'
  BY <1>2, <1>4 DEF OrdersTrue, Ids
<1>7. AnswersTrue' /\ RatingsTrue' /\ CountsTrue'
  BY <1>2 DEF AnswersTrue, RatingsTrue, CountsTrue
<1>8. ReviewsTrue'
  BY <1>1, <1>2, <1>3 DEF ReviewsTrue, Owned
<1>9. \A m \in messages' : m.kind = "response"
  BY <1>1, <1>3 DEF RealPlain, Owned
<1>10. CardsTrue'
  BY <1>2, <1>9 DEF CardsTrue
<1> QED BY <1>5, <1>6, <1>7, <1>8, <1>10 DEF Contents

(* What each step does to the contents of a set.                             *)
LEMMA WholeUser ==
    ASSUME SeedParameters, LawfulData, InLists, Contents, CreateUser
    PROVE  Contents'
<1>1. Finished({n}, {}, {}, {}) /\ RatedUsers = {} /\ CountedUsers = {}
  BY FinishUser
<1>2. UNCHANGED <<run, orders, responses, messages, reviews>>
  BY DEF CreateUser
<1>3. UsersTrue'
  BY UsersCreated DEF Contents
<1>4. OrdersTrue'
  <2>1. \A o \in DOMAIN orders : SameDeal(orders'[o], orders[o])
    BY <1>2 DEF SameDeal
  <2> QED BY <1>1, <1>2, <2>1, OrdersKept DEF Contents
<1>5. AnswersTrue'
  BY <1>1, <1>2, AnswersKept DEF Contents
<1>6. ReviewsTrue'
  BY <1>1, <1>2, ReviewsKept DEF Contents
<1>7. CardsTrue'
  <2>1. PICK M : M = {}
    OBVIOUS
  <2>2. messages' = messages \union M
    BY <1>2, <2>1
  <2> QED BY <1>1, <1>2, <2>1, <2>2, CardsGrown DEF Contents
<1>8. RatingsTrue'
  BY <1>1, <1>2, RatingsKept DEF Contents
<1>9. CountsTrue'
  BY <1>1, <1>2, CountsKept DEF Contents
<1> QED BY <1>3, <1>4, <1>5, <1>6, <1>7, <1>8, <1>9 DEF Contents

LEMMA WholeOrder ==
    ASSUME SeedParameters, LawfulData, InLists, OneSet, Contents, CreateOrder
    PROVE  Contents'
<1>1. Finished({}, {n}, {}, {}) /\ RatedUsers = {} /\ CountedUsers = {}
  BY FinishOrder
<1>2. UNCHANGED <<run, users>>
  BY DEF CreateOrder
<1>3. OrdersTrue' /\ AnswersTrue' /\ ReviewsTrue' /\ CardsTrue'
  BY OrdersCreated, AnswersCreated, ReviewsCreated, CardsCreated DEF Contents
<1>4. UsersTrue'
  BY <1>1, <1>2, UsersKept DEF Contents
<1>5. RatingsTrue'
  BY <1>1, <1>2, RatingsKept DEF Contents
<1>6. CountsTrue'
  BY <1>1, <1>2, CountsKept DEF Contents
<1> QED BY <1>3, <1>4, <1>5, <1>6 DEF Contents

(* Messages, and portfolios, leave the rest as it is.                        *)
LEMMA WholeMessages ==
    ASSUME Contents, Finished({}, {}, {}, {}), UNCHANGED <<run, users, orders, responses, reviews>>,
           NEW M, messages' = messages \union M,
           \A m \in M : m.kind \notin {"cancel", "delivery"},
           \A m \in M : m.kind = "suggest" =>
               \E i \in Numbers(SUGGESTS) : m \in SuggestMessages(SUGGESTS[i])
    PROVE  Contents'
<1>1. UsersTrue'
  BY UsersKept DEF Contents
<1>2. OrdersTrue'
  <2>1. \A o \in DOMAIN orders : SameDeal(orders'[o], orders[o])
    BY DEF SameDeal
  <2> QED BY <2>1, OrdersKept DEF Contents
<1>3. AnswersTrue' /\ ReviewsTrue'
  BY AnswersKept, ReviewsKept DEF Contents
<1>4. CardsTrue'
  BY CardsGrown DEF Contents
<1>5. RatingsTrue' /\ CountsTrue'
  BY RatingsKept, CountsKept DEF Contents
<1> QED BY <1>1, <1>2, <1>3, <1>4, <1>5 DEF Contents

LEMMA WholeRating ==
    ASSUME SeedParameters, LawfulData, InLists, Contents, Recalculate
    PROVE  Contents'
<1>1. Finished({}, {}, {n}, {}) /\ CountedUsers = {}
  BY FinishRating
<1>2. UNCHANGED <<run, orders, responses, messages, reviews>>
  BY DEF Recalculate
<1>3. UsersTrue /\ OrdersTrue
  BY DEF Contents
<1>4. /\ DOMAIN users' = DOMAIN users
      /\ \A u \in DOMAIN users : /\ DOMAIN users'[u] = DOMAIN users[u]
                                 /\ users'[u].is_verified = users[u].is_verified
                                 /\ users'[u].is_performer = users[u].is_performer
  BY <1>3, RatingWritten
<1>5. UsersTrue'
  BY <1>1, <1>2, <1>3, <1>4, UsersKept
<1>6. OrdersTrue'
  <2>1. \A o \in DOMAIN orders : SameDeal(orders'[o], orders[o])
    BY <1>2 DEF SameDeal
  <2> QED BY <1>1, <1>2, <1>3, <2>1, OrdersKept
<1>7. AnswersTrue' /\ ReviewsTrue'
  BY <1>1, <1>2, AnswersKept, ReviewsKept DEF Contents
<1>8. CardsTrue'
  <2>1. PICK M : M = {}
    OBVIOUS
  <2>2. messages' = messages \union M
    BY <1>2, <2>1
  <2> QED BY <1>1, <1>2, <2>1, <2>2, CardsGrown DEF Contents
<1>9. RatingsTrue'
  BY <1>3, RatingsWritten DEF Contents
<1>10. CountsTrue'
  BY <1>1, <1>2, CountsKept DEF Contents
<1> QED BY <1>5, <1>6, <1>7, <1>8, <1>9, <1>10 DEF Contents

LEMMA WholeCount ==
    ASSUME SeedParameters, LawfulData, InLists, Contents, CountOrders
    PROVE  Contents'
<1>1. Finished({}, {}, {}, {n}) /\ RatedUsers = Numbers(USERS) /\ DoneUsers = Numbers(USERS)
  BY FinishCount
<1>2. UNCHANGED <<run, orders, responses, messages, reviews>>
  BY DEF CountOrders
<1>3. UsersTrue /\ OrdersTrue
  BY DEF Contents
<1>4. {"is_verified", "is_performer", "rating", "reviews_count", "customer_rating", "customer_reviews_count"}
        \subseteq DOMAIN UserDoc(TRUE, TRUE) \ {"orders_count"}
  BY DEF UserDoc
<1>5. ASSUME NEW i \in Numbers(USERS)
      PROVE  NameOf(i) \in DOMAIN users /\ DOMAIN users[NameOf(i)] = DOMAIN UserDoc(TRUE, TRUE)
  BY <1>1, <1>3 DEF UsersTrue, TestUsers
<1>6. DOMAIN users' = DOMAIN users /\ DOMAIN users[NameOf(n)] = DOMAIN UserDoc(TRUE, TRUE)
  BY <1>3, <1>5, FinishCount, CountWritten
<1>7. \A f \in DOMAIN UserDoc(TRUE, TRUE) \ {"orders_count"} :
        \A u \in DOMAIN users : u = NameOf(n) => users'[u][f] = users[u][f]
  BY <1>3, <1>6, CountWritten
<1>8. \A u \in DOMAIN users : u # NameOf(n) => users'[u] = users[u]
  BY <1>3, CountWritten
<1>9. UsersTrue'
  <2>1. \A u \in DOMAIN users : /\ DOMAIN users'[u] = DOMAIN users[u]
                                /\ users'[u].is_verified = users[u].is_verified
                                /\ users'[u].is_performer = users[u].is_performer
    <3> SUFFICES ASSUME NEW u \in DOMAIN users
                 PROVE  /\ DOMAIN users'[u] = DOMAIN users[u]
                        /\ users'[u].is_verified = users[u].is_verified
                        /\ users'[u].is_performer = users[u].is_performer
      OBVIOUS
    <3>1. CASE u = NameOf(n)
      <4>1. DOMAIN users'[u] = DOMAIN users[u]
        BY <1>3, <3>1, CountWritten
      <4> QED BY <1>4, <1>7, <3>1, <4>1
    <3>2. CASE u # NameOf(n)
      BY <1>8, <3>2
    <3> QED BY <3>1, <3>2
  <2> QED BY <1>1, <1>2, <1>3, <1>6, <2>1, UsersKept
<1>10. OrdersTrue'
  <2>1. \A o \in DOMAIN orders : SameDeal(orders'[o], orders[o])
    BY <1>2 DEF SameDeal
  <2> QED BY <1>1, <1>2, <1>3, <2>1, OrdersKept
<1>11. AnswersTrue' /\ ReviewsTrue'
  BY <1>1, <1>2, AnswersKept, ReviewsKept DEF Contents
<1>12. CardsTrue'
  <2>1. PICK M : M = {}
    OBVIOUS
  <2>2. messages' = messages \union M
    BY <1>2, <2>1
  <2> QED BY <1>1, <1>2, <2>1, <2>2, CardsGrown DEF Contents
<1>13. RatingsTrue'
  <2>1. \A i \in RatedUsers :
          /\ users'[NameOf(i)].rating = users[NameOf(i)].rating
          /\ users'[NameOf(i)].reviews_count = users[NameOf(i)].reviews_count
          /\ users'[NameOf(i)].customer_rating = users[NameOf(i)].customer_rating
          /\ users'[NameOf(i)].customer_reviews_count = users[NameOf(i)].customer_reviews_count
    <3> SUFFICES ASSUME NEW i \in RatedUsers
                 PROVE  /\ users'[NameOf(i)].rating = users[NameOf(i)].rating
                        /\ users'[NameOf(i)].reviews_count = users[NameOf(i)].reviews_count
                        /\ users'[NameOf(i)].customer_rating = users[NameOf(i)].customer_rating
                        /\ users'[NameOf(i)].customer_reviews_count = users[NameOf(i)].customer_reviews_count
      OBVIOUS
    <3>1. NameOf(i) \in DOMAIN users
      BY <1>1, <1>5
    <3>2. CASE NameOf(i) = NameOf(n)
      BY <1>4, <1>7, <3>1, <3>2
    <3>3. CASE NameOf(i) # NameOf(n)
      BY <1>8, <3>1, <3>3
    <3> QED BY <3>2, <3>3
  <2> QED BY <1>1, <1>2, <2>1, RatingsKept DEF Contents
<1>14. CountsTrue'
  BY CountsWritten DEF Contents
<1> QED BY <1>9, <1>10, <1>11, <1>12, <1>13, <1>14 DEF Contents

LEMMA WholeRespond ==
    ASSUME SeedParameters, RealSafe, InLists, Contents, NEW u, NEW id, Respond(u, id)
    PROVE  Contents'
<1>1. UNCHANGED <<script, users, reviews>>
  BY Responded
<1>2. Finished({}, {}, {}, {}) /\ run' = run
  BY <1>1, FinishNothing DEF script
<1>3. DOMAIN orders' = DOMAIN orders /\ \A o \in DOMAIN orders : SameDeal(orders'[o], orders[o])
  BY Responded
<1>4. UsersTrue'
  BY <1>1, <1>2, UsersKept DEF Contents
<1>5. OrdersTrue'
  BY <1>2, <1>3, OrdersKept DEF Contents
<1>6. AnswersTrue'
  BY <1>2, AnswersGrown DEF Contents
<1>7. ReviewsTrue'
  BY <1>1, <1>2, ReviewsKept DEF Contents
<1>8. CardsTrue'
  <2>1. PICK M : M = {Message(u, orders[id].user_id, "response", "response", id, FALSE, 0)}
    OBVIOUS
  <2>2. messages' = messages \union M
    BY <2>1 DEF Respond
  <2>3. \A m \in M : m.kind = "response"
    BY <2>1 DEF Message
  <2> QED BY <1>2, <2>2, <2>3, CardsGrown DEF Contents
<1>9. RatingsTrue'
  BY <1>1, <1>2, RatingsKept DEF Contents
<1>10. CountsTrue'
  <2>1. \A o \in DOMAIN orders : /\ orders'[o].user_id = orders[o].user_id
                                 /\ orders'[o].draft = orders[o].draft
    BY <1>3 DEF SameDeal, RealSafe
  <2> QED BY <1>1, <1>2, <1>3, <2>1, CountsKept DEF Contents
<1> QED BY <1>4, <1>5, <1>6, <1>7, <1>8, <1>9, <1>10 DEF Contents

(* The real messages and reviews stay what they are.                         *)
LEMMA PlainStep ==
    ASSUME RealPlain, RealDocs' = RealDocs
    PROVE  RealPlain'
<1>1. /\ {m \in messages : {m.senderId, m.receiverId} \subseteq Real}'
            = {m \in messages : {m.senderId, m.receiverId} \subseteq Real}
      /\ {r \in reviews : {r.author_id, r.target_id} \subseteq Real}'
            = {r \in reviews : {r.author_id, r.target_id} \subseteq Real}
  BY DEF RealDocs
<1> QED BY <1>1 DEF RealPlain

(* At first the real documents are a response and an open review.            *)
LEMMA PlainInit ==
    ASSUME SeedInit
    PROVE  RealPlain
<1>1. messages = {Message(Visitor, Host, "response", "response", HostOrder, TRUE, 0)}
  BY DEF SeedInit
<1>2. \A m \in messages : m.kind = "response"
  BY <1>1 DEF Message
<1>3. \A r \in reviews : r.published
  BY DEF SeedInit
<1> QED BY <1>2, <1>3 DEF RealPlain

(* A set being made, or standing whole, says what its records say.           *)
LEMMA WholeStep ==
    ASSUME SeedParameters, LawfulData, ScriptInv, Stages, RealPlain, Whole,
           [MCNext]_<<seedVars, ready, torn>>
    PROVE  Whole'
<1>1. CASE UNCHANGED <<seedVars, ready, torn>>
  <2>1. /\ UNCHANGED <<script, run, users, orders, responses, messages, reviews, ready, pc>>
    BY <1>1 DEF seedVars, script, data
  <2>2. Fresh' = Fresh
    BY <2>1 DEF Fresh
  <2>3. Finished({}, {}, {}, {})
    BY <2>1, FinishNothing DEF ScriptInv
  <2>4. PICK M : M = {}
    OBVIOUS
  <2>5. messages' = messages \union M
    BY <2>1, <2>4
  <2>6. Contents => Contents'
    BY <2>1, <2>3, <2>4, <2>5, WholeMessages
  <2> QED BY <2>2, <2>6 DEF Whole
<1>2. ASSUME MCNext, Fresh'
      PROVE  Contents'
  <2>1. RealSafe /\ InLists
    BY DEF ScriptInv
  <2>2. CASE DeleteFiles /\ pc' = "users"
    <3>1. Bare
      BY <2>2 DEF DeleteFiles, Stages
    <3> QED BY <2>1, <2>2, <3>1, WholeBegun
  <2>3. CASE pc \in Making /\ (CreateUser \/ CreateOrder \/ Recalculate \/ CountOrders)
    <3>1. Contents /\ OneSet
      BY <2>3 DEF Whole, Fresh, Stages
    <3> QED BY <2>1, <2>3, <3>1, WholeUser, WholeOrder, WholeRating, WholeCount
  <2>4. CASE pc \in Making /\ CreatePortfolio
    <3>1. Contents
      BY <2>4 DEF Whole, Fresh
    <3>2. PICK M : M = {}
      OBVIOUS
    <3>3. messages' = messages \union M /\ UNCHANGED <<run, users, orders, responses, reviews>>
      BY <2>4, <3>2 DEF CreatePortfolio
    <3> QED BY <2>1, <2>4, <3>1, <3>2, <3>3, FinishNothing, WholeMessages
  <2>5. CASE pc \in Making /\ Suggest
    <3>1. Contents
      BY <2>5 DEF Whole, Fresh
    <3>2. PICK M : M = SuggestMessages(SUGGESTS[n])
      OBVIOUS
    <3>3. messages' = messages \union M /\ UNCHANGED <<run, users, orders, responses, reviews>>
      BY <2>5, <3>2 DEF Suggest, SuggestMessages
    <3>4. n \in Numbers(SUGGESTS)
      BY <2>1, <2>5 DEF Suggest, InLists, Numbers
    <3>5. \A m \in M : m.kind \in {"suggest", "server"}
      BY <3>2, SuggestKinds
    <3> QED BY <2>1, <2>5, <3>1, <3>2, <3>3, <3>4, <3>5, FinishNothing, WholeMessages
  <2>6. CASE pc \in Making /\ Talk
    <3>1. Contents
      BY <2>6 DEF Whole, Fresh
    <3>2. PICK M : M = TalkMessages(DIALOGS[n])
      OBVIOUS
    <3>3. messages' = messages \union M /\ UNCHANGED <<run, users, orders, responses, reviews>>
      BY <2>6, <3>2 DEF Talk, TalkMessages, Other
    <3>4. \A m \in M : m.kind = "text"
      BY <3>2, TalkKinds
    <3> QED BY <2>1, <2>6, <3>1, <3>3, <3>4, FinishNothing, WholeMessages
  <2>7. CASE ready /\ (Respond(Visitor, <<Noticed, run>>) \/ Respond(<<Answers, run>>, HostOrder))
    <3>1. Contents
      BY <2>7 DEF Whole, Fresh
    <3> QED BY <2>1, <2>7, <3>1, WholeRespond
  <2> QED BY <1>2, <2>2, <2>3, <2>4, <2>5, <2>6, <2>7, FreshStep
<1> QED BY <1>1, <1>2 DEF Whole

(***************************************************************************)
(* What follows for a whole set                                            *)
(***************************************************************************)

(* The counters are true of the documents they count.                        *)
LEMMA CountersOfWhole ==
    ASSUME pc = "idle", Contents
    PROVE  CountersTrue
<1>1. /\ DoneUsers = Numbers(USERS) /\ RatedUsers = Numbers(USERS) /\ CountedUsers = Numbers(USERS)
      /\ DoneOrders = Numbers(AllOrders)
  BY DEF DoneUsers, DoneOrders, RatedUsers, CountedUsers
<1>2. ASSUME NEW u \in TestUsers
      PROVE  UserRated(u) /\ users[u].orders_count = Cardinality(OwnOrders(u))
  <2>1. PICK i \in Numbers(USERS) : u = NameOf(i)
    BY <1>1 DEF Contents, UsersTrue
  <2> QED BY <1>1, <2>1 DEF Contents, RatingsTrue, CountsTrue
<1>3. ASSUME NEW o \in TestOrders
      PROVE  orders[o].response_count = Cardinality({r \in responses : r.order_id = o})
  <2>1. PICK k \in Numbers(AllOrders) : o = IdOf(k)
    BY <1>1 DEF Contents, OrdersTrue, Ids
  <2> QED BY <1>1, <2>1 DEF Contents, AnswersTrue, AnswersTo
<1> QED BY <1>2, <1>3 DEF CountersTrue, UserRated, OwnOrders, Marks

\* The two reviews that a record may hold.
ReviewDoc(o, id, author, target, role, r, hours) ==
    [order_id |-> id, author_id |-> author, target_id |-> target, role |-> role,
     rating |-> r.rating, reply |-> r.reply /\ Published(o), published |-> Published(o),
     created_at |-> DoneAt(o) + hours * Hour]
OfCustomer(o, id)  == ReviewDoc(o, id, IdOf(o.owner), PerformerOf(o), "performer", o.byCustomer, 5)
OfPerformer(o, id) == ReviewDoc(o, id, PerformerOf(o), IdOf(o.owner), "customer", o.byPerformer, 9)

(* The fields of a review, and what reviews an order has.                    *)
LEMMA ReviewFields ==
    ASSUME NEW o, NEW id, NEW a, NEW b, NEW role, NEW m, NEW h, NEW r,
           r = ReviewDoc(o, id, a, b, role, m, h)
    PROVE  /\ r.order_id = id /\ r.author_id = a /\ r.target_id = b /\ r.role = role
           /\ r.created_at = DoneAt(o) + h * Hour
           /\ r.published <=> Published(o)
           /\ r.reply => Published(o)
BY DEF ReviewDoc

LEMMA TwoReviews ==
    ASSUME NEW o, NEW id
    PROVE  \A r : r \in SeedReviews(o, id) <=>
              /\ StatusOf(o) = "completed"
              /\ \/ Given(o.byCustomer) /\ r = OfCustomer(o, id)
                 \/ Given(o.byPerformer) /\ r = OfPerformer(o, id)
BY DEF SeedReviews, OfCustomer, OfPerformer, ReviewDoc, Given

(* Who takes part in the deal of a record.                                   *)
LEMMA DealOfRecord ==
    ASSUME SeedParameters, LawfulData, run \in Nat, NEW k \in Numbers(AllOrders), NEW o, o = AllOrders[k]
    PROVE  /\ PerformerOf(o) # IdOf(o.owner)
           /\ PerformerOf(o) = Null <=> WorkerOf(o) = Null
           /\ WorkerOf(o) # Null => PerformerOf(o) = IdOf(WorkerOf(o)) /\ WorkerOf(o) \in Keys
           /\ Accepted(o) # {} => o.history = Null /\ WorkerOf(o) # Null
           /\ \A i \in Accepted(o) : i \in Nat /\ i = CHOOSE j \in Accepted(o) : TRUE
           /\ WorkerOf(o) # Null => EndedAt(o) \in Int
           /\ StatusOf(o) = "completed" <=> WorkerOf(o) # Null /\ o.state = "completed"
           /\ StatusOf(o) = "completed" => DoneAt(o) = EndedAt(o)
<1>1. LawfulSides(o) /\ LawfulState(o) /\ LawfulTimes(o)
  BY DEF LawfulData
<1>2. /\ o.owner \in Keys /\ o.history \in Keys \union {Null}
      /\ \A j \in Numbers(o.responses) : o.responses[j][1] \in Keys
      /\ Null \notin Keys
  BY DEF SeedParameters, Closed, Apart
<1>3. Accepted(o) # {} => (CHOOSE j \in Accepted(o) : TRUE) \in Numbers(o.responses)
  BY DEF Accepted
<1>4. WorkerOf(o) \in Keys \union {Null} /\ (Accepted(o) # {} => WorkerOf(o) \in Keys)
  BY <1>2, <1>3 DEF WorkerOf
<1>5. WorkerOf(o) # o.owner
  BY <1>1 DEF LawfulSides
<1>6. \A a, b : IdOf(a) = IdOf(b) => a = b
  BY DEF IdOf
<1>7. \A a \in Keys : IdOf(a) # Null
  BY DEF SeedParameters, Apart, IdOf
<1>8. PerformerOf(o) = Null <=> WorkerOf(o) = Null
  BY <1>4, <1>7 DEF PerformerOf
<1>9. PerformerOf(o) # IdOf(o.owner)
  BY <1>2, <1>4, <1>5, <1>6, <1>7 DEF PerformerOf
<1>10. Accepted(o) # {} => o.history = Null /\ WorkerOf(o) # Null
  BY <1>1, <1>2, <1>4 DEF LawfulState
<1>11. \A i \in Accepted(o) : i \in Nat /\ i = CHOOSE j \in Accepted(o) : TRUE
  BY <1>1 DEF LawfulSides, Accepted, Numbers
<1>12. WorkerOf(o) # Null => EndedAt(o) \in Int
  <2> SUFFICES ASSUME WorkerOf(o) # Null
               PROVE  EndedAt(o) \in Int
    OBVIOUS
  <2>1. {o.age, o.doneAge} \subseteq Nat
    BY <1>1 DEF LawfulTimes
  <2>2. CASE o.history # Null
    BY <2>1, <2>2 DEF EndedAt, HistoryDone, Day, Hour
  <2>3. CASE o.history = Null
    <3>1. Accepted(o) # {}
      BY <2>3 DEF WorkerOf
    <3>2. (CHOOSE i \in Accepted(o) : TRUE) \in Nat
      BY <3>1, <1>11
    <3> QED BY <2>1, <2>3, <3>2 DEF EndedAt, CompletedAt, DeliveredAt, AnsweredAt, ResponseAt, Day, Hour
  <2> QED BY <2>2, <2>3
<1>13. StatusOf(o) = "completed" <=> WorkerOf(o) # Null /\ o.state = "completed"
  BY DEF StatusOf
<1>14. StatusOf(o) = "completed" => DoneAt(o) = EndedAt(o)
  BY DEF DoneAt
<1>15. WorkerOf(o) # Null => PerformerOf(o) = IdOf(WorkerOf(o)) /\ WorkerOf(o) \in Keys
  BY <1>4 DEF PerformerOf
<1> QED BY <1>8, <1>9, <1>10, <1>11, <1>12, <1>13, <1>14, <1>15

\* The document of an order of a whole set.
LEMMA DocOfRecord ==
    ASSUME pc = "idle", Contents, NEW k \in Numbers(AllOrders)
    PROVE  /\ orders[IdOf(k)].user_id = IdOf(AllOrders[k].owner)
           /\ orders[IdOf(k)].performer = PerformerOf(AllOrders[k])
           /\ orders[IdOf(k)].status = StatusOf(AllOrders[k])
           /\ orders[IdOf(k)].draft = (AllOrders[k].state = "draft")
           /\ orders[IdOf(k)].is_active = (AllOrders[k].state # "archived")
           /\ orders[IdOf(k)].completed_at = DoneAt(AllOrders[k])
<1> DEFINE d == orders[IdOf(k)]
           e == OrderDoc(AllOrders[k])
<1>1. SameDeal(d, e)
  BY DEF DoneOrders, Contents, OrdersTrue
<1>2. DOMAIN e = {"user_id", "performer", "status", "draft", "is_active", "response_count", "completed_at"}
  BY DEF OrderDoc
<1>3. /\ e.user_id = IdOf(AllOrders[k].owner) /\ e.performer = PerformerOf(AllOrders[k])
      /\ e.status = StatusOf(AllOrders[k]) /\ e.draft = (AllOrders[k].state = "draft")
      /\ e.is_active = (AllOrders[k].state # "archived") /\ e.completed_at = DoneAt(AllOrders[k])
  BY DEF OrderDoc
<1> HIDE DEF d, e
<1>4. \A f \in {"user_id", "performer", "status", "draft", "is_active", "completed_at"} : d[f] = e[f]
  BY <1>1, <1>2 DEF SameDeal
<1>5. /\ d.user_id = e.user_id /\ d.performer = e.performer /\ d.status = e.status
      /\ d.draft = e.draft /\ d.is_active = e.is_active /\ d.completed_at = e.completed_at
  BY <1>4
<1> QED BY <1>3, <1>5 DEF d

(* The reviews of an order are those of its record.                          *)
LEMMA ReviewsOfDeal ==
    ASSUME SeedParameters, RealSafe, run \in Nat, pc = "idle", Contents, NEW k \in Numbers(AllOrders)
    PROVE  \A r : (r \in reviews /\ r.order_id = IdOf(k)) <=> r \in SeedReviews(AllOrders[k], IdOf(k))
<1>1. DoneOrders = Numbers(AllOrders) /\ ReviewsTrue
  BY DEF DoneOrders, Contents
<1>2. \A j, r : r \in SeedReviews(AllOrders[j], IdOf(j)) => r.order_id = IdOf(j)
  BY TwoReviews DEF OfCustomer, OfPerformer, ReviewDoc
<1>3. \A j : IdOf(j) = IdOf(k) => j = k
  BY DEF IdOf
<1>4. IdOf(k) \notin {HostOrder, Null}
  BY DEF IdOf, Numbers, SeedParameters, Apart, Closed
<1>5. ASSUME NEW r \in reviews, r.order_id = IdOf(k)
      PROVE  r \in SeedReviews(AllOrders[k], IdOf(k))
  <2>1. ~({r.author_id, r.target_id} \subseteq Real)
    BY <1>4, <1>5 DEF RealSafe
  <2>2. PICK j \in Numbers(AllOrders) : r \in SeedReviews(AllOrders[j], IdOf(j))
    BY <1>1, <2>1 DEF ReviewsTrue
  <2>3. j = k
    BY <1>2, <1>3, <1>5, <2>2
  <2> QED BY <2>2, <2>3
<1>6. ASSUME NEW r, r \in SeedReviews(AllOrders[k], IdOf(k))
      PROVE  r \in reviews /\ r.order_id = IdOf(k)
  BY <1>1, <1>2, <1>6 DEF ReviewsTrue
<1> QED BY <1>5, <1>6

\* What the site asks of a review of the customer c and the performer p.
Fits(r, others, c, p, done, closes) ==
    /\ {r.author_id, r.target_id} = {c, p}
    /\ r.role = IF r.target_id = p THEN "performer" ELSE "customer"
    /\ r.created_at \in done..closes /\ r.created_at <= 0
    /\ \A s \in others : s.author_id = r.target_id
    /\ r.published <=> (others # {} \/ closes <= 0)
    /\ r.reply => r.published

(* A review of a record is one that the site could hold.                     *)
LEMMA ReviewOfRecord ==
    ASSUME SeedParameters, LawfulData, run \in Nat, NEW k \in Numbers(AllOrders), NEW o, o = AllOrders[k],
           NEW id, NEW S, S = SeedReviews(o, id), NEW r \in S, NEW c, NEW p,
           c = IdOf(o.owner), p = PerformerOf(o), NEW closes, closes = DoneAt(o) + REVIEW_WINDOW_DAYS * Day
    PROVE  StatusOf(o) = "completed" /\ Fits(r, S \ {r}, c, p, DoneAt(o), closes)
<1> USE DEF Fits
<1>1. /\ c # p /\ StatusOf(o) = "completed" /\ o.state = "completed"
      /\ DoneAt(o) = EndedAt(o) /\ EndedAt(o) \in Int
  BY DealOfRecord, TwoReviews
<1>2. closes \in Int /\ EndedAt(o) + 24 * Hour <= closes /\ Hour = 60
  BY <1>1 DEF SeedParameters, LawfulData, Day, Hour
<1>3. Published(o) <=> (Given(o.byCustomer) /\ Given(o.byPerformer)) \/ closes <= 0
  BY DEF Published, Both, Given
<1>4. LawfulTimes(o)
  BY DEF LawfulData
<1> DEFINE A == OfCustomer(o, id)
           B == OfPerformer(o, id)
<1>5. /\ A.author_id = c /\ A.target_id = p /\ A.role = "performer"
      /\ A.created_at = EndedAt(o) + 5 * Hour /\ (A.published <=> Published(o)) /\ (A.reply => Published(o))
  BY <1>1, ReviewFields DEF OfCustomer
<1>6. /\ B.author_id = p /\ B.target_id = c /\ B.role = "customer"
      /\ B.created_at = EndedAt(o) + 9 * Hour /\ (B.published <=> Published(o)) /\ (B.reply => Published(o))
  BY <1>1, ReviewFields DEF OfPerformer
<1>7. \A s : s \in S <=> \/ Given(o.byCustomer) /\ s = A
                         \/ Given(o.byPerformer) /\ s = B
  BY <1>1, TwoReviews
<1> HIDE DEF A, B
<1>8. A # B
  BY <1>1, <1>5, <1>6
<1>9. CASE r = A
  <2>1. Given(o.byCustomer)
    BY <1>7, <1>8, <1>9
  <2>2. EndedAt(o) + 5 * Hour <= 0
    BY <1>1, <1>4, <2>1 DEF LawfulTimes
  <2>3. \A s \in S \ {r} : s = B
    BY <1>7, <1>9
  <2>4. S \ {r} # {} <=> Given(o.byPerformer)
    BY <1>7, <1>8, <1>9
  <2>5. \A s \in S \ {r} : s.author_id = r.target_id
    BY <1>5, <1>6, <1>9, <2>3
  <2>6. r.created_at \in DoneAt(o)..closes /\ r.created_at <= 0
    BY <1>1, <1>2, <1>5, <1>9, <2>2
  <2>7. r.published <=> (S \ {r} # {} \/ closes <= 0)
    BY <1>3, <1>5, <1>9, <2>1, <2>4
  <2> QED BY <1>1, <1>5, <1>9, <2>5, <2>6, <2>7
<1>10. CASE r = B
  <2>1. Given(o.byPerformer)
    BY <1>7, <1>8, <1>10
  <2>2. EndedAt(o) + 9 * Hour <= 0
    BY <1>1, <1>4, <2>1 DEF LawfulTimes
  <2>3. \A s \in S \ {r} : s = A
    BY <1>7, <1>10
  <2>4. S \ {r} # {} <=> Given(o.byCustomer)
    BY <1>7, <1>8, <1>10
  <2>5. \A s \in S \ {r} : s.author_id = r.target_id
    BY <1>5, <1>6, <1>10, <2>3
  <2>6. r.created_at \in DoneAt(o)..closes /\ r.created_at <= 0
    BY <1>1, <1>2, <1>6, <1>10, <2>2
  <2>7. r.published <=> (S \ {r} # {} \/ closes <= 0)
    BY <1>3, <1>6, <1>10, <2>1, <2>4
  <2> QED BY <1>1, <1>6, <1>10, <2>5, <2>6, <2>7
<1> QED BY <1>7, <1>9, <1>10

(* The reviews of a whole set are lawful.                                    *)
LEMMA ReviewsOfWhole ==
    ASSUME SeedParameters, LawfulData, RealSafe, run \in Nat, pc = "idle", Contents
    PROVE  ReviewsLawful
<1> SUFFICES ASSUME NEW r \in reviews, r.order_id \in TestOrders
             PROVE  LET doc    == orders[r.order_id]
                        others == {s \in reviews \ {r} : s.order_id = r.order_id}
                        closes == doc.completed_at + REVIEW_WINDOW_DAYS * Day
                    IN  /\ doc.status = "completed"
                        /\ {r.author_id, r.target_id} = {doc.user_id, doc.performer}
                        /\ r.role = IF r.target_id = doc.performer THEN "performer" ELSE "customer"
                        /\ r.created_at \in doc.completed_at..closes /\ r.created_at <= 0
                        /\ \A s \in others : s.author_id = r.target_id
                        /\ r.published <=> (others # {} \/ closes <= 0)
                        /\ r.reply => r.published
  BY DEF ReviewsLawful
<1>1. PICK k \in Numbers(AllOrders) : r.order_id = IdOf(k)
  BY DEF Contents, OrdersTrue, DoneOrders, Ids
<1>2. PICK o : o = AllOrders[k]
  OBVIOUS
<1>3. PICK S : S = SeedReviews(o, IdOf(k))
  OBVIOUS
<1>4. \A s : (s \in reviews /\ s.order_id = IdOf(k)) <=> s \in S
  BY <1>2, <1>3, ReviewsOfDeal
<1>5. {s \in reviews \ {r} : s.order_id = r.order_id} = S \ {r} /\ r \in S
  BY <1>1, <1>4
<1>6. PICK c, p, closes : /\ c = IdOf(o.owner) /\ p = PerformerOf(o)
                          /\ closes = DoneAt(o) + REVIEW_WINDOW_DAYS * Day
  OBVIOUS
<1>7. StatusOf(o) = "completed" /\ Fits(r, S \ {r}, c, p, DoneAt(o), closes)
  BY <1>2, <1>3, <1>5, <1>6, ReviewOfRecord
<1>8. /\ orders[r.order_id].status = StatusOf(o) /\ orders[r.order_id].user_id = c
      /\ orders[r.order_id].performer = p /\ orders[r.order_id].completed_at = DoneAt(o)
  BY <1>1, <1>2, <1>6, DocOfRecord
<1> QED BY <1>5, <1>6, <1>7, <1>8, Zenon DEF Fits

\* A whole set stays one.
WholeInv == ScriptInv /\ Stages /\ RealPlain /\ Whole

(* The invariant of the runs, step by step.                                  *)
LEMMA WholeInvInit ==
    ASSUME SeedParameters, MCInit
    PROVE  WholeInv
<1>1. ScriptInv /\ Stages
  BY InitSafe, StagesInit DEF MCInit
<1>2. RealPlain
  BY PlainInit DEF MCInit
<1>3. ~Fresh
  BY DEF MCInit, SeedInit, Fresh, Making
<1> QED BY <1>1, <1>2, <1>3 DEF WholeInv, Whole

LEMMA WholeInvStep ==
    ASSUME SeedParameters, LawfulData, WholeInv, [MCNext]_<<seedVars, ready, torn>>
    PROVE  WholeInv'
<1>1. ScriptInv /\ Stages /\ RealPlain /\ Whole
  BY DEF WholeInv
<1>2. ScriptInv' /\ RealDocs' = RealDocs
  BY <1>1, UsedSteps, EveryStepSafe
<1>3. Stages'
  BY <1>1, <1>2, StagesStep
<1>4. RealPlain'
  BY <1>1, <1>2, PlainStep
<1>5. Whole'
  BY <1>1, WholeStep
<1> QED BY <1>2, <1>3, <1>4, <1>5 DEF WholeInv

(* Where the last run has written the whole set.                             *)
LEMMA WhenReady ==
    ASSUME WholeInv, ready
    PROVE  pc = "idle" /\ run \in Nat /\ RealSafe /\ RealPlain /\ Contents
<1>1. pc = "idle"
  BY DEF WholeInv, Stages
<1> QED BY <1>1 DEF WholeInv, Whole, Fresh, ScriptInv, InLists

(* From nothing of the records but what SeedParameters and LawfulData say of *)
(* them, and for every number of runs and stops: when the last run has come  *)
(* to its end, the counters and the ratings on the documents of the set are  *)
(* those of its documents, and its reviews are open or hidden as the site    *)
(* would have them.                                                          *)
THEOREM Counted == MCSpec => []SeededCounters
<1> USE SeedAssumption, DataAssumption
<1>1. MCInit => WholeInv
  BY WholeInvInit
<1>2. WholeInv /\ [MCNext]_<<seedVars, ready, torn>> => WholeInv'
  BY WholeInvStep
<1>3. WholeInv => SeededCounters
  <2> SUFFICES ASSUME WholeInv, ready
               PROVE  CountersTrue /\ ReviewsLawful
    BY DEF SeededCounters
  <2>1. CountersTrue
    BY WhenReady, CountersOfWhole
  <2>2. ReviewsLawful
    BY WhenReady, ReviewsOfWhole
  <2> QED BY <2>1, <2>2
<1> QED BY <1>1, <1>2, <1>3, PTL DEF MCSpec

(***************************************************************************)
(* The deals of a whole set                                                *)
(***************************************************************************)
LEMMA ProposalFields ==
    ASSUME NEW o, NEW id, NEW m, m = ProposalOf(o, id)
    PROVE  /\ m.senderId = Proposer(o) /\ m.receiverId = Proposee(o)
           /\ m.kind = "cancel" /\ m.orderId = id /\ m.at = -o.cancel.age
           /\ m.status = IF o.cancel.outcome # "pending" THEN o.cancel.outcome ELSE Null
BY MessageKind DEF ProposalOf, ProposedAt

(* The proposals to cancel are those of the records.                         *)
LEMMA CancelsOfWhole ==
    ASSUME pc = "idle", Contents
    PROVE  /\ \A m \in messages : m.kind = "cancel" => \E k \in Numbers(AllOrders) :
                 /\ AllOrders[k].cancel.by # Null /\ Accepted(AllOrders[k]) # {}
                 /\ m = ProposalOf(AllOrders[k], IdOf(k))
           /\ \A k \in Numbers(AllOrders) :
                 AllOrders[k].cancel.by # Null /\ Accepted(AllOrders[k]) # {}
                 => ProposalOf(AllOrders[k], IdOf(k)) \in messages
<1>1. DoneOrders = Numbers(AllOrders) /\ CardsTrue
  BY DEF DoneOrders, Contents
<1>2. ASSUME NEW m \in messages, m.kind = "cancel"
      PROVE  \E k \in Numbers(AllOrders) :
                 /\ AllOrders[k].cancel.by # Null /\ Accepted(AllOrders[k]) # {}
                 /\ m = ProposalOf(AllOrders[k], IdOf(k))
  <2>1. PICK k \in Numbers(AllOrders) : m \in OrderMessages(AllOrders[k], IdOf(k))
    BY <1>1, <1>2 DEF CardsTrue
  <2>2. m \in CancelMessages(AllOrders[k], IdOf(k)) /\ m = ProposalOf(AllOrders[k], IdOf(k))
    BY <1>2, <2>1, OrderKinds
  <2> QED BY <2>2, CancelKinds
<1>3. ASSUME NEW k \in Numbers(AllOrders), AllOrders[k].cancel.by # Null, Accepted(AllOrders[k]) # {}
      PROVE  ProposalOf(AllOrders[k], IdOf(k)) \in messages
  <2>1. PICK o, id : o = AllOrders[k] /\ id = IdOf(k)
    OBVIOUS
  <2>2. ProposalOf(o, id) \in CancelMessages(o, id)
    BY <1>3, <2>1, Zenon DEF CancelMessages, ProposalOf, Proposer, Proposee
  <2>3. ProposalOf(o, id) \in OrderMessages(o, id)
    BY <2>2 DEF OrderMessages
  <2> QED BY <1>1, <2>1, <2>3 DEF CardsTrue
<1> QED BY <1>2, <1>3

(* The cards about one order.                                                *)
LEMMA CardsOfDeal ==
    ASSUME pc = "idle", Contents, NEW k \in Numbers(AllOrders), NEW m \in messages, m.orderId = IdOf(k)
    PROVE  /\ m.kind = "cancel" => /\ AllOrders[k].cancel.by # Null /\ Accepted(AllOrders[k]) # {}
                                   /\ m = ProposalOf(AllOrders[k], IdOf(k))
           /\ m.kind = "delivery" => /\ AllOrders[k].state = "completed"
                                     /\ \E j \in Accepted(AllOrders[k]) : m.at = DeliveredAt(AllOrders[k], j)
           /\ m.kind = "suggest" => \E i \in Numbers(SUGGESTS) :
                 SUGGESTS[i].order = k /\ m.senderId = IdOf(SUGGESTS[i].from)
<1>1. DoneOrders = Numbers(AllOrders) /\ CardsTrue
  BY DEF DoneOrders, Contents
<1>2. \A j : IdOf(j) = IdOf(k) => j = k
  BY DEF IdOf
<1>3. ASSUME m.kind = "cancel"
      PROVE  /\ AllOrders[k].cancel.by # Null /\ Accepted(AllOrders[k]) # {}
             /\ m = ProposalOf(AllOrders[k], IdOf(k))
  <2>1. PICK j \in Numbers(AllOrders) : /\ AllOrders[j].cancel.by # Null /\ Accepted(AllOrders[j]) # {}
                                        /\ m = ProposalOf(AllOrders[j], IdOf(j))
    BY <1>3, CancelsOfWhole
  <2>2. m.orderId = IdOf(j)
    BY <2>1, ProposalFields
  <2> QED BY <1>2, <2>1, <2>2
<1>4. ASSUME m.kind = "delivery"
      PROVE  /\ AllOrders[k].state = "completed"
             /\ \E j \in Accepted(AllOrders[k]) : m.at = DeliveredAt(AllOrders[k], j)
  <2>1. PICK i \in Numbers(AllOrders) : m \in OrderMessages(AllOrders[i], IdOf(i))
    BY <1>1, <1>4 DEF CardsTrue
  <2>2. m \in DeliveryMessages(AllOrders[i], IdOf(i))
    BY <1>4, <2>1, OrderKinds
  <2>3. AllOrders[i].state = "completed"
    BY <2>2, DeliveryKinds
  <2>4. PICK j \in Accepted(AllOrders[i]) : \/ m.orderId = IdOf(i) /\ m.at = DeliveredAt(AllOrders[i], j)
                                            \/ m.kind = "server"
    BY <2>2, DeliveryKinds
  <2>5. m.orderId = IdOf(i) /\ m.at = DeliveredAt(AllOrders[i], j)
    BY <1>4, <2>4
  <2> QED BY <1>2, <2>3, <2>5
<1>5. ASSUME m.kind = "suggest"
      PROVE  \E i \in Numbers(SUGGESTS) : SUGGESTS[i].order = k /\ m.senderId = IdOf(SUGGESTS[i].from)
  <2>1. PICK i \in Numbers(SUGGESTS) : m \in SuggestMessages(SUGGESTS[i])
    BY <1>1, <1>5 DEF CardsTrue
  <2>2. m.senderId = IdOf(SUGGESTS[i].from) /\ m.orderId = IdOf(SUGGESTS[i].order)
    BY <1>5, <2>1, SuggestKinds
  <2> QED BY <1>2, <2>2
<1> QED BY <1>3, <1>4, <1>5

(* What the status of an order says of the one who does the work.            *)
LEMMA StatesOfRecord ==
    ASSUME SeedParameters, LawfulData, run \in Nat, NEW k \in Numbers(AllOrders), NEW o, o = AllOrders[k]
    PROVE  /\ StatusOf(o) \in {"pending", "completed"} => PerformerOf(o) # Null
           /\ StatusOf(o) = "active" \/ o.state \in {"draft", "archived"} => PerformerOf(o) = Null
           /\ WorkerOf(o) = Null => (StatusOf(o) = "active" <=> o.state # "cancelled")
           /\ Accepted(o) # {} => StatusOf(o) = IF o.state \in {"completed", "cancelled"}
                                                THEN o.state ELSE "pending"
<1>1. PerformerOf(o) = Null <=> WorkerOf(o) = Null
  BY DealOfRecord
<1>2. Accepted(o) # {} => o.history = Null /\ WorkerOf(o) # Null
  BY DealOfRecord
<1>3. o.state \in {"draft", "archived"} => WorkerOf(o) = Null
  BY DEF LawfulData, LawfulState
<1>4. WorkerOf(o) # Null => StatusOf(o) # "active"
  BY DEF StatusOf
<1>5. WorkerOf(o) = Null => StatusOf(o) = IF o.state = "cancelled" THEN "cancelled" ELSE "active"
  BY DEF StatusOf
<1>6. Accepted(o) # {} => StatusOf(o) = IF o.state \in {"completed", "cancelled"} THEN o.state ELSE "pending"
  BY <1>2 DEF StatusOf
<1> QED BY <1>1, <1>3, <1>4, <1>5, <1>6

(* A proposal to cancel fits the state of its deal.                          *)
LEMMA ProposalOfRecord ==
    ASSUME SeedParameters, LawfulData, run \in Nat, NEW k \in Numbers(AllOrders), NEW o, o = AllOrders[k],
           o.cancel.by # Null, Accepted(o) # {}, NEW m, m = ProposalOf(o, IdOf(k))
    PROVE  /\ {m.senderId, m.receiverId} = {IdOf(o.owner), PerformerOf(o)}
           /\ m.status = Null       => StatusOf(o) = "pending"
           /\ m.status = "accepted" => StatusOf(o) = "cancelled"
           /\ m.status = Null <=> o.cancel.outcome = "pending"
<1>1. \/ o.cancel.outcome = "pending"  /\ o.state = "active"
      \/ o.cancel.outcome = "accepted" /\ o.state = "cancelled"
      \/ o.cancel.outcome = "rejected"
  BY DEF LawfulData, LawfulState
<1>2. /\ m.senderId = Proposer(o) /\ m.receiverId = Proposee(o)
      /\ m.status = IF o.cancel.outcome # "pending" THEN o.cancel.outcome ELSE Null
  BY ProposalFields
<1>3. Null # "accepted" /\ Null # "rejected"
  BY DEF SeedParameters, Apart
<1>4. m.status = Null <=> o.cancel.outcome = "pending"
  BY <1>1, <1>2, <1>3
<1>5. m.status = "accepted" => o.state = "cancelled"
  BY <1>1, <1>2, <1>3
<1>6. {m.senderId, m.receiverId} = {IdOf(o.owner), PerformerOf(o)}
  BY <1>2 DEF Proposer, Proposee
<1>7. StatusOf(o) = IF o.state \in {"completed", "cancelled"} THEN o.state ELSE "pending"
  BY StatesOfRecord
<1> QED BY <1>1, <1>4, <1>5, <1>6, <1>7

(* The parties of a deal of a whole set.                                     *)
LEMMA PartiesOfWhole ==
    ASSUME SeedParameters, LawfulData, run \in Nat, pc = "idle", Contents,
           NEW k \in Numbers(AllOrders), NEW doc, doc = orders[IdOf(k)]
    PROVE  /\ doc.status \in {"pending", "completed"} => doc.performer # Null
           /\ (doc.status = "active" \/ doc.draft \/ ~doc.is_active) => doc.performer = Null
           /\ doc.performer # Null => /\ doc.performer # doc.user_id
                                      /\ users[doc.performer].is_performer
                                      /\ users[doc.performer].is_verified
           /\ \A r \in responses : r.order_id = IdOf(k) => r.user_id # doc.user_id
<1>1. PICK o : o = AllOrders[k]
  OBVIOUS
<1>2. /\ doc.user_id = IdOf(o.owner) /\ doc.performer = PerformerOf(o) /\ doc.status = StatusOf(o)
      /\ doc.draft = (o.state = "draft") /\ doc.is_active = (o.state # "archived")
  BY <1>1, DocOfRecord
<1>3. doc.status \in {"pending", "completed"} => doc.performer # Null
  BY <1>1, <1>2, StatesOfRecord
<1>4. (doc.status = "active" \/ doc.draft \/ ~doc.is_active) => doc.performer = Null
  BY <1>1, <1>2, StatesOfRecord
<1>5. ASSUME doc.performer # Null
      PROVE  /\ doc.performer # doc.user_id
             /\ users[doc.performer].is_performer
             /\ users[doc.performer].is_verified
  <2>1. PerformerOf(o) = IdOf(WorkerOf(o)) /\ WorkerOf(o) \in Keys /\ doc.performer # doc.user_id
    BY <1>1, <1>2, <1>5, DealOfRecord
  <2>2. PICK i \in Numbers(USERS) : USERS[i].key = WorkerOf(o)
    BY <2>1 DEF Keys
  <2>3. doc.performer = NameOf(i)
    BY <1>2, <2>1, <2>2 DEF NameOf
  <2>4. USERS[i].performer
    BY <1>1, <2>2 DEF LawfulData, LawfulSides
  <2>5. users[NameOf(i)].is_verified = TRUE /\ users[NameOf(i)].is_performer = USERS[i].performer
    BY DEF Contents, UsersTrue, DoneUsers
  <2> QED BY <2>1, <2>3, <2>4, <2>5
<1>6. \A r \in responses : r.order_id = IdOf(k) => r.user_id # doc.user_id
  BY <1>1, <1>2 DEF Contents, AnswersTrue, AnswersTo, DoneOrders
<1> QED BY <1>3, <1>4, <1>5, <1>6

(* The cards of a deal of a whole set.                                       *)
LEMMA CardsOfWhole ==
    ASSUME SeedParameters, LawfulData, run \in Nat, pc = "idle", Contents,
           NEW k \in Numbers(AllOrders), NEW doc, doc = orders[IdOf(k)]
    PROVE  /\ Cardinality({m \in Cards(IdOf(k), "cancel") : m.status = Null}) <= 1
           /\ \A m \in Cards(IdOf(k), "cancel") :
               /\ {m.senderId, m.receiverId} = {doc.user_id, doc.performer}
               /\ m.status = Null       => doc.status = "pending"
               /\ m.status = "accepted" => doc.status = "cancelled"
           /\ \A m \in Cards(IdOf(k), "delivery") : doc.status = "completed" /\ m.at <= doc.completed_at
           /\ \A m \in Cards(IdOf(k), "suggest") : m.senderId = doc.user_id /\ Listed(doc)
<1>1. PICK o : o = AllOrders[k]
  OBVIOUS
<1>2. /\ doc.user_id = IdOf(o.owner) /\ doc.performer = PerformerOf(o) /\ doc.status = StatusOf(o)
      /\ doc.draft = (o.state = "draft") /\ doc.is_active = (o.state # "archived")
      /\ doc.completed_at = DoneAt(o)
  BY <1>1, DocOfRecord
<1>3. \A kind : \A m \in Cards(IdOf(k), kind) : m \in messages /\ m.kind = kind /\ m.orderId = IdOf(k)
  BY DEF Cards
<1>4. \A m \in Cards(IdOf(k), "cancel") : o.cancel.by # Null /\ Accepted(o) # {} /\ m = ProposalOf(o, IdOf(k))
  BY <1>1, <1>3, CardsOfDeal
<1>5. Cardinality({m \in Cards(IdOf(k), "cancel") : m.status = Null}) <= 1
  <2> DEFINE S == {m \in Cards(IdOf(k), "cancel") : m.status = Null}
  <2>1. Single(S)
    BY <1>4 DEF Single
  <2> HIDE DEF S
  <2>2. Cardinality(S) <= 1
    BY <2>1, OneAtMost
  <2> QED BY <2>2 DEF S
<1>6. ASSUME NEW m \in Cards(IdOf(k), "cancel")
      PROVE  /\ {m.senderId, m.receiverId} = {doc.user_id, doc.performer}
             /\ m.status = Null       => doc.status = "pending"
             /\ m.status = "accepted" => doc.status = "cancelled"
  <2>1. o.cancel.by # Null /\ Accepted(o) # {} /\ m = ProposalOf(o, IdOf(k))
    BY <1>4
  <2>2. /\ {m.senderId, m.receiverId} = {IdOf(o.owner), PerformerOf(o)}
        /\ m.status = Null       => StatusOf(o) = "pending"
        /\ m.status = "accepted" => StatusOf(o) = "cancelled"
    BY <1>1, <2>1, ProposalOfRecord
  <2> QED BY <1>2, <2>2
<1>7. ASSUME NEW m \in Cards(IdOf(k), "delivery")
      PROVE  doc.status = "completed" /\ m.at <= doc.completed_at
  <2>1. o.state = "completed" /\ \E j \in Accepted(o) : m.at = DeliveredAt(o, j)
    BY <1>1, <1>3, CardsOfDeal
  <2>2. PICK j \in Accepted(o) : m.at = DeliveredAt(o, j)
    BY <2>1
  <2>3. StatusOf(o) = "completed"
    BY <1>1, <2>1, <2>2, StatesOfRecord
  <2>4. /\ o.history = Null /\ DoneAt(o) = EndedAt(o)
        /\ j \in Nat /\ j = CHOOSE i \in Accepted(o) : TRUE
    BY <1>1, <2>3, DealOfRecord
  <2>5. DoneAt(o) = DeliveredAt(o, j) + 2 * Hour
    BY <2>4 DEF EndedAt, CompletedAt
  <2>6. {o.age, o.doneAge} \subseteq Nat
    BY <1>1 DEF LawfulData, LawfulTimes
  <2>7. DeliveredAt(o, j) \in Int
    BY <2>4, <2>6 DEF DeliveredAt, AnsweredAt, ResponseAt, Day, Hour
  <2>8. DeliveredAt(o, j) <= DoneAt(o)
    BY <2>5, <2>7 DEF Hour
  <2> QED BY <1>2, <2>2, <2>3, <2>8
<1>8. ASSUME NEW m \in Cards(IdOf(k), "suggest")
      PROVE  m.senderId = doc.user_id /\ Listed(doc)
  <2>1. PICK i \in Numbers(SUGGESTS) : SUGGESTS[i].order = k /\ m.senderId = IdOf(SUGGESTS[i].from)
    BY <1>3, CardsOfDeal
  <2>2. SUGGESTS[i].from = o.owner /\ o.state = "active" /\ WorkerOf(o) = Null
    BY <1>1, <2>1 DEF LawfulData, LawfulSuggest
  <2>3. StatusOf(o) = "active" /\ PerformerOf(o) = Null
    BY <1>1, <2>2, StatesOfRecord
  <2> QED BY <1>2, <2>1, <2>2, <2>3 DEF Listed
<1> QED BY <1>5, <1>6, <1>7, <1>8

(* Every deal of a whole set is lawful.                                      *)
LEMMA DealsOfWhole ==
    ASSUME SeedParameters, LawfulData, run \in Nat, pc = "idle", Contents
    PROVE  DealsLawful
<1> SUFFICES ASSUME NEW o \in TestOrders
             PROVE  LET doc == orders[o]
                    IN  /\ doc.status \in {"pending", "completed"} => doc.performer # Null
                        /\ (doc.status = "active" \/ doc.draft \/ ~doc.is_active) => doc.performer = Null
                        /\ doc.performer # Null => /\ doc.performer # doc.user_id
                                                   /\ users[doc.performer].is_performer
                                                   /\ users[doc.performer].is_verified
                        /\ Cardinality({m \in Cards(o, "cancel") : m.status = Null}) <= 1
                        /\ \A m \in Cards(o, "cancel") :
                            /\ {m.senderId, m.receiverId} = {doc.user_id, doc.performer}
                            /\ m.status = Null       => doc.status = "pending"
                            /\ m.status = "accepted" => doc.status = "cancelled"
                        /\ \A m \in Cards(o, "delivery") : doc.status = "completed" /\ m.at <= doc.completed_at
                        /\ \A m \in Cards(o, "suggest") : m.senderId = doc.user_id /\ Listed(doc)
                        /\ \A r \in responses : r.order_id = o => r.user_id # doc.user_id
  BY DEF DealsLawful
<1>1. PICK k \in Numbers(AllOrders) : o = IdOf(k)
  BY DEF Contents, OrdersTrue, DoneOrders, Ids
<1> QED BY <1>1, PartiesOfWhole, CardsOfWhole

(***************************************************************************)
(* The cases that a whole set shows                                        *)
(***************************************************************************)
(* There are as many orders as there are records.                            *)
LEMMA IdsCounted ==
    ASSUME SeedParameters, NEW K \in SUBSET Numbers(AllOrders)
    PROVE  /\ IsFiniteSet(K) /\ IsFiniteSet(Ids(K))
           /\ Cardinality(Ids(K)) = Cardinality(K) /\ Cardinality(K) \in Nat
<1> DEFINE f == [k \in K |-> IdOf(k)]
<1>1. Len(AllOrders) \in Nat
  BY DEF SeedParameters, Closed
<1>2. IsFiniteSet(1..Len(AllOrders))
  BY <1>1, FS_Interval
<1>3. IsFiniteSet(K)
  BY <1>2, FS_Subset DEF Numbers
<1>4. /\ f \in [K -> Ids(K)]
      /\ \A x, y \in K : f[x] = f[y] => x = y
      /\ \A y \in Ids(K) : \E x \in K : f[x] = y
  BY DEF Ids, IdOf
<1> HIDE DEF f
<1>5. IsFiniteSet(Ids(K)) /\ Cardinality(Ids(K)) = Cardinality(K)
  BY <1>3, <1>4, PairedOff
<1> QED BY <1>3, <1>5, FS_CardinalityType

(* What was offered in the records is listed.                                *)
LEMMA ListedOfWhole ==
    ASSUME SeedParameters, LawfulData, run \in Nat, pc = "idle", Contents
    PROVE  Cardinality({o \in TestOrders : Listed(orders[o])}) > 10
<1> DEFINE S == {o \in TestOrders : Listed(orders[o])}
<1>1. TestOrders = Ids(Numbers(AllOrders))
  BY DEF Contents, OrdersTrue, DoneOrders
<1>2. Ids(Offered) \subseteq S
  <2> SUFFICES ASSUME NEW k \in Offered
               PROVE  IdOf(k) \in TestOrders /\ Listed(orders[IdOf(k)])
    BY DEF Ids
  <2>1. k \in Numbers(AllOrders) /\ AllOrders[k].state = "active" /\ WorkerOf(AllOrders[k]) = Null
    BY DEF Offered
  <2>2. StatusOf(AllOrders[k]) = "active" /\ PerformerOf(AllOrders[k]) = Null
    BY <2>1, StatesOfRecord
  <2>3. Listed(orders[IdOf(k)])
    BY <2>1, <2>2, DocOfRecord DEF Listed
  <2> QED BY <1>1, <2>1, <2>3 DEF Ids
<1>3. IsFiniteSet(Ids(Numbers(AllOrders)))
  BY IdsCounted
<1>4. IsFiniteSet(S)
  BY <1>1, <1>3, FS_Subset
<1> HIDE DEF S
<1>5. Cardinality(Ids(Offered)) <= Cardinality(S) /\ Cardinality(S) \in Nat
  BY <1>2, <1>4, FS_Subset, FS_CardinalityType
<1>6. Offered \in SUBSET Numbers(AllOrders)
  BY DEF Offered
<1>7. Cardinality(Ids(Offered)) > 10 /\ Cardinality(Ids(Offered)) \in Nat
  BY <1>6, IdsCounted DEF LawfulData
<1>8. Cardinality(S) > 10
  BY <1>5, <1>7
<1> QED BY <1>8 DEF S

(* The open proposals are those of the records, the overdue one among them.  *)
LEMMA CancelsShown ==
    ASSUME SeedParameters, LawfulData, run \in Nat, pc = "idle", Contents
    PROVE  Cardinality(Overdue) = 1 /\ OpenCancels # Overdue
<1> DEFINE Card(k) == ProposalOf(AllOrders[k], IdOf(k))
           f == [k \in ProposedLong |-> Card(k)]
<1>1. ASSUME NEW k \in Proposed
      PROVE  /\ Card(k) \in OpenCancels /\ Card(k).orderId = IdOf(k)
             /\ -Card(k).at = AllOrders[k].cancel.age
  <2>1. /\ k \in Numbers(AllOrders) /\ AllOrders[k].cancel.by # Null
        /\ AllOrders[k].cancel.outcome = "pending" /\ Accepted(AllOrders[k]) # {}
    BY DEF Proposed
  <2>2. Card(k) \in messages
    BY <2>1, CancelsOfWhole
  <2>3. PICK o, m : o = AllOrders[k] /\ m = ProposalOf(o, IdOf(k))
    OBVIOUS
  <2>4. m.kind = "cancel" /\ m.orderId = IdOf(k) /\ m.at = -o.cancel.age /\ m.status = Null
    BY <2>1, <2>3, ProposalFields
  <2>5. o.cancel.age \in Nat
    BY <2>1, <2>3 DEF LawfulData, LawfulTimes
  <2>6. -m.at = o.cancel.age
    BY <2>4, <2>5
  <2> QED BY <2>2, <2>3, <2>4, <2>6 DEF OpenCancels
<1>2. ASSUME NEW m \in OpenCancels
      PROVE  \E k \in Proposed : m = Card(k)
  <2>1. m \in messages /\ m.kind = "cancel" /\ m.status = Null
    BY DEF OpenCancels
  <2>2. PICK k \in Numbers(AllOrders) : /\ AllOrders[k].cancel.by # Null /\ Accepted(AllOrders[k]) # {}
                                        /\ m = ProposalOf(AllOrders[k], IdOf(k))
    BY <2>1, CancelsOfWhole
  <2>3. AllOrders[k].cancel.outcome = "pending"
    BY <2>1, <2>2, ProposalOfRecord
  <2> QED BY <2>2, <2>3 DEF Proposed
<1> HIDE DEF Card
<1>3. \A k \in Proposed : Card(k) \in Overdue <=> k \in ProposedLong
  BY <1>1 DEF Overdue, ProposedLong
<1>4. ProposedLong \subseteq Proposed /\ Proposed \subseteq Numbers(AllOrders)
  BY DEF ProposedLong, Proposed
<1>5. /\ f \in [ProposedLong -> Overdue]
      /\ \A m \in Overdue : \E k \in ProposedLong : f[k] = m
  BY <1>2, <1>3, <1>4 DEF Overdue
<1>6. \A x, y \in ProposedLong : f[x] = f[y] => x = y
  BY <1>1, <1>4 DEF IdOf
<1>7. IsFiniteSet(ProposedLong)
  BY <1>4, IdsCounted
<1> HIDE DEF f
<1>8. Cardinality(Overdue) = Cardinality(ProposedLong)
  BY <1>5, <1>6, <1>7, PairedOff
<1>9. PICK k \in Proposed : k \notin ProposedLong
  BY <1>4 DEF LawfulData
<1>10. Card(k) \in OpenCancels /\ Card(k) \notin Overdue
  BY <1>1, <1>3, <1>9
<1> QED BY <1>8, <1>10 DEF LawfulData

(* A deal is still open to reviews exactly where its record says so.         *)
LEMMA OpenOfWhole ==
    ASSUME SeedParameters, LawfulData, run \in Nat, pc = "idle", Contents
    PROVE  StillOpen = Ids(JustEnded)
<1>1. TestOrders = Ids(Numbers(AllOrders))
  BY DEF Contents, OrdersTrue, DoneOrders
<1>2. ASSUME NEW k \in Numbers(AllOrders)
      PROVE  k \in JustEnded <=> /\ orders[IdOf(k)].status = "completed"
                                 /\ orders[IdOf(k)].completed_at + REVIEW_WINDOW_DAYS * Day > 0
  <2>1. PICK o : o = AllOrders[k]
    OBVIOUS
  <2>2. orders[IdOf(k)].status = StatusOf(o) /\ orders[IdOf(k)].completed_at = DoneAt(o)
    BY <2>1, DocOfRecord
  <2>3. /\ StatusOf(o) = "completed" <=> WorkerOf(o) # Null /\ o.state = "completed"
        /\ StatusOf(o) = "completed" => DoneAt(o) = EndedAt(o)
    BY <2>1, DealOfRecord
  <2> QED BY <2>1, <2>2, <2>3 DEF JustEnded
<1>3. JustEnded \subseteq Numbers(AllOrders)
  BY DEF JustEnded
<1> QED BY <1>1, <1>2, <1>3 DEF StillOpen, Ids

\* The review of a deal with one.
OnlyReview(k) == IF Given(AllOrders[k].byCustomer) THEN OfCustomer(AllOrders[k], IdOf(k))
                 ELSE OfPerformer(AllOrders[k], IdOf(k))

(* The hidden reviews are those of the records with one side's only.         *)
LEMMA HiddenOfWhole ==
    ASSUME SeedParameters, LawfulData, RealPlain, run \in Nat, pc = "idle", Contents
    PROVE  /\ \A k \in OneSided : OnlyReview(k) \in reviews /\ ~OnlyReview(k).published
           /\ \A r \in reviews : ~r.published => \E k \in OneSided : r = OnlyReview(k)
<1>1. ReviewsTrue /\ DoneOrders = Numbers(AllOrders)
  BY DEF Contents, DoneOrders
<1>2. ASSUME NEW k \in Numbers(AllOrders), StatusOf(AllOrders[k]) = "completed"
      PROVE  Published(AllOrders[k]) <=>
                 \/ Given(AllOrders[k].byCustomer) /\ Given(AllOrders[k].byPerformer)
                 \/ ~(k \in JustEnded)
  <2>1. PICK o : o = AllOrders[k]
    OBVIOUS
  <2>2. /\ WorkerOf(o) # Null /\ o.state = "completed"
        /\ DoneAt(o) = EndedAt(o) /\ EndedAt(o) \in Int
    BY <1>2, <2>1, DealOfRecord
  <2>3. EndedAt(o) + REVIEW_WINDOW_DAYS * Day \in Int
    BY <2>2 DEF SeedParameters, Day, Hour
  <2>4. k \in JustEnded <=> ~(EndedAt(o) + REVIEW_WINDOW_DAYS * Day <= 0)
    BY <2>1, <2>2, <2>3 DEF JustEnded
  <2> QED BY <2>1, <2>2, <2>4 DEF Published, Both, Given
<1>3. ASSUME NEW k \in OneSided
      PROVE  OnlyReview(k) \in reviews /\ ~OnlyReview(k).published
  <2>1. /\ k \in JustEnded /\ k \in Numbers(AllOrders)
        /\ Given(AllOrders[k].byCustomer) <=> ~Given(AllOrders[k].byPerformer)
    BY DEF OneSided, JustEnded, Given
  <2>2. StatusOf(AllOrders[k]) = "completed"
    BY <2>1, DealOfRecord DEF JustEnded
  <2>3. ~Published(AllOrders[k])
    BY <1>2, <2>1, <2>2
  <2>4. OnlyReview(k) \in SeedReviews(AllOrders[k], IdOf(k))
    BY <2>1, <2>2, TwoReviews DEF OnlyReview
  <2>5. ~OnlyReview(k).published
    BY <2>3, ReviewFields DEF OnlyReview, OfCustomer, OfPerformer
  <2> QED BY <1>1, <2>1, <2>4, <2>5 DEF ReviewsTrue
<1>4. ASSUME NEW r \in reviews, ~r.published
      PROVE  \E k \in OneSided : r = OnlyReview(k)
  <2>1. PICK k \in Numbers(AllOrders) : r \in SeedReviews(AllOrders[k], IdOf(k))
    BY <1>1, <1>4 DEF ReviewsTrue, RealPlain
  <2>2. /\ StatusOf(AllOrders[k]) = "completed"
        /\ \/ Given(AllOrders[k].byCustomer) /\ r = OfCustomer(AllOrders[k], IdOf(k))
           \/ Given(AllOrders[k].byPerformer) /\ r = OfPerformer(AllOrders[k], IdOf(k))
    BY <2>1, TwoReviews
  <2>3. ~Published(AllOrders[k])
    BY <1>4, <2>2, ReviewFields DEF OfCustomer, OfPerformer
  <2>4. k \in JustEnded /\ ~(Given(AllOrders[k].byCustomer) /\ Given(AllOrders[k].byPerformer))
    BY <1>2, <2>2, <2>3
  <2>5. k \in OneSided /\ r = OnlyReview(k)
    BY <2>2, <2>4 DEF OneSided, OnlyReview, Given
  <2> QED BY <2>5
<1> QED BY <1>3, <1>4

(* One review is hidden, of a deal still open to reviews.                    *)
LEMMA HiddenShown ==
    ASSUME SeedParameters, LawfulData, RealPlain, run \in Nat, pc = "idle", Contents
    PROVE  /\ {r.order_id : r \in {r \in reviews : ~r.published}} \subseteq StillOpen
           /\ Cardinality({r \in reviews : ~r.published}) = 1
<1> DEFINE f == [k \in OneSided |-> OnlyReview(k)]
           H == {r \in reviews : ~r.published}
<1>1. \A k : OnlyReview(k).order_id = IdOf(k)
  BY ReviewFields DEF OnlyReview, OfCustomer, OfPerformer
<1>2. OneSided \subseteq JustEnded /\ OneSided \subseteq Numbers(AllOrders)
  BY DEF OneSided, JustEnded
<1>3. /\ \A k \in OneSided : OnlyReview(k) \in H
      /\ \A r \in H : \E k \in OneSided : r = OnlyReview(k)
  BY HiddenOfWhole
<1> HIDE DEF H
<1>4. {r.order_id : r \in H} \subseteq StillOpen
  BY <1>1, <1>2, <1>3, OpenOfWhole DEF Ids
<1>5. /\ f \in [OneSided -> H] /\ \A r \in H : \E k \in OneSided : f[k] = r
      /\ \A x, y \in OneSided : f[x] = f[y] => x = y
  BY <1>1, <1>3 DEF IdOf
<1>6. IsFiniteSet(OneSided)
  BY <1>2, IdsCounted
<1> HIDE DEF f
<1>7. Cardinality(H) = 1
  BY <1>5, <1>6, PairedOff DEF LawfulData
<1> QED BY <1>4, <1>7 DEF H

(* Likewise the deals of the set are then deals the site could have made, and*)
(* show the cases that data.ts promises: what a record says of a deal        *)
(* survives the writes of the script, the answers of the users between the   *)
(* runs, and whatever the runs before it left behind.                        *)
THEOREM Dealt == MCSpec => []SeededDeals
<1> USE SeedAssumption, DataAssumption
<1>1. MCInit => WholeInv
  BY WholeInvInit
<1>2. WholeInv /\ [MCNext]_<<seedVars, ready, torn>> => WholeInv'
  BY WholeInvStep
<1>3. WholeInv => SeededDeals
  <2> SUFFICES ASSUME WholeInv, ready
               PROVE  DealsLawful /\ CasesShown
    BY DEF SeededDeals
  <2>1. pc = "idle" /\ run \in Nat /\ RealPlain /\ Contents
    BY WhenReady
  <2>2. DealsLawful
    BY <2>1, DealsOfWhole
  <2>3. Cardinality({o \in TestOrders : Listed(orders[o])}) > 10
    BY <2>1, ListedOfWhole
  <2>4. Cardinality(Overdue) = 1 /\ OpenCancels # Overdue
    BY <2>1, CancelsShown
  <2>5. Cardinality(StillOpen) = 2
    <3>1. JustEnded \in SUBSET Numbers(AllOrders)
      BY DEF JustEnded
    <3> QED BY <2>1, <3>1, IdsCounted, OpenOfWhole DEF LawfulData
  <2>6. /\ {r.order_id : r \in {r \in reviews : ~r.published}} \subseteq StillOpen
        /\ Cardinality({r \in reviews : ~r.published}) = 1
    BY <2>1, HiddenShown
  <2> QED BY <2>2, <2>3, <2>4, <2>5, <2>6 DEF CasesShown
<1> QED BY <1>1, <1>2, <1>3, PTL DEF MCSpec
=============================================================================
