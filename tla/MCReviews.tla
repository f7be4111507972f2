------------------------------ MODULE MCReviews ------------------------------
(* Reviews for TLC. In a behaviour either both sides of one order and the    *)
(* timer are at work at once and the process may stop, or one handler runs   *)
(* at a time, over two orders with the same performer.                       *)
EXTENDS Reviews

CONSTANTS a, b, p, o1, r1, t1

VARIABLE solo

MCInit == Init /\ solo \in BOOLEAN

OneHandler == \A r \in Request \ {r1} : req'[r] = Idle

OneOrder == /\ \A o \in Order \ {o1} : window'[o] = "none"
            /\ \A rev \in Review : reply'[rev] \in {None, t1}
            /\ \A r \in Request : req'[r].text \in {None, t1}

MCNext == /\ UNCHANGED solo
          /\ Next
          /\ IF solo THEN OneHandler /\ UNCHANGED stops ELSE OneOrder

MCSpec == MCInit /\ [][MCNext]_<<vars, solo>> /\ Fairness

(* When handlers do not overlap, a profile shows the ratings of all the     *)
(* published reviews of its owner.                                          *)
SoloRating == solo => RatingExact

TwoCustomers == [o \in Order |-> IF o = o1 THEN a ELSE b]
OnePerformer == [o \in Order |-> p]
=============================================================================
