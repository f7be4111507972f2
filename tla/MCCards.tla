------------------------------- MODULE MCCards -------------------------------
(* Cards for TLC. A behaviour has either two handlers at once and a process  *)
(* that may stop, or one handler at a time whose queries are answered. Each  *)
(* of the two has users, cards and handlers of its own: those of the first   *)
(* are interchangeable, and the graph of the second, on which liveness is    *)
(* checked, is not folded.                                                   *)
EXTENDS Cards, TLC

CONSTANTS RaceUser, RaceCard, RaceRequest,
          d1, d2, d3, d4   \* the other cards, issued in this order

\* One handler at a time: there is no other but those that overlap.
ASSUME SoloAssumption == \A r, s \in Request \ RaceRequest : r = s

VARIABLE solo

MCInit == Init /\ solo \in BOOLEAN

SoloCards == <<d1, d2, d3, d4>>

\* Only these users, cards and handlers take part, and a card is kept for each
\* handler that may come to send one.
Only(U, C, R) ==
    /\ \A o \in Order : customer'[o] \in U \union {None}
    /\ \A c \in Card  : c \in C \/ cards'[c] = Unsent
    /\ \A r \in Request : r \in R \/ req'[r] = Idle
    /\ \A r \in R : {req'[r].message.from, req'[r].message.to} \subseteq U \union {None}
    /\ \A i \in 1..3 : cards'[SoloCards[i + 1]] # Unsent => cards'[SoloCards[i]] # Unsent
    /\ Cardinality({r \in R : req'[r].pc \in {"checkOpen", "insert"}})
         <= Cardinality({c \in C : cards'[c].state = "unsent"})

MCNext == /\ UNCHANGED solo
          /\ \/ solo  /\ Serve /\ Only(User \ RaceUser, Card \ RaceCard, Request \ RaceRequest)
             \/ ~solo /\ Next  /\ Only(RaceUser, RaceCard, RaceRequest)

MCSpec == /\ MCInit /\ [][MCNext]_<<vars, solo>>
          /\ \A r \in Request \ RaceRequest : WF_vars(Step(r))

(* The rules that rest on the order of the queries of one handler.          *)
SoloReview   == solo => ReviewAnswerable
SoloDangling == solo => NoDanglingCards

(* A card is answered once, when handlers do not overlap.                   *)
SoloAnswers == [][solo => AnswersKeep]_vars

(* Work handed in reaches the customer as a card, while the process runs.   *)
SoloDelivery == \A o \in Order : (solo /\ status[o] = "review") ~>
    (OpenCards(o, {"delivery"}) # {} \/ status[o] # "review")

AllOps  == {"suggest", "respond", "finish", "propose", "answer", "force", "delete", "crash"}
LateOps == {"respond", "finish", "answer"}

Symmetry == Permutations(RaceUser) \union Permutations(RaceCard) \union Permutations(RaceRequest)
=============================================================================
