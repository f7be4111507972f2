----------------------------- MODULE CardsProofs -----------------------------
(* The answers on the deal cards, for every number of orders, users, cards   *)
(* and handlers in flight.                                                   *)
EXTENDS MCCards, Counting

(***************************************************************************)
(* What a step of the orders keeps                                         *)
(***************************************************************************)

(* The parties of an order and its end are for good.                        *)
Advances == \A o \in Order :
    /\ status[o] # "none" => customer'[o] = customer[o] /\ status'[o] # "none"
    /\ performer[o] # None => performer'[o] = performer[o]
    /\ status[o] \in {"completed", "cancelled"} => status'[o] = status[o]

(* A step of the order service on one order, as Deal allows it.             *)
LEMMA DealStep ==
    ASSUME D!TypeOK, DealParties, D!Next
    PROVE  D!TypeOK' /\ DealParties' /\ Advances
<1> USE DEF D!TypeOK, D!Stages
<1>n. None \notin User
  BY CardsAssumption
<1>1. PICK o \in Order :
         \/ \E u \in User : D!Post(o, u) \/ D!Agree(o, u)
         \/ D!HandIn(o) \/ D!SendBack(o) \/ D!Complete(o) \/ D!CallOff(o)
  BY DEF D!Next
<1>2. ASSUME NEW u \in User, D!Post(o, u)
      PROVE  D!TypeOK' /\ DealParties' /\ Advances
  BY <1>2, <1>n DEF D!Post, DealParties, Advances
<1>3. ASSUME NEW u \in User, D!Agree(o, u)
      PROVE  D!TypeOK' /\ DealParties' /\ Advances
  BY <1>3, <1>n DEF D!Agree, DealParties, Advances
<1>4. CASE D!HandIn(o)
  BY <1>4, <1>n DEF D!HandIn, D!Move, DealParties, Advances
<1>5. CASE D!SendBack(o)
  BY <1>5, <1>n DEF D!SendBack, D!Move, DealParties, Advances
<1>6. CASE D!Complete(o)
  BY <1>6, <1>n DEF D!Complete, D!Move, DealParties, Advances
<1>7. CASE D!CallOff(o)
  BY <1>7, <1>n DEF D!CallOff, D!Move, DealParties, Advances
<1> QED BY <1>1, <1>2, <1>3, <1>4, <1>5, <1>6, <1>7

LEMMA DealStill ==
    ASSUME D!TypeOK, DealParties, UNCHANGED deal
    PROVE  D!TypeOK' /\ DealParties' /\ Advances
BY DEF D!TypeOK, DealParties, Advances, deal

(* Whatever the orders do, a card keeps its parties and an acceptance stays *)
(* true.                                                                    *)
LEMMA CardKept ==
    ASSUME Advances
    PROVE  \A m \in CardDoc :
             /\ Between(m) => Between(m)'
             /\ Between(m) /\ Happened(m) => Happened(m)'
<1> SUFFICES ASSUME NEW m \in CardDoc, Between(m)
             PROVE  Between(m)' /\ (Happened(m) => Happened(m)')
  OBVIOUS
<1>n. None \notin User
  BY CardsAssumption
<1>1. /\ m.order \in Order /\ m.from \in User /\ m.to \in User /\ m.from # m.to
      /\ status[m.order] # "none"
  BY DEF Between
<1>2. customer'[m.order] = customer[m.order] /\ status'[m.order] # "none"
  BY <1>1 DEF Advances
<1>3. performer[m.order] \in User => performer'[m.order] = performer[m.order]
  BY <1>1, <1>n DEF Advances
<1>4. m.kind = "cancel" => performer[m.order] \in User
  BY <1>1 DEF Between
<1>5. Between(m)'
  BY <1>1, <1>2, <1>3, <1>4 DEF Between
<1>6. Happened(m) => Happened(m)'
  <2>1. PerformerOf(m) \in User
    BY <1>1 DEF PerformerOf
  <2>2. status[m.order] \in {"completed", "cancelled"} => status'[m.order] = status[m.order]
    BY <1>1 DEF Advances
  <2> QED BY <1>3, <2>1, <2>2 DEF Happened, PerformerOf
<1> QED BY <1>5, <1>6

(***************************************************************************)
(* The same for a card in the collection and for one about to be sent      *)
(***************************************************************************)
Restated(c) ==
    /\ cards'[c].kind = cards[c].kind
    /\ cards'[c].order = cards[c].order
    /\ cards'[c].from = cards[c].from
    /\ cards'[c].to = cards[c].to

LEMMA StoredKept ==
    ASSUME Advances, NEW c \in Card, cards[c] \in CardDoc, Between(cards[c]), Restated(c)
    PROVE  /\ Between(cards[c])'
           /\ Happened(cards[c]) => Happened(cards[c])'
<1>1. PICK m \in CardDoc : m = cards[c]
  OBVIOUS
<1>2. Between(m) /\ (Happened(cards[c]) => Happened(m))
  BY <1>1
<1>3. Between(m)' /\ (Happened(m) => Happened(m)')
  BY <1>2, CardKept
<1>4. /\ cards'[c].kind = m.kind /\ cards'[c].order = m.order
      /\ cards'[c].from = m.from /\ cards'[c].to = m.to
  BY <1>1 DEF Restated
<1>5. Between(m)' => Between(cards[c])'
  BY <1>4 DEF Between
<1>6. Happened(m)' => Happened(cards[c])'
  BY <1>4 DEF Happened, PerformerOf
<1> QED BY <1>2, <1>3, <1>5, <1>6

LEMMA MessageKept ==
    ASSUME Advances, NEW r \in Request, req[r].message \in CardDoc,
           Between(req[r].message), req'[r].message = req[r].message
    PROVE  Between(req[r].message)'
<1>1. PICK m \in CardDoc : m = req[r].message
  OBVIOUS
<1>2. Between(m)'
  BY <1>1, CardKept
<1> QED BY <1>1, <1>2 DEF Between

(***************************************************************************)
(* What a step must do for the invariant to hold after it                  *)
(***************************************************************************)

(* A card may be issued, open and between the right two users, or answered; *)
(* it is accepted only by a handler that moved its order.                   *)
CardsAdvance == \A c \in Card :
    /\ cards[c].state = "unsent" =>
         cards'[c] = cards[c] \/ (cards'[c].state = "open" /\ Between(cards[c])')
    /\ cards[c].state # "unsent" => Restated(c) /\ cards'[c].state # "unsent"
    /\ cards'[c].state = "accepted" =>
         \/ cards[c].state = "accepted"
         \/ \E r \in Request : Accepting(r) /\ req[r].card = c

(* A handler that stays where it was remembers what is still true.          *)
LEMMA RememberedStill ==
    ASSUME IInv, Advances, CardsAdvance, NEW q \in Request, req'[q] = req[q]
    PROVE  Remembers(q)'
<1> USE DEF IInv
<1>t. req[q] \in Req /\ cards \in [Card -> CardDoc]
  BY DEF TypeOK
<1>r. Remembers(q)
  BY DEF InFlight
<1>1. (req[q].pc \in {"checkOpen", "insert"} =>
         req[q].message.state = "open" /\ Between(req[q].message))'
  BY <1>t, <1>r, MessageKept DEF Remembers, Req
<1>2. (req[q].pc \in {"move", "mark", "find", "close", "delete"} =>
         req[q].card \in Card /\ cards[req[q].card].state # "unsent")'
  BY <1>r DEF Remembers, CardsAdvance
<1>3. (Accepting(q) => Happened(cards[req[q].card]))'
  <2> SUFFICES ASSUME Accepting(q)
               PROVE  Happened(cards[req[q].card])'
    BY DEF Accepting, At
  <2> DEFINE c == req[q].card
  <2>1. c \in Card /\ cards[c].state # "unsent" /\ Happened(cards[c])
    BY <1>r DEF Remembers, Accepting, At
  <2>2. Between(cards[c]) /\ Restated(c)
    BY <2>1 DEF Parties, CardsAdvance
  <2>3. PICK d \in Card : d = c
    BY <2>1
  <2>4. Happened(cards[d])'
    BY <1>t, <2>1, <2>2, <2>3, StoredKept
  <2>5. d = req'[q].card
    BY <2>3
  <2> QED BY <2>4, <2>5
<1>4. (\A c \in req[q].closing : cards[c].state # "unsent")'
  BY <1>t, <1>r DEF Remembers, CardsAdvance, Req
<1> QED BY <1>1, <1>2, <1>3, <1>4 DEF Remembers

LEMMA FactsKept ==
    ASSUME IInv, Advances, CardsAdvance
    PROVE  Parties' /\ AcceptedTruth'
<1> USE DEF IInv
<1>t. cards \in [Card -> CardDoc]
  BY DEF TypeOK
<1>1. ASSUME NEW c \in Card, (cards[c].state # "unsent")'
      PROVE  Between(cards[c])'
  <2>1. CASE cards[c].state = "unsent"
    BY <1>1, <2>1 DEF CardsAdvance
  <2>2. CASE cards[c].state # "unsent"
    BY <1>t, <2>2, StoredKept DEF CardsAdvance, Parties
  <2> QED BY <2>1, <2>2
<1>2. ASSUME NEW c \in Card, (cards[c].state = "accepted")'
      PROVE  Happened(cards[c])'
  <2>1. cards[c].state # "unsent"
    BY <1>2 DEF CardsAdvance
  <2>2. CASE cards[c].state = "accepted"
    BY <1>t, <2>1, <2>2, StoredKept DEF CardsAdvance, Parties, AcceptedTruth
  <2>3. ASSUME NEW r \in Request, Accepting(r), req[r].card = c
        PROVE  Happened(cards[c])'
    <3>1. Happened(cards[c])
      BY <2>3 DEF InFlight, Remembers
    <3> QED BY <1>t, <2>1, <3>1, StoredKept DEF CardsAdvance, Parties
  <2> QED BY <1>2, <2>2, <2>3 DEF CardsAdvance
<1> QED BY <1>1, <1>2 DEF Parties, AcceptedTruth

LEMMA WinnerKept ==
    ASSUME IInv, Advances, CardsAdvance, \A c \in Card : Winning(c)' => Winning(c)
    PROVE  OneWinning'
<1>1. \A c \in Card : Winning(c)' => Winning(c) /\ cards'[c].order = cards[c].order
  BY DEF Winning, CardsAdvance, Restated
<1>2. \A c \in Card : Winning(c) => cards[c].order \in Order
  BY DEF Winning, IInv, Parties, Between
<1>3. \A c \in Card : Winning(c) => performer'[cards[c].order] # None
  BY <1>2 DEF IInv, OneWinning, Advances
<1> SUFFICES ASSUME NEW c \in Card, Winning(c)'
             PROVE  /\ performer'[cards'[c].order] # None
                    /\ \A d \in Card : Winning(d)' /\ cards'[d].order = cards'[c].order => d = c
  BY DEF OneWinning
<1> QED BY <1>1, <1>3 DEF IInv, OneWinning

(* A step that agrees with nobody: a handler that moves remembers only what *)
(* is true, and accepts no offer.                                           *)
LEMMA StepKeeps ==
    ASSUME IInv, Advances, CardsAdvance, TypeOK', DealParties',
           \A q \in Request :
             \/ req'[q] = req[q]
             \/ Remembers(q)' /\ (Accepting(q)' => cards'[req'[q].card].kind \notin Offers)
    PROVE  IInv'
<1>1. InFlight'
  BY RememberedStill DEF InFlight
<1>2. ASSUME NEW c \in Card, Winning(c)'
      PROVE  Winning(c)
  <2>1. ASSUME NEW q \in Request, Accepting(q)', req'[q].card = c
        PROVE  Winning(c)
    <3>1. req'[q] = req[q]
      BY <1>2, <2>1 DEF Winning
    <3>2. Accepting(q) /\ req[q].card = c
      BY <2>1, <3>1 DEF Accepting, At
    <3>3. cards[c].state # "unsent"
      BY <3>2 DEF IInv, InFlight, Remembers, Accepting, At
    <3> QED BY <1>2, <3>2, <3>3 DEF Winning, CardsAdvance, Restated
  <2>2. CASE cards'[c].state = "accepted"
    <3>1. cards[c].state # "unsent"
      BY <2>2 DEF CardsAdvance
    <3> QED BY <1>2, <2>2, <3>1 DEF Winning, CardsAdvance, Restated
  <2> QED BY <1>2, <2>1, <2>2 DEF Winning
<1>3. OneWinning'
  BY <1>2, WinnerKept
<1> QED BY <1>1, <1>3, FactsKept DEF IInv

(* The cards as they were.                                                  *)
LEMMA CardsStill ==
    ASSUME IInv, cards' = cards
    PROVE  CardsAdvance
BY DEF CardsAdvance, Restated

(* A new handler, or one that ends or goes on, beside all the others.       *)
Beside(r) == \A q \in Request : q # r => req'[q] = req[q]

LEMMA OneHandler ==
    ASSUME IInv, Advances, CardsAdvance, TypeOK', DealParties',
           NEW r \in Request, Beside(r), Remembers(r)',
           Accepting(r)' => cards'[req'[r].card].kind \notin Offers
    PROVE  IInv'
BY StepKeeps DEF Beside

LEMMA IdleRemembers ==
    ASSUME NEW r \in Request, req'[r] = Idle
    PROVE  Remembers(r)' /\ ~Accepting(r)'
BY DEF Idle, Remembers, Accepting, At

LEMMA HandlerStep ==
    ASSUME IInv, Advances, D!TypeOK', DealParties', CardsAdvance,
           cards' \in [Card -> CardDoc], overdue' = overdue,
           NEW r \in Request, NEW h \in Req, req' = [req EXCEPT ![r] = h], Remembers(r)',
           Accepting(r)' => cards'[h.card].kind \notin Offers
    PROVE  IInv'
<1>1. TypeOK' /\ Beside(r) /\ req'[r] = h
  BY DEF IInv, TypeOK, Beside
<1> QED BY <1>1, OneHandler

LEMMA IdleReq == Idle \in Req /\ Idle.closing = {}
BY DEF Idle, Req, Steps, Unsent, CardDoc, States, Kinds, Offers

LEMMA SendingReq ==
    ASSUME NEW s \in Steps, NEW m \in CardDoc
    PROVE  /\ Sending(s, m) \in Req
           /\ Sending(s, m).pc = s /\ Sending(s, m).message = m /\ Sending(s, m).closing = {}
BY IdleReq DEF Sending, Req

LEMMA AnsweringReq ==
    ASSUME NEW s \in Steps, NEW c \in Card, NEW a \in {"accepted", "rejected"}
    PROVE  /\ Answering(s, c, a) \in Req
           /\ Answering(s, c, a).pc = s /\ Answering(s, c, a).card = c
           /\ Answering(s, c, a).answer = a /\ Answering(s, c, a).closing = {}
BY IdleReq DEF Answering, Req

(***************************************************************************)
(* One lemma for each action                                               *)
(***************************************************************************)
LEMMA SendStarts ==
    ASSUME IInv, Advances, D!TypeOK', DealParties', UNCHANGED <<cards, overdue>>,
           NEW r \in Request, NEW s \in {"checkOpen", "insert"},
           NEW m \in CardDoc, m.state = "open", Between(m),
           req' = [req EXCEPT ![r] = Sending(s, m)]
    PROVE  IInv'
<1>1. Between(m)'
  BY CardKept
<1>2. Sending(s, m) \in Req
  BY SendingReq DEF Steps
<1>3. req'[r] = Sending(s, m)
  BY DEF IInv, TypeOK
<1>4. /\ req'[r].pc = s /\ req'[r].message = m /\ req'[r].closing = {}
      /\ ~Accepting(r)'
  BY <1>3, SendingReq DEF Steps, Accepting, At
<1>5. Remembers(r)'
  <2> s \in {"checkOpen", "insert"} /\ s \notin {"move", "mark", "find", "close", "delete"}
    OBVIOUS
  <2>1. Between(req[r].message)'
    BY <1>1, <1>4 DEF Between
  <2> QED BY <1>4, <2>1 DEF Remembers
<1>6. CardsAdvance
  BY CardsStill
<1>7. cards' \in [Card -> CardDoc]
  BY DEF IInv, TypeOK
<1> QED BY <1>2, <1>4, <1>5, <1>6, <1>7, HandlerStep

LEMMA AnswerStarts ==
    ASSUME IInv, UNCHANGED <<customer, status, performer, cards, overdue>>,
           NEW r \in Request, NEW s \in {"move", "mark", "delete"},
           NEW c \in Card, NEW a \in {"accepted", "rejected"}, IsOpen(c),
           ~(s = "mark" /\ a = "accepted"),
           req' = [req EXCEPT ![r] = Answering(s, c, a)]
    PROVE  IInv'
<1>1. Advances /\ D!TypeOK' /\ DealParties'
  BY DealStill DEF IInv, TypeOK, deal
<1>2. Answering(s, c, a) \in Req
  BY AnsweringReq DEF Steps
<1>3. req'[r] = Answering(s, c, a)
  BY DEF IInv, TypeOK
<1>4. /\ req'[r].pc = s /\ req'[r].card = c /\ req'[r].closing = {}
      /\ ~Accepting(r)'
  BY <1>3, AnsweringReq DEF Steps, Accepting, At
<1>5. Remembers(r)'
  <2> s \notin {"checkOpen", "insert"}
    OBVIOUS
  <2> QED BY <1>4 DEF Remembers, IsOpen
<1>6. CardsAdvance
  BY CardsStill
<1>7. cards' \in [Card -> CardDoc]
  BY DEF IInv, TypeOK
<1> QED BY <1>1, <1>2, <1>4, <1>5, <1>6, <1>7, HandlerStep

LEMMA MessageDoc ==
    ASSUME NEW k \in Kinds, NEW o \in Order, NEW u \in User, NEW v \in User
    PROVE  /\ Message(k, o, u, v) \in CardDoc
           /\ Message(k, o, u, v).state = "open" /\ Message(k, o, u, v).kind = k
           /\ Message(k, o, u, v).order = o
           /\ Message(k, o, u, v).from = u /\ Message(k, o, u, v).to = v
BY DEF Message, CardDoc, States

LEMMA StillDeal ==
    ASSUME IInv, UNCHANGED <<customer, status, performer>>
    PROVE  Advances /\ D!TypeOK' /\ DealParties'
BY DealStill DEF IInv, TypeOK, deal

LEMMA SuggestStep ==
    ASSUME IInv, NEW r \in Request, NEW o \in Order, NEW u \in User, NEW v \in User,
           SuggestOrder(r, o, u, v)
    PROVE  IInv'
<1> DEFINE m == Message("suggest", o, u, v)
<1>1. m \in CardDoc /\ m.state = "open" /\ Between(m)
  <2>1. "suggest" \in Kinds
    BY DEF Kinds, Offers
  <2> QED BY <2>1, MessageDoc DEF SuggestOrder, Between
<1>2. Advances /\ D!TypeOK' /\ DealParties'
  BY StillDeal DEF SuggestOrder
<1>3. req' = [req EXCEPT ![r] = Sending("insert", m)] /\ UNCHANGED <<cards, overdue>>
  BY DEF SuggestOrder, Begin
<1> HIDE DEF m
<1> QED BY <1>1, <1>2, <1>3, SendStarts

LEMMA ResponseStep ==
    ASSUME IInv, NEW r \in Request, NEW o \in Order, NEW u \in User, PostResponse(r, o, u)
    PROVE  IInv'
<1>1. customer[o] \in User
  BY DEF PostResponse, IInv, DealParties
<1>2. PICK v \in User : v = customer[o]
  BY <1>1
<1> DEFINE m == Message("response", o, u, v)
<1>3. m \in CardDoc /\ m.state = "open" /\ Between(m)
  <2>1. "response" \in Kinds
    BY DEF Kinds, Offers
  <2> QED BY <1>2, <2>1, MessageDoc DEF PostResponse, Between
<1>4. Advances /\ D!TypeOK' /\ DealParties'
  BY StillDeal DEF PostResponse
<1>5. req' = [req EXCEPT ![r] = Sending("insert", m)] /\ UNCHANGED <<cards, overdue>>
  BY <1>2 DEF PostResponse, Begin
<1> HIDE DEF m
<1> QED BY <1>3, <1>4, <1>5, SendStarts

LEMMA FinishStep ==
    ASSUME IInv, NEW r \in Request, NEW o \in Order, FinishOrder(r, o)
    PROVE  IInv'
<1>1. D!HandIn(o) /\ status[o] = "pending"
  BY DEF FinishOrder, D!HandIn, D!Move
<1>2. customer[o] \in User /\ performer[o] \in User /\ performer[o] # customer[o]
  BY <1>1, CardsAssumption DEF IInv, DealParties
<1>3. PICK u \in User, v \in User : u = performer[o] /\ v = customer[o]
  BY <1>2
<1> DEFINE m == Message("delivery", o, u, v)
<1>4. m \in CardDoc /\ m.state = "open" /\ Between(m)
  <2>1. "delivery" \in Kinds
    BY DEF Kinds
  <2> QED BY <1>1, <1>2, <1>3, <2>1, MessageDoc DEF Between
<1>5. Advances /\ D!TypeOK' /\ DealParties'
  BY <1>1, DealStep DEF IInv, TypeOK, D!Next
<1>6. req' = [req EXCEPT ![r] = Sending("insert", m)] /\ UNCHANGED <<cards, overdue>>
  BY <1>3 DEF FinishOrder, Begin
<1> HIDE DEF m
<1> QED BY <1>4, <1>5, <1>6, SendStarts

LEMMA ProposeStep ==
    ASSUME IInv, NEW r \in Request, NEW o \in Order, NEW u \in User, NEW v \in User,
           ProposeCancel(r, o, u, v)
    PROVE  IInv'
<1> DEFINE m == Message("cancel", o, u, v)
<1>1. u # v /\ status[o] # "none" /\ {u, v} = {customer[o], performer[o]}
  <2>1. performer[o] \in User
    BY DEF ProposeCancel, IInv, DealParties
  <2> QED BY <2>1, CardsAssumption DEF ProposeCancel, IInv, DealParties
<1>2. m \in CardDoc /\ m.state = "open" /\ Between(m)
  <2>1. "cancel" \in Kinds
    BY DEF Kinds
  <2> QED BY <1>1, <2>1, MessageDoc DEF Between
<1>3. Advances /\ D!TypeOK' /\ DealParties'
  BY StillDeal DEF ProposeCancel
<1>4. req' = [req EXCEPT ![r] = Sending("checkOpen", m)] /\ UNCHANGED <<cards, overdue>>
  BY DEF ProposeCancel, Begin
<1> HIDE DEF m
<1> QED BY <1>2, <1>3, <1>4, SendStarts

LEMMA AnswerStep ==
    ASSUME IInv, NEW r \in Request, NEW c \in Card,
           \/ \E a \in {"accepted", "rejected"} : AnswerCard(r, c, a)
           \/ ForceCancel(r, c) \/ DeleteMessage(r, c)
    PROVE  IInv'
<1>1. ASSUME NEW a \in {"accepted", "rejected"}, AnswerCard(r, c, a)
      PROVE  IInv'
  <2>1. PICK s \in {"move", "mark", "delete"} :
           s = IF a = "accepted" \/ cards[c].kind = "delivery" THEN "move" ELSE "mark"
    OBVIOUS
  <2>2. ~(s = "mark" /\ a = "accepted")
    BY <2>1
  <2>3. /\ IsOpen(c) /\ req' = [req EXCEPT ![r] = Answering(s, c, a)]
        /\ UNCHANGED <<customer, status, performer, cards, overdue>>
    BY <1>1, <2>1 DEF AnswerCard, Begin
  <2> QED BY <2>2, <2>3, AnswerStarts
<1>2. CASE ForceCancel(r, c)
  <2>1. /\ IsOpen(c) /\ req' = [req EXCEPT ![r] = Answering("move", c, "accepted")]
        /\ UNCHANGED <<customer, status, performer, cards, overdue>>
    BY <1>2 DEF ForceCancel, Begin
  <2> QED BY <2>1, AnswerStarts
<1>3. CASE DeleteMessage(r, c)
  <2>1. /\ IsOpen(c) /\ req' = [req EXCEPT ![r] = Answering("delete", c, "rejected")]
        /\ UNCHANGED <<customer, status, performer, cards, overdue>>
    BY <1>3 DEF DeleteMessage, Begin
  <2> QED BY <2>1, AnswerStarts
<1> QED BY <1>1, <1>2, <1>3

LEMMA OutsideStep ==
    ASSUME IInv,
           \/ \E o \in Order : CancelOrder(o) \/ \E u \in User : PostOrder(o, u)
           \/ \E c \in Card : DaysPass(c)
           \/ Crash
           \/ UNCHANGED vars
    PROVE  IInv'
<1> USE DEF IInv, TypeOK
<1>1. ASSUME NEW o \in Order, NEW u \in User, PostOrder(o, u)
      PROVE  IInv'
  <2>1. D!Next /\ UNCHANGED <<cards, overdue, req>>
    BY <1>1 DEF PostOrder, D!Next
  <2> QED BY <2>1, DealStep, CardsStill, StepKeeps
<1>2. ASSUME NEW o \in Order, CancelOrder(o)
      PROVE  IInv'
  <2>1. D!Next /\ UNCHANGED <<cards, overdue, req>>
    BY <1>2 DEF CancelOrder, D!Next
  <2> QED BY <2>1, DealStep, CardsStill, StepKeeps
<1>3. ASSUME NEW c \in Card, DaysPass(c)
      PROVE  IInv'
  <2>1. UNCHANGED <<customer, status, performer, cards, req>> /\ overdue' \in SUBSET Card
    BY <1>3 DEF DaysPass
  <2> QED BY <2>1, StillDeal, CardsStill, StepKeeps
<1>4. CASE Crash
  <2>1. UNCHANGED <<customer, status, performer, cards, overdue>>
    BY <1>4 DEF Crash
  <2>2. req' \in [Request -> Req] /\ \A q \in Request : Remembers(q)' /\ ~Accepting(q)'
    BY <1>4, IdleReq, IdleRemembers DEF Crash
  <2> QED BY <2>1, <2>2, StillDeal, CardsStill, StepKeeps
<1>5. CASE UNCHANGED vars
  <2>1. UNCHANGED <<customer, status, performer, cards, overdue, req>>
    BY <1>5 DEF vars
  <2> QED BY <2>1, StillDeal, CardsStill, StepKeeps
<1> QED BY <1>1, <1>2, <1>3, <1>4, <1>5

(* A handler that ends.                                                     *)
LEMMA FinishKeeps ==
    ASSUME IInv, Advances, D!TypeOK', DealParties', CardsAdvance,
           cards' \in [Card -> CardDoc], overdue' = overdue,
           NEW r \in Request, Finish(r)
    PROVE  IInv'
<1>1. req' = [req EXCEPT ![r] = Idle] /\ req'[r] = Idle
  BY DEF Finish, IInv, TypeOK
<1> QED BY <1>1, IdleReq, IdleRemembers, HandlerStep

(* A handler that goes on to the query it comes to next.                    *)
Onward(r, s) ==
    /\ Goto(r, s)
    /\ \/ req[r].pc = "checkOpen" /\ s = "insert"
       \/ req[r].pc = "move" /\ s = "mark"
       \/ req[r].pc = "mark" /\ s = "find"

LEMMA OnwardReq ==
    ASSUME IInv, NEW r \in Request, NEW s \in Steps, Goto(r, s)
    PROVE  /\ req' \in [Request -> Req] /\ Beside(r)
           /\ req'[r].pc = s /\ req'[r].card = req[r].card /\ req'[r].answer = req[r].answer
           /\ req'[r].message = req[r].message /\ req'[r].closing = req[r].closing
BY DEF IInv, TypeOK, Goto, Beside, Req

LEMMA OnwardRemembers ==
    ASSUME IInv, Advances, CardsAdvance, NEW r \in Request, NEW s \in Steps, Onward(r, s),
           s = "mark" /\ req[r].answer = "accepted" => Happened(cards[req[r].card])'
    PROVE  Remembers(r)'
<1>t. req[r] \in Req
  BY DEF IInv, TypeOK
<1>3. /\ req'[r].pc = s /\ req'[r].card = req[r].card /\ req'[r].answer = req[r].answer
      /\ req'[r].message = req[r].message /\ req'[r].closing = req[r].closing
  BY OnwardReq DEF Onward
<1>r. Remembers(r)
  BY DEF IInv, InFlight
<1>1. (req[r].pc \in {"checkOpen", "insert"} =>
         req[r].message.state = "open" /\ Between(req[r].message))'
  <2>1. req'[r].pc \in {"checkOpen", "insert"} => req[r].pc \in {"checkOpen", "insert"}
    BY <1>3 DEF Onward
  <2>2. req[r].message \in CardDoc
    BY <1>t DEF Req
  <2> QED BY <1>3, <1>r, <2>1, <2>2, MessageKept DEF Remembers
<1>2. (req[r].pc \in {"move", "mark", "find", "close", "delete"} =>
         req[r].card \in Card /\ cards[req[r].card].state # "unsent")'
  BY <1>3, <1>r DEF Remembers, CardsAdvance, Onward
<1>4. (Accepting(r) => Happened(cards[req[r].card]))'
  <2>1. PICK c : c = req[r].card
    OBVIOUS
  <2>2. Accepting(r)' => Happened(cards[c])'
    BY <1>3, <2>1 DEF Accepting, At, Happened, PerformerOf
  <2> QED BY <1>3, <2>1, <2>2 DEF Happened, PerformerOf
<1>5. (\A c \in req[r].closing : cards[c].state # "unsent")'
  <2>1. req[r].closing \in SUBSET Card
    BY <1>t DEF Req
  <2> QED BY <1>3, <1>r, <2>1 DEF Remembers, CardsAdvance
<1> QED BY <1>1, <1>2, <1>4, <1>5 DEF Remembers

LEMMA OnwardKeeps ==
    ASSUME IInv, Advances, D!TypeOK', DealParties', CardsAdvance,
           cards' \in [Card -> CardDoc], overdue' = overdue,
           NEW r \in Request, NEW s \in Steps, Onward(r, s),
           s = "mark" /\ req[r].answer = "accepted" =>
             Happened(cards[req[r].card])' /\ cards'[req[r].card].kind \notin Offers
    PROVE  IInv'
<1>1. Remembers(r)'
  BY OnwardRemembers
<1>2. TypeOK' /\ Beside(r) /\ (Accepting(r)' => cards'[req'[r].card].kind \notin Offers)
  BY OnwardReq DEF IInv, TypeOK, Onward, Accepting, At
<1> QED BY <1>1, <1>2, OneHandler

LEMMA CheckOpenStep ==
    ASSUME IInv, NEW r \in Request, CheckOpen(r)
    PROVE  IInv'
<1>1. Advances /\ D!TypeOK' /\ DealParties' /\ CardsAdvance
  BY StillDeal, CardsStill DEF CheckOpen
<1>2. cards' \in [Card -> CardDoc] /\ overdue' = overdue
  BY DEF CheckOpen, IInv, TypeOK
<1>3. Finish(r) \/ (Onward(r, "insert") /\ "insert" \in Steps)
  BY DEF CheckOpen, Onward, At, Steps
<1> QED BY <1>1, <1>2, <1>3, FinishKeeps, OnwardKeeps

LEMMA InsertStep ==
    ASSUME IInv, NEW r \in Request, NEW c \in Card, Insert(r, c)
    PROVE  IInv'
<1>1. Advances /\ D!TypeOK' /\ DealParties'
  BY StillDeal DEF Insert
<1>2. /\ req[r].message \in CardDoc /\ req[r].message.state = "open"
      /\ Between(req[r].message)
  BY DEF Insert, At, IInv, TypeOK, Req, InFlight, Remembers
<1>3. PICK m \in CardDoc : m = req[r].message
  BY <1>2
<1>4. Between(m)'
  BY <1>1, <1>2, <1>3, CardKept
<1>5. cards' = [cards EXCEPT ![c] = m] /\ cards \in [Card -> CardDoc]
  BY <1>3 DEF Insert, IInv, TypeOK
<1>6. CardsAdvance
  <2> SUFFICES ASSUME NEW d \in Card
               PROVE  /\ cards[d].state = "unsent" =>
                           cards'[d] = cards[d] \/ (cards'[d].state = "open" /\ Between(cards[d])')
                      /\ cards[d].state # "unsent" => Restated(d) /\ cards'[d].state # "unsent"
                      /\ cards'[d].state = "accepted" => cards[d].state = "accepted"
    BY DEF CardsAdvance
  <2>1. CASE d = c
    <3>1. cards[d].state = "unsent" /\ cards'[d] = m
      BY <1>5, <2>1 DEF Insert
    <3>2. Between(cards[d])'
      BY <1>4, <3>1 DEF Between
    <3> QED BY <1>2, <1>3, <3>1, <3>2
  <2>2. CASE d # c
    BY <1>5, <2>2 DEF Restated
  <2> QED BY <2>1, <2>2
<1>7. cards' \in [Card -> CardDoc] /\ overdue' = overdue /\ Finish(r)
  BY <1>5 DEF Insert
<1> QED BY <1>1, <1>6, <1>7, FinishKeeps

(* A step that changes answers only.                                        *)
LEMMA AnswersOnly ==
    ASSUME IInv, cards' \in [Card -> CardDoc],
           \A c \in Card :
             \/ cards'[c] = cards[c]
             \/ /\ cards[c].state # "unsent" /\ cards'[c].state # "unsent" /\ Restated(c)
                /\ cards'[c].state = "accepted" =>
                     \E r \in Request : Accepting(r) /\ req[r].card = c
    PROVE  CardsAdvance
BY DEF CardsAdvance, Restated

LEMMA SetStatusStep ==
    ASSUME IInv, NEW r \in Request, SetStatus(r)
    PROVE  IInv'
<1> DEFINE c == req[r].card
<1>1. Advances /\ D!TypeOK' /\ DealParties'
  BY StillDeal DEF SetStatus
<1>2. c \in Card /\ cards[c].state # "unsent" /\ req[r].answer \in {"accepted", "rejected"}
  BY DEF SetStatus, At, IInv, InFlight, Remembers, TypeOK, Req
<1>3. CASE cards[c].state = "deleted"
  <2>1. cards' = cards /\ overdue' = overdue /\ Finish(r) /\ cards' \in [Card -> CardDoc]
    BY <1>3 DEF SetStatus, IInv, TypeOK
  <2> QED BY <1>1, <2>1, CardsStill, FinishKeeps
<1>4. CASE cards[c].state # "deleted"
  <2>1. /\ cards' = [cards EXCEPT ![c].state = req[r].answer] /\ overdue' = overdue
        /\ Finish(r) \/ (Onward(r, "find") /\ "find" \in Steps)
    BY <1>4 DEF SetStatus, Onward, At, Steps
  <2>2. cards \in [Card -> CardDoc]
    BY DEF IInv, TypeOK
  <2>3. cards' \in [Card -> CardDoc]
    BY <1>2, <2>1, <2>2 DEF CardDoc, States
  <2>4. \A d \in Card : d # c => cards'[d] = cards[d]
    BY <2>1, <2>2
  <2>5. Restated(c) /\ cards'[c].state = req[r].answer
    BY <1>2, <2>1, <2>2 DEF Restated, CardDoc
  <2>6. req[r].answer = "accepted" => Accepting(r)
    BY DEF SetStatus, Accepting
  <2>7. CardsAdvance
    BY <1>2, <2>3, <2>4, <2>5, <2>6, AnswersOnly
  <2> QED BY <1>1, <2>1, <2>3, <2>7, FinishKeeps, OnwardKeeps
<1> QED BY <1>3, <1>4

LEMMA FindStep ==
    ASSUME IInv, NEW r \in Request, FindOthers(r)
    PROVE  IInv'
<1>1. Advances /\ D!TypeOK' /\ DealParties' /\ CardsAdvance
  BY StillDeal, CardsStill DEF FindOthers
<1>2. Others(r) \in SUBSET Card /\ \A c \in Others(r) : cards[c].state # "unsent"
  BY DEF Others, IsOpen
<1>3. req[r] \in Req /\ req \in [Request -> Req] /\ req[r].card \in Card /\ req[r].pc = "find"
      /\ cards[req[r].card].state # "unsent"
  BY DEF FindOthers, At, IInv, TypeOK, InFlight, Remembers
<1>4. req'[r] \in Req /\ Beside(r) /\ req' \in [Request -> Req]
      /\ req'[r].pc = "close" /\ req'[r].card = req[r].card /\ req'[r].closing = Others(r)
  <2> DEFINE s == Others(r)
  <2>1. s \in SUBSET Card /\ req' = [req EXCEPT ![r].pc = "close", ![r].closing = s]
    BY <1>2 DEF FindOthers
  <2>2. "close" \in Steps
    BY DEF Steps
  <2> HIDE DEF s
  <2>3. req'[r] \in Req /\ Beside(r) /\ req' \in [Request -> Req]
        /\ req'[r].pc = "close" /\ req'[r].card = req[r].card /\ req'[r].closing = s
    BY <1>3, <2>1, <2>2 DEF Req, Beside
  <2> QED BY <2>3 DEF s
<1>5. cards' = cards /\ overdue' = overdue
  BY DEF FindOthers
<1>6. Remembers(r)' /\ ~Accepting(r)'
  BY <1>2, <1>3, <1>4, <1>5 DEF Remembers, Accepting, At
<1>7. TypeOK'
  BY <1>1, <1>4, <1>5 DEF IInv, TypeOK
<1> QED BY <1>1, <1>4, <1>6, <1>7, OneHandler

LEMMA CloseStep ==
    ASSUME IInv, NEW r \in Request, CloseOthers(r) \/ DeleteOne(r)
    PROVE  IInv'
<1>1. Advances /\ D!TypeOK' /\ DealParties'
  BY StillDeal DEF CloseOthers, DeleteOne
<1>2. cards \in [Card -> CardDoc] /\ Remembers(r)
  BY DEF IInv, TypeOK, InFlight
<1>3. overdue' = overdue /\ Finish(r)
  BY DEF CloseOthers, DeleteOne
<1>4. CASE CloseOthers(r)
  <2>1. \A c \in Card :
          \/ cards'[c] = cards[c]
          \/ c \in req[r].closing /\ cards'[c] = [cards[c] EXCEPT !.state = "rejected"]
    BY <1>4 DEF CloseOthers
  <2>2. \A c \in Card : cards[c] \in CardDoc /\ "rejected" \in States
    BY <1>2 DEF States
  <2>3. cards' \in [Card -> CardDoc]
    BY <1>4, <2>2 DEF CloseOthers, CardDoc
  <2>4. \A c \in req[r].closing : cards[c].state # "unsent"
    BY <1>2 DEF Remembers
  <2>5. CardsAdvance
    BY <2>1, <2>2, <2>3, <2>4, AnswersOnly DEF CardDoc, Restated
  <2> QED BY <1>1, <1>3, <2>3, <2>5, FinishKeeps
<1>5. CASE DeleteOne(r)
  <2>1. cards' = [cards EXCEPT ![req[r].card].state = "deleted"]
    BY <1>5 DEF DeleteOne
  <2>2. req[r].card \in Card /\ cards[req[r].card].state # "unsent" /\ "deleted" \in States
    BY <1>2, <1>5 DEF DeleteOne, Remembers, At, States
  <2>3. cards' \in [Card -> CardDoc]
    BY <1>2, <2>1, <2>2 DEF CardDoc
  <2>4. CardsAdvance
    BY <1>2, <2>1, <2>2, <2>3, AnswersOnly DEF CardDoc, Restated
  <2> QED BY <1>1, <1>3, <2>3, <2>4, FinishKeeps
<1> QED BY <1>4, <1>5

(* A performer is agreed: no card of the order had won before.              *)
LEMMA AgreeStep ==
    ASSUME IInv, NEW r \in Request, At(r, "move"), Goto(r, "mark"),
           NEW c \in Card, c = req[r].card, cards[c].kind \in Offers,
           D!Agree(cards[c].order, PerformerOf(cards[c])),
           cards' = cards, overdue' = overdue
    PROVE  IInv'
<1> DEFINE o == cards[c].order
           p == PerformerOf(cards[c])
<1>1. /\ cards[c].state # "unsent" /\ Between(cards[c]) /\ o \in Order /\ p \in User
      /\ D!TypeOK /\ DealParties
  BY DEF At, IInv, InFlight, Remembers, Parties, Between, PerformerOf, TypeOK
<1>2. Advances /\ D!TypeOK' /\ DealParties'
  BY <1>1, DealStep DEF D!Next
<1>3. CardsAdvance
  BY CardsStill
<1>4. Onward(r, "mark") /\ "mark" \in Steps
  BY DEF Onward, At, Steps
<1>5. performer[o] = None /\ performer'[o] = p
  BY <1>1 DEF D!Agree, D!TypeOK
<1>6. Happened(cards[req[r].card])'
  <2>1. PICK d \in Card : d = c
    OBVIOUS
  <2>2. Happened(cards[d])'
    BY <1>5, <2>1 DEF Happened, PerformerOf, Offers
  <2>3. req'[r].card = d
    BY <1>4, <2>1, OnwardReq DEF Onward
  <2> QED BY <2>2, <2>3
<1>7. Beside(r) /\ req' \in [Request -> Req] /\ Remembers(r)' /\ req'[r].card = c
  BY <1>2, <1>3, <1>4, <1>6, OnwardReq, OnwardRemembers DEF Onward
<1>8. InFlight'
  BY <1>2, <1>3, <1>7, RememberedStill DEF InFlight, Beside
<1>9. \A d \in Card : Winning(d)' => Winning(d) \/ d = c
  <2> SUFFICES ASSUME NEW d \in Card, Winning(d)', d # c
               PROVE  Winning(d)
    OBVIOUS
  <2>1. \A q \in Request : Accepting(q)' /\ req'[q].card = d => Accepting(q) /\ req[q].card = d
    BY <1>7 DEF Beside, Accepting, At
  <2> QED BY <2>1 DEF Winning
<1>10. \A d \in Card : Winning(d) => cards[d].order # o /\ cards[d].order \in Order
  BY <1>5 DEF IInv, OneWinning, Winning, Parties, Between
<1>11. OneWinning'
  <2> SUFFICES ASSUME NEW d \in Card, Winning(d)'
               PROVE  /\ performer'[cards[d].order] # None
                      /\ \A e \in Card : Winning(e)' /\ cards[e].order = cards[d].order => e = d
    BY DEF OneWinning
  <2>1. CASE d = c
    BY <1>1, <1>5, <1>9, <1>10, <2>1, CardsAssumption
  <2>2. CASE d # c
    <3>1. Winning(d) /\ cards[d].order # o /\ cards[d].order \in Order
      BY <1>9, <1>10, <2>2
    <3>2. performer[cards[d].order] # None
      BY <3>1 DEF IInv, OneWinning
    <3>3. performer'[cards[d].order] # None
      BY <1>2, <3>1, <3>2 DEF Advances
    <3> QED BY <1>9, <3>1, <3>3 DEF IInv, OneWinning
  <2> QED BY <2>1, <2>2
<1>12. TypeOK'
  BY <1>2, <1>7 DEF IInv, TypeOK
<1> QED BY <1>2, <1>3, <1>8, <1>11, <1>12, FactsKept DEF IInv

LEMMA MoveStep ==
    ASSUME IInv, NEW r \in Request, MoveOrder(r)
    PROVE  IInv'
<1>1. PICK c \in Card : c = req[r].card
  BY DEF MoveOrder, At, IInv, InFlight, Remembers
<1>2. /\ cards' = cards /\ overdue' = overdue /\ cards' \in [Card -> CardDoc]
      /\ cards[c] \in CardDoc /\ D!TypeOK /\ DealParties
  BY DEF MoveOrder, IInv, TypeOK
<1>3. Between(cards[c]) /\ cards[c].order \in Order /\ At(r, "move")
      /\ req[r].answer \in {"accepted", "rejected"}
  BY <1>1 DEF MoveOrder, At, IInv, InFlight, Remembers, Parties, Between, TypeOK, Req
<1>4. CASE Finish(r) /\ UNCHANGED <<customer, status, performer>>
  BY <1>2, <1>4, StillDeal, CardsStill, FinishKeeps
<1>5. CASE Moves(cards[c], req[r].answer) /\ Goto(r, "mark")
  <2>1. Onward(r, "mark") /\ "mark" \in Steps /\ CardsAdvance /\ req'[r].card = c
    BY <1>1, <1>2, <1>3, <1>5, CardsStill, OnwardReq DEF Onward, At, Steps
  <2>2. CASE cards[c].kind \in Offers
    <3>1. D!Agree(cards[c].order, PerformerOf(cards[c]))
      BY <1>5, <2>2 DEF Moves, Offers
    <3> QED BY <1>1, <1>2, <1>3, <1>5, <2>2, <3>1, AgreeStep
  <2>3. CASE cards[c].kind = "cancel"
    <3>1. D!CallOff(cards[c].order)
      BY <1>5, <2>3 DEF Moves
    <3>2. Advances /\ D!TypeOK' /\ DealParties'
      BY <1>2, <1>3, <3>1, DealStep DEF D!Next
    <3>3. Happened(cards[c])'
      BY <1>2, <1>3, <2>3, <3>1 DEF Happened, D!CallOff, D!Move, D!TypeOK
    <3>4. Happened(cards[req[r].card])' /\ cards'[req[r].card].kind \notin Offers
      BY <1>1, <1>2, <2>1, <2>3, <3>3 DEF Offers
    <3> QED BY <1>2, <2>1, <3>2, <3>4, OnwardKeeps
  <2>4. CASE cards[c].kind = "delivery"
    <3>1. IF req[r].answer = "accepted" THEN D!Complete(cards[c].order)
                                        ELSE D!SendBack(cards[c].order)
      BY <1>5, <2>4 DEF Moves
    <3>2. Advances /\ D!TypeOK' /\ DealParties'
      BY <1>2, <1>3, <3>1, DealStep DEF D!Next
    <3>3. req[r].answer = "accepted" => Happened(cards[c])'
      BY <1>2, <1>3, <2>4, <3>1 DEF Happened, D!Complete, D!Move, D!TypeOK
    <3>4. /\ req[r].answer = "accepted" => Happened(cards[req[r].card])'
          /\ cards'[req[r].card].kind \notin Offers
      BY <1>1, <1>2, <2>1, <2>4, <3>3 DEF Offers
    <3> QED BY <1>2, <2>1, <3>2, <3>4, OnwardKeeps
  <2>5. cards[c].kind \in Offers \union {"cancel", "delivery"}
    BY <1>2 DEF CardDoc, Kinds
  <2> QED BY <2>2, <2>3, <2>4, <2>5
<1> QED BY <1>1, <1>4, <1>5 DEF MoveOrder

(***************************************************************************)
(* The theorems                                                            *)
(***************************************************************************)
LEMMA InitIInv == Init => IInv
<1> SUFFICES ASSUME Init PROVE IInv
  OBVIOUS
<1>1. TypeOK /\ DealParties
  BY IdleReq DEF Init, TypeOK, DealParties, D!Init, D!TypeOK, D!Stages,
                 CardDoc, Unsent, States, Kinds, Offers
<1>2. \A c \in Card : cards[c].state = "unsent"
  BY DEF Init, Unsent
<1>3. \A r \in Request : Remembers(r)
  BY DEF Init, Idle, Remembers, Accepting, At
<1> QED BY <1>1, <1>2, <1>3 DEF IInv, Parties, InFlight, AcceptedTruth, OneWinning, Winning

LEMMA NextIInv == IInv /\ [Next]_vars => IInv'
<1> SUFFICES ASSUME IInv, [Next]_vars PROVE IInv'
  OBVIOUS
<1>1. ASSUME NEW r \in Request, Start(r)
      PROVE  IInv'
  BY <1>1, SuggestStep, ResponseStep, FinishStep, ProposeStep, AnswerStep DEF Start
<1>2. ASSUME NEW r \in Request, Step(r)
      PROVE  IInv'
  BY <1>2, CheckOpenStep, InsertStep, MoveStep, SetStatusStep, FindStep, CloseStep DEF Step
<1> QED BY <1>1, <1>2, OutsideStep DEF Next, Serve

(* Every reachable state of the deal cards satisfies the invariant: whoever *)
(* answers, deletes or sends meanwhile, and wherever the process stops.     *)
THEOREM Invariance == Spec => []IInv
<1>1. Init => IInv
  BY InitIInv
<1>2. IInv /\ [Next]_vars => IInv'
  BY NextIInv
<1> QED BY <1>1, <1>2, PTL DEF Spec

(* setStatus never writes "accepted" on a card whose order was not moved by *)
(* an acceptance of the same kind.                                          *)
THEOREM Truth == Spec => []AcceptedTruth
<1>1. IInv => AcceptedTruth
  BY DEF IInv
<1> QED BY <1>1, Invariance, PTL

(* Of the offers and responses of one order at most one is ever accepted at *)
(* a time, however many are answered at once.                               *)
THEOREM Winner == Spec => []OneWinner
<1>1. IInv => OneWinner
  BY DEF IInv, OneWinning, Winning, OneWinner
<1> QED BY <1>1, Invariance, PTL

(***************************************************************************)
(* How an order ends                                                       *)
(***************************************************************************)
EndKinds == {"delivery", "cancel"}

(* However an order ends, one card says so: of its deliveries and proposals *)
(* to cancel at most one is accepted.                                       *)
OneEnd == \A c, d \in Card :
    /\ cards[c].state = "accepted" /\ cards[d].state = "accepted"
    /\ cards[c].kind \in EndKinds  /\ cards[d].kind \in EndKinds
    /\ cards[c].order = cards[d].order
    => c = d

(* The card on which the order ended, its answer saved or not.              *)
Ending(c) ==
    /\ cards[c].kind \in EndKinds
    /\ \/ cards[c].state = "accepted"
       \/ \E r \in Request : Accepting(r) /\ req[r].card = c

OneEnding == \A c, d \in Card :
    Ending(c) /\ Ending(d) /\ cards[c].order = cards[d].order => c = d

(* A card accepted, or about to be, is in the database and has ended its    *)
(* order.                                                                   *)
LEMMA EndingFacts ==
    ASSUME IInv, NEW c \in Card, Ending(c)
    PROVE  cards[c].state # "unsent" /\ status[cards[c].order] \in {"completed", "cancelled"}
<1>1. cards[c].state # "unsent" /\ Happened(cards[c])
  BY DEF Ending, IInv, AcceptedTruth, InFlight, Remembers, Accepting, At
<1> QED BY <1>1 DEF Ending, EndKinds, Happened

(* A step that accepts nothing: no handler comes to accept a card, and none *)
(* is saved as accepted but by a handler whose order was moved before.      *)
NoneAccepted ==
    /\ \A r \in Request : Accepting(r)' => Accepting(r) /\ req'[r].card = req[r].card
    /\ \A c \in Card :
         /\ cards[c].state # "unsent" => cards'[c].kind = cards[c].kind
                                         /\ cards'[c].order = cards[c].order
         /\ cards'[c].state = "accepted" =>
              \/ cards[c].state = "accepted"
              \/ \E r \in Request : Accepting(r) /\ req[r].card = c

LEMMA EndingKept ==
    ASSUME IInv, OneEnding, NoneAccepted
    PROVE  OneEnding'
<1>1. ASSUME NEW c \in Card, Ending(c)'
      PROVE  Ending(c) /\ cards'[c].order = cards[c].order
  <2>1. \/ cards[c].state = "accepted"
        \/ \E r \in Request : Accepting(r) /\ req[r].card = c
    BY <1>1 DEF Ending, NoneAccepted
  <2>2. cards[c].state # "unsent"
    BY <2>1 DEF IInv, InFlight, Remembers, Accepting, At
  <2> QED BY <1>1, <2>1, <2>2 DEF Ending, NoneAccepted
<1> QED BY <1>1 DEF OneEnding

(* No card changes, and the one handler that goes on does not come to       *)
(* accept one.                                                              *)
LEMMA CardsRest ==
    ASSUME IInv, cards' = cards, NEW r \in Request, Beside(r), ~Accepting(r)'
    PROVE  NoneAccepted
BY DEF NoneAccepted, Beside, Accepting, At

LEMMA BeginRest ==
    ASSUME IInv, NEW r \in Request, Start(r)
    PROVE  NoneAccepted
<1>1. cards' = cards /\ \E h : /\ req' = [req EXCEPT ![r] = h]
                               /\ h.pc = "mark" => h.answer = "rejected"
  <2>1. ASSUME NEW s \in {"checkOpen", "insert"}, NEW m,
               req' = [req EXCEPT ![r] = Sending(s, m)]
        PROVE  \E h : /\ req' = [req EXCEPT ![r] = h]
                      /\ h.pc = "mark" => h.answer = "rejected"
    <3>1. Sending(s, m).pc = s
      BY DEF Sending, Idle
    <3> QED BY <2>1, <3>1
  <2>2. ASSUME NEW s, NEW c, NEW a \in {"accepted", "rejected"}, s # "mark" \/ a = "rejected",
               req' = [req EXCEPT ![r] = Answering(s, c, a)]
        PROVE  \E h : /\ req' = [req EXCEPT ![r] = h]
                      /\ h.pc = "mark" => h.answer = "rejected"
    <3>1. Answering(s, c, a).pc = s /\ Answering(s, c, a).answer = a
      BY DEF Answering, Idle
    <3> QED BY <2>2, <3>1
  <2> QED BY <2>1, <2>2
          DEF Start, SuggestOrder, PostResponse, ProposeCancel, FinishOrder, AnswerCard,
              ForceCancel, DeleteMessage, Begin
<1>2. PICK h : /\ req' = [req EXCEPT ![r] = h]
               /\ h.pc = "mark" => h.answer = "rejected"
  BY <1>1
<1>3. req'[r] = h /\ Beside(r)
  BY <1>2 DEF IInv, TypeOK, Beside
<1>4. ~Accepting(r)'
  BY <1>2, <1>3 DEF Accepting, At
<1> QED BY <1>1, <1>3, <1>4, CardsRest

(* All the other queries of a handler: it saves the answer it came with, or *)
(* sends, closes or deletes a card.                                         *)
LEMMA StepRest ==
    ASSUME IInv, NEW r \in Request,
           \/ CheckOpen(r) \/ FindOthers(r) \/ SetStatus(r) \/ CloseOthers(r) \/ DeleteOne(r)
           \/ \E c \in Card : Insert(r, c)
    PROVE  NoneAccepted
<1>t. req \in [Request -> Req] /\ cards \in [Card -> CardDoc] /\ req[r] \in Req
  BY DEF IInv, TypeOK
<1>1. Beside(r) /\ ~Accepting(r)'
  <2>1. CASE req'[r] = Idle /\ Beside(r)
    BY <2>1 DEF Idle, Accepting, At
  <2>2. CASE Beside(r) /\ req'[r].pc \in {"insert", "find", "close"}
    BY <2>2 DEF Accepting, At
  <2>3. Finish(r) => req'[r] = Idle /\ Beside(r)
    BY <1>t DEF Finish, Beside
  <2>4. Goto(r, "insert") \/ Goto(r, "find") => Beside(r) /\ req'[r].pc \in {"insert", "find"}
    BY <1>t DEF Goto, Beside, Req
  <2>5. FindOthers(r) => Beside(r) /\ req'[r].pc = "close"
    BY <1>t DEF FindOthers, Beside, Req
  <2> QED BY <2>1, <2>2, <2>3, <2>4, <2>5
          DEF CheckOpen, SetStatus, CloseOthers, DeleteOne, Insert
<1>2. CASE CheckOpen(r) \/ FindOthers(r)
  BY <1>1, <1>2, CardsRest DEF CheckOpen, FindOthers
<1>3. SUFFICES ASSUME NEW c \in Card
               PROVE  /\ cards[c].state # "unsent" => cards'[c].kind = cards[c].kind
                                                      /\ cards'[c].order = cards[c].order
                      /\ cards'[c].state = "accepted" =>
                           \/ cards[c].state = "accepted"
                           \/ \E q \in Request : Accepting(q) /\ req[q].card = c
  BY <1>1, <1>2 DEF NoneAccepted, Beside, Accepting, At
<1>d. cards[c] \in CardDoc
  BY <1>t
<1>4. CASE SetStatus(r)
  <2>1. CASE cards' = cards
    BY <2>1
  <2>2. CASE cards' = [cards EXCEPT ![req[r].card].state = req[r].answer]
    BY <1>4, <1>t, <1>d, <2>2 DEF SetStatus, Accepting, CardDoc
  <2> QED BY <1>4, <2>1, <2>2 DEF SetStatus
<1>5. CASE CloseOthers(r)
  BY <1>5, <1>d DEF CloseOthers, CardDoc
<1>6. CASE DeleteOne(r)
  BY <1>6, <1>t, <1>d DEF DeleteOne, CardDoc
<1>7. ASSUME NEW d \in Card, Insert(r, d)
      PROVE  /\ cards[c].state # "unsent" => cards'[c].kind = cards[c].kind
                                             /\ cards'[c].order = cards[c].order
             /\ cards'[c].state = "accepted" => cards[c].state = "accepted"
  <2>1. req[r].message.state = "open"
    BY <1>7 DEF Insert, IInv, InFlight, Remembers, At
  <2> QED BY <1>7, <1>t, <2>1 DEF Insert
<1>8. CASE CheckOpen(r) \/ FindOthers(r)
  BY <1>8 DEF CheckOpen, FindOthers
<1> QED BY <1>4, <1>5, <1>6, <1>7, <1>8

(* The order is moved by an acceptance that ends it: it had not ended, so   *)
(* no other card of it is accepted or about to be.                          *)
LEMMA MoveEnds ==
    ASSUME IInv, OneEnding, NEW r \in Request, MoveOrder(r)
    PROVE  OneEnding'
<1>t. req \in [Request -> Req] /\ cards' = cards
  BY DEF MoveOrder, IInv, TypeOK
<1>1. PICK c \in Card : c = req[r].card
  BY DEF MoveOrder, At, IInv, InFlight, Remembers
<1>2. CASE Finish(r)
  <2>1. Beside(r) /\ req'[r] = Idle
    BY <1>2, <1>t DEF Finish, Beside
  <2> QED BY <1>t, <2>1, CardsRest, EndingKept DEF Idle, Accepting, At
<1>3. CASE Moves(cards[c], req[r].answer) /\ Goto(r, "mark")
  <2>1. Beside(r) /\ req'[r].card = c /\ req'[r].answer = req[r].answer
    BY <1>1, <1>3, <1>t DEF Goto, Beside, Req
  <2>2. CASE req[r].answer = "rejected"
    BY <1>t, <2>1, <2>2, CardsRest, EndingKept DEF Accepting
  <2>3. ASSUME NEW d \in Card, Ending(d)', d # c
        PROVE  Ending(d)
    <3>1. \A q \in Request : Accepting(q)' /\ req'[q].card = d => Accepting(q) /\ req[q].card = d
      BY <2>1, <2>3 DEF Beside, Accepting, At
    <3> QED BY <1>t, <2>3, <3>1 DEF Ending
  <2>4. CASE cards[c].kind \notin EndKinds
    <3>1. \A d \in Card : Ending(d)' => Ending(d)
      BY <1>t, <2>3, <2>4 DEF Ending
    <3> QED BY <1>t, <3>1 DEF OneEnding
  <2>5. CASE cards[c].kind \in EndKinds /\ req[r].answer = "accepted"
    <3>1. status[cards[c].order] \notin {"completed", "cancelled"}
      BY <1>3, <2>5 DEF EndKinds, Moves, D!Complete, D!Move
    <3>2. \A d \in Card : Ending(d) => cards[d].order # cards[c].order
      BY <3>1, EndingFacts
    <3>3. \A d, e \in Card : Ending(d)' /\ Ending(e)' /\ cards[d].order = cards[e].order => d = e
      BY <2>3, <3>2 DEF OneEnding
    <3> QED BY <1>t, <3>3 DEF OneEnding
  <2>6. req[r].answer \in {"accepted", "rejected"}
    BY <1>t DEF Req
  <2> QED BY <2>2, <2>4, <2>5, <2>6
<1> QED BY <1>1, <1>2, <1>3 DEF MoveOrder

LEMMA NextEnding == IInv /\ OneEnding /\ [Next]_vars => OneEnding'
<1> SUFFICES ASSUME IInv, OneEnding, [Next]_vars PROVE OneEnding'
  OBVIOUS
<1>1. ASSUME NEW r \in Request, Start(r)
      PROVE  OneEnding'
  BY <1>1, BeginRest, EndingKept
<1>2. ASSUME NEW r \in Request, Step(r)
      PROVE  OneEnding'
  BY <1>2, StepRest, MoveEnds, EndingKept DEF Step
<1>3. CASE UNCHANGED <<cards, req>>
  BY <1>3 DEF OneEnding, Ending, Accepting, At
<1>4. CASE Crash
  <2>1. \A r \in Request : ~Accepting(r)'
    BY <1>4 DEF Crash, Idle, Accepting, At
  <2> QED BY <1>4, <2>1, EndingKept DEF Crash, NoneAccepted
<1> QED BY <1>1, <1>2, <1>3, <1>4 DEF Next, Serve, CancelOrder, PostOrder, DaysPass, vars

(* A late delivery answered beside a proposal to cancel, two proposals sent *)
(* at once, a forced cancellation: however they overlap, and wherever the   *)
(* process stops, setStatus never writes "accepted" on two cards that end   *)
(* the same order, for the order service ends it for one of them only.      *)
THEOREM EndsOnce == Spec => []OneEnd
<1>1. Init => OneEnding
  BY DEF Init, OneEnding, Ending, Unsent, Idle, Accepting, At
<1>2. IInv /\ OneEnding /\ [Next]_vars => OneEnding'
  BY NextEnding
<1>3. OneEnding => OneEnd
  BY DEF OneEnding, Ending, OneEnd
<1> QED BY <1>1, <1>2, <1>3, Invariance, PTL DEF Spec

(***************************************************************************)
(* One handler at a time                                                   *)
(***************************************************************************)

\* The handler r, whose order is settled, has yet to close the other cards of o.
Closes(r, o) ==
    /\ Accepting(r) \/ At(r, "find") \/ At(r, "close")
    /\ cards[req[r].card].order = o

\* It has moved the order and has yet to save its answer into card c.
Answers(r, c) == At(r, "mark") /\ req[r].card = c

Sends(r, kind, o) ==
    At(r, "insert") /\ req[r].message.kind = kind /\ req[r].message.order = o

(* The open cards of an order agree with its stage, but for what a handler   *)
(* that is still at work has to do.                                          *)
Tidy(o) ==
    /\ Single(OpenCards(o, {"cancel"}))
    /\ Single(OpenCards(o, {"delivery"}))
    /\ OpenCards(o, {"cancel"}) # {} =>
         status[o] \in {"pending", "review"} \/ \E r \in Request : Closes(r, o)
    /\ \A c \in OpenCards(o, {"delivery"}) :
         status[o] = "review" \/ \E r \in Request : Closes(r, o) \/ Answers(r, c)
    /\ status[o] = "review" =>
         OpenCards(o, {"delivery"}) # {} \/ \E r \in Request : Sends(r, "delivery", o)

(* The same where r is the only handler.                                     *)
TidyBut(r, o) ==
    /\ Single(OpenCards(o, {"cancel"}))
    /\ Single(OpenCards(o, {"delivery"}))
    /\ OpenCards(o, {"cancel"}) # {} => status[o] \in {"pending", "review"} \/ Closes(r, o)
    /\ \A c \in OpenCards(o, {"delivery"}) :
         status[o] = "review" \/ Closes(r, o) \/ Answers(r, c)
    /\ status[o] = "review" => OpenCards(o, {"delivery"}) # {} \/ Sends(r, "delivery", o)

(* What the only handler found out before an await and what it did since.    *)
Knows(r) ==
    /\ req[r].pc \in {"move", "mark", "delete"} => IsOpen(req[r].card)
    /\ At(r, "delete") => cards[req[r].card].kind # "delivery"
    /\ At(r, "checkOpen") => /\ req[r].message.kind = "cancel"
                             /\ status[req[r].message.order] \in {"pending", "review"}
    /\ \A o \in Order :
         /\ Sends(r, "delivery", o) => status[o] = "review" /\ OpenCards(o, {"delivery"}) = {}
         /\ Sends(r, "cancel", o) =>
              status[o] \in {"pending", "review"} /\ OpenCards(o, {"cancel"}) = {}
         /\ Closes(r, o) => status[o] \in {"pending", "completed", "cancelled"}
    /\ At(r, "move") /\ cards[req[r].card].kind # "delivery" => req[r].answer = "accepted"
    /\ At(r, "mark") /\ cards[req[r].card].kind = "delivery" /\ req[r].answer = "rejected" =>
         status[cards[req[r].card].order] = "pending"
    /\ req[r].pc \in {"find", "close"} => cards[req[r].card].state = "accepted"
    /\ At(r, "close") => req[r].closing = Others(r)

Alone ==
    /\ \A r \in Request : r \in RaceRequest => req[r] = Idle
    /\ \A o \in Order : Tidy(o)
    /\ \A r \in Request : Knows(r)

OneAt(r) == \A q \in Request : q # r => req[q] = Idle

LEMMA TheOne ==
    ASSUME Alone, NEW r \in Request, r \notin RaceRequest
    PROVE  OneAt(r)
BY SoloAssumption DEF Alone, OneAt

LEMMA IdleKnows ==
    ASSUME NEW q \in Request, req[q].pc = "idle"
    PROVE  /\ Knows(q)
           /\ \A o : ~Closes(q, o) /\ \A k : ~Sends(q, k, o)
           /\ \A c : ~Answers(q, c)
BY DEF Knows, Closes, Sends, Answers, Accepting, At

LEMMA IdleKnowsNext ==
    ASSUME NEW q \in Request, req'[q].pc = "idle"
    PROVE  /\ Knows(q)'
           /\ \A o : ~Closes(q, o)' /\ \A k : ~Sends(q, k, o)'
           /\ \A c : ~Answers(q, c)'
BY DEF Knows, Closes, Sends, Answers, Accepting, At

LEMMA TidyNow ==
    ASSUME Alone, NEW r \in Request, OneAt(r)
    PROVE  Knows(r) /\ \A o \in Order : TidyBut(r, o)
<1>1. \A q \in Request : q # r => req[q].pc = "idle"
  BY DEF OneAt, Idle
<1>2. \A q \in Request : q # r =>
        /\ \A o : ~Closes(q, o) /\ \A k : ~Sends(q, k, o)
        /\ \A c : ~Answers(q, c)
  BY <1>1, IdleKnows
<1> QED BY <1>2 DEF Alone, Tidy, TidyBut

LEMMA TidyNext ==
    ASSUME NEW r \in Request, OneAt(r), Beside(r), r \notin RaceRequest, Alone,
           Knows(r)', \A o \in Order : TidyBut(r, o)'
    PROVE  Alone'
<1>1. \A q \in Request : q # r => req'[q] = Idle
  BY DEF OneAt, Beside
<1>2. \A q \in Request : Knows(q)'
  BY <1>1, IdleKnowsNext DEF Idle
<1>3. \A o \in Order : Tidy(o)'
  BY DEF Tidy, TidyBut
<1> QED BY <1>1, <1>2, <1>3 DEF Alone

(***************************************************************************)
(* A handler that only reads                                               *)
(***************************************************************************)
LEMMA OpenStill ==
    ASSUME cards' = cards
    PROVE  \A o, K : OpenCards(o, K)' = OpenCards(o, K)
BY DEF OpenCards, IsOpen

LEMMA AloneReads ==
    ASSUME Alone, NEW r \in Request, OneAt(r), Beside(r), r \notin RaceRequest,
           cards' = cards, status' = status, Knows(r)',
           \A o \in Order : /\ Closes(r, o) => Closes(r, o)'
                            /\ Sends(r, "delivery", o) => Sends(r, "delivery", o)',
           ~At(r, "mark")
    PROVE  Alone'
<1>1. \A o \in Order : TidyBut(r, o)
  BY TidyNow
<1>2. ASSUME NEW o \in Order
      PROVE  TidyBut(r, o)'
  <2>1. \A c : ~Answers(r, c)
    BY DEF Answers
  <2>2. \A K : OpenCards(o, K)' = OpenCards(o, K)
    BY OpenStill
  <2> QED BY <1>1, <2>1, <2>2 DEF TidyBut
<1> QED BY <1>2, TidyNext

LEMMA AloneSends ==
    ASSUME IInv, Alone, NEW r \in Request, r \notin RaceRequest, OneAt(r), At(r, "idle"),
           cards' = cards, status' = status,
           NEW s \in {"checkOpen", "insert"}, NEW m \in CardDoc,
           req' = [req EXCEPT ![r] = Sending(s, m)],
           s = "checkOpen" => m.kind = "cancel" /\ status[m.order] \in {"pending", "review"},
           s = "insert" => m.kind \in Offers
    PROVE  Alone'
<1>1. Beside(r) /\ req'[r] = Sending(s, m)
  BY DEF IInv, TypeOK, Beside
<1>2. req'[r].pc = s /\ req'[r].message = m
  BY <1>1, SendingReq DEF Steps
<1>3. \A o \in Order : ~Closes(r, o) /\ ~Sends(r, "delivery", o)
  BY IdleKnows DEF At
<1>4. Knows(r)'
  <2>1. s \notin {"move", "mark", "delete", "find", "close"}
    OBVIOUS
  <2>2. \A o : ~Closes(r, o)'
    BY <1>2, <2>1 DEF Closes, Accepting, At
  <2>3. \A o : ~Sends(r, "delivery", o)' /\ ~Sends(r, "cancel", o)'
    BY <1>2 DEF Sends, At, Offers
  <2> QED BY <1>2, <2>1, <2>2, <2>3 DEF Knows, At
<1> QED BY <1>1, <1>3, <1>4, AloneReads DEF At

LEMMA AloneAnswers ==
    ASSUME IInv, Alone, NEW r \in Request, r \notin RaceRequest, OneAt(r), At(r, "idle"),
           cards' = cards, status' = status,
           NEW s \in {"move", "mark", "delete"}, NEW c \in Card, NEW a \in {"accepted", "rejected"},
           req' = [req EXCEPT ![r] = Answering(s, c, a)], IsOpen(c),
           s = "move" /\ cards[c].kind # "delivery" => a = "accepted",
           s = "mark" => a = "rejected" /\ cards[c].kind # "delivery",
           s = "delete" => cards[c].kind # "delivery"
    PROVE  Alone'
<1>1. Beside(r) /\ req'[r] = Answering(s, c, a)
  BY DEF IInv, TypeOK, Beside
<1>2. req'[r].pc = s /\ req'[r].card = c /\ req'[r].answer = a
  BY <1>1, AnsweringReq DEF Steps
<1>3. \A o \in Order : ~Closes(r, o) /\ ~Sends(r, "delivery", o)
  BY IdleKnows DEF At
<1>4. Knows(r)'
  <2>1. s \notin {"checkOpen", "insert", "find", "close"}
    OBVIOUS
  <2>2. \A o : ~Closes(r, o)'
    BY <1>2, <2>1 DEF Closes, Accepting, At
  <2>3. \A o : ~Sends(r, "delivery", o)' /\ ~Sends(r, "cancel", o)'
    BY <1>2, <2>1 DEF Sends, At
  <2>4. IsOpen(req[r].card)' /\ cards'[req'[r].card].kind = cards[c].kind
    BY <1>2 DEF IsOpen
  <2> QED BY <1>2, <2>1, <2>2, <2>3, <2>4 DEF Knows, At
<1> QED BY <1>1, <1>3, <1>4, AloneReads DEF At

(* finishOrder: the order moves to review, and no delivery of it was open.   *)
LEMMA AloneHandIn ==
    ASSUME IInv, Alone, NEW r \in Request, r \notin RaceRequest, OneAt(r),
           NEW o \in Order, FinishOrder(r, o)
    PROVE  Alone'
<1>1. /\ status[o] = "pending" /\ status' = [status EXCEPT ![o] = "review"]
      /\ cards' = cards /\ At(r, "idle")
  BY DEF FinishOrder, D!HandIn, D!Move, Begin
<1>2. PICK u \in User, v \in User : u = performer[o] /\ v = customer[o]
  BY <1>1, CardsAssumption DEF IInv, DealParties
<1> DEFINE m == Message("delivery", o, u, v)
<1>4. m \in CardDoc /\ m.kind = "delivery" /\ m.order = o
  <2>1. "delivery" \in Kinds
    BY DEF Kinds
  <2> QED BY <2>1, MessageDoc
<1>5. req' = [req EXCEPT ![r] = Sending("insert", m)]
  BY <1>2 DEF FinishOrder, Begin
<1> HIDE DEF m
<1>6. Beside(r) /\ req'[r].pc = "insert" /\ req'[r].message = m
  BY <1>4, <1>5, SendingReq DEF IInv, TypeOK, Beside, Steps
<1>7. /\ status'[o] = "review" /\ \A p \in Order : p # o => status'[p] = status[p]
  BY <1>1 DEF IInv, TypeOK, D!TypeOK
<1>8. \A p \in Order : TidyBut(r, p) /\ ~Closes(r, p) /\ ~Sends(r, "delivery", p)
  BY <1>1, TidyNow, IdleKnows DEF At
<1>9. \A c : ~Answers(r, c)
  BY <1>1, IdleKnows DEF At
<1>10. OpenCards(o, {"delivery"}) = {}
  BY <1>1, <1>8, <1>9 DEF TidyBut
<1>11. Knows(r)'
  <2>1. \A p : ~Closes(r, p)' /\ ~Sends(r, "cancel", p)'
    BY <1>4, <1>6 DEF Closes, Sends, Accepting, At
  <2>2. \A p : Sends(r, "delivery", p)' => p = o
    BY <1>4, <1>6 DEF Sends
  <2>3. OpenCards(o, {"delivery"})' = {}
    BY <1>1, <1>10, OpenStill
  <2> QED BY <1>6, <1>7, <2>1, <2>2, <2>3 DEF Knows, At
<1>12. ASSUME NEW p \in Order
       PROVE  TidyBut(r, p)'
  <2>1. \A K : OpenCards(p, K)' = OpenCards(p, K)
    BY <1>1, OpenStill
  <2>2. CASE p = o
    <3>1. Sends(r, "delivery", p)'
      BY <1>4, <1>6, <2>2 DEF Sends, At
    <3> QED BY <1>7, <1>8, <1>10, <2>1, <2>2, <3>1 DEF TidyBut
  <2>3. CASE p # o
    BY <1>7, <1>8, <1>9, <2>1, <2>3 DEF TidyBut
  <2> QED BY <2>2, <2>3
<1> QED BY <1>6, <1>11, <1>12, TidyNext

LEMMA AloneStart ==
    ASSUME IInv, Alone, NEW r \in Request, r \notin RaceRequest, Start(r)
    PROVE  Alone'
<1>1. OneAt(r)
  BY TheOne
<1>2. ASSUME NEW o \in Order, NEW u \in User, NEW v \in User, SuggestOrder(r, o, u, v)
      PROVE  Alone'
  <2> DEFINE m == Message("suggest", o, u, v)
  <2>1. m \in CardDoc /\ m.kind \in Offers
    BY MessageDoc DEF Kinds, Offers
  <2>2. /\ req' = [req EXCEPT ![r] = Sending("insert", m)] /\ At(r, "idle")
        /\ cards' = cards /\ status' = status
    BY <1>2 DEF SuggestOrder, Begin
  <2> HIDE DEF m
  <2> QED BY <1>1, <2>1, <2>2, AloneSends
<1>3. ASSUME NEW o \in Order, NEW u \in User, PostResponse(r, o, u)
      PROVE  Alone'
  <2>1. PICK v \in User : v = customer[o]
    BY <1>3 DEF PostResponse, IInv, DealParties
  <2> DEFINE m == Message("response", o, u, v)
  <2>2. m \in CardDoc /\ m.kind \in Offers
    BY MessageDoc DEF Kinds, Offers
  <2>3. /\ req' = [req EXCEPT ![r] = Sending("insert", m)] /\ At(r, "idle")
        /\ cards' = cards /\ status' = status
    BY <1>3, <2>1 DEF PostResponse, Begin
  <2> HIDE DEF m
  <2> QED BY <1>1, <2>2, <2>3, AloneSends
<1>4. ASSUME NEW o \in Order, NEW u \in User, NEW v \in User, ProposeCancel(r, o, u, v)
      PROVE  Alone'
  <2> DEFINE m == Message("cancel", o, u, v)
  <2>1. m \in CardDoc /\ m.kind = "cancel" /\ m.order = o
    BY MessageDoc DEF Kinds
  <2>2. /\ req' = [req EXCEPT ![r] = Sending("checkOpen", m)] /\ At(r, "idle")
        /\ cards' = cards /\ status' = status /\ status[o] \in {"pending", "review"}
    BY <1>4 DEF ProposeCancel, Begin
  <2> HIDE DEF m
  <2> QED BY <1>1, <2>1, <2>2, AloneSends
<1>5. ASSUME NEW c \in Card, NEW a \in {"accepted", "rejected"}, AnswerCard(r, c, a)
      PROVE  Alone'
  <2>1. PICK s \in {"move", "mark", "delete"} :
           s = IF a = "accepted" \/ cards[c].kind = "delivery" THEN "move" ELSE "mark"
    OBVIOUS
  <2>2. /\ IsOpen(c) /\ req' = [req EXCEPT ![r] = Answering(s, c, a)] /\ At(r, "idle")
        /\ cards' = cards /\ status' = status
    BY <1>5, <2>1 DEF AnswerCard, Begin
  <2>3. /\ s # "delete" /\ (s = "mark" => a = "rejected" /\ cards[c].kind # "delivery")
        /\ (s = "move" /\ cards[c].kind # "delivery" => a = "accepted")
    BY <2>1
  <2> QED BY <1>1, <2>2, <2>3, AloneAnswers
<1>6. ASSUME NEW c \in Card, ForceCancel(r, c)
      PROVE  Alone'
  <2>1. /\ IsOpen(c) /\ req' = [req EXCEPT ![r] = Answering("move", c, "accepted")]
        /\ At(r, "idle") /\ cards' = cards /\ status' = status
    BY <1>6 DEF ForceCancel, Begin
  <2> QED BY <1>1, <2>1, AloneAnswers
<1>7. ASSUME NEW c \in Card, DeleteMessage(r, c)
      PROVE  Alone'
  <2>1. /\ IsOpen(c) /\ req' = [req EXCEPT ![r] = Answering("delete", c, "rejected")]
        /\ At(r, "idle") /\ cards' = cards /\ status' = status /\ cards[c].kind # "delivery"
    BY <1>7 DEF DeleteMessage, Begin
  <2> QED BY <1>1, <2>1, AloneAnswers
<1>8. ASSUME NEW o \in Order, FinishOrder(r, o)
      PROVE  Alone'
  BY <1>1, <1>8, AloneHandIn
<1> QED BY <1>2, <1>3, <1>4, <1>5, <1>6, <1>7, <1>8 DEF Start

(***************************************************************************)
(* A handler that goes on                                                  *)
(***************************************************************************)
LEMMA FinishIdle ==
    ASSUME IInv, NEW r \in Request, Finish(r)
    PROVE  /\ Beside(r) /\ req'[r].pc = "idle" /\ Knows(r)'
           /\ \A o : ~Closes(r, o)' /\ ~Sends(r, "delivery", o)'
           /\ \A c : ~Answers(r, c)'
<1>1. Beside(r) /\ req'[r].pc = "idle"
  BY DEF IInv, TypeOK, Finish, Beside, Idle
<1> QED BY <1>1, IdleKnowsNext

LEMMA AloneCheckOpen ==
    ASSUME IInv, Alone, NEW r \in Request, r \notin RaceRequest, OneAt(r), CheckOpen(r)
    PROVE  Alone'
<1>1. /\ At(r, "checkOpen") /\ cards' = cards /\ status' = status /\ Knows(r)
      /\ \A o : ~Closes(r, o) /\ ~Sends(r, "delivery", o)
  BY DEF CheckOpen, Alone, Closes, Sends, Accepting, At
<1>2. CASE Finish(r)
  BY <1>1, <1>2, FinishIdle, AloneReads DEF At
<1>3. CASE Goto(r, "insert") /\ ~HasOpenCancel(req[r].message.order)
  <2>1. /\ Beside(r) /\ req'[r].pc = "insert" /\ req'[r].message = req[r].message
    BY <1>3, OnwardReq DEF Steps
  <2>2. /\ req[r].message.kind = "cancel"
        /\ status[req[r].message.order] \in {"pending", "review"}
    BY <1>1 DEF Knows
  <2>3. \A o : o = req[r].message.order => OpenCards(o, {"cancel"})' = {}
    BY <1>1, <1>3 DEF HasOpenCancel, OpenCards, IsOpen
  <2>4. \A o : ~Closes(r, o)' /\ ~Sends(r, "delivery", o)'
    BY <2>1, <2>2 DEF Closes, Sends, Accepting, At
  <2>5. \A o : Sends(r, "cancel", o)' => o = req[r].message.order
    BY <2>1 DEF Sends
  <2>6. Knows(r)'
    BY <1>1, <2>1, <2>2, <2>3, <2>4, <2>5 DEF Knows, At
  <2> QED BY <1>1, <2>1, <2>6, AloneReads DEF At
<1> QED BY <1>2, <1>3 DEF CheckOpen

LEMMA AloneInsert ==
    ASSUME IInv, Alone, NEW r \in Request, r \notin RaceRequest, OneAt(r),
           NEW c \in Card, Insert(r, c)
    PROVE  Alone'
<1>1. /\ At(r, "insert") /\ cards[c].state = "unsent" /\ status' = status /\ Finish(r)
      /\ cards' = [cards EXCEPT ![c] = req[r].message]
  BY DEF Insert
<1>2. PICK m \in CardDoc : m = req[r].message
  BY DEF IInv, TypeOK, Req
<1>3. m.state = "open" /\ m.order \in Order
  BY <1>1, <1>2 DEF IInv, InFlight, Remembers, At, Between
<1>4. cards'[c] = m /\ \A d \in Card : d # c => cards'[d] = cards[d]
  BY <1>1, <1>2 DEF IInv, TypeOK
<1>5. Knows(r) /\ \A o \in Order : TidyBut(r, o)
  BY TidyNow
<1>6. \A o : ~Closes(r, o) /\ \A d : ~Answers(r, d)
  BY <1>1 DEF Closes, Answers, Accepting, At
<1>7. ASSUME NEW o \in Order
      PROVE  TidyBut(r, o)'
  <2>1. \A k : m.order # o \/ m.kind # k => OpenCards(o, {k})' = OpenCards(o, {k})
    BY <1>1, <1>4 DEF OpenCards, IsOpen
  <2>2. \A k : m.order = o /\ m.kind = k => OpenCards(o, {k})' = OpenCards(o, {k}) \union {c}
    BY <1>1, <1>3, <1>4 DEF OpenCards, IsOpen
  <2>3. \A k : Sends(r, k, o) <=> m.order = o /\ m.kind = k
    BY <1>1, <1>2 DEF Sends
  <2>4. /\ Sends(r, "delivery", o) => status[o] = "review" /\ OpenCards(o, {"delivery"}) = {}
        /\ Sends(r, "cancel", o) =>
             status[o] \in {"pending", "review"} /\ OpenCards(o, {"cancel"}) = {}
    BY <1>5 DEF Knows
  <2>5. TidyBut(r, o)
    BY <1>5
  <2>6. \A k \in {"cancel", "delivery"} :
          OpenCards(o, {k})' = OpenCards(o, {k}) \/ OpenCards(o, {k})' = {c}
    BY <2>1, <2>2, <2>3, <2>4
  <2>7. Single(OpenCards(o, {"cancel"})') /\ Single(OpenCards(o, {"delivery"})')
    <3>1. Single(OpenCards(o, {"cancel"})) /\ Single(OpenCards(o, {"delivery"})) /\ Single({c})
      BY <2>5 DEF TidyBut, Single
    <3> QED BY <2>6, <3>1
  <2>8. OpenCards(o, {"cancel"})' # {} => status[o] \in {"pending", "review"}
    BY <1>6, <2>1, <2>2, <2>3, <2>4, <2>5 DEF TidyBut
  <2>9. OpenCards(o, {"delivery"})' # {} => status[o] = "review"
    BY <1>6, <2>1, <2>2, <2>3, <2>4, <2>5 DEF TidyBut
  <2>10. status[o] = "review" => OpenCards(o, {"delivery"})' # {}
    BY <2>1, <2>2, <2>3, <2>4, <2>5 DEF TidyBut
  <2> QED BY <1>1, <2>7, <2>8, <2>9, <2>10 DEF TidyBut, Single
<1> QED BY <1>1, <1>7, FinishIdle, TidyNext

LEMMA AloneMove ==
    ASSUME IInv, Alone, NEW r \in Request, r \notin RaceRequest, OneAt(r), MoveOrder(r)
    PROVE  Alone'
<1>1. /\ At(r, "move") /\ cards' = cards /\ Knows(r) /\ req[r].card \in Card
      /\ req[r].answer \in {"accepted", "rejected"}
      /\ \A o : ~Closes(r, o) /\ (\A k : ~Sends(r, k, o)) /\ \A d : ~Answers(r, d)
  BY DEF MoveOrder, Alone, Closes, Sends, Answers, Accepting, At, IInv, InFlight, Remembers, TypeOK, Req
<1>2. PICK c \in Card : c = req[r].card
  BY <1>1
<1>3. PICK a \in {"accepted", "rejected"} : a = req[r].answer
  BY <1>1
<1>4. CASE Finish(r) /\ UNCHANGED <<customer, status, performer>>
  BY <1>1, <1>4, FinishIdle, AloneReads DEF At
<1>5. CASE Moves(cards[c], a) /\ Goto(r, "mark")
  <2>1. PICK o \in Order : o = cards[c].order
    BY <1>1, <1>2 DEF At, IInv, InFlight, Remembers, Parties, Between
  <2>2. /\ Beside(r) /\ req'[r].pc = "mark" /\ req'[r].card = c /\ req'[r].answer = a
    BY <1>2, <1>3, <1>5, OnwardReq DEF Steps
  <2>3. IsOpen(c) /\ (cards[c].kind # "delivery" => a = "accepted")
    BY <1>1, <1>2, <1>3 DEF Knows, At
  <2>4. cards[c].kind \in Offers \union {"cancel", "delivery"}
    BY DEF IInv, TypeOK, CardDoc, Kinds
  <2>5. /\ \A p \in Order : p # o => status'[p] = status[p]
        /\ status'[o] \in {"pending", "completed", "cancelled"}
        /\ a = "rejected" => cards[c].kind = "delivery" /\ status'[o] = "pending"
    <3> USE DEF D!Agree, D!CallOff, D!Complete, D!SendBack, D!Move
    <3>1. status \in [Order -> D!Stages]
      BY DEF IInv, TypeOK, D!TypeOK
    <3>2. CASE cards[c].kind \in Offers
      BY <1>5, <2>1, <2>3, <3>1, <3>2 DEF Moves, Offers
    <3>3. CASE cards[c].kind = "cancel"
      BY <1>5, <2>1, <2>3, <3>1, <3>3 DEF Moves
    <3>4. CASE cards[c].kind = "delivery"
      BY <1>3, <1>5, <2>1, <3>1, <3>4 DEF Moves
    <3> QED BY <2>4, <3>2, <3>3, <3>4
  <2>6. \A p : /\ Closes(r, p)' <=> a = "accepted" /\ p = o
               /\ ~Sends(r, "delivery", p)' /\ ~Sends(r, "cancel", p)'
    BY <1>1, <2>1, <2>2 DEF Closes, Sends, Accepting, At
  <2>7. Answers(r, c)'
    BY <2>2 DEF Answers, At
  <2>8. Knows(r)'
    <3>1. IsOpen(req[r].card)'
      BY <1>1, <2>2, <2>3 DEF IsOpen
    <3>2. cards'[req'[r].card].order = o
      BY <1>1, <2>1, <2>2
    <3> QED BY <2>1, <2>2, <2>5, <2>6, <3>1, <3>2 DEF Knows, At
  <2>9. ASSUME NEW p \in Order
        PROVE  TidyBut(r, p)'
    <3>1. \A K : OpenCards(p, K)' = OpenCards(p, K)
      BY <1>1, OpenStill
    <3>2. TidyBut(r, p)
      BY TidyNow
    <3>3. CASE p # o
      BY <1>1, <2>5, <3>1, <3>2, <3>3 DEF TidyBut
    <3>4. CASE p = o /\ a = "accepted"
      BY <2>5, <2>6, <3>1, <3>2, <3>4 DEF TidyBut
    <3>5. CASE p = o /\ a = "rejected"
      <4>1. c \in OpenCards(o, {"delivery"})
        BY <2>1, <2>3, <2>5, <3>5 DEF OpenCards
      <4>2. \A d \in OpenCards(o, {"delivery"}) : d = c
        BY <3>2, <3>5, <4>1 DEF TidyBut, Single
      <4> QED BY <2>5, <2>7, <3>1, <3>2, <3>5, <4>2 DEF TidyBut
    <3> QED BY <3>3, <3>4, <3>5
  <2> QED BY <2>2, <2>8, <2>9, TidyNext
<1> QED BY <1>1, <1>2, <1>3, <1>4, <1>5 DEF MoveOrder

(* A card that is open is answered or deleted: the open ones are the others. *)
LEMMA OneClosed ==
    ASSUME IInv, NEW c \in Card, NEW s \in {"accepted", "rejected", "deleted"},
           cards' = [cards EXCEPT ![c].state = s]
    PROVE  /\ \A o, K : OpenCards(o, K)' = OpenCards(o, K) \ {c}
           /\ \A d \in Card : Restated(d)
           /\ cards'[c].state = s /\ \A d \in Card : d # c => cards'[d] = cards[d]
<1>1. cards \in [Card -> CardDoc]
  BY DEF IInv, TypeOK
<1>2. cards'[c].state = s /\ \A d \in Card : d # c => cards'[d] = cards[d]
  BY <1>1 DEF CardDoc
<1>3. \A d \in Card : Restated(d)
  BY <1>1 DEF CardDoc, Restated
<1> QED BY <1>2, <1>3 DEF OpenCards, IsOpen, Restated

LEMMA SingleLess ==
    ASSUME NEW S, NEW T, T \subseteq S, Single(S)
    PROVE  Single(T)
BY DEF Single

LEMMA AloneSetStatus ==
    ASSUME IInv, Alone, NEW r \in Request, r \notin RaceRequest, OneAt(r), SetStatus(r)
    PROVE  Alone'
<1>1. /\ At(r, "mark") /\ status' = status /\ req[r].card \in Card
      /\ req[r].answer \in {"accepted", "rejected"}
      /\ \A o, k : ~Sends(r, k, o)
  BY DEF SetStatus, Sends, At, IInv, InFlight, Remembers, TypeOK, Req
<1>2. PICK c \in Card : c = req[r].card
  BY <1>1
<1>3. PICK a \in {"accepted", "rejected"} : a = req[r].answer
  BY <1>1
<1>4. Knows(r) /\ \A o \in Order : TidyBut(r, o)
  BY TidyNow
<1>5. cards[c].state = "open"
  BY <1>1, <1>2, <1>4 DEF Knows, At, IsOpen
<1>6. /\ cards' = [cards EXCEPT ![c].state = a]
      /\ IF a = "accepted" THEN Goto(r, "find") ELSE Finish(r)
  BY <1>2, <1>3, <1>5 DEF SetStatus
<1>7. /\ \A o, K : OpenCards(o, K)' = OpenCards(o, K) \ {c}
      /\ \A d \in Card : Restated(d)
      /\ cards'[c].state = a
  BY <1>6, OneClosed
<1>8. \A o : Closes(r, o) <=> a = "accepted" /\ cards[c].order = o
  BY <1>1, <1>2, <1>3 DEF Closes, Accepting, At
<1>9. /\ Beside(r) /\ Knows(r)' /\ \A o : Closes(r, o)' <=> Closes(r, o)
  <2>1. CASE a = "accepted"
    <3>1. Beside(r) /\ req'[r].pc = "find" /\ req'[r].card = c
      BY <1>2, <1>6, <2>1, OnwardReq DEF Steps
    <3>2. \A o : Closes(r, o)' <=> Closes(r, o)
      BY <1>7, <1>8, <2>1, <3>1 DEF Closes, At, Restated
    <3>3. \A o, k : ~Sends(r, k, o)'
      BY <3>1 DEF Sends, At
    <3>4. Knows(r)'
      BY <1>1, <1>4, <1>7, <2>1, <3>1, <3>2, <3>3 DEF Knows, At
    <3> QED BY <3>1, <3>2, <3>4
  <2>2. CASE a = "rejected"
    BY <1>6, <1>8, <2>2, FinishIdle
  <2> QED BY <2>1, <2>2
<1>10. ASSUME NEW o \in Order
       PROVE  TidyBut(r, o)'
  <2>1. TidyBut(r, o) /\ \A K : OpenCards(o, K)' = OpenCards(o, K) \ {c}
    BY <1>4, <1>7
  <2>2. Single(OpenCards(o, {"cancel"}))' /\ Single(OpenCards(o, {"delivery"}))'
    BY <2>1, SingleLess DEF TidyBut, Single
  <2>3. \A d : Answers(r, d) => d = c
    BY <1>2 DEF Answers
  <2>4. status[o] = "review" => OpenCards(o, {"delivery"}) # {} /\ c \notin OpenCards(o, {"delivery"})
    <3>1. status[o] = "review" => OpenCards(o, {"delivery"}) # {} /\ ~Closes(r, o)
      BY <1>1, <1>4, <2>1 DEF TidyBut, Knows
    <3>2. ASSUME c \in OpenCards(o, {"delivery"})
          PROVE  Closes(r, o) \/ status[o] = "pending"
      <4>1. cards[c].order = o /\ cards[c].kind = "delivery"
        BY <3>2 DEF OpenCards
      <4>2. CASE a = "accepted"
        BY <1>8, <4>1, <4>2
      <4>3. CASE a = "rejected"
        BY <1>1, <1>2, <1>3, <1>4, <4>1, <4>3 DEF Knows
      <4> QED BY <4>2, <4>3
    <3> QED BY <3>1, <3>2
  <2> QED BY <1>1, <1>9, <2>1, <2>2, <2>3, <2>4 DEF TidyBut
<1> QED BY <1>9, <1>10, TidyNext

LEMMA AloneFind ==
    ASSUME IInv, Alone, NEW r \in Request, r \notin RaceRequest, OneAt(r), FindOthers(r)
    PROVE  Alone'
<1>1. /\ At(r, "find") /\ cards' = cards /\ status' = status
      /\ req \in [Request -> Req] /\ Others(r) \in SUBSET Card
  BY DEF FindOthers, IInv, TypeOK, Others
<1>2. Beside(r) /\ req'[r].pc = "close" /\ req'[r].card = req[r].card /\ req'[r].closing = Others(r)
  <2> DEFINE s == Others(r)
  <2>1. req' = [req EXCEPT ![r].pc = "close", ![r].closing = s]
    BY DEF FindOthers
  <2> HIDE DEF s
  <2>2. Beside(r) /\ req'[r].pc = "close" /\ req'[r].card = req[r].card /\ req'[r].closing = s
    BY <1>1, <2>1 DEF Req, Beside
  <2> QED BY <2>2 DEF s
<1>3. Others(r)' = Others(r)
  BY <1>1, <1>2 DEF Others, IsOpen
<1>4. \A o : /\ Closes(r, o)' <=> Closes(r, o)
             /\ \A k : ~Sends(r, k, o) /\ ~Sends(r, k, o)'
  BY <1>1, <1>2 DEF Closes, Sends, Accepting, At
<1>5. Knows(r)
  BY DEF Alone
<1>6. Knows(r)'
  BY <1>1, <1>2, <1>3, <1>4, <1>5 DEF Knows, At
<1> QED BY <1>1, <1>2, <1>4, <1>6, AloneReads DEF At

LEMMA AloneClose ==
    ASSUME IInv, Alone, NEW r \in Request, r \notin RaceRequest, OneAt(r), CloseOthers(r)
    PROVE  Alone'
<1>1. /\ At(r, "close") /\ status' = status /\ Finish(r) /\ req[r].card \in Card
      /\ \A o, k : ~Sends(r, k, o)
      /\ \A d : ~Answers(r, d)
  BY DEF CloseOthers, Sends, Answers, At, IInv, InFlight, Remembers
<1>2. PICK c \in Card : c = req[r].card
  BY <1>1
<1>3. Knows(r) /\ \A o \in Order : TidyBut(r, o)
  BY TidyNow
<1>4. cards[c].state = "accepted" /\ req[r].closing = Others(r)
  BY <1>1, <1>2, <1>3 DEF Knows, At
<1>5. \A d \in Card : cards'[d] = IF d \in Others(r) THEN [cards[d] EXCEPT !.state = "rejected"]
                                                    ELSE cards[d]
  BY <1>4 DEF CloseOthers, Others, IsOpen
<1>6. \A o : Closes(r, o) <=> o = cards[c].order
  BY <1>1, <1>2 DEF Closes, Accepting, At
<1>7. \A o, K : o = cards[c].order => OpenCards(o, K)' = {}
  <2>1. \A d \in Card : IsOpen(d) /\ cards[d].order = cards[c].order => d \in Others(r)
    BY <1>2, <1>4 DEF Others, IsOpen
  <2>2. \A d \in Card : cards[d] \in CardDoc
    BY DEF IInv, TypeOK
  <2>3. ASSUME NEW d \in Card, IsOpen(d)', cards'[d].order = cards[c].order
        PROVE  FALSE
    <3>1. CASE d \in Others(r)
      BY <1>5, <2>2, <2>3, <3>1 DEF IsOpen, CardDoc
    <3>2. CASE d \notin Others(r)
      BY <1>5, <2>1, <2>3, <3>2 DEF IsOpen
    <3> QED BY <3>1, <3>2
  <2> QED BY <2>3 DEF OpenCards
<1>8. \A o, K : o # cards[c].order => OpenCards(o, K)' = OpenCards(o, K)
  <2>1. \A d \in Card : cards[d] \in CardDoc
    BY DEF IInv, TypeOK
  <2>2. \A d \in Card : cards'[d].order = cards[d].order
    BY <1>5, <2>1 DEF CardDoc
  <2>3. \A d \in Card : cards[d].order # cards[c].order => cards'[d] = cards[d]
    BY <1>2, <1>5 DEF Others
  <2> QED BY <2>2, <2>3 DEF OpenCards, IsOpen
<1>9. ASSUME NEW o \in Order
      PROVE  TidyBut(r, o)'
  <2>1. CASE o = cards[c].order
    <3>1. status[o] # "review"
      BY <1>3, <1>6, <2>1 DEF Knows
    <3>2. \A K : OpenCards(o, K)' = {}
      BY <1>7, <2>1
    <3> QED BY <1>1, <3>1, <3>2 DEF TidyBut, Single
  <2>2. CASE o # cards[c].order
    <3>1. \A K : OpenCards(o, K)' = OpenCards(o, K)
      BY <1>8, <2>2
    <3> QED BY <1>1, <1>3, <1>6, <2>2, <3>1 DEF TidyBut
  <2> QED BY <2>1, <2>2
<1> QED BY <1>1, <1>9, FinishIdle, TidyNext

LEMMA AloneDelete ==
    ASSUME IInv, Alone, NEW r \in Request, r \notin RaceRequest, OneAt(r), DeleteOne(r)
    PROVE  Alone'
<1>1. /\ At(r, "delete") /\ status' = status /\ Finish(r) /\ req[r].card \in Card
      /\ \A o : ~Closes(r, o) /\ \A k : ~Sends(r, k, o)
      /\ \A d : ~Answers(r, d)
  BY DEF DeleteOne, Closes, Sends, Answers, Accepting, At, IInv, InFlight, Remembers
<1>2. PICK c \in Card : c = req[r].card
  BY <1>1
<1>3. Knows(r) /\ \A o \in Order : TidyBut(r, o)
  BY TidyNow
<1>4. cards[c].kind # "delivery"
  BY <1>1, <1>2, <1>3 DEF Knows
<1>5. \A o, K : OpenCards(o, K)' = OpenCards(o, K) \ {c}
  BY <1>2, OneClosed DEF DeleteOne
<1>6. ASSUME NEW o \in Order
      PROVE  TidyBut(r, o)'
  <2>1. TidyBut(r, o) /\ \A K : OpenCards(o, K)' = OpenCards(o, K) \ {c}
    BY <1>3, <1>5
  <2>2. OpenCards(o, {"delivery"})' = OpenCards(o, {"delivery"})
    BY <1>4, <2>1 DEF OpenCards
  <2>3. Single(OpenCards(o, {"cancel"})') /\ Single(OpenCards(o, {"delivery"})')
    BY <2>1, <2>2, SingleLess DEF TidyBut
  <2> QED BY <1>1, <2>1, <2>2, <2>3 DEF TidyBut, Single
<1> QED BY <1>1, <1>6, FinishIdle, TidyNext

LEMMA AloneStep ==
    ASSUME IInv, Alone, NEW r \in Request, Step(r)
    PROVE  r \notin RaceRequest /\ Alone'
<1>1. req[r].pc # "idle"
  BY DEF Step, CheckOpen, Insert, MoveOrder, SetStatus, FindOthers, CloseOthers, DeleteOne, At
<1>2. r \notin RaceRequest
  BY <1>1 DEF Alone, Idle
<1>3. OneAt(r)
  BY <1>2, TheOne
<1> QED BY <1>2, <1>3, AloneCheckOpen, AloneInsert, AloneMove, AloneSetStatus, AloneFind,
           AloneClose, AloneDelete DEF Step

(***************************************************************************)
(* Beside the handler                                                      *)
(***************************************************************************)

(* An order that nobody has agreed to perform has neither a proposal nor a   *)
(* delivery to answer, and no handler is at work on it.                      *)
LEMMA NothingToAnswer ==
    ASSUME IInv, Alone, NEW o \in Order, status[o] \in {"none", "active"}
    PROVE  /\ OpenCards(o, {"cancel"}) = {} /\ OpenCards(o, {"delivery"}) = {}
           /\ \A r \in Request : /\ ~Closes(r, o) /\ ~Sends(r, "delivery", o)
                                 /\ ~Sends(r, "cancel", o)
                                 /\ At(r, "checkOpen") => req[r].message.order # o
                                 /\ At(r, "mark") /\ cards[req[r].card].kind = "delivery"
                                    /\ req[r].answer = "rejected"
                                      => cards[req[r].card].order # o
<1>1. ASSUME NEW r \in Request
      PROVE  /\ ~Closes(r, o) /\ ~Sends(r, "delivery", o)
             /\ ~Sends(r, "cancel", o)
             /\ At(r, "checkOpen") => req[r].message.order # o
             /\ At(r, "mark") /\ cards[req[r].card].kind = "delivery"
                /\ req[r].answer = "rejected" => cards[req[r].card].order # o
  BY DEF Alone, Knows
<1>2. OpenCards(o, {"cancel"}) = {}
  BY <1>1 DEF Alone, Tidy
<1>3. ASSUME NEW c \in OpenCards(o, {"delivery"})
      PROVE  FALSE
  <2>1. cards[c].order = o /\ cards[c].kind = "delivery"
    BY DEF OpenCards
  <2>2. PICK r \in Request : Answers(r, c)
    BY <1>1 DEF Alone, Tidy
  <2>3. At(r, "mark") /\ req[r].card = c /\ req[r].answer \in {"accepted", "rejected"}
    BY <2>2 DEF Answers, IInv, TypeOK, Req
  <2> QED BY <1>1, <2>1, <2>3 DEF Closes, Accepting
<1> QED BY <1>1, <1>2, <1>3

LEMMA AloneOutside ==
    ASSUME IInv, Alone,
           \/ \E o \in Order : CancelOrder(o) \/ \E u \in User : PostOrder(o, u)
           \/ \E c \in Card : DaysPass(c)
           \/ UNCHANGED vars
    PROVE  Alone'
<1>1. cards' = cards /\ req' = req
  BY DEF CancelOrder, PostOrder, DaysPass, vars
<1>2. \A o \in Order : \/ status'[o] = status[o]
                       \/ status[o] \in {"none", "active"} /\ status'[o] # "review"
  BY DEF CancelOrder, PostOrder, DaysPass, vars, D!CallOff, D!Move, D!Post, IInv, TypeOK, D!TypeOK
<1>3. \A o, K : OpenCards(o, K)' = OpenCards(o, K)
  BY <1>1, OpenStill
<1>4. \A r, o : /\ Closes(r, o)' <=> Closes(r, o)
                /\ \A k : Sends(r, k, o)' <=> Sends(r, k, o)
                /\ \A c : Answers(r, c)' <=> Answers(r, c)
  BY <1>1 DEF Closes, Sends, Answers, Accepting, At
<1>5. ASSUME NEW o \in Order
      PROVE  Tidy(o)'
  <2>1. Tidy(o)
    BY DEF Alone
  <2>2. CASE status'[o] = status[o]
    BY <1>3, <1>4, <2>1, <2>2 DEF Tidy
  <2>3. CASE status[o] \in {"none", "active"} /\ status'[o] # "review"
    <3>1. OpenCards(o, {"cancel"})' = {} /\ OpenCards(o, {"delivery"})' = {}
      BY <1>3, <2>3, NothingToAnswer
    <3> QED BY <2>3, <3>1 DEF Tidy, Single
  <2> QED BY <1>2, <2>2, <2>3
<1>6. ASSUME NEW r \in Request
      PROVE  Knows(r)'
  <2>1. Knows(r) /\ Remembers(r)
    BY DEF Alone, IInv, InFlight
  <2>2. \A o \in Order : Sends(r, "delivery", o) \/ Sends(r, "cancel", o) \/ Closes(r, o)
          => status'[o] = status[o]
    BY <1>2, NothingToAnswer
  <2>3. At(r, "checkOpen") => status'[req[r].message.order] = status[req[r].message.order]
    BY <1>2, <2>1, NothingToAnswer DEF Remembers, Between, At
  <2>4. At(r, "mark") /\ cards[req[r].card].kind = "delivery" /\ req[r].answer = "rejected" =>
          status'[cards[req[r].card].order] = status[cards[req[r].card].order]
    BY <1>2, <2>1, NothingToAnswer DEF Remembers, Between, At, IInv, Parties
  <2>5. Others(r)' = Others(r)
    BY <1>1 DEF Others, IsOpen
  <2>6. \A o \in Order :
          /\ Sends(r, "delivery", o)' => status'[o] = "review" /\ OpenCards(o, {"delivery"})' = {}
          /\ Sends(r, "cancel", o)' =>
               status'[o] \in {"pending", "review"} /\ OpenCards(o, {"cancel"})' = {}
          /\ Closes(r, o)' => status'[o] \in {"pending", "completed", "cancelled"}
    BY <1>3, <1>4, <2>1, <2>2 DEF Knows
  <2>7. /\ At(r, "checkOpen") => /\ req[r].message.kind = "cancel"
                                 /\ status'[req[r].message.order] \in {"pending", "review"}
        /\ At(r, "mark") /\ cards[req[r].card].kind = "delivery" /\ req[r].answer = "rejected" =>
             status'[cards[req[r].card].order] = "pending"
    BY <2>1, <2>3, <2>4 DEF Knows
  <2> QED BY <1>1, <2>1, <2>5, <2>6, <2>7 DEF Knows, At, IsOpen
<1>7. \A r \in Request : r \in RaceRequest => req'[r] = Idle
  BY <1>1 DEF Alone
<1> QED BY <1>5, <1>6, <1>7 DEF Alone

LEMMA AloneInit == Init => Alone
<1> SUFFICES ASSUME Init
             PROVE  Alone
  OBVIOUS
<1>1. \A r \in Request : req[r] = Idle
  BY DEF Init
<1>2. \A r \in Request : Knows(r)
  BY <1>1, IdleKnows DEF Idle
<1>3. \A o, K : OpenCards(o, K) = {}
  BY DEF Init, OpenCards, IsOpen, Unsent
<1>4. \A o \in Order : status[o] = "none"
  BY DEF Init, D!Init
<1> QED BY <1>1, <1>2, <1>3, <1>4 DEF Alone, Tidy, Single

(* A handler that starts is at work.                                         *)
LEMMA StartsBusy ==
    ASSUME IInv, NEW r \in Request, Start(r)
    PROVE  req'[r].pc # "idle"
<1>1. req \in [Request -> Req]
  BY DEF IInv, TypeOK
<1>2. ASSUME NEW s \in {"checkOpen", "insert"}, NEW m, req' = [req EXCEPT ![r] = Sending(s, m)]
      PROVE  req'[r].pc # "idle"
  BY <1>1, <1>2 DEF Sending, Idle
<1>3. ASSUME NEW s \in {"move", "mark", "delete"}, NEW c, NEW a,
             req' = [req EXCEPT ![r] = Answering(s, c, a)]
      PROVE  req'[r].pc # "idle"
  BY <1>1, <1>3 DEF Answering, Idle
<1>4. ASSUME NEW o \in Order, NEW u \in User, NEW v \in User,
             SuggestOrder(r, o, u, v) \/ ProposeCancel(r, o, u, v)
      PROVE  req'[r].pc # "idle"
  BY <1>2, <1>4 DEF SuggestOrder, ProposeCancel, Begin
<1>5. ASSUME NEW c \in Card, NEW a, AnswerCard(r, c, a)
      PROVE  req'[r].pc # "idle"
  <2>1. CASE a = "accepted" \/ cards[c].kind = "delivery"
    BY <1>3, <1>5, <2>1 DEF AnswerCard, Begin
  <2>2. CASE ~(a = "accepted" \/ cards[c].kind = "delivery")
    BY <1>3, <1>5, <2>2 DEF AnswerCard, Begin
  <2> QED BY <2>1, <2>2
<1>6. ASSUME NEW c \in Card, ForceCancel(r, c) \/ DeleteMessage(r, c)
      PROVE  req'[r].pc # "idle"
  BY <1>3, <1>6 DEF ForceCancel, DeleteMessage, Begin
<1>7. ASSUME NEW o \in Order, FinishOrder(r, o)
      PROVE  req'[r].pc # "idle"
  BY <1>2, <1>7 DEF FinishOrder, Begin
<1>8. ASSUME NEW o \in Order, NEW u \in User, PostResponse(r, o, u)
      PROVE  req'[r].pc # "idle"
  BY <1>2, <1>8 DEF PostResponse, Begin
<1> QED BY <1>4, <1>5, <1>6, <1>7, <1>8 DEF Start

\* Of the handlers only the one outside RaceRequest ever works.
OneSlot == \A r \in Request : r \in RaceRequest => req'[r] = Idle

(* In a behaviour of one handler at a time no other one ever starts.         *)
LEMMA AloneServe ==
    ASSUME IInv, Alone, Serve, OneSlot
    PROVE  Alone'
<1>1. ASSUME NEW r \in Request, Start(r)
      PROVE  Alone'
  <2>1. CASE r \notin RaceRequest
    BY <1>1, <2>1, AloneStart
  <2>2. CASE r \in RaceRequest
    <3>1. req'[r] = Idle /\ req[r] = Idle
      BY <2>2 DEF Alone, OneSlot
    <3>2. req'[r].pc # "idle"
      BY <1>1, StartsBusy
    <3> QED BY <3>1, <3>2 DEF Idle
  <2> QED BY <2>1, <2>2
<1>2. ASSUME NEW r \in Request, Step(r)
      PROVE  Alone'
  BY <1>2, AloneStep
<1> QED BY <1>1, <1>2, AloneOutside DEF Serve

(* The cards with one handler at a time: whatever RaceRequest holds never    *)
(* comes to work, and what is left is one slot (SoloAssumption). Nothing else*)
(* is bounded.                                                               *)
OneByOne == Init /\ [][Serve /\ OneSlot]_vars

LEMMA OneByOneInvariance == OneByOne => [](IInv /\ Alone)
<1>1. IInv /\ Alone /\ [Serve /\ OneSlot]_vars => IInv' /\ Alone'
  <2> SUFFICES ASSUME IInv, Alone, [Serve /\ OneSlot]_vars
               PROVE  IInv' /\ Alone'
    OBVIOUS
  <2>1. [Next]_vars
    BY DEF Next
  <2> QED BY <2>1, NextIInv, AloneServe, AloneOutside
<1> QED BY <1>1, InitIInv, AloneInit, PTL DEF OneByOne

LEMMA SoloInvariance == MCSpec => [](IInv /\ (solo => Alone))
<1>1. MCInit => IInv /\ Alone
  BY InitIInv, AloneInit DEF MCInit
<1>2. IInv /\ (solo => Alone) /\ [MCNext]_<<vars, solo>> => IInv' /\ (solo => Alone)'
  <2> SUFFICES ASSUME IInv, solo => Alone, [MCNext]_<<vars, solo>>
               PROVE  IInv' /\ (solo => Alone)'
    OBVIOUS
  <2>1. [Next]_vars /\ UNCHANGED solo
    BY DEF MCNext, Next
  <2>2. IInv'
    BY <2>1, NextIInv
  <2>3. solo => Alone'
    BY AloneServe, AloneOutside DEF MCNext, Only, OneSlot
  <2> QED BY <2>1, <2>2, <2>3
<1> QED BY <1>1, <1>2, PTL DEF MCSpec

(***************************************************************************)
(* The theorems about one handler at a time                                *)
(***************************************************************************)

(* However the cards of an order were answered, deleted and proposed one     *)
(* after the other, an order in review has its delivery to answer.           *)
THEOREM ReviewSolo == (OneByOne => []ReviewAnswerable) /\ (MCSpec => []SoloReview)
<1>1. Alone => ReviewAnswerable
  <2> SUFFICES ASSUME Alone, Quiet, NEW o \in Order, status[o] = "review"
               PROVE  OpenCards(o, {"delivery"}) # {}
    BY DEF ReviewAnswerable
  <2>1. \A r \in Request : ~Sends(r, "delivery", o)
    BY DEF Quiet, Sends, At
  <2> QED BY <2>1 DEF Alone, Tidy
<1>2. OneByOne => []ReviewAnswerable
  BY <1>1, OneByOneInvariance, PTL
<1>3. (solo => Alone) => SoloReview
  BY <1>1 DEF SoloReview
<1>4. MCSpec => []SoloReview
  BY <1>3, SoloInvariance, PTL
<1> QED BY <1>2, <1>4

(* No order has two open proposals to cancel, and closeOtherOffers leaves no *)
(* card to answer on an order that has ended.                                *)
THEOREM DanglingSolo == (OneByOne => []NoDanglingCards) /\ (MCSpec => []SoloDangling)
<1>1. Alone => NoDanglingCards
  <2> SUFFICES ASSUME Alone, NEW o \in Order
               PROVE  /\ Cardinality(OpenCards(o, {"cancel"})) <= 1
                      /\ Quiet /\ status[o] \in D!Final => OpenCards(o, {"delivery", "cancel"}) = {}
    BY DEF NoDanglingCards
  <2>1. Tidy(o)
    BY DEF Alone
  <2>2. Cardinality(OpenCards(o, {"cancel"})) <= 1
    BY <2>1, OneAtMost DEF Tidy
  <2>3. ASSUME Quiet, status[o] \in D!Final
        PROVE  OpenCards(o, {"delivery", "cancel"}) = {}
    <3>1. \A r \in Request : ~Closes(r, o) /\ \A c : ~Answers(r, c)
      BY <2>3 DEF Quiet, Closes, Answers, Accepting, At
    <3>2. status[o] \notin {"pending", "review"}
      BY <2>3 DEF D!Final
    <3>3. OpenCards(o, {"cancel"}) = {} /\ OpenCards(o, {"delivery"}) = {}
      BY <2>1, <3>1, <3>2 DEF Tidy
    <3> QED BY <3>3 DEF OpenCards
  <2> QED BY <2>2, <2>3
<1>2. OneByOne => []NoDanglingCards
  BY <1>1, OneByOneInvariance, PTL
<1>3. (solo => Alone) => SoloDangling
  BY <1>1 DEF SoloDangling
<1>4. MCSpec => []SoloDangling
  BY <1>3, SoloInvariance, PTL
<1> QED BY <1>2, <1>4

(* A step of the only handler writes into cards that are open, or issues one.*)
LEMMA WritesOpen ==
    ASSUME IInv, Alone, NEW r \in Request, r \notin RaceRequest, Step(r)
    PROVE  AnswersKeep
<1>1. Knows(r)
  BY DEF Alone
<1>2. CASE cards' = cards
  BY <1>2 DEF AnswersKeep
<1>3. ASSUME NEW c \in Card, Insert(r, c)
      PROVE  AnswersKeep
  BY <1>3 DEF Insert, AnswersKeep, IInv, TypeOK
<1>4. ASSUME NEW c \in Card, IsOpen(c), NEW s \in {"accepted", "rejected", "deleted"},
             cards' = [cards EXCEPT ![c].state = s]
      PROVE  AnswersKeep
  BY <1>4, OneClosed DEF AnswersKeep, IsOpen
<1>5. CASE SetStatus(r)
  <2>1. /\ req[r].card \in Card /\ IsOpen(req[r].card)
        /\ req[r].answer \in {"accepted", "rejected"}
    BY <1>1, <1>5 DEF SetStatus, At, Knows, IInv, InFlight, Remembers, TypeOK, Req
  <2> QED BY <1>2, <1>4, <1>5, <2>1 DEF SetStatus
<1>6. CASE DeleteOne(r)
  <2>1. req[r].card \in Card /\ IsOpen(req[r].card)
    BY <1>1, <1>6 DEF DeleteOne, At, Knows, IInv, InFlight, Remembers
  <2> QED BY <1>4, <1>6, <2>1 DEF DeleteOne
<1>7. CASE CloseOthers(r)
  BY <1>1, <1>7 DEF CloseOthers, Knows, Others, IsOpen, AnswersKeep, At
<1> QED BY <1>2, <1>3, <1>5, <1>6, <1>7 DEF Step, CheckOpen, MoveOrder, FindOthers

LEMMA AnswersKept ==
    ASSUME IInv, Alone, Serve, OneSlot
    PROVE  AnswersKeep
<1>1. CASE cards' = cards
  BY <1>1 DEF AnswersKeep
<1>2. ASSUME NEW r \in Request, Step(r)
      PROVE  AnswersKeep
  BY <1>2, AloneStep, WritesOpen
<1>3. ASSUME NEW r \in Request, Start(r)
      PROVE  cards' = cards
  BY <1>3 DEF Start, SuggestOrder, PostResponse, ProposeCancel, FinishOrder, AnswerCard,
              ForceCancel, DeleteMessage
<1> QED BY <1>1, <1>2, <1>3 DEF Serve, CancelOrder, PostOrder, DaysPass

(* An accepted card stays accepted: no later answer, deletion or closing of  *)
(* the other offers reaches it.                                              *)
THEOREM AnswersSolo == (OneByOne => [][AnswersKeep]_vars) /\ (MCSpec => SoloAnswers)
<1>1. IInv /\ Alone /\ [Serve /\ OneSlot]_vars => [AnswersKeep]_vars
  BY AnswersKept
<1>2. OneByOne => [][AnswersKeep]_vars
  BY <1>1, OneByOneInvariance, PTL DEF OneByOne
<1>3. IInv /\ (solo => Alone) /\ [MCNext]_<<vars, solo>> => [solo => AnswersKeep]_vars
  <2> SUFFICES ASSUME IInv, solo, Alone, [MCNext]_<<vars, solo>>, ~UNCHANGED vars
               PROVE  AnswersKeep
    OBVIOUS
  <2>1. Serve /\ OneSlot
    BY DEF MCNext, vars, Only, OneSlot
  <2> QED BY <2>1, AnswersKept
<1>4. MCSpec => SoloAnswers
  BY <1>3, SoloInvariance, PTL DEF MCSpec, SoloAnswers
<1> QED BY <1>2, <1>4
=============================================================================
