-------------------------------- MODULE Cards --------------------------------
(* The deal cards of the chat gateway: an offer of an order (suggest), a     *)
(* response, a delivery and a proposal to cancel. A card is answered in      *)
(* three stages that other handlers interleave with: it is read, the order   *)
(* is moved, and only then the answer is saved into the card as it was read. *)
(* Of the orders the gateway sees what OrderService promises, the life cycle *)
(* Deal; the order service may refuse an assignment for reasons of its own   *)
(* (addresses, drafts, archive).                                             *)
EXTENDS FiniteSets, Naturals

CONSTANTS Order, User, None,
          Card,      \* the message ids that can be issued
          Request,   \* the handlers that can be in flight at once
          Ops        \* the operations this instance calls

ASSUME CardsAssumption ==
    /\ None \notin Order \union User \union Card
    /\ IsFiniteSet(Card)

VARIABLES customer, status, performer,   \* the orders
          cards,                         \* the cards
          overdue,                       \* proposals without an answer for three days
          req                            \* the handlers in flight

deal == <<customer, status, performer>>
vars == <<customer, status, performer, cards, overdue, req>>

D == INSTANCE Deal

Offers == {"suggest", "response"}
Kinds  == Offers \union {"delivery", "cancel"}
States == {"unsent", "open", "accepted", "rejected", "deleted"}

CardDoc == [state : States,
            kind  : Kinds,
            order : Order \union {None},
            from  : User \union {None},
            to    : User \union {None}]

Unsent == [state |-> "unsent", kind |-> "suggest", order |-> None,
           from |-> None, to |-> None]

Steps == {"idle", "checkOpen", "insert", "move", "mark", "find", "close", "delete"}

Req == [pc      : Steps,
        card    : Card \union {None},
        answer  : {"accepted", "rejected"},
        message : CardDoc,          \* the card the handler is about to send
        closing : SUBSET Card]      \* the cards it found to close

Idle == [pc |-> "idle", card |-> None, answer |-> "rejected",
         message |-> Unsent, closing |-> {}]

TypeOK ==
    /\ D!TypeOK
    /\ cards   \in [Card -> CardDoc]
    /\ overdue \in SUBSET Card
    /\ req     \in [Request -> Req]

Init ==
    /\ D!Init
    /\ cards   = [c \in Card |-> Unsent]
    /\ overdue = {}
    /\ req     = [r \in Request |-> Idle]

At(r, s)  == req[r].pc = s
IsOpen(c) == cards[c].state = "open"

Begin(r, op, start) ==
    /\ op \in Ops
    /\ At(r, "idle")
    /\ req' = [req EXCEPT ![r] = start]

Goto(r, s) == req' = [req EXCEPT ![r].pc = s]
Finish(r)  == req' = [req EXCEPT ![r] = Idle]

(***************************************************************************)
(* Sending a card. CardBound keeps an id for every handler that may still  *)
(* come to issue one.                                                      *)
(***************************************************************************)
CardBound ==
    Cardinality({r \in Request : req[r].pc \in {"checkOpen", "insert"}})
    < Cardinality({c \in Card : cards[c].state = "unsent"})

Message(kind, o, from, to) ==
    [state |-> "open", kind |-> kind, order |-> o, from |-> from, to |-> to]

Sending(step, m) == [Idle EXCEPT !.pc = step, !.message = m]

\* sendMessage with is_suggest: one's own listed order.
SuggestOrder(r, o, u, v) ==
    /\ CardBound
    /\ customer[o] = u
    /\ v # u
    /\ status[o] = "active"
    /\ Begin(r, "suggest", Sending("insert", Message("suggest", o, u, v)))
    /\ UNCHANGED <<customer, status, performer, cards, overdue>>

\* postResponse: a response once made can be posted whatever became of the order.
PostResponse(r, o, u) ==
    /\ CardBound
    /\ status[o] # "none"
    /\ customer[o] # u
    /\ Begin(r, "respond", Sending("insert", Message("response", o, u, customer[o])))
    /\ UNCHANGED <<customer, status, performer, cards, overdue>>

\* finishOrder: the order is moved first, the card is sent after.
FinishSilently(r, o) ==   \* mistake: the card is not sent
    /\ "finish" \in Ops /\ At(r, "idle")
    /\ D!HandIn(o)
    /\ UNCHANGED <<cards, overdue, req>>

FinishOrder(r, o) ==
    /\ CardBound
    /\ D!HandIn(o)
    /\ Begin(r, "finish", Sending("insert", Message("delivery", o, performer[o], customer[o])))
    /\ UNCHANGED <<cards, overdue>>

ProposeCancel(r, o, u, v) ==
    /\ CardBound
    /\ status[o] \in {"pending", "review"}
    /\ \/ customer[o] = u /\ performer[o] = v
       \/ customer[o] = v /\ performer[o] = u
    /\ Begin(r, "propose", Sending("checkOpen", Message("cancel", o, u, v)))
    /\ UNCHANGED <<customer, status, performer, cards, overdue>>

HasOpenCancel(o) ==
    \E c \in Card : IsOpen(c) /\ cards[c].kind = "cancel" /\ cards[c].order = o

OpenUnchecked(r) ==   \* mistake: an open proposal is not looked for
    /\ At(r, "checkOpen")
    /\ Goto(r, "insert")
    /\ UNCHANGED <<customer, status, performer, cards, overdue>>

CheckOpen(r) ==
    /\ At(r, "checkOpen")
    /\ IF HasOpenCancel(req[r].message.order) THEN Finish(r) ELSE Goto(r, "insert")
    /\ UNCHANGED <<customer, status, performer, cards, overdue>>

Insert(r, c) ==
    /\ At(r, "insert")
    /\ cards[c].state = "unsent"
    /\ cards' = [cards EXCEPT ![c] = req[r].message]
    /\ Finish(r)
    /\ UNCHANGED <<customer, status, performer, overdue>>

(***************************************************************************)
(* Answering a card: findPendingOffer reads it; the order service moves    *)
(* the order or refuses; setStatus saves the answer by id alone. A refusal *)
(* of anything but a delivery does not concern the order.                  *)
(***************************************************************************)
Answering(step, c, answer) == [Idle EXCEPT !.pc = step, !.card = c, !.answer = answer]

AnswerMarksFirst(r, c, answer) ==   \* mistake: the answer is saved, the order is not asked
    /\ IsOpen(c)
    /\ Begin(r, "answer", Answering("mark", c, answer))
    /\ UNCHANGED <<customer, status, performer, cards, overdue>>

AnswerCard(r, c, answer) ==
    /\ IsOpen(c)
    /\ Begin(r, "answer",
             Answering(IF answer = "accepted" \/ cards[c].kind = "delivery" THEN "move" ELSE "mark",
                       c, answer))
    /\ UNCHANGED <<customer, status, performer, cards, overdue>>

\* forceCancel: the author of a proposal that nobody answered in three days.
ForceCancel(r, c) ==
    /\ IsOpen(c)
    /\ cards[c].kind = "cancel"
    /\ c \in overdue
    /\ Begin(r, "force", Answering("move", c, "accepted"))
    /\ UNCHANGED <<customer, status, performer, cards, overdue>>

PerformerOf(m) == IF m.kind = "suggest" THEN m.to ELSE m.from

\* What the answer asks the order service for, as one conditional query.
Moves(m, answer) ==
    CASE m.kind = "cancel"   -> /\ status[m.order] \in {"pending", "review"}
                                /\ {customer[m.order], performer[m.order]} = {m.from, m.to}
                                /\ D!CallOff(m.order)
      [] m.kind = "delivery" -> /\ customer[m.order] = m.to
                                /\ IF answer = "accepted" THEN D!Complete(m.order)
                                                          ELSE D!SendBack(m.order)
      [] OTHER               -> D!Agree(m.order, PerformerOf(m))

\* The same query finds no order.
Refused(m) ==
    CASE m.kind = "cancel"   -> ~ /\ status[m.order] \in {"pending", "review"}
                                  /\ {customer[m.order], performer[m.order]} = {m.from, m.to}
      [] m.kind = "delivery" -> ~(customer[m.order] = m.to /\ status[m.order] = "review")
      [] OTHER               -> TRUE

MoveTwice(r) ==   \* mistake: the performer already chosen counts as a success
    LET m == cards[req[r].card]
    IN  /\ At(r, "move")
        /\ \/ Moves(m, req[r].answer) /\ Goto(r, "mark")
           \/ Refused(m) /\ Finish(r) /\ UNCHANGED <<customer, status, performer>>
           \/ /\ m.kind \in Offers /\ performer[m.order] = PerformerOf(m)
              /\ Goto(r, "mark")
              /\ UNCHANGED <<customer, status, performer>>
        /\ UNCHANGED <<cards, overdue>>

MoveOrder(r) ==
    LET m == cards[req[r].card]
    IN  /\ At(r, "move")
        /\ \/ Moves(m, req[r].answer) /\ Goto(r, "mark")
           \/ Refused(m) /\ Finish(r) /\ UNCHANGED <<customer, status, performer>>
        /\ UNCHANGED <<cards, overdue>>

\* A card deleted meanwhile cannot be saved, and the handler ends there.
SetStatus(r) ==
    LET c == req[r].card
    IN  /\ At(r, "mark")
        /\ IF cards[c].state = "deleted"
           THEN Finish(r) /\ UNCHANGED cards
           ELSE /\ cards' = [cards EXCEPT ![c].state = req[r].answer]
                /\ IF req[r].answer = "accepted" THEN Goto(r, "find") ELSE Finish(r)
        /\ UNCHANGED <<customer, status, performer, overdue>>

\* closeOtherOffers: the open cards are found, then closed by their ids.
Others(r) == {c \in Card \ {req[r].card} :
                IsOpen(c) /\ cards[c].order = cards[req[r].card].order}

FindOthers(r) ==
    /\ At(r, "find")
    /\ req' = [req EXCEPT ![r].pc = "close", ![r].closing = Others(r)]
    /\ UNCHANGED <<customer, status, performer, cards, overdue>>

CloseOthers(r) ==
    /\ At(r, "close")
    /\ cards' = [c \in Card |->
                   IF c \in req[r].closing /\ cards[c].state # "deleted"
                   THEN [cards[c] EXCEPT !.state = "rejected"]
                   ELSE cards[c]]
    /\ Finish(r)
    /\ UNCHANGED <<customer, status, performer, overdue>>

(***************************************************************************)
(* deleteMessage: the author takes back a card without an answer. A        *)
(* delivery stays.                                                         *)
(***************************************************************************)
DeleteAnswered(r, c) ==   \* mistake: the answer is not looked at
    /\ cards[c].state \in {"open", "accepted", "rejected"}
    /\ cards[c].kind # "delivery"
    /\ Begin(r, "delete", Answering("delete", c, "rejected"))
    /\ UNCHANGED <<customer, status, performer, cards, overdue>>

DeleteDelivery(r, c) ==   \* mistake: a delivery can be taken back
    /\ IsOpen(c)
    /\ Begin(r, "delete", Answering("delete", c, "rejected"))
    /\ UNCHANGED <<customer, status, performer, cards, overdue>>

DeleteMessage(r, c) ==
    /\ IsOpen(c)
    /\ cards[c].kind # "delivery"
    /\ Begin(r, "delete", Answering("delete", c, "rejected"))
    /\ UNCHANGED <<customer, status, performer, cards, overdue>>

DeleteOne(r) ==
    /\ At(r, "delete")
    /\ cards' = [cards EXCEPT ![req[r].card].state = "deleted"]
    /\ Finish(r)
    /\ UNCHANGED <<customer, status, performer, overdue>>

(***************************************************************************)
(* Around the gateway: an order is posted, and cancelled by its author     *)
(* while it has no performer; three days pass; the process stops.          *)
(***************************************************************************)
PostOrder(o, u) ==
    /\ D!Post(o, u)
    /\ UNCHANGED <<cards, overdue, req>>

CancelOrder(o) ==
    /\ status[o] = "active"
    /\ D!CallOff(o)
    /\ UNCHANGED <<cards, overdue, req>>

DaysPass(c) ==
    /\ "force" \in Ops
    /\ IsOpen(c) /\ cards[c].kind = "cancel"
    /\ c \notin overdue
    /\ overdue' = overdue \union {c}
    /\ UNCHANGED <<customer, status, performer, cards, req>>

Crash ==
    /\ "crash" \in Ops
    /\ \E r \in Request : ~At(r, "idle")
    /\ req' = [r \in Request |-> Idle]
    /\ UNCHANGED <<customer, status, performer, cards, overdue>>

(***************************************************************************)
(* The specification                                                       *)
(***************************************************************************)
Start(r) ==
    \/ \E o \in Order : \E u \in User :
          \/ PostResponse(r, o, u)
          \/ \E v \in User : SuggestOrder(r, o, u, v) \/ ProposeCancel(r, o, u, v)
    \/ \E o \in Order : FinishOrder(r, o)
    \/ \E c \in Card :
          \/ \E answer \in {"accepted", "rejected"} : AnswerCard(r, c, answer)
          \/ ForceCancel(r, c) \/ DeleteMessage(r, c)

Step(r) ==
    \/ CheckOpen(r) \/ (\E c \in Card : Insert(r, c))
    \/ MoveOrder(r) \/ SetStatus(r) \/ FindOthers(r) \/ CloseOthers(r)
    \/ DeleteOne(r)

Serve ==
    \/ \E r \in Request : Start(r) \/ Step(r)
    \/ \E o \in Order : CancelOrder(o) \/ \E u \in User : PostOrder(o, u)
    \/ \E c \in Card : DaysPass(c)

Next == Serve \/ Crash

Spec == Init /\ [][Next]_vars

(* A query that was sent is answered while the process runs.               *)
FairSpec == Spec /\ \A r \in Request : WF_vars(Step(r))

(***************************************************************************)
(* What holds under every interleaving                                     *)
(***************************************************************************)

(* What happened to the order when a card was accepted.                     *)
Happened(m) ==
    CASE m.kind = "cancel"   -> status[m.order] = "cancelled"
      [] m.kind = "delivery" -> status[m.order] = "completed"
      [] OTHER               -> performer[m.order] = PerformerOf(m)

(* A card that says "accepted" is never wrong about its order, although the *)
(* order is moved in one query and the card saved in a later one, and other *)
(* cards of the order are answered in between.                              *)
AcceptedTruth == \A c \in Card : cards[c].state = "accepted" => Happened(cards[c])

(* However many offers and responses are accepted at once, one wins.        *)
OneWinner == \A c, d \in Card :
    /\ cards[c].state = "accepted" /\ cards[d].state = "accepted"
    /\ cards[c].kind \in Offers    /\ cards[d].kind \in Offers
    /\ cards[c].order = cards[d].order
    => c = d

(* A card is a matter between the customer and the one who performs or      *)
(* wants to perform his order.                                              *)
Between(m) ==
    /\ m.order \in Order /\ m.from \in User /\ m.to \in User
    /\ m.from # m.to
    /\ status[m.order] # "none"
    /\ m.kind = "suggest"                 => m.from = customer[m.order]
    /\ m.kind \in {"response", "delivery"} => m.to = customer[m.order]
    /\ m.kind = "delivery"                => m.from = performer[m.order]
    /\ m.kind = "cancel" => {m.from, m.to} = {customer[m.order], performer[m.order]}

Parties == \A c \in Card : cards[c].state # "unsent" => Between(cards[c])

(* What a handler found out before an await is still true when it writes.   *)
Accepting(r) == At(r, "mark") /\ req[r].answer = "accepted"

Remembers(r) ==
    /\ req[r].pc \in {"checkOpen", "insert"} =>
         req[r].message.state = "open" /\ Between(req[r].message)
    /\ req[r].pc \in {"move", "mark", "find", "close", "delete"} =>
         req[r].card \in Card /\ cards[req[r].card].state # "unsent"
    /\ Accepting(r) => Happened(cards[req[r].card])
    /\ \A c \in req[r].closing : cards[c].state # "unsent"

InFlight == \A r \in Request : Remembers(r)

(* The card on which the performer was agreed, its answer saved or not.     *)
Winning(c) ==
    /\ cards[c].state # "unsent" /\ cards[c].kind \in Offers
    /\ \/ cards[c].state = "accepted"
       \/ \E r \in Request : Accepting(r) /\ req[r].card = c

OneWinning == \A c \in Card : Winning(c) =>
    /\ performer[cards[c].order] # None
    /\ \A d \in Card : Winning(d) /\ cards[d].order = cards[c].order => d = c

(* An order has its parties from the start of its stages.                   *)
DealParties == \A o \in Order :
    /\ status[o] # "none" => customer[o] \in User
    /\ status[o] \in {"none", "active"} => performer[o] = None
    /\ status[o] \in {"pending", "review", "completed"} => performer[o] \in User
    /\ performer[o] # None => performer[o] # customer[o]

(* The inductive invariant.                                                  *)
IInv == TypeOK /\ DealParties /\ Parties /\ InFlight /\ AcceptedTruth /\ OneWinning

(***************************************************************************)
(* What holds when handlers do not overlap and the process does not stop   *)
(***************************************************************************)
Quiet == \A r \in Request : At(r, "idle")

(* An accepted card is a record of the deal: it is answered once, and it is *)
(* not deleted.                                                             *)
AnswersKeep == \A c \in Card : cards[c].state = "accepted" => cards'[c].state = "accepted"

OpenCards(o, kinds) == {c \in Card : IsOpen(c) /\ cards[c].order = o /\ cards[c].kind \in kinds}

(* The customer of an order in review has a card to answer: without one the *)
(* work can be neither accepted nor returned, nor handed in again.          *)
ReviewAnswerable == Quiet => \A o \in Order :
    status[o] = "review" => OpenCards(o, {"delivery"}) # {}

(* An order has at most one open proposal to cancel, and one that has ended *)
(* leaves neither a proposal nor a delivery to answer.                      *)
NoDanglingCards == \A o \in Order :
    /\ Cardinality(OpenCards(o, {"cancel"})) <= 1
    /\ Quiet /\ status[o] \in D!Final => OpenCards(o, {"delivery", "cancel"}) = {}

(* Work handed in reaches the customer as a card.                           *)
DeliveryArrives == \A o \in Order :
    status[o] = "review" ~> (OpenCards(o, {"delivery"}) # {} \/ status[o] # "review")
=============================================================================
