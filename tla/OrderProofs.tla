----------------------------- MODULE OrderProofs -----------------------------
(* Proofs about Order for every set of users, orders, responses and handlers. *)
EXTENDS MCOrder, Counting

(***************************************************************************)
(* The operators on documents                                              *)
(***************************************************************************)

(* The defaults of the schema make a document.                              *)
LEMMA BlankType == Blank \in Doc
BY DEF Blank, Doc, Statuses, ActiveValues, Formats

(* Normalising the location keeps a document a document and touches nothing *)
(* but the city.                                                            *)
LEMMA NormalizedType ==
    ASSUME NEW d \in Doc
    PROVE  /\ Normalized(d) \in Doc
           /\ Normalized(d).user_id   = d.user_id
           /\ Normalized(d).status    = d.status
           /\ Normalized(d).performer = d.performer
BY DEF Normalized, Doc

(* A save leaves the deal alone: whatever was read and edited, the customer, *)
(* the status and the performer stay as they are stored now.                 *)
LEMMA SaveChangesType ==
    ASSUME NEW d \in Doc, NEW read \in Doc, NEW edit \in Doc
    PROVE  /\ SaveChanges(d, read, edit) \in Doc
           /\ SaveChanges(d, read, edit).user_id   = d.user_id
           /\ SaveChanges(d, read, edit).status    = d.status
           /\ SaveChanges(d, read, edit).performer = d.performer
BY DEF SaveChanges, Doc

(* A save of an edit that leaves the publication flags as they were read     *)
(* leaves them as they are stored.                                           *)
LEMMA SaveKeepsPublication ==
    ASSUME NEW d \in Doc, NEW read \in Doc, NEW edit \in Doc,
           ~Republished(read, edit)
    PROVE  /\ SaveChanges(d, read, edit).draft     = d.draft
           /\ SaveChanges(d, read, edit).is_active = d.is_active
BY DEF SaveChanges, Doc, Republished

(* An idle handler is a request record.                                      *)
LEMMA IdleType == Idle \in Req
BY BlankType DEF Idle, Req, Steps

(* The orders counted for a user are finitely many.                          *)
LEMMA CountedType == ASSUME NEW u PROVE Cardinality(OrdersOf(u)) \in Nat
<1>1. OrdersOf(u) \subseteq Order
  BY DEF OrdersOf
<1>2. IsFiniteSet(OrdersOf(u))
  BY <1>1, OrderAssumption, FS_Subset
<1> QED BY <1>2, FS_CardinalityType

(***************************************************************************)
(* Type correctness                                                        *)
(***************************************************************************)
LEMMA TypeInit == Init => TypeOK
BY BlankType, IdleType DEF Init, TypeOK

(* Type correctness of a step that starts a handler.                        *)
LEMMA TypeStart ==
    ASSUME TypeOK, NEW r \in Request, NEW o \in Order, NEW u,
           \/ Owner(r, o)
           \/ u \in User /\ CreateOrderResponse(r, u, o)
           \/ \E p \in responses : DeleteOrderResponse(r, p)
    PROVE  TypeOK'
<1> USE DEF TypeOK
<1>1. ASSUME NEW v \in User, NEW draft \in BOOLEAN, NEW format \in FormatInputs,
             NEW city \in City \union {None}, CreateOrder(r, v, o, draft, format, city)
      PROVE  TypeOK'
  <2> DEFINE b == [Blank EXCEPT !.user_id = v, !.draft = draft,
                                !.work_format = format, !.city = city]
  <2>1. b \in Doc
    BY <1>1, BlankType, OrderAssumption DEF Doc
  <2>2. Normalized(b) \in Doc
    BY <2>1, NormalizedType
  <2>3. [Idle EXCEPT !.pc = "insert", !.user = v, !.order = o, !.edit = Normalized(b)] \in Req
    BY <2>2, IdleType DEF Req, Steps
  <2> QED BY <1>1, <2>3 DEF CreateOrder, Begin
<1>2. ASSUME NEW draft \in BOOLEAN, NEW active \in ActiveInputs, NEW format \in FormatInputs,
             NEW city \in City \union {None}, UpdateOrder(r, o, draft, active, format, city)
      PROVE  TypeOK'
  <2> DEFINE b == [orders[o] EXCEPT !.draft = draft, !.is_active = active,
                                    !.work_format = format, !.city = city]
             edit == Normalized(b)
             publishes == ~IsListed(orders[o]) /\ IsListed(edit)
  <2>1. b \in Doc
    BY <1>2, OrderAssumption DEF Doc
  <2>2. edit \in Doc
    BY <2>1, NormalizedType
  <2>3. orders[o].user_id \in User \union {None}
    BY DEF Doc
  <2>4. [Idle EXCEPT !.pc = IF publishes THEN "publishCheck" ELSE "save",
                     !.user = orders[o].user_id, !.order = o,
                     !.snap = orders[o], !.edit = edit] \in Req
    <3> HIDE DEF publishes, edit
    <3> QED BY <2>2, <2>3, IdleType DEF Req, Steps
  <2> QED BY <1>2, <2>4 DEF UpdateOrder, Begin
<1>3. CASE DeleteOrder(r, o)
  <2>1. orders[o].user_id \in User \union {None}
    BY DEF Doc
  <2>2. [Idle EXCEPT !.pc = "deleteBoth", !.order = o, !.user = orders[o].user_id] \in Req
    BY <2>1, IdleType DEF Req, Steps
  <2> QED BY <1>3, <2>2 DEF DeleteOrder, Begin
<1>4. ASSUME NEW customer \in User, NEW performer \in User, NEW actor \in User,
             AssignPerformer(r, o, customer, performer, actor)
      PROVE  TypeOK'
  <2>1. [Idle EXCEPT !.pc = "actorCheck", !.user = actor, !.order = o, !.performer = performer] \in Req
    BY IdleType DEF Req, Steps
  <2> QED BY <1>4, <2>1 DEF AssignPerformer, Begin
<1>5. CASE u \in User /\ CreateOrderResponse(r, u, o)
  <2>1. [Idle EXCEPT !.pc = "exists", !.user = u, !.order = o] \in Req
    BY <1>5, IdleType DEF Req, Steps
  <2> QED BY <1>5, <2>1 DEF CreateOrderResponse, Begin
<1>6. ASSUME NEW p \in responses, DeleteOrderResponse(r, p)
      PROVE  TypeOK'
  <2>1. p.order \in Order /\ p.id \in Response
    BY DEF ResponseDoc
  <2>2. [Idle EXCEPT !.pc = "deleteResponse", !.order = p.order, !.response = p.id] \in Req
    BY <2>1, IdleType DEF Req, Steps
  <2> QED BY <1>6, <2>2 DEF DeleteOrderResponse, Begin
<1> QED BY <1>1, <1>2, <1>3, <1>4, <1>5, <1>6 DEF Owner

(* The three ways a handler goes on keep the requests typed.                *)
LEMMA GoOnType ==
    ASSUME TypeOK, NEW r \in Request,
           Finish(r) \/ Sync(r, req[r].user) \/ (\E s \in Steps : Goto(r, s))
    PROVE  req' \in [Request -> Req]
<1> USE DEF TypeOK
<1>1. CASE Finish(r)
  BY <1>1, IdleType DEF Finish
<1>2. CASE Sync(r, req[r].user)
  <2>1. req[r].user \in User \union {None}
    BY DEF Req
  <2>2. [Idle EXCEPT !.pc = "count", !.user = req[r].user] \in Req
    BY <2>1, IdleType DEF Req, Steps
  <2> QED BY <1>2, <2>2 DEF Sync
<1>3. ASSUME NEW s \in Steps, Goto(r, s)
      PROVE  req' \in [Request -> Req]
  <2>1. [req[r] EXCEPT !.pc = s] \in Req
    BY DEF Req
  <2> QED BY <1>3, <2>1 DEF Goto
<1> QED BY <1>1, <1>2, <1>3

(* Type correctness of a step of a waiting handler.                         *)
LEMMA TypeStep ==
    ASSUME TypeOK, InFlight, NEW r \in Request, Step(r)
    PROVE  TypeOK'
<1> USE DEF TypeOK
<1>p. /\ {"idle", "save", "count", "setCount", "otherCheck", "assign", "responseCheck",
          "createResponse", "incCount", "decCount", "deleteDoc", "deleteResponses"} \subseteq Steps
      /\ req[r] \in Req
      /\ Placed(r)
  BY DEF Steps, InFlight
<1>1. CASE InsertOrder(r)
  <2>1. req[r].edit \in Doc
    BY <1>p DEF Req
  <2>2. req' \in [Request -> Req]
    BY <1>1, GoOnType DEF InsertOrder
  <2> QED BY <1>1, <2>1, <2>2 DEF InsertOrder, Write
<1>2. CASE PublishCheck(r)
  BY <1>2, <1>p, GoOnType DEF PublishCheck
<1>3. CASE SaveOrder(r)
  <2>1. req' \in [Request -> Req]
    BY <1>3, GoOnType DEF SaveOrder
  <2>2. req[r].order \in Order
    BY <1>3, <1>p DEF SaveOrder, At, Placed, OnOrder, Steps
  <2>3. SaveChanges(orders[req[r].order], req[r].snap, req[r].edit) \in Doc
    BY <2>2, <1>p, SaveChangesType DEF Req
  <2> QED BY <1>3, <2>1, <2>3 DEF SaveOrder, Write
<1>4. CASE CountOrders(r)
  <2>1. Cardinality(OrdersOf(req[r].user)) \in Nat
    BY CountedType
  <2>2. [Idle EXCEPT !.pc = "setCount", !.user = req[r].user,
                     !.count = Cardinality(OrdersOf(req[r].user))] \in Req
    BY <1>p, <2>1, IdleType DEF Req, Steps
  <2> QED BY <1>4, <2>2 DEF CountOrders
<1>5. CASE SetOrdersCount(r)
  <2>1. req[r].count \in Nat
    BY <1>p DEF Req
  <2> QED BY <1>5, <2>1, GoOnType DEF SetOrdersCount
<1>6. CASE ActorCheck(r)
  BY <1>6, <1>p, GoOnType DEF ActorCheck
<1>7. CASE OtherCheck(r)
  BY <1>7, <1>p, GoOnType DEF OtherCheck
<1>8. CASE AssignWrite(r)
  <2>1. /\ req[r].order \in Order
        /\ req[r].performer \in User \union {None}
    BY <1>8, <1>p DEF AssignWrite, At, Placed, OnOrder, Steps, Req
  <2>2. [orders[req[r].order] EXCEPT !.performer = req[r].performer,
                                     !.status    = "pending"] \in Doc
    <3>1. orders[req[r].order] \in Doc
      BY <2>1
    <3> QED BY <2>1, <3>1 DEF Doc, Statuses
  <2> QED BY <1>8, <2>2, GoOnType DEF AssignWrite, Write
<1>9. CASE DeleteDoc(r)
  BY <1>9, <1>p, GoOnType DEF DeleteDoc
<1>10. CASE DeleteResponses(r)
  BY <1>10, <1>p, GoOnType DEF DeleteResponses
<1>11. CASE Exists(r)
  BY <1>11, <1>p, GoOnType DEF Exists
<1>12. CASE ResponseCheck(r)
  BY <1>12, <1>p, GoOnType DEF ResponseCheck
<1>13. ASSUME NEW p \in Response, CreateResponse(r, p)
       PROVE  TypeOK'
  <2>1. req[r].order \in Order /\ req[r].user \in User
    BY <1>13, <1>p DEF CreateResponse, At, Placed, OnOrder, OfUser, Steps
  <2>2. [id |-> p, order |-> req[r].order, user |-> req[r].user] \in ResponseDoc
    BY <2>1 DEF ResponseDoc
  <2> QED BY <1>13, <1>p, <2>2, GoOnType DEF CreateResponse
<1>14. CASE IncResponseCount(r)
  <2>1. req[r].order \in Order
    BY <1>14, <1>p DEF IncResponseCount, At, Placed, OnOrder, Steps
  <2>2. response_count[req[r].order] \in Nat
    BY <2>1
  <2>3. response_count' \in [Order -> Nat]
    BY <1>14, <2>1, <2>2 DEF IncResponseCount
  <2> QED BY <1>14, <2>3, GoOnType DEF IncResponseCount
<1>15. CASE DeleteResponse(r)
  BY <1>15, <1>p, GoOnType DEF DeleteResponse
<1>16. CASE DecResponseCount(r)
  <2>1. req[r].order \in Order
    BY <1>16, <1>p DEF DecResponseCount, At, Placed, OnOrder, Steps
  <2>2. response_count[req[r].order] \in Nat
    BY <2>1
  <2>3. response_count' \in [Order -> Nat]
    BY <1>16, <2>1, <2>2 DEF DecResponseCount
  <2> QED BY <1>16, <2>3, GoOnType DEF DecResponseCount
<1> QED BY <1>1, <1>2, <1>3, <1>4, <1>5, <1>6, <1>7, <1>8, <1>9, <1>10, <1>11,
           <1>12, <1>13, <1>14, <1>15, <1>16 DEF Step

(* Type correctness of a transition in one query.                           *)
LEMMA TypeOneWrite ==
    ASSUME TypeOK, NEW o \in Order, OneWrite(o)
    PROVE  TypeOK'
<1> USE DEF TypeOK
<1>1. /\ orders[o] \in Doc
      /\ [orders[o] EXCEPT !.is_active = FALSE] \in Doc
      /\ \A s \in Statuses : [orders[o] EXCEPT !.status = s] \in Doc
  <2>1. orders[o] \in Doc
    OBVIOUS
  <2> QED BY <2>1 DEF Doc, ActiveValues
<1>2. {"cancelled", "review", "completed", "pending"} \subseteq Statuses
  BY DEF Statuses
<1>4. PICK u \in User :
         \/ ArchiveOrder(o, u) \/ CancelOrder(o, u) \/ SubmitWork(o, u)
         \/ \E accepted \in BOOLEAN : ReviewWork(o, u, accepted)
         \/ \E v \in User : CancelDeal(o, u, v)
  BY DEF OneWrite
<1>5. CASE ArchiveOrder(o, u)
  BY <1>5, <1>1 DEF ArchiveOrder, Transition, Write
<1>6. CASE CancelOrder(o, u)
  BY <1>6, <1>1, <1>2 DEF CancelOrder, Transition, Write
<1>7. CASE SubmitWork(o, u)
  BY <1>7, <1>1, <1>2 DEF SubmitWork, Transition, Write
<1>8. ASSUME NEW accepted \in BOOLEAN, ReviewWork(o, u, accepted)
      PROVE  TypeOK'
  <2>1. (IF accepted THEN "completed" ELSE "pending") \in Statuses
    BY <1>2
  <2> QED BY <1>8, <1>1, <2>1 DEF ReviewWork, Transition, Write
<1>9. ASSUME NEW v \in User, CancelDeal(o, u, v)
      PROVE  TypeOK'
  BY <1>9, <1>1, <1>2 DEF CancelDeal, Transition, Write
<1> QED BY <1>4, <1>5, <1>6, <1>7, <1>8, <1>9

LEMMA TypeNext ==
    ASSUME TypeOK, InFlight, [Next]_vars
    PROVE  TypeOK'
<1>1. CASE UNCHANGED vars
  BY <1>1 DEF TypeOK, vars
<1>2. ASSUME NEW r \in Request, NEW o \in Order, Owner(r, o)
      PROVE  TypeOK'
  BY <1>2, TypeStart
<1>3. ASSUME NEW r \in Request, NEW u \in User, NEW o \in Order, CreateOrderResponse(r, u, o)
      PROVE  TypeOK'
  BY <1>3, TypeStart
<1>4. ASSUME NEW r \in Request, NEW p \in responses, DeleteOrderResponse(r, p)
      PROVE  TypeOK'
  BY <1>4, TypeStart DEF TypeOK, ResponseDoc
<1>5. ASSUME NEW r \in Request, Step(r)
      PROVE  TypeOK'
  BY <1>5, TypeStep
<1>6. ASSUME NEW o \in Order, OneWrite(o)
      PROVE  TypeOK'
  BY <1>6, TypeOneWrite
<1>7. ASSUME NEW u \in User, VerifyEmail(u)
      PROVE  TypeOK'
  BY <1>7 DEF VerifyEmail, TypeOK
<1>8. CASE Crash
  BY <1>8, IdleType DEF Crash, TypeOK
<1> QED BY <1>1, <1>2, <1>3, <1>4, <1>5, <1>6, <1>7, <1>8 DEF Next, Serve

(***************************************************************************)
(* The inductive invariant                                                 *)
(***************************************************************************)

(* What the documents alone must satisfy.                                   *)
DocInv == Made /\ StatusMatchesPerformer /\ NoHiddenDeal /\ DealVerified /\ RespondersQualify

(* No step unmakes an order, gives it another customer or takes a            *)
(* confirmation back.                                                        *)
Steady ==
    /\ \A o \in Order : stored[o] \in {"live", "gone"} =>
         stored'[o] \in {"live", "gone"} /\ orders'[o].user_id = orders[o].user_id
    /\ \A u \in User : verified[u] => verified'[u]

LEMMA InvInit == Init => IInv
<1> SUFFICES ASSUME Init PROVE IInv
  OBVIOUS
<1>1. TypeOK
  BY TypeInit
<1>2. InFlight
  BY DEF Init, InFlight, Placed, Unmade, Assigning, Responding, Idle, At, OnOrder, OnStored, OfUser
<1>3. Made /\ RespondersQualify
  BY DEF Init, Made, RespondersQualify
<1>4. StatusMatchesPerformer /\ NoHiddenDeal /\ DealVerified
  BY DEF Init, StatusMatchesPerformer, NoHiddenDeal, DealVerified, Blank, DealStatuses
<1> QED BY <1>1, <1>2, <1>3, <1>4 DEF IInv

(* While one handler moves steadily, what the others know stays true.       *)
LEMMA KeepInFlight ==
    ASSUME IInv, Steady, NEW r \in Request,
           \A q \in Request \ {r} : req'[q] = req[q],
           \A q \in Request \ {r} : At(q, "insert") => stored'[req[q].order] = "new",
           req'[r].pc # "insert",
           Placed(r)', Assigning(r)', Responding(r)'
    PROVE  InFlight'
<1> SUFFICES ASSUME NEW q \in Request
             PROVE  Placed(q)' /\ Unmade(q)' /\ Assigning(q)' /\ Responding(q)'
  BY DEF InFlight
<1>1. CASE q = r
  BY <1>1 DEF Unmade, At
<1>2. CASE q # r
  <2>1. Placed(q) /\ Unmade(q) /\ Assigning(q) /\ Responding(q) /\ req'[q] = req[q]
    BY <1>2 DEF IInv, InFlight
  <2>2. Placed(q)'
    BY <2>1 DEF Placed, OnStored, Steady
  <2>3. Unmade(q)'
    BY <2>1, <1>2 DEF Unmade, At
  <2>4. Assigning(q)'
    <3> SUFFICES ASSUME req[q].pc \in {"actorCheck", "otherCheck", "assign"}
                 PROVE  Assigning(q)'
      BY <2>1 DEF Assigning
    <3>1. req[q].order \in Order /\ stored[req[q].order] \in {"live", "gone"}
      BY <2>1 DEF Placed, OnOrder, OnStored, Steps
    <3>2. orders'[req[q].order].user_id = orders[req[q].order].user_id
      BY <3>1 DEF Steady
    <3>3. OtherParty(q)' = OtherParty(q)
      BY <2>1, <3>2 DEF OtherParty
    <3>4. /\ verified[req[q].user] => verified'[req[q].user]
          /\ verified[OtherParty(q)] => verified'[OtherParty(q)]
      <4>1. orders[req[q].order].user_id \in User
        BY <3>1 DEF IInv, Made
      <4> QED BY <4>1, <2>1 DEF Assigning, OtherParty, Steady
    <3> QED BY <2>1, <3>2, <3>3, <3>4 DEF Assigning
  <2>5. Responding(q)'
    <3> SUFFICES ASSUME req[q].pc \in {"exists", "responseCheck", "createResponse"}
                 PROVE  Responding(q)'
      BY <2>1 DEF Responding, At
    <3>1. /\ req[q].order \in Order /\ stored[req[q].order] \in {"live", "gone"}
          /\ req[q].user \in User
      BY <2>1 DEF Placed, OnOrder, OnStored, OfUser, Steps
    <3> QED BY <2>1, <3>1 DEF Responding, At, Steady
  <2> QED BY <2>2, <2>3, <2>4, <2>5
<1> QED BY <1>1, <1>2

(* A handler that only waits to refresh a counter, or is done, knows nothing *)
(* that could become false.                                                  *)
LEMMA Resting ==
    ASSUME NEW r \in Request, req'[r].pc \in {"idle", "count", "setCount"},
           req'[r].pc # "idle" => req'[r].user \in User
    PROVE  req'[r].pc # "insert" /\ Placed(r)' /\ Assigning(r)' /\ Responding(r)'
BY DEF Placed, Assigning, Responding, At, OnOrder, OnStored, OfUser

(* A step that leaves the documents and the accounts alone.                 *)
LEMMA DocsUnchanged ==
    ASSUME IInv, UNCHANGED <<stored, orders, responses, verified>>
    PROVE  DocInv' /\ Steady
BY DEF IInv, DocInv, Steady, Made, StatusMatchesPerformer, NoHiddenDeal, DealVerified,
       RespondersQualify

(* The start of a createOrder gives an unissued id to one handler.          *)
LEMMA InvCreateOrder ==
    ASSUME IInv, NEW r \in Request, NEW u \in User, NEW o \in Order, NEW draft \in BOOLEAN,
           NEW format \in FormatInputs, NEW city \in City \union {None},
           CreateOrder(r, u, o, draft, format, city)
    PROVE  InFlight' /\ DocInv'
<1> DEFINE b == [Blank EXCEPT !.user_id = u, !.draft = draft,
                              !.work_format = format, !.city = city]
           d == Normalized(b)
<1>1. b \in Doc /\ b.user_id = u /\ b.status = "active" /\ b.performer = None
  BY BlankType, OrderAssumption DEF Doc, Blank
<1>2. d.user_id = u /\ d.status = "active" /\ d.performer = None
  BY <1>1, NormalizedType
<1>3. /\ stored[o] = "absent"
      /\ stored' = [stored EXCEPT ![o] = "new"]
      /\ UNCHANGED <<orders, responses, verified>>
      /\ req' = [req EXCEPT ![r] = [Idle EXCEPT !.pc = "insert", !.user = u,
                                                !.order = o, !.edit = d]]
  BY DEF CreateOrder, Begin
<1> HIDE DEF d
<1>4. /\ req'[r].pc = "insert" /\ req'[r].order = o
      /\ req'[r].user = u /\ req'[r].edit = d
      /\ \A q \in Request \ {r} : req'[q] = req[q]
      /\ \A x \in Order \ {o} : stored'[x] = stored[x]
      /\ stored'[o] = "new"
  BY <1>3 DEF IInv, TypeOK, Idle
<1>5. ASSUME NEW q \in Request
      PROVE  Placed(q)' /\ Unmade(q)' /\ Assigning(q)' /\ Responding(q)'
  <2>0. Placed(q) /\ Unmade(q) /\ Assigning(q) /\ Responding(q)
    BY DEF IInv, InFlight
  <2>1. CASE q = r
    <3>1. Placed(q)' /\ Assigning(q)' /\ Responding(q)'
      BY <1>4, <2>1 DEF Placed, Assigning, Responding, OnStored, At
    <3>2. \A p \in Request \ {r} : At(p, "insert")' => req'[p].order # o
      BY <1>3, <1>4 DEF IInv, InFlight, Unmade, At
    <3> QED BY <1>2, <1>4, <2>1, <3>1, <3>2 DEF Unmade
  <2>2. CASE q # r
    <3>1. Placed(q)' /\ Unmade(q)'
      BY <1>3, <1>4, <2>0, <2>2 DEF Placed, Unmade, At, OnStored, OnOrder
    <3>2. Assigning(q)' /\ Responding(q)'
      BY <1>3, <1>4, <2>0, <2>2 DEF Assigning, Responding, At, OtherParty
    <3> QED BY <3>1, <3>2
  <2> QED BY <2>1, <2>2
<1>6. Made' /\ RespondersQualify'
  BY <1>3, <1>4 DEF IInv, Made, RespondersQualify, TypeOK, ResponseDoc
<1>7. StatusMatchesPerformer' /\ NoHiddenDeal' /\ DealVerified'
  BY <1>3 DEF IInv, StatusMatchesPerformer, NoHiddenDeal, DealVerified
<1> QED BY <1>5, <1>6, <1>7 DEF InFlight, DocInv

(* A handler that starts on a stored order knows that it is stored.         *)
LEMMA InvStart ==
    ASSUME IInv, NEW r \in Request, NEW o \in Order, NEW u,
           \/ DeleteOrder(r, o)
           \/ \E draft \in BOOLEAN, format \in FormatInputs, city \in City \union {None},
                active \in ActiveInputs : UpdateOrder(r, o, draft, active, format, city)
           \/ \E customer, performer, actor \in User :
                AssignPerformer(r, o, customer, performer, actor)
           \/ u \in User /\ CreateOrderResponse(r, u, o)
           \/ \E p \in responses : DeleteOrderResponse(r, p)
    PROVE  InFlight' /\ DocInv'
<1>1. UNCHANGED <<stored, orders, responses, verified>> /\ DocInv' /\ Steady
  <2>1. UNCHANGED <<stored, orders, responses, verified>>
    BY DEF DeleteOrder, UpdateOrder, AssignPerformer, CreateOrderResponse, DeleteOrderResponse
  <2> QED BY <2>1, DocsUnchanged
<1>2. \A q \in Request \ {r} : At(q, "insert") => stored'[req[q].order] = "new"
  BY <1>1 DEF IInv, InFlight, Unmade
<1>3. Live(o) => stored[o] \in {"live", "gone"} /\ orders[o].user_id \in User
  BY DEF IInv, Made, Live
<1>4. CASE DeleteOrder(r, o)
  <2>1. /\ req'[r].pc = "deleteBoth" /\ req'[r].order = o /\ req'[r].user = orders[o].user_id
        /\ \A q \in Request \ {r} : req'[q] = req[q]
    BY <1>4 DEF DeleteOrder, Begin, IInv, TypeOK, Idle
  <2>2. Placed(r)' /\ Assigning(r)' /\ Responding(r)'
    BY <1>1, <1>3, <1>4, <2>1 DEF Placed, Assigning, Responding, At, DeleteOrder
  <2> QED BY <1>1, <1>2, <2>1, <2>2, KeepInFlight
<1>5. ASSUME NEW draft \in BOOLEAN, NEW format \in FormatInputs,
             NEW city \in City \union {None}, NEW active \in ActiveInputs,
             UpdateOrder(r, o, draft, active, format, city)
      PROVE  InFlight'
  <2>1. /\ req'[r].pc \in {"publishCheck", "save"} /\ req'[r].order = o
        /\ req'[r].user = orders[o].user_id
        /\ \A q \in Request \ {r} : req'[q] = req[q]
    BY <1>5 DEF UpdateOrder, Begin, IInv, TypeOK, Idle
  <2>2. Placed(r)' /\ Assigning(r)' /\ Responding(r)'
    BY <1>1, <1>3, <1>5, <2>1 DEF Placed, Assigning, Responding, At, UpdateOrder
  <2> QED BY <1>1, <1>2, <2>1, <2>2, KeepInFlight
<1>6. ASSUME NEW customer \in User, NEW performer \in User, NEW actor \in User,
             AssignPerformer(r, o, customer, performer, actor)
      PROVE  InFlight'
  <2>1. /\ req'[r].pc = "actorCheck" /\ req'[r].order = o
        /\ req'[r].user = actor /\ req'[r].performer = performer
        /\ \A q \in Request \ {r} : req'[q] = req[q]
    BY <1>6 DEF AssignPerformer, Begin, IInv, TypeOK, Idle
  <2>2. Placed(r)' /\ Assigning(r)' /\ Responding(r)'
    BY <1>1, <1>3, <1>6, <2>1
       DEF Placed, Assigning, Responding, At, AssignPerformer, OfUser
  <2> QED BY <1>1, <1>2, <2>1, <2>2, KeepInFlight
<1>7. CASE u \in User /\ CreateOrderResponse(r, u, o)
  <2>1. /\ req'[r].pc = "exists" /\ req'[r].order = o /\ req'[r].user = u
        /\ \A q \in Request \ {r} : req'[q] = req[q]
    BY <1>7 DEF CreateOrderResponse, Begin, IInv, TypeOK, Idle
  <2>2. Placed(r)' /\ Assigning(r)' /\ Responding(r)'
    BY <1>1, <1>3, <1>7, <2>1 DEF Placed, Assigning, Responding, At, CreateOrderResponse
  <2> QED BY <1>1, <1>2, <2>1, <2>2, KeepInFlight
<1>8. ASSUME NEW p \in responses, DeleteOrderResponse(r, p)
      PROVE  InFlight'
  <2>1. /\ req'[r].pc = "deleteResponse" /\ req'[r].order = p.order
        /\ \A q \in Request \ {r} : req'[q] = req[q]
    BY <1>8 DEF DeleteOrderResponse, Begin, IInv, TypeOK, Idle
  <2>2. p.order \in Order /\ stored[p.order] \in {"live", "gone"}
    BY DEF IInv, TypeOK, ResponseDoc, RespondersQualify
  <2>3. Placed(r)' /\ Assigning(r)' /\ Responding(r)'
    BY <1>1, <2>1, <2>2 DEF Placed, Assigning, Responding, At, OfUser
  <2> QED BY <1>1, <1>2, <2>1, <2>3, KeepInFlight
<1> QED BY <1>1, <1>4, <1>5, <1>6, <1>7, <1>8

(* How the three ways of going on change the requests.                      *)
LEMMA GoOn ==
    ASSUME TypeOK, NEW r \in Request
    PROVE  /\ Finish(r) => /\ req'[r].pc = "idle"
                           /\ \A q \in Request \ {r} : req'[q] = req[q]
           /\ Sync(r, req[r].user) => /\ req'[r].pc = "count" /\ req'[r].user = req[r].user
                                      /\ \A q \in Request \ {r} : req'[q] = req[q]
           /\ \A s \in Steps : Goto(r, s) =>
                /\ req'[r].pc = s
                /\ req'[r].user = req[r].user /\ req'[r].order = req[r].order
                /\ req'[r].performer = req[r].performer
                /\ \A q \in Request \ {r} : req'[q] = req[q]
<1>1. req \in [Request -> Req] /\ req[r] \in Req
  BY DEF TypeOK
<1>2. ASSUME Finish(r)
      PROVE  req'[r].pc = "idle" /\ \A q \in Request \ {r} : req'[q] = req[q]
  BY <1>1, <1>2 DEF Finish, Idle
<1>3. ASSUME Sync(r, req[r].user)
      PROVE  /\ req'[r].pc = "count" /\ req'[r].user = req[r].user
             /\ \A q \in Request \ {r} : req'[q] = req[q]
  BY <1>1, <1>3 DEF Sync, Idle
<1>4. ASSUME NEW s \in Steps, Goto(r, s)
      PROVE  /\ req'[r].pc = s
             /\ req'[r].user = req[r].user /\ req'[r].order = req[r].order
             /\ req'[r].performer = req[r].performer
             /\ \A q \in Request \ {r} : req'[q] = req[q]
  <2>1. req' = [req EXCEPT ![r] = [req[r] EXCEPT !.pc = s]]
    BY <1>4 DEF Goto
  <2>2. req'[r] = [req[r] EXCEPT !.pc = s] /\ \A q \in Request \ {r} : req'[q] = req[q]
    BY <1>1, <2>1
  <2> QED BY <1>1, <2>2 DEF Req
<1> QED BY <1>2, <1>3, <1>4

(* A handler that goes on to another step on the same order.                *)
LEMMA PlacedOn ==
    ASSUME Steady, NEW r \in Request, Placed(r), req[r].pc \in OnStored,
           req'[r].pc \in OnStored, req'[r].order = req[r].order,
           req'[r].pc \in OfUser => req'[r].user \in User
    PROVE  Placed(r)'
BY DEF Placed, OnStored, OnOrder, Steady

(* The steps of a handler that write no document.                           *)
LEMMA InvRead ==
    ASSUME IInv, NEW r \in Request,
           \/ PublishCheck(r) \/ CountOrders(r) \/ SetOrdersCount(r)
           \/ ActorCheck(r) \/ OtherCheck(r) \/ Exists(r) \/ ResponseCheck(r)
           \/ IncResponseCount(r) \/ DecResponseCount(r)
    PROVE  InFlight' /\ DocInv'
<1>1. UNCHANGED <<stored, orders, responses, verified>> /\ DocInv' /\ Steady
  <2>1. UNCHANGED <<stored, orders, responses, verified>>
    BY DEF PublishCheck, CountOrders, SetOrdersCount, ActorCheck, OtherCheck, Exists,
           ResponseCheck, IncResponseCount, DecResponseCount
  <2> QED BY <2>1, DocsUnchanged
<1>2. \A q \in Request \ {r} : At(q, "insert") => stored'[req[q].order] = "new"
  BY <1>1 DEF IInv, InFlight, Unmade
<1>3. TypeOK /\ Placed(r) /\ Assigning(r) /\ Responding(r) /\ req[r] \in Req
  BY DEF IInv, InFlight, TypeOK
<1>s. OnStored = {"publishCheck", "save", "actorCheck", "otherCheck", "assign", "deleteBoth",
                  "deleteDoc", "deleteResponses", "exists", "responseCheck",
                  "createResponse", "incCount", "deleteResponse", "decCount"}
  BY DEF OnStored, OnOrder, Steps
<1>r. ASSUME Finish(r)
      PROVE  InFlight'
  BY <1>r, <1>1, <1>2, <1>3, GoOn, Resting, KeepInFlight
<1>4. CASE PublishCheck(r)
  <2>1. CASE Goto(r, "save")
    <3>1. "save" \in Steps
      BY DEF Steps
    <3>2. /\ req'[r].pc = "save" /\ req'[r].order = req[r].order /\ req'[r].user = req[r].user
          /\ \A q \in Request \ {r} : req'[q] = req[q]
      BY <2>1, <3>1, <1>3, GoOn
    <3>3. Placed(r)' /\ Assigning(r)' /\ Responding(r)'
      <4>1. Placed(r)'
        BY <1>1, <1>3, <1>s, <1>4, <3>2, PlacedOn DEF PublishCheck, At, Placed, OfUser
      <4>2. Assigning(r)'
        BY <1>1, <1>3, <1>4, <3>2 DEF Assigning, PublishCheck, At
      <4>3. Responding(r)'
        BY <1>1, <1>3, <1>4, <3>2 DEF Responding, PublishCheck, At
      <4> QED BY <4>1, <4>2, <4>3
    <3> QED BY <1>1, <1>2, <3>2, <3>3, KeepInFlight
  <2> QED BY <1>4, <1>1, <1>r, <2>1 DEF PublishCheck
<1>5. CASE CountOrders(r)
  <2>1. /\ req'[r].pc = "setCount" /\ req'[r].user = req[r].user
        /\ \A q \in Request \ {r} : req'[q] = req[q]
    BY <1>3, <1>5 DEF CountOrders, TypeOK, Idle
  <2>2. req[r].user \in User
    BY <1>3, <1>5 DEF CountOrders, At, Placed, OfUser
  <2> QED BY <1>1, <1>2, <2>1, <2>2, Resting, KeepInFlight
<1>6. CASE SetOrdersCount(r)
  BY <1>6, <1>1, <1>r DEF SetOrdersCount
<1>7. CASE ActorCheck(r)
  <2>1. CASE verified[req[r].user] /\ Goto(r, "otherCheck")
    <3>1. "otherCheck" \in Steps
      BY DEF Steps
    <3>2. /\ req'[r].pc = "otherCheck" /\ req'[r].order = req[r].order
          /\ req'[r].user = req[r].user /\ req'[r].performer = req[r].performer
          /\ \A q \in Request \ {r} : req'[q] = req[q]
      BY <2>1, <3>1, <1>3, GoOn
    <3>3. Placed(r)' /\ Assigning(r)' /\ Responding(r)'
      <4>1. Placed(r)'
        BY <1>1, <1>3, <1>s, <1>7, <3>2, PlacedOn DEF ActorCheck, At, Placed, OfUser
      <4>2. Assigning(r)'
        BY <1>1, <1>3, <1>7, <2>1, <3>2 DEF Assigning, ActorCheck, At
      <4>3. Responding(r)'
        BY <1>1, <1>3, <1>7, <2>1, <3>2 DEF Responding, ActorCheck, At
      <4> QED BY <4>1, <4>2, <4>3
    <3> QED BY <1>1, <1>2, <3>2, <3>3, KeepInFlight
  <2> QED BY <1>7, <1>1, <1>r, <2>1 DEF ActorCheck
<1>8. CASE OtherCheck(r)
  <2>1. CASE verified[OtherParty(r)] /\ Goto(r, "assign")
    <3>1. "assign" \in Steps
      BY DEF Steps
    <3>2. /\ req'[r].pc = "assign" /\ req'[r].order = req[r].order
          /\ req'[r].user = req[r].user /\ req'[r].performer = req[r].performer
          /\ \A q \in Request \ {r} : req'[q] = req[q]
      BY <2>1, <3>1, <1>3, GoOn
    <3>3. OtherParty(r)' = OtherParty(r)
      BY <1>1, <3>2 DEF OtherParty
    <3>4. Placed(r)' /\ Assigning(r)' /\ Responding(r)'
      <4>1. Placed(r)'
        BY <1>1, <1>3, <1>s, <1>8, <3>2, PlacedOn DEF OtherCheck, At, Placed, OfUser
      <4>2. Assigning(r)'
        BY <1>1, <1>3, <1>8, <2>1, <3>2, <3>3 DEF Assigning, OtherCheck, At
      <4>3. Responding(r)'
        BY <1>1, <1>3, <1>8, <2>1, <3>2, <3>3 DEF Responding, OtherCheck, At
      <4> QED BY <4>1, <4>2, <4>3
    <3> QED BY <1>1, <1>2, <3>2, <3>4, KeepInFlight
  <2> QED BY <1>8, <1>1, <1>r, <2>1 DEF OtherCheck
<1>9. CASE Exists(r)
  <2>1. CASE Goto(r, "responseCheck")
    <3>1. "responseCheck" \in Steps
      BY DEF Steps
    <3>2. /\ req'[r].pc = "responseCheck" /\ req'[r].order = req[r].order
          /\ req'[r].user = req[r].user
          /\ \A q \in Request \ {r} : req'[q] = req[q]
      BY <2>1, <3>1, <1>3, GoOn
    <3>3. Placed(r)' /\ Assigning(r)' /\ Responding(r)'
      <4>1. Placed(r)'
        BY <1>1, <1>3, <1>s, <1>9, <3>2, PlacedOn DEF Exists, At, Placed, OfUser
      <4>2. Assigning(r)'
        BY <1>1, <1>3, <1>9, <3>2 DEF Assigning, Exists, At
      <4>3. Responding(r)'
        BY <1>1, <1>3, <1>9, <3>2 DEF Responding, Exists, At
      <4> QED BY <4>1, <4>2, <4>3
    <3> QED BY <1>1, <1>2, <3>2, <3>3, KeepInFlight
  <2> QED BY <1>9, <1>1, <1>r, <2>1 DEF Exists
<1>10. CASE ResponseCheck(r)
  <2>1. CASE verified[req[r].user] /\ Goto(r, "createResponse")
    <3>1. "createResponse" \in Steps
      BY DEF Steps
    <3>2. /\ req'[r].pc = "createResponse" /\ req'[r].order = req[r].order
          /\ req'[r].user = req[r].user
          /\ \A q \in Request \ {r} : req'[q] = req[q]
      BY <2>1, <3>1, <1>3, GoOn
    <3>3. Placed(r)' /\ Assigning(r)' /\ Responding(r)'
      <4>1. Placed(r)'
        BY <1>1, <1>3, <1>s, <1>10, <3>2, PlacedOn DEF ResponseCheck, At, Placed, OfUser
      <4>2. Assigning(r)'
        BY <1>1, <1>3, <1>10, <2>1, <3>2 DEF Assigning, ResponseCheck, At
      <4>3. Responding(r)'
        BY <1>1, <1>3, <1>10, <2>1, <3>2 DEF Responding, ResponseCheck, At
      <4> QED BY <4>1, <4>2, <4>3
    <3> QED BY <1>1, <1>2, <3>2, <3>3, KeepInFlight
  <2> QED BY <1>10, <1>1, <1>r, <2>1 DEF ResponseCheck
<1>11. CASE IncResponseCount(r) \/ DecResponseCount(r)
  BY <1>11, <1>1, <1>r DEF IncResponseCount, DecResponseCount
<1> QED BY <1>1, <1>4, <1>5, <1>6, <1>7, <1>8, <1>9, <1>10, <1>11

(* The insert makes the order; no other handler waits to insert the same id. *)
LEMMA InvInsert ==
    ASSUME IInv, NEW r \in Request, InsertOrder(r)
    PROVE  InFlight' /\ DocInv'
<1> DEFINE o == req[r].order
           d == req[r].edit
<1>1. /\ TypeOK /\ Placed(r) /\ Unmade(r) /\ req[r].pc = "insert"
      /\ req[r] \in Req /\ o \in Order /\ req[r].user \in User
      /\ stored[o] = "new" /\ d.user_id \in User /\ d.status = "active" /\ d.performer = None
  BY DEF IInv, InFlight, InsertOrder, At, Placed, Unmade, OnOrder, OfUser, Steps, TypeOK
<1>2. /\ stored' = [stored EXCEPT ![o] = "live"] /\ orders' = [orders EXCEPT ![o] = d]
      /\ Sync(r, req[r].user) /\ UNCHANGED <<responses, verified>>
  BY DEF InsertOrder, Write
<1> HIDE DEF o, d
<1>3. /\ stored'[o] = "live" /\ orders'[o] = d
      /\ \A x \in Order \ {o} : stored'[x] = stored[x] /\ orders'[x] = orders[x]
  BY <1>1, <1>2 DEF TypeOK
<1>4. Steady
  BY <1>1, <1>2, <1>3 DEF Steady
<1>5. \A q \in Request \ {r} : At(q, "insert") => stored'[req[q].order] = "new"
  <2> SUFFICES ASSUME NEW q \in Request \ {r}, At(q, "insert")
               PROVE  stored'[req[q].order] = "new"
    OBVIOUS
  <2>1. /\ req[q].order \in Order /\ stored[req[q].order] = "new" /\ req[q].order # o
    BY <1>1 DEF IInv, InFlight, Placed, Unmade, At, OnOrder, Steps, o
  <2> QED BY <2>1, <1>3
<1>6. InFlight'
  BY <1>1, <1>2, <1>4, <1>5, GoOn, Resting, KeepInFlight
<1>7. Made' /\ StatusMatchesPerformer' /\ NoHiddenDeal' /\ DealVerified'
  <2>1. Made'
    BY <1>1, <1>3 DEF IInv, Made
  <2>2. StatusMatchesPerformer'
    BY <1>1, <1>3 DEF IInv, StatusMatchesPerformer, DealStatuses
  <2>3. NoHiddenDeal' /\ DealVerified'
    BY <1>1, <1>2, <1>3 DEF IInv, NoHiddenDeal, DealVerified
  <2> QED BY <2>1, <2>2, <2>3
<1>8. RespondersQualify'
  BY <1>1, <1>2, <1>3 DEF IInv, RespondersQualify, ResponseDoc, TypeOK
<1> QED BY <1>6, <1>7, <1>8 DEF DocInv

(* A write of one stored document that keeps its customer, with nothing else *)
(* changed but the requests.                                                 *)
LEMMA WriteDoc ==
    ASSUME IInv, NEW o \in Order, stored[o] \in {"live", "gone"},
           \A x \in Order \ {o} : orders'[x] = orders[x],
           UNCHANGED <<stored, responses, verified>>,
           orders'[o].user_id = orders[o].user_id,
           orders'[o].status = "active" => orders'[o].performer = None,
           orders'[o].status \in DealStatuses \union {"completed"}
              => orders'[o].performer \in User \ {orders'[o].user_id},
           orders'[o].performer # None =>
              /\ ~orders'[o].draft /\ orders'[o].is_active # FALSE
              /\ verified[orders'[o].user_id] /\ verified[orders'[o].performer]
    PROVE  Steady /\ DocInv'
<1>2. Steady
  BY DEF Steady
<1>3. Made'
  BY DEF IInv, Made
<1>4. StatusMatchesPerformer'
  BY DEF IInv, StatusMatchesPerformer
<1>5. NoHiddenDeal' /\ DealVerified'
  BY DEF IInv, NoHiddenDeal, DealVerified
<1>6. RespondersQualify'
  BY DEF IInv, RespondersQualify, ResponseDoc, TypeOK
<1> QED BY <1>2, <1>3, <1>4, <1>5, <1>6 DEF DocInv

(* What the invariant says of one document.                                 *)
LEMMA DocFacts ==
    ASSUME IInv, NEW o \in Order
    PROVE  /\ orders[o] \in Doc
           /\ orders[o].status = "active" => orders[o].performer = None
           /\ orders[o].status \in DealStatuses \union {"completed"}
                => orders[o].performer \in User \ {orders[o].user_id}
           /\ orders[o].performer # None =>
                /\ ~orders[o].draft /\ orders[o].is_active # FALSE
                /\ verified[orders[o].user_id] /\ verified[orders[o].performer]
BY DEF IInv, TypeOK, StatusMatchesPerformer, NoHiddenDeal, DealVerified

(* An edit, whatever it was built on, neither hides a deal nor undoes it.   *)
LEMMA InvSave ==
    ASSUME IInv, NEW r \in Request, SaveOrder(r)
    PROVE  InFlight' /\ DocInv'
<1> DEFINE o == req[r].order
           read == req[r].snap
           edit == req[r].edit
           d == SaveChanges(orders[o], read, edit)
<1>1. /\ TypeOK /\ Placed(r) /\ req[r].pc = "save" /\ req[r] \in Req
      /\ o \in Order /\ stored[o] \in {"live", "gone"} /\ req[r].user \in User
  BY DEF IInv, InFlight, SaveOrder, At, Placed, OnOrder, OnStored, OfUser, Steps, TypeOK
<1>2. \A q \in Request \ {r} : At(q, "insert") => stored'[req[q].order] = "new"
  BY DEF IInv, InFlight, Unmade, SaveOrder
<1>3. CASE Saves(r)
  <2>1. /\ orders' = [orders EXCEPT ![o] = d] /\ Sync(r, req[r].user)
        /\ UNCHANGED <<stored, responses, verified>>
    BY <1>3 DEF SaveOrder, Write
  <2>2. read \in Doc /\ edit \in Doc /\ orders[o] \in Doc
    BY <1>1 DEF Req, TypeOK
  <2>3. /\ d.user_id = orders[o].user_id /\ d.status = orders[o].status
        /\ d.performer = orders[o].performer
    BY <2>2, SaveChangesType
  <2>f. /\ orders[o].status = "active" => orders[o].performer = None
        /\ orders[o].status \in DealStatuses \union {"completed"}
             => orders[o].performer \in User \ {orders[o].user_id}
        /\ orders[o].performer # None =>
             /\ ~orders[o].draft /\ orders[o].is_active # FALSE
             /\ verified[orders[o].user_id] /\ verified[orders[o].performer]
    BY <1>1, DocFacts
  <2>4. d.performer # None => ~d.draft /\ d.is_active # FALSE
    <3>1. CASE Republished(read, edit)
      BY <1>3, <2>3, <3>1 DEF Saves, Seeking
    <3>2. CASE ~Republished(read, edit)
      <4>1. d.draft = orders[o].draft /\ d.is_active = orders[o].is_active
        BY <2>2, <3>2, SaveKeepsPublication
      <4> QED BY <2>f, <2>3, <4>1
    <3> QED BY <3>1, <3>2
  <2> HIDE DEF d, o, read, edit
  <2>4a. /\ d.status = "active" => d.performer = None
         /\ d.status \in DealStatuses \union {"completed"}
              => d.performer \in User \ {d.user_id}
         /\ d.performer # None =>
              /\ ~d.draft /\ d.is_active # FALSE
              /\ verified[d.user_id] /\ verified[d.performer]
    BY <2>f, <2>3, <2>4
  <2>5. Steady /\ DocInv'
    <3>1. orders'[o] = d /\ \A x \in Order \ {o} : orders'[x] = orders[x]
      BY <1>1, <2>1 DEF TypeOK
    <3> QED BY <1>1, <2>1, <2>3, <2>4a, <3>1, WriteDoc
  <2>6. InFlight'
    BY <1>1, <1>2, <2>1, <2>5, GoOn, Resting, KeepInFlight
  <2> QED BY <2>5, <2>6
<1>4. CASE ~Saves(r)
  <2>1. UNCHANGED <<stored, orders, responses, verified>> /\ Finish(r)
    BY <1>4 DEF SaveOrder
  <2> QED BY <1>1, <1>2, <2>1, DocsUnchanged, GoOn, Resting, KeepInFlight
<1> QED BY <1>3, <1>4

(* The assignment is written only over an order that still seeks, and what   *)
(* the handler checked before still holds of its two parties.                *)
LEMMA InvAssign ==
    ASSUME IInv, NEW r \in Request, AssignWrite(r)
    PROVE  InFlight' /\ DocInv'
<1> DEFINE o == req[r].order
           d == [orders[o] EXCEPT !.performer = req[r].performer, !.status = "pending"]
<1>1. /\ TypeOK /\ Placed(r) /\ Assigning(r) /\ req[r].pc = "assign"
      /\ o \in Order /\ stored[o] \in {"live", "gone"} /\ orders[o] \in Doc
      /\ UNCHANGED <<stored, responses, verified>> /\ Finish(r)
  BY DEF IInv, InFlight, AssignWrite, At, Placed, OnOrder, OnStored, Steps, TypeOK
<1>2. \A q \in Request \ {r} : At(q, "insert") => stored'[req[q].order] = "new"
  BY DEF IInv, InFlight, Unmade, AssignWrite
<1>3. CASE Assigns(r)
  <2>1. orders' = [orders EXCEPT ![o] = d]
    BY <1>3 DEF AssignWrite, Write
  <2>2. /\ d.performer = req[r].performer /\ d.status = "pending"
        /\ d.user_id = orders[o].user_id /\ d.draft = orders[o].draft
        /\ d.is_active = orders[o].is_active
    BY <1>1 DEF Doc
  <2>3. /\ req[r].performer \in User \ {orders[o].user_id}
        /\ verified[req[r].performer] /\ verified[orders[o].user_id]
    BY <1>1 DEF Assigning, OtherParty
  <2>4. ~d.draft /\ d.is_active # FALSE
    BY <1>3, <2>2 DEF Assigns
  <2> HIDE DEF d, o
  <2>4a. /\ d.status = "active" => d.performer = None
         /\ d.status \in DealStatuses \union {"completed"}
              => d.performer \in User \ {d.user_id}
         /\ d.performer # None =>
              /\ ~d.draft /\ d.is_active # FALSE
              /\ verified[d.user_id] /\ verified[d.performer]
    BY <2>2, <2>3, <2>4
  <2>5. Steady /\ DocInv'
    <3>1. orders'[o] = d /\ \A x \in Order \ {o} : orders'[x] = orders[x]
      BY <1>1, <2>1 DEF TypeOK
    <3> QED BY <1>1, <2>1, <2>2, <2>4a, <3>1, WriteDoc
  <2> QED BY <1>1, <1>2, <2>5, GoOn, Resting, KeepInFlight
<1>4. CASE ~Assigns(r)
  <2>1. UNCHANGED orders
    BY <1>4 DEF AssignWrite
  <2> QED BY <1>1, <1>2, <2>1, DocsUnchanged, GoOn, Resting, KeepInFlight
<1> QED BY <1>3, <1>4

(* The two deletes of deleteOrder and of a response.                        *)
LEMMA InvDelete ==
    ASSUME IInv, NEW r \in Request, DeleteDoc(r) \/ DeleteResponses(r) \/ DeleteResponse(r)
    PROVE  InFlight' /\ DocInv'
<1> DEFINE o == req[r].order
<1>1. /\ TypeOK /\ Placed(r) /\ req[r].pc \in {"deleteBoth", "deleteDoc", "deleteResponses", "deleteResponse"}
      /\ o \in Order /\ stored[o] \in {"live", "gone"} /\ req[r] \in Req
      /\ {"deleteResponses", "deleteDoc", "decCount"} \subseteq Steps \cap OnStored
      /\ req[r].pc # "deleteResponse" => req[r].user \in User
  <2>1. TypeOK /\ Placed(r) /\ req[r] \in Req
    BY DEF IInv, InFlight, TypeOK
  <2>2. req[r].pc \in {"deleteBoth", "deleteDoc", "deleteResponses", "deleteResponse"}
    BY DEF DeleteDoc, DeleteResponses, DeleteResponse, At
  <2>3. {"deleteBoth", "deleteDoc", "deleteResponses", "deleteResponse", "decCount"}
          \subseteq Steps \cap OnOrder \cap OnStored
    BY DEF OnOrder, OnStored, Steps
  <2>4. req[r].pc \in OnOrder \cap OnStored
    BY <2>2, <2>3
  <2>5. req[r].pc # "deleteResponse" => req[r].pc \in OfUser
    BY <2>2 DEF OfUser
  <2>6. /\ o \in Order /\ stored[o] \in {"live", "gone"}
        /\ req[r].pc # "deleteResponse" => req[r].user \in User
    BY <2>1, <2>4, <2>5 DEF Placed
  <2> QED BY <2>1, <2>2, <2>3, <2>6
<1>2. /\ UNCHANGED <<orders, verified>> /\ responses' \subseteq responses
      /\ \A x \in Order : \/ stored'[x] = stored[x]
                          \/ stored[x] \in {"live", "gone"} /\ stored'[x] = "gone"
  <2>1. CASE DeleteDoc(r)
    <3>1. stored' = [stored EXCEPT ![o] = "gone"] /\ UNCHANGED <<orders, verified, responses>>
      BY <2>1 DEF DeleteDoc
    <3>2. DOMAIN stored = Order /\ stored[o] \in {"live", "gone"} /\ o \in Order
      BY <1>1 DEF TypeOK
    <3>3. \A x \in Order : \/ stored'[x] = stored[x]
                           \/ stored[x] \in {"live", "gone"} /\ stored'[x] = "gone"
      <4> HIDE DEF o
      <4> QED BY <3>1, <3>2
    <3> QED BY <3>1, <3>3
  <2>2. CASE DeleteResponses(r)
    <3>1. responses' = {p \in responses : p.order # o} /\ UNCHANGED <<stored, orders, verified>>
      BY <2>2 DEF DeleteResponses
    <3> QED BY <3>1
  <2>3. CASE DeleteResponse(r)
    <3>1. /\ responses' = {p \in responses : p.id # req[r].response}
          /\ UNCHANGED <<stored, orders, verified>>
      BY <2>3 DEF DeleteResponse
    <3> QED BY <3>1
  <2> QED BY <2>1, <2>2, <2>3
<1>3. Steady
  BY <1>2 DEF Steady
<1>4. \A q \in Request \ {r} : At(q, "insert") => stored'[req[q].order] = "new"
  BY <1>2 DEF IInv, InFlight, Unmade, Placed, At, OnOrder, Steps
<1>5. Made' /\ RespondersQualify'
  <2>1. Made'
    BY <1>2 DEF IInv, Made
  <2>2. RespondersQualify'
    BY <1>2 DEF IInv, RespondersQualify, TypeOK, ResponseDoc
  <2> QED BY <2>1, <2>2
<1>6. StatusMatchesPerformer' /\ NoHiddenDeal' /\ DealVerified'
  BY <1>2 DEF IInv, StatusMatchesPerformer, NoHiddenDeal, DealVerified
<1>7. CASE req[r].pc # "deleteResponse" /\ Sync(r, req[r].user)
  BY <1>1, <1>3, <1>4, <1>5, <1>6, <1>7, GoOn, Resting, KeepInFlight DEF DocInv
<1>8. ASSUME NEW s \in {"deleteResponses", "deleteDoc", "decCount"}, Goto(r, s),
             req[r].pc = "deleteResponse" => s = "decCount"
      PROVE  InFlight'
  <2>1. /\ req'[r].pc = s /\ req'[r].order = o /\ req'[r].user = req[r].user
        /\ \A q \in Request \ {r} : req'[q] = req[q]
    BY <1>1, <1>8, GoOn
  <2>2. Placed(r)'
    <3>1. s \in OfUser => req[r].pc # "deleteResponse"
      BY <1>8 DEF OfUser
    <3>2. req[r].pc \in OnStored
      BY <1>1 DEF OnStored, OnOrder, Steps
    <3> QED BY <1>1, <1>3, <2>1, <3>1, <3>2, PlacedOn
  <2>3. Assigning(r)' /\ Responding(r)'
    BY <2>1 DEF Assigning, Responding, At
  <2> QED BY <1>3, <1>4, <2>1, <2>2, <2>3, KeepInFlight
<1>9. \/ req[r].pc # "deleteResponse" /\ Sync(r, req[r].user)
      \/ \E s \in {"deleteResponses", "deleteDoc", "decCount"} :
           Goto(r, s) /\ (req[r].pc = "deleteResponse" => s = "decCount")
  BY DEF DeleteDoc, DeleteResponses, DeleteResponse, At
<1> QED BY <1>5, <1>6, <1>7, <1>8, <1>9 DEF DocInv

(* The response is stored for the user who was checked.                     *)
LEMMA InvCreateResponse ==
    ASSUME IInv, NEW r \in Request, NEW p \in Response, CreateResponse(r, p)
    PROVE  InFlight' /\ DocInv'
<1> DEFINE o == req[r].order
<1>1. /\ TypeOK /\ Placed(r) /\ Responding(r) /\ req[r].pc = "createResponse"
      /\ o \in Order /\ stored[o] \in {"live", "gone"} /\ req[r].user \in User
      /\ "incCount" \in Steps
  BY DEF IInv, InFlight, CreateResponse, At, Placed, OnOrder, OnStored, OfUser, Steps
<1>2. /\ UNCHANGED <<stored, orders, verified>> /\ Goto(r, "incCount")
      /\ responses' = responses \union {[id |-> p, order |-> o, user |-> req[r].user]}
  BY DEF CreateResponse
<1>3. Steady
  BY <1>2 DEF Steady
<1>4. \A q \in Request \ {r} : At(q, "insert") => stored'[req[q].order] = "new"
  BY <1>2 DEF IInv, InFlight, Unmade
<1>5. InFlight'
  <2>1. /\ req'[r].pc = "incCount" /\ req'[r].order = o
        /\ \A q \in Request \ {r} : req'[q] = req[q]
    BY <1>1, <1>2, GoOn
  <2>2. Placed(r)' /\ Assigning(r)' /\ Responding(r)'
    BY <1>1, <1>2, <2>1 DEF Placed, Assigning, Responding, At, OfUser
  <2> QED BY <1>3, <1>4, <2>1, <2>2, KeepInFlight
<1>6. RespondersQualify'
  BY <1>1, <1>2 DEF IInv, RespondersQualify, Responding, At
<1>7. Made' /\ StatusMatchesPerformer' /\ NoHiddenDeal' /\ DealVerified'
  BY <1>2 DEF IInv, Made, StatusMatchesPerformer, NoHiddenDeal, DealVerified
<1> QED BY <1>5, <1>6, <1>7 DEF DocInv

(* The five transitions in one query, by what they require and write.       *)
Wrote(o) ==
    /\ stored[o] = "live" /\ UNCHANGED <<stored, responses, verified, req>>
    /\ \A x \in Order \ {o} : orders'[x] = orders[x]
    /\ \/ /\ Seeking(orders[o])
          /\ orders'[o] = [orders[o] EXCEPT !.is_active = FALSE]
       \/ /\ orders[o].status \in {"active", "pending", "review"}
          /\ orders'[o] = [orders[o] EXCEPT !.status = "cancelled"]
       \/ /\ orders[o].status = "pending"
          /\ orders'[o] = [orders[o] EXCEPT !.status = "review"]
       \/ /\ orders[o].status = "review"
          /\ \/ orders'[o] = [orders[o] EXCEPT !.status = "completed"]
             \/ orders'[o] = [orders[o] EXCEPT !.status = "pending"]

LEMMA OneWriteEffect ==
    ASSUME TypeOK, NEW o \in Order, OneWrite(o)
    PROVE  Wrote(o)
<1> orders \in [Order -> Doc]
  BY DEF TypeOK
<1>1. PICK u \in User :
         \/ ArchiveOrder(o, u) \/ CancelOrder(o, u) \/ SubmitWork(o, u)
         \/ \E accepted \in BOOLEAN : ReviewWork(o, u, accepted)
         \/ \E v \in User : CancelDeal(o, u, v)
  BY DEF OneWrite
<1>2. CASE ArchiveOrder(o, u)
  BY <1>2 DEF Wrote, ArchiveOrder, Transition, Write, Live
<1>3. CASE CancelOrder(o, u)
  BY <1>3 DEF Wrote, CancelOrder, Transition, Write, Live
<1>4. CASE SubmitWork(o, u)
  BY <1>4 DEF Wrote, SubmitWork, Transition, Write, Live
<1>5. ASSUME NEW accepted \in BOOLEAN, ReviewWork(o, u, accepted)
      PROVE  Wrote(o)
  BY <1>5 DEF Wrote, ReviewWork, Transition, Write, Live
<1>6. ASSUME NEW v \in User, CancelDeal(o, u, v)
      PROVE  Wrote(o)
  BY <1>6 DEF Wrote, CancelDeal, Transition, Write, Live, DealStatuses
<1> QED BY <1>1, <1>2, <1>3, <1>4, <1>5, <1>6

(* A transition in one query: its guard is evaluated with its write.        *)
LEMMA InvOneWrite ==
    ASSUME IInv, NEW o \in Order, OneWrite(o)
    PROVE  InFlight' /\ DocInv'
<1>1. Wrote(o)
  BY OneWriteEffect DEF IInv
<1>2. /\ orders[o] \in Doc
      /\ orders[o].status = "active" => orders[o].performer = None
      /\ orders[o].status \in DealStatuses \union {"completed"}
           => orders[o].performer \in User \ {orders[o].user_id}
      /\ orders[o].performer # None =>
           /\ ~orders[o].draft /\ orders[o].is_active # FALSE
           /\ verified[orders[o].user_id] /\ verified[orders[o].performer]
  BY DocFacts
<1> DEFINE Kept ==
         /\ orders'[o].user_id = orders[o].user_id /\ orders'[o].performer = orders[o].performer
         /\ orders'[o].draft = orders[o].draft
         /\ \/ orders'[o].is_active = orders[o].is_active
            \/ orders[o].status = "active" /\ orders[o].performer = None
         /\ orders'[o].status = "active" => orders[o].status = "active"
         /\ orders'[o].status \in DealStatuses \union {"completed"}
              => orders[o].status \in DealStatuses \/ orders'[o].status = orders[o].status
<1>3. Kept
  <2>1. CASE Seeking(orders[o]) /\ orders'[o] = [orders[o] EXCEPT !.is_active = FALSE]
    BY <1>2, <2>1 DEF Doc, Seeking
  <2>2. ASSUME NEW s \in {"cancelled", "review", "completed", "pending"},
               orders'[o] = [orders[o] EXCEPT !.status = s],
               s = "cancelled" \/ orders[o].status \in DealStatuses
        PROVE  Kept
    <3>1. /\ orders'[o].user_id = orders[o].user_id /\ orders'[o].performer = orders[o].performer
          /\ orders'[o].draft = orders[o].draft /\ orders'[o].is_active = orders[o].is_active
          /\ orders'[o].status = s
      BY <1>2, <2>2 DEF Doc
    <3> QED BY <2>2, <3>1 DEF DealStatuses
  <2> QED BY <1>1, <2>1, <2>2 DEF DealStatuses, Wrote
<1>4. Steady /\ DocInv'
  <2>1. /\ orders'[o].status = "active" => orders'[o].performer = None
        /\ orders'[o].status \in DealStatuses \union {"completed"}
             => orders'[o].performer \in User \ {orders'[o].user_id}
    BY <1>2, <1>3
  <2>2. orders'[o].performer # None =>
           /\ ~orders'[o].draft /\ orders'[o].is_active # FALSE
           /\ verified[orders'[o].user_id] /\ verified[orders'[o].performer]
    BY <1>2, <1>3
  <2> QED BY <1>1, <1>3, <2>1, <2>2, WriteDoc DEF Wrote
<1>5. InFlight'
  <2>1. /\ \A x \in Order : stored[x] \in {"live", "gone"} => orders'[x].user_id = orders[x].user_id
        /\ UNCHANGED <<stored, verified, req>>
    BY <1>1, <1>3 DEF Wrote
  <2> SUFFICES ASSUME NEW q \in Request
               PROVE  Placed(q)' /\ Unmade(q)' /\ Assigning(q)' /\ Responding(q)'
    BY DEF InFlight
  <2>2. Placed(q) /\ Unmade(q) /\ Assigning(q) /\ Responding(q)
    BY DEF IInv, InFlight
  <2>3. Placed(q)' /\ Unmade(q)'
    BY <2>1, <2>2 DEF Placed, Unmade, At
  <2>4. req[q].pc \in OnStored => orders'[req[q].order].user_id = orders[req[q].order].user_id
    BY <2>1, <2>2 DEF Placed, OnStored
  <2>5. {"actorCheck", "otherCheck", "assign", "exists", "responseCheck", "createResponse"} \subseteq OnStored
    BY DEF OnStored, OnOrder, Steps
  <2>6. Assigning(q)'
    BY <2>1, <2>2, <2>4, <2>5 DEF Assigning, OtherParty
  <2>7. Responding(q)'
    BY <2>1, <2>2, <2>4, <2>5 DEF Responding, At
  <2> QED BY <2>3, <2>6, <2>7
<1> QED BY <1>4, <1>5

(* A confirmation, or the end of the process, falsifies nothing.            *)
LEMMA InvAround ==
    ASSUME IInv, (\E u \in User : VerifyEmail(u)) \/ Crash
    PROVE  InFlight' /\ DocInv'
<1>1. ASSUME NEW u \in User, VerifyEmail(u)
      PROVE  InFlight' /\ DocInv'
  <2>1. /\ UNCHANGED <<stored, orders, responses, req>>
        /\ verified' = [verified EXCEPT ![u] = TRUE]
        /\ \A v \in User : verified[v] => verified'[v]
        /\ \A r \in Request : OtherParty(r)' = OtherParty(r)
    BY <1>1 DEF VerifyEmail, IInv, TypeOK, OtherParty
  <2>2. Made' /\ StatusMatchesPerformer' /\ NoHiddenDeal'
    BY <2>1 DEF IInv, Made, StatusMatchesPerformer, NoHiddenDeal
  <2>3. DealVerified'
    <3> SUFFICES ASSUME NEW o \in Order, orders[o].performer # None
                 PROVE  verified'[orders[o].user_id] /\ verified'[orders[o].performer]
      BY <2>1 DEF DealVerified
    <3>1. orders[o] \in Doc /\ orders[o].performer \in User
      BY DEF IInv, TypeOK, Doc
    <3>2. orders[o].user_id \in User
      BY <3>1 DEF IInv, Made, Blank
    <3> QED BY <2>1, <3>1, <3>2 DEF IInv, DealVerified
  <2>4. RespondersQualify'
    BY <2>1 DEF IInv, RespondersQualify, TypeOK, ResponseDoc
  <2>5. InFlight'
    <3> SUFFICES ASSUME NEW q \in Request
                 PROVE  Placed(q)' /\ Unmade(q)' /\ Assigning(q)' /\ Responding(q)'
      BY DEF InFlight
    <3>1. Placed(q) /\ Unmade(q) /\ Assigning(q) /\ Responding(q)
      BY DEF IInv, InFlight
    <3>2. Placed(q)' /\ Unmade(q)'
      BY <2>1, <3>1 DEF Placed, Unmade, At
    <3>3. Assigning(q)'
      <4> SUFFICES ASSUME req[q].pc \in {"actorCheck", "otherCheck", "assign"}
                   PROVE  Assigning(q)'
        BY <2>1 DEF Assigning
      <4>1. req[q].order \in Order /\ stored[req[q].order] \in {"live", "gone"}
        BY <3>1 DEF Placed, OnOrder, OnStored, Steps
      <4>2. orders[req[q].order].user_id \in User
        BY <4>1 DEF IInv, Made
      <4>3. req[q].user \in User /\ OtherParty(q) \in User
        BY <3>1, <4>2 DEF Assigning, OtherParty
      <4> QED BY <2>1, <3>1, <4>3 DEF Assigning
    <3>4. Responding(q)'
      <4>1. At(q, "createResponse") => req[q].user \in User
        BY <3>1 DEF Placed, OfUser, At
      <4> QED BY <2>1, <3>1, <4>1 DEF Responding, At
    <3> QED BY <3>2, <3>3, <3>4
  <2> QED BY <2>2, <2>3, <2>4, <2>5 DEF DocInv
<1>2. CASE Crash
  <2>1. UNCHANGED <<stored, orders, responses, verified>> /\ \A r \in Request : req'[r].pc = "idle"
    BY <1>2 DEF Crash, Idle
  <2>2. InFlight'
    BY <2>1 DEF InFlight, Placed, Unmade, Assigning, Responding, At, OnOrder, OnStored, OfUser
  <2> QED BY <2>1, <2>2, DocsUnchanged
<1> QED BY <1>1, <1>2

(* The invariant is inductive.                                              *)
LEMMA InvNext == IInv /\ [Next]_vars => IInv'
<1> SUFFICES ASSUME IInv, [Next]_vars
             PROVE  IInv'
  OBVIOUS
<1>1. TypeOK'
  BY TypeNext DEF IInv
<1>2. InFlight' /\ DocInv'
  <2>1. CASE UNCHANGED vars
    <3>1. InFlight'
      BY <2>1 DEF vars, IInv, InFlight, Placed, Unmade, Assigning, Responding, At, OtherParty
    <3> QED BY <2>1, <3>1, DocsUnchanged DEF vars
  <2>2. ASSUME NEW r \in Request, NEW o \in Order, Owner(r, o)
        PROVE  InFlight' /\ DocInv'
    <3>1. ASSUME NEW draft \in BOOLEAN, NEW format \in FormatInputs,
                 NEW city \in City \union {None}, NEW u \in User,
                 CreateOrder(r, u, o, draft, format, city)
          PROVE  InFlight' /\ DocInv'
      BY <3>1, InvCreateOrder
    <3>2. CASE \/ DeleteOrder(r, o)
               \/ \E draft \in BOOLEAN, format \in FormatInputs, city \in City \union {None},
                    active \in ActiveInputs : UpdateOrder(r, o, draft, active, format, city)
               \/ \E customer, performer, actor \in User :
                    AssignPerformer(r, o, customer, performer, actor)
      BY <3>2, InvStart
    <3> QED BY <2>2, <3>1, <3>2 DEF Owner
  <2>3. ASSUME NEW r \in Request, NEW u \in User, NEW o \in Order, CreateOrderResponse(r, u, o)
        PROVE  InFlight' /\ DocInv'
    BY <2>3, InvStart
  <2>4. ASSUME NEW r \in Request, NEW p \in responses, DeleteOrderResponse(r, p)
        PROVE  InFlight' /\ DocInv'
    <3>1. p.order \in Order
      BY DEF IInv, TypeOK, ResponseDoc
    <3> QED BY <2>4, <3>1, InvStart
  <2>5. ASSUME NEW r \in Request, Step(r)
        PROVE  InFlight' /\ DocInv'
    BY <2>5, InvInsert, InvRead, InvSave, InvAssign, InvDelete, InvCreateResponse DEF Step
  <2>6. ASSUME NEW o \in Order, OneWrite(o)
        PROVE  InFlight' /\ DocInv'
    BY <2>6, InvOneWrite
  <2>7. CASE (\E u \in User : VerifyEmail(u)) \/ Crash
    BY <2>7, InvAround
  <2> QED BY <2>1, <2>2, <2>3, <2>4, <2>5, <2>6, <2>7 DEF Next, Serve
<1> QED BY <1>1, <1>2 DEF IInv, DocInv

(* The inductive invariant holds of every reachable state.                  *)
THEOREM Invariance == Spec => []IInv
BY InvInit, InvNext, PTL DEF Spec

(* Type correctness; the response counter stays a natural number.           *)
THEOREM TypeCorrect == Spec => []TypeOK
<1>1. IInv => TypeOK
  BY DEF IInv
<1> QED BY <1>1, Invariance, PTL

(* Status and performer agree, for every number of users, orders and         *)
(* handlers in flight.                                                       *)
THEOREM DealSafety == Spec => []StatusMatchesPerformer
<1>1. IInv => StatusMatchesPerformer
  BY DEF IInv
<1> QED BY <1>1, Invariance, PTL

(* The parties of a deal and those who respond were entitled to: their       *)
(* addresses are confirmed and nobody responds to himself.                   *)
THEOREM Qualified == Spec => []PartiesQualify
<1>1. IInv => PartiesQualify
  BY DEF IInv, PartiesQualify
<1> QED BY <1>1, Invariance, PTL

(* A deal is hidden from nobody who is in it, and the feed's query selects   *)
(* exactly the orders isListed accepts.                                      *)
THEOREM Visibility == Spec => []VisibleAsDue
<1>1. IInv => FeedMatchesListed
  <2> SUFFICES ASSUME IInv, NEW o \in Order
               PROVE  InFeed(orders[o]) <=> IsListed(orders[o])
    BY DEF FeedMatchesListed
  <2>1. /\ orders[o] \in Doc
        /\ orders[o].status = "active" => orders[o].performer = None
        /\ orders[o].status \in DealStatuses \union {"completed"} => orders[o].performer \in User
    BY DocFacts
  <2>2. None \notin User
    BY OrderDocAssumption
  <2>3. orders[o].status \in Statuses
    BY <2>1 DEF Doc
  <2> QED BY <2>1, <2>2, <2>3 DEF InFeed, IsListed, DealStatuses, Statuses
<1>2. IInv => VisibleAsDue
  BY <1>1 DEF IInv, VisibleAsDue
<1> QED BY <1>2, Invariance, PTL

(***************************************************************************)
(* The service implements the life cycle of a deal                         *)
(***************************************************************************)
LEMMA LifeInit == Init => Life!Init
BY DEF Init, Life!Init, Customer, Stage, Performer, Blank

(* A step that keeps what the life cycle sees of every order is a stutter.  *)
LEMMA Stutters ==
    ASSUME \A o \in Order :
             /\ orders'[o].user_id = orders[o].user_id
             /\ orders'[o].performer = orders[o].performer
             /\ Stage'[o] = Stage[o]
    PROVE  UNCHANGED Life!vars
<1>1. Customer' = Customer /\ Performer' = Performer
  BY DEF Customer, Performer
<1>2. Stage' = Stage
  <2>1. Stage' = [o \in Order |-> Stage'[o]] /\ Stage = [o \in Order |-> Stage[o]]
    BY DEF Stage
  <2> QED BY <2>1
<1> QED BY <1>1, <1>2 DEF Life!vars

(* A step on one order changes the three functions at one point.            *)
LEMMA OnePoint ==
    ASSUME NEW o \in Order,
           \A x \in Order \ {o} : /\ orders'[x].user_id = orders[x].user_id
                                  /\ orders'[x].performer = orders[x].performer
                                  /\ Stage'[x] = Stage[x]
    PROVE  /\ Customer' = [Customer EXCEPT ![o] = orders'[o].user_id]
           /\ Performer' = [Performer EXCEPT ![o] = orders'[o].performer]
           /\ Stage' = [Stage EXCEPT ![o] = Stage'[o]]
           /\ orders'[o].user_id = orders[o].user_id => Customer' = Customer
           /\ orders'[o].performer = orders[o].performer => Performer' = Performer
<1>1. Customer' = [Customer EXCEPT ![o] = orders'[o].user_id]
  BY DEF Customer
<1>2. Performer' = [Performer EXCEPT ![o] = orders'[o].performer]
  BY DEF Performer
<1>3. Stage' = [Stage EXCEPT ![o] = Stage'[o]]
  <2>1. Stage' = [x \in Order |-> Stage'[x]] /\ Stage = [x \in Order |-> Stage[x]]
    BY DEF Stage
  <2> QED BY <2>1
<1>4. /\ orders'[o].user_id = orders[o].user_id => Customer' = Customer
      /\ orders'[o].performer = orders[o].performer => Performer' = Performer
  BY DEF Customer, Performer
<1> QED BY <1>1, <1>2, <1>3, <1>4

(* The insert posts the order.                                              *)
LEMMA LifeInsert ==
    ASSUME IInv, NEW r \in Request, InsertOrder(r)
    PROVE  Life!Next
<1> DEFINE o == req[r].order
           d == req[r].edit
<1>1. /\ TypeOK /\ o \in Order /\ stored[o] = "new" /\ orders[o] = Blank
      /\ d.user_id \in User /\ d.status = "active" /\ d.performer = None
  <2>1. Placed(r) /\ Unmade(r) /\ req[r].pc = "insert" /\ TypeOK /\ Made
    BY DEF IInv, InFlight, InsertOrder, At
  <2> QED BY <2>1 DEF Placed, Unmade, Made, At, OnOrder, Steps
<1>2. stored' = [stored EXCEPT ![o] = "live"] /\ orders' = [orders EXCEPT ![o] = d]
  BY DEF InsertOrder, Write
<1> HIDE DEF o, d
<1>3. /\ stored'[o] = "live" /\ orders'[o] = d
      /\ \A x \in Order \ {o} : stored'[x] = stored[x] /\ orders'[x] = orders[x]
  BY <1>1, <1>2 DEF TypeOK
<1>4. /\ Customer' = [Customer EXCEPT ![o] = d.user_id]
      /\ Stage' = [Stage EXCEPT ![o] = "active"]
      /\ Performer' = Performer /\ Stage[o] = "none"
  <2>1. \A x \in Order \ {o} : /\ orders'[x].user_id = orders[x].user_id
                               /\ orders'[x].performer = orders[x].performer
                               /\ Stage'[x] = Stage[x]
    BY <1>3 DEF Stage
  <2>2. Stage'[o] = "active" /\ Stage[o] = "none" /\ orders'[o].performer = orders[o].performer
    BY <1>1, <1>3 DEF Stage, Blank
  <2> QED BY <1>1, <1>3, <2>1, <2>2, OnePoint
<1> QED BY <1>1, <1>4 DEF Life!Next, Life!Post

(* The assignment is the agreement.                                         *)
LEMMA LifeAssign ==
    ASSUME IInv, NEW r \in Request, AssignWrite(r), Assigns(r)
    PROVE  Life!Next
<1> DEFINE o == req[r].order
           p == req[r].performer
           d == [orders[o] EXCEPT !.performer = p, !.status = "pending"]
<1>1. /\ TypeOK /\ o \in Order /\ stored[o] = "live" /\ orders[o] \in Doc
      /\ p \in User /\ p # orders[o].user_id
      /\ orders[o].status = "active" /\ orders[o].performer = None
  <2>1. Placed(r) /\ Assigning(r) /\ req[r].pc = "assign" /\ TypeOK
    BY DEF IInv, InFlight, AssignWrite, At
  <2>2. o \in Order
    BY <2>1 DEF Placed, OnOrder, Steps
  <2> QED BY <2>1, <2>2 DEF Assigning, Assigns, Seeking, Live, TypeOK
<1>2. UNCHANGED stored /\ orders' = [orders EXCEPT ![o] = d]
  BY DEF AssignWrite, Write
<1>3. d.user_id = orders[o].user_id /\ d.performer = p /\ d.status = "pending"
  BY <1>1 DEF Doc
<1> HIDE DEF o, d, p
<1>4. orders'[o] = d /\ \A x \in Order \ {o} : orders'[x] = orders[x]
  BY <1>1, <1>2 DEF TypeOK
<1>5. /\ Customer' = Customer /\ Customer[o] # p
      /\ Stage' = [Stage EXCEPT ![o] = "pending"] /\ Stage[o] = "active"
      /\ Performer' = [Performer EXCEPT ![o] = p] /\ Performer[o] = None
  <2>1. \A x \in Order \ {o} : /\ orders'[x].user_id = orders[x].user_id
                               /\ orders'[x].performer = orders[x].performer
                               /\ Stage'[x] = Stage[x]
    BY <1>2, <1>4 DEF Stage
  <2>2. Stage'[o] = "pending" /\ Stage[o] = "active"
    BY <1>1, <1>2, <1>3, <1>4 DEF Stage
  <2>3. Customer[o] # p /\ Performer[o] = None
    BY <1>1 DEF Customer, Performer
  <2> QED BY <1>3, <1>4, <1>1, <2>1, <2>2, <2>3, OnePoint
<1> QED BY <1>1, <1>5 DEF Life!Next, Life!Agree

(* The transitions in one query are moves of the life cycle; archiving is   *)
(* none of its business.                                                    *)
LEMMA LifeOneWrite ==
    ASSUME IInv, NEW o \in Order, OneWrite(o)
    PROVE  Life!Next \/ UNCHANGED Life!vars
<1>1. TypeOK /\ Wrote(o) /\ orders[o] \in Doc
  BY OneWriteEffect DEF IInv, TypeOK
<1>2. \A x \in Order \ {o} : /\ orders'[x].user_id = orders[x].user_id
                             /\ orders'[x].performer = orders[x].performer
                             /\ Stage'[x] = Stage[x]
  BY <1>1 DEF Wrote, Stage
<1>3. CASE orders'[o] = [orders[o] EXCEPT !.is_active = FALSE]
  <2>1. /\ orders'[o].user_id = orders[o].user_id /\ orders'[o].performer = orders[o].performer
        /\ orders'[o].status = orders[o].status
    BY <1>1, <1>3 DEF Doc
  <2>2. Stage'[o] = Stage[o]
    BY <1>1, <2>1 DEF Wrote, Stage
  <2> QED BY <1>2, <2>1, <2>2, Stutters
<1>4. ASSUME NEW s \in Statuses, orders'[o] = [orders[o] EXCEPT !.status = s]
      PROVE  /\ Stage' = [Stage EXCEPT ![o] = s] /\ Stage[o] = orders[o].status
             /\ UNCHANGED <<Customer, Performer>>
  <2>1. /\ orders'[o].user_id = orders[o].user_id /\ orders'[o].performer = orders[o].performer
        /\ orders'[o].status = s
    BY <1>1, <1>4 DEF Doc
  <2>2. Stage'[o] = s /\ Stage[o] = orders[o].status
    BY <1>1, <2>1 DEF Wrote, Stage
  <2> QED BY <1>2, <2>1, <2>2, OnePoint
<1>5. {"cancelled", "review", "completed", "pending"} \subseteq Statuses
  BY DEF Statuses
<1>6. CASE /\ orders[o].status \in {"active", "pending", "review"}
           /\ orders'[o] = [orders[o] EXCEPT !.status = "cancelled"]
  <2>1. Life!CallOff(o)
    BY <1>4, <1>5, <1>6 DEF Life!CallOff, Life!Move
  <2> QED BY <2>1 DEF Life!Next
<1>7. CASE orders[o].status = "pending" /\ orders'[o] = [orders[o] EXCEPT !.status = "review"]
  <2>1. Life!HandIn(o)
    BY <1>4, <1>5, <1>7 DEF Life!HandIn, Life!Move
  <2> QED BY <2>1 DEF Life!Next
<1>8. CASE orders[o].status = "review" /\ orders'[o] = [orders[o] EXCEPT !.status = "completed"]
  <2>1. Life!Complete(o)
    BY <1>4, <1>5, <1>8 DEF Life!Complete, Life!Move
  <2> QED BY <2>1 DEF Life!Next
<1>9. CASE orders[o].status = "review" /\ orders'[o] = [orders[o] EXCEPT !.status = "pending"]
  <2>1. Life!SendBack(o)
    BY <1>4, <1>5, <1>9 DEF Life!SendBack, Life!Move
  <2> QED BY <2>1 DEF Life!Next
<1> QED BY <1>1, <1>3, <1>6, <1>7, <1>8, <1>9 DEF Wrote

(* A step that leaves the orders alone, or only makes or deletes one, is a  *)
(* stutter.                                                                 *)
LEMMA LifeStutter ==
    ASSUME UNCHANGED orders,
           \A o \in Order :
              \/ stored'[o] = stored[o]
              \/ stored[o] \in {"absent", "new"} /\ stored'[o] = "new"
              \/ stored[o] \in {"live", "gone"} /\ stored'[o] = "gone"
    PROVE  UNCHANGED Life!vars
<1>1. \A o \in Order : Stage'[o] = Stage[o]
  BY DEF Stage
<1> QED BY <1>1, Stutters

LEMMA LifeSave ==
    ASSUME IInv, NEW r \in Request, SaveOrder(r)
    PROVE  UNCHANGED Life!vars
<1> DEFINE o == req[r].order
           d == SaveChanges(orders[o], req[r].snap, req[r].edit)
<1>1. /\ orders \in [Order -> Doc] /\ req[r] \in Req /\ UNCHANGED stored
      /\ Placed(r) /\ req[r].pc = "save"
  BY DEF IInv, TypeOK, InFlight, SaveOrder, At
<1>2. o \in Order
  BY <1>1 DEF Placed, OnOrder, Steps
<1>3. CASE UNCHANGED orders
  BY <1>1, <1>3, LifeStutter
<1>4. CASE orders' = [orders EXCEPT ![o] = d]
  <2>1. /\ d.user_id = orders[o].user_id /\ d.status = orders[o].status
        /\ d.performer = orders[o].performer
    BY <1>1, <1>2, SaveChangesType DEF Req
  <2> HIDE DEF d, o
  <2>2. orders'[o] = d /\ \A x \in Order \ {o} : orders'[x] = orders[x]
    BY <1>1, <1>2, <1>4
  <2>3. \A x \in Order : /\ orders'[x].user_id = orders[x].user_id
                         /\ orders'[x].status = orders[x].status
                         /\ orders'[x].performer = orders[x].performer
    BY <2>1, <2>2
  <2>4. \A x \in Order : Stage'[x] = Stage[x]
    BY <1>1, <2>3 DEF Stage
  <2> QED BY <2>3, <2>4, Stutters
<1> QED BY <1>3, <1>4 DEF SaveOrder, Write

(* Every step of the service is a step of the life cycle or a stutter.      *)
LEMMA LifeNext == IInv /\ [Next]_vars => [Life!Next]_(Life!vars)
<1> SUFFICES ASSUME IInv, [Next]_vars
             PROVE  Life!Next \/ UNCHANGED Life!vars
  OBVIOUS
<1>t. stored \in [Order -> {"absent", "new", "live", "gone"}]
  BY DEF IInv, TypeOK
<1>s. ASSUME UNCHANGED <<stored, orders>>
      PROVE  UNCHANGED Life!vars
  BY <1>s, LifeStutter
<1>1. CASE UNCHANGED vars
  BY <1>1, <1>s DEF vars
<1>2. ASSUME NEW r \in Request, NEW o \in Order, Owner(r, o)
      PROVE  UNCHANGED Life!vars
  <2>1. ASSUME UNCHANGED orders, stored[o] = "absent", stored' = [stored EXCEPT ![o] = "new"]
        PROVE  UNCHANGED Life!vars
    <3>1. \A x \in Order :
             \/ stored'[x] = stored[x]
             \/ stored[x] \in {"absent", "new"} /\ stored'[x] = "new"
      BY <1>t, <2>1
    <3> QED BY <2>1, <3>1, LifeStutter
  <2>2. \/ UNCHANGED <<stored, orders>>
        \/ UNCHANGED orders /\ stored[o] = "absent" /\ stored' = [stored EXCEPT ![o] = "new"]
    <3> DEFINE Goal == \/ UNCHANGED <<stored, orders>>
                       \/ UNCHANGED orders /\ stored[o] = "absent" /\ stored' = [stored EXCEPT ![o] = "new"]
    <3>1. ASSUME NEW u \in User, NEW draft, NEW format, NEW city, CreateOrder(r, u, o, draft, format, city)
          PROVE  Goal
      BY <3>1 DEF CreateOrder
    <3>2. ASSUME NEW draft, NEW active, NEW format, NEW city, UpdateOrder(r, o, draft, active, format, city)
          PROVE  Goal
      BY <3>2 DEF UpdateOrder
    <3>3. ASSUME DeleteOrder(r, o)
          PROVE  Goal
      BY <3>3 DEF DeleteOrder
    <3>4. ASSUME NEW customer, NEW performer, NEW actor, AssignPerformer(r, o, customer, performer, actor)
          PROVE  Goal
      BY <3>4 DEF AssignPerformer
    <3> HIDE DEF Goal
    <3>5. Goal
      BY <1>2, <3>1, <3>2, <3>3, <3>4 DEF Owner
    <3> QED BY <3>5 DEF Goal
  <2> QED BY <1>s, <2>1, <2>2
<1>3. ASSUME NEW r \in Request, NEW u \in User, NEW o \in Order, CreateOrderResponse(r, u, o)
      PROVE  UNCHANGED Life!vars
  BY <1>3, <1>s DEF CreateOrderResponse
<1>4. ASSUME NEW r \in Request, NEW p \in responses, DeleteOrderResponse(r, p)
      PROVE  UNCHANGED Life!vars
  BY <1>4, <1>s DEF DeleteOrderResponse
<1>5. ASSUME NEW r \in Request, Step(r)
      PROVE  Life!Next \/ UNCHANGED Life!vars
  <2>1. CASE InsertOrder(r)
    BY <2>1, LifeInsert
  <2>2. CASE SaveOrder(r)
    BY <2>2, LifeSave
  <2>3. CASE AssignWrite(r)
    <3>1. ~Assigns(r) => UNCHANGED <<stored, orders>>
      BY <2>3 DEF AssignWrite
    <3> QED BY <2>3, <3>1, <1>s, LifeAssign
  <2>4. CASE DeleteDoc(r)
    <3>1. /\ UNCHANGED orders /\ stored' = [stored EXCEPT ![req[r].order] = "gone"]
          /\ stored[req[r].order] \in {"live", "gone"}
      BY <2>4 DEF DeleteDoc, IInv, InFlight, Placed, OnStored, OnOrder, Steps
    <3>2. \A x \in Order :
             \/ stored'[x] = stored[x]
             \/ stored[x] \in {"live", "gone"} /\ stored'[x] = "gone"
      BY <1>t, <3>1
    <3> QED BY <3>1, <3>2, LifeStutter
  <2>5. CASE \/ PublishCheck(r) \/ CountOrders(r) \/ SetOrdersCount(r)
             \/ ActorCheck(r) \/ OtherCheck(r) \/ Exists(r) \/ ResponseCheck(r)
             \/ IncResponseCount(r) \/ DecResponseCount(r)
             \/ DeleteResponses(r) \/ DeleteResponse(r)
             \/ \E p \in Response : CreateResponse(r, p)
    <3>1. UNCHANGED <<stored, orders>>
      BY <2>5 DEF PublishCheck, CountOrders, SetOrdersCount, ActorCheck, OtherCheck, Exists,
                  ResponseCheck, IncResponseCount, DecResponseCount, DeleteResponses,
                  DeleteResponse, CreateResponse
    <3> QED BY <3>1, <1>s
  <2> QED BY <1>5, <2>1, <2>2, <2>3, <2>4, <2>5 DEF Step
<1>6. ASSUME NEW o \in Order, OneWrite(o)
      PROVE  Life!Next \/ UNCHANGED Life!vars
  BY <1>6, LifeOneWrite
<1>7. CASE (\E u \in User : VerifyEmail(u)) \/ Crash
  <2>1. UNCHANGED <<stored, orders>>
    BY <1>7 DEF VerifyEmail, Crash
  <2> QED BY <2>1, <1>s
<1> QED BY <1>1, <1>2, <1>3, <1>4, <1>5, <1>6, <1>7 DEF Next, Serve

(* Whatever the handlers do and however they interleave, every order lives  *)
(* the life the marketplace promises.                                       *)
THEOREM Refinement == Spec => FollowsDeal
BY LifeInit, LifeNext, Invariance, PTL DEF Spec, FollowsDeal, Life!Spec

(***************************************************************************)
(* What the reviews take from the orders                                   *)
(***************************************************************************)
\* A completed order has two parties, who are two users.
TwoParties == \A o \in Order : Stage[o] = "completed" =>
    /\ Customer[o] \in User /\ Performer[o] \in User
    /\ Customer[o] # Performer[o]

\* An order that has ended has ended as it did, between the same parties.
EndStays == \A o \in Order : Stage[o] \in {"completed", "cancelled"} =>
    Stage'[o] = Stage[o] /\ Customer'[o] = Customer[o] /\ Performer'[o] = Performer[o]

(* No step of the life cycle touches an order that has ended.                *)
LEMMA EndOfLife ==
    ASSUME Life!Next
    PROVE  EndStays
<1>1. PICK o \in Order :
         \/ \E u \in User : Life!Post(o, u) \/ Life!Agree(o, u)
         \/ Life!HandIn(o) \/ Life!SendBack(o) \/ Life!Complete(o) \/ Life!CallOff(o)
  BY DEF Life!Next
<1>2. /\ Customer = [x \in Order |-> Customer[x]] /\ Performer = [x \in Order |-> Performer[x]]
      /\ Stage = [x \in Order |-> Stage[x]]
  BY DEF Customer, Performer, Stage
<1>3. ASSUME NEW u \in User, Life!Post(o, u)
      PROVE  EndStays
  BY <1>2, <1>3 DEF Life!Post, EndStays
<1>4. ASSUME NEW u \in User, Life!Agree(o, u)
      PROVE  EndStays
  BY <1>2, <1>4 DEF Life!Agree, EndStays
<1>5. ASSUME NEW from \in SUBSET {"active", "pending", "review"}, NEW to, Life!Move(o, from, to)
      PROVE  EndStays
  BY <1>2, <1>5 DEF Life!Move, EndStays
<1>6. ASSUME Life!HandIn(o) \/ Life!SendBack(o) \/ Life!Complete(o) \/ Life!CallOff(o)
      PROVE  EndStays
  BY <1>5, <1>6 DEF Life!HandIn, Life!SendBack, Life!Complete, Life!CallOff
<1> QED BY <1>1, <1>3, <1>4, <1>6

(* What Reviews assumes of its constants holds of the orders, however the    *)
(* handlers overlap: the parties of a completed order are two different      *)
(* users, and neither they nor the end of the order ever change.             *)
THEOREM Settled == Spec => []TwoParties /\ [][EndStays]_vars
<1>1. IInv => TwoParties
  <2> SUFFICES ASSUME IInv, NEW o \in Order, Stage[o] = "completed"
               PROVE  /\ Customer[o] \in User /\ Performer[o] \in User
                      /\ Customer[o] # Performer[o]
    BY DEF TwoParties
  <2>1. stored[o] \notin {"absent", "new"} /\ orders[o].status = "completed"
    BY DEF Stage
  <2>2. orders[o].user_id \in User /\ orders[o].performer \in User \ {orders[o].user_id}
    BY <2>1 DEF IInv, Made, StatusMatchesPerformer
  <2> QED BY <2>2 DEF Customer, Performer
<1>2. IInv /\ [Next]_vars => [EndStays]_vars
  <2> SUFFICES ASSUME IInv, [Next]_vars
               PROVE  EndStays
    OBVIOUS
  <2>1. CASE Life!Next
    BY <2>1, EndOfLife
  <2>2. CASE UNCHANGED Life!vars
    BY <2>2 DEF Life!vars, EndStays
  <2> QED BY <2>1, <2>2, LifeNext
<1> QED BY <1>1, <1>2, Invariance, PTL DEF Spec

(***************************************************************************)
(* Handlers that do not overlap                                            *)
(***************************************************************************)
\* What handler r will still put right: the counter of a user's orders, the
\* counter of an order's responses.
Refreshes(r, u) == req[r].pc \in {"count", "setCount", "deleteResponses"} /\ req[r].user = u
Adjusts(r, o)   == req[r].pc \in {"incCount", "decCount", "deleteDoc"} /\ req[r].order = o

UserExact(u) == \/ orders_count[u] = Cardinality(OrdersOf(u))
                \/ \E r \in Request : Refreshes(r, u)

OrderExact(o) == Live(o) => \/ response_count[o] = Cardinality(ResponsesTo(o))
                            \/ \E r \in Request : Adjusts(r, o)

\* Between the read of an order and its save another query may archive it or
\* move it on, and nothing else.
Aged(now, read) ==
    /\ now.draft = read.draft /\ now.work_format = read.work_format /\ now.city = read.city
    /\ now.is_active \in {read.is_active, FALSE}
    /\ now.status = "active" => read.status = "active"

\* What a handler that runs alone knows at each of its stages.
KnowsInsert(r) == At(r, "insert") =>
    /\ req[r].edit.user_id = req[r].user
    /\ Placeable(req[r].edit)
    /\ IsListed(req[r].edit) => verified[req[r].user]

KnowsSave(r) == req[r].pc \in {"publishCheck", "save"} =>
    /\ orders[req[r].order].user_id = req[r].user
    /\ Aged(orders[req[r].order], req[r].snap)
    /\ Placeable(req[r].edit)
    /\ req[r].edit.status = req[r].snap.status
    /\ At(r, "save") /\ IsListed(req[r].edit) => verified[req[r].user]

KnowsDelete(r) ==
    /\ req[r].pc \in {"deleteBoth", "deleteDoc"} =>
         /\ orders[req[r].order].user_id = req[r].user
         /\ orders[req[r].order].performer = None
    /\ At(r, "deleteResponses") => ~Live(req[r].order)

KnowsResponse(r) ==
    /\ req[r].pc \in {"responseCheck", "createResponse"} =>
         \A p \in responses : p.order # req[r].order \/ p.user # req[r].user
    /\ At(r, "deleteResponse") =>
         \E p \in responses : p.id = req[r].response /\ p.order = req[r].order

KnowsCount(r) ==
    /\ At(r, "setCount") => req[r].count = Cardinality(OrdersOf(req[r].user))
    /\ At(r, "incCount") /\ Live(req[r].order) =>
         Cardinality(ResponsesTo(req[r].order)) = response_count[req[r].order] + 1
    /\ At(r, "decCount") /\ Live(req[r].order) =>
         response_count[req[r].order] = Cardinality(ResponsesTo(req[r].order)) + 1

Knows(r) == KnowsInsert(r) /\ KnowsSave(r) /\ KnowsDelete(r) /\ KnowsResponse(r) /\ KnowsCount(r)

\* A response has an id of its own, and an order not yet stored has none.
Records ==
    /\ IsFiniteSet(responses)
    /\ \A p \in responses : p.id \in spent
    /\ \A p, q \in responses : p.id = q.id => p = q
    /\ \A o \in Order : stored[o] \in {"absent", "new"} => response_count[o] = 0

\* At most one handler is busy, and it knows what it is about.
Alone ==
    /\ IsFiniteSet(Busy) /\ Single(Busy)
    /\ Records
    /\ RulesKept
    /\ \A u \in User : UserExact(u)
    /\ \A o \in Order : OrderExact(o)
    /\ \A r \in Request : Knows(r)

\* A step of handler r while the others are idle.
OneAt(r) == \A q \in Request \ {r} : req[q].pc = "idle" /\ req'[q] = req[q]

\* What such a step has to bring about.
Counts == (\A u \in User : UserExact(u)) /\ (\A o \in Order : OrderExact(o))

Goes(r) == Records' /\ RulesKept' /\ Counts' /\ Knows(r)' /\ DeletesNoDeal

LEMMA IdleKnows ==
    \A r \in Request : req[r].pc = "idle" => Knows(r)
BY DEF Knows, KnowsInsert, KnowsSave, KnowsDelete, KnowsResponse, KnowsCount, At

(* With the others idle only r can have a counter to put right.              *)
LEMMA Balance ==
    ASSUME Alone, NEW r \in Request, OneAt(r)
    PROVE  /\ \A u \in User : orders_count[u] = Cardinality(OrdersOf(u)) \/ Refreshes(r, u)
           /\ \A o \in Order : Live(o) => \/ response_count[o] = Cardinality(ResponsesTo(o))
                                         \/ Adjusts(r, o)
BY DEF Alone, OneAt, UserExact, OrderExact, Refreshes, Adjusts

(* The counters after a step that counts nothing: no order of a user comes,   *)
(* goes, or moves in or out of the drafts, and no response comes or goes.    *)
LEMMA CountsKept ==
    ASSUME Alone, NEW r \in Request, OneAt(r), UNCHANGED <<response_count, responses, orders_count>>,
           \A o \in Order : /\ Live(o)' <=> Live(o)
                            /\ Live(o) => /\ orders'[o].user_id = orders[o].user_id
                                         /\ orders'[o].draft = orders[o].draft,
           \A u \in User : Refreshes(r, u) => Refreshes(r, u)',
           \A o \in Order : Adjusts(r, o) => Adjusts(r, o)'
    PROVE  /\ Counts'
           /\ \A u : OrdersOf(u)' = OrdersOf(u)
           /\ \A o : ResponsesTo(o)' = ResponsesTo(o)
<1>1. \A u : OrdersOf(u)' = OrdersOf(u)
  BY DEF OrdersOf, Counted
<1>2. \A o : ResponsesTo(o)' = ResponsesTo(o)
  BY DEF ResponsesTo
<1>3. /\ \A u \in User : orders_count[u] = Cardinality(OrdersOf(u)) \/ Refreshes(r, u)
      /\ \A o \in Order : Live(o) => \/ response_count[o] = Cardinality(ResponsesTo(o))
                                    \/ Adjusts(r, o)
  BY Balance
<1> QED BY <1>1, <1>2, <1>3 DEF Counts, UserExact, OrderExact

(* A step of one handler that writes nothing.                                *)
Reads == UNCHANGED <<stored, orders, response_count, responses, spent, verified, orders_count>>

LEMMA ReadStep ==
    ASSUME Alone, NEW r \in Request, OneAt(r), Reads, Knows(r)',
           \A u \in User : Refreshes(r, u) => Refreshes(r, u)',
           \A o \in Order : Adjusts(r, o) => Adjusts(r, o)'
    PROVE  Goes(r)
<1>1. Counts'
  BY CountsKept DEF Reads, Live
<1>2. Records' /\ RulesKept' /\ DeletesNoDeal
  BY DEF Alone, Reads, Records, RulesKept, DeletesNoDeal, Live
<1> QED BY <1>1, <1>2 DEF Goes

LEMMA Begun ==
    ASSUME TypeOK, NEW r \in Request, NEW op, NEW start, Begin(r, op, start)
    PROVE  req[r].pc = "idle" /\ req'[r] = start /\ \A q \in Request \ {r} : req'[q] = req[q]
BY DEF Begin, At, TypeOK

LEMMA IdleOwes ==
    \A r \in Request : req[r].pc = "idle" =>
        (\A u : ~Refreshes(r, u)) /\ (\A o : ~Adjusts(r, o))
BY DEF Refreshes, Adjusts

(***************************************************************************)
(* Handlers that start                                                     *)
(***************************************************************************)
LEMMA AloneCreateOrder ==
    ASSUME IInv, Alone, NEW r \in Request, NEW u \in User, NEW o \in Order, NEW draft \in BOOLEAN,
           NEW format \in FormatInputs, NEW city \in City \union {None},
           CreateOrder(r, u, o, draft, format, city), OneAt(r)
    PROVE  Goes(r)
<1> DEFINE b == [Blank EXCEPT !.user_id = u, !.draft = draft,
                              !.work_format = format, !.city = city]
           d == Normalized(b)
           start == [Idle EXCEPT !.pc = "insert", !.user = u, !.order = o, !.edit = d]
<1>1. b \in Doc /\ b.user_id = u /\ d.user_id = u
  <2>1. b \in Doc /\ b.user_id = u
    BY BlankType, OrderAssumption DEF Doc, Blank
  <2> QED BY <2>1, NormalizedType
<1>2. /\ stored[o] = "absent" /\ stored' = [stored EXCEPT ![o] = "new"]
      /\ Placeable(d) /\ (IsListed(d) => verified[u])
      /\ Begin(r, "createOrder", start)
      /\ UNCHANGED <<orders, response_count, responses, spent, verified, orders_count>>
  BY DEF CreateOrder
<1> HIDE DEF d
<1>3. start.pc = "insert" /\ start.user = u /\ start.order = o /\ start.edit = d
  BY DEF Idle
<1> HIDE DEF start
<1>4. req[r].pc = "idle" /\ req'[r] = start
  BY <1>2, Begun DEF IInv
<1>5. \A x \in Order : /\ Live(x)' <=> Live(x)
                       /\ stored'[x] \in {"absent", "new"} => stored[x] \in {"absent", "new"}
  BY <1>2 DEF IInv, TypeOK, Live
<1>6. Counts'
  BY <1>2, <1>4, <1>5, IdleOwes, CountsKept
<1>7. Knows(r)'
  BY <1>1, <1>2, <1>3, <1>4 DEF Knows, KnowsInsert, KnowsSave, KnowsDelete, KnowsResponse, KnowsCount, At
<1>8. Records' /\ RulesKept' /\ DeletesNoDeal
  BY <1>2, <1>5 DEF Alone, Records, RulesKept, DeletesNoDeal
<1> QED BY <1>6, <1>7, <1>8 DEF Goes

LEMMA AloneUpdateOrder ==
    ASSUME IInv, Alone, NEW r \in Request, NEW o \in Order, NEW draft \in BOOLEAN,
           NEW active \in ActiveInputs, NEW format \in FormatInputs, NEW city \in City \union {None},
           UpdateOrder(r, o, draft, active, format, city), OneAt(r)
    PROVE  Goes(r)
<1> DEFINE read == orders[o]
           b == [read EXCEPT !.draft = draft, !.is_active = active,
                             !.work_format = format, !.city = city]
           edit == Normalized(b)
           publishes == ~IsListed(read) /\ IsListed(edit)
           start == [Idle EXCEPT !.pc = IF publishes THEN "publishCheck" ELSE "save",
                                 !.user = read.user_id, !.order = o,
                                 !.snap = read, !.edit = edit]
<1>1. read \in Doc /\ b \in Doc /\ edit.status = read.status
  <2>1. read \in Doc
    BY DEF IInv, TypeOK
  <2>2. b \in Doc /\ b.status = read.status
    BY <2>1, OrderAssumption DEF Doc
  <2> QED BY <2>1, <2>2, NormalizedType
<1>2. Live(o) /\ Placeable(edit) /\ Begin(r, "updateOrder", start) /\ Reads
  BY DEF UpdateOrder, Reads
<1> HIDE DEF edit
<1>3. /\ start.pc = IF publishes THEN "publishCheck" ELSE "save"
      /\ start.user = read.user_id /\ start.order = o /\ start.snap = read /\ start.edit = edit
  BY DEF Idle
<1> HIDE DEF start
<1>4. req[r].pc = "idle" /\ req'[r] = start
  BY <1>2, Begun DEF IInv
<1>5. KnowsSave(r)'
  <2>1. IsListed(read) => verified[read.user_id]
    BY <1>2 DEF Alone, RulesKept
  <2>2. start.pc = "save" /\ IsListed(edit) => verified[read.user_id]
    BY <1>3, <2>1
  <2> QED BY <1>1, <1>2, <1>3, <1>4, <2>2 DEF KnowsSave, At, Aged, Reads
<1>6. Knows(r)'
  BY <1>3, <1>4, <1>5 DEF Knows, KnowsInsert, KnowsDelete, KnowsResponse, KnowsCount, At
<1> QED BY <1>2, <1>4, <1>6, IdleOwes, ReadStep

LEMMA AloneStart ==
    ASSUME IInv, Alone, NEW r \in Request, NEW o \in Order, NEW u, OneAt(r),
           \/ DeleteOrder(r, o)
           \/ \E customer, performer, actor \in User :
                AssignPerformer(r, o, customer, performer, actor)
           \/ u \in User /\ CreateOrderResponse(r, u, o)
           \/ \E p \in responses : DeleteOrderResponse(r, p)
    PROVE  Goes(r)
<1>1. CASE DeleteOrder(r, o)
  <2> DEFINE start == [Idle EXCEPT !.pc = "deleteBoth", !.order = o, !.user = orders[o].user_id]
  <2>1. start.pc = "deleteBoth" /\ start.order = o /\ start.user = orders[o].user_id
    BY DEF Idle
  <2> HIDE DEF start
  <2>2. orders[o].performer = None /\ Reads /\ req[r].pc = "idle" /\ req'[r] = start
    BY <1>1, Begun DEF IInv, DeleteOrder, Reads, start
  <2>3. Knows(r)'
    BY <2>1, <2>2 DEF Knows, KnowsInsert, KnowsSave, KnowsDelete, KnowsResponse, KnowsCount, At, Reads
  <2> QED BY <2>2, <2>3, IdleOwes, ReadStep
<1>2. ASSUME NEW customer \in User, NEW performer \in User, NEW actor \in User,
             AssignPerformer(r, o, customer, performer, actor)
      PROVE  Goes(r)
  <2> DEFINE start == [Idle EXCEPT !.pc = "actorCheck", !.user = actor, !.order = o,
                                   !.performer = performer]
  <2>1. start.pc = "actorCheck"
    BY DEF Idle
  <2> HIDE DEF start
  <2>2. Reads /\ req[r].pc = "idle" /\ req'[r] = start
    BY <1>2, Begun DEF IInv, AssignPerformer, Reads, start
  <2>3. Knows(r)'
    BY <2>1, <2>2 DEF Knows, KnowsInsert, KnowsSave, KnowsDelete, KnowsResponse, KnowsCount, At
  <2> QED BY <2>2, <2>3, IdleOwes, ReadStep
<1>3. CASE u \in User /\ CreateOrderResponse(r, u, o)
  <2> DEFINE start == [Idle EXCEPT !.pc = "exists", !.user = u, !.order = o]
  <2>1. start.pc = "exists"
    BY DEF Idle
  <2> HIDE DEF start
  <2>2. Reads /\ req[r].pc = "idle" /\ req'[r] = start
    BY <1>3, Begun DEF IInv, CreateOrderResponse, Reads, start
  <2>3. Knows(r)'
    BY <2>1, <2>2 DEF Knows, KnowsInsert, KnowsSave, KnowsDelete, KnowsResponse, KnowsCount, At
  <2> QED BY <2>2, <2>3, IdleOwes, ReadStep
<1>4. ASSUME NEW p \in responses, DeleteOrderResponse(r, p)
      PROVE  Goes(r)
  <2> DEFINE start == [Idle EXCEPT !.pc = "deleteResponse", !.order = p.order, !.response = p.id]
  <2>1. start.pc = "deleteResponse" /\ start.order = p.order /\ start.response = p.id
    BY DEF Idle
  <2> HIDE DEF start
  <2>2. Reads /\ req[r].pc = "idle" /\ req'[r] = start
    BY <1>4, Begun DEF IInv, DeleteOrderResponse, Reads, start
  <2>3. Knows(r)'
    BY <2>1, <2>2 DEF Knows, KnowsInsert, KnowsSave, KnowsDelete, KnowsResponse, KnowsCount, At, Reads
  <2> QED BY <2>2, <2>3, IdleOwes, ReadStep
<1> QED BY <1>1, <1>2, <1>3, <1>4

(***************************************************************************)
(* Handlers that go on                                                     *)
(***************************************************************************)
\* A handler that goes on keeps everything but its stage.
LEMMA Onward ==
    ASSUME TypeOK, NEW r \in Request, NEW s, Goto(r, s)
    PROVE  /\ req'[r].pc = s
           /\ req'[r].user = req[r].user /\ req'[r].order = req[r].order
           /\ req'[r].response = req[r].response /\ req'[r].count = req[r].count
           /\ req'[r].snap = req[r].snap /\ req'[r].edit = req[r].edit
<1>1. req' = [req EXCEPT ![r] = [req[r] EXCEPT !.pc = s]] /\ req[r] \in Req
  BY DEF Goto, TypeOK
<1>2. req'[r] = [req[r] EXCEPT !.pc = s]
  BY <1>1 DEF TypeOK
<1> QED BY <1>1, <1>2 DEF Req

\* What every step of a handler on an order starts from.
LEMMA StepFacts ==
    ASSUME IInv, NEW r \in Request
    PROVE  /\ TypeOK /\ Placed(r) /\ req[r] \in Req
           /\ req[r].pc \in OnOrder => req[r].order \in Order
           /\ req[r].pc \in OfUser  => req[r].user \in User
BY DEF IInv, InFlight, TypeOK, Placed

\* The steps that write nothing.
LEMMA AloneReads ==
    ASSUME IInv, Alone, NEW r \in Request, OneAt(r),
           \/ PublishCheck(r) \/ CountOrders(r) \/ ActorCheck(r) \/ OtherCheck(r)
           \/ Exists(r) \/ ResponseCheck(r)
    PROVE  Goes(r)
<1>0. /\ TypeOK /\ Reads /\ Knows(r)
      /\ {"idle", "save", "otherCheck", "assign", "responseCheck", "createResponse"} \subseteq Steps
  BY DEF IInv, Alone, Reads, PublishCheck, CountOrders, ActorCheck, OtherCheck, Exists, ResponseCheck, Steps
<1>1. CASE PublishCheck(r)
  <2>1. req[r].pc = "publishCheck" /\ (Finish(r) \/ (Goto(r, "save") /\ verified[req[r].user]))
    BY <1>1 DEF PublishCheck, At
  <2>2. Knows(r)'
    <3>1. CASE Finish(r)
      BY <1>0, <3>1, GoOn, IdleKnows DEF Knows, KnowsInsert, KnowsSave, KnowsDelete, KnowsResponse, KnowsCount, At
    <3>2. CASE Goto(r, "save") /\ verified[req[r].user]
      <4>1. KnowsSave(r)'
        BY <1>0, <2>1, <3>2, Onward DEF Knows, KnowsSave, At, Reads
      <4> QED BY <1>0, <3>2, <4>1, Onward DEF Knows, KnowsInsert, KnowsDelete, KnowsResponse, KnowsCount, At
    <3> QED BY <2>1, <3>1, <3>2
  <2> QED BY <1>0, <2>1, <2>2, ReadStep DEF Refreshes, Adjusts
<1>2. CASE CountOrders(r)
  <2> DEFINE n == Cardinality(OrdersOf(req[r].user))
             held == [Idle EXCEPT !.pc = "setCount", !.user = req[r].user, !.count = n]
  <2>1. held.pc = "setCount" /\ held.user = req[r].user /\ held.count = n
    BY DEF Idle
  <2>2. req[r].pc = "count" /\ req' = [req EXCEPT ![r] = held]
    BY <1>2 DEF CountOrders, At
  <2> HIDE DEF held, n
  <2>3. req'[r] = held
    BY <1>0, <2>2 DEF TypeOK
  <2>4. \A u : OrdersOf(u)' = OrdersOf(u)
    BY <1>0 DEF Reads, OrdersOf, Live, Counted
  <2>5. KnowsCount(r)'
    BY <2>1, <2>3, <2>4 DEF KnowsCount, At, n
  <2>6. Knows(r)'
    BY <2>1, <2>3, <2>5 DEF Knows, KnowsInsert, KnowsSave, KnowsDelete, KnowsResponse, At
  <2> QED BY <1>0, <2>1, <2>2, <2>3, <2>6, ReadStep DEF Refreshes, Adjusts
<1>3. CASE ActorCheck(r) \/ OtherCheck(r)
  <2>1. /\ req[r].pc \in {"actorCheck", "otherCheck"}
        /\ Finish(r) \/ Goto(r, "otherCheck") \/ Goto(r, "assign")
    BY <1>3 DEF ActorCheck, OtherCheck, At
  <2>2. req'[r].pc \in {"idle", "otherCheck", "assign"}
    BY <1>0, <2>1, GoOn
  <2>3. Knows(r)'
    BY <2>2 DEF Knows, KnowsInsert, KnowsSave, KnowsDelete, KnowsResponse, KnowsCount, At
  <2> QED BY <1>0, <2>1, <2>3, ReadStep DEF Refreshes, Adjusts
<1>4. CASE Exists(r) \/ ResponseCheck(r)
  <2>1. /\ req[r].pc \in {"exists", "responseCheck"}
        /\ \/ Finish(r)
           \/ /\ Goto(r, "responseCheck") \/ Goto(r, "createResponse")
              /\ \A p \in responses : p.order # req[r].order \/ p.user # req[r].user
    BY <1>0, <1>4 DEF Exists, ResponseCheck, At, Knows, KnowsResponse
  <2>2. Knows(r)'
    <3>1. CASE Finish(r)
      BY <1>0, <3>1, GoOn DEF Knows, KnowsInsert, KnowsSave, KnowsDelete, KnowsResponse, KnowsCount, At
    <3>2. CASE ~Finish(r)
      <4>1. req'[r].pc \in {"responseCheck", "createResponse"} /\ KnowsResponse(r)'
        BY <1>0, <2>1, <3>2, Onward DEF KnowsResponse, At, Reads
      <4> QED BY <4>1 DEF Knows, KnowsInsert, KnowsSave, KnowsDelete, KnowsCount, At
    <3> QED BY <3>1, <3>2
  <2> QED BY <1>0, <2>1, <2>2, ReadStep DEF Refreshes, Adjusts
<1> QED BY <1>1, <1>2, <1>3, <1>4

\* A write to one stored order that leaves the customer and the drafts alone.
LEMMA RulesWrite ==
    ASSUME IInv, Alone, NEW o \in Order, UNCHANGED <<verified, responses>>,
           \A x \in Order \ {o} : orders'[x] = orders[x] /\ (Live(x)' => Live(x)),
           Placeable(orders'[o]),
           Live(o)' /\ IsListed(orders'[o]) => verified[orders'[o].user_id]
    PROVE  RulesKept'
BY DEF Alone, RulesKept

LEMMA AloneInsert ==
    ASSUME IInv, Alone, NEW r \in Request, OneAt(r), InsertOrder(r)
    PROVE  Goes(r)
<1> PICK o, d, u : o = req[r].order /\ d = req[r].edit /\ u = req[r].user
  OBVIOUS
<1>1. /\ TypeOK /\ o \in Order /\ u \in User /\ req[r].pc = "insert" /\ Knows(r)
      /\ stored[o] = "new" /\ d.user_id = u /\ Placeable(d)
      /\ IsListed(d) => verified[u]
  BY StepFacts DEF IInv, InFlight, Unmade, InsertOrder, At, OnOrder, OfUser, Steps, Alone, Knows, KnowsInsert
<1>2. /\ stored' = [stored EXCEPT ![o] = "live"] /\ orders' = [orders EXCEPT ![o] = d]
      /\ Sync(r, u)
      /\ UNCHANGED <<response_count, responses, spent, verified, orders_count>>
  BY DEF InsertOrder, Write
<1>3. /\ stored'[o] = "live" /\ orders'[o] = d
      /\ \A x \in Order \ {o} : stored'[x] = stored[x] /\ orders'[x] = orders[x]
  BY <1>1, <1>2 DEF TypeOK
<1>4. req'[r].pc = "count" /\ req'[r].user = u
  BY <1>1, <1>2, GoOn
<1>5. Knows(r)'
  BY <1>4 DEF Knows, KnowsInsert, KnowsSave, KnowsDelete, KnowsResponse, KnowsCount, At
<1>6. \A v \in User : UserExact(v)'
  <2> SUFFICES ASSUME NEW v \in User, v # u
               PROVE  UserExact(v)'
    BY <1>4 DEF UserExact, Refreshes
  <2>1. OrdersOf(v)' = OrdersOf(v)
    BY <1>1, <1>3 DEF OrdersOf, Live
  <2>2. orders_count[v] = Cardinality(OrdersOf(v))
    BY <1>1, Balance DEF Refreshes
  <2> QED BY <1>2, <2>1, <2>2 DEF UserExact
<1>7. \A x \in Order : OrderExact(x)'
  <2>0. \A x \in Order : ResponsesTo(x)' = ResponsesTo(x)
    BY <1>2 DEF ResponsesTo
  <2>1. ASSUME NEW x \in Order, x # o
        PROVE  OrderExact(x)'
    BY <1>1, <1>2, <1>3, <2>0, <2>1, Balance DEF OrderExact, Live, Adjusts
  <2>2. OrderExact(o)'
    <3>1. ResponsesTo(o) = {} /\ response_count[o] = 0
      BY <1>1 DEF ResponsesTo, Alone, Records, IInv, RespondersQualify
    <3>2. Cardinality({}) = 0
      BY FS_EmptySet
    <3> QED BY <1>1, <1>2, <2>0, <3>1, <3>2 DEF OrderExact
  <2> QED BY <2>1, <2>2
<1>8. RulesKept'
  BY <1>1, <1>2, <1>3, RulesWrite DEF Live
<1>9. Records' /\ DeletesNoDeal
  BY <1>1, <1>2, <1>3 DEF Alone, Records, DeletesNoDeal, Live
<1> QED BY <1>5, <1>6, <1>7, <1>8, <1>9 DEF Goes, Counts

\* The saved document is the edit, except where it was archived meanwhile.
LEMMA SavedDoc ==
    ASSUME NEW now \in Doc, NEW read \in Doc, NEW edit \in Doc, Aged(now, read),
           edit.status = read.status, Placeable(edit)
    PROVE  /\ Placeable(SaveChanges(now, read, edit))
           /\ IsListed(SaveChanges(now, read, edit)) => IsListed(edit)
<1> DEFINE d == SaveChanges(now, read, edit)
<1>1. d.draft = edit.draft /\ d.work_format = edit.work_format /\ d.city = edit.city
  BY DEF SaveChanges, Doc, Aged
<1>2. d.status = now.status
  BY SaveChangesType
<1>3. d.is_active \in {edit.is_active, FALSE}
  BY DEF SaveChanges, Doc, Aged
<1>4. now.status = "active" => edit.status = "active"
  BY DEF Aged
<1> HIDE DEF d
<1>5. Placeable(d) /\ (IsListed(d) => IsListed(edit))
  BY <1>1, <1>2, <1>3, <1>4 DEF Placeable, IsListed
<1> QED BY <1>5 DEF d

LEMMA AloneSave ==
    ASSUME IInv, Alone, NEW r \in Request, OneAt(r), SaveOrder(r)
    PROVE  Goes(r)
<1> PICK o, u, d : /\ o = req[r].order /\ u = req[r].user
                   /\ d = SaveChanges(orders[o], req[r].snap, req[r].edit)
  OBVIOUS
<1>1. /\ TypeOK /\ o \in Order /\ u \in User /\ req[r].pc = "save" /\ Knows(r) /\ req[r] \in Req
      /\ UNCHANGED <<stored, response_count, responses, spent, verified, orders_count>>
      /\ Refreshes(r, u) = FALSE
  BY StepFacts DEF SaveOrder, At, OnOrder, OfUser, Steps, Alone, Refreshes
<1>2. CASE Finish(r) /\ UNCHANGED orders
  <2>1. req'[r].pc = "idle"
    BY <1>1, <1>2, GoOn
  <2>2. Knows(r)'
    BY <2>1 DEF Knows, KnowsInsert, KnowsSave, KnowsDelete, KnowsResponse, KnowsCount, At
  <2> QED BY <1>1, <1>2, <2>2, ReadStep DEF Reads, Refreshes, Adjusts
<1>3. CASE orders' = [orders EXCEPT ![o] = d] /\ Sync(r, u)
  <2>1. /\ orders[o] \in Doc /\ orders[o].user_id = u
        /\ Aged(orders[o], req[r].snap) /\ Placeable(req[r].edit)
        /\ req[r].edit.status = req[r].snap.status /\ (IsListed(req[r].edit) => verified[u])
        /\ req[r].snap \in Doc /\ req[r].edit \in Doc
    BY <1>1 DEF TypeOK, Knows, KnowsSave, At, Req
  <2>2. d.user_id = u /\ Placeable(d) /\ (IsListed(d) => verified[u])
    BY <2>1, SavedDoc, SaveChangesType
  <2>3. orders'[o] = d /\ \A x \in Order \ {o} : orders'[x] = orders[x]
    BY <1>1, <1>3 DEF TypeOK
  <2>4. req'[r].pc = "count" /\ req'[r].user = u
    BY <1>1, <1>3, GoOn
  <2>5. Knows(r)'
    BY <2>4 DEF Knows, KnowsInsert, KnowsSave, KnowsDelete, KnowsResponse, KnowsCount, At
  <2>6. \A v \in User : UserExact(v)'
    <3> SUFFICES ASSUME NEW v \in User, v # u
                 PROVE  UserExact(v)'
      BY <2>4 DEF UserExact, Refreshes
    <3>1. OrdersOf(v)' = OrdersOf(v)
      BY <1>1, <2>1, <2>2, <2>3 DEF OrdersOf, Live
    <3>2. orders_count[v] = Cardinality(OrdersOf(v))
      BY <1>1, Balance DEF Refreshes
    <3> QED BY <1>1, <3>1, <3>2 DEF UserExact
  <2>7. \A x \in Order : OrderExact(x)'
    BY <1>1, Balance DEF OrderExact, Live, Adjusts, ResponsesTo
  <2>8. RulesKept'
    BY <1>1, <2>2, <2>3, RulesWrite DEF Live
  <2>9. Records' /\ DeletesNoDeal
    BY <1>1 DEF Alone, Records, DeletesNoDeal, Live
  <2> QED BY <2>5, <2>6, <2>7, <2>8, <2>9 DEF Goes, Counts
<1> QED BY <1>2, <1>3 DEF SaveOrder, Write

LEMMA AloneSetCount ==
    ASSUME IInv, Alone, NEW r \in Request, OneAt(r), SetOrdersCount(r)
    PROVE  Goes(r)
<1> PICK u : u = req[r].user
  OBVIOUS
<1>1. /\ TypeOK /\ u \in User /\ req[r].pc = "setCount"
      /\ req[r].count = Cardinality(OrdersOf(u))
      /\ UNCHANGED <<stored, orders, response_count, responses, spent, verified>>
      /\ orders_count' = [orders_count EXCEPT ![u] = req[r].count] /\ Finish(r)
  BY StepFacts DEF SetOrdersCount, At, OfUser, Steps, Alone, Knows, KnowsCount
<1>2. req'[r].pc = "idle"
  BY <1>1, GoOn
<1>3. Knows(r)'
  BY <1>2 DEF Knows, KnowsInsert, KnowsSave, KnowsDelete, KnowsResponse, KnowsCount, At
<1>4. \A v \in User : UserExact(v)'
  <2> TAKE v \in User
  <2>1. OrdersOf(v)' = OrdersOf(v)
    BY <1>1 DEF OrdersOf, Live
  <2>2. orders_count'[v] = Cardinality(OrdersOf(v))
    BY <1>1, Balance DEF TypeOK, Refreshes
  <2> QED BY <2>1, <2>2 DEF UserExact
<1>5. \A x \in Order : OrderExact(x)'
  BY <1>1, Balance DEF OrderExact, Live, Adjusts, ResponsesTo
<1>6. Records' /\ RulesKept' /\ DeletesNoDeal
  BY <1>1 DEF Alone, Records, RulesKept, DeletesNoDeal, Live
<1> QED BY <1>3, <1>4, <1>5, <1>6 DEF Goes, Counts

LEMMA AloneAssign ==
    ASSUME IInv, Alone, NEW r \in Request, OneAt(r), AssignWrite(r)
    PROVE  Goes(r)
<1> PICK o : o = req[r].order
  OBVIOUS
<1>1. /\ TypeOK /\ o \in Order /\ req[r].pc = "assign" /\ orders[o] \in Doc
      /\ UNCHANGED <<stored, response_count, responses, spent, verified, orders_count>>
      /\ Finish(r)
  BY StepFacts DEF AssignWrite, At, OnOrder, Steps, TypeOK
<1>2. req'[r].pc = "idle"
  BY <1>1, GoOn
<1>3. Knows(r)'
  BY <1>2 DEF Knows, KnowsInsert, KnowsSave, KnowsDelete, KnowsResponse, KnowsCount, At
<1>4. /\ \A x \in Order \ {o} : orders'[x] = orders[x]
      /\ orders'[o].user_id = orders[o].user_id /\ orders'[o].draft = orders[o].draft
      /\ Placeable(orders'[o]) /\ (IsListed(orders'[o]) => orders'[o] = orders[o])
  <2>1. Placeable(orders[o])
    BY <1>1 DEF Alone, RulesKept
  <2> DEFINE d == [orders[o] EXCEPT !.performer = req[r].performer, !.status = "pending"]
  <2>2. orders' = [orders EXCEPT ![o] = d] \/ UNCHANGED orders
    BY DEF AssignWrite, Write
  <2>3. /\ d.user_id = orders[o].user_id /\ d.draft = orders[o].draft
        /\ Placeable(d) /\ ~IsListed(d)
    BY <1>1, <2>1 DEF Doc, Placeable, IsListed
  <2> HIDE DEF d
  <2> QED BY <1>1, <2>1, <2>2, <2>3 DEF TypeOK
<1>5. Counts'
  BY <1>1, <1>4, CountsKept DEF Live, Refreshes, Adjusts
<1>6. RulesKept'
  BY <1>1, <1>4, RulesWrite DEF Live, Alone, RulesKept
<1>7. Records' /\ DeletesNoDeal
  BY <1>1 DEF Alone, Records, DeletesNoDeal, Live
<1> QED BY <1>3, <1>5, <1>6, <1>7 DEF Goes

LEMMA AloneDeleteDoc ==
    ASSUME IInv, Alone, NEW r \in Request, OneAt(r), DeleteDoc(r)
    PROVE  Goes(r)
<1> PICK o, u : o = req[r].order /\ u = req[r].user
  OBVIOUS
<1>1. /\ TypeOK /\ o \in Order /\ u \in User /\ req[r].pc \in {"deleteBoth", "deleteDoc"}
      /\ orders[o].user_id = u /\ orders[o].performer = None
      /\ UNCHANGED <<orders, response_count, responses, spent, verified, orders_count>>
      /\ stored' = [stored EXCEPT ![o] = "gone"]
      /\ (At(r, "deleteBoth") /\ Goto(r, "deleteResponses")) \/ Sync(r, u)
  BY StepFacts DEF DeleteDoc, At, OnOrder, OfUser, Steps, Alone, Knows, KnowsDelete
<1>2. stored'[o] = "gone" /\ \A x \in Order \ {o} : stored'[x] = stored[x]
  BY <1>1 DEF TypeOK
<1>3. /\ req'[r].pc \in {"count", "deleteResponses"} /\ req'[r].user = u
      /\ req'[r].pc = "deleteResponses" => req'[r].order = o
  BY <1>1, GoOn, Onward
<1>4. Knows(r)'
  BY <1>2, <1>3 DEF Knows, KnowsInsert, KnowsSave, KnowsDelete, KnowsResponse, KnowsCount, At, Live
<1>5. \A v \in User : UserExact(v)'
  <2> SUFFICES ASSUME NEW v \in User, v # u
               PROVE  UserExact(v)'
    BY <1>3 DEF UserExact, Refreshes
  <2>1. OrdersOf(v)' = OrdersOf(v)
    BY <1>1, <1>2 DEF OrdersOf, Live
  <2>2. orders_count[v] = Cardinality(OrdersOf(v))
    BY <1>1, Balance DEF Refreshes
  <2> QED BY <1>1, <2>1, <2>2 DEF UserExact
<1>6. \A x \in Order : OrderExact(x)'
  BY <1>1, <1>2, Balance DEF OrderExact, Live, Adjusts, ResponsesTo
<1>7. RulesKept' /\ Records' /\ DeletesNoDeal
  BY <1>1, <1>2 DEF Alone, Records, RulesKept, DeletesNoDeal, Live
<1> QED BY <1>4, <1>5, <1>6, <1>7 DEF Goes, Counts

LEMMA AloneDeleteResponses ==
    ASSUME IInv, Alone, NEW r \in Request, OneAt(r), DeleteResponses(r)
    PROVE  Goes(r)
<1> PICK o, u : o = req[r].order /\ u = req[r].user
  OBVIOUS
<1>1. /\ TypeOK /\ o \in Order /\ u \in User /\ req[r].pc \in {"deleteBoth", "deleteResponses"}
      /\ req[r].pc = "deleteBoth" => orders[o].user_id = u /\ orders[o].performer = None
      /\ req[r].pc = "deleteResponses" => ~Live(o)
      /\ UNCHANGED <<stored, orders, response_count, spent, verified, orders_count>>
      /\ responses' = {p \in responses : p.order # o}
      /\ IF req[r].pc = "deleteBoth" THEN Goto(r, "deleteDoc") ELSE Sync(r, u)
  BY StepFacts DEF DeleteResponses, At, OnOrder, OfUser, Steps, Alone, Knows, KnowsDelete
<1>2. IF req[r].pc = "deleteBoth" THEN req'[r].pc = "deleteDoc" /\ req'[r].order = o /\ req'[r].user = u
                                  ELSE req'[r].pc = "count" /\ req'[r].user = u
  BY <1>1, GoOn, Onward
<1>3. Knows(r)'
  BY <1>1, <1>2 DEF Knows, KnowsInsert, KnowsSave, KnowsDelete, KnowsResponse, KnowsCount, At
<1>4. \A v \in User : UserExact(v)'
  <2> TAKE v \in User
  <2>1. OrdersOf(v)' = OrdersOf(v)
    BY <1>1 DEF OrdersOf, Live
  <2>2. orders_count[v] = Cardinality(OrdersOf(v)) \/ (v = u /\ req'[r].pc = "count")
    BY <1>1, <1>2, Balance DEF Refreshes
  <2> QED BY <1>1, <1>2, <2>1, <2>2 DEF UserExact, Refreshes
<1>5. \A x \in Order : OrderExact(x)'
  <2> SUFFICES ASSUME NEW x \in Order, x # o
               PROVE  OrderExact(x)'
    BY <1>1, <1>2 DEF OrderExact, Adjusts, Live
  <2>1. ResponsesTo(x)' = ResponsesTo(x)
    BY <1>1 DEF ResponsesTo
  <2> QED BY <1>1, <2>1, Balance DEF OrderExact, Live, Adjusts
<1>6. responses' \subseteq responses /\ IsFiniteSet(responses')
  BY <1>1, FS_Subset DEF Alone, Records
<1>7. RulesKept' /\ Records' /\ DeletesNoDeal
  BY <1>1, <1>6 DEF Alone, Records, RulesKept, DeletesNoDeal, Live
<1> QED BY <1>3, <1>4, <1>5, <1>7 DEF Goes, Counts

LEMMA AloneCreateResponse ==
    ASSUME IInv, Alone, NEW r \in Request, OneAt(r), NEW p \in Response, CreateResponse(r, p)
    PROVE  Goes(r)
<1> PICK o, new : o = req[r].order /\ new = [id |-> p, order |-> o, user |-> req[r].user]
  OBVIOUS
<1>1. /\ TypeOK /\ o \in Order /\ req[r].pc = "createResponse" /\ p \notin spent
      /\ \A q \in responses : q.order # o \/ q.user # req[r].user
      /\ UNCHANGED <<stored, orders, response_count, verified, orders_count>>
      /\ spent' = spent \union {p} /\ responses' = responses \union {new}
      /\ Goto(r, "incCount") /\ "incCount" \in Steps /\ stored[o] \in {"live", "gone"}
  BY StepFacts DEF CreateResponse, At, OnOrder, OnStored, Steps, Alone, Knows, KnowsResponse, Placed
<1>2. new.id = p /\ new.order = o /\ new.user = req[r].user /\ new \notin responses
  BY <1>1 DEF Alone, Records
<1>3. req'[r].pc = "incCount" /\ req'[r].order = o
  BY <1>1, Onward
<1>4. /\ \A x \in Order \ {o} : ResponsesTo(x)' = ResponsesTo(x)
      /\ ResponsesTo(o)' = ResponsesTo(o) \union {new} /\ new \notin ResponsesTo(o)
      /\ IsFiniteSet(ResponsesTo(o)) /\ IsFiniteSet(responses')
  <2>1. IsFiniteSet(responses) /\ ResponsesTo(o) \subseteq responses
    BY DEF Alone, Records, ResponsesTo
  <2> QED BY <1>1, <1>2, <2>1, FS_Subset, FS_AddElement DEF ResponsesTo
<1>5. Cardinality(ResponsesTo(o)') = Cardinality(ResponsesTo(o)) + 1
  <2>1. Cardinality(ResponsesTo(o) \union {new}) = Cardinality(ResponsesTo(o)) + 1
    BY <1>4, FS_AddElement
  <2> QED BY <1>4, <2>1
<1>6. Live(o) => response_count[o] = Cardinality(ResponsesTo(o))
  BY <1>1, Balance DEF Adjusts
<1>7. KnowsCount(r)'
  BY <1>1, <1>3, <1>5, <1>6 DEF KnowsCount, At, Live
<1>8. Knows(r)'
  BY <1>3, <1>7 DEF Knows, KnowsInsert, KnowsSave, KnowsDelete, KnowsResponse, At
<1>9. \A v \in User : UserExact(v)'
  BY <1>1, Balance DEF UserExact, Refreshes, OrdersOf, Live
<1>10. \A x \in Order : OrderExact(x)'
  BY <1>1, <1>3, <1>4, Balance DEF OrderExact, Live, Adjusts
<1>11. Records'
  BY <1>1, <1>2, <1>4 DEF Alone, Records
<1>12. RulesKept' /\ DeletesNoDeal
  BY <1>1, <1>2 DEF Alone, RulesKept, DeletesNoDeal, Live
<1> QED BY <1>8, <1>9, <1>10, <1>11, <1>12 DEF Goes, Counts

\* A response is taken out, and its order is the one whose counter goes down.
LEMMA AloneDeleteResponse ==
    ASSUME IInv, Alone, NEW r \in Request, OneAt(r), DeleteResponse(r)
    PROVE  Goes(r)
<1> PICK o : o = req[r].order
  OBVIOUS
<1>1. /\ TypeOK /\ o \in Order /\ req[r].pc = "deleteResponse" /\ Knows(r)
      /\ UNCHANGED <<stored, orders, response_count, spent, verified, orders_count>>
      /\ responses' = {p \in responses : p.id # req[r].response}
      /\ Goto(r, "decCount")
  BY StepFacts DEF DeleteResponse, At, OnOrder, Steps, Alone
<1>2. PICK p \in responses : p.id = req[r].response /\ p.order = o
  BY <1>1 DEF Knows, KnowsResponse, At
<1>3. responses' = responses \ {p}
  BY <1>1, <1>2 DEF Alone, Records
<1>4. req'[r].pc = "decCount" /\ req'[r].order = o
  BY <1>1, Onward
<1>5. /\ \A x \in Order \ {o} : ResponsesTo(x)' = ResponsesTo(x)
      /\ ResponsesTo(o)' = ResponsesTo(o) \ {p} /\ p \in ResponsesTo(o)
      /\ IsFiniteSet(ResponsesTo(o)) /\ IsFiniteSet(responses')
  <2>1. IsFiniteSet(responses) /\ ResponsesTo(o) \subseteq responses
    BY DEF Alone, Records, ResponsesTo
  <2> QED BY <1>2, <1>3, <2>1, FS_Subset DEF ResponsesTo
<1>6. /\ Cardinality(ResponsesTo(o)') = Cardinality(ResponsesTo(o)) - 1
      /\ Cardinality(ResponsesTo(o)) \in Nat
  BY <1>5, FS_RemoveElement, FS_CardinalityType
<1>7. Live(o) => response_count[o] = Cardinality(ResponsesTo(o))
  BY <1>1, Balance DEF Adjusts
<1>8. KnowsCount(r)'
  BY <1>1, <1>4, <1>6, <1>7 DEF KnowsCount, At, Live
<1>9. Knows(r)'
  BY <1>4, <1>8 DEF Knows, KnowsInsert, KnowsSave, KnowsDelete, KnowsResponse, At
<1>10. \A v \in User : UserExact(v)'
  BY <1>1, Balance DEF UserExact, Refreshes, OrdersOf, Live
<1>11. \A x \in Order : OrderExact(x)'
  BY <1>1, <1>4, <1>5, Balance DEF OrderExact, Live, Adjusts
<1>12. RulesKept' /\ Records' /\ DeletesNoDeal
  BY <1>1, <1>3, <1>5 DEF Alone, Records, RulesKept, DeletesNoDeal, Live
<1> QED BY <1>9, <1>10, <1>11, <1>12 DEF Goes, Counts

\* The counter follows the response it was behind or ahead by.
LEMMA AloneAdjust ==
    ASSUME IInv, Alone, NEW r \in Request, OneAt(r), IncResponseCount(r) \/ DecResponseCount(r)
    PROVE  Goes(r)
<1> PICK o : o = req[r].order
  OBVIOUS
<1>1. /\ TypeOK /\ o \in Order /\ req[r].pc \in {"incCount", "decCount"} /\ Knows(r)
      /\ UNCHANGED <<stored, orders, responses, spent, verified, orders_count>> /\ Finish(r)
      /\ response_count[o] \in Nat
  BY StepFacts DEF IncResponseCount, DecResponseCount, At, OnOrder, Steps, Alone, TypeOK
<1>2. req'[r].pc = "idle"
  BY <1>1, GoOn
<1>3. Knows(r)'
  BY <1>2 DEF Knows, KnowsInsert, KnowsSave, KnowsDelete, KnowsResponse, KnowsCount, At
<1>4. Cardinality(ResponsesTo(o)) \in Nat
  <2>1. IsFiniteSet(responses) /\ ResponsesTo(o) \subseteq responses
    BY DEF Alone, Records, ResponsesTo
  <2> QED BY <2>1, FS_Subset, FS_CardinalityType
<1>5. /\ ~Live(o) => response_count' = response_count
      /\ Live(o) => response_count' = [response_count EXCEPT ![o] = Cardinality(ResponsesTo(o))]
  BY <1>1, <1>4 DEF IncResponseCount, DecResponseCount, Knows, KnowsCount, At
<1>6. \A x \in Order : OrderExact(x)'
  <2> TAKE x \in Order
  <2>1. ResponsesTo(x)' = ResponsesTo(x) /\ Live(x)' = Live(x)
    BY <1>1 DEF ResponsesTo, Live
  <2>2. Live(x) => response_count'[x] = Cardinality(ResponsesTo(x))
    BY <1>1, <1>5, Balance DEF TypeOK, Adjusts
  <2> QED BY <2>1, <2>2 DEF OrderExact
<1>7. \A v \in User : UserExact(v)'
  BY <1>1, Balance DEF UserExact, Refreshes, OrdersOf, Live
<1>8. RulesKept' /\ DeletesNoDeal
  BY <1>1 DEF Alone, RulesKept, DeletesNoDeal, Live
<1>9. Records'
  <2>1. \A x \in Order : stored[x] \in {"absent", "new"} => response_count'[x] = response_count[x]
    BY <1>1, <1>5 DEF TypeOK, Live
  <2> QED BY <1>1, <2>1 DEF Alone, Records
<1> QED BY <1>3, <1>6, <1>7, <1>8, <1>9 DEF Goes, Counts

(***************************************************************************)
(* Steps beside the handlers                                               *)
(***************************************************************************)
\* One of the transitions in one query: the order ages.
LEMMA AloneOneWrite ==
    ASSUME IInv, Alone, NEW o \in Order, OneWrite(o)
    PROVE  Alone' /\ DeletesNoDeal
<1>1. /\ TypeOK /\ Wrote(o) /\ orders[o] \in Doc
      /\ UNCHANGED <<stored, response_count, responses, spent, verified, orders_count, req>>
  BY OneWriteEffect DEF IInv, TypeOK, OneWrite, ArchiveOrder, CancelOrder, SubmitWork,
                        ReviewWork, CancelDeal, Transition
<1>2. /\ \A x \in Order \ {o} : orders'[x] = orders[x]
      /\ Aged(orders'[o], orders[o])
      /\ orders'[o].user_id = orders[o].user_id /\ orders'[o].performer = orders[o].performer
      /\ IsListed(orders'[o]) => IsListed(orders[o])
  BY <1>1 DEF Wrote, Aged, Doc, IsListed
<1>3. \A x \in Order : /\ orders'[x].user_id = orders[x].user_id
                       /\ orders'[x].performer = orders[x].performer
                       /\ Aged(orders'[x], orders[x])
                       /\ IsListed(orders'[x]) => IsListed(orders[x])
  BY <1>1, <1>2 DEF Aged
<1>4. \A u : OrdersOf(u)' = OrdersOf(u)
  BY <1>1, <1>3 DEF OrdersOf, Live, Counted, Aged
<1>5. /\ \A u \in User : UserExact(u)'
      /\ \A x \in Order : OrderExact(x)'
  BY <1>1, <1>4 DEF Alone, UserExact, OrderExact, Refreshes, Adjusts, Live, ResponsesTo
<1>6. RulesKept' /\ Records' /\ DeletesNoDeal /\ Busy' = Busy
  BY <1>1, <1>3 DEF Alone, RulesKept, Records, DeletesNoDeal, Live, Placeable, Aged, Busy, At
<1>7. ASSUME NEW r \in Request
      PROVE  Knows(r)'
  <2>1. Knows(r) /\ (req[r].pc \in OnOrder => req[r].order \in Order)
    BY StepFacts DEF Alone
  <2>2. KnowsInsert(r)' /\ KnowsResponse(r)' /\ KnowsCount(r)'
    BY <1>1, <1>4, <2>1 DEF Knows, KnowsInsert, KnowsResponse, KnowsCount, At, Live, ResponsesTo
  <2>3. KnowsSave(r)'
    <3> SUFFICES ASSUME req[r].pc \in {"publishCheck", "save"}
                 PROVE  KnowsSave(r)'
      BY <1>1 DEF KnowsSave
    <3>1. req[r].order \in Order
      BY <2>1 DEF OnOrder, Steps
    <3> QED BY <1>1, <1>3, <2>1, <3>1 DEF Knows, KnowsSave, Aged, At
  <2>4. KnowsDelete(r)'
    BY <1>1, <1>3, <2>1 DEF Knows, KnowsDelete, At, Live, OnOrder, Steps
  <2> QED BY <2>2, <2>3, <2>4 DEF Knows
<1> QED BY <1>5, <1>6, <1>7 DEF Alone

LEMMA AloneVerify ==
    ASSUME IInv, Alone, NEW u \in User, VerifyEmail(u)
    PROVE  Alone' /\ DeletesNoDeal
<1>1. /\ UNCHANGED <<stored, orders, response_count, responses, spent, orders_count, req>>
      /\ \A v : verified[v] => verified'[v]
  BY DEF VerifyEmail, IInv, TypeOK
<1>2. \A x : OrdersOf(x)' = OrdersOf(x) /\ ResponsesTo(x)' = ResponsesTo(x)
  BY <1>1 DEF OrdersOf, ResponsesTo, Live
<1>3. \A r \in Request : Knows(r)'
  BY <1>1, <1>2 DEF Alone, Knows, KnowsInsert, KnowsSave, KnowsDelete, KnowsResponse, KnowsCount, At, Live
<1>4. RulesKept' /\ Records' /\ DeletesNoDeal /\ Busy' = Busy
  BY <1>1 DEF Alone, RulesKept, Records, DeletesNoDeal, Live, Busy, At
<1>5. /\ \A v \in User : UserExact(v)'
      /\ \A x \in Order : OrderExact(x)'
  BY <1>1, <1>2 DEF Alone, UserExact, OrderExact, Refreshes, Adjusts, Live
<1> QED BY <1>3, <1>4, <1>5 DEF Alone

LEMMA AloneStutter ==
    ASSUME Alone, UNCHANGED vars
    PROVE  Alone' /\ DeletesNoDeal
<1> USE DEF vars
<1>1. \A x : OrdersOf(x)' = OrdersOf(x) /\ ResponsesTo(x)' = ResponsesTo(x)
  BY DEF OrdersOf, ResponsesTo, Live
<1>2. \A r \in Request : Knows(r)'
  BY <1>1 DEF Alone, Knows, KnowsInsert, KnowsSave, KnowsDelete, KnowsResponse, KnowsCount, At, Live
<1>3. RulesKept' /\ Records' /\ DeletesNoDeal /\ Busy' = Busy
  BY DEF Alone, RulesKept, Records, DeletesNoDeal, Live, Busy, At
<1>4. /\ \A v \in User : UserExact(v)'
      /\ \A x \in Order : OrderExact(x)'
  BY <1>1 DEF Alone, UserExact, OrderExact, Refreshes, Adjusts, Live
<1> QED BY <1>2, <1>3, <1>4 DEF Alone

(***************************************************************************)
(* What holds when requests do not overlap                                 *)
(***************************************************************************)
\* What a handler does at its turn.
Turn(r) ==
    \/ \E o \in Order : Owner(r, o)
    \/ \E u \in User, o \in Order : CreateOrderResponse(r, u, o)
    \/ \E p \in responses : DeleteOrderResponse(r, p)
    \/ Step(r)

LEMMA AloneTurn ==
    ASSUME IInv, Alone, NEW r \in Request, Turn(r), OneAt(r)
    PROVE  Goes(r)
<1>1. ASSUME NEW o \in Order, Owner(r, o)
      PROVE  Goes(r)
  BY <1>1, AloneCreateOrder, AloneUpdateOrder, AloneStart DEF Owner
<1>2. ASSUME NEW u \in User, NEW o \in Order, CreateOrderResponse(r, u, o)
      PROVE  Goes(r)
  BY <1>2, AloneStart
<1>3. ASSUME NEW p \in responses, DeleteOrderResponse(r, p)
      PROVE  Goes(r)
  <2>1. p.order \in Order
    BY DEF IInv, TypeOK, ResponseDoc
  <2> QED BY <1>3, <2>1, AloneStart
<1>4. CASE Step(r)
  BY <1>4, AloneReads, AloneInsert, AloneSave, AloneSetCount, AloneAssign, AloneDeleteDoc,
     AloneDeleteResponses, AloneCreateResponse, AloneDeleteResponse, AloneAdjust DEF Step
<1> QED BY <1>1, <1>2, <1>3, <1>4 DEF Turn

\* A handler moves itself only, and is busy before or after.
LEMMA TurnMoves ==
    ASSUME IInv, NEW r \in Request, Turn(r)
    PROVE  /\ \A q \in Request \ {r} : req'[q] = req[q]
           /\ req[r].pc # "idle" \/ req'[r].pc # "idle"
<1>1. TypeOK /\ req \in [Request -> Req]
  BY DEF IInv, TypeOK
<1>2. ASSUME NEW start, NEW op, Begin(r, op, start), start.pc # "idle"
      PROVE  /\ \A q \in Request \ {r} : req'[q] = req[q]
             /\ req[r].pc # "idle" \/ req'[r].pc # "idle"
  BY <1>1, <1>2, Begun
<1>3. CASE ~Step(r)
  <2>1. ASSUME NEW u, NEW o, NEW draft, NEW format, NEW city, CreateOrder(r, u, o, draft, format, city)
        PROVE  /\ \A q \in Request \ {r} : req'[q] = req[q]
               /\ req[r].pc # "idle" \/ req'[r].pc # "idle"
    <3> DEFINE d == Normalized([Blank EXCEPT !.user_id = u, !.draft = draft,
                                             !.work_format = format, !.city = city])
               start == [Idle EXCEPT !.pc = "insert", !.user = u, !.order = o, !.edit = d]
    <3>1. Begin(r, "createOrder", start)
      BY <2>1 DEF CreateOrder
    <3> HIDE DEF d
    <3>2. start.pc # "idle"
      BY DEF Idle
    <3> HIDE DEF start
    <3> QED BY <1>2, <3>1, <3>2
  <2>2. ASSUME NEW o, NEW draft, NEW active, NEW format, NEW city,
               UpdateOrder(r, o, draft, active, format, city)
        PROVE  /\ \A q \in Request \ {r} : req'[q] = req[q]
               /\ req[r].pc # "idle" \/ req'[r].pc # "idle"
    <3> DEFINE edit == Normalized([orders[o] EXCEPT !.draft = draft, !.is_active = active,
                                                    !.work_format = format, !.city = city])
               publishes == ~IsListed(orders[o]) /\ IsListed(edit)
               start == [Idle EXCEPT !.pc = IF publishes THEN "publishCheck" ELSE "save",
                                     !.user = orders[o].user_id, !.order = o,
                                     !.snap = orders[o], !.edit = edit]
    <3>1. Begin(r, "updateOrder", start)
      BY <2>2 DEF UpdateOrder
    <3> HIDE DEF edit, publishes
    <3>2. start.pc # "idle"
      BY DEF Idle
    <3> HIDE DEF start
    <3> QED BY <1>2, <3>1, <3>2
  <2>3. ASSUME NEW o, DeleteOrder(r, o)
        PROVE  /\ \A q \in Request \ {r} : req'[q] = req[q]
               /\ req[r].pc # "idle" \/ req'[r].pc # "idle"
    <3> DEFINE start == [Idle EXCEPT !.pc = "deleteBoth", !.order = o, !.user = orders[o].user_id]
    <3>1. Begin(r, "deleteOrder", start)
      BY <2>3 DEF DeleteOrder
    <3>2. start.pc # "idle"
      BY DEF Idle
    <3> HIDE DEF start
    <3> QED BY <1>2, <3>1, <3>2
  <2>4. ASSUME NEW o, NEW c, NEW p, NEW a, AssignPerformer(r, o, c, p, a)
        PROVE  /\ \A q \in Request \ {r} : req'[q] = req[q]
               /\ req[r].pc # "idle" \/ req'[r].pc # "idle"
    <3> DEFINE start == [Idle EXCEPT !.pc = "actorCheck", !.user = a, !.order = o, !.performer = p]
    <3>1. Begin(r, "assignPerformer", start)
      BY <2>4 DEF AssignPerformer
    <3>2. start.pc # "idle"
      BY DEF Idle
    <3> HIDE DEF start
    <3> QED BY <1>2, <3>1, <3>2
  <2>5. ASSUME NEW u, NEW o, CreateOrderResponse(r, u, o)
        PROVE  /\ \A q \in Request \ {r} : req'[q] = req[q]
               /\ req[r].pc # "idle" \/ req'[r].pc # "idle"
    <3> DEFINE start == [Idle EXCEPT !.pc = "exists", !.user = u, !.order = o]
    <3>1. Begin(r, "createOrderResponse", start)
      BY <2>5 DEF CreateOrderResponse
    <3>2. start.pc # "idle"
      BY DEF Idle
    <3> HIDE DEF start
    <3> QED BY <1>2, <3>1, <3>2
  <2>6. ASSUME NEW p, DeleteOrderResponse(r, p)
        PROVE  /\ \A q \in Request \ {r} : req'[q] = req[q]
               /\ req[r].pc # "idle" \/ req'[r].pc # "idle"
    <3> DEFINE start == [Idle EXCEPT !.pc = "deleteResponse", !.order = p.order, !.response = p.id]
    <3>1. Begin(r, "deleteOrderResponse", start)
      BY <2>6 DEF DeleteOrderResponse
    <3>2. start.pc # "idle"
      BY DEF Idle
    <3> HIDE DEF start
    <3> QED BY <1>2, <3>1, <3>2
  <2> QED BY <1>3, <2>1, <2>2, <2>3, <2>4, <2>5, <2>6 DEF Turn, Owner
<1>4. CASE Step(r)
  <2>1. req[r].pc # "idle"
    BY <1>4 DEF Step, InsertOrder, PublishCheck, SaveOrder, CountOrders, SetOrdersCount, ActorCheck,
                OtherCheck, AssignWrite, DeleteDoc, DeleteResponses, Exists, ResponseCheck,
                IncResponseCount, CreateResponse, DeleteResponse, DecResponseCount, At
  <2>2. \E held : req' = [req EXCEPT ![r] = held]
    BY <1>4 DEF Step, InsertOrder, PublishCheck, SaveOrder, CountOrders, SetOrdersCount, ActorCheck,
                OtherCheck, AssignWrite, DeleteDoc, DeleteResponses, Exists, ResponseCheck,
                IncResponseCount, CreateResponse, DeleteResponse, DecResponseCount, Goto, Finish, Sync
  <2> QED BY <1>1, <2>1, <2>2
<1> QED BY <1>3, <1>4

LEMMA AloneServe ==
    ASSUME IInv, Alone, Serve, Cardinality(Busy') <= 1
    PROVE  Alone' /\ DeletesNoDeal
<1>1. ASSUME NEW r \in Request, Turn(r)
      PROVE  Alone' /\ DeletesNoDeal
  <2>1. /\ \A q \in Request \ {r} : req'[q] = req[q]
        /\ req[r].pc # "idle" \/ req'[r].pc # "idle"
    BY <1>1, TurnMoves
  <2>2. Busy' \subseteq Busy \union {r}
    BY <2>1 DEF Busy, At
  <2>3. IsFiniteSet(Busy') /\ Single(Busy')
    BY <2>2, FewerStill, AtMostOne DEF Alone
  <2>4. OneAt(r)
    BY <2>1, <2>3 DEF Alone, OneAt, Single, Busy, At
  <2>5. Goes(r)
    BY <1>1, <2>4, AloneTurn
  <2>6. \A q \in Request : Knows(q)'
    BY <2>4, <2>5, IdleKnows DEF OneAt, Goes, Knows, KnowsInsert, KnowsSave, KnowsDelete, KnowsResponse,
                                 KnowsCount, At
  <2> QED BY <2>3, <2>5, <2>6 DEF Alone, Goes, Counts
<1> QED BY <1>1, AloneOneWrite, AloneVerify DEF Serve, Turn

(* The service with one handler at a time and no other bound; the solo       *)
(* behaviours of the run are some of its.                                    *)
OneByOne == Init /\ [][Serve /\ Cardinality(Busy') <= 1]_vars

\* The invariant of both kinds of behaviour.
Watched == IInv /\ (solo => Alone)

LEMMA AloneInit ==
    ASSUME Init
    PROVE  Alone
<1>1. IInv
  BY InvInit
<1>2. Idle.pc = "idle" /\ \A r \in Request : req[r].pc = "idle"
  BY DEF Init, Idle
<1>3. IsFiniteSet({}) /\ Cardinality({}) = 0 /\ Busy = {}
  BY <1>2, FS_EmptySet DEF Busy, At
<1>4. \A x : OrdersOf(x) = {} /\ ResponsesTo(x) = {}
  BY DEF Init, OrdersOf, ResponsesTo, Live
<1>5. Records /\ RulesKept
  BY <1>1, <1>3 DEF Init, Records, RulesKept, Live, Placeable, Blank
<1>6. \A r \in Request : Knows(r)
  BY <1>2, IdleKnows
<1>7. (\A u \in User : UserExact(u)) /\ \A o \in Order : OrderExact(o)
  BY <1>1, <1>3, <1>4 DEF Init, UserExact, OrderExact
<1> QED BY <1>1, <1>3, <1>5, <1>6, <1>7 DEF Alone, Single

LEMMA OneByOneStep ==
    ASSUME IInv, Alone, [Serve /\ Cardinality(Busy') <= 1]_vars
    PROVE  IInv' /\ Alone' /\ [DeletesNoDeal]_vars
<1>1. [Next]_vars
  BY DEF Next
<1> QED BY <1>1, InvNext, AloneServe, AloneStutter

LEMMA WatchedInit ==
    ASSUME MCInit
    PROVE  Watched
BY InvInit, AloneInit DEF MCInit, Watched

LEMMA WatchedStep ==
    ASSUME Watched, [MCNext]_<<vars, solo>>
    PROVE  Watched' /\ (solo => DeletesNoDeal)
<1>1. [Next]_vars /\ solo' = solo
  BY DEF MCNext, Next
<1>2. IInv'
  BY <1>1, InvNext DEF Watched
<1>3. solo => (Serve /\ Cardinality(Busy') <= 1) \/ UNCHANGED vars
  BY DEF MCNext, Serial
<1> QED BY <1>1, <1>2, <1>3, AloneServe, AloneStutter DEF Watched

(* As long as requests do not overlap, orders_count and responses_count are  *)
(* exact whenever none is being served: every handler that changes what is   *)
(* counted puts the counter right before it ends (syncOrdersCount, $inc).    *)
THEOREM Counters == (OneByOne => []CountersExact) /\ (MCSpec => []SoloCounters)
<1>1. Alone => CountersExact
  BY DEF Alone, CountersExact, Quiet, UserExact, OrderExact, Refreshes, Adjusts, At
<1>2. OneByOne => []CountersExact
  BY InvInit, AloneInit, OneByOneStep, <1>1, PTL DEF OneByOne
<1>3. Watched => SoloCounters
  BY <1>1 DEF Watched, SoloCounters
<1>4. MCSpec => []SoloCounters
  BY WatchedInit, WatchedStep, <1>3, PTL DEF MCSpec
<1> QED BY <1>2, <1>4

(* What a handler checked in one query still holds when it writes in another:*)
(* a published order on site has its city, a listed one a confirmed owner,   *)
(* and nobody responds to an order twice.                                    *)
THEOREM Rules == (OneByOne => []RulesKept) /\ (MCSpec => []SoloRules)
<1>1. Alone => RulesKept
  BY DEF Alone
<1>2. OneByOne => []RulesKept
  BY InvInit, AloneInit, OneByOneStep, <1>1, PTL DEF OneByOne
<1>3. Watched => SoloRules
  BY <1>1 DEF Watched, SoloRules
<1>4. MCSpec => []SoloRules
  BY WatchedInit, WatchedStep, <1>3, PTL DEF MCSpec
<1> QED BY <1>2, <1>4

(* deleteOrder looks at the performer before it deletes: nothing that runs   *)
(* beside a single handler gives the order one meanwhile.                    *)
THEOREM DeletesSolo == (OneByOne => DealNeverDeleted) /\ (MCSpec => SoloDelete)
<1>1. OneByOne => DealNeverDeleted
  BY InvInit, AloneInit, OneByOneStep, PTL DEF OneByOne, DealNeverDeleted
<1>2. Watched /\ [MCNext]_<<vars, solo>> => [solo => DeletesNoDeal]_vars
  BY WatchedStep
<1>3. MCSpec => SoloDelete
  BY WatchedInit, WatchedStep, <1>2, PTL DEF MCSpec, SoloDelete
<1> QED BY <1>1, <1>3
=============================================================================
