-------------------------------- MODULE Order --------------------------------
(* OrderService over its two collections. The database applies one query at  *)
(* a time; a handler is a sequence of awaited queries, and any other handler *)
(* may run between two of them. A request keeps what the handler holds in    *)
(* its local variables: the document as it was read (snap), the document as  *)
(* the handler changed it (edit), and where the handler waits (pc).          *)
(* A refused request writes nothing, so a refusal at the first query is a    *)
(* request that does not start; a later one returns to idle.                 *)
EXTENDS OrderDoc, FiniteSets

CONSTANTS Order, Response,   \* the document ids that can be issued
          Request,           \* the handlers that can be in flight at once
          FormatInputs,      \* the work_format values the clients send
          ActiveInputs,      \* the is_active values the clients send
          Ops                \* the operations this instance calls

ASSUME OrderAssumption ==
    /\ IsFiniteSet(Order)
    /\ None \notin Order \union Response
    /\ FormatInputs \subseteq Formats
    /\ ActiveInputs \subseteq ActiveValues

VARIABLES stored,          \* is the order document not yet made, stored, deleted
          orders,          \* its fields; a deleted document keeps its last ones
          response_count,  \* a field of its own: it is written by $inc only
          responses,       \* the stored responses
          spent,           \* the response ids already issued
          verified,        \* user.is_verified
          orders_count,    \* user.orders_count
          req              \* the handlers in flight

vars == <<stored, orders, response_count, responses, spent, verified,
          orders_count, req>>

ResponseDoc == [id : Response, order : Order, user : User]

Steps == {"idle", "insert", "publishCheck", "save", "count", "setCount",
          "actorCheck", "otherCheck", "assign",
          "deleteBoth", "deleteDoc", "deleteResponses",
          "exists", "responseCheck", "createResponse", "incCount",
          "deleteResponse", "decCount"}

Req == [pc        : Steps,
        user      : User \union {None},
        order     : Order \union {None},
        performer : User \union {None},
        response  : Response \union {None},
        snap      : Doc,
        edit      : Doc,
        count     : Nat]

Idle == [pc |-> "idle", user |-> None, order |-> None,
         performer |-> None, response |-> None,
         snap |-> Blank, edit |-> Blank, count |-> 0]

TypeOK ==
    /\ stored         \in [Order -> {"absent", "new", "live", "gone"}]
    /\ orders         \in [Order -> Doc]
    /\ response_count \in [Order -> Nat]
    /\ responses      \in SUBSET ResponseDoc
    /\ spent          \in SUBSET Response
    /\ verified       \in [User -> BOOLEAN]
    /\ orders_count   \in [User -> Nat]
    /\ req            \in [Request -> Req]

Init ==
    /\ stored         = [o \in Order |-> "absent"]
    /\ orders         = [o \in Order |-> Blank]
    /\ response_count = [o \in Order |-> 0]
    /\ responses      = {}
    /\ spent          = {}
    /\ verified       = [u \in User |-> FALSE]
    /\ orders_count   = [u \in User |-> 0]
    /\ req            = [r \in Request |-> Idle]

Live(o)  == stored[o] = "live"
At(r, s) == req[r].pc = s

Begin(r, op, start) ==
    /\ op \in Ops
    /\ At(r, "idle")
    /\ req' = [req EXCEPT ![r] = start]

Goto(r, s) == req' = [req EXCEPT ![r].pc = s]
Finish(r)  == req' = [req EXCEPT ![r] = Idle]

Write(o, d) == orders' = [orders EXCEPT ![o] = d]

(***************************************************************************)
(* syncOrdersCount: counts, then writes the number in a second query.      *)
(***************************************************************************)
OrdersOf(u) == {o \in Order : Live(o) /\ orders[o].user_id = u /\ Counted(orders[o])}

CountOrders(r) ==
    /\ At(r, "count")
    /\ req' = [req EXCEPT ![r] = [Idle EXCEPT !.pc = "setCount",
                                              !.user = req[r].user,
                                              !.count = Cardinality(OrdersOf(req[r].user))]]
    /\ UNCHANGED <<stored, orders, response_count, responses, spent, verified, orders_count>>

SetOrdersCount(r) ==
    /\ At(r, "setCount")
    /\ orders_count' = [orders_count EXCEPT ![req[r].user] = req[r].count]
    /\ Finish(r)
    /\ UNCHANGED <<stored, orders, response_count, responses, spent, verified>>

Sync(r, u) == req' = [req EXCEPT ![r] = [Idle EXCEPT !.pc = "count", !.user = u]]

(***************************************************************************)
(* createOrder. The document gets its id before it is saved.               *)
(***************************************************************************)
CreateOrder(r, u, o, draft, format, city) ==
    LET d == Normalized([Blank EXCEPT !.user_id     = u,
                                      !.draft       = draft,
                                      !.work_format = format,
                                      !.city        = city])
    IN  /\ stored[o] = "absent"
        /\ Placeable(d)
        /\ IsListed(d) => verified[u]
        /\ Begin(r, "createOrder", [Idle EXCEPT !.pc = "insert", !.user = u,
                                                !.order = o, !.edit = d])
        /\ stored' = [stored EXCEPT ![o] = "new"]
        /\ UNCHANGED <<orders, response_count, responses, spent, verified, orders_count>>

InsertOrder(r) ==
    /\ At(r, "insert")
    /\ stored' = [stored EXCEPT ![req[r].order] = "live"]
    /\ Write(req[r].order, req[r].edit)
    /\ Sync(r, req[r].user)
    /\ UNCHANGED <<response_count, responses, spent, verified, orders_count>>

(***************************************************************************)
(* updateOrder: the owner's edit is built on the document as read. A move  *)
(* into the feed asks for a verified owner. An edit of the two publication *)
(* flags is written only while the order seeks a performer, any other edit *)
(* by id alone; a document deleted meanwhile refuses both.                 *)
(***************************************************************************)
UpdateOrder(r, o, draft, active, format, city) ==
    LET read == orders[o]
        edit == Normalized([read EXCEPT !.draft       = draft,
                                        !.is_active   = active,
                                        !.work_format = format,
                                        !.city        = city])
        publishes == ~IsListed(read) /\ IsListed(edit)
    IN  /\ Live(o)
        /\ Placeable(edit)
        /\ Begin(r, "updateOrder",
                 [Idle EXCEPT !.pc = IF publishes THEN "publishCheck" ELSE "save",
                              !.user = read.user_id, !.order = o,
                              !.snap = read, !.edit = edit])
        /\ UNCHANGED <<stored, orders, response_count, responses, spent, verified, orders_count>>

PublishCheck(r) ==
    /\ At(r, "publishCheck")
    /\ IF verified[req[r].user] THEN Goto(r, "save") ELSE Finish(r)
    /\ UNCHANGED <<stored, orders, response_count, responses, spent, verified, orders_count>>

SavesById(r) == Live(req[r].order)   \* mistake: a publication flag saved by id alone

Saves(r) ==
    LET o == req[r].order
    IN  /\ Live(o)
        /\ Republished(req[r].snap, req[r].edit) => Seeking(orders[o])

SaveOrder(r) ==
    /\ At(r, "save")
    /\ \/ /\ Saves(r)
          /\ Write(req[r].order, SaveChanges(orders[req[r].order], req[r].snap, req[r].edit))
          /\ Sync(r, req[r].user)
       \/ /\ ~Saves(r)
          /\ Finish(r)
          /\ UNCHANGED orders
    /\ UNCHANGED <<stored, response_count, responses, spent, verified, orders_count>>

(***************************************************************************)
(* Transitions that are one conditional query. The caller is the user the  *)
(* query names; cancelDeal is called with the two parties of a chat.       *)
(***************************************************************************)
Transition(op, o, guard, d) ==
    /\ op \in Ops
    /\ Live(o)
    /\ guard
    /\ Write(o, d)
    /\ UNCHANGED <<stored, response_count, responses, spent, verified, orders_count, req>>

ArchiveOrder(o, u) ==
    Transition("archiveOrder", o,
               orders[o].user_id = u /\ Seeking(orders[o]),
               [orders[o] EXCEPT !.is_active = FALSE])

CancelOrder(o, u) ==
    Transition("cancelOrder", o,
               orders[o].user_id = u /\ orders[o].status = "active" /\ ~orders[o].draft,
               [orders[o] EXCEPT !.status = "cancelled"])

CancelDeal(o, a, b) ==
    Transition("cancelDeal", o,
               /\ orders[o].status \in DealStatuses
               /\ \/ orders[o].user_id = a /\ orders[o].performer = b
                  \/ orders[o].user_id = b /\ orders[o].performer = a,
               [orders[o] EXCEPT !.status = "cancelled"])

SubmitWork(o, u) ==
    Transition("submitWork", o,
               orders[o].performer = u /\ orders[o].status = "pending",
               [orders[o] EXCEPT !.status = "review"])

ReviewWorkReopens(o, u, accepted) ==   \* mistake: returned work puts the order up again
    Transition("reviewWork", o,
               orders[o].user_id = u /\ orders[o].status = "review",
               [orders[o] EXCEPT !.status = IF accepted THEN "completed" ELSE "active"])

ReviewWork(o, u, accepted) ==
    Transition("reviewWork", o,
               orders[o].user_id = u /\ orders[o].status = "review",
               [orders[o] EXCEPT !.status = IF accepted THEN "completed" ELSE "pending"])

(***************************************************************************)
(* assignPerformer: called for two parties of a chat, one of them the      *)
(* performer and the other the customer; the actor is either of them.      *)
(***************************************************************************)
AssignPerformer(r, o, customer, performer, actor) ==
    /\ Live(o)
    /\ performer # customer
    /\ actor \in {customer, performer}
    /\ orders[o].user_id = customer
    /\ Assignable(orders[o])
    /\ Begin(r, "assignPerformer", [Idle EXCEPT !.pc = "actorCheck", !.user = actor,
                                                !.order = o, !.performer = performer])
    /\ UNCHANGED <<stored, orders, response_count, responses, spent, verified, orders_count>>

ActorCheck(r) ==
    /\ At(r, "actorCheck")
    /\ IF verified[req[r].user] THEN Goto(r, "otherCheck") ELSE Finish(r)
    /\ UNCHANGED <<stored, orders, response_count, responses, spent, verified, orders_count>>

OtherParty(r) == IF req[r].user = req[r].performer
                 THEN orders[req[r].order].user_id
                 ELSE req[r].performer

OtherUnchecked(r) ==   \* mistake: only the one who accepts is asked
    /\ At(r, "otherCheck")
    /\ Goto(r, "assign")
    /\ UNCHANGED <<stored, orders, response_count, responses, spent, verified, orders_count>>

OtherCheck(r) ==
    /\ At(r, "otherCheck")
    /\ IF verified[OtherParty(r)] THEN Goto(r, "assign") ELSE Finish(r)
    /\ UNCHANGED <<stored, orders, response_count, responses, spent, verified, orders_count>>

AssignsPublished(r) ==   \* mistake: the write does not ask for an order that seeks
    LET o == req[r].order
    IN  Live(o) /\ ~orders[o].draft /\ orders[o].is_active # FALSE

Assigns(r) ==
    LET o == req[r].order
    IN  /\ Live(o)
        /\ Seeking(orders[o])
        /\ ~orders[o].draft
        /\ orders[o].is_active # FALSE

AssignWrite(r) ==
    LET o == req[r].order
    IN  /\ At(r, "assign")
        /\ IF Assigns(r)
           THEN Write(o, [orders[o] EXCEPT !.performer = req[r].performer,
                                           !.status    = "pending"])
           ELSE UNCHANGED orders
        /\ Finish(r)
        /\ UNCHANGED <<stored, response_count, responses, spent, verified, orders_count>>

(***************************************************************************)
(* deleteOrder: the check is made on the document as read; the two deletes *)
(* are issued together and the database takes them in either order.        *)
(***************************************************************************)
DeleteUnchecked(r, o) ==   \* mistake: the performer is not looked at
    /\ Live(o)
    /\ Begin(r, "deleteOrder", [Idle EXCEPT !.pc = "deleteBoth", !.order = o,
                                            !.user = orders[o].user_id])
    /\ UNCHANGED <<stored, orders, response_count, responses, spent, verified, orders_count>>

DeleteOrder(r, o) ==
    /\ Live(o)
    /\ orders[o].performer = None
    /\ Begin(r, "deleteOrder", [Idle EXCEPT !.pc = "deleteBoth", !.order = o,
                                            !.user = orders[o].user_id])
    /\ UNCHANGED <<stored, orders, response_count, responses, spent, verified, orders_count>>

DeleteDoc(r) ==
    /\ req[r].pc \in {"deleteBoth", "deleteDoc"}
    /\ stored' = [stored EXCEPT ![req[r].order] = "gone"]
    /\ IF At(r, "deleteBoth") THEN Goto(r, "deleteResponses") ELSE Sync(r, req[r].user)
    /\ UNCHANGED <<orders, response_count, responses, spent, verified, orders_count>>

DeleteResponses(r) ==
    /\ req[r].pc \in {"deleteBoth", "deleteResponses"}
    /\ responses' = {p \in responses : p.order # req[r].order}
    /\ IF At(r, "deleteBoth") THEN Goto(r, "deleteDoc") ELSE Sync(r, req[r].user)
    /\ UNCHANGED <<stored, orders, response_count, spent, verified, orders_count>>

(***************************************************************************)
(* createOrderResponse. ResponseBound keeps an id for every handler that   *)
(* may still come to issue one.                                            *)
(***************************************************************************)
ResponseBound ==
    Cardinality(spent)
      + Cardinality({q \in Request : req[q].pc \in {"exists", "responseCheck", "createResponse"}})
    < Cardinality(Response)

CreateOrderResponse(r, u, o) ==
    /\ ResponseBound
    /\ Live(o)
    /\ orders[o].user_id # u
    /\ IsListed(orders[o])
    /\ Begin(r, "createOrderResponse", [Idle EXCEPT !.pc = "exists", !.user = u, !.order = o])
    /\ UNCHANGED <<stored, orders, response_count, responses, spent, verified, orders_count>>

Exists(r) ==
    /\ At(r, "exists")
    /\ IF \E p \in responses : p.order = req[r].order /\ p.user = req[r].user
       THEN Finish(r)
       ELSE Goto(r, "responseCheck")
    /\ UNCHANGED <<stored, orders, response_count, responses, spent, verified, orders_count>>

ResponseCheck(r) ==
    /\ At(r, "responseCheck")
    /\ IF verified[req[r].user] THEN Goto(r, "createResponse") ELSE Finish(r)
    /\ UNCHANGED <<stored, orders, response_count, responses, spent, verified, orders_count>>

CreateResponse(r, p) ==
    /\ At(r, "createResponse")
    /\ p \notin spent
    /\ spent'     = spent \union {p}
    /\ responses' = responses \union {[id |-> p, order |-> req[r].order, user |-> req[r].user]}
    /\ Goto(r, "incCount")
    /\ UNCHANGED <<stored, orders, response_count, verified, orders_count>>

IncResponseCount(r) ==
    LET o == req[r].order
    IN  /\ At(r, "incCount")
        /\ response_count' = IF Live(o) THEN [response_count EXCEPT ![o] = @ + 1]
                                        ELSE response_count
        /\ Finish(r)
        /\ UNCHANGED <<stored, orders, responses, spent, verified, orders_count>>

(***************************************************************************)
(* deleteOrderResponse: found once, deleted by id, the counter taken down  *)
(* by a second query that never goes below zero.                           *)
(***************************************************************************)
DeleteOrderResponse(r, p) ==
    /\ p \in responses
    /\ Begin(r, "deleteOrderResponse", [Idle EXCEPT !.pc = "deleteResponse",
                                                    !.order = p.order,
                                                    !.response = p.id])
    /\ UNCHANGED <<stored, orders, response_count, responses, spent, verified, orders_count>>

DeleteResponse(r) ==
    /\ At(r, "deleteResponse")
    /\ responses' = {p \in responses : p.id # req[r].response}
    /\ Goto(r, "decCount")
    /\ UNCHANGED <<stored, orders, response_count, spent, verified, orders_count>>

DecAboveOne(r) ==   \* mistake: the bound is off by one
    LET o == req[r].order
    IN  /\ At(r, "decCount")
        /\ response_count' = IF Live(o) /\ response_count[o] > 1
                             THEN [response_count EXCEPT ![o] = @ - 1]
                             ELSE response_count
        /\ Finish(r)
        /\ UNCHANGED <<stored, orders, responses, spent, verified, orders_count>>

DecResponseCount(r) ==
    LET o == req[r].order
    IN  /\ At(r, "decCount")
        /\ response_count' = IF Live(o) /\ response_count[o] > 0
                             THEN [response_count EXCEPT ![o] = @ - 1]
                             ELSE response_count
        /\ Finish(r)
        /\ UNCHANGED <<stored, orders, responses, spent, verified, orders_count>>

(***************************************************************************)
(* Around the service: AuthService confirms an address, once and for good; *)
(* the process can stop between any two queries.                           *)
(***************************************************************************)
VerifyEmail(u) ==
    /\ ~verified[u]
    /\ verified' = [verified EXCEPT ![u] = TRUE]
    /\ UNCHANGED <<stored, orders, response_count, responses, spent, orders_count, req>>

Crash ==
    /\ "crash" \in Ops
    /\ \E r \in Request : ~At(r, "idle")
    /\ req' = [r \in Request |-> Idle]
    /\ UNCHANGED <<stored, orders, response_count, responses, spent, verified, orders_count>>

(***************************************************************************)
(* The specification                                                       *)
(***************************************************************************)
Owner(r, o) ==
    \/ \E draft \in BOOLEAN, format \in FormatInputs, city \in City \union {None} :
          \/ \E u \in User : CreateOrder(r, u, o, draft, format, city)
          \/ \E active \in ActiveInputs : UpdateOrder(r, o, draft, active, format, city)
    \/ DeleteOrder(r, o)
    \/ \E customer, performer, actor \in User :
          AssignPerformer(r, o, customer, performer, actor)

OneWrite(o) == \E u \in User :
    \/ ArchiveOrder(o, u) \/ CancelOrder(o, u) \/ SubmitWork(o, u)
    \/ \E accepted \in BOOLEAN : ReviewWork(o, u, accepted)
    \/ \E v \in User : CancelDeal(o, u, v)

Step(r) ==
    \/ InsertOrder(r) \/ PublishCheck(r) \/ SaveOrder(r)
    \/ CountOrders(r) \/ SetOrdersCount(r)
    \/ ActorCheck(r) \/ OtherCheck(r) \/ AssignWrite(r)
    \/ DeleteDoc(r) \/ DeleteResponses(r)
    \/ Exists(r) \/ ResponseCheck(r) \/ IncResponseCount(r)
    \/ \E p \in Response : CreateResponse(r, p)
    \/ DeleteResponse(r) \/ DecResponseCount(r)

Serve ==
    \/ \E r \in Request :
          \/ \E o \in Order : Owner(r, o)
          \/ \E u \in User, o \in Order : CreateOrderResponse(r, u, o)
          \/ \E p \in responses : DeleteOrderResponse(r, p)
          \/ Step(r)
    \/ \E o \in Order : OneWrite(o)
    \/ \E u \in User : VerifyEmail(u)

Next == Serve \/ Crash
Spec == Init /\ [][Next]_vars

(***************************************************************************)
(* What holds under every interleaving                                     *)
(***************************************************************************)

(* The status and the performer never contradict each other, although each  *)
(* write sets one or both of them and the deletes and saves race with them: *)
(* an order that seeks has no performer, a deal has one, and he is not the  *)
(* customer.                                                                *)
StatusMatchesPerformer == \A o \in Order :
    /\ orders[o].status = "active" => orders[o].performer = None
    /\ orders[o].status \in DealStatuses \union {"completed"}
         => orders[o].performer \in User \ {orders[o].user_id}

(* A performer never has his order in the drafts or in the archive: an edit *)
(* built on a document read before the assignment does not hide it.         *)
NoHiddenDeal == \A o \in Order : orders[o].performer # None =>
    ~orders[o].draft /\ orders[o].is_active # FALSE

(* The feed's query and isListed are written separately, one on the         *)
(* performer and one on the status; they select the same orders.            *)
FeedMatchesListed == \A o \in Order : InFeed(orders[o]) <=> IsListed(orders[o])

(* Who is shown what: a deal is not hidden from its parties, an order that   *)
(* seeks nobody is not shown to the others.                                  *)
VisibleAsDue == NoHiddenDeal /\ FeedMatchesListed

(* Both parties of a deal have confirmed their addresses, whichever of them *)
(* pressed "accept", and whatever happened between the checks and the write. *)
DealVerified == \A o \in Order : orders[o].performer # None =>
    verified[orders[o].user_id] /\ verified[orders[o].performer]

(* Only a confirmed user who is not the customer has a response stored, and  *)
(* only to an order that was once saved.                                     *)
RespondersQualify == \A p \in responses :
    /\ stored[p.order] \in {"live", "gone"}
    /\ verified[p.user]
    /\ p.user # orders[p.order].user_id

(* Whoever makes a deal, or asks for one, was entitled to.                   *)
PartiesQualify == DealVerified /\ RespondersQualify

(* Every step of the service is a step of the order's agreed life cycle: an *)
(* order ends once, its performer is chosen once, nobody else's query moves *)
(* it. A deleted order keeps its last stage.                                *)
Customer  == [o \in Order |-> orders[o].user_id]
Performer == [o \in Order |-> orders[o].performer]
Stage     == [o \in Order |-> IF stored[o] \in {"absent", "new"} THEN "none"
                              ELSE orders[o].status]

Life == INSTANCE Deal WITH customer <- Customer, status <- Stage, performer <- Performer

FollowsDeal == Life!Spec

(* What a handler found out before an await is still true when it writes:    *)
(* an order once read is stored or deleted but never unmade, its customer is *)
(* the same, a confirmed address stays confirmed, and an id that waits for   *)
(* its insert is not in another handler's hands.                             *)
OnOrder  == Steps \ {"idle", "count", "setCount"}
OnStored == OnOrder \ {"insert"}
OfUser   == {"insert", "publishCheck", "save", "count", "setCount", "deleteBoth",
             "deleteDoc", "deleteResponses", "exists", "responseCheck", "createResponse"}

Placed(r) ==
    /\ req[r].pc \in OnOrder  => req[r].order \in Order
    /\ req[r].pc \in OfUser   => req[r].user \in User
    /\ req[r].pc \in OnStored => stored[req[r].order] \in {"live", "gone"}

Unmade(r) == At(r, "insert") =>
    /\ stored[req[r].order] = "new"
    /\ req[r].edit.user_id \in User
    /\ req[r].edit.status = "active"
    /\ req[r].edit.performer = None
    /\ \A q \in Request \ {r} : At(q, "insert") => req[q].order # req[r].order

Assigning(r) == req[r].pc \in {"actorCheck", "otherCheck", "assign"} =>
    /\ req[r].performer \in User
    /\ req[r].performer # orders[req[r].order].user_id
    /\ req[r].user \in {req[r].performer, orders[req[r].order].user_id}
    /\ req[r].pc # "actorCheck" => verified[req[r].user]
    /\ req[r].pc = "assign"     => verified[OtherParty(r)]

Responding(r) ==
    /\ req[r].pc \in {"exists", "responseCheck", "createResponse"}
         => req[r].user # orders[req[r].order].user_id
    /\ At(r, "createResponse") => verified[req[r].user]

InFlight == \A r \in Request : Placed(r) /\ Unmade(r) /\ Assigning(r) /\ Responding(r)

(* An order that is not in the collection yet has no history; one that is,   *)
(* has a customer.                                                           *)
Made == \A o \in Order :
    IF stored[o] \in {"absent", "new"} THEN orders[o] = Blank
                                      ELSE orders[o].user_id \in User

(* The inductive invariant.                                                  *)
IInv == /\ TypeOK
        /\ InFlight
        /\ Made
        /\ StatusMatchesPerformer
        /\ NoHiddenDeal
        /\ DealVerified
        /\ RespondersQualify

(***************************************************************************)
(* What holds when requests do not overlap                                 *)
(***************************************************************************)
Quiet == \A r \in Request : At(r, "idle")

(* An order that has ever had a performer stays in the database.            *)
DeletesNoDeal    == \A o \in Order : Live(o) /\ ~Live(o)' => orders[o].performer = None
DealNeverDeleted == [][DeletesNoDeal]_vars

(* The counter on the user's profile is the number of his orders that are   *)
(* not drafts, and the counter on the order the number of its responses,    *)
(* whenever no handler is running.                                          *)
ResponsesTo(o) == {p \in responses : p.order = o}

CountersExact == Quiet =>
    /\ \A u \in User : orders_count[u] = Cardinality(OrdersOf(u))
    /\ \A o \in Order : Live(o) => response_count[o] = Cardinality(ResponsesTo(o))

(* What the service checks before it writes: a published order on site names *)
(* its city, a listed order has an owner with a confirmed address, a user    *)
(* responds to an order at most once.                                       *)
RulesKept ==
    /\ \A o \in Order : /\ Placeable(orders[o])
                        /\ Live(o) /\ IsListed(orders[o]) => verified[orders[o].user_id]
    /\ \A p, q \in responses : p.order = q.order /\ p.user = q.user => p = q

(* What is listed can be assigned to a performer.                           *)
ListedIsAssignable == \A o \in Order : IsListed(orders[o]) => Assignable(orders[o])
=============================================================================
