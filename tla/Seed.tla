---------------------------------- MODULE Seed ----------------------------------
(* The script that fills a database with the demonstration set and removes   *)
(* it (scripts/seed/seed.ts), beside the users of the site who were there    *)
(* before. The script may be stopped between any two of its writes, and the  *)
(* next run starts by clearing what it finds. The ids of one run are new:    *)
(* they are the key, or the number, with the number of the run.              *)
(*                                                                           *)
(* One order, with its responses, cards and reviews, is written in one step. *)
EXTENDS Integers, Sequences, FiniteSetsExt, SeedData

CONSTANTS Host, Visitor,   \* two users of the site who are not of the set
          HostOrder,       \* an order of the host, in the feed
          REVIEW_WINDOW_DAYS,
          CANCEL_REPLY_DAYS,
          MaxRuns, MaxStops

Numbers(s) == 1..Len(s)
AllOrders  == ORDERS \o HISTORY
Keys       == {USERS[i].key : i \in Numbers(USERS)}
Real       == {Host, Visitor}

\* The real documents have ids of their own.
Apart ==
    /\ {Host, Visitor, HostOrder, Null} \intersect Int = {}
    /\ (Real \union {Null}) \intersect (Keys \union (Keys \X Nat)) = {}
    /\ {HostOrder, Null} \intersect (Nat \X Nat) = {} /\ Null \notin {"accepted", "rejected"}
    /\ Host # Visitor

\* The lists name users and orders of the set only; none of them is empty.
Closed ==
    /\ {Len(USERS), Len(PORTFOLIOS), Len(AllOrders), Len(SUGGESTS), Len(DIALOGS)} \subseteq Nat \ {0}
    /\ \A i \in Numbers(PORTFOLIOS) : PORTFOLIOS[i].owner \in Keys
    /\ \A i \in Numbers(AllOrders) :
        /\ AllOrders[i].owner \in Keys
        /\ AllOrders[i].history \in Keys \union {Null}
        /\ \A j \in Numbers(AllOrders[i].responses) : AllOrders[i].responses[j][1] \in Keys
    /\ \A i \in Numbers(SUGGESTS) :
        /\ {SUGGESTS[i].from, SUGGESTS[i].to} \subseteq Keys
        /\ SUGGESTS[i].order \in Numbers(AllOrders)
    /\ \A i \in Numbers(DIALOGS) :
        /\ {DIALOGS[i].between[1], DIALOGS[i].between[2]} \subseteq Keys
        /\ \A j \in Numbers(DIALOGS[i].messages) : DIALOGS[i].messages[j][1] \in Keys

SeedParameters ==
    /\ Apart /\ Closed
    /\ REVIEW_WINDOW_DAYS \in Nat /\ CANCEL_REPLY_DAYS \in Nat
    /\ MaxRuns \in Nat /\ MaxStops \in Nat

ASSUME SeedAssumption == SeedParameters

VARIABLES pc,        \* where the script stands
          n,         \* the next record of the list that it goes through
          run,       \* how many times it was started
          clearOnly, \* --clear was given
          found,     \* the users and orders that clear() found
          left,      \* the deletes of Promise.all that have not been done
          stops,
          users, projects, orders, responses, messages, reviews, files

script == <<pc, n, run, clearOnly, found, left, stops>>
data   == <<users, projects, orders, responses, messages, reviews, files>>
seedVars   == <<script, data>>

IdOf(key) == <<key, run>>

Nothing == [id \in {} |-> Null]
Put(f, id, doc) == [x \in DOMAIN f \union {id} |-> IF x = id THEN doc ELSE f[x]]
Drop(f, S)      == [x \in DOMAIN f \ S |-> f[x]]

(***************************************************************************)
(* The documents                                                           *)
(***************************************************************************)
UserDoc(performer, avatar) ==
    [is_verified |-> TRUE, is_performer |-> performer, avatar |-> avatar, orders_count |-> 0,
     rating |-> 0, reviews_count |-> 0, customer_rating |-> 0, customer_reviews_count |-> 0]

NewOrder(owner) ==
    [user_id |-> owner, performer |-> Null, status |-> "active", draft |-> FALSE,
     is_active |-> TRUE, response_count |-> 0, completed_at |-> Null]

Message(from, to, kind, status, order, read, at) ==
    [senderId |-> from, receiverId |-> to, kind |-> kind, status |-> status,
     orderId |-> order, isRead |-> read, at |-> at]

\* isListed: what the site lets anybody answer.
Listed(o) == o.is_active /\ ~o.draft /\ o.status = "active" /\ o.performer = Null

SeedInit ==
    /\ pc = "idle" /\ n = 1 /\ run = 0 /\ clearOnly = FALSE /\ stops = 0
    /\ found = [users |-> {}, orders |-> {}] /\ left = {}
    /\ users     = [u \in Real |-> [UserDoc(FALSE, TRUE) EXCEPT !.orders_count = IF u = Host THEN 1 ELSE 0]]
    /\ projects  = {[user_id |-> Visitor, images |-> 1, liked_by |-> {Host}, viewed_by |-> {Host}]}
    /\ orders    = [o \in {HostOrder} |-> [NewOrder(Host) EXCEPT !.response_count = 1]]
    /\ responses = {[order_id |-> HostOrder, user_id |-> Visitor]}
    /\ messages  = {Message(Visitor, Host, "response", "response", HostOrder, TRUE, 0)}
    /\ reviews   = {[order_id |-> Null, author_id |-> Host, target_id |-> Visitor, role |-> "performer",
                     rating |-> 5, reply |-> FALSE, published |-> TRUE, created_at |-> 0]}
    /\ files     = {<<"avatars", Host>>}

(***************************************************************************)
(* clear(). It finds the users by the domain of their e-mail, and their    *)
(* orders; nothing else tells the set apart.                               *)
(***************************************************************************)
Begin(only) ==
    /\ pc = "idle"
    /\ run < MaxRuns
    /\ pc' = "find" /\ n' = 1 /\ run' = run + 1 /\ clearOnly' = only
    /\ UNCHANGED <<found, left, stops, data>>

TestUsers == DOMAIN users \ Real

Find ==
    /\ pc = "find"
    /\ found' = [users  |-> TestUsers,
                 orders |-> {o \in DOMAIN orders : orders[o].user_id \in TestUsers}]
    /\ pc' = "reviews"
    /\ UNCHANGED <<n, run, clearOnly, left, stops, data>>

\* The five deletes that are sent together.
Deletes == {"responses", "orders", "projects", "messages", "users"}

DeleteReviews ==
    /\ pc = "reviews"
    /\ reviews' = {r \in reviews : {r.author_id, r.target_id} \intersect found.users = {}}
    /\ pc' = "delete" /\ left' = Deletes
    /\ UNCHANGED <<n, run, clearOnly, found, stops, users, projects, orders, responses, messages, files>>

\* Mistake: the responses of others to the set's orders are forgotten.
OfFoundUsers(r) == r.user_id \in found.users

OfFound(r) == r.user_id \in found.users \/ r.order_id \in found.orders

DeleteMany(d) ==
    /\ responses' = IF d = "responses" THEN {r \in responses : ~OfFound(r)} ELSE responses
    /\ orders'    = IF d = "orders"
                    THEN Drop(orders, {o \in DOMAIN orders : orders[o].user_id \in found.users})
                    ELSE orders
    /\ projects'  = IF d = "projects" THEN {p \in projects : p.user_id \notin found.users} ELSE projects
    /\ messages'  = IF d = "messages"
                    THEN {m \in messages : {m.senderId, m.receiverId} \intersect found.users = {}}
                    ELSE messages
    /\ users'     = IF d = "users" THEN Drop(users, found.users) ELSE users

Delete(d) ==
    /\ pc = "delete"
    /\ d \in left
    /\ DeleteMany(d)
    /\ left' = left \ {d}
    /\ pc' = IF left' = {} THEN "files" ELSE "delete"
    /\ UNCHANGED <<n, run, clearOnly, found, stops, reviews, files>>

\* Mistake: the folders are emptied.
PrefixedAny(f) == TRUE

Prefixed(f) == f[1] # "avatars" \/ f[2] \notin Real

DeleteFiles ==
    /\ pc = "files"
    /\ files' = {f \in files : ~Prefixed(f)}
    /\ pc' = IF clearOnly THEN "idle" ELSE "users"
    /\ n'  = 1
    /\ UNCHANGED <<run, clearOnly, found, left, stops, users, projects, orders, responses, messages, reviews>>

(***************************************************************************)
(* seed(). It goes through the lists of SeedData one after another.        *)
(***************************************************************************)
Pass(list, next) ==
    IF n < Len(list) THEN n' = n + 1 /\ pc' = pc ELSE n' = 1 /\ pc' = next

CreateUser ==
    /\ pc = "users"
    /\ LET u == USERS[n]
       IN  /\ users' = Put(users, IdOf(u.key), UserDoc(u.performer, u.avatar))
           /\ files' = files \union (IF u.avatar THEN {<<"avatars", u.key>>} ELSE {})
    /\ Pass(USERS, "portfolios")
    /\ UNCHANGED <<run, clearOnly, found, left, stops, projects, orders, responses, messages, reviews>>

Ids(keys) == {IdOf(k) : k \in keys}

CreatePortfolio ==
    /\ pc = "portfolios"
    /\ LET p == PORTFOLIOS[n]
       IN  /\ projects' = projects \union {[user_id |-> IdOf(p.owner), images |-> p.images,
                                            liked_by |-> Ids(p.likedBy), viewed_by |-> Ids(p.viewedBy)]}
           /\ files' = files \union {<<"files", n, j>> : j \in 1..p.images}
    /\ Pass(PORTFOLIOS, "orders")
    /\ UNCHANGED <<run, clearOnly, found, left, stops, users, orders, responses, messages, reviews>>

\* Times are minutes after the start of the script: those of the set are negative.
ResponseAt(o, i)  == 2 * Hour * i - o.age
AnsweredAt(o, i)  == ResponseAt(o, i) + Hour
Accepted(o)       == {i \in Numbers(o.responses) : o.responses[i][2] = "accepted"}
DeliveredAt(o, i) == IF o.doneAge # 0 THEN -(o.doneAge + 2 * Hour) ELSE AnsweredAt(o, i) + 3 * Day
CompletedAt(o, i) == DeliveredAt(o, i) + 2 * Hour
HistoryDone(o)    == 3 * Day - o.age

\* Who does the work: the performer of the history, or the accepted response.
WorkerOf(o)    == IF o.history # Null THEN o.history
                  ELSE IF Accepted(o) = {} THEN Null
                  ELSE o.responses[CHOOSE i \in Accepted(o) : TRUE][1]
PerformerOf(o) == IF WorkerOf(o) = Null THEN Null ELSE IdOf(WorkerOf(o))

\* Mistake: a cancelled deal stays in work.
StatusInWork(o) ==
    IF WorkerOf(o) = Null THEN IF o.state = "cancelled" THEN "cancelled" ELSE "active"
    ELSE IF o.state = "completed" THEN "completed" ELSE "pending"

StatusOf(o) ==
    IF WorkerOf(o) = Null THEN IF o.state = "cancelled" THEN "cancelled" ELSE "active"
    ELSE IF o.history # Null THEN IF o.state = "completed" THEN "completed" ELSE "pending"
    ELSE IF o.state \in {"completed", "cancelled"} THEN o.state ELSE "pending"

EndedAt(o) == IF o.history # Null THEN HistoryDone(o)
              ELSE CompletedAt(o, CHOOSE i \in Accepted(o) : TRUE)
DoneAt(o)  == IF StatusOf(o) # "completed" THEN Null ELSE EndedAt(o)

OrderDoc(o) ==
    [user_id |-> IdOf(o.owner), performer |-> PerformerOf(o), status |-> StatusOf(o),
     draft |-> o.state = "draft", is_active |-> o.state # "archived",
     response_count |-> Len(o.responses), completed_at |-> DoneAt(o)]

\* A response is answered, or lies in the chat unread; the answer is a line of its own.
Says(a, b, order, at) == Message(a, b, "server", "server", order, TRUE, at)

ResponseMessages(o, id, i) ==
    LET from    == IdOf(o.responses[i][1])
        outcome == o.responses[i][2]
        final   == outcome \in {"accepted", "rejected"}
    IN  {Message(from, IdOf(o.owner), "response", IF final THEN outcome ELSE "response", id,
                 outcome # Null, ResponseAt(o, i))} \union
        (IF final THEN {Says(from, IdOf(o.owner), Null, AnsweredAt(o, i))} ELSE {})

ProposedAt(o) == -o.cancel.age

CancelMessages(o, id) ==
    LET by   == IF o.cancel.by = "owner" THEN IdOf(o.owner) ELSE PerformerOf(o)
        to   == IF o.cancel.by = "owner" THEN PerformerOf(o) ELSE IdOf(o.owner)
        done == o.cancel.outcome # "pending"
    IN  IF o.cancel.by = Null \/ Accepted(o) = {} THEN {}
        ELSE {Message(by, to, "cancel", IF done THEN o.cancel.outcome ELSE Null, id, done, ProposedAt(o))}
             \union (IF done THEN {Says(by, to, Null, ProposedAt(o) + Hour)} ELSE {})

DeliveryMessages(o, id) ==
    IF o.state # "completed" THEN {}
    ELSE UNION {{Message(PerformerOf(o), IdOf(o.owner), "delivery", "accepted", id, TRUE, DeliveredAt(o, i)),
                 Says(PerformerOf(o), IdOf(o.owner), Null, CompletedAt(o, i))} : i \in Accepted(o)}

OrderMessages(o, id) ==
    (UNION {ResponseMessages(o, id, i) : i \in Numbers(o.responses)})
    \union CancelMessages(o, id) \union DeliveryMessages(o, id)

\* seedReviews: open if both have written, or the window has closed.
Both(o)      == o.byCustomer.rating # 0 /\ o.byPerformer.rating # 0
Published(o) == Both(o) \/ DoneAt(o) + REVIEW_WINDOW_DAYS * Day <= 0

SeedReviews(o, id) ==
    LET Written(author, target, role, r, hours) ==
            IF r.rating = 0 THEN {}
            ELSE {[order_id |-> id, author_id |-> author, target_id |-> target, role |-> role,
                   rating |-> r.rating, reply |-> r.reply /\ Published(o), published |-> Published(o),
                   created_at |-> DoneAt(o) + hours * Hour]}
    IN  IF StatusOf(o) # "completed" THEN {}
        ELSE Written(IdOf(o.owner), PerformerOf(o), "performer", o.byCustomer, 5)
             \union Written(PerformerOf(o), IdOf(o.owner), "customer", o.byPerformer, 9)

CreateOrder ==
    /\ pc = "orders"
    /\ LET o  == AllOrders[n]
           id == IdOf(n)
       IN  /\ orders'    = Put(orders, id, OrderDoc(o))
           /\ responses' = responses \union {[order_id |-> id, user_id |-> IdOf(o.responses[i][1])] :
                                             i \in Numbers(o.responses)}
           /\ messages'  = messages \union OrderMessages(o, id)
           /\ reviews'   = reviews \union SeedReviews(o, id)
    /\ Pass(AllOrders, "ratings")
    /\ UNCHANGED <<run, clearOnly, found, left, stops, users, projects, files>>

\* recalculateRatings, for one user. A rating is counted in tenths.
\* Mistake: the hidden reviews are counted too.
MarksAll(u, role) == {r \in reviews : r.target_id = u /\ r.role = role}

Marks(u, role) == {r \in reviews : r.target_id = u /\ r.role = role /\ r.published}

Tenths(R) == IF R = {} THEN 0
             ELSE (20 * MapThenSumSet(LAMBDA r : r.rating, R) + Cardinality(R)) \div (2 * Cardinality(R))

Recalculate ==
    /\ pc = "ratings"
    /\ LET u == IdOf(USERS[n].key)
           p == Marks(u, "performer")
           c == Marks(u, "customer")
       IN  users' = [users EXCEPT ![u].rating = Tenths(p), ![u].reviews_count = Cardinality(p),
                                  ![u].customer_rating = Tenths(c),
                                  ![u].customer_reviews_count = Cardinality(c)]
    /\ Pass(USERS, "suggests")
    /\ UNCHANGED <<run, clearOnly, found, left, stops, projects, orders, responses, messages, reviews, files>>

Suggest ==
    /\ pc = "suggests"
    /\ LET s    == SUGGESTS[n]
           done == s.outcome # "pending"
       IN  messages' = messages
               \union {Message(IdOf(s.from), IdOf(s.to), "suggest", IF done THEN s.outcome ELSE Null,
                               IdOf(s.order), done, -s.age)}
               \union (IF done THEN {Says(IdOf(s.from), IdOf(s.to), Null, Hour - s.age)} ELSE {})
    /\ Pass(SUGGESTS, "dialogs")
    /\ UNCHANGED <<run, clearOnly, found, left, stops, users, projects, orders, responses, reviews, files>>

Talk ==
    /\ pc = "dialogs"
    /\ LET d == DIALOGS[n]
           Other(key) == IF key = d.between[1] THEN d.between[2] ELSE d.between[1]
       IN  messages' = messages \union
               {Message(IdOf(d.messages[i][1]), IdOf(Other(d.messages[i][1])), "text", Null, Null,
                        ~(i = Len(d.messages) /\ d.unread), -d.messages[i][2]) : i \in Numbers(d.messages)}
    /\ Pass(DIALOGS, "counters")
    /\ UNCHANGED <<run, clearOnly, found, left, stops, users, projects, orders, responses, reviews, files>>

CountOrders ==
    /\ pc = "counters"
    /\ LET u == IdOf(USERS[n].key)
       IN  users' = [users EXCEPT ![u].orders_count =
               Cardinality({o \in DOMAIN orders : orders[o].user_id = u /\ ~orders[o].draft})]
    /\ Pass(USERS, "idle")
    /\ UNCHANGED <<run, clearOnly, found, left, stops, projects, orders, responses, messages, reviews, files>>

\* The process is killed, or a query fails and main() ends.
Stop ==
    /\ pc # "idle"
    /\ stops < MaxStops
    /\ stops' = stops + 1
    /\ pc' = "idle" /\ n' = 1 /\ left' = {}
    /\ found' = [users |-> {}, orders |-> {}]
    /\ UNCHANGED <<run, clearOnly, data>>

(***************************************************************************)
(* The site, with the set in it: a response and its message.                *)
(***************************************************************************)
Respond(u, id) ==
    /\ id \in DOMAIN orders /\ Listed(orders[id])
    /\ u \in DOMAIN users /\ u # orders[id].user_id
    /\ [order_id |-> id, user_id |-> u] \notin responses
    /\ responses' = responses \union {[order_id |-> id, user_id |-> u]}
    /\ orders'    = [orders EXCEPT ![id].response_count = @ + 1]
    /\ messages'  = messages \union {Message(u, orders[id].user_id, "response", "response", id, FALSE, 0)}
    /\ UNCHANGED <<script, users, projects, reviews, files>>

Script ==
    \/ Begin(TRUE) \/ Begin(FALSE)
    \/ Find \/ DeleteReviews
    \/ \E d \in Deletes : Delete(d)
    \/ DeleteFiles
    \/ CreateUser \/ CreatePortfolio \/ CreateOrder \/ Recalculate
    \/ Suggest \/ Talk \/ CountOrders
    \/ Stop

Site == \/ \E id \in DOMAIN orders \ {HostOrder} : Respond(Visitor, id)
        \/ \E u \in TestUsers : Respond(u, HostOrder)

SeedNext == Script \/ Site
SeedSpec == SeedInit /\ [][SeedNext]_seedVars

(***************************************************************************)
(* What the records themselves keep to. The script writes what they say and *)
(* checks nothing of it.                                                    *)
(***************************************************************************)
Distinct == \A i, j \in Numbers(USERS) : USERS[i].key = USERS[j].key => i = j

\* The sides of a deal are two users, the one who works takes orders; nobody answers twice.
LawfulSides(o) ==
    /\ Len(o.responses) \in Nat
    /\ o.owner \notin {WorkerOf(o)} \union {o.responses[i][1] : i \in Numbers(o.responses)}
    /\ \A i, j \in Numbers(o.responses) : o.responses[i][1] = o.responses[j][1] => i = j
    /\ \A i, j \in Accepted(o) : i = j
    /\ \A i \in Numbers(USERS) : USERS[i].key = WorkerOf(o) => USERS[i].performer

\* What is not in the feed is not worked on, and a deal is cancelled by a proposal.
LawfulState(o) ==
    /\ o.state \in {"draft", "archived"} => WorkerOf(o) = Null
    /\ o.history # Null => Accepted(o) = {}
    /\ o.cancel.by # Null /\ Accepted(o) # {} =>
          \/ o.cancel.outcome = "pending"  /\ o.state = "active"
          \/ o.cancel.outcome = "accepted" /\ o.state = "cancelled"
          \/ o.cancel.outcome = "rejected"

Given(r) == r.rating # 0

\* A review is not written before the script.
LawfulTimes(o) ==
    /\ {o.age, o.doneAge, o.cancel.age, o.byCustomer.rating, o.byPerformer.rating} \subseteq Nat
    /\ o.state = "completed" /\ Given(o.byCustomer)  => EndedAt(o) + 5 * Hour <= 0
    /\ o.state = "completed" /\ Given(o.byPerformer) => EndedAt(o) + 9 * Hour <= 0

LawfulSuggest(s) ==
    LET o == AllOrders[s.order]
    IN  s.from = o.owner /\ o.state = "active" /\ WorkerOf(o) = Null

\* The places of the records that show a case.
Offered      == {k \in Numbers(AllOrders) : /\ AllOrders[k].state = "active"
                                           /\ WorkerOf(AllOrders[k]) = Null}
Proposed     == {k \in Numbers(AllOrders) : /\ AllOrders[k].cancel.by # Null
                                           /\ AllOrders[k].cancel.outcome = "pending"
                                           /\ Accepted(AllOrders[k]) # {}}
ProposedLong == {k \in Proposed : AllOrders[k].cancel.age >= CANCEL_REPLY_DAYS * Day}
JustEnded    == {k \in Numbers(AllOrders) :
                    /\ AllOrders[k].state = "completed" /\ WorkerOf(AllOrders[k]) # Null
                    /\ EndedAt(AllOrders[k]) + REVIEW_WINDOW_DAYS * Day > 0}
OneSided     == {k \in JustEnded : Given(AllOrders[k].byCustomer) # Given(AllOrders[k].byPerformer)}

LawfulData ==
    /\ Distinct /\ REVIEW_WINDOW_DAYS > 0
    /\ \A k \in Numbers(AllOrders) :
          LET o == AllOrders[k] IN LawfulSides(o) /\ LawfulState(o) /\ LawfulTimes(o)
    /\ \A i \in Numbers(SUGGESTS) : LawfulSuggest(SUGGESTS[i])
    /\ Cardinality(Offered) > 10
    /\ Cardinality(ProposedLong) = 1 /\ Proposed # ProposedLong
    /\ Cardinality(JustEnded) = 2 /\ Cardinality(OneSided) = 1

ASSUME DataAssumption == LawfulData

(***************************************************************************)
(* What holds                                                              *)
(***************************************************************************)
TestOrders == DOMAIN orders \ {HostOrder}

SeedTypeOK ==
    /\ pc \in {"idle", "find", "reviews", "delete", "files", "users", "portfolios", "orders",
              "ratings", "suggests", "dialogs", "counters"}
    /\ n \in Nat \ {0} /\ run \in 0..MaxRuns /\ stops \in 0..MaxStops /\ clearOnly \in BOOLEAN
    /\ left \subseteq Deletes
    /\ Real \subseteq DOMAIN users /\ HostOrder \in DOMAIN orders
    /\ \A o \in DOMAIN orders :
        /\ orders[o].status \in {"active", "pending", "completed", "cancelled"}
        /\ orders[o].response_count \in Nat
    /\ \A u \in DOMAIN users : {users[u].rating, users[u].customer_rating} \subseteq 0..50

(* The documents of the users who are not of the set, the count of responses *)
(* to an order of theirs aside, are as they were: "Настоящие данные в той же *)
(* базе не трогаются" (seed.ts).                                             *)
RealDocs ==
    <<[u \in Real |-> users[u]],
      [orders[HostOrder] EXCEPT !.response_count = 0],
      {p \in projects  : p.user_id \in Real},
      {r \in responses : r.order_id = HostOrder /\ r.user_id \in Real},
      {m \in messages  : {m.senderId, m.receiverId} \subseteq Real},
      {r \in reviews   : {r.author_id, r.target_id} \subseteq Real},
      {f \in files     : f[1] = "avatars" /\ f[2] \in Real}>>
RealKept == [][RealDocs' = RealDocs]_seedVars

(* The number of the run that made a user; the documents that name a user   *)
(* or an order of another run are leftovers.                                *)
OneSet ==
    LET Users  == DOMAIN users
        Orders == DOMAIN orders \union {Null}
    IN  /\ \A u \in TestUsers : u[2] = run
        /\ \A o \in DOMAIN orders : orders[o].user_id \in Users
        /\ \A p \in projects  : p.user_id \in Users
        /\ \A r \in responses : r.user_id \in Users /\ r.order_id \in Orders
        /\ \A m \in messages  : {m.senderId, m.receiverId} \subseteq Users /\ m.orderId \in Orders
        /\ \A r \in reviews   : {r.author_id, r.target_id} \subseteq Users /\ r.order_id \in Orders

(* The deals of the set are deals that the site could have made: a performer *)
(* exactly where there is work, a confirmed performer who is not the         *)
(* customer; at most one open proposal to cancel, and only on work in hand;  *)
(* a proposal was accepted exactly where the deal was cancelled; responses   *)
(* do not repeat.                                                           *)
Cards(o, kind) == {m \in messages : m.kind = kind /\ m.orderId = o}
DealsLawful == \A o \in TestOrders :
    LET doc == orders[o]
    IN  /\ doc.status \in {"pending", "completed"} => doc.performer # Null
        /\ (doc.status = "active" \/ doc.draft \/ ~doc.is_active) => doc.performer = Null
        /\ doc.performer # Null => /\ doc.performer # doc.user_id
                                   /\ users[doc.performer].is_performer
                                   /\ users[doc.performer].is_verified
        /\ Cardinality({m \in Cards(o, "cancel") : m.status = Null}) <= 1
        /\ \A m \in Cards(o, "cancel") :
            /\ {m.senderId, m.receiverId} = {doc.user_id, doc.performer}
            /\ m.status = Null       => doc.status = "pending"
            /\ m.status = "accepted" => doc.status = "cancelled"
        /\ \A m \in Cards(o, "delivery") : doc.status = "completed" /\ m.at <= doc.completed_at
        /\ \A m \in Cards(o, "suggest") : m.senderId = doc.user_id /\ Listed(doc)
        /\ \A r \in responses : r.order_id = o => r.user_id # doc.user_id

(* The counters on the documents are the numbers of the documents counted,  *)
(* and a rating is the average of the published reviews.                    *)
CountersTrue ==
    /\ \A u \in TestUsers :
        LET Got(role) == {r \in reviews : r.target_id = u /\ r.role = role /\ r.published}
        IN  /\ users[u].orders_count =
                   Cardinality({o \in DOMAIN orders : orders[o].user_id = u /\ ~orders[o].draft})
            /\ users[u].reviews_count = Cardinality(Got("performer"))
            /\ users[u].customer_reviews_count = Cardinality(Got("customer"))
            /\ users[u].rating = Tenths(Got("performer"))
            /\ users[u].customer_rating = Tenths(Got("customer"))
    /\ \A o \in TestOrders : orders[o].response_count =
           Cardinality({r \in responses : r.order_id = o})

(* A review of the set is one the site could hold: of a completed deal, by   *)
(* one side on the other, once, in the window and not in the future; open    *)
(* exactly if the other has written too or the window has closed; answered   *)
(* only when open.                                                          *)
ReviewsLawful == \A r \in reviews : r.order_id \in TestOrders =>
    LET doc    == orders[r.order_id]
        others == {s \in reviews \ {r} : s.order_id = r.order_id}
        closes == doc.completed_at + REVIEW_WINDOW_DAYS * Day
    IN  /\ doc.status = "completed"
        /\ {r.author_id, r.target_id} = {doc.user_id, doc.performer}
        /\ r.role = IF r.target_id = doc.performer THEN "performer" ELSE "customer"
        /\ r.created_at \in doc.completed_at..closes /\ r.created_at <= 0
        /\ \A s \in others : s.author_id = r.target_id
        /\ r.published <=> (others # {} \/ closes <= 0)
        /\ r.reply => r.published

(* The set shows what data.ts says it does: more than ten listed orders, a   *)
(* fresh proposal to cancel and exactly one that may be closed without       *)
(* consent, deals whose window for reviews is still open, one of them with   *)
(* a hidden review.                                                         *)
OpenCancels == {m \in messages : m.kind = "cancel" /\ m.status = Null}
Overdue     == {m \in OpenCancels : -m.at >= CANCEL_REPLY_DAYS * Day}
StillOpen   == {o \in TestOrders : /\ orders[o].status = "completed"
                                   /\ orders[o].completed_at + REVIEW_WINDOW_DAYS * Day > 0}
CasesShown ==
    /\ Cardinality({o \in TestOrders : Listed(orders[o])}) > 10
    /\ Cardinality(Overdue) = 1 /\ OpenCancels # Overdue
    /\ Cardinality(StillOpen) = 2
    /\ {r.order_id : r \in {r \in reviews : ~r.published}} \subseteq StillOpen
    /\ Cardinality({r \in reviews : ~r.published}) = 1
=============================================================================
