---------------------------- MODULE ReviewsProofs ----------------------------
(* The reviews, for every set of orders and users and every number of        *)
(* handlers, timer runs and stops.                                           *)
EXTENDS MCReviews, TLAPS

(***************************************************************************)
(* Reviews only grow: written, then published                              *)
(***************************************************************************)
Grows ==
    /\ \A rev \in Review : Exists(rev) => Exists(rev)'
    /\ \A rev \in Review : Published(rev) => Published(rev)'
    /\ \A o \in Order : window[o] = "closed" => window'[o] = "closed"

LEMMA ReviewFacts ==
    ASSUME NEW rev \in Review
    PROVE  /\ Partner(rev) \in Review /\ Partner(Partner(rev)) = rev
           /\ Partner(rev)[1] = rev[1] /\ rev[1] \in Order
           /\ Target(rev) \in User
           /\ {rev, Partner(rev)} = {<<rev[1], "performer">>, <<rev[1], "customer">>}
<1>1. PICK o \in Order, role \in Role : rev = <<o, role>>
  BY DEF Review
<1>2. CASE role = "performer"
  BY <1>1, <1>2, ReviewsAssumption DEF Review, Role, Partner, Target
<1>3. CASE role = "customer"
  BY <1>1, <1>3, ReviewsAssumption DEF Review, Role, Partner, Target
<1> QED BY <1>2, <1>3 DEF Role

LEMMA AboutGrows ==
    ASSUME Grows
    PROVE  \A u \in User : About(u) \subseteq About(u)'
BY DEF Grows, About

LEMMA RestsStill ==
    ASSUME TypeOK, Grows, NEW r \in Request, Rests(r), req'[r] = req[r]
    PROVE  Rests(r)'
<1>t. req[r].due \in SUBSET Review
  BY DEF TypeOK, Req
<1>1. \A rev \in Review : Exists(rev) => Exists(rev)'
  BY DEF Grows
<1>2. \A rev \in Review : Published(rev) => Published(rev)'
  BY DEF Grows
<1>3. (req[r].pc \in {"insert", "find"} => req[r].review \in Review)'
  BY DEF Rests
<1>4. (At(r, "find") => Exists(req[r].review))'
  BY <1>1 DEF Rests, At, Exists
<1>5. (At(r, "update") => \A rev \in req[r].due :
         Exists(rev) /\ (Exists(Partner(rev)) \/ window[rev[1]] = "closed"))'
  <2> SUFFICES ASSUME At(r, "update"), NEW rev \in req[r].due
               PROVE  Exists(rev)' /\ (Exists(Partner(rev))' \/ window'[rev[1]] = "closed")
    BY DEF At
  <2>1. rev \in Review /\ Partner(rev) \in Review /\ rev[1] \in Order
    BY <1>t, ReviewFacts
  <2> QED BY <1>1, <2>1 DEF Rests, Grows
<1>6. (At(r, "recalculate") => \A u \in User : req[r].seen[u] \subseteq About(u))'
  BY AboutGrows DEF Rests, At
<1>7. (At(r, "reply") => req[r].review \in Review /\ Published(req[r].review))'
  BY <1>2 DEF Rests, At, Published
<1> QED BY <1>3, <1>4, <1>5, <1>6, <1>7 DEF Rests

(***************************************************************************)
(* Steps that leave the reviews as they are                                *)
(***************************************************************************)
BothExist(o) == \A role \in Role : Exists(<<o, role>>)

LEMMA HandlerStep ==
    ASSUME IInv, UNCHANGED <<window, state, stops>>,
           NEW r \in Request, NEW h \in Req, req' = [req EXCEPT ![r] = h], Rests(r)',
           \A o \in Order : WillOpen(r, o) /\ BothExist(o) => WillOpen(r, o)',
           reply' \in [Review -> Text \union {None}], RepliesSeen',
           rated' \in [User -> SUBSET Review], RatedFromPublished'
    PROVE  IInv'
<1>1. Grows
  BY DEF Grows, Exists, Published
<1>2. TypeOK' /\ \A q \in Request \ {r} : req'[q] = req[q]
  BY DEF IInv, TypeOK
<1>3. InFlight'
  BY <1>1, <1>2, RestsStill DEF IInv, InFlight
<1>4. Blind'
  BY DEF IInv, Blind, Exists, Published
<1>5. OpenTogether'
  <2> SUFFICES ASSUME NEW o \in Order, stops = 0, BothExist(o),
                      ~ \A role \in Role : Published(<<o, role>>)
               PROVE  \E q \in Request : WillOpen(q, o)'
    BY DEF OpenTogether, BothExist, Exists, Published
  <2>1. PICK q \in Request : WillOpen(q, o)
    BY DEF IInv, OpenTogether, BothExist
  <2>2. CASE q = r
    BY <2>1, <2>2
  <2>3. CASE q # r
    BY <1>2, <2>1, <2>3 DEF WillOpen, At
  <2> QED BY <2>2, <2>3
<1> QED BY <1>2, <1>3, <1>4, <1>5 DEF IInv

LEMMA SameReplies ==
    ASSUME IInv, UNCHANGED <<window, state, reply, rated, stops>>
    PROVE  /\ reply' \in [Review -> Text \union {None}] /\ RepliesSeen'
           /\ rated' \in [User -> SUBSET Review] /\ RatedFromPublished'
BY DEF IInv, TypeOK, RepliesSeen, RatedFromPublished, About, Published

LEMMA IdleReq == Idle \in Req /\ Idle.pc = "idle" /\ \A u \in User : Idle.seen[u] = {}
BY DEF Idle, Req

(* A handler that starts, with the query it waits for.                      *)
LEMMA StartStep ==
    ASSUME IInv, UNCHANGED <<window, state, reply, rated, stops>>,
           NEW r \in Request, At(r, "idle"), NEW h \in Req, Become(r, h),
           \/ h.pc = "insert" /\ h.review \in Review
           \/ h.pc = "update" /\ h.due = Due
           \/ h.pc = "reply" /\ h.review \in Review /\ Published(h.review)
    PROVE  IInv'
<1>1. req' = [req EXCEPT ![r] = h] /\ req'[r] = h
  BY DEF Become, IInv, TypeOK
<1>2. \A o \in Order : ~WillOpen(r, o)
  BY DEF WillOpen, At
<1>3. Rests(r)'
  <2>1. CASE h.pc = "insert" /\ h.review \in Review
    BY <1>1, <2>1 DEF Rests, At
  <2>2. CASE h.pc = "update" /\ h.due = Due
    <3>1. \A rev \in Due : Exists(rev)' /\ window'[rev[1]] = "closed"
      BY DEF Due, Exists
    <3> QED BY <1>1, <2>2, <3>1 DEF Rests, At
  <2>3. CASE h.pc = "reply" /\ h.review \in Review /\ Published(h.review)
    BY <1>1, <2>3 DEF Rests, At, Published
  <2> QED BY <2>1, <2>2, <2>3
<1> QED BY <1>1, <1>2, <1>3, SameReplies, HandlerStep

LEMMA CreateStep ==
    ASSUME IInv, NEW r \in Request, NEW rev \in Review, Create(r, rev)
    PROVE  IInv'
<1> DEFINE h == [Idle EXCEPT !.pc = "insert", !.review = rev]
<1>1. h \in Req /\ h.pc = "insert" /\ h.review = rev
  BY IdleReq DEF Req
<1>2. At(r, "idle") /\ Become(r, h) /\ UNCHANGED <<window, state, reply, rated, stops>>
  BY DEF Create
<1> HIDE DEF h
<1> QED BY <1>1, <1>2, StartStep

LEMMA ReplyStep ==
    ASSUME IInv, NEW r \in Request, NEW rev \in Review, NEW t \in Text, Reply(r, rev, t)
    PROVE  IInv'
<1> DEFINE h == [Idle EXCEPT !.pc = "reply", !.review = rev, !.text = t]
<1>1. h \in Req /\ h.pc = "reply" /\ h.review = rev
  BY IdleReq DEF Req
<1>2. /\ At(r, "idle") /\ Become(r, h) /\ Published(rev)
      /\ UNCHANGED <<window, state, reply, rated, stops>>
  BY DEF Reply
<1> HIDE DEF h
<1> QED BY <1>1, <1>2, StartStep

LEMMA PublishDueStep ==
    ASSUME IInv, NEW r \in Request, PublishDue(r)
    PROVE  IInv'
<1>1. PICK d \in SUBSET Review : d = Due
  BY DEF Due
<1> DEFINE h == [Idle EXCEPT !.pc = "update", !.due = d]
<1>2. h \in Req /\ h.pc = "update" /\ h.due = Due
  BY <1>1, IdleReq DEF Req
<1>3. At(r, "idle") /\ Become(r, h) /\ UNCHANGED <<window, state, reply, rated, stops>>
  BY <1>1 DEF PublishDue
<1> HIDE DEF h
<1> QED BY <1>2, <1>3, StartStep

(* A handler that ends.                                                     *)
LEMMA IdleRests ==
    ASSUME NEW r \in Request, req'[r] = Idle
    PROVE  Rests(r)'
BY IdleReq DEF Rests, At

LEMMA FindStep ==
    ASSUME IInv, NEW r \in Request, FindCounterpart(r)
    PROVE  IInv'
<1>1. PICK rev \in Review : rev = req[r].review /\ Exists(rev)
  BY DEF FindCounterpart, At, IInv, InFlight, Rests
<1>2. /\ req[r] \in Req /\ req \in [Request -> Req] /\ At(r, "find")
      /\ UNCHANGED <<window, state, reply, rated, stops>>
  BY DEF FindCounterpart, IInv, TypeOK
<1>3. CASE Exists(Partner(rev))
  <2> DEFINE d == {rev, Partner(rev)}
             h == [req[r] EXCEPT !.pc = "update", !.due = d]
  <2>1. d \in SUBSET Review
    BY ReviewFacts
  <2>2. req' = [req EXCEPT ![r] = h]
    BY <1>1, <1>3 DEF FindCounterpart, Become
  <2> HIDE DEF d
  <2>3. h \in Req /\ h.pc = "update" /\ h.due = d
    BY <1>2, <2>1 DEF Req
  <2> HIDE DEF h
  <2>4. req'[r] = h
    BY <1>2, <2>2
  <2>5. \A e \in d : Exists(e)' /\ Exists(Partner(e))'
    BY <1>1, <1>2, <1>3, ReviewFacts DEF d, Exists
  <2>6. Rests(r)'
    BY <2>3, <2>4, <2>5 DEF Rests, At
  <2>7. d = {<<rev[1], "performer">>, <<rev[1], "customer">>}
    BY ReviewFacts DEF d
  <2>8. \A o \in Order : WillOpen(r, o) => WillOpen(r, o)'
    BY <1>1, <1>2, <2>3, <2>4, <2>7 DEF WillOpen, At
  <2> QED BY <1>2, <2>2, <2>3, <2>6, <2>8, SameReplies, HandlerStep
<1>4. CASE ~Exists(Partner(rev))
  <2>1. req' = [req EXCEPT ![r] = Idle] /\ req'[r] = Idle
    BY <1>1, <1>2, <1>4 DEF FindCounterpart, Become
  <2>2. \A o \in Order : WillOpen(r, o) => ~BothExist(o)
    <3> SUFFICES ASSUME NEW o \in Order, WillOpen(r, o)
                 PROVE  ~BothExist(o)
      OBVIOUS
    <3>1. rev[1] = o
      BY <1>1, <1>2 DEF WillOpen, At
    <3>2. PICK role \in Role : Partner(rev) = <<o, role>>
      BY <3>1 DEF Partner, Role
    <3> QED BY <1>4, <3>2 DEF BothExist
  <2> QED BY <1>2, <2>1, <2>2, IdleReq, IdleRests, SameReplies, HandlerStep
<1> QED BY <1>3, <1>4

LEMMA AggregateStep ==
    ASSUME IInv, NEW r \in Request, NEW u \in User, Aggregate(r, u)
    PROVE  IInv'
<1>1. PICK now \in SUBSET Review : now = About(u)
  BY DEF About
<1> DEFINE h == [req[r] EXCEPT !.todo = @ \ {u}, !.read = @ \union {u}, !.seen[u] = now]
<1>2. /\ req[r] \in Req /\ req \in [Request -> Req] /\ At(r, "recalculate")
      /\ UNCHANGED <<window, state, reply, rated, stops>>
  BY DEF Aggregate, IInv, TypeOK
<1>3. h \in Req /\ h.pc = "recalculate" /\ h.seen = [req[r].seen EXCEPT ![u] = now]
  BY <1>2 DEF Req, At
<1>4. req' = [req EXCEPT ![r] = h]
  BY <1>1 DEF Aggregate, Become
<1> HIDE DEF h
<1>5. req'[r] = h
  BY <1>2, <1>4
<1>6. \A v \in User : h.seen[v] \subseteq About(v)
  BY <1>1, <1>2, <1>3 DEF IInv, InFlight, Rests, Req
<1>7. \A v \in User : About(v)' = About(v)
  BY <1>2 DEF About, Published
<1>8. Rests(r)'
  BY <1>3, <1>5, <1>6, <1>7 DEF Rests, At
<1>9. \A o \in Order : ~WillOpen(r, o)
  BY <1>2 DEF WillOpen, At
<1> QED BY <1>2, <1>3, <1>4, <1>8, <1>9, SameReplies, HandlerStep

LEMMA WriteStep ==
    ASSUME IInv, NEW r \in Request, NEW u \in User, Write(r, u)
    PROVE  IInv'
<1>1. /\ req[r] \in Req /\ req \in [Request -> Req] /\ At(r, "recalculate")
      /\ UNCHANGED <<window, state, reply, stops>>
  BY DEF Write, IInv, TypeOK
<1>2. rated' = [rated EXCEPT ![u] = req[r].seen[u]] /\ rated \in [User -> SUBSET Review]
  BY DEF Write, IInv, TypeOK
<1>3. \A v \in User : req[r].seen[v] \subseteq About(v) /\ rated[v] \subseteq About(v)
  BY <1>1 DEF IInv, InFlight, Rests, At, RatedFromPublished
<1>4. \A v \in User : About(v)' = About(v) /\ About(v) \subseteq Review
  BY <1>1 DEF About, Published
<1>5. rated' \in [User -> SUBSET Review] /\ RatedFromPublished'
  BY <1>2, <1>3, <1>4 DEF RatedFromPublished
<1>6. reply' \in [Review -> Text \union {None}] /\ RepliesSeen'
  BY <1>1 DEF IInv, TypeOK, RepliesSeen, Published
<1>7. \A o \in Order : ~WillOpen(r, o)
  BY <1>1 DEF WillOpen, At
<1>8. CASE Ends(r, u)
  <2>1. req' = [req EXCEPT ![r] = Idle] /\ req'[r] = Idle
    BY <1>1, <1>8 DEF Write, Become
  <2> QED BY <1>1, <1>5, <1>6, <1>7, <2>1, IdleReq, IdleRests, HandlerStep
<1>9. CASE ~Ends(r, u)
  <2> DEFINE h == [req[r] EXCEPT !.read = @ \ {u}]
  <2>1. req' = [req EXCEPT ![r] = h]
    BY <1>9 DEF Write, Become
  <2>2. h \in Req /\ h.pc = "recalculate" /\ h.seen = req[r].seen
    BY <1>1 DEF Req, At
  <2> HIDE DEF h
  <2>3. req'[r] = h
    BY <1>1, <2>1
  <2>4. Rests(r)'
    BY <1>3, <1>4, <2>2, <2>3 DEF Rests, At
  <2> QED BY <1>1, <1>5, <1>6, <1>7, <2>1, <2>2, <2>4, HandlerStep
<1> QED BY <1>8, <1>9

LEMMA SaveReplyStep ==
    ASSUME IInv, NEW r \in Request, SaveReply(r)
    PROVE  IInv'
<1>1. /\ req \in [Request -> Req] /\ At(r, "reply") /\ req[r].text \in Text \union {None}
      /\ UNCHANGED <<window, state, rated, stops>>
      /\ req[r].review \in Review /\ Published(req[r].review)
  BY DEF SaveReply, At, IInv, TypeOK, InFlight, Rests, Req
<1>2. req' = [req EXCEPT ![r] = Idle] /\ req'[r] = Idle
  BY <1>1 DEF SaveReply, Become
<1>3. reply' \in [Review -> Text \union {None}] /\ RepliesSeen'
  BY <1>1 DEF SaveReply, IInv, TypeOK, RepliesSeen, Published
<1>4. rated' \in [User -> SUBSET Review] /\ RatedFromPublished'
  BY <1>1 DEF IInv, TypeOK, RatedFromPublished, About, Published
<1>5. \A o \in Order : ~WillOpen(r, o)
  BY <1>1 DEF WillOpen, At
<1> QED BY <1>1, <1>2, <1>3, <1>4, <1>5, IdleReq, IdleRests, HandlerStep

(***************************************************************************)
(* Steps that write a review or open some                                  *)
(***************************************************************************)
LEMMA StatesKept ==
    ASSUME IInv, Grows, UNCHANGED <<reply, rated>>,
           \A rev \in Review : Published(rev)' =>
             Published(rev) \/ (Exists(Partner(rev)) \/ window[rev[1]] = "closed")
    PROVE  Blind' /\ RatedFromPublished' /\ RepliesSeen'
<1>1. \A rev \in Review : Partner(rev) \in Review /\ rev[1] \in Order
  BY ReviewFacts
<1>2. Blind'
  BY <1>1 DEF IInv, Blind, Grows
<1>3. RatedFromPublished'
  BY AboutGrows DEF IInv, RatedFromPublished
<1>4. RepliesSeen'
  BY DEF IInv, RepliesSeen, Grows
<1> QED BY <1>2, <1>3, <1>4

LEMMA InsertStep ==
    ASSUME IInv, NEW r \in Request, Insert(r)
    PROVE  IInv'
<1>1. PICK rev \in Review : rev = req[r].review
  BY DEF Insert, At, IInv, InFlight, Rests
<1>2. /\ req[r] \in Req /\ req \in [Request -> Req] /\ At(r, "insert")
      /\ UNCHANGED <<window, reply, rated, stops>>
      /\ state \in [Review -> {"none", "hidden", "published"}]
  BY DEF Insert, IInv, TypeOK
<1>3. \A o \in Order : ~WillOpen(r, o)
  BY <1>2 DEF WillOpen, At
<1>4. CASE Exists(rev)
  <2>1. req' = [req EXCEPT ![r] = Idle] /\ req'[r] = Idle /\ UNCHANGED state
    BY <1>1, <1>2, <1>4 DEF Insert, Become
  <2> QED BY <1>2, <1>3, <2>1, IdleReq, IdleRests, SameReplies, HandlerStep
<1>5. CASE ~Exists(rev)
  <2> DEFINE h == [req[r] EXCEPT !.pc = "find"]
  <2>1. req' = [req EXCEPT ![r] = h] /\ state' = [state EXCEPT ![rev] = "hidden"]
    BY <1>1, <1>5 DEF Insert, Become
  <2>2. h \in Req /\ h.pc = "find" /\ h.review = rev
    BY <1>1, <1>2 DEF Req
  <2> HIDE DEF h
  <2>3. req'[r] = h /\ \A q \in Request \ {r} : req'[q] = req[q]
    BY <1>2, <2>1
  <2>4. /\ Exists(rev)' /\ ~Published(rev)'
        /\ \A e \in Review \ {rev} : state'[e] = state[e]
    BY <1>2, <2>1 DEF Exists, Published
  <2>5. Grows
    BY <1>2, <1>5, <2>4 DEF Grows, Exists, Published
  <2>6. Rests(r)'
    BY <2>2, <2>3, <2>4 DEF Rests, At, Exists
  <2>7. InFlight'
    BY <2>3, <2>5, <2>6, RestsStill DEF IInv, InFlight
  <2>8. Blind' /\ RatedFromPublished' /\ RepliesSeen'
    BY <1>2, <2>4, <2>5, StatesKept DEF Published
  <2>9. OpenTogether'
    <3> SUFFICES ASSUME NEW o \in Order, stops = 0, BothExist(o)',
                        ~ \A role \in Role : Published(<<o, role>>)'
                 PROVE  \E q \in Request : WillOpen(q, o)'
      BY <1>2 DEF OpenTogether, BothExist
    <3>1. CASE rev[1] = o
      BY <2>2, <2>3, <3>1 DEF WillOpen, At
    <3>2. CASE rev[1] # o
      <4>1. \A role \in Role : <<o, role>> \in Review \ {rev}
        BY <3>2 DEF Review
      <4>2. BothExist(o) /\ ~ \A role \in Role : Published(<<o, role>>)
        BY <2>4, <4>1 DEF BothExist, Exists, Published
      <4>3. PICK q \in Request : WillOpen(q, o)
        BY <4>2 DEF IInv, OpenTogether, BothExist
      <4>4. q # r
        BY <1>3, <4>3
      <4> QED BY <2>3, <4>3, <4>4 DEF WillOpen, At
    <3> QED BY <3>1, <3>2
  <2>10. TypeOK'
    BY <1>2, <2>1, <2>2 DEF IInv, TypeOK
  <2> QED BY <2>7, <2>8, <2>9, <2>10 DEF IInv
<1> QED BY <1>4, <1>5

LEMMA UpdateStep ==
    ASSUME IInv, NEW r \in Request, UpdateMany(r)
    PROVE  IInv'
<1>1. /\ req[r] \in Req /\ req \in [Request -> Req] /\ At(r, "update")
      /\ UNCHANGED <<window, reply, rated, stops>>
      /\ state \in [Review -> {"none", "hidden", "published"}]
  BY DEF UpdateMany, IInv, TypeOK
<1>2. PICK d \in SUBSET Review : d = req[r].due
  BY <1>1 DEF Req
<1>3. \A rev \in d : Exists(rev) /\ (Exists(Partner(rev)) \/ window[rev[1]] = "closed")
  BY <1>1, <1>2 DEF IInv, InFlight, Rests
<1>4. PICK t \in SUBSET User : t = {Target(rev) : rev \in d}
  <2>1. \A rev \in d : Target(rev) \in User
    BY <1>2, ReviewFacts
  <2>2. {Target(rev) : rev \in d} \in SUBSET User
    BY <2>1
  <2> QED BY <2>2
<1> DEFINE h == [Idle EXCEPT !.pc = "recalculate", !.todo = t]
<1>5. req' = [req EXCEPT ![r] = h]
  BY <1>2, <1>4 DEF UpdateMany, Become
<1>6. h \in Req /\ h.pc = "recalculate" /\ \A u \in User : h.seen[u] = {}
  BY IdleReq DEF Req
<1> HIDE DEF h
<1>7. req'[r] = h /\ \A q \in Request \ {r} : req'[q] = req[q]
  BY <1>1, <1>5
<1>8. \A rev \in Review : state'[rev] = IF rev \in d THEN "published" ELSE state[rev]
  BY <1>2 DEF UpdateMany
<1>9. Grows
  BY <1>1, <1>8 DEF Grows, Exists, Published
<1>10. Blind' /\ RatedFromPublished' /\ RepliesSeen'
  BY <1>1, <1>3, <1>8, <1>9, StatesKept DEF Published
<1>11. state' \in [Review -> {"none", "hidden", "published"}]
  BY <1>1, <1>2 DEF UpdateMany
<1>12. OpenTogether'
  <2> SUFFICES ASSUME NEW o \in Order, stops = 0, BothExist(o)',
                      ~ \A role \in Role : Published(<<o, role>>)'
               PROVE  \E q \in Request : WillOpen(q, o)'
    BY <1>1 DEF OpenTogether, BothExist
  <2>1. \A role \in Role : <<o, role>> \in Review
    BY DEF Review
  <2>2. BothExist(o) /\ ~ \A role \in Role : Published(<<o, role>>)
    BY <1>3, <1>8, <2>1 DEF BothExist, Exists, Published
  <2>3. PICK q \in Request : WillOpen(q, o)
    BY <2>2 DEF IInv, OpenTogether, BothExist
  <2>4. CASE q = r
    <3>1. {<<o, "performer">>, <<o, "customer">>} \subseteq d
      BY <1>1, <1>2, <2>3, <2>4 DEF WillOpen, At
    <3>2. \A role \in Role : Published(<<o, role>>)'
      BY <1>8, <2>1, <3>1 DEF Published, Role
    <3> QED BY <3>2
  <2>5. CASE q # r
    BY <1>7, <2>3, <2>5 DEF WillOpen, At
  <2> QED BY <2>4, <2>5
<1>13. Rests(r)'
  BY <1>6, <1>7 DEF Rests, At
<1>14. InFlight'
  BY <1>7, <1>9, <1>13, RestsStill DEF IInv, InFlight
<1>15. TypeOK'
  BY <1>1, <1>5, <1>6, <1>11 DEF IInv, TypeOK
<1> QED BY <1>10, <1>12, <1>14, <1>15 DEF IInv

(***************************************************************************)
(* Steps around the service                                                *)
(***************************************************************************)
LEMMA WindowStep ==
    ASSUME IInv, NEW o \in Order, Complete(o) \/ Close(o)
    PROVE  IInv'
<1>1. UNCHANGED <<state, reply, rated, req, stops>>
  BY DEF Complete, Close
<1>2. /\ window' \in [Order -> {"none", "open", "closed"}]
      /\ \A w \in Order : window[w] = "closed" => window'[w] = "closed"
  BY DEF Complete, Close, IInv, TypeOK
<1>3. Grows
  BY <1>1, <1>2 DEF Grows, Exists, Published
<1>4. InFlight'
  BY <1>1, <1>3, RestsStill DEF IInv, InFlight
<1>5. Blind' /\ RatedFromPublished' /\ RepliesSeen'
  BY <1>1, <1>3, StatesKept DEF Published
<1>6. OpenTogether'
  BY <1>1 DEF IInv, OpenTogether, WillOpen, At, Exists, Published
<1>7. TypeOK'
  BY <1>1, <1>2 DEF IInv, TypeOK
<1> QED BY <1>4, <1>5, <1>6, <1>7 DEF IInv

LEMMA StopStep ==
    ASSUME IInv, Stop
    PROVE  IInv'
<1>1. UNCHANGED <<window, state, reply, rated>> /\ \A r \in Request : req'[r] = Idle
  BY DEF Stop
<1>2. TypeOK'
  BY <1>1, IdleReq, ReviewsAssumption DEF Stop, IInv, TypeOK
<1>3. InFlight'
  BY <1>1, IdleRests DEF InFlight
<1>4. Grows
  BY <1>1 DEF Grows, Exists, Published
<1>5. Blind' /\ RatedFromPublished' /\ RepliesSeen'
  BY <1>1, <1>4, StatesKept DEF Published
<1>6. stops' # 0
  BY ReviewsAssumption DEF Stop, IInv, TypeOK
<1> QED BY <1>2, <1>3, <1>5, <1>6 DEF IInv, OpenTogether

LEMMA StillStep ==
    ASSUME IInv, UNCHANGED vars
    PROVE  IInv'
<1>1. UNCHANGED <<window, state, reply, rated, req, stops>>
  BY DEF vars
<1>2. Grows
  BY <1>1 DEF Grows, Exists, Published
<1>3. InFlight'
  BY <1>1, <1>2, RestsStill DEF IInv, InFlight
<1>4. Blind' /\ RatedFromPublished' /\ RepliesSeen'
  BY <1>1, <1>2, StatesKept DEF Published
<1>5. OpenTogether'
  BY <1>1 DEF IInv, OpenTogether, WillOpen, At, Exists, Published
<1> QED BY <1>1, <1>3, <1>4, <1>5 DEF IInv, TypeOK

(***************************************************************************)
(* The theorems                                                            *)
(***************************************************************************)
LEMMA InitIInv == Init => IInv
<1> SUFFICES ASSUME Init PROVE IInv
  OBVIOUS
<1>1. TypeOK
  BY IdleReq, ReviewsAssumption DEF Init, TypeOK
<1>2. \A rev \in Review : ~Exists(rev) /\ ~Published(rev) /\ reply[rev] = None
  BY DEF Init, Exists, Published
<1>3. InFlight
  BY IdleReq DEF Init, InFlight, Rests, At
<1>4. OpenTogether
  <2>1. \A o \in Order : ~Exists(<<o, "performer">>)
    BY <1>2 DEF Review, Role
  <2> QED BY <2>1 DEF OpenTogether, Role
<1>5. RatedFromPublished
  BY DEF Init, RatedFromPublished
<1> QED BY <1>1, <1>2, <1>3, <1>4, <1>5 DEF IInv, Blind, RepliesSeen

LEMMA NextIInv == IInv /\ [Next]_vars => IInv'
<1> SUFFICES ASSUME IInv, [Next]_vars PROVE IInv'
  OBVIOUS
<1>1. ASSUME NEW r \in Request, Step(r)
      PROVE  IInv'
  BY <1>1, InsertStep, FindStep, UpdateStep, SaveReplyStep, AggregateStep, WriteStep DEF Step
<1> QED BY <1>1, PublishDueStep, CreateStep, ReplyStep, WindowStep, StopStep, StillStep DEF Next

(* Every reachable state of the reviews satisfies the invariant.            *)
THEOREM Invariance == Spec => []IInv
<1>1. Init => IInv
  BY InitIInv
<1>2. IInv /\ [Next]_vars => IInv'
  BY NextIInv
<1> QED BY <1>1, <1>2, PTL DEF Spec

(* A review opens only when the other side has written or can write no more. *)
THEOREM Blindness == Spec => []Blind
<1>1. IInv => Blind
  BY DEF IInv
<1> QED BY <1>1, Invariance, PTL

(* recalculate never puts an unpublished review into a rating.              *)
THEOREM Ratings == Spec => []RatedFromPublished
<1>1. IInv => RatedFromPublished
  BY DEF IInv
<1> QED BY <1>1, Invariance, PTL

(* Nothing unpublished is shown or counted: the two facts above in one.     *)
THEOREM Leaks == Spec => []NothingLeaks
<1>1. IInv => NothingLeaks
  BY DEF IInv, NothingLeaks
<1> QED BY <1>1, Invariance, PTL

(* create inserts and then looks for the counterpart: of two reviewers at   *)
(* once, one finds both reviews.                                            *)
THEOREM Together == Spec => []OpenTogether
<1>1. IInv => OpenTogether
  BY DEF IInv
<1> QED BY <1>1, Invariance, PTL

(* Only Create takes an idle handler to the insert.                         *)
LEMMA OnlyCreate ==
    ASSUME IInv, Next, NEW r \in Request, At(r, "idle"), At(r, "insert")'
    PROVE  \E rev \in Review : Create(r, rev) /\ req'[r].review = rev
<1>t. req \in [Request -> Req] /\ req[r].pc = "idle" /\ req'[r].pc = "insert"
  BY DEF IInv, TypeOK, At
<1>1. \A q \in Request : \A h : req' = [req EXCEPT ![q] = h] => q = r /\ h.pc = "insert"
  BY <1>t
<1>2. ASSUME NEW q \in Request, Step(q)
      PROVE  FALSE
  <2>1. req[q].pc # "idle"
    BY <1>2 DEF Step, Insert, FindCounterpart, UpdateMany, SaveReply, Aggregate, Write, At
  <2>2. \E h : req' = [req EXCEPT ![q] = h]
    BY <1>2 DEF Step, Insert, FindCounterpart, UpdateMany, SaveReply, Aggregate, Write, Become
  <2> QED BY <1>t, <1>1, <2>1, <2>2
<1>3. ASSUME NEW q \in Request, PublishDue(q)
      PROVE  FALSE
  <2>1. PICK d \in SUBSET Review : d = Due
    BY DEF Due
  <2> DEFINE h == [Idle EXCEPT !.pc = "update", !.due = d]
  <2>2. req' = [req EXCEPT ![q] = h]
    BY <1>3, <2>1 DEF PublishDue, Become
  <2>3. h.pc = "update"
    BY IdleReq DEF Req
  <2> HIDE DEF h
  <2> QED BY <1>1, <2>2, <2>3
<1>4. ASSUME NEW q \in Request, NEW rev \in Review, NEW t \in Text, Reply(q, rev, t)
      PROVE  FALSE
  <2> DEFINE h == [Idle EXCEPT !.pc = "reply", !.review = rev, !.text = t]
  <2>1. req' = [req EXCEPT ![q] = h]
    BY <1>4 DEF Reply, Become
  <2>2. h.pc = "reply"
    BY IdleReq DEF Req
  <2> HIDE DEF h
  <2> QED BY <1>1, <2>1, <2>2
<1>5. ASSUME NEW q \in Request, NEW rev \in Review, Create(q, rev)
      PROVE  q = r /\ req'[r].review = rev
  <2> DEFINE h == [Idle EXCEPT !.pc = "insert", !.review = rev]
  <2>1. req' = [req EXCEPT ![q] = h]
    BY <1>5 DEF Create, Become
  <2>2. h.review = rev
    BY IdleReq DEF Req
  <2> HIDE DEF h
  <2> QED BY <1>t, <1>1, <2>1, <2>2
<1>6. ASSUME NEW o \in Order, Complete(o) \/ Close(o)
      PROVE  FALSE
  BY <1>t, <1>6 DEF Complete, Close
<1>7. CASE Stop
  BY <1>t, <1>7, IdleReq DEF Stop
<1> QED BY <1>2, <1>3, <1>4, <1>5, <1>6, <1>7 DEF Next

(* Who starts to write has not been shown what the other side wrote.        *)
THEOREM Retort == Spec => NoRetort
<1> DEFINE Unseen == \A r \in Request : \A rev \in Review :
             At(r, "idle") /\ At(r, "insert")' /\ req'[r].review = rev /\ ~Exists(rev)
               => ~Published(Partner(rev))
<1>1. IInv /\ [Next]_vars => [Unseen]_vars
  <2> SUFFICES ASSUME IInv, Next, NEW r \in Request, NEW rev \in Review,
                      At(r, "idle"), At(r, "insert")', req'[r].review = rev, ~Exists(rev)
               PROVE  ~Published(Partner(rev))
    BY DEF Unseen
  <2>1. window[rev[1]] = "open"
    BY OnlyCreate DEF Create
  <2>2. Partner(rev) \in Review /\ Partner(Partner(rev)) = rev /\ Partner(rev)[1] = rev[1]
    BY ReviewFacts
  <2> QED BY <2>1, <2>2 DEF IInv, Blind
<1> QED BY <1>1, Invariance, PTL DEF Spec, NoRetort

(***************************************************************************)
(* One handler at a time                                                   *)
(***************************************************************************)
\* The handler r has still to write the profile of u.
Owes(r, u) == At(r, "recalculate") /\ u \in req[r].todo \union req[r].read

\* What an aggregate found is what there still is when the profile is written.
Exact ==
    /\ \A r \in Request \ {r1} : At(r, "idle")
    /\ \A r \in Request : At(r, "recalculate") =>
          \A u \in req[r].read : req[r].seen[u] = About(u)
    /\ \A u \in User : rated[u] = About(u) \/ \E r \in Request : Owes(r, u)

\* Nothing is published, and only r1 may change.
Unseen ==
    /\ \A rev \in Review : Published(rev)' <=> Published(rev)
    /\ rated' = rated

LEMMA SameAbout ==
    ASSUME Unseen
    PROVE  \A u \in User : About(u)' = About(u)
BY DEF Unseen, About

\* The steps that neither publish nor recalculate.
LEMMA ExactUnseen ==
    ASSUME TypeOK, Exact, Unseen, NEW r \in Request, OneHandler, r = r1,
           req'[r].pc # "recalculate", ~At(r, "recalculate")
    PROVE  Exact'
<1>1. \A q \in Request \ {r} : At(q, "idle") /\ At(q, "idle")'
  BY DEF Exact, OneHandler, At, Idle
<1>2. \A u \in User : rated[u] = About(u)
  BY <1>1 DEF Exact, Owes, At
<1>3. \A u \in User : rated'[u] = About(u)'
  BY <1>2, SameAbout DEF Unseen
<1>4. \A q \in Request : ~At(q, "recalculate")'
  BY <1>1 DEF At
<1> QED BY <1>1, <1>3, <1>4 DEF Exact

\* Only r1 takes steps.
LEMMA OnlyOne ==
    ASSUME TypeOK, Exact, OneHandler, NEW r \in Request, NEW next,
           next.pc # "idle" \/ ~At(r, "idle"), Become(r, next)
    PROVE  r = r1 /\ req'[r] = next
<1>1. req'[r] = next
  BY DEF TypeOK, Become
<1>2. r # r1 => next.pc = "idle"
  BY <1>1 DEF OneHandler, Idle
<1>3. r # r1 => At(r, "idle")
  BY DEF Exact
<1> QED BY <1>1, <1>2, <1>3

LEMMA ExactUpdate ==
    ASSUME TypeOK, Exact, OneHandler, NEW r \in Request, UpdateMany(r)
    PROVE  Exact'
<1> DEFINE next == [Idle EXCEPT !.pc = "recalculate", !.todo = {Target(rev) : rev \in req[r].due}]
<1>1. Become(r, next) /\ next.pc = "recalculate" /\ next.read = {}
      /\ next.todo = {Target(rev) : rev \in req[r].due}
  BY DEF UpdateMany, Idle
<1> HIDE DEF next
<1>2. r = r1 /\ req'[r] = next /\ req[r].pc = "update" /\ rated' = rated
  BY <1>1, OnlyOne DEF UpdateMany, At
<1>3. /\ \A q \in Request \ {r} : At(q, "idle") /\ At(q, "idle")'
      /\ \A u \in User : rated[u] = About(u)
  BY <1>2 DEF Exact, OneHandler, At, Idle, Owes
<1>4. ASSUME NEW u \in User, u \notin next.todo
      PROVE  About(u)' = About(u)
  <2>1. \A rev \in Review : rev \in req[r].due => Target(rev) # u
    BY <1>1, <1>4
  <2> QED BY <2>1 DEF About, Published, UpdateMany
<1>5. \A u \in User : rated'[u] = About(u)' \/ u \in next.todo
  BY <1>2, <1>3, <1>4
<1>6. \A u \in User : rated'[u] = About(u)' \/ Owes(r, u)'
  BY <1>1, <1>2, <1>5 DEF Owes, At
<1>7. \A q \in Request : At(q, "recalculate")' => \A u \in req'[q].read : req'[q].seen[u] = About(u)'
  BY <1>1, <1>2, <1>3 DEF At
<1> QED BY <1>2, <1>3, <1>6, <1>7 DEF Exact

LEMMA ExactAggregate ==
    ASSUME TypeOK, Exact, OneHandler, NEW r \in Request, NEW u \in User, Aggregate(r, u)
    PROVE  Exact'
<1> DEFINE next == [req[r] EXCEPT !.todo = req[r].todo \ {u}, !.read = req[r].read \union {u},
                                  !.seen = [req[r].seen EXCEPT ![u] = About(u)]]
<1>1. req[r] \in Req
  BY DEF TypeOK
<1>2. /\ Become(r, next) /\ next.pc = "recalculate" /\ req[r].pc = "recalculate"
      /\ next.todo = req[r].todo \ {u} /\ next.read = req[r].read \union {u}
      /\ next.seen[u] = About(u) /\ \A v \in User \ {u} : next.seen[v] = req[r].seen[v]
      /\ rated' = rated /\ Unseen
  BY <1>1 DEF Aggregate, Req, At, Unseen, Published
<1> HIDE DEF next
<1>3. r = r1 /\ req'[r] = next /\ req[r].read \in SUBSET User
  BY <1>1, <1>2, OnlyOne DEF Req
<1>4. /\ \A q \in Request \ {r} : At(q, "idle") /\ At(q, "idle")'
      /\ \A v \in User : About(v)' = About(v)
  BY <1>2, <1>3, SameAbout DEF Exact, OneHandler, At, Idle
<1>5. \A v \in User : rated'[v] = About(v)' \/ Owes(r, v)'
  BY <1>2, <1>3, <1>4 DEF Exact, Owes, At
<1>6. \A v \in req'[r].read : req'[r].seen[v] = About(v)'
  BY <1>2, <1>3, <1>4 DEF Exact, At
<1> QED BY <1>3, <1>4, <1>5, <1>6 DEF Exact, At

LEMMA ExactWrite ==
    ASSUME TypeOK, Exact, OneHandler, NEW r \in Request, NEW u \in User, Write(r, u)
    PROVE  Exact'
<1> DEFINE next == IF Ends(r, u) THEN Idle ELSE [req[r] EXCEPT !.read = req[r].read \ {u}]
<1>1. req[r] \in Req
  BY DEF TypeOK
<1>2. /\ Become(r, next) /\ At(r, "recalculate") /\ u \in req[r].read
      /\ Ends(r, u) => next = Idle
      /\ ~Ends(r, u) => /\ next.pc = "recalculate" /\ next.todo = req[r].todo
                        /\ next.read = req[r].read \ {u} /\ next.seen = req[r].seen
      /\ Idle.pc = "idle"
      /\ \A rev \in Review : Published(rev)' <=> Published(rev)
  BY <1>1 DEF Write, Req, Published, At, Idle
<1> HIDE DEF next
<1>3. r = r1 /\ req'[r] = next /\ req[r].read \in SUBSET User
  BY <1>1, <1>2, OnlyOne DEF Req, At
<1>4. /\ \A q \in Request \ {r} : At(q, "idle") /\ At(q, "idle")'
      /\ \A v \in User : About(v)' = About(v)
  BY <1>2, <1>3 DEF Exact, OneHandler, At, Idle, About
<1>5. req[r].seen[u] = About(u) /\ \A v \in User : rated[v] = About(v) \/ Owes(r, v)
  BY <1>2, <1>4 DEF Exact, Owes, At
<1>6. rated'[u] = About(u) /\ \A v \in User \ {u} : rated'[v] = rated[v]
  BY <1>5 DEF Write, TypeOK
<1>7. CASE Ends(r, u)
  <2>1. \A v \in User \ {u} : rated[v] = About(v)
    BY <1>5, <1>7 DEF Ends, Owes
  <2>2. req'[r].pc = "idle"
    BY <1>2, <1>3, <1>7
  <2> QED BY <1>3, <1>4, <1>6, <2>1, <2>2 DEF Exact, At
<1>8. CASE ~Ends(r, u)
  <2>1. \A v \in User : rated'[v] = About(v)' \/ Owes(r, v)'
    BY <1>2, <1>3, <1>4, <1>5, <1>6, <1>8 DEF Owes, At
  <2>2. \A v \in req'[r].read : req'[r].seen[v] = About(v)'
    BY <1>2, <1>3, <1>4, <1>8 DEF Exact
  <2> QED BY <1>3, <1>4, <2>1, <2>2 DEF Exact, At
<1> QED BY <1>7, <1>8

\* The other steps of a handler: each becomes busy with something else, or ends.
LEMMA ExactOther ==
    ASSUME TypeOK, Exact, OneHandler, NEW r \in Request,
           \/ Insert(r) \/ FindCounterpart(r) \/ SaveReply(r) \/ PublishDue(r)
           \/ \E rev \in Review : Create(r, rev) \/ \E t \in Text : Reply(r, rev, t)
    PROVE  Exact'
<1>1. PICK next : /\ Become(r, next) /\ next.pc # "recalculate"
                  /\ next.pc # "idle" \/ ~At(r, "idle")
  <2>2. req[r] \in Req
    BY DEF TypeOK
  <2>3. \A pc, due : /\ [req[r] EXCEPT !.pc = pc].pc = pc
                     /\ [req[r] EXCEPT !.pc = pc, !.due = due].pc = pc
    BY <2>2 DEF Req
  <2>4. Idle.pc = "idle"
    BY DEF Idle
  <2>5. CASE PublishDue(r)
    <3> DEFINE next == [Idle EXCEPT !.pc = "update", !.due = Due]
    <3>1. next.pc = "update" /\ Become(r, next)
      BY <2>5 DEF PublishDue, Idle
    <3> QED BY <3>1
  <2>6. ASSUME NEW rev \in Review, Create(r, rev)
        PROVE  \E next : Become(r, next) /\ next.pc = "insert"
    <3> DEFINE next == [Idle EXCEPT !.pc = "insert", !.review = rev]
    <3>1. next.pc = "insert" /\ Become(r, next)
      BY <2>6 DEF Create, Idle
    <3> QED BY <3>1
  <2>10. ASSUME NEW rev \in Review, NEW t \in Text, Reply(r, rev, t)
         PROVE  \E next : Become(r, next) /\ next.pc = "reply"
    <3> DEFINE next == [Idle EXCEPT !.pc = "reply", !.review = rev, !.text = t]
    <3>1. next.pc = "reply" /\ Become(r, next)
      BY <2>10 DEF Reply, Idle
    <3> QED BY <3>1
  <2>7. CASE Insert(r)
    BY <2>3, <2>4, <2>7 DEF Insert, At
  <2>8. CASE FindCounterpart(r)
    <3> DEFINE rev  == req[r].review
               next == [req[r] EXCEPT !.pc = "update", !.due = {rev, Partner(rev)}]
    <3>1. next.pc = "update" /\ (Become(r, next) \/ Become(r, Idle)) /\ ~At(r, "idle")
      BY <2>3, <2>8 DEF FindCounterpart, At
    <3> QED BY <2>4, <3>1
  <2>9. CASE SaveReply(r)
    BY <2>4, <2>9 DEF SaveReply, At
  <2> QED BY <2>5, <2>6, <2>7, <2>8, <2>9, <2>10
<1>2. r = r1 /\ req'[r] = next
  BY <1>1, OnlyOne
<1>3. ~At(r, "recalculate")
  BY DEF Insert, FindCounterpart, SaveReply, PublishDue, Create, Reply, At
<1>4. rated' = rated
  BY DEF Insert, FindCounterpart, SaveReply, PublishDue, Create, Reply
<1>5. \A rev \in Review : Published(rev)' <=> Published(rev)
  <2>1. CASE Insert(r)
    <3>1. state' = state \/ (~Exists(req[r].review) /\ state' = [state EXCEPT ![req[r].review] = "hidden"])
      BY <2>1 DEF Insert
    <3> QED BY <3>1 DEF Published, Exists, TypeOK
  <2>2. CASE ~Insert(r)
    <3>1. state' = state
      BY <2>2 DEF FindCounterpart, SaveReply, PublishDue, Create, Reply
    <3> QED BY <3>1 DEF Published
  <2> QED BY <2>1, <2>2
<1> QED BY <1>1, <1>2, <1>3, <1>4, <1>5, ExactUnseen DEF Unseen

LEMMA ExactStill ==
    ASSUME Exact, UNCHANGED <<state, rated, req>>
    PROVE  Exact'
BY DEF Exact, At, About, Published, Owes

LEMMA ExactStep ==
    ASSUME TypeOK, Exact, OneHandler, UNCHANGED stops, Next
    PROVE  Exact'
<1>1. CASE \E o \in Order : Complete(o) \/ Close(o)
  BY <1>1, ExactStill DEF Complete, Close
<1>2. ~Stop
  BY DEF Stop, TypeOK
<1> QED BY <1>1, <1>2, ExactUpdate, ExactAggregate, ExactWrite, ExactOther DEF Next, Step

(* The reviews with one handler at a time, the same slot again and again, and*)
(* no stop; nothing else is bounded.                                         *)
OneByOne == Init /\ [][Next /\ OneHandler /\ UNCHANGED stops]_vars

LEMMA ExactInit == Init => IInv /\ Exact
BY InitIInv DEF Init, Exact, At, Idle, About, Published

(* As long as handlers do not overlap and the process does not stop, every   *)
(* profile shows the ratings of all the published reviews of its owner       *)
(* (publish and recalculate), for any number of orders and users.            *)
THEOREM RatingSolo == (OneByOne => []RatingExact) /\ (MCSpec => []SoloRating)
<1> DEFINE Held == IInv /\ (solo => Exact)
<1>1. Exact => RatingExact
  BY DEF Exact, RatingExact, Quiet, Owes, At
<1>2. OneByOne => []RatingExact
  <2>1. IInv /\ Exact /\ [Next /\ OneHandler /\ UNCHANGED stops]_vars => IInv' /\ Exact'
    <3>1. ASSUME IInv, Exact, UNCHANGED vars
          PROVE  IInv' /\ Exact'
      BY <3>1, NextIInv, ExactStill DEF vars
    <3>2. ASSUME IInv, Exact, Next, OneHandler, UNCHANGED stops
          PROVE  IInv' /\ Exact'
      BY <3>2, NextIInv, ExactStep DEF IInv
    <3> QED BY <3>1, <3>2
  <2> QED BY <1>1, <2>1, ExactInit, PTL DEF OneByOne
<1>3. MCInit => Held
  BY ExactInit DEF MCInit
<1>4. Held /\ [MCNext]_<<vars, solo>> => Held'
  <2> SUFFICES ASSUME Held, [MCNext]_<<vars, solo>>
               PROVE  Held'
    OBVIOUS
  <2>1. [Next]_vars /\ solo' = solo
    BY DEF MCNext
  <2>2. IInv'
    BY <2>1, NextIInv
  <2>3. ASSUME solo
        PROVE  Exact'
    <3>1. CASE MCNext
      BY <2>3, <3>1, ExactStep DEF MCNext, IInv
    <3>2. CASE UNCHANGED <<vars, solo>>
      BY <2>3, <3>2, ExactStill DEF vars
    <3> QED BY <3>1, <3>2
  <2> QED BY <2>1, <2>2, <2>3
<1>5. Held => SoloRating
  BY <1>1 DEF SoloRating
<1>6. MCSpec => []SoloRating
  BY <1>3, <1>4, <1>5, PTL DEF MCSpec
<1> QED BY <1>2, <1>6
=============================================================================
