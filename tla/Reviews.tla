------------------------------- MODULE Reviews -------------------------------
(* Reviews of completed orders (ReviewService). Each side of a deal writes   *)
(* one review of the other; a review is blind until the other side has       *)
(* written too or the window of the order is over. The ratings in a profile  *)
(* are recalculated from the published reviews by two queries, an aggregate  *)
(* and a write, in every handler and in the hourly timer.                    *)
EXTENDS FiniteSets, Naturals

CONSTANTS Order, User, None,
          Customer, Performer,   \* the two sides of each order
          Request,               \* the handlers and timer runs in flight at once
          Text,                  \* the texts of the replies
          MaxStops               \* how many times the process stops

ASSUME ReviewsAssumption ==
    /\ Customer  \in [Order -> User]
    /\ Performer \in [Order -> User]
    /\ \A o \in Order : Customer[o] # Performer[o]
    /\ None \notin Text
    /\ MaxStops \in Nat

VARIABLES window,   \* the window for reviews of each order
          state,    \* the reviews
          reply,    \* their replies
          rated,    \* the reviews that the ratings in a profile were made of
          req,      \* the handlers in flight
          stops

vars == <<window, state, reply, rated, req, stops>>

\* The unique index: one review of each role of each order.
Role   == {"performer", "customer"}
Review == Order \X Role

Target(rev)  == IF rev[2] = "performer" THEN Performer[rev[1]] ELSE Customer[rev[1]]
Partner(rev) == <<rev[1], IF rev[2] = "performer" THEN "customer" ELSE "performer">>

Exists(rev)    == state[rev] # "none"
Published(rev) == state[rev] = "published"
About(u)       == {rev \in Review : Published(rev) /\ Target(rev) = u}

Req == [pc     : {"idle", "insert", "find", "update", "recalculate", "reply"},
        review : Review \union {None},
        text   : Text \union {None},
        due    : SUBSET Review,            \* what publish was called with
        todo   : SUBSET User,              \* whose reviews are not yet aggregated
        read   : SUBSET User,              \* whose profile is not yet written
        seen   : [User -> SUBSET Review]]  \* what the aggregate found

Idle == [pc |-> "idle", review |-> None, text |-> None, due |-> {},
         todo |-> {}, read |-> {}, seen |-> [u \in User |-> {}]]

TypeOK ==
    /\ window \in [Order -> {"none", "open", "closed"}]
    /\ state  \in [Review -> {"none", "hidden", "published"}]
    /\ reply  \in [Review -> Text \union {None}]
    /\ rated  \in [User -> SUBSET Review]
    /\ req    \in [Request -> Req]
    /\ stops  \in 0..MaxStops

Init ==
    /\ window = [o \in Order |-> "none"]
    /\ state  = [rev \in Review |-> "none"]
    /\ reply  = [rev \in Review |-> None]
    /\ rated  = [u \in User |-> {}]
    /\ req    = [r \in Request |-> Idle]
    /\ stops  = 0

At(r, s)        == req[r].pc = s
Become(r, next) == req' = [req EXCEPT ![r] = next]

(***************************************************************************)
(* create                                                                  *)
(***************************************************************************)
CreateUnchecked(r, rev) ==   \* mistake: the window is not looked at
    /\ At(r, "idle")
    /\ window[rev[1]] # "none"
    /\ Become(r, [Idle EXCEPT !.pc = "insert", !.review = rev])
    /\ UNCHANGED <<window, state, reply, rated, stops>>

Create(r, rev) ==
    /\ At(r, "idle")
    /\ window[rev[1]] = "open"
    /\ Become(r, [Idle EXCEPT !.pc = "insert", !.review = rev])
    /\ UNCHANGED <<window, state, reply, rated, stops>>

\* The unique index refuses a second review.
Insert(r) ==
    LET rev == req[r].review
    IN  /\ At(r, "insert")
        /\ IF Exists(rev) THEN Become(r, Idle) /\ UNCHANGED state
           ELSE /\ state' = [state EXCEPT ![rev] = "hidden"]
                /\ Become(r, [req[r] EXCEPT !.pc = "find"])
        /\ UNCHANGED <<window, reply, rated, stops>>

FindAlways(r) ==   \* mistake: the review opens whether or not there is a counterpart
    LET rev == req[r].review
    IN  /\ At(r, "find")
        /\ Become(r, [req[r] EXCEPT !.pc = "update", !.due = {rev}])
        /\ UNCHANGED <<window, state, reply, rated, stops>>

FindPublished(r) ==   \* mistake: only a published counterpart counts
    LET rev == req[r].review
    IN  /\ At(r, "find")
        /\ Become(r, IF Published(Partner(rev))
                     THEN [req[r] EXCEPT !.pc = "update", !.due = {rev, Partner(rev)}]
                     ELSE Idle)
        /\ UNCHANGED <<window, state, reply, rated, stops>>

FindCounterpart(r) ==
    LET rev == req[r].review
    IN  /\ At(r, "find")
        /\ Become(r, IF Exists(Partner(rev))
                     THEN [req[r] EXCEPT !.pc = "update", !.due = {rev, Partner(rev)}]
                     ELSE Idle)
        /\ UNCHANGED <<window, state, reply, rated, stops>>

(***************************************************************************)
(* publishDue, publish and recalculate                                     *)
(***************************************************************************)
NeverDue == {}   \* mistake: the comparison never holds

Due == {rev \in Review : state[rev] = "hidden" /\ window[rev[1]] = "closed"}

PublishDue(r) ==
    /\ At(r, "idle")
    /\ Due # {}
    /\ Become(r, [Idle EXCEPT !.pc = "update", !.due = Due])
    /\ UNCHANGED <<window, state, reply, rated, stops>>

UpdateMany(r) ==
    /\ At(r, "update")
    /\ state' = [rev \in Review |-> IF rev \in req[r].due THEN "published" ELSE state[rev]]
    /\ Become(r, [Idle EXCEPT !.pc = "recalculate", !.todo = {Target(rev) : rev \in req[r].due}])
    /\ UNCHANGED <<window, reply, rated, stops>>

Aggregate(r, u) ==
    /\ At(r, "recalculate") /\ u \in req[r].todo
    /\ Become(r, [req[r] EXCEPT !.todo = @ \ {u}, !.read = @ \union {u}, !.seen[u] = About(u)])
    /\ UNCHANGED <<window, state, reply, rated, stops>>

Ends(r, u) == req[r].todo = {} /\ req[r].read = {u}

WritePerformer(r, u) ==   \* mistake: only the performer's profile is written
    /\ At(r, "recalculate") /\ u \in req[r].read
    /\ rated' = IF \E o \in Order : Performer[o] = u THEN [rated EXCEPT ![u] = req[r].seen[u]] ELSE rated
    /\ Become(r, IF Ends(r, u) THEN Idle ELSE [req[r] EXCEPT !.read = @ \ {u}])
    /\ UNCHANGED <<window, state, reply, stops>>

Write(r, u) ==
    /\ At(r, "recalculate") /\ u \in req[r].read
    /\ rated' = [rated EXCEPT ![u] = req[r].seen[u]]
    /\ Become(r, IF Ends(r, u) THEN Idle ELSE [req[r] EXCEPT !.read = @ \ {u}])
    /\ UNCHANGED <<window, state, reply, stops>>

(***************************************************************************)
(* reply                                                                   *)
(***************************************************************************)
Reply(r, rev, t) ==
    /\ At(r, "idle")
    /\ Published(rev)
    /\ reply[rev] = None
    /\ Become(r, [Idle EXCEPT !.pc = "reply", !.review = rev, !.text = t])
    /\ UNCHANGED <<window, state, reply, rated, stops>>

SaveReply(r) ==
    /\ At(r, "reply")
    /\ reply' = [reply EXCEPT ![req[r].review] = req[r].text]
    /\ Become(r, Idle)
    /\ UNCHANGED <<window, state, rated, stops>>

(***************************************************************************)
(* Around the service: an order is completed, its window closes, the       *)
(* process stops.                                                          *)
(***************************************************************************)
Complete(o) ==
    /\ window[o] = "none"
    /\ window' = [window EXCEPT ![o] = "open"]
    /\ UNCHANGED <<state, reply, rated, req, stops>>

Close(o) ==
    /\ window[o] = "open"
    /\ window' = [window EXCEPT ![o] = "closed"]
    /\ UNCHANGED <<state, reply, rated, req, stops>>

Stop ==
    /\ stops < MaxStops
    /\ stops' = stops + 1
    /\ req' = [r \in Request |-> Idle]
    /\ UNCHANGED <<window, state, reply, rated>>

Step(r) ==
    \/ Insert(r) \/ FindCounterpart(r) \/ UpdateMany(r) \/ SaveReply(r)
    \/ \E u \in User : Aggregate(r, u) \/ Write(r, u)

Next ==
    \/ \E r \in Request :
          \/ Step(r) \/ PublishDue(r)
          \/ \E rev \in Review : Create(r, rev) \/ \E t \in Text : Reply(r, rev, t)
    \/ \E o \in Order : Complete(o) \/ Close(o)
    \/ Stop

Spec == Init /\ [][Next]_vars

(* A query that was sent is answered while the process runs; a window ends; *)
(* the interval timer fires however busy the handlers are.                  *)
Fairness ==
    /\ \A r \in Request : WF_vars(Step(r))
    /\ \A o \in Order : WF_vars(Close(o))
    /\ SF_vars(\E r \in Request : PublishDue(r))

FairSpec == Spec /\ Fairness

(***************************************************************************)
(* What holds under every interleaving and any number of stops             *)
(***************************************************************************)

(* A review is blind: it opens only when the other side has written as well *)
(* or can write no more.                                                    *)
Blind == \A rev \in Review :
    Published(rev) => Exists(Partner(rev)) \/ window[rev[1]] = "closed"

(* Nobody answers a bad review with a bad review: one who starts to write   *)
(* has not been shown what the other side wrote.                            *)
NoRetort == [][\A r \in Request : \A rev \in Review :
    At(r, "idle") /\ At(r, "insert")' /\ req'[r].review = rev /\ ~Exists(rev)
      => ~Published(Partner(rev))]_vars

(* The ratings in a profile are made of published reviews of its owner,     *)
(* whatever the handlers aggregated and whenever they write it.             *)
RatedFromPublished == \A u \in User : rated[u] \subseteq About(u)

(* A hidden review shows nowhere: neither itself nor in a rating.           *)
NothingLeaks == Blind /\ RatedFromPublished

(* What a handler in flight rests on.                                       *)
Rests(r) ==
    /\ req[r].pc \in {"insert", "find"} => req[r].review \in Review
    /\ At(r, "find") => Exists(req[r].review)
    /\ At(r, "update") => \A rev \in req[r].due :
         Exists(rev) /\ (Exists(Partner(rev)) \/ window[rev[1]] = "closed")
    /\ At(r, "recalculate") => \A u \in User : req[r].seen[u] \subseteq About(u)
    /\ At(r, "reply") => req[r].review \in Review /\ Published(req[r].review)

InFlight == \A r \in Request : Rests(r)

(* Only a published review has a reply.                                     *)
RepliesSeen == \A rev \in Review : reply[rev] # None => Published(rev)

(* A handler that will open both reviews of an order.                       *)
WillOpen(r, o) ==
    \/ At(r, "find") /\ req[r].review[1] = o
    \/ At(r, "update") /\ {<<o, "performer">>, <<o, "customer">>} \subseteq req[r].due

(* Two people who review each other at the same time do not miss each       *)
(* other: one of the two handlers finds both reviews and opens them, unless *)
(* the process stops.                                                       *)
OpenTogether == \A o \in Order :
    stops = 0 /\ (\A role \in Role : Exists(<<o, role>>)) =>
       \/ \A role \in Role : Published(<<o, role>>)
       \/ \E r \in Request : WillOpen(r, o)

(* The inductive invariant.                                                 *)
IInv == TypeOK /\ Blind /\ RatedFromPublished /\ InFlight /\ RepliesSeen /\ OpenTogether

(***************************************************************************)
(* What holds when handlers do not overlap                                 *)
(***************************************************************************)
Quiet == \A r \in Request : At(r, "idle")

(* A profile shows the ratings of all the published reviews of its owner.   *)
RatingExact == Quiet => \A u \in User : rated[u] = About(u)

(***************************************************************************)
(* What happens at last                                                    *)
(***************************************************************************)

(* Every review opens, although the other side may never write one and the  *)
(* process may stop on the way.                                             *)
EveryReviewOpens == \A rev \in Review : Exists(rev) ~> Published(rev)
=============================================================================
