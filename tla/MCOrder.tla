------------------------------- MODULE MCOrder -------------------------------
(* Order for TLC. A behaviour has either overlapping handlers over one order *)
(* and a process that may stop, or one handler at a time over two orders.    *)
EXTENDS Order, TLC

CONSTANTS First, FirstResponse   \* used before the others, and alone in the scene with races

VARIABLE solo

Busy  == {r \in Request : ~At(r, "idle")}
MCInit == Init /\ solo \in BOOLEAN

Remote(d) == d.work_format = "remote" /\ d.city = None

\* Two handlers, one order in no city, one response.
Races == /\ \A o \in Order \ {First} : stored'[o] = "absent"
         /\ \A r \in Request : Remote(req'[r].edit)
         /\ spent' \subseteq {FirstResponse}

\* One handler, two users, and two orders with a response or an order with two;
\* a deal stays in work and no flag is null. Somebody takes no part.
Serial == /\ Cardinality(Busy') <= 1
          /\ Cardinality({o \in Order : stored'[o] # "absent"}) + Cardinality(spent') <= 3
          /\ stored'[First] = "absent" => \A o \in Order : stored'[o] = "absent"
          /\ spent' # {} => FirstResponse \in spent'
          /\ \E u \in User : /\ ~verified'[u]
                             /\ \A r \in Request : u \notin {req'[r].user, req'[r].performer}
                             /\ \A o \in Order : orders'[o].user_id # u
          /\ \A r \in Request : req'[r].edit.is_active \in BOOLEAN
          /\ \A o \in Order : orders'[o].performer # None => orders'[o].status = "pending"

MCNext == /\ UNCHANGED solo
          /\ \/ solo  /\ Serve /\ Serial
             \/ ~solo /\ Next  /\ Races

MCSpec == MCInit /\ [][MCNext]_<<vars, solo>>

(* What the service promises when requests do not overlap.                  *)
SoloCounters == solo => CountersExact
SoloRules    == solo => RulesKept

(* An order that has ever had a performer stays in the database, as long as *)
(* requests do not overlap.                                                 *)
SoloDelete == [][solo => DeletesNoDeal]_vars

(* Groups of operations. A run calls one or several of them.                 *)
AllOps == {"createOrder", "updateOrder", "archiveOrder", "cancelOrder", "cancelDeal",
           "submitWork", "reviewWork", "assignPerformer", "deleteOrder", "crash",
           "createOrderResponse", "deleteOrderResponse"}
PublishOps  == {"createOrder", "updateOrder"}
DeleteOps   == {"createOrder", "assignPerformer", "deleteOrder"}

RemoteOnly  == {"remote"}
OnOffNull   == BOOLEAN \union {Null}
OnOnly      == {TRUE}

Symmetry == Permutations(User) \union Permutations(Request)
=============================================================================
