-------------------------------- MODULE Deal --------------------------------
(* What the marketplace promises about an order, whatever the handlers and   *)
(* their interleavings: it is posted once by a customer, agreed with at most *)
(* one performer who is somebody else, handed in and sent back any number of *)
(* times, and it ends once, completed or cancelled.                          *)
CONSTANTS Order, User, None

VARIABLES customer, status, performer

vars == <<customer, status, performer>>

Stages == {"none", "active", "pending", "review", "completed", "cancelled"}
Final  == {"completed", "cancelled"}

TypeOK ==
    /\ customer  \in [Order -> User \union {None}]
    /\ status    \in [Order -> Stages]
    /\ performer \in [Order -> User \union {None}]

Init ==
    /\ customer  = [o \in Order |-> None]
    /\ status    = [o \in Order |-> "none"]
    /\ performer = [o \in Order |-> None]

Post(o, u) ==
    /\ status[o] = "none"
    /\ status'   = [status EXCEPT ![o] = "active"]
    /\ customer' = [customer EXCEPT ![o] = u]
    /\ UNCHANGED performer

Agree(o, p) ==
    /\ status[o] = "active"
    /\ performer[o] = None
    /\ p # customer[o]
    /\ status'    = [status EXCEPT ![o] = "pending"]
    /\ performer' = [performer EXCEPT ![o] = p]
    /\ UNCHANGED customer

Move(o, from, to) ==
    /\ status[o] \in from
    /\ status' = [status EXCEPT ![o] = to]
    /\ UNCHANGED <<customer, performer>>

HandIn(o)   == Move(o, {"pending"}, "review")
SendBack(o) == Move(o, {"review"}, "pending")
Complete(o) == Move(o, {"review"}, "completed")
CallOff(o)  == Move(o, {"active", "pending", "review"}, "cancelled")

Next == \E o \in Order :
    \/ \E u \in User : Post(o, u) \/ Agree(o, u)
    \/ HandIn(o) \/ SendBack(o) \/ Complete(o) \/ CallOff(o)

Spec == Init /\ [][Next]_vars
=============================================================================
