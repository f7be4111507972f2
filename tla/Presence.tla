------------------------------- MODULE Presence -------------------------------
(* Who is online (the chat gateway). A connection is verified, joins the     *)
(* room of its user and then looks whether it is the only one there; a       *)
(* connection that closes looks whether the room is empty, writes last_seen  *)
(* and only then says so. A connection may close at any of these points.     *)
EXTENDS FiniteSets, Naturals

CONSTANTS User, Socket, None

VARIABLES alive,     \* the connections that are open
          userId,    \* client.data.userId of each connection
          token,     \* the user in its token; None: the token is not valid
          opening,   \* where handleConnection of the connection is
          closing,   \* where handleDisconnect is
          shown      \* whom the presence events show as online

vars == <<alive, userId, token, opening, closing, shown>>

TypeOK ==
    /\ alive   \in SUBSET Socket
    /\ userId  \in [Socket -> User \union {None}]
    /\ token   \in [Socket -> User \union {None}]
    /\ opening \in [Socket -> {"none", "verify", "check", "done"}]
    /\ closing \in [Socket -> {"none", "touch", "done"}]
    /\ shown   \in SUBSET User

Init ==
    /\ alive   = {}
    /\ userId  = [s \in Socket |-> None]
    /\ token   = [s \in Socket |-> None]
    /\ opening = [s \in Socket |-> "none"]
    /\ closing = [s \in Socket |-> "none"]
    /\ shown   = {}

\* A connection is in the room of its user from the join until it closes;
\* joining after that does nothing.
RoomAt(A, ids, u) == {s \in A : ids[s] = u}
ConnectionsOf(u)  == RoomAt(alive, userId, u)
Online(u)         == ConnectionsOf(u) # {}

Connect(s, u) ==
    /\ opening[s] = "none"
    /\ alive'   = alive \union {s}
    /\ token'   = [token EXCEPT ![s] = u]
    /\ opening' = [opening EXCEPT ![s] = "verify"]
    /\ UNCHANGED <<userId, closing, shown>>

\* Without a valid token the server closes the connection.
Verify(s) ==
    /\ opening[s] = "verify"
    /\ IF token[s] = None
       THEN /\ alive'   = alive \ {s}
            /\ opening' = [opening EXCEPT ![s] = "done"]
            /\ closing' = [closing EXCEPT ![s] = "done"]
            /\ UNCHANGED userId
       ELSE /\ userId'  = [userId EXCEPT ![s] = token[s]]
            /\ opening' = [opening EXCEPT ![s] = "check"]
            /\ UNCHANGED <<alive, closing>>
    /\ UNCHANGED <<token, shown>>

\* mistake: not told when the room is not found to be empty but for itself
CheckFirst(s) ==
    /\ opening[s] = "check"
    /\ opening' = [opening EXCEPT ![s] = "done"]
    /\ shown'   = IF ConnectionsOf(userId[s]) = {} THEN shown \union {userId[s]} ELSE shown
    /\ UNCHANGED <<alive, userId, token, closing>>

Check(s) ==
    /\ opening[s] = "check"
    /\ opening' = [opening EXCEPT ![s] = "done"]
    /\ shown'   = IF Cardinality(ConnectionsOf(userId[s])) = 1
                  THEN shown \union {userId[s]} ELSE shown
    /\ UNCHANGED <<alive, userId, token, closing>>

DisconnectOthers(s) ==   \* mistake: the connection still counts itself
    /\ s \in alive
    /\ alive'   = alive \ {s}
    /\ closing' = [closing EXCEPT ![s] =
                     IF userId[s] = None \/ Cardinality(ConnectionsOf(userId[s])) > 0
                     THEN "done" ELSE "touch"]
    /\ UNCHANGED <<userId, token, opening, shown>>

Disconnect(s) ==
    /\ s \in alive
    /\ alive'   = alive \ {s}
    /\ closing' = [closing EXCEPT ![s] =
                     IF userId[s] = None \/ RoomAt(alive \ {s}, userId, userId[s]) # {}
                     THEN "done" ELSE "touch"]
    /\ UNCHANGED <<userId, token, opening, shown>>

\* last_seen is written first; a failure of that is ignored.
SayOffline(s) ==
    /\ closing[s] = "touch"
    /\ closing' = [closing EXCEPT ![s] = "done"]
    /\ shown'   = shown \ {userId[s]}
    /\ UNCHANGED <<alive, userId, token, opening>>

\* Both handlers have ended; the name can stand for a new connection.
Forget(s) ==
    /\ opening[s] = "done" /\ closing[s] = "done"
    /\ opening' = [opening EXCEPT ![s] = "none"]
    /\ closing' = [closing EXCEPT ![s] = "none"]
    /\ userId'  = [userId EXCEPT ![s] = None]
    /\ token'   = [token EXCEPT ![s] = None]
    /\ UNCHANGED <<alive, shown>>

Handle(s) == Verify(s) \/ Check(s) \/ SayOffline(s)

Next ==
    \E s \in Socket :
        \/ Handle(s) \/ Disconnect(s) \/ Forget(s)
        \/ \E u \in User \union {None} : Connect(s, u)

Spec == Init /\ [][Next]_vars

(* A write that was sent is answered while the process runs.               *)
FairSpec == Spec /\ \A s \in Socket : WF_vars(Handle(s))

(***************************************************************************)
(* Properties                                                              *)
(***************************************************************************)
(* Nobody is left shown online for ever: who is shown has a connection, or *)
(* the event that he is gone is on its way. A user who left is shown so    *)
(* whatever order the handlers of his connections ran in.                  *)
GoneIsKnown ==
    \A u \in shown : Online(u) \/ \E s \in Socket : closing[s] = "touch" /\ userId[s] = u

(* One who left and does not come back is shown offline at last.           *)
OfflineAtLast == \A u \in User : []<>(Online(u) \/ u \notin shown)

Quiet == \A s \in Socket : opening[s] \in {"none", "done"} /\ closing[s] # "touch"

(* handleConnection's comment: while the room of a user has a connection   *)
(* he is online; the events say so once the handlers have ended.           *)
PresenceTrue == Quiet => \A u \in User : u \in shown <=> Online(u)
=============================================================================
