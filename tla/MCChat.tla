-------------------------------- MODULE MCChat --------------------------------
(* The two parts of the chat gateway for TLC: the messages of dialogues and  *)
(* who is online. A behaviour has handlers of messages that overlap, or one  *)
(* such handler at a time, or a reader of the history beside the handlers,   *)
(* or connections that open and close, at once or one at a time. Nothing but *)
(* the scenes of Dialogue is folded by the symmetry; fairness, and the       *)
(* property that rests on it, are about the connections alone.               *)
EXTENDS Dialogue, TLC

CONSTANTS Person, Socket,   \* who connects, and over what
          Pair,             \* the users of the dialogue
          Foreign,          \* the one message that may be of another dialogue
          OneText,          \* the text of every message in the scene with a reader
          MaxShort          \* the messages in the scenes without a reader

ASSUME PersonAssumption == None \notin Person

VARIABLES scene,
          alive, userId, token, opening, closing, shown

presence == <<alive, userId, token, opening, closing, shown>>

P == INSTANCE Presence WITH User <- Person

Dialogues == {"races", "solo", "history"}
Presences == {"connections", "one connection"}

MCInit == Init /\ P!Init /\ scene \in Dialogues \union Presences

Busy == {r \in Request : ~At(r, "idle")}

InScene ==
    /\ scene = "solo" => Cardinality(Busy') <= 1
    /\ \A m \in Id : messages'[m].state # "new" =>
          /\ {messages'[m].from, messages'[m].to} = Pair \/ (scene = "history" /\ m = Foreign)
          /\ IF scene = "history" THEN messages'[m].text = OneText ELSE m <= MaxShort
    /\ reader' # Closed => {reader'.user, reader'.other} = Pair
    /\ scene = "history" => \A r \in Request : req'[r].pc \notin {"read", "save"}
    /\ scene # "history" => reader' = Closed

Handling == {s \in Socket : opening[s] \in {"verify", "check"} \/ closing[s] = "touch"}

MCNext ==
    /\ UNCHANGED scene
    /\ \/ scene \in Dialogues /\ Next /\ InScene /\ UNCHANGED presence
       \/ /\ scene \in Presences /\ P!Next /\ UNCHANGED vars
          /\ scene = "one connection" => Cardinality(Handling') <= 1

MCSpec == /\ MCInit
          /\ [][MCNext]_<<vars, presence, scene>>
          /\ \A s \in Socket : WF_(presence)(P!Handle(s))

(* The tabs show the messages as they are stored, as long as handlers do    *)
(* not overlap. When a message lands while its dialogue is marked as read,  *)
(* the two events may come in the other order than the two writes.         *)
TabsTrueSolo == scene = "solo" => TabsTrue

(* One at a time, the presence events show exactly those who have a        *)
(* connection.                                                             *)
PresenceTrueSolo == scene = "one connection" => P!PresenceTrue

(* Connections may open and close at once: one who left and does not come  *)
(* back is shown offline at last.                                          *)
OfflineAtLast == P!OfflineAtLast

Alike == Permutations(Request) \union Permutations(Pair)
=============================================================================
