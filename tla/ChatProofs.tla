------------------------------ MODULE ChatProofs ------------------------------
(* The chat, for every set of users, texts, handlers and connections and any *)
(* number of messages: the marks, the counters and the pages of dialogues,   *)
(* the tabs when handlers do not overlap, and who is shown as online.        *)
EXTENDS MCChat, Counting, SequenceTheorems

Types ==
    /\ messages \in [Id -> Message]
    /\ clock    \in 0..MaxTime
    /\ req      \in [Request -> Req]

\* A message that is not written yet is unread; one that is has two ends.
Written(m) ==
    /\ messages[m].state = "new" => ~messages[m].isRead
    /\ messages[m].state # "new" => messages[m].from # messages[m].to

\* The messages are made one after the other, while time goes on.
Made(m) ==
    messages[m].state # "new" =>
        /\ messages[m].createdAt <= clock
        /\ \A n \in Id : n < m => /\ messages[n].state # "new"
                                  /\ messages[n].createdAt <= messages[m].createdAt

\* A handler on its way to a write has a message: its own, which it alone
\* inserts, or one that has been there.
Holds(r) ==
    /\ req[r].pc = "insert" => req[r].id \in Id /\ messages[req[r].id].state = "sending"
    /\ req[r].pc \in {"save", "delete"} =>
          req[r].id \in Id /\ messages[req[r].id].state \in {"stored", "deleted"}

Alone(r) ==
    req[r].pc = "insert" => \A q \in Request \ {r} : req[q].pc = "insert" => req[q].id # req[r].id

IInv ==
    /\ Types
    /\ \A m \in Id : Written(m) /\ Made(m)
    /\ \A r \in Request : Holds(r) /\ Alone(r)

LEMMA InitIInv ==
    ASSUME Init
    PROVE  IInv
BY DialogueAssumption
   DEF Init, IInv, Types, Written, Made, Holds, Alone, NoMessage, Message, Idle, Req

(* What is written into a message by a step other than a new one. *)
Grown(m) ==
    /\ \/ messages'[m].state = messages[m].state
       \/ messages[m].state = "sending" /\ messages'[m].state = "stored"
       \/ messages[m].state = "stored" /\ messages'[m].state = "deleted"
    /\ messages[m].state = "new" => messages'[m] = messages[m]
    /\ messages'[m].from = messages[m].from /\ messages'[m].to = messages[m].to
    /\ messages'[m].createdAt = messages[m].createdAt
    /\ messages[m].isRead => messages'[m].isRead

\* A step of one handler that makes no message; it inserts at most its own.
Grows(r) ==
    /\ Types' /\ clock' = clock /\ reader' = reader
    /\ \A m \in Id :
          /\ Grown(m)
          /\ messages'[m].state # messages[m].state /\ messages[m].state = "sending" =>
                req[r].pc = "insert" /\ req[r].id = m
    /\ req'[r].pc # "insert" /\ Holds(r)'
    /\ \A q \in Request \ {r} : req'[q] = req[q]

LEMMA GrowsKeeps ==
    ASSUME IInv, NEW r \in Request, Grows(r)
    PROVE  IInv' /\ \A m \in Id : messages[m].isRead => messages'[m].isRead
<1>1. \A m \in Id : Written(m)'
  BY DEF IInv, Grows, Grown, Written
<1>2. \A m \in Id : Made(m)'
  <2> TAKE m \in Id
  <2>1. \A n \in Id : /\ messages'[n].createdAt = messages[n].createdAt
                      /\ messages'[n].state = "new" <=> messages[n].state = "new"
    BY DEF Grows, Grown
  <2>2. Made(m) /\ clock' = clock
    BY DEF IInv, Grows
  <2> QED BY <2>1, <2>2 DEF Made
<1>3. \A q \in Request : Holds(q)'
  <2> TAKE q \in Request
  <2>1. CASE q = r
    BY <2>1 DEF Grows
  <2>2. CASE q # r
    <3>1. req'[q] = req[q] /\ Holds(q) /\ Alone(q)
      BY <2>2 DEF Grows, IInv
    <3>2. CASE req[q].pc = "insert"
      <4>1. req[q].id \in Id /\ messages[req[q].id].state = "sending"
        BY <3>1, <3>2 DEF Holds
      <4>2. ~(req[r].pc = "insert" /\ req[r].id = req[q].id)
        BY <2>2, <3>1, <3>2 DEF Alone
      <4>3. messages'[req[q].id].state = "sending"
        BY <4>1, <4>2 DEF Grows
      <4> QED BY <3>1, <3>2, <4>1, <4>3 DEF Holds
    <3>3. CASE req[q].pc # "insert"
      BY <3>1, <3>3 DEF Holds, Grows, Grown
    <3> QED BY <3>2, <3>3
  <2> QED BY <2>1, <2>2
<1>4. \A q \in Request : Alone(q)'
  BY DEF Grows, IInv, Alone
<1> QED BY <1>1, <1>2, <1>3, <1>4 DEF IInv, Grows, Grown

(* The one step that makes a message: it is unread, and its name is new. *)
LEMMA SendStep ==
    ASSUME IInv, NEW r \in Request, NEW u \in User, NEW v \in User, NEW t \in Text,
           SendMessage(r, u, v, t)
    PROVE  IInv' /\ \A m \in Id : messages[m].isRead => messages'[m].isRead
<1> PICK m \in Id : SendMessage(r, u, v, t)!3!(m)
  BY DEF SendMessage
<1> DEFINE sent == [state |-> "sending", from |-> u, to |-> v,
                    createdAt |-> clock, text |-> t, isRead |-> FALSE]
           held == [Idle EXCEPT !.pc = "insert", !.id = m, !.text = t]
<1>1. sent \in Message /\ sent.state = "sending" /\ sent.from # sent.to /\ ~sent.isRead
  BY DEF SendMessage, IInv, Types, Message
<1>2. held \in Req /\ held.id = m /\ held.pc = "insert"
  BY DEF Idle, Req
<1> HIDE DEF sent, held
<1>3. messages' = [messages EXCEPT ![m] = sent] /\ req' = [req EXCEPT ![r] = held]
  BY DEF Become, sent, held
<1>4. messages[m].state = "new" /\ ~messages[m].isRead /\ clock' = clock
  BY DEF IInv, Written, SendMessage
<1>5. messages'[m] = sent /\ \A n \in Id \ {m} : messages'[n] = messages[n]
  BY <1>3 DEF IInv, Types
<1>6. Types'
  BY <1>1, <1>2, <1>3, <1>4 DEF IInv, Types
<1>7. \A n \in Id : Written(n)'
  BY <1>1, <1>5 DEF IInv, Written
<1>m. \A n \in Id : Made(n)'
  <2> TAKE n \in Id
  <2>1. sent.createdAt = clock /\ clock \in Int
    BY DialogueAssumption DEF sent, IInv, Types
  <2>2. \A k \in Id : k < m => messages[k].state # "new" /\ messages[k].createdAt <= clock
    BY DEF SendMessage, IInv, Made
  <2>3. CASE n = m
    BY <1>4, <1>5, <2>1, <2>2, <2>3 DEF Made, Id
  <2>4. CASE n # m
    <3>1. Made(n)
      BY DEF IInv
    <3> QED BY <1>4, <1>5, <2>4, <3>1 DEF Made, Id
  <2> QED BY <2>3, <2>4
<1>8. \A q \in Request : Holds(q)'
  <2> TAKE q \in Request
  <2>1. CASE q = r
    BY <2>1, <1>1, <1>2, <1>3, <1>5 DEF IInv, Types, Holds
  <2>2. CASE q # r
    <3>1. req'[q] = req[q] /\ Holds(q)
      BY <2>2, <1>3 DEF IInv, Types
    <3> QED BY <3>1, <1>4, <1>5 DEF Holds
  <2> QED BY <2>1, <2>2
<1>10. \A q \in Request : Alone(q)'
  <2>1. req'[r] = held /\ \A q \in Request \ {r} : req'[q] = req[q]
    BY <1>3 DEF IInv, Types
  <2>2. \A q \in Request : req[q].pc = "insert" => req[q].id # m
    BY <1>4 DEF IInv, Holds
  <2> QED BY <1>2, <2>1, <2>2 DEF IInv, Alone
<1>9. \A n \in Id : messages[n].isRead => messages'[n].isRead
  BY <1>4, <1>5
<1> QED BY <1>6, <1>7, <1>m, <1>8, <1>9, <1>10 DEF IInv

LEMMA MarkStep ==
    ASSUME IInv, NEW r \in Request, NEW by \in User, NEW of \in User, MarkRead(r, by, of)
    PROVE  Grows(r)
<1> DEFINE held == [Idle EXCEPT !.pc = "read", !.by = by, !.of = of]
<1>1. held \in Req /\ held.pc = "read"
  BY DEF Idle, Req
<1> HIDE DEF held
<1>2. req' = [req EXCEPT ![r] = held] /\ clock' = clock
  BY DEF MarkRead, Become, held
<1>3. ASSUME NEW m \in Id
      PROVE  Grown(m) /\ messages'[m] \in Message
  <2>1. messages[m] \in Message
    BY DEF IInv, Types
  <2>2. CASE m \in Unread(by, of)
    <3>1. messages'[m] = [messages[m] EXCEPT !.isRead = TRUE] /\ messages[m].state = "stored"
      BY <2>2 DEF MarkRead, Unread, Stored
    <3> QED BY <2>1, <3>1 DEF Grown, Message
  <2>3. CASE m \notin Unread(by, of)
    BY <2>1, <2>3 DEF MarkRead, Grown
  <2> QED BY <2>2, <2>3
<1>4. Types'
  BY <1>1, <1>2, <1>3 DEF IInv, Types, MarkRead
<1>5. reader' = reader
  BY DEF MarkRead
<1>6. \A m \in Id : messages'[m].state = messages[m].state
  BY DEF MarkRead
<1>7. /\ \A q \in Request \ {r} : req'[q] = req[q]
      /\ req'[r] = held
  BY <1>2 DEF IInv, Types
<1>8. Holds(r)' /\ req'[r].pc # "insert"
  BY <1>1, <1>7 DEF Holds
<1> QED BY <1>2, <1>3, <1>4, <1>5, <1>6, <1>7, <1>8 DEF Grows

LEMMA InsertStep ==
    ASSUME IInv, NEW r \in Request, Insert(r)
    PROVE  Grows(r)
<1> DEFINE i == req[r].id
<1>1. /\ i \in Id /\ messages[i].state = "sending"
      /\ messages[i] \in Message /\ req[r] \in Req /\ req[r].pc = "insert"
  BY DEF IInv, Types, Holds, Insert, At
<1>7. i = req[r].id
  OBVIOUS
<1> HIDE DEF i
<1>2. /\ messages' = [messages EXCEPT ![i].state = "stored"]
      /\ clock' = clock /\ reader' = reader
  BY DEF Insert, i
<1>3. req' = [req EXCEPT ![r] = [req[r] EXCEPT !.pc = "receive"]]
  BY DEF Insert, Goto, Become
<1>4. Types'
  BY <1>1, <1>2, <1>3 DEF IInv, Types, Message, Req
<1>5. \A m \in Id : Grown(m) /\ (m # i => messages'[m] = messages[m])
  BY <1>1, <1>2 DEF IInv, Types, Grown, Message
<1>6. /\ Holds(r)' /\ req'[r].pc # "insert"
      /\ \A q \in Request \ {r} : req'[q] = req[q]
  BY <1>1, <1>3 DEF Holds, IInv, Types, Req
<1> QED BY <1>1, <1>2, <1>4, <1>5, <1>6, <1>7 DEF Grows

LEMMA DeleteOneStep ==
    ASSUME IInv, NEW r \in Request, DeleteOne(r)
    PROVE  Grows(r)
<1> DEFINE i == req[r].id
<1>1. /\ i \in Id /\ messages[i].state \in {"stored", "deleted"}
      /\ messages[i] \in Message /\ req[r] \in Req
  BY DEF IInv, Types, Holds, DeleteOne, At
<1> HIDE DEF i
<1>2. /\ messages' = [messages EXCEPT ![i].state = "deleted"]
      /\ clock' = clock /\ reader' = reader
  BY DEF DeleteOne, i
<1>3. req' = [req EXCEPT ![r] = [req[r] EXCEPT !.pc = "deleted"]]
  BY DEF DeleteOne, Goto, Become
<1>4. Types'
  BY <1>1, <1>2, <1>3 DEF IInv, Types, Message, Req
<1>5. /\ \A m \in Id : Grown(m)
      /\ \A m \in Id : messages[m].state = "sending" => messages'[m].state = "sending"
  BY <1>1, <1>2 DEF IInv, Types, Grown, Message
<1>6. /\ Holds(r)' /\ req'[r].pc # "insert"
      /\ \A q \in Request \ {r} : req'[q] = req[q]
  BY <1>1, <1>3 DEF Holds, IInv, Types, Req
<1> QED BY <1>2, <1>4, <1>5, <1>6 DEF Grows

LEMMA SaveStep ==
    ASSUME IInv, NEW r \in Request, SaveText(r)
    PROVE  Grows(r)
<1> DEFINE i == req[r].id
           t == req[r].text
<1>1. i \in Id /\ messages[i] \in Message /\ req[r] \in Req /\ t \in Text \union {None}
  BY DEF IInv, Types, Holds, SaveText, At, Req
<1>2. clock' = clock /\ reader' = reader
  BY DEF SaveText
<1>3. CASE ~Stored(i)
  <2>1. messages' = messages /\ req' = [req EXCEPT ![r] = Idle]
    BY <1>3 DEF SaveText, Finish, Become
  <2>2. Idle \in Req /\ Idle.pc = "idle"
    BY DEF Idle, Req
  <2> QED BY <2>1, <2>2, <1>2 DEF Grows, Grown, Holds, IInv, Types
<1>4. CASE Stored(i)
  <2>1. messages' = [messages EXCEPT ![i].text = t]
    BY <1>4 DEF SaveText
  <2>2. req' = [req EXCEPT ![r] = [req[r] EXCEPT !.pc = "edited"]]
    BY <1>4 DEF SaveText, Goto, Become
  <2>3. messages[i].state = "stored"
    BY <1>4 DEF Stored
  <2> HIDE DEF i, t
  <2>4. Types'
    BY <1>1, <1>2, <2>1, <2>2 DEF IInv, Types, Message, Req
  <2>5. \A m \in Id : Grown(m) /\ messages'[m].state = messages[m].state
    BY <1>1, <2>1, <2>3 DEF IInv, Types, Grown, Message
  <2>6. /\ Holds(r)' /\ req'[r].pc # "insert"
        /\ \A q \in Request \ {r} : req'[q] = req[q]
    BY <1>1, <2>2 DEF Holds, IInv, Types, Req
  <2> QED BY <1>2, <2>4, <2>5, <2>6 DEF Grows
<1> QED BY <1>3, <1>4

(* Reading a message, to edit it or to delete it. *)
LEMMA PickStep ==
    ASSUME IInv, NEW r \in Request, NEW m \in Id,
           DeleteMessage(r, m) \/ \E t \in Text : EditMessage(r, m, t)
    PROVE  Grows(r)
<1>1. PICK held \in Req : /\ held.id = m /\ held.pc # "insert"
                          /\ req' = [req EXCEPT ![r] = held]
  <2>1. CASE DeleteMessage(r, m)
    <3> DEFINE held == [Idle EXCEPT !.pc = "delete", !.id = m]
    <3>1. held \in Req /\ held.id = m /\ held.pc # "insert"
      BY DEF Idle, Req
    <3> QED BY <2>1, <3>1 DEF DeleteMessage, Become
  <2>2. CASE \E t \in Text : EditMessage(r, m, t)
    <3> PICK t \in Text : EditMessage(r, m, t)
      BY <2>2
    <3> DEFINE held == [Idle EXCEPT !.pc = "save", !.id = m, !.text = t]
    <3>1. held \in Req /\ held.id = m /\ held.pc # "insert"
      BY DEF Idle, Req
    <3> QED BY <3>1 DEF EditMessage, Become
  <2> QED BY <2>1, <2>2
<1>4. /\ messages' = messages /\ clock' = clock /\ reader' = reader
      /\ messages[m].state = "stored"
  BY DEF DeleteMessage, EditMessage, Stored
<1> QED BY <1>1, <1>4 DEF Grows, Grown, Holds, IInv, Types

(* The steps that tell the tabs. *)
LEMMA TellStep ==
    ASSUME IInv, NEW r \in Request,
           ReceiveMessage(r) \/ MessagesRead(r) \/ MessageEdited(r) \/ MessageDeleted(r)
    PROVE  Grows(r)
<1>1. /\ messages' = messages /\ clock' = clock /\ reader' = reader
      /\ req' = [req EXCEPT ![r] = Idle]
  BY DEF ReceiveMessage, MessagesRead, MessageEdited, MessageDeleted, Finish, Become
<1>2. Idle \in Req /\ Idle.pc = "idle"
  BY DEF Idle, Req
<1> QED BY <1>1, <1>2 DEF Grows, Grown, Holds, IInv, Types

(* The steps of the reader and of time. *)
LEMMA OtherStep ==
    ASSUME IInv, Read \/ Tick \/ UNCHANGED vars
    PROVE  IInv' /\ \A m \in Id : messages[m].isRead => messages'[m].isRead
<1>1. messages' = messages /\ req' = req
  BY DEF Read, Tick, OpenHistory, ScrollUp, CloseHistory, vars
<1>2. clock' \in 0..MaxTime /\ clock <= clock'
  <2>1. clock \in 0..MaxTime
    BY DEF IInv, Types
  <2>2. CASE Tick
    BY <2>1, <2>2, DialogueAssumption DEF Tick
  <2>3. CASE Read \/ UNCHANGED vars
    <3>1. clock' = clock
      BY <2>3 DEF Read, OpenHistory, ScrollUp, CloseHistory, vars
    <3> QED BY <2>1, <3>1
  <2> QED BY <2>2, <2>3
<1>3. \A m \in Id : Made(m)'
  <2> TAKE m \in Id
  <2>1. Made(m) /\ clock \in Int /\ clock' \in Int /\ messages[m].createdAt \in Int
    BY <1>2, DialogueAssumption DEF IInv, Types, Message
  <2> QED BY <1>1, <1>2, <2>1 DEF Made
<1> QED BY <1>1, <1>2, <1>3 DEF IInv, Types, Written, Holds, Alone

LEMMA Steps ==
    ASSUME IInv, [Next]_vars
    PROVE  \/ \E r \in Request : Grows(r)
           \/ \E r \in Request : \E u, v \in User : \E t \in Text : SendMessage(r, u, v, t)
           \/ Read \/ Tick \/ UNCHANGED vars
<1>1. ASSUME NEW r \in Request, Step(r)
      PROVE  Grows(r)
  BY <1>1, InsertStep, DeleteOneStep, SaveStep, TellStep DEF Step
<1>2. ASSUME NEW r \in Request, NEW u \in User, NEW v \in User, MarkRead(r, u, v)
      PROVE  Grows(r)
  BY <1>2, MarkStep
<1>3. ASSUME NEW r \in Request, NEW m \in Id,
             DeleteMessage(r, m) \/ \E t \in Text : EditMessage(r, m, t)
      PROVE  Grows(r)
  BY <1>3, PickStep
<1> QED BY <1>1, <1>2, <1>3 DEF Next, Start

LEMMA Inductive ==
    ASSUME IInv, [Next]_vars
    PROVE  IInv' /\ \A m \in Id : messages[m].isRead => messages'[m].isRead
BY Steps, GrowsKeeps, SendStep, OtherStep

(* The types of the messages and of the handlers that hold them, in every    *)
(* reachable state of ChatService.                                           *)
THEOREM Invariance == Spec => []IInv
<1>1. IInv /\ [Next]_vars => IInv'
  BY Inductive
<1> QED BY InitIInv, <1>1, PTL DEF Spec

(* What was read stays read (markRead, editMessage): a message that another  *)
(* handler had read before is edited with its mark, and a new one takes no   *)
(* place of one that was read.                                               *)
THEOREM Marks == Spec => ReadStays
<1>1. IInv /\ [Next]_vars => [\A m \in Id : messages[m].isRead => messages'[m].isRead]_vars
  BY Inductive
<1> QED BY Invariance, <1>1, PTL DEF Spec, ReadStays

(***************************************************************************)
(* The list of dialogues and the counter in the header                     *)
(***************************************************************************)
\* A dialogue has a last message.
LEMMA LastExists ==
    ASSUME Types, NEW u, NEW v, Dialog(u, v) # {}
    PROVE  LastMessage(u, v) # {}
<1> DEFINE Age(m) == MaxTime - messages[m].createdAt
           Ages   == {Age(m) : m \in Dialog(u, v)}
<1>1. \A m \in Dialog(u, v) : messages[m].createdAt \in 0..MaxTime
  BY DEF Types, Message, Dialog
<1>2. Ages \subseteq Nat /\ Ages # {}
  BY <1>1, DialogueAssumption
<1>3. PICK x \in Ages : \A y \in Ages : <<y, x>> \notin OpToRel(<, Nat)
  <2> HIDE DEF Ages
  <2> QED BY <1>2, WFMin, NatLessThanWellFounded
<1>4. \A y \in Ages : ~(y < x)
  <2> HIDE DEF Ages
  <2> QED BY <1>2, <1>3 DEF OpToRel
<1>5. PICK m \in Dialog(u, v) : x = Age(m)
  BY DEF Ages
<1>6. \A n \in Dialog(u, v) : messages[n].createdAt <= messages[m].createdAt
  <2> TAKE n \in Dialog(u, v)
  <2>1. ~(Age(n) < Age(m))
    BY <1>4, <1>5
  <2> QED BY <2>1, <1>1, DialogueAssumption
<1> QED BY <1>6 DEF LastMessage

LEMMA SameUnread ==
    ASSUME NEW u, NEW v, u # v
    PROVE  UnreadInList(u, v) = Unread(u, v)
BY DEF UnreadInList, Unread, Incoming, Dialog

(* The list of dialogues and the counter in the header (getUserChats and     *)
(* getUnread, two aggregations) count the same messages, and a dialogue with *)
(* something unread is in the list.                                          *)
THEOREM Agree == Spec => []ListAgrees
<1>1. ASSUME Types, \A m \in Id : Written(m), NEW u \in User
      PROVE  DOMAIN GetUnread(u) \subseteq {c.userId : c \in GetUserChats(u)}
  <2> SUFFICES ASSUME NEW v \in User, Unread(u, v) # {}
               PROVE  \E c \in GetUserChats(u) : c.userId = v
    BY DEF GetUnread
  <2>1. PICK m \in Id : Stored(m) /\ messages[m].from = v /\ messages[m].to = u
    BY DEF Unread, Incoming
  <2>2. u # v /\ Dialog(u, v) # {}
    BY <2>1, <1>1 DEF Written, Dialog, Stored
  <2>3. PICK n : n \in LastMessage(u, v)
    BY <2>2, <1>1, LastExists
  <2> DEFINE c == [userId |-> v, lastMessage |-> n,
                   unreadCount |-> Cardinality(UnreadInList(u, v))]
  <2>4. c \in GetUserChats(u)
    BY <2>2, <2>3 DEF GetUserChats, Partners
  <2> QED BY <2>4
<1>2. ASSUME Types, NEW u \in User, NEW c \in GetUserChats(u)
      PROVE  /\ c.unreadCount = IF c.userId \in DOMAIN GetUnread(u)
                                THEN GetUnread(u)[c.userId] ELSE 0
             /\ \A m \in Dialog(u, c.userId) : ~Earlier(c.lastMessage, m)
                   \/ messages[m].createdAt = messages[c.lastMessage].createdAt
  <2>1. PICK v \in User : \E n \in LastMessage(u, v) :
           v # u /\ c = [userId |-> v, lastMessage |-> n,
                         unreadCount |-> Cardinality(UnreadInList(u, v))]
    BY DEF GetUserChats, Partners
  <2> PICK n \in LastMessage(u, v) :
           c = [userId |-> v, lastMessage |-> n, unreadCount |-> Cardinality(UnreadInList(u, v))]
    BY <2>1
  <2>2. c.userId = v /\ c.lastMessage = n /\ c.unreadCount = Cardinality(Unread(u, v))
    BY <2>1, SameUnread
  <2> DEFINE got == GetUnread(u)
  <2>g. /\ v \in DOMAIN got <=> Unread(u, v) # {}
        /\ Unread(u, v) # {} => got[v] = Cardinality(Unread(u, v))
    BY DEF GetUnread
  <2>e. Unread(u, v) = {} => Cardinality(Unread(u, v)) = 0
    BY FS_EmptySet
  <2>3. c.unreadCount = IF c.userId \in DOMAIN got THEN got[c.userId] ELSE 0
    <3> HIDE DEF got
    <3> QED BY <2>2, <2>g, <2>e
  <2>5. ASSUME NEW m \in Dialog(u, v)
        PROVE  ~Earlier(n, m) \/ messages[m].createdAt = messages[n].createdAt
    <3>1. messages[m].createdAt <= messages[n].createdAt /\ n \in Dialog(u, v)
      BY <2>5 DEF LastMessage
    <3>2. messages[m].createdAt \in 0..MaxTime /\ messages[n].createdAt \in 0..MaxTime
      BY <1>2, <2>5, <3>1 DEF Types, Message, Dialog
    <3> QED BY <3>1, <3>2, DialogueAssumption DEF Earlier
  <2> QED BY <2>2, <2>3, <2>5
<1>3. IInv => ListAgrees
  BY <1>1, <1>2 DEF IInv, ListAgrees
<1> QED BY Invariance, <1>3, PTL

(***************************************************************************)
(* The pages of a history                                                  *)
(***************************************************************************)
Descending(s) == \A i, j \in 1..Len(s) : i < j => s[j] < s[i]

Newer(S) == {pair \in S \X S : pair[2] < pair[1]}

LEMMA Ids ==
    ASSUME NEW S \in SUBSET Id
    PROVE  /\ IsFiniteSet(S) /\ Cardinality(S) \in Nat
           /\ \A m \in S : m \in Int
<1>1. IsFiniteSet(Id) /\ \A m \in Id : m \in Int
  BY FS_Interval, DialogueAssumption DEF Id
<1> QED BY <1>1, FS_Subset, FS_CardinalityType

(* A page lists its messages once, the newest first. *)
LEMMA PageLists ==
    ASSUME NEW S \in SUBSET Id
    PROVE  /\ NewestFirst(S) \in Seq(S) /\ Len(NewestFirst(S)) = Cardinality(S)
           /\ Descending(NewestFirst(S))
           /\ Elements(NewestFirst(S)) = S
<1> DEFINE n == Cardinality(S)
           s == NewestFirst(S)
           R == Newer(S)
<1>1. IsFiniteSet(S) /\ n \in Nat
  BY Ids
<1>2. Orders(S, R)
  BY Ids DEF Orders, Newer
<1>3. ASSUME NEW k \in 1..n
      PROVE  s[k] \in S /\ Cardinality(Below(S, R, s[k])) = k - 1
  <2> DEFINE rank(x) == Cardinality({y \in S : x < y})
  <2>1. \A x \in S : rank(x) = Cardinality(Below(S, R, x))
    <3> TAKE x \in S
    <3>1. {y \in S : x < y} = Below(S, R, x)
      BY DEF Below, Newer
    <3> QED BY <3>1
  <2>2. \E x \in S : rank(x) = k - 1
    BY <1>1, <1>2, <2>1, EveryRank
  <2>3. s[k] = CHOOSE x \in S : rank(x) = k - 1
    BY DEF NewestFirst
  <2> HIDE DEF rank
  <2>4. s[k] \in S /\ rank(s[k]) = k - 1
    BY <2>2, <2>3
  <2> QED BY <2>1, <2>4
<1>4. s \in [1..n -> S]
  BY <1>3 DEF NewestFirst
<1>5. /\ \A i, j \in 1..n : i < j => <<s[i], s[j]>> \in R
      /\ \A x \in S : \E i \in 1..n : s[i] = x
  <2>1. ByRank(s, S, R)
    BY <1>3, <1>4 DEF ByRank
  <2> HIDE DEF s
  <2> QED BY <1>1, <1>2, <2>1, RankLists
<1> HIDE DEF n, s, R
<1>6. s \in Seq(S) /\ Len(s) = n
  BY <1>1, <1>4
<1>7. Descending(s)
  BY <1>5, <1>6 DEF Descending, Newer, R
<1>8. Elements(s) = S
  BY <1>4, <1>5, <1>6 DEF Elements
<1> QED BY <1>6, <1>7, <1>8 DEF n, s

(* The newest messages are all of them, or some with nothing newer left out. *)
LEMMA NewestOf ==
    ASSUME NEW S \in SUBSET Id, NEW k \in Nat, k >= 1
    PROVE  /\ Newest(S, k) \subseteq S
           /\ Cardinality(S) <= k => Newest(S, k) = S
           /\ \A m \in Newest(S, k), n \in S : m <= n => n \in Newest(S, k)
           /\ S # {} => Newest(S, k) # {}
<1> DEFINE Above(m) == {n \in S : m < n}
<1>1. IsFiniteSet(S) /\ Cardinality(S) \in Nat /\ \A m \in S : m \in Int
  BY Ids
<1>2. \A m \in S : /\ IsFiniteSet(Above(m)) /\ Cardinality(Above(m)) \in Nat
                   /\ Cardinality(Above(m)) < Cardinality(S)
  <2> TAKE m \in S
  <2>1. Above(m) \in SUBSET S /\ m \notin Above(m)
    BY <1>1
  <2> HIDE DEF Above
  <2> QED BY <1>1, <2>1, FS_Subset, FS_CardinalityType
<1>3. \A m, n \in S : m <= n => Cardinality(Above(n)) <= Cardinality(Above(m))
  <2> SUFFICES ASSUME NEW m \in S, NEW n \in S, m <= n
               PROVE  Cardinality(Above(n)) <= Cardinality(Above(m))
    OBVIOUS
  <2>1. Above(n) \in SUBSET Above(m)
    BY <1>1
  <2> HIDE DEF Above
  <2> QED BY <1>2, <2>1, FS_Subset
<1>4. ASSUME S # {}
      PROVE  \E m \in S : Cardinality(Above(m)) = 0
  <2> DEFINE s == NewestFirst(S)
  <2>1. s \in Seq(S) /\ Len(s) = Cardinality(S) /\ Descending(s) /\ Elements(s) = S
    BY PageLists
  <2> HIDE DEF s
  <2>2. Len(s) >= 1
    BY <1>1, <1>4, <2>1, FS_EmptySet
  <2>3. s[1] \in S
    BY <2>1, <2>2
  <2>4. Above(s[1]) = {}
    <3> SUFFICES ASSUME NEW n \in S, s[1] < n
                 PROVE  FALSE
      OBVIOUS
    <3>1. PICK i \in 1..Len(s) : s[i] = n
      BY <2>1 DEF Elements
    <3>2. i = 1 \/ s[i] < s[1]
      BY <2>1, <2>2 DEF Descending
    <3> QED BY <1>1, <2>3, <3>1, <3>2
  <2> QED BY <2>3, <2>4, FS_EmptySet
<1>5. Newest(S, k) = {m \in S : Cardinality(Above(m)) < k}
  BY DEF Newest
<1> HIDE DEF Above
<1> QED BY <1>1, <1>2, <1>3, <1>4, <1>5

LEMMA Sizes ==
    ASSUME NEW limit \in Limit
    PROVE  Size(limit) \in Nat /\ Size(limit) >= 1
BY DialogueAssumption DEF Size

(* Ids follow the time, so what is earlier by the cursor has a smaller id. *)
LEMMA EarlierIsSmaller ==
    ASSUME Types, NEW m \in Id, NEW n \in Id, Made(m), Made(n),
           messages[m].state # "new", messages[n].state # "new"
    PROVE  Earlier(m, n) <=> m < n
<1>1. messages[m].createdAt \in Int /\ messages[n].createdAt \in Int /\ m \in Int /\ n \in Int
  BY DialogueAssumption DEF Types, Message, Id
<1>2. m < n => messages[m].createdAt <= messages[n].createdAt
  BY DEF Made
<1>3. n < m => messages[n].createdAt <= messages[m].createdAt
  BY DEF Made
<1> QED BY <1>1, <1>2, <1>3 DEF Earlier

\* What the reader has, and what he still lacks of the messages that were
\* there when he opened the history.
Kept(m)    == /\ messages[m].state \in {"stored", "deleted"}
              /\ {messages[m].from, messages[m].to} = {reader.user, reader.other}
Has(m)     == Stored(m) => m \in Elements(reader.got)
LastGot    == reader.got[Len(reader.got)]

Paged ==
    /\ reader \in Reader
    /\ ~reader.lost =>
          /\ Descending(reader.got)
          /\ \A m \in reader.start : Kept(m)
          /\ reader.hasMore => /\ reader.got # <<>>
                               /\ \A m \in reader.start : m >= LastGot => Has(m)
          /\ ~reader.hasMore => \A m \in reader.start : Has(m)

LEMMA PagedInit ==
    ASSUME reader = Closed
    PROVE  Paged
BY DEF Closed, Paged, Descending, Reader

(* What others write between two pages takes nothing the reader needs. *)
LEMMA PagedKept ==
    ASSUME Paged, reader' = reader,
           \A m \in Id : /\ messages[m].state \in {"stored", "deleted"} =>
                               /\ messages'[m].state \in {"stored", "deleted"}
                               /\ Stored(m)' => Stored(m)
                               /\ messages'[m].from = messages[m].from
                               /\ messages'[m].to = messages[m].to
    PROVE  Paged'
<1>1. reader.start \in SUBSET Id
  BY DEF Paged, Reader
<1>2. ASSUME ~reader.lost, NEW m \in reader.start
      PROVE  Kept(m)' /\ (Has(m) => Has(m)')
  <2>1. Kept(m) /\ m \in Id
    BY <1>1, <1>2 DEF Paged
  <2> QED BY <2>1 DEF Kept, Has
<1> QED BY <1>1, <1>2 DEF Paged, LastGot

\* A list that goes on below its last element goes on descending.
LEMMA GoesOn ==
    ASSUME NEW a \in Seq(Id), NEW b \in Seq(Id), Descending(a), Descending(b),
           a # <<>>, \A m \in Elements(b) : m < a[Len(a)]
    PROVE  /\ a \o b \in Seq(Id)
           /\ Descending(a \o b)
           /\ Elements(a \o b) = Elements(a) \union Elements(b)
           /\ b # <<>> => (a \o b) # <<>> /\ (a \o b)[Len(a \o b)] = b[Len(b)]
<1>1. /\ a \o b \in Seq(Id) /\ Len(a \o b) = Len(a) + Len(b)
      /\ Len(a) \in Nat /\ Len(b) \in Nat /\ Len(a) >= 1
      /\ \A i \in 1..Len(a) : a[i] \in Id
      /\ \A i \in 1..Len(b) : b[i] \in Id
      /\ \A i \in 1..Len(a) : (a \o b)[i] = a[i]
      /\ \A i \in 1..Len(b) : (a \o b)[Len(a) + i] = b[i]
  OBVIOUS
<1> DEFINE c == a \o b
           n == Len(a)
<1> HIDE DEF c, n
<1>2. \A i \in 1..Len(c) : i \in 1..n \/ (i - n \in 1..Len(b) /\ i = n + (i - n))
  BY <1>1 DEF c, n
<1>3. Descending(c)
  <2> SUFFICES ASSUME NEW i \in 1..Len(c), NEW j \in 1..Len(c), i < j
               PROVE  c[j] < c[i]
    BY DEF Descending
  <2>1. CASE i \in 1..n /\ j \in 1..n
    BY <1>1, <2>1 DEF Descending, c, n
  <2>2. CASE i \in 1..n /\ j \notin 1..n
    <3>1. j - n \in 1..Len(b) /\ c[j] = b[j - n] /\ c[i] = a[i]
      BY <1>1, <1>2, <2>2 DEF c, n
    <3>2. c[j] < a[n]
      BY <3>1 DEF Elements, n
    <3>3. a[n] <= a[i]
      <4>1. n \in 1..n /\ i <= n /\ a[n] \in Int /\ a[i] \in Int
        BY <1>1, <2>2, DialogueAssumption DEF n, Id
      <4> QED BY <4>1, <2>2 DEF Descending, n
    <3>4. c[j] \in Int /\ a[i] \in Int /\ a[n] \in Int
      BY <1>1, <2>2, <3>1, DialogueAssumption DEF n, Id
    <3> QED BY <3>1, <3>2, <3>3, <3>4
  <2>3. CASE i \notin 1..n
    <3>1. i - n \in 1..Len(b) /\ c[i] = b[i - n]
      BY <1>1, <1>2, <2>3 DEF c, n
    <3>2. j \notin 1..n
      BY <1>1, <2>3 DEF n
    <3>3. j - n \in 1..Len(b) /\ c[j] = b[j - n]
      BY <1>1, <1>2, <3>2 DEF c, n
    <3>4. i - n < j - n
      BY <1>1 DEF n
    <3> QED BY <3>1, <3>3, <3>4 DEF Descending
  <2> QED BY <2>1, <2>2, <2>3
<1>4. Elements(c) = Elements(a) \union Elements(b)
  <2>1. \A i \in 1..Len(c) : c[i] \in Elements(a) \union Elements(b)
    BY <1>1, <1>2 DEF Elements, c, n
  <2>2. \A i \in 1..Len(a) : i \in 1..Len(c) /\ c[i] = a[i]
    BY <1>1 DEF c
  <2>3. \A i \in 1..Len(b) : n + i \in 1..Len(c) /\ c[n + i] = b[i]
    BY <1>1 DEF c, n
  <2>4. Elements(c) \subseteq Elements(a) \union Elements(b)
    BY <2>1 DEF Elements
  <2>5. Elements(a) \subseteq Elements(c)
    BY <2>2 DEF Elements
  <2>6. Elements(b) \subseteq Elements(c)
    BY <2>3 DEF Elements
  <2> QED BY <2>4, <2>5, <2>6
<1>5. b # <<>> => Len(b) \in 1..Len(b) /\ Len(c) = n + Len(b) /\ c[n + Len(b)] = b[Len(b)]
  BY <1>1 DEF c, n
<1>6. b # <<>> => c # <<>>
  BY <1>1, <1>5 DEF c, n
<1> QED BY <1>1, <1>3, <1>4, <1>5, <1>6 DEF c

LEMMA PagedOpen ==
    ASSUME IInv, NEW u \in User, NEW v \in User, NEW limit \in Limit, OpenHistory(u, v, limit)
    PROVE  Paged'
<1> DEFINE S    == Dialog(u, v)
           k    == Size(limit)
           page == Newest(S, k)
           list == NewestFirst(page)
<1>1. S \in SUBSET Id /\ S # {} /\ \A m \in S : Stored(m) /\ {messages[m].from, messages[m].to} = {u, v}
  BY DEF Dialog, OpenHistory
<1>2. k \in Nat /\ k >= 1
  BY Sizes
<1> HIDE DEF k
<1>3. /\ reader' = [user |-> u, other |-> v, got |-> list, start |-> S,
                    hasMore |-> Cardinality(S) > k, lost |-> FALSE]
      /\ messages' = messages
  BY DEF OpenHistory, Page, HasMore, Filter, k
<1>s. Cardinality(S) \in Nat
  BY <1>1, Ids
<1> HIDE DEF S
<1>4. /\ page \in SUBSET S /\ page # {} /\ (Cardinality(S) <= k => page = S)
      /\ \A m \in page, n \in S : m <= n => n \in page
  BY <1>1, <1>2, NewestOf
<1> HIDE DEF page
<1>5. page \in SUBSET Id
  BY <1>1, <1>4
<1>6. list \in Seq(page) /\ Descending(list) /\ Elements(list) = page
  BY <1>5, PageLists
<1> HIDE DEF list
<1>7. list # <<>> /\ list[Len(list)] \in page /\ list \in Seq(Id)
  <2>1. Len(list) \in Nat /\ Len(list) # 0
    BY <1>4, <1>6 DEF Elements
  <2> QED BY <1>5, <1>6, <2>1
<1>8. \A m \in S : Kept(m)'
  BY <1>1, <1>3 DEF Kept, Stored
<1>9. \A m \in S : (m >= list[Len(list)] \/ Cardinality(S) <= k) => m \in page
  <2> TAKE m \in S
  <2>1. m \in Int /\ list[Len(list)] \in Int
    BY <1>1, <1>5, <1>7, Ids
  <2> QED BY <1>4, <1>7, <2>1
<1>10. /\ reader'.got = list /\ reader'.start = S /\ reader'.lost = FALSE
       /\ reader'.hasMore <=> Cardinality(S) > k
  BY <1>3
<1>11. \A m \in S : m \in page => Has(m)'
  BY <1>6, <1>10 DEF Has
<1>12. ~reader'.hasMore => Cardinality(S) <= k
  BY <1>2, <1>s, <1>10
<1>13. reader' \in Reader
  BY <1>1, <1>3, <1>7 DEF Reader
<1> QED BY <1>13, <1>1, <1>6, <1>7, <1>8, <1>9, <1>10, <1>11, <1>12 DEF Paged, LastGot

LEMMA PagedScroll ==
    ASSUME IInv, Paged, NEW limit \in Limit, ScrollUp(limit)
    PROVE  Paged'
<1> DEFINE u      == reader.user
           v      == reader.other
           before == LastGot
           k      == Size(limit)
           S      == Filter(u, v, before)
           page   == Newest(S, k)
           list   == NewestFirst(page)
<1>1. /\ reader.hasMore /\ ~reader.lost /\ messages' = messages
      /\ reader' = [reader EXCEPT !.got = reader.got \o list, !.hasMore = Cardinality(S) > k,
                                  !.lost = ~Stored(before)]
  BY DEF ScrollUp, Page, HasMore, LastGot
<1>2. /\ reader.got \in Seq(Id) /\ reader.got # <<>> /\ Descending(reader.got)
      /\ reader.start \in SUBSET Id
      /\ \A m \in reader.start : Kept(m)
      /\ \A m \in reader.start : m >= before => Has(m)
      /\ reader \in Reader
  BY <1>1 DEF Paged, Reader
<1>3. before \in Id /\ before # None
  <2>1. before \in Id
    BY <1>2 DEF LastGot
  <2> QED BY <2>1, DialogueAssumption DEF Id
<1> HIDE DEF before
<1>4. k \in Nat /\ k >= 1
  BY Sizes
<1> HIDE DEF k
<1>5. S \in SUBSET Id /\ Cardinality(S) \in Nat
  <2>1. S \in SUBSET Id
    BY DEF Filter, Dialog
  <2> HIDE DEF S
  <2> QED BY <2>1, Ids
<1>6. Stored(before) => S = {m \in Dialog(u, v) : m < before}
  <2> SUFFICES ASSUME Stored(before)
               PROVE  S = {m \in Dialog(u, v) : m < before}
    OBVIOUS
  <2>1. S = {m \in Dialog(u, v) : Earlier(m, before)}
    BY <1>3 DEF Filter
  <2>2. \A m \in Dialog(u, v) : Earlier(m, before) <=> m < before
    <3> TAKE m \in Dialog(u, v)
    <3>1. /\ m \in Id /\ messages[m].state # "new" /\ messages[before].state # "new"
          /\ Types /\ Made(m) /\ Made(before)
      BY <1>3 DEF Dialog, Stored, IInv
    <3> QED BY <3>1, <1>3, EarlierIsSmaller
  <2> QED BY <2>1, <2>2
<1> HIDE DEF S
<1>7. /\ page \in SUBSET S /\ (S # {} => page # {}) /\ (Cardinality(S) <= k => page = S)
      /\ \A m \in page, n \in S : m <= n => n \in page
  BY <1>4, <1>5, NewestOf
<1> HIDE DEF page
<1>8. page \in SUBSET Id
  BY <1>5, <1>7
<1>9. list \in Seq(page) /\ Descending(list) /\ Elements(list) = page
  BY <1>8, PageLists
<1> HIDE DEF list
<1>10. list \in Seq(Id)
  BY <1>8, <1>9
<1>t. reader.got \o list \in Seq(Id)
  BY <1>2, <1>10
<1>11. /\ reader'.got = reader.got \o list /\ reader'.start = reader.start
       /\ reader'.lost <=> ~Stored(before)
       /\ reader'.hasMore <=> Cardinality(S) > k
       /\ reader'.user = u /\ reader'.other = v
       /\ reader' \in Reader
  <2> DEFINE got  == reader.got \o list
             more == Cardinality(S) > k
             lost == ~Stored(before)
  <2>1. got \in Seq(Id) /\ more \in BOOLEAN /\ lost \in BOOLEAN
    BY <1>t
  <2>2. reader' = [reader EXCEPT !.got = got, !.hasMore = more, !.lost = lost]
    BY <1>1
  <2> HIDE DEF got, more, lost
  <2>3. /\ reader'.got = got /\ reader'.start = reader.start
        /\ reader'.lost = lost /\ reader'.hasMore = more
        /\ reader'.user = u /\ reader'.other = v /\ reader' \in Reader
    BY <1>2, <2>1, <2>2 DEF Reader
  <2> QED BY <2>3 DEF got, more, lost
<1>12. SUFFICES ASSUME Stored(before)
                PROVE  /\ Descending(reader'.got)
                       /\ \A m \in reader.start : Kept(m)'
                       /\ reader'.hasMore => /\ reader'.got # <<>>
                                             /\ \A m \in reader.start : m >= LastGot' => Has(m)'
                       /\ ~reader'.hasMore => \A m \in reader.start : Has(m)'
  BY <1>2, <1>11, <1>t DEF Paged
<1>13. \A m \in Elements(list) : m < reader.got[Len(reader.got)]
  BY <1>6, <1>7, <1>9, <1>12 DEF before, LastGot
<1>14. /\ Descending(reader'.got)
       /\ Elements(reader'.got) = Elements(reader.got) \union page
       /\ list # <<>> => reader'.got # <<>> /\ LastGot' = list[Len(list)]
  BY <1>2, <1>9, <1>10, <1>11, <1>13, GoesOn DEF LastGot
<1>15. \A m \in reader.start : Kept(m)'
  BY <1>1, <1>2, <1>11 DEF Kept
<1>16. ASSUME NEW m \in reader.start, Stored(m), m \notin Elements(reader.got)
       PROVE  m \in S
  <2>1. m \in Int /\ before \in Int /\ ~(m >= before)
    BY <1>2, <1>3, <1>16, Ids DEF Has
  <2>2. m \in Dialog(u, v)
    BY <1>2, <1>16 DEF Kept, Dialog
  <2> QED BY <1>6, <1>12, <2>1, <2>2
<1>17. ASSUME NEW m \in reader.start, m \in S => m \in page
       PROVE  Has(m)'
  BY <1>1, <1>14, <1>16, <1>17 DEF Has, Stored
<1>18. CASE ~reader'.hasMore
  <2>1. page = S
    BY <1>4, <1>5, <1>7, <1>11, <1>18
  <2> QED BY <1>14, <1>15, <1>17, <1>18, <2>1
<1>19. CASE reader'.hasMore
  <2>1. Cardinality(S) # 0
    BY <1>4, <1>5, <1>11, <1>19
  <2>5. S # {}
    BY <2>1, FS_EmptySet
  <2>2. Len(list) \in Nat /\ Len(list) # 0
    BY <1>7, <1>9, <2>5 DEF Elements
  <2>3. list # <<>> /\ list[Len(list)] \in page
    BY <1>9, <2>2
  <2>4. ASSUME NEW m \in reader.start, m >= LastGot', m \in S
        PROVE  m \in page
    BY <1>7, <1>14, <2>3, <2>4, <1>8, <1>5, Ids
  <2> QED BY <1>14, <1>15, <1>17, <1>19, <2>3, <2>4
<1> QED BY <1>18, <1>19

LEMMA PagedStep ==
    ASSUME IInv, Paged, [Next]_vars
    PROVE  Paged'
<1>1. ASSUME NEW r \in Request, Grows(r)
      PROVE  Paged'
  <2>1. \A m \in Id : messages[m].state \in {"stored", "deleted"} =>
            /\ messages'[m].state \in {"stored", "deleted"}
            /\ Stored(m)' => Stored(m)
            /\ messages'[m].from = messages[m].from
            /\ messages'[m].to = messages[m].to
    BY <1>1 DEF Grows, Grown, Stored
  <2> QED BY <1>1, <2>1, PagedKept DEF Grows
<1>2. ASSUME NEW r \in Request, NEW u \in User, NEW v \in User, NEW t \in Text,
             SendMessage(r, u, v, t)
      PROVE  Paged'
  <2>1. PICK m \in Id : SendMessage(r, u, v, t)!3!(m)
    BY <1>2 DEF SendMessage
  <2>2. \A n \in Id : messages[n].state \in {"stored", "deleted"} => messages'[n] = messages[n]
    BY <2>1 DEF IInv, Types
  <2> QED BY <1>2, <2>2, PagedKept DEF SendMessage, Stored
<1>3. CASE Read
  <2>1. CASE CloseHistory
    BY <2>1 DEF CloseHistory, Closed, Paged, Descending, Reader
  <2> QED BY <1>3, <2>1, PagedOpen, PagedScroll DEF Read
<1>4. CASE Tick \/ UNCHANGED vars
  <2>1. messages' = messages /\ reader' = reader
    BY <1>4 DEF Tick, vars
  <2> QED BY <2>1, PagedKept DEF Stored
<1> QED BY <1>1, <1>2, <1>3, <1>4, Steps

(* A reader who scrolls to the top of a history (getChatBetweenUsers, with   *)
(* its cursor of time and id) has every message that was there when he began *)
(* and still is, none twice, for any number of messages, any page sizes and  *)
(* whatever is sent, inserted late or deleted beside him.                    *)
THEOREM Pages == Spec => []PagesComplete
<1>1. Init => Paged
  BY PagedInit DEF Init
<1>2. IInv /\ Paged /\ [Next]_vars => Paged'
  BY PagedStep
<1>3. Paged => PagesComplete
  <2> SUFFICES ASSUME Paged, ~reader.lost
               PROVE  /\ Cardinality(Elements(reader.got)) = Len(reader.got)
                      /\ Descending(reader.got)
                      /\ ~reader.hasMore =>
                            {m \in reader.start : Stored(m)} \subseteq Elements(reader.got)
    BY DEF PagesComplete, Descending
  <2> DEFINE s == reader.got
             n == Len(s)
             f == [i \in 1..n |-> s[i]]
  <2>1. s \in Seq(Id) /\ Descending(s)
    BY DEF Paged, Reader
  <2>2. ~reader.hasMore => {m \in reader.start : Stored(m)} \subseteq Elements(s)
    BY DEF Paged, Has
  <2> HIDE DEF s
  <2>3. n \in Nat /\ \A i \in 1..n : s[i] \in Int
    BY <2>1, DialogueAssumption DEF Id
  <2>4. IsFiniteSet(1..n) /\ Cardinality(1..n) = n
    BY <2>3, FS_Interval
  <2> HIDE DEF n
  <2>5. f \in Bijection(1..n, Elements(s))
    <3>1. f \in [1..n -> Elements(s)] /\ \A x \in Elements(s) : \E i \in 1..n : f[i] = x
      BY DEF Elements, n
    <3>2. ASSUME NEW i \in 1..n, NEW j \in 1..n, i # j
          PROVE  f[i] # f[j]
      <4>1. i < j \/ j < i
        BY <2>3, <3>2
      <4> QED BY <2>1, <2>3, <4>1 DEF Descending, n
    <3> HIDE DEF f
    <3>3. f \in Injection(1..n, Elements(s)) /\ f \in Surjection(1..n, Elements(s))
      BY <3>1, <3>2 DEF Injection, IsInjective, Surjection
    <3> QED BY <3>3 DEF Bijection
  <2> HIDE DEF f
  <2>6. Cardinality(Elements(s)) = n
    <3>1. ExistsBijection(1..n, Elements(s))
      BY <2>5 DEF ExistsBijection
    <3> QED BY <2>4, <3>1, FS_Bijection
  <2> QED BY <2>1, <2>2, <2>6 DEF s, n
<1> QED BY Invariance, <1>1, <1>2, <1>3, PTL DEF Spec

(***************************************************************************)
(* The tabs, when handlers do not overlap                                  *)
(***************************************************************************)
Match(m) == /\ tabs[m].shown <=> Stored(m)
            /\ Stored(m) => /\ tabs[m].isRead = messages[m].isRead
                            /\ tabs[m].text = messages[m].text

\* What a handler knows of the messages it writes or has written.
Aware(r) ==
    /\ req[r].pc = "insert"  => /\ ~messages[req[r].id].isRead
                                /\ messages[req[r].id].text = req[r].text
    /\ req[r].pc = "receive" => /\ req[r].id \in Id /\ Stored(req[r].id)
                                /\ ~messages[req[r].id].isRead
                                /\ messages[req[r].id].text = req[r].text
    /\ req[r].pc = "edited"  => /\ req[r].id \in Id /\ Stored(req[r].id)
                                /\ messages[req[r].id].text = req[r].text
    /\ req[r].pc = "deleted" => req[r].id \in Id /\ messages[req[r].id].state = "deleted"
    /\ req[r].pc = "read"    => \A m \in Incoming(req[r].by, req[r].of) :
                                   Stored(m) => messages[m].isRead

\* The messages that a handler has still to tell the tabs of.
Covers(r, m) ==
    \/ req[r].pc \in {"receive", "deleted"} /\ req[r].id = m
    \/ /\ req[r].pc = "edited" /\ req[r].id = m
       /\ tabs[m].shown /\ tabs[m].isRead = messages[m].isRead
    \/ /\ req[r].pc = "read" /\ m \in Incoming(req[r].by, req[r].of)
       /\ tabs[m].shown <=> Stored(m)
       /\ Stored(m) => tabs[m].text = messages[m].text

Told ==
    /\ \A r \in Request : Aware(r)
    /\ \A m \in Id : Match(m) \/ \E r \in Request : Covers(r, m)

TabTypes == tabs \in [Id -> Tab]

\* No other handler is busy, before or after.
OneAt(r) == \A q \in Request \ {r} : req[q].pc = "idle" /\ req'[q] = req[q]

LEMMA Untold ==
    ASSUME Told, NEW r \in Request, OneAt(r)
    PROVE  Aware(r) /\ \A m \in Id : Match(m) \/ Covers(r, m)
BY DEF Told, OneAt, Covers

LEMMA ToldOne ==
    ASSUME NEW r \in Request, OneAt(r), Aware(r)',
           \A m \in Id : Match(m)' \/ Covers(r, m)'
    PROVE  Told'
<1>1. \A q \in Request \ {r} : Aware(q)'
  BY DEF OneAt, Aware
<1> QED BY <1>1 DEF Told

LEMMA ToldSend ==
    ASSUME IInv, Told, NEW r \in Request, OneAt(r),
           NEW u \in User, NEW v \in User, NEW t \in Text, SendMessage(r, u, v, t)
    PROVE  Told'
<1> PICK m \in Id : SendMessage(r, u, v, t)!3!(m)
  BY DEF SendMessage
<1>1. /\ req[r].pc = "idle" /\ tabs' = tabs
      /\ messages'[m].state = "sending" /\ ~messages'[m].isRead /\ messages'[m].text = t
      /\ \A n \in Id \ {m} : messages'[n] = messages[n]
  BY DEF SendMessage, At, IInv, Types
<1>2. req'[r].pc = "insert" /\ req'[r].id = m /\ req'[r].text = t
  BY DEF IInv, Types, Become, Idle
<1>3. \A n \in Id : Match(n)
  BY <1>1, Untold DEF Covers
<1>4. \A n \in Id : Match(n)'
  BY <1>1, <1>3 DEF Match, Stored
<1>5. Aware(r)'
  BY <1>1, <1>2 DEF Aware
<1> QED BY <1>4, <1>5, ToldOne

LEMMA ToldMark ==
    ASSUME IInv, Told, NEW r \in Request, OneAt(r),
           NEW by \in User, NEW of \in User, MarkRead(r, by, of)
    PROVE  Told'
<1>1. req[r].pc = "idle" /\ tabs' = tabs
  BY DEF MarkRead, At
<1>2. req'[r].pc = "read" /\ req'[r].by = by /\ req'[r].of = of
  BY DEF MarkRead, IInv, Types, Become, Idle
<1>3. \A n \in Id : Match(n)
  BY <1>1, Untold DEF Covers
<1>4. ASSUME NEW m \in Id
      PROVE  /\ messages'[m].state = messages[m].state /\ messages'[m].text = messages[m].text
             /\ messages'[m].from = messages[m].from /\ messages'[m].to = messages[m].to
             /\ messages'[m].isRead = IF m \in Unread(by, of) THEN TRUE ELSE messages[m].isRead
  <2>1. messages[m] \in Message
    BY DEF IInv, Types
  <2> QED BY <2>1 DEF MarkRead, Message
<1>5. Incoming(by, of)' = Incoming(by, of)
  BY <1>4 DEF Incoming
<1>6. Aware(r)'
  <2>1. \A m \in Incoming(by, of) : Stored(m)' => messages'[m].isRead
    BY <1>4 DEF Incoming, Unread, Stored
  <2> QED BY <1>2, <1>5, <2>1 DEF Aware
<1>7. \A m \in Id : Match(m)' \/ Covers(r, m)'
  <2> TAKE m \in Id
  <2>1. CASE m \in Unread(by, of)
    <3>1. m \in Incoming(by, of)
      BY <2>1 DEF Unread
    <3> QED BY <1>1, <1>2, <1>3, <1>4, <1>5, <3>1 DEF Covers, Match, Stored
  <2>2. CASE m \notin Unread(by, of)
    BY <1>1, <1>3, <1>4, <2>2 DEF Match, Stored
  <2> QED BY <2>1, <2>2
<1> QED BY <1>6, <1>7, ToldOne

LEMMA ToldPick ==
    ASSUME IInv, Told, NEW r \in Request, OneAt(r), NEW m \in Id,
           DeleteMessage(r, m) \/ \E t \in Text : EditMessage(r, m, t)
    PROVE  Told'
<1>1. req[r].pc = "idle" /\ tabs' = tabs /\ messages' = messages
  BY DEF DeleteMessage, EditMessage, At
<1>2. req'[r].pc \in {"save", "delete"}
  BY DEF DeleteMessage, EditMessage, IInv, Types, Become, Idle
<1>3. \A n \in Id : Match(n)
  BY <1>1, Untold DEF Covers
<1>4. \A n \in Id : Match(n)'
  BY <1>1, <1>3 DEF Match, Stored
<1>5. Aware(r)'
  BY <1>2 DEF Aware
<1> QED BY <1>4, <1>5, ToldOne

LEMMA ToldInsert ==
    ASSUME IInv, Told, NEW r \in Request, OneAt(r), Insert(r)
    PROVE  Told'
<1> SUFFICES ASSUME NEW i, i = req[r].id
             PROVE  Told'
  OBVIOUS
<1>1. /\ i \in Id /\ req[r].pc = "insert" /\ tabs' = tabs
      /\ messages[i] \in Message
      /\ req'[r].pc = "receive" /\ req'[r].id = i /\ req'[r].text = req[r].text
  BY DEF Insert, At, Goto, Become, IInv, Types, Holds, Req
<1>2. /\ messages'[i].state = "stored" /\ messages'[i].isRead = messages[i].isRead
      /\ messages'[i].text = messages[i].text
      /\ \A n \in Id \ {i} : messages'[n] = messages[n]
  BY <1>1 DEF Insert, IInv, Types, Message
<1>3. Aware(r) /\ \A n \in Id : Match(n)
  BY <1>1, Untold DEF Covers
<1>4. Aware(r)'
  BY <1>1, <1>2, <1>3 DEF Aware, Stored
<1>5. \A n \in Id : Match(n)' \/ Covers(r, n)'
  BY <1>1, <1>2, <1>3 DEF Match, Stored, Covers
<1> QED BY <1>4, <1>5, ToldOne

LEMMA ToldReceive ==
    ASSUME IInv, TabTypes, Told, NEW r \in Request, OneAt(r), ReceiveMessage(r)
    PROVE  Told'
<1>0. Aware(r) /\ \A n \in Id : Match(n) \/ Covers(r, n)
  BY Untold
<1> SUFFICES ASSUME NEW i, i = req[r].id
             PROVE  Told'
  OBVIOUS
<1>1. /\ req[r].pc = "receive" /\ messages' = messages /\ req'[r].pc = "idle"
      /\ i \in Id /\ Stored(i) /\ ~messages[i].isRead /\ messages[i].text = req[r].text
  BY <1>0 DEF ReceiveMessage, At, Finish, Become, IInv, Types, Idle, Aware
<1>2. /\ tabs'[i].shown /\ tabs'[i].isRead = FALSE /\ tabs'[i].text = req[r].text
      /\ \A n \in Id \ {i} : tabs'[n] = tabs[n]
  BY <1>1 DEF ReceiveMessage, TabTypes
<1>3. messages[i].isRead = FALSE
  BY <1>1 DEF IInv, Types, Message
<1>4. \A n \in Id \ {i} : Match(n)
  BY <1>0, <1>1 DEF Covers
<1>5. \A n \in Id : Match(n)'
  BY <1>1, <1>2, <1>3, <1>4 DEF Match, Stored
<1>6. Aware(r)'
  BY <1>1 DEF Aware
<1> QED BY <1>5, <1>6, ToldOne

LEMMA ToldRead ==
    ASSUME IInv, TabTypes, Told, NEW r \in Request, OneAt(r), MessagesRead(r)
    PROVE  Told'
<1>0. Aware(r) /\ \A n \in Id : Match(n) \/ Covers(r, n)
  BY Untold
<1> SUFFICES ASSUME NEW T, T = Incoming(req[r].by, req[r].of)
             PROVE  Told'
  OBVIOUS
<1>1. /\ req[r].pc = "read" /\ messages' = messages /\ req'[r].pc = "idle"
      /\ \A m \in T : Stored(m) => messages[m].isRead
  BY <1>0 DEF MessagesRead, At, Finish, Become, IInv, Types, Idle, Aware
<1>2. ASSUME NEW n \in Id
      PROVE  /\ tabs'[n].shown = tabs[n].shown /\ tabs'[n].text = tabs[n].text
             /\ tabs'[n].isRead = IF n \in T /\ tabs[n].shown THEN TRUE ELSE tabs[n].isRead
  <2>1. tabs[n] \in Tab
    BY DEF TabTypes
  <2> QED BY <2>1 DEF MessagesRead, Tab
<1>3. ASSUME NEW n \in Id
      PROVE  Match(n)'
  <2>1. /\ tabs[n].shown <=> Stored(n)
        /\ Stored(n) => tabs[n].text = messages[n].text
        /\ n \notin T => Match(n)
    BY <1>0, <1>1 DEF Covers, Match
  <2>2. messages[n].isRead \in BOOLEAN
    BY DEF IInv, Types, Message
  <2>3. CASE n \in T
    BY <1>1, <1>2, <2>1, <2>2, <2>3 DEF Match, Stored
  <2>4. CASE n \notin T
    BY <1>1, <1>2, <2>1, <2>4 DEF Match, Stored
  <2> QED BY <2>3, <2>4
<1>4. Aware(r)'
  BY <1>1 DEF Aware
<1> QED BY <1>3, <1>4, ToldOne

LEMMA ToldSave ==
    ASSUME IInv, TabTypes, Told, NEW r \in Request, OneAt(r), SaveText(r)
    PROVE  Told'
<1> SUFFICES ASSUME NEW i, i = req[r].id
             PROVE  Told'
  OBVIOUS
<1>1. req[r].pc = "save" /\ i \in Id /\ tabs' = tabs /\ messages[i] \in Message
  BY DEF SaveText, At, IInv, Types, Holds
<1>2. \A n \in Id : Match(n)
  BY <1>1, Untold DEF Covers
<1>3. CASE ~Stored(i)
  <2>1. messages' = messages /\ req'[r].pc = "idle"
    BY <1>3 DEF SaveText, Finish, Become, IInv, Types, Idle
  <2>2. Aware(r)' /\ \A n \in Id : Match(n)'
    BY <1>1, <1>2, <2>1 DEF Aware, Match, Stored
  <2> QED BY <2>2, ToldOne
<1>4. CASE Stored(i)
  <2>1. /\ messages'[i].state = "stored" /\ messages'[i].isRead = messages[i].isRead
        /\ messages'[i].text = req[r].text
        /\ \A n \in Id \ {i} : messages'[n] = messages[n]
    BY <1>1, <1>4 DEF SaveText, IInv, Types, Message, Stored
  <2>2. req'[r].pc = "edited" /\ req'[r].id = i /\ req'[r].text = req[r].text
    BY <1>4 DEF SaveText, Goto, Become, IInv, Types, Req
  <2>3. Aware(r)'
    BY <1>1, <2>1, <2>2 DEF Aware, Stored
  <2>4. \A n \in Id : Match(n)' \/ Covers(r, n)'
    BY <1>1, <1>2, <1>4, <2>1, <2>2 DEF Match, Covers, Stored
  <2> QED BY <2>3, <2>4, ToldOne
<1> QED BY <1>3, <1>4

LEMMA ToldEdited ==
    ASSUME IInv, TabTypes, Told, NEW r \in Request, OneAt(r), MessageEdited(r)
    PROVE  Told'
<1>0. Aware(r) /\ \A n \in Id : Match(n) \/ Covers(r, n)
  BY Untold
<1> SUFFICES ASSUME NEW i, i = req[r].id
             PROVE  Told'
  OBVIOUS
<1>1. /\ req[r].pc = "edited" /\ messages' = messages /\ req'[r].pc = "idle"
      /\ i \in Id /\ Stored(i) /\ messages[i].text = req[r].text
  BY <1>0 DEF MessageEdited, At, Finish, Become, IInv, Types, Idle, Aware
<1>2. /\ tabs'[i].shown = tabs[i].shown /\ tabs'[i].isRead = tabs[i].isRead
      /\ tabs'[i].text = req[r].text
      /\ \A n \in Id \ {i} : tabs'[n] = tabs[n]
  BY <1>1 DEF MessageEdited, TabTypes, Tab
<1>3. /\ \A n \in Id \ {i} : Match(n)
      /\ tabs[i].shown /\ tabs[i].isRead = messages[i].isRead
  BY <1>0, <1>1 DEF Covers, Match
<1>5. \A n \in Id : Match(n)'
  BY <1>1, <1>2, <1>3 DEF Match, Stored
<1>6. Aware(r)'
  BY <1>1 DEF Aware
<1> QED BY <1>5, <1>6, ToldOne

LEMMA ToldDelete ==
    ASSUME IInv, TabTypes, Told, NEW r \in Request, OneAt(r), DeleteOne(r)
    PROVE  Told'
<1> SUFFICES ASSUME NEW i, i = req[r].id
             PROVE  Told'
  OBVIOUS
<1>1. /\ i \in Id /\ req[r].pc = "delete" /\ tabs' = tabs /\ messages[i] \in Message
      /\ req'[r].pc = "deleted" /\ req'[r].id = i
  BY DEF DeleteOne, At, Goto, Become, IInv, Types, Holds, Req
<1>2. /\ messages'[i].state = "deleted"
      /\ \A n \in Id \ {i} : messages'[n] = messages[n]
  BY <1>1 DEF DeleteOne, IInv, Types, Message
<1>3. \A n \in Id : Match(n)
  BY <1>1, Untold DEF Covers
<1>4. Aware(r)'
  BY <1>1, <1>2 DEF Aware
<1>5. \A n \in Id : Match(n)' \/ Covers(r, n)'
  BY <1>1, <1>2, <1>3 DEF Match, Stored, Covers
<1> QED BY <1>4, <1>5, ToldOne

LEMMA ToldDeleted ==
    ASSUME IInv, TabTypes, Told, NEW r \in Request, OneAt(r), MessageDeleted(r)
    PROVE  Told'
<1>0. Aware(r) /\ \A n \in Id : Match(n) \/ Covers(r, n)
  BY Untold
<1> SUFFICES ASSUME NEW i, i = req[r].id
             PROVE  Told'
  OBVIOUS
<1>1. /\ req[r].pc = "deleted" /\ messages' = messages /\ req'[r].pc = "idle"
      /\ i \in Id /\ messages[i].state = "deleted"
  BY <1>0 DEF MessageDeleted, At, Finish, Become, IInv, Types, Idle, Aware
<1>2. /\ ~tabs'[i].shown
      /\ \A n \in Id \ {i} : tabs'[n] = tabs[n]
  BY <1>1 DEF MessageDeleted, TabTypes, Hidden
<1>3. \A n \in Id \ {i} : Match(n)
  BY <1>0, <1>1 DEF Covers, Match
<1>5. \A n \in Id : Match(n)'
  BY <1>1, <1>2, <1>3 DEF Match, Stored
<1>6. Aware(r)'
  BY <1>1 DEF Aware
<1> QED BY <1>5, <1>6, ToldOne

LEMMA ToldStep ==
    ASSUME IInv, TabTypes, Told, NEW r \in Request, OneAt(r), Start(r) \/ Step(r)
    PROVE  Told'
BY ToldSend, ToldMark, ToldPick, ToldInsert, ToldReceive, ToldRead, ToldSave, ToldEdited,
   ToldDelete, ToldDeleted DEF Start, Step

LEMMA TabTypesStep ==
    ASSUME IInv, TabTypes, [Next]_vars
    PROVE  TabTypes'
<1>1. ASSUME NEW r \in Request, ReceiveMessage(r) \/ MessagesRead(r) \/ MessageEdited(r)
                                 \/ MessageDeleted(r)
      PROVE  TabTypes'
  <2>1. req[r].text \in Text \union {None}
    BY DEF IInv, Types, Req
  <2>2. \A m \in Id : tabs[m] \in Tab
    BY DEF TabTypes
  <2>3. CASE ReceiveMessage(r)
    BY <2>1, <2>3 DEF ReceiveMessage, TabTypes, Tab
  <2>4. CASE MessagesRead(r)
    <3>1. \A m \in Id : [tabs[m] EXCEPT !.isRead = TRUE] \in Tab
      BY <2>2 DEF Tab
    <3> QED BY <2>2, <2>4, <3>1 DEF MessagesRead, TabTypes
  <2>5. CASE MessageEdited(r)
    <3>1. \A m \in Id : [tabs[m] EXCEPT !.text = req[r].text] \in Tab
      BY <2>1, <2>2 DEF Tab
    <3> QED BY <2>2, <2>5, <3>1 DEF MessageEdited, TabTypes
  <2>6. CASE MessageDeleted(r)
    BY <2>6 DEF MessageDeleted, TabTypes, Tab, Hidden
  <2> QED BY <1>1, <2>3, <2>4, <2>5, <2>6
<1>2. CASE \E r \in Request : Start(r) \/ Insert(r) \/ SaveText(r) \/ DeleteOne(r)
  <2>1. tabs' = tabs
    BY <1>2 DEF Start, Insert, SaveText, DeleteOne, SendMessage, MarkRead, DeleteMessage, EditMessage
  <2> QED BY <2>1 DEF TabTypes
<1>3. CASE Read \/ Tick \/ UNCHANGED vars
  <2>1. tabs' = tabs
    BY <1>3 DEF Read, OpenHistory, ScrollUp, CloseHistory, Tick, vars
  <2> QED BY <2>1 DEF TabTypes
<1> QED BY <1>1, <1>2, <1>3 DEF Next, Step

\* Only the handler that takes the step changes, and it is busy before or after.
LEMMA BusyStep ==
    ASSUME IInv, NEW r \in Request, Start(r) \/ Step(r)
    PROVE  /\ \A q \in Request \ {r} : req'[q] = req[q]
           /\ req[r].pc # "idle" \/ req'[r].pc # "idle"
<1>1. \A q \in Request \ {r} : req'[q] = req[q]
  BY DEF IInv, Types, Start, Step, SendMessage, MarkRead, DeleteMessage, EditMessage, Insert,
         ReceiveMessage, MessagesRead, SaveText, MessageEdited, DeleteOne, MessageDeleted,
         Become, Goto, Finish
<1>2. CASE Step(r)
  BY <1>1, <1>2 DEF Step, Insert, ReceiveMessage, MessagesRead, SaveText, MessageEdited, DeleteOne,
              MessageDeleted, At
<1>3. CASE Start(r)
  <2>1. req \in [Request -> Req]
    BY DEF IInv, Types
  <2>2. \E held : held.pc # "idle" /\ req' = [req EXCEPT ![r] = held]
    <3>1. ASSUME NEW u \in User, NEW v \in User, MarkRead(r, u, v)
          PROVE  \E held : held.pc # "idle" /\ req' = [req EXCEPT ![r] = held]
      BY <3>1 DEF MarkRead, Become, Idle
    <3>2. ASSUME NEW u \in User, NEW v \in User, NEW t \in Text, SendMessage(r, u, v, t)
          PROVE  \E held : held.pc # "idle" /\ req' = [req EXCEPT ![r] = held]
      BY <3>2 DEF SendMessage, Become, Idle
    <3>3. ASSUME NEW m \in Id, DeleteMessage(r, m) \/ \E t \in Text : EditMessage(r, m, t)
          PROVE  \E held : held.pc # "idle" /\ req' = [req EXCEPT ![r] = held]
      BY <3>3 DEF DeleteMessage, EditMessage, Become, Idle
    <3> QED BY <1>3, <3>1, <3>2, <3>3 DEF Start
  <2> QED BY <1>1, <2>1, <2>2
<1> QED BY <1>1, <1>2, <1>3

(* The dialogues with one handler at a time and no other bound.              *)
OneByOne == Init /\ [][Next /\ Cardinality(Busy') <= 1]_vars

\* What holds of the tabs while that is so.
InTouch == IInv /\ TabTypes /\ IsFiniteSet(Busy) /\ Single(Busy) /\ Told

LEMMA InTouchInit == Init => InTouch
<1> SUFFICES ASSUME Init
             PROVE  InTouch
  OBVIOUS
<1>1. IInv /\ TabTypes /\ Busy = {} /\ Told
  BY InitIInv DEF Init, TabTypes, Tab, Hidden, Busy, At, Idle, Told, Aware, Match, Stored, NoMessage
<1> QED BY <1>1, FS_EmptySet DEF InTouch, Single

LEMMA InTouchStill ==
    ASSUME InTouch, [Next]_vars, UNCHANGED <<messages, tabs, req>>
    PROVE  InTouch'
<1>1. IInv' /\ TabTypes'
  BY Inductive, TabTypesStep DEF InTouch
<1>2. Busy' = Busy /\ Told'
  BY DEF InTouch, Busy, At, Told, Aware, Match, Covers, Incoming, Stored
<1> QED BY <1>1, <1>2 DEF InTouch, Single

LEMMA InTouchStep ==
    ASSUME InTouch, [Next /\ Cardinality(Busy') <= 1]_vars
    PROVE  InTouch'
<1>1. ASSUME NEW r \in Request, Start(r) \/ Step(r), Cardinality(Busy') <= 1
      PROVE  InTouch'
  <2>1. /\ \A q \in Request \ {r} : req'[q] = req[q]
        /\ req[r].pc # "idle" \/ req'[r].pc # "idle"
    BY <1>1, BusyStep DEF InTouch
  <2>2. Busy' \subseteq Busy \union {r}
    BY <2>1 DEF Busy, At
  <2>3. IsFiniteSet(Busy') /\ Single(Busy')
    <3>1. IsFiniteSet(Busy \union {r})
      BY FS_AddElement DEF InTouch
    <3>2. IsFiniteSet(Busy')
      BY <2>2, <3>1, FS_Subset
    <3> QED BY <1>1, <3>2, AtMostOne
  <2>4. OneAt(r)
    BY <2>1, <2>3 DEF OneAt, InTouch, Single, Busy, At
  <2>5. IInv' /\ TabTypes'
    BY <1>1, Inductive, TabTypesStep DEF InTouch, Next
  <2> QED BY <1>1, <2>3, <2>4, <2>5, ToldStep DEF InTouch
<1>2. CASE UNCHANGED vars
  BY <1>2, InTouchStill DEF vars
<1>3. CASE Next /\ (Read \/ Tick)
  BY <1>3, InTouchStill DEF Read, OpenHistory, ScrollUp, CloseHistory, Tick
<1> QED BY <1>1, <1>2, <1>3 DEF Next

LEMMA TabsTold == InTouch => TabsTrue
BY DEF InTouch, TabsTrue, Told, Match, Covers, At

(* As long as handlers do not overlap, the events (receiveMessage,           *)
(* messagesRead, messageEdited, messageDeleted) leave the tabs of both users *)
(* with the messages as they are stored, for any number of messages, users   *)
(* and handlers.                                                             *)
THEOREM Tabs == (OneByOne => []TabsTrue) /\ (MCSpec => []TabsTrueSolo)
<1>1. OneByOne => []TabsTrue
  BY InTouchInit, InTouchStep, TabsTold, PTL DEF OneByOne
<1>2. MCInit => (scene = "solo" => InTouch)
  BY InTouchInit DEF MCInit
<1>3. (scene = "solo" => InTouch) /\ [MCNext]_<<vars, presence, scene>> => (scene = "solo" => InTouch)'
  <2> SUFFICES ASSUME scene = "solo", InTouch, [MCNext]_<<vars, presence, scene>>
               PROVE  InTouch'
    BY DEF MCNext
  <2>1. [Next /\ Cardinality(Busy') <= 1]_vars
    BY DEF MCNext, InScene, Presences
  <2> QED BY <2>1, InTouchStep
<1>4. (scene = "solo" => InTouch) => TabsTrueSolo
  BY TabsTold DEF TabsTrueSolo
<1>5. MCSpec => []TabsTrueSolo
  BY <1>2, <1>3, <1>4, PTL DEF MCSpec
<1> QED BY <1>1, <1>5

(***************************************************************************)
(* Who is online                                                           *)
(***************************************************************************)
(* What the handlers of a connection rest on: it has no user before its      *)
(* token was verified, it is closed once it is being closed, and whoever is  *)
(* about to be told of has a user.                                           *)
Settled(s) ==
    /\ opening[s] \in {"none", "verify"} => userId[s] = None
    /\ opening[s] = "check" => userId[s] \in Person
    /\ opening[s] = "none" => closing[s] = "none" /\ s \notin alive
    /\ closing[s] # "none" => s \notin alive
    /\ closing[s] = "touch" => userId[s] \in Person

PInv ==
    /\ P!TypeOK
    /\ \A s \in Socket : Settled(s)
    /\ P!GoneIsKnown

LEMMA SameCardinality == \A S : P!Cardinality(S) = Cardinality(S)
BY DEF P!Cardinality, Cardinality, P!IsFiniteSet, IsFiniteSet

LEMMA InitPInv ==
    ASSUME P!Init
    PROVE  PInv
BY DEF P!Init, PInv, P!TypeOK, Settled, P!GoneIsKnown

(* A step that shows nobody new and leaves the rooms, and the events on      *)
(* their way, to those who are shown still.                                  *)
LEMMA StillKnown ==
    ASSUME PInv, shown' \subseteq shown,
           \A q \in alive : userId[q] \in Person => q \in alive' /\ userId'[q] = userId[q],
           \A q \in Socket : closing[q] = "touch" => closing'[q] = "touch" /\ userId'[q] = userId[q]
    PROVE  P!GoneIsKnown'
<1> SUFFICES ASSUME NEW u \in shown'
             PROVE  P!Online(u)' \/ \E s \in Socket : closing'[s] = "touch" /\ userId'[s] = u
  BY DEF P!GoneIsKnown
<1>1. u \in Person /\ (P!Online(u) \/ \E s \in Socket : closing[s] = "touch" /\ userId[s] = u)
  BY DEF P!GoneIsKnown, PInv, P!TypeOK
<1>2. CASE P!Online(u)
  <2>1. PICK q \in alive : userId[q] = u
    BY <1>2 DEF P!Online, P!ConnectionsOf, P!RoomAt
  <2>2. q \in alive' /\ userId'[q] = u
    BY <1>1, <2>1
  <2> QED BY <2>2 DEF P!Online, P!ConnectionsOf, P!RoomAt
<1>3. CASE \E s \in Socket : closing[s] = "touch" /\ userId[s] = u
  BY <1>3
<1> QED BY <1>1, <1>2, <1>3

LEMMA ConnectStep ==
    ASSUME PInv, NEW s \in Socket, NEW u \in Person \union {None}, P!Connect(s, u)
    PROVE  PInv'
<1>1. P!TypeOK'
  BY DEF PInv, P!TypeOK, P!Connect
<1>2. \A q \in Socket : Settled(q)'
  BY DEF PInv, P!TypeOK, P!Connect, Settled
<1>3. P!GoneIsKnown'
  BY StillKnown DEF P!Connect
<1> QED BY <1>1, <1>2, <1>3 DEF PInv

LEMMA VerifyStep ==
    ASSUME PInv, NEW s \in Socket, P!Verify(s)
    PROVE  PInv'
<1>s. Settled(s) /\ userId[s] = None /\ closing[s] # "touch" /\ shown' = shown
  BY PersonAssumption DEF PInv, Settled, P!Verify, P!TypeOK
<1>1. P!TypeOK'
  BY DEF PInv, P!TypeOK, P!Verify
<1>2. \A q \in Socket : Settled(q)'
  <2> TAKE q \in Socket
  <2>1. Settled(q)
    BY DEF PInv
  <2>2. CASE q = s
    BY <1>s, <2>1, <2>2 DEF PInv, P!TypeOK, P!Verify, Settled
  <2>3. CASE q # s
    BY <2>1, <2>3 DEF PInv, P!TypeOK, P!Verify, Settled
  <2> QED BY <2>2, <2>3
<1>3. \A q \in Socket : closing[q] = "touch" => closing'[q] = "touch" /\ userId'[q] = userId[q]
  BY <1>s DEF PInv, P!TypeOK, P!Verify, Settled
<1>4. \A q \in alive : userId[q] \in Person => q \in alive' /\ userId'[q] = userId[q]
  BY PersonAssumption, <1>s DEF PInv, P!TypeOK, P!Verify
<1>5. P!GoneIsKnown'
  BY <1>s, <1>3, <1>4, StillKnown
<1> QED BY <1>1, <1>2, <1>5 DEF PInv

(* The one step that shows somebody: he has a connection at that moment.     *)
LEMMA CheckStep ==
    ASSUME PInv, NEW s \in Socket, P!Check(s)
    PROVE  PInv'
<1>s. userId[s] \in Person
  BY DEF PInv, Settled, P!Check
<1>1. P!TypeOK'
  BY <1>s DEF PInv, P!TypeOK, P!Check
<1>2. \A q \in Socket : Settled(q)'
  BY DEF PInv, P!TypeOK, P!Check, Settled
<1>3. P!GoneIsKnown'
  <2>1. CASE Cardinality(P!ConnectionsOf(userId[s])) = 1
    <3>1. P!ConnectionsOf(userId[s]) # {}
      BY <2>1, FS_EmptySet
    <3> QED BY <3>1, <2>1 DEF PInv, P!Check, P!GoneIsKnown, P!Online, P!ConnectionsOf, P!RoomAt
  <2>2. CASE Cardinality(P!ConnectionsOf(userId[s])) # 1
    BY <2>2, SameCardinality DEF PInv, P!Check, P!GoneIsKnown, P!Online, P!ConnectionsOf, P!RoomAt
  <2> QED BY <2>1, <2>2
<1> QED BY <1>1, <1>2, <1>3 DEF PInv

(* The last connection of a user leaves the event behind; any other leaves   *)
(* the room to somebody.                                                     *)
LEMMA DisconnectStep ==
    ASSUME PInv, NEW s \in Socket, P!Disconnect(s)
    PROVE  PInv'
<1>s. Settled(s) /\ s \in alive /\ closing[s] = "none" /\ userId[s] \in Person \union {None}
  BY DEF PInv, Settled, P!Disconnect, P!TypeOK
<1>f. /\ alive' = alive \ {s} /\ userId' = userId /\ shown' = shown /\ opening' = opening
      /\ \A q \in Socket \ {s} : closing'[q] = closing[q]
      /\ closing'[s] \in {"touch", "done"}
      /\ closing'[s] = "touch" <=> userId[s] # None /\ P!RoomAt(alive \ {s}, userId, userId[s]) = {}
  BY DEF PInv, P!TypeOK, P!Disconnect
<1>1. P!TypeOK'
  BY DEF PInv, P!TypeOK, P!Disconnect
<1>2. \A q \in Socket : Settled(q)'
  <2> TAKE q \in Socket
  <2>1. Settled(q)
    BY DEF PInv
  <2>2. CASE q = s
    BY <1>s, <1>f, <2>1, <2>2 DEF Settled
  <2>3. CASE q # s
    BY <1>f, <2>1, <2>3 DEF Settled
  <2> QED BY <2>2, <2>3
<1>3. P!GoneIsKnown'
  <2> SUFFICES ASSUME NEW u \in shown
               PROVE  P!Online(u)' \/ \E q \in Socket : closing'[q] = "touch" /\ userId[q] = u
    BY <1>f DEF P!GoneIsKnown
  <2>1. u \in Person /\ (P!Online(u) \/ \E q \in Socket : closing[q] = "touch" /\ userId[q] = u)
    BY DEF P!GoneIsKnown, PInv, P!TypeOK
  <2>2. CASE \E q \in Socket : closing[q] = "touch" /\ userId[q] = u
    BY <2>2, <1>f, <1>s
  <2>3. CASE P!Online(u) /\ userId[s] # u
    BY <2>3, <1>f DEF P!Online, P!ConnectionsOf, P!RoomAt
  <2>4. CASE userId[s] = u /\ P!RoomAt(alive \ {s}, userId, u) = {}
    BY PersonAssumption, <2>4, <2>1, <1>f
  <2>5. CASE userId[s] = u /\ P!RoomAt(alive \ {s}, userId, u) # {}
    BY <2>5, <1>f DEF P!Online, P!ConnectionsOf
  <2> QED BY <2>1, <2>2, <2>3, <2>4, <2>5
<1> QED BY <1>1, <1>2, <1>3 DEF PInv

(* The event, when it comes, takes away the one it is about.                 *)
LEMMA SayOfflineStep ==
    ASSUME PInv, NEW s \in Socket, P!SayOffline(s)
    PROVE  PInv'
<1>1. P!TypeOK'
  BY DEF PInv, P!TypeOK, P!SayOffline
<1>2. \A q \in Socket : Settled(q)'
  BY DEF PInv, P!TypeOK, P!SayOffline, Settled
<1>3. P!GoneIsKnown'
  BY DEF PInv, P!TypeOK, P!SayOffline, P!GoneIsKnown, P!Online, P!ConnectionsOf, P!RoomAt
<1> QED BY <1>1, <1>2, <1>3 DEF PInv

LEMMA ForgetStep ==
    ASSUME PInv, NEW s \in Socket, P!Forget(s)
    PROVE  PInv'
<1>s. s \notin alive
  BY DEF PInv, Settled, P!Forget
<1>1. P!TypeOK'
  BY DEF PInv, P!TypeOK, P!Forget
<1>2. \A q \in Socket : Settled(q)'
  BY <1>s DEF PInv, P!TypeOK, P!Forget, Settled
<1>3. \A q \in Socket : closing[q] = "touch" => closing'[q] = "touch" /\ userId'[q] = userId[q]
  BY DEF PInv, P!TypeOK, P!Forget
<1>4. \A q \in alive : userId[q] \in Person => q \in alive' /\ userId'[q] = userId[q]
  BY <1>s DEF PInv, P!TypeOK, P!Forget
<1>5. P!GoneIsKnown'
  BY <1>3, <1>4, StillKnown DEF P!Forget
<1> QED BY <1>1, <1>2, <1>5 DEF PInv

LEMMA IdleStep ==
    ASSUME PInv, UNCHANGED P!vars
    PROVE  PInv'
BY DEF PInv, P!TypeOK, Settled, P!GoneIsKnown, P!Online, P!ConnectionsOf, P!RoomAt, P!vars

LEMMA PresenceStep ==
    ASSUME PInv, [P!Next]_P!vars
    PROVE  PInv'
<1>1. ASSUME NEW s \in Socket, P!Handle(s) \/ P!Disconnect(s) \/ P!Forget(s)
      PROVE  PInv'
  BY <1>1, VerifyStep, CheckStep, SayOfflineStep, DisconnectStep, ForgetStep DEF P!Handle
<1>2. ASSUME NEW s \in Socket, NEW u \in Person \union {None}, P!Connect(s, u)
      PROVE  PInv'
  BY <1>2, ConnectStep
<1> QED BY <1>1, <1>2, IdleStep DEF P!Next

(* Nobody is left shown online for ever: whoever is shown has a connection,  *)
(* or the event that he is gone is on its way (handleConnection and          *)
(* handleDisconnect of the chat gateway), however connections overlap.       *)
THEOREM Gone == P!Spec => []P!GoneIsKnown
<1>1. P!Init => PInv
  BY InitPInv
<1>2. PInv /\ [P!Next]_P!vars => PInv'
  BY PresenceStep
<1>3. PInv => P!GoneIsKnown
  BY DEF PInv
<1> QED BY <1>1, <1>2, <1>3, PTL DEF P!Spec

(***************************************************************************)
(* One handler of a connection at a time                                   *)
(***************************************************************************)
(* Those who are shown are those who are online, but for the one user whose  *)
(* connection is about to look, or about to say that he is gone.             *)
ToShow(u) == \E s \in Socket : /\ opening[s] = "check" /\ userId[s] = u
                               /\ P!ConnectionsOf(u) = {s}
ToHide(u) == \E s \in Socket : /\ closing[s] = "touch" /\ userId[s] = u
                               /\ ~P!Online(u)
Shown(u)  == (u \in shown <=> P!Online(u)) \/ ToShow(u) \/ ToHide(u)

Served ==
    /\ Single(Handling)
    /\ \A u \in Person : Shown(u)
    /\ \A s \in Socket : closing[s] = "touch" => ~P!Online(userId[s])

LEMMA HandlingGrows ==
    ASSUME PInv, [P!Next]_P!vars, IsFiniteSet(Handling)
    PROVE  IsFiniteSet(Handling')
<1>1. ASSUME NEW s \in Socket, P!Handle(s) \/ P!Disconnect(s) \/ P!Forget(s)
                                \/ \E u \in Person \union {None} : P!Connect(s, u)
      PROVE  IsFiniteSet(Handling')
  <2>1. Handling' \subseteq Handling \union {s}
    <3> SUFFICES ASSUME NEW q \in Socket, q # s
                 PROVE  opening'[q] = opening[q] /\ closing'[q] = closing[q]
      BY DEF Handling
    <3> QED BY <1>1 DEF PInv, P!TypeOK, P!Handle, P!Verify, P!Check, P!SayOffline,
                        P!Disconnect, P!Forget, P!Connect
  <2>2. IsFiniteSet(Handling \union {s})
    BY FS_AddElement
  <2> QED BY <2>1, <2>2, FS_Subset
<1>2. CASE UNCHANGED P!vars
  <2>1. Handling' = Handling
    BY <1>2 DEF P!vars, Handling
  <2> QED BY <2>1
<1> QED BY <1>1, <1>2 DEF P!Next

LEMMA ServedConnect ==
    ASSUME PInv, Served, Single(Handling'),
           NEW s \in Socket, NEW v \in Person \union {None}, P!Connect(s, v)
    PROVE  Served'
<1>1. userId[s] = None /\ closing[s] = "none" /\ userId' = userId /\ alive' = alive \union {s}
      /\ closing' = closing /\ shown' = shown /\ \A q \in Socket \ {s} : opening'[q] = opening[q]
  BY DEF PInv, Settled, P!Connect, P!TypeOK
<1>2. \A u \in Person : P!ConnectionsOf(u)' = P!ConnectionsOf(u)
  BY <1>1, PersonAssumption DEF P!ConnectionsOf, P!RoomAt
<1>3. ASSUME NEW u \in Person
      PROVE  Shown(u)'
  <2>1. ToShow(u) => ToShow(u)'
    BY <1>1, <1>2, PersonAssumption DEF ToShow
  <2>2. P!Online(u)' <=> P!Online(u)
    BY <1>2 DEF P!Online
  <2>3. ToHide(u) => ToHide(u)'
    BY <1>1, <2>2 DEF ToHide
  <2> QED BY <1>1, <2>1, <2>2, <2>3 DEF Served, Shown
<1>4. ASSUME NEW q \in Socket, closing'[q] = "touch"
      PROVE  ~P!Online(userId[q])'
  <2>1. userId[q] \in Person /\ ~P!Online(userId[q])
    BY <1>1, <1>4 DEF PInv, Settled, Served
  <2> QED BY <1>1, <1>2, <2>1 DEF P!Online
<1> QED BY <1>1, <1>3, <1>4 DEF Served

(* A step of a connection changes nothing for the users of the others.       *)
LEMMA BesideShown ==
    ASSUME PInv, NEW s \in Socket, NEW u \in Person,
           userId[s] # u, userId'[s] # u, Shown(u),
           u \in shown' <=> u \in shown,
           \A q \in Socket \ {s} : /\ q \in alive' <=> q \in alive
                                   /\ userId'[q] = userId[q]
                                   /\ opening'[q] = opening[q] /\ closing'[q] = closing[q],
           alive' \subseteq Socket
    PROVE  Shown(u)' /\ P!ConnectionsOf(u)' = P!ConnectionsOf(u)
<1>1. P!ConnectionsOf(u)' = P!ConnectionsOf(u)
  BY DEF P!ConnectionsOf, P!RoomAt, PInv, P!TypeOK
<1>2. P!Online(u)' <=> P!Online(u)
  BY <1>1 DEF P!Online
<1>3. ToShow(u) => ToShow(u)'
  BY <1>1 DEF ToShow
<1>4. ToHide(u) => ToHide(u)'
  BY <1>2 DEF ToHide
<1> QED BY <1>1, <1>2, <1>3, <1>4 DEF Shown

LEMMA ServedVerify ==
    ASSUME PInv, Served, Single(Handling'), NEW s \in Socket, P!Verify(s)
    PROVE  Served'
<1>1. /\ userId[s] = None /\ closing[s] # "touch" /\ closing'[s] # "touch" /\ opening[s] = "verify"
      /\ shown' = shown /\ alive' \subseteq alive /\ alive \subseteq Socket
      /\ \A q \in Socket \ {s} : /\ q \in alive' <=> q \in alive
                                 /\ userId'[q] = userId[q]
                                 /\ opening'[q] = opening[q] /\ closing'[q] = closing[q]
  <2>1. Settled(s) /\ opening[s] = "verify" /\ P!TypeOK
    BY DEF PInv, P!Verify
  <2>2. userId[s] = None /\ closing[s] # "touch"
    BY <2>1, PersonAssumption DEF Settled
  <2>3. closing'[s] # "touch"
    BY <2>1, <2>2 DEF P!Verify, P!TypeOK
  <2>4. \A q \in Socket \ {s} : /\ q \in alive' <=> q \in alive
                                /\ userId'[q] = userId[q]
                                /\ opening'[q] = opening[q] /\ closing'[q] = closing[q]
    BY <2>1 DEF P!Verify, P!TypeOK
  <2>5. shown' = shown /\ alive' \subseteq alive /\ alive \subseteq Socket
    BY <2>1 DEF P!Verify, P!TypeOK
  <2> QED BY <2>1, <2>2, <2>3, <2>4, <2>5
<1>2. s \in Handling /\ \A q \in Handling : q = s
  BY <1>1 DEF Handling, Served, Single
<1>3. \A q \in Socket : closing'[q] # "touch"
  BY <1>1, <1>2 DEF Handling
<1>4. ASSUME NEW u \in Person
      PROVE  Shown(u)'
  <2>1. u \in shown <=> P!Online(u)
    BY <1>1, <1>2, <1>4, PersonAssumption DEF Served, Shown, ToShow, ToHide, Handling
  <2>2. CASE userId'[s] # u
    BY <1>1, <1>4, <2>2, PersonAssumption, BesideShown DEF Served
  <2>3. CASE userId'[s] = u
    <3>1. /\ opening'[s] = "check" /\ alive' = alive
          /\ \A q \in Socket \ {s} : userId'[q] = userId[q]
      BY <1>1, <2>3, PersonAssumption DEF P!Verify, PInv, P!TypeOK
    <3>2. P!ConnectionsOf(u)' = IF s \in alive THEN P!ConnectionsOf(u) \union {s}
                                ELSE P!ConnectionsOf(u)
      BY <1>1, <2>3, <3>1, PersonAssumption DEF P!ConnectionsOf, P!RoomAt
    <3>3. CASE P!ConnectionsOf(u)' = {s}
      BY <2>3, <3>1, <3>3 DEF Shown, ToShow
    <3>4. CASE P!ConnectionsOf(u)' # {s}
      <4>1. P!Online(u)' <=> P!Online(u)
        BY <3>2, <3>4 DEF P!Online
      <4> QED BY <1>1, <2>1, <4>1 DEF Shown
    <3> QED BY <3>3, <3>4
  <2> QED BY <2>2, <2>3
<1> QED BY <1>3, <1>4 DEF Served

LEMMA ServedCheck ==
    ASSUME PInv, Served, Single(Handling'), NEW s \in Socket, P!Check(s)
    PROVE  Served'
<1> SUFFICES ASSUME NEW v, v = userId[s]
             PROVE  Served'
  OBVIOUS
<1>1. /\ v \in Person /\ opening[s] = "check"
      /\ alive' = alive /\ userId' = userId /\ closing' = closing /\ alive \subseteq Socket
      /\ \A q \in Socket \ {s} : opening'[q] = opening[q]
      /\ shown' = IF Cardinality(P!ConnectionsOf(v)) = 1 THEN shown \union {v} ELSE shown
  BY SameCardinality DEF PInv, Settled, P!Check, P!TypeOK
<1>2. s \in Handling /\ \A q \in Handling : q = s
  BY <1>1 DEF Handling, Served, Single
<1>3. \A u : (P!Online(u)' <=> P!Online(u)) /\ P!ConnectionsOf(u)' = P!ConnectionsOf(u)
  BY <1>1 DEF P!Online, P!ConnectionsOf, P!RoomAt
<1>4. \A q \in Socket : closing'[q] = "touch" => ~P!Online(userId[q])'
  BY <1>1, <1>3 DEF Served
<1>5. ASSUME NEW u \in Person, u # v
      PROVE  Shown(u)'
  BY <1>1, <1>5, BesideShown DEF Served
<1>6. Shown(v)'
  <2>1. CASE v \in shown <=> P!Online(v)
    <3>1. Cardinality(P!ConnectionsOf(v)) = 1 => P!Online(v)
      BY FS_EmptySet DEF P!Online
    <3> QED BY <1>1, <1>3, <2>1, <3>1 DEF Shown
  <2>2. CASE ToShow(v)
    <3>1. P!ConnectionsOf(v) = {s}
      BY <1>2, <2>2 DEF ToShow, Handling
    <3>2. Cardinality(P!ConnectionsOf(v)) = 1 /\ P!Online(v)
      BY <3>1, FS_Singleton DEF P!Online
    <3> QED BY <1>1, <1>3, <3>2 DEF Shown
  <2>3. CASE ToHide(v)
    BY <1>1, <1>3, <2>3 DEF Shown, ToHide
  <2> QED BY <1>1, <2>1, <2>2, <2>3 DEF Served, Shown
<1>7. \A u \in Person : Shown(u)'
  BY <1>5, <1>6
<1> QED BY <1>1, <1>4, <1>7 DEF Served

LEMMA ServedDisconnect ==
    ASSUME PInv, Served, Single(Handling'), NEW s \in Socket, P!Disconnect(s)
    PROVE  Served'
<1> SUFFICES ASSUME NEW v, v = userId[s]
             PROVE  Served'
  OBVIOUS
<1> DEFINE rest == P!RoomAt(alive \ {s}, userId, v)
<1>1. /\ v \in Person \union {None} /\ s \in alive /\ closing[s] = "none"
      /\ alive' = alive \ {s} /\ userId' = userId /\ opening' = opening /\ shown' = shown
      /\ alive \subseteq Socket
      /\ \A q \in Socket \ {s} : closing'[q] = closing[q]
      /\ closing'[s] = IF v = None \/ rest # {} THEN "done" ELSE "touch"
  BY DEF PInv, Settled, P!Disconnect, P!TypeOK
<1>2. rest = P!ConnectionsOf(v)'
  BY <1>1 DEF P!ConnectionsOf, P!RoomAt
<1> HIDE DEF rest
<1>3. \A u : /\ P!ConnectionsOf(u)' = P!ConnectionsOf(u) \ {s}
             /\ P!Online(u)' => P!Online(u)
  BY <1>1 DEF P!ConnectionsOf, P!RoomAt, P!Online
<1>4. \A q \in Socket : closing'[q] = "touch" => ~P!Online(userId[q])'
  <2> SUFFICES ASSUME NEW q \in Socket, closing'[q] = "touch"
               PROVE  ~P!Online(userId[q])'
    OBVIOUS
  <2>1. CASE q = s
    BY <1>1, <1>2, <2>1 DEF P!Online
  <2>2. CASE q # s
    BY <1>1, <1>3, <2>2 DEF Served
  <2> QED BY <2>1, <2>2
<1>5. ASSUME NEW u \in Person, u # v
      PROVE  Shown(u)'
  BY <1>1, <1>5, BesideShown DEF Served
<1>6. ASSUME v # None
      PROVE  Shown(v)'
  <2>1. P!Online(v)
    BY <1>1 DEF P!Online, P!ConnectionsOf, P!RoomAt
  <2>2. CASE rest = {}
    BY <1>1, <1>2, <1>6, <2>2 DEF Shown, ToHide, P!Online
  <2>3. CASE rest # {}
    <3>1. P!Online(v)'
      BY <1>2, <2>3 DEF P!Online
    <3>2. ~ToHide(v)
      BY <2>1 DEF ToHide
    <3>3. CASE ToShow(v)
      <4>1. P!ConnectionsOf(v) = {s}
        BY <1>1, <3>3 DEF ToShow, P!ConnectionsOf, P!RoomAt
      <4> QED BY <1>2, <1>3, <2>3, <4>1
    <3> QED BY <1>1, <1>6, <2>1, <3>1, <3>2, <3>3 DEF Served, Shown
  <2> QED BY <2>2, <2>3
<1>7. \A u \in Person : Shown(u)'
  BY <1>5, <1>6, PersonAssumption
<1> QED BY <1>1, <1>4, <1>7 DEF Served

LEMMA ServedSayOffline ==
    ASSUME PInv, Served, Single(Handling'), NEW s \in Socket, P!SayOffline(s)
    PROVE  Served'
<1> SUFFICES ASSUME NEW v, v = userId[s]
             PROVE  Served'
  OBVIOUS
<1>1. /\ v \in Person /\ ~P!Online(v)
      /\ alive' = alive /\ userId' = userId /\ opening' = opening /\ alive \subseteq Socket
      /\ \A q \in Socket \ {s} : closing'[q] = closing[q]
      /\ closing'[s] # "touch" /\ shown' = shown \ {v}
  BY DEF PInv, Settled, P!SayOffline, P!TypeOK, Served
<1>3. \A u : P!Online(u)' <=> P!Online(u)
  BY <1>1 DEF P!Online, P!ConnectionsOf, P!RoomAt
<1>4. \A q \in Socket : closing'[q] = "touch" => ~P!Online(userId[q])'
  BY <1>1, <1>3 DEF Served
<1>5. ASSUME NEW u \in Person, u # v
      PROVE  Shown(u)'
  BY <1>1, <1>5, BesideShown DEF Served
<1>6. Shown(v)'
  BY <1>1, <1>3 DEF Shown
<1>7. \A u \in Person : Shown(u)'
  BY <1>5, <1>6
<1> QED BY <1>1, <1>4, <1>7 DEF Served

LEMMA ServedForget ==
    ASSUME PInv, Served, Single(Handling'), NEW s \in Socket, P!Forget(s)
    PROVE  Served'
<1>1. /\ s \notin alive /\ opening[s] = "done" /\ closing[s] = "done" /\ closing'[s] = "none"
      /\ alive' = alive /\ shown' = shown /\ userId'[s] = None
      /\ \A q \in Socket \ {s} : /\ userId'[q] = userId[q]
                                 /\ opening'[q] = opening[q] /\ closing'[q] = closing[q]
      /\ alive \subseteq Socket
  BY DEF PInv, Settled, P!Forget, P!TypeOK
<1>2. \A u : P!ConnectionsOf(u)' = P!ConnectionsOf(u)
  BY <1>1 DEF P!ConnectionsOf, P!RoomAt
<1>3. \A u : P!Online(u)' <=> P!Online(u)
  BY <1>2 DEF P!Online
<1>4. \A q \in Socket : closing'[q] = "touch" => ~P!Online(userId[q])'
  BY <1>1, <1>3 DEF Served
<1>5. ASSUME NEW u \in Person
      PROVE  Shown(u)'
  <2>1. ToShow(u) => ToShow(u)'
    BY <1>1, <1>2 DEF ToShow
  <2>2. ToHide(u) => ToHide(u)'
    BY <1>1, <1>3 DEF ToHide
  <2> QED BY <1>1, <1>3, <2>1, <2>2 DEF Shown, Served
<1> QED BY <1>4, <1>5 DEF Served

LEMMA ServedStep ==
    ASSUME PInv, Served, Single(Handling'), [P!Next]_P!vars
    PROVE  Served'
<1>1. CASE UNCHANGED P!vars
  BY <1>1 DEF P!vars, Served, Single, Handling, Shown, ToShow, ToHide, P!Online,
              P!ConnectionsOf, P!RoomAt
<1> QED BY <1>1, ServedConnect, ServedVerify, ServedCheck, ServedDisconnect, ServedSayOffline,
           ServedForget DEF P!Next, P!Handle

(* The connections with one handler at a time and no other bound.            *)
OneVisit == P!Init /\ [][P!Next /\ Cardinality(Handling') <= 1]_P!vars

Present == PInv /\ IsFiniteSet(Handling) /\ Served

LEMMA PresentInit == P!Init => Present
<1> SUFFICES ASSUME P!Init
             PROVE  Present
  OBVIOUS
<1>1. PInv /\ Handling = {} /\ \A u : ~P!Online(u) /\ u \notin shown
  BY InitPInv DEF P!Init, Handling, P!Online, P!ConnectionsOf, P!RoomAt
<1> QED BY <1>1, FS_EmptySet DEF Present, Served, Single, Shown, P!Init

LEMMA PresentStep ==
    ASSUME Present, [P!Next /\ Cardinality(Handling') <= 1]_P!vars
    PROVE  Present'
<1>1. PInv' /\ IsFiniteSet(Handling')
  BY PresenceStep, HandlingGrows DEF Present
<1>2. CASE Cardinality(Handling') <= 1
  BY <1>1, <1>2, AtMostOne, ServedStep DEF Present
<1>3. CASE UNCHANGED P!vars
  <2>1. Handling' = Handling
    BY <1>3 DEF P!vars, Handling
  <2> QED BY <1>1, <1>3, <2>1, ServedStep DEF Served, Present
<1> QED BY <1>2, <1>3

LEMMA PresentTrue == Present => P!PresenceTrue
BY DEF Present, Served, P!PresenceTrue, P!Quiet, Shown, ToShow, ToHide

(* One handler of a connection at a time, handleConnection and               *)
(* handleDisconnect show exactly those who have a connection, for every set  *)
(* of users and connections, closing at whatever point of either handler.    *)
THEOREM PresenceSolo == (OneVisit => []P!PresenceTrue) /\ (MCSpec => []PresenceTrueSolo)
<1>1. OneVisit => []P!PresenceTrue
  BY PresentInit, PresentStep, PresentTrue, PTL DEF OneVisit
<1>2. MCInit => (scene = "one connection" => Present)
  BY PresentInit DEF MCInit
<1>3. (scene = "one connection" => Present) /\ [MCNext]_<<vars, presence, scene>>
         => (scene = "one connection" => Present)'
  <2> SUFFICES ASSUME scene = "one connection", Present, [MCNext]_<<vars, presence, scene>>
               PROVE  Present'
    BY DEF MCNext
  <2>1. [P!Next /\ Cardinality(Handling') <= 1]_P!vars
    BY DEF MCNext, Dialogues, presence, P!vars
  <2> QED BY <2>1, PresentStep
<1>4. (scene = "one connection" => Present) => PresenceTrueSolo
  BY PresentTrue DEF PresenceTrueSolo
<1>5. MCSpec => []PresenceTrueSolo
  BY <1>2, <1>3, <1>4, PTL DEF MCSpec
<1> QED BY <1>1, <1>5
=============================================================================
