-------------------------------- MODULE Dialogue --------------------------------
(* The messages of dialogues (ChatService and the chat gateway): sending,    *)
(* editing, deleting, marking as read, the pages of the history and the list *)
(* of dialogues. Every handler writes first and tells the tabs of both users *)
(* afterwards, so events may come in another order than the writes. The      *)
(* tabs show what the events told them; they belong to the client, which is  *)
(* modelled by what the events are for.                                      *)
EXTENDS FiniteSets, Integers, Sequences

CONSTANTS User, Text, None,
          Request,          \* the handlers in flight at once
          MAX_HISTORY_PAGE_SIZE,
          Limit,            \* the page sizes that clients ask for
          MaxMessages, MaxTime

ASSUME DialogueAssumption ==
    /\ None \notin User \union Text \union 1..MaxMessages
    /\ MAX_HISTORY_PAGE_SIZE \in Nat \ {0}
    /\ Limit \subseteq Int
    /\ MaxMessages \in Nat /\ MaxTime \in Nat

VARIABLES messages,   \* the messages, by the order in which their ids were made
          clock,      \* the time in milliseconds, as createdAt shows it
          tabs,       \* the messages as the open tabs of both users show them
          reader,     \* a client that pages through a history
          req         \* the handlers in flight

vars == <<messages, clock, tabs, reader, req>>

Id == 1..MaxMessages

Message == [state     : {"new", "sending", "stored", "deleted"},
            from      : User \union {None},
            to        : User \union {None},
            createdAt : 0..MaxTime,
            text      : Text \union {None},
            isRead    : BOOLEAN]

NoMessage == [state |-> "new", from |-> None, to |-> None, createdAt |-> 0,
              text |-> None, isRead |-> FALSE]

Tab    == [shown : BOOLEAN, text : Text \union {None}, isRead : BOOLEAN]
Hidden == [shown |-> FALSE, text |-> None, isRead |-> FALSE]

\* got: the pages so far, the newest message of each page first; start: the
\* messages that were there when the first page was read.
Reader == [user : User \union {None}, other : User \union {None},
           got : Seq(Id), start : SUBSET Id, hasMore : BOOLEAN, lost : BOOLEAN]

Closed == [user |-> None, other |-> None, got |-> <<>>, start |-> {},
           hasMore |-> FALSE, lost |-> FALSE]

Req == [pc   : {"idle", "insert", "receive", "read", "save", "edited", "delete", "deleted"},
        id   : Id \union {None},
        text : Text \union {None},
        by   : User \union {None},    \* the one who reads
        of   : User \union {None}]    \* the one whose messages are read

Idle == [pc |-> "idle", id |-> None, text |-> None, by |-> None, of |-> None]

TypeOK ==
    /\ messages \in [Id -> Message]
    /\ clock    \in 0..MaxTime
    /\ tabs     \in [Id -> Tab]
    /\ reader   \in Reader
    /\ req      \in [Request -> Req]

Init ==
    /\ messages = [m \in Id |-> NoMessage]
    /\ clock    = 0
    /\ tabs     = [m \in Id |-> Hidden]
    /\ reader   = Closed
    /\ req      = [r \in Request |-> Idle]

At(r, s)        == req[r].pc = s
Become(r, next) == req' = [req EXCEPT ![r] = next]
Goto(r, s)      == Become(r, [req[r] EXCEPT !.pc = s])
Finish(r)       == Become(r, Idle)
Stored(m)       == messages[m].state = "stored"

(***************************************************************************)
(* sendMessage. The id and createdAt are set in the process, one message   *)
(* after the other; the inserts may land in any order.                     *)
(***************************************************************************)
SendMessage(r, u, v, t) ==
    /\ At(r, "idle")
    /\ u # v
    /\ \E m \in Id :
          /\ messages[m].state = "new"
          /\ \A n \in Id : n < m => messages[n].state # "new"
          /\ messages' = [messages EXCEPT ![m] =
                            [state |-> "sending", from |-> u, to |-> v,
                             createdAt |-> clock, text |-> t, isRead |-> FALSE]]
          /\ Become(r, [Idle EXCEPT !.pc = "insert", !.id = m, !.text = t])
    /\ UNCHANGED <<clock, tabs, reader>>

Insert(r) ==
    /\ At(r, "insert")
    /\ messages' = [messages EXCEPT ![req[r].id].state = "stored"]
    /\ Goto(r, "receive")
    /\ UNCHANGED <<clock, tabs, reader>>

ReceiveMessage(r) ==
    /\ At(r, "receive")
    /\ tabs' = [tabs EXCEPT ![req[r].id] = [shown |-> TRUE, text |-> req[r].text, isRead |-> FALSE]]
    /\ Finish(r)
    /\ UNCHANGED <<messages, clock, reader>>

(***************************************************************************)
(* markRead                                                                *)
(***************************************************************************)
Incoming(by, of) == {m \in Id : messages[m].from = of /\ messages[m].to = by}
Unread(by, of)   == {m \in Incoming(by, of) : Stored(m) /\ ~messages[m].isRead}

MarkRead(r, by, of) ==
    /\ At(r, "idle")
    /\ Unread(by, of) # {}
    /\ messages' = [m \in Id |-> IF m \in Unread(by, of)
                                 THEN [messages[m] EXCEPT !.isRead = TRUE] ELSE messages[m]]
    /\ Become(r, [Idle EXCEPT !.pc = "read", !.by = by, !.of = of])
    /\ UNCHANGED <<clock, tabs, reader>>

\* mistake: the partner's messages and the reader's own are mixed up
MessagesReadSwapped(r) ==
    /\ At(r, "read")
    /\ tabs' = [m \in Id |-> IF m \in Incoming(req[r].of, req[r].by) /\ tabs[m].shown
                             THEN [tabs[m] EXCEPT !.isRead = TRUE] ELSE tabs[m]]
    /\ Finish(r)
    /\ UNCHANGED <<messages, clock, reader>>

MessagesRead(r) ==
    /\ At(r, "read")
    /\ tabs' = [m \in Id |-> IF m \in Incoming(req[r].by, req[r].of) /\ tabs[m].shown
                             THEN [tabs[m] EXCEPT !.isRead = TRUE] ELSE tabs[m]]
    /\ Finish(r)
    /\ UNCHANGED <<messages, clock, reader>>

(***************************************************************************)
(* editMessage and deleteMessage: the message is read, then written        *)
(***************************************************************************)
EditMessage(r, m, t) ==
    /\ At(r, "idle")
    /\ Stored(m)
    /\ Become(r, [Idle EXCEPT !.pc = "save", !.id = m, !.text = t])
    /\ UNCHANGED <<messages, clock, tabs, reader>>

SaveWhole(r) ==   \* mistake: the whole message is written as it was read
    /\ At(r, "save")
    /\ IF Stored(req[r].id)
       THEN /\ messages' = [messages EXCEPT ![req[r].id].text = req[r].text,
                                            ![req[r].id].isRead = FALSE]
            /\ Goto(r, "edited")
       ELSE Finish(r) /\ UNCHANGED messages
    /\ UNCHANGED <<clock, tabs, reader>>

\* Only the text and editedAt are written; a message deleted meanwhile is not
\* found, and the handler ends there.
SaveText(r) ==
    /\ At(r, "save")
    /\ IF Stored(req[r].id)
       THEN /\ messages' = [messages EXCEPT ![req[r].id].text = req[r].text]
            /\ Goto(r, "edited")
       ELSE Finish(r) /\ UNCHANGED messages
    /\ UNCHANGED <<clock, tabs, reader>>

MessageEdited(r) ==
    /\ At(r, "edited")
    /\ tabs' = [tabs EXCEPT ![req[r].id].text = req[r].text]
    /\ Finish(r)
    /\ UNCHANGED <<messages, clock, reader>>

DeleteMessage(r, m) ==
    /\ At(r, "idle")
    /\ Stored(m)
    /\ Become(r, [Idle EXCEPT !.pc = "delete", !.id = m])
    /\ UNCHANGED <<messages, clock, tabs, reader>>

\* A message that is gone already is no error.
DeleteOne(r) ==
    /\ At(r, "delete")
    /\ messages' = [messages EXCEPT ![req[r].id].state = "deleted"]
    /\ Goto(r, "deleted")
    /\ UNCHANGED <<clock, tabs, reader>>

MessageDeleted(r) ==
    /\ At(r, "deleted")
    /\ tabs' = [tabs EXCEPT ![req[r].id] = Hidden]
    /\ Finish(r)
    /\ UNCHANGED <<messages, clock, reader>>

Tick ==
    /\ clock < MaxTime
    /\ clock' = clock + 1
    /\ UNCHANGED <<messages, tabs, reader, req>>

(***************************************************************************)
(* getChatBetweenUsers                                                     *)
(***************************************************************************)
Dialog(u, v) == {m \in Id : Stored(m) /\ {messages[m].from, messages[m].to} = {u, v}}

EarlierByTime(m, n) == messages[m].createdAt < messages[n].createdAt   \* mistake: ties are lost

\* The time, and the id among messages of one millisecond.
Earlier(m, n) ==
    \/ messages[m].createdAt < messages[n].createdAt
    \/ messages[m].createdAt = messages[n].createdAt /\ m < n

\* The ids follow createdAt, so the newest are those with the greatest ids.
Newest(S, k) == {m \in S : Cardinality({n \in S : m < n}) < k}
NewestFirst(S) == [i \in 1..Cardinality(S) |->
                     CHOOSE m \in S : Cardinality({n \in S : m < n}) = i - 1]

Size(limit) == IF limit < 1 THEN 1
               ELSE IF limit > MAX_HISTORY_PAGE_SIZE THEN MAX_HISTORY_PAGE_SIZE ELSE limit

\* Without an anchor, or with one that is deleted, the last page.
Filter(u, v, before) ==
    IF before = None \/ (before # None /\ ~Stored(before)) THEN Dialog(u, v)
    ELSE {m \in Dialog(u, v) : Earlier(m, before)}

Page(u, v, before, limit)    == Newest(Filter(u, v, before), Size(limit))
HasMore(u, v, before, limit) == Cardinality(Filter(u, v, before)) > Size(limit)

OpenHistory(u, v, limit) ==
    /\ reader = Closed
    /\ Dialog(u, v) # {}
    /\ reader' = [user |-> u, other |-> v, got |-> NewestFirst(Page(u, v, None, limit)),
                  start |-> Dialog(u, v), hasMore |-> HasMore(u, v, None, limit), lost |-> FALSE]
    /\ UNCHANGED <<messages, clock, tabs, req>>

\* The client asks for what is older than the oldest message it has.
ScrollUp(limit) ==
    LET before == reader.got[Len(reader.got)]
        page   == Page(reader.user, reader.other, before, limit)
    IN  /\ reader.hasMore /\ ~reader.lost
        /\ reader' = [reader EXCEPT
                        !.got     = @ \o NewestFirst(page),
                        !.hasMore = HasMore(reader.user, reader.other, before, limit),
                        !.lost    = ~Stored(before)]
        /\ UNCHANGED <<messages, clock, tabs, req>>

CloseHistory ==
    /\ reader # Closed
    /\ reader' = Closed
    /\ UNCHANGED <<messages, clock, tabs, req>>

(***************************************************************************)
(* getUserChats and getUnread: two aggregations over the same messages     *)
(***************************************************************************)
Partners(u) == {v \in User : Dialog(u, v) # {} /\ v # u}

UnreadOfBoth(u, v) ==   \* mistake: one's own messages count
    {m \in Dialog(u, v) : ~messages[m].isRead}

UnreadInList(u, v) == {m \in Dialog(u, v) : messages[m].to = u /\ ~messages[m].isRead}

\* The list sorts by the time alone: of the messages of the last millisecond
\* any may be the one shown.
LastMessage(u, v) ==
    {m \in Dialog(u, v) : \A n \in Dialog(u, v) : messages[n].createdAt <= messages[m].createdAt}

GetUserChats(u) ==
    UNION {{[userId |-> v, lastMessage |-> m, unreadCount |-> Cardinality(UnreadInList(u, v))] :
               m \in LastMessage(u, v)} : v \in Partners(u)}

GetUnread(u) == [v \in {w \in User : Unread(u, w) # {}} |-> Cardinality(Unread(u, v))]

(***************************************************************************)
(* The specification                                                       *)
(***************************************************************************)
Start(r) ==
    \/ \E u, v \in User : MarkRead(r, u, v) \/ \E t \in Text : SendMessage(r, u, v, t)
    \/ \E m \in Id : DeleteMessage(r, m) \/ \E t \in Text : EditMessage(r, m, t)

Step(r) ==
    \/ Insert(r) \/ ReceiveMessage(r) \/ MessagesRead(r) \/ SaveText(r)
    \/ MessageEdited(r) \/ DeleteOne(r) \/ MessageDeleted(r)

Read ==
    \/ \E u, v \in User : \E limit \in Limit : u # v /\ OpenHistory(u, v, limit)
    \/ \E limit \in Limit : ScrollUp(limit)
    \/ CloseHistory

Next ==
    \/ \E r \in Request : Start(r) \/ Step(r)
    \/ Read
    \/ Tick

Spec == Init /\ [][Next]_vars

(***************************************************************************)
(* Properties                                                              *)
(***************************************************************************)
Elements(s) == {s[i] : i \in 1..Len(s)}

(* A reader who scrolls to the top has every message that was there when   *)
(* the history was opened and still is, none twice, whatever is sent,      *)
(* landed or deleted meanwhile and however many messages share a           *)
(* millisecond; unless the message he scrolls from is deleted.             *)
PagesComplete ==
    ~reader.lost =>
        /\ Cardinality(Elements(reader.got)) = Len(reader.got)
        /\ \A i, j \in 1..Len(reader.got) : i < j => reader.got[j] < reader.got[i]
        /\ reader # Closed /\ ~reader.hasMore =>
              {m \in reader.start : Stored(m)} \subseteq Elements(reader.got)

(* The list of dialogues and the counter in the header agree, and the list *)
(* names a message of the last moment of each dialogue.                    *)
ListAgrees ==
    \A u \in User :
        /\ \A c \in GetUserChats(u) :
              /\ c.unreadCount = IF c.userId \in DOMAIN GetUnread(u)
                                 THEN GetUnread(u)[c.userId] ELSE 0
              /\ \A m \in Dialog(u, c.userId) : ~Earlier(c.lastMessage, m)
                    \/ messages[m].createdAt = messages[c.lastMessage].createdAt
        /\ DOMAIN GetUnread(u) \subseteq {c.userId : c \in GetUserChats(u)}

(* What was read stays read, whatever edits run beside it.                 *)
ReadStays ==
    [][\A m \in Id : messages[m].isRead => messages'[m].isRead]_vars

(* The tabs show the messages as they are stored.                          *)
TabsTrue ==
    (\A r \in Request : At(r, "idle")) =>
        \A m \in Id :
            /\ tabs[m].shown <=> Stored(m)
            /\ Stored(m) => /\ tabs[m].isRead = messages[m].isRead
                            /\ tabs[m].text = messages[m].text
=============================================================================
