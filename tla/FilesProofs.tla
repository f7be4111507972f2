------------------------------ MODULE FilesProofs ------------------------------
(* What is on disk and what names it, for every set of users, projects,      *)
(* handlers and files.                                                       *)
EXTENDS MCFiles, Counting

Types ==
    /\ disk    \in SUBSET File
    /\ used    \in SUBSET File
    /\ project \in [Project -> ProjectDoc]
    /\ avatar  \in [User -> Picture \union {None}]
    /\ chat    \in SUBSET File
    /\ req     \in [Request -> Req]

\* What a handler holds at each of its stages. multer passes one video at
\* most, and what an edit is about to write names all it has stored.
Stage(r) ==
    /\ req[r].pc # "unlink" => req[r].remove = {}
    /\ req[r].pc \in {"idle", "unlink"} => req[r].new = {}
    /\ req[r].pc \in {"create", "read", "avatar"} => req[r].user \in User
    /\ req[r].pc \in {"read", "write"} => req[r].project \in Project
    /\ req[r].pc \in {"create", "read"} => \A v, w \in req[r].new \intersect Video : v = w
    /\ req[r].pc = "write" => req[r].new \subseteq Own(req[r].doc) /\ req[r].doc.owner \in User
    /\ req[r].pc = "avatar" => \A f, g \in req[r].new : f = g /\ f \in Picture

\* A project that is not stored names nothing.
Blank(p) == Live(p) \/ Own(project[p]) = {}

(***************************************************************************)
(* Where a file belongs. A file moves from the handler that stored it to   *)
(* the project or the user it was sent for, and is never claimed by two.   *)
(***************************************************************************)
Free       == <<"free", None>>
Chat       == <<"chat", None>>
Gone       == <<"gone", None>>
Sent(r)    == <<"request", r>>
Album(p)   == <<"project", p>>
Face(u)    == <<"user", u>>

Expendable(home) == home = Gone \/ \E p \in Project : home = Album(p)

AvatarAt(h, u) ==
    avatar[u] # None => h[avatar[u]] = Face(u) /\ avatar[u] \in disk

ProjectAt(h, p) == \A f \in Own(project[p]) : h[f] = Album(p)

HandlerAt(h, r) ==
    /\ req[r].pc = "create" => \A f \in req[r].new : h[f] = Sent(r)
    /\ req[r].pc = "avatar" => \A f \in req[r].new : h[f] = Sent(r) /\ f \in disk
    /\ req[r].pc \in {"read", "write"} => \A f \in req[r].new : h[f] = Album(req[r].project)
    /\ req[r].pc = "write" => \A f \in Own(req[r].doc) : h[f] = Album(req[r].project)
    /\ req[r].pc = "unlink" => \A f \in req[r].remove : Expendable(h[f])

Homes(h) ==
    /\ \A f \in File \ used : h[f] = Free
    /\ \A f \in chat : h[f] = Chat /\ f \in disk
    /\ \A u \in User : AvatarAt(h, u)
    /\ \A p \in Project : ProjectAt(h, p)
    /\ \A r \in Request : HandlerAt(h, r)

IInv ==
    /\ Types
    /\ \A r \in Request : Stage(r)
    /\ \A p \in Project : Blank(p)
    /\ NoOrphans
    /\ \E h : Homes(h)

(***************************************************************************)
(* Lemmas about the operators                                              *)
(***************************************************************************)
LEMMA OwnFiles ==
    ASSUME NEW doc \in ProjectDoc
    PROVE  Own(doc) \subseteq File
BY DEF Own, ProjectDoc, File

LEMMA IdleReq == Idle \in Req /\ NoProject \in ProjectDoc /\ Own(NoProject) = {}
BY DEF Idle, Req, NoProject, ProjectDoc, Own

(* A project made of an upload names all of it and nothing else. *)
LEMMA UploadedOwn ==
    ASSUME NEW r \in Request, NEW u \in User \union {None}, req[r].new \subseteq File,
           \A v, w \in req[r].new \intersect Video : v = w
    PROVE  /\ Uploaded(r, u) \in ProjectDoc
           /\ Uploaded(r, u).owner = u
           /\ Own(Uploaded(r, u)) = req[r].new
<1> DEFINE new == req[r].new
           OK(v) == IF new \intersect Video = {} THEN v = None ELSE v \in new
           video == CHOOSE v \in Video \union {None} : OK(v)
<1>1. \E v \in Video \union {None} : OK(v)
  <2>1. CASE new \intersect Video = {}
    BY <2>1
  <2>2. CASE new \intersect Video # {}
    <3>1. PICK v \in new \intersect Video : TRUE
      BY <2>2
    <3> QED BY <2>2, <3>1
  <2> QED BY <2>1, <2>2
<1>2. video \in Video \union {None} /\ OK(video)
  <2> HIDE DEF OK
  <2> QED BY <1>1
<1>3. /\ Uploaded(r, u).owner = u
      /\ Uploaded(r, u).images = new \intersect Picture
      /\ Uploaded(r, u).video = video
      /\ Uploaded(r, u) = [owner |-> u, images |-> new \intersect Picture, video |-> video]
  BY DEF Uploaded
<1> HIDE DEF video
<1>4. Uploaded(r, u) \in ProjectDoc
  BY <1>2, <1>3 DEF ProjectDoc
<1>5. None \notin File
  BY FilesAssumption
<1>6. Own(Uploaded(r, u)) = (new \intersect Picture) \union ({video} \ {None})
  BY <1>3 DEF Own
<1>7. Own(Uploaded(r, u)) = new
  <2>1. CASE new \intersect Video = {}
    <3>1. video = None /\ new \subseteq Picture
      BY <1>2, <2>1 DEF File
    <3> QED BY <1>6, <3>1
  <2>2. CASE new \intersect Video # {}
    <3>1. video \in new /\ video # None
      BY <1>2, <1>5, <2>2
    <3>2. \A v \in new : v \in Picture \/ v = video
      BY <1>2, <1>5, <3>1 DEF File
    <3> QED BY <1>6, <3>1, <3>2
  <2> QED BY <2>1, <2>2
<1> QED BY <1>3, <1>4, <1>7

(* An edit names what was uploaded for it, and else only what the project    *)
(* named when it was read.                                                   *)
LEMMA EditedOwn ==
    ASSUME Types, NEW r \in Request, Stage(r), req[r].pc = "read"
    PROVE  LET stored == project[req[r].project]
           IN  /\ Edited(r) \in ProjectDoc
               /\ Edited(r).owner = stored.owner
               /\ req[r].new \subseteq Own(Edited(r))
               /\ Own(Edited(r)) \subseteq req[r].new \union Own(stored)
<1> DEFINE stored == project[req[r].project]
           new    == Uploaded(r, stored.owner)
<1>1. stored \in ProjectDoc /\ stored.owner \in User \union {None}
      /\ req[r].new \subseteq File /\ req[r].keep \subseteq Picture /\ req[r].clear \in BOOLEAN
  BY DEF Types, Stage, ProjectDoc, Req
<1>2. new \in ProjectDoc /\ new.owner = stored.owner /\ Own(new) = req[r].new
  BY <1>1, UploadedOwn DEF Stage
<1>3. Edited(r) = [new EXCEPT !.images = @ \union (req[r].keep \intersect stored.images),
                              !.video  = IF @ # None THEN @ ELSE IF req[r].clear THEN None
                                                            ELSE stored.video]
  BY DEF Edited
<1> HIDE DEF stored, new
<1>4. /\ Edited(r) \in ProjectDoc
      /\ Edited(r).owner = stored.owner
      /\ Edited(r).images = new.images \union (req[r].keep \intersect stored.images)
      /\ Edited(r).video = IF new.video # None THEN new.video ELSE IF req[r].clear THEN None
                                                            ELSE stored.video
  <2> DEFINE images == new.images \union (req[r].keep \intersect stored.images)
             video  == IF new.video # None THEN new.video ELSE IF req[r].clear THEN None ELSE stored.video
  <2>1. images \subseteq Picture /\ video \in {new.video, stored.video, None}
    BY <1>1, <1>2 DEF ProjectDoc
  <2>2. Edited(r) = [[new EXCEPT !.images = images] EXCEPT !.video = video]
    BY <1>2, <1>3 DEF ProjectDoc
  <2> HIDE DEF images, video
  <2>3. /\ Edited(r) \in ProjectDoc /\ Edited(r).owner = new.owner
        /\ Edited(r).images = images /\ Edited(r).video = video
    BY <1>1, <1>2, <2>1, <2>2 DEF ProjectDoc
  <2> QED BY <1>2, <2>3 DEF images, video
<1>5. Own(new) \subseteq Own(Edited(r)) /\ Own(Edited(r)) \subseteq Own(new) \union Own(stored)
  BY <1>4 DEF Own
<1> QED BY <1>2, <1>4, <1>5 DEF stored

(* A file of no document is held or left: NoOrphans, file by file. *)
Cared(f) == f \in Named \union chat \union left \/ \E r \in Request : f \in Held(r)

LEMMA Orphans ==
    /\ NoOrphans <=> \A f \in disk : Cared(f)
    /\ NoOrphans' <=> \A f \in disk' : Cared(f)'
BY DEF NoOrphans, Cared

\* The places differ, and only the files of projects are given up.
LEMMA PlacesDiffer ==
    /\ Chat # Free /\ Gone # Free
    /\ \A r \in Request : Chat # Sent(r) /\ Gone # Sent(r) /\ Sent(r) # Free
    /\ \A p \in Project : Album(p) # Free /\ \A r \in Request : Album(p) # Sent(r)
    /\ \A u \in User : Face(u) # Free /\ Face(u) # Gone /\ \A r \in Request : Face(u) # Sent(r)
    /\ \A r, q \in Request : r # q => Sent(r) # Sent(q)
    /\ \A u, v \in User : u # v => Face(u) # Face(v)
    /\ \A p, o \in Project : p # o => Album(p) # Album(o)
BY DEF Free, Chat, Gone, Sent, Album, Face

LEMMA Kept ==
    /\ ~Expendable(Chat) /\ ~Expendable(Free)
    /\ \A u \in User : ~Expendable(Face(u))
    /\ \A r \in Request : ~Expendable(Sent(r))
BY DEF Expendable, Free, Chat, Gone, Sent, Album, Face

(***************************************************************************)
(* What a step leaves alone                                                *)
(***************************************************************************)
Others(r) == \A q \in Request \ {r} : req'[q] = req[q]

LEMMA StageKept ==
    ASSUME NEW q \in Request, Stage(q), req'[q] = req[q]
    PROVE  Stage(q)'
BY DEF Stage

LEMMA HandlerKept ==
    ASSUME Types, NEW h, NEW g, NEW q \in Request, Stage(q), HandlerAt(h, q), req'[q] = req[q],
           \A f \in File : h[f] = Sent(q) \/ Expendable(h[f]) => g[f] = h[f],
           \A f \in disk : h[f] = Sent(q) => f \in disk'
    PROVE  HandlerAt(g, q)'
<1>1. req[q].new \subseteq File /\ req[q].remove \subseteq File /\ Own(req[q].doc) \subseteq File
  BY OwnFiles DEF Types, Req
<1>2. req[q].pc \in {"read", "write"} => Expendable(Album(req[q].project))
  BY DEF Stage, Expendable
<1>3. CASE req[q].pc = "create"
  BY <1>1, <1>3 DEF HandlerAt
<1>4. CASE req[q].pc = "avatar"
  BY <1>1, <1>4 DEF HandlerAt
<1>5. CASE req[q].pc \in {"read", "write"}
  BY <1>1, <1>2, <1>5 DEF HandlerAt
<1>6. CASE req[q].pc = "unlink"
  BY <1>1, <1>6 DEF HandlerAt
<1>7. CASE req[q].pc = "idle"
  BY <1>7 DEF HandlerAt
<1> QED BY <1>3, <1>4, <1>5, <1>6, <1>7 DEF Types, Req

(* A step of one handler moves only files that are new or its own, and       *)
(* removes only what no user and no chat has.                                *)
LEMMA HomesKept ==
    ASSUME IInv, NEW h, Homes(h), NEW g, NEW r \in Request, Others(r), avatar' = avatar,
           \A f \in File : h[f] \in {Free, Sent(r)} \/ g[f] = h[f],
           \A f \in File \ used' : g[f] = Free,
           \A f \in disk : f \in disk' \/ Expendable(h[f]),
           chat' = chat,
           \A p \in Project : project'[p] = project[p] \/ ProjectAt(g, p)',
           HandlerAt(g, r)'
    PROVE  Homes(g)'
<1>1. \A f \in chat' : g[f] = Chat /\ f \in disk'
  BY PlacesDiffer, Kept DEF Homes, IInv, Types
<1>2. ASSUME NEW u \in User
      PROVE  AvatarAt(g, u)'
  <2>1. AvatarAt(h, u) /\ (avatar[u] # None => avatar[u] \in File)
    BY DEF Homes, IInv, Types, File
  <2> QED BY <2>1, PlacesDiffer, Kept DEF AvatarAt
<1>3. ASSUME NEW p \in Project
      PROVE  ProjectAt(g, p)'
  <2>1. CASE ProjectAt(g, p)'
    BY <2>1
  <2>2. CASE project'[p] = project[p]
    <3>1. Own(project[p]) \subseteq File /\ ProjectAt(h, p)
      BY OwnFiles DEF IInv, Types, Homes
    <3> QED BY <2>2, <3>1, PlacesDiffer DEF ProjectAt
  <2> QED BY <2>1, <2>2
<1>4. ASSUME NEW q \in Request
      PROVE  HandlerAt(g, q)'
  <2>1. CASE q = r
    BY <2>1
  <2>2. CASE q # r
    <3>1. req'[q] = req[q] /\ Stage(q) /\ HandlerAt(h, q) /\ Types
      BY <2>2 DEF Others, IInv, Homes
    <3>2. \A f \in File : h[f] = Sent(q) \/ Expendable(h[f]) => g[f] = h[f]
      BY <2>2, PlacesDiffer DEF Expendable
    <3>3. \A f \in disk : h[f] = Sent(q) => f \in disk'
      BY PlacesDiffer, Kept
    <3> QED BY <3>1, <3>2, <3>3, HandlerKept
  <2> QED BY <2>1, <2>2
<1> QED BY <1>1, <1>2, <1>3, <1>4 DEF Homes

(* The handler goes on to remove files, if there are any. *)
LEMMA RemovesNext ==
    ASSUME Types, NEW r \in Request, NEW S \in SUBSET File, Removes(r, S)
    PROVE  /\ req' \in [Request -> Req] /\ Others(r)
           /\ Stage(r)' /\ req'[r].pc \in {"idle", "unlink"}
           /\ req'[r].new = {} /\ req'[r].remove = S
           /\ \A h : (\A f \in S : Expendable(h[f])) => HandlerAt(h, r)'
<1> DEFINE busy == [Idle EXCEPT !.pc = "unlink", !.remove = S]
           held == IF S = {} THEN Idle ELSE busy
<1>1. /\ busy \in Req /\ busy.pc = "unlink" /\ busy.new = {} /\ busy.remove = S
      /\ Idle \in Req /\ Idle.pc = "idle" /\ Idle.new = {} /\ Idle.remove = {}
  BY IdleReq DEF Idle, Req
<1> HIDE DEF busy
<1>2. held \in Req /\ held.pc \in {"idle", "unlink"} /\ held.new = {} /\ held.remove = S
      /\ (held.pc = "idle" => S = {})
  BY <1>1
<1>3. req' = [req EXCEPT ![r] = held]
  BY DEF Removes, Become, busy
<1> HIDE DEF held
<1>4. req' \in [Request -> Req] /\ Others(r) /\ req'[r] = held
  BY <1>2, <1>3 DEF Types, Others
<1>5. Stage(r)'
  BY <1>2, <1>4 DEF Stage
<1>6. \A h : (\A f \in S : Expendable(h[f])) => HandlerAt(h, r)'
  BY <1>2, <1>4 DEF HandlerAt
<1> QED BY <1>2, <1>4, <1>5, <1>6

(***************************************************************************)
(* The steps                                                               *)
(***************************************************************************)
LEMMA InitIInv ==
    ASSUME Init
    PROVE  IInv
<1>1. Types /\ (\A r \in Request : Stage(r)) /\ \A p \in Project : Blank(p)
  BY IdleReq DEF Init, Types, Stage, Blank, Idle
<1>2. NoOrphans
  BY DEF Init, NoOrphans
<1>3. Homes([f \in File |-> Free])
  BY IdleReq DEF Init, Homes, AvatarAt, ProjectAt, HandlerAt, Idle
<1> QED BY <1>1, <1>2, <1>3 DEF IInv

(* multer stores the files of a request: they are the handler's. *)
LEMMA UploadStep ==
    ASSUME IInv, NEW r \in Request, At(r, "idle"), NEW S, Store(S),
           NEW held \in Req, Become(r, held), held.new = S, held.remove = {},
           held.pc \in {"create", "read", "avatar"}, held.user \in User,
           held.pc = "read" => held.project \in Project,
           held.pc # "avatar" => \A v, w \in S \intersect Video : v = w,
           held.pc = "avatar" => \A f, g \in S : f = g /\ f \in Picture,
           UNCHANGED <<project, avatar, chat, left>>
    PROVE  IInv'
<1>1. /\ req' \in [Request -> Req] /\ Others(r) /\ req'[r] = held
      /\ req[r].pc = "idle" /\ req[r].new = {} /\ req[r].remove = {}
  BY DEF IInv, Types, Become, Others, At, Stage
<1>2. Types'
  BY <1>1 DEF IInv, Types, Store
<1>3. \A q \in Request : Stage(q)'
  <2> TAKE q \in Request
  <2>1. CASE q = r
    BY <1>1, <2>1 DEF Stage
  <2>2. CASE q # r
    BY <1>1, <2>2, StageKept DEF Others, IInv
  <2> QED BY <2>1, <2>2
<1>4. \A p \in Project : Blank(p)'
  BY DEF IInv, Blank, Live
<1>5. NoOrphans'
  <2> SUFFICES ASSUME NEW f \in disk'
               PROVE  Cared(f)'
    BY Orphans
  <2>1. CASE f \in S
    BY <1>1, <2>1 DEF Cared, Held
  <2>2. CASE f \in disk
    <3>1. Cared(f)
      BY <2>2, Orphans DEF IInv
    <3>2. \A q \in Request : f \in Held(q) => f \in Held(q)'
      BY <1>1 DEF Held, Others
    <3> QED BY <3>1, <3>2 DEF Cared, Named, Shown
  <2> QED BY <2>1, <2>2 DEF Store
<1>6. ASSUME NEW h, Homes(h)
      PROVE  \E g : Homes(g)'
  <2> DEFINE place == IF held.pc = "read" THEN Album(held.project) ELSE Sent(r)
             g == [f \in File |-> IF f \in S THEN place ELSE h[f]]
  <2>1. \A f \in File : IF f \in S THEN g[f] = place /\ h[f] = Free ELSE g[f] = h[f]
    BY <1>6 DEF Homes, Store
  <2>2. S \subseteq File /\ S \subseteq disk' /\ disk \subseteq disk' /\ used' = used \union S
    BY DEF Store
  <2>3. HandlerAt(g, r)'
    BY <1>1, <2>1, <2>2 DEF HandlerAt
  <2>4. \A f \in File \ used' : g[f] = Free
    BY <1>6, <2>1, <2>2 DEF Homes
  <2> HIDE DEF g
  <2> QED BY <1>1, <1>6, <2>1, <2>2, <2>3, <2>4, HomesKept
<1> QED BY <1>2, <1>3, <1>4, <1>5, <1>6 DEF IInv

LEMMA UploadNewStep ==
    ASSUME IInv, NEW r \in Request, NEW u \in User, NEW S \in PortfolioFiles, UploadNew(r, u, S)
    PROVE  IInv'
<1> DEFINE held == [Idle EXCEPT !.pc = "create", !.user = u, !.new = S]
<1>1. S \subseteq File /\ \A v, w \in S \intersect Video : v = w
  BY DEF PortfolioFiles
<1>2. /\ held \in Req /\ held.pc = "create" /\ held.user = u /\ held.new = S
      /\ held.remove = {}
  BY <1>1, IdleReq DEF Idle, Req
<1>3. At(r, "idle") /\ Store(S) /\ Become(r, held) /\ UNCHANGED <<project, avatar, chat, left>>
  BY DEF UploadNew
<1> HIDE DEF held
<1> QED BY <1>1, <1>2, <1>3, UploadStep

LEMMA UploadEditStep ==
    ASSUME IInv, NEW r \in Request, NEW u \in User, NEW S \in PortfolioFiles, NEW p \in Project,
           NEW keep \in SUBSET Picture, NEW clear \in BOOLEAN, UploadEdit(r, u, p, S, keep, clear)
    PROVE  IInv'
<1> DEFINE held == [Idle EXCEPT !.pc = "read", !.user = u, !.project = p, !.new = S,
                                !.keep = keep, !.clear = clear]
<1>1. S \subseteq File /\ \A v, w \in S \intersect Video : v = w
  BY DEF PortfolioFiles
<1>2. /\ held \in Req /\ held.pc = "read" /\ held.user = u /\ held.project = p
      /\ held.new = S /\ held.remove = {}
  BY <1>1, IdleReq DEF Idle, Req
<1>3. At(r, "idle") /\ Store(S) /\ Become(r, held) /\ UNCHANGED <<project, avatar, chat, left>>
  BY DEF UploadEdit
<1> HIDE DEF held
<1> QED BY <1>1, <1>2, <1>3, UploadStep

LEMMA UploadAvatarStep ==
    ASSUME IInv, NEW r \in Request, NEW u \in User, NEW f \in Picture, UploadAvatar(r, u, f)
    PROVE  IInv'
<1> DEFINE held == [Idle EXCEPT !.pc = "avatar", !.user = u, !.new = {f}]
<1>1. /\ held \in Req /\ held.pc = "avatar" /\ held.user = u /\ held.new = {f}
      /\ held.remove = {}
  BY IdleReq DEF Idle, Req, File
<1>2. At(r, "idle") /\ Store({f}) /\ Become(r, held) /\ UNCHANGED <<project, avatar, chat, left>>
  BY DEF UploadAvatar
<1>3. \A g, k \in {f} : g = k /\ g \in Picture
  OBVIOUS
<1> HIDE DEF held
<1> QED BY <1>1, <1>2, <1>3, UploadStep

LEMMA UploadFileStep ==
    ASSUME IInv, NEW f \in File, UploadFile(f)
    PROVE  IInv'
<1>1. /\ disk' = disk \union {f} /\ used' = used \union {f} /\ f \notin used
      /\ chat' = chat \union {f}
      /\ project' = project /\ avatar' = avatar /\ left' = left /\ req' = req
  BY DEF UploadFile, Store
<1>2. Types' /\ (\A r \in Request : Stage(r)') /\ \A p \in Project : Blank(p)'
  BY <1>1 DEF IInv, Types, Stage, Blank, Live
<1>3. NoOrphans'
  BY <1>1 DEF IInv, NoOrphans, Named, Shown, Held
<1>4. ASSUME NEW h, Homes(h)
      PROVE  \E g : Homes(g)'
  <2> DEFINE g == [k \in File |-> IF k = f THEN Chat ELSE h[k]]
  <2>1. \A k \in File : IF k = f THEN g[k] = Chat /\ h[k] = Free ELSE g[k] = h[k]
    BY <1>1, <1>4 DEF Homes
  <2> HIDE DEF g
  <2>2. (\A k \in File \ used' : g[k] = Free) /\ \A k \in chat' : g[k] = Chat /\ k \in disk'
    BY <1>1, <1>4, <2>1 DEF Homes, IInv, Types
  <2>3. ASSUME NEW u \in User
        PROVE  AvatarAt(g, u)'
    <3>1. AvatarAt(h, u) /\ (avatar[u] # None => avatar[u] \in File)
      BY <1>4 DEF Homes, IInv, Types, File
    <3> QED BY <1>1, <2>1, <3>1, PlacesDiffer DEF AvatarAt
  <2>4. ASSUME NEW p \in Project
        PROVE  ProjectAt(g, p)'
    <3>1. Own(project[p]) \subseteq File /\ ProjectAt(h, p)
      BY <1>4, OwnFiles DEF IInv, Types, Homes
    <3> QED BY <1>1, <2>1, <3>1, PlacesDiffer DEF ProjectAt
  <2>5. ASSUME NEW q \in Request
        PROVE  HandlerAt(g, q)'
    <3>1. HandlerAt(h, q) /\ Stage(q) /\ Types
      BY <1>4 DEF Homes, IInv
    <3>2. \A k \in File : h[k] = Sent(q) \/ Expendable(h[k]) => g[k] = h[k]
      BY <2>1, PlacesDiffer, Kept
    <3> QED BY <1>1, <3>1, <3>2, HandlerKept
  <2> QED BY <2>2, <2>3, <2>4, <2>5 DEF Homes
<1> QED BY <1>2, <1>3, <1>4 DEF IInv

(* A refused request leaves behind what was stored for it. *)
LEMMA RefuseStep ==
    ASSUME IInv, NEW r \in Request, req[r].pc # "unlink", Refuse(r)
    PROVE  IInv'
<1>1. /\ left' = left \union req[r].new /\ disk' = disk /\ used' = used
      /\ project' = project /\ avatar' = avatar /\ chat' = chat
      /\ req' = [req EXCEPT ![r] = Idle]
  BY DEF Refuse, Become
<1>2. req' \in [Request -> Req] /\ Others(r) /\ req'[r] = Idle /\ req[r].remove = {}
  BY <1>1, IdleReq DEF IInv, Types, Others, Stage
<1>3. Types'
  BY <1>1, <1>2 DEF IInv, Types
<1>4. \A q \in Request : Stage(q)'
  <2> TAKE q \in Request
  <2>1. CASE q = r
    BY <1>2, <2>1 DEF Stage, Idle
  <2>2. CASE q # r
    BY <1>2, <2>2, StageKept DEF Others, IInv
  <2> QED BY <2>1, <2>2
<1>5. \A p \in Project : Blank(p)'
  BY <1>1 DEF IInv, Blank, Live
<1>6. NoOrphans'
  <2> SUFFICES ASSUME NEW f \in disk'
               PROVE  Cared(f)'
    BY Orphans
  <2>1. Cared(f)
    BY <1>1, Orphans DEF IInv
  <2>2. \A q \in Request : f \in Held(q) => f \in Held(q)' \/ f \in left'
    BY <1>1, <1>2 DEF Held, Others
  <2> QED BY <1>1, <2>1, <2>2 DEF Cared, Named, Shown
<1>7. ASSUME NEW h, Homes(h)
      PROVE  Homes(h)'
  <2>1. HandlerAt(h, r)'
    BY <1>2 DEF HandlerAt, Idle
  <2> QED BY <1>1, <1>2, <1>7, <2>1, HomesKept DEF Homes
<1> QED BY <1>3, <1>4, <1>5, <1>6, <1>7 DEF IInv

(* A handler lets go of what it stored in exchange for a project that names  *)
(* it, or hands the files of the project before to their removal.            *)
Writes(r, p, doc, S) ==
    /\ req[r].pc # "unlink"
    /\ doc \in ProjectDoc
    /\ doc.owner # None \/ Own(doc) = {}
    /\ S \in SUBSET File
    /\ req[r].new \subseteq Own(doc)
    /\ Own(project[p]) \subseteq Own(doc) \union S
    /\ project' = [project EXCEPT ![p] = doc]
    /\ Removes(r, S)
    /\ UNCHANGED <<disk, used, avatar, chat, left>>

Moves(r, p, doc, S, h, g) ==
    /\ Homes(h)
    /\ \A f \in File : h[f] \in {Free, Sent(r)} \/ g[f] = h[f]
    /\ \A f \in File \ used : g[f] = Free
    /\ \A f \in Own(doc) : g[f] = Album(p)
    /\ \A f \in S : Expendable(g[f])

LEMMA WriteStep ==
    ASSUME IInv, NEW r \in Request, NEW p \in Project, NEW doc, NEW S, Writes(r, p, doc, S),
           NEW h, NEW g, Moves(r, p, doc, S, h, g)
    PROVE  IInv'
<1> USE DEF Writes, Moves
<1>1. /\ req' \in [Request -> Req] /\ Others(r) /\ Stage(r)'
      /\ req'[r].new = {} /\ req'[r].remove = S /\ HandlerAt(g, r)'
      /\ req[r].remove = {}
  BY RemovesNext DEF IInv, Stage
<1>2. project' \in [Project -> ProjectDoc] /\ project'[p] = doc
      /\ \A q \in Project \ {p} : project'[q] = project[q]
  BY DEF IInv, Types
<1>3. Types'
  BY <1>1, <1>2 DEF IInv, Types
<1>4. \A q \in Request : Stage(q)'
  <2> TAKE q \in Request
  <2>1. CASE q # r
    BY <1>1, <2>1, StageKept DEF Others, IInv
  <2> QED BY <1>1, <2>1
<1>5. \A q \in Project : Blank(q)'
  BY <1>2 DEF IInv, Blank, Live
<1>6. NoOrphans'
  <2> SUFFICES ASSUME NEW f \in disk'
               PROVE  Cared(f)'
    BY Orphans
  <2>1. Cared(f)
    BY Orphans DEF IInv
  <2>2. \A q \in Project : f \in Own(project[q]) =>
          f \in Own(project'[q]) \/ \E k \in Request : f \in Held(k)'
    BY <1>1, <1>2 DEF Held
  <2>3. \A q \in Request : f \in Held(q) => f \in Held(q)' \/ f \in Own(project'[p])
    BY <1>1, <1>2 DEF Held, Others
  <2> QED BY <2>1, <2>2, <2>3 DEF Cared, Named, Shown
<1>7. Homes(g)'
  <2>1. \A q \in Project : project'[q] = project[q] \/ ProjectAt(g, q)'
    BY <1>2 DEF ProjectAt
  <2> QED BY <1>1, <2>1, HomesKept
<1> QED BY <1>3, <1>4, <1>5, <1>6, <1>7 DEF IInv

LEMMA CreateStep ==
    ASSUME IInv, NEW r \in Request, NEW p \in Project, CreatePortfolio(r, p)
    PROVE  IInv'
<1> DEFINE doc == Uploaded(r, req[r].user)
<1>1. /\ req[r].pc = "create" /\ req[r].user \in User /\ req[r].new \subseteq File
      /\ \A v, w \in req[r].new \intersect Video : v = w
  BY DEF CreatePortfolio, At, IInv, Stage, Types, Req
<1>2. doc \in ProjectDoc /\ doc.owner = req[r].user /\ Own(doc) = req[r].new
  BY <1>1, UploadedOwn
<1>3. Own(project[p]) = {}
  BY DEF CreatePortfolio, IInv, Blank
<1>4. CASE Refuse(r)
  BY <1>1, <1>4, RefuseStep
<1>5. CASE /\ project' = [project EXCEPT ![p] = doc] /\ Become(r, Idle)
           /\ UNCHANGED <<disk, used, avatar, chat, left, stops>>
  <2>1. Removes(r, {})
    BY <1>5 DEF Removes
  <2>2. PICK h : Homes(h)
    BY DEF IInv
  <2> DEFINE g == [f \in File |-> IF f \in req[r].new THEN Album(p) ELSE h[f]]
  <2>3. \A f \in req[r].new : h[f] = Sent(r)
    BY <1>1, <2>2 DEF Homes, HandlerAt
  <2>4. \A f \in File : h[f] \in {Free, Sent(r)} \/ g[f] = h[f]
    BY <2>3
  <2>5. \A f \in File \ used : g[f] = Free
    BY <2>2, <2>3, PlacesDiffer DEF Homes
  <2>6. \A f \in Own(doc) : g[f] = Album(p)
    BY <1>1, <1>2
  <2>7. doc.owner # None \/ Own(doc) = {}
    BY <1>1, <1>2, FilesAssumption
  <2>8. Writes(r, p, doc, {})
    BY <1>1, <1>2, <1>3, <1>5, <2>1, <2>7 DEF Writes
  <2>9. Moves(r, p, doc, {}, h, g)
    BY <2>2, <2>4, <2>5, <2>6 DEF Moves
  <2> HIDE DEF doc, g
  <2> QED BY <2>8, <2>9, WriteStep
<1> QED BY <1>4, <1>5 DEF CreatePortfolio

LEMMA FindStep ==
    ASSUME IInv, NEW r \in Request, FindOwnPortfolio(r)
    PROVE  IInv'
<1> DEFINE doc == Edited(r)
           held == [req[r] EXCEPT !.pc = "write", !.doc = doc, !.keep = {}, !.clear = FALSE]
<1>1. req[r].pc = "read" /\ req[r] \in Req /\ Stage(r) /\ Types
  BY DEF FindOwnPortfolio, At, IInv, Types
<1>2. /\ doc \in ProjectDoc /\ doc.owner = project[req[r].project].owner
      /\ req[r].new \subseteq Own(doc)
      /\ Own(doc) \subseteq req[r].new \union Own(project[req[r].project])
  BY <1>1, EditedOwn
<1>3. CASE Refuse(r)
  BY <1>1, <1>3, RefuseStep
<1>4. CASE /\ Become(r, held) /\ project[req[r].project].owner = req[r].user
           /\ UNCHANGED <<disk, used, project, avatar, chat, left, stops>>
  <2> HIDE DEF doc
  <2>1. /\ held \in Req /\ held.pc = "write" /\ held.doc = doc /\ held.new = req[r].new
        /\ held.project = req[r].project /\ held.remove = req[r].remove
    BY <1>1, <1>2 DEF Req
  <2> HIDE DEF held
  <2>2. req' \in [Request -> Req] /\ Others(r) /\ req'[r] = held
    BY <1>1, <1>4, <2>1 DEF Types, Become, Others
  <2>3. Types'
    BY <1>1, <1>4, <2>2 DEF Types
  <2>4. \A q \in Request : Stage(q)'
    <3> TAKE q \in Request
    <3>1. CASE q = r
      BY <1>1, <1>2, <1>4, <2>1, <2>2, <3>1 DEF Stage
    <3>2. CASE q # r
      BY <2>2, <3>2, StageKept DEF Others, IInv
    <3> QED BY <3>1, <3>2
  <2>5. \A p \in Project : Blank(p)'
    BY <1>4 DEF IInv, Blank, Live
  <2>6. \A q \in Request : Held(q)' = Held(q)
    BY <2>1, <2>2 DEF Held, Others
  <2>7. NoOrphans'
    BY <1>4, <2>6 DEF IInv, NoOrphans, Named, Shown
  <2>8. ASSUME NEW h, Homes(h)
        PROVE  Homes(h)'
    <3>1. ProjectAt(h, req[r].project) /\ \A f \in req[r].new : h[f] = Album(req[r].project)
      BY <1>1, <2>8 DEF Homes, HandlerAt, Stage
    <3>2. HandlerAt(h, r)'
      BY <1>2, <2>1, <2>2, <3>1 DEF HandlerAt, ProjectAt
    <3> QED BY <1>4, <2>2, <2>8, <3>2, HomesKept DEF Homes
  <2> QED BY <2>3, <2>4, <2>5, <2>7, <2>8 DEF IInv
<1> QED BY <1>3, <1>4 DEF FindOwnPortfolio

LEMMA UpdateStep ==
    ASSUME IInv, NEW r \in Request, UpdatePortfolio(r)
    PROVE  IInv'
<1> PICK p, doc, S : p = req[r].project /\ doc = req[r].doc /\ S = Own(project[p]) \ Own(doc)
  OBVIOUS
<1>1. /\ req[r].pc = "write" /\ p \in Project /\ doc \in ProjectDoc /\ doc.owner \in User
      /\ req[r].new \subseteq Own(doc) /\ project[p] \in ProjectDoc
  BY DEF UpdatePortfolio, At, IInv, Types, Stage, Req
<1>2. CASE Refuse(r)
  BY <1>1, <1>2, RefuseStep
<1>3. CASE /\ project' = [project EXCEPT ![p] = doc] /\ Removes(r, S)
           /\ UNCHANGED <<disk, used, avatar, chat, left, stops>>
  <2>1. S \in SUBSET File /\ Own(project[p]) \subseteq Own(doc) \union S
    BY <1>1, OwnFiles
  <2>2. PICK h : Homes(h)
    BY DEF IInv
  <2>3. \A f \in Own(doc) : h[f] = Album(p)
    BY <1>1, <2>2 DEF Homes, HandlerAt
  <2>4. \A f \in S : Expendable(h[f])
    BY <1>1, <2>2 DEF Homes, ProjectAt, Expendable
  <2>5. doc.owner # None \/ Own(doc) = {}
    BY <1>1, FilesAssumption
  <2>6. \A f \in File \ used : h[f] = Free
    BY <2>2 DEF Homes
  <2>7. Writes(r, p, doc, S)
    BY <1>1, <1>3, <2>1, <2>5 DEF Writes
  <2>8. Moves(r, p, doc, S, h, h)
    BY <2>2, <2>3, <2>4, <2>6 DEF Moves
  <2> QED BY <1>1, <2>7, <2>8, WriteStep
<1> QED BY <1>2, <1>3 DEF UpdatePortfolio

LEMMA DeleteStep ==
    ASSUME IInv, NEW r \in Request, NEW u \in User, NEW p \in Project, DeletePortfolio(r, u, p)
    PROVE  IInv'
<1>1. req[r].pc = "idle" /\ req[r].new = {} /\ project[p] \in ProjectDoc
  BY DEF DeletePortfolio, At, IInv, Types, Stage
<1>2. /\ project' = [project EXCEPT ![p] = NoProject] /\ Removes(r, Own(project[p]))
      /\ UNCHANGED <<disk, used, avatar, chat, left>>
  BY DEF DeletePortfolio
<1>3. PICK h : Homes(h)
  BY DEF IInv
<1>4. \A f \in Own(project[p]) : Expendable(h[f])
  BY <1>3 DEF Homes, ProjectAt, Expendable
<1>5. Own(project[p]) \in SUBSET File /\ \A f \in File \ used : h[f] = Free
  BY <1>1, <1>3, OwnFiles DEF Homes
<1>6. Writes(r, p, NoProject, Own(project[p]))
  BY <1>1, <1>2, <1>5, IdleReq DEF Writes
<1>7. Moves(r, p, NoProject, Own(project[p]), h, h)
  BY <1>3, <1>4, <1>5, IdleReq DEF Moves
<1> QED BY <1>6, <1>7, WriteStep

(* The one step that gives a picture to a user, and takes one from him. *)
LEMMA SetAvatarStep ==
    ASSUME IInv, NEW r \in Request, SetAvatar(r)
    PROVE  IInv'
<1> PICK u, old : u = req[r].user /\ old = avatar[u]
  OBVIOUS
<1> PICK f \in req[r].new : avatar' = [avatar EXCEPT ![u] = f] /\ Removes(r, {old} \ {None, f})
  BY DEF SetAvatar
<1>1. /\ req[r].pc = "avatar" /\ u \in User /\ f \in Picture /\ f \in File
      /\ old \in Picture \union {None} /\ (old # None => old \in File)
      /\ \A k \in req[r].new : k = f
  BY DEF SetAvatar, At, IInv, Stage, Types, Req, File
<1>2. disk' = disk /\ used' = used /\ project' = project /\ chat' = chat /\ left' = left
  BY DEF SetAvatar
<1> PICK S : S = {old} \ {None, f}
  OBVIOUS
<1>3. S \in SUBSET File /\ Removes(r, S)
  BY <1>1
<1>4. /\ req' \in [Request -> Req] /\ Others(r) /\ Stage(r)'
      /\ req'[r].new = {} /\ req'[r].remove = S /\ req[r].remove = {}
      /\ \A h : (\A k \in S : Expendable(h[k])) => HandlerAt(h, r)'
  BY <1>1, <1>3, RemovesNext DEF IInv, Stage
<1>5. /\ avatar' \in [User -> Picture \union {None}] /\ avatar'[u] = f
      /\ \A v \in User \ {u} : avatar'[v] = avatar[v]
  BY <1>1 DEF IInv, Types
<1>6. Types' /\ \A p \in Project : Blank(p)'
  BY <1>2, <1>4, <1>5 DEF IInv, Types, Blank, Live
<1>7. \A q \in Request : Stage(q)'
  <2> TAKE q \in Request
  <2>1. CASE q # r
    BY <1>4, <2>1, StageKept DEF Others, IInv
  <2> QED BY <1>4, <2>1
<1>8. NoOrphans'
  <2> SUFFICES ASSUME NEW k \in disk'
               PROVE  Cared(k)'
    BY Orphans
  <2>1. Cared(k)
    BY <1>2, Orphans DEF IInv
  <2>2. \A q \in Request : k \in Held(q) => k \in Held(q)' \/ k = f
    BY <1>1, <1>4 DEF Held, Others
  <2>3. ASSUME NEW v \in User, k = avatar[v], k # None
        PROVE  k = avatar'[v] \/ \E q \in Request : k \in Held(q)'
    <3>1. CASE v = u
      BY <1>4, <1>5, <2>3, <3>1 DEF Held
    <3>2. CASE v # u
      BY <1>5, <2>3, <3>2
    <3> QED BY <3>1, <3>2
  <2>4. k = f => k \in Named'
    BY <1>1, <1>5, FilesAssumption DEF Named
  <2>5. CASE k \in Named
    BY <1>2, <2>3, <2>5 DEF Named, Shown, Cared
  <2>6. CASE k \in chat \union left \/ \E q \in Request : k \in Held(q)
    BY <1>2, <2>2, <2>4, <2>6 DEF Cared
  <2> QED BY <2>1, <2>5, <2>6 DEF Cared
<1>9. ASSUME NEW h, Homes(h)
      PROVE  \E g : Homes(g)'
  <2> DEFINE g == [k \in File |-> IF k = f THEN Face(u)
                                  ELSE IF k = old THEN Gone ELSE h[k]]
  <2>1. /\ h[f] = Sent(r) /\ f \in disk /\ (old # None => h[old] = Face(u) /\ old # f)
        /\ g[f] = Face(u) /\ (old # None => g[old] = Gone)
        /\ \A k \in File \ {f, old} : g[k] = h[k]
    BY <1>1, <1>9, PlacesDiffer DEF Homes, HandlerAt, AvatarAt
  <2>2. \A k \in File : h[k] \in {Sent(r), Face(u)} \/ g[k] = h[k]
    BY <1>1, <2>1, FilesAssumption
  <2> HIDE DEF g
  <2>3. Free \notin {Sent(r), Face(u)} /\ Chat \notin {Sent(r), Face(u)}
    BY DEF Free, Chat, Sent, Face
  <2>4. \A k \in File \ used' : g[k] = Free
    BY <1>2, <1>9, <2>2, <2>3 DEF Homes
  <2>5. \A k \in chat' : g[k] = Chat /\ k \in disk'
    BY <1>2, <1>9, <2>2, <2>3 DEF Homes, IInv, Types
  <2>6. ASSUME NEW v \in User
        PROVE  AvatarAt(g, v)'
    <3>1. CASE v = u
      BY <1>2, <1>5, <2>1, <3>1 DEF AvatarAt
    <3>2. CASE v # u
      <4>1. AvatarAt(h, v) /\ (avatar[v] # None => avatar[v] \in File)
        BY <1>9 DEF Homes, IInv, Types, File
      <4>2. Face(v) \notin {Sent(r), Face(u)}
        BY <1>1, <3>2, PlacesDiffer
      <4> QED BY <1>2, <1>5, <2>2, <3>2, <4>1, <4>2 DEF AvatarAt
    <3> QED BY <3>1, <3>2
  <2>7. ASSUME NEW p \in Project
        PROVE  ProjectAt(g, p)'
    <3>1. Own(project[p]) \subseteq File /\ ProjectAt(h, p)
      BY <1>9, OwnFiles DEF IInv, Types, Homes
    <3>2. Album(p) \notin {Sent(r), Face(u)}
      BY <1>1 DEF Album, Sent, Face
    <3> QED BY <1>2, <2>2, <3>1, <3>2 DEF ProjectAt
  <2>8. ASSUME NEW q \in Request
        PROVE  HandlerAt(g, q)'
    <3>1. CASE q = r
      <4>1. \A k \in S : Expendable(g[k])
        BY <2>1 DEF Expendable
      <4> QED BY <1>4, <3>1, <4>1
    <3>2. CASE q # r
      <4>1. req'[q] = req[q] /\ HandlerAt(h, q) /\ Stage(q) /\ Types
        BY <1>4, <1>9, <3>2 DEF Others, Homes, IInv
      <4>2. Sent(q) # Face(u) /\ Sent(q) # Sent(r) /\ ~Expendable(Sent(r)) /\ ~Expendable(Face(u))
        BY <1>1, <3>2, PlacesDiffer, Kept
      <4>3. \A k \in File : h[k] = Sent(q) \/ Expendable(h[k]) => g[k] = h[k]
        BY <2>2, <4>2
      <4> QED BY <1>2, <4>1, <4>3, HandlerKept
    <3> QED BY <3>1, <3>2
  <2> QED BY <2>4, <2>5, <2>6, <2>7, <2>8 DEF Homes
<1> QED BY <1>6, <1>7, <1>8, <1>9 DEF IInv

LEMMA UnlinkStep ==
    ASSUME IInv, NEW r \in Request, NEW f \in File, NEW removed \in BOOLEAN, Unlink(r, f, removed)
    PROVE  IInv'
<1> PICK S : S = req[r].remove \ {f}
  OBVIOUS
<1>1. /\ req[r].pc = "unlink" /\ f \in req[r].remove /\ req[r].remove \subseteq File
      /\ req[r].new = {} /\ Removes(r, S) /\ S \in SUBSET File
  BY DEF Unlink, At, IInv, Stage, Types, Req
<1>2. /\ used' = used /\ project' = project /\ avatar' = avatar /\ chat' = chat
      /\ disk' \subseteq disk /\ disk \ {f} \subseteq disk'
      /\ left \subseteq left' /\ (f \in disk' => f \in left')
  BY DEF Unlink
<1>3. /\ req' \in [Request -> Req] /\ Others(r) /\ Stage(r)'
      /\ req'[r].new = {} /\ req'[r].remove = S
      /\ \A h : (\A k \in S : Expendable(h[k])) => HandlerAt(h, r)'
  BY <1>1, RemovesNext DEF IInv
<1>4. Types' /\ \A p \in Project : Blank(p)'
  BY <1>2, <1>3 DEF IInv, Types, Blank, Live
<1>5. \A q \in Request : Stage(q)'
  <2> TAKE q \in Request
  <2>1. CASE q # r
    BY <1>3, <2>1, StageKept DEF Others, IInv
  <2> QED BY <1>3, <2>1
<1>6. NoOrphans'
  <2> SUFFICES ASSUME NEW k \in disk'
               PROVE  Cared(k)'
    BY Orphans
  <2>1. CASE k = f
    BY <1>2, <2>1 DEF Cared
  <2>2. CASE k # f
    <3>1. Cared(k)
      BY <1>2, Orphans DEF IInv
    <3>2. \A q \in Request : k \in Held(q) => k \in Held(q)'
      BY <1>1, <1>3, <2>2 DEF Held, Others
    <3> QED BY <1>2, <3>1, <3>2 DEF Cared, Named, Shown
  <2> QED BY <2>1, <2>2
<1>7. ASSUME NEW h, Homes(h)
      PROVE  Homes(h)'
  <2>1. \A k \in req[r].remove : Expendable(h[k])
    BY <1>1, <1>7 DEF Homes, HandlerAt
  <2>2. HandlerAt(h, r)' /\ \A k \in disk : k \in disk' \/ Expendable(h[k])
    BY <1>1, <1>2, <1>3, <2>1
  <2> QED BY <1>2, <1>3, <1>7, <2>2, HomesKept DEF Homes
<1> QED BY <1>4, <1>5, <1>6, <1>7 DEF IInv

(* A stop leaves behind what the handlers held. *)
LEMMA StopStep ==
    ASSUME IInv, Stop
    PROVE  IInv'
<1>1. /\ disk' = disk /\ used' = used /\ project' = project /\ avatar' = avatar /\ chat' = chat
      /\ left' = left \union UNION {Held(r) : r \in Request}
      /\ \A r \in Request : req'[r] = Idle
      /\ req' \in [Request -> Req]
  BY IdleReq DEF Stop
<1>2. Types' /\ (\A r \in Request : Stage(r)') /\ \A p \in Project : Blank(p)'
  BY <1>1 DEF IInv, Types, Stage, Blank, Live, Idle
<1>3. NoOrphans'
  BY <1>1 DEF IInv, NoOrphans, Named, Shown
<1>4. ASSUME NEW h, Homes(h)
      PROVE  Homes(h)'
  BY <1>1, <1>4 DEF Homes, AvatarAt, ProjectAt, HandlerAt, Idle
<1> QED BY <1>2, <1>3, <1>4 DEF IInv

LEMMA StutterStep ==
    ASSUME IInv, UNCHANGED vars
    PROVE  IInv'
BY DEF IInv, Types, Stage, Blank, Live, NoOrphans, Named, Shown, Held, Homes, AvatarAt, ProjectAt,
       HandlerAt, vars

LEMMA Inductive ==
    ASSUME IInv, [Next]_vars
    PROVE  IInv'
<1>1. ASSUME NEW r \in Request, Step(r)
      PROVE  IInv'
  <2>1. CASE Invalid(r)
    BY <2>1, RefuseStep DEF Invalid
  <2>2. CASE FindOwnPortfolio(r) \/ UpdatePortfolio(r) \/ SetAvatar(r)
    BY <2>2, FindStep, UpdateStep, SetAvatarStep
  <2>3. CASE \E p \in Project : CreatePortfolio(r, p)
    BY <2>3, CreateStep
  <2>4. CASE \E f \in File : \E removed \in BOOLEAN : Unlink(r, f, removed)
    BY <2>4, UnlinkStep
  <2> QED BY <1>1, <2>1, <2>2, <2>3, <2>4 DEF Step
<1>2. ASSUME NEW r \in Request, NEW u \in User, Start(r, u)
      PROVE  IInv'
  <2>1. ASSUME NEW S \in PortfolioFiles, UploadNew(r, u, S)
        PROVE  IInv'
    BY <2>1, UploadNewStep
  <2>2. ASSUME NEW S \in PortfolioFiles, NEW p \in Project, NEW keep \in SUBSET used,
               NEW clear \in BOOLEAN, keep \subseteq Picture, UploadEdit(r, u, p, S, keep, clear)
        PROVE  IInv'
    BY <2>2, UploadEditStep
  <2>3. ASSUME NEW p \in Project, DeletePortfolio(r, u, p)
        PROVE  IInv'
    BY <2>3, DeleteStep
  <2>4. ASSUME NEW f \in Picture, UploadAvatar(r, u, f)
        PROVE  IInv'
    BY <2>4, UploadAvatarStep
  <2> QED BY <1>2, <2>1, <2>2, <2>3, <2>4 DEF Start
<1> QED BY <1>1, <1>2, UploadFileStep, StopStep, StutterStep DEF Next

(* Every file that was stored has one home in every reachable state,         *)
(* whatever requests to the portfolio, avatars and the chat overlap.         *)
THEOREM Invariance == Spec => []IInv
<1>1. IInv /\ [Next]_vars => IInv'
  BY Inductive
<1> QED BY InitIInv, <1>1, PTL DEF Spec

(* The README on uploads: replacing an avatar, editing and deleting a        *)
(* project clean up. A file that nothing names is in the hands of a handler  *)
(* or was left by a refused request, a failed unlink or a stop.              *)
THEOREM Clean == Spec => []NoOrphans
<1>1. IInv => NoOrphans
  BY DEF IInv
<1> QED BY Invariance, <1>1, PTL

(* Where every file has one home, nothing has two owners.                    *)
LEMMA OneOwner ==
    ASSUME IInv
    PROVE  OthersKept
<1> PICK h : Homes(h)
BY DEF IInv
<1>1. \A u \in User : avatar[u] # None => avatar[u] \in File /\ h[avatar[u]] = Face(u)
                                           /\ avatar[u] \in disk
  BY DEF Homes, AvatarAt, IInv, Types, File
<1>2. \A f \in chat : f \in disk /\ h[f] = Chat
  BY <1>1 DEF Homes
<1>3. \A p \in Project : \A f \in Own(project[p]) : f \in File /\ h[f] = Album(p)
  BY <1>1, OwnFiles DEF Homes, ProjectAt, IInv, Types
<1>4. \A f \in Shown : f \in File /\ \E p \in Project : h[f] = Album(p)
  BY <1>3 DEF Shown
<1>5. chat \subseteq disk
  BY <1>2
<1>6. \A u \in User : avatar[u] = None \/ avatar[u] \in disk \ chat
  BY <1>1, <1>2 DEF Face, Chat
<1>7. \A u, v \in User : u # v => avatar[u] # avatar[v] \/ avatar[u] = None
  BY <1>1 DEF Face
<1>8. \A u \in User : avatar[u] \notin Shown
  BY <1>1, <1>4, FilesAssumption DEF Face, Album
<1>9. chat \intersect Shown = {}
  BY <1>2, <1>4 DEF Chat, Album
<1>10. \A p, q \in Project : p # q => Own(project[p]) \intersect Own(project[q]) = {}
  BY <1>3 DEF Album
<1> QED BY <1>5, <1>6, <1>7, <1>8, <1>9, <1>10 DEF OthersKept

(* No edit, deletion or change of an avatar removes a file of somebody else  *)
(* (filesToRemove, removeUploads), however handlers overlap: every file      *)
(* belongs to one project, one avatar or the chat.                           *)
THEOREM Ownership == Spec => []OthersKept
BY Invariance, OneOwner, PTL

(***************************************************************************)
(* Handlers that do not overlap                                            *)
(***************************************************************************)
\* What a handler stored or is about to write is on disk, and no project
\* names what it is about to remove.
Sound(r) ==
    /\ req[r].new \subseteq disk
    /\ req[r].pc = "write" => Own(req[r].doc) \subseteq disk
    /\ req[r].remove \intersect Shown = {}

\* At most one handler is busy, and it is right about the disk.
Alone ==
    /\ IsFiniteSet(Busy) /\ Single(Busy)
    /\ PicturesOnDisk
    /\ \A r \in Request : Sound(r)

(* What a project names is named by a project.                               *)
LEMMA ShownOwn ==
    /\ \A p \in Project : Own(project[p]) \subseteq Shown
    /\ \A f \in Shown : \E p \in Project : f \in Own(project[p])
BY DEF Shown

(* A write to one project, by a handler that removes what it replaced: what  *)
(* the others name is not among it.                                          *)
LEMMA SoundWrite ==
    ASSUME IInv, Alone, NEW r \in Request, NEW p \in Project, NEW doc \in ProjectDoc,
           project' = [project EXCEPT ![p] = doc], Own(doc) \subseteq disk, disk' = disk,
           req'[r].new = {}, req'[r].pc # "write",
           req'[r].remove \subseteq Own(project[p]) \ Own(doc)
    PROVE  PicturesOnDisk' /\ Sound(r)'
<1>1. /\ project'[p] = doc /\ \A q \in Project \ {p} : project'[q] = project[q]
  BY DEF IInv, Types
<1>2. \A f \in Shown' : f \in Own(doc) \/ \E q \in Project \ {p} : f \in Own(project[q])
  BY <1>1 DEF Shown
<1>3. PicturesOnDisk'
  BY <1>2, ShownOwn DEF Alone, PicturesOnDisk
<1>4. \A q \in Project \ {p} : Own(project[p]) \intersect Own(project[q]) = {}
  BY OneOwner DEF OthersKept
<1>5. req'[r].remove \intersect Shown' = {}
  BY <1>2, <1>4
<1> QED BY <1>3, <1>5 DEF Sound

\* A request is refused.
LEMMA SoundRefuse ==
    ASSUME IInv, Alone, NEW r \in Request, Refuse(r)
    PROVE  PicturesOnDisk' /\ Sound(r)' /\ Others(r)
<1>1. req'[r] = Idle /\ Others(r) /\ UNCHANGED <<disk, project>>
  BY DEF IInv, Types, Refuse, Become, Others
<1>2. Idle.new = {} /\ Idle.pc = "idle" /\ Idle.remove = {}
  BY DEF Idle
<1>3. PicturesOnDisk'
  BY <1>1 DEF Alone, PicturesOnDisk, Shown
<1> QED BY <1>1, <1>2, <1>3 DEF Sound

\* A handler that starts.
LEMMA SoundStart ==
    ASSUME IInv, Alone, NEW r \in Request, NEW u \in User, Start(r, u)
    PROVE  /\ PicturesOnDisk' /\ Sound(r)' /\ Others(r) /\ req[r].pc = "idle"
           /\ disk \subseteq disk' /\ Shown' \subseteq Shown
<1>0. Idle \in Req /\ Idle.pc = "idle" /\ Idle.new = {} /\ Idle.remove = {}
  BY IdleReq DEF Idle
<1>1. ASSUME NEW S \in SUBSET File, Store(S), NEW held, Become(r, held), held.new = S,
             held.remove = {}, held.pc # "write", At(r, "idle"), project' = project
      PROVE  /\ PicturesOnDisk' /\ Sound(r)' /\ Others(r) /\ req[r].pc = "idle"
             /\ disk \subseteq disk' /\ Shown' \subseteq Shown
  <2>1. req'[r] = held /\ Others(r) /\ disk' = disk \union S
    BY <1>1 DEF IInv, Types, Become, Others, Store
  <2>2. PicturesOnDisk' /\ Shown' = Shown
    BY <1>1, <2>1 DEF Alone, PicturesOnDisk, Shown
  <2> QED BY <1>1, <2>1, <2>2 DEF Sound, At
<1>2. ASSUME NEW S \in PortfolioFiles, UploadNew(r, u, S)
      PROVE  /\ PicturesOnDisk' /\ Sound(r)' /\ Others(r) /\ req[r].pc = "idle"
             /\ disk \subseteq disk' /\ Shown' \subseteq Shown
  <2> DEFINE held == [Idle EXCEPT !.pc = "create", !.user = u, !.new = S]
  <2>1. held.new = S /\ held.remove = {} /\ held.pc # "write"
    BY <1>0 DEF Req
  <2>2. Become(r, held) /\ Store(S) /\ At(r, "idle") /\ project' = project /\ S \in SUBSET File
    BY <1>2 DEF UploadNew, PortfolioFiles
  <2> HIDE DEF held
  <2> QED BY <1>1, <2>1, <2>2
<1>3. ASSUME NEW S \in PortfolioFiles, NEW p \in Project, NEW keep, NEW clear,
             UploadEdit(r, u, p, S, keep, clear)
      PROVE  /\ PicturesOnDisk' /\ Sound(r)' /\ Others(r) /\ req[r].pc = "idle"
             /\ disk \subseteq disk' /\ Shown' \subseteq Shown
  <2> DEFINE held == [Idle EXCEPT !.pc = "read", !.user = u, !.project = p, !.new = S,
                                  !.keep = keep, !.clear = clear]
  <2>1. held.new = S /\ held.remove = {} /\ held.pc # "write"
    BY <1>0 DEF Req
  <2>2. Become(r, held) /\ Store(S) /\ At(r, "idle") /\ project' = project /\ S \in SUBSET File
    BY <1>3 DEF UploadEdit, PortfolioFiles
  <2> HIDE DEF held
  <2> QED BY <1>1, <2>1, <2>2
<1>4. ASSUME NEW f \in Picture, UploadAvatar(r, u, f)
      PROVE  /\ PicturesOnDisk' /\ Sound(r)' /\ Others(r) /\ req[r].pc = "idle"
             /\ disk \subseteq disk' /\ Shown' \subseteq Shown
  <2> DEFINE held == [Idle EXCEPT !.pc = "avatar", !.user = u, !.new = {f}]
  <2>1. held.new = {f} /\ held.remove = {} /\ held.pc # "write"
    BY <1>0 DEF Req
  <2>2. Become(r, held) /\ Store({f}) /\ At(r, "idle") /\ project' = project /\ {f} \in SUBSET File
    BY <1>4 DEF UploadAvatar, File
  <2> HIDE DEF held
  <2> QED BY <1>1, <2>1, <2>2
<1>5. ASSUME NEW p \in Project, DeletePortfolio(r, u, p)
      PROVE  /\ PicturesOnDisk' /\ Sound(r)' /\ Others(r) /\ req[r].pc = "idle"
             /\ disk \subseteq disk' /\ Shown' \subseteq Shown
  <2>1. /\ req[r].pc = "idle" /\ project' = [project EXCEPT ![p] = NoProject] /\ disk' = disk
        /\ Removes(r, Own(project[p])) /\ Own(project[p]) \in SUBSET File
    BY <1>5, OwnFiles DEF DeletePortfolio, At, IInv, Types
  <2>2. Others(r) /\ req'[r].new = {} /\ req'[r].remove = Own(project[p]) /\ req'[r].pc # "write"
    BY <2>1, RemovesNext DEF IInv
  <2>3. Shown' \subseteq Shown
    <3>1. \A q \in Project : project'[q] = project[q] \/ project'[q] = NoProject
      BY <2>1 DEF IInv, Types
    <3> QED BY <3>1, IdleReq DEF Shown
  <2> QED BY <2>1, <2>2, <2>3, IdleReq, SoundWrite
<1> QED BY <1>2, <1>3, <1>4, <1>5 DEF Start

\* A handler that goes on or ends. Only Unlink takes a file from the disk.
LEMMA SoundStep ==
    ASSUME IInv, Alone, NEW r \in Request, Step(r)
    PROVE  PicturesOnDisk' /\ Sound(r)' /\ Others(r) /\ req[r].pc # "idle"
<1>0. /\ Sound(r) /\ Stage(r) /\ Types /\ req[r].pc # "idle" /\ req[r] \in Req
      /\ Idle.pc = "idle" /\ Idle.new = {} /\ Idle.remove = {}
  BY DEF Alone, IInv, Types, Idle, Step, Invalid, FindOwnPortfolio, UpdatePortfolio, SetAvatar,
         CreatePortfolio, Unlink, At
<1>1. CASE Refuse(r)
  BY <1>0, <1>1, SoundRefuse
<1>2. CASE FindOwnPortfolio(r) /\ ~Refuse(r)
  <2> DEFINE doc  == Edited(r)
             held == [req[r] EXCEPT !.pc = "write", !.doc = doc, !.keep = {}, !.clear = FALSE]
  <2>1. /\ req[r].pc = "read" /\ req[r].project \in Project
        /\ Become(r, held) /\ UNCHANGED <<disk, project>>
    BY <1>0, <1>2 DEF FindOwnPortfolio, At, Stage
  <2>2. doc \in ProjectDoc /\ Own(doc) \subseteq req[r].new \union Own(project[req[r].project])
    BY <1>0, <2>1, EditedOwn
  <2>3. Own(doc) \subseteq disk
    BY <1>0, <2>1, <2>2, ShownOwn DEF Sound, Alone, PicturesOnDisk
  <2> HIDE DEF doc
  <2>4. held.new = req[r].new /\ held.remove = req[r].remove /\ held.doc = doc
    BY <1>0 DEF Req
  <2> HIDE DEF held
  <2>5. req'[r] = held /\ Others(r)
    BY <1>0, <2>1 DEF Types, Become, Others
  <2>6. PicturesOnDisk' /\ Shown' = Shown
    BY <2>1 DEF Alone, PicturesOnDisk, Shown
  <2> QED BY <1>0, <2>1, <2>3, <2>4, <2>5, <2>6 DEF Sound
<1>3. ASSUME NEW p \in Project, CreatePortfolio(r, p), ~Refuse(r)
      PROVE  PicturesOnDisk' /\ Sound(r)' /\ Others(r)
  <2> DEFINE doc == Uploaded(r, req[r].user)
  <2>1. /\ project' = [project EXCEPT ![p] = doc] /\ Become(r, Idle) /\ disk' = disk
        /\ req[r].user \in User /\ req[r].new \subseteq File
        /\ \A v, w \in req[r].new \intersect Video : v = w
    BY <1>0, <1>3 DEF CreatePortfolio, At, Stage, Req
  <2>2. doc \in ProjectDoc /\ Own(doc) = req[r].new
    BY <2>1, UploadedOwn
  <2> HIDE DEF doc
  <2>3. req'[r] = Idle /\ Others(r)
    BY <1>0, <2>1 DEF Types, Become, Others
  <2>4. Own(doc) \subseteq disk
    BY <1>0, <2>2 DEF Sound
  <2> QED BY <1>0, <2>1, <2>2, <2>3, <2>4, SoundWrite
<1>4. CASE UpdatePortfolio(r) /\ ~Refuse(r)
  <2> PICK p, doc, S : p = req[r].project /\ doc = req[r].doc /\ S = Own(project[p]) \ Own(doc)
    OBVIOUS
  <2>1. /\ req[r].pc = "write" /\ p \in Project /\ doc \in ProjectDoc
        /\ project' = [project EXCEPT ![p] = doc] /\ Removes(r, S) /\ disk' = disk
    BY <1>0, <1>4 DEF UpdatePortfolio, At, Stage, Req
  <2>2. S \in SUBSET File /\ Own(doc) \subseteq disk
    BY <1>0, <2>1, OwnFiles DEF Types, Sound
  <2>3. Others(r) /\ req'[r].new = {} /\ req'[r].remove = S /\ req'[r].pc # "write"
    BY <1>0, <2>1, <2>2, RemovesNext
  <2> QED BY <2>1, <2>2, <2>3, SoundWrite
<1>5. CASE SetAvatar(r)
  <2> PICK old, f : /\ old = avatar[req[r].user] /\ Removes(r, {old} \ {None, f})
                    /\ req[r].user \in User
    BY <1>0, <1>5 DEF SetAvatar, At, Stage
  <2> PICK S : S = {old} \ {None, f}
    OBVIOUS
  <2>1. UNCHANGED <<disk, project>> /\ S \in SUBSET File /\ Removes(r, S)
    BY <1>0, <1>5 DEF SetAvatar, Types, File
  <2>2. Others(r) /\ req'[r].new = {} /\ req'[r].remove = S /\ req'[r].pc # "write"
    BY <1>0, <2>1, RemovesNext
  <2>3. PicturesOnDisk' /\ Shown' = Shown
    BY <2>1 DEF Alone, PicturesOnDisk, Shown
  <2>4. old \notin Shown
    BY OneOwner DEF OthersKept
  <2> QED BY <1>0, <2>2, <2>3, <2>4 DEF Sound
<1>6. ASSUME NEW f \in File, NEW removed \in BOOLEAN, Unlink(r, f, removed)
      PROVE  PicturesOnDisk' /\ Sound(r)' /\ Others(r)
  <2> PICK S : S = req[r].remove \ {f}
    OBVIOUS
  <2>1. /\ f \in req[r].remove /\ project' = project /\ Removes(r, S) /\ S \in SUBSET File
        /\ disk \ {f} \subseteq disk'
    BY <1>0, <1>6 DEF Unlink, Req
  <2>2. Others(r) /\ req'[r].new = {} /\ req'[r].remove = S /\ req'[r].pc # "write"
    BY <1>0, <2>1, RemovesNext
  <2>3. f \notin Shown /\ Shown' = Shown
    BY <1>0, <2>1 DEF Sound, Shown
  <2>4. PicturesOnDisk'
    BY <2>1, <2>3 DEF Alone, PicturesOnDisk
  <2> QED BY <1>0, <2>2, <2>3, <2>4 DEF Sound
<1>7. CASE Invalid(r)
  BY <1>1, <1>7 DEF Invalid
<1> QED BY <1>0, <1>1, <1>2, <1>3, <1>4, <1>5, <1>6, <1>7 DEF Step

LEMMA AloneStep ==
    ASSUME IInv, Alone, [Next]_vars, Cardinality(Busy') <= 1 \/ UNCHANGED vars
    PROVE  Alone'
<1>1. ASSUME NEW r \in Request, NEW u \in User, Start(r, u), Cardinality(Busy') <= 1
      PROVE  Alone'
  <2>1. /\ PicturesOnDisk' /\ Sound(r)' /\ Others(r)
        /\ disk \subseteq disk' /\ Shown' \subseteq Shown
    BY <1>1, SoundStart
  <2>2. Busy' \subseteq Busy \union {r}
    BY <2>1 DEF Busy, At, Others
  <2>3. IsFiniteSet(Busy') /\ Single(Busy')
    BY <1>1, <2>2, FewerStill, AtMostOne DEF Alone
  <2>4. \A q \in Request \ {r} : Sound(q)'
    BY <2>1 DEF Alone, Sound, Others
  <2> QED BY <2>1, <2>3, <2>4 DEF Alone
<1>2. ASSUME NEW r \in Request, Step(r), Cardinality(Busy') <= 1
      PROVE  Alone'
  <2>1. PicturesOnDisk' /\ Sound(r)' /\ Others(r) /\ req[r].pc # "idle"
    BY <1>2, SoundStep
  <2>2. Busy' \subseteq Busy \union {r}
    BY <2>1 DEF Busy, At, Others
  <2>3. IsFiniteSet(Busy') /\ Single(Busy')
    BY <1>2, <2>2, FewerStill, AtMostOne DEF Alone
  <2>4. \A q \in Request \ {r} : req[q].pc = "idle"
    BY <2>1 DEF Alone, Single, Busy, At
  <2>5. \A q \in Request \ {r} : req'[q].pc = "idle" /\ req'[q].new = {} /\ req'[q].remove = {}
    BY <2>1, <2>4 DEF IInv, Stage, Others
  <2> QED BY <2>1, <2>3, <2>5 DEF Alone, Sound
<1>3. CASE Stop
  <2>1. /\ \A r \in Request : req'[r] = Idle
        /\ UNCHANGED <<disk, project>>
    BY <1>3 DEF Stop
  <2>2. Idle.pc = "idle" /\ Idle.new = {} /\ Idle.remove = {}
    BY DEF Idle
  <2>3. Busy' = {} /\ PicturesOnDisk'
    BY <2>1, <2>2 DEF Busy, At, Alone, PicturesOnDisk, Shown
  <2> QED BY <2>1, <2>2, <2>3, FS_EmptySet DEF Alone, Single, Sound
<1>4. CASE (\E f \in File : UploadFile(f)) \/ UNCHANGED vars
  <2>1. UNCHANGED <<req, project>> /\ disk \subseteq disk'
    BY <1>4 DEF UploadFile, Store, vars
  <2>2. Busy' = Busy /\ Shown' = Shown
    BY <2>1 DEF Busy, At, Shown
  <2> QED BY <2>1, <2>2 DEF Alone, Sound, PicturesOnDisk
<1> QED BY <1>1, <1>2, <1>3, <1>4 DEF Next

(* The files with one handler at a time, stops included, and no other bound. *)
OneByOne == Init /\ [][Next /\ Cardinality(Busy') <= 1]_vars

LEMMA AloneInit == Init => IInv /\ Alone
<1> SUFFICES ASSUME Init
             PROVE  IInv /\ Alone
  OBVIOUS
<1>1. IInv /\ Busy = {} /\ Shown = {} /\ \A r \in Request : req[r] = Idle
  BY InitIInv, IdleReq DEF Init, Busy, At, Idle, Shown
<1>2. Idle.pc = "idle" /\ Idle.new = {} /\ Idle.remove = {}
  BY DEF Idle
<1> QED BY <1>1, <1>2, FS_EmptySet DEF Alone, Single, Sound, PicturesOnDisk

\* The invariant of both kinds of behaviour.
Watched == IInv /\ (solo => Alone)

LEMMA WatchedInit ==
    ASSUME MCInit
    PROVE  Watched
BY AloneInit DEF MCInit, Watched

LEMMA WatchedStep ==
    ASSUME Watched, [MCNext]_<<vars, solo>>
    PROVE  Watched'
<1>1. [Next]_vars /\ solo' = solo
  BY DEF MCNext
<1>2. solo => Cardinality(Busy') <= 1 \/ UNCHANGED vars
  BY DEF MCNext
<1> QED BY <1>1, <1>2, Inductive, AloneStep DEF Watched

(* Every picture and video that a project names is on disk, as long as no    *)
(* two handlers overlap: FindOwnPortfolio keeps only pictures the project    *)
(* names, and what an edit removes belongs to no other project.              *)
THEOREM PicturesSolo == (OneByOne => []PicturesOnDisk) /\ (MCSpec => []PicturesOnDiskSolo)
<1>1. Alone => PicturesOnDisk
  BY DEF Alone
<1>2. IInv /\ Alone /\ [Next /\ Cardinality(Busy') <= 1]_vars => IInv' /\ Alone'
  BY Inductive, AloneStep
<1>3. OneByOne => []PicturesOnDisk
  BY AloneInit, <1>1, <1>2, PTL DEF OneByOne
<1>4. Watched => PicturesOnDiskSolo
  BY <1>1 DEF Watched, PicturesOnDiskSolo
<1>5. MCSpec => []PicturesOnDiskSolo
  BY WatchedInit, WatchedStep, <1>4, PTL DEF MCSpec
<1> QED BY <1>3, <1>5
=============================================================================
