--------------------------------- MODULE Files ---------------------------------
(* Uploaded files and what names them: the projects of the portfolio         *)
(* (PortfolioService), the avatars (UserService) and the attachments of the  *)
(* chat. multer stores the files of a request before anything else looks at  *)
(* it; the document is written next, and the files it no longer names are    *)
(* removed last, one unlink each.                                            *)
EXTENDS FiniteSets, Naturals

CONSTANTS User, Project, None,
          Picture, Video,   \* the random names given to uploads
          Request,          \* the handlers in flight at once
          MAX_PORTFOLIO_IMAGES,
          MaxStops          \* how many times the process stops

File == Picture \union Video

ASSUME FilesAssumption ==
    /\ None \notin File \union Project \union User
    /\ IsFiniteSet(Picture)
    /\ Picture \intersect Video = {}
    /\ MAX_PORTFOLIO_IMAGES \in Nat \ {0}
    /\ MaxStops \in Nat

VARIABLES disk,      \* the files under UPLOADS_ROOT
          used,      \* the names given so far
          project,   \* the projects
          avatar,    \* the avatar of each user
          chat,      \* the files uploaded for the chat
          left,      \* files of refused requests, failed unlinks and stops
          req,       \* the handlers in flight
          stops

vars == <<disk, used, project, avatar, chat, left, req, stops>>

ProjectDoc == [owner  : User \union {None},   \* None: not stored
               images : SUBSET Picture,
               video  : Video \union {None}]

NoProject == [owner |-> None, images |-> {}, video |-> None]

Live(p)  == project[p].owner # None
Own(doc) == doc.images \union ({doc.video} \ {None})

\* What the documents name.
Shown == UNION {Own(project[p]) : p \in Project}
Named == Shown \union ({avatar[u] : u \in User} \ {None})

Req == [pc      : {"idle", "create", "read", "write", "avatar", "unlink"},
        user    : User \union {None},
        project : Project \union {None},
        new     : SUBSET File,          \* what multer stored
        keep    : SUBSET Picture,       \* dto.photos
        clear   : BOOLEAN,              \* dto.video === ''
        doc     : ProjectDoc,           \* the project as it is to be written
        remove  : SUBSET File]          \* what is left to unlink

Idle == [pc |-> "idle", user |-> None, project |-> None, new |-> {}, keep |-> {},
         clear |-> FALSE, doc |-> NoProject, remove |-> {}]

TypeOK ==
    /\ disk    \in SUBSET File
    /\ used    \in SUBSET File
    /\ project \in [Project -> ProjectDoc]
    /\ avatar  \in [User -> Picture \union {None}]
    /\ chat    \in SUBSET File
    /\ left    \in SUBSET File
    /\ req     \in [Request -> Req]
    /\ stops   \in 0..MaxStops

Init ==
    /\ disk = {} /\ used = {} /\ chat = {} /\ left = {}
    /\ project = [p \in Project |-> NoProject]
    /\ avatar  = [u \in User |-> None]
    /\ req     = [r \in Request |-> Idle]
    /\ stops   = 0

At(r, s)        == req[r].pc = s
Become(r, next) == req' = [req EXCEPT ![r] = next]

(***************************************************************************)
(* multer: every accepted file gets a fresh random name and is on disk     *)
(* before the request is validated. A file of another type refuses the     *)
(* whole request and stores nothing.                                       *)
(***************************************************************************)
Store(S) ==
    /\ S \subseteq File \ used
    /\ disk' = disk \union S
    /\ used' = used \union S

PortfolioFiles == {S \in SUBSET (File \ used) :
                     /\ Cardinality(S \intersect Picture) <= MAX_PORTFOLIO_IMAGES
                     /\ \A v, w \in S \intersect Video : v = w}

UploadNew(r, u, S) ==
    /\ At(r, "idle")
    /\ Store(S)
    /\ Become(r, [Idle EXCEPT !.pc = "create", !.user = u, !.new = S])
    /\ UNCHANGED <<project, avatar, chat, left, stops>>

UploadEdit(r, u, p, S, keep, clear) ==
    /\ At(r, "idle")
    /\ Store(S)
    /\ Become(r, [Idle EXCEPT !.pc = "read", !.user = u, !.project = p, !.new = S,
                              !.keep = keep, !.clear = clear])
    /\ UNCHANGED <<project, avatar, chat, left, stops>>

UploadAvatar(r, u, f) ==
    /\ At(r, "idle")
    /\ Store({f})
    /\ Become(r, [Idle EXCEPT !.pc = "avatar", !.user = u, !.new = {f}])
    /\ UNCHANGED <<project, avatar, chat, left, stops>>

\* uploadFile: a message may name the link; deleting the message keeps the file.
UploadFile(f) ==
    /\ Store({f})
    /\ chat' = chat \union {f}
    /\ UNCHANGED <<project, avatar, left, req, stops>>

\* A refused request does not remove what multer stored for it.
Refuse(r) ==
    /\ left' = left \union req[r].new
    /\ Become(r, Idle)
    /\ UNCHANGED <<disk, used, project, avatar, chat, stops>>

\* The fields of the form fail their validation.
Invalid(r) ==
    /\ req[r].pc \in {"create", "read"}
    /\ Refuse(r)

(***************************************************************************)
(* PortfolioService                                                        *)
(***************************************************************************)
Uploaded(r, u) ==
    [owner |-> u, images |-> req[r].new \intersect Picture,
     video |-> CHOOSE v \in Video \union {None} :
                 IF req[r].new \intersect Video = {} THEN v = None ELSE v \in req[r].new]

\* An id is new: no request in flight can name it already.
CreatePortfolio(r, p) ==
    LET doc == Uploaded(r, req[r].user)
    IN  /\ At(r, "create")
        /\ ~Live(p)
        /\ \A q \in Request : req[q].project # p
        /\ IF doc.images = {} THEN Refuse(r)
           ELSE /\ project' = [project EXCEPT ![p] = doc]
                /\ Become(r, Idle)
                /\ UNCHANGED <<disk, used, avatar, chat, left, stops>>

\* The project as the edit will write it: pictures kept from the project as it
\* was read, and the new ones.
EditedAny(r) ==   \* mistake: photos may name any file
    [Uploaded(r, req[r].user) EXCEPT !.images = @ \union req[r].keep]

Edited(r) ==
    LET stored == project[req[r].project]
        new    == Uploaded(r, stored.owner)
    IN  [new EXCEPT !.images = @ \union (req[r].keep \intersect stored.images),
                    !.video  = IF @ # None THEN @ ELSE IF req[r].clear THEN None
                                                  ELSE stored.video]

FindOwnPortfolio(r) ==
    LET doc == Edited(r)
    IN  /\ At(r, "read")
        /\ IF \/ project[req[r].project].owner # req[r].user
              \/ doc.images = {}
              \/ Cardinality(doc.images) > MAX_PORTFOLIO_IMAGES
           THEN Refuse(r)
           ELSE /\ Become(r, [req[r] EXCEPT !.pc = "write", !.doc = doc,
                                                !.keep = {}, !.clear = FALSE])
                /\ UNCHANGED <<disk, used, project, avatar, chat, left, stops>>

\* The handler goes on to remove these files, if there are any.
Removes(r, S) ==
    Become(r, IF S = {} THEN Idle ELSE [Idle EXCEPT !.pc = "unlink", !.remove = S])

\* findOneAndUpdate returns the document it replaces.
UpdateRemovesNothing(r) ==   \* mistake: the files replaced are forgotten
    LET p == req[r].project
    IN  /\ At(r, "write")
        /\ IF ~Live(p) THEN Refuse(r)
           ELSE /\ project' = [project EXCEPT ![p] = req[r].doc]
                /\ Become(r, Idle)
                /\ UNCHANGED <<disk, used, avatar, chat, left, stops>>

UpdateRemovesAll(r) ==   \* mistake: what is kept is removed too
    LET p == req[r].project
    IN  /\ At(r, "write")
        /\ IF ~Live(p) THEN Refuse(r)
           ELSE /\ project' = [project EXCEPT ![p] = req[r].doc]
                /\ Removes(r, Own(project[p]))
                /\ UNCHANGED <<disk, used, avatar, chat, left, stops>>

UpdatePortfolio(r) ==
    LET p == req[r].project
    IN  /\ At(r, "write")
        /\ IF ~Live(p) THEN Refuse(r)
           ELSE /\ project' = [project EXCEPT ![p] = req[r].doc]
                /\ Removes(r, Own(project[p]) \ Own(req[r].doc))
                /\ UNCHANGED <<disk, used, avatar, chat, left, stops>>

DeletePortfolio(r, u, p) ==
    /\ At(r, "idle")
    /\ project[p].owner = u
    /\ project' = [project EXCEPT ![p] = NoProject]
    /\ Removes(r, Own(project[p]))
    /\ UNCHANGED <<disk, used, avatar, chat, left, stops>>

(***************************************************************************)
(* UserService.setAvatar and removeUploads                                 *)
(***************************************************************************)
SetAvatar(r) ==
    /\ At(r, "avatar")
    /\ \E f \in req[r].new :
          /\ avatar' = [avatar EXCEPT ![req[r].user] = f]
          /\ Removes(r, {avatar[req[r].user]} \ {None, f})
    /\ UNCHANGED <<disk, used, project, chat, left, stops>>

\* A file that is not there is no error; any other failure is only logged.
Unlink(r, f, removed) ==
    /\ At(r, "unlink")
    /\ f \in req[r].remove
    /\ disk' = IF removed THEN disk \ {f} ELSE disk
    /\ left' = IF removed THEN left ELSE left \union {f}
    /\ Removes(r, req[r].remove \ {f})
    /\ UNCHANGED <<used, project, avatar, chat, stops>>

\* What a handler still has in its hands.
Held(r) == req[r].new \union req[r].remove

Stop ==
    /\ stops < MaxStops
    /\ stops' = stops + 1
    /\ left' = left \union UNION {Held(r) : r \in Request}
    /\ req' = [r \in Request |-> Idle]
    /\ UNCHANGED <<disk, used, project, avatar, chat>>

(***************************************************************************)
(* The specification                                                       *)
(***************************************************************************)
Start(r, u) ==
    \/ \E S \in PortfolioFiles :
          \/ UploadNew(r, u, S)
          \/ \E p \in Project : \E keep \in SUBSET used : \E clear \in BOOLEAN :
                keep \subseteq Picture /\ UploadEdit(r, u, p, S, keep, clear)
    \/ \E p \in Project : DeletePortfolio(r, u, p)
    \/ \E f \in Picture : UploadAvatar(r, u, f)

Step(r) ==
    \/ Invalid(r) \/ FindOwnPortfolio(r) \/ UpdatePortfolio(r) \/ SetAvatar(r)
    \/ \E p \in Project : CreatePortfolio(r, p)
    \/ \E f \in File : \E removed \in BOOLEAN : Unlink(r, f, removed)

Next ==
    \/ \E r \in Request : Step(r) \/ \E u \in User : Start(r, u)
    \/ \E f \in File : UploadFile(f)
    \/ Stop

Spec == Init /\ [][Next]_vars

(***************************************************************************)
(* Properties                                                              *)
(***************************************************************************)
(* No edit of a project, however it overlaps with others, removes a file   *)
(* that is not that project's own: avatars and attachments stay on disk,   *)
(* and no file has two owners.                                             *)
OthersKept ==
    /\ chat \subseteq disk
    /\ \A u \in User : avatar[u] = None \/ avatar[u] \in disk \ chat
    /\ \A u, v \in User : u # v => avatar[u] # avatar[v] \/ avatar[u] = None
    /\ \A u \in User : avatar[u] \notin Shown
    /\ chat \intersect Shown = {}
    /\ \A p, q \in Project : p # q => Own(project[p]) \intersect Own(project[q]) = {}

(* The README: replacing an avatar, editing and deleting a project clean   *)
(* up. A file that nothing names is in the hands of a handler, or was left *)
(* by a refused request, a failed unlink or a stop.                        *)
NoOrphans ==
    disk \ (Named \union chat \union left) \subseteq UNION {Held(r) : r \in Request}

(* Every file that a project names can be opened.                          *)
PicturesOnDisk == Shown \subseteq disk
=============================================================================
