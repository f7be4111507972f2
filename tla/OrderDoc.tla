------------------------------ MODULE OrderDoc ------------------------------
(* The order document (order.schema.ts) and the pure functions the code      *)
(* applies to it: what is listed, why an order cannot be assigned, how the   *)
(* location is normalised, which fields a save writes. The database queries  *)
(* that guard the writes are predicates on one stored document.              *)
EXTENDS Naturals

CONSTANTS User,       \* the accounts
          City,       \* the cities an onsite order can name
          None,       \* the value of a field that does not exist
          Null        \* a JSON null: @IsOptional() lets one through

ASSUME OrderDocAssumption ==
    /\ None \notin User
    /\ None \notin City
    /\ Null \notin BOOLEAN

Statuses     == {"active", "pending", "review", "completed", "cancelled"}
DealStatuses == {"pending", "review"}
Formats      == {"remote", "onsite"}
ActiveValues == BOOLEAN \union {Null}

Doc == [user_id     : User \union {None},
        status      : Statuses,
        draft       : BOOLEAN,
        is_active   : ActiveValues,
        performer   : User \union {None},
        work_format : Formats,
        city        : City \union {None}]

(* A document as the schema's defaults leave it. *)
Blank == [user_id     |-> None,
          status      |-> "active",
          draft       |-> FALSE,
          is_active   |-> TRUE,
          performer   |-> None,
          work_format |-> "remote",
          city        |-> None]

(***************************************************************************)
(* Predicates of the service                                               *)
(***************************************************************************)
IsListed(d) == d.status = "active" /\ ~d.draft /\ d.is_active # FALSE

(* assignRefusal returns null. The flag is tested for truth here, and for    *)
(* "not false" everywhere else.                                              *)
Assignable(d) == /\ d.status = "active"
                 /\ ~d.draft
                 /\ d.is_active = TRUE
                 /\ d.performer = None

(* normalizeLocation: a remote order has no city; an onsite order leaves the *)
(* drafts only with one.                                                     *)
Normalized(d) == IF d.work_format = "onsite" THEN d ELSE [d EXCEPT !.city = None]
Placeable(d)  == d.work_format = "onsite" /\ ~d.draft => d.city # None

(***************************************************************************)
(* Query conditions                                                        *)
(***************************************************************************)
Seeking(d)  == d.status = "active" /\ d.performer = None
Counted(d)  == ~d.draft

InFeed(d) == /\ ~d.draft
             /\ d.is_active # FALSE
             /\ d.performer = None
             /\ d.status \notin {"completed", "cancelled"}

(***************************************************************************)
(* A save: mongoose writes the paths that differ from the document as read *)
(* and leaves the others as they are stored now.                           *)
(***************************************************************************)
Republished(read, edit) == \/ edit.draft # read.draft
                           \/ edit.is_active # read.is_active

SaveWithoutCity(stored, read, edit) ==   \* mistake: the city is not among the written fields
    [stored EXCEPT !.draft = edit.draft, !.is_active = edit.is_active,
                   !.work_format = edit.work_format]

SaveChanges(stored, read, edit) ==
    LET Field(old, new, now) == IF new # old THEN new ELSE now
    IN  [stored EXCEPT
           !.draft       = Field(read.draft, edit.draft, @),
           !.is_active   = Field(read.is_active, edit.is_active, @),
           !.work_format = Field(read.work_format, edit.work_format, @),
           !.city        = Field(read.city, edit.city, @)]
=============================================================================
