------------------------------- MODULE MCFiles -------------------------------
(* Files for TLC. In half of the behaviours the handlers do not overlap;     *)
(* the names of the files are interchangeable. A second project lives where *)
(* they do not.                                                              *)
EXTENDS Files, TLC

CONSTANTS MaxChat,   \* the attachments uploaded
          Second     \* the project left out where handlers overlap

VARIABLE solo

Busy == {r \in Request : ~At(r, "idle")}

MCInit == Init /\ solo \in BOOLEAN

MCNext ==
    /\ Next
    /\ UNCHANGED solo
    /\ solo => Cardinality(Busy') <= 1
    /\ ~solo => /\ project'[Second] = NoProject
                /\ \A r \in Request : req'[r].project # Second
    /\ Cardinality(chat') <= MaxChat
    /\ stops' # stops => solo

MCSpec == MCInit /\ [][MCNext]_<<vars, solo>>

(* Every picture and video that a project names is on disk, as long as no  *)
(* two handlers overlap. Two overlapping edits of one project break it: the *)
(* second keeps a picture that the first has just removed.                  *)
PicturesOnDiskSolo == solo => PicturesOnDisk

Names == Permutations(Picture) \union Permutations(Request) \union Permutations(User)
=============================================================================
