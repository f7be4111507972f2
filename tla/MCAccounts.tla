----------------------------- MODULE MCAccounts ------------------------------
(* Accounts for TLC. In a behaviour either handlers that enter and send      *)
(* codes overlap and the process may stop, or one handler runs at a time and *)
(* passwords are used and changed too.                                       *)
EXTENDS Accounts, FiniteSets, TLC

VARIABLE solo

MCInit == Init /\ solo \in BOOLEAN

Busy == {r \in Request : ~At(r, "idle")}

\* With handlers at once, guesses and new codes only.
Guessing == \A r \in Request : req'[r].pc \notin {"rehash", "change"}

MCNext == /\ UNCHANGED solo
          /\ \/ solo  /\ Serve /\ Cardinality(Busy') <= 1
             \/ ~solo /\ Next  /\ ("crash" \in Ops => Guessing)

MCSpec == MCInit /\ [][MCNext]_<<vars, solo>>

(* A code sets one password, when handlers do not overlap.                  *)
SoloReset == solo => ResetOnce

(* When they do not, a login leaves the password as it is, and letters with *)
(* codes are a pause apart.                                                 *)
SoloSaves == [][solo => RehashKept /\ LettersApart]_vars

AllOps      == {"verify", "reset", "resend", "request", "login", "change", "crash"}
PasswordOps == {"login", "change"}

Symmetry == Permutations(Request) \union Permutations(Code) \union Permutations(Password)
=============================================================================
