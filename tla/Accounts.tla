------------------------------ MODULE Accounts -------------------------------
(* The codes and the password of one account (AuthService). A guess of a     *)
(* code takes four queries: the account is read and the code compared, a     *)
(* lock that is over is lifted, the attempt is spent, and a right code       *)
(* clears the counter. A change to the account is saved into what other      *)
(* handlers left there meanwhile. Time is counted in ticks.                  *)
EXTENDS Naturals

CONSTANTS Code, Password, None, Request,
          Ops,            \* the operations this instance calls
          MaxAttempts,    \* CODE_MAX_ATTEMPTS
          LockTime,       \* CODE_LOCK_MS
          CodeTime,       \* RESET_CODE_TTL_MS
          Cooldown,       \* RESEND_COOLDOWN_MS
          Patience,       \* a handler is in flight no longer than this
          MaxTime         \* the end of the observation

Kind == {"verify", "reset"}   \* CodeKind
Goal == Kind \union {"check"}

ASSUME AccountsAssumption ==
    /\ None \notin Code \union Password \union Nat
    /\ MaxAttempts \in Nat \ {0}
    /\ LockTime \in Nat /\ CodeTime \in Nat /\ Cooldown \in Nat
    /\ Patience \in Nat /\ MaxTime \in Nat
    /\ Patience < LockTime

VARIABLES clock,
          attempts, lockedUntil,                \* of each kind of code
          verified, token, resetCode, expires,  \* the codes
          sentAt,                               \* code_sent_at
          password, legacy,                     \* hashed with few iterations
          wrong, resets,                        \* what has been answered, see below
          req

counters == <<attempts, lockedUntil, wrong>>
codes    == <<verified, token, resetCode, expires, sentAt, resets>>
secret   == <<password, legacy>>
vars     == <<clock, counters, codes, secret, req>>

Times == 0..(MaxTime + LockTime + CodeTime)

Req == [pc      : {"idle", "unlock", "spend", "clear", "verify", "reset",
                   "saveToken", "saveCode", "rehash", "change"},
        kind    : Kind,
        goal    : Goal,
        correct : BOOLEAN,                   \* the code as read is the one entered
        code    : Code \union {None},        \* the code to be sent
        secret  : Password \union {None},    \* the password to be saved
        now     : 0..MaxTime]                \* when the handler started

Idle == [pc |-> "idle", kind |-> "verify", goal |-> "check", correct |-> FALSE,
         code |-> None, secret |-> None, now |-> 0]

TypeOK ==
    /\ clock       \in 0..MaxTime
    /\ attempts    \in [Kind -> 0..MaxAttempts]
    /\ lockedUntil \in [Kind -> Times \union {None}]
    /\ wrong       \in [Kind -> Nat]
    /\ verified    \in BOOLEAN
    /\ token       \in Code \union {None}
    /\ resetCode   \in Code \union {None}
    /\ expires     \in Times \union {None}
    /\ sentAt      \in 0..MaxTime \union {None}
    /\ password    \in Password
    /\ legacy      \in BOOLEAN
    /\ resets      \in Nat
    /\ req         \in [Request -> Req]

(* A registered account, or one of an earlier version: a counter without a  *)
(* lock, a password hashed with few iterations.                             *)
Init ==
    /\ clock = 0
    /\ attempts \in [Kind -> {0, MaxAttempts}]
    /\ lockedUntil = [k \in Kind |-> None]
    /\ wrong = [k \in Kind |-> 0]
    /\ verified = FALSE
    /\ token \in Code
    /\ resetCode = None /\ expires = None /\ resets = 0
    /\ sentAt = 0
    /\ password \in Password
    /\ legacy \in BOOLEAN
    /\ req = [r \in Request |-> Idle]

At(r, s)  == req[r].pc = s
Finish(r) == req' = [req EXCEPT ![r] = Idle]
Goto(r, s) == req' = [req EXCEPT ![r].pc = s]

Begin(r, op, start) ==
    /\ op \in Ops
    /\ At(r, "idle")
    /\ req' = [req EXCEPT ![r] = [start EXCEPT !.now = clock]]
    /\ UNCHANGED <<clock, counters, codes, secret>>

(***************************************************************************)
(* Entering a code                                                         *)
(***************************************************************************)
Guess(kind, goal, correct, p) ==
    [Idle EXCEPT !.pc = "unlock", !.kind = kind, !.goal = goal, !.correct = correct, !.secret = p]

VerifyUser(r, c) ==
    /\ ~verified
    /\ token # None
    /\ Begin(r, "verify", Guess("verify", "verify", c = token, None))

\* findUserByResetCode, on the way to a check or to a new password.
EnterResetCode(r, c, goal, p) ==
    /\ resetCode # None
    /\ clock <= expires
    /\ Begin(r, "reset", Guess("reset", goal, c = resetCode, p))

LockOver(k, now) ==
    \/ lockedUntil[k] # None /\ lockedUntil[k] <= now
    \/ lockedUntil[k] = None /\ attempts[k] >= MaxAttempts

UnlockAlways(r) ==   \* mistake: the counter starts anew without the end of a lock
    LET k == req[r].kind
    IN  /\ At(r, "unlock")
        /\ attempts'    = [attempts EXCEPT ![k] = 0]
        /\ lockedUntil' = [lockedUntil EXCEPT ![k] = None]
        /\ UNCHANGED <<clock, wrong, codes, secret>>
        /\ Goto(r, "spend")

Unlock(r) ==
    LET k == req[r].kind
    IN  /\ At(r, "unlock")
        /\ IF LockOver(k, req[r].now)
           THEN /\ attempts'    = [attempts EXCEPT ![k] = 0]
                /\ lockedUntil' = [lockedUntil EXCEPT ![k] = None]
                /\ wrong'       = [wrong EXCEPT ![k] = 0]
           ELSE UNCHANGED counters
        /\ Goto(r, "spend")
        /\ UNCHANGED <<clock, codes, secret>>

SpendUnlocked(r) ==   \* mistake: the last attempt sets no lock
    LET k == req[r].kind
    IN  /\ At(r, "spend")
        /\ IF attempts[k] >= MaxAttempts THEN Finish(r) /\ UNCHANGED counters
           ELSE /\ attempts' = [attempts EXCEPT ![k] = @ + 1]
                /\ wrong' = [wrong EXCEPT ![k] = IF req[r].correct THEN @ ELSE @ + 1]
                /\ IF req[r].correct THEN Goto(r, "clear") ELSE Finish(r)
                /\ UNCHANGED lockedUntil
        /\ UNCHANGED <<clock, codes, secret>>

\* wrong counts the wrong codes that were answered since the counter started.
Spend(r) ==
    LET k == req[r].kind
    IN  /\ At(r, "spend")
        /\ IF attempts[k] >= MaxAttempts THEN Finish(r) /\ UNCHANGED counters
           ELSE /\ attempts' = [attempts EXCEPT ![k] = @ + 1]
                /\ lockedUntil' = [lockedUntil EXCEPT ![k] =
                     IF attempts[k] + 1 >= MaxAttempts THEN req[r].now + LockTime ELSE None]
                /\ wrong' = [wrong EXCEPT ![k] = IF req[r].correct THEN @ ELSE @ + 1]
                /\ IF req[r].correct THEN Goto(r, "clear") ELSE Finish(r)
        /\ UNCHANGED <<clock, codes, secret>>

Clear(r) ==
    LET k == req[r].kind
    IN  /\ At(r, "clear")
        /\ attempts'    = [attempts EXCEPT ![k] = 0]
        /\ lockedUntil' = [lockedUntil EXCEPT ![k] = None]
        /\ wrong'       = [wrong EXCEPT ![k] = 0]
        /\ IF req[r].goal = "check" THEN Finish(r) ELSE Goto(r, req[r].goal)
        /\ UNCHANGED <<clock, codes, secret>>

SaveVerified(r) ==
    /\ At(r, "verify")
    /\ verified' = TRUE
    /\ token' = None
    /\ Finish(r)
    /\ UNCHANGED <<clock, counters, resetCode, expires, sentAt, resets, secret>>

SaveResetAgain(r) ==   \* mistake: the code stays
    /\ At(r, "reset")
    /\ verified' = TRUE /\ token' = None
    /\ resets' = resets + 1
    /\ password' = req[r].secret /\ legacy' = FALSE
    /\ Finish(r)
    /\ UNCHANGED <<clock, counters, resetCode, expires, sentAt>>

\* resets counts the passwords set with the code that was sent last.
SaveReset(r) ==
    /\ At(r, "reset")
    /\ verified' = TRUE /\ token' = None
    /\ resetCode' = None /\ expires' = None
    /\ resets' = resets + 1
    /\ password' = req[r].secret /\ legacy' = FALSE
    /\ Finish(r)
    /\ UNCHANGED <<clock, counters, sentAt>>

(***************************************************************************)
(* Sending a code                                                          *)
(***************************************************************************)
InCooldown == sentAt # None /\ clock - sentAt < Cooldown

Resend(r, c) ==
    /\ ~verified
    /\ ~InCooldown
    /\ Begin(r, "resend", [Idle EXCEPT !.pc = "saveToken", !.code = c])

RequestReset(r, c) ==
    /\ ~InCooldown
    /\ Begin(r, "request", [Idle EXCEPT !.pc = "saveCode", !.code = c])

SaveTokenUnlocks(r) ==   \* mistake: a new code lifts the lock
    /\ At(r, "saveToken")
    /\ token' = req[r].code
    /\ sentAt' = req[r].now
    /\ attempts' = [attempts EXCEPT !["verify"] = 0]
    /\ lockedUntil' = [lockedUntil EXCEPT !["verify"] = None]
    /\ Finish(r)
    /\ UNCHANGED <<clock, wrong, verified, resetCode, expires, resets, secret>>

SaveToken(r) ==
    /\ At(r, "saveToken")
    /\ token' = req[r].code
    /\ sentAt' = req[r].now
    /\ Finish(r)
    /\ UNCHANGED <<clock, counters, verified, resetCode, expires, resets, secret>>

SaveCode(r) ==
    /\ At(r, "saveCode")
    /\ resetCode' = req[r].code
    /\ expires' = req[r].now + CodeTime
    /\ sentAt' = req[r].now
    /\ resets' = 0
    /\ Finish(r)
    /\ UNCHANGED <<clock, counters, verified, token, secret>>

(***************************************************************************)
(* The password                                                            *)
(***************************************************************************)
LoginUnchecked(r, p) ==   \* mistake: the password is not compared
    /\ legacy
    /\ Begin(r, "login", [Idle EXCEPT !.pc = "rehash", !.secret = p])

\* loginUser changes the account only when its password is hashed anew.
Login(r, p) ==
    /\ p = password
    /\ legacy
    /\ Begin(r, "login", [Idle EXCEPT !.pc = "rehash", !.secret = p])

Rehash(r) ==
    /\ At(r, "rehash")
    /\ password' = req[r].secret /\ legacy' = FALSE
    /\ Finish(r)
    /\ UNCHANGED <<clock, counters, codes>>

ChangePassword(r, p, new) ==
    /\ p = password
    /\ Begin(r, "change", [Idle EXCEPT !.pc = "change", !.secret = new])

SavePassword(r) ==
    /\ At(r, "change")
    /\ password' = req[r].secret /\ legacy' = FALSE
    /\ Finish(r)
    /\ UNCHANGED <<clock, counters, codes>>

(***************************************************************************)
(* The specification                                                       *)
(***************************************************************************)
Tick ==
    /\ clock < MaxTime
    /\ \A r \in Request : At(r, "idle") \/ clock < req[r].now + Patience
    /\ clock' = clock + 1
    /\ UNCHANGED <<counters, codes, secret, req>>

Crash ==
    /\ "crash" \in Ops
    /\ \E r \in Request : ~At(r, "idle")
    /\ req' = [r \in Request |-> Idle]
    /\ UNCHANGED <<clock, counters, codes, secret>>

Start(r) ==
    \/ \E c \in Code :
          \/ VerifyUser(r, c) \/ Resend(r, c) \/ RequestReset(r, c)
          \/ EnterResetCode(r, c, "check", None)
          \/ \E p \in Password : EnterResetCode(r, c, "reset", p)
    \/ \E p \in Password : Login(r, p) \/ \E new \in Password : ChangePassword(r, p, new)

Step(r) ==
    \/ Unlock(r) \/ Spend(r) \/ Clear(r)
    \/ SaveVerified(r) \/ SaveReset(r) \/ SaveToken(r) \/ SaveCode(r)
    \/ Rehash(r) \/ SavePassword(r)

Serve == (\E r \in Request : Start(r) \/ Step(r)) \/ Tick

Next == Serve \/ Crash

Spec == Init /\ [][Next]_vars

(***************************************************************************)
(* What holds under every interleaving                                     *)
(***************************************************************************)

(* However many guesses are entered at once, no more wrong codes than the   *)
(* limit are answered between two locks.                                    *)
GuessLimit == \A k \in Kind : wrong[k] <= MaxAttempts

(* A lock lasts its time: neither a new code nor a guess that came before   *)
(* or after lifts it, only a right code does.                               *)
LockLasts == [][\A k \in Kind :
    lockedUntil[k] # None /\ lockedUntil'[k] # lockedUntil[k] =>
      \/ lockedUntil[k] <= clock
      \/ \E r \in Request : At(r, "clear") /\ req[r].kind = k]_vars

(* Nobody is refused for good: where an attempt is refused a lock runs that *)
(* will end after the handler started, whatever the account was before.     *)
RefusedWhileLocked == \A r \in Request : LET k == req[r].kind IN
    At(r, "spend") /\ attempts[k] >= MaxAttempts =>
      lockedUntil[k] # None /\ lockedUntil[k] > req[r].now

Counters == \A k \in Kind :
    /\ wrong[k] <= attempts[k]
    /\ lockedUntil[k] # None => attempts[k] = MaxAttempts

(* A handler is not in flight for long.                                     *)
InTime == \A r \in Request :
    ~At(r, "idle") => req[r].now <= clock /\ clock <= req[r].now + Patience

(* A handler on its way to save a password has one.                         *)
Carried == \A r \in Request :
    \/ req[r].pc \in {"reset", "rehash", "change"}
    \/ req[r].pc \in {"unlock", "spend", "clear"} /\ req[r].goal = "reset"
    => req[r].secret \in Password

(* The inductive invariant.                                                 *)
IInv == TypeOK /\ Counters /\ InTime /\ RefusedWhileLocked /\ Carried

(***************************************************************************)
(* What holds when handlers do not overlap                                 *)
(***************************************************************************)

(* A code sets one password.                                                *)
ResetOnce == resets <= 1

(* Letters with codes are a pause apart.                                    *)
LettersApart == sentAt # None /\ sentAt' # sentAt => sentAt' >= sentAt + Cooldown

(* A login never changes the password, however it is hashed.                *)
RehashKept  == \A r \in Request : At(r, "rehash") /\ ~At(r, "rehash")' => password' = password
RehashKeeps == [][RehashKept]_vars
=============================================================================
