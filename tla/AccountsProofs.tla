--------------------------- MODULE AccountsProofs ----------------------------
(* The codes and the password of an account, for every number of handlers    *)
(* and attempts and all times in which a handler ends before a lock does.    *)
EXTENDS MCAccounts, Counting

LEMMA IdleReq == Idle \in Req /\ Idle.pc = "idle" /\ Idle.goal = "check"
BY AccountsAssumption DEF Idle, Req, Kind, Goal

LEMMA InitIInv == Init => IInv
<1> SUFFICES ASSUME Init PROVE IInv
  OBVIOUS
<1> USE AccountsAssumption DEF Init
<1>1. TypeOK
  <2>1. 0 \in 0..MaxTime /\ {0, MaxAttempts} \subseteq 0..MaxAttempts
    OBVIOUS
  <2>2. /\ attempts \in [Kind -> 0..MaxAttempts]
        /\ lockedUntil \in [Kind -> Times \union {None}]
        /\ wrong \in [Kind -> Nat]
    BY <2>1
  <2>3. verified \in BOOLEAN /\ legacy \in BOOLEAN
    OBVIOUS
  <2> QED BY <2>1, <2>2, <2>3, IdleReq DEF TypeOK
<1>2. Counters
  BY DEF Counters
<1>3. InTime /\ RefusedWhileLocked /\ Carried
  BY IdleReq DEF InTime, RefusedWhileLocked, Carried, At
<1> QED BY <1>1, <1>2, <1>3 DEF IInv

(* What the invariant says of one handler.                                   *)
Sound(r) ==
    /\ ~At(r, "idle") => req[r].now <= clock /\ clock <= req[r].now + Patience
    /\ At(r, "spend") /\ attempts[req[r].kind] >= MaxAttempts =>
         lockedUntil[req[r].kind] # None /\ lockedUntil[req[r].kind] > req[r].now
    /\ \/ req[r].pc \in {"reset", "rehash", "change"}
       \/ req[r].pc \in {"unlock", "spend", "clear"} /\ req[r].goal = "reset"
       => req[r].secret \in Password

LEMMA SoundInv == IInv <=> TypeOK /\ Counters /\ \A r \in Request : Sound(r)
BY DEF IInv, InTime, RefusedWhileLocked, Carried, Sound

(* The rest of the account; what a handler saves besides the counters.       *)
RestOK ==
    /\ verified  \in BOOLEAN
    /\ token     \in Code \union {None}
    /\ resetCode \in Code \union {None}
    /\ expires   \in Times \union {None}
    /\ sentAt    \in 0..MaxTime \union {None}
    /\ password  \in Password
    /\ legacy    \in BOOLEAN
    /\ resets    \in Nat

(* A handler that leaves the counters as they are.                           *)
LEMMA SameCounters ==
    ASSUME IInv, UNCHANGED <<clock, attempts, lockedUntil, wrong>>, RestOK',
           NEW r \in Request, NEW h \in Req, req' = [req EXCEPT ![r] = h], Sound(r)'
    PROVE  IInv'
<1>1. TypeOK'
  BY DEF IInv, TypeOK, RestOK
<1>2. Counters'
  BY DEF IInv, Counters
<1>3. \A q \in Request \ {r} : req'[q] = req[q]
  BY DEF IInv, TypeOK
<1>4. ASSUME NEW q \in Request PROVE Sound(q)'
  <2>1. CASE q = r
    BY <2>1
  <2>2. CASE q # r
    BY <1>3, <2>2, SoundInv DEF Sound, At
  <2> QED BY <2>1, <2>2
<1> QED BY <1>1, <1>2, <1>4, SoundInv DEF IInv, InTime, RefusedWhileLocked, Carried, Sound

(* A handler that starts.                                                    *)
LEMMA BeginStep ==
    ASSUME IInv, NEW r \in Request, NEW op, NEW h \in Req, Begin(r, op, h),
           h.pc \in {"unlock", "saveToken", "saveCode", "rehash", "change"},
           \/ h.pc \in {"rehash", "change"}
           \/ h.pc = "unlock" /\ h.goal = "reset"
           => h.secret \in Password
    PROVE  IInv'
<1> DEFINE g == [h EXCEPT !.now = clock]
<1>1. /\ g \in Req /\ g.pc = h.pc /\ g.goal = h.goal /\ g.secret = h.secret
      /\ g.now = clock
  BY DEF Req, IInv, TypeOK
<1>2. /\ req' = [req EXCEPT ![r] = g]
      /\ UNCHANGED <<clock, attempts, lockedUntil, wrong>>
      /\ RestOK'
  BY DEF Begin, counters, codes, secret, RestOK, IInv, TypeOK
<1> HIDE DEF g
<1>3. req'[r] = g
  BY <1>2 DEF IInv, TypeOK
<1>4. Sound(r)'
  BY <1>1, <1>2, <1>3, AccountsAssumption DEF Sound, At, IInv, TypeOK
<1> QED BY <1>1, <1>2, <1>4, SameCounters

LEMMA GuessReq ==
    ASSUME NEW kind \in Kind, NEW goal \in Goal, NEW correct \in BOOLEAN,
           NEW p \in Password \union {None}
    PROVE  LET g == Guess(kind, goal, correct, p)
           IN  g \in Req /\ g.pc = "unlock" /\ g.goal = goal /\ g.secret = p
BY IdleReq DEF Guess, Req

(* How a handler starts: what it has read of the account.                    *)
Started(r, h) ==
    /\ \E op : Begin(r, op, h)
    /\ h.pc \in {"unlock", "saveToken", "saveCode", "rehash", "change"}
    /\ \/ h.pc \in {"rehash", "change"}
       \/ h.pc = "unlock" /\ h.goal = "reset"
       => h.secret \in Password
    /\ h.pc = "unlock" /\ h.goal = "reset" => resetCode # None
    /\ h.pc = "rehash" => h.secret = password
    /\ h.pc \in {"saveToken", "saveCode"} => ~InCooldown

LEMMA Starts ==
    ASSUME IInv, NEW r \in Request, Start(r)
    PROVE  \E h \in Req : Started(r, h)
<1>1. ASSUME NEW c \in Code, VerifyUser(r, c)
      PROVE  \E h \in Req : Started(r, h)
  <2> DEFINE b == c = token
             g == Guess("verify", "verify", b, None)
  <2>0. b \in BOOLEAN
    OBVIOUS
  <2> HIDE DEF b
  <2>1. g \in Req /\ g.pc = "unlock" /\ g.goal = "verify"
    BY <2>0, GuessReq DEF Kind, Goal
  <2>2. Begin(r, "verify", g)
    BY <1>1 DEF VerifyUser, b
  <2> HIDE DEF g
  <2> QED BY <2>1, <2>2 DEF Started
<1>2. ASSUME NEW c \in Code, NEW goal \in {"check", "reset"},
             NEW p \in Password \union {None}, EnterResetCode(r, c, goal, p),
             goal = "reset" => p \in Password
      PROVE  \E h \in Req : Started(r, h)
  <2> DEFINE b == c = resetCode
             g == Guess("reset", goal, b, p)
  <2>0. b \in BOOLEAN
    OBVIOUS
  <2> HIDE DEF b
  <2>1. g \in Req /\ g.pc = "unlock" /\ g.goal = goal /\ g.secret = p
    BY <1>2, <2>0, GuessReq DEF Kind, Goal
  <2>2. Begin(r, "reset", g) /\ resetCode # None
    BY <1>2 DEF EnterResetCode, b
  <2> HIDE DEF g
  <2> QED BY <1>2, <2>1, <2>2 DEF Started
<1>3. ASSUME NEW c \in Code, Resend(r, c)
      PROVE  \E h \in Req : Started(r, h)
  <2> DEFINE g == [Idle EXCEPT !.pc = "saveToken", !.code = c]
  <2>1. g \in Req /\ g.pc = "saveToken"
    BY IdleReq DEF Req
  <2>2. Begin(r, "resend", g) /\ ~InCooldown
    BY <1>3 DEF Resend
  <2> HIDE DEF g
  <2> QED BY <2>1, <2>2 DEF Started
<1>4. ASSUME NEW c \in Code, RequestReset(r, c)
      PROVE  \E h \in Req : Started(r, h)
  <2> DEFINE g == [Idle EXCEPT !.pc = "saveCode", !.code = c]
  <2>1. g \in Req /\ g.pc = "saveCode"
    BY IdleReq DEF Req
  <2>2. Begin(r, "request", g) /\ ~InCooldown
    BY <1>4 DEF RequestReset
  <2> HIDE DEF g
  <2> QED BY <2>1, <2>2 DEF Started
<1>5. ASSUME NEW p \in Password, Login(r, p)
      PROVE  \E h \in Req : Started(r, h)
  <2> DEFINE g == [Idle EXCEPT !.pc = "rehash", !.secret = p]
  <2>1. g \in Req /\ g.pc = "rehash" /\ g.secret = p
    BY IdleReq DEF Req
  <2>2. Begin(r, "login", g) /\ p = password
    BY <1>5 DEF Login
  <2> HIDE DEF g
  <2> QED BY <2>1, <2>2 DEF Started
<1>6. ASSUME NEW p \in Password, NEW new \in Password, ChangePassword(r, p, new)
      PROVE  \E h \in Req : Started(r, h)
  <2> DEFINE g == [Idle EXCEPT !.pc = "change", !.secret = new]
  <2>1. g \in Req /\ g.pc = "change" /\ g.secret = new
    BY IdleReq DEF Req
  <2>2. Begin(r, "change", g)
    BY <1>6 DEF ChangePassword
  <2> HIDE DEF g
  <2> QED BY <2>1, <2>2 DEF Started
<1> QED BY <1>1, <1>2, <1>3, <1>4, <1>5, <1>6 DEF Start

LEMMA StartStep ==
    ASSUME IInv, NEW r \in Request, Start(r)
    PROVE  IInv'
<1> PICK h \in Req : Started(r, h)
  BY Starts
<1> PICK op : Begin(r, op, h)
  BY DEF Started
<1> QED BY BeginStep DEF Started

(***************************************************************************)
(* A guess                                                                 *)
(***************************************************************************)

(* A query that changes a counter; then the handler goes on or ends.         *)
LEMMA CounterStep ==
    ASSUME IInv, UNCHANGED <<clock, codes, secret>>, NEW r \in Request,
           req[r].pc \in {"unlock", "spend", "clear"},
           attempts' \in [Kind -> 0..MaxAttempts],
           lockedUntil' \in [Kind -> Times \union {None}],
           wrong' \in [Kind -> Nat], Counters',
           \A q \in Request \ {r} : Sound(q)',
           NEW s \in {"idle", "spend", "clear", "verify", "reset"},
           IF s = "idle" THEN Finish(r) ELSE Goto(r, s),
           s = "reset" => req[r].goal = "reset",
           s = "spend" /\ attempts'[req[r].kind] >= MaxAttempts =>
             lockedUntil'[req[r].kind] # None /\ lockedUntil'[req[r].kind] > req[r].now
    PROVE  IInv'
<1> DEFINE h == IF s = "idle" THEN Idle ELSE [req[r] EXCEPT !.pc = s]
<1>0. req[r] \in Req
  BY DEF IInv, TypeOK
<1>1. /\ h \in Req /\ h.pc = s
      /\ s # "idle" => h.now = req[r].now /\ h.kind = req[r].kind
                       /\ h.goal = req[r].goal /\ h.secret = req[r].secret
  BY <1>0, IdleReq DEF Req
<1>2. req' = [req EXCEPT ![r] = h]
  BY DEF Finish, Goto
<1> HIDE DEF h
<1>3. req'[r] = h
  BY <1>2 DEF IInv, TypeOK
<1>4. TypeOK'
  BY <1>1, <1>2 DEF IInv, TypeOK, codes, secret
<1>5. Sound(r)
  BY SoundInv
<1>6. Sound(r)'
  BY <1>1, <1>3, <1>5 DEF Sound, At
<1>7. \A q \in Request : Sound(q)'
  BY <1>6
<1> QED BY <1>4, <1>7 DEF IInv, InTime, RefusedWhileLocked, Carried, Sound

(* Where a counter is cleared the other handlers are not refused.            *)
LEMMA OthersCleared ==
    ASSUME IInv, NEW r \in Request, NEW k \in Kind, clock' = clock,
           attempts' = [attempts EXCEPT ![k] = 0],
           lockedUntil' = [lockedUntil EXCEPT ![k] = None],
           wrong' = [wrong EXCEPT ![k] = 0],
           \A q \in Request \ {r} : req'[q] = req[q]
    PROVE  /\ attempts' \in [Kind -> 0..MaxAttempts]
           /\ lockedUntil' \in [Kind -> Times \union {None}]
           /\ wrong' \in [Kind -> Nat] /\ Counters'
           /\ attempts'[k] = 0
           /\ \A q \in Request \ {r} : Sound(q)'
<1> USE AccountsAssumption
<1>1. /\ attempts' \in [Kind -> 0..MaxAttempts]
      /\ lockedUntil' \in [Kind -> Times \union {None}]
      /\ wrong' \in [Kind -> Nat]
      /\ attempts'[k] = 0 /\ lockedUntil'[k] = None /\ wrong'[k] = 0
      /\ \A j \in Kind \ {k} : attempts'[j] = attempts[j]
           /\ lockedUntil'[j] = lockedUntil[j] /\ wrong'[j] = wrong[j]
  BY DEF IInv, TypeOK
<1>2. Counters'
  BY <1>1 DEF IInv, Counters
<1>3. ASSUME NEW q \in Request \ {r} PROVE Sound(q)'
  <2>1. Sound(q) /\ req'[q] = req[q] /\ req[q].kind \in Kind
    BY SoundInv DEF IInv, TypeOK, Req
  <2>2. CASE req[q].kind = k
    BY <1>1, <2>1, <2>2 DEF Sound, At
  <2>3. CASE req[q].kind # k
    BY <1>1, <2>1, <2>3 DEF Sound, At
  <2> QED BY <2>2, <2>3
<1> QED BY <1>1, <1>2, <1>3

LEMMA UnlockStep ==
    ASSUME IInv, NEW r \in Request, Unlock(r)
    PROVE  IInv'
<1> DEFINE k == req[r].kind
<1>1. k \in Kind /\ req[r].now \in Nat /\ req[r].pc = "unlock"
  BY DEF IInv, TypeOK, Req, Unlock, At
<1>2. \A q \in Request \ {r} : req'[q] = req[q]
  BY DEF IInv, TypeOK, Unlock, Goto
<1>3. UNCHANGED <<clock, codes, secret>> /\ Goto(r, "spend")
  BY DEF Unlock
<1>4. CASE LockOver(k, req[r].now)
  <2>1. /\ attempts'    = [attempts EXCEPT ![k] = 0]
        /\ lockedUntil' = [lockedUntil EXCEPT ![k] = None]
        /\ wrong'       = [wrong EXCEPT ![k] = 0]
    BY <1>4 DEF Unlock
  <2> HIDE DEF k
  <2>2. /\ attempts' \in [Kind -> 0..MaxAttempts]
        /\ lockedUntil' \in [Kind -> Times \union {None}]
        /\ wrong' \in [Kind -> Nat] /\ Counters'
        /\ attempts'[k] = 0
        /\ \A q \in Request \ {r} : Sound(q)'
    BY <1>1, <1>2, <1>3, <2>1, OthersCleared
  <2> QED BY <1>1, <1>3, <2>2, CounterStep, AccountsAssumption DEF k
<1>5. CASE ~LockOver(k, req[r].now)
  <2>1. UNCHANGED <<attempts, lockedUntil, wrong>>
    BY <1>5 DEF Unlock, counters
  <2>2. attempts[k] >= MaxAttempts => lockedUntil[k] # None /\ ~(lockedUntil[k] <= req[r].now)
    BY <1>5 DEF LockOver
  <2>3. lockedUntil[k] # None => lockedUntil[k] \in Nat
    BY <1>1, AccountsAssumption DEF IInv, TypeOK, Times
  <2>4. \A q \in Request \ {r} : Sound(q)'
    BY <1>2, <1>3, <2>1, SoundInv DEF Sound, At
  <2>5. /\ attempts' \in [Kind -> 0..MaxAttempts]
        /\ lockedUntil' \in [Kind -> Times \union {None}]
        /\ wrong' \in [Kind -> Nat] /\ Counters'
    BY <2>1 DEF IInv, TypeOK, Counters
  <2>6. attempts'[k] >= MaxAttempts => lockedUntil'[k] # None /\ lockedUntil'[k] > req[r].now
    BY <1>1, <2>1, <2>2, <2>3
  <2> QED BY <1>1, <1>3, <2>4, <2>5, <2>6, CounterStep
<1> QED BY <1>4, <1>5

LEMMA ClearStep ==
    ASSUME IInv, NEW r \in Request, Clear(r)
    PROVE  IInv'
<1> DEFINE k == req[r].kind
<1>1. k \in Kind /\ req[r].goal \in Goal /\ req[r].pc = "clear"
  BY DEF IInv, TypeOK, Req, Clear, At
<1>2. \A q \in Request \ {r} : req'[q] = req[q]
  BY DEF IInv, TypeOK, Clear, Goto, Finish
<1>3. /\ UNCHANGED <<clock, codes, secret>>
      /\ IF req[r].goal = "check" THEN Finish(r) ELSE Goto(r, req[r].goal)
  BY DEF Clear
<1>4. /\ attempts'    = [attempts EXCEPT ![k] = 0]
      /\ lockedUntil' = [lockedUntil EXCEPT ![k] = None]
      /\ wrong'       = [wrong EXCEPT ![k] = 0]
  BY DEF Clear
<1> HIDE DEF k
<1>5. /\ attempts' \in [Kind -> 0..MaxAttempts]
      /\ lockedUntil' \in [Kind -> Times \union {None}]
      /\ wrong' \in [Kind -> Nat] /\ Counters'
      /\ \A q \in Request \ {r} : Sound(q)'
  BY <1>1, <1>2, <1>3, <1>4, OthersCleared
<1>6. CASE req[r].goal = "check"
  BY <1>1, <1>3, <1>5, <1>6, CounterStep
<1>7. CASE req[r].goal \in {"verify", "reset"}
  BY <1>1, <1>3, <1>5, <1>7, CounterStep
<1> QED BY <1>1, <1>6, <1>7 DEF Goal, Kind

(* The lock that the last attempt sets ends after every handler in flight.   *)
LEMMA SpendStep ==
    ASSUME IInv, NEW r \in Request, Spend(r)
    PROVE  IInv'
<1> USE AccountsAssumption
<1> DEFINE k == req[r].kind
<1>1. k \in Kind /\ req[r].now \in 0..MaxTime /\ req[r].pc = "spend" /\ clock \in Nat
  BY DEF IInv, TypeOK, Req, Spend, At
<1>2. \A q \in Request \ {r} : req'[q] = req[q]
  BY DEF IInv, TypeOK, Spend, Goto, Finish
<1>3. UNCHANGED <<clock, codes, secret>>
  BY DEF Spend
<1>4. CASE attempts[k] >= MaxAttempts
  <2>1. UNCHANGED <<attempts, lockedUntil, wrong>> /\ Finish(r)
    BY <1>4 DEF Spend, counters
  <2>2. \A q \in Request \ {r} : Sound(q)'
    BY <1>2, <1>3, <2>1, SoundInv DEF Sound, At
  <2>3. /\ attempts' \in [Kind -> 0..MaxAttempts]
        /\ lockedUntil' \in [Kind -> Times \union {None}]
        /\ wrong' \in [Kind -> Nat] /\ Counters'
    BY <2>1 DEF IInv, TypeOK, Counters
  <2> QED BY <1>1, <1>3, <2>1, <2>2, <2>3, CounterStep
<1>5. CASE ~(attempts[k] >= MaxAttempts)
  <2> DEFINE u == IF attempts[k] + 1 >= MaxAttempts THEN req[r].now + LockTime ELSE None
             w == IF req[r].correct THEN wrong[k] ELSE wrong[k] + 1
  <2>0. attempts[k] \in 0..MaxAttempts /\ wrong[k] \in Nat
    BY <1>1 DEF IInv, TypeOK
  <2>1. /\ attempts' = [attempts EXCEPT ![k] = attempts[k] + 1]
        /\ lockedUntil' = [lockedUntil EXCEPT ![k] = u]
        /\ wrong' = [wrong EXCEPT ![k] = w]
        /\ IF req[r].correct THEN Goto(r, "clear") ELSE Finish(r)
    BY <1>5 DEF Spend
  <2>2. u \in Times \union {None} /\ w \in Nat /\ w <= wrong[k] + 1
    BY <1>1, <2>0 DEF Times
  <2>3. attempts[k] + 1 \in 0..MaxAttempts /\ (u # None => attempts[k] + 1 = MaxAttempts)
    BY <1>5, <2>0
  <2>4. attempts[k] + 1 >= MaxAttempts => u # None /\ u = req[r].now + LockTime
    BY <1>1
  <2> HIDE DEF u, w, k
  <2>5. /\ attempts' \in [Kind -> 0..MaxAttempts]
        /\ lockedUntil' \in [Kind -> Times \union {None}]
        /\ wrong' \in [Kind -> Nat]
        /\ attempts'[k] = attempts[k] + 1 /\ lockedUntil'[k] = u /\ wrong'[k] = w
        /\ \A j \in Kind \ {k} : attempts'[j] = attempts[j]
             /\ lockedUntil'[j] = lockedUntil[j] /\ wrong'[j] = wrong[j]
    BY <1>1, <2>1, <2>2, <2>3 DEF IInv, TypeOK
  <2>6. Counters'
    <3> SUFFICES ASSUME NEW j \in Kind
                 PROVE  wrong'[j] <= attempts'[j]
                        /\ (lockedUntil'[j] # None => attempts'[j] = MaxAttempts)
      BY DEF Counters
    <3>1. CASE j = k
      BY <1>1, <2>0, <2>2, <2>3, <2>5, <3>1 DEF IInv, Counters
    <3>2. CASE j # k
      BY <2>5, <3>2 DEF IInv, Counters
    <3> QED BY <3>1, <3>2
  <2>7. ASSUME NEW q \in Request \ {r} PROVE Sound(q)'
    <3>1. Sound(q) /\ req'[q] = req[q] /\ req[q].kind \in Kind /\ req[q].now \in Nat
      BY <1>2, SoundInv DEF IInv, TypeOK, Req
    <3>2. Sound(r) /\ ~At(r, "idle")
      BY <1>1, SoundInv DEF At
    <3>3. clock <= req[r].now + Patience
      BY <3>2 DEF Sound
    <3>4. ASSUME At(q, "spend") PROVE req[q].now < req[r].now + LockTime
      <4>1. req[q].now <= clock
        BY <3>1, <3>4 DEF Sound, At
      <4> QED BY <1>1, <3>1, <3>3, <4>1
    <3>5. CASE req[q].kind = k
      BY <1>1, <1>3, <2>3, <2>4, <2>5, <3>1, <3>4, <3>5 DEF Sound, At
    <3>6. CASE req[q].kind # k
      BY <1>3, <2>5, <3>1, <3>6 DEF Sound, At
    <3> QED BY <3>5, <3>6
  <2>8. CASE req[r].correct
    BY <1>1, <1>3, <2>1, <2>5, <2>6, <2>7, <2>8, CounterStep
  <2>9. CASE ~req[r].correct
    BY <1>1, <1>3, <2>1, <2>5, <2>6, <2>7, <2>9, CounterStep
  <2> QED BY <2>8, <2>9
<1> QED BY <1>4, <1>5

(***************************************************************************)
(* A change to the account is saved                                        *)
(***************************************************************************)
LEMMA SaveStep ==
    ASSUME IInv, NEW r \in Request,
           \/ SaveVerified(r) \/ SaveReset(r) \/ SaveToken(r) \/ SaveCode(r)
           \/ Rehash(r) \/ SavePassword(r)
    PROVE  IInv'
<1>1. UNCHANGED <<clock, attempts, lockedUntil, wrong>> /\ req' = [req EXCEPT ![r] = Idle]
  BY DEF SaveVerified, SaveReset, SaveToken, SaveCode, Rehash, SavePassword, counters, Finish
<1>2. req[r] \in Req /\ Sound(r) /\ RestOK
  BY SoundInv DEF IInv, TypeOK, RestOK
<1>3. RestOK'
  <2>1. CASE SaveVerified(r)
    BY <1>2, <2>1 DEF SaveVerified, RestOK, secret
  <2>2. CASE SaveReset(r)
    <3>1. password' \in Password /\ resets' \in Nat /\ sentAt' = sentAt
      BY <1>2, <2>2 DEF SaveReset, RestOK, Sound, At
    <3>2. verified' \in BOOLEAN /\ legacy' \in BOOLEAN
          /\ token' = None /\ resetCode' = None /\ expires' = None
      BY <2>2 DEF SaveReset
    <3> QED BY <1>2, <3>1, <3>2 DEF RestOK
  <2>3. CASE SaveToken(r)
    BY <1>2, <2>3 DEF SaveToken, RestOK, Req, secret
  <2>4. CASE SaveCode(r)
    <3>1. req[r].now + CodeTime \in Times
      BY <1>2, AccountsAssumption DEF Req, Times
    <3> QED BY <1>2, <2>4, <3>1 DEF SaveCode, RestOK, Req, secret
  <2>5. CASE Rehash(r) \/ SavePassword(r)
    BY <1>2, <2>5 DEF Rehash, SavePassword, RestOK, Sound, At, codes
  <2> QED BY <2>1, <2>2, <2>3, <2>4, <2>5
<1>4. req'[r] = Idle
  BY <1>1 DEF IInv, TypeOK
<1>5. Sound(r)'
  BY <1>4, IdleReq DEF Sound, At
<1> QED BY <1>1, <1>3, <1>5, IdleReq, SameCounters

(***************************************************************************)
(* The theorems                                                            *)
(***************************************************************************)
LEMMA NextIInv == IInv /\ [Next]_vars => IInv'
<1> SUFFICES ASSUME IInv, [Next]_vars PROVE IInv'
  OBVIOUS
<1>1. CASE \E r \in Request : Start(r) \/ Step(r)
  BY <1>1, StartStep, UnlockStep, SpendStep, ClearStep, SaveStep DEF Step
<1>2. CASE Tick
  <2> USE AccountsAssumption
  <2>1. /\ clock \in 0..MaxTime /\ clock' = clock + 1 /\ clock' \in 0..MaxTime
        /\ UNCHANGED <<attempts, lockedUntil, wrong, req>>
        /\ RestOK'
    BY <1>2 DEF Tick, IInv, TypeOK, RestOK, counters, codes, secret
  <2>2. TypeOK' /\ Counters' /\ RefusedWhileLocked' /\ Carried'
    BY <2>1 DEF IInv, TypeOK, RestOK, Counters, RefusedWhileLocked, Carried, At
  <2>3. InTime'
    <3> SUFFICES ASSUME NEW r \in Request, ~At(r, "idle")
                 PROVE  req[r].now <= clock + 1 /\ clock + 1 <= req[r].now + Patience
      BY <2>1 DEF InTime, At
    <3>1. req[r].now \in Nat /\ req[r].now <= clock /\ clock < req[r].now + Patience
      BY <1>2 DEF Tick, IInv, TypeOK, Req, InTime
    <3> QED BY <2>1, <3>1
  <2> QED BY <2>2, <2>3 DEF IInv
<1>3. CASE Crash
  <2>1. /\ UNCHANGED <<clock, attempts, lockedUntil, wrong>> /\ RestOK'
        /\ req' = [r \in Request |-> Idle]
    BY <1>3 DEF Crash, IInv, TypeOK, RestOK, counters, codes, secret
  <2>2. TypeOK' /\ Counters'
    BY <2>1, IdleReq DEF IInv, TypeOK, RestOK, Counters
  <2>3. (InTime /\ RefusedWhileLocked /\ Carried)'
    BY <2>1, IdleReq DEF InTime, RefusedWhileLocked, Carried, At
  <2> QED BY <2>2, <2>3 DEF IInv
<1>4. CASE UNCHANGED vars
  BY <1>4 DEF vars, counters, codes, secret, IInv, TypeOK, Counters, InTime,
              RefusedWhileLocked, Carried, At
<1> QED BY <1>1, <1>2, <1>3, <1>4 DEF Next, Serve

(* The counters, the locks and the handlers in flight agree in every state.  *)
THEOREM Invariance == Spec => []IInv
<1> QED BY InitIInv, NextIInv, PTL DEF Spec

(* No more wrong codes than the limit are answered between two locks,        *)
(* however many guesses spendAttempt is given at once.                       *)
THEOREM Guesses == Spec => []GuessLimit
<1>1. IInv => GuessLimit
  BY AccountsAssumption DEF IInv, TypeOK, Counters, GuessLimit
<1> QED BY <1>1, Invariance, PTL

(* An attempt is refused only under a lock that is still to end.             *)
THEOREM Refusals == Spec => []RefusedWhileLocked
<1>1. IInv => RefusedWhileLocked
  BY DEF IInv
<1> QED BY <1>1, Invariance, PTL

(* A lock is lifted by its end or by a right code and by nothing else.       *)
THEOREM Locks == Spec => LockLasts
<1> DEFINE Lasts == \A k \in Kind :
             lockedUntil[k] # None /\ lockedUntil'[k] # lockedUntil[k] =>
               \/ lockedUntil[k] <= clock
               \/ \E r \in Request : At(r, "clear") /\ req[r].kind = k
<1>1. IInv /\ [Next]_vars => [Lasts]_vars
  <2> SUFFICES ASSUME IInv, Next, NEW k \in Kind,
                      lockedUntil[k] # None, lockedUntil'[k] # lockedUntil[k]
               PROVE  \/ lockedUntil[k] <= clock
                      \/ \E r \in Request : At(r, "clear") /\ req[r].kind = k
    OBVIOUS
  <2>1. PICK r \in Request : Unlock(r) \/ Spend(r) \/ Clear(r)
    BY DEF Next, Serve, Start, Step, VerifyUser, EnterResetCode, Resend, RequestReset, Login,
           ChangePassword, Begin, SaveVerified, SaveReset, SaveToken, SaveCode, Rehash,
           SavePassword, Tick, Crash, counters
  <2>2. req[r].kind \in Kind /\ req[r].now \in Nat /\ clock \in Nat
        /\ lockedUntil[k] \in Nat
    BY AccountsAssumption DEF IInv, TypeOK, Req, Times
  <2>3. req[r].kind = k
    BY <2>1, <2>2 DEF Unlock, Spend, Clear, counters, IInv, TypeOK
  <2>4. CASE Unlock(r)
    <3>1. LockOver(k, req[r].now)
      BY <2>3, <2>4 DEF Unlock, counters
    <3>2. lockedUntil[k] <= req[r].now
      BY <3>1 DEF LockOver
    <3>3. req[r].now <= clock
      BY <2>4 DEF Unlock, At, IInv, InTime
    <3> QED BY <2>2, <3>2, <3>3
  <2>5. CASE Spend(r)
    BY <2>2, <2>3, <2>5, AccountsAssumption DEF Spend, counters, IInv, TypeOK, Counters
  <2>6. CASE Clear(r)
    BY <2>3, <2>6 DEF Clear
  <2> QED BY <2>1, <2>4, <2>5, <2>6
<1> QED BY <1>1, Invariance, PTL DEF Spec, LockLasts

(***************************************************************************)
(* One handler at a time                                                   *)
(***************************************************************************)
\* A handler on its way to a new password by a code, and what each handler
\* knows of the account that it has read.
Resetting(r) ==
    \/ req[r].pc \in {"unlock", "spend", "clear"} /\ req[r].goal = "reset"
    \/ req[r].pc = "reset"

Current(r) ==
    /\ Resetting(r) => resets = 0
    /\ At(r, "rehash") => req[r].secret = password
    /\ req[r].pc \in {"saveToken", "saveCode"} =>
          sentAt = None \/ req[r].now >= sentAt + Cooldown

OneReset ==
    /\ resets <= 1
    /\ resets # 0 => resetCode = None

Alone ==
    /\ IsFiniteSet(Busy) /\ Single(Busy)
    /\ OneReset
    /\ \A r \in Request : Current(r)

\* No other handler is busy, before or after.
OneAt(r) == \A q \in Request \ {r} : req[q].pc = "idle" /\ req'[q] = req[q]

LEMMA CurrentOne ==
    ASSUME NEW r \in Request, OneAt(r), Current(r)'
    PROVE  \A q \in Request : Current(q)'
BY DEF OneAt, Current, Resetting, At

\* A handler that reads the account and becomes busy.
LEMMA CurrentStart ==
    ASSUME IInv, Alone, NEW r \in Request, Start(r)
    PROVE  /\ OneReset' /\ Current(r)' /\ RehashKept /\ LettersApart
           /\ req[r].pc = "idle" /\ req'[r].pc # "idle"
           /\ \A q \in Request \ {r} : req'[q] = req[q]
<1> PICK h \in Req : Started(r, h)
  BY Starts
<1> PICK op : Begin(r, op, h)
  BY DEF Started
<1> DEFINE g == [h EXCEPT !.now = clock]
<1>1. /\ g.pc = h.pc /\ g.goal = h.goal /\ g.secret = h.secret /\ g.now = clock
  BY DEF Req
<1>2. /\ req' = [req EXCEPT ![r] = g] /\ req[r].pc = "idle"
      /\ UNCHANGED <<sentAt, password, resets, resetCode>>
  BY DEF Begin, At, codes, secret
<1> HIDE DEF g
<1>3. req'[r] = g /\ \A q \in Request \ {r} : req'[q] = req[q]
  BY <1>2 DEF IInv, TypeOK
<1>4. RehashKept /\ LettersApart /\ OneReset'
  BY <1>2 DEF RehashKept, LettersApart, Alone, OneReset
<1>5. Current(r)'
  <2>1. h.pc \in {"saveToken", "saveCode"} => sentAt = None \/ clock >= sentAt + Cooldown
    BY AccountsAssumption DEF Started, InCooldown, IInv, TypeOK
  <2> QED BY <1>1, <1>2, <1>3, <2>1 DEF Started, Current, Resetting, At, Alone, OneReset
<1> QED BY <1>1, <1>2, <1>3, <1>4, <1>5 DEF Started

\* A handler that goes on or ends.
LEMMA CurrentStep ==
    ASSUME IInv, Alone, NEW r \in Request, Step(r)
    PROVE  /\ OneReset' /\ Current(r)' /\ RehashKept /\ LettersApart
           /\ req[r].pc # "idle"
           /\ \A q \in Request \ {r} : req'[q] = req[q]
<1>0. /\ req \in [Request -> Req] /\ Current(r) /\ OneReset /\ Idle.pc = "idle"
      /\ req[r].pc # "idle"
  BY IdleReq DEF IInv, TypeOK, Alone, Step, Unlock, Spend, Clear, SaveVerified, SaveReset,
                 SaveToken, SaveCode, Rehash, SavePassword, At
<1>1. \A q \in Request \ {r} : req'[q] = req[q]
  BY <1>0 DEF Step, Unlock, Spend, Clear, SaveVerified, SaveReset, SaveToken, SaveCode, Rehash,
              SavePassword, Goto, Finish
<1>2. At(r, "rehash") \/ RehashKept
  BY <1>1 DEF RehashKept, At
<1>3. CASE Unlock(r) \/ Spend(r) \/ Clear(r)
  <2>1. /\ UNCHANGED <<sentAt, password, resets, resetCode>>
        /\ req[r].pc \in {"unlock", "spend", "clear"}
    BY <1>3 DEF Unlock, Spend, Clear, codes, secret, At
  <2>2. PICK pc \in {"idle", "spend", "clear", "verify", "reset"} :
            \/ pc = "idle" /\ req'[r] = Idle
            \/ req' = [req EXCEPT ![r].pc = pc] /\ (pc = "reset" => req[r].goal = "reset")
    <3>1. req[r].goal \in {"verify", "reset", "check"}
      BY <1>0 DEF Req, Goal, Kind
    <3> QED BY <1>0, <1>3, <3>1 DEF Unlock, Spend, Clear, Goto, Finish
  <2>3. \/ req'[r].pc = "idle"
        \/ /\ req'[r].pc = pc /\ req'[r].goal = req[r].goal
           /\ pc = "reset" => req[r].goal = "reset"
    BY <1>0, <2>2 DEF Req
  <2>4. Current(r)' /\ OneReset'
    BY <1>0, <2>1, <2>3 DEF Current, Resetting, OneReset, At
  <2> QED BY <1>0, <1>1, <1>2, <2>1, <2>4 DEF LettersApart, At
<1>4. CASE ~(Unlock(r) \/ Spend(r) \/ Clear(r))
  <2>1. req'[r] = Idle
    BY <1>0, <1>4 DEF Step, SaveVerified, SaveReset, SaveToken, SaveCode, Rehash, SavePassword, Finish
  <2>2. Current(r)'
    BY <1>0, <2>1 DEF Current, Resetting, At
  <2>3. OneReset'
    <3>1. CASE SaveReset(r)
      BY <1>0, <3>1 DEF SaveReset, OneReset, Current, Resetting, At
    <3>2. CASE SaveCode(r)
      BY <3>2 DEF SaveCode, OneReset
    <3>3. CASE ~SaveReset(r) /\ ~SaveCode(r)
      <4>1. UNCHANGED <<resets, resetCode>>
        BY <1>4, <3>3 DEF Step, SaveVerified, SaveToken, Rehash, SavePassword, codes
      <4> QED BY <1>0, <4>1 DEF OneReset
    <3> QED BY <3>1, <3>2, <3>3
  <2>4. RehashKept
    <3>1. At(r, "rehash") => password' = password
      BY <1>0, <1>4 DEF Step, SaveVerified, SaveReset, SaveToken, SaveCode, Rehash, SavePassword,
                         At, secret, Current
    <3> QED BY <1>1, <3>1 DEF RehashKept, At
  <2>5. LettersApart
    <3>1. CASE SaveToken(r) \/ SaveCode(r)
      BY <1>0, <3>1 DEF SaveToken, SaveCode, At, Current, LettersApart
    <3>2. CASE ~(SaveToken(r) \/ SaveCode(r))
      <4>1. sentAt' = sentAt
        BY <1>4, <3>2 DEF Step, SaveVerified, SaveReset, Rehash, SavePassword, codes
      <4> QED BY <4>1 DEF LettersApart
    <3> QED BY <3>1, <3>2
  <2> QED BY <1>0, <1>1, <2>2, <2>3, <2>4, <2>5
<1> QED BY <1>3, <1>4

LEMMA AloneStep ==
    ASSUME IInv, Alone, [Serve]_vars, Cardinality(Busy') <= 1 \/ UNCHANGED vars
    PROVE  Alone' /\ RehashKept /\ LettersApart
<1>1. ASSUME NEW r \in Request, Start(r) \/ Step(r), Cardinality(Busy') <= 1
      PROVE  Alone' /\ RehashKept /\ LettersApart
  <2>1. /\ OneReset' /\ Current(r)' /\ RehashKept /\ LettersApart
        /\ req[r].pc # "idle" \/ req'[r].pc # "idle"
        /\ \A q \in Request \ {r} : req'[q] = req[q]
    BY <1>1, CurrentStart, CurrentStep
  <2>2. Busy' \subseteq Busy \union {r}
    BY <2>1 DEF Busy, At
  <2>3. IsFiniteSet(Busy') /\ Single(Busy')
    BY <1>1, <2>2, FewerStill, AtMostOne DEF Alone
  <2>4. OneAt(r)
    BY <2>1, <2>3 DEF Alone, OneAt, Single, Busy, At
  <2> QED BY <2>1, <2>3, <2>4, CurrentOne DEF Alone
<1>2. CASE Tick \/ UNCHANGED vars
  <2>1. UNCHANGED <<req, sentAt, password, resets, resetCode>>
    BY <1>2 DEF Tick, vars, codes, secret
  <2>2. Busy' = Busy
    BY <2>1 DEF Busy, At
  <2>3. OneReset' /\ \A r \in Request : Current(r)'
    BY <2>1 DEF Alone, OneReset, Current, Resetting, At
  <2>4. RehashKept /\ LettersApart
    BY <2>1 DEF RehashKept, LettersApart
  <2> QED BY <2>2, <2>3, <2>4 DEF Alone
<1> QED BY <1>1, <1>2 DEF Serve

(* The accounts with one handler at a time and no other bound.               *)
OneByOne == Init /\ [][Serve /\ Cardinality(Busy') <= 1]_vars

LEMMA AloneInit == Init => IInv /\ Alone
<1> SUFFICES ASSUME Init
             PROVE  IInv /\ Alone
  OBVIOUS
<1>1. IInv /\ Busy = {}
  BY InitIInv, IdleReq DEF Init, Busy, At
<1> QED BY <1>1, FS_EmptySet, IdleReq DEF Init, Alone, Single, OneReset, Current, Resetting, At

LEMMA OneByOneStep ==
    ASSUME IInv, Alone, [Serve /\ Cardinality(Busy') <= 1]_vars
    PROVE  IInv' /\ Alone' /\ RehashKept /\ LettersApart
<1>1. [Next]_vars
  BY DEF Next
<1> QED BY <1>1, NextIInv, AloneStep

\* The invariant of both kinds of behaviour.
Watched == IInv /\ (solo => Alone)

LEMMA WatchedInit ==
    ASSUME MCInit
    PROVE  Watched
BY AloneInit DEF MCInit, Watched

LEMMA WatchedStep ==
    ASSUME Watched, [MCNext]_<<vars, solo>>
    PROVE  Watched' /\ (solo => RehashKept /\ LettersApart)
<1>1. [Next]_vars /\ solo' = solo
  BY DEF MCNext, Next
<1>2. IInv'
  BY <1>1, NextIInv DEF Watched
<1>3. solo => [Serve]_vars /\ (Cardinality(Busy') <= 1 \/ UNCHANGED vars)
  BY DEF MCNext
<1> QED BY <1>1, <1>2, <1>3, AloneStep DEF Watched

(* As long as handlers do not overlap, a code sets one password:             *)
(* resetPassword leaves none that could be entered again.                    *)
THEOREM ResetSolo == (OneByOne => []ResetOnce) /\ (MCSpec => []SoloReset)
<1>1. Alone => ResetOnce
  BY DEF Alone, OneReset, ResetOnce
<1>2. OneByOne => []ResetOnce
  BY AloneInit, OneByOneStep, <1>1, PTL DEF OneByOne
<1>3. Watched => SoloReset
  BY <1>1 DEF Watched, SoloReset
<1>4. MCSpec => []SoloReset
  BY WatchedInit, WatchedStep, <1>3, PTL DEF MCSpec
<1> QED BY <1>2, <1>4

(* When they do not overlap, loginUser never changes a password, however it  *)
(* is hashed, and letters with codes are a pause apart.                      *)
THEOREM SavesSolo == (OneByOne => [][RehashKept /\ LettersApart]_vars) /\ (MCSpec => SoloSaves)
<1>1. OneByOne => [][RehashKept /\ LettersApart]_vars
  BY AloneInit, OneByOneStep, PTL DEF OneByOne
<1>2. Watched /\ [MCNext]_<<vars, solo>> => [solo => RehashKept /\ LettersApart]_vars
  BY WatchedStep
<1>3. MCSpec => SoloSaves
  BY WatchedInit, WatchedStep, <1>2, PTL DEF MCSpec, SoloSaves
<1> QED BY <1>1, <1>3
=============================================================================
