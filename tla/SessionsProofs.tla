--------------------------- MODULE SessionsProofs ---------------------------
(***************************************************************************)
(* Proofs about Sessions, for any number of requests, accounts and earlier *)
(* sessions, and any lifetime of the cookies.                              *)
(***************************************************************************)
EXTENDS Sessions, TLAPS

LoginSteps == {"signIn", "me"}
RefreshSteps == {"verify", "renew"}
DeleteSteps == {"admit", "getUser", "checkPassword", "deleteUser"}

\* What the pool keeps: a session opened has an account, a token a session,
\* and a deleted account no open session.
PoolKept ==
    /\ \A s \in Session : status[s] = "none" <=> account[s] = None
    /\ \A t \in Token : issued[t] # None => account[issued[t]] # None
    /\ \A s \in Session : account[s] \in gone => status[s] = "ended"

\* What the handler of r relies on between its calls.
HandlerOf(r) ==
    /\ step[r] \notin {"me", "deleteUser", "answered"} => issued[r] = None /\ account[r] = None
    /\ step[r] = "answered" <=> answer[r] # "nothing"
    /\ step[r] = "new" => r \notin waiting
    /\ step[r] \in LoginSteps => req[r].op = "login"
    /\ step[r] \in RefreshSteps => req[r].op = "refresh"
    /\ step[r] = "signOut" => req[r].op = "logout"
    /\ step[r] \in DeleteSteps => req[r].op = "delete"
    /\ step[r] = "signIn" => req[r].account # None
    /\ step[r] = "me" => issued[r] = r
    /\ step[r] = "renew" =>
           /\ req[r].access # None /\ req[r].refresh # None
           /\ req[r].account = Owner(req[r].access)
    /\ step[r] \in {"getUser", "checkPassword", "deleteUser"} => req[r].access # None

\* What the cookies it carried were, and what its answer says, is still so.
AnswerOf(r) ==
    /\ req[r].access # None => issued[req[r].access] # None
    /\ req[r].refresh # None => account[req[r].refresh] # None
    /\ answer[r] = "both" => issued[r] = r
    /\ answer[r] = "access" =>
           /\ req[r].op = "refresh"
           /\ req[r].refresh # None
           /\ issued[r] = req[r].refresh
    /\ answer[r] = "clear" =>
           IF req[r].op = "logout"
           THEN req[r].refresh = None \/ status[req[r].refresh] = "ended"
           ELSE req[r].access # None /\ Owner(req[r].access) \in gone
    /\ req[r].op = "refresh" /\ issued[r] # None =>
           /\ req[r].access # None /\ req[r].refresh # None
           /\ Owner(r) = Owner(req[r].access)
           /\ Owner(r) = account[req[r].refresh]

RequestsKept == \A r \in Request : HandlerOf(r) /\ AnswerOf(r)

JarKept ==
    /\ jar.access # None => issued[jar.access] # None
    /\ jar.refresh # None =>
           /\ account[jar.refresh] # None
           /\ jar.access # None
           /\ jar.accessAge <= jar.refreshAge

\* A browser that waits has one request out, and since that was sent the jar
\* has only lost cookies to age.
SerialKept ==
    ~overlapped =>
        \A r \in waiting :
            /\ waiting = {r}
            /\ jar.access \in {None, req[r].access}
            /\ jar.refresh \in {None, req[r].refresh}
            /\ signedOut => req[r].refresh = None

SafeInv ==
    /\ TypeOK
    /\ PoolKept
    /\ RequestsKept
    /\ JarKept
    /\ SerialKept
    /\ JarOfOneSession
    /\ SignedOutStaysOut

Handler(r) ==
    \/ LoginSignIn(r) \/ LoginMe(r)
    \/ RefreshVerify(r) \/ RefreshRenew(r)
    \/ LogoutSignOut(r)
    \/ DeleteAdmit(r) \/ DeleteGetUser(r) \/ DeleteCheckPassword(r) \/ DeleteUser(r)

\* What no step takes back, and what a handler leaves to the others.
Stable ==
    /\ \A s \in Session : account[s] # None => account'[s] = account[s]
    /\ \A s \in Session : status[s] = "ended" => status'[s] = "ended"
    /\ \A t \in Token : issued[t] # None => issued'[t] = issued[t]
    /\ gone \subseteq gone'

Spares(q) ==
    /\ step'[q] = step[q] /\ req'[q] = req[q] /\ answer'[q] = answer[q]
    /\ issued'[q] = issued[q] /\ account'[q] = account[q]

-----------------------------------------------------------------------------
LEMMA InitSafe == Init => SafeInv
<1> SUFFICES ASSUME Init PROVE SafeInv
    OBVIOUS
<1>1. PICK home \in Settled \cup {None} :
          jar = [access |-> home, accessAge |-> 0, refresh |-> home, refreshAge |-> 0]
    BY DEF Init, Empty
<1>2. /\ \A s \in Settled : AccountOf[s] \in Account /\ AccountOf[s] # None /\ s # None
      /\ Settled \cap Request = {}
      /\ 0 \in 0..MaxAge
    BY SessionsAssumption
<1>3. /\ status = [s \in Session |-> IF s \in Settled THEN "open" ELSE "none"]
      /\ account = [s \in Session |-> IF s \in Settled THEN AccountOf[s] ELSE None]
      /\ issued = [t \in Token |-> IF t \in Settled THEN t ELSE None]
      /\ gone = {} /\ waiting = {} /\ signedOut = FALSE
      /\ \A s \in Settled : s \in Session /\ s \in Token
    BY DEF Init, Session, Token
<1>4. TypeOK
    <2>1. jar \in Jar
        BY <1>1, <1>2, <1>3 DEF Jar
    <2>2. req \in [Request -> [op : {"none", "login", "refresh", "logout", "delete"},
                              account : Account \cup {None},
                              access : Token \cup {None}, refresh : Session \cup {None}]]
        BY DEF Init, NoRequest
    <2>3. account \in [Session -> Account \cup {None}]
        BY <1>2, <1>3
    <2>4. issued \in [Token -> Session \cup {None}]
        BY <1>3
    <2> QED BY <1>3, <2>1, <2>2, <2>3, <2>4 DEF TypeOK, Init
<1>5. PoolKept
    <2>1. \A s \in Session : status[s] = "none" <=> account[s] = None
        BY <1>2, <1>3
    <2>2. \A t \in Token : issued[t] # None => account[issued[t]] # None
        BY <1>2, <1>3
    <2> QED BY <1>3, <2>1, <2>2 DEF PoolKept
<1>6. RequestsKept
    <2> SUFFICES ASSUME NEW r \in Request PROVE HandlerOf(r) /\ AnswerOf(r)
        BY DEF RequestsKept
    <2>1. /\ step[r] = "new" /\ answer[r] = "nothing" /\ r \notin waiting
          /\ issued[r] = None /\ account[r] = None
        BY <1>2, <1>3 DEF Init, Session, Token
    <2>2. req[r].access = None /\ req[r].refresh = None /\ req[r].op = "none"
        BY DEF Init, NoRequest
    <2>3. HandlerOf(r)
        BY <2>1, <2>2 DEF HandlerOf, LoginSteps, RefreshSteps, DeleteSteps
    <2>4. AnswerOf(r)
        BY <2>1, <2>2 DEF AnswerOf
    <2> QED BY <2>3, <2>4
<1>7. JarKept /\ JarOfOneSession
    <2>1. home # None => issued[home] = home /\ account[home] # None
        BY <1>2, <1>3
    <2> QED BY <1>1, <1>2, <2>1 DEF JarKept, JarOfOneSession
<1> QED BY <1>3, <1>4, <1>5, <1>6, <1>7 DEF SafeInv, SerialKept, SignedOutStaysOut

-----------------------------------------------------------------------------
(* The handlers.                                                           *)

LEMMA AnswerTypes ==
    ASSUME TypeOK, NEW r \in Request,
           NEW is \in {"error", "both", "access", "clear"}, Answer(r, is)
    PROVE  /\ UNCHANGED <<client, req>>
           /\ step'[r] = "answered" /\ answer'[r] = is
           /\ \A q \in Request \ {r} : step'[q] = step[q] /\ answer'[q] = answer[q]
           /\ step' \in [Request -> {"new", "answered", "signIn", "me", "verify", "renew",
                             "signOut", "admit", "getUser", "checkPassword", "deleteUser"}]
           /\ answer' \in [Request -> {"nothing", "error", "both", "access", "clear"}]
BY DEF TypeOK, Answer

LEMMA GoTypes ==
    ASSUME TypeOK, NEW r \in Request,
           NEW next \in {"me", "renew", "getUser", "checkPassword", "deleteUser"}, Go(r, next)
    PROVE  /\ UNCHANGED <<client, req, answer>>
           /\ step'[r] = next
           /\ \A q \in Request \ {r} : step'[q] = step[q]
           /\ step' \in [Request -> {"new", "answered", "signIn", "me", "verify", "renew",
                             "signOut", "admit", "getUser", "checkPassword", "deleteUser"}]
BY DEF TypeOK, Go

\* An answer or the next call of r, with the pool as it was.
LEMMA CallKeepsPool ==
    ASSUME SafeInv, NEW r \in Request, UNCHANGED pool,
           \/ Fails(r)
           \/ \E next \in {"me", "getUser", "checkPassword", "deleteUser"} : Go(r, next)
           \/ \E is \in {"both", "access", "clear"} : Answer(r, is)
    PROVE  /\ TypeOK' /\ PoolKept' /\ Stable
           /\ \A q \in Request \ {r} : Spares(q)
           /\ UNCHANGED <<client, req>>
<1>1. /\ step' \in [Request -> {"new", "answered", "signIn", "me", "verify", "renew",
                             "signOut", "admit", "getUser", "checkPassword", "deleteUser"}]
      /\ answer' \in [Request -> {"nothing", "error", "both", "access", "clear"}]
      /\ UNCHANGED <<client, req>>
      /\ \A q \in Request \ {r} : step'[q] = step[q] /\ answer'[q] = answer[q]
    BY AnswerTypes, GoTypes DEF SafeInv, Fails, TypeOK
<1>2. TypeOK'
    BY <1>1 DEF SafeInv, TypeOK, client, pool
<1>3. PoolKept' /\ Stable /\ \A q \in Request \ {r} : Spares(q)
    BY <1>1 DEF SafeInv, PoolKept, Stable, Spares, pool, Owner
<1> QED BY <1>1, <1>2, <1>3

\* r opened a session of account a, and nothing else of the pool changed.
OpenedBy(r, a) ==
    /\ PoolKept' /\ Stable
    /\ issued'[r] = r /\ account'[r] = a
    /\ \A q \in Request \ {r} : issued'[q] = issued[q] /\ account'[q] = account[q]
    /\ status' \in [Session -> {"none", "open", "ended"}]
    /\ account' \in [Session -> Account \cup {None}]
    /\ issued' \in [Token -> Session \cup {None}]
    /\ UNCHANGED <<expired, gone>>

LEMMA OpensKeepsPool ==
    ASSUME SafeInv, NEW r \in Request, NEW a \in Account, Opens(r, a),
           issued[r] = None, account[r] = None
    PROVE  OpenedBy(r, a)
<1> USE SessionsAssumption DEF Session, Token
<1>1. /\ status' \in [Session -> {"none", "open", "ended"}]
      /\ account' \in [Session -> Account \cup {None}]
      /\ issued' \in [Token -> Session \cup {None}]
      /\ issued'[r] = r /\ account'[r] = a /\ status'[r] = "open"
      /\ \A s \in Session \ {r} :
            issued'[s] = issued[s] /\ account'[s] = account[s] /\ status'[s] = status[s]
      /\ UNCHANGED <<expired, gone>>
      /\ a \notin gone
    BY DEF Opens, SafeInv, TypeOK
<1>2. status[r] = "none"
    BY DEF SafeInv, PoolKept
<1>3. Stable
    BY <1>1, <1>2 DEF Stable
<1>4. PoolKept'
    <2>1. \A s \in Session : status'[s] = "none" <=> account'[s] = None
        BY <1>1 DEF SafeInv, PoolKept
    <2>2. \A t \in Token : issued'[t] # None => account'[issued'[t]] # None
        BY <1>1 DEF SafeInv, PoolKept, TypeOK
    <2>3. \A s \in Session : account'[s] \in gone' => status'[s] = "ended"
        BY <1>1 DEF SafeInv, PoolKept
    <2> QED BY <2>1, <2>2, <2>3 DEF PoolKept
<1> QED BY <1>1, <1>3, <1>4 DEF OpenedBy

\* The call that opened it goes on to the next one or fails.
LEMMA OpenCallKeeps ==
    ASSUME SafeInv, NEW r \in Request, NEW a \in Account, OpenedBy(r, a),
           Fails(r) \/ \E next \in {"me", "deleteUser"} : Go(r, next)
    PROVE  /\ TypeOK' /\ PoolKept' /\ Stable
           /\ \A q \in Request \ {r} : Spares(q)
           /\ UNCHANGED <<client, req>>
<1>1. /\ step' \in [Request -> {"new", "answered", "signIn", "me", "verify", "renew",
                             "signOut", "admit", "getUser", "checkPassword", "deleteUser"}]
      /\ answer' \in [Request -> {"nothing", "error", "both", "access", "clear"}]
      /\ UNCHANGED <<client, req>>
      /\ \A q \in Request \ {r} : step'[q] = step[q] /\ answer'[q] = answer[q]
    BY AnswerTypes, GoTypes DEF SafeInv, Fails, TypeOK
<1>2. TypeOK'
    BY <1>1 DEF SafeInv, TypeOK, client, OpenedBy
<1> QED BY <1>1, <1>2 DEF OpenedBy, Spares

LEMMA HandlerKeeps ==
    ASSUME SafeInv, NEW r \in Request, Handler(r)
    PROVE  /\ TypeOK' /\ PoolKept' /\ Stable
           /\ \A q \in Request \ {r} : Spares(q)
           /\ HandlerOf(r)' /\ AnswerOf(r)'
           /\ UNCHANGED client
           /\ \A q \in Request : /\ req'[q].access = req[q].access
                                 /\ req'[q].refresh = req[q].refresh
<1> DEFINE P == /\ TypeOK' /\ PoolKept' /\ Stable
                /\ \A q \in Request \ {r} : Spares(q)
                /\ UNCHANGED client
           Q == HandlerOf(r)' /\ AnswerOf(r)'
           R == \A q \in Request : /\ req'[q].access = req[q].access
                                   /\ req'[q].refresh = req[q].refresh
<1> SUFFICES P /\ Q /\ R
    OBVIOUS
<1> USE SessionsAssumption DEF Session, Token
<1>0. /\ TypeOK /\ PoolKept /\ HandlerOf(r) /\ AnswerOf(r)
    BY DEF SafeInv, RequestsKept
<1>1. CASE LoginSignIn(r)
    <2>1. /\ step[r] = "signIn" /\ issued[r] = None /\ account[r] = None
          /\ req[r].op = "login" /\ req[r].account \in Account
        BY <1>0, <1>1 DEF LoginSignIn, HandlerOf, LoginSteps, TypeOK
    <2>2. CASE Fails(r) /\ UNCHANGED pool
        <3>1. P /\ R
            BY <2>2, CallKeepsPool
        <3> QED BY <1>0, <2>1, <2>2, <3>1, AnswerTypes
                DEF Fails, AnswerOf, HandlerOf, LoginSteps, RefreshSteps, DeleteSteps, pool, client, Owner
    <2>3. CASE Opens(r, req[r].account) /\ (Go(r, "me") \/ Fails(r))
        <3>1. OpenedBy(r, req[r].account)
            BY <2>1, <2>3, OpensKeepsPool
        <3>2. P /\ R /\ req' = req
            BY <1>0, <2>1, <2>3, <3>1, OpenCallKeeps
        <3>3. (step'[r] = "me" /\ UNCHANGED answer) \/ (step'[r] = "answered" /\ answer'[r] = "error")
            BY <1>0, <2>3, AnswerTypes, GoTypes DEF Fails
        <3>4. HandlerOf(r)'
            BY <1>0, <2>1, <3>1, <3>2, <3>3
            DEF HandlerOf, LoginSteps, RefreshSteps, DeleteSteps, OpenedBy
        <3>5. AnswerOf(r)'
            BY <1>0, <2>1, <3>1, <3>2, <3>3 DEF HandlerOf, AnswerOf, OpenedBy, Stable, TypeOK
        <3> QED BY <3>2, <3>4, <3>5
    <2> QED BY <1>1, <2>2, <2>3 DEF LoginSignIn
<1>2. CASE LoginMe(r)
    <2>1. step[r] = "me" /\ req[r].op = "login" /\ issued[r] = r /\ UNCHANGED pool
        BY <1>0, <1>2 DEF LoginMe, HandlerOf, LoginSteps
    <2>2. P /\ R /\ req' = req
        BY <1>2, <2>1, CallKeepsPool DEF LoginMe
    <2>3. step'[r] = "answered" /\ answer'[r] \in {"error", "both"}
        BY <1>0, <1>2, AnswerTypes DEF LoginMe, Fails
    <2>4. HandlerOf(r)'
        BY <1>0, <2>1, <2>2, <2>3 DEF HandlerOf, LoginSteps, RefreshSteps, DeleteSteps
    <2>5. AnswerOf(r)'
        BY <1>0, <2>1, <2>2, <2>3 DEF AnswerOf, pool
    <2> QED BY <2>2, <2>4, <2>5
<1>3. CASE RefreshVerify(r)
    <2>1. /\ step[r] = "verify" /\ req[r].op = "refresh" /\ UNCHANGED pool
          /\ issued[r] = None /\ account[r] = None /\ answer[r] = "nothing"
        BY <1>0, <1>3 DEF RefreshVerify, HandlerOf, RefreshSteps
    <2>2. CASE Fails(r)
        <3>1. P /\ R /\ req' = req
            BY <2>1, <2>2, CallKeepsPool
        <3>2. step'[r] = "answered" /\ answer'[r] = "error"
            BY <1>0, <2>2, AnswerTypes DEF Fails
        <3>3. HandlerOf(r)'
            BY <1>0, <2>1, <3>1, <3>2 DEF HandlerOf, LoginSteps, RefreshSteps, DeleteSteps
        <3>4. AnswerOf(r)'
            BY <1>0, <2>1, <3>1, <3>2 DEF AnswerOf, pool
        <3> QED BY <3>1, <3>3, <3>4
    <2>3. CASE /\ req[r].access # None /\ req[r].refresh # None
               /\ step' = [step EXCEPT ![r] = "renew"]
               /\ req' = [req EXCEPT ![r].account = Owner(req[r].access)]
               /\ UNCHANGED <<client, answer>>
        <3>1. issued[req[r].access] \in Session /\ Owner(req[r].access) \in Account
            BY <1>0, <2>3 DEF AnswerOf, TypeOK, PoolKept, Owner
        <3>2. /\ step'[r] = "renew" /\ req'[r].account = Owner(req[r].access)
              /\ req'[r].op = req[r].op /\ req'[r].access = req[r].access
              /\ req'[r].refresh = req[r].refresh
              /\ \A q \in Request \ {r} : step'[q] = step[q] /\ req'[q] = req[q]
            BY <1>0, <2>3 DEF TypeOK
        <3>3. TypeOK'
            BY <1>0, <2>1, <2>3, <3>1 DEF TypeOK, client, pool
        <3>4. P /\ R
            BY <1>0, <2>1, <2>3, <3>2, <3>3 DEF PoolKept, Stable, Spares, pool
        <3>5. HandlerOf(r)'
            BY <1>0, <2>1, <2>3, <3>2 DEF HandlerOf, LoginSteps, RefreshSteps, DeleteSteps, pool, Owner
        <3>6. AnswerOf(r)'
            BY <1>0, <2>1, <2>3, <3>2 DEF AnswerOf, pool
        <3> QED BY <3>4, <3>5, <3>6
    <2> QED BY <1>3, <2>2, <2>3 DEF RefreshVerify
<1>4. CASE RefreshRenew(r)
    <2>1. /\ step[r] = "renew" /\ req[r].op = "refresh"
          /\ req[r].access # None /\ req[r].refresh # None
          /\ req[r].account = Owner(req[r].access)
          /\ issued[r] = None /\ account[r] = None
        BY <1>0, <1>4 DEF RefreshRenew, HandlerOf, RefreshSteps
    <2>2. CASE Fails(r) /\ UNCHANGED pool
        <3>1. P /\ R /\ req' = req
            BY <2>2, CallKeepsPool
        <3>2. step'[r] = "answered" /\ answer'[r] = "error"
            BY <1>0, <2>2, AnswerTypes DEF Fails
        <3>3. HandlerOf(r)'
            BY <1>0, <2>1, <3>1, <3>2 DEF HandlerOf, LoginSteps, RefreshSteps, DeleteSteps
        <3>4. AnswerOf(r)'
            BY <1>0, <2>1, <2>2, <3>1, <3>2 DEF AnswerOf, pool
        <3> QED BY <3>1, <3>3, <3>4
    <2>3. CASE /\ account[req[r].refresh] = req[r].account
               /\ issued' = [issued EXCEPT ![r] = req[r].refresh]
               /\ UNCHANGED <<status, account, expired, gone>>
               /\ Answer(r, "access") \/ Fails(r)
        <3>1. /\ step'[r] = "answered" /\ answer'[r] \in {"error", "access"}
              /\ UNCHANGED <<client, req>>
              /\ \A q \in Request \ {r} : step'[q] = step[q] /\ answer'[q] = answer[q]
              /\ step' \in [Request -> {"new", "answered", "signIn", "me", "verify", "renew",
                             "signOut", "admit", "getUser", "checkPassword", "deleteUser"}]
              /\ answer' \in [Request -> {"nothing", "error", "both", "access", "clear"}]
            BY <1>0, <2>3, AnswerTypes DEF Fails
        <3>2. req[r].refresh \in Session /\ account[req[r].refresh] # None
              /\ req[r].access \in Token /\ issued[req[r].access] # None
            BY <1>0, <2>1 DEF TypeOK, AnswerOf
        <3>3. /\ issued' \in [Token -> Session \cup {None}]
              /\ issued'[r] = req[r].refresh
              /\ \A t \in Token \ {r} : issued'[t] = issued[t]
            BY <1>0, <2>3, <3>2 DEF TypeOK
        <3>4. TypeOK'
            BY <1>0, <2>3, <3>1, <3>3 DEF TypeOK, client
        <3>5. PoolKept'
            BY <1>0, <2>3, <3>2, <3>3 DEF PoolKept
        <3>6. Stable /\ \A q \in Request \ {r} : Spares(q)
            BY <2>1, <2>3, <3>1, <3>3 DEF Stable, Spares
        <3>7. req[r].access # r
            BY <2>1, <3>2
        <3>8. HandlerOf(r)'
            BY <2>1, <3>1 DEF HandlerOf, LoginSteps, RefreshSteps, DeleteSteps
        <3>9. AnswerOf(r)'
            BY <2>1, <2>3, <3>1, <3>2, <3>3, <3>7 DEF AnswerOf, Owner
        <3> QED BY <3>1, <3>4, <3>5, <3>6, <3>8, <3>9
    <2> QED BY <1>4, <2>2, <2>3 DEF RefreshRenew
<1>5. CASE LogoutSignOut(r)
    <2>1. /\ step[r] = "signOut" /\ req[r].op = "logout"
          /\ issued[r] = None /\ account[r] = None
        BY <1>0, <1>5 DEF LogoutSignOut, HandlerOf
    <2>2. CASE UNCHANGED pool /\ (Fails(r) \/ (req[r].refresh = None /\ Answer(r, "clear")))
        <3>1. P /\ R /\ req' = req
            BY <2>2, CallKeepsPool
        <3>2. /\ step'[r] = "answered" /\ answer'[r] \in {"error", "clear"}
              /\ answer'[r] = "clear" => req[r].refresh = None
            BY <1>0, <2>2, AnswerTypes DEF Fails
        <3>3. HandlerOf(r)'
            BY <1>0, <2>1, <3>1, <3>2 DEF HandlerOf, LoginSteps, RefreshSteps, DeleteSteps
        <3>4. AnswerOf(r)'
            BY <1>0, <2>1, <2>2, <3>1, <3>2 DEF AnswerOf, pool
        <3> QED BY <3>1, <3>3, <3>4
    <2>3. CASE /\ req[r].refresh # None
               /\ status' = [status EXCEPT ![req[r].refresh] = "ended"]
               /\ UNCHANGED <<account, issued, expired, gone>>
               /\ Answer(r, "clear") \/ Fails(r)
        <3>1. /\ step'[r] = "answered" /\ answer'[r] \in {"error", "clear"}
              /\ UNCHANGED <<client, req>>
              /\ \A q \in Request \ {r} : step'[q] = step[q] /\ answer'[q] = answer[q]
              /\ step' \in [Request -> {"new", "answered", "signIn", "me", "verify", "renew",
                             "signOut", "admit", "getUser", "checkPassword", "deleteUser"}]
              /\ answer' \in [Request -> {"nothing", "error", "both", "access", "clear"}]
            BY <1>0, <2>3, AnswerTypes DEF Fails
        <3>2. req[r].refresh \in Session /\ account[req[r].refresh] # None
            BY <1>0, <2>3 DEF TypeOK, AnswerOf
        <3>3. /\ status' \in [Session -> {"none", "open", "ended"}]
              /\ status'[req[r].refresh] = "ended"
              /\ \A s \in Session : s # req[r].refresh => status'[s] = status[s]
            BY <1>0, <2>3, <3>2 DEF TypeOK
        <3>4. TypeOK'
            BY <1>0, <2>3, <3>1, <3>3 DEF TypeOK, client
        <3>5. PoolKept'
            BY <1>0, <2>3, <3>2, <3>3 DEF PoolKept
        <3>6. Stable /\ \A q \in Request \ {r} : Spares(q)
            BY <2>3, <3>1, <3>3 DEF Stable, Spares
        <3>7. HandlerOf(r)'
            BY <2>1, <3>1 DEF HandlerOf, LoginSteps, RefreshSteps, DeleteSteps
        <3>8. AnswerOf(r)'
            BY <1>0, <2>1, <2>3, <3>1, <3>3 DEF AnswerOf
        <3> QED BY <3>1, <3>4, <3>5, <3>6, <3>7, <3>8
    <2> QED BY <1>5, <2>2, <2>3 DEF LogoutSignOut
<1>6. CASE DeleteAdmit(r) \/ DeleteGetUser(r)
    <2>1. /\ step[r] \in {"admit", "getUser"} /\ req[r].op = "delete" /\ UNCHANGED pool
          /\ issued[r] = None /\ account[r] = None /\ answer[r] = "nothing"
          /\ step[r] = "getUser" => req[r].access # None
        BY <1>0, <1>6 DEF DeleteAdmit, DeleteGetUser, HandlerOf, DeleteSteps
    <2>2. P /\ R /\ req' = req
        BY <1>6, <2>1, CallKeepsPool DEF DeleteAdmit, DeleteGetUser
    <2>3. \/ step'[r] = "answered" /\ answer'[r] = "error"
          \/ step'[r] \in {"getUser", "checkPassword"} /\ req[r].access # None /\ answer'[r] = "nothing"
        BY <1>0, <1>6, <2>1, AnswerTypes, GoTypes DEF DeleteAdmit, DeleteGetUser, Fails
    <2>4. HandlerOf(r)'
        BY <2>1, <2>2, <2>3 DEF HandlerOf, LoginSteps, RefreshSteps, DeleteSteps, pool
    <2>5. AnswerOf(r)'
        BY <1>0, <2>1, <2>2, <2>3 DEF AnswerOf, pool
    <2> QED BY <2>2, <2>4, <2>5
<1>7. CASE DeleteCheckPassword(r)
    <2>1. /\ step[r] = "checkPassword" /\ req[r].op = "delete" /\ req[r].access # None
          /\ issued[r] = None /\ account[r] = None /\ answer[r] = "nothing"
        BY <1>0, <1>7 DEF DeleteCheckPassword, HandlerOf, DeleteSteps
    <2>2. CASE Fails(r) /\ UNCHANGED pool
        <3>1. P /\ R /\ req' = req
            BY <2>2, CallKeepsPool
        <3>2. step'[r] = "answered" /\ answer'[r] = "error"
            BY <1>0, <2>2, AnswerTypes DEF Fails
        <3>3. HandlerOf(r)'
            BY <1>0, <2>1, <3>1, <3>2 DEF HandlerOf, LoginSteps, RefreshSteps, DeleteSteps
        <3>4. AnswerOf(r)'
            BY <1>0, <2>1, <2>2, <3>1, <3>2 DEF AnswerOf, pool
        <3> QED BY <3>1, <3>3, <3>4
    <2>3. CASE Opens(r, Owner(req[r].access)) /\ (Go(r, "deleteUser") \/ Fails(r))
        <3>1. Owner(req[r].access) \in Account
            BY <1>0, <2>1 DEF AnswerOf, TypeOK, PoolKept, Owner
        <3>2. OpenedBy(r, Owner(req[r].access))
            BY <2>1, <2>3, <3>1, OpensKeepsPool
        <3>3. P /\ R /\ req' = req
            BY <2>3, <3>1, <3>2, OpenCallKeeps
        <3>4. (step'[r] = "deleteUser" /\ answer'[r] = "nothing") \/ (step'[r] = "answered" /\ answer'[r] = "error")
            BY <1>0, <2>1, <2>3, AnswerTypes, GoTypes DEF Fails
        <3>5. HandlerOf(r)'
            BY <2>1, <3>3, <3>4 DEF HandlerOf, LoginSteps, RefreshSteps, DeleteSteps
        <3>6. AnswerOf(r)'
            BY <1>0, <2>1, <3>2, <3>3, <3>4 DEF AnswerOf, OpenedBy, Stable, TypeOK
        <3> QED BY <3>3, <3>5, <3>6
    <2> QED BY <1>7, <2>2, <2>3 DEF DeleteCheckPassword
<1>8. CASE DeleteUser(r)
    <2>1. /\ step[r] = "deleteUser" /\ req[r].op = "delete" /\ req[r].access # None
        BY <1>0, <1>8 DEF DeleteUser, HandlerOf, DeleteSteps
    <2>2. CASE Fails(r) /\ UNCHANGED pool
        <3>1. P /\ R /\ req' = req
            BY <2>2, CallKeepsPool
        <3>2. step'[r] = "answered" /\ answer'[r] = "error"
            BY <1>0, <2>2, AnswerTypes DEF Fails
        <3>3. HandlerOf(r)'
            BY <1>0, <2>1, <3>1, <3>2 DEF HandlerOf, LoginSteps, RefreshSteps, DeleteSteps
        <3>4. AnswerOf(r)'
            BY <1>0, <2>1, <2>2, <3>1, <3>2 DEF AnswerOf, pool
        <3> QED BY <3>1, <3>3, <3>4
    <2>3. CASE /\ gone' = gone \cup {Owner(req[r].access)}
               /\ status' = [s \in Session |-> IF account[s] = Owner(req[r].access)
                                             THEN "ended" ELSE status[s]]
               /\ UNCHANGED <<account, issued, expired>>
               /\ Answer(r, "clear") \/ Fails(r)
        <3>1. /\ step'[r] = "answered" /\ answer'[r] \in {"error", "clear"}
              /\ UNCHANGED <<client, req>>
              /\ \A q \in Request \ {r} : step'[q] = step[q] /\ answer'[q] = answer[q]
              /\ step' \in [Request -> {"new", "answered", "signIn", "me", "verify", "renew",
                             "signOut", "admit", "getUser", "checkPassword", "deleteUser"}]
              /\ answer' \in [Request -> {"nothing", "error", "both", "access", "clear"}]
            BY <1>0, <2>3, AnswerTypes DEF Fails
        <3>2. Owner(req[r].access) \in Account
            BY <1>0, <2>1 DEF AnswerOf, TypeOK, PoolKept, Owner
        <3>3. /\ status' \in [Session -> {"none", "open", "ended"}]
              /\ \A s \in Session : /\ account[s] = Owner(req[r].access) => status'[s] = "ended"
                                    /\ account[s] # Owner(req[r].access) => status'[s] = status[s]
            BY <1>0, <2>3 DEF TypeOK
        <3>4. TypeOK'
            BY <1>0, <2>3, <3>1, <3>2, <3>3 DEF TypeOK, client
        <3>5. PoolKept'
            <4>1. \A s \in Session : status'[s] = "none" <=> account'[s] = None
                BY <1>0, <2>3, <3>2, <3>3 DEF PoolKept
            <4>2. \A s \in Session : account'[s] \in gone' => status'[s] = "ended"
                BY <1>0, <2>3, <3>3 DEF PoolKept
            <4> QED BY <1>0, <2>3, <4>1, <4>2 DEF PoolKept
        <3>6. Stable /\ \A q \in Request \ {r} : Spares(q)
            BY <2>3, <3>1, <3>3 DEF Stable, Spares
        <3>7. HandlerOf(r)'
            BY <2>1, <3>1 DEF HandlerOf, LoginSteps, RefreshSteps, DeleteSteps
        <3>8. AnswerOf(r)'
            BY <1>0, <2>1, <2>3, <3>1 DEF AnswerOf, Owner
        <3> QED BY <3>1, <3>4, <3>5, <3>6, <3>7, <3>8
    <2> QED BY <1>8, <2>2, <2>3 DEF DeleteUser
<1> QED BY <1>1, <1>2, <1>3, <1>4, <1>5, <1>6, <1>7, <1>8 DEF Handler

\* The requests a handler leaves alone keep what they rely on.
LEMMA SparedKept ==
    ASSUME SafeInv, Stable, NEW q \in Request, Spares(q), UNCHANGED waiting
    PROVE  HandlerOf(q)' /\ AnswerOf(q)'
<1>1. /\ TypeOK /\ PoolKept /\ HandlerOf(q) /\ AnswerOf(q)
    BY DEF SafeInv, RequestsKept
<1>2. req[q].access # None =>
          /\ req[q].access \in Token /\ issued'[req[q].access] = issued[req[q].access]
          /\ issued[req[q].access] # None
          /\ Owner(req[q].access)' = Owner(req[q].access)
    BY <1>1 DEF TypeOK, AnswerOf, PoolKept, Stable, Owner, Spares
<1>3. req[q].refresh # None =>
          /\ req[q].refresh \in Session /\ account'[req[q].refresh] = account[req[q].refresh]
          /\ (status[req[q].refresh] = "ended" => status'[req[q].refresh] = "ended")
    BY <1>1 DEF TypeOK, AnswerOf, Stable
<1>4. issued[q] # None => Owner(q)' = Owner(q)
    BY <1>1 DEF TypeOK, PoolKept, Stable, Owner, Spares, Token, Session
<1>5. HandlerOf(q)'
    BY <1>1, <1>2 DEF HandlerOf, Spares
<1>6. AnswerOf(q)'
    BY <1>1, <1>2, <1>3, <1>4 DEF AnswerOf, Spares, Stable
<1> QED BY <1>5, <1>6

LEMMA HandlerSafe ==
    ASSUME SafeInv, NEW r \in Request, Handler(r)
    PROVE  SafeInv'
<1>1. /\ TypeOK' /\ PoolKept' /\ Stable
      /\ \A q \in Request \ {r} : Spares(q)
      /\ HandlerOf(r)' /\ AnswerOf(r)'
      /\ jar' = jar /\ waiting' = waiting /\ overlapped' = overlapped /\ signedOut' = signedOut
      /\ \A q \in Request : /\ req'[q].access = req[q].access
                            /\ req'[q].refresh = req[q].refresh
    BY HandlerKeeps DEF client
<1>2. RequestsKept'
    BY <1>1, SparedKept DEF RequestsKept
<1>3. JarKept' /\ JarOfOneSession' /\ SignedOutStaysOut'
    BY <1>1 DEF SafeInv, TypeOK, Jar, JarKept, JarOfOneSession, SignedOutStaysOut, Stable
<1>4. SerialKept'
    BY <1>1 DEF SafeInv, TypeOK, SerialKept
<1> QED BY <1>1, <1>2, <1>3, <1>4 DEF SafeInv

-----------------------------------------------------------------------------
(* The browser's steps, and the clock.                                     *)

\* The jar of a browser that waits is what r carried, less what has aged.
LEMMA Carried ==
    ASSUME SafeInv, NEW r \in waiting, ~overlapped
    PROVE  /\ waiting = {r}
           /\ jar.refresh # None =>
                  /\ jar.refresh = req[r].refresh /\ jar.access = req[r].access
                  /\ issued[jar.access] = jar.refresh
           /\ signedOut => req[r].refresh = None
BY DEF SafeInv, SerialKept, JarKept, JarOfOneSession

LEMMA SendSafe ==
    ASSUME SafeInv, NEW r \in Request,
           NEW op \in {"login", "refresh", "logout", "delete"}, NEW a \in Account \cup {None},
           NEW first \in {"signIn", "verify", "signOut", "admit"},
           Send(r, op, a, first),
           <<op, first>> \in {<<"login", "signIn">>, <<"refresh", "verify">>,
                             <<"logout", "signOut">>, <<"delete", "admit">>},
           op = "login" => a \in Account
    PROVE  SafeInv'
<1>1. /\ UNCHANGED <<jar, signedOut, answer, pool>>
      /\ step[r] = "new" /\ step'[r] = first
      /\ req'[r] = [op |-> op, account |-> a, access |-> jar.access, refresh |-> jar.refresh]
      /\ \A q \in Request \ {r} : step'[q] = step[q] /\ req'[q] = req[q]
      /\ waiting' = waiting \cup {r}
      /\ overlapped' = (overlapped \/ waiting # {})
      /\ jar.access \in Token \cup {None} /\ jar.refresh \in Session \cup {None}
    BY DEF Send, SafeInv, TypeOK, Jar
<1>2. TypeOK'
    <2>1. req' \in [Request -> [op : {"none", "login", "refresh", "logout", "delete"},
                               account : Account \cup {None},
                               access : Token \cup {None}, refresh : Session \cup {None}]]
        BY <1>1 DEF SafeInv, TypeOK, Send
    <2>2. step' \in [Request -> {"new", "answered", "signIn", "me", "verify", "renew", "signOut",
                             "admit", "getUser", "checkPassword", "deleteUser"}]
        BY <1>1 DEF SafeInv, TypeOK, Send
    <2> QED BY <1>1, <2>1, <2>2 DEF SafeInv, TypeOK, pool
<1>3. PoolKept' /\ JarKept'
    BY <1>1 DEF SafeInv, PoolKept, JarKept, pool
<1>4. RequestsKept'
    <2>1. ASSUME NEW q \in Request \ {r} PROVE HandlerOf(q)' /\ AnswerOf(q)'
        BY <1>1, <2>1 DEF SafeInv, RequestsKept, HandlerOf, AnswerOf, Owner, pool
    <2>2. HandlerOf(r) /\ AnswerOf(r) /\ JarKept
        BY DEF SafeInv, RequestsKept
    <2>3. HandlerOf(r)'
        BY <1>1, <2>2, SessionsAssumption DEF HandlerOf, pool, LoginSteps, RefreshSteps, DeleteSteps
    <2>4. AnswerOf(r)'
        BY <1>1, <2>2 DEF HandlerOf, AnswerOf, JarKept, pool
    <2> QED BY <2>1, <2>3, <2>4 DEF RequestsKept
<1>5. SerialKept'
    <2>1. CASE ~overlapped /\ waiting = {}
        <3>1. waiting' = {r}
            BY <1>1, <2>1
        <3>2. signedOut' => jar.refresh = None
            BY <1>1, <2>1 DEF SafeInv, SignedOutStaysOut, Empty
        <3> QED BY <1>1, <3>1, <3>2 DEF SerialKept
    <2>2. CASE overlapped \/ waiting # {}
        BY <1>1, <2>2 DEF SerialKept
    <2> QED BY <2>1, <2>2
<1>6. JarOfOneSession' /\ SignedOutStaysOut'
    BY <1>1 DEF SafeInv, JarOfOneSession, SignedOutStaysOut, pool
<1> QED BY <1>2, <1>3, <1>4, <1>5, <1>6 DEF SafeInv

\* What an answer does to a jar that lost nothing of the pool's to others.
LEMMA ReceiveSafe ==
    ASSUME SafeInv, NEW r \in Request, Receive(r)
    PROVE  /\ SafeInv'
           /\ ~overlapped /\ jar.refresh # None /\ jar'.refresh = None =>
                  status[jar.refresh] = "ended"
<1>1. /\ r \in waiting /\ waiting' = waiting \ {r}
      /\ UNCHANGED <<pool, step, req, answer, overlapped>>
      /\ answer[r] \in {"error", "both", "access", "clear"}
      /\ HandlerOf(r) /\ AnswerOf(r)
    BY DEF Receive, SafeInv, TypeOK, RequestsKept
<1>2. ~overlapped => waiting' = {}
    BY <1>1, Carried
<1>3. /\ RequestsKept' /\ PoolKept' /\ SerialKept'
    <2>1. ASSUME NEW q \in Request PROVE HandlerOf(q)' /\ AnswerOf(q)'
        BY <1>1 DEF SafeInv, RequestsKept, HandlerOf, AnswerOf, Owner, pool
    <2> QED BY <1>1, <1>2, <2>1 DEF RequestsKept, SafeInv, PoolKept, SerialKept, pool
<1>4. signedOut' \in BOOLEAN /\ (signedOut' => signedOut \/ answer[r] = "clear")
    BY DEF Receive, SafeInv, TypeOK
<1>5. CASE answer[r] = "error"
    <2>1. jar' = jar
        BY <1>5 DEF Receive
    <2> QED BY <1>1, <1>3, <1>4, <1>5, <2>1
            DEF SafeInv, TypeOK, JarKept, JarOfOneSession, SignedOutStaysOut, pool
<1>6. CASE answer[r] = "both"
    <2>1. jar' = SetBoth(r) /\ signedOut' = FALSE
        BY <1>6 DEF Receive
    <2>2. issued[r] = r /\ account[r] # None /\ r # None /\ r \in Token /\ r \in Session
        BY <1>1, <1>6, SessionsAssumption DEF AnswerOf, SafeInv, PoolKept, Token, Session
    <2>3. jar' \in Jar
        BY <2>1, <2>2, SessionsAssumption DEF SetBoth, Jar
    <2>4. TypeOK'
        BY <1>1, <1>4, <2>3 DEF SafeInv, TypeOK, pool
    <2>5. JarKept' /\ JarOfOneSession' /\ jar'.refresh # None
        BY <1>1, <2>1, <2>2 DEF SetBoth, JarKept, JarOfOneSession, pool
    <2> QED BY <1>3, <2>1, <2>4, <2>5 DEF SafeInv, SignedOutStaysOut
<1>7. CASE answer[r] = "access"
    <2>1. jar' = SetAccess(r) /\ jar \in Jar
        BY <1>7 DEF Receive, SafeInv, TypeOK
    <2>2. issued[r] = req[r].refresh /\ req[r].refresh # None /\ r # None /\ r \in Token
        BY <1>1, <1>7, SessionsAssumption DEF AnswerOf, Token
    <2>3. /\ jar'.access = r /\ jar'.accessAge = 0
          /\ jar'.refresh = jar.refresh /\ jar'.refreshAge = jar.refreshAge
          /\ jar' \in Jar /\ jar.refreshAge \in Nat
        <3>1. /\ jar.refresh \in Session \cup {None} /\ jar.refreshAge \in 0..MaxAge
              /\ 0 \in 0..MaxAge
            BY <2>1, SessionsAssumption DEF Jar
        <3>2. jar' = [access |-> r, accessAge |-> 0,
                      refresh |-> jar.refresh, refreshAge |-> jar.refreshAge]
            BY <2>1 DEF SetAccess, Jar
        <3>3. jar.refreshAge \in Nat
            BY <3>1, SessionsAssumption
        <3> QED BY <2>2, <3>1, <3>2, <3>3 DEF Jar
    <2>4. TypeOK'
        BY <1>1, <1>4, <2>3 DEF SafeInv, TypeOK, pool
    <2>5. JarKept'
        BY <1>1, <2>2, <2>3 DEF SafeInv, JarKept, pool
    <2>6. JarOfOneSession' /\ SignedOutStaysOut'
        BY <1>1, <1>4, <1>7, <2>2, <2>3, Carried DEF JarOfOneSession, SignedOutStaysOut, pool
    <2> QED BY <1>3, <2>3, <2>4, <2>5, <2>6 DEF SafeInv
<1>8. CASE answer[r] = "clear"
    <2>1. jar' = Empty
        BY <1>8 DEF Receive
    <2>2. jar' \in Jar
        BY <2>1, SessionsAssumption DEF Empty, Jar
    <2>3. TypeOK'
        BY <1>1, <1>4, <2>2 DEF SafeInv, TypeOK, pool
    <2>4. JarKept' /\ JarOfOneSession' /\ SignedOutStaysOut'
        BY <2>1 DEF Empty, JarKept, JarOfOneSession, SignedOutStaysOut
    <2>5. ASSUME ~overlapped, jar.refresh # None PROVE status[jar.refresh] = "ended"
        <3>1. /\ jar.refresh = req[r].refresh /\ jar.access = req[r].access
              /\ issued[jar.access] = jar.refresh /\ jar.refresh \in Session
            BY <1>1, <2>5, Carried DEF SafeInv, TypeOK, Jar
        <3>2. CASE req[r].op = "logout"
            BY <1>1, <1>8, <2>5, <3>1, <3>2 DEF AnswerOf
        <3>3. CASE req[r].op # "logout"
            BY <1>1, <1>8, <3>1, <3>3 DEF AnswerOf, Owner, SafeInv, PoolKept
        <3> QED BY <3>2, <3>3
    <2> QED BY <1>3, <2>3, <2>4, <2>5 DEF SafeInv
<1> QED BY <1>1, <1>5, <1>6, <1>7, <1>8

LEMMA GiveUpSafe ==
    ASSUME SafeInv, NEW r \in Request, GiveUp(r)
    PROVE  SafeInv'
<1>1. /\ waiting' = waiting \ {r}
      /\ UNCHANGED <<pool, step, req, answer, jar, overlapped, signedOut>>
    BY DEF GiveUp
<1>2. RequestsKept'
    <2>1. ASSUME NEW q \in Request PROVE HandlerOf(q)' /\ AnswerOf(q)'
        BY <1>1 DEF SafeInv, RequestsKept, HandlerOf, AnswerOf, Owner, pool
    <2> QED BY <2>1 DEF RequestsKept
<1>3. TypeOK'
    BY <1>1 DEF SafeInv, TypeOK, pool
<1>4. SerialKept'
    BY <1>1 DEF SafeInv, SerialKept
<1> QED BY <1>1, <1>2, <1>3, <1>4
        DEF SafeInv, PoolKept, JarKept, JarOfOneSession, SignedOutStaysOut, pool

LEMMA TickSafe ==
    ASSUME SafeInv, Tick
    PROVE  SafeInv'
<1>1. /\ UNCHANGED <<pool, step, req, answer, waiting, overlapped, signedOut>>
      /\ jar # Empty /\ jar \in Jar
      /\ jar'.access \in {None, jar.access} /\ jar'.refresh \in {None, jar.refresh}
    BY DEF Tick, SafeInv, TypeOK
<1>2. /\ jar' \in Jar
      /\ jar'.refresh # None => jar'.access = jar.access /\ jar'.accessAge <= jar'.refreshAge
    BY SessionsAssumption DEF Tick, SafeInv, TypeOK, Jar, JarKept
<1>3. RequestsKept'
    <2>1. ASSUME NEW q \in Request PROVE HandlerOf(q)' /\ AnswerOf(q)'
        BY <1>1 DEF SafeInv, RequestsKept, HandlerOf, AnswerOf, Owner, pool
    <2> QED BY <2>1 DEF RequestsKept
<1>4. TypeOK'
    BY <1>1, <1>2 DEF SafeInv, TypeOK, pool
<1>5. JarKept' /\ JarOfOneSession'
    BY <1>1, <1>2 DEF SafeInv, JarKept, JarOfOneSession, pool
<1>6. SerialKept' /\ SignedOutStaysOut'
    BY <1>1 DEF SafeInv, SerialKept, SignedOutStaysOut
<1> QED BY <1>1, <1>3, <1>4, <1>5, <1>6 DEF SafeInv, PoolKept, pool

LEMMA ExpireSafe ==
    ASSUME SafeInv, NEW t \in Token, Expire(t)
    PROVE  SafeInv'
<1>1. UNCHANGED <<jar, waiting, overlapped, signedOut, status, account, issued, gone, step, req, answer>>
      /\ expired' = expired \cup {t}
    BY DEF Expire, client
<1>2. RequestsKept'
    <2>1. ASSUME NEW q \in Request PROVE HandlerOf(q)' /\ AnswerOf(q)'
        BY <1>1 DEF SafeInv, RequestsKept, HandlerOf, AnswerOf, Owner
    <2> QED BY <2>1 DEF RequestsKept
<1>3. TypeOK'
    BY <1>1 DEF SafeInv, TypeOK
<1> QED BY <1>1, <1>2, <1>3
        DEF SafeInv, PoolKept, JarKept, SerialKept, JarOfOneSession, SignedOutStaysOut

LEMMA StutterSafe ==
    ASSUME SafeInv, UNCHANGED vars
    PROVE  SafeInv'
<1>1. RequestsKept'
    <2>1. ASSUME NEW q \in Request PROVE HandlerOf(q)' /\ AnswerOf(q)'
        BY DEF SafeInv, RequestsKept, HandlerOf, AnswerOf, Owner, vars
    <2> QED BY <2>1 DEF RequestsKept
<1>2. TypeOK'
    BY DEF SafeInv, TypeOK, vars
<1> QED BY <1>1, <1>2
        DEF SafeInv, PoolKept, JarKept, SerialKept, JarOfOneSession, SignedOutStaysOut, vars

LEMMA NextSafe ==
    ASSUME SafeInv, [Next]_vars
    PROVE  SafeInv'
<1>1. CASE \E r \in Request, a \in Account : Login(r, a)
    BY <1>1, SendSafe DEF Login
<1>2. CASE \E r \in Request : Refresh(r) \/ Logout(r) \/ DeleteAccount(r)
    <2>1. PICK r \in Request : Refresh(r) \/ Logout(r) \/ DeleteAccount(r)
        BY <1>2
    <2>2. CASE Refresh(r)
        BY <2>2, SendSafe DEF Refresh
    <2>3. CASE Logout(r)
        BY <2>3, SendSafe DEF Logout
    <2>4. CASE DeleteAccount(r)
        BY <2>4, SendSafe DEF DeleteAccount
    <2> QED BY <2>1, <2>2, <2>3, <2>4
<1>3. CASE \E r \in Request : Receive(r) \/ GiveUp(r) \/ Handler(r)
    BY <1>3, ReceiveSafe, GiveUpSafe, HandlerSafe
<1>4. CASE Tick \/ \E t \in Token : Expire(t)
    BY <1>4, TickSafe, ExpireSafe
<1>5. CASE UNCHANGED vars
    BY <1>5, StutterSafe
<1> QED BY <1>1, <1>2, <1>3, <1>4, <1>5 DEF Next, Handler

LEMMA SafeInvariant == Spec => []SafeInv
<1>1. Init => SafeInv
    BY InitSafe
<1>2. SafeInv /\ [Next]_vars => SafeInv'
    BY NextSafe
<1> QED BY <1>1, <1>2, PTL DEF Spec

-----------------------------------------------------------------------------
(* Every variable has its type in every behaviour of the browser, the      *)
(* gateway's /auth routes and the pool.                                    *)
THEOREM TypeCorrect == Spec => []TypeOK
<1>1. SafeInv => TypeOK
    BY DEF SafeInv
<1> QED BY <1>1, SafeInvariant, PTL

(* With any number of requests answered in any order, a browser that has a *)
(* refresh token has the access token /refresh asks for (utils/cookies.py).*)
THEOREM RenewalIsPossible == Spec => []RenewableHasAccess
<1>1. SafeInv => RenewableHasAccess
    BY DEF SafeInv, JarKept, RenewableHasAccess
<1> QED BY <1>1, SafeInvariant, PTL

(* Nobody's session is renewed into another's (AuthService.refresh).       *)
THEOREM RenewalStaysHome == Spec => []RenewalKeepsAccount
<1>1. SafeInv => RenewalKeepsAccount
    BY DEF SafeInv, RequestsKept, AnswerOf, RenewalKeepsAccount
<1> QED BY <1>1, SafeInvariant, PTL

(* A browser that waits for its answers keeps the tokens of one session    *)
(* together (set_session_cookies).                                         *)
THEOREM OneSession == Spec => []JarOfOneSession
<1>1. SafeInv => JarOfOneSession
    BY DEF SafeInv
<1> QED BY <1>1, SafeInvariant, PTL

(* and stays signed out once it is (clear_session_cookies).                *)
THEOREM StaysOut == Spec => []SignedOutStaysOut
<1>1. SafeInv => SignedOutStaysOut
    BY DEF SafeInv
<1> QED BY <1>1, SafeInvariant, PTL

(* Such a browser lets go of a session only when the pool has ended it     *)
(* (AuthService.logout and delete_account).                                *)
THEOREM LetsGoOfEnded == Spec => DropsOnlyEnded
<1> DEFINE Drops == ~overlapped /\ waiting' # waiting /\ jar.refresh # None /\ jar'.refresh = None
                    => status[jar.refresh] = "ended"
<1>1. SafeInv /\ [Next]_vars => [Drops]_vars
    <2> SUFFICES ASSUME SafeInv, Next, waiting' # waiting, jar' # jar PROVE Drops
        BY DEF vars
    <2>1. PICK r \in Request : Receive(r)
        BY DEF Next, Login, Refresh, Logout, DeleteAccount, Send, GiveUp, Tick, Expire, client,
               LoginSignIn, LoginMe, RefreshVerify, RefreshRenew, LogoutSignOut, DeleteAdmit,
               DeleteGetUser, DeleteCheckPassword, DeleteUser, Answer, Fails, Go
    <2> QED BY <2>1, ReceiveSafe
<1>2. Spec => [][Drops]_vars
    BY <1>1, SafeInvariant, PTL DEF Spec
<1> QED BY <1>2 DEF DropsOnlyEnded
=============================================================================
