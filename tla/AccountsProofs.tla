--------------------------- MODULE AccountsProofs ---------------------------
(***************************************************************************)
(* Proofs about Accounts, for any number of requests, accounts, emails and *)
(* handles, and with every kind of fault.                                  *)
(***************************************************************************)
EXTENDS Accounts, TLAPS

DeleteSteps == {"getUser", "checkPassword", "findRow", "deleteRow", "deleteUser"}

\* An id some request has already given to a row, or never will.
Spent(i) == i \in Settled \/ step[i] \in {"me", "meUser", "meRow", "answered"}

\* What an answer may say of account s: its handle, none, or one it is losing.
Told(s, h) ==
    \/ h = None
    \/ \E row \in users : row.sub = s /\ row.handle = h
    \/ DeletionChecked(s)

\* The table's constraints; ids are never reused, nor are settled rows moved.
RowsKept ==
    \A row \in users :
        /\ Spent(row.id)
        /\ row.id \in Settled => row.sub = row.id
        /\ \A other \in users :
              other.id = row.id \/ other.sub = row.sub => other = row

\* An email belongs to one account at a time; no account goes unasked.
PoolKept ==
    /\ \A s, t \in Sub : Exists(s) /\ Exists(t) /\ pool[s].email = pool[t].email => s = t
    /\ \A s \in Sub : pool[s].status = "deleted" => DeletionChecked(s)

\* A request opens one session at most, when its password is checked.
SessionsKept ==
    /\ \A t \in Token : session[t] # "none" => owner[t] \in Sub
    /\ \A r \in Request :
          /\ step[r] \in {"new", "signIn", "getUser", "checkPassword"} => owner[r] = None
          /\ reply[r].is # "nothing" => step[r] = "answered"

\* What the handler of r relies on between its calls.
InputsOf(r) ==
    /\ step[r] \in {"findHandle", "signUp"} =>
           req[r].email \in Email /\ req[r].password \in Password
    /\ step[r] \in {"findHandle", "signUp", "insert", "findSub", "findFree", "insertProfile"} =>
           req[r].handle \in Handle
    /\ step[r] \in {"insert", "findSub", "findFree", "insertProfile", "me", "meUser", "meRow"} =>
           req[r].sub \in Sub
    /\ step[r] = "meUser" => Told(req[r].sub, req[r].handle)

InputsKept == \A r \in Request : InputsOf(r)

\* What was answered is still so.
AnswerOf(r) ==
    reply[r].is = "account" =>
        req[r].sub \in Sub /\ Told(req[r].sub, reply[r].handle)

AnswersKept == \A r \in Request : AnswerOf(r)

\* A deletion holds the token of its own account, and has checked the password
\* of that account before it touches it, unless the account has gone meanwhile;
\* the row it deletes is that account's, the one it had from the start if that
\* is still there.
DeletionOf(r) ==
    /\ step[r] \in DeleteSteps =>
           /\ req[r].op = "delete"
           /\ req[r].sub \in Sub
           /\ req[r].token \in Token
           /\ owner[req[r].token] = req[r].sub
           /\ req[r].token \in Request => step[req[r].token] = "answered"
    /\ step[r] = "checkPassword" =>
           \/ pool[req[r].sub].status = "deleted"
           \/ pool[req[r].sub].status = "confirmed" /\ pool[req[r].sub].email = req[r].email
    /\ step[r] \in {"findRow", "deleteRow", "deleteUser"} =>
           owner[r] = req[r].sub \/ pool[req[r].sub].status = "deleted"
    /\ step[r] = "deleteRow" =>
           /\ req[r].row \in RowId /\ Spent(req[r].row)
           /\ \A row \in users :
                 /\ row.id = req[r].row => row.sub = req[r].sub
                 /\ row.id = req[r].sub => row.id = req[r].row
    /\ step[r] = "deleteUser" => \A row \in users : row.id # req[r].sub

DeletionsKept == \A r \in Request : DeletionOf(r)

SafeInv ==
    /\ TypeOK
    /\ RowsKept
    /\ PoolKept
    /\ SessionsKept
    /\ InputsKept
    /\ AnswersKept
    /\ DeletionsKept
    /\ ProfileGoesFirst

-----------------------------------------------------------------------------
(* Types.                                                                  *)

LEMMA TypeInit == Init => TypeOK
<1> SUFFICES ASSUME Init PROVE TypeOK
    OBVIOUS
<1>1. pool \in [Sub -> Account]
    BY AccountsAssumption DEF Init, Account
<1>2. users \subseteq Row
    BY AccountsAssumption DEF Init, Row, RowId
<1>3. owner \in [Token -> Sub \cup {None}]
    BY AccountsAssumption DEF Init, Token
<1>4. session \in [Token -> {"none", "open", "revoked", "expired"}]
    BY DEF Init
<1>5. step \in [Request -> Step] /\ req \in [Request -> Locals] /\ reply \in [Request -> Response]
    BY DEF Init, Step, NoRequest, Locals, NoReply, Response
<1> QED BY <1>1, <1>2, <1>3, <1>4, <1>5 DEF TypeOK

LEMMA GoTypes ==
    ASSUME TypeOK, NEW r \in Request, NEW next \in Step, Go(r, next)
    PROVE  step' \in [Request -> Step] /\ reply' \in [Request -> Response]
BY DEF TypeOK, Go

LEMMA AnswerTypes ==
    ASSUME TypeOK, NEW r \in Request,
           NEW is \in {"nothing", "account", "deleted"} \cup Errors,
           NEW h \in Handle \cup {None}, Answer(r, is, h)
    PROVE  step' \in [Request -> Step] /\ reply' \in [Request -> Response]
<1>1. [is |-> is, handle |-> h] \in Response
    BY DEF Response
<1>2. "answered" \in Step
    BY DEF Step
<1> QED BY <1>1, <1>2 DEF TypeOK, Answer

LEMMA UnheardTypes ==
    ASSUME TypeOK, NEW r \in Request, NEW failures \in SUBSET Errors, Unheard(r, failures)
    PROVE  step' \in [Request -> Step] /\ reply' \in [Request -> Response]
<1>1. PICK is \in failures : Answer(r, is, None)
    BY DEF Unheard
<1> QED BY <1>1, AnswerTypes

LEMMA RefuseTypes ==
    ASSUME TypeOK, NEW r \in Request, NEW is \in Errors, Refuse(r, is)
    PROVE  TypeOK'
<1>1. step' \in [Request -> Step] /\ reply' \in [Request -> Response]
    BY AnswerTypes DEF Refuse
<1> QED BY <1>1 DEF TypeOK, Refuse, state

LEMMA LocalsTyped ==
    ASSUME TypeOK, NEW r \in Request
    PROVE  /\ \A h \in Handle \cup {None} : [req EXCEPT ![r].handle = h] \in [Request -> Locals]
           /\ \A e \in Email \cup {None} : [req EXCEPT ![r].email = e] \in [Request -> Locals]
           /\ \A i \in RowId \cup {None}, h \in Handle \cup {None} :
                  [req EXCEPT ![r].row = i, ![r].handle = h] \in [Request -> Locals]
<1>1. ASSUME NEW h \in Handle \cup {None}
      PROVE  [req EXCEPT ![r].handle = h] \in [Request -> Locals]
    BY DEF TypeOK, Locals
<1>2. ASSUME NEW e \in Email \cup {None}
      PROVE  [req EXCEPT ![r].email = e] \in [Request -> Locals]
    BY DEF TypeOK, Locals
<1>3. ASSUME NEW i \in RowId \cup {None}, NEW h \in Handle \cup {None}
      PROVE  [req EXCEPT ![r].row = i, ![r].handle = h] \in [Request -> Locals]
    <2>1. [req[r] EXCEPT !.row = i, !.handle = h] \in Locals
        BY DEF TypeOK, Locals
    <2>2. [req EXCEPT ![r].row = i, ![r].handle = h]
              = [req EXCEPT ![r] = [req[r] EXCEPT !.row = i, !.handle = h]]
        BY DEF TypeOK, Locals
    <2> QED BY <2>1, <2>2 DEF TypeOK
<1> QED BY <1>1, <1>2, <1>3

LEMMA StartTypes ==
    ASSUME TypeOK, NEW r \in Request, NEW first \in Step, NEW request \in Locals,
           Start(r, first, request)
    PROVE  TypeOK'
<1>1. step' \in [Request -> Step] /\ reply' \in [Request -> Response]
    BY GoTypes DEF Start
<1> QED BY <1>1 DEF TypeOK, Start, state

LEMMA ArrivesTypes ==
    ASSUME TypeOK, SessionsKept, NEW r \in Request, Arrives(r)
    PROVE  TypeOK'
<1>1. CASE \E h \in Handle, e \in Email, p \in Password : Register(r, h, e, p)
    <2>1. PICK h \in Handle, e \in Email, p \in Password : Register(r, h, e, p)
        BY <1>1
    <2>2. [NoRequest EXCEPT !.op = "register", !.handle = h, !.email = e, !.password = p] \in Locals
        BY DEF NoRequest, Locals
    <2>3. "findHandle" \in Step
        BY DEF Step, InProgress, AsksDatabase
    <2> QED BY <2>1, <2>2, <2>3, StartTypes DEF Register
<1>2. CASE \E e \in Email, p \in Password : Login(r, e, p)
    <2>1. PICK e \in Email, p \in Password : Login(r, e, p)
        BY <1>2
    <2>2. [NoRequest EXCEPT !.op = "login", !.email = e, !.password = p] \in Locals
        BY DEF NoRequest, Locals
    <2>3. "signIn" \in Step
        BY DEF Step, InProgress, AsksPool
    <2> QED BY <2>1, <2>2, <2>3, StartTypes DEF Login
<1>3. CASE \E t \in Token, h \in Handle : CreateProfile(r, t, h)
    <2>1. PICK t \in Token, h \in Handle : CreateProfile(r, t, h)
        BY <1>3
    <2>2. owner[t] \in Sub
        BY <2>1 DEF CreateProfile, Verified, SessionsKept
    <2>3. [NoRequest EXCEPT !.op = "profile", !.handle = h, !.sub = owner[t], !.token = t] \in Locals
        BY <2>2 DEF NoRequest, Locals
    <2>4. "findSub" \in Step
        BY DEF Step, InProgress, AsksDatabase
    <2> QED BY <2>1, <2>3, <2>4, StartTypes DEF CreateProfile
<1>4. CASE \E t \in Token, p \in Password : DeleteAccount(r, t, p)
    <2>1. PICK t \in Token, p \in Password : DeleteAccount(r, t, p)
        BY <1>4
    <2>2. owner[t] \in Sub
        BY <2>1 DEF DeleteAccount, Verified, SessionsKept
    <2>3. [NoRequest EXCEPT !.op = "delete", !.password = p, !.sub = owner[t], !.token = t] \in Locals
        BY <2>2 DEF NoRequest, Locals
    <2>4. "getUser" \in Step
        BY DEF Step, InProgress, AsksPool
    <2> QED BY <2>1, <2>3, <2>4, StartTypes DEF DeleteAccount
<1> QED BY <1>1, <1>2, <1>3, <1>4 DEF Arrives

LEMMA RegisterTypes ==
    ASSUME TypeOK, InputsKept, NEW r \in Request, FindHandle(r) \/ SignUp(r) \/ Insert(r)
    PROVE  TypeOK'
<1> USE DEF Step, InProgress, AsksDatabase, AsksPool, Errors
<1>1. CASE FindHandle(r)
    <2>1. CASE Refuse(r, "handle_taken_error")
        BY <2>1, RefuseTypes
    <2>2. CASE Go(r, "signUp") /\ UNCHANGED <<state, req>>
        <3>1. step' \in [Request -> Step] /\ reply' \in [Request -> Response]
            BY <2>2, GoTypes
        <3> QED BY <2>2, <3>1 DEF TypeOK, state
    <2> QED BY <1>1, <2>1, <2>2 DEF FindHandle
<1>2. CASE SignUp(r)
    <2>1. CASE Refuse(r, "email_already_registered_error")
        BY <2>1, RefuseTypes
    <2>2. ASSUME NEW s \in Sub,
                 pool' = [pool EXCEPT ![s] = [status |-> "unconfirmed",
                                              email |-> req[r].email,
                                              password |-> req[r].password]],
                 \/ Go(r, "insert") /\ req' = [req EXCEPT ![r].sub = s]
                 \/ /\ Unheard(r, {"auth_provider_error", "email_already_registered_error"})
                    /\ UNCHANGED req,
                 UNCHANGED <<users, owner, session>>
          PROVE  TypeOK'
        <3>1. step' \in [Request -> Step] /\ reply' \in [Request -> Response]
            BY <2>2, GoTypes, UnheardTypes
        <3>2. [status |-> "unconfirmed", email |-> req[r].email, password |-> req[r].password]
                  \in Account
            BY <1>2 DEF TypeOK, Locals, Account
        <3>3. pool' \in [Sub -> Account]
            BY <2>2, <3>2 DEF TypeOK
        <3>4. req' \in [Request -> Locals]
            BY <2>2 DEF TypeOK, Locals
        <3> QED BY <2>2, <3>1, <3>3, <3>4 DEF TypeOK
    <2> QED BY <1>2, <2>1, <2>2 DEF SignUp
<1>3. CASE Insert(r)
    <2>1. CASE BrokenRule(r)
        BY <2>1, RefuseTypes DEF BrokenRule
    <2>2. CASE /\ Store(r)
               /\ UNCHANGED req
               /\ \/ Answer(r, "account", req[r].handle)
                  \/ Unheard(r, {"database_unavailable_error"})
        <3>1. req[r].handle \in Handle /\ req[r].sub \in Sub
            BY <1>3 DEF Insert, InputsKept, InputsOf
        <3>2. step' \in [Request -> Step] /\ reply' \in [Request -> Response]
            BY <2>2, <3>1, AnswerTypes, UnheardTypes
        <3>3. users' \subseteq Row
            BY <2>2, <3>1 DEF TypeOK, Store, Row, RowId
        <3> QED BY <2>2, <3>2, <3>3 DEF TypeOK, Store
    <2> QED BY <1>3, <2>1, <2>2 DEF Insert
<1> QED BY <1>1, <1>2, <1>3

LEMMA SignInTypes ==
    ASSUME TypeOK, NEW r \in Request
    PROVE  /\ SignInFails(r) => TypeOK'
           /\ \A s \in Sub : OpenSession(r, s) =>
                  /\ owner' \in [Token -> Sub \cup {None}]
                  /\ session' \in [Token -> {"none", "open", "revoked", "expired"}]
                  /\ UNCHANGED <<pool, users>>
<1>1. SignInFails(r) => TypeOK'
    BY RefuseTypes DEF SignInFails, Errors
<1>2. ASSUME NEW s \in Sub, OpenSession(r, s)
      PROVE  /\ owner' \in [Token -> Sub \cup {None}]
             /\ session' \in [Token -> {"none", "open", "revoked", "expired"}]
             /\ UNCHANGED <<pool, users>>
    BY <1>2 DEF OpenSession, TypeOK
<1> QED BY <1>1, <1>2

LEMMA LoginTypes ==
    ASSUME TypeOK, NEW r \in Request, LoginSignIn(r) \/ MeGetUser(r) \/ MeFindBySub(r)
    PROVE  TypeOK'
<1> USE DEF Step, InProgress, AsksDatabase, AsksPool, Errors
<1>1. CASE LoginSignIn(r)
    <2>1. CASE SignInFails(r)
        BY <2>1, SignInTypes
    <2>2. ASSUME NEW s \in Sub, OpenSession(r, s),
                 \/ /\ Go(r, "me")
                    /\ req' = [req EXCEPT ![r].sub = s, ![r].token = r]
                 \/ Unheard(r, {"auth_provider_error"}) /\ UNCHANGED req
          PROVE  TypeOK'
        <3>1. step' \in [Request -> Step] /\ reply' \in [Request -> Response]
            BY <2>2, GoTypes, UnheardTypes
        <3>2. req' \in [Request -> Locals]
            BY <2>2 DEF TypeOK, Locals, Token
        <3> QED BY <2>2, <3>1, <3>2, SignInTypes DEF TypeOK
    <2> QED BY <1>1, <2>1, <2>2 DEF LoginSignIn
<1>2. CASE MeGetUser(r)
    <2>1. CASE Refuse(r, "not_authenticated_error")
        BY <2>1, RefuseTypes
    <2>2. CASE /\ Go(r, "meRow") \/ Answer(r, "account", req[r].handle)
               /\ UNCHANGED <<state, req>>
        <3>1. req[r].handle \in Handle \cup {None}
            BY DEF TypeOK, Locals
        <3>2. step' \in [Request -> Step] /\ reply' \in [Request -> Response]
            BY <2>2, <3>1, GoTypes, AnswerTypes
        <3> QED BY <2>2, <3>2 DEF TypeOK, state
    <2> QED BY <1>2, <2>1, <2>2 DEF MeGetUser
<1>3. CASE MeFindBySub(r)
    <2>1. PICK row \in Found(req[r].sub) :
              /\ req' = [req EXCEPT ![r].handle = row.handle]
              /\ Go(r, "meUser") \/ Answer(r, "account", row.handle)
        BY <1>3 DEF MeFindBySub
    <2>2. row.handle \in Handle \cup {None}
        BY <2>1 DEF TypeOK, Found, RowsOf, NoRow, Row
    <2>3. step' \in [Request -> Step] /\ reply' \in [Request -> Response]
        BY <2>1, <2>2, GoTypes, AnswerTypes
    <2>4. req' \in [Request -> Locals]
        BY <2>1, <2>2, LocalsTyped
    <2> QED BY <1>3, <2>3, <2>4 DEF TypeOK, MeFindBySub, state
<1> QED BY <1>1, <1>2, <1>3

LEMMA ProfileTypes ==
    ASSUME TypeOK, InputsKept, NEW r \in Request, FindSub(r) \/ FindFree(r) \/ InsertProfile(r)
    PROVE  TypeOK'
<1> USE DEF Step, InProgress, AsksDatabase, AsksPool, Errors
<1>1. CASE FindSub(r) \/ FindFree(r)
    <2>1. CASE \E is \in Errors : Refuse(r, is)
        BY <2>1, RefuseTypes
    <2>2. CASE \E next \in Step : Go(r, next) /\ UNCHANGED <<state, req>>
        <3>1. step' \in [Request -> Step] /\ reply' \in [Request -> Response]
            BY <2>2, GoTypes
        <3> QED BY <2>2, <3>1 DEF TypeOK, state
    <2> QED BY <1>1, <2>1, <2>2 DEF FindSub, FindFree
<1>2. CASE InsertProfile(r)
    <2>1. CASE BrokenRule(r)
        BY <2>1, RefuseTypes DEF BrokenRule
    <2>2. CASE /\ Store(r)
               /\ UNCHANGED req
               /\ Go(r, "me") \/ Unheard(r, {"database_unavailable_error"})
        <3>1. req[r].handle \in Handle /\ req[r].sub \in Sub
            BY <1>2 DEF InsertProfile, InputsKept, InputsOf
        <3>2. step' \in [Request -> Step] /\ reply' \in [Request -> Response]
            BY <2>2, <3>1, GoTypes, UnheardTypes
        <3>3. users' \subseteq Row
            BY <2>2, <3>1 DEF TypeOK, Store, Row, RowId
        <3> QED BY <2>2, <3>2, <3>3 DEF TypeOK, Store
    <2> QED BY <1>2, <2>1, <2>2 DEF InsertProfile
<1> QED BY <1>1, <1>2

LEMMA DeleteTypes ==
    ASSUME TypeOK, DeletionsKept, NEW r \in Request,
           GetUser(r) \/ CheckPassword(r) \/ FindRow(r) \/ DeleteRow(r) \/ DeleteUser(r)
    PROVE  TypeOK'
<1> USE DEF Step, InProgress, AsksDatabase, AsksPool, Errors
<1>1. CASE GetUser(r)
    <2>1. CASE Refuse(r, "not_authenticated_error")
        BY <2>1, RefuseTypes
    <2>2. CASE /\ req' = [req EXCEPT ![r].email = pool[owner[req[r].token]].email]
               /\ Go(r, "checkPassword")
               /\ UNCHANGED state
        <3>1. owner[req[r].token] \in Sub
            BY <1>1 DEF GetUser, DeletionsKept, DeletionOf, DeleteSteps
        <3>2. req' \in [Request -> Locals]
            <4>1. pool[owner[req[r].token]].email \in Email \cup {None}
                BY <3>1 DEF TypeOK, Account
            <4> QED BY <2>2, <4>1, LocalsTyped
        <3>3. step' \in [Request -> Step] /\ reply' \in [Request -> Response]
            BY <2>2, GoTypes
        <3> QED BY <2>2, <3>2, <3>3 DEF TypeOK, state
    <2> QED BY <1>1, <2>1, <2>2 DEF GetUser
<1>2. CASE CheckPassword(r)
    <2>1. CASE SignInFails(r)
        BY <2>1, SignInTypes
    <2>2. ASSUME NEW s \in Sub, OpenSession(r, s),
                 Go(r, "findRow") \/ Unheard(r, {"auth_provider_error"}),
                 UNCHANGED req
          PROVE  TypeOK'
        <3>1. step' \in [Request -> Step] /\ reply' \in [Request -> Response]
            BY <2>2, GoTypes, UnheardTypes
        <3> QED BY <2>2, <3>1, SignInTypes DEF TypeOK
    <2> QED BY <1>2, <2>1, <2>2 DEF CheckPassword
<1>3. CASE FindRow(r)
    <2>1. PICK row \in Found(req[r].sub) :
              /\ req' = [req EXCEPT ![r].row = row.id, ![r].handle = row.handle]
              /\ Go(r, IF row = NoRow THEN "deleteUser" ELSE "deleteRow")
        BY <1>3 DEF FindRow
    <2>2. row.handle \in Handle \cup {None} /\ row.id \in RowId \cup {None}
        BY <2>1 DEF TypeOK, Found, RowsOf, NoRow, Row
    <2>3. step' \in [Request -> Step] /\ reply' \in [Request -> Response]
        BY <2>1, GoTypes
    <2>4. req' \in [Request -> Locals]
        BY <2>1, <2>2, LocalsTyped
    <2> QED BY <1>3, <2>3, <2>4 DEF TypeOK, FindRow, state
<1>4. CASE DeleteRow(r)
    <2>1. step' \in [Request -> Step] /\ reply' \in [Request -> Response]
        BY <1>4, GoTypes, UnheardTypes DEF DeleteRow
    <2> QED BY <1>4, <2>1 DEF TypeOK, DeleteRow
<1>5. CASE DeleteUser(r)
    <2>1. CASE Refuse(r, "not_authenticated_error")
        BY <2>1, RefuseTypes
    <2>2. CASE /\ pool' = [pool EXCEPT ![owner[req[r].token]].status = "deleted"]
               /\ \/ Answer(r, "deleted", None)
                  \/ Unheard(r, {"auth_provider_error", "not_authenticated_error"})
               /\ UNCHANGED <<users, owner, session, req>>
        <3>1. step' \in [Request -> Step] /\ reply' \in [Request -> Response]
            BY <2>2, AnswerTypes, UnheardTypes
        <3>2. pool' \in [Sub -> Account]
            BY <2>2 DEF TypeOK, Account
        <3> QED BY <2>2, <3>1, <3>2 DEF TypeOK
    <2> QED BY <1>5, <2>1, <2>2 DEF DeleteUser
<1> QED BY <1>1, <1>2, <1>3, <1>4, <1>5

LEMMA OtherTypes ==
    ASSUME TypeOK,
           \/ \E r \in Request : CallRefused(r)
           \/ Crash
           \/ \E s \in Sub : Verify(s) \/ \E p \in Password : ResetPassword(s, p)
           \/ \E t \in Token : Logout(t) \/ Expire(t)
           \/ UNCHANGED vars
    PROVE  TypeOK'
<1>1. ASSUME NEW r \in Request, CallRefused(r)
      PROVE  TypeOK'
    BY <1>1, RefuseTypes DEF CallRefused, Errors
<1>2. CASE Crash
    <2>1. step' \in [Request -> Step]
        BY <1>2 DEF Crash, TypeOK, Step
    <2> QED BY <1>2, <2>1 DEF Crash, TypeOK, state
<1>3. ASSUME NEW s \in Sub, Verify(s) \/ \E p \in Password : ResetPassword(s, p)
      PROVE  TypeOK'
    <2>1. pool' \in [Sub -> Account]
        BY <1>3 DEF Verify, ResetPassword, TypeOK, Account
    <2> QED BY <1>3, <2>1 DEF Verify, ResetPassword, TypeOK
<1>4. ASSUME NEW t \in Token, Logout(t) \/ Expire(t)
      PROVE  TypeOK'
    BY <1>4 DEF Logout, Expire, TypeOK
<1>5. CASE UNCHANGED vars
    BY <1>5 DEF vars, TypeOK
<1> QED BY <1>1, <1>2, <1>3, <1>4, <1>5

LEMMA TypeStep ==
    ASSUME TypeOK, SessionsKept, InputsKept, DeletionsKept, [Next]_vars
    PROVE  TypeOK'
<1>1. ASSUME NEW r \in Request, Handles(r)
      PROVE  TypeOK'
    BY <1>1, RegisterTypes, LoginTypes, ProfileTypes, DeleteTypes, OtherTypes DEF Handles
<1> QED BY <1>1, ArrivesTypes, OtherTypes DEF Next

-----------------------------------------------------------------------------
(* What a step leaves alone.                                               *)

\* The handler of r touches nothing that belongs to another request.
LEMMA Alone ==
    ASSUME TypeOK, NEW r \in Request, Arrives(r) \/ Handles(r)
    PROVE  /\ \A q \in Request \ {r} :
                  /\ step'[q] = step[q]
                  /\ req'[q] = req[q]
                  /\ reply'[q] = reply[q]
           /\ \A t \in Token \ {r} : owner'[t] = owner[t] /\ session'[t] = session[t]
<1> DEFINE Ours == \A q \in Request \ {r} :
                       step'[q] = step[q] /\ reply'[q] = reply[q]
           Inputs == \A q \in Request \ {r} : req'[q] = req[q]
           Sessions == \A t \in Token \ {r} : owner'[t] = owner[t] /\ session'[t] = session[t]
<1>1. ASSUME NEW next, Go(r, next)
      PROVE  Ours
    BY <1>1 DEF Go, TypeOK
<1>2. ASSUME NEW is, NEW h, Answer(r, is, h)
      PROVE  Ours
    BY <1>2 DEF Answer, TypeOK
<1>3. ASSUME NEW failures, Unheard(r, failures)
      PROVE  Ours
    BY <1>2, <1>3 DEF Unheard
<1>4. ASSUME NEW is, Refuse(r, is)
      PROVE  Ours /\ Inputs /\ Sessions
    BY <1>2, <1>4 DEF Refuse, state
<1>5. SignInFails(r) => Ours /\ Inputs /\ Sessions
    BY <1>4 DEF SignInFails
<1>6. ASSUME NEW s, OpenSession(r, s)
      PROVE  Sessions
    BY <1>6 DEF OpenSession, TypeOK
<1>7. ASSUME NEW first, NEW request, Start(r, first, request)
      PROVE  Ours /\ Inputs /\ Sessions
    BY <1>1, <1>7 DEF Start, state, TypeOK
<1>8. CASE Arrives(r)
    BY <1>7, <1>8 DEF Arrives, Register, Login, CreateProfile, DeleteAccount
<1>9. CASE FindHandle(r) \/ FindSub(r) \/ FindFree(r)
    BY <1>1, <1>4, <1>9 DEF FindHandle, FindSub, FindFree, state
<1>10. CASE SignUp(r)
    <2>1. CASE Refuse(r, "email_already_registered_error")
        BY <1>4, <2>1
    <2>2. CASE \E s \in Sub :
                  /\ \/ Go(r, "insert") /\ req' = [req EXCEPT ![r].sub = s]
                     \/ /\ Unheard(r, {"auth_provider_error", "email_already_registered_error"})
                        /\ UNCHANGED req
                  /\ UNCHANGED <<users, owner, session>>
        BY <1>1, <1>3, <2>2 DEF TypeOK
    <2> QED BY <1>10, <2>1, <2>2 DEF SignUp
<1>11. CASE Insert(r) \/ InsertProfile(r)
    <2>1. CASE BrokenRule(r)
        BY <1>4, <2>1 DEF BrokenRule
    <2>2. CASE /\ Store(r)
               /\ UNCHANGED req
               /\ \/ Answer(r, "account", req[r].handle)
                  \/ Go(r, "me")
                  \/ Unheard(r, {"database_unavailable_error"})
        BY <1>1, <1>2, <1>3, <2>2 DEF Store
    <2> QED BY <1>11, <2>1, <2>2 DEF Insert, InsertProfile
<1>12. CASE LoginSignIn(r)
    <2>1. ASSUME NEW s \in Sub, OpenSession(r, s),
                 \/ /\ Go(r, "me")
                    /\ req' = [req EXCEPT ![r].sub = s, ![r].token = r]
                 \/ Unheard(r, {"auth_provider_error"}) /\ UNCHANGED req
          PROVE  Ours /\ Inputs /\ Sessions
        BY <1>1, <1>3, <1>6, <2>1 DEF TypeOK
    <2> QED BY <1>5, <1>12, <2>1 DEF LoginSignIn
<1>13. CASE MeGetUser(r)
    BY <1>1, <1>2, <1>4, <1>13 DEF MeGetUser, state
<1>14. CASE MeFindBySub(r)
    BY <1>1, <1>2, <1>14 DEF MeFindBySub, state, TypeOK
<1>15. CASE GetUser(r)
    BY <1>1, <1>4, <1>15 DEF GetUser, state, TypeOK
<1>16. CASE CheckPassword(r)
    BY <1>1, <1>3, <1>5, <1>6, <1>16 DEF CheckPassword
<1>17. CASE FindRow(r)
    BY <1>1, <1>17 DEF FindRow, state, TypeOK
<1>18. CASE DeleteRow(r)
    BY <1>1, <1>3, <1>18 DEF DeleteRow
<1>19. CASE DeleteUser(r)
    BY <1>2, <1>3, <1>4, <1>19 DEF DeleteUser
<1>20. CASE CallRefused(r)
    BY <1>4, <1>20 DEF CallRefused
<1> QED BY <1>8, <1>9, <1>10, <1>11, <1>12, <1>13, <1>14, <1>15, <1>16, <1>17, <1>18, <1>19, <1>20
        DEF Handles

\* The other steps end requests, or change the state of an account or session.
Outside ==
    \/ Crash
    \/ \E s \in Sub : Verify(s) \/ \E p \in Password : ResetPassword(s, p)
    \/ \E t \in Token : Logout(t) \/ Expire(t)
    \/ UNCHANGED vars

LEMMA OutsideSteps ==
    ASSUME TypeOK, Outside
    PROVE  /\ UNCHANGED <<users, owner, req, reply>>
           /\ \A q \in Request : step'[q] = step[q] \/ (step[q] # "new" /\ step'[q] = "answered")
           /\ \A t \in Token : session'[t] # "none" => session[t] # "none"
<1>1. CASE Crash
    BY <1>1 DEF Crash, state, TypeOK, InProgress, AsksDatabase, AsksPool
<1>2. CASE \E s \in Sub : Verify(s) \/ \E p \in Password : ResetPassword(s, p)
    BY <1>2 DEF Verify, ResetPassword
<1>3. CASE \E t \in Token : Logout(t) \/ Expire(t)
    BY <1>3 DEF Logout, Expire, Verified, TypeOK
<1>4. CASE UNCHANGED vars
    BY <1>4 DEF vars
<1> QED BY <1>1, <1>2, <1>3, <1>4 DEF Outside

LEMMA NextCases ==
    ASSUME [Next]_vars
    PROVE  Outside \/ \E r \in Request : Arrives(r) \/ Handles(r)
BY DEF Next, Outside

-----------------------------------------------------------------------------
(* What the handler of r does, whichever call it is at.                    *)

\* The calls in the order the handlers make them.
Order ==
    {<<"new", "findHandle">>, <<"findHandle", "signUp">>, <<"signUp", "insert">>,
     <<"new", "signIn">>, <<"signIn", "me">>,
     <<"new", "findSub">>, <<"findSub", "findFree">>, <<"findFree", "insertProfile">>,
     <<"insertProfile", "me">>, <<"me", "meUser">>, <<"me", "meRow">>,
     <<"new", "getUser">>, <<"getUser", "checkPassword">>, <<"checkPassword", "findRow">>,
     <<"findRow", "deleteRow">>, <<"findRow", "deleteUser">>, <<"deleteRow", "deleteUser">>}

StepMoves(r) ==
    \/ <<step[r], step'[r]>> \in Order /\ UNCHANGED reply
    \/ step[r] \in InProgress /\ step'[r] = "answered"

OpKept(r) == step[r] # "new" => req'[r].op = req[r].op

SessionMoves(r) ==
    \/ UNCHANGED <<owner, session>>
    \/ step[r] \in {"signIn", "checkPassword"} /\ \E s \in Sub : OpenSession(r, s)

PoolMoves(r) ==
    \/ UNCHANGED pool
    \/ /\ step[r] = "signUp"
       /\ \A s \in Sub : ~Registered(req[r].email, s)
       /\ \E s \in Sub :
             /\ pool[s].status = "unused"
             /\ pool' = [pool EXCEPT ![s] = [status |-> "unconfirmed",
                                             email |-> req[r].email,
                                             password |-> req[r].password]]
    \/ /\ step[r] = "deleteUser" /\ Accepted(req[r].token)
       /\ pool' = [pool EXCEPT ![owner[req[r].token]].status = "deleted"]
       /\ UNCHANGED <<users, owner, req>>

RowsMove(r) ==
    \/ UNCHANGED users
    \/ /\ step[r] \in {"insert", "insertProfile"} /\ Store(r)
       /\ step'[r] \in {"me", "answered"}
    \/ /\ step[r] = "deleteRow"
       /\ users' = {row \in users : row.id # req[r].row}

Effects(r) ==
    StepMoves(r) /\ OpKept(r) /\ SessionMoves(r) /\ PoolMoves(r) /\ RowsMove(r)

LEMMA EffectsHold ==
    ASSUME TypeOK, NEW r \in Request, Arrives(r) \/ Handles(r)
    PROVE  Effects(r)
<1> USE DEF Effects, InProgress, AsksDatabase, AsksPool
<1>1. ASSUME NEW next, Go(r, next)
      PROVE  step'[r] = next /\ UNCHANGED reply
    BY <1>1 DEF Go, TypeOK
<1>2. ASSUME NEW is, NEW h, Answer(r, is, h)
      PROVE  step'[r] = "answered"
    BY <1>2 DEF Answer, TypeOK
<1>3. ASSUME NEW failures, Unheard(r, failures)
      PROVE  step'[r] = "answered"
    BY <1>2, <1>3 DEF Unheard
<1>4. ASSUME NEW is, Refuse(r, is), step[r] \in InProgress
      PROVE  Effects(r)
    BY <1>2, <1>4 DEF Refuse, state, StepMoves, OpKept, SessionMoves, PoolMoves, RowsMove
<1>5. ASSUME SignInFails(r), step[r] \in InProgress
      PROVE  Effects(r)
    BY <1>4, <1>5 DEF SignInFails
<1>6. ASSUME NEW is, NEW h, Answer(r, is, h), step[r] \in InProgress
      PROVE  StepMoves(r)
    BY <1>2, <1>6 DEF StepMoves
<1>7. ASSUME NEW failures, Unheard(r, failures), step[r] \in InProgress
      PROVE  StepMoves(r)
    BY <1>3, <1>7 DEF StepMoves
<1>8. CASE Arrives(r)
    <2>1. ASSUME NEW next \in {"findHandle", "signIn", "findSub", "getUser"}, NEW request,
                 Start(r, next, request)
          PROVE  Effects(r)
        BY <1>1, <2>1 DEF Start, state, Order, StepMoves, OpKept, SessionMoves, PoolMoves, RowsMove
    <2> QED BY <1>8, <2>1 DEF Arrives, Register, Login, CreateProfile, DeleteAccount
<1>9. CASE FindHandle(r) \/ FindSub(r) \/ FindFree(r)
    BY <1>1, <1>4, <1>9
       DEF FindHandle, FindSub, FindFree, state, Order, StepMoves, OpKept, SessionMoves, PoolMoves, RowsMove
<1>10. CASE SignUp(r)
    <2>1. CASE Refuse(r, "email_already_registered_error")
        BY <1>4, <1>10, <2>1 DEF SignUp
    <2>2. ASSUME NEW s \in Sub,
                 \A t \in Sub : ~Registered(req[r].email, t),
                 pool[s].status = "unused",
                 pool' = [pool EXCEPT ![s] = [status |-> "unconfirmed",
                                              email |-> req[r].email,
                                              password |-> req[r].password]],
                 \/ Go(r, "insert") /\ req' = [req EXCEPT ![r].sub = s]
                 \/ /\ Unheard(r, {"auth_provider_error", "email_already_registered_error"})
                    /\ UNCHANGED req,
                 UNCHANGED <<users, owner, session>>
          PROVE  Effects(r)
        <3>1. step[r] = "signUp"
            BY <1>10 DEF SignUp
        <3>2. StepMoves(r)
            BY <1>1, <1>7, <2>2, <3>1 DEF StepMoves, Order
        <3>3. OpKept(r)
            BY <2>2 DEF OpKept, TypeOK, Locals
        <3> QED BY <2>2, <3>1, <3>2, <3>3 DEF SessionMoves, PoolMoves, RowsMove
    <2> QED BY <1>10, <2>1, <2>2 DEF SignUp
<1>11. CASE Insert(r) \/ InsertProfile(r)
    <2>1. CASE BrokenRule(r)
        BY <1>4, <1>11, <2>1 DEF BrokenRule, Insert, InsertProfile
    <2>2. CASE /\ Store(r)
               /\ UNCHANGED req
               /\ \/ step[r] = "insert" /\ Answer(r, "account", req[r].handle)
                  \/ step[r] = "insertProfile" /\ Go(r, "me")
                  \/ Unheard(r, {"database_unavailable_error"})
        <3>1. step[r] \in {"insert", "insertProfile"}
            BY <1>11 DEF Insert, InsertProfile
        <3>2. StepMoves(r)
            BY <1>1, <1>6, <1>7, <2>2, <3>1 DEF StepMoves, Order
        <3>3. step'[r] \in {"me", "answered"}
            BY <1>1, <1>2, <1>3, <2>2
        <3> QED BY <2>2, <3>1, <3>2, <3>3 DEF Store, OpKept, SessionMoves, PoolMoves, RowsMove
    <2> QED BY <1>11, <2>1, <2>2 DEF Insert, InsertProfile
<1>12. CASE LoginSignIn(r)
    <2>1. step[r] = "signIn"
        BY <1>12 DEF LoginSignIn
    <2>2. ASSUME NEW s \in Sub, OpenSession(r, s),
                 \/ /\ Go(r, "me")
                    /\ req' = [req EXCEPT ![r].sub = s, ![r].token = r]
                 \/ Unheard(r, {"auth_provider_error"}) /\ UNCHANGED req
          PROVE  Effects(r)
        <3>1. StepMoves(r)
            BY <1>1, <1>7, <2>1, <2>2 DEF StepMoves, Order
        <3>2. OpKept(r)
            BY <2>2 DEF OpKept, TypeOK, Locals
        <3> QED BY <2>1, <2>2, <3>1, <3>2 DEF OpenSession, SessionMoves, PoolMoves, RowsMove
    <2> QED BY <1>5, <1>12, <2>1, <2>2 DEF LoginSignIn
<1>13. CASE MeGetUser(r)
    <2>1. CASE Refuse(r, "not_authenticated_error")
        BY <1>4, <1>13, <2>1 DEF MeGetUser
    <2>2. CASE /\ IF step[r] = "me" THEN Go(r, "meRow") ELSE Answer(r, "account", req[r].handle)
               /\ UNCHANGED <<state, req>>
        <3>1. StepMoves(r)
            BY <1>1, <1>6, <1>13, <2>2 DEF MeGetUser, StepMoves, Order
        <3> QED BY <2>2, <3>1 DEF state, OpKept, SessionMoves, PoolMoves, RowsMove
    <2> QED BY <1>13, <2>1, <2>2 DEF MeGetUser
<1>14. CASE MeFindBySub(r)
    <2>1. StepMoves(r)
        BY <1>1, <1>6, <1>14 DEF MeFindBySub, StepMoves, Order
    <2>2. OpKept(r)
        BY <1>14 DEF MeFindBySub, OpKept, TypeOK, Locals
    <2> QED BY <1>14, <2>1, <2>2 DEF MeFindBySub, state, SessionMoves, PoolMoves, RowsMove
<1>15. CASE GetUser(r)
    <2>1. CASE Refuse(r, "not_authenticated_error")
        BY <1>4, <1>15, <2>1 DEF GetUser
    <2>2. CASE /\ req' = [req EXCEPT ![r].email = pool[owner[req[r].token]].email]
               /\ Go(r, "checkPassword")
               /\ UNCHANGED state
        <3>1. StepMoves(r)
            BY <1>1, <1>15, <2>2 DEF GetUser, StepMoves, Order
        <3>2. OpKept(r)
            BY <2>2 DEF OpKept, TypeOK, Locals
        <3> QED BY <2>2, <3>1, <3>2 DEF state, SessionMoves, PoolMoves, RowsMove
    <2> QED BY <1>15, <2>1, <2>2 DEF GetUser
<1>16. CASE CheckPassword(r)
    <2>1. step[r] = "checkPassword"
        BY <1>16 DEF CheckPassword
    <2>2. ASSUME NEW s \in Sub, OpenSession(r, s),
                 Go(r, "findRow") \/ Unheard(r, {"auth_provider_error"}),
                 UNCHANGED req
          PROVE  Effects(r)
        <3>1. StepMoves(r)
            BY <1>1, <1>7, <2>1, <2>2 DEF StepMoves, Order
        <3> QED BY <2>1, <2>2, <3>1 DEF OpKept, OpenSession, SessionMoves, PoolMoves, RowsMove
    <2> QED BY <1>5, <1>16, <2>1, <2>2 DEF CheckPassword
<1>17. CASE FindRow(r)
    <2>1. StepMoves(r)
        BY <1>1, <1>17 DEF FindRow, StepMoves, Order
    <2>2. OpKept(r)
        BY <1>17 DEF FindRow, OpKept, TypeOK, Locals
    <2> QED BY <1>17, <2>1, <2>2 DEF FindRow, state, SessionMoves, PoolMoves, RowsMove
<1>18. CASE DeleteRow(r)
    <2>1. StepMoves(r)
        BY <1>1, <1>7, <1>18 DEF DeleteRow, StepMoves, Order
    <2> QED BY <1>18, <2>1 DEF DeleteRow, OpKept, SessionMoves, PoolMoves, RowsMove
<1>19. CASE DeleteUser(r)
    <2>1. CASE Refuse(r, "not_authenticated_error")
        BY <1>4, <1>19, <2>1 DEF DeleteUser
    <2>2. CASE /\ Accepted(req[r].token)
               /\ pool' = [pool EXCEPT ![owner[req[r].token]].status = "deleted"]
               /\ \/ Answer(r, "deleted", None)
                  \/ Unheard(r, {"auth_provider_error", "not_authenticated_error"})
               /\ UNCHANGED <<users, owner, session, req>>
        <3>1. step[r] = "deleteUser"
            BY <1>19 DEF DeleteUser
        <3>2. StepMoves(r)
            BY <1>6, <1>7, <2>2, <3>1
        <3> QED BY <2>2, <3>1, <3>2 DEF OpKept, SessionMoves, PoolMoves, RowsMove
    <2> QED BY <1>19, <2>1, <2>2 DEF DeleteUser
<1>20. CASE CallRefused(r)
    BY <1>4, <1>20 DEF CallRefused
<1> QED BY <1>8, <1>9, <1>10, <1>11, <1>12, <1>13, <1>14, <1>15, <1>16, <1>17, <1>18, <1>19, <1>20
        DEF Handles

-----------------------------------------------------------------------------
(* What no step takes back.                                                *)

SpentStays == \A i \in RowId : Spent(i) => Spent(i)'

CheckedStays == \A s \in Sub : DeletionChecked(s) => DeletionChecked(s)'

ToldStays == \A s \in Sub, h \in Handle \cup {None} : Told(s, h) => Told(s, h)'

\* A session no one is opening stays with its account.
OwnersStay ==
    \A t \in Token : (t \in Request => step[t] = "answered") =>
        owner'[t] = owner[t] /\ (t \in Request => step'[t] = "answered")

\* The dead stay dead, and the confirmed keep their email.
AccountsStay ==
    \A s \in Sub :
        /\ pool[s].status = "deleted" => pool'[s].status = "deleted"
        /\ pool[s].status = "confirmed" =>
               \/ pool'[s].status = "deleted"
               \/ pool'[s].status = "confirmed" /\ pool'[s].email = pool[s].email

NewRowsFresh ==
    \A row \in users' :
        \/ row \in users
        \/ /\ row.id \in Request /\ ~Spent(row.id) /\ Spent(row.id)'
           /\ RowsOf(row.sub) = {}
           /\ \A other \in users' : other = row \/ other \in users

Stable == SpentStays /\ CheckedStays /\ ToldStays /\ OwnersStay /\ AccountsStay /\ NewRowsFresh

LEMMA HandlerStable ==
    ASSUME SafeInv, NEW r \in Request, Arrives(r) \/ Handles(r)
    PROVE  Stable
<1> USE DEF SafeInv
<1>1. Effects(r)
    BY EffectsHold
<1>2. /\ \A q \in Request \ {r} : step'[q] = step[q] /\ req'[q] = req[q] /\ reply'[q] = reply[q]
      /\ \A t \in Token \ {r} : owner'[t] = owner[t] /\ session'[t] = session[t]
    BY Alone
<1>3. step[r] # "answered"
    BY <1>1 DEF Effects, StepMoves, Order, InProgress, AsksDatabase, AsksPool
<1>4. \/ step[r] \notin {"me", "meUser", "meRow"}
      \/ step'[r] \in {"meUser", "meRow", "answered"}
    BY <1>1 DEF Effects, StepMoves, Order
<1>5. SpentStays
    BY <1>2, <1>3, <1>4 DEF SpentStays, Spent, RowId
<1>6. OwnersStay
    BY <1>2, <1>3 DEF OwnersStay
<1>7. CheckedStays
    <2> SUFFICES ASSUME NEW s \in Sub, NEW q \in Request, req[q].op = "delete", owner[q] = s
                 PROVE  req'[q].op = "delete" /\ owner'[q] = s
        BY DEF CheckedStays, DeletionChecked
    <2>1. q \in Token
        BY DEF Token
    <2>2. s # None
        BY AccountsAssumption
    <2>3. step[q] \notin {"new", "signIn", "getUser", "checkPassword"}
        BY <2>2 DEF SessionsKept
    <2>4. CASE q # r
        BY <1>2, <2>1, <2>4
    <2>5. CASE q = r
        BY <1>1, <2>3, <2>5 DEF Effects, OpKept, SessionMoves
    <2> QED BY <2>4, <2>5
<1>8. ToldStays
    <2> SUFFICES ASSUME NEW s \in Sub, NEW h \in Handle \cup {None}, Told(s, h)
                 PROVE  Told(s, h)'
        BY DEF ToldStays
    <2>1. CASE h = None
        BY <2>1 DEF Told
    <2>2. CASE DeletionChecked(s)
        BY <1>7, <2>2 DEF CheckedStays, Told
    <2>3. ASSUME NEW row \in users, row.sub = s, row.handle = h
          PROVE  Told(s, h)'
        <3>1. CASE row \in users'
            BY <2>3, <3>1 DEF Told
        <3>2. CASE row \notin users'
            <4>1. step[r] = "deleteRow" /\ row.id = req[r].row
                BY <1>1, <3>2 DEF Effects, RowsMove, Store
            <4>2. req[r].op = "delete" /\ req[r].sub = s
                BY <2>3, <4>1 DEF DeletionsKept, DeletionOf, DeleteSteps
            <4>3. owner[r] = s \/ pool[s].status = "deleted"
                BY <4>1, <4>2 DEF DeletionsKept, DeletionOf
            <4>4. DeletionChecked(s)
                BY <4>2, <4>3 DEF DeletionChecked, PoolKept
            <4> QED BY <1>7, <4>4 DEF CheckedStays, Told
        <3> QED BY <3>1, <3>2
    <2> QED BY <2>1, <2>2, <2>3 DEF Told
<1>9. AccountsStay
    <2> SUFFICES ASSUME NEW s \in Sub
                 PROVE  /\ pool[s].status = "deleted" => pool'[s].status = "deleted"
                        /\ pool[s].status = "confirmed" =>
                               \/ pool'[s].status = "deleted"
                               \/ pool'[s].status = "confirmed" /\ pool'[s].email = pool[s].email
        BY DEF AccountsStay
    <2>1. CASE UNCHANGED pool
        BY <2>1
    <2>2. ASSUME NEW t \in Sub, pool[t].status = "unused",
                 pool' = [pool EXCEPT ![t] = [status |-> "unconfirmed",
                                              email |-> req[r].email,
                                              password |-> req[r].password]]
          PROVE  pool[s].status \in {"deleted", "confirmed"} => pool'[s] = pool[s]
        BY <2>2 DEF TypeOK
    <2>3. CASE pool' = [pool EXCEPT ![owner[req[r].token]].status = "deleted"]
        BY <2>3 DEF TypeOK, Account
    <2> QED BY <1>1, <2>1, <2>2, <2>3 DEF Effects, PoolMoves
<1>10. NewRowsFresh
    <2>1. CASE users' \subseteq users
        BY <2>1 DEF NewRowsFresh
    <2>2. CASE /\ step[r] \in {"insert", "insertProfile"} /\ Store(r)
               /\ step'[r] \in {"me", "answered"}
        <3>1. r \notin Settled
            BY AccountsAssumption
        <3>2. ~Spent(r) /\ Spent(r)'
            BY <2>2, <3>1 DEF Spent
        <3> QED BY <2>2, <3>2 DEF NewRowsFresh, Store
    <2> QED BY <1>1, <2>1, <2>2 DEF Effects, RowsMove
<1> QED BY <1>5, <1>6, <1>7, <1>8, <1>9, <1>10 DEF Stable

LEMMA OutsideStable ==
    ASSUME SafeInv, Outside
    PROVE  Stable
<1> USE DEF SafeInv
<1>1. /\ UNCHANGED <<users, owner, req, reply>>
      /\ \A q \in Request : step'[q] = step[q] \/ (step[q] # "new" /\ step'[q] = "answered")
    BY OutsideSteps
<1>2. AccountsStay
    <2>1. UNCHANGED pool => AccountsStay
        BY DEF AccountsStay
    <2>2. ASSUME NEW s \in Sub, Verify(s) \/ \E p \in Password : ResetPassword(s, p)
          PROVE  AccountsStay
        BY <2>2 DEF AccountsStay, Verify, ResetPassword, TypeOK, Account
    <2> QED BY <2>1, <2>2 DEF Outside, Crash, state, Logout, Expire, vars
<1>3. SpentStays
    BY <1>1 DEF SpentStays, Spent, RowId
<1>4. CheckedStays
    BY <1>1 DEF CheckedStays, DeletionChecked
<1>5. ToldStays
    BY <1>1, <1>4 DEF ToldStays, Told, CheckedStays
<1> QED BY <1>1, <1>2, <1>3, <1>4, <1>5 DEF Stable, OwnersStay, NewRowsFresh

\* What is kept for one request.
KeptFor(r) == InputsOf(r) /\ AnswerOf(r) /\ DeletionOf(r)

\* A request that is not being served, or only ends, keeps what it had.
LEMMA BystanderKept ==
    ASSUME SafeInv, Stable, NEW q \in Request,
           req'[q] = req[q], reply'[q] = reply[q], owner'[q] = owner[q],
           step'[q] \in {step[q], "answered"}
    PROVE  KeptFor(q)'
<1> USE DEF SafeInv
<1>1. InputsOf(q)'
    <2>1. InputsOf(q)
        BY DEF InputsKept
    <2>2. req[q].handle \in Handle \cup {None}
        BY DEF TypeOK, Locals
    <2> QED BY <2>1, <2>2 DEF InputsOf, Stable, ToldStays
<1>2. AnswerOf(q)'
    <2>1. AnswerOf(q)
        BY DEF AnswersKept
    <2>2. reply[q].handle \in Handle \cup {None}
        BY DEF TypeOK, Response
    <2> QED BY <2>1, <2>2 DEF AnswerOf, Stable, ToldStays
<1>3. DeletionOf(q)'
    <2> SUFFICES ASSUME step'[q] = step[q], step[q] \in DeleteSteps
                 PROVE  DeletionOf(q)'
        BY DEF DeletionOf, DeleteSteps
    <2>1. DeletionOf(q)
        BY DEF DeletionsKept
    <2>2. req[q].sub \in Sub
        BY <2>1 DEF DeletionOf
    <2>3. \A row \in users' : row \in users
              \/ (row.id \in Request /\ ~Spent(row.id) /\ row.id # req[q].sub)
        BY <2>2, AccountsAssumption DEF Stable, NewRowsFresh
    <2>4. step'[q] \in DeleteSteps =>
              /\ req'[q].op = "delete"
              /\ req'[q].sub \in Sub
              /\ req'[q].token \in Token
              /\ owner'[req'[q].token] = req'[q].sub
              /\ req'[q].token \in Request => step'[req'[q].token] = "answered"
        BY <2>1 DEF DeletionOf, Stable, OwnersStay
    <2>5. step'[q] = "checkPassword" =>
              \/ pool'[req'[q].sub].status = "deleted"
              \/ pool'[req'[q].sub].status = "confirmed" /\ pool'[req'[q].sub].email = req'[q].email
        BY <2>1, <2>2 DEF DeletionOf, Stable, AccountsStay
    <2>6. step'[q] \in {"findRow", "deleteRow", "deleteUser"} =>
              owner'[q] = req'[q].sub \/ pool'[req'[q].sub].status = "deleted"
        BY <2>1, <2>2 DEF DeletionOf, Stable, AccountsStay
    <2>7. step'[q] = "deleteRow" =>
              /\ req'[q].row \in RowId /\ Spent(req[q].row)'
              /\ \A row \in users' :
                    /\ row.id = req'[q].row => row.sub = req'[q].sub
                    /\ row.id = req'[q].sub => row.id = req'[q].row
        <3>1. step[q] = "deleteRow" => req[q].row \in RowId /\ Spent(req[q].row)
            BY <2>1 DEF DeletionOf
        <3>2. step[q] = "deleteRow" => Spent(req[q].row)'
            BY <3>1 DEF Stable, SpentStays, Spent
        <3> QED BY <2>1, <2>3, <3>1, <3>2 DEF DeletionOf
    <2>8. step'[q] = "deleteUser" => \A row \in users' : row.id # req'[q].sub
        BY <2>1, <2>3 DEF DeletionOf
    <2> QED BY <2>4, <2>5, <2>6, <2>7, <2>8 DEF DeletionOf
<1> QED BY <1>1, <1>2, <1>3 DEF KeptFor
-----------------------------------------------------------------------------
(* What a request has after a step of its own.                             *)

LEMMA EndedKept ==
    ASSUME SafeInv, NEW r \in Request, NEW is \in Errors \cup {"deleted"},
           Answer(r, is, None)
    PROVE  KeptFor(r)'
<1>1. step'[r] = "answered" /\ reply'[r].is = is
    BY DEF SafeInv, TypeOK, Answer
<1> QED BY <1>1 DEF KeptFor, InputsOf, AnswerOf, DeletionOf, DeleteSteps, Errors

LEMMA UnheardKept ==
    ASSUME SafeInv, NEW r \in Request, NEW failures \in SUBSET Errors, Unheard(r, failures)
    PROVE  KeptFor(r)'
BY EndedKept DEF Unheard

LEMMA RefuseKept ==
    ASSUME SafeInv, NEW r \in Request, NEW is \in Errors, Refuse(r, is)
    PROVE  KeptFor(r)'
BY EndedKept DEF Refuse

\* Going on, the answer is still to come.
LEMMA GoKept ==
    ASSUME SafeInv, NEW r \in Request, NEW next \in Step \ {"answered"}, Go(r, next),
           step[r] # "answered"
    PROVE  step'[r] = next /\ AnswerOf(r)'
BY DEF SafeInv, TypeOK, SessionsKept, Go, AnswerOf

\* No handler but a deletion's is at a step of a deletion.
LEMMA OthersDeleteNothing ==
    ASSUME NEW r \in Request, step'[r] \notin DeleteSteps
    PROVE  DeletionOf(r)'
BY DEF DeletionOf, DeleteSteps

LEMMA ArrivesKept ==
    ASSUME SafeInv, NEW r \in Request, Arrives(r)
    PROVE  KeptFor(r)'
<1> USE DEF SafeInv, Step, InProgress, AsksDatabase, AsksPool
<1>0. ASSUME NEW first \in Step \ {"answered"}, NEW request, Start(r, first, request)
      PROVE  step'[r] = first /\ req'[r] = request /\ AnswerOf(r)'
    BY <1>0, GoKept DEF Start, TypeOK
<1>1. CASE \E h \in Handle, e \in Email, p \in Password : Register(r, h, e, p)
    <2>1. PICK h \in Handle, e \in Email, p \in Password : Register(r, h, e, p)
        BY <1>1
    <2>2. step'[r] = "findHandle" /\ AnswerOf(r)'
        BY <1>0, <2>1 DEF Register
    <2>3. req'[r].handle = h /\ req'[r].email = e /\ req'[r].password = p
        <3>1. req'[r] = [NoRequest EXCEPT !.op = "register", !.handle = h, !.email = e, !.password = p]
            BY <1>0, <2>1 DEF Register
        <3> QED BY <3>1 DEF NoRequest
    <2> QED BY <2>2, <2>3, OthersDeleteNothing DEF KeptFor, InputsOf, DeleteSteps
<1>2. CASE \E e \in Email, p \in Password : Login(r, e, p)
    <2>1. step'[r] = "signIn" /\ AnswerOf(r)'
        BY <1>0, <1>2 DEF Login
    <2> QED BY <2>1, OthersDeleteNothing DEF KeptFor, InputsOf, DeleteSteps
<1>3. CASE \E t \in Token, h \in Handle : CreateProfile(r, t, h)
    <2>1. PICK t \in Token, h \in Handle : CreateProfile(r, t, h)
        BY <1>3
    <2>2. owner[t] \in Sub
        BY <2>1 DEF CreateProfile, Verified, SessionsKept
    <2>3. step'[r] = "findSub" /\ AnswerOf(r)'
        BY <1>0, <2>1 DEF CreateProfile
    <2>4. req'[r].handle = h /\ req'[r].sub = owner[t]
        <3>1. req'[r] = [NoRequest EXCEPT !.op = "profile", !.handle = h, !.sub = owner[t], !.token = t]
            BY <1>0, <2>1 DEF CreateProfile
        <3> QED BY <3>1 DEF NoRequest
    <2> QED BY <2>2, <2>3, <2>4, OthersDeleteNothing DEF KeptFor, InputsOf, DeleteSteps
<1>4. CASE \E t \in Token, p \in Password : DeleteAccount(r, t, p)
    <2>1. PICK t \in Token, p \in Password : DeleteAccount(r, t, p)
        BY <1>4
    <2>2. owner[t] \in Sub
        BY <2>1 DEF DeleteAccount, Verified, SessionsKept
    <2>3. step'[r] = "getUser" /\ AnswerOf(r)'
        BY <1>0, <2>1 DEF DeleteAccount
    <2>4. req'[r].op = "delete" /\ req'[r].sub = owner[t] /\ req'[r].token = t
        <3>1. req'[r] = [NoRequest EXCEPT !.op = "delete", !.password = p, !.sub = owner[t], !.token = t]
            BY <1>0, <2>1 DEF DeleteAccount
        <3> QED BY <3>1 DEF NoRequest
    <2>5. t \in Request => step[t] = "answered" /\ step'[t] = "answered"
        <3>1. t \in Request => step[t] = "answered"
            BY <2>1 DEF DeleteAccount, Held, SessionsKept
        <3> QED BY <3>1, <2>1, HandlerStable DEF Stable, OwnersStay
    <2>6. owner' = owner
        BY <2>1 DEF DeleteAccount, Start, state
    <2> QED BY <2>2, <2>3, <2>4, <2>5, <2>6 DEF KeptFor, InputsOf, DeletionOf, DeleteSteps
<1> QED BY <1>1, <1>2, <1>3, <1>4 DEF Arrives

\* What is stored is told.
LEMMA StoreTold ==
    ASSUME SafeInv, NEW r \in Request, Store(r), UNCHANGED req
    PROVE  Told(req[r].sub, req[r].handle)'
<1>1. [id |-> r, sub |-> req[r].sub, handle |-> req[r].handle] \in users'
    BY DEF Store
<1> QED BY <1>1 DEF Told

LEMMA RegisterKept ==
    ASSUME SafeInv, NEW r \in Request, FindHandle(r) \/ SignUp(r) \/ Insert(r)
    PROVE  KeptFor(r)'
<1> USE DEF SafeInv, Step, InProgress, AsksDatabase, AsksPool, Errors, DeleteSteps
<1>0. InputsOf(r)
    BY DEF InputsKept
<1>1. CASE FindHandle(r)
    <2>1. CASE Go(r, "signUp") /\ UNCHANGED <<state, req>>
        <3>1. step'[r] = "signUp" /\ AnswerOf(r)'
            BY <1>1, <2>1, GoKept DEF FindHandle
        <3> QED BY <1>0, <1>1, <2>1, <3>1, OthersDeleteNothing DEF FindHandle, KeptFor, InputsOf
    <2> QED BY <1>1, <2>1, RefuseKept DEF FindHandle
<1>2. CASE SignUp(r)
    <2>1. ASSUME NEW s \in Sub, Go(r, "insert"), req' = [req EXCEPT ![r].sub = s]
          PROVE  KeptFor(r)'
        <3>1. step'[r] = "insert" /\ AnswerOf(r)'
            BY <1>2, <2>1, GoKept DEF SignUp
        <3>2. req'[r].sub = s /\ req'[r].handle = req[r].handle
            BY <2>1 DEF TypeOK, Locals
        <3> QED BY <1>0, <1>2, <3>1, <3>2, OthersDeleteNothing DEF SignUp, KeptFor, InputsOf
    <2>2. CASE Unheard(r, {"auth_provider_error", "email_already_registered_error"})
        BY <2>2, UnheardKept
    <2> QED BY <1>2, <2>1, <2>2, RefuseKept DEF SignUp
<1>3. CASE Insert(r)
    <2>1. CASE BrokenRule(r)
        BY <2>1, RefuseKept DEF BrokenRule
    <2>2. CASE Store(r) /\ UNCHANGED req /\ Answer(r, "account", req[r].handle)
        <3>1. step'[r] = "answered" /\ reply'[r].handle = req[r].handle
            BY <2>2 DEF Answer, TypeOK
        <3>2. req'[r].sub \in Sub
            BY <1>0, <1>3, <2>2 DEF Insert, InputsOf
        <3>3. Told(req[r].sub, reply[r].handle)'
            BY <2>2, <3>1, StoreTold DEF Told
        <3> QED BY <3>1, <3>2, <3>3, OthersDeleteNothing DEF KeptFor, InputsOf, AnswerOf
    <2> QED BY <1>3, <2>1, <2>2, UnheardKept DEF Insert
<1> QED BY <1>1, <1>2, <1>3

LEMMA LoginKept ==
    ASSUME SafeInv, NEW r \in Request, LoginSignIn(r) \/ MeGetUser(r) \/ MeFindBySub(r)
    PROVE  KeptFor(r)'
<1> USE DEF SafeInv, Step, InProgress, AsksDatabase, AsksPool, Errors, DeleteSteps
<1>0. InputsOf(r)
    BY DEF InputsKept
<1>1. CASE LoginSignIn(r)
    <2>1. ASSUME NEW s \in Sub, Go(r, "me"),
                 req' = [req EXCEPT ![r].sub = s, ![r].token = r]
          PROVE  KeptFor(r)'
        <3>1. step'[r] = "me" /\ AnswerOf(r)'
            BY <1>1, <2>1, GoKept DEF LoginSignIn
        <3>2. req'[r].sub = s
            BY <2>1 DEF TypeOK, Locals
        <3> QED BY <3>1, <3>2, OthersDeleteNothing DEF KeptFor, InputsOf
    <2>2. SignInFails(r) => KeptFor(r)'
        BY RefuseKept DEF SignInFails
    <2> QED BY <1>1, <2>1, <2>2, UnheardKept DEF LoginSignIn
<1>2. CASE MeGetUser(r)
    <2>1. CASE step[r] = "me" /\ Go(r, "meRow") /\ UNCHANGED req
        <3>1. step'[r] = "meRow" /\ AnswerOf(r)'
            BY <2>1, GoKept
        <3> QED BY <1>0, <2>1, <3>1, OthersDeleteNothing DEF KeptFor, InputsOf
    <2>2. CASE step[r] = "meUser" /\ Answer(r, "account", req[r].handle) /\ UNCHANGED <<state, req>>
        <3>1. step'[r] = "answered" /\ reply'[r].handle = req[r].handle
            BY <2>2 DEF Answer, TypeOK
        <3>2. Told(req[r].sub, reply[r].handle)'
            BY <1>0, <2>2, <3>1 DEF InputsOf, Told, DeletionChecked, state
        <3> QED BY <1>0, <2>2, <3>1, <3>2, OthersDeleteNothing DEF KeptFor, InputsOf, AnswerOf
    <2> QED BY <1>2, <2>1, <2>2, RefuseKept DEF MeGetUser
<1>3. CASE MeFindBySub(r)
    <2>1. PICK row \in Found(req[r].sub) :
              /\ req' = [req EXCEPT ![r].handle = row.handle]
              /\ IF step[r] = "me" THEN Go(r, "meUser") ELSE Answer(r, "account", row.handle)
        BY <1>3 DEF MeFindBySub
    <2>2. req'[r].sub = req[r].sub /\ req'[r].handle = row.handle
        BY <2>1 DEF TypeOK, Locals
    <2>3. req[r].sub \in Sub
        BY <1>0, <1>3 DEF MeFindBySub, InputsOf
    <2>4. row.handle = None \/ \E found \in users' : found.sub = req'[r].sub /\ found.handle = row.handle
        BY <1>3, <2>1, <2>2 DEF MeFindBySub, state, Found, RowsOf, NoRow
    <2>5. CASE step[r] = "me"
        <3>1. step'[r] = "meUser" /\ AnswerOf(r)'
            BY <2>1, <2>5, GoKept
        <3>2. Told(req[r].sub, req[r].handle)'
            BY <2>2, <2>4 DEF Told
        <3> QED BY <2>2, <2>3, <3>1, <3>2, OthersDeleteNothing DEF KeptFor, InputsOf
    <2>6. CASE step[r] = "meRow"
        <3>1. step'[r] = "answered" /\ reply'[r].handle = row.handle
            BY <2>1, <2>6 DEF Answer, TypeOK
        <3>2. Told(req[r].sub, reply[r].handle)'
            BY <2>4, <3>1 DEF Told
        <3> QED BY <2>2, <2>3, <3>1, <3>2, OthersDeleteNothing DEF KeptFor, InputsOf, AnswerOf
    <2> QED BY <1>3, <2>5, <2>6 DEF MeFindBySub
<1> QED BY <1>1, <1>2, <1>3

LEMMA ProfileKept ==
    ASSUME SafeInv, NEW r \in Request, FindSub(r) \/ FindFree(r) \/ InsertProfile(r)
    PROVE  KeptFor(r)'
<1> USE DEF SafeInv, Step, InProgress, AsksDatabase, AsksPool, Errors, DeleteSteps
<1>0. InputsOf(r)
    BY DEF InputsKept
<1>1. CASE FindSub(r)
    <2>1. CASE Go(r, "findFree") /\ UNCHANGED req
        <3>1. step'[r] = "findFree" /\ AnswerOf(r)'
            BY <1>1, <2>1, GoKept DEF FindSub
        <3> QED BY <1>0, <1>1, <2>1, <3>1, OthersDeleteNothing DEF FindSub, KeptFor, InputsOf
    <2> QED BY <1>1, <2>1, RefuseKept DEF FindSub
<1>2. CASE FindFree(r)
    <2>1. CASE Go(r, "insertProfile") /\ UNCHANGED req
        <3>1. step'[r] = "insertProfile" /\ AnswerOf(r)'
            BY <1>2, <2>1, GoKept DEF FindFree
        <3> QED BY <1>0, <1>2, <2>1, <3>1, OthersDeleteNothing DEF FindFree, KeptFor, InputsOf
    <2> QED BY <1>2, <2>1, RefuseKept DEF FindFree
<1>3. CASE InsertProfile(r)
    <2>1. CASE BrokenRule(r)
        BY <2>1, RefuseKept DEF BrokenRule
    <2>2. CASE UNCHANGED req /\ Go(r, "me")
        <3>1. step'[r] = "me" /\ AnswerOf(r)'
            BY <1>3, <2>2, GoKept DEF InsertProfile
        <3> QED BY <1>0, <1>3, <2>2, <3>1, OthersDeleteNothing DEF InsertProfile, KeptFor, InputsOf
    <2> QED BY <1>3, <2>1, <2>2, UnheardKept DEF InsertProfile
<1> QED BY <1>1, <1>2, <1>3

\* A deletion that goes on keeps what it came with.
LEMMA DeletionGoes ==
    ASSUME SafeInv, NEW r \in Request, NEW next \in DeleteSteps, Go(r, next),
           step[r] \in DeleteSteps, Stable,
           req'[r].op = req[r].op, req'[r].sub = req[r].sub, req'[r].token = req[r].token
    PROVE  /\ step'[r] = next /\ AnswerOf(r)' /\ InputsOf(r)'
           /\ req'[r].op = "delete"
           /\ req'[r].sub \in Sub
           /\ req'[r].token \in Token
           /\ owner'[req'[r].token] = req'[r].sub
           /\ req'[r].token \in Request => step'[req'[r].token] = "answered"
<1> USE DEF SafeInv
<1>1. step'[r] = next /\ AnswerOf(r)'
    BY GoKept DEF Step, InProgress, AsksDatabase, AsksPool, DeleteSteps
<1>2. InputsOf(r)'
    BY <1>1 DEF InputsOf, DeleteSteps
<1>3. DeletionOf(r)
    BY DEF DeletionsKept
<1> QED BY <1>1, <1>2, <1>3 DEF DeletionOf, Stable, OwnersStay

LEMMA DeleteKept ==
    ASSUME SafeInv, NEW r \in Request, Handles(r),
           GetUser(r) \/ CheckPassword(r) \/ FindRow(r) \/ DeleteRow(r) \/ DeleteUser(r)
    PROVE  KeptFor(r)'
<1> USE DEF SafeInv, DeleteSteps, Errors
<1>1. DeletionOf(r)
    BY DEF DeletionsKept
<1>2. Stable
    BY HandlerStable
<1>3. step[r] \in DeleteSteps
    BY DEF GetUser, CheckPassword, FindRow, DeleteRow, DeleteUser
<1>4. req[r].sub \in Sub
    BY <1>1, <1>3 DEF DeletionOf
<1>5. CASE GetUser(r)
    <2>1. CASE /\ Accepted(req[r].token)
               /\ req' = [req EXCEPT ![r].email = pool[owner[req[r].token]].email]
               /\ Go(r, "checkPassword")
               /\ UNCHANGED state
        <3>1. /\ req'[r].op = req[r].op /\ req'[r].sub = req[r].sub
              /\ req'[r].token = req[r].token
              /\ req'[r].email = pool[owner[req[r].token]].email
            BY <2>1 DEF TypeOK, Locals
        <3>2. owner[req[r].token] = req[r].sub
            BY <1>1, <1>3 DEF DeletionOf
        <3>3. /\ pool'[req'[r].sub].status = "confirmed"
              /\ pool'[req'[r].sub].email = req'[r].email
            BY <2>1, <3>1, <3>2 DEF Accepted, state
        <3> QED BY <1>2, <1>3, <2>1, <3>1, <3>3, DeletionGoes DEF KeptFor, DeletionOf
    <2> QED BY <1>5, <2>1, RefuseKept DEF GetUser
<1>6. CASE CheckPassword(r)
    <2>1. ASSUME NEW s \in Sub, OpenSession(r, s), Go(r, "findRow"), UNCHANGED req
          PROVE  KeptFor(r)'
        <3>1. Exists(s) /\ pool[s].email = req[r].email
            BY <2>1 DEF OpenSession, Matches, Registered
        <3>2. s = req[r].sub \/ pool[req[r].sub].status = "deleted"
            BY <1>1, <1>4, <1>6, <3>1 DEF CheckPassword, DeletionOf, PoolKept, Exists
        <3>3. owner'[r] = s /\ pool' = pool
            BY <2>1 DEF OpenSession, TypeOK, Token
        <3> QED BY <1>2, <1>3, <2>1, <3>2, <3>3, DeletionGoes DEF KeptFor, DeletionOf
    <2>2. SignInFails(r) => KeptFor(r)'
        BY RefuseKept DEF SignInFails
    <2> QED BY <1>6, <2>1, <2>2, UnheardKept DEF CheckPassword
<1>7. CASE FindRow(r)
    <2>1. PICK row \in Found(req[r].sub) :
              /\ req' = [req EXCEPT ![r].row = row.id, ![r].handle = row.handle]
              /\ Go(r, IF row = NoRow THEN "deleteUser" ELSE "deleteRow")
        BY <1>7 DEF FindRow
    <2>2. /\ req'[r].op = req[r].op /\ req'[r].sub = req[r].sub
          /\ req'[r].token = req[r].token /\ req'[r].row = row.id
        <3>1. req'[r] = [req[r] EXCEPT !.row = row.id, !.handle = row.handle]
            BY <2>1 DEF TypeOK, Locals
        <3> QED BY <3>1 DEF TypeOK, Locals
    <2>3. UNCHANGED state
        BY <1>7 DEF FindRow
    <2>4. owner'[r] = req'[r].sub \/ pool'[req'[r].sub].status = "deleted"
        BY <1>1, <1>7, <2>2, <2>3 DEF FindRow, DeletionOf, state
    <2>5. \A other \in users : other.id = req[r].sub => other.sub = req[r].sub
        BY <1>4, AccountsAssumption DEF RowsKept, TypeOK, Row, RowId
    <2>6. CASE RowsOf(req[r].sub) = {}
        <3>1. Go(r, "deleteUser")
            BY <2>1, <2>6 DEF Found
        <3>2. \A other \in users' : other.id # req'[r].sub
            BY <2>2, <2>3, <2>5, <2>6 DEF RowsOf, state
        <3> QED BY <1>2, <1>3, <2>2, <2>4, <3>1, <3>2, DeletionGoes DEF KeptFor, DeletionOf
    <2>7. CASE RowsOf(req[r].sub) # {}
        <3>1. row \in users /\ row.sub = req[r].sub
            BY <2>1, <2>7 DEF Found, RowsOf
        <3>2. row # NoRow
            BY <3>1, <1>4, AccountsAssumption DEF NoRow
        <3>3. Go(r, "deleteRow")
            BY <2>1, <3>2
        <3>4. req'[r].row \in RowId /\ Spent(req'[r].row)
            BY <2>2, <3>1 DEF RowsKept, TypeOK, Row
        <3>5. Spent(req[r].row)'
            BY <1>2, <2>2, <3>4 DEF Stable, SpentStays, Spent
        <3>6. \A other \in users' :
                  /\ other.id = req'[r].row => other.sub = req'[r].sub
                  /\ other.id = req'[r].sub => other.id = req'[r].row
            BY <2>2, <2>3, <2>5, <3>1 DEF RowsKept, state
        <3> QED BY <1>2, <1>3, <2>2, <2>4, <3>3, <3>4, <3>5, <3>6, DeletionGoes
                DEF KeptFor, DeletionOf
    <2> QED BY <2>6, <2>7
<1>8. CASE DeleteRow(r)
    <2>1. CASE Go(r, "deleteUser")
        <3>1. UNCHANGED <<pool, owner, req>>
            BY <1>8 DEF DeleteRow
        <3>2. owner'[r] = req'[r].sub \/ pool'[req'[r].sub].status = "deleted"
            BY <1>1, <1>8, <3>1 DEF DeleteRow, DeletionOf
        <3>3. \A row \in users' : row.id # req'[r].sub
            BY <1>1, <1>8, <3>1 DEF DeleteRow, DeletionOf
        <3> QED BY <1>2, <1>3, <2>1, <3>1, <3>2, <3>3, DeletionGoes DEF KeptFor, DeletionOf
    <2> QED BY <1>8, <2>1, UnheardKept DEF DeleteRow
<1>9. CASE DeleteUser(r)
    BY <1>9, RefuseKept, UnheardKept, EndedKept DEF DeleteUser
<1> QED BY <1>5, <1>6, <1>7, <1>8, <1>9

LEMMA HandlerKept ==
    ASSUME SafeInv, NEW r \in Request, Arrives(r) \/ Handles(r)
    PROVE  \A q \in Request : KeptFor(q)'
<1>1. KeptFor(r)'
    <2>1. CASE CallRefused(r)
        BY <2>1, RefuseKept DEF CallRefused, Errors
    <2> QED BY <2>1, ArrivesKept, RegisterKept, LoginKept, ProfileKept, DeleteKept DEF Handles
<1>2. ASSUME NEW q \in Request \ {r}
      PROVE  KeptFor(q)'
    <2>1. q \in Token
        BY DEF Token
    <2>2. step'[q] = step[q] /\ req'[q] = req[q] /\ reply'[q] = reply[q] /\ owner'[q] = owner[q]
        BY <2>1, Alone DEF SafeInv
    <2> QED BY <2>2, HandlerStable, BystanderKept
<1> QED BY <1>1, <1>2

LEMMA OutsideKept ==
    ASSUME SafeInv, Outside
    PROVE  \A q \in Request : KeptFor(q)'
<1>1. /\ UNCHANGED <<owner, req, reply>>
      /\ \A q \in Request : step'[q] \in {step[q], "answered"}
    BY OutsideSteps DEF SafeInv
<1> QED BY <1>1, OutsideStable, BystanderKept

-----------------------------------------------------------------------------
(* What the accounts and rows have after a step.                           *)

LEMMA RowsStep ==
    ASSUME SafeInv, Stable,
           users' \subseteq users \/ \E r \in Request : Store(r)
    PROVE  RowsKept'
<1> USE DEF SafeInv
<1> SUFFICES ASSUME NEW row \in users'
             PROVE  /\ Spent(row.id)'
                    /\ row.id \in Settled => row.sub = row.id
                    /\ \A other \in users' :
                          other.id = row.id \/ other.sub = row.sub => other = row
    BY DEF RowsKept
<1>1. CASE row \in users
    <2>1. row.id \in RowId /\ Spent(row.id)
        BY <1>1 DEF TypeOK, Row, RowsKept
    <2>2. Spent(row.id)'
        BY <2>1 DEF Stable, SpentStays
    <2>3. row.id \in Settled => row.sub = row.id
        BY <1>1 DEF RowsKept
    <2>4. \A other \in users' : other.id = row.id \/ other.sub = row.sub => other = row
        BY <1>1, <2>1 DEF RowsKept, Stable, NewRowsFresh, RowsOf
    <2> QED BY <2>2, <2>3, <2>4
<1>2. CASE row \notin users
    <2>1. /\ row.id \in Request /\ ~Spent(row.id) /\ Spent(row.id)'
          /\ RowsOf(row.sub) = {}
          /\ \A other \in users' : other = row \/ other \in users
        BY <1>2 DEF Stable, NewRowsFresh
    <2>2. row.id \notin Settled
        BY <2>1 DEF Spent
    <2>3. \A other \in users : other.id # row.id /\ other.sub # row.sub
        BY <2>1 DEF RowsKept, RowsOf
    <2> QED BY <2>1, <2>2, <2>3
<1> QED BY <1>1, <1>2

LEMMA PoolStep ==
    ASSUME SafeInv, Stable,
           Outside \/ \E r \in Request : Effects(r)
    PROVE  PoolKept'
<1> USE DEF SafeInv
<1> DEFINE Shrinks == \A s \in Sub :
               /\ Exists(s)' => Exists(s) /\ pool'[s].email = pool[s].email
               /\ pool'[s].status = "deleted" => DeletionChecked(s)
<1>1. Shrinks => PoolKept'
    BY DEF PoolKept, Stable, CheckedStays
<1>2. UNCHANGED pool => Shrinks
    BY DEF PoolKept, Exists
<1>3. CASE Outside
    <2>1. ASSUME NEW s \in Sub, Verify(s) \/ \E p \in Password : ResetPassword(s, p)
          PROVE  Shrinks
        BY <2>1 DEF Verify, ResetPassword, TypeOK, Account, PoolKept, Exists
    <2> QED BY <1>1, <1>2, <1>3, <2>1 DEF Outside, Crash, state, Logout, Expire, vars
<1>4. ASSUME NEW r \in Request, Effects(r)
      PROVE  PoolKept'
    <2>1. CASE UNCHANGED pool
        BY <1>1, <1>2, <2>1
    <2>2. ASSUME NEW s \in Sub, pool[s].status = "unused",
                 \A t \in Sub : ~Registered(req[r].email, t),
                 pool' = [pool EXCEPT ![s] = [status |-> "unconfirmed",
                                              email |-> req[r].email,
                                              password |-> req[r].password]]
          PROVE  PoolKept'
        <3>1. pool'[s].status = "unconfirmed" /\ pool'[s].email = req[r].email
            BY <2>2 DEF TypeOK
        <3>2. \A t \in Sub \ {s} : pool'[t] = pool[t]
            BY <2>2 DEF TypeOK
        <3>3. \A t \in Sub : Exists(t) => pool[t].email # req[r].email
            BY <2>2 DEF Registered
        <3>4. \A t \in Sub : pool'[t].status = "deleted" => DeletionChecked(t)'
            BY <3>1, <3>2 DEF PoolKept, Stable, CheckedStays
        <3>5. \A t, u \in Sub : Exists(t)' /\ Exists(u)' /\ pool'[t].email = pool'[u].email => t = u
            BY <3>1, <3>2, <3>3 DEF PoolKept, Exists
        <3> QED BY <3>4, <3>5 DEF PoolKept
    <2>3. CASE /\ step[r] = "deleteUser" /\ Accepted(req[r].token)
               /\ pool' = [pool EXCEPT ![owner[req[r].token]].status = "deleted"]
        <3>1. DeletionOf(r)
            BY DEF DeletionsKept
        <3>2. /\ req[r].op = "delete" /\ req[r].sub \in Sub
              /\ owner[req[r].token] = req[r].sub
              /\ owner[r] = req[r].sub \/ pool[req[r].sub].status = "deleted"
            BY <2>3, <3>1 DEF DeletionOf, DeleteSteps
        <3>3. DeletionChecked(req[r].sub)
            BY <2>3, <3>2 DEF Accepted, DeletionChecked
        <3>4. \A t \in Sub \ {req[r].sub} : pool'[t] = pool[t]
            BY <2>3, <3>2 DEF TypeOK
        <3>5. pool'[req[r].sub].status = "deleted"
            BY <2>3, <3>2 DEF TypeOK, Account
        <3>6. Shrinks
            BY <3>3, <3>4, <3>5 DEF PoolKept, Exists
        <3> QED BY <1>1, <3>6
    <2> QED BY <1>4, <2>1, <2>2, <2>3 DEF Effects, PoolMoves
<1> QED BY <1>3, <1>4

LEMMA SessionsStep ==
    ASSUME SafeInv, Outside \/ \E r \in Request : Arrives(r) \/ Handles(r)
    PROVE  SessionsKept'
<1> USE DEF SafeInv
<1>1. CASE Outside
    BY <1>1, OutsideSteps DEF SessionsKept
<1>2. ASSUME NEW r \in Request, Arrives(r) \/ Handles(r)
      PROVE  SessionsKept'
    <2>1. Effects(r)
        BY <1>2, EffectsHold
    <2>2. /\ \A q \in Request \ {r} : step'[q] = step[q] /\ reply'[q] = reply[q]
          /\ \A t \in Token \ {r} : owner'[t] = owner[t] /\ session'[t] = session[t]
        BY <1>2, Alone
    <2>3. r \in Token
        BY DEF Token
    <2>4. session'[r] # "none" => owner'[r] \in Sub
        BY <2>1, <2>3 DEF Effects, SessionMoves, OpenSession, SessionsKept, TypeOK
    <2>5. step'[r] \in {"new", "signIn", "getUser", "checkPassword"} => owner'[r] = None
        BY <2>1 DEF Effects, StepMoves, SessionMoves, Order, SessionsKept
    <2>6. reply'[r].is # "nothing" => step'[r] = "answered"
        <3>1. step[r] # "answered"
            BY <2>1 DEF Effects, StepMoves, Order, InProgress, AsksDatabase, AsksPool
        <3>2. reply[r].is = "nothing"
            BY <3>1 DEF SessionsKept
        <3>3. reply'[r] = reply[r] \/ step'[r] = "answered"
            BY <2>1 DEF Effects, StepMoves
        <3> QED BY <3>2, <3>3
    <2> QED BY <2>2, <2>4, <2>5, <2>6 DEF SessionsKept, Token
<1> QED BY <1>1, <1>2

LEMMA ProfileStep ==
    ASSUME SafeInv, Stable,
           Outside \/ \E r \in Request : Effects(r)
    PROVE  ProfileGoesFirst'
<1> USE DEF SafeInv
<1> SUFFICES ASSUME NEW s \in Settled, pool'[s].status = "deleted", NEW row \in users'
             PROVE  row.id # s
    BY DEF ProfileGoesFirst
<1>1. s \in Sub /\ s \notin Request
    BY AccountsAssumption
<1>2. row \in users \/ row.id \in Request
    BY DEF Stable, NewRowsFresh
<1>3. CASE pool[s].status = "deleted"
    BY <1>1, <1>2, <1>3 DEF ProfileGoesFirst
<1>4. CASE pool[s].status # "deleted"
    <2>1. ~Outside
        BY <1>1, <1>4 DEF Outside, Crash, state, Logout, Expire, vars, Verify, ResetPassword, TypeOK, Account
    <2>2. PICK r \in Request : Effects(r)
        BY <2>1
    <2>3. /\ step[r] = "deleteUser"
          /\ pool' = [pool EXCEPT ![owner[req[r].token]].status = "deleted"]
          /\ users' = users
        BY <1>1, <1>4, <2>2 DEF Effects, PoolMoves, TypeOK
    <2>4. owner[req[r].token] = s
        BY <1>1, <1>4, <2>3 DEF TypeOK
    <2>5. req[r].sub = s
        BY <2>3, <2>4 DEF DeletionsKept, DeletionOf, DeleteSteps
    <2> QED BY <2>3, <2>5 DEF DeletionsKept, DeletionOf
<1> QED BY <1>3, <1>4
-----------------------------------------------------------------------------
(* The theorems.                                                           *)

LEMMA InitSafe == Init => SafeInv
<1> SUFFICES ASSUME Init PROVE SafeInv
    OBVIOUS
<1>1. TypeOK
    BY TypeInit
<1>2. RowsKept
    BY AccountsAssumption DEF Init, RowsKept, Spent
<1>3. PoolKept
    BY AccountsAssumption DEF Init, PoolKept, Exists
<1>4. SessionsKept
    BY AccountsAssumption DEF Init, SessionsKept, Token, NoReply
<1>5. InputsKept
    BY DEF Init, InputsKept, InputsOf
<1>6. AnswersKept
    BY DEF Init, AnswersKept, AnswerOf, NoReply
<1>7. DeletionsKept
    BY DEF Init, DeletionsKept, DeletionOf, DeleteSteps
<1>8. ProfileGoesFirst
    BY AccountsAssumption DEF Init, ProfileGoesFirst
<1> QED BY <1>1, <1>2, <1>3, <1>4, <1>5, <1>6, <1>7, <1>8 DEF SafeInv

LEMMA NextSafe == SafeInv /\ [Next]_vars => SafeInv'
<1> SUFFICES ASSUME SafeInv, [Next]_vars PROVE SafeInv'
    OBVIOUS
<1>1. TypeOK'
    BY TypeStep DEF SafeInv
<1>2. CASE Outside
    <2>1. Stable /\ UNCHANGED users
        BY <1>2, OutsideStable, OutsideSteps DEF SafeInv
    <2>2. RowsKept' /\ PoolKept' /\ SessionsKept' /\ ProfileGoesFirst'
        BY <1>2, <2>1, RowsStep, PoolStep, SessionsStep, ProfileStep
    <2>3. \A q \in Request : KeptFor(q)'
        BY <1>2, OutsideKept
    <2> QED BY <1>1, <2>2, <2>3 DEF KeptFor, SafeInv, InputsKept, AnswersKept, DeletionsKept
<1>3. ASSUME NEW r \in Request, Arrives(r) \/ Handles(r)
      PROVE  SafeInv'
    <2>1. Stable /\ Effects(r)
        BY <1>3, HandlerStable, EffectsHold DEF SafeInv
    <2>2. users' \subseteq users \/ Store(r)
        BY <2>1 DEF Effects, RowsMove
    <2>3. RowsKept' /\ PoolKept' /\ SessionsKept' /\ ProfileGoesFirst'
        BY <1>3, <2>1, <2>2, RowsStep, PoolStep, SessionsStep, ProfileStep
    <2>4. \A q \in Request : KeptFor(q)'
        BY <1>3, HandlerKept
    <2> QED BY <1>1, <2>3, <2>4 DEF KeptFor, SafeInv, InputsKept, AnswersKept, DeletionsKept
<1> QED BY <1>2, <1>3, NextCases

(* The inductive invariant holds of the accounts in every behaviour.       *)
THEOREM SafeInvariant == Spec => []SafeInv
<1> QED BY InitSafe, NextSafe, PTL DEF Spec

(* Every variable has its type, whatever requests come, fail and overlap.  *)
THEOREM TypeCorrect == Spec => []TypeOK
<1>1. SafeInv => TypeOK
    BY DEF SafeInv
<1> QED BY <1>1, SafeInvariant, PTL

(* A handle told to its account is still in the table under that account,  *)
(* unless a deletion of the account has checked its password.              *)
THEOREM HandleKept == Spec => []HandleIsKept
<1>1. SafeInv => HandleIsKept
    BY DEF SafeInv, AnswersKept, AnswerOf, HandleIsKept, Told
<1> QED BY <1>1, SafeInvariant, PTL

(* An account that is gone took its first profile with it.                 *)
THEOREM ProfileFirst == Spec => []ProfileGoesFirst
<1>1. SafeInv => ProfileGoesFirst
    BY DEF SafeInv
<1> QED BY <1>1, SafeInvariant, PTL

(* Only a request that has had the password of the account checked deletes *)
(* it: the email that was checked still belonged to it, or the deletion    *)
(* finds the account gone.                                                 *)
THEOREM OwnAccountOnly == Spec => OnlyOwnAccountDeleted
<1> DEFINE Deletes(s) == pool[s].status # "deleted" /\ pool'[s].status = "deleted"
           Checked(s) == \E r \in Request : step[r] = "deleteUser" /\ owner[r] = s
<1>1. SafeInv /\ [Next]_vars => [\A s \in Sub : Deletes(s) => Checked(s)]_vars
    <2> SUFFICES ASSUME SafeInv, [Next]_vars, NEW s \in Sub, Deletes(s)
                 PROVE  Checked(s)
        OBVIOUS
    <2> USE DEF SafeInv
    <2>1. ~Outside
        BY DEF Outside, Crash, state, Logout, Expire, vars, Verify, ResetPassword, TypeOK, Account
    <2>2. PICK r \in Request : Effects(r)
        BY <2>1, NextCases, EffectsHold
    <2>3. /\ step[r] = "deleteUser"
          /\ pool' = [pool EXCEPT ![owner[req[r].token]].status = "deleted"]
        BY <2>2 DEF Effects, PoolMoves, TypeOK
    <2>4. owner[req[r].token] = s
        BY <2>3 DEF TypeOK
    <2>5. req[r].sub = s /\ owner[r] = s
        BY <2>3, <2>4 DEF DeletionsKept, DeletionOf, DeleteSteps
    <2> QED BY <2>3, <2>5
<1> QED BY <1>1, SafeInvariant, PTL DEF Spec, OnlyOwnAccountDeleted

-----------------------------------------------------------------------------
(* What create_profile answers.                                            *)

\* The row that request r inserted is there with handle h, or its account is
\* being deleted.
OwnRow(r, h) ==
    \/ [id |-> r, sub |-> req[r].sub, handle |-> h] \in users
    \/ DeletionChecked(req[r].sub)

\* Between its insert and its answer create_profile has its row.
ProfileOf(r) ==
    /\ step[r] = "signIn" => req[r].op # "profile"
    /\ req[r].op = "profile" =>
           /\ step[r] \in {"me", "meRow"} => \E h \in Handle : OwnRow(r, h)
           /\ step[r] = "meUser" => OwnRow(r, req[r].handle)
           /\ reply[r].is = "account" => OwnRow(r, reply[r].handle)

ProfilesKept == \A r \in Request : ProfileOf(r)

LEMMA OwnRowStays ==
    ASSUME SafeInv, [Next]_vars, NEW r \in Request, NEW h,
           req[r].sub \in Sub, req'[r].sub = req[r].sub, OwnRow(r, h)
    PROVE  OwnRow(r, h)'
<1> USE DEF SafeInv
<1> DEFINE mine == [id |-> r, sub |-> req[r].sub, handle |-> h]
<1>1. Stable
    BY NextCases, HandlerStable, OutsideStable
<1>2. DeletionChecked(req[r].sub) => OwnRow(r, h)'
    BY <1>1 DEF Stable, CheckedStays, OwnRow
<1>3. CASE mine \in users /\ mine \in users'
    BY <1>3 DEF OwnRow
<1>4. CASE mine \in users /\ mine \notin users'
    <2>1. PICK q \in Request : Effects(q)
        BY <1>4, NextCases, OutsideSteps, EffectsHold
    <2>2. step[q] = "deleteRow" /\ mine.id = req[q].row
        BY <1>4, <2>1 DEF Effects, RowsMove, Store
    <2>3. req[q].op = "delete" /\ req[q].sub = req[r].sub
        BY <1>4, <2>2 DEF DeletionsKept, DeletionOf, DeleteSteps
    <2>4. owner[q] = req[r].sub \/ pool[req[r].sub].status = "deleted"
        BY <2>2, <2>3 DEF DeletionsKept, DeletionOf
    <2>5. DeletionChecked(req[r].sub)
        BY <2>3, <2>4 DEF DeletionChecked, PoolKept
    <2> QED BY <1>2, <2>5
<1> QED BY <1>2, <1>3, <1>4 DEF OwnRow

\* The row find_by_sub finds for the request is its own.
LEMMA FindsOwn ==
    ASSUME SafeInv, NEW r \in Request, req[r].sub \in Sub, NEW h, OwnRow(r, h),
           NEW row \in Found(req[r].sub)
    PROVE  OwnRow(r, row.handle)
<1> DEFINE mine == [id |-> r, sub |-> req[r].sub, handle |-> h]
<1>1. CASE mine \in users
    <2>1. mine \in RowsOf(req[r].sub)
        BY <1>1 DEF RowsOf
    <2>2. row \in users /\ row.sub = mine.sub
        BY <2>1 DEF Found, RowsOf
    <2>3. row = mine
        BY <1>1, <2>2 DEF SafeInv, RowsKept
    <2> QED BY <1>1, <2>3 DEF OwnRow
<1> QED BY <1>1 DEF OwnRow

\* Which calls lead to the two reads, and which are answered with an account.
LEMMA WhoReads ==
    ASSUME SafeInv, NEW r \in Request, Arrives(r) \/ Handles(r)
    PROVE  /\ step'[r] = "signIn" => req'[r].op # "profile"
           /\ step'[r] = "me" =>
                  step[r] = "signIn" \/ (InsertProfile(r) /\ Store(r) /\ UNCHANGED req)
           /\ step'[r] = "meRow" => step[r] = "me" /\ UNCHANGED <<users, req>>
           /\ step'[r] = "meUser" => step[r] = "me" /\ MeFindBySub(r)
           /\ reply'[r].is = "account" =>
                  \/ step[r] = "insert" /\ Store(r) /\ UNCHANGED req
                        /\ reply'[r].handle = req[r].handle
                  \/ step[r] = "meUser" /\ UNCHANGED <<users, req>>
                        /\ reply'[r].handle = req[r].handle
                  \/ step[r] = "meRow" /\ MeFindBySub(r)
<1> USE DEF SafeInv
<1>1. StepMoves(r)
    BY EffectsHold DEF Effects
<1>2. ASSUME NEW is, NEW h, Answer(r, is, h)
      PROVE  step'[r] = "answered" /\ reply'[r].is = is /\ reply'[r].handle = h
    BY <1>2 DEF Answer, TypeOK
<1>3. ASSUME NEW next, Go(r, next)
      PROVE  step'[r] = next /\ UNCHANGED reply
    BY <1>3 DEF Go, TypeOK
<1>4. ASSUME NEW failures, "account" \notin failures, Unheard(r, failures)
      PROVE  step'[r] = "answered" /\ reply'[r].is # "account"
    BY <1>2, <1>4 DEF Unheard
<1>5. step[r] # "answered" /\ reply[r].is = "nothing"
    BY <1>1 DEF StepMoves, Order, SessionsKept, InProgress, AsksDatabase, AsksPool
<1>6. step'[r] = "signIn" => req'[r].op # "profile"
    <2> SUFFICES ASSUME step'[r] = "signIn"
                 PROVE  req'[r].op # "profile"
        OBVIOUS
    <2>1. step[r] = "new"
        BY <1>1 DEF StepMoves, Order
    <2>2. Arrives(r)
        BY <2>1 DEF Handles, FindHandle, SignUp, Insert, LoginSignIn, MeGetUser, MeFindBySub,
            FindSub, FindFree, InsertProfile, GetUser, CheckPassword, FindRow, DeleteRow,
            DeleteUser, CallRefused, AsksDatabase, AsksPool
    <2>3. ASSUME NEW first, NEW request, Start(r, first, request)
          PROVE  first = "signIn"
        BY <1>3, <2>3 DEF Start
    <2>4. PICK e \in Email, p \in Password : Login(r, e, p)
        BY <2>2, <2>3 DEF Arrives, Register, CreateProfile, DeleteAccount
    <2> QED BY <2>4 DEF Login, Start, NoRequest, TypeOK
<1>7. CASE step[r] \in {"insertProfile", "insert"}
    <2>1. InsertProfile(r) \/ Insert(r) \/ CallRefused(r)
        BY <1>7 DEF Arrives, Register, Login, CreateProfile, DeleteAccount, Start, Handles,
            FindHandle, SignUp, LoginSignIn, MeGetUser, MeFindBySub,
            FindSub, FindFree, GetUser, CheckPassword, FindRow, DeleteRow, DeleteUser
    <2>2. CASE BrokenRule(r) \/ CallRefused(r)
        BY <1>2, <2>2 DEF BrokenRule, CallRefused, Refuse
    <2>3. CASE InsertProfile(r) /\ ~BrokenRule(r)
        BY <1>3, <1>4, <1>5, <2>3 DEF InsertProfile
    <2>4. CASE Insert(r) /\ ~BrokenRule(r)
        BY <1>2, <1>4, <2>4 DEF Insert
    <2> QED BY <1>6, <2>1, <2>2, <2>3, <2>4
<1>8. CASE step[r] \in {"me", "meRow", "meUser"}
    <2>1. MeGetUser(r) \/ MeFindBySub(r) \/ CallRefused(r)
        BY <1>8 DEF Arrives, Register, Login, CreateProfile, DeleteAccount, Start, Handles,
            FindHandle, SignUp, LoginSignIn, Insert, InsertProfile,
            FindSub, FindFree, GetUser, CheckPassword, FindRow, DeleteRow, DeleteUser
    <2>2. CASE CallRefused(r)
        BY <1>2, <1>6, <2>2 DEF CallRefused, Refuse
    <2>3. CASE MeGetUser(r)
        BY <1>2, <1>3, <1>5, <1>6, <1>8, <2>3 DEF MeGetUser, Refuse, state
    <2>4. CASE MeFindBySub(r)
        <3>1. PICK row \in Found(req[r].sub) :
                  IF step[r] = "me" THEN Go(r, "meUser") ELSE Answer(r, "account", row.handle)
            BY <2>4 DEF MeFindBySub
        <3>2. CASE step[r] = "me"
            BY <1>3, <1>5, <1>6, <2>4, <3>1, <3>2
        <3>3. CASE step[r] = "meRow"
            BY <1>2, <1>6, <2>4, <3>1, <3>3
        <3> QED BY <2>4, <3>2, <3>3 DEF MeFindBySub
    <2> QED BY <2>1, <2>2, <2>3, <2>4
<1>9. CASE step[r] \notin {"insertProfile", "insert", "me", "meRow", "meUser"}
    <2>1. step'[r] \notin {"meRow", "meUser"} /\ (step'[r] = "me" => step[r] = "signIn")
        BY <1>1, <1>9 DEF StepMoves, Order
    <2>2. reply'[r].is # "account"
        <3>1. CASE Arrives(r)
            BY <1>3, <1>5, <3>1 DEF Arrives, Register, Login, CreateProfile, DeleteAccount, Start
        <3>2. ASSUME NEW is \in Errors, Refuse(r, is)
              PROVE  reply'[r].is # "account"
            BY <1>2, <3>2 DEF Refuse, Errors
        <3>3. CASE FindHandle(r) \/ FindSub(r) \/ FindFree(r) \/ CallRefused(r)
            BY <1>3, <1>5, <3>2, <3>3 DEF FindHandle, FindSub, FindFree, CallRefused, Errors
        <3>4. CASE SignUp(r)
            BY <1>3, <1>4, <1>5, <3>2, <3>4 DEF SignUp, Errors
        <3>5. CASE LoginSignIn(r) \/ CheckPassword(r)
            BY <1>3, <1>4, <1>5, <3>2, <3>5 DEF LoginSignIn, CheckPassword, SignInFails, Errors
        <3>6. CASE GetUser(r) \/ FindRow(r) \/ DeleteRow(r)
            BY <1>3, <1>4, <1>5, <3>2, <3>6 DEF GetUser, FindRow, DeleteRow, Errors
        <3>7. CASE DeleteUser(r)
            BY <1>2, <1>4, <3>2, <3>7 DEF DeleteUser, Errors
        <3> QED BY <1>9, <3>1, <3>3, <3>4, <3>5, <3>6, <3>7
                DEF Handles, Insert, InsertProfile, MeGetUser, MeFindBySub
    <2> QED BY <1>6, <2>1, <2>2
<1> QED BY <1>7, <1>8, <1>9

\* The request whose handler moves keeps its row.
LEMMA ServedProfile ==
    ASSUME SafeInv, SafeInv', ProfilesKept, NEW r \in Request, Arrives(r) \/ Handles(r)
    PROVE  ProfileOf(r)'
<1> USE DEF SafeInv
<1>1. [Next]_vars
    BY DEF Next
<1>2. ProfileOf(r) /\ InputsOf(r) /\ StepMoves(r) /\ OpKept(r)
    BY EffectsHold DEF ProfilesKept, InputsKept, Effects
<1>3. step[r] # "answered" /\ reply[r].is = "nothing"
    BY <1>2 DEF StepMoves, Order, SessionsKept, InProgress, AsksDatabase, AsksPool
<1>4. step'[r] = "signIn" => req'[r].op # "profile"
    BY WhoReads
<1>5. ASSUME req'[r].op = "profile", step'[r] = "me"
      PROVE  \E h \in Handle : OwnRow(r, h)'
    <2>1. step[r] # "signIn"
        BY <1>2, <1>5 DEF OpKept, ProfileOf
    <2>2. InsertProfile(r) /\ Store(r) /\ UNCHANGED req
        BY <1>5, <2>1, WhoReads
    <2>3. req[r].handle \in Handle
        BY <1>2, <2>2 DEF InsertProfile, InputsOf
    <2> QED BY <2>2, <2>3 DEF Store, OwnRow
<1>6. ASSUME req'[r].op = "profile", step'[r] = "meRow"
      PROVE  \E h \in Handle : OwnRow(r, h)'
    <2>1. step[r] = "me" /\ UNCHANGED req
        BY <1>6, WhoReads
    <2>2. PICK h \in Handle : OwnRow(r, h)
        BY <1>6, <2>1, <1>2 DEF ProfileOf
    <2> QED BY <1>1, <1>2, <2>1, <2>2, OwnRowStays DEF InputsOf
<1>7. ASSUME MeFindBySub(r), step[r] \in {"me", "meRow"}, req'[r].op = "profile"
      PROVE  /\ OwnRow(r, req[r].handle)'
             /\ reply'[r].is = "account" => reply'[r].handle = req'[r].handle
    <2>1. PICK row \in Found(req[r].sub) :
              /\ req' = [req EXCEPT ![r].handle = row.handle]
              /\ IF step[r] = "me" THEN Go(r, "meUser") ELSE Answer(r, "account", row.handle)
        BY <1>7 DEF MeFindBySub
    <2>2. /\ req'[r].op = req[r].op /\ req'[r].sub = req[r].sub /\ req'[r].handle = row.handle
          /\ req[r].sub \in Sub
        BY <1>2, <1>7, <2>1 DEF TypeOK, Locals, InputsOf
    <2>3. PICK h \in Handle : OwnRow(r, h)
        BY <1>2, <1>7, <2>2 DEF ProfileOf
    <2>4. OwnRow(r, row.handle)
        BY <2>2, <2>3, FindsOwn
    <2>5. OwnRow(r, row.handle)'
        BY <1>1, <2>2, <2>4, OwnRowStays
    <2>6. OwnRow(r, req[r].handle)'
        BY <2>2, <2>5 DEF OwnRow
    <2>7. reply'[r].is = "account" => reply'[r].handle = row.handle
        BY <1>3, <2>1 DEF Go, Answer, TypeOK
    <2> QED BY <2>2, <2>6, <2>7
<1>8. ASSUME req'[r].op = "profile", step'[r] = "meUser"
      PROVE  OwnRow(r, req[r].handle)'
    BY <1>7, <1>8, WhoReads
<1>9. ASSUME req'[r].op = "profile", reply'[r].is = "account"
      PROVE  OwnRow(r, reply[r].handle)'
    <2>1. CASE step[r] = "insert" /\ Store(r) /\ UNCHANGED req /\ reply'[r].handle = req[r].handle
        BY <2>1 DEF Store, OwnRow
    <2>2. CASE step[r] = "meUser" /\ UNCHANGED <<users, req>> /\ reply'[r].handle = req[r].handle
        <3>1. OwnRow(r, req[r].handle) /\ req[r].sub \in Sub
            BY <1>2, <1>9, <2>2 DEF ProfileOf, InputsOf
        <3>2. OwnRow(r, req[r].handle)'
            BY <1>1, <2>2, <3>1, OwnRowStays DEF OwnRow
        <3> QED BY <2>2, <3>2 DEF OwnRow
    <2>3. CASE step[r] = "meRow" /\ MeFindBySub(r)
        BY <1>7, <1>9, <2>3 DEF OwnRow
    <2> QED BY <1>9, <2>1, <2>2, <2>3, WhoReads
<1> QED BY <1>4, <1>5, <1>6, <1>8, <1>9 DEF ProfileOf

LEMMA ProfilesStep ==
    ASSUME SafeInv, SafeInv', ProfilesKept, [Next]_vars
    PROVE  ProfilesKept'
<1> USE DEF SafeInv
<1>1. ASSUME NEW q \in Request, req'[q] = req[q], reply'[q] = reply[q],
             step'[q] \in {step[q], "answered"}
      PROVE  ProfileOf(q)'
    <2>1. ProfileOf(q) /\ InputsOf(q) /\ AnswerOf(q)
        BY DEF ProfilesKept, InputsKept, AnswersKept
    <2>2. ASSUME NEW h, OwnRow(q, h), req[q].sub \in Sub
          PROVE  OwnRow(q, h)'
        BY <1>1, <2>2, OwnRowStays
    <2>3. step[q] \in {"me", "meRow", "meUser"} \/ reply[q].is = "account" => req[q].sub \in Sub
        BY <2>1 DEF InputsOf, AnswerOf
    <2>4. step'[q] = "signIn" => req'[q].op # "profile"
        BY <1>1, <2>1 DEF ProfileOf
    <2>5. ASSUME req'[q].op = "profile", step'[q] \in {"me", "meRow"}
          PROVE  \E h \in Handle : OwnRow(q, h)'
        BY <1>1, <2>1, <2>2, <2>3, <2>5 DEF ProfileOf
    <2>6. ASSUME req'[q].op = "profile", step'[q] = "meUser"
          PROVE  OwnRow(q, req[q].handle)'
        <3>1. OwnRow(q, req[q].handle) /\ req[q].sub \in Sub
            BY <1>1, <2>1, <2>3, <2>6 DEF ProfileOf
        <3> QED BY <1>1, <2>2, <3>1 DEF OwnRow
    <2>7. ASSUME req'[q].op = "profile", reply'[q].is = "account"
          PROVE  OwnRow(q, reply[q].handle)'
        <3>1. OwnRow(q, reply[q].handle) /\ req[q].sub \in Sub
            BY <1>1, <2>1, <2>3, <2>7 DEF ProfileOf
        <3> QED BY <1>1, <2>2, <3>1 DEF OwnRow
    <2> QED BY <2>4, <2>5, <2>6, <2>7 DEF ProfileOf
<1>2. CASE Outside
    BY <1>1, <1>2, OutsideSteps DEF ProfilesKept
<1>3. ASSUME NEW r \in Request, Arrives(r) \/ Handles(r)
      PROVE  ProfilesKept'
    <2>1. ProfileOf(r)'
        BY <1>3, ServedProfile
    <2>2. \A q \in Request \ {r} : ProfileOf(q)'
        BY <1>1, <1>3, Alone
    <2> QED BY <2>1, <2>2 DEF ProfilesKept
<1> QED BY <1>2, <1>3, NextCases

(* create_profile answers with the row it inserted, unless a deletion of   *)
(* the account has checked its password.                                   *)
THEOREM ProfileOwn == Spec => []ProfileIsOwn
<1>1. Init => ProfilesKept
    BY DEF Init, ProfilesKept, ProfileOf, NoRequest
<1>2. SafeInv /\ SafeInv' /\ ProfilesKept /\ [Next]_vars => ProfilesKept'
    BY ProfilesStep
<1>3. ProfilesKept => ProfileIsOwn
    BY DEF ProfilesKept, ProfileOf, OwnRow, ProfileIsOwn
<1> QED BY <1>1, <1>2, <1>3, SafeInvariant, PTL DEF Spec

-----------------------------------------------------------------------------
(* The registry that owners of accounts see.                               *)

\* A row is some account's, and so is what is about to become a row.
HasAccount ==
    /\ \A row \in users : pool[row.sub].status # "unused"
    /\ \A t \in Token : owner[t] \in Sub => pool[owner[t]].status # "unused"
    /\ \A r \in Request :
          step[r] \in {"insert", "findSub", "findFree", "insertProfile"} =>
              pool[req[r].sub].status # "unused"

\* No account is unmade.
LEMMA UsedStays ==
    ASSUME SafeInv, [Next]_vars, NEW s \in Sub, pool[s].status # "unused"
    PROVE  pool'[s].status # "unused"
<1> USE DEF SafeInv
<1>1. CASE Outside
    BY <1>1 DEF Outside, Crash, state, Verify, ResetPassword, Logout, Expire, vars, TypeOK, Account
<1>2. ASSUME NEW r \in Request, Effects(r)
      PROVE  pool'[s].status # "unused"
    BY <1>2 DEF Effects, PoolMoves, TypeOK, Account
<1> QED BY <1>1, <1>2, NextCases, EffectsHold

\* Who is about to have a row.
LEMMA AccountBehind ==
    ASSUME SafeInv, SafeInv', HasAccount, NEW r \in Request, Arrives(r) \/ Handles(r),
           step'[r] \in {"insert", "findSub", "findFree", "insertProfile"}
    PROVE  pool'[req'[r].sub].status # "unused"
<1> USE DEF SafeInv
<1>0. [Next]_vars
    BY DEF Next
<1>1. <<step[r], step'[r]>> \in Order
    BY EffectsHold DEF Effects, StepMoves
<1>2. CASE step'[r] = "insert"
    <2>1. SignUp(r)
        BY <1>1, <1>2 DEF Order, Arrives, Handles, Register, Login, CreateProfile, DeleteAccount,
            Start, Go, FindHandle, SignUp, Insert, LoginSignIn, MeGetUser, MeFindBySub,
            FindSub, FindFree, InsertProfile, GetUser, CheckPassword, FindRow, DeleteRow,
            DeleteUser, CallRefused, Refuse, Answer, TypeOK, AsksDatabase, AsksPool
    <2>2. step' # [step EXCEPT ![r] = "answered"]
        BY <1>2 DEF TypeOK
    <2>3. PICK s \in Sub : /\ pool' = [pool EXCEPT ![s] = [status |-> "unconfirmed",
                                                          email |-> req[r].email,
                                                          password |-> req[r].password]]
                           /\ req' = [req EXCEPT ![r].sub = s]
        BY <2>1, <2>2 DEF SignUp, Refuse, Answer, Unheard
    <2>4. req'[r].sub = s /\ pool'[s].status = "unconfirmed"
        BY <2>3 DEF TypeOK, Locals
    <2> QED BY <2>4
<1>3. CASE step'[r] = "findSub"
    <2>1. PICK t \in Token, h \in Handle : CreateProfile(r, t, h)
        BY <1>1, <1>3 DEF Order, Arrives, Handles, Register, Login, CreateProfile, DeleteAccount,
            Start, Go, FindHandle, SignUp, Insert, LoginSignIn, MeGetUser, MeFindBySub,
            FindSub, FindFree, InsertProfile, GetUser, CheckPassword, FindRow, DeleteRow,
            DeleteUser, CallRefused, Refuse, Answer, TypeOK, AsksDatabase, AsksPool
    <2>2. owner[t] \in Sub
        BY <2>1 DEF CreateProfile, Verified, SessionsKept
    <2>3. req'[r].sub = owner[t] /\ pool' = pool
        BY <2>1 DEF CreateProfile, Start, state, NoRequest, TypeOK
    <2> QED BY <2>2, <2>3 DEF HasAccount
<1>4. CASE step'[r] \in {"findFree", "insertProfile"}
    <2>1. step[r] \in {"findSub", "findFree"}
        BY <1>1, <1>4 DEF Order
    <2>2. FindSub(r) \/ FindFree(r) \/ CallRefused(r)
        BY <2>1 DEF Arrives, Handles, Register, Login, CreateProfile, DeleteAccount,
            Start, FindHandle, SignUp, Insert, LoginSignIn, MeGetUser, MeFindBySub,
            InsertProfile, GetUser, CheckPassword, FindRow, DeleteRow, DeleteUser
    <2>3. UNCHANGED <<pool, req>>
        BY <2>2 DEF FindSub, FindFree, CallRefused, Refuse, state
    <2> QED BY <2>1, <2>3 DEF HasAccount
<1> QED BY <1>2, <1>3, <1>4

LEMMA HasAccountStep ==
    ASSUME SafeInv, SafeInv', HasAccount, [Next]_vars
    PROVE  HasAccount'
<1> USE DEF SafeInv
<1>1. CASE Outside
    <2>1. UNCHANGED <<users, owner, req>>
        BY <1>1, OutsideSteps
    <2>2. \A q \in Request :
              step'[q] \in {"insert", "findSub", "findFree", "insertProfile"} => step'[q] = step[q]
        BY <1>1, OutsideSteps
    <2>3. \A row \in users : row.sub \in Sub
        BY DEF TypeOK, Row
    <2>4. \A q \in Request :
              step[q] \in {"insert", "findSub", "findFree", "insertProfile"} => req[q].sub \in Sub
        BY DEF InputsKept, InputsOf
    <2> QED BY <2>1, <2>2, <2>3, <2>4, UsedStays DEF HasAccount
<1>2. ASSUME NEW r \in Request, Arrives(r) \/ Handles(r)
      PROVE  HasAccount'
    <2>1. Effects(r)
        BY <1>2, EffectsHold
    <2>2. ASSUME NEW row \in users'
          PROVE  pool'[row.sub].status # "unused"
        <3>1. row.sub \in Sub
            BY DEF TypeOK, Row
        <3>2. CASE row \in users
            BY <3>1, <3>2, UsedStays DEF HasAccount
        <3>3. CASE step[r] \in {"insert", "insertProfile"} /\ row.sub = req[r].sub
            BY <3>1, <3>3, UsedStays DEF HasAccount
        <3> QED BY <2>1, <3>2, <3>3 DEF Effects, RowsMove, Store
    <2>3. ASSUME NEW t \in Token, owner'[t] \in Sub
          PROVE  pool'[owner'[t]].status # "unused"
        <3>1. CASE owner'[t] = owner[t]
            BY <2>3, <3>1, UsedStays DEF HasAccount
        <3>2. CASE \E s \in Sub : OpenSession(r, s) /\ owner'[t] = s
            BY <3>2 DEF OpenSession
        <3> QED BY <2>1, <3>1, <3>2 DEF Effects, SessionMoves, OpenSession, TypeOK
    <2>4. ASSUME NEW q \in Request,
                 step'[q] \in {"insert", "findSub", "findFree", "insertProfile"}
          PROVE  pool'[req'[q].sub].status # "unused"
        <3>1. CASE q = r
            BY <1>2, <2>4, <3>1, AccountBehind
        <3>2. CASE q # r
            <4>1. step'[q] = step[q] /\ req'[q] = req[q]
                BY <1>2, <3>2, Alone
            <4>2. req[q].sub \in Sub
                BY <2>4, <4>1 DEF InputsKept, InputsOf
            <4> QED BY <2>4, <4>1, <4>2, UsedStays DEF HasAccount
        <3> QED BY <3>1, <3>2
    <2> QED BY <2>2, <2>3, <2>4 DEF HasAccount
<1> QED BY <1>1, <1>2, NextCases

LEMMA AccountsBehind == Spec => []HasAccount
<1>1. Init => HasAccount
    BY AccountsAssumption DEF Init, HasAccount, Token
<1>2. SafeInv /\ SafeInv' /\ HasAccount /\ [Next]_vars => HasAccount'
    BY HasAccountStep
<1> QED BY <1>1, <1>2, SafeInvariant, PTL DEF Spec

\* What a handler's step does to the registry: at most one thing.
Moves(r) ==
    \/ UNCHANGED <<pool, users, owner>>
    \/ /\ Store(r) /\ UNCHANGED req
       /\ step[r] \in {"insert", "insertProfile"}
       /\ reply'[r].is = "account" => reply'[r].handle = req[r].handle
    \/ /\ reply'[r].is # "account"
       /\ \/ step[r] = "signUp" /\ SignUp(r) /\ UNCHANGED <<users, owner>>
          \/ \E s \in Sub : OpenSession(r, s) /\ step[r] \in {"signIn", "checkPassword"}
          \/ DeleteRow(r)
          \/ DeleteUser(r)

LEMMA MovesHold ==
    ASSUME SafeInv, NEW r \in Request, Arrives(r) \/ Handles(r)
    PROVE  Moves(r)
<1> USE DEF SafeInv
<1>1. ASSUME NEW is, NEW h, Answer(r, is, h)
      PROVE  reply'[r].is = is /\ reply'[r].handle = h
    BY <1>1 DEF Answer, TypeOK
<1>2. ASSUME NEW failures, "account" \notin failures, Unheard(r, failures)
      PROVE  reply'[r].is # "account"
    BY <1>1, <1>2 DEF Unheard
<1>3. ASSUME NEW next, Go(r, next), step[r] # "answered"
      PROVE  reply'[r].is # "account"
    BY <1>3 DEF Go, SessionsKept
<1>4. ASSUME NEW is, Refuse(r, is)
      PROVE  Moves(r)
    BY <1>4 DEF Refuse, state, Moves
<1>5. CASE Arrives(r)
    BY <1>5 DEF Arrives, Register, Login, CreateProfile, DeleteAccount, Start, state, Moves
<1>6. CASE FindHandle(r) \/ FindSub(r) \/ FindFree(r)
    BY <1>4, <1>6 DEF FindHandle, FindSub, FindFree, state, Moves
<1>7. CASE SignUp(r)
    <2>1. CASE \E is : Refuse(r, is)
        BY <1>4, <2>1
    <2>2. CASE ~ \E is : Refuse(r, is)
        BY <1>2, <1>3, <1>7, <2>2 DEF SignUp, Moves
    <2> QED BY <2>1, <2>2
<1>8. CASE Insert(r)
    <2>1. CASE BrokenRule(r)
        BY <1>4, <2>1 DEF BrokenRule
    <2>2. CASE Store(r) /\ UNCHANGED req /\ Answer(r, "account", req[r].handle)
        BY <1>1, <1>8, <2>2 DEF Insert, Moves
    <2>3. CASE Store(r) /\ UNCHANGED req /\ Unheard(r, {"database_unavailable_error"})
        BY <1>2, <1>8, <2>3 DEF Insert, Moves
    <2> QED BY <1>8, <2>1, <2>2, <2>3 DEF Insert
<1>9. CASE InsertProfile(r)
    <2>1. CASE BrokenRule(r)
        BY <1>4, <2>1 DEF BrokenRule
    <2>2. CASE Store(r) /\ UNCHANGED req /\ Go(r, "me")
        BY <1>3, <1>9, <2>2 DEF InsertProfile, Moves
    <2>3. CASE Store(r) /\ UNCHANGED req /\ Unheard(r, {"database_unavailable_error"})
        BY <1>2, <1>9, <2>3 DEF InsertProfile, Moves
    <2> QED BY <1>9, <2>1, <2>2, <2>3 DEF InsertProfile
<1>10. CASE LoginSignIn(r)
    <2>1. CASE SignInFails(r)
        BY <1>4, <2>1 DEF SignInFails
    <2>2. CASE ~SignInFails(r)
        BY <1>2, <1>3, <1>10, <2>2 DEF LoginSignIn, Moves
    <2> QED BY <2>1, <2>2
<1>11. CASE MeGetUser(r) \/ MeFindBySub(r) \/ GetUser(r) \/ FindRow(r)
    BY <1>4, <1>11 DEF MeGetUser, MeFindBySub, GetUser, FindRow, state, Moves
<1>12. CASE CheckPassword(r)
    <2>1. CASE SignInFails(r)
        BY <1>4, <2>1 DEF SignInFails
    <2>2. CASE ~SignInFails(r)
        BY <1>2, <1>3, <1>12, <2>2 DEF CheckPassword, Moves
    <2> QED BY <2>1, <2>2
<1>13. CASE DeleteRow(r)
    BY <1>2, <1>3, <1>13 DEF DeleteRow, Moves
<1>14. CASE DeleteUser(r)
    <2>1. CASE Refuse(r, "not_authenticated_error")
        BY <1>4, <2>1
    <2>2. CASE ~Refuse(r, "not_authenticated_error")
        BY <1>1, <1>2, <1>14, <2>2 DEF DeleteUser, Moves
    <2> QED BY <2>1, <2>2
<1>15. CASE CallRefused(r)
    BY <1>4, <1>15 DEF CallRefused
<1> QED BY <1>5, <1>6, <1>7, <1>8, <1>9, <1>10, <1>11, <1>12, <1>13, <1>14, <1>15 DEF Handles

\* Clients learn one thing in a step, and it is true after it.
LEMMA TellsOne ==
    ASSUME SafeInv, SafeInv', NEW r \in Request, Arrives(r) \/ Handles(r)
    PROVE  \/ told' = told /\ reply'[r].is # "account"
           \/ /\ reply'[r].is = "account"
              /\ req'[r].sub \in Sub
              /\ Told(req[r].sub, reply[r].handle)'
              /\ told' = told \cup {[sub |-> req'[r].sub, handle |-> reply'[r].handle]}
<1> DEFINE Said(q) == [sub |-> req[q].sub, handle |-> reply[q].handle]
<1>1. step[r] # "answered" /\ reply[r].is = "nothing"
    <2>1. step[r] # "answered"
        BY EffectsHold DEF SafeInv, Effects, StepMoves, Order, InProgress, AsksDatabase, AsksPool
    <2> QED BY <2>1 DEF SafeInv, SessionsKept
<1>2. \A q \in Request \ {r} : Said(q)' = Said(q) /\ reply'[q] = reply[q]
    BY Alone DEF SafeInv
<1>3. \A t : t \in told' <=> t \in told \/ (reply'[r].is = "account" /\ t = Said(r)')
    <2>1. \A t : t \in told <=> \E q \in Request : reply[q].is = "account" /\ t = Said(q)
        BY DEF told
    <2>2. \A t : t \in told' <=> \E q \in Request : reply'[q].is = "account" /\ t = Said(q)'
        BY DEF told
    <2> HIDE DEF Said
    <2> QED BY <1>1, <1>2, <2>1, <2>2
<1>4. CASE reply'[r].is = "account"
    <2>1. told' = told \cup {Said(r)'}
        BY <1>3, <1>4
    <2>2. req'[r].sub \in Sub /\ Told(req[r].sub, reply[r].handle)'
        BY <1>4 DEF SafeInv, AnswersKept, AnswerOf
    <2> QED BY <1>4, <2>1, <2>2
<1>5. CASE reply'[r].is # "account"
    <2>1. told' = told
        BY <1>3, <1>5
    <2> QED BY <1>5, <2>1
<1> QED BY <1>4, <1>5

\* Passwords are vouched for by opening a session, and one at a time.
LEMMA VouchesOne ==
    ASSUME SafeInv, NEW r \in Request, Arrives(r) \/ Handles(r)
    PROVE  /\ UNCHANGED owner => vouched' = vouched
           /\ \A s \in Sub : /\ OpenSession(r, s)
                             /\ step[r] \in {"signIn", "checkPassword"}
                             => vouched' \in {vouched, vouched \cup {s}}
<1>1. \A q \in Request \ {r} : req'[q] = req[q] /\ owner'[q] = owner[q]
    BY Alone DEF SafeInv, Token
<1>2. step[r] = "new" => owner[r] \notin Sub
    BY AccountsAssumption DEF SafeInv, SessionsKept
<1>3. OpKept(r)
    BY EffectsHold DEF SafeInv, Effects
<1>4. ASSUME UNCHANGED owner
      PROVE  vouched' = vouched
    BY <1>1, <1>2, <1>3, <1>4 DEF vouched, DeletionChecked, OpKept
<1>5. ASSUME NEW s \in Sub, OpenSession(r, s), step[r] \in {"signIn", "checkPassword"}
      PROVE  vouched' \in {vouched, vouched \cup {s}}
    <2>1. owner[r] = None /\ owner'[r] = s /\ req'[r].op = req[r].op
        BY <1>3, <1>5 DEF OpKept, OpenSession, SafeInv, SessionsKept, TypeOK, Token
    <2>2. \A q \in Sub : DeletionChecked(q)' <=> DeletionChecked(q) \/ (req[r].op = "delete" /\ q = s)
        BY <1>1, <2>1, AccountsAssumption DEF DeletionChecked
    <2>3. CASE req[r].op = "delete"
        BY <2>2, <2>3 DEF vouched
    <2>4. CASE req[r].op # "delete"
        BY <2>2, <2>4 DEF vouched
    <2> QED BY <2>3, <2>4
<1> QED BY <1>4, <1>5

LEMMA RegistryStarts == Init => Owners!RegistryInit
<1> SUFFICES ASSUME Init PROVE Owners!RegistryInit
    OBVIOUS
<1>1. accounts \in [Sub -> Owners!Account]
    BY TypeInit DEF accounts, TypeOK, Account, Owners!Account, Exists
<1>2. profiles \subseteq Owners!Profiles
    BY TypeInit DEF profiles, TypeOK, Row, Owners!Profiles
<1>3. Owners!Consistent
    <2>1. \A s, t \in Sub : /\ accounts[s].status = "open" /\ accounts[t].status = "open"
                            /\ accounts[s].email = accounts[t].email
                            => s = t
        BY InitSafe DEF SafeInv, PoolKept, accounts, Exists, TypeOK, Account
    <2>2. \A p \in profiles : /\ p.sub \in Settled /\ p.handle = HandleOf[p.sub]
                              /\ HandleOf[p.sub] # None
                              /\ p = [sub |-> p.sub, handle |-> p.handle]
        BY DEF Init, profiles
    <2>3. \A p, q \in profiles : p.sub = q.sub \/ p.handle = q.handle => p = q
        BY <2>2, AccountsAssumption
    <2>4. \A s \in Settled : accounts[s].status = "open"
        BY AccountsAssumption DEF Init, accounts, Exists
    <2> QED BY <2>1, <2>2, <2>3, <2>4 DEF Owners!Consistent
<1>4. \A s \in Sub : accounts[s].status # "deleted"
    BY DEF Init, accounts, Exists
<1>5. vouched = {}
    BY DEF Init, vouched, DeletionChecked, NoRequest
<1>6. told = {}
    BY DEF Init, told, NoReply
<1> QED BY <1>1, <1>2, <1>3, <1>4, <1>5, <1>6 DEF Owners!RegistryInit

LEMMA RegistryStep ==
    ASSUME SafeInv, SafeInv', HasAccount, [Next]_vars
    PROVE  Owners!RegistryNext \/ UNCHANGED <<accounts, profiles, vouched, told>>
<1> USE DEF SafeInv
<1>1. CASE Outside
    <2>1. UNCHANGED <<profiles, vouched, told>>
        BY <1>1, OutsideSteps DEF profiles, vouched, DeletionChecked, told
    <2>2. \A s \in Sub : /\ pool'[s].email = pool[s].email
                         /\ \/ pool'[s].status = pool[s].status
                            \/ Exists(s) /\ Exists(s)'
        BY <1>1 DEF Outside, Crash, state, Verify, ResetPassword, Logout, Expire, vars,
                    Exists, TypeOK, Account
    <2>3. accounts' = accounts
        BY <2>2 DEF accounts, Exists
    <2> QED BY <2>1, <2>3
<1>2. ASSUME NEW r \in Request, Arrives(r) \/ Handles(r)
      PROVE  Owners!RegistryNext \/ UNCHANGED <<accounts, profiles, vouched, told>>
    <2> DEFINE s == req[r].sub
               h == req[r].handle
    <2>1. UNCHANGED pool => accounts' = accounts
        BY DEF accounts, Exists
    <2>2. UNCHANGED users => profiles' = profiles
        BY DEF profiles
    <2>3. UNCHANGED owner => vouched' = vouched
        BY <1>2, VouchesOne
    <2>4. reply'[r].is # "account" => told' = told
        BY <1>2, TellsOne
    <2>5. step[r] # "new" => Handles(r)
        BY <1>2 DEF Arrives, Register, Login, CreateProfile, DeleteAccount, Start
    \* An answer, or nothing.
    <2>6. CASE UNCHANGED <<pool, users, owner>>
        <3>1. CASE told' = told
            BY <2>1, <2>2, <2>3, <2>6, <3>1
        <3>2. CASE told' # told
            <4>1. /\ req'[r].sub \in Sub /\ Told(req[r].sub, reply[r].handle)'
                  /\ told' = told \cup {[sub |-> req'[r].sub, handle |-> reply'[r].handle]}
                BY <1>2, <3>2, TellsOne
            <4>2. reply'[r].handle \in Handle \cup {None}
                BY DEF TypeOK, Response
            <4>3. \/ reply'[r].handle = None
                  \/ [sub |-> req'[r].sub, handle |-> reply'[r].handle] \in profiles'
                  \/ req'[r].sub \in vouched'
                BY <4>1 DEF Told, profiles, vouched
            <4>4. Owners!Tell(req'[r].sub, reply'[r].handle)
                BY <2>1, <2>2, <2>3, <2>6, <4>1, <4>3 DEF Owners!Tell, Owners!Profile
            <4> QED BY <4>1, <4>2, <4>4 DEF Owners!RegistryNext
        <3> QED BY <3>1, <3>2
    \* register's or create_profile's insert.
    <2>7. CASE /\ Store(r) /\ UNCHANGED req /\ step[r] \in {"insert", "insertProfile"}
               /\ reply'[r].is = "account" => reply'[r].handle = h
        <3>1. s \in Sub /\ h \in Handle /\ UNCHANGED <<accounts, vouched>>
            BY <2>1, <2>3, <2>7 DEF InputsKept, InputsOf, Store
        <3>2. \A p \in profiles : p.sub # s /\ p.handle # h
            BY <2>7 DEF Store, HandleUsed, RowsOf, profiles
        <3>3. profiles' = profiles \cup {[sub |-> s, handle |-> h]}
            <4> DEFINE Seen(row) == [sub |-> row.sub, handle |-> row.handle]
                       new == [id |-> r, sub |-> s, handle |-> h]
            <4>1. profiles = {Seen(row) : row \in users} /\ profiles' = {Seen(row) : row \in users'}
                BY DEF profiles
            <4>2. users' = users \cup {new} /\ Seen(new) = [sub |-> s, handle |-> h]
                BY <2>7 DEF Store
            <4> HIDE DEF Seen, new
            <4> QED BY <4>1, <4>2
        <3>4. told' \in {told, told \cup {[sub |-> s, handle |-> h]}}
            BY <1>2, <2>7, TellsOne
        <3>5. accounts[s].status # "unused"
            BY <2>7, <3>1 DEF HasAccount, accounts, Exists
        <3>6. Owners!Claim(s, h)
            BY <3>1, <3>2, <3>3, <3>4, <3>5 DEF Owners!Claim, Owners!Profile
        <3> QED BY <3>1, <3>6 DEF Owners!RegistryNext
    \* sign_up.
    <2>8. CASE /\ reply'[r].is # "account"
               /\ step[r] = "signUp" /\ SignUp(r) /\ UNCHANGED <<users, owner>>
        <3>1. CASE UNCHANGED pool
            BY <2>6, <2>8, <3>1
        <3>2. CASE ~ UNCHANGED pool
            <4>1. /\ ~ \E t \in Sub : Registered(req[r].email, t)
                  /\ \E t \in Sub : /\ pool[t].status = "unused"
                                    /\ pool' = [pool EXCEPT ![t] = [status |-> "unconfirmed",
                                                                    email |-> req[r].email,
                                                                    password |-> req[r].password]]
                BY <2>8, <3>2 DEF SignUp, Refuse, state
            <4>2. PICK t \in Sub : /\ pool[t].status = "unused"
                                   /\ pool' = [pool EXCEPT ![t] = [status |-> "unconfirmed",
                                                                   email |-> req[r].email,
                                                                   password |-> req[r].password]]
                BY <4>1
            <4>3. req[r].email \in Email
                BY <2>8 DEF InputsKept, InputsOf
            <4>4. accounts' = [accounts EXCEPT ![t] = [status |-> "open", email |-> req[r].email]]
                BY <4>2 DEF accounts, Exists, TypeOK
            <4>5. \A q \in Sub : accounts[q].status = "open" => accounts[q].email # req[r].email
                BY <4>1 DEF accounts, Registered, Exists, TypeOK, Account
            <4>6. Owners!Open(t, req[r].email)
                BY <2>2, <2>3, <2>4, <2>8, <4>2, <4>4, <4>5 DEF Owners!Open, accounts, Exists
            <4> QED BY <4>3, <4>6 DEF Owners!RegistryNext
        <3> QED BY <3>1, <3>2
    \* sign_in.
    <2>9. ASSUME reply'[r].is # "account", NEW t \in Sub, OpenSession(r, t),
                 step[r] \in {"signIn", "checkPassword"}
          PROVE  Owners!RegistryNext \/ UNCHANGED <<accounts, profiles, vouched, told>>
        <3>1. UNCHANGED <<accounts, profiles, told>>
            BY <2>1, <2>2, <2>4, <2>9 DEF OpenSession
        <3>2. vouched' \in {vouched, vouched \cup {t}}
            BY <1>2, <2>9, VouchesOne
        <3> QED BY <3>1, <3>2 DEF Owners!RegistryNext, Owners!Vouch
    \* delete_account, the profile and then the account.
    <2>10. CASE reply'[r].is # "account" /\ DeleteRow(r)
        <3>1. step[r] = "deleteRow" /\ users' = {row \in users : row.id # req[r].row}
            BY <2>10 DEF DeleteRow
        <3>2. s \in Sub /\ \A row \in users : row.id = req[r].row => row.sub = s
            BY <3>1 DEF DeletionsKept, DeletionOf, DeleteSteps
        <3>3. s \in vouched
            BY <3>1, <3>2 DEF DeletionsKept, DeletionOf, DeleteSteps, PoolKept, vouched,
                              DeletionChecked
        <3>4. UNCHANGED <<accounts, vouched, told>>
            BY <2>1, <2>3, <2>4, <2>10 DEF DeleteRow
        <3>5. CASE \E row \in users : row.id = req[r].row
            <4>1. \A row \in users : row.id = req[r].row <=> row.sub = s
                BY <3>2, <3>5 DEF RowsKept
            <4>2. users' = {row \in users : row.sub # s}
                BY <3>1, <4>1
            <4>3. profiles' = {p \in profiles : p.sub # s}
                BY <4>2 DEF profiles
            <4> QED BY <3>2, <3>3, <3>4, <4>3 DEF Owners!RegistryNext, Owners!Release
        <3>6. CASE ~ \E row \in users : row.id = req[r].row
            <4>1. users' = users
                BY <3>1, <3>6
            <4> QED BY <2>2, <3>4, <4>1
        <3> QED BY <3>5, <3>6
    <2>11. CASE reply'[r].is # "account" /\ DeleteUser(r)
        <3>1. CASE UNCHANGED pool
            BY <2>6, <2>11, <3>1 DEF DeleteUser, Refuse, state
        <3>2. CASE ~ UNCHANGED pool
            <4>1. /\ step[r] = "deleteUser" /\ Accepted(req[r].token)
                  /\ pool' = [pool EXCEPT ![owner[req[r].token]].status = "deleted"]
                  /\ UNCHANGED <<users, owner>>
                BY <2>11, <3>2 DEF DeleteUser, Refuse, state
            <4>2. s \in Sub /\ owner[req[r].token] = s
                BY <4>1 DEF DeletionsKept, DeletionOf, DeleteSteps
            <4>3. pool[s].status = "confirmed"
                BY <4>1, <4>2 DEF Accepted
            <4>4. s \in vouched
                BY <4>1, <4>2, <4>3 DEF DeletionsKept, DeletionOf, DeleteSteps, vouched,
                                        DeletionChecked
            <4>5. accounts' = [accounts EXCEPT ![s].status = "deleted"]
                <5>1. /\ pool'[s] = [pool[s] EXCEPT !.status = "deleted"]
                      /\ \A q \in Sub \ {s} : pool'[q] = pool[q]
                    BY <4>1, <4>2 DEF TypeOK
                <5>2. accounts'[s] = [accounts[s] EXCEPT !.status = "deleted"]
                    BY <4>2, <5>1 DEF accounts, Exists, TypeOK, Account
                <5>3. \A q \in Sub \ {s} : accounts'[q] = accounts[q]
                    BY <5>1 DEF accounts, Exists
                <5> QED BY <4>2, <5>2, <5>3 DEF accounts
            <4>6. accounts[s].status = "open"
                BY <4>2, <4>3 DEF accounts, Exists
            <4>7. UNCHANGED <<profiles, vouched, told>>
                BY <2>2, <2>3, <2>4, <2>11, <4>1
            <4> QED BY <4>2, <4>4, <4>5, <4>6, <4>7 DEF Owners!RegistryNext, Owners!Close
        <3> QED BY <3>1, <3>2
    <2> QED BY <1>2, <2>6, <2>7, <2>8, <2>9, <2>10, <2>11, MovesHold DEF Moves
<1> QED BY <1>1, <1>2, NextCases

(* However requests overlap, fail and are cut short, what owners see is a  *)
(* registry that opens, claims, tells and deletes in single steps.         *)
THEOREM Refinement == Spec => ImplementsRegistry
<1>1. SafeInv /\ SafeInv' /\ HasAccount /\ [Next]_vars => [Owners!RegistryNext]_Owners!registryVars
    BY RegistryStep DEF Owners!registryVars
<1> QED BY <1>1, RegistryStarts, SafeInvariant, AccountsBehind, PTL
        DEF Spec, ImplementsRegistry, Owners!RegistrySpec

-----------------------------------------------------------------------------
(* Registry's theorems, for the accounts.                                  *)

Facts == INSTANCE RegistryProofs WITH
    Sub <- Sub, Email <- Email, Handle <- Handle, None <- None,
    accounts <- accounts, profiles <- profiles, vouched <- vouched, told <- told

LEMMA SameRegistry == ImplementsRegistry => Facts!RegistrySpec
BY DEF ImplementsRegistry, Owners!RegistrySpec, Owners!RegistryInit, Owners!RegistryNext,
    Owners!registryVars, Owners!Account, Owners!Profiles, Owners!Profile, Owners!Consistent,
    Owners!Open, Owners!Claim, Owners!Tell, Owners!Vouch, Owners!Release, Owners!Close,
    Facts!RegistrySpec, Facts!RegistryInit, Facts!RegistryNext,
    Facts!registryVars, Facts!Account, Facts!Profiles, Facts!Profile, Facts!Consistent,
    Facts!Open, Facts!Claim, Facts!Tell, Facts!Vouch, Facts!Release, Facts!Close

(* No two accounts ever share an email or a handle, no account has two     *)
(* handles, and no handle is kept for an account that never was.           *)
THEOREM AccountsConsistent == Spec => []Owners!Consistent
<1>1. Facts!RegistrySpec => []Facts!Consistent
    BY Facts!RegistryConsistent
<1>2. Facts!Consistent => Owners!Consistent
    BY DEF Facts!Consistent, Owners!Consistent
<1> QED BY <1>1, <1>2, Refinement, SameRegistry, PTL

(* An account loses its handle, or itself, only after its password was     *)
(* given to delete it.                                                     *)
THEOREM AccountsLoseVouched == Spec => Owners!OnlyVouchedLose
<1>1. Facts!RegistrySpec => Facts!OnlyVouchedLose
    BY Facts!RegistryLosesVouched
<1>2. Facts!OnlyVouchedLose => Owners!OnlyVouchedLose
    BY DEF Facts!OnlyVouchedLose, Facts!registryVars, Owners!OnlyVouchedLose, Owners!registryVars
<1> QED BY <1>1, <1>2, Refinement, SameRegistry, PTL

(* An id the pool has given to an account is never given to another, and   *)
(* the account keeps its email.                                            *)
THEOREM AccountsFinal == Spec => Owners!IdsAreFinal
<1>1. Facts!RegistrySpec => Facts!IdsAreFinal
    BY Facts!RegistryIdsFinal
<1>2. Facts!IdsAreFinal => Owners!IdsAreFinal
    BY DEF Facts!IdsAreFinal, Facts!registryVars, Owners!IdsAreFinal, Owners!registryVars
<1> QED BY <1>1, <1>2, Refinement, SameRegistry, PTL
=============================================================================
