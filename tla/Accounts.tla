------------------------------ MODULE Accounts ------------------------------
(***************************************************************************)
(* The accounts of the gateway (backend/: AuthService over the Cognito     *)
(* pool and the users table). An account lives half in the pool and half   *)
(* in the table, and every request that touches both is a series of calls  *)
(* with other requests, failures and crashes in between. The pool is       *)
(* external and modelled as CognitoClient uses it; each call on the table  *)
(* is one transaction (Database.session).                                  *)
(***************************************************************************)
EXTENDS FiniteSets

CONSTANTS
    Request,      \* the requests made
    Sub,          \* the permanent ids the pool gives accounts
    Email, Handle, Password,
    None,         \* an absent handle, email, password, id, row or token
    Settled,      \* accounts that registered, confirmed and signed in before
    EmailOf, HandleOf, PasswordOf,     \* and what they have
    Faults        \* which of "refused", "unheard", "crash" may happen

ASSUME AccountsAssumption ==
    /\ Settled \subseteq Sub
    /\ EmailOf \in [Settled -> Email]
    /\ HandleOf \in [Settled -> Handle \cup {None}]
    /\ PasswordOf \in [Settled -> Password]
    /\ \A s, t \in Settled : s # t => EmailOf[s] # EmailOf[t]
    /\ \A s, t \in Settled : HandleOf[s] = HandleOf[t] => s = t \/ HandleOf[s] = None
    /\ None \notin Handle \cup Email \cup Password \cup Sub \cup Request
    /\ Request \cap Sub = {}

\* A row's uuid and a session are named after the request that made them.
RowId == Request \cup Settled
Token == Request \cup Settled

VARIABLES
    pool,         \* pool[s]: the account s of the user pool
    users,        \* the rows of the users table
    owner,        \* owner[t]: the account a session was opened for
    session,      \* session[t]: what became of the session
    step,         \* step[r]: the call the handler of r makes next
    req,          \* req[r]: the request's inputs and the handler's locals
    reply         \* reply[r]: what the client was answered

state == <<pool, users, owner, session>>
vars == <<pool, users, owner, session, step, req, reply>>

Row == [id : RowId, sub : Sub, handle : Handle]

NoRequest == [op |-> "none", handle |-> None, email |-> None, password |-> None,
              sub |-> None, token |-> None, row |-> None]
NoReply == [is |-> "nothing", handle |-> None]

Exists(s) == pool[s].status \in {"unconfirmed", "confirmed"}
Registered(e, s) == Exists(s) /\ pool[s].email = e

RowsOf(s) == {row \in users : row.sub = s}
NoRow == [id |-> None, sub |-> None, handle |-> None]
\* UserStorage.find_by_sub: the first row that matches, or nothing.
Found(s) == IF RowsOf(s) = {} THEN {NoRow} ELSE RowsOf(s)
HandleUsed(h) == \E row \in users : row.handle = h

\* TokenVerifier.verify: signature and expiry only. CognitoClient.get_user:
\* the pool also refuses what was signed out or has no account any more.
Verified(t) == session[t] \in {"open", "revoked"}
Accepted(t) == session[t] = "open" /\ pool[owner[t]].status = "confirmed"

Init ==
    /\ pool = [s \in Sub |->
                  IF s \in Settled
                  THEN [status |-> "confirmed", email |-> EmailOf[s], password |-> PasswordOf[s]]
                  ELSE [status |-> "unused", email |-> None, password |-> None]]
    /\ users = {[id |-> s, sub |-> s, handle |-> HandleOf[s]] :
                   s \in {t \in Settled : HandleOf[t] # None}}
    /\ owner = [t \in Token |-> IF t \in Settled THEN t ELSE None]
    /\ session = [t \in Token |-> IF t \in Settled THEN "open" ELSE "none"]
    /\ step = [r \in Request |-> "new"]
    /\ req = [r \in Request |-> NoRequest]
    /\ reply = [r \in Request |-> NoReply]

Go(r, next) ==
    /\ step' = [step EXCEPT ![r] = next]
    /\ UNCHANGED reply

Answer(r, is, handle) ==
    /\ step' = [step EXCEPT ![r] = "answered"]
    /\ reply' = [reply EXCEPT ![r] = [is |-> is, handle |-> handle]]

Refuse(r, is) == Answer(r, is, None) /\ UNCHANGED <<state, req>>

(* The call took effect; its answer is lost, and what the client is told   *)
(* is a failure: the transport's, or that of the retry boto makes.         *)
Unheard(r, failures) ==
    /\ "unheard" \in Faults
    /\ \E is \in failures : Answer(r, is, None)

-----------------------------------------------------------------------------
(* Requests come in. Those about the signed-in account carry the token of  *)
(* a session the client was given and pass get_current_account.            *)

Held(t) == t \in Request => req[t].op = "login" /\ reply[t].is = "account"

Start(r, first, request) ==
    /\ step[r] = "new"
    /\ Go(r, first)
    /\ req' = [req EXCEPT ![r] = request]
    /\ UNCHANGED state

Register(r, h, e, p) ==
    Start(r, "findHandle",
          [NoRequest EXCEPT !.op = "register", !.handle = h, !.email = e, !.password = p])

Login(r, e, p) ==
    Start(r, "signIn", [NoRequest EXCEPT !.op = "login", !.email = e, !.password = p])

CreateProfile(r, t, h) ==
    /\ Held(t) /\ Verified(t)
    /\ Start(r, "findSub",
             [NoRequest EXCEPT !.op = "profile", !.handle = h, !.sub = owner[t], !.token = t])

DeleteAccount(r, t, p) ==
    /\ Held(t) /\ Verified(t)
    /\ Start(r, "getUser",
             [NoRequest EXCEPT !.op = "delete", !.password = p, !.sub = owner[t], !.token = t])

-----------------------------------------------------------------------------
(* AuthService.register.                                                   *)

FindHandle(r) ==
    /\ step[r] = "findHandle"
    /\ IF HandleUsed(req[r].handle)
       THEN Refuse(r, "handle_taken_error")
       ELSE Go(r, "signUp") /\ UNCHANGED <<state, req>>

SignUp(r) ==
    /\ step[r] = "signUp"
    /\ \/ /\ \E s \in Sub : Registered(req[r].email, s)
          /\ Refuse(r, "email_already_registered_error")
       \/ /\ ~ \E s \in Sub : Registered(req[r].email, s)
          /\ \E s \in Sub :
                /\ pool[s].status = "unused"
                /\ pool' = [pool EXCEPT ![s] = [status |-> "unconfirmed",
                                                email |-> req[r].email,
                                                password |-> req[r].password]]
                /\ \/ Go(r, "insert") /\ req' = [req EXCEPT ![r].sub = s]
                   \/ /\ Unheard(r, {"auth_provider_error", "email_already_registered_error"})
                      /\ UNCHANGED req
          /\ UNCHANGED <<users, owner, session>>

\* UserStorage.insert past the table's constraints.
Store(r) ==
    /\ ~HandleUsed(req[r].handle)
    /\ RowsOf(req[r].sub) = {}
    /\ users' = users \cup {[id |-> r, sub |-> req[r].sub, handle |-> req[r].handle]}
    /\ UNCHANGED <<pool, owner, session>>

\* Mutant: a conflict is passed over (ON CONFLICT DO NOTHING).
BrokenRuleIgnored(r) ==
    /\ HandleUsed(req[r].handle)
    /\ Answer(r, "account", req[r].handle)
    /\ UNCHANGED <<state, req>>

\* UserStorage.insert refused by a constraint, which BROKEN_RULES names.
BrokenRule(r) ==
    \/ HandleUsed(req[r].handle) /\ Refuse(r, "handle_taken_error")
    \/ RowsOf(req[r].sub) # {} /\ Refuse(r, "profile_exists_error")

Insert(r) ==
    /\ step[r] = "insert"
    /\ \/ BrokenRule(r)
       \/ /\ Store(r)
          /\ UNCHANGED req
          /\ \/ Answer(r, "account", req[r].handle)
             \/ Unheard(r, {"database_unavailable_error"})

-----------------------------------------------------------------------------
(* CognitoClient.sign_in, for login and for delete_account.                *)

Matches(r, s) ==
    /\ Registered(req[r].email, s)
    /\ pool[s].password = req[r].password

SignInFails(r) ==
    \/ /\ \A s \in Sub : ~Matches(r, s)
       /\ Refuse(r, "invalid_credentials_error")
    \/ /\ \E s \in Sub : Matches(r, s) /\ pool[s].status = "unconfirmed"
       /\ Refuse(r, "email_not_verified_error")

OpenSession(r, s) ==
    /\ Matches(r, s)
    /\ pool[s].status = "confirmed"
    /\ owner' = [owner EXCEPT ![r] = s]
    /\ session' = [session EXCEPT ![r] = "open"]
    /\ UNCHANGED <<pool, users>>

\* Mutant: the arguments of me are swapped.
LoginSignInSwapped(r) ==
    /\ step[r] = "signIn"
    /\ \E s \in Sub :
          /\ OpenSession(r, s)
          /\ Go(r, "me")
          /\ req' = [req EXCEPT ![r].sub = r, ![r].token = s]

\* login, with the pool's tokens read and their account asked for.
LoginSignIn(r) ==
    /\ step[r] = "signIn"
    /\ \/ SignInFails(r)
       \/ \E s \in Sub :
             /\ OpenSession(r, s)
             /\ \/ /\ Go(r, "me")
                   /\ req' = [req EXCEPT ![r].sub = s, ![r].token = r]
                \/ Unheard(r, {"auth_provider_error"}) /\ UNCHANGED req

(* AuthService.me: the two halves are asked at once and answer in either   *)
(* order; "meUser" and "meRow" name the half still missing.                *)
MeGetUser(r) ==
    /\ step[r] \in {"me", "meUser"}
    /\ \/ ~Accepted(req[r].token) /\ Refuse(r, "not_authenticated_error")
       \/ /\ Accepted(req[r].token)
          /\ IF step[r] = "me" THEN Go(r, "meRow") ELSE Answer(r, "account", req[r].handle)
          /\ UNCHANGED <<state, req>>

MeFindBySub(r) ==
    /\ step[r] \in {"me", "meRow"}
    /\ \E row \in Found(req[r].sub) :
          /\ req' = [req EXCEPT ![r].handle = row.handle]
          /\ IF step[r] = "me" THEN Go(r, "meUser") ELSE Answer(r, "account", row.handle)
    /\ UNCHANGED state

-----------------------------------------------------------------------------
(* AuthService.create_profile.                                             *)

FindSub(r) ==
    /\ step[r] = "findSub"
    /\ IF RowsOf(req[r].sub) # {}
       THEN Refuse(r, "profile_exists_error")
       ELSE Go(r, "findFree") /\ UNCHANGED <<state, req>>

FindFree(r) ==
    /\ step[r] = "findFree"
    /\ IF HandleUsed(req[r].handle)
       THEN Refuse(r, "handle_taken_error")
       ELSE Go(r, "insertProfile") /\ UNCHANGED <<state, req>>

InsertProfile(r) ==
    /\ step[r] = "insertProfile"
    /\ \/ BrokenRule(r)
       \/ /\ Store(r)
          /\ UNCHANGED req
          /\ Go(r, "me") \/ Unheard(r, {"database_unavailable_error"})

-----------------------------------------------------------------------------
(* AuthService.delete_account.                                             *)

GetUser(r) ==
    /\ step[r] = "getUser"
    /\ \/ ~Accepted(req[r].token) /\ Refuse(r, "not_authenticated_error")
       \/ /\ Accepted(req[r].token)
          /\ req' = [req EXCEPT ![r].email = pool[owner[req[r].token]].email]
          /\ Go(r, "checkPassword")
          /\ UNCHANGED state

\* Mutant: a refused password does not end the request.
CheckPasswordIgnored(r) ==
    /\ step[r] = "checkPassword"
    /\ \/ /\ \A s \in Sub : ~Matches(r, s)
          /\ UNCHANGED state
       \/ \E s \in Sub : OpenSession(r, s)
    /\ Go(r, "findRow")
    /\ UNCHANGED req

CheckPassword(r) ==
    /\ step[r] = "checkPassword"
    /\ \/ SignInFails(r)
       \/ /\ \E s \in Sub : OpenSession(r, s)
          /\ Go(r, "findRow") \/ Unheard(r, {"auth_provider_error"})
          /\ UNCHANGED req

\* Mutant: the account goes first.
FindRowLast(r) ==
    /\ step[r] = "findRow"
    /\ Go(r, "deleteUser")
    /\ UNCHANGED <<state, req>>

FindRow(r) ==
    /\ step[r] = "findRow"
    /\ \E row \in Found(req[r].sub) :
          /\ req' = [req EXCEPT ![r].row = row.id, ![r].handle = row.handle]
          /\ Go(r, IF row = NoRow THEN "deleteUser" ELSE "deleteRow")
    /\ UNCHANGED state

\* Mutant: the row is deleted by the handle that was read.
DeleteRowByHandle(r) ==
    /\ step[r] = "deleteRow"
    /\ users' = {row \in users : row.handle # req[r].handle}
    /\ Go(r, "deleteUser") \/ Unheard(r, {"database_unavailable_error"})
    /\ UNCHANGED <<pool, owner, session, req>>

DeleteRow(r) ==
    /\ step[r] = "deleteRow"
    /\ users' = {row \in users : row.id # req[r].row}
    /\ Go(r, "deleteUser") \/ Unheard(r, {"database_unavailable_error"})
    /\ UNCHANGED <<pool, owner, session, req>>

DeleteUser(r) ==
    /\ step[r] = "deleteUser"
    /\ \/ ~Accepted(req[r].token) /\ Refuse(r, "not_authenticated_error")
       \/ /\ Accepted(req[r].token)
          /\ pool' = [pool EXCEPT ![owner[req[r].token]].status = "deleted"]
          /\ \/ Answer(r, "deleted", None)
             \/ Unheard(r, {"auth_provider_error", "not_authenticated_error"})
          /\ UNCHANGED <<users, owner, session, req>>

-----------------------------------------------------------------------------
(* Failures, and what is one call to the pool.                             *)

AsksDatabase == {"findHandle", "insert", "findSub", "findFree", "insertProfile",
                 "me", "meRow", "findRow", "deleteRow"}
AsksPool == {"signUp", "signIn", "me", "meUser", "getUser", "checkPassword", "deleteUser"}
InProgress == AsksDatabase \cup AsksPool

\* A call that does not get through, is throttled or is refused for its data:
\* one failure of each side stands for the others, which change nothing either.
CallRefused(r) ==
    /\ "refused" \in Faults
    /\ \/ step[r] \in AsksDatabase /\ Refuse(r, "database_unavailable_error")
       \/ step[r] \in AsksPool /\ Refuse(r, "auth_provider_error")

\* The gateway goes down with the requests it is handling.
Crash ==
    /\ "crash" \in Faults
    /\ \E r \in Request : step[r] \in InProgress
    /\ step' = [r \in Request |-> IF step[r] \in InProgress THEN "answered" ELSE step[r]]
    /\ UNCHANGED <<state, req, reply>>

Verify(s) ==
    /\ pool[s].status = "unconfirmed"
    /\ pool' = [pool EXCEPT ![s].status = "confirmed"]
    /\ UNCHANGED <<users, owner, session, step, req, reply>>

ResetPassword(s, p) ==
    /\ pool[s].status = "confirmed"
    /\ pool' = [pool EXCEPT ![s].password = p]
    /\ UNCHANGED <<users, owner, session, step, req, reply>>

Logout(t) ==
    /\ Held(t)
    /\ session[t] = "open"
    /\ session' = [session EXCEPT ![t] = "revoked"]
    /\ UNCHANGED <<pool, users, owner, step, req, reply>>

\* An hour after it was issued an access token is no longer accepted.
Expire(t) ==
    /\ Verified(t)
    /\ session' = [session EXCEPT ![t] = "expired"]
    /\ UNCHANGED <<pool, users, owner, step, req, reply>>

-----------------------------------------------------------------------------
Arrives(r) ==
    \/ \E h \in Handle, e \in Email, p \in Password : Register(r, h, e, p)
    \/ \E e \in Email, p \in Password : Login(r, e, p)
    \/ \E t \in Token, h \in Handle : CreateProfile(r, t, h)
    \/ \E t \in Token, p \in Password : DeleteAccount(r, t, p)

Handles(r) ==
    \/ FindHandle(r) \/ SignUp(r) \/ Insert(r)
    \/ LoginSignIn(r) \/ MeGetUser(r) \/ MeFindBySub(r)
    \/ FindSub(r) \/ FindFree(r) \/ InsertProfile(r)
    \/ GetUser(r) \/ CheckPassword(r) \/ FindRow(r) \/ DeleteRow(r) \/ DeleteUser(r)
    \/ CallRefused(r)

Next ==
    \/ \E r \in Request : Arrives(r) \/ Handles(r)
    \/ Crash
    \/ \E s \in Sub : Verify(s) \/ \E p \in Password : ResetPassword(s, p)
    \/ \E t \in Token : Logout(t) \/ Expire(t)

Spec == Init /\ [][Next]_vars

-----------------------------------------------------------------------------
Errors == {"handle_taken_error", "email_already_registered_error", "profile_exists_error",
           "invalid_credentials_error", "email_not_verified_error",
           "not_authenticated_error", "auth_provider_error", "database_unavailable_error"}

Account == [status : {"unused", "unconfirmed", "confirmed", "deleted"},
            email : Email \cup {None}, password : Password \cup {None}]

Step == {"new", "answered"} \cup InProgress

Locals == [op : {"none", "register", "login", "profile", "delete"},
           handle : Handle \cup {None}, email : Email \cup {None},
           password : Password \cup {None}, sub : Sub \cup {None},
           token : Token \cup {None}, row : RowId \cup {None}]

Response == [is : {"nothing", "account", "deleted"} \cup Errors, handle : Handle \cup {None}]

(* Every variable has its type.                                            *)
TypeOK ==
    /\ pool \in [Sub -> Account]
    /\ users \subseteq Row
    /\ owner \in [Token -> Sub \cup {None}]
    /\ session \in [Token -> {"none", "open", "revoked", "expired"}]
    /\ step \in [Request -> Step]
    /\ req \in [Request -> Locals]
    /\ reply \in [Request -> Response]

\* The password of account s was checked by a deletion.
DeletionChecked(s) == \E r \in Request : req[r].op = "delete" /\ owner[r] = s

(* "A stolen session alone must not be enough": an account disappears only *)
(* in a request that has had that account's own password checked, though   *)
(* the check goes by the email it had a call earlier, which others may     *)
(* free and register meanwhile (AuthService.delete_account).               *)
OnlyOwnAccountDeleted ==
    [][\A s \in Sub :
           pool[s].status # "deleted" /\ pool'[s].status = "deleted" =>
               \E r \in Request : step[r] = "deleteUser" /\ owner[r] = s]_vars

(* A handle once told to its account stays its handle, whoever else        *)
(* registers, deletes or retries: only a deletion of that very account     *)
(* whose password was checked may take it away (UserStorage.insert and     *)
(* delete, AuthService).                                                   *)
HandleIsKept ==
    \A r \in Request :
        reply[r].is = "account" /\ reply[r].handle # None =>
            \/ \E row \in users : row.sub = req[r].sub /\ row.handle = reply[r].handle
            \/ DeletionChecked(req[r].sub)

(* create_profile answers with the row it inserted, though it reads it     *)
(* again after the commit: with another handle, or with none, only when a  *)
(* deletion of the account has checked its password (AuthService.          *)
(* create_profile, which returns me).                                      *)
ProfileIsOwn ==
    \A r \in Request :
        req[r].op = "profile" /\ reply[r].is = "account" =>
            \/ [id |-> r, sub |-> req[r].sub, handle |-> reply[r].handle] \in users
            \/ DeletionChecked(req[r].sub)

(* "The profile goes first": when an account is gone so is the profile it  *)
(* had, wherever the deletion was interrupted (delete_account).            *)
ProfileGoesFirst ==
    \A s \in Settled : pool[s].status = "deleted" => \A row \in users : row.id # s

\* What owners of accounts see: whether an account exists and under which
\* email, who has which handle, and what was answered about it.
accounts == [s \in Sub |-> [status |-> IF Exists(s) THEN "open" ELSE pool[s].status,
                            email |-> pool[s].email]]
profiles == {[sub |-> row.sub, handle |-> row.handle] : row \in users}
vouched == {s \in Sub : DeletionChecked(s)}
told == {[sub |-> req[r].sub, handle |-> reply[r].handle] :
            r \in {q \in Request : reply[q].is = "account"}}

(* However the calls of requests interleave, fail or are cut short, their  *)
(* owners see a registry that opens, claims, tells and deletes in single   *)
(* steps (AuthService over CognitoClient and UserStorage).                 *)
Owners == INSTANCE Registry WITH
    Sub <- Sub, Email <- Email, Handle <- Handle, None <- None,
    accounts <- accounts, profiles <- profiles, vouched <- vouched, told <- told
ImplementsRegistry == Owners!RegistrySpec

-----------------------------------------------------------------------------
(* What the repository says and the code does not do.                      *)

(* "Deletes the signed-in account, its profile and every session"          *)
(* (services/auth.py:271): nothing is left of an account that was deleted. *)
DeletedLeavesNothing ==
    \A r \in Request :
        reply[r].is = "deleted" => \A row \in users : row.sub # req[r].sub
=============================================================================
