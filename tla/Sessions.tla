------------------------------ MODULE Sessions ------------------------------
(***************************************************************************)
(* The session of one browser: the two cookies of utils/cookies.py, the    *)
(* requests of /auth that set and clear them, and the pool's sessions      *)
(* behind them. A request carries the cookies of the moment it is sent; it *)
(* is handled in several calls to the pool, and its answer changes the     *)
(* cookies whenever it arrives, if it still does. The pool is external and *)
(* modelled as CognitoClient uses it.                                      *)
(***************************************************************************)
EXTENDS Integers

CONSTANTS
    Request,      \* the requests the browser makes
    Account,
    Settled,      \* sessions opened before, one of which may be in the jar
    AccountOf,    \* and whose they are
    None,         \* no session, no token, no account
    MaxAge        \* SESSION_MAX_AGE in ticks, the days a cookie is kept

ASSUME SessionsAssumption ==
    /\ AccountOf \in [Settled -> Account]
    /\ Request \cap Settled = {}
    /\ None \notin Request \cup Settled \cup Account
    /\ MaxAge \in Nat \ {0}

\* A session, with its refresh token, is named after the request that opened
\* it, an access token after the request it was issued in.
Session == Request \cup Settled
Token == Request \cup Settled

VARIABLES
    jar,          \* the two cookies: the token each holds, and its age
    status,       \* status[s]: whether session s was opened, and is still open
    account,      \* account[s]: whose session it is
    issued,       \* issued[t]: the session the access token t was issued from
    expired,      \* the access tokens past their lifetime
    gone,         \* the accounts deleted
    step,         \* step[r]: the call the handler of r makes next
    req,          \* req[r]: what was asked, and the cookies it carried
    answer,       \* answer[r]: what the gateway's response does to the jar
    waiting,      \* the requests the browser waits for
    overlapped,   \* history: a request was sent while another was waited for
    signedOut     \* history: a logout was answered after the last sign-in

pool == <<status, account, issued, expired, gone>>
client == <<jar, waiting, overlapped, signedOut>>
vars == <<jar, status, account, issued, expired, gone, step, req, answer,
          waiting, overlapped, signedOut>>

Empty == [access |-> None, accessAge |-> 0, refresh |-> None, refreshAge |-> 0]
Owner(t) == account[issued[t]]
Open(s) == status[s] = "open"

NoRequest == [op |-> "none", account |-> None, access |-> None, refresh |-> None]

Init ==
    /\ jar \in {Empty} \cup {[Empty EXCEPT !.access = s, !.refresh = s] : s \in Settled}
    /\ status = [s \in Session |-> IF s \in Settled THEN "open" ELSE "none"]
    /\ account = [s \in Session |-> IF s \in Settled THEN AccountOf[s] ELSE None]
    /\ issued = [t \in Token |-> IF t \in Settled THEN t ELSE None]
    /\ expired = {}
    /\ gone = {}
    /\ step = [r \in Request |-> "new"]
    /\ req = [r \in Request |-> NoRequest]
    /\ answer = [r \in Request |-> "nothing"]
    /\ waiting = {}
    /\ overlapped = FALSE
    /\ signedOut = FALSE

-----------------------------------------------------------------------------
(* The browser.                                                            *)

Send(r, op, a, first) ==
    /\ step[r] = "new"
    /\ step' = [step EXCEPT ![r] = first]
    /\ req' = [req EXCEPT ![r] = [op |-> op, account |-> a,
                                  access |-> jar.access, refresh |-> jar.refresh]]
    /\ waiting' = waiting \cup {r}
    /\ overlapped' = (overlapped \/ waiting # {})
    /\ UNCHANGED <<jar, signedOut, answer, pool>>

Login(r, a) == Send(r, "login", a, "signIn")
Refresh(r) == Send(r, "refresh", None, "verify")
Logout(r) == Send(r, "logout", None, "signOut")
DeleteAccount(r) == Send(r, "delete", None, "admit")

\* Mutant: the access cookie lasts as long as its token, not as the session.
SetBothBriefly(r) == [access |-> r, accessAge |-> MaxAge - 1, refresh |-> r, refreshAge |-> 0]
\* Mutant: a sign-in keeps the refresh token the browser has.
SetBothKeeping(r) == [access |-> r, accessAge |-> 0,
                      refresh |-> IF jar.refresh = None THEN r ELSE jar.refresh,
                      refreshAge |-> jar.refreshAge]

\* set_session_cookies, with and without a refresh token, and
\* clear_session_cookies: what a response does to the jar.
SetBoth(r) == [access |-> r, accessAge |-> 0, refresh |-> r, refreshAge |-> 0]
SetAccess(r) == [jar EXCEPT !.access = r, !.accessAge = 0]

\* Mutant: a cookie is deleted on another path than it was set on.
ReceiveLeavingAccess(r) ==
    /\ r \in waiting
    /\ answer[r] = "clear"
    /\ waiting' = waiting \ {r}
    /\ jar' = [jar EXCEPT !.refresh = None, !.refreshAge = 0]
    /\ signedOut' = (signedOut \/ req[r].op = "logout")
    /\ UNCHANGED <<pool, step, req, answer, overlapped>>

Receive(r) ==
    /\ r \in waiting
    /\ answer[r] # "nothing"
    /\ waiting' = waiting \ {r}
    /\ jar' = CASE answer[r] = "both" -> SetBoth(r)
                [] answer[r] = "access" -> SetAccess(r)
                [] answer[r] = "clear" -> Empty
                [] answer[r] = "error" -> jar
    /\ signedOut' = (answer[r] # "both"
                     /\ (signedOut \/ (answer[r] = "clear" /\ req[r].op = "logout")))
    /\ UNCHANGED <<pool, step, req, answer, overlapped>>

\* The page is left, the connection breaks: the gateway goes on handling the
\* request, and the browser never sees its answer.
GiveUp(r) ==
    /\ r \in waiting
    /\ waiting' = waiting \ {r}
    /\ UNCHANGED <<pool, step, req, answer, jar, overlapped, signedOut>>

\* Mutant: the cookies have no max_age.
TickForever ==
    /\ jar # Empty
    /\ jar' = [jar EXCEPT !.accessAge = @ + 1, !.refreshAge = @ + 1]
    /\ UNCHANGED <<pool, step, req, answer, waiting, overlapped, signedOut>>

\* Cookies age together and are dropped MAX_AGE after they were last set.
Tick ==
    LET accessAge == jar.accessAge + 1
        refreshAge == jar.refreshAge + 1
        access == IF accessAge < MaxAge THEN jar.access ELSE None
        refresh == IF refreshAge < MaxAge THEN jar.refresh ELSE None
    IN  /\ jar # Empty
        /\ jar' = [access |-> access,
                   accessAge |-> IF access = None THEN 0 ELSE accessAge,
                   refresh |-> refresh,
                   refreshAge |-> IF refresh = None THEN 0 ELSE refreshAge]
        /\ UNCHANGED <<pool, step, req, answer, waiting, overlapped, signedOut>>

-----------------------------------------------------------------------------
(* The gateway's handlers, one action per call to the pool. Whatever fails *)
(* is answered with an error, and an error leaves the cookies alone.       *)

Answer(r, is) ==
    /\ step' = [step EXCEPT ![r] = "answered"]
    /\ answer' = [answer EXCEPT ![r] = is]
    /\ UNCHANGED <<client, req>>

Fails(r) == Answer(r, "error")

Go(r, next) ==
    /\ step' = [step EXCEPT ![r] = next]
    /\ UNCHANGED <<client, req, answer>>

\* Cognito opens a session of account a and issues its first access token.
Opens(r, a) ==
    /\ a \notin gone
    /\ status' = [status EXCEPT ![r] = "open"]
    /\ account' = [account EXCEPT ![r] = a]
    /\ issued' = [issued EXCEPT ![r] = r]
    /\ UNCHANGED <<expired, gone>>

\* AuthService.login: sign_in, then the token is read and me asked. An answer
\* of the pool that is lost has taken effect all the same.
LoginSignIn(r) ==
    /\ step[r] = "signIn"
    /\ \/ Fails(r) /\ UNCHANGED pool
       \/ Opens(r, req[r].account) /\ (Go(r, "me") \/ Fails(r))

LoginMe(r) ==
    /\ step[r] = "me"
    /\ \/ Fails(r)
       \/ r \notin expired /\ Open(r) /\ Answer(r, "both")
    /\ UNCHANGED pool

\* Mutant: the account is not read from the access token.
RefreshVerifyTrusting(r) ==
    /\ step[r] = "verify"
    /\ req[r].access # None /\ req[r].refresh # None
    /\ step' = [step EXCEPT ![r] = "renew"]
    /\ req' = [req EXCEPT ![r].account = account[req[r].refresh]]
    /\ UNCHANGED <<client, answer, pool>>

\* AuthService.refresh: both cookies are needed; the access token says whose
\* secret hash to send, expired or not.
RefreshVerify(r) ==
    /\ step[r] = "verify"
    /\ IF req[r].access = None \/ req[r].refresh = None
       THEN Fails(r)
       ELSE \/ Fails(r)
            \/ /\ step' = [step EXCEPT ![r] = "renew"]
               /\ req' = [req EXCEPT ![r].account = Owner(req[r].access)]
               /\ UNCHANGED <<client, answer>>
    /\ UNCHANGED <<pool>>

\* CognitoClient.refresh: the pool renews an open session whose account the
\* secret hash is for, and hands back no refresh token.
RefreshRenew(r) ==
    /\ step[r] = "renew"
    /\ \/ Fails(r) /\ UNCHANGED pool
       \/ /\ Open(req[r].refresh)
          /\ account[req[r].refresh] = req[r].account
          /\ issued' = [issued EXCEPT ![r] = req[r].refresh]
          /\ UNCHANGED <<status, account, expired, gone>>
          /\ Answer(r, "access") \/ Fails(r)

\* Mutant: a revocation that fails is ignored.
LogoutForgets(r) ==
    /\ step[r] = "signOut"
    /\ Answer(r, "clear")
    /\ UNCHANGED pool

\* AuthService.logout: without a refresh token there is nothing to revoke; a
\* token that is revoked already counts as success.
LogoutSignOut(r) ==
    /\ step[r] = "signOut"
    /\ \/ req[r].refresh = None /\ Answer(r, "clear") /\ UNCHANGED pool
       \/ req[r].refresh # None /\ Fails(r) /\ UNCHANGED pool
       \/ /\ req[r].refresh # None
          /\ status' = [status EXCEPT ![req[r].refresh] = "ended"]
          /\ UNCHANGED <<account, issued, expired, gone>>
          /\ Answer(r, "clear") \/ Fails(r)

\* get_current_account: signature and expiry, checked here.
DeleteAdmit(r) ==
    /\ step[r] = "admit"
    /\ \/ Fails(r)
       \/ /\ req[r].access # None
          /\ req[r].access \notin expired
          /\ Go(r, "getUser")
    /\ UNCHANGED pool

\* AuthService.delete_account: get_user, then the password is checked by
\* signing in, which opens a session no browser will hold.
DeleteGetUser(r) ==
    /\ step[r] = "getUser"
    /\ \/ Fails(r)
       \/ Open(issued[req[r].access]) /\ Go(r, "checkPassword")
    /\ UNCHANGED pool

DeleteCheckPassword(r) ==
    /\ step[r] = "checkPassword"
    /\ \/ Fails(r) /\ UNCHANGED pool
       \/ Opens(r, Owner(req[r].access)) /\ (Go(r, "deleteUser") \/ Fails(r))

\* delete_user, "and with it every session it had"; the rows of the users
\* table in between are those of module Accounts and may fail too.
DeleteUser(r) ==
    /\ step[r] = "deleteUser"
    /\ \/ Fails(r) /\ UNCHANGED pool
       \/ LET a == Owner(req[r].access)
          IN  /\ Open(issued[req[r].access])
              /\ gone' = gone \cup {a}
              /\ status' = [s \in Session |-> IF account[s] = a THEN "ended" ELSE status[s]]
              /\ UNCHANGED <<account, issued, expired>>
              /\ Answer(r, "clear") \/ Fails(r)

\* An access token's hour is over.
Expire(t) ==
    /\ issued[t] # None
    /\ t \notin expired
    /\ expired' = expired \cup {t}
    /\ UNCHANGED <<client, status, account, issued, gone, step, req, answer>>

Next ==
    \/ \E r \in Request :
        \/ \E a \in Account : Login(r, a)
        \/ Refresh(r)
        \/ Logout(r)
        \/ DeleteAccount(r)
        \/ Receive(r)
        \/ GiveUp(r)
        \/ LoginSignIn(r)
        \/ LoginMe(r)
        \/ RefreshVerify(r)
        \/ RefreshRenew(r)
        \/ LogoutSignOut(r)
        \/ DeleteAdmit(r)
        \/ DeleteGetUser(r)
        \/ DeleteCheckPassword(r)
        \/ DeleteUser(r)
    \/ \E t \in Token : Expire(t)
    \/ Tick

Spec == Init /\ [][Next]_vars

-----------------------------------------------------------------------------
Jar == [access : Token \cup {None}, accessAge : 0..MaxAge,
        refresh : Session \cup {None}, refreshAge : 0..MaxAge]

(* Every variable has its type.                                            *)
TypeOK ==
    /\ jar \in Jar
    /\ status \in [Session -> {"none", "open", "ended"}]
    /\ account \in [Session -> Account \cup {None}]
    /\ issued \in [Token -> Session \cup {None}]
    /\ expired \subseteq Token
    /\ gone \subseteq Account
    /\ step \in [Request -> {"new", "answered", "signIn", "me", "verify", "renew", "signOut",
                             "admit", "getUser", "checkPassword", "deleteUser"}]
    /\ req \in [Request -> [op : {"none", "login", "refresh", "logout", "delete"},
                            account : Account \cup {None},
                            access : Token \cup {None}, refresh : Session \cup {None}]]
    /\ answer \in [Request -> {"nothing", "error", "both", "access", "clear"}]
    /\ waiting \subseteq Request
    /\ overlapped \in BOOLEAN
    /\ signedOut \in BOOLEAN

(* A session that can still be renewed is never lost for want of the other *)
(* cookie: while the browser has the refresh token it also has an access   *)
(* token, which refresh needs to know whose session it is, however old the *)
(* cookies and in whatever order answers arrive (utils/cookies.py: both    *)
(* last SESSION_MAX_AGE, not the hour an access token does).               *)
RenewableHasAccess == jar.refresh # None => jar.access # None

(* A renewal never turns the session of one account into another's: its    *)
(* new access token belongs to the account of both cookies the request     *)
(* carried, even if late answers have mixed those of two sessions          *)
(* (AuthService.refresh).                                                  *)
RenewalKeepsAccount ==
    \A r \in Request :
        req[r].op = "refresh" /\ issued[r] # None =>
            /\ Owner(r) = Owner(req[r].access)
            /\ Owner(r) = account[req[r].refresh]

(* A browser that waits for each answer before it asks again, or gives it  *)
(* up for good, holds two tokens of one session (set_session_cookies).     *)
JarOfOneSession ==
    ~overlapped /\ jar.refresh # None => issued[jar.access] = jar.refresh

(* Such a browser, once signed out, holds nothing until it signs in again  *)
(* (routers/auth.py logout).                                               *)
SignedOutStaysOut == ~overlapped /\ signedOut => jar = Empty

(* An answer makes such a browser drop a session only when the pool has    *)
(* ended it: a logout whose revocation fails, or is not heard of, leaves   *)
(* the cookies a retry needs (AuthService.logout, delete_account).         *)
DropsOnlyEnded ==
    [][~overlapped /\ waiting' # waiting /\ jar.refresh # None /\ jar'.refresh = None =>
           status[jar.refresh] = "ended"]_vars
=============================================================================
