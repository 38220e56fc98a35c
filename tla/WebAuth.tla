------------------------------ MODULE WebAuth ------------------------------
(***************************************************************************)
(* The identity screens of the web client: the route tree of router.tsx,   *)
(* one tab's session history, and the five screens of app/auth with what   *)
(* is typed in them. A screen keeps its state while it stays mounted: the  *)
(* router mounts another one when the path changes, and the browser loads  *)
(* another document for a plain link.                                      *)
(***************************************************************************)
EXTENDS EmailField

CONSTANTS
    Typed,          \* the addresses typed in the email control
    NoSpace,        \* the texts without a space,
    Dotted,         \* and those of them with a dot inside
    Handle, GoodHandle,      \* handles, and those of the pattern HANDLE
    Password, Empty,         \* passwords, and the one of an empty control
    Length, HasNonLetter,    \* what scoreOf reads of a password
    MIN_PASSWORD,
    Start,          \* the paths a tab may open on
    MaxHistory      \* bound: entries of the session history

ASSUME WebAuthAssumption ==
    /\ Typed \subseteq UNION {[1..n -> Text] : n \in 1..3}
    /\ Dotted \subseteq NoSpace /\ NoSpace \subseteq Text /\ Blank \notin Dotted
    /\ GoodHandle \subseteq Handle /\ Blank \in Handle
    /\ Empty \in Password /\ HasNonLetter \subseteq Password
    /\ Length \in [Password -> Nat] /\ Length[Empty] = 0
    /\ \A p \in Password : Length[p] = 0 => p = Empty
    /\ MIN_PASSWORD \in Nat \ {0}
    /\ MaxHistory \in Nat \ {0}

VARIABLES
    history,        \* the entries of the tab: path, state, token, document
    at,             \* the entry on screen
    handle, password, confirm,                           \* the other controls
    errors,         \* the controls the last submission complained of
    sent,           \* ForgotPassword: a link was asked for
    done,           \* ResetPassword: the password was accepted
    resent,         \* VerifyEmail: the button was used
    enter           \* history: if the last step was an Enter in the email
                    \* control, what was pointed at then in its list and
                    \* whether the key went on to submit the form

tab == <<history, at>>
typed == <<handle, password, confirm>>
said == <<errors, sent, done, resent>>
vars == <<history, at, value, active, dismissed, focused, leaving, pointed,
          handle, password, confirm, errors, sent, done, resent, enter>>

ROUTES == [home |-> "/", explore |-> "/404", write |-> "/404",
           login |-> "/app/login", register |-> "/app/register",
           verify |-> "/app/verify", forgotPassword |-> "/app/forgot-password",
           resetPassword |-> "/app/reset-password"]
Path == {ROUTES.home, ROUTES.explore, ROUTES.login, ROUTES.register,
         ROUTES.verify, ROUTES.forgotPassword, ROUTES.resetPassword}

ASSUME StartAssumption == Start \subseteq Path

\* The element the router renders for a path.
router(path) ==
    CASE path = ROUTES.home -> "Landing"
      [] path = ROUTES.login -> "Login"
      [] path = ROUTES.register -> "Register"
      [] path = ROUTES.verify -> "VerifyEmail"
      [] path = ROUTES.forgotPassword -> "ForgotPassword"
      [] path = ROUTES.resetPassword -> "ResetPassword"
      [] OTHER -> "NotFound"

Here == history[at]
Screen == router(Here.path)

Entry == [path : Path, state : Address \cup {NoAddress},
          token : BOOLEAN, doc : 1..MaxHistory]
Page(path, doc) ==
    [path |-> path, state |-> NoAddress, token |-> FALSE, doc |-> doc]

\* Whether the form with the email control is on screen.
HasEmail == Screen \in {"Login", "Register"} \/ (Screen = "ForgotPassword" /\ ~sent)
HasForm == HasEmail \/ (Screen = "ResetPassword" /\ Here.token /\ ~done)
SetsPassword == HasForm /\ Screen \in {"Register", "ResetPassword"}

Valid(v) == /\ Len(v) = 2
            /\ v[1] \in NoSpace \ {Blank}
            /\ v[2] \in Dotted

scoreOf(p) ==
    IF Length[p] < MIN_PASSWORD THEN 0
    ELSE 1 + (IF p \in HasNonLetter THEN 1 ELSE 0)
           + (IF Length[p] >= 12 THEN 1 ELSE 0)

Init ==
    /\ \E path \in Start, token \in BOOLEAN :
         /\ token => path = ROUTES.resetPassword
         /\ history = <<[Page(path, 1) EXCEPT !.token = token]>>
    /\ at = 1
    /\ Unused
    /\ handle = Blank
    /\ password = Empty
    /\ confirm = Empty
    /\ errors = {}
    /\ sent = FALSE
    /\ done = FALSE
    /\ resent = FALSE
    /\ enter = {}

\* A screen that mounts starts anew.
Fresh ==
    /\ Mount(Untyped)
    /\ handle' = Blank
    /\ password' = Empty
    /\ confirm' = Empty
    /\ errors' = {}
    /\ sent' = FALSE
    /\ done' = FALSE
    /\ resent' = FALSE

-----------------------------------------------------------------------------
\* The tab: links, the back and forward buttons, reload.

Upto(n) == SubSeq(history, 1, n)

Push(entry) ==
    /\ at < MaxHistory
    /\ history' = Append(Upto(at), entry)
    /\ at' = at + 1
    /\ Fresh

\* The links of each screen. AppLayout adds its own around those of app/auth.
BarLinks == {ROUTES.explore, ROUTES.login, ROUTES.register}
MenuLinks == {ROUTES.explore, ROUTES.login}
HeroLinks == {ROUTES.explore, ROUTES.write}
FinalCtaLinks == {ROUTES.explore, ROUTES.register, ROUTES.write}
LandingLinks == BarLinks \cup MenuLinks \cup HeroLinks \cup FinalCtaLinks
NotFoundLinks == {ROUTES.home}
AppLinks == {ROUTES.home}
LoginLinks == {ROUTES.register, ROUTES.forgotPassword}
RegisterLinks == {ROUTES.login}
VerifyLinks == {ROUTES.register}
ForgotLinks == {ROUTES.login}
ResetLinks ==
    {ROUTES.login} \cup IF Here.token THEN {} ELSE {ROUTES.forgotPassword}
Links ==
    CASE Screen = "Landing" -> LandingLinks
      [] Screen = "NotFound" -> NotFoundLinks
      [] Screen = "Login" -> AppLinks \cup LoginLinks
      [] Screen = "Register" -> AppLinks \cup RegisterLinks
      [] Screen = "VerifyEmail" -> AppLinks \cup VerifyLinks
      [] Screen = "ForgotPassword" -> AppLinks \cup ForgotLinks
      [] Screen = "ResetPassword" -> AppLinks \cup ResetLinks

\* The chrome of the site uses plain links, which load a document; the rest
\* of the client uses the router's.
Follow ==
    \E path \in Links :
        Push(Page(path, IF Screen = "Landing" THEN Here.doc + 1 ELSE Here.doc))

\* Any number of entries back or forward. Within a document the router
\* renders the entry's path, and a screen that is rendered again stays as it
\* is.
Go ==
    \E i \in DOMAIN history \ {at} :
        /\ at' = i
        /\ UNCHANGED history
        /\ IF history[i].path = Here.path /\ history[i].doc = Here.doc
           THEN UNCHANGED <<field, typed, said>>
           ELSE Fresh

Reload == Fresh /\ UNCHANGED tab

-----------------------------------------------------------------------------
\* The forms.

TypeEmail == HasEmail /\ EditBy(Typed) /\ UNCHANGED <<tab, typed, said>>

TypeHandle ==
    /\ Screen = "Register"
    /\ handle' \in Handle
    /\ UNCHANGED <<tab, field, password, confirm, said>>

TypePassword ==
    /\ HasForm /\ Screen # "ForgotPassword"
    /\ password' \in Password
    /\ UNCHANGED <<tab, field, handle, confirm, said>>

TypeConfirm ==
    /\ SetsPassword
    /\ confirm' \in Password
    /\ UNCHANGED <<tab, field, handle, password, said>>

EmailError == IF Valid(value) THEN {} ELSE {"email"}
NewPasswordErrors ==
    (IF Length[password] < MIN_PASSWORD THEN {"password"} ELSE {}) \cup
    (IF confirm # password THEN {"confirm"} ELSE {})

\* It validates, and nothing else.
LoginErrors == EmailError \cup IF password = Empty THEN {"password"} ELSE {}
SubmitLogin ==
    /\ Screen = "Login"
    /\ errors' = LoginErrors
    /\ UNCHANGED <<tab, field, typed, sent, done, resent>>

RegisterErrors ==
    (IF handle \in GoodHandle THEN {} ELSE {"handle"}) \cup EmailError \cup NewPasswordErrors
Confirmation ==
    [path |-> ROUTES.verify, state |-> value, token |-> FALSE, doc |-> Here.doc]

\* Mutant: the confirmation takes the place of the form in the history.
SubmitRegisterReplacing ==
    /\ Screen = "Register"
    /\ \/ /\ RegisterErrors # {}
          /\ errors' = RegisterErrors
          /\ UNCHANGED <<tab, field, typed, sent, done, resent>>
       \/ /\ RegisterErrors = {}
          /\ history' = [history EXCEPT ![at] = Confirmation]
          /\ UNCHANGED at
          /\ Fresh

SubmitRegister ==
    /\ Screen = "Register"
    /\ \/ /\ RegisterErrors # {}
          /\ errors' = RegisterErrors
          /\ UNCHANGED <<tab, field, typed, sent, done, resent>>
       \/ /\ RegisterErrors = {}
          /\ Push(Confirmation)

\* Mutant: the error is shown and the screen moves on all the same.
SubmitForgotAnyway ==
    /\ Screen = "ForgotPassword" /\ HasForm
    /\ errors' = EmailError
    /\ sent' = TRUE
    /\ Mount(value)
    /\ UNCHANGED <<tab, typed, done, resent>>

SubmitForgot ==
    /\ Screen = "ForgotPassword" /\ HasForm
    /\ errors' = EmailError
    /\ \/ /\ ~Valid(value)
          /\ UNCHANGED <<field, sent>>
       \/ /\ Valid(value)
          /\ sent' = TRUE
          /\ Mount(value)
    /\ UNCHANGED <<tab, typed, done, resent>>

\* The form comes back with the address that was typed in it.
UseAnother ==
    /\ Screen = "ForgotPassword" /\ sent
    /\ sent' = FALSE
    /\ UNCHANGED <<tab, field, typed, errors, done, resent>>

\* Mutant: the decision is taken on the errors of the last submission.
SubmitResetStale ==
    /\ Screen = "ResetPassword" /\ HasForm
    /\ errors' = NewPasswordErrors
    /\ done' = (errors = {})
    /\ UNCHANGED <<tab, field, typed, sent, resent>>

SubmitReset ==
    /\ Screen = "ResetPassword" /\ HasForm
    /\ errors' = NewPasswordErrors
    /\ done' = (NewPasswordErrors = {})
    /\ UNCHANGED <<tab, field, typed, sent, resent>>

Resend ==
    /\ Screen = "VerifyEmail" /\ ~resent
    /\ resent' = TRUE
    /\ UNCHANGED <<tab, field, typed, errors, sent, done>>

\* A form is submitted from its button or by Enter in another control.
SubmitWithEmail == SubmitLogin \/ SubmitRegister \/ SubmitForgot
Submit == SubmitWithEmail \/ SubmitReset

\* Mutant: Enter looks at the highlight and not at the list, which Escape
\* closes without it: there is nothing to take.
EnterThoughClosed ==
    /\ HasEmail /\ focused
    /\ \/ /\ active >= 0
          /\ Accept \/ (~open /\ pick(Untyped))
          /\ enter' = {[pointed |-> pointed, judged |-> FALSE]}
          /\ UNCHANGED <<tab, typed, said>>
       \/ /\ active < 0
          /\ SubmitWithEmail
          /\ enter' = {[pointed |-> pointed, judged |-> TRUE]}

\* One key serves two: while a suggestion is highlighted Enter takes it and is
\* kept from the form; else the browser submits the form.
EnterInEmail ==
    /\ HasEmail /\ focused
    /\ \/ /\ Accept
          /\ enter' = {[pointed |-> pointed, judged |-> FALSE]}
          /\ UNCHANGED <<tab, typed, said>>
       \/ /\ ~Highlighted
          /\ SubmitWithEmail
          /\ enter' = {[pointed |-> pointed, judged |-> TRUE]}

Other ==
    \/ Follow \/ Go \/ Reload
    \/ TypeEmail \/ TypeHandle \/ TypePassword \/ TypeConfirm
    \/ Submit \/ UseAnother \/ Resend

Next == (Other /\ enter' = {}) \/ EnterInEmail

Spec == Init /\ [][Next]_vars

-----------------------------------------------------------------------------
\* Every variable has its type: the tab's entries, what is typed, and what
\* the screens say.
TypeOK ==
    /\ history \in Seq(Entry) /\ Len(history) \in 1..MaxHistory
    /\ at \in 1..Len(history)
    /\ FieldTypeOK
    /\ handle \in Handle
    /\ password \in Password
    /\ confirm \in Password
    /\ errors \subseteq {"handle", "email", "password", "confirm"}
    /\ sent \in BOOLEAN
    /\ done \in BOOLEAN
    /\ resent \in BOOLEAN
    /\ enter \subseteq [pointed : Address \cup {NoAddress}, judged : BOOLEAN]

\* VerifyEmail names only addresses that Register found valid, and the entry
\* before it in the tab's history is the form it came from, so that going
\* back corrects the address.
ConfirmationFollowsForm ==
    \A i \in DOMAIN history :
        history[i].state # NoAddress =>
            /\ history[i].path = ROUTES.verify
            /\ Valid(history[i].state)
            /\ i > 1
            /\ history[i - 1].path = ROUTES.register

\* ForgotPassword says that a link is on its way for a valid address only,
\* and with no complaint left from an earlier attempt.
SentToAnAddress == sent => Valid(value) /\ errors = {}

\* ResetPassword is done only on a link with a token, with a password whose
\* strength is not Too short, typed twice the same.
DoneWithNewPassword ==
    done => /\ Here.token
            /\ scoreOf(password) > 0
            /\ confirm = password
            /\ errors = {}

\* One Enter serves the list or the form, and the one the reader means: it
\* takes the very suggestion that was pointed at in the list as it is now, and
\* does not submit; with none pointed at since the list came, opened or closed,
\* it is not swallowed and submits.
EnterServesOne ==
    \A e \in enter :
        IF e.pointed = NoAddress THEN e.judged
        ELSE ~e.judged /\ value = e.pointed

=============================================================================
