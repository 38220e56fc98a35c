------------------------------ MODULE Registry ------------------------------
(***************************************************************************)
(* What the account service promises to the owners of accounts, whatever   *)
(* happens between the calls of a request: one account to an email and one *)
(* to a handle, and neither the account nor a handle it was told is its    *)
(* own goes without its password. Accounts is the code, and implements it. *)
(***************************************************************************)
CONSTANTS
    Sub,          \* the permanent ids of accounts
    Email, Handle,
    None          \* no handle, no email

VARIABLES
    accounts,     \* accounts[s]: whether the account s exists, and its email
    profiles,     \* which account has which handle
    vouched,      \* the accounts whose password was given to delete them
    told          \* what clients were answered about their account

registryVars == <<accounts, profiles, vouched, told>>

Account == [status : {"unused", "open", "deleted"}, email : Email \cup {None}]
Profile(s, h) == [sub |-> s, handle |-> h]
Profiles == [sub : Sub, handle : Handle]

\* Two accounts share neither an email nor a handle, no account has two
\* handles, and no handle is nobody's.
Consistent ==
    /\ \A s, t \in Sub :
          /\ accounts[s].status = "open" /\ accounts[t].status = "open"
          /\ accounts[s].email = accounts[t].email
          => s = t
    /\ \A p, q \in profiles : p.sub = q.sub \/ p.handle = q.handle => p = q
    /\ \A p \in profiles : accounts[p.sub].status # "unused"

\* A service with some accounts already.
RegistryInit ==
    /\ accounts \in [Sub -> Account]
    /\ profiles \subseteq Profiles
    /\ Consistent
    /\ \A s \in Sub : accounts[s].status # "deleted"
    /\ vouched = {}
    /\ told = {}

Open(s, e) ==
    /\ accounts[s].status = "unused"
    /\ \A t \in Sub : accounts[t].status = "open" => accounts[t].email # e
    /\ accounts' = [accounts EXCEPT ![s] = [status |-> "open", email |-> e]]
    /\ UNCHANGED <<profiles, vouched, told>>

\* The answer may be lost, and the account may have been deleted meanwhile.
Claim(s, h) ==
    /\ accounts[s].status # "unused"
    /\ \A p \in profiles : p.sub # s /\ p.handle # h
    /\ profiles' = profiles \cup {Profile(s, h)}
    /\ told' \in {told, told \cup {Profile(s, h)}}
    /\ UNCHANGED <<accounts, vouched>>

\* Only of an account being deleted may the answer be out of date.
Tell(s, h) ==
    /\ h = None \/ Profile(s, h) \in profiles \/ s \in vouched
    /\ told' = told \cup {Profile(s, h)}
    /\ UNCHANGED <<accounts, profiles, vouched>>

Vouch(s) ==
    /\ vouched' = vouched \cup {s}
    /\ UNCHANGED <<accounts, profiles, told>>

Release(s) ==
    /\ s \in vouched
    /\ profiles' = {p \in profiles : p.sub # s}
    /\ UNCHANGED <<accounts, vouched, told>>

Close(s) ==
    /\ s \in vouched
    /\ accounts[s].status = "open"
    /\ accounts' = [accounts EXCEPT ![s].status = "deleted"]
    /\ UNCHANGED <<profiles, vouched, told>>

RegistryNext ==
    \/ \E s \in Sub, e \in Email : Open(s, e)
    \/ \E s \in Sub, h \in Handle : Claim(s, h)
    \/ \E s \in Sub, h \in Handle \cup {None} : Tell(s, h)
    \/ \E s \in Sub : Vouch(s) \/ Release(s) \/ Close(s)

RegistrySpec == RegistryInit /\ [][RegistryNext]_registryVars

-----------------------------------------------------------------------------
\* A handle an account was told is its own stays so until its owner deletes.
HandlesKept ==
    \A t \in told :
        t.handle # None => Profile(t.sub, t.handle) \in profiles \/ t.sub \in vouched

\* What an account loses, it loses after its password was given to delete it:
\* its handle, and itself.
OnlyVouchedLose ==
    [][\A s \in Sub :
           \/ \E p \in profiles \ profiles' : p.sub = s
           \/ accounts[s].status = "open" /\ accounts'[s].status # "open"
           => s \in vouched]_registryVars

\* An id is given to one account for good.
IdsAreFinal ==
    [][\A s \in Sub :
           /\ accounts[s].status # "unused" => /\ accounts'[s].status # "unused"
                                               /\ accounts'[s].email = accounts[s].email
           /\ accounts[s].status = "deleted" => accounts'[s].status = "deleted"]_registryVars
=============================================================================
