--------------------------- MODULE RegistryProofs ---------------------------
(***************************************************************************)
(* What follows from Registry alone, for every implementation of it: no    *)
(* handle or email is shared, and nothing is lost but by its owner's word. *)
(***************************************************************************)
EXTENDS Registry, TLAPS

RegistryTypeOK ==
    /\ accounts \in [Sub -> Account]
    /\ profiles \subseteq Profiles
    /\ vouched \subseteq Sub
    /\ told \subseteq [sub : Sub, handle : Handle \cup {None}]

RegistryInv == RegistryTypeOK /\ Consistent /\ HandlesKept

LEMMA RegistryTypes ==
    ASSUME RegistryTypeOK, [RegistryNext]_registryVars
    PROVE  RegistryTypeOK'
<1>1. ASSUME NEW s \in Sub, NEW e \in Email, Open(s, e)
      PROVE  RegistryTypeOK'
    BY <1>1 DEF Open, RegistryTypeOK, Account
<1>2. ASSUME NEW s \in Sub, NEW h \in Handle, Claim(s, h)
      PROVE  RegistryTypeOK'
    <2>1. Profile(s, h) \in Profiles /\ Profile(s, h) \in [sub : Sub, handle : Handle \cup {None}]
        BY DEF Profile, Profiles
    <2> QED BY <1>2, <2>1 DEF Claim, RegistryTypeOK
<1>3. ASSUME NEW s \in Sub, NEW h \in Handle \cup {None}, Tell(s, h)
      PROVE  RegistryTypeOK'
    BY <1>3 DEF Tell, RegistryTypeOK, Profile
<1>4. ASSUME NEW s \in Sub, Vouch(s) \/ Release(s)
      PROVE  RegistryTypeOK'
    BY <1>4 DEF Vouch, Release, RegistryTypeOK
<1>5. ASSUME NEW s \in Sub, Close(s)
      PROVE  RegistryTypeOK'
    BY <1>5 DEF Close, RegistryTypeOK, Account
<1>6. CASE UNCHANGED registryVars
    BY <1>6 DEF registryVars, RegistryTypeOK
<1> QED BY <1>1, <1>2, <1>3, <1>4, <1>5, <1>6 DEF RegistryNext

LEMMA ConsistentStep ==
    ASSUME RegistryTypeOK, Consistent, [RegistryNext]_registryVars
    PROVE  Consistent'
<1>1. ASSUME NEW s \in Sub, NEW e \in Email, Open(s, e)
      PROVE  Consistent'
    BY <1>1 DEF Open, Consistent, RegistryTypeOK, Profiles
<1>2. ASSUME NEW s \in Sub, NEW h \in Handle, Claim(s, h)
      PROVE  Consistent'
    BY <1>2 DEF Claim, Consistent, Profile
<1>3. ASSUME NEW s \in Sub, Release(s)
      PROVE  Consistent'
    BY <1>3 DEF Release, Consistent
<1>4. ASSUME NEW s \in Sub, Close(s)
      PROVE  Consistent'
    BY <1>4 DEF Close, Consistent, RegistryTypeOK, Profiles
<1>5. CASE UNCHANGED <<accounts, profiles>>
    BY <1>5 DEF Consistent
<1> QED BY <1>1, <1>2, <1>3, <1>4, <1>5 DEF RegistryNext, Tell, Vouch, registryVars

LEMMA HandlesStep ==
    ASSUME RegistryTypeOK, HandlesKept, [RegistryNext]_registryVars
    PROVE  HandlesKept'
<1>1. ASSUME NEW s \in Sub, NEW h \in Handle, Claim(s, h)
      PROVE  HandlesKept'
    <2>1. \A t \in told' : t \in told \/ t = Profile(s, h)
        BY <1>1 DEF Claim
    <2>2. Profile(Profile(s, h).sub, Profile(s, h).handle) = Profile(s, h)
        BY DEF Profile
    <2> QED BY <1>1, <2>1, <2>2 DEF Claim, HandlesKept
<1>2. ASSUME NEW s \in Sub, NEW h \in Handle \cup {None}, Tell(s, h)
      PROVE  HandlesKept'
    BY <1>2 DEF Tell, HandlesKept, Profile
<1>3. ASSUME NEW s \in Sub, Release(s)
      PROVE  HandlesKept'
    BY <1>3 DEF Release, HandlesKept, Profile
<1>4. ASSUME UNCHANGED <<profiles, told>>, vouched \subseteq vouched'
      PROVE  HandlesKept'
    BY <1>4 DEF HandlesKept
<1> QED BY <1>1, <1>2, <1>3, <1>4 DEF RegistryNext, Open, Vouch, Close, registryVars

LEMMA RegistryInvariant == RegistrySpec => []RegistryInv
<1>1. RegistryInit => RegistryInv
    BY DEF RegistryInit, RegistryInv, RegistryTypeOK, HandlesKept
<1>2. RegistryInv /\ [RegistryNext]_registryVars => RegistryInv'
    BY RegistryTypes, ConsistentStep, HandlesStep DEF RegistryInv
<1> QED BY <1>1, <1>2, PTL DEF RegistrySpec

(* In every implementation of Registry no two accounts share an email or a *)
(* handle, and none has two handles (UserStorage, users_table).            *)
THEOREM RegistryConsistent == RegistrySpec => []Consistent
<1>1. RegistryInv => Consistent
    BY DEF RegistryInv
<1> QED BY <1>1, RegistryInvariant, PTL

(* A handle told stays with its account until that account is deleted.     *)
THEOREM RegistryKeepsHandles == RegistrySpec => []HandlesKept
<1>1. RegistryInv => HandlesKept
    BY DEF RegistryInv
<1> QED BY <1>1, RegistryInvariant, PTL

(* No account loses its handle or itself but after its password was given  *)
(* to delete it.                                                           *)
THEOREM RegistryLosesVouched == RegistrySpec => OnlyVouchedLose
<1>1. RegistryInv /\ [RegistryNext]_registryVars =>
          [\A s \in Sub :
               \/ \E p \in profiles \ profiles' : p.sub = s
               \/ accounts[s].status = "open" /\ accounts'[s].status # "open"
               => s \in vouched]_registryVars
    <2> SUFFICES ASSUME RegistryInv, RegistryNext, NEW s \in Sub,
                        \/ \E p \in profiles \ profiles' : p.sub = s
                        \/ accounts[s].status = "open" /\ accounts'[s].status # "open"
                 PROVE  s \in vouched
        OBVIOUS
    <2>1. ASSUME NEW q \in Sub, NEW e \in Email, Open(q, e)
          PROVE  FALSE
        BY <2>1 DEF Open, RegistryInv, RegistryTypeOK
    <2>2. ASSUME NEW q \in Sub, NEW h, Claim(q, h) \/ Tell(q, h) \/ Vouch(q)
          PROVE  FALSE
        BY <2>2 DEF Claim, Tell, Vouch
    <2>3. ASSUME NEW q \in Sub, Release(q) \/ Close(q)
          PROVE  s \in vouched
        BY <2>3 DEF Release, Close, RegistryInv, RegistryTypeOK
    <2> QED BY <2>1, <2>2, <2>3 DEF RegistryNext
<1> QED BY <1>1, RegistryInvariant, PTL DEF RegistrySpec, OnlyVouchedLose

(* An id given to an account is that account's for good, with its email.   *)
THEOREM RegistryIdsFinal == RegistrySpec => IdsAreFinal
<1>1. RegistryInv /\ [RegistryNext]_registryVars =>
          [\A s \in Sub :
               /\ accounts[s].status # "unused" =>
                      /\ accounts'[s].status # "unused"
                      /\ accounts'[s].email = accounts[s].email
               /\ accounts[s].status = "deleted" =>
                      accounts'[s].status = "deleted"]_registryVars
    <2> SUFFICES ASSUME RegistryInv, RegistryNext, NEW s \in Sub
                 PROVE  /\ accounts[s].status # "unused" =>
                               /\ accounts'[s].status # "unused"
                               /\ accounts'[s].email = accounts[s].email
                        /\ accounts[s].status = "deleted" => accounts'[s].status = "deleted"
        OBVIOUS
    <2>1. ASSUME NEW q \in Sub, NEW e \in Email, Open(q, e)
          PROVE  accounts[s].status # "unused" => accounts'[s] = accounts[s]
        BY <2>1 DEF Open, RegistryInv, RegistryTypeOK
    <2>2. ASSUME NEW q \in Sub, Close(q)
          PROVE  \/ accounts'[s] = accounts[s]
                 \/ accounts'[s] = [accounts[s] EXCEPT !.status = "deleted"]
        BY <2>2 DEF Close, RegistryInv, RegistryTypeOK
    <2>3. accounts[s] \in Account
        BY DEF RegistryInv, RegistryTypeOK
    <2> QED BY <2>1, <2>2, <2>3 DEF RegistryNext, Claim, Tell, Vouch, Release, Account
<1> QED BY <1>1, RegistryInvariant, PTL DEF RegistrySpec, IdsAreFinal
=============================================================================
