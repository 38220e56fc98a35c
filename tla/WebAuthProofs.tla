--------------------------- MODULE WebAuthProofs ---------------------------
(***************************************************************************)
(* Proofs about WebAuth and the email control in it, for any domains, any  *)
(* texts and passwords typed, and a session history of any length.         *)
(***************************************************************************)
EXTENDS WebAuth, FiniteSetTheorems, SequenceTheorems, TLAPS

-----------------------------------------------------------------------------
(* The list of suggestions.                                                *)

LEMMA SuggestFinite ==
    ASSUME NEW v
    PROVE  /\ IsFiniteSet(suggest(v))
           /\ suggest(v) \subseteq 1..Len(DOMAINS)
           /\ Cardinality(suggest(v)) \in Nat
<1>1. Len(DOMAINS) \in Nat /\ DOMAIN DOMAINS = 1..Len(DOMAINS)
    BY EmailFieldAssumption
<1>2. suggest(v) \subseteq 1..Len(DOMAINS)
    BY <1>1 DEF suggest, Fits
<1>3. IsFiniteSet(1..Len(DOMAINS))
    BY <1>1, FS_Interval
<1>4. IsFiniteSet(suggest(v))
    BY <1>2, <1>3, FS_Subset
<1> QED BY <1>2, <1>4, FS_CardinalityType

\* A suggestion's number is below the length of its list.
LEMMA NumberInList ==
    ASSUME NEW v, NEW i \in suggest(v)
    PROVE  /\ Number(i, suggest(v)) \in Nat
           /\ Number(i, suggest(v))
                < Cardinality(suggest(v))
<1> DEFINE S == suggest(v)
           T == {j \in S : j < i}
<1>1. IsFiniteSet(S) /\ S \subseteq 1..Len(DOMAINS) /\ Cardinality(S) \in Nat
    BY SuggestFinite
<1>2. i \in Int
    BY <1>1
<1>3. T \subseteq S \ {i}
    BY <1>2
<1>4. IsFiniteSet(S \ {i}) /\ Cardinality(S \ {i}) = Cardinality(S) - 1
    BY <1>1, FS_RemoveElement
<1>5. IsFiniteSet(T) /\ Cardinality(T) <= Cardinality(S \ {i})
    BY <1>3, <1>4, FS_Subset
<1>6. Cardinality(T) \in Nat
    BY <1>5, FS_CardinalityType
<1>7. Number(i, S) = Cardinality(T)
    BY DEF Number
<1>8. Cardinality(T) < Cardinality(S)
    BY <1>1, <1>4, <1>5, <1>6
<1> QED BY <1>6, <1>7, <1>8

\* No two suggestions of a list have one number.
LEMMA NumberTellsApart ==
    ASSUME NEW v, NEW i \in suggest(v), NEW j \in suggest(v),
           Number(i, suggest(v)) = Number(j, suggest(v))
    PROVE  i = j
<1> DEFINE S == suggest(v)
           Below(x) == {y \in S : y < x}
<1>1. IsFiniteSet(S) /\ S \subseteq 1..Len(DOMAINS) /\ Len(DOMAINS) \in Nat
    BY SuggestFinite, EmailFieldAssumption
<1>2. ASSUME NEW x \in S, NEW y \in S, x < y
      PROVE  Cardinality(Below(x)) < Cardinality(Below(y))
    <2>1. x \in Int /\ y \in Int /\ \A z \in S : z \in Int
        BY <1>1
    <2>2. x \in Below(y) /\ Below(x) \subseteq Below(y) \ {x}
        <3>1. x \in Below(y)
            BY <1>2
        <3>2. ASSUME NEW z \in Below(x)
              PROVE  z \in Below(y) \ {x}
            <4>1. z \in S /\ z < x /\ z \in Int
                BY <2>1
            <4>2. z < y /\ z # x
                BY <1>2, <2>1, <4>1
            <4> QED BY <4>1, <4>2
        <3> QED BY <3>1, <3>2
    <2>3. IsFiniteSet(Below(y))
        BY <1>1, FS_Subset
    <2>4. /\ IsFiniteSet(Below(y) \ {x})
          /\ Cardinality(Below(y) \ {x}) = Cardinality(Below(y)) - 1
        BY <2>2, <2>3, FS_RemoveElement
    <2>5. IsFiniteSet(Below(x)) /\ Cardinality(Below(x)) <= Cardinality(Below(y) \ {x})
        BY <2>2, <2>4, FS_Subset
    <2>6. Cardinality(Below(x)) \in Nat /\ Cardinality(Below(y)) \in Nat
        BY <2>3, <2>5, FS_CardinalityType
    <2> QED BY <2>4, <2>5, <2>6
<1>3. Cardinality(Below(i)) = Cardinality(Below(j))
    BY DEF Number
<1>4. /\ IsFiniteSet(Below(i)) /\ IsFiniteSet(Below(j))
    BY <1>1, FS_Subset
<1>5. Cardinality(Below(i)) \in Nat /\ Cardinality(Below(j)) \in Nat
    BY <1>4, FS_CardinalityType
<1>6. i \in Int /\ j \in Int
    BY <1>1
<1>7. ~(i < j) /\ ~(j < i)
    BY <1>2, <1>3, <1>5
<1> QED BY <1>6, <1>7

\* Taking a suggestion makes an address of it.
LEMMA CompletedIsAddress ==
    ASSUME NEW v \in Address \cup {NoAddress},
           NEW i \in suggest(v)
    PROVE  /\ Completed(v, i) \in Address
           /\ Completed(v, i) # Untyped
           /\ Completed(v, i) # NoAddress
<1>1. Len(v) = 2 /\ i \in Fits(v[2])
    BY DEF suggest
<1>2. v \in Address
    BY <1>1 DEF NoAddress
<1>3. v[1] \in Text
    BY <1>1, <1>2 DEF Address
<1>4. i \in DOMAIN DOMAINS /\ DOMAINS[i] \in Text
    BY <1>1, EmailFieldAssumption DEF Fits
<1>5. Completed(v, i) \in [1..2 -> Text]
    BY <1>3, <1>4 DEF Completed
<1>6. Len(Completed(v, i)) = 2 /\ Len(Untyped) = 1 /\ Len(NoAddress) = 0
    BY DEF Completed, Untyped, NoAddress
<1> QED BY <1>5, <1>6 DEF Address

-----------------------------------------------------------------------------
(* The email control keeps its type, and its highlight in the list.        *)

\* What is highlighted is what was pointed at, and nothing else is.
HighlightIsPointed ==
    IF Highlighted THEN pointed \in Numbered(value, active)
    ELSE pointed = NoAddress
FieldKept == HighlightIsOffered /\ HighlightIsPointed
FieldInv == FieldTypeOK /\ FieldKept

\* What stands in a list under a number is an address, and only one does.
LEMMA NumberedIsOne ==
    ASSUME NEW v \in Address \cup {NoAddress}, NEW k, NEW x \in Numbered(v, k)
    PROVE  /\ x \in Address
           /\ x # NoAddress
           /\ \A i \in suggest(v) : Number(i, suggest(v)) = k => x = Completed(v, i)
<1>1. PICK j \in suggest(v) : Number(j, suggest(v)) = k /\ x = Completed(v, j)
    BY DEF Numbered
<1> QED BY <1>1, CompletedIsAddress, NumberTellsApart

LEMMA PickKeeps ==
    ASSUME FieldInv, NEW v \in Address, pick(v)
    PROVE  FieldInv'
<1>1. options' = {}
    BY DEF pick, options
<1>2. ~open'
    BY <1>1 DEF open
<1> QED BY <1>2 DEF FieldInv, FieldKept, FieldTypeOK, HighlightIsOffered,
        HighlightIsPointed, Highlighted, pick, Fade

LEMMA ListedIsAddress ==
    ASSUME FieldTypeOK
    PROVE  Listed \in Address \cup {NoAddress}
BY DEF FieldTypeOK, Listed

LEMMA OptionsAreSuggested ==
    ASSUME NEW i \in options
    PROVE  i \in suggest(value) /\ options = suggest(value)
BY DEF options

LEMMA UntypedIsAddress == Untyped \in Address
<1>1. Untyped \in [1..1 -> Text]
    BY EmailFieldAssumption DEF Untyped
<1> QED BY <1>1 DEF Address

OptionsCounted ==
    /\ Cardinality(options) \in Nat
    /\ open => Cardinality(options) > 0

LEMMA CountOptions == OptionsCounted
<1>1. IsFiniteSet(options)
    BY SuggestFinite, FS_EmptySet DEF options
<1> QED BY <1>1, FS_CardinalityType, FS_EmptySet DEF OptionsCounted, open

LEMMA MountKeeps ==
    ASSUME NEW v \in Address, Mount(v)
    PROVE  FieldInv'
<1>1. OptionsCounted'
    BY CountOptions, PTL
<1>2. open' => active' < Cardinality(options')
    BY <1>1 DEF OptionsCounted, Mount
<1>3. ~Highlighted'
    BY DEF Mount, Highlighted
<1>4. FieldTypeOK' /\ HighlightIsOffered'
    BY <1>2 DEF FieldTypeOK, HighlightIsOffered, Mount
<1>5. HighlightIsPointed'
    BY <1>3 DEF HighlightIsPointed, Mount
<1> QED BY <1>4, <1>5 DEF FieldInv, FieldKept

LEMMA EditKeeps ==
    ASSUME FieldInv, EditBy(Typed) \/ Accept
    PROVE  FieldInv'
<1> USE DEF FieldInv, FieldKept, HighlightIsOffered, HighlightIsPointed, Highlighted,
        FieldTypeOK
<1>0. active' = -1 => ~Highlighted'
    OBVIOUS
<1>1. OptionsCounted /\ OptionsCounted'
    BY CountOptions, PTL
<1>2. ASSUME NEW v \in Typed, Change(v)
      PROVE  FieldInv'
    <2>1. v \in Address
        BY WebAuthAssumption DEF Address
    <2>2. /\ value' = v /\ active' = -1 /\ dismissed' = FALSE /\ focused' = focused
          /\ pointed' = NoAddress /\ Fade
        BY <1>2 DEF Change
    <2>3. leaving' \in Address \cup {NoAddress}
        BY <2>2 DEF Fade
    <2>4. open' => active' < Cardinality(options')
        BY <1>1, <2>2 DEF OptionsCounted
    <2>5. HighlightIsPointed'
        BY <1>0, <2>2
    <2>6. FieldTypeOK'
        BY <2>1, <2>2, <2>3
    <2> QED BY <2>4, <2>5, <2>6
<1>3. ASSUME Focus
      PROVE  FieldInv'
    <2>1. UNCHANGED <<value, active, dismissed, leaving, pointed>> /\ focused' = TRUE
        BY <1>3 DEF Focus
    <2>2. options' = options /\ open' = open
        BY <2>1 DEF open, options
    <2> QED BY <2>1, <2>2
<1>4. ASSUME Blur
      PROVE  FieldInv'
    <2>1. ~open'
        BY <1>4 DEF Blur, open, options
    <2> QED BY <1>4, <2>1 DEF Blur, Fade
<1>5. ASSUME NEW step \in {-1, 1}, Arrow(step)
      PROVE  FieldInv'
    <2> DEFINE n == Cardinality(options)
    <2>1. n \in Nat /\ n > 0
        BY <1>1, <1>5 DEF OptionsCounted, Arrow
    <2>2. active' = (active + step + n) % n /\ active \in Int /\ active + step + n \in Int
        BY <1>5, <2>1 DEF Arrow
    <2>3. active' \in Nat /\ active' < n
        BY <2>1, <2>2
    <2>4. options' = options /\ open' = open /\ open
        BY <1>5 DEF Arrow, options, open
    <2>5. pointed' \in Numbered(value, active') /\ UNCHANGED <<value, dismissed, focused, leaving>>
        BY <1>5 DEF Arrow
    <2>6. pointed' \in Address
        BY <2>5, NumberedIsOne
    <2> QED BY <2>3, <2>4, <2>5, <2>6
<1>6. ASSUME Accept
      PROVE  FieldInv'
    <2>1. PICK i \in options : pick(Completed(value, i))
        BY <1>6 DEF Accept
    <2>2. Completed(value, i) \in Address
        BY OptionsAreSuggested, CompletedIsAddress
    <2> QED BY <2>1, <2>2, PickKeeps
<1>7. ASSUME Escape
      PROVE  FieldInv'
    <2>1. ~open'
        BY <1>7 DEF Escape, open, options
    <2> QED BY <1>7, <2>1 DEF Escape, Fade
<1>8. ASSUME Hover
      PROVE  FieldInv'
    <2>1. PICK i \in suggest(Listed) :
              /\ active' = Number(i, suggest(Listed))
              /\ pointed' = IF open THEN Completed(Listed, i) ELSE NoAddress
              /\ UNCHANGED <<value, dismissed, focused, leaving>>
        BY <1>8 DEF Hover
    <2>2. active' \in Nat /\ active' < Cardinality(suggest(Listed))
        BY <2>1, NumberInList
    <2>3. options' = options /\ open' = open
        BY <2>1 DEF options, open
    <2>4. open => options = suggest(Listed) /\ Listed = value
        BY DEF open, options, Listed
    <2>5. open => pointed' \in Numbered(value, active') /\ pointed' \in Address
        BY <2>1, <2>4, CompletedIsAddress DEF Numbered
    <2>6. ~open => pointed' = NoAddress
        BY <2>1
    <2>7. FieldTypeOK'
        BY <2>1, <2>2, <2>5, <2>6
    <2>8. HighlightIsPointed'
        BY <2>1, <2>2, <2>3, <2>5, <2>6
    <2>9. HighlightIsOffered'
        BY <2>2, <2>3, <2>4
    <2> QED BY <2>7, <2>8, <2>9
<1>9. ASSUME Click
      PROVE  FieldInv'
    <2>1. PICK i \in suggest(Listed) :
              pick(Completed(Listed, i))
        BY <1>9 DEF Click
    <2>2. Completed(Listed, i) \in Address
        BY ListedIsAddress, CompletedIsAddress
    <2> QED BY <2>1, <2>2, PickKeeps
<1>10. ASSUME FadeEnd
       PROVE  FieldInv'
    <2>1. UNCHANGED <<value, active, dismissed, focused, pointed>> /\ leaving' = NoAddress
        BY <1>10 DEF FadeEnd
    <2>2. options' = options /\ open' = open
        BY <2>1 DEF open, options
    <2> QED BY <2>1, <2>2
<1> QED BY <1>2, <1>3, <1>4, <1>5, <1>6, <1>7, <1>8, <1>9, <1>10 DEF EditBy

-----------------------------------------------------------------------------
(* The tab and its screens.                                                *)

\* Nothing leads to a link with a token again, a document is no younger than
\* its entry, and a screen says that it sent or set something only while it
\* is shown.
TabKept ==
    \A i \in DOMAIN history :
        /\ history[i].path = ROUTES.resetPassword => i = 1
        /\ history[i].doc <= i
ScreensKept ==
    /\ sent => Screen = "ForgotPassword"
    /\ done => Screen = "ResetPassword"

TabType == history \in Seq(Entry) /\ Len(history) \in 1..MaxHistory /\ at \in 1..Len(history)
FormType ==
    /\ handle \in Handle
    /\ password \in Password
    /\ confirm \in Password
    /\ errors \subseteq {"handle", "email", "password", "confirm"}
    /\ sent \in BOOLEAN
    /\ done \in BOOLEAN
    /\ resent \in BOOLEAN

CoreType == TabType /\ FieldTypeOK /\ FormType
TabInv == CoreType /\ TabKept /\ ConfirmationFollowsForm
IInv == /\ TabInv /\ FieldKept /\ ScreensKept
        /\ SentToAnAddress /\ DoneWithNewPassword

LEMMA TypeParts == CoreType <=> TabType /\ FieldTypeOK /\ FormType
BY DEF CoreType

LEMMA RoutesApart ==
    /\ ROUTES.home = "/" /\ ROUTES.explore = "/404" /\ ROUTES.write = "/404"
    /\ ROUTES.login = "/app/login" /\ ROUTES.register = "/app/register"
    /\ ROUTES.verify = "/app/verify"
    /\ ROUTES.forgotPassword = "/app/forgot-password"
    /\ ROUTES.resetPassword = "/app/reset-password"
BY DEF ROUTES

LEMMA ScreenOfPath ==
    /\ Screen = "ForgotPassword" <=> Here.path = ROUTES.forgotPassword
    /\ Screen = "ResetPassword" <=> Here.path = ROUTES.resetPassword
    /\ Screen = "Register" <=> Here.path = ROUTES.register
BY RoutesApart DEF Screen, router

\* A screen that mounts satisfies all that is said of screens.
LEMMA FreshKeeps ==
    ASSUME Fresh
    PROVE  FieldTypeOK' /\ FormType' /\ FieldKept' /\ ScreensKept'
           /\ SentToAnAddress' /\ DoneWithNewPassword'
<1>1. FieldTypeOK' /\ FieldKept'
    BY MountKeeps, UntypedIsAddress DEF Fresh, FieldInv
<1>2. FormType'
    BY WebAuthAssumption DEF Fresh, FormType
<1>3. ScreensKept' /\ SentToAnAddress' /\ DoneWithNewPassword'
    BY DEF Fresh, ScreensKept, SentToAnAddress, DoneWithNewPassword
<1> QED BY <1>1, <1>2, <1>3

\* The history after a push: what led to the screen, and the new entry.
LEMMA PushedHistory ==
    ASSUME TabType, NEW e \in Entry, Push(e)
    PROVE  /\ TabType'
           /\ Len(history') = at + 1
           /\ \A i \in 1..at : history'[i] = history[i]
           /\ history'[at + 1] = e
           /\ at' = at + 1
<1>1. at \in Nat /\ at >= 1 /\ at <= Len(history) /\ at < MaxHistory /\ MaxHistory \in Nat
    BY WebAuthAssumption DEF TabType, Push
<1>2. /\ Upto(at) \in Seq(Entry) /\ Len(Upto(at)) = at
      /\ \A i \in 1..at : Upto(at)[i] = history[i]
    BY <1>1, SubSeqProperties DEF Upto, TabType
<1>3. history' = Append(Upto(at), e) /\ at' = at + 1
    BY DEF Push
<1>4. /\ history' \in Seq(Entry) /\ Len(history') = at + 1
      /\ \A i \in 1..at : history'[i] = history[i]
      /\ history'[at + 1] = e
    BY <1>1, <1>2, <1>3, AppendProperties
<1> QED BY <1>1, <1>3, <1>4 DEF TabType

LEMMA PushKeeps ==
    ASSUME IInv, NEW e \in Entry, Push(e),
           e.path # ROUTES.resetPassword, e.doc <= at + 1,
           e.state # NoAddress => /\ e.path = ROUTES.verify
                                  /\ Valid(e.state)
                                  /\ Here.path = ROUTES.register
    PROVE  IInv'
<1>1. TabType
    BY TypeParts DEF IInv, TabInv
<1>2. /\ TabType'
      /\ Len(history') = at + 1
      /\ \A i \in 1..at : history'[i] = history[i]
      /\ history'[at + 1] = e
    BY <1>1, PushedHistory
<1>3. DOMAIN history' = 1..(at + 1) /\ 1..at \subseteq DOMAIN history /\ at \in Nat /\ at >= 1
    BY <1>1, <1>2 DEF TabType
<1>4. TabKept'
    BY <1>2, <1>3 DEF IInv, TabInv, TabKept
<1>5. ConfirmationFollowsForm'
    <2> SUFFICES ASSUME NEW i \in DOMAIN history', history'[i].state # NoAddress
                 PROVE  /\ history'[i].path = ROUTES.verify
                        /\ Valid(history'[i].state)
                        /\ i > 1
                        /\ history'[i - 1].path = ROUTES.register
        BY DEF ConfirmationFollowsForm, Valid
    <2>1. CASE i = at + 1
        BY <1>2, <1>3, <2>1 DEF Here
    <2>2. CASE i \in 1..at
        <3>1. history'[i] = history[i] /\ i \in DOMAIN history
            BY <1>2, <1>3, <2>2
        <3>2. /\ history[i].path = ROUTES.verify
              /\ Valid(history[i].state)
              /\ i > 1
              /\ history[i - 1].path = ROUTES.register
            BY <3>1 DEF IInv, TabInv, ConfirmationFollowsForm
        <3>3. history'[i - 1] = history[i - 1]
            BY <1>2, <1>3, <2>2, <3>2
        <3> QED BY <3>1, <3>2, <3>3
    <2> QED BY <1>3, <2>1, <2>2
<1>6. Fresh
    BY DEF Push
<1> QED BY <1>2, <1>4, <1>5, <1>6, FreshKeeps, TypeParts, PTL DEF IInv, TabInv

\* A step that leaves the tab alone keeps what is said of it.
LEMMA TabStays ==
    ASSUME IInv, UNCHANGED tab, FieldTypeOK', FormType'
    PROVE  TabInv' /\ Here' = Here /\ Screen' = Screen
<1>1. TabType' /\ TabKept' /\ Here' = Here
    BY TypeParts DEF IInv, TabInv, TabType, TabKept, tab, Here
<1>2. ConfirmationFollowsForm'
    BY DEF IInv, TabInv, ConfirmationFollowsForm, tab, Valid
<1>3. Screen' = Screen
    BY <1>1 DEF Screen, router
<1> QED BY <1>1, <1>2, <1>3, TypeParts, PTL DEF TabInv

LEMMA FieldStays ==
    ASSUME IInv, UNCHANGED field
    PROVE  FieldTypeOK' /\ FieldKept'
<1>1. UNCHANGED <<value, active, dismissed, focused, leaving, pointed>>
    BY DEF field
<1>2. options' = options /\ open' = open /\ Highlighted' = Highlighted
    BY <1>1 DEF options, open, Highlighted
<1>3. FieldTypeOK /\ FieldKept
    BY TypeParts DEF IInv, TabInv
<1>4. FieldTypeOK'
    BY <1>1, <1>3 DEF FieldTypeOK
<1>5. FieldKept'
    BY <1>1, <1>2, <1>3 DEF FieldKept, HighlightIsOffered, HighlightIsPointed
<1> QED BY <1>4, <1>5

LEMMA FollowKeeps == IInv /\ Follow => IInv'
<1> SUFFICES ASSUME IInv, Follow
             PROVE  IInv'
    OBVIOUS
<1>1. TabType
    BY TypeParts DEF IInv, TabInv
<1>2. PICK path \in Links :
          Push(Page(path, IF Screen = "Landing" THEN Here.doc + 1 ELSE Here.doc))
    BY DEF Follow
<1> DEFINE d == IF Screen = "Landing" THEN Here.doc + 1 ELSE Here.doc
<1>3. Here \in Entry /\ Here.doc <= at /\ at \in Nat /\ at < MaxHistory /\ MaxHistory \in Nat
    BY <1>1, <1>2, WebAuthAssumption DEF IInv, TabInv, TabType, TabKept, Here, Push
<1>4. d \in 1..MaxHistory /\ d <= at + 1
    BY <1>3 DEF Entry
<1>5. path \in Path /\ path # ROUTES.resetPassword
    <2>1. Screen \in {"Landing", "NotFound", "Login", "Register", "VerifyEmail",
                      "ForgotPassword", "ResetPassword"}
        BY DEF Screen, router
    <2>2. Links \subseteq {ROUTES.home, ROUTES.explore, ROUTES.write, ROUTES.login,
                          ROUTES.register, ROUTES.forgotPassword}
        BY <2>1 DEF Links, LandingLinks, BarLinks, MenuLinks, HeroLinks, FinalCtaLinks,
            NotFoundLinks, AppLinks, LoginLinks,
            RegisterLinks, VerifyLinks, ForgotLinks, ResetLinks
    <2> QED BY <2>2, RoutesApart DEF Path
<1>6. Page(path, d) \in Entry
    BY <1>4, <1>5 DEF Page, Entry
<1>7. Page(path, d).path = path /\ Page(path, d).doc = d /\ Page(path, d).state = NoAddress
    BY DEF Page
<1> QED BY <1>2, <1>4, <1>5, <1>6, <1>7, PushKeeps

LEMMA GoKeeps == IInv /\ Go => IInv'
<1> SUFFICES ASSUME IInv, NEW i \in DOMAIN history \ {at},
                    at' = i, UNCHANGED history,
                    IF history[i].path = Here.path /\ history[i].doc = Here.doc
                    THEN UNCHANGED <<field, typed, said>> ELSE Fresh
             PROVE  IInv'
    BY DEF Go
<1>1. TabType
    BY TypeParts DEF IInv, TabInv
<1>2. TabType' /\ TabKept' /\ Here' = history[i]
    BY <1>1 DEF IInv, TabInv, TabType, TabKept, Here
<1>3. ConfirmationFollowsForm'
    BY DEF IInv, TabInv, ConfirmationFollowsForm, Valid
<1>4. CASE Fresh
    BY <1>2, <1>3, <1>4, FreshKeeps, TypeParts, PTL DEF IInv, TabInv
<1>5. CASE history[i].path = Here.path /\ UNCHANGED <<field, typed, said>>
    <2>1. Here'.path = Here.path
        BY <1>2, <1>5
    <2>2. Screen' = Screen
        BY <2>1 DEF Screen, router
    <2>3. FieldTypeOK' /\ FieldKept'
        BY <1>5, FieldStays
    <2>4. FormType'
        BY <1>5, TypeParts DEF IInv, TabInv, FormType, typed, said
    <2>5. ~done
        <3> SUFFICES ASSUME done PROVE FALSE
            OBVIOUS
        <3>1. Here.path = ROUTES.resetPassword
            BY ScreenOfPath DEF IInv, ScreensKept
        <3>2. at = 1 /\ i = 1
            BY <1>1, <1>5, <3>1 DEF IInv, TabInv, TabKept, TabType, Here
        <3> QED BY <3>2
    <2>6. ScreensKept' /\ SentToAnAddress' /\ DoneWithNewPassword'
        BY <1>5, <2>2, <2>5 DEF IInv, ScreensKept, SentToAnAddress, DoneWithNewPassword,
           Valid, field, typed, said
    <2> QED BY <1>2, <1>3, <2>3, <2>4, <2>6, TypeParts, PTL DEF IInv, TabInv
<1> QED BY <1>4, <1>5

LEMMA ReloadKeeps == IInv /\ Reload => IInv'
BY FreshKeeps, TabStays DEF Reload, IInv

\* A step of the email control, which is shown only before a link is sent.
LEMMA EmailKeeps ==
    ASSUME IInv, HasEmail, EditBy(Typed) \/ Accept, UNCHANGED <<tab, typed, said>>
    PROVE  IInv'
<1>1. HasEmail /\ (EditBy(Typed) \/ Accept) /\ UNCHANGED <<tab, typed, said>>
    OBVIOUS
<1>2. FieldTypeOK' /\ FieldKept'
    BY <1>1, EditKeeps, TypeParts DEF IInv, TabInv, FieldInv
<1>3. FormType'
    BY <1>1, TypeParts DEF IInv, TabInv, FormType, typed, said
<1>4. TabInv' /\ Here' = Here /\ Screen' = Screen
    BY <1>1, <1>2, <1>3, TabStays
<1>5. ~sent
    BY <1>1 DEF HasEmail, IInv, ScreensKept
<1> QED BY <1>1, <1>2, <1>4, <1>5 DEF IInv, ScreensKept, SentToAnAddress,
        DoneWithNewPassword, typed, said

\* A step of a form that leaves the tab and the email control as they are.
LEMMA FormKeeps ==
    IInv /\ (TypeHandle \/ TypePassword \/ TypeConfirm \/ SubmitLogin
             \/ UseAnother \/ SubmitReset \/ Resend) => IInv'
<1> SUFFICES ASSUME IInv, TypeHandle \/ TypePassword \/ TypeConfirm \/ SubmitLogin
                          \/ UseAnother \/ SubmitReset \/ Resend
             PROVE  IInv'
    OBVIOUS
<1>1. UNCHANGED tab /\ UNCHANGED field
    BY DEF TypeHandle, TypePassword, TypeConfirm, SubmitLogin, UseAnother, SubmitReset, Resend
<1>2. FormType /\ (sent => Screen = "ForgotPassword") /\ (done => Screen = "ResetPassword")
      /\ SentToAnAddress /\ DoneWithNewPassword
    BY TypeParts DEF IInv, TabInv, ScreensKept
<1>3. FieldTypeOK' /\ FieldKept'
    BY <1>1, FieldStays
<1>4. FormType'
    <2>1. CASE TypeHandle \/ TypePassword \/ TypeConfirm
        BY <1>2, <2>1 DEF FormType, TypeHandle, TypePassword, TypeConfirm, said
    <2>2. CASE UseAnother \/ Resend
        BY <1>2, <2>2 DEF FormType, UseAnother, Resend, typed
    <2>3. CASE SubmitLogin
        BY <1>2, <2>3 DEF FormType, SubmitLogin, typed, LoginErrors, EmailError
    <2>4. CASE SubmitReset
        <3>1. errors' \subseteq {"password", "confirm"} /\ done' \in BOOLEAN
            BY <2>4 DEF SubmitReset, NewPasswordErrors
        <3>2. UNCHANGED <<handle, password, confirm, sent, resent>>
            BY <2>4 DEF SubmitReset, typed
        <3> QED BY <1>2, <3>1, <3>2 DEF FormType
    <2> QED BY <2>1, <2>2, <2>3, <2>4
<1>5. TabInv' /\ Here' = Here /\ Screen' = Screen
    BY <1>1, <1>3, <1>4, TabStays
<1>6. ScreensKept'
    BY <1>2, <1>5 DEF ScreensKept, TypeHandle, TypePassword, TypeConfirm, SubmitLogin,
       UseAnother, SubmitReset, Resend, said
<1>7. SentToAnAddress'
    <2>1. value' = value
        BY <1>1 DEF field
    <2> QED BY <1>2, <2>1 DEF SentToAnAddress, Valid, TypeHandle, TypePassword, TypeConfirm,
            SubmitLogin, UseAnother, SubmitReset, Resend, said
<1>8. DoneWithNewPassword'
    <2>1. CASE TypeHandle \/ UseAnother \/ Resend \/ SubmitLogin
        BY <1>2, <1>5, <2>1 DEF DoneWithNewPassword, scoreOf, TypeHandle, UseAnother, Resend,
           SubmitLogin, typed, said
    <2>2. CASE TypePassword \/ TypeConfirm
        BY <1>2, <2>2 DEF DoneWithNewPassword, TypePassword, TypeConfirm, SetsPassword,
           HasForm, HasEmail, said
    <2>3. CASE SubmitReset
        <3>1. HasForm /\ Screen = "ResetPassword"
            BY <2>3 DEF SubmitReset
        <3>2. Here.token /\ ~done
            BY <3>1 DEF HasForm, HasEmail
        <3>3. password' = password /\ confirm' = confirm /\ errors' = NewPasswordErrors
              /\ (done' => NewPasswordErrors = {})
            BY <2>3 DEF SubmitReset, typed
        <3>4. NewPasswordErrors = {} => confirm = password /\ scoreOf(password) > 0
            BY <1>2, WebAuthAssumption DEF NewPasswordErrors, scoreOf, FormType
        <3> QED BY <1>5, <3>2, <3>3, <3>4 DEF DoneWithNewPassword, scoreOf
    <2> QED BY <2>1, <2>2, <2>3
<1> QED BY <1>3, <1>5, <1>6, <1>7, <1>8 DEF IInv

LEMMA RegisterKeeps == IInv /\ SubmitRegister => IInv'
<1> SUFFICES ASSUME IInv, SubmitRegister
             PROVE  IInv'
    OBVIOUS
<1>1. CASE /\ errors' = RegisterErrors
           /\ UNCHANGED <<tab, field, typed, sent, done, resent>>
    <2>1. FieldTypeOK' /\ FieldKept'
        BY <1>1, FieldStays
    <2>2. FormType'
        BY <1>1, TypeParts DEF IInv, TabInv, FormType, typed, RegisterErrors, EmailError,
           NewPasswordErrors
    <2>3. TabInv' /\ Screen' = Screen
        BY <1>1, <2>1, <2>2, TabStays
    <2>4. ~sent /\ ~done
        BY DEF SubmitRegister, IInv, ScreensKept
    <2> QED BY <1>1, <2>1, <2>3, <2>4 DEF IInv, ScreensKept, SentToAnAddress,
            DoneWithNewPassword
<1>2. CASE RegisterErrors = {} /\ Push(Confirmation)
    <2>1. TabType /\ FieldTypeOK
        BY TypeParts DEF IInv, TabInv
    <2>2. Here \in Entry /\ Here.doc <= at /\ at \in Nat
        BY <2>1 DEF IInv, TabInv, TabType, TabKept, Here
    <2>3. Confirmation = [path |-> ROUTES.verify, state |-> value, token |-> FALSE,
                          doc |-> Here.doc]
        BY DEF Confirmation
    <2>4. Confirmation \in Entry
        BY <2>1, <2>2, <2>3, RoutesApart DEF Entry, Path, FieldTypeOK
    <2>5. Valid(value)
        BY <1>2 DEF RegisterErrors, EmailError
    <2>6. Here.path = ROUTES.register
        BY ScreenOfPath DEF SubmitRegister
    <2>7. ROUTES.verify # ROUTES.resetPassword
        BY RoutesApart
    <2>8. /\ Confirmation.path = ROUTES.verify /\ Confirmation.state = value
          /\ Confirmation.doc <= at + 1
        BY <2>2, <2>3 DEF Entry
    <2> QED BY <1>2, <2>4, <2>5, <2>6, <2>7, <2>8, PushKeeps
<1> QED BY <1>1, <1>2 DEF SubmitRegister

LEMMA ForgotKeeps == IInv /\ SubmitForgot => IInv'
<1> SUFFICES ASSUME IInv, SubmitForgot
             PROVE  IInv'
    OBVIOUS
<1>1. Screen = "ForgotPassword" /\ ~sent /\ ~done
    BY DEF SubmitForgot, HasForm, HasEmail, IInv, ScreensKept
<1>2. FieldTypeOK' /\ FieldKept' /\ value' = value
    <2>1. value \in Address
        BY TypeParts DEF IInv, TabInv, FieldTypeOK
    <2>2. CASE UNCHANGED field
        BY <2>2, FieldStays DEF field
    <2>3. CASE Mount(value)
        BY <2>1, <2>3, MountKeeps DEF FieldInv, Mount
    <2> QED BY <2>2, <2>3 DEF SubmitForgot
<1>3. FormType'
    BY TypeParts DEF IInv, TabInv, FormType, SubmitForgot, typed, EmailError
<1>4. TabInv' /\ Screen' = Screen
    BY <1>2, <1>3, TabStays DEF SubmitForgot
<1>5. SentToAnAddress'
    BY <1>1, <1>2 DEF SubmitForgot, SentToAnAddress, EmailError, Valid
<1> QED BY <1>1, <1>2, <1>4, <1>5 DEF IInv, SubmitForgot, ScreensKept, DoneWithNewPassword

-----------------------------------------------------------------------------
(* The theorems.                                                           *)

LEMMA InitKept == Init => IInv
<1> SUFFICES ASSUME Init
             PROVE  IInv
    OBVIOUS
<1>1. PICK path \in Start, token \in BOOLEAN :
          /\ token => path = ROUTES.resetPassword
          /\ history = <<[Page(path, 1) EXCEPT !.token = token]>>
    BY DEF Init
<1> DEFINE e == [Page(path, 1) EXCEPT !.token = token]
<1>2. /\ e \in Entry /\ e.path = path /\ e.doc = 1 /\ e.state = NoAddress
    BY StartAssumption, WebAuthAssumption DEF Page, Entry
<1>3. history = <<e>> /\ Len(history) = 1 /\ DOMAIN history = {1} /\ history[1] = e
      /\ history \in Seq(Entry)
    BY <1>1, <1>2
<1>4. TabType /\ TabKept /\ ConfirmationFollowsForm
    <2>1. TabType
        BY <1>3, WebAuthAssumption DEF Init, TabType
    <2>2. TabKept
        <3> SUFFICES ASSUME NEW i \in DOMAIN history
                     PROVE  i = 1 /\ history[i].doc <= i
            BY DEF TabKept
        <3>1. i = 1 /\ history[i] = e
            BY <1>3
        <3> QED BY <1>2, <3>1
    <2>3. ConfirmationFollowsForm
        BY <1>2, <1>3 DEF ConfirmationFollowsForm
    <2> QED BY <2>1, <2>2, <2>3
<1>5. FormType /\ ~sent /\ ~done
    BY WebAuthAssumption DEF Init, FormType
<1>6. FieldTypeOK
    BY UntypedIsAddress DEF Init, Unused, FieldTypeOK
<1>7. FieldKept
    BY CountOptions DEF Init, Unused, FieldKept, HighlightIsOffered, HighlightIsPointed,
       Highlighted, OptionsCounted
<1> QED BY <1>4, <1>5, <1>6, <1>7, TypeParts DEF IInv, TabInv, ScreensKept,
        SentToAnAddress, DoneWithNewPassword

LEMMA NextKeeps == IInv /\ [Next]_vars => IInv'
<1> SUFFICES ASSUME IInv, [Next]_vars
             PROVE  IInv'
    OBVIOUS
<1>1. CASE Next
    <2>1. TypeEmail => IInv'
        BY EmailKeeps DEF TypeEmail
    <2>2. EnterInEmail => IInv'
        BY EmailKeeps, FormKeeps, RegisterKeeps, ForgotKeeps DEF EnterInEmail, SubmitWithEmail
    <2> QED BY <1>1, <2>1, <2>2, FollowKeeps, GoKeeps, ReloadKeeps, FormKeeps,
            RegisterKeeps, ForgotKeeps DEF Next, Other, Submit, SubmitWithEmail
<1>2. CASE UNCHANGED vars
    <2>1. UNCHANGED tab /\ UNCHANGED field /\ UNCHANGED typed /\ UNCHANGED said
        BY <1>2 DEF vars, tab, field, typed, said
    <2>2. FieldTypeOK' /\ FieldKept'
        BY <2>1, FieldStays
    <2>3. FormType'
        BY <2>1, TypeParts DEF IInv, TabInv, FormType, typed, said
    <2>4. TabInv' /\ Here' = Here /\ Screen' = Screen
        BY <2>1, <2>2, <2>3, TabStays
    <2> QED BY <2>1, <2>2, <2>4 DEF IInv, ScreensKept, SentToAnAddress, Valid,
            DoneWithNewPassword, scoreOf, field, typed, said
<1> QED BY <1>1, <1>2

LEMMA Kept == Spec => []IInv
BY InitKept, NextKeeps, PTL DEF Spec

\* What Enter took is what was pointed at; what it did not take it submitted.
EnterType == enter \subseteq [pointed : Address \cup {NoAddress}, judged : BOOLEAN]
EnterInv == EnterType /\ EnterServesOne

LEMMA AcceptTakesPointed ==
    ASSUME IInv, Accept
    PROVE  pointed \in Address /\ pointed # NoAddress /\ value' = pointed
<1>1. value \in Address /\ pointed \in Numbered(value, active)
    BY TypeParts DEF IInv, TabInv, FieldTypeOK, FieldKept, HighlightIsPointed, Accept
<1>2. PICK i \in options : Number(i, options) = active /\ pick(Completed(value, i))
    BY DEF Accept
<1>3. i \in suggest(value) /\ options = suggest(value)
    BY OptionsAreSuggested
<1>4. value' = Completed(value, i)
    BY <1>2 DEF pick
<1> QED BY <1>1, <1>2, <1>3, <1>4, NumberedIsOne

LEMMA EnterKeeps == IInv /\ EnterInv /\ [Next]_vars => EnterInv'
<1> SUFFICES ASSUME IInv, EnterInv, [Next]_vars
             PROVE  EnterInv'
    OBVIOUS
<1>1. CASE enter' = {}
    BY <1>1 DEF EnterInv, EnterType, EnterServesOne
<1>2. CASE Accept /\ enter' = {[pointed |-> pointed, judged |-> FALSE]}
    BY <1>2, AcceptTakesPointed DEF EnterInv, EnterType, EnterServesOne
<1>3. CASE ~Highlighted /\ enter' = {[pointed |-> pointed, judged |-> TRUE]}
    <2>1. pointed = NoAddress
        BY <1>3 DEF IInv, FieldKept, HighlightIsPointed
    <2> QED BY <1>3, <2>1 DEF EnterInv, EnterType, EnterServesOne
<1>4. CASE UNCHANGED vars
    BY <1>4 DEF vars, EnterInv, EnterType, EnterServesOne
<1> QED BY <1>1, <1>2, <1>3, <1>4 DEF Next, EnterInEmail

LEMMA EnterKept == Spec => []EnterInv
<1>1. Init => EnterInv
    BY DEF Init, EnterInv, EnterType, EnterServesOne
<1> QED BY <1>1, Kept, EnterKeeps, PTL DEF Spec

\* The tab's entries, what is typed and what the screens say keep their types.
THEOREM TypeCorrect == Spec => []TypeOK
<1>1. IInv /\ EnterInv => TypeOK
    BY TypeParts DEF IInv, TabInv, TabType, FormType, EnterInv, EnterType, TypeOK
<1> QED BY <1>1, Kept, EnterKept, PTL

\* Enter never takes a suggestion past the end of the list.
THEOREM HighlightStaysInList == Spec => []HighlightIsOffered
<1>1. IInv => HighlightIsOffered
    BY DEF IInv, FieldKept
<1> QED BY <1>1, Kept, PTL

\* A confirmation names a valid address, and comes right after its form.
THEOREM ConfirmationHasForm == Spec => []ConfirmationFollowsForm
<1>1. IInv => ConfirmationFollowsForm
    BY DEF IInv, TabInv
<1> QED BY <1>1, Kept, PTL

\* A link is said to be on its way to a valid address only.
THEOREM LinkHasAddress == Spec => []SentToAnAddress
<1>1. IInv => SentToAnAddress
    BY DEF IInv
<1> QED BY <1>1, Kept, PTL

\* A password is said to be changed only when it is one, on a good link.
THEOREM PasswordIsNew == Spec => []DoneWithNewPassword
<1>1. IInv => DoneWithNewPassword
    BY DEF IInv
<1> QED BY <1>1, Kept, PTL

\* Enter takes the suggestion that was pointed at, or else submits the form: no
\* way of typing, moving, dismissing, leaving and coming back makes it take
\* another, do both or do neither.
THEOREM EnterDoesWhatIsMeant == Spec => []EnterServesOne
<1>1. EnterInv => EnterServesOne
    BY DEF EnterInv
<1> QED BY <1>1, EnterKept, PTL

=============================================================================
