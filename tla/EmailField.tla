---------------------------- MODULE EmailField -----------------------------
(***************************************************************************)
(* components/ui/EmailField.tsx: the email control that completes the      *)
(* domain. An address is what split('@') makes of it, the sequence of its  *)
(* parts; the screen that shows the control owns it, and the control keeps *)
(* which suggestion is highlighted and whether the list was dismissed. A   *)
(* list that closes fades out, and its buttons work while it does.         *)
(***************************************************************************)
EXTENDS Integers, Sequences, FiniteSets

CONSTANTS
    Text,              \* parts of an address, as typed
    Blank,             \* the empty one
    DOMAINS,           \* the domains offered, in order
    StartsWith,        \* StartsWith[d]: the texts that the text d starts with
    MAX_SUGGESTIONS

ASSUME EmailFieldAssumption ==
    /\ Blank \in Text
    /\ DOMAINS \in Seq(Text)
    /\ StartsWith \in [Text -> SUBSET Text]
    /\ MAX_SUGGESTIONS \in Nat

Address == UNION {[1..n -> Text] : n \in 1..3}
NoAddress == <<>>
Untyped == <<Blank>>

VARIABLES
    value,        \* the address, a state of the screen
    active,       \* the number of the highlighted suggestion, from 0, or -1
    dismissed,    \* the list is closed until something is typed
    focused,      \* the control has the focus
    leaving,      \* the address whose list fades out, or NoAddress
    pointed       \* history: the suggestion of the open list that an arrow or
                  \* the pointer was last moved to, or NoAddress

field == <<value, active, dismissed, focused, leaving, pointed>>

Fits(domain) == {i \in DOMAIN DOMAINS :
    domain \in StartsWith[DOMAINS[i]] /\ domain # DOMAINS[i]}

\* The domains offered for an address, by their index in DOMAINS, and the
\* number each has in the list.
suggest(v) ==
    IF Len(v) = 2 /\ v[1] # Blank
    THEN {i \in Fits(v[2]) : Cardinality({j \in Fits(v[2]) : j < i}) < MAX_SUGGESTIONS}
    ELSE {}
Number(i, offered) == Cardinality({j \in offered : j < i})
Completed(v, i) == <<v[1], DOMAINS[i]>>

\* What stands in the list of an address under a number.
Numbered(v, k) ==
    {Completed(v, i) : i \in {j \in suggest(v) : Number(j, suggest(v)) = k}}

options == IF dismissed THEN {} ELSE suggest(value)
open == options # {}
Highlighted == open /\ active >= 0

\* The address whose list is on screen: the current one, or one that fades.
Listed == IF open THEN value ELSE leaving

\* AnimatePresence keeps the last list until its exit animation ends, and has
\* nothing to keep for a reader who asks for reduced motion.
Fade ==
    IF open' THEN leaving' = NoAddress
    ELSE leaving' \in IF open THEN {value, NoAddress} ELSE {leaving}

Unused ==
    /\ value = Untyped
    /\ active = -1
    /\ dismissed = FALSE
    /\ focused = FALSE
    /\ leaving = NoAddress
    /\ pointed = NoAddress

\* A control mounts closed but not dismissed, whatever address it is given.
Mount(v) ==
    /\ value' = v
    /\ active' = -1
    /\ dismissed' = FALSE
    /\ focused' = FALSE
    /\ leaving' = NoAddress
    /\ pointed' = NoAddress

pick(option) ==
    /\ value' = option
    /\ dismissed' = TRUE
    /\ active' = -1
    /\ pointed' = NoAddress
    /\ Fade
    /\ UNCHANGED focused

\* Mutant: the highlight survives what is typed.
ChangeKeeping(v) ==
    /\ value' = v
    /\ dismissed' = FALSE
    /\ pointed' = NoAddress
    /\ Fade
    /\ UNCHANGED <<active, focused>>

\* Typing, pasting or the browser's autofill, which needs no focus.
Change(v) ==
    /\ value' = v
    /\ dismissed' = FALSE
    /\ active' = -1
    /\ pointed' = NoAddress
    /\ Fade
    /\ UNCHANGED focused

Focus ==
    /\ ~focused
    /\ focused' = TRUE
    /\ UNCHANGED <<value, active, dismissed, leaving, pointed>>

Blur ==
    /\ focused
    /\ focused' = FALSE
    /\ dismissed' = TRUE
    /\ pointed' = NoAddress
    /\ Fade
    /\ UNCHANGED <<value, active>>

\* Mutant: the highlight does not go round.
ArrowPastTheEnds(step) ==
    /\ focused /\ open
    /\ active' = active + step
    /\ UNCHANGED <<value, dismissed, focused, leaving, pointed>>

Arrow(step) ==
    /\ focused /\ open
    /\ active' = (active + step + Cardinality(options)) % Cardinality(options)
    /\ pointed' \in Numbered(value, active')
    /\ UNCHANGED <<value, dismissed, focused, leaving>>

\* Enter while a suggestion is highlighted: taken, and kept from the form.
Accept ==
    /\ focused /\ Highlighted
    /\ \E i \in options :
         /\ Number(i, options) = active
         /\ pick(Completed(value, i))

Escape ==
    /\ focused /\ open
    /\ dismissed' = TRUE
    /\ pointed' = NoAddress
    /\ Fade
    /\ UNCHANGED <<value, active, focused>>

\* The buttons of the list on screen, which may be one that fades out: its
\* buttons move the highlight, though Enter no longer sees the list. Pressing
\* one keeps the focus where it is.
Hover ==
    \E i \in suggest(Listed) :
        /\ active' = Number(i, suggest(Listed))
        /\ pointed' = IF open THEN Completed(Listed, i) ELSE NoAddress
        /\ UNCHANGED <<value, dismissed, focused, leaving>>

Click == \E i \in suggest(Listed) : pick(Completed(Listed, i))

FadeEnd ==
    /\ leaving # NoAddress
    /\ leaving' = NoAddress
    /\ UNCHANGED <<value, active, dismissed, focused, pointed>>

EditBy(Typed) ==
    \/ \E v \in Typed \ {value} : Change(v)
    \/ Focus
    \/ Blur
    \/ \E step \in {-1, 1} : Arrow(step)
    \/ Escape
    \/ Hover
    \/ Click
    \/ FadeEnd

-----------------------------------------------------------------------------
FieldTypeOK ==
    /\ value \in Address
    /\ active \in Nat \cup {-1}
    /\ dismissed \in BOOLEAN
    /\ focused \in BOOLEAN
    /\ leaving \in Address \cup {NoAddress}
    /\ pointed \in Address \cup {NoAddress}

\* Whatever is typed, hovered or dismissed, and however a screen is left and
\* come back to, the highlighted suggestion is one of the open list: Enter
\* never takes options[active] past its end.
HighlightIsOffered == open => active < Cardinality(options)

=============================================================================
