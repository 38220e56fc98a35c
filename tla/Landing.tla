------------------------------ MODULE Landing -------------------------------
(***************************************************************************)
(* The landing page under its top bar (site/landing, site/layout): one     *)
(* reader scrolls, resizes, follows the links of the bar and of the menu   *)
(* it collapses into, opens the signed event of a review and an answer of  *)
(* the FAQ, while the bar works out, one animation frame later, which      *)
(* block it covers and the diagram of How it works which step was reached. *)
(* The page is a column; a position is how far it is scrolled.             *)
(***************************************************************************)
EXTENDS Integers, Sequences

CONSTANTS
    Top,          \* Top[w][b]: where block b starts, w: is the viewport wide;
                  \* the last entry is where the page ends
    View,         \* View[w]: how much of the page is on screen
    Card,         \* Card[w]: the first and the last line of the review card's footer
    Line,         \* half of the bar's height
    Margin,       \* scroll-margin-top of everything with an id
    Bounce,       \* how far an elastic page is pulled below its top
    Start, Span,  \* the list of steps: the position that starts it, its length
    Question,     \* the questions of the FAQ
    Answer,       \* the height of an open answer
    Followed      \* the links that the reader follows

\* Landing.tsx and SiteFooter.tsx, in document order.
SECTIONS == <<
    [id |-> "top", surface |-> "dark"],
    [id |-> "why-ecoa", surface |-> "light"],
    [id |-> "how-it-works", surface |-> "dark"],
    [id |-> "a-real-review", surface |-> "light"],
    [id |-> "trust", surface |-> "dark"],
    [id |-> "history", surface |-> "light"],
    [id |-> "network", surface |-> "dark"],
    [id |-> "human-first", surface |-> "light"],
    [id |-> "join", surface |-> "dark"],
    [id |-> "faq", surface |-> "light"],
    [id |-> "", surface |-> "dark"]>>
Review == 4
Faq == 10
Footer == 11
NAV_LINKS == {"why-ecoa", "how-it-works", "a-real-review", "trust", "history",
              "network", "human-first", "faq"}
FOOTER_LINKS == {"top", "#"}      \* those that stay on the page
Id == {SECTIONS[b].id : b \in DOMAIN SECTIONS}
Surface == {"dark", "light"}
STEPS == 4
None == "none"        \* no answer is open, no link waits

ASSUME LandingAssumption ==
    /\ Top \in [BOOLEAN -> [1..12 -> Nat]]
    /\ View \in [BOOLEAN -> Nat]
    /\ \A w \in BOOLEAN :
        /\ Top[w][1] = 0
        /\ \A b, c \in 1..12 : b < c => Top[w][b] < Top[w][c]
        /\ Card[w] \in Int \X Int
        /\ Top[w][Review] <= Card[w][1] /\ Card[w][2] < Top[w][Review + 1]
        /\ Start[w] \in Nat
    /\ Line \in Nat /\ Margin \in Nat /\ Bounce \in Nat
    /\ Span \in Nat \ {0}
    /\ Answer \in Nat
    /\ None \notin Question
    /\ Followed \subseteq (NAV_LINKS \cup {"top", "#", "main"})

VARIABLES
    pos,          \* how far the page is scrolled
    wide,         \* the viewport is at least 1024px wide
    answer,       \* the open question of the FAQ, or None
    moved,        \* a scroll or resize event is still to be delivered
    ticking,      \* onScroll has asked for a frame that has not come
    frame,        \* what runs in the next animation frame
    surface,      \* what the bar shows: the surface under it
    active,       \*   and the id of the section under it
    menu,         \* the menu is open
    following,    \* the link whose frame was asked for by the menu, or None
    still,        \* the reader asks for reduced motion
    canStick,     \* what HowItWorks knows of wide
    progress,     \* the last scroll progress of its list, in Span-ths
    reached,      \* the step it keeps, from 0
    inspecting,   \* the drawer with the signed event is open
    tampered      \* the text under the seal was changed

page == <<pos, wide, answer>>
frames == <<ticking, frame>>
bar == <<surface, active>>
list == <<progress, reached>>
vars == <<page, moved, frames, bar, menu, following, still, canStick, list,
          inspecting, tampered>>

Clamp(low, n, high) == IF n < low THEN low ELSE IF n > high THEN high ELSE n

-----------------------------------------------------------------------------
(* The column, as the browser lays it out                                  *)

\* An open answer pushes down what follows the FAQ.
Edge(w, a, b) == Top[w][b] + IF b > Faq /\ a # None THEN Answer ELSE 0
Last(w, a) == LET end == Edge(w, a, 12) - View[w] IN IF end > 0 THEN end ELSE 0
Position(w, a) == (-Bounce)..Last(w, a)
\* The main element starts where its first section does, and "#" is the top.
Anchor(w, a, id) ==
    LET b == IF id \in {"#", "main"} THEN 1
             ELSE CHOOSE k \in DOMAIN SECTIONS : SECTIONS[k].id = id
    IN Clamp(0, Edge(w, a, b) - Margin, Last(w, a))
OnScreen(b) ==
    Edge(wide, answer, b) < pos + View[wide] /\ pos < Edge(wide, answer, b + 1)

\* What querySelectorAll('section, footer') finds, in document order: the
\* review card has a footer too, inside its section and after its start.
BlockAt(k, w, a) ==
    IF k = Review + 1
    THEN [id |-> "", surface |-> "dark", top |-> Card[w][1], bottom |-> Card[w][2]]
    ELSE LET b == IF k > Review THEN k - 1 ELSE k
         IN [id |-> SECTIONS[b].id, surface |-> SECTIONS[b].surface,
             top |-> Edge(w, a, b), bottom |-> Edge(w, a, b + 1)]

-----------------------------------------------------------------------------
(* The bar                                                                 *)

Crossed(p, w, a) == {k \in 1..12 :
    BlockAt(k, w, a).top - p <= Line /\ BlockAt(k, w, a).bottom - p > Line}
Gap == [id |-> "", surface |-> "dark"]
Answers(k, w, a) == [id |-> BlockAt(k, w, a).id, surface |-> BlockAt(k, w, a).surface]

\* Mutant: the loop goes on after its first match.
CoveredLast(p, w, a) ==
    LET found == Crossed(p, w, a)
    IN IF found = {} THEN Gap
       ELSE Answers(CHOOSE k \in found : \A j \in found : j <= k, w, a)

\* The first block, in document order, that holds the bar's line.
Covered(p, w, a) ==
    LET found == Crossed(p, w, a)
    IN IF found = {} THEN Gap
       ELSE Answers(CHOOSE k \in found : \A j \in found : k <= j, w, a)

\* The links to this page that can be followed: the bar's, those of the footer
\* where it shows, and the one that skips to the content.
BarLinks == {"top"} \cup IF wide THEN NAV_LINKS ELSE {}
FooterLinks == IF OnScreen(Footer) THEN FOOTER_LINKS ELSE {}
SkipLink == {"main"}

Marked == {l \in NAV_LINKS : l = active}

Modal == menu \/ inspecting

-----------------------------------------------------------------------------
(* How it works                                                            *)

\* scrollYProgress between 'start 65%' and 'end 65%'.
Fraction(p, w) == Clamp(0, p - Start[w], Span)

\* Mutant: the end of the list counts as a step of its own.
StepAtPastTheEnd(f) == (f * STEPS) \div Span

StepAt(f) == Clamp(0, (f * STEPS) \div Span, STEPS - 1)

step == IF still \/ ~canStick THEN STEPS - 1 ELSE reached

\* The step at which each part of the diagram appears.
From == [person |-> 0, line |-> 1, text |-> 1, hand |-> 1, event |-> 2, name |-> 2,
         links |-> 3, observers |-> 3]
Drawn(s) == {part \in DOMAIN From : s >= From[part]}
Caption == step + 1        \* "Step 01 / 04"
Lit == {index \in 0..(STEPS - 1) : step >= index}

-----------------------------------------------------------------------------
(* The page as mounted: update() has run once                              *)

Init ==
    /\ pos = 0
    /\ wide \in BOOLEAN
    /\ answer = None
    /\ moved = FALSE
    /\ ticking = FALSE
    /\ frame = {}
    /\ surface = Covered(0, wide, None).surface
    /\ active = Covered(0, wide, None).id
    /\ menu = FALSE
    /\ following = None
    /\ still \in BOOLEAN
    /\ canStick = wide
    /\ progress = 0
    /\ reached = 0
    /\ inspecting = FALSE
    /\ tampered = FALSE

-----------------------------------------------------------------------------
(* The reader                                                              *)

\* The page comes to rest at p, and says so if that is elsewhere.
MoveTo(p) == pos' = p /\ moved' = (moved \/ p # pos)

\* By one unit; a longer scroll is several of them before Hear.
Scroll ==
    /\ ~Modal
    /\ \E p \in {pos - 1, pos + 1} \cap Position(wide, answer) : MoveTo(p)
    /\ UNCHANGED <<wide, answer, frames, bar, menu, following, still, canStick,
                   list, inspecting, tampered>>

\* Across the breakpoint: another layout, at the same position if the page is
\* still that long.
Resize ==
    /\ wide' = ~wide
    /\ pos' = Clamp(-Bounce, pos, Last(~wide, answer))
    /\ moved' = TRUE
    /\ UNCHANGED <<answer, frames, bar, menu, following, still, canStick, list,
                   inspecting, tampered>>

\* The frames of a smooth scroll are those of Scroll.
FollowLink ==
    /\ ~Modal
    /\ \E l \in Followed \cap (BarLinks \cup FooterLinks \cup SkipLink) :
        MoveTo(Anchor(wide, answer, l))
    /\ UNCHANGED <<wide, answer, frames, bar, menu, following, still, canStick,
                   list, inspecting, tampered>>

OpenMenu ==
    /\ ~wide /\ ~Modal
    /\ menu' = TRUE
    /\ UNCHANGED <<page, moved, frames, bar, following, still, canStick, list,
                   inspecting, tampered>>

CloseMenu ==
    /\ menu
    /\ menu' = FALSE
    /\ UNCHANGED <<page, moved, frames, bar, following, still, canStick, list,
                   inspecting, tampered>>

\* Closes the menu and asks for the frame that scrolls.
FollowInMenu ==
    /\ menu
    /\ menu' = FALSE
    /\ following' \in Followed \cap NAV_LINKS
    /\ UNCHANGED <<page, moved, frames, bar, still, canStick, list, inspecting,
                   tampered>>

\* From the card, and from the button below the questions.
Inspect ==
    /\ ~Modal
    /\ OnScreen(Review)
    /\ inspecting' = TRUE
    /\ UNCHANGED <<page, moved, frames, bar, menu, following, still, canStick,
                   list, tampered>>

CloseInspector ==
    /\ inspecting
    /\ inspecting' = FALSE
    /\ UNCHANGED <<page, moved, frames, bar, menu, following, still, canStick,
                   list, tampered>>

Tamper ==
    /\ ~Modal
    /\ OnScreen(Review)
    /\ tampered' = ~tampered
    /\ UNCHANGED <<page, moved, frames, bar, menu, following, still, canStick,
                   list, inspecting>>

\* One answer at most is open. What is pressed shows, below the bar's line: the
\* trigger that closes an answer stands above that answer. A page that gets
\* shorter than its position is scrolled back to its end.
ToggleAnswer ==
    /\ ~Modal
    /\ OnScreen(Faq)
    /\ answer' \in IF answer = None THEN Question ELSE (Question \ {answer}) \cup {None}
    /\ pos + Line < Edge(wide, IF answer' = None THEN None ELSE answer, Footer)
    /\ MoveTo(IF pos > Last(wide, answer') THEN Last(wide, answer') ELSE pos)
    /\ UNCHANGED <<wide, frames, bar, menu, following, still, canStick, list,
                   inspecting, tampered>>

-----------------------------------------------------------------------------
(* The browser                                                             *)

\* onScroll asks for a frame unless one is coming; so does useScroll.
Hear ==
    /\ moved
    /\ moved' = FALSE
    /\ ticking' = TRUE
    /\ frame' = frame \cup {"measure"} \cup IF ticking THEN {} ELSE {"update"}
    /\ UNCHANGED <<page, bar, menu, following, still, canStick, list, inspecting,
                   tampered>>

\* The change event of the media query.
Notice ==
    /\ canStick # wide
    /\ canStick' = wide
    /\ UNCHANGED <<page, moved, frames, bar, menu, following, still, list,
                   inspecting, tampered>>

\* Media queries are evaluated before the callbacks of a frame.
Drawing == canStick = wide

\* Mutant: over a gap, the id is left as it was.
UpdateKeepingId ==
    /\ Drawing /\ "update" \in frame
    /\ frame' = frame \ {"update"}
    /\ ticking' = FALSE
    /\ surface' = Covered(pos, wide, answer).surface
    /\ active' = IF Crossed(pos, wide, answer) = {} THEN active
                 ELSE Covered(pos, wide, answer).id
    /\ UNCHANGED <<page, moved, menu, following, still, canStick, list, inspecting,
                   tampered>>

\* Mutant: the flag stays up over a gap.
UpdateStuck ==
    /\ Drawing /\ "update" \in frame
    /\ frame' = frame \ {"update"}
    /\ ticking' = (Crossed(pos, wide, answer) = {})
    /\ surface' = Covered(pos, wide, answer).surface
    /\ active' = Covered(pos, wide, answer).id
    /\ UNCHANGED <<page, moved, menu, following, still, canStick, list, inspecting,
                   tampered>>

\* The bar looks at the page as it is by the time of the frame.
Update ==
    /\ Drawing /\ "update" \in frame
    /\ frame' = frame \ {"update"}
    /\ ticking' = FALSE
    /\ surface' = Covered(pos, wide, answer).surface
    /\ active' = Covered(pos, wide, answer).id
    /\ UNCHANGED <<page, moved, menu, following, still, canStick, list, inspecting,
                   tampered>>

\* useScroll measures in the frame; its listeners hear of a value that changed.
Measure ==
    /\ Drawing /\ "measure" \in frame
    /\ frame' = frame \ {"measure"}
    /\ progress' = Fraction(pos, wide)
    /\ reached' = IF progress' = progress \/ still \/ ~canStick
                  THEN reached ELSE StepAt(progress')
    /\ UNCHANGED <<page, moved, ticking, bar, menu, following, still, canStick,
                   inspecting, tampered>>

\* The frame that FollowInMenu asked for.
Follow ==
    /\ Drawing /\ following # None
    /\ following' = None
    /\ MoveTo(Anchor(wide, answer, following))
    /\ UNCHANGED <<wide, answer, frames, bar, menu, still, canStick, list,
                   inspecting, tampered>>

Next ==
    \/ Scroll \/ Resize \/ FollowLink
    \/ OpenMenu \/ CloseMenu \/ FollowInMenu
    \/ Inspect \/ CloseInspector \/ Tamper \/ ToggleAnswer
    \/ Hear \/ Notice \/ Update \/ Measure \/ Follow

Spec == Init /\ [][Next]_vars

-----------------------------------------------------------------------------
(* Properties                                                              *)

\* Every variable has its type, and a step of the diagram is one of STEPS: the
\* end of the list is a progress of 1, and floor(1 * 4) is not a step
\* (HowItWorks.tsx:41).
TypeOK ==
    /\ wide \in BOOLEAN
    /\ answer \in Question \cup {None}
    /\ pos \in Position(wide, answer)
    /\ moved \in BOOLEAN /\ ticking \in BOOLEAN
    /\ frame \subseteq {"update", "measure"}
    /\ surface \in Surface /\ active \in Id
    /\ menu \in BOOLEAN /\ inspecting \in BOOLEAN /\ tampered \in BOOLEAN
    /\ following \in NAV_LINKS \cup {None}
    /\ still \in BOOLEAN /\ canStick \in BOOLEAN
    /\ progress \in 0..Span /\ reached \in 0..(STEPS - 1)

\* No event is under way and no frame is awaited.
AtRest == ~moved /\ frame = {} /\ following = None /\ canStick = wide

\* The section whose tile holds the bar's line, if any does.
Holds(b, p, w, a) == Edge(w, a, b) <= p + Line /\ p + Line < Edge(w, a, b + 1)
Under(b) == Holds(b, pos, wide, answer)

\* What the bar shows over a section.
Face(b) == <<SECTIONS[b].surface, SECTIONS[b].id>>

\* A bar that has nothing to wait for shows the surface of the section it
\* covers and marks that section, whatever else lies under it: the review
\* card's footer is a block too, and a resize, a link, an answer that closes
\* all move the page (SiteNav.tsx:164).
BarTellsTheSection ==
    ~moved /\ "update" \notin frame =>
        /\ \A b \in 1..Footer : Under(b) => bar = Face(b)
        /\ (\A b \in 1..Footer : ~Under(b)) => bar = <<"dark", "">>

\* Also while it lags behind, the bar is of one section: the link it marks is
\* that of a section with the surface it shows (SiteNav.tsx:176).
BarIsOneSection ==
    \A l \in Marked : \E b \in 1..Footer : SECTIONS[b] = [id |-> l, surface |-> surface]

\* The flag that saves frames is up only while its frame is coming: were it
\* left up once, the bar would never look again (SiteNav.tsx:186).
FlagMeansFrame == ticking => "update" \in frame

\* At rest, beside the steps and unless motion is reduced, the diagram is drawn
\* and the rail is lit up to the step that the reader has scrolled to
\* (FlowDiagram.tsx:2).
DiagramFollowsReader ==
    AtRest /\ wide /\ ~still =>
        /\ Drawn(step) = Drawn(StepAt(progress))
        /\ Lit = 0..StepAt(progress)
        /\ Caption = StepAt(progress) + 1

=============================================================================
