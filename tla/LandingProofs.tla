--------------------------- MODULE LandingProofs ----------------------------
(***************************************************************************)
(* Proofs about Landing, for any layout of the page's blocks, any viewport *)
(* and any questions.                                                      *)
(***************************************************************************)
EXTENDS Landing, TLAPS

-----------------------------------------------------------------------------
(* The column.                                                             *)

LEMMA SectionList ==
    /\ DOMAIN SECTIONS = 1..Footer
    /\ \A b \in 1..Footer : SECTIONS[b].surface \in Surface /\ SECTIONS[b].id \in Id
    /\ SECTIONS[Footer] = Gap
    /\ \A b \in 1..Footer :
        SECTIONS[b] = [id |-> SECTIONS[b].id, surface |-> SECTIONS[b].surface]
<1>1. DOMAIN SECTIONS = 1..Footer
    BY DEF SECTIONS, Footer
<1>2. \A b \in 1..Footer : SECTIONS[b].surface \in Surface
    <2>1. /\ SECTIONS[1].surface = "dark" /\ SECTIONS[2].surface = "light"
          /\ SECTIONS[3].surface = "dark" /\ SECTIONS[4].surface = "light"
          /\ SECTIONS[5].surface = "dark" /\ SECTIONS[6].surface = "light"
          /\ SECTIONS[7].surface = "dark" /\ SECTIONS[8].surface = "light"
          /\ SECTIONS[9].surface = "dark" /\ SECTIONS[10].surface = "light"
          /\ SECTIONS[11].surface = "dark"
        BY DEF SECTIONS
    <2> QED BY <2>1 DEF Footer, Surface
<1>3. \A b \in 1..Footer : SECTIONS[b].id \in Id
    BY <1>1 DEF Id
<1>4. SECTIONS[Footer] = Gap
    BY DEF SECTIONS, Footer, Gap
<1>5. \A b \in 1..Footer :
        SECTIONS[b] = [id |-> SECTIONS[b].id, surface |-> SECTIONS[b].surface]
    <2>1. /\ SECTIONS[1] = [id |-> SECTIONS[1].id, surface |-> SECTIONS[1].surface]
          /\ SECTIONS[2] = [id |-> SECTIONS[2].id, surface |-> SECTIONS[2].surface]
          /\ SECTIONS[3] = [id |-> SECTIONS[3].id, surface |-> SECTIONS[3].surface]
          /\ SECTIONS[4] = [id |-> SECTIONS[4].id, surface |-> SECTIONS[4].surface]
          /\ SECTIONS[5] = [id |-> SECTIONS[5].id, surface |-> SECTIONS[5].surface]
          /\ SECTIONS[6] = [id |-> SECTIONS[6].id, surface |-> SECTIONS[6].surface]
          /\ SECTIONS[7] = [id |-> SECTIONS[7].id, surface |-> SECTIONS[7].surface]
          /\ SECTIONS[8] = [id |-> SECTIONS[8].id, surface |-> SECTIONS[8].surface]
          /\ SECTIONS[9] = [id |-> SECTIONS[9].id, surface |-> SECTIONS[9].surface]
          /\ SECTIONS[10] = [id |-> SECTIONS[10].id, surface |-> SECTIONS[10].surface]
          /\ SECTIONS[11] = [id |-> SECTIONS[11].id, surface |-> SECTIONS[11].surface]
        BY DEF SECTIONS
    <2> QED BY <2>1 DEF Footer
<1> QED BY <1>1, <1>2, <1>3, <1>4, <1>5

LEMMA EdgesRise ==
    ASSUME NEW w \in BOOLEAN, NEW a
    PROVE  /\ \A b \in 1..12 : Edge(w, a, b) \in Nat
           /\ \A b, c \in 1..12 : b < c => Edge(w, a, b) < Edge(w, a, c)
           /\ \A b \in 1..Faq : Edge(w, a, b) = Top[w][b]
           /\ Last(w, a) \in Nat
<1>1. \A b \in 1..12 : Top[w][b] \in Nat
    BY LandingAssumption
<1>2. \A b, c \in 1..12 : b < c => Top[w][b] < Top[w][c]
    BY LandingAssumption
<1>3. Answer \in Nat /\ View[w] \in Nat
    BY LandingAssumption
<1>4. \A b \in 1..12 : Edge(w, a, b) \in Nat
    BY <1>1, <1>3 DEF Edge
<1>5. \A b, c \in 1..12 : b < c => Edge(w, a, b) < Edge(w, a, c)
    BY <1>1, <1>2, <1>3 DEF Edge, Faq
<1>6. \A b \in 1..Faq : Edge(w, a, b) = Top[w][b]
    BY <1>1 DEF Edge, Faq
<1>7. Last(w, a) \in Nat
    BY <1>3, <1>4 DEF Last
<1> QED BY <1>4, <1>5, <1>6, <1>7

\* An anchor is a position of the page, below its top.
LEMMA AnchorIsPosition ==
    ASSUME NEW w \in BOOLEAN, NEW a, NEW id \in NAV_LINKS \cup {"top", "#", "main"}
    PROVE  Anchor(w, a, id) \in Position(w, a)
<1> DEFINE named == CHOOSE k \in DOMAIN SECTIONS : SECTIONS[k].id = id
           b == IF id \in {"#", "main"} THEN 1 ELSE named
<1>1. id \notin {"#", "main"} => \E k \in 1..Footer : SECTIONS[k].id = id
    <2>1. /\ SECTIONS[1].id = "top" /\ SECTIONS[2].id = "why-ecoa"
          /\ SECTIONS[3].id = "how-it-works" /\ SECTIONS[4].id = "a-real-review"
          /\ SECTIONS[5].id = "trust" /\ SECTIONS[6].id = "history"
          /\ SECTIONS[7].id = "network" /\ SECTIONS[8].id = "human-first"
          /\ SECTIONS[10].id = "faq"
        BY DEF SECTIONS
    <2> QED BY <2>1 DEF NAV_LINKS, Footer
<1>2. b \in 1..Footer
    BY <1>1, SectionList DEF Footer
<1>3. Anchor(w, a, id) = Clamp(0, Edge(w, a, b) - Margin, Last(w, a))
    BY DEF Anchor
<1> HIDE DEF b, named
<1>4. Edge(w, a, b) \in Nat /\ Last(w, a) \in Nat
    BY <1>2, EdgesRise DEF Footer
<1>5. Margin \in Nat /\ Bounce \in Nat
    BY LandingAssumption
<1> QED BY <1>3, <1>4, <1>5 DEF Clamp, Position

-----------------------------------------------------------------------------
(* What the bar sees. The sections are tiles, so one at most holds the      *)
(* line; the card's footer can only hold it inside its own section.        *)

\* The number, among the blocks, of a section.
Nth(b) == IF b > Review THEN b + 1 ELSE b

LEMMA BlocksOfSections ==
    ASSUME NEW w, NEW a
    PROVE  /\ \A b \in 1..Footer :
                BlockAt(Nth(b), w, a) =
                    [id |-> SECTIONS[b].id, surface |-> SECTIONS[b].surface,
                     top |-> Edge(w, a, b), bottom |-> Edge(w, a, b + 1)]
           /\ \A k \in 1..12 : k # Review + 1 => \E b \in 1..Footer : k = Nth(b)
<1>1. ASSUME NEW b \in 1..Footer
      PROVE  /\ Nth(b) # Review + 1
             /\ (IF Nth(b) > Review THEN Nth(b) - 1 ELSE Nth(b)) = b
    BY DEF Nth, Review, Footer
<1>2. \A b \in 1..Footer :
        BlockAt(Nth(b), w, a) =
            [id |-> SECTIONS[b].id, surface |-> SECTIONS[b].surface,
             top |-> Edge(w, a, b), bottom |-> Edge(w, a, b + 1)]
    BY <1>1 DEF BlockAt
<1>3. ASSUME NEW k \in 1..12, k # Review + 1
      PROVE  \E b \in 1..Footer : k = Nth(b)
    <2>1. CASE k < Review + 1
        <3>1. k \in 1..Footer /\ k = Nth(k)
            BY <2>1 DEF Nth, Review, Footer
        <3> QED BY <3>1
    <2>2. CASE k > Review + 1
        <3>1. k - 1 \in 1..Footer /\ k = Nth(k - 1)
            BY <2>2 DEF Nth, Review, Footer
        <3> QED BY <3>1
    <2> QED BY <1>3, <2>1, <2>2 DEF Review
<1> QED BY <1>2, <1>3

LEMMA CrossedBlocks ==
    ASSUME NEW w \in BOOLEAN, NEW a, NEW p \in Int
    PROVE  /\ \A b \in 1..Footer : Nth(b) \in Crossed(p, w, a) <=> Holds(b, p, w, a)
           /\ Review + 1 \in Crossed(p, w, a) => Holds(Review, p, w, a)
           /\ \A b, c \in 1..Footer : Holds(b, p, w, a) /\ Holds(c, p, w, a) => b = c
<1>1. Line \in Nat
    BY LandingAssumption
<1>2. \A b \in 1..Footer : Edge(w, a, b) \in Nat /\ Edge(w, a, b + 1) \in Nat
    BY EdgesRise DEF Footer
<1>3. ASSUME NEW b \in 1..Footer
      PROVE  Nth(b) \in Crossed(p, w, a) <=> Holds(b, p, w, a)
    <2>1. Nth(b) \in 1..12
        BY DEF Nth, Review, Footer
    <2>2. /\ BlockAt(Nth(b), w, a).top = Edge(w, a, b)
          /\ BlockAt(Nth(b), w, a).bottom = Edge(w, a, b + 1)
        BY BlocksOfSections
    <2>3. Nth(b) \in Crossed(p, w, a) <=>
            /\ Edge(w, a, b) - p <= Line
            /\ Edge(w, a, b + 1) - p > Line
        BY <2>1, <2>2 DEF Crossed
    <2> QED BY <1>1, <1>2, <2>3 DEF Holds
<1>4. ASSUME Review + 1 \in Crossed(p, w, a)
      PROVE  Holds(Review, p, w, a)
    <2>1. /\ BlockAt(Review + 1, w, a).top = Card[w][1]
          /\ BlockAt(Review + 1, w, a).bottom = Card[w][2]
        BY DEF BlockAt
    <2>2. Card[w][1] - p <= Line /\ Card[w][2] - p > Line
        BY <1>4, <2>1 DEF Crossed
    <2>3. Card[w][1] \in Int /\ Card[w][2] \in Int
        BY LandingAssumption
    <2>4. Top[w][Review] <= Card[w][1] /\ Card[w][2] < Top[w][Review + 1]
        BY LandingAssumption
    <2>5. Edge(w, a, Review) = Top[w][Review] /\ Edge(w, a, Review + 1) = Top[w][Review + 1]
        BY EdgesRise DEF Review, Faq
    <2>6. Edge(w, a, Review) \in Nat /\ Edge(w, a, Review + 1) \in Nat
        BY EdgesRise DEF Review
    <2> QED BY <1>1, <2>2, <2>3, <2>4, <2>5, <2>6 DEF Holds
<1>5. ASSUME NEW b \in 1..Footer, NEW c \in 1..Footer,
             Holds(b, p, w, a), Holds(c, p, w, a)
      PROVE  b = c
    <2>1. SUFFICES ASSUME b # c
                   PROVE  FALSE
        OBVIOUS
    <2>2. \A i, j \in 1..Footer :
            Holds(i, p, w, a) /\ Holds(j, p, w, a) => ~(i < j)
        <3> TAKE i, j \in 1..Footer
        <3> HAVE Holds(i, p, w, a) /\ Holds(j, p, w, a)
        <3>1. SUFFICES ASSUME i < j
                       PROVE  FALSE
            OBVIOUS
        <3>2. i + 1 \in 1..12 /\ j \in 1..12 /\ (i + 1 = j \/ i + 1 < j)
            BY <3>1 DEF Footer
        <3>3. Edge(w, a, i + 1) <= Edge(w, a, j)
            BY <3>2, EdgesRise
        <3>4. p + Line < Edge(w, a, i + 1) /\ Edge(w, a, j) <= p + Line
            BY DEF Holds
        <3> QED BY <1>1, <1>2, <3>3, <3>4
    <2> QED BY <1>5, <2>1, <2>2 DEF Footer
<1> QED BY <1>3, <1>4, <1>5

Seen(p, w, a) == <<Covered(p, w, a).surface, Covered(p, w, a).id>>

\* The bar sees the section that holds the line, and the canvas over a gap.
LEMMA CoveredIsSection ==
    ASSUME NEW w \in BOOLEAN, NEW a, NEW p \in Int
    PROVE  /\ \A b \in 1..Footer : Holds(b, p, w, a) => Seen(p, w, a) = Face(b)
           /\ (\A b \in 1..Footer : ~Holds(b, p, w, a)) =>
                Seen(p, w, a) = <<"dark", "">>
           /\ \E b \in 1..Footer : Seen(p, w, a) = Face(b)
<1> DEFINE found == Crossed(p, w, a)
<1>1. ASSUME NEW b \in 1..Footer, Holds(b, p, w, a)
      PROVE  Seen(p, w, a) = Face(b)
    <2>1. Nth(b) \in found
        BY <1>1, CrossedBlocks
    <2>2. \A k \in found : Nth(b) <= k /\ (k = Nth(b) \/ (b = Review /\ k = Review + 1))
        <3> TAKE k \in found
        <3>1. k \in 1..12
            BY DEF Crossed
        <3>2. CASE k = Review + 1
            <4>1. b = Review
                BY <1>1, <3>2, CrossedBlocks DEF Review, Footer
            <4> QED BY <3>2, <4>1 DEF Nth, Review
        <3>3. CASE k # Review + 1
            <4>1. PICK c \in 1..Footer : k = Nth(c)
                BY <3>1, <3>3, BlocksOfSections
            <4>2. c = b
                BY <1>1, <4>1, CrossedBlocks
            <4> QED BY <4>1, <4>2 DEF Nth, Review, Footer
        <3> QED BY <3>2, <3>3
    <2>3. (CHOOSE k \in found : \A j \in found : k <= j) = Nth(b)
        <3> DEFINE least == CHOOSE k \in found : \A j \in found : k <= j
        <3>1. least \in found /\ \A j \in found : least <= j
            BY <2>1, <2>2
        <3>2. least <= Nth(b) /\ Nth(b) <= least
            BY <2>1, <2>2, <3>1
        <3> HIDE DEF least
        <3>3. least \in Int /\ Nth(b) \in Int
            <4>1. found \subseteq Int
                BY DEF Crossed
            <4> QED BY <3>1, <4>1 DEF Nth, Footer, Review
        <3>4. least = Nth(b)
            BY <3>2, <3>3
        <3> QED BY <3>4 DEF least
    <2>4. Covered(p, w, a) = Answers(Nth(b), w, a)
        BY <2>1, <2>3 DEF Covered
    <2>5. /\ Answers(Nth(b), w, a).surface = SECTIONS[b].surface
          /\ Answers(Nth(b), w, a).id = SECTIONS[b].id
        BY BlocksOfSections DEF Answers
    <2> QED BY <2>4, <2>5 DEF Seen, Face
<1>2. ASSUME \A b \in 1..Footer : ~Holds(b, p, w, a)
      PROVE  Seen(p, w, a) = <<"dark", "">>
    <2>1. found = {}
        <3>1. SUFFICES ASSUME NEW k \in found
                       PROVE  FALSE
            OBVIOUS
        <3>2. k \in 1..12
            BY DEF Crossed
        <3>3. k # Review + 1
            BY <1>2, CrossedBlocks DEF Review, Footer
        <3>4. PICK c \in 1..Footer : k = Nth(c)
            BY <3>2, <3>3, BlocksOfSections
        <3> QED BY <1>2, <3>1, <3>4, CrossedBlocks
    <2> QED BY <2>1 DEF Covered, Seen, Gap
<1>3. \E b \in 1..Footer : Seen(p, w, a) = Face(b)
    <2>1. CASE \E b \in 1..Footer : Holds(b, p, w, a)
        BY <2>1, <1>1
    <2>2. CASE \A b \in 1..Footer : ~Holds(b, p, w, a)
        <3>1. Face(Footer) = <<"dark", "">>
            BY DEF Face, SECTIONS, Footer
        <3>2. Footer \in 1..Footer
            BY DEF Footer
        <3> QED BY <2>2, <1>2, <3>1, <3>2
    <2> QED BY <2>1, <2>2
<1> QED BY <1>1, <1>2, <1>3

-----------------------------------------------------------------------------
(* The inductive invariant.                                                *)

\* A bar with nothing to wait for shows what update() would find.
BarIsFresh == ~moved /\ "update" \notin frame => bar = Seen(pos, wide, answer)

\* The bar is that of one section, the page's footer included.
BarIsFace == \E b \in 1..Footer : bar = Face(b)

IInv == TypeOK /\ FlagMeansFrame /\ BarIsFace /\ BarIsFresh

LEMMA FractionInSpan ==
    ASSUME NEW p \in Int, NEW w \in BOOLEAN
    PROVE  Fraction(p, w) \in 0..Span
<1>1. Start[w] \in Nat /\ Span \in Nat
    BY LandingAssumption
<1>2. p - Start[w] \in Int
    BY <1>1
<1> QED BY <1>1, <1>2 DEF Fraction, Clamp

LEMMA StepIsStep ==
    ASSUME NEW f \in 0..Span
    PROVE  StepAt(f) \in 0..(STEPS - 1)
<1>1. Span \in Nat \ {0} /\ f * STEPS \in Nat
    BY LandingAssumption DEF STEPS
<1>2. (f * STEPS) \div Span \in Int
    BY <1>1
<1> DEFINE q == (f * STEPS) \div Span
<1>3. StepAt(f) = Clamp(0, q, STEPS - 1) /\ q \in Int
    BY <1>2 DEF StepAt
<1> HIDE DEF q
<1> QED BY <1>3 DEF Clamp, STEPS

\* A position lies within the column, and the surface and the id that the bar
\* sees are ones it may show.
LEMMA SeenHasType ==
    ASSUME NEW w \in BOOLEAN, NEW a, NEW p \in Int
    PROVE  Covered(p, w, a).surface \in Surface /\ Covered(p, w, a).id \in Id
<1>1. PICK b \in 1..Footer : Seen(p, w, a) = Face(b)
    BY CoveredIsSection
<1>2. Covered(p, w, a).surface = SECTIONS[b].surface /\ Covered(p, w, a).id = SECTIONS[b].id
    BY <1>1 DEF Seen, Face
<1> QED BY <1>2, SectionList

LEMMA PositionIsInt ==
    ASSUME NEW w \in BOOLEAN, NEW a
    PROVE  Position(w, a) \subseteq Int /\ 0 \in Position(w, a)
<1>1. Bounce \in Nat /\ Last(w, a) \in Nat
    BY LandingAssumption, EdgesRise
<1> QED BY <1>1 DEF Position

LEMMA InitIInv == Init => IInv
<1>1. SUFFICES ASSUME Init
               PROVE  IInv
    OBVIOUS
<1>2. wide \in BOOLEAN /\ pos = 0 /\ answer = None
    BY <1>1 DEF Init
<1>3. TypeOK
    <2>1. pos \in Position(wide, answer)
        BY <1>2, PositionIsInt
    <2>2. surface \in Surface /\ active \in Id
        BY <1>1, <1>2, SeenHasType DEF Init
    <2>3. 0 \in 0..Span /\ 0 \in 0..(STEPS - 1)
        BY LandingAssumption DEF STEPS
    <2> QED BY <1>1, <2>1, <2>2, <2>3 DEF Init, TypeOK
<1>4. FlagMeansFrame
    BY <1>1 DEF Init, FlagMeansFrame
<1>5. bar = Seen(pos, wide, answer)
    BY <1>1, <1>2 DEF Init, bar, Seen
<1>6. BarIsFace
    <2>1. pos \in Int /\ wide \in BOOLEAN
        BY <1>2
    <2>2. \E b \in 1..Footer : Seen(pos, wide, answer) = Face(b)
        BY <2>1, CoveredIsSection
    <2> QED BY <1>5, <2>2 DEF BarIsFace
<1> QED BY <1>3, <1>4, <1>5, <1>6 DEF IInv, BarIsFresh

\* What looks at nothing and moves nothing keeps all that is about the bar.
LEMMA StillPageKeepsBar ==
    ASSUME IInv, UNCHANGED <<page, moved, frames, bar>>
    PROVE  FlagMeansFrame' /\ BarIsFace' /\ BarIsFresh'
<1>1. /\ UNCHANGED <<pos, wide, answer, moved, ticking, frame, surface, active>>
      /\ bar' = bar
    BY DEF page, frames, bar
<1>2. FlagMeansFrame'
    BY <1>1 DEF IInv, FlagMeansFrame
<1>3. BarIsFace'
    BY <1>1 DEF IInv, BarIsFace, bar
<1>4. BarIsFresh'
    BY <1>1 DEF IInv, BarIsFresh, bar, Seen
<1> QED BY <1>2, <1>3, <1>4

\* A page that moves says so.
LEMMA MovingKeepsBar ==
    ASSUME IInv, NEW p, MoveTo(p), UNCHANGED <<wide, answer, frames, bar>>
    PROVE  FlagMeansFrame' /\ BarIsFace' /\ BarIsFresh'
<1>1. UNCHANGED <<wide, answer, ticking, frame, surface, active>> /\ bar' = bar
    BY DEF frames, bar
<1>2. FlagMeansFrame'
    BY <1>1 DEF IInv, FlagMeansFrame
<1>3. BarIsFace'
    BY <1>1 DEF IInv, BarIsFace, bar
<1>4. BarIsFresh'
    <2>1. CASE moved'
        BY <2>1 DEF BarIsFresh
    <2>2. CASE ~moved'
        <3>1. pos' = pos /\ ~moved
            BY <2>2 DEF MoveTo, IInv, TypeOK
        <3> QED BY <1>1, <3>1 DEF IInv, BarIsFresh, bar, Seen
    <2> QED BY <2>1, <2>2
<1> QED BY <1>2, <1>3, <1>4

\* An answer that opens or closes below the line leaves what the bar sees.
LEMMA AnswerBelowLine ==
    ASSUME NEW w \in BOOLEAN, NEW p \in Int, NEW a, NEW c,
           p + Line < Edge(w, IF c = None THEN None ELSE a, Footer)
    PROVE  Seen(p, w, c) = Seen(p, w, a)
<1>1. Line \in Nat /\ Answer \in Nat
    BY LandingAssumption
<1>2. \A b \in 1..12 : Edge(w, a, b) \in Nat /\ Edge(w, c, b) \in Nat
    BY EdgesRise
<1>3. \A b \in 1..Faq : Edge(w, a, b) = Edge(w, c, b)
    BY EdgesRise
<1>4. p + Line < Edge(w, a, Footer) /\ p + Line < Edge(w, c, Footer)
    <2>1. Top[w][Footer] \in Nat
        BY LandingAssumption DEF Footer
    <2> QED BY <1>1, <2>1 DEF Edge, Footer, Faq
<1>5. \A b \in 1..Footer : Holds(b, p, w, a) <=> Holds(b, p, w, c)
    <2> TAKE b \in 1..Footer
    <2>1. CASE b < Faq
        <3>1. b \in 1..Faq /\ b + 1 \in 1..Faq
            BY <2>1 DEF Faq
        <3> QED BY <1>3, <3>1 DEF Holds
    <2>2. CASE b = Faq
        <3>1. b \in 1..Faq /\ b + 1 = Footer
            BY <2>2 DEF Faq, Footer
        <3> QED BY <1>3, <1>4, <3>1 DEF Holds
    <2>3. CASE b = Footer
        <3>1. Edge(w, a, b) \in Nat /\ Edge(w, c, b) \in Nat
            BY <1>2 DEF Footer
        <3> QED BY <1>1, <1>4, <2>3, <3>1 DEF Holds
    <2> QED BY <2>1, <2>2, <2>3 DEF Faq, Footer
<1>6. CASE \E b \in 1..Footer : Holds(b, p, w, a)
    <2>1. PICK b \in 1..Footer : Holds(b, p, w, a)
        BY <1>6
    <2>2. Seen(p, w, a) = Face(b)
        BY <2>1, CoveredIsSection
    <2>3. Holds(b, p, w, c)
        BY <2>1, <1>5
    <2>4. Seen(p, w, c) = Face(b)
        BY <2>3, CoveredIsSection
    <2> QED BY <2>2, <2>4
<1>7. CASE \A b \in 1..Footer : ~Holds(b, p, w, a)
    <2>1. \A b \in 1..Footer : ~Holds(b, p, w, c)
        BY <1>5, <1>7
    <2>2. Seen(p, w, a) = <<"dark", "">>
        BY <1>7, CoveredIsSection
    <2>3. Seen(p, w, c) = <<"dark", "">>
        BY <2>1, CoveredIsSection
    <2> QED BY <2>2, <2>3
<1> QED BY <1>6, <1>7

-----------------------------------------------------------------------------
(* One lemma per action.                                                   *)

LEMMA ScrollIInv == IInv /\ Scroll => IInv'
<1>1. SUFFICES ASSUME IInv, Scroll
               PROVE  IInv'
    OBVIOUS
<1>2. PICK p \in Position(wide, answer) : MoveTo(p)
    BY <1>1 DEF Scroll
<1>3. FlagMeansFrame' /\ BarIsFace' /\ BarIsFresh'
    BY <1>1, <1>2, MovingKeepsBar DEF Scroll
<1>4. pos' \in Position(wide, answer) /\ moved' \in BOOLEAN
    BY <1>1, <1>2 DEF MoveTo, IInv, TypeOK
<1>5. TypeOK'
    BY <1>1, <1>4 DEF Scroll, IInv, TypeOK, frames, bar, list
<1> QED BY <1>3, <1>5 DEF IInv

LEMMA ResizeIInv == IInv /\ Resize => IInv'
<1>1. SUFFICES ASSUME IInv, Resize
               PROVE  IInv'
    OBVIOUS
<1>2. /\ UNCHANGED <<answer, ticking, frame, surface, active>> /\ bar' = bar
      /\ moved' = TRUE /\ wide' = ~wide /\ wide' \in BOOLEAN
    BY <1>1 DEF Resize, frames, bar, IInv, TypeOK
<1>3. pos' \in Position(wide', answer)
    <2>1. pos' = Clamp(-Bounce, pos, Last(wide', answer))
        BY <1>1, <1>2 DEF Resize
    <2>2. Bounce \in Nat /\ Last(wide', answer) \in Nat
        BY <1>2, LandingAssumption, EdgesRise
    <2>3. pos \in Int
        BY <1>1, PositionIsInt DEF IInv, TypeOK
    <2> QED BY <2>1, <2>2, <2>3 DEF Clamp, Position
<1>4. TypeOK'
    BY <1>1, <1>2, <1>3 DEF Resize, IInv, TypeOK, list
<1>5. FlagMeansFrame' /\ BarIsFace' /\ BarIsFresh'
    BY <1>1, <1>2 DEF IInv, FlagMeansFrame, BarIsFace, BarIsFresh
<1> QED BY <1>4, <1>5 DEF IInv

LEMMA FollowLinkIInv == IInv /\ FollowLink => IInv'
<1>1. SUFFICES ASSUME IInv, FollowLink
               PROVE  IInv'
    OBVIOUS
<1>2. PICK l \in Followed : MoveTo(Anchor(wide, answer, l))
    BY <1>1 DEF FollowLink
<1>3. FlagMeansFrame' /\ BarIsFace' /\ BarIsFresh'
    BY <1>1, <1>2, MovingKeepsBar DEF FollowLink
<1>4. l \in NAV_LINKS \cup {"top", "#", "main"}
    BY LandingAssumption
<1>5. pos' \in Position(wide, answer) /\ moved' \in BOOLEAN
    BY <1>1, <1>2, <1>4, AnchorIsPosition DEF MoveTo, IInv, TypeOK
<1>6. TypeOK'
    BY <1>1, <1>5 DEF FollowLink, IInv, TypeOK, frames, bar, list
<1> QED BY <1>3, <1>6 DEF IInv

LEMMA FollowIInv == IInv /\ Follow => IInv'
<1>1. SUFFICES ASSUME IInv, Follow
               PROVE  IInv'
    OBVIOUS
<1>2. MoveTo(Anchor(wide, answer, following))
    BY <1>1 DEF Follow
<1>3. FlagMeansFrame' /\ BarIsFace' /\ BarIsFresh'
    BY <1>1, <1>2, MovingKeepsBar DEF Follow
<1>4. following \in NAV_LINKS
    BY <1>1 DEF Follow, IInv, TypeOK
<1>5. pos' \in Position(wide, answer) /\ moved' \in BOOLEAN
    BY <1>1, <1>2, <1>4, AnchorIsPosition DEF MoveTo, IInv, TypeOK
<1>6. TypeOK'
    BY <1>1, <1>5 DEF Follow, IInv, TypeOK, frames, bar, list
<1> QED BY <1>3, <1>6 DEF IInv

LEMMA ToggleAnswerIInv == IInv /\ ToggleAnswer => IInv'
<1>1. SUFFICES ASSUME IInv, ToggleAnswer
               PROVE  IInv'
    OBVIOUS
<1> DEFINE p == IF pos > Last(wide, answer') THEN Last(wide, answer') ELSE pos
<1>2. /\ UNCHANGED <<wide, ticking, frame, surface, active>> /\ bar' = bar
      /\ wide \in BOOLEAN /\ pos \in Position(wide, answer)
      /\ answer' \in Question \cup {None} /\ MoveTo(p)
    BY <1>1 DEF ToggleAnswer, frames, bar, IInv, TypeOK
<1>3. pos \in Int /\ pos >= -Bounce /\ Bounce \in Nat /\ Last(wide, answer') \in Nat
    BY <1>2, LandingAssumption, EdgesRise DEF Position
<1>4. pos' \in Position(wide, answer') /\ moved' \in BOOLEAN
    <2>1. p \in Position(wide, answer')
        BY <1>3 DEF Position
    <2> QED BY <1>1, <1>2, <2>1 DEF MoveTo, IInv, TypeOK
<1>5. TypeOK'
    BY <1>1, <1>2, <1>4 DEF ToggleAnswer, IInv, TypeOK, list
<1>6. FlagMeansFrame' /\ BarIsFace'
    BY <1>1, <1>2 DEF IInv, FlagMeansFrame, BarIsFace
<1>7. BarIsFresh'
    <2>1. CASE moved'
        BY <2>1 DEF BarIsFresh
    <2>2. CASE ~moved'
        <3>1. pos' = pos /\ ~moved
            BY <1>2, <2>2, <1>1 DEF MoveTo, IInv, TypeOK
        <3>2. Seen(pos, wide, answer') = Seen(pos, wide, answer)
            BY <1>1, <1>2, <1>3, AnswerBelowLine DEF ToggleAnswer
        <3> QED BY <1>1, <1>2, <3>1, <3>2 DEF IInv, BarIsFresh, Seen
    <2> QED BY <2>1, <2>2
<1> QED BY <1>5, <1>6, <1>7 DEF IInv

\* The reader's other actions leave the page where it is.
LEMMA QuietIInv ==
    ASSUME IInv,
           \/ OpenMenu \/ CloseMenu \/ FollowInMenu
           \/ Inspect \/ CloseInspector \/ Tamper \/ Notice
    PROVE  IInv'
<1>1. UNCHANGED <<page, moved, frames, bar, list, still>>
    BY DEF OpenMenu, CloseMenu, FollowInMenu, Inspect, CloseInspector, Tamper, Notice
<1>2. FlagMeansFrame' /\ BarIsFace' /\ BarIsFresh'
    BY <1>1, StillPageKeepsBar
<1>3. UNCHANGED <<pos, wide, answer, moved, ticking, frame, surface, active,
                  still, progress, reached>>
    BY <1>1 DEF page, frames, bar, list
<1>4. /\ menu' \in BOOLEAN /\ inspecting' \in BOOLEAN /\ tampered' \in BOOLEAN
      /\ canStick' \in BOOLEAN /\ following' \in NAV_LINKS \cup {None}
    BY DEF OpenMenu, CloseMenu, FollowInMenu, Inspect, CloseInspector, Tamper, Notice,
           IInv, TypeOK
<1>5. TypeOK'
    BY <1>3, <1>4 DEF IInv, TypeOK
<1> QED BY <1>2, <1>5 DEF IInv

LEMMA HearIInv == IInv /\ Hear => IInv'
<1>1. SUFFICES ASSUME IInv, Hear
               PROVE  IInv'
    OBVIOUS
<1>2. /\ UNCHANGED <<pos, wide, answer, surface, active>> /\ bar' = bar
      /\ moved' = FALSE /\ ticking' = TRUE
      /\ frame' = frame \cup {"measure"} \cup IF ticking THEN {} ELSE {"update"}
    BY <1>1 DEF Hear, page, bar
<1>3. "update" \in frame' /\ frame' \subseteq {"update", "measure"}
    BY <1>1, <1>2 DEF IInv, TypeOK, FlagMeansFrame
<1>4. TypeOK'
    BY <1>1, <1>2, <1>3 DEF Hear, IInv, TypeOK, list
<1>5. FlagMeansFrame' /\ BarIsFace' /\ BarIsFresh'
    BY <1>1, <1>2, <1>3 DEF IInv, FlagMeansFrame, BarIsFace, BarIsFresh
<1> QED BY <1>4, <1>5 DEF IInv

LEMMA UpdateIInv == IInv /\ Update => IInv'
<1>1. SUFFICES ASSUME IInv, Update
               PROVE  IInv'
    OBVIOUS
<1>2. /\ UNCHANGED <<pos, wide, answer, moved>>
      /\ ticking' = FALSE /\ frame' = frame \ {"update"}
      /\ surface' = Covered(pos, wide, answer).surface
      /\ active' = Covered(pos, wide, answer).id
    BY <1>1 DEF Update, page
<1>3. wide \in BOOLEAN /\ pos \in Int
    BY <1>1, PositionIsInt DEF IInv, TypeOK
<1>4. surface' \in Surface /\ active' \in Id
    BY <1>2, <1>3, SeenHasType
<1>5. TypeOK'
    BY <1>1, <1>2, <1>4 DEF Update, IInv, TypeOK, list
<1>6. bar' = Seen(pos, wide, answer) /\ bar' = Seen(pos', wide', answer')
    BY <1>2 DEF bar, Seen
<1>7. FlagMeansFrame' /\ BarIsFresh'
    BY <1>2, <1>6 DEF FlagMeansFrame, BarIsFresh
<1>8. BarIsFace'
    <2>1. \E b \in 1..Footer : Seen(pos, wide, answer) = Face(b)
        BY <1>3, CoveredIsSection
    <2> QED BY <1>6, <2>1 DEF BarIsFace
<1> QED BY <1>5, <1>7, <1>8 DEF IInv

LEMMA MeasureIInv == IInv /\ Measure => IInv'
<1>1. SUFFICES ASSUME IInv, Measure
               PROVE  IInv'
    OBVIOUS
<1>2. /\ UNCHANGED <<pos, wide, answer, moved, ticking, surface, active>> /\ bar' = bar
      /\ frame' = frame \ {"measure"}
    BY <1>1 DEF Measure, page, bar
<1>3. wide \in BOOLEAN /\ pos \in Int
    BY <1>1, PositionIsInt DEF IInv, TypeOK
<1>4. progress' \in 0..Span /\ reached' \in 0..(STEPS - 1)
    <2>1. progress' \in 0..Span
        BY <1>1, <1>3, FractionInSpan DEF Measure
    <2>2. StepAt(progress') \in 0..(STEPS - 1)
        BY <2>1, StepIsStep
    <2> QED BY <1>1, <2>1, <2>2 DEF Measure, IInv, TypeOK
<1>5. TypeOK'
    BY <1>1, <1>2, <1>4 DEF Measure, IInv, TypeOK
<1>6. "update" \in frame' <=> "update" \in frame
    BY <1>2
<1>7. FlagMeansFrame' /\ BarIsFace' /\ BarIsFresh'
    BY <1>1, <1>2, <1>6 DEF IInv, FlagMeansFrame, BarIsFace, BarIsFresh, Seen
<1> QED BY <1>5, <1>7 DEF IInv

LEMMA NextIInv == IInv /\ [Next]_vars => IInv'
<1>1. SUFFICES ASSUME IInv, [Next]_vars
               PROVE  IInv'
    OBVIOUS
<1>2. CASE UNCHANGED vars
    <2>1. UNCHANGED <<page, moved, frames, bar>>
        BY <1>2 DEF vars
    <2>2. FlagMeansFrame' /\ BarIsFace' /\ BarIsFresh'
        BY <1>1, <2>1, StillPageKeepsBar
    <2>3. TypeOK'
        BY <1>1, <1>2 DEF IInv, TypeOK, vars, page, frames, bar, list
    <2> QED BY <2>2, <2>3 DEF IInv
<1>3. CASE Next
    BY <1>1, <1>3, ScrollIInv, ResizeIInv, FollowLinkIInv, FollowIInv, ToggleAnswerIInv,
       QuietIInv, HearIInv, UpdateIInv, MeasureIInv DEF Next
<1> QED BY <1>1, <1>2, <1>3

-----------------------------------------------------------------------------
(* The theorems.                                                           *)

LEMMA Always == Spec => []IInv
<1> QED BY InitIInv, NextIInv, PTL DEF Spec

\* Every variable keeps its type; in particular the step that HowItWorks indexes
\* STEPS with is one of its steps, also at the end of the list.
THEOREM TypeCorrect == Spec => []TypeOK
<1>1. IInv => TypeOK
    BY DEF IInv
<1> QED BY <1>1, Always, PTL

\* A bar with nothing to wait for shows the section under its line, on a page of
\* any layout.
THEOREM BarIsRight == Spec => []BarTellsTheSection
<1>1. IInv => BarTellsTheSection
    <2>1. SUFFICES ASSUME IInv, ~moved, "update" \notin frame
                   PROVE  /\ \A b \in 1..Footer : Under(b) => bar = Face(b)
                          /\ (\A b \in 1..Footer : ~Under(b)) => bar = <<"dark", "">>
        BY DEF BarTellsTheSection
    <2>2. bar = Seen(pos, wide, answer)
        BY <2>1 DEF IInv, BarIsFresh
    <2>3. wide \in BOOLEAN /\ pos \in Int
        BY <2>1, PositionIsInt DEF IInv, TypeOK
    <2> QED BY <2>2, <2>3, CoveredIsSection DEF Under
<1> QED BY <1>1, Always, PTL

\* The link that the bar marks is of a section with the surface it shows, also
\* while the bar lags behind.
THEOREM BarIsWhole == Spec => []BarIsOneSection
<1>1. IInv => BarIsOneSection
    <2>1. SUFFICES ASSUME IInv, NEW l \in Marked
                   PROVE  \E b \in 1..Footer : SECTIONS[b] = [id |-> l, surface |-> surface]
        BY DEF BarIsOneSection
    <2>2. PICK b \in 1..Footer : bar = Face(b)
        BY <2>1 DEF IInv, BarIsFace
    <2>3. SECTIONS[b].id = l /\ SECTIONS[b].surface = surface
        BY <2>1, <2>2 DEF bar, Face, Marked
    <2>4. SECTIONS[b] = [id |-> SECTIONS[b].id, surface |-> SECTIONS[b].surface]
        BY SectionList
    <2> QED BY <2>3, <2>4
<1> QED BY <1>1, Always, PTL

\* The flag of onScroll is never left up without its frame.
THEOREM FlagIsHonest == Spec => []FlagMeansFrame
<1>1. IInv => FlagMeansFrame
    BY DEF IInv
<1> QED BY <1>1, Always, PTL

=============================================================================
