SPECIFICATION Spec
CONSTANTS
    Top <- MCTop
    View <- MCView
    Card <- MCCard
    Line = 0
    Margin = 1
    Bounce = 1
    Start <- MCStart
    Span = 2
    Question = {"q1"}
    Answer = 1
    Followed = {"top", "a-real-review", "main", "#"}
INVARIANT DiagramFollowsReader

CHECK_DEADLOCK TRUE
