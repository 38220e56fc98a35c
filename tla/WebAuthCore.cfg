SPECIFICATION Spec
CONSTANTS
    Text <- MCText
    Blank = ""
    DOMAINS <- MCDomains
    StartsWith <- MCStartsWith
    MAX_SUGGESTIONS = 2
    Typed <- MCTyped
    NoSpace <- MCText
    Dotted <- MCDotted
    Handle = {"", "ana"}
    GoodHandle = {"ana"}
    Password = {"", "seven", "eight"}
    Empty = ""
    Length <- MCLength
    HasNonLetter = {"seven"}
    MIN_PASSWORD = 8
    Start = {"/", "/app/verify", "/app/reset-password"}
    MaxHistory = 3
INVARIANTS TypeOK HighlightIsOffered ConfirmationFollowsForm SentToAnAddress DoneWithNewPassword EnterServesOne
CHECK_DEADLOCK TRUE
