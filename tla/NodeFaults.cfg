CONSTANTS
    n1 = n1
    n2 = n2
    n3 = n3
    c1 = c1
    c2 = c2
    e1 = e1
    e2 = e2
    e3 = e3
    bad = bad
    a = a
    b = b
    NoId = NoId
    NoEnvelope = NoEnvelope
    Node = {n1, n2}
    Caller = {c1}
    Envelope = {e1}
    Id = {a}
    ClaimedId <- MCClaimedId
    Flaggable = {}
    Faults = {"crash", "disk", "link"}
    MaxLives = 2
    MaxFlags = 2
    SubBuffer = 1
SYMMETRY Symmetric
SPECIFICATION Spec
CHECK_DEADLOCK FALSE
INVARIANTS AnswersHold NoQuietEntry GossipedOnce
PROPERTIES WriteOnce
