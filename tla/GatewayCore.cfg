CONSTANTS
    n1 = n1
    n2 = n2
    r1 = r1
    r2 = r2
    e1 = e1
    e2 = e2
    over = over
    text = text
    a = a
    NoId = NoId
    NoEnvelope = NoEnvelope
    Node = {n1, n2}
    Id = {a}
    Request = {r1, r2}
    Envelope = {e1, e2, over, text}
    ClaimedId <- MCClaimedId
    SizeOf <- MCSizeOf
    Json <- MCJson
    Stubs <- MCStubs
SPECIFICATION FairSpec
CHECK_DEADLOCK FALSE
INVARIANTS TypeOK SuccessIsStored CallsFit AcceptedByDifferentNodes
PROPERTIES EveryPostAnswered ClientsSeeTheLog
