CONSTANTS
    r1 = r1
    r2 = r2
    r3 = r3
    s1 = s1
    s2 = s2
    s3 = s3
    e1 = e1
    e2 = e2
    h1 = h1
    h2 = h2
    p1 = p1
    p2 = p2
    None = None
    Request = {r1, r2}
    Sub = {s1, s2}
    Email = {e1}
    Handle = {h1}
    Password = {p1}
    Settled = {s1}
    EmailOf <- MCEmailOf
    HandleOf <- MCHandleOf
    PasswordOf <- MCPasswordOf
    Faults = {}
SYMMETRY Symmetric
SPECIFICATION Spec
CHECK_DEADLOCK FALSE
INVARIANTS DeletedLeavesNothing
