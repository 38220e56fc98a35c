CONSTANTS
    r1 = r1
    r2 = r2
    r3 = r3
    s1 = s1
    a1 = a1
    a2 = a2
    None = None
    Request = {r1, r2, r3}
    Account = {a1, a2}
    Settled = {s1}
    AccountOf <- MCAccountOf
    MaxAge = 2
SYMMETRY Symmetric
SPECIFICATION Spec
CHECK_DEADLOCK FALSE
INVARIANTS TypeOK RenewableHasAccess RenewalKeepsAccount JarOfOneSession SignedOutStaysOut
PROPERTY DropsOnlyEnded
