CONSTANTS
    Requests = {r1, r2}
    k1 = k1
    NoOne = NoOne
    Retries = {r2}
    Stranger = NoOne
    Keys = {k1}
    Contexts = {"client", "stranger"}
    KeyOf <- MCKeyOf
    ContextOf <- OneStranger
    Lease = 1
    TxTimeout = 0
    MaxTime = 1
SPECIFICATION Spec
PROPERTY LeaseHolds
SYMMETRY Symmetry
CHECK_DEADLOCK FALSE
