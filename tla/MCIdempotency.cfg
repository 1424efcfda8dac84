CONSTANTS
    Requests = {r1, r2, r3, r4}
    k1 = k1
    NoOne = NoOne
    Retries = {r2, r3}
    Stranger = r4
    Keys = {k1}
    Contexts = {"client", "stranger"}
    KeyOf <- MCKeyOf
    ContextOf <- OneStranger
    Lease = 1
    TxTimeout = 0
    MaxTime = 1
SPECIFICATION MCSpec
INVARIANTS
    TypeOK
    EffectOnceAndRecorded
    RefusalIsFinal
    SuccessIsReal
PROPERTIES
    KeepsPromise
    EveryRequestAnswered
CHECK_DEADLOCK FALSE
