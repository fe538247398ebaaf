SPECIFICATION Spec
CONSTANTS
    o1 = o1
    o2 = o2
    o3 = o3
    single = single
    batch = batch
    NoSession = NoSession
    Sessions = {s1}
    Requests = {}
    Batches = {}
    Stoppers = {t1}
    Reconcilers = {c1}
    Orders = {}
    Anonymous = {}
    Unidentified = {}
    Elsewhere = {}
    Policies = {"SESSION_ORDERS"}
    Legs <- MCLegs
INVARIANTS
    StopIsUnconditional
CHECK_DEADLOCK FALSE
