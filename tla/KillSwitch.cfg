SPECIFICATION Spec
CONSTANTS
    o1 = o1
    o2 = o2
    o3 = o3
    single = single
    batch = batch
    NoSession = NoSession
    Sessions = {s1}
    Requests = {single, batch}
    Batches = {batch}
    Stoppers = {}
    Reconcilers = {c1}
    Orders = {o1, o2, o3}
    Anonymous = {o1, o3}
    Unidentified = {o3}
    Elsewhere = {}
    Policies = {"SESSION_ORDERS", "ALL_ORDERS", "NONE"}
    Legs <- MCLegs
INVARIANTS
    KillSwitchUnwinds
    OwnOrdersOnly
CHECK_DEADLOCK FALSE
