SPECIFICATION FairSpec
CONSTANTS
    o1 = o1
    o2 = o2
    o3 = o3
    single = single
    batch = batch
    NoSession = NoSession
    Sessions = {s1}
    Requests = {single}
    Batches = {}
    Stoppers = {t1}
    Reconcilers = {c1}
    Orders = {o1}
    Anonymous = {}
    Unidentified = {}
    Elsewhere = {o1}
    Policies = {"SESSION_ORDERS"}
    Legs <- MCLegs
INVARIANTS
    StopOkMeansCancelled
    KillSwitchInv
PROPERTIES
    ImplementsLifecycle
    CallsReturn
    TrippedOrdersSettle
CHECK_DEADLOCK FALSE
