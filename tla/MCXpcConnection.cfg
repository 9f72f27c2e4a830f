CONSTANTS
    p1 = p1  p2 = p2  p3 = p3
    t1 = t1  t2 = t2  t3 = t3
    Threads = {t1, t2, t3}
    ProcOf <- TwoAndOne
    Names = {n1}
    Conns = {c1, c2, c3}
    None = None
SPECIFICATION FairSpec
INVARIANTS ListenerOwnsName DeliveredToOwner
PROPERTIES ImplementsRegistry CallsEnd
CHECK_DEADLOCK FALSE
