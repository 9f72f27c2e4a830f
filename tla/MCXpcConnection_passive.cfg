CONSTANTS
    p1 = p1  p2 = p2  p3 = p3
    t1 = t1  t2 = t2  t3 = t3
    Threads = {t1, t2, t3}
    ProcOf <- OneEach
    Names = {n1}
    Conns = {c1}
    None = None
SPECIFICATION Spec
INVARIANT PassiveIsListener
CHECK_DEADLOCK FALSE
