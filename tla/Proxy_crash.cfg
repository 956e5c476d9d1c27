SPECIFICATION FairSpec
CONSTANTS
    e1 = e1
    e2 = e2
    p1 = p1
    p2 = p2
    p3 = p3
    p4 = p4
    a = a
    b = b
    Egress = {e1}
    Cfg = {a}
    NoCfg = NoCfg
    Pid = {p1, p2}
    NoPid = NoPid
    MaxOps = 1
    MaxRestarts = 0
PROPERTIES
    CrashIsNoticed
