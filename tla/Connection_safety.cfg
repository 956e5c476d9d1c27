SPECIFICATION Spec
CONSTANTS
    c1 = c1
    c2 = c2
    c3 = c3
    t1 = t1
    NoConn = NoConn
    DelayOutlastsErrors = FALSE
    Conn = {c1, c2, c3}
    Tickers = {"heartbeat"}
    Tasks = {t1}
SYMMETRY ConnSymmetry
INVARIANTS
    TypeOK
    NoLostWakeup
    NoLeakedConnection
    StopLeavesNothing
