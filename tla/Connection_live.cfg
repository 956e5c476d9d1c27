SPECIFICATION FairSpec
CONSTANTS
    c1 = c1
    c2 = c2
    c3 = c3
    t1 = t1
    NoConn = NoConn
    DelayOutlastsErrors = TRUE
    Conn = {c1, c2, c3}
    Tickers = {"heartbeat"}
    Tasks = {}
PROPERTIES
    ErrorsHitTheirOwn
    ReconnectsForGood
    StopReturns
