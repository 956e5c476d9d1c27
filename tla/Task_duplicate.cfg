SPECIFICATION Spec
CONSTANTS
    k1 = k1
    k2 = k2
    w1 = w1
    w2 = w2
    w3 = w3
    NoTask = NoTask
    Task = {k1}
    Worker = {w1, w2}
    MaxDeliveries = 3
    MaxRestarts = 1
    MaxCancels = 1
INVARIANT
    NeverTwiceAtOnce
