SPECIFICATION Spec
CONSTANTS
    i1 = i1
    i2 = i2
    f1 = f1
    m1 = m1
    Table = {"nat", "filter", "security"}
    Supported = {"nat", "filter"}
    Default = "filter"
    Unnamed = ""
    NoTable = "none"
    Id = {i1}
    Foreign = {f1}
    Marked = {}
    MaxUpdates = 2
    MaxEdits = 2
    MaxRestarts = 1
INVARIANT
    AllOrNothing
