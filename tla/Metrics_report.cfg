SPECIFICATION Spec
CONSTANTS
    Modulus = 8
    MaxMoved = 4
    MaxReports = 3
    MaxRestarts = 1
CHECK_DEADLOCK FALSE
INVARIANTS
    TypeOK
    BooksBalance
PROPERTIES
    SpeedIsOfFlow
