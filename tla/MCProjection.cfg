SPECIFICATION SpecProjection
CONSTANTS
    MAXTAILLE = 5
    MAXTOURS = 6
INVARIANTS OrdreInverse
CHECK_DEADLOCK FALSE
