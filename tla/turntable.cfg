SPECIFICATION Spec

CONSTANTS
    Moves <- OddAngles
    Restarts = TRUE

INVARIANTS
    TypeOK
    PlayDoesNotAddUp
    MovesStopJustShort
