SPECIFICATION Spec

CONSTANTS
    Moves <- ScanSteps
    Restarts = FALSE

INVARIANTS
    AngleIsTracked
