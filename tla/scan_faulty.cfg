SPECIFICATION Spec

CONSTANTS
    Thread = {t1, t2, t3, t4}
    STEPS = 2
    MotorMoves <- NoMoves
    Commands = {"start", "single"}
    MaxOperators = 1
    Reserve = 2
    MaxOrphans = 1
    Faults = {"refused", "camera"}

SYMMETRY Symmetry

INVARIANTS
    TypeOK
    ScanningIsShown
