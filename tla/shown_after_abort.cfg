SPECIFICATION Spec

CONSTANTS
    Thread = {t1, t2, t3, t4, t5}
    STEPS = 2
    MotorMoves <- NoMoves
    Commands = {"start", "abort"}
    MaxOperators = 1
    Reserve = 3
    MaxOrphans = 2
    Faults = {}

SYMMETRY Symmetry

INVARIANTS
    ScanningIsShown
