SPECIFICATION Spec

CONSTANTS
    Thread = {t1, t2, t3, t4}
    STEPS = 2
    MotorMoves <- NoMoves
    Commands = {"start", "abort"}
    MaxOperators = 1
    Reserve = 2
    MaxOrphans = 2
    Faults = {"dead"}

SYMMETRY Symmetry

PROPERTIES
    ReportedAbortStops
