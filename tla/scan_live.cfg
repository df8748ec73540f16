SPECIFICATION FairSpec

CONSTANTS
    Thread = {t1, t2, t3, t4}
    STEPS = 2
    MotorMoves <- NoMoves
    Commands = {"start", "abort"}
    MaxOperators = 1
    Reserve = 3
    MaxOrphans = 1
    Faults = {}

PROPERTIES
    
    EveryScanIsOver
