SPECIFICATION Spec

CONSTANTS
    Thread = {t1, t2, t3, t4, t5}
    STEPS = 2
    MotorMoves <- Quarter
    Commands = {"start", "abort", "motor"}
    MaxOperators = 1
    Reserve = 3
    MaxOrphans = 2
    Faults = {}

SYMMETRY Symmetry


    
    

PROPERTIES
    ReportedAbortStops
