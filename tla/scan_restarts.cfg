SPECIFICATION RestartSpec

CONSTANTS
    Thread = {t1, t2, t3}
    STEPS = 1
    MotorMoves <- NoMoves
    Commands = {"start", "abort"}
    MaxOperators = 1
    Reserve = 1
    MaxOrphans = 1
    Faults = {"refused"}
    MaxRestarts = 1

PROPERTIES
    LeftoverScanCanBeEnded
    TableStops
