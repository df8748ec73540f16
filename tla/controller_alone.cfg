SPECIFICATION ControllerSpec

CONSTANTS
    STEPS = 60
    MotorMoves <- SomeMoves

INVARIANTS
    
    ControllerInv

PROPERTIES
    ImplementsScanCycle
    
