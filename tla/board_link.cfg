SPECIFICATION FairSpec

CONSTANTS
    Token <- Tokens
    NoToken = 0
    INTERVAL = 2
    LOOP = 3
    LEASE = 6
    MaxFaults = 2

INVARIANTS
    TypeOK
    

PROPERTIES
    QuietBoardsStayAlive
    BoardsComeBack
