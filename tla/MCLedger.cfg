SPECIFICATION MCLedgerSpec
CONSTANTS
    LearningDelay = 1
    ReviewDelay = 1
    Fuzz = 0
    StageTransitionDelay = 1
    None = None
    WordIds = {w1}
    Texts = {a}
    Examples = {x, y, z}
    EventIds = {0, 1, 2, 3, 4, 5}
    Times = {0}
INVARIANTS
    CountsMatchLog
    StageMatchesLog
    LogIsConnected
    MovesAreEarned
    ExamplesRotate
