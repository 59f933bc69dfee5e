SPECIFICATION Spec
CONSTANTS
    LearningDelay = 1
    ReviewDelay = 2
    Fuzz = 0
    StageTransitionDelay = 1
    None = None
    WordIds = {w1, w2, w3}
    Texts = {a, b}
    Examples = {}
    PlainText <- Plain
    MaxClock = 1
    MaxDisturbances = 0
    MaxRequests = 2
    LegacyTimes = {0, 1}
    MaxSubmissions = 3
SYMMETRY Symmetry
CHECK_DEADLOCK FALSE
CONSTRAINT Used
INVARIANTS
    TypeOK
    UpgradedAsAWhole
PROPERTIES
    ActsAsServer
