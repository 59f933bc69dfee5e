SPECIFICATION Spec
CONSTANTS
    LearningDelay = 1
    ReviewDelay = 2
    Fuzz = 1
    StageTransitionDelay = 1
    None = None
    WordIds = {w1}
    Texts = {a}
    Examples = {}
    Bare = a
    Annotated = c
    PlainText <- Plain
    PracticePages = {p1}
    MemoryPages = {m1}
    LibraryPages = {}
    Jobs <- NoJob
    OneTab = TRUE
    MaxClock = 5
    MaxDisturbances = 0
    MaxAnswers = 5
PROPERTIES
    LedgerSpec
    RecalculationTakes
    AppliedAsPreviewed
