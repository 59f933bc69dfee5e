SPECIFICATION Spec
CONSTANTS
    LearningDelay = 1
    ReviewDelay = 1
    Fuzz = 0
    StageTransitionDelay = 1
    None = None
    WordIds = {w1}
    Texts = {a}
    Examples = {}
    Bare = a
    Annotated = c
    PlainText <- Plain
    PracticePages = {p1}
    MemoryPages = {}
    LibraryPages = {}
    Jobs <- NoJob
    OneTab = FALSE
    MaxClock = 0
    MaxDisturbances = 1
    MaxAnswers = 1
PROPERTIES
    SavedNoticeShown
