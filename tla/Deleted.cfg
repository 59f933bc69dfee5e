SPECIFICATION Spec
CONSTANTS
    LearningDelay = 1
    ReviewDelay = 1
    Fuzz = 0
    StageTransitionDelay = 1
    None = None
    WordIds = {w1}
    Texts = {a}
    Examples = {}
    Bare = a
    Annotated = c
    PlainText <- Plain
    PracticePages = {}
    MemoryPages = {}
    LibraryPages = {l1, l2}
    Jobs <- AllJobs
    OneTab = FALSE
    MaxClock = 0
    MaxDisturbances = 0
    MaxAnswers = 1
INVARIANTS
    DeletedForGood
