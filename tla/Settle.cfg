SPECIFICATION FairSpec
CONSTANTS
    LearningDelay = 1
    ReviewDelay = 1
    Fuzz = 0
    StageTransitionDelay = 1
    None = None
    WordIds = {w1}
    Texts = {a, c}
    Examples = {x}
    Bare = a
    Annotated = c
    PlainText <- Plain
    PracticePages = {p1}
    MemoryPages = {m1}
    LibraryPages = {l1}
    Jobs <- AllJobs
    OneTab = TRUE
    MaxClock = 0
    MaxDisturbances = 1
    MaxAnswers = 1
PROPERTIES
    PagesSettle
