SPECIFICATION Spec
CONSTANTS
    LearningDelay = 1
    ReviewDelay = 2
    Fuzz = 0
    StageTransitionDelay = 1
    None = None
    WordIds = {w1}
    Texts = {a}
    Examples = {}
    Bare = a
    Annotated = c
    PlainText <- Plain
    PracticePages = {p1}
    MemoryPages = {m1}
    LibraryPages = {l1}
    Jobs <- SomeJobs
    OneTab = TRUE
    MaxClock = 4
    MaxDisturbances = 0
    MaxAnswers = 5
INVARIANTS
    ScheduleMatchesHistory
    LogIsConnected
