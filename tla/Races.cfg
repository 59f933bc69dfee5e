SPECIFICATION Spec
CONSTANTS
    LearningDelay = 1
    ReviewDelay = 2
    Fuzz = 1
    StageTransitionDelay = 1
    None = None
    WordIds = {w1}
    Texts = {a}
    Examples = {}
    Bare = a
    Annotated = c
    PlainText <- Plain
    PracticePages = {p1}
    MemoryPages = {m1}
    LibraryPages = {l1}
    Jobs <- SomeJobs
    OneTab = FALSE
    MaxClock = 0
    MaxDisturbances = 1
    MaxAnswers = 1
INVARIANTS
    NoOrphans
    OnlyLateAnswersWhenArchived
    NoInventedAttempts
PROPERTIES
    HistoryIsKept
