SPECIFICATION Spec
CONSTANTS
    LearningDelay = 1
    ReviewDelay = 2
    Fuzz = 1
    StageTransitionDelay = 1
    None = None
    WordIds = {w1, w2}
    Texts = {a, b, c}
    Examples = {x}
    Bare = a
    Annotated = c
    PlainText <- Plain
    PracticePages = {p1}
    MemoryPages = {m1}
    LibraryPages = {l1}
    Jobs <- AllJobs
    OneTab = TRUE
    MaxClock = 1
    MaxDisturbances = 0
    MaxAnswers = 2
SYMMETRY WordSymmetry
INVARIANTS
    TypeOK
    SpellingsDiffer
    DeletedForGood
    EveryWordHasMemory
PROPERTIES
    LedgerSpec
