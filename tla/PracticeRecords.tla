--------------------------- MODULE PracticeRecords ---------------------------
(***************************************************************************)
(* The rows the application stores (packages/data/src/domain.ts) and what  *)
(* an answer makes of a memory row (submitPracticeAnswer of                *)
(* packages/machines/src/practice-overview-machine.ts).                    *)
(***************************************************************************)
EXTENDS PracticeStage

CONSTANTS
    WordIds,   \* the UUIDs of words
    Texts,     \* spellings a word may have
    Examples   \* example sentences, told apart by their normalised template

ASSUME WordIdsAssumption == None \notin WordIds

(***************************************************************************)
(* archivedAt is kept as the fact that it is set; translation, description *)
(* and updatedAt play no part in what is checked.                          *)
(***************************************************************************)
WordRow == [text: Texts, archived: BOOLEAN, examples: SUBSET Examples, createdAt: Nat]

StateRow == [stage: Stages, stageAttempts: Nat, failureStreak: Nat, masteryStreak: Nat,
             card: Card, attempts: Nat, correct: Nat, incorrect: Nat]

PracticeEvent == [id: Nat, word: WordIds, reviewedAt: Nat, rating: Ratings, kind: Kinds,
                  stage: Stages, movedTo: Stages \cup {None}, nextDueAt: Nat]

\* Absence is no row.
ASSUME AbsenceAssumption == None \notin WordRow \cup StateRow

IsCorrect(rating) == rating # "again"

\* _makeWordAndState: a new word starts at the bottom of the ladder.
FreshRow(now) ==
    [stage |-> "recognition", stageAttempts |-> 0, failureStreak |-> 0, masteryStreak |-> 0,
     card |-> InitialCard(now), attempts |-> 0, correct |-> 0, incorrect |-> 0]

\* mutant: "hard" is no success
TallyWithoutHard(row, rating) ==
    [attempts |-> row.attempts + 1,
     correct |-> row.correct + (IF rating \in {"good", "easy"} THEN 1 ELSE 0),
     incorrect |-> row.incorrect + (IF rating \in {"good", "easy"} THEN 0 ELSE 1)]

\* attemptCount, correctCount and incorrectCount of nextState
Tally(row, rating) ==
    [attempts |-> row.attempts + 1,
     correct |-> row.correct + (IF IsCorrect(rating) THEN 1 ELSE 0),
     incorrect |-> row.incorrect + (IF IsCorrect(rating) THEN 0 ELSE 1)]

\* nextState of submitPracticeAnswer, card being what the scheduler returned.
AnsweredRow(row, card, kind, now, rating) ==
    LET moved == TransitionAfterRating(row, card, kind, now, rating)
        tally == Tally(row, rating)
    IN  [stage |-> moved.stage, stageAttempts |-> moved.stageAttempts,
         failureStreak |-> moved.failureStreak, masteryStreak |-> moved.masteryStreak,
         card |-> moved.card,
         attempts |-> tally.attempts, correct |-> tally.correct, incorrect |-> tally.incorrect]

\* mutant: a demotion is not written down
AnswerEventWithoutDemotion(id, w, row, card, kind, now, rating) ==
    [id |-> id, word |-> w, reviewedAt |-> now, rating |-> rating, kind |-> kind,
     stage |-> row.stage,
     movedTo |-> IF LostInContext(row, kind, rating) THEN None ELSE MovedTo(row, kind, rating),
     nextDueAt |-> AnsweredRow(row, card, kind, now, rating).card.due]

\* mutant: the event tells the stage after the answer
AnswerEventInNewStage(id, w, row, card, kind, now, rating) ==
    [id |-> id, word |-> w, reviewedAt |-> now, rating |-> rating, kind |-> kind,
     stage |-> AnsweredRow(row, card, kind, now, rating).stage,
     movedTo |-> MovedTo(row, kind, rating),
     nextDueAt |-> AnsweredRow(row, card, kind, now, rating).card.due]

\* the practice event submitPracticeAnswer writes beside that row.
AnswerEvent(id, w, row, card, kind, now, rating) ==
    [id |-> id, word |-> w, reviewedAt |-> now, rating |-> rating, kind |-> kind,
     stage |-> row.stage, movedTo |-> MovedTo(row, kind, rating),
     nextDueAt |-> AnsweredRow(row, card, kind, now, rating).card.due]

-------------------------------------------------------------------------------
\* A row that some sequence of answers can have produced.
WellFormed(row) ==
    /\ row.attempts = row.correct + row.incorrect
    /\ row.stageAttempts <= row.attempts
    /\ row.masteryStreak < RequiredMasteryReviews
    /\ row.failureStreak < RequiredContextFailures
    /\ row.masteryStreak + row.failureStreak <= row.stageAttempts
    /\ row.stage = "contextRecall" => row.masteryStreak = 0
    /\ row.stage # "contextRecall" => row.failureStreak = 0
==============================================================================
