---------------------------- MODULE PracticeStage ----------------------------
(***************************************************************************)
(* The acquisition ladder: packages/services/src/word-practice-stage.ts.   *)
(* A word is first recognised, then recalled from its meaning, then        *)
(* recalled in context; context recall that keeps failing sends it back to *)
(* meaning recall.                                                         *)
(***************************************************************************)
EXTENDS Scheduler

CONSTANTS
    StageTransitionDelay,  \* ticks before a word may be practised in its new stage
    None                   \* absence: an undefined field, a missing row

ASSUME StageDelayAssumption == StageTransitionDelay \in Nat \ {0}

Stages == {"recognition", "meaningRecall", "contextRecall"}

ASSUME NoneAssumption == None \notin Stages

RequiredMasteryReviews  == 2
RequiredContextFailures == 3

\* mutant: "hard" and "again" take one review back instead of all
MasteryAfterDecay(ladder, kind, rating) ==
    IF ladder.stage = "contextRecall" THEN 0
    ELSE CASE kind = "extra" -> ladder.masteryStreak
           [] kind # "extra" /\ rating = "easy" -> RequiredMasteryReviews
           [] kind # "extra" /\ rating = "good" -> ladder.masteryStreak + 1
           [] OTHER -> ladder.masteryStreak - 1

MasteryAfter(ladder, kind, rating) ==
    CASE ladder.stage = "contextRecall" -> 0
      [] ladder.stage # "contextRecall" /\ kind = "extra" -> ladder.masteryStreak
      [] ladder.stage # "contextRecall" /\ kind # "extra" ->
           CASE rating = "easy" -> RequiredMasteryReviews
             [] rating = "good" -> ladder.masteryStreak + 1
             [] OTHER -> 0

\* mutant: extra practice counts towards demotion
FailuresAfterAnyReview(ladder, kind, rating) ==
    IF ladder.stage # "contextRecall" THEN 0
    ELSE CASE rating = "again" -> ladder.failureStreak + 1
           [] rating = "hard" -> ladder.failureStreak
           [] OTHER -> 0

FailuresAfter(ladder, kind, rating) ==
    CASE ladder.stage # "contextRecall" -> 0
      [] ladder.stage = "contextRecall" /\ kind = "extra" -> ladder.failureStreak
      [] ladder.stage = "contextRecall" /\ kind # "extra" ->
           CASE rating = "again" -> ladder.failureStreak + 1
             [] rating = "hard" -> ladder.failureStreak
             [] OTHER -> 0

\* mutant: one review too many is asked for
MasteredLate(ladder, kind, rating) ==
    /\ ladder.stage # "contextRecall"
    /\ MasteryAfter(ladder, kind, rating) > RequiredMasteryReviews

Mastered(ladder, kind, rating) ==
    /\ ladder.stage # "contextRecall"
    /\ MasteryAfter(ladder, kind, rating) >= RequiredMasteryReviews

LostInContext(ladder, kind, rating) ==
    /\ ladder.stage = "contextRecall"
    /\ FailuresAfter(ladder, kind, rating) >= RequiredContextFailures

\* mutant: a mastered word skips meaning recall
MovedToContext(ladder, kind, rating) ==
    CASE Mastered(ladder, kind, rating) -> "contextRecall"
      [] LostInContext(ladder, kind, rating) -> "meaningRecall"
      [] OTHER -> None

\* promotedTo ?? demotedTo, None when the word stays where it is.
MovedTo(ladder, kind, rating) ==
    CASE Mastered(ladder, kind, rating) /\ ladder.stage = "recognition" -> "meaningRecall"
      [] Mastered(ladder, kind, rating) /\ ladder.stage = "meaningRecall" -> "contextRecall"
      [] LostInContext(ladder, kind, rating) -> "meaningRecall"
      [] OTHER -> None

(***************************************************************************)
(* transitionAfterRating.  `ladder' is any record with the four ladder     *)
(* fields, `card' the card the scheduler returned for this rating.         *)
(***************************************************************************)
TransitionAfterRating(ladder, card, kind, now, rating) ==
    IF MovedTo(ladder, kind, rating) = None
    THEN [stage |-> ladder.stage,
          stageAttempts |-> ladder.stageAttempts + 1,
          failureStreak |-> FailuresAfter(ladder, kind, rating),
          masteryStreak |-> MasteryAfter(ladder, kind, rating),
          card |-> card]
    ELSE [stage |-> MovedTo(ladder, kind, rating),
          stageAttempts |-> 0,
          failureStreak |-> 0,
          masteryStreak |-> 0,
          card |-> InitialCard(now + StageTransitionDelay)]
==============================================================================
