------------------------------ MODULE Scheduler ------------------------------
(***************************************************************************)
(* The spaced-repetition scheduler: packages/services/src/                 *)
(* word-memory-scheduler.ts over the external library ts-fsrs.             *)
(*                                                                         *)
(* A memory card is what decides when a word comes back: its FSRS phase,   *)
(* the index of its (re)learning step and the time it is due.  Stability,  *)
(* difficulty and the interval arithmetic are the library's; what remains  *)
(* of them here is that a reviewed card comes back ReviewDelay ticks later *)
(* and that the live scheduler (enable_fuzz) may move that date by up to   *)
(* Fuzz ticks while the deterministic one used to replay a history may     *)
(* not.                                                                    *)
(***************************************************************************)
EXTENDS Naturals

CONSTANTS
    LearningDelay,  \* ticks between two (re)learning steps
    ReviewDelay,    \* ticks until a card in review is due, before fuzz
    Fuzz            \* how far the live scheduler moves that date

ASSUME DelayAssumption ==
    /\ LearningDelay \in Nat \ {0}
    /\ ReviewDelay \in Nat \ {0}
    /\ Fuzz \in 0 .. (ReviewDelay - 1)

Phases  == {"new", "learning", "review", "relearning"}
Ratings == {"again", "hard", "good", "easy"}
Kinds   == {"scheduled", "extra"}

Card == [phase: Phases, step: Nat, due: Nat]

\* createEmptyCard: a card nobody has answered yet, due at once.
InitialCard(now) == [phase |-> "new", step |-> 0, due |-> now]

(***************************************************************************)
(* ts-fsrs's next(card, now, rating), with the two learning steps and the  *)
(* one relearning step of SchedulerParameters.                             *)
(***************************************************************************)
LearningSteps == 2

Graduates(card, rating) ==
    \/ rating = "easy"
    \/ card.phase = "review" /\ rating # "again"
    \/ card.phase = "relearning" /\ rating = "good"
    \/ card.phase = "learning" /\ rating = "good" /\ card.step + 1 >= LearningSteps

ShortTermPhase(card) ==
    IF card.phase \in {"review", "relearning"} THEN "relearning" ELSE "learning"

ShortTermStep(card, rating) ==
    CASE rating = "good" -> card.step + 1
      [] rating = "hard" -> card.step
      [] OTHER -> 0

Next_(card, now, rating, reviewDelay) ==
    IF Graduates(card, rating)
    THEN [phase |-> "review", step |-> 0, due |-> now + reviewDelay]
    ELSE [phase |-> ShortTermPhase(card), step |-> ShortTermStep(card, rating),
          due |-> now + LearningDelay]

(***************************************************************************)
(* _applyPracticeResultWithScheduler: an extra review that did not fail    *)
(* leaves the schedule alone.                                              *)
(***************************************************************************)
KeepsSchedule(kind, rating) == kind = "extra" /\ rating # "again"

\* applyPracticeResult: every card the fuzzing scheduler may return.
PracticeResults(card, kind, now, rating) ==
    IF KeepsSchedule(kind, rating)
    THEN {card}
    ELSE {Next_(card, now, rating, d) : d \in (ReviewDelay - Fuzz) .. (ReviewDelay + Fuzz)}

\* applyDeterministicPracticeResult
DeterministicPracticeResult(card, kind, now, rating) ==
    IF KeepsSchedule(kind, rating) THEN card ELSE Next_(card, now, rating, ReviewDelay)
==============================================================================
