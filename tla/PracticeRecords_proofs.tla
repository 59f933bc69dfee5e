------------------------ MODULE PracticeRecords_proofs ------------------------
(***************************************************************************)
(* Facts about the pure parts: what the scheduler and the ladder return,   *)
(* what an answer makes of a memory row, what replaying a history gives,   *)
(* and the induction principle the facts about recursive functions rest    *)
(* on.                                                                     *)
(***************************************************************************)
EXTENDS Recalculation, TLAPS, NaturalsInduction, WellFoundedInduction, FiniteSetTheorems

(***************************************************************************)
(* Induction and iteration.                                                *)
(***************************************************************************)
\* A set with 0 that is closed under successor has every natural number: the number
\* it lacked first would have a predecessor.
LEMMA SetInduction ==
    ASSUME NEW S, 0 \in S, \A n \in Nat : n \in S => n + 1 \in S
    PROVE  Nat \subseteq S
<1> SUFFICES ASSUME Nat \ S # {} PROVE FALSE
  OBVIOUS
<1> DEFINE Less == {ss \in Nat \X Nat : ss[1] < ss[2]}
<1>1. IsWellFoundedOn(Less, Nat)
  BY NatLessThanWellFounded DEF OpToRel
<1>2. PICK x \in Nat \ S : \A y \in Nat \ S : ~(<<y, x>> \in Less)
  <2> HIDE DEF Less
  <2> QED
    BY <1>1, WFMin
<1>3. \A y \in Nat \ S : ~(y < x)
  BY <1>2
<1>4. x # 0 /\ x - 1 \in Nat /\ x - 1 < x
  OBVIOUS
<1>5. x - 1 \in S
  BY <1>3, <1>4
<1> QED
  BY <1>4, <1>5

\* f holds the values an iteration of n steps goes through.
Iterates(f, n, base, step) == f[0] = base /\ \A i \in 1 .. n : f[i] = step[i][f[i - 1]]

\* Iterations of steps that stay in a set have such values.
LEMMA IterationExists ==
    ASSUME NEW n \in Nat, NEW S, NEW base \in S, NEW step \in [1 .. n -> [S -> S]]
    PROVE  \E f \in [0 .. n -> S] : Iterates(f, n, base, step)
<1> DEFINE Upto(k) ==
             \E f \in [0 .. k -> S] : f[0] = base /\ \A i \in 1 .. k : f[i] = step[i][f[i - 1]]
           T == {k \in Nat : k <= n => Upto(k)}
<1>1. 0 \in T
  <2> DEFINE g == [i \in 0 .. 0 |-> base]
  <2>1. g \in [0 .. 0 -> S] /\ g[0] = base /\ 1 .. 0 = {}
    OBVIOUS
  <2> HIDE DEF g
  <2>2. Upto(0)
    BY <2>1
  <2> QED
    BY <2>2
<1>2. ASSUME NEW k \in Nat, k \in T PROVE k + 1 \in T
  <2> SUFFICES ASSUME k + 1 <= n PROVE Upto(k + 1)
    OBVIOUS
  <2>1. PICK f \in [0 .. k -> S] : f[0] = base /\ \A i \in 1 .. k : f[i] = step[i][f[i - 1]]
    BY <1>2
  <2> DEFINE g == [i \in 0 .. (k + 1) |-> IF i <= k THEN f[i] ELSE step[k + 1][f[k]]]
  <2>2. f[k] \in S /\ step[k + 1] \in [S -> S]
    BY <2>1
  <2>3. g \in [0 .. (k + 1) -> S]
    BY <2>2
  <2>4. g[0] = base
    BY <2>1
  <2>5. \A i \in 1 .. (k + 1) : g[i] = step[i][g[i - 1]]
    <3> TAKE i \in 1 .. (k + 1)
    <3>1. CASE i <= k
      BY <2>1, <3>1
    <3>2. CASE i = k + 1
      BY <3>2
    <3> QED
      BY <3>1, <3>2
  <2> QED
    BY <2>3, <2>4, <2>5
<1>3. Nat \subseteq T
  <2> HIDE DEF T
  <2> QED
    BY <1>1, <1>2, SetInduction
<1>4. Upto(n)
  BY <1>3
<1> QED
  BY <1>4 DEF Iterates

-------------------------------------------------------------------------------

\* A card that was never answered is a card (createEmptyCard).
LEMMA InitialCardType ==
    ASSUME NEW now \in Nat
    PROVE  InitialCard(now) \in Card
BY DEF InitialCard, Card, Phases

\* ts-fsrs returns a card, whatever interval it chooses.
LEMMA NextCardType ==
    ASSUME NEW card \in Card, NEW now \in Nat, NEW rating \in Ratings, NEW delay \in Nat
    PROVE  Next_(card, now, rating, delay) \in Card
<1>1. ShortTermPhase(card) \in Phases
  BY DEF ShortTermPhase, Phases
<1>2. ShortTermStep(card, rating) \in Nat
  BY DEF ShortTermStep, Card
<1>3. LearningDelay \in Nat
  BY DelayAssumption
<1> QED
  BY <1>1, <1>2, <1>3 DEF Next_, Card, Phases

\* Both schedulers return cards (applyPracticeResult and its deterministic twin).
LEMMA SchedulersReturnCards ==
    ASSUME NEW card \in Card, NEW kind \in Kinds, NEW now \in Nat, NEW rating \in Ratings
    PROVE  /\ PracticeResults(card, kind, now, rating) \subseteq Card
           /\ DeterministicPracticeResult(card, kind, now, rating) \in Card
<1>1. ReviewDelay \in Nat /\ (ReviewDelay - Fuzz) .. (ReviewDelay + Fuzz) \subseteq Nat
  BY DelayAssumption
<1>2. \A d \in (ReviewDelay - Fuzz) .. (ReviewDelay + Fuzz) :
        Next_(card, now, rating, d) \in Card
  BY <1>1, NextCardType
<1>3. Next_(card, now, rating, ReviewDelay) \in Card
  BY <1>1, NextCardType
<1> QED
  BY <1>2, <1>3 DEF PracticeResults, DeterministicPracticeResult

\* The ladder moves a word to a stage or leaves it alone (transitionAfterRating).
LEMMA MovedToType ==
    ASSUME NEW ladder, NEW kind, NEW rating
    PROVE  MovedTo(ladder, kind, rating) \in Stages \cup {None}
BY DEF MovedTo, Stages

\* Streaks stay numbers, one more than before at most or the required two.
LEMMA StreaksType ==
    ASSUME NEW row \in StateRow, NEW kind \in Kinds, NEW rating \in Ratings
    PROVE  /\ MasteryAfter(row, kind, rating) \in Nat
           /\ FailuresAfter(row, kind, rating) \in Nat
BY DEF MasteryAfter, FailuresAfter, StateRow, RequiredMasteryReviews, Kinds

\* A new word's row is well formed (_makeWordAndState).
LEMMA FreshRowCorrect ==
    ASSUME NEW now \in Nat
    PROVE  FreshRow(now) \in StateRow /\ WellFormed(FreshRow(now))
BY InitialCardType
   DEF FreshRow, StateRow, WellFormed, Stages, RequiredMasteryReviews, RequiredContextFailures

\* What an answer makes of a row is a row (nextState of submitPracticeAnswer).
LEMMA AnsweredRowType ==
    ASSUME NEW row \in StateRow, NEW card \in Card,
           NEW kind \in Kinds, NEW now \in Nat, NEW rating \in Ratings
    PROVE  AnsweredRow(row, card, kind, now, rating) \in StateRow
<1>1. InitialCard(now + StageTransitionDelay) \in Card
  BY StageDelayAssumption, InitialCardType
<1>2. TransitionAfterRating(row, card, kind, now, rating) \in
        [stage: Stages, stageAttempts: Nat, failureStreak: Nat, masteryStreak: Nat, card: Card]
  BY <1>1, MovedToType, StreaksType DEF TransitionAfterRating, StateRow
<1>3. Tally(row, rating) \in [attempts: Nat, correct: Nat, incorrect: Nat]
  BY DEF Tally, StateRow
<1> QED
  BY <1>2, <1>3 DEF AnsweredRow, StateRow

\* A streak that reaches its length moves the word, so a row that stays keeps short ones.
LEMMA StreaksStayShort ==
    ASSUME NEW row \in StateRow, WellFormed(row), NEW kind \in Kinds, NEW rating \in Ratings,
           MovedTo(row, kind, rating) = None
    PROVE  /\ MasteryAfter(row, kind, rating) < RequiredMasteryReviews
           /\ FailuresAfter(row, kind, rating) < RequiredContextFailures
<1>1. ~Mastered(row, kind, rating) /\ ~LostInContext(row, kind, rating)
  BY NoneAssumption DEF MovedTo, StateRow, Stages, Mastered, LostInContext
<1>2. CASE row.stage = "contextRecall"
  BY <1>1, <1>2, StreaksType
     DEF LostInContext, MasteryAfter, RequiredMasteryReviews, RequiredContextFailures
<1>3. CASE row.stage # "contextRecall"
  BY <1>1, <1>3, StreaksType
     DEF Mastered, FailuresAfter, RequiredMasteryReviews, RequiredContextFailures
<1> QED
  BY <1>2, <1>3

\* An answer turns a well-formed row into a well-formed row (submitPracticeAnswer).
LEMMA AnsweredRowWellFormed ==
    ASSUME NEW row \in StateRow, WellFormed(row), NEW card \in Card,
           NEW kind \in Kinds, NEW now \in Nat, NEW rating \in Ratings
    PROVE  WellFormed(AnsweredRow(row, card, kind, now, rating))
<1> DEFINE new == AnsweredRow(row, card, kind, now, rating)
<1>1. new.attempts = row.attempts + 1 /\ new.attempts = new.correct + new.incorrect
  BY DEF AnsweredRow, Tally, StateRow, WellFormed
<1>2. CASE MovedTo(row, kind, rating) = None
  <2>1. /\ new.stage = row.stage
        /\ new.stageAttempts = row.stageAttempts + 1
        /\ new.masteryStreak = MasteryAfter(row, kind, rating)
        /\ new.failureStreak = FailuresAfter(row, kind, rating)
    BY <1>2 DEF AnsweredRow, TransitionAfterRating
  <2>2. new.stageAttempts <= new.attempts
    BY <1>1, <2>1 DEF WellFormed, StateRow
  <2>3. /\ new.masteryStreak < RequiredMasteryReviews
        /\ new.failureStreak < RequiredContextFailures
    BY <1>2, <2>1, StreaksStayShort
  <2>4. /\ new.stage = "contextRecall" => new.masteryStreak = 0
        /\ new.stage # "contextRecall" => new.failureStreak = 0
    BY <2>1 DEF MasteryAfter, FailuresAfter
  <2>5. new.masteryStreak + new.failureStreak <= new.stageAttempts
    <3>1. CASE row.stage = "contextRecall"
      BY <2>1, <3>1 DEF MasteryAfter, FailuresAfter, WellFormed, StateRow
    <3>2. CASE row.stage # "contextRecall"
      BY <2>1, <2>3, <3>2
         DEF MasteryAfter, FailuresAfter, WellFormed, StateRow, RequiredMasteryReviews
    <3> QED
      BY <3>1, <3>2
  <2> QED
    BY <1>1, <2>2, <2>3, <2>4, <2>5 DEF WellFormed
<1>3. CASE MovedTo(row, kind, rating) # None
  BY <1>1, <1>3
     DEF AnsweredRow, TransitionAfterRating, WellFormed, StateRow, Tally,
         RequiredMasteryReviews, RequiredContextFailures
<1> QED
  BY <1>2, <1>3

\* A new schedule leaves a row well formed (nextState of _calculateRecalculation).
LEMMA RescheduledRowCorrect ==
    ASSUME NEW row \in StateRow, NEW card \in Card
    PROVE  /\ [row EXCEPT !.card = card] \in StateRow
           /\ WellFormed(row) => WellFormed([row EXCEPT !.card = card])
BY DEF StateRow, WellFormed

\* The event written beside an answered row is an event.
LEMMA AnswerEventType ==
    ASSUME NEW id \in Nat, NEW w \in WordIds, NEW row \in StateRow, NEW card \in Card,
           NEW kind \in Kinds, NEW now \in Nat, NEW rating \in Ratings
    PROVE  AnswerEvent(id, w, row, card, kind, now, rating) \in PracticeEvent
<1>1. AnsweredRow(row, card, kind, now, rating).card.due \in Nat
  BY AnsweredRowType DEF StateRow, Card
<1>2. row.stage \in Stages
  BY DEF StateRow
<1> QED
  BY <1>1, <1>2, MovedToType DEF AnswerEvent, PracticeEvent

-------------------------------------------------------------------------------
(***************************************************************************)
(* Replaying a history.  The replay is recursive over sets of events: that *)
(* such a function exists and how it unfolds is proved by induction on     *)
(* their number.                                                           *)
(***************************************************************************)
Latest(es) == {e \in es : \A f \in es : f.reviewedAt <= e.reviewedAt}

\* The cards a history may end with, `after' being those the shorter ones may.
EndsWith(createdAt, es, after) ==
    IF es = {} THEN {InitialCard(createdAt)}
    ELSE UNION {{ReplayEvent(card, e) : card \in after[es \ {e}]} : e \in Latest(es)}

\* after is the replay of the events of a set of sets.
IsReplay(after, D, createdAt) ==
    after = [es \in D |-> EndsWith(createdAt, es, after)]

\* A history's cards depend on those of the histories without one event.
LEMMA EndsWithCongruence ==
    ASSUME NEW createdAt, NEW es, NEW f, NEW g, \A e \in es : f[es \ {e}] = g[es \ {e}]
    PROVE  EndsWith(createdAt, es, f) = EndsWith(createdAt, es, g)
<1>1. \A e \in Latest(es) : f[es \ {e}] = g[es \ {e}]
  BY DEF Latest
<1> QED
  BY <1>1 DEF EndsWith

Shorter(evs, n) == {es \in SUBSET evs : Cardinality(es) <= n}

LEMMA OneLess ==
    ASSUME NEW evs, IsFiniteSet(evs), NEW es \in SUBSET evs, NEW e \in es
    PROVE  /\ es \ {e} \in SUBSET evs /\ Cardinality(es) \in Nat
           /\ Cardinality(es) # 0 /\ Cardinality(es \ {e}) = Cardinality(es) - 1
           /\ IsFiniteSet(es)
<1>1. IsFiniteSet(es)
  BY FS_Subset
<1>2. Cardinality(es) \in Nat /\ Cardinality(es \ {e}) = Cardinality(es) - 1
  BY <1>1, FS_CardinalityType, FS_RemoveElement
<1>3. Cardinality(es) # 0
  BY <1>1, FS_EmptySet
<1> QED
  BY <1>1, <1>2, <1>3

LEMMA ReplayExists ==
    ASSUME NEW evs, IsFiniteSet(evs), NEW createdAt
    PROVE  \E after : IsReplay(after, SUBSET evs, createdAt)
<1> DEFINE T == {n \in Nat : \E f : IsReplay(f, Shorter(evs, n), createdAt)}
<1>1. 0 \in T
  <2> DEFINE f == [es \in Shorter(evs, 0) |-> {InitialCard(createdAt)}]
  <2>1. \A es \in Shorter(evs, 0) : es = {}
    <3> TAKE es \in Shorter(evs, 0)
    <3>1. es \in SUBSET evs /\ Cardinality(es) <= 0
      BY DEF Shorter
    <3>2. IsFiniteSet(es)
      BY <3>1, FS_Subset
    <3>3. Cardinality(es) = 0
      BY <3>1, <3>2, FS_CardinalityType
    <3> QED
      BY <3>2, <3>3, FS_EmptySet
  <2>2. f = [es \in Shorter(evs, 0) |-> EndsWith(createdAt, es, f)]
    BY <2>1 DEF EndsWith
  <2> QED
    BY <2>2 DEF IsReplay
<1>2. ASSUME NEW n \in Nat, n \in T PROVE n + 1 \in T
  <2>1. PICK f : IsReplay(f, Shorter(evs, n), createdAt)
    BY <1>2
  <2> DEFINE g == [es \in Shorter(evs, n + 1) |-> EndsWith(createdAt, es, f)]
  <2>2. ASSUME NEW es \in Shorter(evs, n + 1)
        PROVE  EndsWith(createdAt, es, f) = EndsWith(createdAt, es, g)
    <3>1. es \in SUBSET evs /\ Cardinality(es) <= n + 1
      BY DEF Shorter
    <3>2. \A e \in es : f[es \ {e}] = g[es \ {e}]
      <4> TAKE e \in es
      <4>1. es \ {e} \in Shorter(evs, n) /\ es \ {e} \in Shorter(evs, n + 1)
        BY <3>1, OneLess DEF Shorter
      <4>2. f[es \ {e}] = EndsWith(createdAt, es \ {e}, f)
        BY <2>1, <4>1 DEF IsReplay
      <4> QED
        BY <4>1, <4>2
    <3> HIDE DEF g
    <3> QED
      BY <3>2, EndsWithCongruence
  <2>3. g = [es \in Shorter(evs, n + 1) |-> EndsWith(createdAt, es, g)]
    <3>1. \A es \in Shorter(evs, n + 1) : g[es] = EndsWith(createdAt, es, f)
      OBVIOUS
    <3>2. g = [es \in Shorter(evs, n + 1) |-> g[es]]
      OBVIOUS
    <3> HIDE DEF g
    <3>3. \A es \in Shorter(evs, n + 1) : g[es] = EndsWith(createdAt, es, g)
      BY <2>2, <3>1
    <3> QED
      BY <3>2, <3>3
  <2> HIDE DEF g
  <2>4. IsReplay(g, Shorter(evs, n + 1), createdAt)
    BY <2>3 DEF IsReplay
  <2> QED
    BY <2>4
<1>3. Cardinality(evs) \in T
  <2>1. Nat \subseteq T
    <3> HIDE DEF T
    <3> QED
      BY <1>1, <1>2, SetInduction
  <2> QED
    BY <2>1, FS_CardinalityType
<1>4. Shorter(evs, Cardinality(evs)) = SUBSET evs
  BY FS_Subset DEF Shorter
<1> QED
  BY <1>3, <1>4

\* What a replay says of a history does not depend on the histories it is defined for.
LEMMA ReplayUnique ==
    ASSUME NEW A, NEW B, IsFiniteSet(A), IsFiniteSet(B), NEW createdAt, NEW f, NEW g,
           IsReplay(f, SUBSET A, createdAt), IsReplay(g, SUBSET B, createdAt)
    PROVE  \A es \in SUBSET (A \cap B) : f[es] = g[es]
<1> DEFINE C == A \cap B
           T == {n \in Nat : \A es \in SUBSET C : Cardinality(es) = n => f[es] = g[es]}
<1>1. IsFiniteSet(C)
  BY FS_Subset
<1>2. \A es \in SUBSET C :
        f[es] = EndsWith(createdAt, es, f) /\ g[es] = EndsWith(createdAt, es, g)
  BY DEF IsReplay
<1>3. 0 \in T
  <2>1. ASSUME NEW es \in SUBSET C, Cardinality(es) = 0 PROVE f[es] = g[es]
    <3>1. es = {}
      BY <1>1, <2>1, FS_Subset, FS_EmptySet
    <3> QED
      BY <1>2, <3>1 DEF EndsWith
  <2> QED
    BY <2>1
<1>4. ASSUME NEW n \in Nat, n \in T PROVE n + 1 \in T
  <2>1. ASSUME NEW es \in SUBSET C, Cardinality(es) = n + 1 PROVE f[es] = g[es]
    <3>1. \A e \in es : f[es \ {e}] = g[es \ {e}]
      BY <1>1, <1>4, <2>1, OneLess
    <3>2. EndsWith(createdAt, es, f) = EndsWith(createdAt, es, g)
      BY <3>1, EndsWithCongruence
    <3> QED
      BY <1>2, <3>2
  <2> QED
    BY <2>1
<1>5. Nat \subseteq T
  <2> HIDE DEF T
  <2> QED
    BY <1>3, <1>4, SetInduction
<1>6. \A es \in SUBSET C : Cardinality(es) \in Nat
  BY <1>1, FS_Subset, FS_CardinalityType
<1> QED
  BY <1>5, <1>6

\* replayPracticeHistory returns what its loop ends with.
LEMMA ReplaysReplay ==
    ASSUME NEW evs, IsFiniteSet(evs), NEW createdAt
    PROVE  \E after : IsReplay(after, SUBSET evs, createdAt) /\ Replays(createdAt, evs) = after[evs]
<1> DEFINE after == CHOOSE f : IsReplay(f, SUBSET evs, createdAt)
<1>1. IsReplay(after, SUBSET evs, createdAt)
  BY ReplayExists
<1>2. Replays(createdAt, evs) = after[evs]
  BY DEF Replays, IsReplay, EndsWith, Latest
<1> HIDE DEF after
<1> QED
  BY <1>1, <1>2

\* The loop of replayPracticeHistory: not a turn for an empty history, and the turn of a
\* latest event after those of the others.
LEMMA ReplayUnfolds ==
    ASSUME NEW evs, IsFiniteSet(evs), NEW createdAt
    PROVE  /\ evs = {} => Replays(createdAt, evs) = {InitialCard(createdAt)}
           /\ evs # {} => \A c : c \in Replays(createdAt, evs) <=>
                \E e \in Latest(evs) : \E card \in Replays(createdAt, evs \ {e}) :
                    c = ReplayEvent(card, e)
<1>1. PICK f : IsReplay(f, SUBSET evs, createdAt) /\ Replays(createdAt, evs) = f[evs]
  BY ReplaysReplay
<1>2. \A e \in evs : f[evs \ {e}] = Replays(createdAt, evs \ {e})
  <2> TAKE e \in evs
  <2> DEFINE rest == evs \ {e}
  <2>1. IsFiniteSet(rest) /\ rest \in SUBSET (evs \cap rest)
    BY FS_Subset
  <2> HIDE DEF rest
  <2>2. PICK g : IsReplay(g, SUBSET rest, createdAt) /\ Replays(createdAt, rest) = g[rest]
    BY <2>1, ReplaysReplay
  <2>3. f[rest] = g[rest]
    BY <1>1, <2>1, <2>2, ReplayUnique
  <2> QED
    BY <2>2, <2>3 DEF rest
<1>3. Replays(createdAt, evs) = EndsWith(createdAt, evs, f)
  BY <1>1 DEF IsReplay
<1>4. \A e \in Latest(evs) : f[evs \ {e}] = Replays(createdAt, evs \ {e})
  BY <1>2 DEF Latest
<1>5. evs # {} => \A c : c \in EndsWith(createdAt, evs, f) <=>
        \E e \in Latest(evs) : \E card \in f[evs \ {e}] : c = ReplayEvent(card, e)
  BY DEF EndsWith
<1> QED
  BY <1>3, <1>4, <1>5 DEF EndsWith

\* A new last event is replayed last.
LEMMA LaterEventReplayed ==
    ASSUME NEW evs, IsFiniteSet(evs), NEW createdAt, NEW e, e \notin evs, e.reviewedAt \in Nat,
           \A f \in evs : f.reviewedAt <= e.reviewedAt,
           NEW card \in Replays(createdAt, evs)
    PROVE  ReplayEvent(card, e) \in Replays(createdAt, evs \cup {e})
<1>1. IsFiniteSet(evs \cup {e}) /\ evs \cup {e} # {} /\ (evs \cup {e}) \ {e} = evs
  BY FS_AddElement
<1>2. e \in Latest(evs \cup {e})
  BY DEF Latest
<1> QED
  BY <1>1, <1>2, ReplayUnfolds

\* A nonempty history has a latest event.
LEMMA LatestExists ==
    ASSUME NEW evs, IsFiniteSet(evs), \A e \in evs : e.reviewedAt \in Nat
    PROVE  evs # {} => Latest(evs) # {}
<1> DEFINE T == {n \in Nat : \A es \in SUBSET evs : Cardinality(es) = n /\ es # {} => Latest(es) # {}}
<1>1. 0 \in T
  <2>1. ASSUME NEW es \in SUBSET evs, Cardinality(es) = 0 PROVE es = {}
    BY <2>1, FS_Subset, FS_EmptySet
  <2> QED
    BY <2>1
<1>2. ASSUME NEW n \in Nat, n \in T PROVE n + 1 \in T
  <2>1. ASSUME NEW es \in SUBSET evs, Cardinality(es) = n + 1, es # {} PROVE Latest(es) # {}
    <3>1. PICK e \in es : TRUE
      BY <2>1
    <3>2. es \ {e} \in SUBSET evs /\ Cardinality(es \ {e}) = n
      BY <2>1, OneLess
    <3>3. CASE es \ {e} = {}
      BY <3>3 DEF Latest
    <3>4. CASE es \ {e} # {}
      <4>1. PICK d \in Latest(es \ {e}) : TRUE
        BY <1>2, <3>2, <3>4
      <4>2. d \in es /\ d.reviewedAt \in Nat /\ e.reviewedAt \in Nat
            /\ \A f \in es \ {e} : f.reviewedAt <= d.reviewedAt /\ f.reviewedAt \in Nat
        BY <4>1 DEF Latest
      <4>3. CASE e.reviewedAt <= d.reviewedAt
        BY <4>2, <4>3 DEF Latest
      <4>4. CASE d.reviewedAt <= e.reviewedAt
        <5>1. \A f \in es : f.reviewedAt <= e.reviewedAt
          BY <4>2, <4>4
        <5> QED
          BY <5>1 DEF Latest
      <4> QED
        BY <4>2, <4>3, <4>4
    <3> QED
      BY <3>3, <3>4
  <2> QED
    BY <2>1
<1>3. Cardinality(evs) \in T
  <2>1. Nat \subseteq T
    <3> HIDE DEF T
    <3> QED
      BY <1>1, <1>2, SetInduction
  <2> QED
    BY <2>1, FS_CardinalityType
<1> QED
  BY <1>3

\* A history without ties has one replay.
OneAtATime(evs) == \A e, f \in evs : e.reviewedAt = f.reviewedAt => e = f
OneCard(cards) == \E c : cards = {c}

LEMMA OneReplay ==
    ASSUME NEW evs, IsFiniteSet(evs), \A e \in evs : e.reviewedAt \in Nat, OneAtATime(evs),
           NEW createdAt
    PROVE  OneCard(Replays(createdAt, evs))
<1> DEFINE T == {n \in Nat : \A es \in SUBSET evs :
                   Cardinality(es) = n => OneCard(Replays(createdAt, es))}
<1>1. 0 \in T
  <2>1. ASSUME NEW es \in SUBSET evs, Cardinality(es) = 0 PROVE es = {} /\ IsFiniteSet(es)
    BY <2>1, FS_Subset, FS_EmptySet
  <2> QED
    BY <2>1, ReplayUnfolds DEF OneCard
<1>2. ASSUME NEW n \in Nat, n \in T PROVE n + 1 \in T
  <2>1. ASSUME NEW es \in SUBSET evs, Cardinality(es) = n + 1
        PROVE  OneCard(Replays(createdAt, es))
    <3>1. IsFiniteSet(es) /\ es # {}
      BY <2>1, FS_Subset, FS_EmptySet
    <3>2. PICK e \in Latest(es) : TRUE
      BY <3>1, LatestExists
    <3>3. Latest(es) = {e} /\ e \in es
      BY <3>2 DEF Latest, OneAtATime
    <3>4. es \ {e} \in SUBSET evs /\ Cardinality(es \ {e}) = n
      BY <2>1, <3>3, OneLess
    <3>5. PICK c : Replays(createdAt, es \ {e}) = {c}
      BY <1>2, <3>4 DEF OneCard
    <3>6. \A d : d \in Replays(createdAt, es) <=>
            \E x \in Latest(es) : \E card \in Replays(createdAt, es \ {x}) : d = ReplayEvent(card, x)
      BY <3>1, ReplayUnfolds
    <3>7. \A d : d \in Replays(createdAt, es) <=> d = ReplayEvent(c, e)
      BY <3>3, <3>5, <3>6
    <3>8. Replays(createdAt, es) = {ReplayEvent(c, e)}
      BY <3>7
    <3> QED
      BY <3>8 DEF OneCard
  <2> QED
    BY <2>1
<1>3. Cardinality(evs) \in T
  <2>1. Nat \subseteq T
    <3> HIDE DEF T
    <3> QED
      BY <1>1, <1>2, SetInduction
  <2> QED
    BY <2>1, FS_CardinalityType
<1> QED
  BY <1>3

(***************************************************************************)
(* After an event a replayed card is due later than the event; a review    *)
(* that came early is replayed as extra, and the card was due later still. *)
(***************************************************************************)
PutsOff(e) == e \in PracticeEvent /\ e.kind = "scheduled" /\ e.reviewedAt < e.nextDueAt

LEMMA ReplayEventPutsOff ==
    ASSUME NEW card \in Card, NEW e, PutsOff(e), NEW evs,
           \A f \in evs : f.reviewedAt \in Nat /\ f.reviewedAt <= e.reviewedAt /\ f.reviewedAt < card.due
    PROVE  /\ ReplayEvent(card, e) \in Card
           /\ \A f \in evs \cup {e} : f.reviewedAt < ReplayEvent(card, e).due
<1>1. /\ e.reviewedAt \in Nat /\ e.nextDueAt \in Nat /\ e.rating \in Ratings
      /\ e.kind = "scheduled" /\ e.reviewedAt < e.nextDueAt
  BY DEF PutsOff, PracticeEvent
<1>2. ReplayKind(card, e) \in Kinds
  BY DEF ReplayKind, Kinds
<1>3. LearningDelay \in Nat \ {0} /\ ReviewDelay \in Nat \ {0}
  BY DelayAssumption
<1>4. CASE e.movedTo # None
  <2>1. ReplayEvent(card, e) = InitialCard(e.nextDueAt)
    BY <1>4 DEF ReplayEvent
  <2>2. ReplayEvent(card, e).due = e.nextDueAt
    BY <2>1 DEF InitialCard
  <2> QED
    BY <1>1, <2>1, <2>2, InitialCardType
<1>5. CASE e.movedTo = None /\ KeepsSchedule(ReplayKind(card, e), e.rating)
  <2>1. ReplayEvent(card, e) = card
    BY <1>5 DEF ReplayEvent, DeterministicPracticeResult
  <2>2. e.reviewedAt < card.due
    BY <1>1, <1>5 DEF KeepsSchedule, ReplayKind, WasScheduledEarly
  <2> QED
    BY <2>1, <2>2
<1>6. CASE e.movedTo = None /\ ~KeepsSchedule(ReplayKind(card, e), e.rating)
  <2>1. ReplayEvent(card, e) = Next_(card, e.reviewedAt, e.rating, ReviewDelay)
    BY <1>6 DEF ReplayEvent, DeterministicPracticeResult
  <2>2. e.reviewedAt < ReplayEvent(card, e).due
    BY <1>1, <1>3, <2>1 DEF Next_
  <2>3. ReplayEvent(card, e) \in Card
    BY <1>1, <1>3, <2>1, NextCardType
  <2>4. ReplayEvent(card, e).due \in Nat
    BY <2>3 DEF Card
  <2> QED
    BY <1>1, <2>2, <2>3, <2>4
<1> QED
  BY <1>4, <1>5, <1>6

LEMMA ReplaysPutOff ==
    ASSUME NEW evs, IsFiniteSet(evs), \A e \in evs : PutsOff(e), NEW createdAt \in Nat
    PROVE  \A card \in Replays(createdAt, evs) :
             card \in Card /\ \A e \in evs : e.reviewedAt < card.due
<1> DEFINE T == {n \in Nat : \A es \in SUBSET evs :
                   Cardinality(es) = n => \A card \in Replays(createdAt, es) :
                       card \in Card /\ \A e \in es : e.reviewedAt < card.due}
<1>1. 0 \in T
  <2>1. ASSUME NEW es \in SUBSET evs, Cardinality(es) = 0 PROVE es = {} /\ IsFiniteSet(es)
    BY <2>1, FS_Subset, FS_EmptySet
  <2> QED
    BY <2>1, ReplayUnfolds, InitialCardType
<1>2. ASSUME NEW n \in Nat, n \in T PROVE n + 1 \in T
  <2>1. ASSUME NEW es \in SUBSET evs, Cardinality(es) = n + 1, NEW c \in Replays(createdAt, es)
        PROVE  c \in Card /\ \A e \in es : e.reviewedAt < c.due
    <3>1. IsFiniteSet(es) /\ es # {}
      BY <2>1, FS_Subset, FS_EmptySet
    <3>2. PICK e \in Latest(es) : \E card \in Replays(createdAt, es \ {e}) : c = ReplayEvent(card, e)
      BY <3>1, ReplayUnfolds
    <3>3. PICK card \in Replays(createdAt, es \ {e}) : c = ReplayEvent(card, e)
      BY <3>2
    <3>4. e \in es /\ \A f \in es : f.reviewedAt <= e.reviewedAt
      BY DEF Latest
    <3>5. es \ {e} \in SUBSET evs /\ Cardinality(es \ {e}) = n
      BY <2>1, <3>4, OneLess
    <3>6. card \in Card /\ \A f \in es \ {e} : f.reviewedAt < card.due
      BY <1>2, <3>5
    <3>7. \A f \in evs : f.reviewedAt \in Nat
      BY DEF PutsOff, PracticeEvent
    <3>8. /\ ReplayEvent(card, e) \in Card
          /\ \A f \in (es \ {e}) \cup {e} : f.reviewedAt < ReplayEvent(card, e).due
      BY <3>4, <3>6, <3>7, ReplayEventPutsOff
    <3> QED
      BY <3>3, <3>8
  <2> QED
    BY <2>1
<1>3. Cardinality(evs) \in T
  <2>1. Nat \subseteq T
    <3> HIDE DEF T
    <3> QED
      BY <1>1, <1>2, SetInduction
  <2> QED
    BY <2>1, FS_CardinalityType
<1> QED
  BY <1>3

\* Without fuzz a scheduled answer that is not early is replayed as it was given.
LEMMA AnswerReplayed ==
    ASSUME Fuzz = 0, NEW id, NEW w, NEW row, NEW now, NEW r \in Ratings,
           NEW card \in PracticeResults(row.card, "scheduled", now, r),
           ~(now < row.card.due)
    PROVE  ReplayEvent(row.card, AnswerEvent(id, w, row, card, "scheduled", now, r))
             = AnsweredRow(row, card, "scheduled", now, r).card
<1> DEFINE e == AnswerEvent(id, w, row, card, "scheduled", now, r)
<1> SUFFICES ReplayEvent(row.card, e) = AnsweredRow(row, card, "scheduled", now, r).card
  OBVIOUS
<1>1. /\ e.reviewedAt = now /\ e.rating = r /\ e.kind = "scheduled"
      /\ e.movedTo = MovedTo(row, "scheduled", r)
      /\ e.nextDueAt = AnsweredRow(row, card, "scheduled", now, r).card.due
  BY DEF AnswerEvent
<1>2. card = DeterministicPracticeResult(row.card, "scheduled", now, r)
  <2>1. (ReviewDelay - Fuzz) .. (ReviewDelay + Fuzz) = {ReviewDelay}
    BY DelayAssumption
  <2>2. ~KeepsSchedule("scheduled", r)
    BY DEF KeepsSchedule
  <2> QED
    BY <2>1, <2>2 DEF PracticeResults, DeterministicPracticeResult
<1>3. ReplayKind(row.card, e) = "scheduled"
  BY <1>1 DEF ReplayKind, WasScheduledEarly
<1> HIDE DEF e
<1>4. CASE MovedTo(row, "scheduled", r) = None
  BY <1>1, <1>2, <1>3, <1>4 DEF ReplayEvent, AnsweredRow, TransitionAfterRating
<1>5. CASE MovedTo(row, "scheduled", r) # None
  BY <1>1, <1>5 DEF ReplayEvent, AnsweredRow, TransitionAfterRating, InitialCard
<1> QED
  BY <1>4, <1>5

\* A scheduled answer puts its word off.
LEMMA AnswerPutsOff ==
    ASSUME NEW id \in Nat, NEW w \in WordIds, NEW row \in StateRow, NEW now \in Nat, NEW r \in Ratings,
           NEW card \in PracticeResults(row.card, "scheduled", now, r)
    PROVE  LET e == AnswerEvent(id, w, row, card, "scheduled", now, r)
           IN  /\ PutsOff(e) /\ e.word = w /\ e.reviewedAt = now /\ e.id = id
               /\ e.reviewedAt < AnsweredRow(row, card, "scheduled", now, r).card.due
<1> DEFINE e == AnswerEvent(id, w, row, card, "scheduled", now, r)
<1>1. /\ e.reviewedAt = now /\ e.kind = "scheduled" /\ e.word = w /\ e.id = id
      /\ e.nextDueAt = AnsweredRow(row, card, "scheduled", now, r).card.due
  BY DEF AnswerEvent
<1>2. card \in Card
  BY SchedulersReturnCards DEF StateRow, Kinds
<1>3. e \in PracticeEvent
  BY <1>2, AnswerEventType DEF Kinds
<1>4. card.due \in Nat /\ now < card.due
  <2>1. ~KeepsSchedule("scheduled", r)
    BY DEF KeepsSchedule
  <2>2. PICK d \in (ReviewDelay - Fuzz) .. (ReviewDelay + Fuzz) : card = Next_(row.card, now, r, d)
    BY <2>1 DEF PracticeResults
  <2>3. d \in Nat \ {0} /\ LearningDelay \in Nat \ {0}
    BY DelayAssumption
  <2> QED
    BY <2>2, <2>3 DEF Next_
<1>5. now < AnsweredRow(row, card, "scheduled", now, r).card.due
  BY <1>4, StageDelayAssumption DEF AnsweredRow, TransitionAfterRating, InitialCard
<1> HIDE DEF e
<1>6. PutsOff(e)
  BY <1>1, <1>3, <1>5 DEF PutsOff
<1> QED
  BY <1>1, <1>5, <1>6 DEF e
==============================================================================
