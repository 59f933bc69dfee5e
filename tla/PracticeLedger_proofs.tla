------------------------ MODULE PracticeLedger_proofs ------------------------
(***************************************************************************)
(* The ledger keeps its promises, whatever the words, the times, the       *)
(* scheduler's fuzz and the number of answers.                             *)
(***************************************************************************)
EXTENDS ExampleRotation, PracticeRecords_proofs, FiniteSetTheorems

\* The stage of a word is also where its newest answer left it.
StageFollowsLog ==
    \A w \in WordIds : rows[w] # None =>
        \A e \in LogOf(w) :
            (\A f \in LogOf(w) : f.id <= e.id) => rows[w].stage = StageAfter(e)

LedgerInv ==
    /\ LedgerTypeOK
    /\ IsFiniteSet(log)
    /\ CountsMatchLog
    /\ StageMatchesLog
    /\ StageFollowsLog
    /\ LogIsConnected

-------------------------------------------------------------------------------
\* A row that stays a row is of row type.
LEMMA RowIsTyped ==
    ASSUME LedgerTypeOK, NEW w \in WordIds, rows[w] # None
    PROVE  rows[w] \in StateRow
BY DEF LedgerTypeOK, Rows

\* A word's part of a finite log is finite, and so is any selection from it.
LEMMA LogPartsFinite ==
    ASSUME IsFiniteSet(log), NEW w
    PROVE  /\ IsFiniteSet(LogOf(w))
           /\ IsFiniteSet({e \in LogOf(w) : IsCorrect(e.rating)})
           /\ IsFiniteSet({e \in LogOf(w) : ~IsCorrect(e.rating)})
BY FS_Subset DEF LogOf

LEMMA LedgerInitCorrect == LedgerInit => LedgerInv
<1> SUFFICES ASSUME LedgerInit PROVE LedgerInv
  OBVIOUS
<1>1. FreshRow(0) \in StateRow
  BY FreshRowCorrect
<1>2. \A w : LogOf(w) = {} /\ MovesOf(w) = {}
  BY DEF LedgerInit, LogOf, MovesOf
<1>3. LedgerTypeOK /\ IsFiniteSet(log)
  BY <1>1, FS_EmptySet DEF LedgerInit, LedgerTypeOK, Rows
<1>4. CountsMatchLog
  <2> SUFFICES ASSUME NEW w \in WordIds, rows[w] # None
               PROVE  /\ rows[w].attempts = Cardinality(LogOf(w))
                      /\ rows[w].correct = Cardinality({e \in LogOf(w) : IsCorrect(e.rating)})
                      /\ rows[w].incorrect = Cardinality({e \in LogOf(w) : ~IsCorrect(e.rating)})
    BY DEF CountsMatchLog
  <2>1. rows[w] = FreshRow(0)
    BY DEF LedgerInit
  <2>2. /\ {e \in LogOf(w) : IsCorrect(e.rating)} = {}
        /\ {e \in LogOf(w) : ~IsCorrect(e.rating)} = {}
    BY <1>2
  <2> QED
    BY <1>2, <2>1, <2>2, FS_EmptySet DEF FreshRow
<1>5. StageMatchesLog /\ StageFollowsLog /\ LogIsConnected
  BY <1>2 DEF StageMatchesLog, StageFollowsLog, LogIsConnected, LedgerInit, FreshRow
<1> QED
  BY <1>3, <1>4, <1>5 DEF LedgerInv

(***************************************************************************)
(* A step that leaves the log of every word with a row alone, and its row  *)
(* but for the card, disturbs nothing.                                     *)
(***************************************************************************)
LEMMA UndisturbedWord ==
    ASSUME LedgerInv, NEW w \in WordIds, rows[w] # None, LogOf(w)' = LogOf(w),
           rows'[w].stage = rows[w].stage,
           rows'[w].attempts = rows[w].attempts,
           rows'[w].correct = rows[w].correct,
           rows'[w].incorrect = rows[w].incorrect
    PROVE  /\ rows'[w].attempts = Cardinality(LogOf(w)')
           /\ rows'[w].correct = Cardinality({e \in LogOf(w)' : IsCorrect(e.rating)})
           /\ rows'[w].incorrect = Cardinality({e \in LogOf(w)' : ~IsCorrect(e.rating)})
           /\ IF MovesOf(w)' = {} THEN rows'[w].stage = "recognition"
              ELSE \A e \in MovesOf(w)' :
                     (\A f \in MovesOf(w)' : f.id <= e.id) => rows'[w].stage = e.movedTo
           /\ \A e \in LogOf(w)' :
                (\A f \in LogOf(w)' : f.id <= e.id) => rows'[w].stage = StageAfter(e)
<1>1. MovesOf(w)' = MovesOf(w)
  BY DEF MovesOf
<1>2. /\ rows[w].attempts = Cardinality(LogOf(w))
      /\ rows[w].correct = Cardinality({e \in LogOf(w) : IsCorrect(e.rating)})
      /\ rows[w].incorrect = Cardinality({e \in LogOf(w) : ~IsCorrect(e.rating)})
  BY DEF LedgerInv, CountsMatchLog
<1>3. IF MovesOf(w) = {} THEN rows[w].stage = "recognition"
      ELSE \A e \in MovesOf(w) :
             (\A f \in MovesOf(w) : f.id <= e.id) => rows[w].stage = e.movedTo
  BY DEF LedgerInv, StageMatchesLog
<1>4. \A e \in LogOf(w) :
        (\A f \in LogOf(w) : f.id <= e.id) => rows[w].stage = StageAfter(e)
  BY DEF LedgerInv, StageFollowsLog
<1> QED
  BY <1>1, <1>2, <1>3, <1>4

\* The same of a word that has just been given its first row.
LEMMA NewWord ==
    ASSUME NEW w \in WordIds, NEW now \in Nat, rows'[w] = FreshRow(now), LogOf(w)' = {}
    PROVE  /\ rows'[w].attempts = Cardinality(LogOf(w)')
           /\ rows'[w].correct = Cardinality({e \in LogOf(w)' : IsCorrect(e.rating)})
           /\ rows'[w].incorrect = Cardinality({e \in LogOf(w)' : ~IsCorrect(e.rating)})
           /\ MovesOf(w)' = {} /\ rows'[w].stage = "recognition"
<1>1. /\ {e \in LogOf(w)' : IsCorrect(e.rating)} = {}
      /\ {e \in LogOf(w)' : ~IsCorrect(e.rating)} = {}
      /\ MovesOf(w)' = {}
  BY DEF MovesOf
<1> QED
  BY <1>1, FS_EmptySet DEF FreshRow

LEMMA EraseCorrect ==
    ASSUME LedgerInv, NEW ws \in SUBSET WordIds, Erase(ws)
    PROVE  LedgerInv'
<1>1. LedgerTypeOK' /\ IsFiniteSet(log)'
  BY FS_Subset DEF LedgerInv, LedgerTypeOK, Rows, Erase
<1>2. \A w \in WordIds : LogOf(w)' = IF w \in ws THEN {} ELSE LogOf(w)
  BY DEF Erase, LogOf
<1>3. \A w \in WordIds : rows'[w] # None => w \notin ws /\ rows'[w] = rows[w]
  BY DEF Erase
<1>4. CountsMatchLog' /\ StageMatchesLog' /\ StageFollowsLog'
  BY <1>2, <1>3, UndisturbedWord DEF CountsMatchLog, StageMatchesLog, StageFollowsLog
<1>5. LogIsConnected'
  BY <1>2 DEF LedgerInv, LogIsConnected
<1> QED
  BY <1>1, <1>4, <1>5 DEF LedgerInv

LEMMA RegisterCorrect ==
    ASSUME LedgerInv, NEW ws \in SUBSET WordIds, NEW now \in Times, Register(ws, now)
    PROVE  LedgerInv'
<1>1. now \in Nat
  BY LedgerAssumption
<1>2. LedgerTypeOK' /\ IsFiniteSet(log)'
  BY <1>1, FreshRowCorrect DEF LedgerInv, LedgerTypeOK, Rows, Register
<1>3. \A w \in WordIds : LogOf(w)' = LogOf(w)
  BY DEF Register, LogOf
<1>4. \A w \in ws : LogOf(w)' = {} /\ rows'[w] = FreshRow(now)
  BY DEF Register, LogOf
<1>5. \A w \in WordIds \ ws : rows'[w] = rows[w]
  BY DEF Register
<1>6. CountsMatchLog' /\ StageMatchesLog' /\ StageFollowsLog'
  BY <1>1, <1>3, <1>4, <1>5, NewWord, UndisturbedWord
     DEF CountsMatchLog, StageMatchesLog, StageFollowsLog
<1>7. LogIsConnected'
  BY <1>3 DEF LedgerInv, LogIsConnected
<1> QED
  BY <1>2, <1>6, <1>7 DEF LedgerInv

LEMMA RescheduleCorrect ==
    ASSUME LedgerInv, Reschedule
    PROVE  LedgerInv'
<1>1. LedgerTypeOK' /\ IsFiniteSet(log)'
  BY DEF LedgerInv, LedgerTypeOK, Reschedule
<1>2. \A w \in WordIds : LogOf(w)' = LogOf(w)
  BY DEF Reschedule, LogOf
<1>3. \A w \in WordIds : rows'[w] # None =>
        /\ rows[w] # None
        /\ rows'[w].stage = rows[w].stage
        /\ rows'[w].attempts = rows[w].attempts
        /\ rows'[w].correct = rows[w].correct
        /\ rows'[w].incorrect = rows[w].incorrect
  <2> SUFFICES ASSUME NEW w \in WordIds, rows'[w] # None,
                      rows[w] # None,
                      rows'[w] = [rows[w] EXCEPT !.card = rows'[w].card]
               PROVE  /\ rows'[w].stage = rows[w].stage
                      /\ rows'[w].attempts = rows[w].attempts
                      /\ rows'[w].correct = rows[w].correct
                      /\ rows'[w].incorrect = rows[w].incorrect
    BY DEF Reschedule
  <2>1. rows[w] \in StateRow
    BY RowIsTyped DEF LedgerInv
  <2> QED
    BY <2>1 DEF StateRow
<1>4. CountsMatchLog' /\ StageMatchesLog' /\ StageFollowsLog'
  BY <1>2, <1>3, UndisturbedWord DEF CountsMatchLog, StageMatchesLog, StageFollowsLog
<1>5. LogIsConnected'
  BY <1>2 DEF LedgerInv, LogIsConnected
<1> QED
  BY <1>1, <1>4, <1>5 DEF LedgerInv

(***************************************************************************)
(* An answer is the newest of its word and is given in the stage the word  *)
(* is in, which the event before it left it in.                            *)
(***************************************************************************)
LEMMA AnswerCorrect ==
    ASSUME LedgerInv, NEW id \in EventIds, NEW w \in WordIds, NEW kind \in Kinds,
           NEW now \in Times, NEW rating \in Ratings, Answer(id, w, kind, now, rating)
    PROVE  LedgerInv'
<1>1. id \in Nat /\ now \in Nat
  BY LedgerAssumption
<1>2. rows[w] # None /\ rows[w] \in StateRow
  BY RowIsTyped DEF LedgerInv, Answer
<1>3. PICK card \in PracticeResults(rows[w].card, kind, now, rating) :
        /\ log' = log \cup {AnswerEvent(id, w, rows[w], card, kind, now, rating)}
        /\ rows' = [rows EXCEPT ![w] = AnsweredRow(rows[w], card, kind, now, rating)]
  BY DEF Answer
<1> DEFINE new == AnswerEvent(id, w, rows[w], card, kind, now, rating)
           answered == AnsweredRow(rows[w], card, kind, now, rating)
<1>4. card \in Card
  BY <1>1, <1>2, SchedulersReturnCards DEF StateRow
<1>5. answered \in StateRow /\ new \in PracticeEvent
  BY <1>1, <1>2, <1>4, AnsweredRowType, AnswerEventType
<1>6. LedgerTypeOK' /\ IsFiniteSet(log)'
  BY <1>3, <1>5, FS_AddElement DEF LedgerInv, LedgerTypeOK, Rows
<1>7. rows'[w] = answered /\ \A v \in WordIds \ {w} : rows'[v] = rows[v]
  BY <1>3 DEF LedgerInv, LedgerTypeOK, Rows
<1>8. new.id = id /\ new.word = w /\ new.rating = rating /\ new.stage = rows[w].stage
  BY DEF AnswerEvent
<1>9. /\ LogOf(w)' = LogOf(w) \cup {new}
      /\ \A v \in WordIds \ {w} : LogOf(v)' = LogOf(v)
  BY <1>3, <1>8 DEF LogOf
<1>10. \A e \in LogOf(w) : e.id < new.id /\ e.id \in Nat
  BY <1>8 DEF Answer, LogOf, LedgerInv, LedgerTypeOK, PracticeEvent
<1>11. new.id \in Nat /\ new \notin LogOf(w)
  BY <1>1, <1>8, <1>10
<1>12. answered.stage = StageAfter(new)
  BY <1>8 DEF AnsweredRow, TransitionAfterRating, AnswerEvent, StageAfter
<1>13. /\ answered.attempts = Cardinality(LogOf(w)')
       /\ answered.correct = Cardinality({e \in LogOf(w)' : IsCorrect(e.rating)})
       /\ answered.incorrect = Cardinality({e \in LogOf(w)' : ~IsCorrect(e.rating)})
  <2> DEFINE right == {e \in LogOf(w) : IsCorrect(e.rating)}
             wrong == {e \in LogOf(w) : ~IsCorrect(e.rating)}
  <2>1. /\ rows[w].attempts = Cardinality(LogOf(w))
        /\ rows[w].correct = Cardinality(right)
        /\ rows[w].incorrect = Cardinality(wrong)
    BY <1>2 DEF LedgerInv, CountsMatchLog
  <2>2. IsFiniteSet(LogOf(w)) /\ IsFiniteSet(right) /\ IsFiniteSet(wrong)
    BY LogPartsFinite DEF LedgerInv
  <2>3. new \notin right /\ new \notin wrong
    BY <1>11
  <2>4. answered.attempts = rows[w].attempts + 1
    BY DEF AnsweredRow, Tally
  <2>5. answered.attempts = Cardinality(LogOf(w)')
    BY <1>9, <1>11, <2>1, <2>2, <2>4, FS_AddElement
  <2>6. CASE IsCorrect(rating)
    <3>1. /\ {e \in LogOf(w)' : IsCorrect(e.rating)} = right \cup {new}
          /\ {e \in LogOf(w)' : ~IsCorrect(e.rating)} = wrong
      BY <1>8, <1>9, <2>6
    <3>2. answered.correct = rows[w].correct + 1 /\ answered.incorrect = rows[w].incorrect
      BY <1>2, <2>6 DEF AnsweredRow, Tally, StateRow
    <3>3. Cardinality(right \cup {new}) = Cardinality(right) + 1
      BY <2>2, <2>3, FS_AddElement
    <3> QED
      BY <2>1, <2>5, <3>1, <3>2, <3>3
  <2>7. CASE ~IsCorrect(rating)
    <3>1. /\ {e \in LogOf(w)' : IsCorrect(e.rating)} = right
          /\ {e \in LogOf(w)' : ~IsCorrect(e.rating)} = wrong \cup {new}
      BY <1>8, <1>9, <2>7
    <3>2. answered.correct = rows[w].correct /\ answered.incorrect = rows[w].incorrect + 1
      BY <1>2, <2>7 DEF AnsweredRow, Tally, StateRow
    <3>3. Cardinality(wrong \cup {new}) = Cardinality(wrong) + 1
      BY <2>2, <2>3, FS_AddElement
    <3> QED
      BY <2>1, <2>5, <3>1, <3>2, <3>3
  <2> QED
    BY <2>6, <2>7
<1>14. CountsMatchLog'
  BY <1>7, <1>9, <1>13, UndisturbedWord DEF CountsMatchLog
<1>15. StageFollowsLog'
  <2>1. \A e \in LogOf(w)' : (\A f \in LogOf(w)' : f.id <= e.id) => e = new
    BY <1>9, <1>10, <1>11
  <2>2. \A e \in LogOf(w)' :
          (\A f \in LogOf(w)' : f.id <= e.id) => answered.stage = StageAfter(e)
    BY <1>12, <2>1
  <2> QED
    BY <1>7, <1>9, <2>2, UndisturbedWord DEF StageFollowsLog
<1>16. StageMatchesLog'
  <2>1. CASE new.movedTo = None
    <3>1. MovesOf(w)' = MovesOf(w)
      BY <1>9, <2>1 DEF MovesOf
    <3>2. answered.stage = rows[w].stage
      BY <1>8, <1>12, <2>1 DEF StageAfter
    <3>3. IF MovesOf(w)' = {} THEN answered.stage = "recognition"
          ELSE \A e \in MovesOf(w)' :
                 (\A f \in MovesOf(w)' : f.id <= e.id) => answered.stage = e.movedTo
      BY <1>2, <3>1, <3>2 DEF LedgerInv, StageMatchesLog
    <3> QED
      BY <1>7, <1>9, <3>3, UndisturbedWord DEF StageMatchesLog
  <2>2. CASE new.movedTo # None
    <3>1. MovesOf(w)' = MovesOf(w) \cup {new}
      BY <1>9, <2>2 DEF MovesOf
    <3>2. \A e \in MovesOf(w)' : (\A f \in MovesOf(w)' : f.id <= e.id) => e = new
      BY <1>10, <1>11, <3>1 DEF MovesOf
    <3>3. answered.stage = new.movedTo
      BY <1>12, <2>2 DEF StageAfter
    <3>4. IF MovesOf(w)' = {} THEN answered.stage = "recognition"
          ELSE \A e \in MovesOf(w)' :
                 (\A f \in MovesOf(w)' : f.id <= e.id) => answered.stage = e.movedTo
      BY <3>1, <3>2, <3>3
    <3> QED
      BY <1>7, <1>9, <3>4, UndisturbedWord DEF StageMatchesLog
  <2> QED
    BY <2>1, <2>2
<1>17. LogIsConnected'
  <2> SUFFICES ASSUME NEW v \in WordIds, NEW e \in LogOf(v)', NEW f \in LogOf(v)', e.id < f.id,
                      ~ \E g \in LogOf(v)' : e.id < g.id /\ g.id < f.id
               PROVE  f.stage = StageAfter(e)
    BY DEF LogIsConnected
  <2>1. CASE v # w
    BY <1>9, <2>1 DEF LedgerInv, LogIsConnected
  <2>2. CASE v = w /\ f # new
    <3>1. e \in LogOf(w) /\ f \in LogOf(w)
      BY <1>9, <1>10, <1>11, <2>2
    <3> QED
      BY <1>9, <2>2, <3>1 DEF LedgerInv, LogIsConnected
  <2>3. CASE v = w /\ f = new
    <3>1. e \in LogOf(w)
      BY <1>9, <1>11, <2>3
    <3>2. \A g \in LogOf(w) : g.id <= e.id
      BY <1>9, <1>10, <2>3, <3>1
    <3>3. rows[w].stage = StageAfter(e)
      BY <1>2, <3>1, <3>2 DEF LedgerInv, StageFollowsLog
    <3> QED
      BY <1>8, <2>3, <3>3
  <2> QED
    BY <2>1, <2>2, <2>3
<1> QED
  BY <1>6, <1>14, <1>15, <1>16, <1>17 DEF LedgerInv

LEMMA LedgerStepCorrect == LedgerInv /\ [LedgerNext]_ledgerVars => LedgerInv'
<1> SUFFICES ASSUME LedgerInv, [LedgerNext]_ledgerVars PROVE LedgerInv'
  OBVIOUS
<1>1. CASE \E ws \in SUBSET WordIds : Erase(ws)
  BY <1>1, EraseCorrect
<1>2. CASE \E ws \in SUBSET WordIds, now \in Times : Register(ws, now)
  BY <1>2, RegisterCorrect
<1>3. CASE \E id \in EventIds, w \in WordIds, kind \in Kinds, now \in Times, rating \in Ratings :
             Answer(id, w, kind, now, rating)
  BY <1>3, AnswerCorrect
<1>4. CASE Reschedule
  BY <1>4, RescheduleCorrect
<1>5. CASE UNCHANGED ledgerVars
  <2>1. rows' = rows /\ log' = log
    BY <1>5 DEF ledgerVars
  <2>2. LedgerTypeOK' /\ IsFiniteSet(log)'
    BY <2>1 DEF LedgerInv, LedgerTypeOK
  <2>3. \A w : LogOf(w)' = LogOf(w) /\ MovesOf(w)' = MovesOf(w)
    BY <2>1 DEF LogOf, MovesOf
  <2>4. CountsMatchLog' /\ StageMatchesLog' /\ StageFollowsLog'
    BY <2>1, <2>3, UndisturbedWord DEF CountsMatchLog, StageMatchesLog, StageFollowsLog
  <2>5. LogIsConnected'
    BY <2>3 DEF LedgerInv, LogIsConnected
  <2> QED
    BY <2>2, <2>4, <2>5 DEF LedgerInv
<1> QED
  BY <1>1, <1>2, <1>3, <1>4, <1>5 DEF LedgerNext

\* What transitionAfterRating and the writing of an event keep between rows and log.
THEOREM LedgerInvariant == LedgerSpec => []LedgerInv
BY LedgerInitCorrect, LedgerStepCorrect, PTL DEF LedgerSpec

-------------------------------------------------------------------------------
(***************************************************************************)
(* A memory row counts exactly the answers in the log (attemptCount,       *)
(* correctCount, incorrectCount).                                          *)
(***************************************************************************)
THEOREM LedgerCounts == LedgerSpec => []CountsMatchLog
<1>1. LedgerInv => CountsMatchLog
  BY DEF LedgerInv
<1> QED
  BY <1>1, LedgerInvariant, PTL

(***************************************************************************)
(* A word is in the stage its last logged change of stage put it in.       *)
(***************************************************************************)
THEOREM LedgerStages == LedgerSpec => []StageMatchesLog
<1>1. LedgerInv => StageMatchesLog
  BY DEF LedgerInv
<1> QED
  BY <1>1, LedgerInvariant, PTL

(***************************************************************************)
(* Consecutive answers to a word are given in the stage the earlier one    *)
(* left it in.                                                             *)
(***************************************************************************)
THEOREM LedgerLogConnected == LedgerSpec => []LogIsConnected
<1>1. LedgerInv => LogIsConnected
  BY DEF LedgerInv
<1> QED
  BY <1>1, LedgerInvariant, PTL

-------------------------------------------------------------------------------
(***************************************************************************)
(* Moves.  A streak of a row counts the answers a change of stage would be *)
(* earned with: those since the last change that nothing has broken off.   *)
(***************************************************************************)
RunIn(evs, ratings, breaking) ==
    {e \in evs : /\ e.rating \in ratings
                 /\ ~ \E g \in evs : e.id < g.id /\ g.rating \in breaking}

Recent(w) ==
    {e \in LogOf(w) : e.kind = "scheduled" /\ \A m \in MovesOf(w) : m.id < e.id}

StreakMatches(row, evs) ==
    IF row.stage = "contextRecall"
    THEN row.failureStreak = Cardinality(RunIn(evs, {"again"}, {"good", "easy"}))
    ELSE row.masteryStreak = Cardinality(RunIn(evs, {"good"}, {"again", "hard"}))

StreaksMatchLog == \A w \in WordIds : rows[w] # None => StreakMatches(rows[w], Recent(w))

LedgerRowsWellFormed == \A w \in WordIds : rows[w] # None => WellFormed(rows[w])

MoveEarned(d) ==
    IF d.stage = "contextRecall"
    THEN Cardinality(Unbroken(d, {"again"}, {"good", "easy"})) = RequiredContextFailures
    ELSE \/ d.rating = "easy" /\ d.kind = "scheduled"
         \/ Cardinality(Unbroken(d, {"good"}, {"again", "hard"})) = RequiredMasteryReviews

MovesInv == LedgerRowsWellFormed /\ StreaksMatchLog /\ MovesAreEarned

LEMMA UnbrokenIsRun ==
    ASSUME NEW d, NEW ratings, NEW breaking
    PROVE  Unbroken(d, ratings, breaking) = RunIn(SinceLastMove(d), ratings, breaking)
BY DEF Unbroken, RunIn

\* An answer that comes after all of the others.
Newer(new, evs) == new.id \in Nat /\ \A e \in evs : e.id \in Nat /\ e.id < new.id

\* One more answer of the right kind, newer than the others, lengthens a run.
LEMMA RunGrows ==
    ASSUME NEW evs, IsFiniteSet(evs), NEW new, NEW later, later = evs \cup {new},
           NEW ratings, NEW breaking,
           Newer(new, evs), new.rating \in ratings, new.rating \notin breaking
    PROVE  \E n \in Nat : /\ Cardinality(RunIn(evs, ratings, breaking)) = n
                         /\ Cardinality(RunIn(later, ratings, breaking)) = n + 1
<1> DEFINE run == RunIn(evs, ratings, breaking)
<1>1. IsFiniteSet(run)
  BY FS_Subset DEF RunIn
<1>2. new \notin evs /\ ~(new.id < new.id)
  BY DEF Newer
<1>3. RunIn(later, ratings, breaking) = run \cup {new} /\ new \notin run
  BY <1>2 DEF RunIn, Newer
<1> QED
  BY <1>1, <1>3, FS_AddElement, FS_CardinalityType

\* One that is neither part of a run nor breaks it off leaves it.
LEMMA RunStays ==
    ASSUME NEW evs, NEW new, NEW later, later = evs \cup {new}, NEW ratings, NEW breaking,
           Newer(new, evs), new.rating \notin ratings, new.rating \notin breaking
    PROVE  RunIn(later, ratings, breaking) = RunIn(evs, ratings, breaking)
<1>1. new \notin evs /\ ~(new.id < new.id)
  BY DEF Newer
<1> QED
  BY <1>1 DEF RunIn, Newer

\* One that breaks a run off leaves nothing of it.
LEMMA RunEnds ==
    ASSUME NEW evs, NEW new, NEW later, later = evs \cup {new}, NEW ratings, NEW breaking,
           Newer(new, evs), new.rating \notin ratings, new.rating \in breaking
    PROVE  Cardinality(RunIn(later, ratings, breaking)) = 0
<1>1. RunIn(later, ratings, breaking) = {}
  BY DEF RunIn, Newer
<1> QED
  BY <1>1, FS_EmptySet

\* The answers since a word's last move are finite in number.
LEMMA RecentFinite ==
    ASSUME LedgerInv, NEW w
    PROVE  IsFiniteSet(Recent(w))
BY FS_Subset DEF LedgerInv, Recent, LogOf

\* Where a word's part of the log stays, its moves stay earned as they were.
LEMMA MoveStaysEarned ==
    ASSUME NEW d, LogOf(d.word)' = LogOf(d.word), MoveEarned(d)
    PROVE  MoveEarned(d)'
<1>1. MovesOf(d.word)' = MovesOf(d.word)
  BY DEF MovesOf
<1>2. SinceLastMove(d)' = SinceLastMove(d)
  BY <1>1 DEF SinceLastMove
<1> QED
  BY <1>2 DEF MoveEarned, Unbroken

LEMMA InitMovesEarned == LedgerInit => MovesInv
<1> SUFFICES ASSUME LedgerInit PROVE MovesInv
  OBVIOUS
<1>1. \A w \in WordIds : rows[w] # None => rows[w] = FreshRow(0)
  BY DEF LedgerInit
<1>2. LedgerRowsWellFormed
  BY <1>1, FreshRowCorrect DEF LedgerRowsWellFormed
<1>3. StreaksMatchLog
  <2>1. \A w, ratings, breaking : RunIn(Recent(w), ratings, breaking) = {}
    BY DEF LedgerInit, Recent, LogOf, RunIn
  <2> QED
    BY <1>1, <2>1, FS_EmptySet DEF StreaksMatchLog, StreakMatches, FreshRow
<1>4. MovesAreEarned
  BY DEF LedgerInit, MovesAreEarned
<1> QED
  BY <1>2, <1>3, <1>4 DEF MovesInv

\* A word whose log and whose row's stage, streaks and counters stay, stays as it was.
LEMMA UndisturbedStreak ==
    ASSUME MovesInv, NEW w \in WordIds, rows[w] # None, LogOf(w)' = LogOf(w),
           NEW row, row.stage = rows[w].stage,
           row.masteryStreak = rows[w].masteryStreak, row.failureStreak = rows[w].failureStreak
    PROVE  StreakMatches(row, Recent(w)')
<1>1. Recent(w)' = Recent(w)
  BY DEF Recent, MovesOf
<1>2. StreakMatches(rows[w], Recent(w))
  BY DEF MovesInv, StreaksMatchLog
<1> QED
  BY <1>1, <1>2 DEF StreakMatches

LEMMA EraseKeepsMoves ==
    ASSUME LedgerInv, MovesInv, NEW ws \in SUBSET WordIds, Erase(ws)
    PROVE  MovesInv'
<1>1. \A w \in WordIds : w \notin ws => LogOf(w)' = LogOf(w)
  BY DEF Erase, LogOf
<1>2. \A w \in WordIds : rows'[w] # None => w \notin ws /\ rows'[w] = rows[w] /\ rows[w] # None
  BY DEF Erase
<1>3. LedgerRowsWellFormed'
  BY <1>2 DEF MovesInv, LedgerRowsWellFormed
<1>4. StreaksMatchLog'
  <2> SUFFICES ASSUME NEW w \in WordIds, rows'[w] # None
               PROVE  StreakMatches(rows'[w], Recent(w)')
    BY DEF StreaksMatchLog
  <2> QED
    BY <1>1, <1>2, UndisturbedStreak
<1>5. MovesAreEarned'
  <2> SUFFICES ASSUME NEW d \in log', d.movedTo # None PROVE MoveEarned(d)'
    BY DEF MovesAreEarned, MoveEarned
  <2>1. d \in log /\ d.word \notin ws /\ d.word \in WordIds
    BY DEF Erase, LedgerInv, LedgerTypeOK, PracticeEvent
  <2>2. MoveEarned(d)
    BY <2>1 DEF MovesInv, MovesAreEarned, MoveEarned
  <2> QED
    BY <1>1, <2>1, <2>2, MoveStaysEarned
<1> QED
  BY <1>3, <1>4, <1>5 DEF MovesInv

\* What leaves the log alone leaves every move as earned as it was.
LEMMA SameLogSameMoves ==
    ASSUME LedgerInv, MovesInv, UNCHANGED log
    PROVE  MovesAreEarned'
<1> SUFFICES ASSUME NEW d \in log, d.movedTo # None PROVE MoveEarned(d)'
  BY DEF MovesAreEarned, MoveEarned
<1>1. LogOf(d.word)' = LogOf(d.word)
  BY DEF LogOf
<1>2. MoveEarned(d)
  BY DEF MovesInv, MovesAreEarned, MoveEarned
<1> QED
  BY <1>1, <1>2, MoveStaysEarned

LEMMA RegisterKeepsMoves ==
    ASSUME LedgerInv, MovesInv, NEW ws \in SUBSET WordIds, NEW now \in Times, Register(ws, now)
    PROVE  MovesInv'
<1>1. now \in Nat
  BY LedgerAssumption
<1>2. \A w \in WordIds : LogOf(w)' = LogOf(w)
  BY DEF Register, LogOf
<1>3. \A w \in ws : LogOf(w)' = {} /\ rows'[w] = FreshRow(now)
  BY DEF Register, LogOf
<1>4. \A w \in WordIds \ ws : rows'[w] = rows[w]
  BY DEF Register
<1>5. LedgerRowsWellFormed'
  BY <1>1, <1>3, <1>4, FreshRowCorrect DEF MovesInv, LedgerRowsWellFormed
<1>6. StreaksMatchLog'
  <2> SUFFICES ASSUME NEW w \in WordIds, rows'[w] # None
               PROVE  StreakMatches(rows'[w], Recent(w)')
    BY DEF StreaksMatchLog
  <2>1. CASE w \in ws
    <3>1. \A ratings, breaking : RunIn(Recent(w)', ratings, breaking) = {}
      BY <1>3, <2>1 DEF Recent, RunIn
    <3> QED
      BY <1>3, <2>1, <3>1, FS_EmptySet DEF StreakMatches, FreshRow
  <2>2. CASE w \notin ws
    BY <1>2, <1>4, <2>2, UndisturbedStreak
  <2> QED
    BY <2>1, <2>2
<1>7. MovesAreEarned'
  BY SameLogSameMoves DEF Register
<1> QED
  BY <1>5, <1>6, <1>7 DEF MovesInv

LEMMA RescheduleKeepsMoves ==
    ASSUME LedgerInv, MovesInv, Reschedule
    PROVE  MovesInv'
<1>1. \A w \in WordIds : LogOf(w)' = LogOf(w)
  BY DEF Reschedule, LogOf
<1>2. \A w \in WordIds : rows'[w] # None =>
        /\ rows[w] # None
        /\ WellFormed(rows'[w])
        /\ rows'[w].stage = rows[w].stage
        /\ rows'[w].masteryStreak = rows[w].masteryStreak
        /\ rows'[w].failureStreak = rows[w].failureStreak
  <2> SUFFICES ASSUME NEW w \in WordIds, rows'[w] # None, rows[w] # None,
                      rows'[w] = rows[w] \/ rows'[w] = [rows[w] EXCEPT !.card = rows'[w].card]
               PROVE  /\ WellFormed(rows'[w])
                      /\ rows'[w].stage = rows[w].stage
                      /\ rows'[w].masteryStreak = rows[w].masteryStreak
                      /\ rows'[w].failureStreak = rows[w].failureStreak
    BY DEF Reschedule
  <2>1. rows[w] \in StateRow /\ WellFormed(rows[w])
    BY RowIsTyped DEF LedgerInv, MovesInv, LedgerRowsWellFormed
  <2> QED
    BY <2>1 DEF StateRow, WellFormed
<1>3. LedgerRowsWellFormed'
  BY <1>2 DEF LedgerRowsWellFormed
<1>4. StreaksMatchLog'
  <2> SUFFICES ASSUME NEW w \in WordIds, rows'[w] # None
               PROVE  StreakMatches(rows'[w], Recent(w)')
    BY DEF StreaksMatchLog
  <2> QED
    BY <1>1, <1>2, UndisturbedStreak
<1>5. MovesAreEarned'
  BY SameLogSameMoves DEF Reschedule
<1> QED
  BY <1>3, <1>4, <1>5 DEF MovesInv

(***************************************************************************)
(* The answer that moves a word ends a run of the required length; any     *)
(* other lengthens the run, breaks it off or leaves it, as it does with    *)
(* the streak of the row (transitionAfterRating).                          *)
(***************************************************************************)
LEMMA StreakFollowsRun ==
    ASSUME NEW row \in StateRow, WellFormed(row), NEW kind \in Kinds, NEW rating \in Ratings,
           NEW evs, IsFiniteSet(evs), StreakMatches(row, evs),
           NEW new, Newer(new, evs),
           new.rating = rating, new.kind = kind, new.stage = row.stage,
           NEW later, later = IF kind = "scheduled" THEN evs \cup {new} ELSE evs
    PROVE  /\ row.stage = "contextRecall" =>
                FailuresAfter(row, kind, rating)
                  = Cardinality(RunIn(later, {"again"}, {"good", "easy"}))
           /\ (row.stage # "contextRecall" /\ ~(kind = "scheduled" /\ rating = "easy")) =>
                MasteryAfter(row, kind, rating)
                  = Cardinality(RunIn(later, {"good"}, {"again", "hard"}))
<1>1. rating \in {"again", "hard", "good", "easy"} /\ kind \in {"scheduled", "extra"}
  BY DEF Ratings, Kinds
<1>2. CASE kind = "extra"
  BY <1>2 DEF StreakMatches, FailuresAfter, MasteryAfter
<1>3. CASE kind = "scheduled" /\ row.stage = "contextRecall"
  <2> DEFINE kept == {"again"}
             breaking == {"good", "easy"}
             before == RunIn(evs, kept, breaking)
             after == RunIn(later, kept, breaking)
  <2>1. later = evs \cup {new}
    BY <1>3
  <2>2. row.failureStreak = Cardinality(before)
    BY <1>3 DEF StreakMatches
  <2>3. /\ rating = "again" => new.rating \in kept /\ new.rating \notin breaking
        /\ rating = "hard" => new.rating \notin kept /\ new.rating \notin breaking
        /\ rating \in {"good", "easy"} => new.rating \notin kept /\ new.rating \in breaking
    OBVIOUS
  <2>4. FailuresAfter(row, kind, rating) = Cardinality(after)
    <3> HIDE DEF kept, breaking
    <3>1. CASE rating = "again"
      <4>1. PICK n \in Nat : Cardinality(before) = n /\ Cardinality(after) = n + 1
        BY <2>1, <2>3, <3>1, RunGrows
      <4> QED
        BY <1>3, <2>2, <3>1, <4>1 DEF FailuresAfter
    <3>2. CASE rating = "hard"
      <4>1. after = before
        BY <2>1, <2>3, <3>2, RunStays
      <4> QED
        BY <1>3, <2>2, <3>2, <4>1 DEF FailuresAfter
    <3>3. CASE rating \in {"good", "easy"}
      <4>1. Cardinality(after) = 0
        BY <2>1, <2>3, <3>3, RunEnds
      <4>2. rating # "again" /\ rating # "hard" /\ kind # "extra"
        BY <1>3, <3>3
      <4>3. FailuresAfter(row, kind, rating) = 0
        BY <1>3, <4>2 DEF FailuresAfter
      <4> QED
        BY <4>1, <4>3
    <3> QED
      BY <1>1, <3>1, <3>2, <3>3
  <2> QED
    BY <1>3, <2>1, <2>4
<1>4. CASE kind = "scheduled" /\ row.stage # "contextRecall"
  <2> DEFINE kept == {"good"}
             breaking == {"again", "hard"}
             before == RunIn(evs, kept, breaking)
             after == RunIn(later, kept, breaking)
  <2>1. later = evs \cup {new}
    BY <1>4
  <2>2. row.masteryStreak = Cardinality(before)
    BY <1>4 DEF StreakMatches
  <2>3. /\ rating = "good" => new.rating \in kept /\ new.rating \notin breaking
        /\ rating \in {"again", "hard"} => new.rating \notin kept /\ new.rating \in breaking
    OBVIOUS
  <2>4. rating # "easy" => MasteryAfter(row, kind, rating) = Cardinality(after)
    <3> HIDE DEF kept, breaking
    <3>1. CASE rating = "good"
      <4>1. PICK n \in Nat : Cardinality(before) = n /\ Cardinality(after) = n + 1
        BY <2>1, <2>3, <3>1, RunGrows
      <4> QED
        BY <1>4, <2>2, <3>1, <4>1 DEF MasteryAfter
    <3>2. CASE rating \in {"again", "hard"}
      <4>1. Cardinality(after) = 0
        BY <2>1, <2>3, <3>2, RunEnds
      <4> QED
        BY <1>4, <2>2, <3>2, <4>1 DEF MasteryAfter
    <3> QED
      BY <1>1, <3>1, <3>2
  <2> QED
    BY <1>4, <2>1, <2>4
<1> QED
  BY <1>1, <1>2, <1>3, <1>4

\* An answer that moves the word is scheduled, and its run is as long as is required.
LEMMA MovingAnswers ==
    ASSUME NEW row \in StateRow, WellFormed(row), NEW kind \in Kinds, NEW rating \in Ratings,
           MovedTo(row, kind, rating) # None
    PROVE  /\ kind = "scheduled"
           /\ row.stage = "contextRecall" =>
                FailuresAfter(row, kind, rating) = RequiredContextFailures
           /\ (row.stage # "contextRecall" /\ rating # "easy") =>
                MasteryAfter(row, kind, rating) = RequiredMasteryReviews
<1>1. Mastered(row, kind, rating) \/ LostInContext(row, kind, rating)
  BY DEF MovedTo
<1>2. /\ row.masteryStreak \in Nat /\ row.masteryStreak < RequiredMasteryReviews
      /\ row.failureStreak \in Nat /\ row.failureStreak < RequiredContextFailures
  BY DEF WellFormed, StateRow
<1>3. rating \in {"again", "hard", "good", "easy"} /\ kind \in {"scheduled", "extra"}
  BY DEF Ratings, Kinds
<1>4. CASE LostInContext(row, kind, rating)
  BY <1>2, <1>3, <1>4
     DEF LostInContext, FailuresAfter, RequiredContextFailures
<1>5. CASE Mastered(row, kind, rating)
  BY <1>2, <1>3, <1>5
     DEF Mastered, MasteryAfter, RequiredMasteryReviews
<1> QED
  BY <1>1, <1>4, <1>5

\* What an answer adds to the log, for its word and for the others.
LEMMA AnswerEnters ==
    ASSUME LedgerInv, NEW w \in WordIds, NEW new, new.id \in Nat, new.word = w,
           \A e \in log : e.id < new.id, log' = log \cup {new}
    PROVE  /\ LogOf(w)' = LogOf(w) \cup {new}
           /\ \A v : v # w => LogOf(v)' = LogOf(v)
           /\ new \notin LogOf(w)
           /\ Newer(new, LogOf(w)) /\ Newer(new, Recent(w))
<1>1. \A e \in log : e.id \in Nat
  BY DEF LedgerInv, LedgerTypeOK, PracticeEvent
<1> QED
  BY <1>1 DEF LogOf, Recent, Newer

\* The answers since the last move, as the answer that may end them finds them.
LEMMA RunBehindAnswer ==
    ASSUME NEW w, NEW new, new.word = w, Newer(new, LogOf(w)), LogOf(w)' = LogOf(w) \cup {new},
           NEW later, later = IF new.kind = "scheduled" THEN Recent(w) \cup {new} ELSE Recent(w)
    PROVE  SinceLastMove(new)' = later
<1>1. \A m \in MovesOf(w)' : m.id < new.id => m \in MovesOf(w)
  BY DEF MovesOf, Newer
<1>2. \A m \in MovesOf(w) : m \in MovesOf(w)' /\ m.id < new.id
  BY DEF MovesOf, Newer
<1>3. \A e \in LogOf(w) : e.id < new.id /\ e.id <= new.id
  BY DEF Newer
<1>4. new.id <= new.id
  BY DEF Newer
<1> QED
  BY <1>1, <1>2, <1>3, <1>4 DEF SinceLastMove, Recent

\* Moves of the word that were earned before the answer stay earned.
LEMMA EarlierMovesStayEarned ==
    ASSUME NEW w, NEW new, new.word = w, Newer(new, LogOf(w)), LogOf(w)' = LogOf(w) \cup {new},
           NEW d \in LogOf(w), d.word = w, MoveEarned(d)
    PROVE  MoveEarned(d)'
<1>1. \A e \in LogOf(w)' : e.id <= d.id => e \in LogOf(w)
  BY DEF Newer
<1>2. \A m \in MovesOf(w)' : m.id < d.id => m \in MovesOf(w)
  BY DEF Newer, MovesOf
<1>3. \A m \in MovesOf(w) : m \in MovesOf(w)'
  BY DEF MovesOf
<1>4. SinceLastMove(d)' = SinceLastMove(d)
  BY <1>1, <1>2, <1>3 DEF SinceLastMove
<1> QED
  BY <1>4 DEF MoveEarned, Unbroken

LEMMA AnswerKeepsMoves ==
    ASSUME LedgerInv, MovesInv, NEW id \in EventIds, NEW w \in WordIds, NEW kind \in Kinds,
           NEW now \in Times, NEW rating \in Ratings, Answer(id, w, kind, now, rating)
    PROVE  MovesInv'
<1> DEFINE row == rows[w]
<1>1. id \in Nat /\ now \in Nat
  BY LedgerAssumption
<1>2. row \in StateRow /\ WellFormed(row) /\ StreakMatches(row, Recent(w))
  BY RowIsTyped DEF LedgerInv, Answer, MovesInv, LedgerRowsWellFormed, StreaksMatchLog
<1>3. PICK card \in PracticeResults(row.card, kind, now, rating) :
        /\ log' = log \cup {AnswerEvent(id, w, row, card, kind, now, rating)}
        /\ rows' = [rows EXCEPT ![w] = AnsweredRow(row, card, kind, now, rating)]
  BY DEF Answer
<1>3a. PICK new : new = AnswerEvent(id, w, row, card, kind, now, rating)
  OBVIOUS
<1> DEFINE answered == AnsweredRow(row, card, kind, now, rating)
           later == IF kind = "scheduled" THEN Recent(w) \cup {new} ELSE Recent(w)
<1>4. card \in Card
  BY <1>1, <1>2, SchedulersReturnCards DEF StateRow
<1>5. rows'[w] = answered /\ \A v \in WordIds \ {w} : rows'[v] = rows[v]
  BY <1>3 DEF LedgerInv, LedgerTypeOK, Rows
<1>6. /\ new.id = id /\ new.word = w /\ new.kind = kind /\ new.rating = rating
      /\ new.stage = row.stage /\ new.movedTo = MovedTo(row, kind, rating)
  BY <1>3a DEF AnswerEvent
<1>7. /\ LogOf(w)' = LogOf(w) \cup {new}
      /\ \A v : v # w => LogOf(v)' = LogOf(v)
      /\ new \notin LogOf(w)
      /\ Newer(new, LogOf(w)) /\ Newer(new, Recent(w))
  <2>1. \A e \in log : e.id < new.id
    BY <1>6 DEF Answer
  <2> QED
    BY <1>1, <1>3, <1>6, <1>3a, <2>1, AnswerEnters
<1> HIDE DEF answered, row
<1>8. /\ row.stage = "contextRecall" =>
           FailuresAfter(row, kind, rating) = Cardinality(RunIn(later, {"again"}, {"good", "easy"}))
      /\ (row.stage # "contextRecall" /\ ~(kind = "scheduled" /\ rating = "easy")) =>
           MasteryAfter(row, kind, rating) = Cardinality(RunIn(later, {"good"}, {"again", "hard"}))
  BY <1>2, <1>6, <1>7, RecentFinite, StreakFollowsRun
<1>9. LedgerRowsWellFormed'
  <2>1. WellFormed(answered)
    BY <1>1, <1>2, <1>4, AnsweredRowWellFormed DEF answered
  <2> QED
    BY <1>5, <2>1 DEF MovesInv, LedgerRowsWellFormed
<1>10. StreaksMatchLog'
  <2>1. CASE new.movedTo = None
    <3>1. Recent(w)' = later
      <4>1. MovesOf(w)' = MovesOf(w)
        BY <1>7, <2>1 DEF MovesOf
      <4>2. \A m \in MovesOf(w) : m.id < new.id
        BY <1>7 DEF MovesOf, Newer
      <4> QED
        BY <1>6, <1>7, <4>1, <4>2 DEF Recent
    <3>2. /\ answered.stage = row.stage
          /\ answered.failureStreak = FailuresAfter(row, kind, rating)
          /\ answered.masteryStreak = MasteryAfter(row, kind, rating)
      BY <1>6, <2>1 DEF answered, AnsweredRow, TransitionAfterRating
    <3>3. row.stage # "contextRecall" => ~(kind = "scheduled" /\ rating = "easy")
      <4>1. MasteryAfter(row, kind, rating) < RequiredMasteryReviews
        BY <1>2, <1>6, <2>1, StreaksStayShort
      <4> QED
        BY <4>1 DEF MasteryAfter, RequiredMasteryReviews
    <3>4. StreakMatches(answered, later)
      BY <1>8, <3>2, <3>3 DEF StreakMatches
    <3> QED
      BY <1>5, <1>7, <3>1, <3>4, UndisturbedStreak DEF StreaksMatchLog
  <2>2. CASE new.movedTo # None
    <3>1. Recent(w)' = {}
      <4>1. new \in MovesOf(w)'
        BY <1>7, <2>2 DEF MovesOf
      <4>2. \A e \in LogOf(w)' : ~(new.id < e.id)
        BY <1>7 DEF Newer
      <4> QED
        BY <4>1, <4>2 DEF Recent
    <3>2. answered.failureStreak = 0 /\ answered.masteryStreak = 0
      BY <1>6, <2>2 DEF answered, AnsweredRow, TransitionAfterRating
    <3>3. \A ratings, breaking : Cardinality(RunIn(Recent(w)', ratings, breaking)) = 0
      <4>1. \A ratings, breaking : RunIn(Recent(w)', ratings, breaking) = {}
        BY <3>1 DEF RunIn
      <4> QED
        BY <4>1, FS_EmptySet
    <3>4. StreakMatches(answered, Recent(w)')
      BY <3>2, <3>3 DEF StreakMatches
    <3> QED
      BY <1>5, <1>7, <3>4, UndisturbedStreak DEF StreaksMatchLog
  <2> QED
    BY <2>1, <2>2
<1>11. MovesAreEarned'
  <2> SUFFICES ASSUME NEW d \in log', d.movedTo # None PROVE MoveEarned(d)'
    BY DEF MovesAreEarned, MoveEarned
  <2>1. CASE d = new
    <3>1. SinceLastMove(new)' = later
      <4>1. later = IF new.kind = "scheduled" THEN Recent(w) \cup {new} ELSE Recent(w)
        BY <1>6
      <4> HIDE DEF later
      <4> QED
        BY <1>6, <1>7, <4>1, RunBehindAnswer
    <3>2. MovedTo(row, kind, rating) # None
      BY <1>6, <2>1
    <3>3. /\ kind = "scheduled"
          /\ row.stage = "contextRecall" =>
               FailuresAfter(row, kind, rating) = RequiredContextFailures
          /\ (row.stage # "contextRecall" /\ rating # "easy") =>
               MasteryAfter(row, kind, rating) = RequiredMasteryReviews
      BY <1>2, <3>2, MovingAnswers
    <3>4. /\ Unbroken(new, {"again"}, {"good", "easy"})' = RunIn(later, {"again"}, {"good", "easy"})
          /\ Unbroken(new, {"good"}, {"again", "hard"})' = RunIn(later, {"good"}, {"again", "hard"})
      BY <3>1 DEF Unbroken, RunIn
    <3> HIDE DEF later
    <3>5. /\ row.stage = "contextRecall" =>
               Cardinality(Unbroken(new, {"again"}, {"good", "easy"})') = RequiredContextFailures
          /\ (row.stage # "contextRecall" /\ rating # "easy") =>
               Cardinality(Unbroken(new, {"good"}, {"again", "hard"})') = RequiredMasteryReviews
      BY <1>8, <3>3, <3>4
    <3> QED
      BY <1>6, <2>1, <3>3, <3>5 DEF MoveEarned
  <2>2. CASE d # new
    <3>1. d \in log
      BY <1>3, <1>3a, <2>2 DEF row
    <3>2. MoveEarned(d)
      BY <3>1 DEF MovesInv, MovesAreEarned, MoveEarned
    <3>3. CASE d.word = w
      BY <1>6, <1>7, <3>1, <3>2, <3>3, EarlierMovesStayEarned DEF LogOf
    <3>4. CASE d.word # w
      BY <1>7, <3>2, <3>4, MoveStaysEarned
    <3> QED
      BY <3>3, <3>4
  <2> QED
    BY <2>1, <2>2
<1> QED
  BY <1>9, <1>10, <1>11 DEF MovesInv

LEMMA MovesStep == LedgerInv /\ MovesInv /\ [LedgerNext]_ledgerVars => MovesInv'
<1> SUFFICES ASSUME LedgerInv, MovesInv, [LedgerNext]_ledgerVars PROVE MovesInv'
  OBVIOUS
<1>1. CASE \E ws \in SUBSET WordIds : Erase(ws)
  BY <1>1, EraseKeepsMoves
<1>2. CASE \E ws \in SUBSET WordIds, now \in Times : Register(ws, now)
  BY <1>2, RegisterKeepsMoves
<1>3. CASE \E id \in EventIds, w \in WordIds, kind \in Kinds, now \in Times, rating \in Ratings :
             Answer(id, w, kind, now, rating)
  BY <1>3, AnswerKeepsMoves
<1>4. CASE Reschedule
  BY <1>4, RescheduleKeepsMoves
<1>5. CASE UNCHANGED ledgerVars
  <2>1. rows' = rows /\ log' = log /\ \A w : LogOf(w)' = LogOf(w)
    BY <1>5 DEF ledgerVars, LogOf
  <2>2. LedgerRowsWellFormed'
    BY <2>1 DEF MovesInv, LedgerRowsWellFormed
  <2>3. StreaksMatchLog'
    BY <2>1, UndisturbedStreak DEF StreaksMatchLog
  <2> QED
    BY <2>1, <2>2, <2>3, SameLogSameMoves DEF MovesInv
<1> QED
  BY <1>1, <1>2, <1>3, <1>4, <1>5 DEF LedgerNext

(***************************************************************************)
(* A word changes stage only on the strength of the scheduled answers      *)
(* since its last change: three unforgiven "again"s take it out of context *)
(* recall, an "easy" or two "good"s in a row move it up                    *)
(* (transitionAfterRating).                                                *)
(***************************************************************************)
THEOREM LedgerMovesEarned == LedgerSpec => []MovesAreEarned
<1>1. MovesInv => MovesAreEarned
  BY DEF MovesInv
<1> QED
  BY <1>1, InitMovesEarned, MovesStep, LedgerInvariant, PTL DEF LedgerSpec

-------------------------------------------------------------------------------
(***************************************************************************)
(* Example sentences: whatever the shuffles, selectExample shows another   *)
(* example after every answer, and all of them in a cycle.                 *)
(***************************************************************************)
LEMMA Division ==
    ASSUME NEW k \in Nat, NEW n \in Nat \ {0}
    PROVE  /\ k \div n \in Nat /\ k % n \in 0 .. (n - 1)
           /\ k = n * (k \div n) + (k % n)
OBVIOUS

LEMMA DivisionIsUnique ==
    ASSUME NEW n \in Nat \ {0}, NEW q \in Nat, NEW r \in 0 .. (n - 1)
    PROVE  (n * q + r) \div n = q /\ (n * q + r) % n = r
OBVIOUS

\* An order of a pool shows every example once.
LEMMA OrderIsComplete ==
    ASSUME NEW pool, IsFiniteSet(pool), NEW order \in Orders(pool)
    PROVE  /\ order \in [0 .. (Cardinality(pool) - 1) -> pool]
           /\ \A i, j \in 0 .. (Cardinality(pool) - 1) : order[i] = order[j] => i = j
           /\ \A x \in pool : \E i \in 0 .. (Cardinality(pool) - 1) : order[i] = x
<1> DEFINE slots == 0 .. (Cardinality(pool) - 1)
<1>1. order \in [slots -> pool] /\ \A i, j \in slots : order[i] = order[j] => i = j
  BY DEF Orders
<1>2. order \in Injection(slots, pool)
  BY <1>1 DEF Injection, IsInjective
<1>3. Cardinality(pool) \in Nat
  BY FS_CardinalityType
<1>4. Cardinality(slots) = Cardinality(pool)
  BY <1>3, FS_Interval
<1>5. order \in Surjection(slots, pool)
  BY <1>2, <1>4, FS_Injection
<1>6. \A x \in pool : \E i \in slots : order[i] = x
  BY <1>5 DEF Surjection
<1> QED
  BY <1>1, <1>6

\* The order of a cycle is an order, and does not begin where the last one ended.
LEMMA CycleOrderCorrect ==
    ASSUME NEW pool, IsFiniteSet(pool), Cardinality(pool) > 2,
           NEW shuffled, NEW cycle \in Nat, shuffled[cycle] \in Orders(pool)
    PROVE  /\ CycleOrder(cycle, shuffled) \in Orders(pool)
           /\ CycleOrder(cycle, shuffled)[Cardinality(pool) - 1] = shuffled[cycle][Cardinality(pool) - 1]
           /\ cycle > 0 =>
                CycleOrder(cycle, shuffled)[0] # shuffled[cycle - 1][Cardinality(pool) - 1]
<1>1. PICK n \in Nat : n = Cardinality(pool) /\ n > 2
  BY FS_CardinalityType
<1>2. PICK order : order = shuffled[cycle]
  OBVIOUS
<1>3. order \in Orders(pool) /\ order \in [0 .. (n - 1) -> pool]
      /\ \A i, j \in 0 .. (n - 1) : order[i] = order[j] => i = j
  BY <1>1, <1>2, OrderIsComplete
<1>4. Cardinality(DOMAIN order) = n
  BY <1>1, <1>3, FS_Interval
<1>5. CASE cycle > 0 /\ order[0] = shuffled[cycle - 1][n - 1]
  <2>1. CycleOrder(cycle, shuffled) = [order EXCEPT ![0] = order[1], ![1] = order[0]]
    BY <1>2, <1>4, <1>5 DEF CycleOrder
  <2>2. PICK new : new = [order EXCEPT ![0] = order[1], ![1] = order[0]]
    OBVIOUS
  <2>3. new \in [0 .. (n - 1) -> pool]
        /\ new[0] = order[1] /\ new[1] = order[0] /\ \A i \in 2 .. (n - 1) : new[i] = order[i]
    BY <1>1, <1>3, <2>2
  <2>4. \A i, j \in 0 .. (n - 1) : new[i] = new[j] => i = j
    BY <1>1, <1>3, <2>3
  <2>5. new \in Orders(pool)
    BY <1>1, <2>3, <2>4 DEF Orders
  <2>6. new[n - 1] = order[n - 1] /\ new[0] # order[0]
    BY <1>1, <1>3, <2>3
  <2> QED
    BY <1>1, <1>2, <1>5, <2>1, <2>2, <2>5, <2>6
<1>6. CASE ~(cycle > 0 /\ order[0] = shuffled[cycle - 1][n - 1])
  <2>1. CycleOrder(cycle, shuffled) = order
    BY <1>2, <1>4, <1>6 DEF CycleOrder
  <2> QED
    BY <1>1, <1>2, <1>3, <1>6, <2>1
<1> QED
  BY <1>5, <1>6

\* Counters one apart, in one cycle or across the end of one.
LEMMA NextCounter ==
    ASSUME NEW now \in Nat \ {0}, NEW n \in Nat \ {0}
    PROVE  IF now % n = 0
           THEN /\ now \div n > 0
                /\ (now - 1) \div n = (now \div n) - 1 /\ (now - 1) % n = n - 1
           ELSE /\ (now - 1) \div n = now \div n /\ (now - 1) % n = (now % n) - 1
<1>1. PICK q \in Nat, r \in 0 .. (n - 1) : now = n * q + r /\ now \div n = q /\ now % n = r
  BY Division
<1>2. CASE r = 0
  <2>1. q > 0
    BY <1>1, <1>2
  <2>2. now - 1 = n * (q - 1) + (n - 1) /\ q - 1 \in Nat /\ n - 1 \in 0 .. (n - 1)
    BY <1>1, <1>2, <2>1
  <2> QED
    BY <1>1, <1>2, <2>1, <2>2, DivisionIsUnique
<1>3. CASE r # 0
  <2>1. now - 1 = n * q + (r - 1) /\ r - 1 \in 0 .. (n - 1)
    BY <1>1, <1>3
  <2> QED
    BY <1>1, <1>3, <2>1, DivisionIsUnique
<1> QED
  BY <1>2, <1>3

\* The cycles of the first attempts are shuffled, each on its own.
CyclesShuffled(shuffled, pool, now) ==
    \A c \in 0 .. (now \div Cardinality(pool)) : shuffled[c] \in Orders(pool)

LEMMA AnotherExample ==
    ASSUME NEW now \in Nat \ {0}, NEW pool, IsFiniteSet(pool), Cardinality(pool) > 1,
           NEW shuffled, CyclesShuffled(shuffled, pool, now)
    PROVE  SelectExample(now, pool, shuffled) # SelectExample(now - 1, pool, shuffled)
<1>1. PICK n \in Nat : n = Cardinality(pool) /\ n > 1
  BY FS_CardinalityType
<1>2. CASE n = 2
  <2>1. \A k \in Nat : SelectExample(k, pool, shuffled) = shuffled[0][k % 2]
    BY <1>1, <1>2 DEF SelectExample
  <2>2. now % 2 # (now - 1) % 2 /\ now % 2 \in 0 .. 1 /\ (now - 1) % 2 \in 0 .. 1 /\ now - 1 \in Nat
    OBVIOUS
  <2>3. \A i, j \in 0 .. 1 : shuffled[0][i] = shuffled[0][j] => i = j
    <3>1. shuffled[0] \in Orders(pool)
      <4>1. now \div n \in Nat
        <5>1. now \in Nat /\ n \in Nat \ {0}
          BY <1>1
        <5> QED
          BY <5>1, Division
      <4> QED
        BY <1>1, <4>1 DEF CyclesShuffled
    <3>2. 0 .. (Cardinality(pool) - 1) = 0 .. 1
      BY <1>1, <1>2
    <3> QED
      BY <3>1, <3>2, OrderIsComplete
  <2> QED
    BY <2>1, <2>2, <2>3
<1>3. CASE n > 2
  <2> DEFINE order(c) == CycleOrder(c, shuffled)
  <2>1. \A k \in Nat : SelectExample(k, pool, shuffled) = order(k \div n)[k % n]
    BY <1>1, <1>3 DEF SelectExample
  <2>2. /\ now \div n \in Nat /\ now % n \in 0 .. (n - 1)
        /\ now - 1 \in Nat /\ (now - 1) \div n \in Nat
    <3>1. now \in Nat /\ now - 1 \in Nat /\ n \in Nat \ {0}
      BY <1>1
    <3> QED
      BY <3>1, Division
  <2>3. CASE now % n = 0
    <3>1. now \div n > 0 /\ (now - 1) \div n = (now \div n) - 1 /\ (now - 1) % n = n - 1
      BY <1>1, <2>3, NextCounter
    <3>2. PICK c \in Nat : c = now \div n /\ c > 0 /\ c - 1 \in Nat
                          /\ shuffled[c] \in Orders(pool) /\ shuffled[c - 1] \in Orders(pool)
      BY <1>1, <2>2, <3>1 DEF CyclesShuffled
    <3>3. order(c)[0] # shuffled[c - 1][n - 1]
      BY <1>1, <1>3, <3>2, CycleOrderCorrect
    <3>4. order(c - 1)[n - 1] = shuffled[c - 1][n - 1]
      BY <1>1, <1>3, <3>2, CycleOrderCorrect
    <3> QED
      BY <2>1, <2>2, <2>3, <3>1, <3>2, <3>3, <3>4
  <2>4. CASE now % n # 0
    <3>1. (now - 1) \div n = now \div n /\ (now - 1) % n = (now % n) - 1
      <4>1. now \in Nat \ {0} /\ n \in Nat \ {0}
        BY <1>1
      <4> QED
        BY <2>4, <4>1, NextCounter
    <3>2. PICK c \in Nat, i \in 1 .. (n - 1) :
            c = now \div n /\ i = now % n /\ shuffled[c] \in Orders(pool)
      BY <1>1, <2>2, <2>4 DEF CyclesShuffled
    <3>3. order(c) \in Orders(pool)
      BY <1>1, <1>3, <3>2, CycleOrderCorrect
    <3>4. \A j, k \in 0 .. (n - 1) : order(c)[j] = order(c)[k] => j = k
      BY <1>1, <3>3, OrderIsComplete
    <3>5. order(c)[i] # order(c)[i - 1]
      <4>1. i \in 0 .. (n - 1) /\ i - 1 \in 0 .. (n - 1) /\ i # i - 1
        BY <1>1
      <4> QED
        BY <3>4, <4>1
    <3> QED
      BY <2>1, <2>2, <3>1, <3>2, <3>5
  <2> QED
    BY <2>3, <2>4
<1> QED
  BY <1>1, <1>2, <1>3

LEMMA AllExamples ==
    ASSUME NEW now \in Nat \ {0}, NEW pool, IsFiniteSet(pool), Cardinality(pool) > 1,
           NEW shuffled, CyclesShuffled(shuffled, pool, now),
           now % Cardinality(pool) = 0
    PROVE  {SelectExample(k, pool, shuffled) : k \in (now - Cardinality(pool)) .. (now - 1)} = pool
<1>1. PICK n \in Nat : n = Cardinality(pool) /\ n > 1
  BY FS_CardinalityType
<1>2. PICK c \in Nat : now = n * c + n
  <2>1. n \in Nat \ {0} /\ now % n = 0
    BY <1>1
  <2>2. PICK q \in Nat : now = n * q
    <3>1. now \in Nat
      OBVIOUS
    <3>2. now \div n \in Nat /\ now = n * (now \div n) + (now % n)
      BY <2>1, <3>1, Division
    <3>3. now = n * (now \div n)
      BY <2>1, <3>2
    <3> QED
      BY <3>2, <3>3
  <2>3. q > 0
    BY <2>2
  <2>4. q - 1 \in Nat /\ n * q = n * (q - 1) + n
    BY <1>1, <2>3
  <2> QED
    BY <2>2, <2>4
<1>3. PICK order \in Orders(pool) :
        \A i \in 0 .. (n - 1) : SelectExample(n * c + i, pool, shuffled) = order[i]
  <2>0. n \in Nat \ {0}
    BY <1>1
  <2>1. \A i \in 0 .. (n - 1) : (n * c + i) \div n = c /\ (n * c + i) % n = i
    BY <2>0, DivisionIsUnique
  <2>a. shuffled[0] \in Orders(pool) /\ shuffled[c] \in Orders(pool)
    <3>1. now = n * (c + 1) + 0 /\ c + 1 \in Nat /\ 0 \in 0 .. (n - 1)
      BY <1>1, <1>2
    <3>2. now \div n = c + 1
      BY <2>0, <3>1, DivisionIsUnique
    <3> QED
      BY <1>1, <3>2 DEF CyclesShuffled
  <2>2. CASE n = 2
    BY <1>1, <2>1, <2>2, <2>a DEF SelectExample
  <2>3. CASE n > 2
    <3>1. CycleOrder(c, shuffled) \in Orders(pool)
      BY <1>1, <2>3, <2>a, CycleOrderCorrect
    <3> QED
      BY <1>1, <2>1, <2>3, <3>1 DEF SelectExample
  <2> QED
    BY <1>1, <2>2, <2>3
<1>4. /\ order \in [0 .. (n - 1) -> pool]
      /\ \A x \in pool : \E i \in 0 .. (n - 1) : order[i] = x
  BY <1>1, <1>3, OrderIsComplete
<1>5. n * c \in Nat /\ now - n = n * c /\ now - 1 = n * c + (n - 1)
  BY <1>1, <1>2
<1>6. \A k \in (now - n) .. (now - 1) : k - n * c \in 0 .. (n - 1) /\ k = n * c + (k - n * c)
  BY <1>1, <1>5
<1>7. \A i \in 0 .. (n - 1) : n * c + i \in (now - n) .. (now - 1)
  BY <1>1, <1>5
<1>8. \A k \in (now - n) .. (now - 1) : SelectExample(k, pool, shuffled) \in pool
  <2> SUFFICES ASSUME NEW k \in (now - n) .. (now - 1)
               PROVE  SelectExample(k, pool, shuffled) \in pool
    OBVIOUS
  <2>1. PICK i \in 0 .. (n - 1) : k = n * c + i
    BY <1>6
  <2>2. SelectExample(n * c + i, pool, shuffled) = order[i] /\ order[i] \in pool
    BY <1>3, <1>4
  <2> QED
    BY <2>1, <2>2
<1>9. \A x \in pool : \E k \in (now - n) .. (now - 1) : x = SelectExample(k, pool, shuffled)
  BY <1>3, <1>4, <1>7
<1> QED
  BY <1>1, <1>8, <1>9

\* Answers are told apart by their ids.
IdsAreDistinct ==
    /\ \A e \in log : e.id \in EventIds
    /\ \A e, f \in log : e.id = f.id => e = f

LEMMA IdsStayDistinct == IdsAreDistinct /\ [LedgerNext]_ledgerVars => IdsAreDistinct'
<1> SUFFICES ASSUME IdsAreDistinct, [LedgerNext]_ledgerVars PROVE IdsAreDistinct'
  OBVIOUS
<1>1. CASE log' \subseteq log
  BY <1>1 DEF IdsAreDistinct
<1>2. CASE \E id \in EventIds, w \in WordIds, kind \in Kinds, now \in Times, rating \in Ratings :
             Answer(id, w, kind, now, rating)
  <2>1. PICK id \in EventIds, w \in WordIds, kind \in Kinds, now \in Times, rating \in Ratings :
          Answer(id, w, kind, now, rating)
    BY <1>2
  <2>2. PICK card : log' = log \cup {AnswerEvent(id, w, rows[w], card, kind, now, rating)}
    BY <2>1 DEF Answer
  <2>3. PICK e : e = AnswerEvent(id, w, rows[w], card, kind, now, rating)
    OBVIOUS
  <2>4. log' = log \cup {e} /\ e.id = id
    BY <2>2, <2>3 DEF AnswerEvent
  <2>5. \A f \in log : f.id # id
    BY <2>1, LedgerAssumption DEF Answer, IdsAreDistinct
  <2> QED
    BY <2>4, <2>5 DEF IdsAreDistinct
<1> QED
  BY <1>1, <1>2 DEF LedgerNext, Erase, Register, Reschedule, ledgerVars

\* No more answers are counted than there are ids.
LEMMA AttemptsBounded ==
    ASSUME LedgerInv, IdsAreDistinct, IsFiniteSet(EventIds), NEW w \in WordIds, rows[w] # None
    PROVE  rows[w].attempts \in 0 .. Cardinality(EventIds)
<1>1. rows[w].attempts = Cardinality(LogOf(w)) /\ rows[w].attempts \in Nat
  BY RowIsTyped DEF LedgerInv, CountsMatchLog, StateRow
<1>2. [e \in LogOf(w) |-> e.id] \in Injection(LogOf(w), EventIds)
  BY DEF IdsAreDistinct, LogOf, Injection, IsInjective
<1>3. Cardinality(LogOf(w)) <= Cardinality(EventIds)
  BY <1>2, FS_Injection
<1>4. Cardinality(EventIds) \in Nat
  BY FS_CardinalityType
<1> QED
  BY <1>1, <1>3, <1>4

\* The counters that selectExample may be given all rotate.
LEMMA CountersRotate ==
    ASSUME IsFiniteSet(Examples), IsFiniteSet(EventIds), NEW now \in 1 .. Cardinality(EventIds)
    PROVE  now \in Rotating
<1>1. now \in Nat \ {0}
  BY FS_CardinalityType
<1>2. ASSUME NEW pool \in SUBSET Examples, Cardinality(pool) > 1,
             NEW shuffled \in [0 .. (now \div Cardinality(pool)) -> Orders(pool)]
      PROVE  /\ SelectExample(now, pool, shuffled) # SelectExample(now - 1, pool, shuffled)
             /\ now % Cardinality(pool) = 0 =>
                  {SelectExample(k, pool, shuffled) : k \in (now - Cardinality(pool)) .. (now - 1)} = pool
  <2>1. IsFiniteSet(pool)
    BY FS_Subset
  <2>2. CyclesShuffled(shuffled, pool, now)
    BY <1>2 DEF CyclesShuffled
  <2> QED
    BY <1>1, <1>2, <2>1, <2>2, AnotherExample, AllExamples
<1> QED
  BY <1>2 DEF Rotating

(***************************************************************************)
(* An answer is followed by another example than the one it was given for, *)
(* and a cycle of answers shows them all (selectExample), in whatever      *)
(* order each cycle is shuffled.  A word has finitely many examples, and   *)
(* answers are numbered up to some bound.                                  *)
(***************************************************************************)
THEOREM ExamplesAlwaysRotate ==
    ASSUME IsFiniteSet(Examples), IsFiniteSet(EventIds)
    PROVE  LedgerSpec => []ExamplesRotate
<1>1. LedgerInit => IdsAreDistinct
  BY DEF LedgerInit, IdsAreDistinct
<1>2. IdsAreDistinct /\ [LedgerNext]_ledgerVars => IdsAreDistinct'
  BY IdsStayDistinct
<1>3. LedgerInv /\ IdsAreDistinct => ExamplesRotate
  <2> SUFFICES ASSUME LedgerInv, IdsAreDistinct, NEW w \in WordIds, rows[w] # None
               PROVE  rows[w].attempts = 0 \/ rows[w].attempts \in Rotating
    BY DEF ExamplesRotate
  <2>1. PICK now \in 0 .. Cardinality(EventIds) : now = rows[w].attempts
    BY AttemptsBounded
  <2>2. now = 0 \/ now \in 1 .. Cardinality(EventIds)
    BY FS_CardinalityType
  <2> QED
    BY <2>1, <2>2, CountersRotate
<1> QED
  BY <1>1, <1>2, <1>3, LedgerInvariant, PTL DEF LedgerSpec
==============================================================================
