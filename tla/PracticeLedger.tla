---------------------------- MODULE PracticeLedger ----------------------------
(***************************************************************************)
(* What the practice store promises, without pages, calls or time: a table *)
(* of memory rows and a log of answers that tell the same story.  An       *)
(* answer is ONE step that takes the row of its word as it stands, moves   *)
(* it up or down the ladder, counts it and logs it.                        *)
(***************************************************************************)
EXTENDS PracticeRecords, FiniteSets

CONSTANTS
    EventIds,   \* the ids answers may have
    Times       \* the times at which things may happen

ASSUME LedgerAssumption == EventIds \subseteq Nat /\ Times \subseteq Nat

VARIABLES
    rows,    \* word id -> its memory row, or None
    log      \* the answers given for words still there

ledgerVars == <<rows, log>>

Rows == [WordIds -> StateRow \cup {None}]

LedgerInit ==
    /\ rows \in [WordIds -> {FreshRow(0), None}]
    /\ log = {}

\* Words are added at the bottom of the ladder, without a history.
Register(ws, now) ==
    /\ \A w \in ws : rows[w] = None
    /\ \A e \in log : e.word \notin ws
    /\ rows' = [w \in WordIds |-> IF w \in ws THEN FreshRow(now) ELSE rows[w]]
    /\ UNCHANGED log

\* Words are deleted with their histories.
Erase(ws) ==
    /\ rows' = [w \in WordIds |-> IF w \in ws THEN None ELSE rows[w]]
    /\ log' = {e \in log : e.word \notin ws}

\* Ids grow with time, so that the log can be read in the order of its ids.
Answer(id, w, kind, now, rating) ==
    /\ rows[w] # None
    /\ \A e \in log : e.id < id
    /\ \E card \in PracticeResults(rows[w].card, kind, now, rating) :
         /\ log' = log \cup {AnswerEvent(id, w, rows[w], card, kind, now, rating)}
         /\ rows' = [rows EXCEPT ![w] = AnsweredRow(rows[w], card, kind, now, rating)]

\* Cards are recomputed; stages, streaks and counters stay as they are.
Reschedule ==
    /\ rows' \in Rows
    /\ \A w \in WordIds :
         \/ rows'[w] = rows[w]
         \/ /\ rows[w] # None
            /\ rows'[w] # None
            /\ rows'[w] = [rows[w] EXCEPT !.card = rows'[w].card]
    /\ UNCHANGED log

LedgerNext ==
    \/ \E ws \in SUBSET WordIds : Erase(ws) \/ \E now \in Times : Register(ws, now)
    \/ \E id \in EventIds, w \in WordIds, kind \in Kinds, now \in Times, rating \in Ratings :
         Answer(id, w, kind, now, rating)
    \/ Reschedule

LedgerSpec == LedgerInit /\ [][LedgerNext]_ledgerVars

-------------------------------------------------------------------------------
LedgerTypeOK == rows \in Rows /\ log \subseteq PracticeEvent

LogOf(w) == {e \in log : e.word = w}
MovesOf(w) == {e \in LogOf(w) : e.movedTo # None}

(***************************************************************************)
(* A memory row counts the logged answers to its word, no more, no less,   *)
(* and tells the correct ones from the others (attemptCount, correctCount  *)
(* and incorrectCount against word_practice_events).                       *)
(***************************************************************************)
CountsMatchLog ==
    \A w \in WordIds : rows[w] # None =>
        /\ rows[w].attempts = Cardinality(LogOf(w))
        /\ rows[w].correct = Cardinality({e \in LogOf(w) : IsCorrect(e.rating)})
        /\ rows[w].incorrect = Cardinality({e \in LogOf(w) : ~IsCorrect(e.rating)})

(***************************************************************************)
(* The stage of a word is where its last logged change of stage put it:    *)
(* recognition if there was none.                                          *)
(***************************************************************************)
StageMatchesLog ==
    \A w \in WordIds : rows[w] # None =>
        IF MovesOf(w) = {} THEN rows[w].stage = "recognition"
        ELSE \A e \in MovesOf(w) :
               (\A f \in MovesOf(w) : f.id <= e.id) => rows[w].stage = e.movedTo

(***************************************************************************)
(* The log tells a connected story: consecutive answers to a word are      *)
(* given in the stage the earlier one left it in (stage, promotedTo and    *)
(* demotedTo of the events).                                               *)
(***************************************************************************)
StageAfter(e) == IF e.movedTo = None THEN e.stage ELSE e.movedTo

LogIsConnected ==
    \A w \in WordIds : \A e, f \in LogOf(w) :
        (/\ e.id < f.id
         /\ ~ \E g \in LogOf(w) : e.id < g.id /\ g.id < f.id)
        => f.stage = StageAfter(e)

(***************************************************************************)
(* A word changes stage only on the strength of the scheduled answers      *)
(* given since its last change: a demotion ends exactly                    *)
(* RequiredContextFailures "again"s that no success interrupts, a          *)
(* promotion is an "easy", or the second "good" in a row.  Extra practice  *)
(* earns nothing (transitionAfterRating).                                  *)
(***************************************************************************)
SinceLastMove(d) ==
    {e \in LogOf(d.word) :
        /\ e.id <= d.id
        /\ e.kind = "scheduled"
        /\ \A m \in MovesOf(d.word) : m.id < d.id => m.id < e.id}

Unbroken(d, ratings, breaking) ==
    {e \in SinceLastMove(d) :
        /\ e.rating \in ratings
        /\ ~ \E g \in SinceLastMove(d) : e.id < g.id /\ g.rating \in breaking}

MovesAreEarned ==
    \A d \in log : d.movedTo # None =>
        IF d.stage = "contextRecall"
        THEN Cardinality(Unbroken(d, {"again"}, {"good", "easy"})) = RequiredContextFailures
        ELSE \/ d.rating = "easy" /\ d.kind = "scheduled"
             \/ Cardinality(Unbroken(d, {"good"}, {"again", "hard"})) = RequiredMasteryReviews
==============================================================================
