------------------------------- MODULE Practice -------------------------------
(***************************************************************************)
(* Practice pages: packages/machines/src/practice-overview-machine.ts, one *)
(* machine per open page, as the buttons of apps/client/src/routes/        *)
(* practice.tsx drive it.                                                  *)
(*                                                                         *)
(* machine is the state of the XState machine; while it is in Loading or   *)
(* Submitting an effect runs, and step says which of its calls comes next: *)
(*     Loading                     pool -> words -> getWord                *)
(*     Submitting  check -> save -> pool -> words -> getWord               *)
(* An answer is computed from currentItem, the row read when the item was  *)
(* loaded, never from the row the store holds when the answer is given.    *)
(*                                                                         *)
(* Effects are not interrupted when the learner navigates to another page  *)
(* of the application: such a machine runs on unseen beside the next one,  *)
(* which is two of the PracticePages, the first left once it is idle.      *)
(***************************************************************************)
EXTENDS D1Store, FiniteSets

CONSTANTS
    PracticePages,
    MaxAnswers      \* bound on answers given, all pages together

ASSUME AnswersAssumption == MaxAnswers \in Nat

VARIABLES
    machine, step,
    currentItem,    \* page -> the word on screen and its row when loaded, or None
    rating,         \* page -> the rating being submitted, or None
    answerVisible,
    message,        \* page -> None, "error" or SavedNotice
    asOf,           \* page -> the time words must be due by to be selected
    poolRows,       \* page -> memory rows the pool query returned, or None
    candidate,      \* page -> the selected item before its word is read, or None
    pending         \* page -> the save request whose answer it awaits, or None

pageVars == <<machine, step, currentItem, rating, answerVisible, message,
              asOf, poolRows, candidate, pending>>

SavedNotice == "Your answer was saved, but the next word could not be loaded."

Item == [word: WordIds, row: StateRow]
MachineStates == {"Closed", "Loading", "Ready", "Submitting", "EmptyLibrary", "Complete", "Failure"}
Steps == {"idle", "check", "save", "pool", "words", "getWord"}

Invoked(p) == machine[p] \in {"Loading", "Submitting"}

(***************************************************************************)
(* The page.                                                               *)
(***************************************************************************)
EnterLoading(p) ==
    /\ machine' = [machine EXCEPT ![p] = "Loading"]
    /\ step' = [step EXCEPT ![p] = "pool"]
    /\ asOf' = [asOf EXCEPT ![p] = clock]

Open(p) ==
    /\ machine[p] = "Closed"
    /\ EnterLoading(p)
    /\ UNCHANGED <<currentItem, rating, answerVisible, message, poolRows, candidate, pending>>
    /\ UNCHANGED storeVars

\* The machine is gone; a new one starts from its initial context.
Forget(p) ==
    /\ machine' = [machine EXCEPT ![p] = "Closed"]
    /\ step' = [step EXCEPT ![p] = "idle"]
    /\ currentItem' = [currentItem EXCEPT ![p] = None]
    /\ rating' = [rating EXCEPT ![p] = None]
    /\ answerVisible' = [answerVisible EXCEPT ![p] = FALSE]
    /\ message' = [message EXCEPT ![p] = None]
    /\ asOf' = [asOf EXCEPT ![p] = 0]
    /\ poolRows' = [poolRows EXCEPT ![p] = None]
    /\ candidate' = [candidate EXCEPT ![p] = None]
    /\ pending' = [pending EXCEPT ![p] = None]

\* Leave the page while nothing is under way.
Leave(p) ==
    /\ machine[p] # "Closed"
    /\ ~Invoked(p)
    /\ Forget(p)
    /\ UNCHANGED storeVars

\* Close or reload it while an effect runs: a sent mutation is on its way.
Abandon(p) ==
    /\ Invoked(p)
    /\ Disturb
    /\ Forget(p)
    /\ stray' = IF pending[p] = None THEN stray ELSE stray \cup {pending[p]}
    /\ UNCHANGED tables
    /\ UNCHANGED supplies

Refresh(p) ==
    /\ machine[p] \in {"Ready", "EmptyLibrary", "Complete", "Failure"}
    /\ EnterLoading(p)
    /\ UNCHANGED <<currentItem, rating, answerVisible, message, poolRows, candidate, pending>>
    /\ UNCHANGED storeVars

Reveal(p) ==
    /\ machine[p] = "Ready"
    /\ ~answerVisible[p]
    /\ answerVisible' = [answerVisible EXCEPT ![p] = TRUE]
    /\ UNCHANGED <<machine, step, currentItem, rating, message, asOf, poolRows, candidate, pending>>
    /\ UNCHANGED storeVars

\* answers given and answers about to be given stay within the bound
AnswersLeft == nextEvent + Cardinality({q \in PracticePages : step[q] = "check"}) < MaxAnswers

\* rateAgain, rateHard, rateGood, rateEasy; the page shows them once revealed.
Rate(p, r) ==
    /\ AnswersLeft
    /\ machine[p] = "Ready"
    /\ answerVisible[p]
    /\ machine' = [machine EXCEPT ![p] = "Submitting"]
    /\ step' = [step EXCEPT ![p] = "check"]
    /\ rating' = [rating EXCEPT ![p] = r]
    /\ UNCHANGED <<currentItem, answerVisible, message, asOf, poolRows, candidate, pending>>
    /\ UNCHANGED storeVars

(***************************************************************************)
(* submitPracticeAnswer, up to the acknowledged save.                      *)
(***************************************************************************)
\* mutant: the error is noted and the machine stays where it is
RejectAnswerInPlace(p) ==
    /\ step' = [step EXCEPT ![p] = "idle"]
    /\ message' = [message EXCEPT ![p] = "error"]
    /\ pending' = [pending EXCEPT ![p] = None]
    /\ UNCHANGED <<machine, currentItem, rating, answerVisible, asOf, poolRows, candidate>>

\* onError of Submitting: the same item is on screen again.
RejectAnswer(p) ==
    /\ machine' = [machine EXCEPT ![p] = "Ready"]
    /\ step' = [step EXCEPT ![p] = "idle"]
    /\ message' = [message EXCEPT ![p] = "error"]
    /\ pending' = [pending EXCEPT ![p] = None]
    /\ UNCHANGED <<currentItem, rating, answerVisible, asOf, poolRows, candidate>>

\* mutant: only asks whether the word is there
StillThere(p) == Exists(currentItem[p].word)

StillActive(p) == Active(currentItem[p].word)

WordNoLongerActive(p) ==
    /\ step[p] = "check"
    /\ ~StillActive(p)
    /\ RejectAnswer(p)
    /\ UNCHANGED storeVars

AnswerRequest(id, item, card, now, r) ==
    [op |-> "savePracticeResult",
     event |-> AnswerEvent(id, item.word, item.row, card, "scheduled", now, r),
     row |-> AnsweredRow(item.row, card, "scheduled", now, r)]

SendAnswer(p) ==
    /\ step[p] = "check"
    /\ StillActive(p)
    /\ \E card \in PracticeResults(currentItem[p].row.card, "scheduled", clock, rating[p]) :
         pending' = [pending EXCEPT ![p] =
             AnswerRequest(nextEvent, currentItem[p], card, clock, rating[p])]
    /\ nextEvent' = nextEvent + 1
    /\ step' = [step EXCEPT ![p] = "save"]
    /\ asOf' = [asOf EXCEPT ![p] = clock]
    /\ UNCHANGED <<machine, currentItem, rating, answerVisible, message, poolRows, candidate>>
    /\ UNCHANGED tables
    /\ UNCHANGED channel
    /\ UNCHANGED <<usedIds, clock>>

AnswerSaved(p) ==
    /\ step[p] = "save"
    /\ Commit(pending[p])
    /\ step' = [step EXCEPT ![p] = "pool"]
    /\ pending' = [pending EXCEPT ![p] = None]
    /\ UNCHANGED <<machine, currentItem, rating, answerVisible, message, asOf, poolRows, candidate>>
    /\ UNCHANGED channel
    /\ UNCHANGED supplies

AnswerRejected(p) ==
    /\ step[p] = "save"
    /\ Rejected(pending[p])
    /\ RejectAnswer(p)
    /\ UNCHANGED storeVars

\* The call fails, before or after the server ran it, or while it still may.
AnswerLost(p) ==
    /\ step[p] \in {"check", "save"}
    /\ Disturb
    /\ stray' = IF step[p] = "save" THEN stray \cup {pending[p]} ELSE stray
    /\ RejectAnswer(p)
    /\ UNCHANGED tables
    /\ UNCHANGED supplies

(***************************************************************************)
(* _loadNextPracticeItem, common to both effects.                          *)
(***************************************************************************)
ReadPool(p) ==
    /\ step[p] = "pool"
    /\ poolRows' = [poolRows EXCEPT ![p] = states]
    /\ step' = [step EXCEPT ![p] = "words"]
    /\ UNCHANGED <<machine, currentItem, rating, answerVisible, message, asOf, candidate, pending>>
    /\ UNCHANGED storeVars

SelectWord(p) ==
    /\ step[p] = "words"
    /\ \E w \in Selectable(poolRows[p], asOf[p]) :
         candidate' = [candidate EXCEPT ![p] = [word |-> w, row |-> poolRows[p][w]]]
    /\ poolRows' = [poolRows EXCEPT ![p] = None]
    /\ step' = [step EXCEPT ![p] = "getWord"]
    /\ UNCHANGED <<machine, currentItem, rating, answerVisible, message, asOf, pending>>
    /\ UNCHANGED storeVars

\* mutant: the answer stays visible
ShowItemRevealed(p, item) ==
    /\ machine' = [machine EXCEPT ![p] = "Ready"]
    /\ step' = [step EXCEPT ![p] = "idle"]
    /\ currentItem' = [currentItem EXCEPT ![p] = item]
    /\ rating' = [rating EXCEPT ![p] = None]
    /\ message' = [message EXCEPT ![p] = None]
    /\ UNCHANGED answerVisible

\* onDone with an item, the same in Loading and in Submitting.
ShowItem(p, item) ==
    /\ machine' = [machine EXCEPT ![p] = "Ready"]
    /\ step' = [step EXCEPT ![p] = "idle"]
    /\ currentItem' = [currentItem EXCEPT ![p] = item]
    /\ rating' = [rating EXCEPT ![p] = None]
    /\ answerVisible' = [answerVisible EXCEPT ![p] = FALSE]
    /\ message' = [message EXCEPT ![p] = None]

\* onDone without one: Loading ends, Submitting loads a new session.
ShowNothing(p, resting, notice) ==
    /\ IF machine[p] = "Loading"
       THEN /\ machine' = [machine EXCEPT ![p] = resting]
            /\ step' = [step EXCEPT ![p] = "idle"]
            /\ message' = [message EXCEPT ![p] = None]
            /\ UNCHANGED asOf
       ELSE /\ EnterLoading(p)
            /\ message' = [message EXCEPT ![p] = notice]
    /\ currentItem' = [currentItem EXCEPT ![p] = None]
    /\ rating' = [rating EXCEPT ![p] = None]
    /\ answerVisible' = [answerVisible EXCEPT ![p] = FALSE]

NothingToSelect(p) ==
    /\ step[p] = "words"
    /\ Selectable(poolRows[p], asOf[p]) = {}
    /\ ShowNothing(p, IF ActiveWords(poolRows[p]) = {} THEN "EmptyLibrary" ELSE "Complete", None)
    /\ poolRows' = [poolRows EXCEPT ![p] = None]
    /\ UNCHANGED <<candidate, pending>>
    /\ UNCHANGED storeVars

\* getWord: the word may be gone by now; whether it is archived is not asked.
ItemLoaded(p) ==
    /\ step[p] = "getWord"
    /\ Exists(candidate[p].word)
    /\ ShowItem(p, candidate[p])
    /\ candidate' = [candidate EXCEPT ![p] = None]
    /\ UNCHANGED <<asOf, poolRows, pending>>
    /\ UNCHANGED storeVars

ItemVanished(p) ==
    /\ step[p] = "getWord"
    /\ ~Exists(candidate[p].word)
    /\ ShowNothing(p, "Complete", None)
    /\ candidate' = [candidate EXCEPT ![p] = None]
    /\ UNCHANGED <<poolRows, pending>>
    /\ UNCHANGED storeVars

\* A read fails: Loading goes to Failure, Submitting gives up on the next word.
SelectionFailed(p) ==
    /\ step[p] \in {"pool", "words", "getWord"}
    /\ Disturb
    /\ IF machine[p] = "Loading"
       THEN /\ machine' = [machine EXCEPT ![p] = "Failure"]
            /\ step' = [step EXCEPT ![p] = "idle"]
            /\ message' = [message EXCEPT ![p] = "error"]
            /\ UNCHANGED <<currentItem, rating, answerVisible, asOf>>
       ELSE ShowNothing(p, "Failure", SavedNotice)
    /\ poolRows' = [poolRows EXCEPT ![p] = None]
    /\ candidate' = [candidate EXCEPT ![p] = None]
    /\ UNCHANGED pending
    /\ UNCHANGED <<tables, stray, supplies>>

(***************************************************************************)
(* Specification parts.                                                    *)
(***************************************************************************)
PracticeInit ==
    /\ machine = [p \in PracticePages |-> "Closed"]
    /\ step = [p \in PracticePages |-> "idle"]
    /\ currentItem = [p \in PracticePages |-> None]
    /\ rating = [p \in PracticePages |-> None]
    /\ answerVisible = [p \in PracticePages |-> FALSE]
    /\ message = [p \in PracticePages |-> None]
    /\ asOf = [p \in PracticePages |-> 0]
    /\ poolRows = [p \in PracticePages |-> None]
    /\ candidate = [p \in PracticePages |-> None]
    /\ pending = [p \in PracticePages |-> None]

\* What the browser and the server do without the learner.
PracticeRuns(p) ==
    \/ WordNoLongerActive(p) \/ SendAnswer(p) \/ AnswerSaved(p) \/ AnswerRejected(p)
    \/ ReadPool(p) \/ SelectWord(p) \/ NothingToSelect(p) \/ ItemLoaded(p) \/ ItemVanished(p)

PracticeNext(p) ==
    \/ Leave(p) \/ Abandon(p) \/ Refresh(p) \/ Reveal(p)
    \/ \E r \in Ratings : Rate(p, r)
    \/ AnswerLost(p) \/ SelectionFailed(p)
    \/ PracticeRuns(p)

PracticeTypeOK ==
    /\ machine \in [PracticePages -> MachineStates]
    /\ step \in [PracticePages -> Steps]
    /\ currentItem \in [PracticePages -> Item \cup {None}]
    /\ rating \in [PracticePages -> Ratings \cup {None}]
    /\ answerVisible \in [PracticePages -> BOOLEAN]
    /\ message \in [PracticePages -> {None, "error", SavedNotice}]
    /\ asOf \in [PracticePages -> Nat]
    /\ poolRows \in [PracticePages -> StateRows \cup {None}]
    /\ candidate \in [PracticePages -> Item \cup {None}]
    /\ pending \in [PracticePages -> SaveRequest \cup {None}]
==============================================================================
