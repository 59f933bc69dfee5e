---------------------------- MODULE HistoryMachine ----------------------------
(***************************************************************************)
(* The history page: packages/machines/src/word-practice-history-          *)
(* machine.ts.  Loading reads the events, the words and the memory rows    *)
(* one after the other; choosing a word then reads its attempts.  Closing  *)
(* the word does not cancel those calls: their result is ignored.          *)
(***************************************************************************)
EXTENDS D1Store, FiniteSets

CONSTANTS
    TicksPerDay,    \* from one midnight to the next
    SummaryPage,    \* summaries shown at a time (100)
    Queries,        \* what is typed in the search field: nothing, or a token
    MaxFlights      \* bound on attempt loads under way

Statuses == {"new", "learning", "relearning", "due", "scheduled"}

ASSUME HistoryAssumption ==
    /\ TicksPerDay \in Nat \ {0} /\ SummaryPage \in Nat \ {0} /\ MaxFlights \in Nat \ {0}
    /\ None \notin {"events", "words", "states"}
    /\ None \in Queries /\ Queries \subseteq Texts \cup Statuses \cup {None}

VARIABLES
    history,   \* what the machine holds
    flights    \* loadWordAttempts effects under way, awaited or not

historyVars == <<history, flights>>

Summary == [text: Texts, status: Statuses, isDue: BOOLEAN, attempts: Nat, correct: Nat]

History ==
    [state: {"Closed", "Loading", "Ready", "LoadingAttempts", "Failure"},
     step: {"events", "words", "states"} \cup {None},
     events: SUBSET PracticeEvent,               \* what the loading effect has read
     words: [WordIds -> Texts \cup {None}],      \* ... of the active words
     summaries: [WordIds -> Summary \cup {None}],
     query: Queries,
     matching: SUBSET WordIds,                   \* matchingSummaries
     visible: Nat,                               \* visibleSummaryCount
     today: Nat,                                 \* todayAttemptCount
     selected: WordIds \cup {None},              \* selectedWordId
     attempts: SUBSET PracticeEvent]             \* selectedAttempts

Flight == [word: WordIds, step: {"word", "events"}, awaited: BOOLEAN]

NoWords == [w \in WordIds |-> None]

ClosedHistory ==
    [state |-> "Closed", step |-> None, events |-> {}, words |-> NoWords,
     summaries |-> NoWords, query |-> None, matching |-> {}, visible |-> SummaryPage,
     today |-> 0, selected |-> None, attempts |-> {}]

Becomes(changes) ==
    history' = [field \in DOMAIN history |->
                   IF field \in DOMAIN changes THEN changes[field] ELSE history[field]]

(***************************************************************************)
(* Loading.                                                                *)
(***************************************************************************)
StartLoading == Becomes([state |-> "Loading", step |-> "events"]) /\ UNCHANGED flights

OpenHistory == history.state = "Closed" /\ StartLoading

RefreshHistory == history.state \in {"Ready", "Failure"} /\ StartLoading

ReadHistoryEvents ==
    /\ history.step = "events"
    /\ Becomes([step |-> "words", events |-> events])
    /\ UNCHANGED flights

ReadHistoryWords ==
    /\ history.step = "words"
    /\ Becomes([step |-> "states",
                words |-> [w \in WordIds |-> IF Active(w) THEN words[w].text ELSE None]])
    /\ UNCHANGED flights

Today(t) == t \div TicksPerDay

Status(card) ==
    CASE card.phase # "review" -> card.phase
      [] card.phase = "review" /\ card.due <= clock -> "due"
      [] card.phase = "review" /\ card.due > clock -> "scheduled"

Summarised(w) ==
    IF history.words[w] = None \/ states[w] = None THEN None
    ELSE [text |-> history.words[w], status |-> Status(states[w].card),
          isDue |-> states[w].card.due <= clock,
          attempts |-> states[w].attempts, correct |-> states[w].correct]

Searchable(summary) == {summary.text, PlainText[summary.text], summary.status}

\* _filterSummaries
Matching(query, summaries) ==
    {w \in WordIds : summaries[w] # None /\ (query = None \/ query \in Searchable(summaries[w]))}

\* mutant: events of archived and deleted words count
TodaysEventsOfAll == {e \in history.events : Today(e.reviewedAt) = Today(clock)}

TodaysEvents ==
    {e \in history.events : history.words[e.word] # None /\ Today(e.reviewedAt) = Today(clock)}

\* mutant: the search field keeps its text, the list is shown in full
HistoryLoadedUnfiltered ==
    /\ history.step = "states"
    /\ LET summaries == [w \in WordIds |-> Summarised(w)]
       IN  Becomes([state |-> "Ready", step |-> None, events |-> {}, words |-> NoWords,
                    summaries |-> summaries, matching |-> Matching(None, summaries),
                    visible |-> SummaryPage, today |-> Cardinality(TodaysEvents),
                    selected |-> None, attempts |-> {}])
    /\ UNCHANGED flights

\* The memory rows are read last, and the clock after them.
HistoryLoaded ==
    /\ history.step = "states"
    /\ LET summaries == [w \in WordIds |-> Summarised(w)]
       IN  Becomes([state |-> "Ready", step |-> None, events |-> {}, words |-> NoWords,
                    summaries |-> summaries, matching |-> Matching(history.query, summaries),
                    visible |-> SummaryPage, today |-> Cardinality(TodaysEvents),
                    selected |-> None, attempts |-> {}])
    /\ UNCHANGED flights

HistoryNotLoaded ==
    /\ history.state = "Loading"
    /\ Becomes([state |-> "Failure", step |-> None, events |-> {}, words |-> NoWords])
    /\ UNCHANGED flights

(***************************************************************************)
(* Ready.                                                                  *)
(***************************************************************************)
ChangeQuery ==
    /\ \/ /\ history.state = "Ready"
          /\ \E q \in Queries :
               Becomes([query |-> q, matching |-> Matching(q, history.summaries),
                        visible |-> SummaryPage])
       \/ /\ history.state = "Failure"
          /\ \E q \in Queries : Becomes([query |-> q])
    /\ UNCHANGED flights

\* One of the two lists, due or not, matches more summaries than it shows.
LoadMore ==
    /\ history.state = "Ready"
    /\ \E due \in BOOLEAN :
         history.visible < Cardinality({w \in history.matching : history.summaries[w].isDue = due})
    /\ Becomes([visible |-> history.visible + SummaryPage])
    /\ UNCHANGED flights

\* mutant: the attempts of the word before stay
SelectWordKeepingAttempts ==
    /\ history.state = "Ready"
    /\ Cardinality(flights) < MaxFlights
    /\ \E w \in history.matching :
         /\ Becomes([state |-> "LoadingAttempts", selected |-> w])
         /\ flights' = flights \cup {[word |-> w, step |-> "word", awaited |-> TRUE]}

SelectWord ==
    /\ history.state = "Ready"
    /\ Cardinality(flights) < MaxFlights
    /\ \E w \in history.matching :
         /\ Becomes([state |-> "LoadingAttempts", selected |-> w, attempts |-> {}])
         /\ flights' = flights \cup {[word |-> w, step |-> "word", awaited |-> TRUE]}

\* Nobody awaits a load any more: its actor is stopped.
Unawaited == {[f EXCEPT !.awaited = FALSE] : f \in flights}

\* mutant: the stopped actor still reports
CloseWordStillAwaiting ==
    /\ history.state \in {"Ready", "LoadingAttempts"}
    /\ Becomes([state |-> "Ready", selected |-> None, attempts |-> {}])
    /\ UNCHANGED flights

CloseWord ==
    /\ history.state \in {"Ready", "LoadingAttempts"}
    /\ Becomes([state |-> "Ready", selected |-> None, attempts |-> {}])
    /\ flights' = Unawaited

(***************************************************************************)
(* loadWordAttempts.                                                       *)
(***************************************************************************)
FoundWord(f) ==
    /\ f.step = "word"
    /\ Active(f.word)
    /\ flights' = (flights \ {f}) \cup {[f EXCEPT !.step = "events"]}
    /\ UNCHANGED history

AttemptsLoaded(f) ==
    /\ f.step = "events"
    /\ flights' = flights \ {f}
    /\ IF f.awaited
       THEN Becomes([state |-> "Ready", selected |-> f.word,
                     attempts |-> {e \in events : e.word = f.word}])
       ELSE UNCHANGED history

\* A call failed, or the word is not there any more; the word stays selected.
AttemptsNotLoaded(f) ==
    /\ flights' = flights \ {f}
    /\ IF f.awaited THEN Becomes([state |-> "Ready"]) ELSE UNCHANGED history

WordNotFound(f) == f.step = "word" /\ ~Active(f.word) /\ AttemptsNotLoaded(f)

\* The page is unmounted: nobody will look at what its effects return.
CloseHistory == history' = ClosedHistory /\ flights' = {}

HistoryInit == history = ClosedHistory /\ flights = {}

HistoryTypeOK == history \in History /\ flights \subseteq Flight
==============================================================================
