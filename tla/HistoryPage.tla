------------------------------ MODULE HistoryPage ------------------------------
(***************************************************************************)
(* A browser that signs in and out, the history page at the application's  *)
(* home path (apps/client/src/routes/index.tsx), and the same store in use *)
(* elsewhere.  Every call of the page passes the server's authentication.  *)
(***************************************************************************)
EXTENDS HistoryMachine, RecalculatedRows, Session, FiniteSetsExt

CONSTANTS
    MaxElsewhere,   \* bound on what other pages load and decide on
    MaxExtras,      \* bound on that, ticks, deployments and failed calls, together
    GivenRatings    \* the ratings answers given there may have

ASSUME ElsewhereAssumption == MaxElsewhere \in Nat /\ MaxExtras \in Nat /\ GivenRatings \subseteq Ratings

\* The page sums up over the words, and tells a summary from none.
ASSUME SummariesAssumption == IsFiniteSet(WordIds) /\ None \notin Summary

VARIABLES
    elsewhere,    \* how much other pages loaded and decided on
    items,        \* the words they loaded for practice, with the rows they read
    overwritten   \* history: the words with a row replaced by one that misses an answer

elsewhereVars == <<elsewhere, items, overwritten>>
vars == <<storeVars, historyVars, sessionVars, elsewhereVars>>

Item == [word: WordIds, row: StateRow]

Init ==
    /\ StoreInit /\ HistoryInit /\ SessionInit
    /\ elsewhere = 0 /\ items = {} /\ overwritten = {}

HomeShown == screen.kind = "app" /\ screen.path = Home

(***************************************************************************)
(* The page.  A call is refused without a valid session, or fails.         *)
(***************************************************************************)
PageActs ==
    /\ (HomeShown /\ OpenHistory) \/ RefreshHistory
       \/ ChangeQuery \/ LoadMore \/ SelectWord \/ CloseWord
    /\ UNCHANGED <<storeVars, sessionVars>>

Answered ==
    /\ CallAllowed(clock)
    /\ \/ ReadHistoryEvents \/ ReadHistoryWords \/ HistoryLoaded
       \/ \E f \in flights : FoundWord(f) \/ AttemptsLoaded(f) \/ WordNotFound(f)
    /\ UNCHANGED <<storeVars, sessionVars>>

Failed == HistoryNotLoaded \/ \E f \in flights : AttemptsNotLoaded(f)

Refused == ~CallAllowed(clock) /\ Failed /\ UNCHANGED <<storeVars, sessionVars>>

CallLost == Disturb /\ Failed /\ UNCHANGED <<tables, supplies, stray, sessionVars>>

(***************************************************************************)
(* The browser.  Changing pages unmounts the history page, and so does     *)
(* every document that arrives.  The learner leaves it before asking for   *)
(* another document, but may sign out from it, its calls under way.        *)
(***************************************************************************)
BrowserActs ==
    /\ \/ (Visit \/ SubmitPassword) /\ history.state = "Closed" /\ UNCHANGED historyVars
       \/ SignOut /\ UNCHANGED historyVars
       \/ Navigate /\ CloseHistory
    /\ UNCHANGED storeVars

ServerAnswers ==
    /\ Serve(clock)
    /\ IF asking' = Nothing THEN CloseHistory ELSE UNCHANGED historyVars
    /\ UNCHANGED storeVars

TimePasses == Tick /\ CookieAges(clock') /\ UNCHANGED historyVars

Deploys == Redeploy /\ UNCHANGED <<storeVars, historyVars>>

(***************************************************************************)
(* The store in use elsewhere, by any number of pages.  Each reads,        *)
(* decides on a mutation and sends it later: `stray' holds what is on its  *)
(* way.  A page that never heard of its answer may rate the item it loaded *)
(* once more, so items are kept.                                           *)
(***************************************************************************)
LoadItemElsewhere ==
    /\ \E w \in WordIds :
         /\ Active(w)
         /\ states[w] # None
         /\ items' = items \cup {[word |-> w, row |-> states[w]]}
    /\ UNCHANGED <<storeVars, overwritten>>

Decide(q) ==
    /\ stray' = stray \cup {q}
    /\ UNCHANGED <<tables, disturbances, clock, items, overwritten>>

\* submitPracticeAnswer, from the row of the item.
AnswerElsewhere ==
    /\ \E item \in items, rating \in GivenRatings :
         /\ Active(item.word)
         /\ \E card \in PracticeResults(item.row.card, "scheduled", clock, rating) :
              Decide([op |-> "savePracticeResult",
                      event |-> AnswerEvent(nextEvent, item.word, item.row, card,
                                            "scheduled", clock, rating),
                      row |-> AnsweredRow(item.row, card, "scheduled", clock, rating)])
    /\ nextEvent' = nextEvent + 1
    /\ UNCHANGED usedIds

\* applyWordMemoryRecalculation, what it reads being read at once; the rows pass the schema
\* of the RPC.
RecalculateElsewhere ==
    /\ \E cards \in ReplayedCards(states, events) :
         LET rows == ChangedStates(states, cards)
         IN  rows \in StateRows /\ Decide([op |-> "replaceMemoryStates", rows |-> rows])
    /\ UNCHANGED <<usedIds, nextEvent>>

\* The library.  Another word than w reads as the spelling t.
Taken(w, t) == \E v \in WordIds \ {w} : Exists(v) /\ PlainText[words[v].text] = PlainText[t]

InsertElsewhere ==
    /\ \E w \in WordIds \ usedIds, t \in Texts :
         /\ ~Taken(w, t)
         /\ Decide([op |-> "insertWords",
                    rows |-> [NoRows EXCEPT ![w] = [text |-> t, archived |-> FALSE,
                                                    examples |-> {}, createdAt |-> clock]]])
         /\ usedIds' = usedIds \cup {w}
    /\ UNCHANGED nextEvent

\* A word is archived, restored or written anew, perhaps as it was, from its row as listed.
UpdateElsewhere ==
    /\ \E w \in WordIds, t \in Texts, archived \in BOOLEAN :
         /\ Exists(w)
         /\ \/ archived # words[w].archived /\ t = words[w].text
            \/ archived = words[w].archived /\ (t = words[w].text \/ ~Taken(w, t))
         /\ Decide([op |-> "updateWords",
                    rows |-> [NoRows EXCEPT ![w] = [words[w] EXCEPT !.text = t,
                                                                    !.archived = archived]]])
    /\ UNCHANGED <<usedIds, nextEvent>>

DeleteElsewhere ==
    /\ \E w \in WordIds : Exists(w) /\ Decide([op |-> "deleteWords", ids |-> {w}])
    /\ UNCHANGED <<usedIds, nextEvent>>

\* The words whose row q replaces by one computed before their last answer was saved.
Overwritten(q) ==
    {w \in WordIds :
        \/ /\ q.op = "savePracticeResult" /\ q.event.word = w
           /\ states[w] = None \/ q.row.attempts # states[w].attempts + 1
        \/ /\ q.op = "replaceMemoryStates" /\ q.rows[w] # None
           /\ states[w] = None \/ q.rows[w].attempts # states[w].attempts}

\* A mutation arrives; one that violates a key is never applied.
CommitElsewhere ==
    /\ \E q \in stray :
         /\ Commit(q)
         /\ stray' = stray \ {q}
         /\ overwritten' = overwritten \cup Overwritten(q)
    /\ UNCHANGED <<disturbances, elsewhere, items>>
    /\ UNCHANGED supplies

Elsewhere ==
    /\ Configured
    /\ \/ /\ elsewhere < MaxElsewhere
          /\ elsewhere' = elsewhere + 1
          /\ \/ LoadItemElsewhere \/ AnswerElsewhere \/ RecalculateElsewhere
             \/ InsertElsewhere \/ UpdateElsewhere \/ DeleteElsewhere
       \/ CommitElsewhere
    /\ UNCHANGED <<historyVars, sessionVars>>

Bounded == elsewhere + clock + deployed + disturbances <= MaxExtras

Next ==
    /\ \/ (\/ PageActs \/ Answered \/ Refused \/ CallLost
           \/ BrowserActs \/ ServerAnswers \/ TimePasses \/ Deploys) /\ UNCHANGED elsewhereVars
       \/ Elsewhere
    /\ Bounded'

Spec == Init /\ [][Next]_vars

-------------------------------------------------------------------------------
TypeOK ==
    /\ StoreTypeOK /\ HistoryTypeOK /\ SessionTypeOK
    /\ elsewhere \in 0 .. MaxElsewhere /\ items \subseteq Item /\ overwritten \subseteq WordIds

(***************************************************************************)
(* Pages are shown and calls answered only to a browser that signed in     *)
(* less than SessionSeconds whole seconds ago, with the secret the server  *)
(* signs with now, and has not signed out since.                           *)
(***************************************************************************)
SignedInNow ==
    /\ signedIn # Nothing
    /\ signedIn.secret = secret
    /\ Second(clock) - Second(signedIn.at) < SessionSeconds

OnlyWhileSignedIn ==
    [][Answered \/ (ServerAnswers /\ screen'.kind = "app" /\ asking' = Nothing) => SignedInNow]_vars

(***************************************************************************)
(* Whatever redirects and wrong passwords lie between, signing in leads    *)
(* to the page that was asked for.                                         *)
(***************************************************************************)
BackWhereAsked ==
    wanted.to \in Paths =>
        /\ (screen.kind = "form" /\ asking = Nothing) => screen.next.to = wanted.to
        /\ (asking # Nothing /\ asking.password # Nothing) => asking.at.to = wanted.to

(***************************************************************************)
(* Redirects come to an end, whenever a session expires and whatever is    *)
(* asked for next: one for every login page on the way, of which a page    *)
(* that is refused is given one, and one when the password is sent; a      *)
(* change of secret may add one.                                           *)
(***************************************************************************)
LoginsOnTheWay == IF wanted.logins = 0 THEN 1 ELSE wanted.logins

RedirectsEnd == hops <= LoginsOnTheWay + 1 + deployed

(***************************************************************************)
(* The list shown is the one the search field asks for, through loading    *)
(* again, failing and typing while nothing was loaded.                     *)
(***************************************************************************)
FilterIsCurrent ==
    history.state \in {"Ready", "LoadingAttempts"} =>
        history.matching = Matching(history.query, history.summaries)

(***************************************************************************)
(* The attempts shown are those of the word that is open, although loads   *)
(* of words closed since are still under way.                              *)
(***************************************************************************)
AttemptsBelong ==
    /\ \A e \in history.attempts : e.word = history.selected
    /\ history.state = "LoadingAttempts" =>
         \E f \in flights : f.awaited /\ f.word = history.selected

(***************************************************************************)
(* Words are opened by the learner only: the answer to a load begun for a  *)
(* word that was closed since opens nothing.                               *)
(***************************************************************************)
OpenedByLearner == [][Answered => history'.selected \in {history.selected, None}]_vars

(***************************************************************************)
(* Reading events, words and memory rows one after the other, while        *)
(* answers, deletions and recalculations of other pages arrive in between, *)
(* adds nothing to the header: it counts more attempts than the list below *)
(* it only of words that were deleted, or whose row was replaced by one    *)
(* that misses an answer.                                                  *)
(***************************************************************************)
Explained(w) == w \in overwritten \cup deleted

ShownAttempts(w) ==
    CASE Explained(w) -> Cardinality({e \in history.events : e.word = w})
      [] ~Explained(w) /\ history'.summaries[w] # None -> history'.summaries[w].attempts
      [] ~Explained(w) /\ history'.summaries[w] = None -> 0

TodayIsCovered ==
    [][(history.step = "states" /\ history'.state = "Ready") =>
         history'.today <= MapThenSumSet(ShownAttempts, WordIds)]_vars
==============================================================================
