------------------------------ MODULE BrowserStore ------------------------------
(***************************************************************************)
(* The store in the browser: packages/indexeddb/src/store.ts.  It offers   *)
(* the service of the server's store over IndexedDB, one transaction per   *)
(* operation.  IndexedDB has no foreign keys: rows may be written for      *)
(* words that are gone.  Readers look at the rows of words they list.      *)
(*                                                                         *)
(* Clients are what they are to any store: each decides on a mutation by   *)
(* what it reads and sends it later.  `stray' holds what was decided and   *)
(* has not run.                                                            *)
(***************************************************************************)
EXTENDS D1Store, FiniteSets

CONSTANT MaxRequests   \* bound on mutations decided

ASSUME RequestsAssumption == MaxRequests \in Nat

VARIABLE decided   \* how many were

browserVars == <<storeVars, decided>>

(***************************************************************************)
(* Transactions.                                                           *)
(***************************************************************************)
\* mutant: the row and the event are written in transactions of their own
PutPracticeResultOnly(event, row) ==
    /\ states' = [states EXCEPT ![event.word] = row]
    /\ saved' = IF Exists(event.word) THEN saved \cup {event} ELSE saved
    /\ UNCHANGED <<words, events, archivedFrom, deleted>>

\* savePracticeResult.  The histories are those of the words that exist.
PutPracticeResult(event, row) ==
    /\ states' = [states EXCEPT ![event.word] = row]
    /\ events' = events \cup {event}
    /\ saved' = IF Exists(event.word) THEN saved \cup {event} ELSE saved
    /\ UNCHANGED <<words, archivedFrom, deleted>>

\* replaceMemoryStates
PutMemoryStates(rows) ==
    /\ states' = Overlay(states, rows)
    /\ UNCHANGED <<words, events, saved, archivedFrom, deleted>>

\* insertWordWithMemoryState, insertWordsWithMemoryStates: IDBObjectStore.add
AddWordsWithStates(rows) ==
    /\ \A w \in Given(rows) : words[w] = None /\ states[w] = None
    /\ InsertWords(rows)

\* updateWord, updateWords: IDBObjectStore.put
PutWords(rows) == UpdateWords(rows)

\* deleteWord, deleteWords, deleteAllWords: from the three stores by hand.
RemoveWords(ids) ==
    /\ words' = [w \in WordIds |-> IF w \in ids THEN None ELSE words[w]]
    /\ states' = [w \in WordIds |-> IF w \in ids THEN None ELSE states[w]]
    /\ events' = {e \in events : e.word \notin ids}
    /\ deleted' = deleted \cup {w \in ids : Exists(w)}
    /\ UNCHANGED <<saved, archivedFrom>>

Transact(q) ==
    \/ q.op = "savePracticeResult" /\ PutPracticeResult(q.event, q.row)
    \/ q.op = "replaceMemoryStates" /\ PutMemoryStates(q.rows)
    \/ q.op = "insertWords" /\ AddWordsWithStates(q.rows)
    \/ q.op = "updateWords" /\ PutWords(q.rows)
    \/ q.op = "deleteWords" /\ RemoveWords(q.ids)

(***************************************************************************)
(* What clients decide on.                                                 *)
(***************************************************************************)
Decide(q) ==
    /\ decided < MaxRequests
    /\ decided' = decided + 1
    /\ stray' = stray \cup {q}
    /\ UNCHANGED <<tables, disturbances, clock>>

DecideAnswer ==
    /\ \E w \in WordIds, rating \in Ratings, kind \in Kinds :
         /\ Active(w)
         /\ states[w] # None
         /\ \E card \in PracticeResults(states[w].card, kind, clock, rating) :
              Decide([op |-> "savePracticeResult",
                      event |-> AnswerEvent(nextEvent, w, states[w], card, kind, clock, rating),
                      row |-> AnsweredRow(states[w], card, kind, clock, rating)])
    /\ nextEvent' = nextEvent + 1
    /\ UNCHANGED usedIds

\* A recalculation: rows as read, but for the card.
DecideRecalculation ==
    /\ \E ws \in SUBSET {w \in WordIds : Active(w) /\ states[w] # None} \ {{}} :
         Decide([op |-> "replaceMemoryStates",
                 rows |-> [w \in WordIds |->
                             IF w \in ws
                             THEN [states[w] EXCEPT !.card = InitialCard(clock)] ELSE None]])
    /\ UNCHANGED <<usedIds, nextEvent>>

DecideInsert ==
    /\ \E w \in WordIds \ usedIds, t \in Texts :
         /\ Decide([op |-> "insertWords",
                    rows |-> [NoRows EXCEPT ![w] = [text |-> t, archived |-> FALSE,
                                                    examples |-> {}, createdAt |-> clock]]])
         /\ usedIds' = usedIds \cup {w}
    /\ UNCHANGED nextEvent

DecideUpdate ==
    /\ \E w \in WordIds, t \in Texts, archived \in BOOLEAN :
         /\ Exists(w)
         /\ Decide([op |-> "updateWords",
                    rows |-> [NoRows EXCEPT ![w] = [words[w] EXCEPT !.text = t,
                                                                    !.archived = archived]]])
    /\ UNCHANGED <<usedIds, nextEvent>>

DecideDelete ==
    /\ \E ids \in SUBSET WordIds \ {{}} :
         /\ \A w \in ids : Exists(w)
         /\ Decide([op |-> "deleteWords", ids |-> ids])
    /\ UNCHANGED <<usedIds, nextEvent>>

RunTransaction ==
    /\ \E q \in stray : Transact(q) /\ stray' = stray \ {q}
    /\ UNCHANGED <<disturbances, decided>>
    /\ UNCHANGED supplies

StoreUsed ==
    \/ DecideAnswer \/ DecideRecalculation \/ DecideInsert \/ DecideUpdate \/ DecideDelete
    \/ RunTransaction

-------------------------------------------------------------------------------
\* What readers see of the rows.
SeenStates == [w \in WordIds |-> IF Exists(w) THEN states[w] ELSE None]
SeenEvents == {e \in events : Exists(e.word)}

Server == INSTANCE D1Store WITH states <- SeenStates, events <- SeenEvents

\* A request without the rows of words that are gone.
Trimmed(q) ==
    IF q.op = "replaceMemoryStates"
    THEN [q EXCEPT !.rows = [w \in WordIds |-> IF Exists(w) THEN q.rows[w] ELSE None]]
    ELSE q

Resurrects == \E w \in deleted : words[w] = None /\ words'[w] # None
==============================================================================
