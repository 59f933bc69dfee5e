------------------------------- MODULE D1Store -------------------------------
(***************************************************************************)
(* The server's store (apps/server/src/d1-store.ts over the tables of      *)
(* apps/server/migrations) and the RPC channel in front of it.             *)
(*                                                                         *)
(* Every mutating operation is ONE atomic batch of SQL statements.  The    *)
(* clients have no transactions: what they read before sending a batch may *)
(* be out of date when the batch runs.  A request whose response is lost,  *)
(* or whose page was closed, stays in `stray': the server may run it any   *)
(* time later, or never.                                                   *)
(***************************************************************************)
EXTENDS PracticeRecords

CONSTANTS
    PlainText,        \* a spelling without its furigana, in normal form
    MaxClock,         \* bound on time
    MaxDisturbances   \* bound on failed calls and closed pages

ASSUME PlainTextAssumption == PlainText \in [Texts -> Texts]
ASSUME BoundsAssumption == MaxClock \in Nat /\ MaxDisturbances \in Nat

VARIABLES
    words,         \* table words:                id -> row or None
    states,        \* table word_memory_states:   word id -> row or None
    events,        \* table word_practice_events: set of rows
    stray,         \* mutations nobody waits for any more
    usedIds,       \* word ids handed out so far (crypto.randomUUID)
    nextEvent,     \* the next practice event id, likewise
    clock,         \* the time every DateTime.now reads
    disturbances,  \* how many failed calls and closed pages there were
    saved,         \* history: every event ever committed
    archivedFrom,  \* history: nextEvent when the word last became archived
    deleted        \* history: the words ever deleted

tables == <<words, states, events, saved, archivedFrom, deleted>>
channel == <<stray, disturbances>>
supplies == <<usedIds, nextEvent, clock>>
storeVars == <<words, states, events, saved, archivedFrom, deleted,
               stray, disturbances, usedIds, nextEvent, clock>>

(***************************************************************************)
(* Mutations.                                                              *)
(***************************************************************************)
WordRows  == [WordIds -> WordRow \cup {None}]    \* partial maps: None marks "not in the batch"
StateRows == [WordIds -> StateRow \cup {None}]

NoRows == [w \in WordIds |-> None]
Given(rows) == {w \in WordIds : rows[w] # None}

SaveRequest    == [op: {"savePracticeResult"}, event: PracticeEvent, row: StateRow]
ReplaceRequest == [op: {"replaceMemoryStates"}, rows: StateRows]
InsertRequest  == [op: {"insertWords"}, rows: WordRows]
UpdateRequest  == [op: {"updateWords"}, rows: WordRows]
DeleteRequest  == [op: {"deleteWords"}, ids: SUBSET WordIds]
Request == SaveRequest \cup ReplaceRequest \cup InsertRequest \cup UpdateRequest \cup DeleteRequest

Exists(w) == words[w] # None
Active(w) == words[w] # None /\ ~words[w].archived

Overlay(base, rows) == [w \in WordIds |-> IF rows[w] # None THEN rows[w] ELSE base[w]]

\* The histories that follow from the new content of the words table.
Remember(newWords) ==
    archivedFrom' = [w \in WordIds |->
        IF newWords[w] # None /\ newWords[w].archived /\ (words[w] = None \/ ~words[w].archived)
        THEN nextEvent ELSE archivedFrom[w]]

(***************************************************************************)
(* savePracticeResult: upsert the memory row and insert the event.  Both   *)
(* reference words(id), so the batch fails when the word is gone.          *)
(***************************************************************************)
\* mutant: the event is written after the row, in a statement of its own that fails
SavePracticeResultWithoutEvent(event, row) ==
    /\ Exists(event.word)
    /\ states' = [states EXCEPT ![event.word] = row]
    /\ UNCHANGED <<words, events, saved, archivedFrom, deleted>>

\* mutant: no foreign keys
SavePracticeResultUnchecked(event, row) ==
    /\ states' = [states EXCEPT ![event.word] = row]
    /\ events' = events \cup {event}
    /\ saved' = saved \cup {event}
    /\ UNCHANGED <<words, archivedFrom, deleted>>

SavePracticeResult(event, row) ==
    /\ Exists(event.word)
    /\ states' = [states EXCEPT ![event.word] = row]
    /\ events' = events \cup {event}
    /\ saved' = saved \cup {event}
    /\ UNCHANGED <<words, archivedFrom, deleted>>

\* replaceMemoryStates: upsert whole memory rows, all of them or none.
ReplaceMemoryStates(rows) ==
    /\ \A w \in Given(rows) : Exists(w)
    /\ states' = Overlay(states, rows)
    /\ UNCHANGED <<words, events, saved, archivedFrom, deleted>>

\* mutant: the memory rows are left to a later call
InsertWordsOnly(rows) ==
    /\ \A w \in Given(rows) : ~Exists(w)
    /\ words' = Overlay(words, rows)
    /\ Remember(words')
    /\ UNCHANGED <<states, events, saved, deleted>>

\* insertWordWithMemoryState, insertWordsWithMemoryStates: plain inserts.
InsertWords(rows) ==
    /\ \A w \in Given(rows) : ~Exists(w)
    /\ words' = Overlay(words, rows)
    /\ states' = [w \in WordIds |->
                    IF rows[w] # None THEN FreshRow(rows[w].createdAt) ELSE states[w]]
    /\ Remember(words')
    /\ UNCHANGED <<events, saved, deleted>>

\* mutant: INSERT OR REPLACE, whose implicit DELETE cascades
UpdateWordsByReplacing(rows) ==
    /\ words' = Overlay(words, rows)
    /\ states' = [w \in WordIds |-> IF rows[w] # None THEN None ELSE states[w]]
    /\ events' = {e \in events : rows[e.word] = None}
    /\ Remember(words')
    /\ UNCHANGED <<saved, deleted>>

(***************************************************************************)
(* updateWord, updateWords: INSERT ... ON CONFLICT(id) DO UPDATE.  A word  *)
(* deleted in the meantime comes back, without a memory row.               *)
(***************************************************************************)
UpdateWords(rows) ==
    /\ words' = Overlay(words, rows)
    /\ Remember(words')
    /\ UNCHANGED <<states, events, saved, deleted>>

\* mutant: deleted words are only hidden
DeleteWordsSoftly(ids) ==
    /\ words' = [w \in WordIds |->
                    IF w \in ids /\ Exists(w) THEN [words[w] EXCEPT !.archived = TRUE] ELSE words[w]]
    /\ deleted' = deleted \cup {w \in ids : Exists(w)}
    /\ Remember(words')
    /\ UNCHANGED <<states, events, saved>>

\* deleteWord, deleteWords, deleteAllWords, with ON DELETE CASCADE.
DeleteWords(ids) ==
    /\ words' = [w \in WordIds |-> IF w \in ids THEN None ELSE words[w]]
    /\ states' = [w \in WordIds |-> IF w \in ids THEN None ELSE states[w]]
    /\ events' = {e \in events : e.word \notin ids}
    /\ deleted' = deleted \cup {w \in ids : Exists(w)}
    /\ UNCHANGED <<saved, archivedFrom>>

\* The batch runs and every statement of it succeeds.
Commit(q) ==
    \/ q.op = "savePracticeResult" /\ SavePracticeResult(q.event, q.row)
    \/ q.op = "replaceMemoryStates" /\ ReplaceMemoryStates(q.rows)
    \/ q.op = "insertWords" /\ InsertWords(q.rows)
    \/ q.op = "updateWords" /\ UpdateWords(q.rows)
    \/ q.op = "deleteWords" /\ DeleteWords(q.ids)

\* A statement of the batch violates a key: nothing of it is applied.
Rejected(q) ==
    \/ q.op = "savePracticeResult" /\ ~Exists(q.event.word)
    \/ q.op = "replaceMemoryStates" /\ \E w \in Given(q.rows) : ~Exists(w)
    \/ q.op = "insertWords" /\ \E w \in Given(q.rows) : Exists(w)

(***************************************************************************)
(* loadWordSelectionPool reads the memory rows, then the words, in two     *)
(* statements; given what it read, these are the words selectNextWord      *)
(* (packages/services/src/word-session-selection.ts) may return: the       *)
(* learning word due longest, else the review due longest, else any new    *)
(* word.  Ties are broken by id there and left open here.                  *)
(***************************************************************************)
DueIn(rows, phases, now) ==
    {w \in WordIds : /\ rows[w] # None
                     /\ Active(w)
                     /\ rows[w].card.phase \in phases
                     /\ rows[w].card.due <= now}

LongestDue(rows, ws) == {w \in ws : \A v \in ws : rows[w].card.due <= rows[v].card.due}

Selectable(rows, now) ==
    LET learning == DueIn(rows, {"learning", "relearning"}, now)
        review   == DueIn(rows, {"review"}, now)
    IN  IF learning # {} THEN LongestDue(rows, learning)
        ELSE IF review # {} THEN LongestDue(rows, review)
        ELSE DueIn(rows, {"new"}, now)

\* activeWordCount: active words that have a memory row.
ActiveWords(rows) == {w \in WordIds : rows[w] # None /\ Active(w)}

(***************************************************************************)
(* What happens to the channel.                                            *)
(***************************************************************************)
Disturb == disturbances < MaxDisturbances /\ disturbances' = disturbances + 1

\* A mutation nobody waits for reaches the server after all.
LateCommit ==
    \E q \in stray :
        /\ Commit(q)
        /\ stray' = stray \ {q}
        /\ UNCHANGED disturbances
        /\ UNCHANGED supplies

Tick ==
    /\ clock < MaxClock
    /\ clock' = clock + 1
    /\ UNCHANGED <<usedIds, nextEvent>>
    /\ UNCHANGED tables
    /\ UNCHANGED channel

(***************************************************************************)
(* A library of active, unpractised words.                                 *)
(***************************************************************************)
StoreInit ==
    /\ words \in [WordIds -> {None} \cup
           [text: Texts, archived: {FALSE}, examples: {{}}, createdAt: {0}]]
    /\ \A v, w \in WordIds :
           Exists(v) /\ Exists(w) /\ v # w => PlainText[words[v].text] # PlainText[words[w].text]
    /\ states = [w \in WordIds |-> IF words[w] = None THEN None ELSE FreshRow(0)]
    /\ events = {}
    /\ saved = {}
    /\ archivedFrom = [w \in WordIds |-> 0]
    /\ deleted = {}
    /\ stray = {}
    /\ disturbances = 0
    /\ usedIds = {w \in WordIds : words[w] # None}
    /\ nextEvent = 0
    /\ clock = 0

StoreTypeOK ==
    /\ words \in WordRows
    /\ states \in StateRows
    /\ events \subseteq PracticeEvent
    /\ saved \subseteq PracticeEvent
    /\ archivedFrom \in [WordIds -> Nat]
    /\ deleted \subseteq WordIds
    /\ stray \subseteq Request
    /\ disturbances \in 0 .. MaxDisturbances
    /\ usedIds \subseteq WordIds
    /\ nextEvent \in Nat
    /\ clock \in 0 .. MaxClock
==============================================================================
