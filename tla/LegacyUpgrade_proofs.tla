-------------------------- MODULE LegacyUpgrade_proofs --------------------------
(***************************************************************************)
(* The browser's database, for any legacy data and any number of requests. *)
(* In use, its transactions are the server's batches to whoever reads the  *)
(* rows of the words it lists.  Through all versions its tables are of     *)
(* their types.  No upgrade, however often cut short, loses anything.      *)
(***************************************************************************)
EXTENDS LegacyUpgrade, PracticeRecords_proofs, FiniteSetTheorems

\* A word that has been in the table since the database is in use.
Stored(w) == Exists(w) \/ w \in deleted

\* What a client has decided on speaks of words as they were handed out.
Sound(q) ==
    \/ /\ q.op = "savePracticeResult"
       /\ q.event.word \in WordIds /\ Stored(q.event.word)
    \/ /\ q.op = "replaceMemoryStates"
       /\ q = [op |-> "replaceMemoryStates", rows |-> q.rows]
    \/ /\ q.op = "insertWords"
       /\ \A w \in Given(q.rows) : w \in usedIds /\ ~Stored(w)
    \/ /\ q.op = "updateWords"
       /\ \A w \in Given(q.rows) : Stored(w)
    \/ q.op = "deleteWords" /\ q.ids \subseteq WordIds

\* No two insertions under way are of the same word.
InsertionsApart ==
    \A q, r \in stray :
        q.op = "insertWords" /\ r.op = "insertWords" /\ q # r =>
          Given(q.rows) \cap Given(r.rows) = {}

\* Tables of words and rows, and the ids that were handed out for them.
TablesSound(wordTable, stateTable, ids) ==
    /\ wordTable = [w \in WordIds |-> wordTable[w]]
    /\ stateTable = [w \in WordIds |-> stateTable[w]]
    /\ ids \subseteq WordIds
    /\ \A w \in WordIds : wordTable[w] # None => w \in ids

(***************************************************************************)
(* The inductive invariant.  Only words that were stored have events, and  *)
(* the words of an insertion under way were not and are its own.  Before   *)
(* the database is in use nothing has been decided, and what an upgrade    *)
(* would roll back to is sound as well.                                    *)
(***************************************************************************)
UseInv ==
    /\ TablesSound(words, states, usedIds)
    /\ deleted \subseteq usedIds
    /\ \A e \in events : e.word \in WordIds /\ Stored(e.word)
    /\ \A q \in stray : Sound(q)
    /\ InsertionsApart
    /\ ~InUse => stray = {} /\ deleted = {}
    /\ legacy.words \subseteq Texts
    /\ Upgrading =>
         /\ before.legacy.words \subseteq Texts
         /\ TablesSound(before.words, before.states, before.usedIds)
         /\ \A e \in before.events : e.word \in WordIds /\ before.words[e.word] # None

-------------------------------------------------------------------------------
(***************************************************************************)
(* One transaction, seen by readers.                                       *)
(***************************************************************************)
\* What the words that exist do not show of the rows is the same as before.
LEMMA SameSeen ==
    ASSUME words' = words,
           \A w \in WordIds : Exists(w) => states'[w] = states[w],
           {e \in events' : Exists(e.word)} = {e \in events : Exists(e.word)}
    PROVE  UNCHANGED <<words, SeenStates, SeenEvents>>
BY DEF SeenStates, SeenEvents, Exists

\* savePracticeResult: the server's batch, or nothing that is seen.
LEMMA PutResultSeen ==
    ASSUME UseInv, NEW q \in stray, q.op = "savePracticeResult",
           PutPracticeResult(q.event, q.row)
    PROVE  Server!Commit(Trimmed(q)) \/ UNCHANGED <<words, SeenStates, SeenEvents>>
<1>1. q.event.word \in WordIds
  BY DEF UseInv, Sound
<1>2. Trimmed(q) = q
  BY DEF Trimmed
<1>3. words' = words /\ states = [w \in WordIds |-> states[w]]
  BY DEF PutPracticeResult, UseInv, TablesSound
<1>4. CASE Exists(q.event.word)
  <2>1. SeenStates' = [SeenStates EXCEPT ![q.event.word] = q.row]
    BY <1>1, <1>3, <1>4 DEF PutPracticeResult, SeenStates, Exists
  <2>2. SeenEvents' = SeenEvents \cup {q.event}
    BY <1>3, <1>4 DEF PutPracticeResult, SeenEvents, Exists
  <2>3. Server!SavePracticeResult(q.event, q.row)
    BY <1>3, <1>4, <2>1, <2>2 DEF PutPracticeResult, Server!SavePracticeResult, Server!Exists, Exists
  <2> QED
    BY <1>2, <2>3 DEF Server!Commit
<1>5. CASE ~Exists(q.event.word)
  <2>1. \A w \in WordIds : Exists(w) => states'[w] = states[w]
    BY <1>1, <1>3, <1>5 DEF PutPracticeResult, Exists
  <2>2. {e \in events' : Exists(e.word)} = {e \in events : Exists(e.word)}
    BY <1>5 DEF PutPracticeResult
  <2> QED
    BY <1>3, <2>1, <2>2, SameSeen
<1> QED
  BY <1>4, <1>5

\* replaceMemoryStates: the server's batch of the rows whose words are left.
LEMMA PutStatesSeen ==
    ASSUME UseInv, NEW q \in stray, q.op = "replaceMemoryStates", PutMemoryStates(q.rows)
    PROVE  Server!Commit(Trimmed(q))
<1> DEFINE kept == [w \in WordIds |-> IF Exists(w) THEN q.rows[w] ELSE None]
<1>1. q = [op |-> "replaceMemoryStates", rows |-> q.rows]
  BY DEF UseInv, Sound
<1>2. Trimmed(q) = [op |-> "replaceMemoryStates", rows |-> kept]
  BY <1>1 DEF Trimmed
<1>3. words' = words
  BY DEF PutMemoryStates
<1>4. SeenStates' = [w \in WordIds |-> IF kept[w] # None THEN kept[w] ELSE SeenStates[w]]
  BY <1>3 DEF PutMemoryStates, SeenStates, Overlay, Exists
<1>5. \A w \in WordIds : kept[w] # None => words[w] # None
  BY DEF Exists
<1>6. SeenEvents' = SeenEvents
  BY <1>3 DEF PutMemoryStates, SeenEvents, Exists
<1>7. Server!ReplaceMemoryStates(kept)
  <2> HIDE DEF kept
  <2> QED
    BY <1>3, <1>4, <1>5, <1>6
       DEF PutMemoryStates, Server!ReplaceMemoryStates, Server!Overlay, Server!Given, Server!Exists
<1> QED
  BY <1>2, <1>7 DEF Server!Commit

\* insertWord(s)WithMemoryState(s): the server's batch; a new word brings no old events.
LEMMA AddWordsSeen ==
    ASSUME UseInv, NEW q \in stray, q.op = "insertWords", AddWordsWithStates(q.rows)
    PROVE  Server!Commit(Trimmed(q))
<1>1. \A w \in Given(q.rows) : ~Stored(w)
  BY DEF UseInv, Sound
<1>2. Trimmed(q) = q
  BY DEF Trimmed
<1>3. \A w \in WordIds : words'[w] = IF q.rows[w] # None THEN q.rows[w] ELSE words[w]
  BY DEF AddWordsWithStates, InsertWords, Overlay
<1>4. SeenStates' = [w \in WordIds |->
                       IF q.rows[w] # None THEN FreshRow(q.rows[w].createdAt) ELSE SeenStates[w]]
  BY <1>3 DEF AddWordsWithStates, InsertWords, SeenStates, Exists
<1>5. SeenEvents' = SeenEvents
  <2>1. \A e \in events : e.word \in WordIds /\ q.rows[e.word] = None
    BY <1>1 DEF UseInv, Given
  <2>2. \A e \in events : words'[e.word] = words[e.word]
    BY <1>3, <2>1
  <2> QED
    BY <2>2 DEF AddWordsWithStates, InsertWords, SeenEvents, Exists
<1>6. Server!InsertWords(q.rows)
  BY <1>4, <1>5
     DEF AddWordsWithStates, InsertWords, Server!InsertWords, Given, Exists, Overlay, Remember,
         Server!Given, Server!Exists, Server!Overlay, Server!Remember, FreshRow, Server!FreshRow,
         InitialCard, Server!InitialCard
<1> QED
  BY <1>2, <1>6 DEF Server!Commit

\* updateWord(s): the server's batch, unless it brings a deleted word back.
LEMMA PutWordsSeen ==
    ASSUME UseInv, NEW q \in stray, q.op = "updateWords", PutWords(q.rows)
    PROVE  Resurrects \/ Server!Commit(Trimmed(q))
<1> SUFFICES ASSUME ~Resurrects PROVE Server!Commit(Trimmed(q))
  OBVIOUS
<1>1. \A w \in Given(q.rows) : Stored(w)
  BY DEF UseInv, Sound
<1>2. Trimmed(q) = q
  BY DEF Trimmed
<1>3. \A w \in WordIds : words'[w] = IF q.rows[w] # None THEN q.rows[w] ELSE words[w]
  BY DEF PutWords, UpdateWords, Overlay
<1>4. \A w \in WordIds : words'[w] # None <=> words[w] # None
  BY <1>1, <1>3 DEF Resurrects, Given, Stored, Exists
<1>5. SeenStates' = SeenStates /\ SeenEvents' = SeenEvents
  <2>1. \A e \in events : e.word \in WordIds
    BY DEF UseInv
  <2> QED
    BY <1>4, <2>1 DEF PutWords, UpdateWords, SeenStates, SeenEvents, Exists
<1>6. Server!UpdateWords(q.rows)
  BY <1>5
     DEF PutWords, UpdateWords, Server!UpdateWords, Overlay, Remember, Server!Overlay, Server!Remember
<1> QED
  BY <1>2, <1>6 DEF Server!Commit

\* deleteWord(s), deleteAllWords: by hand what the server's foreign keys cascade.
LEMMA RemoveWordsSeen ==
    ASSUME UseInv, NEW q \in stray, q.op = "deleteWords", RemoveWords(q.ids)
    PROVE  Server!Commit(Trimmed(q))
<1>1. Trimmed(q) = q
  BY DEF Trimmed
<1>2. \A w \in WordIds : words'[w] = IF w \in q.ids THEN None ELSE words[w]
  BY DEF RemoveWords
<1>3. SeenStates' = [w \in WordIds |-> IF w \in q.ids THEN None ELSE SeenStates[w]]
  BY <1>2 DEF RemoveWords, SeenStates, Exists
<1>4. SeenEvents' = {e \in SeenEvents : e.word \notin q.ids}
  <2>1. \A e \in events : e.word \in WordIds
    BY DEF UseInv
  <2> QED
    BY <1>2, <2>1 DEF RemoveWords, SeenEvents, Exists
<1>5. Server!DeleteWords(q.ids)
  BY <1>3, <1>4 DEF RemoveWords, Server!DeleteWords, Server!Exists, Exists
<1> QED
  BY <1>1, <1>5 DEF Server!Commit

LEMMA TransactionSeen ==
    ASSUME UseInv, NEW q \in stray, Transact(q)
    PROVE  \/ Resurrects \/ Server!Commit(Trimmed(q))
           \/ UNCHANGED <<words, SeenStates, SeenEvents>>
BY PutResultSeen, PutStatesSeen, AddWordsSeen, PutWordsSeen, RemoveWordsSeen DEF Transact

\* What is decided, and time, are not seen.
LEMMA StepSeen ==
    ASSUME UseInv, [Next]_vars
    PROVE  [InUse => Resurrects \/ \E q \in stray : Server!Commit(Trimmed(q))]_<<words, SeenStates, SeenEvents>>
<1>1. CASE UseStep
  <2>1. CASE RunTransaction
    BY <2>1, TransactionSeen DEF RunTransaction
  <2>2. CASE DecideAnswer \/ DecideRecalculation \/ DecideInsert \/ DecideUpdate \/ DecideDelete
    BY <2>2, SameSeen
       DEF DecideAnswer, DecideRecalculation, DecideInsert, DecideUpdate, DecideDelete, Decide, tables
  <2> QED
    BY <1>1, <2>1, <2>2 DEF UseStep, StoreUsed
<1>2. CASE UpgradeStep
  <2>1. ~InUse
    BY <1>2
       DEF UpgradeStep, OpenDatabase, UpgradeSchema, MigrateToVersion6, CommitUpgrade,
           UpgradeAborted, InUse
  <2> QED
    BY <2>1
<1>3. CASE TimePasses
  BY <1>3, SameSeen DEF TimePasses, Tick, tables
<1>4. CASE UNCHANGED vars
  BY <1>4, SameSeen DEF vars, browserVars, storeVars
<1> QED
  BY <1>1, <1>2, <1>3, <1>4 DEF Next

-------------------------------------------------------------------------------
(***************************************************************************)
(* The invariant.                                                          *)
(***************************************************************************)
LEMMA UseStart == Init => UseInv
<1> SUFFICES ASSUME Init PROVE UseInv
  OBVIOUS
<1>1. TablesSound(words, states, usedIds)
  BY DEF Init, UpgradeInit, StoreInit, TablesSound
<1>2. before = None /\ stray = {} /\ deleted = {} /\ events = {}
  BY DEF Init, UpgradeInit, StoreInit
<1>3. legacy.words \subseteq Texts
  BY DEF Init, UpgradeInit, Legacy, NoLegacy
<1> QED
  BY <1>1, <1>2, <1>3 DEF UseInv, Upgrading, InsertionsApart

\* Nothing else of the invariant changes when the tables and the requests do not.
LEMMA SoundStays ==
    ASSUME NEW q, Sound(q), usedIds \subseteq usedIds', UNCHANGED <<words, deleted>>
    PROVE  Sound(q)'
BY DEF Sound, Stored, Exists, Given

LEMMA StoredStays ==
    ASSUME UNCHANGED <<words, deleted>>, NEW w
    PROVE  Stored(w)' <=> Stored(w)
BY DEF Stored, Exists

\* A client decides on something sound that inserts no word another one does.
LEMMA DecidingKeepsUse ==
    ASSUME UseInv, InUse, NEW new, Decide(new), UNCHANGED upgradeVars,
           usedIds \subseteq usedIds', usedIds' \subseteq WordIds, Sound(new)',
           new.op = "insertWords" => Given(new.rows) \cap usedIds = {}
    PROVE  UseInv'
<1>1. UNCHANGED <<words, states, events, deleted>> /\ stray' = stray \cup {new}
  BY DEF Decide, tables
<1>2. TablesSound(words, states, usedIds)'
  BY <1>1 DEF UseInv, TablesSound
<1>3. \A q \in stray' : Sound(q)'
  BY <1>1, SoundStays DEF UseInv
<1>4. InsertionsApart'
  <2>1. \A q \in stray : q.op = "insertWords" => Given(q.rows) \subseteq usedIds
    BY DEF UseInv, Sound
  <2>2. \A q : Given(q.rows)' = Given(q.rows)
    BY DEF Given
  <2> QED
    BY <1>1, <2>1, <2>2 DEF UseInv, InsertionsApart
<1>5. InUse' /\ ~Upgrading' /\ legacy' = legacy
  BY DEF upgradeVars, InUse, Upgrading
<1>6. \A e \in events' : e.word \in WordIds /\ Stored(e.word)'
  BY <1>1, StoredStays DEF UseInv
<1>7. deleted' \subseteq usedIds'
  BY <1>1 DEF UseInv
<1> QED
  BY <1>2, <1>3, <1>4, <1>5, <1>6, <1>7 DEF UseInv

\* Each decision is sound: it speaks of words that exist or hands out a new one.
LEMMA DecisionsKeepUse ==
    ASSUME UseInv, InUse, UNCHANGED upgradeVars,
           DecideAnswer \/ DecideRecalculation \/ DecideInsert \/ DecideUpdate \/ DecideDelete
    PROVE  UseInv'
<1>1. CASE DecideAnswer
  <2>1. PICK w, new :
          /\ w \in WordIds /\ Active(w) /\ Decide(new)
          /\ new.op = "savePracticeResult" /\ new.event.word = w
    BY <1>1 DEF DecideAnswer, AnswerEvent
  <2>2. Sound(new)'
    BY <2>1 DEF Sound, Stored, Exists, Active, Decide, tables
  <2>3. usedIds' = usedIds
    BY <1>1 DEF DecideAnswer
  <2> QED
    BY <2>1, <2>2, <2>3, DecidingKeepsUse DEF UseInv, TablesSound
<1>2. CASE DecideRecalculation
  <2>1. PICK new : Decide(new) /\ \E rows : new = [op |-> "replaceMemoryStates", rows |-> rows]
    BY <1>2 DEF DecideRecalculation
  <2>2. Sound(new)' /\ new.op = "replaceMemoryStates"
    BY <2>1 DEF Sound
  <2>3. usedIds' = usedIds
    BY <1>2 DEF DecideRecalculation
  <2> QED
    BY <2>1, <2>2, <2>3, DecidingKeepsUse DEF UseInv, TablesSound
<1>3. CASE DecideInsert
  <2>1. PICK w, row :
          /\ w \in WordIds \ usedIds
          /\ Decide([op |-> "insertWords", rows |-> [NoRows EXCEPT ![w] = row]])
          /\ usedIds' = usedIds \cup {w}
    BY <1>3 DEF DecideInsert
  <2> DEFINE new == [op |-> "insertWords", rows |-> [NoRows EXCEPT ![w] = row]]
  <2>2. new.op = "insertWords" /\ Given(new.rows) \subseteq {w}
    BY DEF Given, NoRows
  <2>3. Decide(new)
    BY <2>1
  <2> HIDE DEF new
  <2>4. ~Stored(w)' /\ UNCHANGED <<words, deleted>>
    BY <2>1, <2>3 DEF UseInv, TablesSound, Stored, Exists, Decide, tables
  <2>5. Sound(new)'
    BY <2>1, <2>2, <2>4 DEF Sound, Given
  <2> QED
    BY <2>1, <2>2, <2>3, <2>5, DecidingKeepsUse DEF UseInv, TablesSound
<1>4. CASE DecideUpdate
  <2>1. PICK w, row :
          /\ w \in WordIds /\ Exists(w)
          /\ Decide([op |-> "updateWords", rows |-> [NoRows EXCEPT ![w] = row]])
    BY <1>4 DEF DecideUpdate
  <2> DEFINE new == [op |-> "updateWords", rows |-> [NoRows EXCEPT ![w] = row]]
  <2>2. new.op = "updateWords" /\ Given(new.rows) \subseteq {w}
    BY DEF Given, NoRows
  <2>3. Decide(new)
    BY <2>1
  <2> HIDE DEF new
  <2>4. Stored(w)'
    BY <2>1, <2>3 DEF Stored, Exists, Decide, tables
  <2>5. Sound(new)'
    BY <2>2, <2>4 DEF Sound, Given
  <2>6. usedIds' = usedIds
    BY <1>4 DEF DecideUpdate
  <2> QED
    BY <2>2, <2>3, <2>5, <2>6, DecidingKeepsUse DEF UseInv, TablesSound
<1>5. CASE DecideDelete
  <2>1. PICK new : Decide(new) /\ new.op = "deleteWords" /\ new.ids \subseteq WordIds
    BY <1>5 DEF DecideDelete
  <2>2. Sound(new)'
    BY <2>1 DEF Sound
  <2>3. usedIds' = usedIds
    BY <1>5 DEF DecideDelete
  <2> QED
    BY <2>1, <2>2, <2>3, DecidingKeepsUse DEF UseInv, TablesSound
<1> QED
  BY <1>1, <1>2, <1>3, <1>4, <1>5

\* A transaction stores words of its own insertion only, and forgets none.
LEMMA TransactStores ==
    ASSUME UseInv, NEW q \in stray, Transact(q)
    PROVE  /\ \A w \in WordIds : Stored(w) => Stored(w)'
           /\ \A w \in WordIds : Stored(w)' =>
                Stored(w) \/ (q.op = "insertWords" /\ w \in Given(q.rows))
           /\ \A e \in events' : e \in events \/ (q.op = "savePracticeResult" /\ e = q.event)
           /\ words' = [w \in WordIds |-> words'[w]]
           /\ states' = [w \in WordIds |-> states'[w]]
           /\ deleted' \subseteq deleted \cup {w \in WordIds : Exists(w)}
<1> USE DEF Stored, Exists
<1>0. /\ words = [w \in WordIds |-> words[w]] /\ states = [w \in WordIds |-> states[w]]
      /\ \A e \in events : e.word \in WordIds
      /\ Sound(q)
  BY DEF UseInv, TablesSound
<1>1. CASE q.op = "savePracticeResult" /\ PutPracticeResult(q.event, q.row)
  BY <1>0, <1>1 DEF PutPracticeResult
<1>2. CASE q.op = "replaceMemoryStates" /\ PutMemoryStates(q.rows)
  BY <1>0, <1>2 DEF PutMemoryStates, Overlay
<1>3. CASE q.op = "insertWords" /\ AddWordsWithStates(q.rows)
  BY <1>0, <1>3 DEF AddWordsWithStates, InsertWords, Overlay, Given
<1>4. CASE q.op = "updateWords" /\ PutWords(q.rows)
  BY <1>0, <1>4 DEF PutWords, UpdateWords, Overlay, Sound, Given
<1>5. CASE q.op = "deleteWords" /\ RemoveWords(q.ids)
  <2>1. /\ words' = [w \in WordIds |-> IF w \in q.ids THEN None ELSE words[w]]
        /\ states' = [w \in WordIds |-> IF w \in q.ids THEN None ELSE states[w]]
        /\ events' \subseteq events
        /\ deleted' = deleted \cup {w \in q.ids : Exists(w)}
    BY <1>5 DEF RemoveWords
  <2>2. q.ids \subseteq WordIds
    BY <1>0, <1>5 DEF Sound
  <2> QED
    BY <1>0, <2>1, <2>2
<1> QED
  BY <1>1, <1>2, <1>3, <1>4, <1>5 DEF Transact

LEMMA TransactionKeepsUse ==
    ASSUME UseInv, InUse, UNCHANGED upgradeVars, RunTransaction
    PROVE  UseInv'
<1>1. PICK q \in stray : Transact(q) /\ stray' = stray \ {q}
  BY DEF RunTransaction
<1>2. usedIds' = usedIds /\ InUse' /\ ~Upgrading' /\ legacy' = legacy
  BY DEF RunTransaction, supplies, upgradeVars, InUse, Upgrading
<1>3. \A w \in WordIds : Stored(w) => w \in usedIds
  BY DEF UseInv, TablesSound, Stored, Exists
<1>4. Sound(q) /\ usedIds \subseteq WordIds
  BY DEF UseInv, TablesSound
<1>5. \A w \in WordIds : Stored(w)' => w \in usedIds
  BY <1>1, <1>3, <1>4, TransactStores DEF Sound
<1>6. TablesSound(words, states, usedIds)'
  BY <1>1, <1>2, <1>4, <1>5, TransactStores DEF TablesSound, Stored, Exists
<1>7. deleted' \subseteq usedIds'
  BY <1>1, <1>2, <1>3, TransactStores DEF UseInv, Stored
<1>8. \A e \in events' : e.word \in WordIds /\ Stored(e.word)'
  <2>1. \A e \in events' : e \in events \/ (q.op = "savePracticeResult" /\ e = q.event)
    BY <1>1, TransactStores
  <2>2. \A e \in events' : e.word \in WordIds /\ Stored(e.word)
    BY <1>4, <2>1 DEF UseInv, Sound
  <2> QED
    BY <1>1, <2>2, TransactStores
<1>9. \A r \in stray' : Sound(r)'
  <2> SUFFICES ASSUME NEW r \in stray, r # q PROVE Sound(r)'
    BY <1>1
  <2>1. Sound(r)
    BY DEF UseInv
  <2>2. \A w \in WordIds : Stored(w) => Stored(w)'
    BY <1>1, TransactStores
  <2>3. CASE r.op = "insertWords"
    <3>1. q.op = "insertWords" => Given(q.rows) \cap Given(r.rows) = {}
      BY <2>3 DEF UseInv, InsertionsApart
    <3>2. \A w \in Given(r.rows) : w \in WordIds /\ ~Stored(w)'
      BY <1>1, <2>1, <2>3, <3>1, TransactStores DEF Sound, Given
    <3> QED
      BY <1>2, <2>1, <2>3, <3>2 DEF Sound, Given
  <2>4. CASE r.op # "insertWords"
    BY <2>1, <2>2, <2>4 DEF Sound, Given
  <2> QED
    BY <2>3, <2>4
<1>10. InsertionsApart'
  BY <1>1 DEF UseInv, InsertionsApart, Given
<1> QED
  BY <1>2, <1>6, <1>7, <1>8, <1>9, <1>10 DEF UseInv

\* The tables an upgrade builds hold the words it gave ids to and their events.
LEMMA BuildKeepsUse ==
    ASSUME UseInv, NEW idOf \in [legacy.words -> WordIds \ usedIds], Build(idOf)
    PROVE  /\ TablesSound(words, states, usedIds)'
           /\ \A e \in events' : e.word \in WordIds /\ words'[e.word] # None
           /\ UNCHANGED deleted
<1> DEFINE ids == {idOf[t] : t \in legacy.words}
           spelt(w) == CHOOSE t \in legacy.words : idOf[t] = w
           new(w) == [text |-> spelt(w), archived |-> FALSE, examples |-> {}, createdAt |-> 0]
<1>1. ids \subseteq WordIds /\ usedIds \subseteq WordIds
  BY DEF UseInv, TablesSound
<1>2. words' = [w \in WordIds |-> IF w \in ids THEN new(w) ELSE None]
  BY DEF Build
<1>3. \A w \in ids : new(w) # None
  <2>1. \A w \in ids : spelt(w) \in legacy.words
    OBVIOUS
  <2>2. \A w \in ids : new(w) \in WordRow
    BY <2>1 DEF UseInv, WordRow
  <2> QED
    BY <2>2, AbsenceAssumption
<1>4. states' = [w \in WordIds |-> IF w \in ids THEN MigratedRow(spelt(w)) ELSE None]
  BY DEF Build
<1>5. usedIds' = usedIds \cup ids /\ deleted' = deleted
  BY DEF Build
<1>6. \A e \in events' : e.word \in ids
  BY DEF Build, MigratedEvents
<1> HIDE DEF new, ids, spelt
<1>7. TablesSound(words, states, usedIds)'
  BY <1>1, <1>2, <1>4, <1>5 DEF TablesSound
<1> QED
  BY <1>1, <1>2, <1>3, <1>5, <1>6, <1>7

LEMMA UpgradeKeepsUse ==
    ASSUME UseInv, UpgradeStep
    PROVE  UseInv'
<1>0. ~InUse /\ stray = {} /\ deleted = {}
  BY DEF UpgradeStep, OpenDatabase, UpgradeSchema, MigrateToVersion6, CommitUpgrade,
         UpgradeAborted, InUse, UseInv
<1>1. stray' = {} /\ InsertionsApart' /\ (\A q \in stray' : Sound(q)')
  BY <1>0
     DEF UpgradeStep, OpenDatabase, UpgradeSchema, MigrateToVersion6, CommitUpgrade,
         UpgradeAborted, browserVars, storeVars, channel, InsertionsApart
<1>2. CASE OpenDatabase
  <2>1. /\ before'.words = words /\ before'.states = states /\ before'.events = events
        /\ before'.usedIds = usedIds /\ before'.legacy = legacy
    BY <1>2 DEF OpenDatabase, Database
  <2>2. UNCHANGED <<legacy, words, states, events, usedIds, deleted>>
    BY <1>2 DEF OpenDatabase, browserVars, storeVars
  <2>3. \A e \in events : e.word \in WordIds /\ words[e.word] # None
    BY <1>0 DEF UseInv, Stored, Exists
  <2> QED
    BY <1>0, <1>1, <2>1, <2>2, <2>3 DEF UseInv, TablesSound, Stored, Exists
<1>3. CASE UpgradeSchema
  BY <1>0, <1>1, <1>3
     DEF UpgradeSchema, browserVars, storeVars, UseInv, TablesSound, Stored, Exists, Upgrading
<1>4. CASE MigrateToVersion6
  <2>1. before' = before /\ Upgrading
    BY <1>4 DEF MigrateToVersion6
  <2>2. CASE UNCHANGED <<stores, legacy, tables, usedIds, nextEvent>>
    BY <1>0, <1>1, <2>1, <2>2 DEF UseInv, tables, TablesSound, Stored, Exists, Upgrading
  <2>3. CASE \E idOf \in [legacy.words -> WordIds \ usedIds] : Build(idOf) /\ legacy' = NoLegacy
    <3>1. /\ TablesSound(words, states, usedIds)'
          /\ \A e \in events' : e.word \in WordIds /\ words'[e.word] # None
          /\ UNCHANGED deleted
      BY <2>3, BuildKeepsUse
    <3>2. legacy'.words \subseteq Texts
      BY <2>3 DEF NoLegacy
    <3> QED
      BY <1>0, <1>1, <2>1, <3>1, <3>2 DEF UseInv, Stored, Exists, Upgrading
  <2> QED
    BY <1>4, <2>2, <2>3 DEF MigrateToVersion6
<1>5. CASE CommitUpgrade
  BY <1>0, <1>1, <1>5
     DEF CommitUpgrade, browserVars, storeVars, UseInv, TablesSound, Stored, Exists, Upgrading
<1>6. CASE UpgradeAborted
  BY <1>0, <1>1, <1>6 DEF UpgradeAborted, UseInv, TablesSound, Stored, Exists, Upgrading
<1> QED
  BY <1>2, <1>3, <1>4, <1>5, <1>6 DEF UpgradeStep

LEMMA NextKeepsUse == UseInv /\ [Next]_vars => UseInv'
<1> SUFFICES ASSUME UseInv, [Next]_vars PROVE UseInv'
  OBVIOUS
<1>1. CASE UpgradeStep
  BY <1>1, UpgradeKeepsUse
<1>2. CASE UseStep
  BY <1>2, DecisionsKeepUse, TransactionKeepsUse DEF UseStep, StoreUsed
<1>3. CASE TimePasses \/ UNCHANGED vars
  <2>1. /\ UNCHANGED <<words, states, events, deleted, stray, usedIds>>
        /\ UNCHANGED <<version, legacy, before>>
    BY <1>3 DEF TimePasses, Tick, tables, channel, upgradeVars, vars, browserVars, storeVars
  <2>2. \A q \in stray' : Sound(q)'
    BY <2>1, SoundStays DEF UseInv
  <2> QED
    BY <2>1, <2>2
       DEF UseInv, TablesSound, Stored, Exists, InsertionsApart, Given, InUse, Upgrading
<1> QED
  BY <1>1, <1>2, <1>3 DEF Next

\* The inductive invariant of the browser's database, through upgrades and use.
THEOREM BrowserInvariant == Spec => []UseInv
BY UseStart, NextKeepsUse, PTL DEF Spec

\* packages/indexeddb/src/store.ts acts as apps/server/src/d1-store.ts for readers who
\* look up the rows of words they list, whatever was decided when, but for an update
\* that brings a deleted word back.
THEOREM BrowserActsAsServer == Spec => ActsAsServer
BY BrowserInvariant, StepSeen, PTL DEF Spec, ActsAsServer

-------------------------------------------------------------------------------
(***************************************************************************)
(* The order in which submissions are replayed.                            *)
(***************************************************************************)
\* Submissions are finitely many, and told apart by their ids.
Listed(M) ==
    /\ IsFiniteSet(M)
    /\ M \subseteq Submission
    /\ \A r, s \in M : r.id = s.id => r = s

LEMMA LegacyListed ==
    ASSUME NEW M \in Submissions
    PROVE  Listed(M)
<1>1. PICK n \in 0 .. MaxSubmissions :
         \E f \in [1 .. n -> [text: Texts, right: BOOLEAN, at: LegacyTimes]] :
            M = {[id |-> i, text |-> f[i].text, right |-> f[i].right, at |-> f[i].at] : i \in 1 .. n}
  BY DEF Submissions
<1>2. PICK f \in [1 .. n -> [text: Texts, right: BOOLEAN, at: LegacyTimes]] :
        M = {[id |-> i, text |-> f[i].text, right |-> f[i].right, at |-> f[i].at] : i \in 1 .. n}
  BY <1>1
<1> DEFINE g == [i \in 1 .. n |->
                   [id |-> i, text |-> f[i].text, right |-> f[i].right, at |-> f[i].at]]
<1>3. n \in Nat /\ 1 .. n \subseteq 1 .. MaxSubmissions
  BY LegacyAssumption
<1>4. IsFiniteSet(1 .. n)
  BY <1>3, FS_Interval
<1>5. g \in Surjection(1 .. n, M)
  BY <1>2 DEF Surjection
<1>6. IsFiniteSet(M)
  BY <1>4, <1>5, FS_Surjection
<1>7. M \subseteq Submission
  BY <1>2, <1>3 DEF Submission
<1>8. \A r, s \in M : r.id = s.id => r = s
  BY <1>2
<1> QED
  BY <1>6, <1>7, <1>8 DEF Listed

\* The place of a submission among those for the same word.
Rank(M, s) == Cardinality({r \in M : Precedes(r, s)}) + 1

\* Ranks are the places 1 to n, each taken once, in the order of time.
LEMMA Ranking ==
    ASSUME NEW M, Listed(M)
    PROVE  /\ Cardinality(M) \in Nat
           /\ \A s \in M : Rank(M, s) \in 1 .. Cardinality(M)
           /\ \A r, s \in M : Rank(M, r) = Rank(M, s) => r = s
           /\ \A r, s \in M : Rank(M, r) <= Rank(M, s) => r.at <= s.at
           /\ \A i \in 1 .. Cardinality(M) : \E s \in M : Rank(M, s) = i
<1> DEFINE n == Cardinality(M)
           Below(s) == {r \in M : Precedes(r, s)}
<1>1. IsFiniteSet(M) /\ n \in Nat
  BY FS_CardinalityType DEF Listed
<1>2. \A s \in M : s.at \in Nat /\ s.id \in Nat
  <2>1. \A s \in Submission : s.at \in LegacyTimes /\ s.id \in 1 .. MaxSubmissions
    BY DEF Submission
  <2>2. LegacyTimes \subseteq Nat /\ 1 .. MaxSubmissions \subseteq Nat
    BY LegacyAssumption
  <2> QED
    BY <2>1, <2>2 DEF Listed
<1>3. ASSUME NEW s \in M
      PROVE  IsFiniteSet(Below(s)) /\ Cardinality(Below(s)) \in Nat /\ Cardinality(Below(s)) <= n - 1
  <2>1. ~Precedes(s, s)
    BY <1>2 DEF Precedes
  <2>2. Below(s) \in SUBSET (M \ {s})
    BY <2>1
  <2>3. IsFiniteSet(M \ {s}) /\ Cardinality(M \ {s}) = n - 1
    BY <1>1, FS_RemoveElement
  <2> HIDE DEF Below
  <2> QED
    BY <2>2, <2>3, FS_Subset, FS_CardinalityType
<1>4. ASSUME NEW r \in M, NEW s \in M, Precedes(r, s)
      PROVE  Cardinality(Below(r)) < Cardinality(Below(s))
  <2>1. \A q \in M : Precedes(q, r) => Precedes(q, s)
    BY <1>2, <1>4 DEF Precedes
  <2>2. Below(r) \in SUBSET Below(s)
    BY <2>1
  <2>3. r \in Below(s) /\ r \notin Below(r)
    BY <1>2, <1>4 DEF Precedes
  <2>4. IsFiniteSet(Below(s)) /\ Cardinality(Below(s)) \in Nat /\ Cardinality(Below(r)) \in Nat
    BY <1>3
  <2> HIDE DEF Below
  <2>5. Cardinality(Below(r)) <= Cardinality(Below(s))
    BY <2>2, <2>4, FS_Subset
  <2>6. Cardinality(Below(r)) # Cardinality(Below(s))
    BY <2>2, <2>3, <2>4, FS_Subset
  <2> QED
    BY <2>4, <2>5, <2>6
<1>5. \A s \in M : Rank(M, s) = Cardinality(Below(s)) + 1
  BY DEF Rank
<1> HIDE DEF Below
<1>6. \A s \in M : Rank(M, s) \in 1 .. n
  BY <1>1, <1>3, <1>5
<1>7. \A r, s \in M : Precedes(r, s) => Rank(M, r) < Rank(M, s)
  BY <1>3, <1>4, <1>5
<1>8. \A r, s \in M : Precedes(r, s) \/ Precedes(s, r) \/ r = s
  BY <1>2 DEF Precedes, Listed
<1>9. \A r, s \in M : Rank(M, r) = Rank(M, s) => r = s
  BY <1>6, <1>7, <1>8
<1>10. \A r, s \in M : Rank(M, r) <= Rank(M, s) => r.at <= s.at
  <2> SUFFICES ASSUME NEW r \in M, NEW s \in M, Rank(M, r) <= Rank(M, s) PROVE r.at <= s.at
    OBVIOUS
  <2>1. ~Precedes(s, r)
    BY <1>6, <1>7
  <2> QED
    BY <1>2, <2>1 DEF Precedes
<1>11. \A i \in 1 .. n : \E s \in M : Rank(M, s) = i
  <2> DEFINE f == [s \in M |-> Rank(M, s)]
  <2>1. f \in Injection(M, 1 .. n)
    BY <1>6, <1>9 DEF Injection, IsInjective
  <2>2. IsFiniteSet(1 .. n) /\ Cardinality(1 .. n) = n
    BY <1>1, FS_Interval
  <2>3. f \in Surjection(M, 1 .. n)
    BY <2>1, <2>2, FS_Injection
  <2> QED
    BY <2>3 DEF Surjection
<1> QED
  BY <1>1, <1>6, <1>9, <1>10, <1>11

Mine(t) == {s \in legacy.submissions : s.text = t}

\* Sorting the submissions for a spelling keeps them all and puts the latest last
\* (submissionsForWord of buildVersion5Data).
LEMMA ReplayedSorted ==
    ASSUME legacy \in Legacy, NEW t
    PROVE  /\ Listed(Mine(t)) /\ Cardinality(Mine(t)) \in Nat
           /\ DOMAIN Replayed(t) = 1 .. Cardinality(Mine(t))
           /\ \A i \in 1 .. Cardinality(Mine(t)) : Replayed(t)[i] \in Mine(t)
           /\ \A s \in Mine(t) : \E i \in 1 .. Cardinality(Mine(t)) : Replayed(t)[i] = s
           /\ \A i, j \in 1 .. Cardinality(Mine(t)) :
                i <= j => Replayed(t)[i].at <= Replayed(t)[j].at
<1> DEFINE M == Mine(t)
<1>1. Listed(legacy.submissions)
  BY LegacyListed DEF Legacy
<1>2. Listed(M)
  <2>1. M \in SUBSET legacy.submissions
    BY DEF Mine
  <2> HIDE DEF M
  <2> QED
    BY <1>1, <2>1, FS_Subset DEF Listed
<1>3. Replayed(t) = [i \in 1 .. Cardinality(M) |-> CHOOSE s \in M : Rank(M, s) = i]
  BY DEF Replayed, Mine, Rank
<1> HIDE DEF M
<1>4. \A i \in 1 .. Cardinality(M) : Replayed(t)[i] \in M /\ Rank(M, Replayed(t)[i]) = i
  BY <1>2, <1>3, Ranking
<1>5. \A s \in M : Replayed(t)[Rank(M, s)] = s
  BY <1>2, <1>4, Ranking
<1> QED
  BY <1>2, <1>3, <1>4, <1>5, Ranking DEF M

-------------------------------------------------------------------------------
(***************************************************************************)
(* What buildVersion5Data makes of a legacy word.                          *)
(***************************************************************************)
LEMMA CardAfterType ==
    ASSUME legacy \in Legacy, NEW t, NEW n \in 0 .. Cardinality(Mine(t))
    PROVE  CardAfter(t, n) \in Card
<1> DEFINE result(i, card) ==
             DeterministicPracticeResult(card, "scheduled", Replayed(t)[i].at, Rating(Replayed(t)[i]))
           after == CHOOSE g : g = [i \in 0 .. n |->
                                      IF i = 0 THEN InitialCard(0) ELSE result(i, g[i - 1])]
<1>1. CardAfter(t, n) = after[n]
  BY DEF CardAfter
<1>2. n \in Nat /\ \A i \in 1 .. n : i \in 1 .. Cardinality(Mine(t))
  BY ReplayedSorted
<1>3. \A i \in 1 .. n : \A card \in Card : result(i, card) \in Card
  <2> TAKE i \in 1 .. n
  <2> TAKE card \in Card
  <2>1. Replayed(t)[i] \in Submission
    BY <1>2, ReplayedSorted DEF Listed
  <2>2. Replayed(t)[i].at \in LegacyTimes
    BY <2>1 DEF Submission
  <2>3. Replayed(t)[i].at \in Nat
    BY <2>2, LegacyAssumption
  <2>4. Rating(Replayed(t)[i]) \in Ratings /\ "scheduled" \in Kinds
    BY DEF Rating, Ratings, Kinds
  <2> QED
    BY <2>3, <2>4, SchedulersReturnCards
<1>4. InitialCard(0) \in Card
  BY InitialCardType
<1> HIDE DEF after, result
<1>5. PICK step \in [1 .. n -> [Card -> Card]] :
        \A i \in 1 .. n : \A card \in Card : step[i][card] = result(i, card)
  <2> DEFINE step == [i \in 1 .. n |-> [card \in Card |-> result(i, card)]]
  <2>1. step \in [1 .. n -> [Card -> Card]]
    BY <1>3
  <2>2. \A i \in 1 .. n : \A card \in Card : step[i][card] = result(i, card)
    OBVIOUS
  <2> HIDE DEF step
  <2> QED
    BY <2>1, <2>2
<1>6. \E f \in [0 .. n -> Card] : Iterates(f, n, InitialCard(0), step)
  BY <1>2, <1>4, IterationExists
<1>7. PICK f \in [0 .. n -> Card] :
        f[0] = InitialCard(0) /\ \A i \in 1 .. n : f[i] = step[i][f[i - 1]]
  BY <1>6 DEF Iterates
<1>8. \A i \in 1 .. n : f[i] = result(i, f[i - 1])
  BY <1>2, <1>5, <1>7
<1>9. f = [i \in 0 .. n |-> IF i = 0 THEN InitialCard(0) ELSE result(i, f[i - 1])]
  BY <1>2, <1>7, <1>8
<1>10. after = [i \in 0 .. n |-> IF i = 0 THEN InitialCard(0) ELSE result(i, after[i - 1])]
  BY <1>9 DEF after
<1> DEFINE T == {i \in Nat : i <= n => after[i] \in Card}
<1>11. 0 \in T
  BY <1>2, <1>4, <1>10
<1>12. ASSUME NEW i \in Nat, i \in T PROVE i + 1 \in T
  <2> SUFFICES ASSUME i + 1 <= n PROVE after[i + 1] \in Card
    OBVIOUS
  <2>1. after[i] \in Card
    BY <1>2, <1>12
  <2>2. after[i + 1] = result(i + 1, after[i])
    BY <1>2, <1>10
  <2> QED
    BY <1>2, <1>3, <2>1, <2>2
<1>13. Nat \subseteq T
  <2> HIDE DEF T
  <2> QED
    BY <1>11, <1>12, SetInduction
<1> QED
  BY <1>1, <1>2, <1>13

LEMMA MigratedRowCorrect ==
    ASSUME legacy \in Legacy, NEW t
    PROVE  /\ MigratedRow(t) \in StateRow /\ WellFormed(MigratedRow(t))
           /\ MigratedRow(t).attempts = Cardinality(Mine(t))
           /\ MigratedRow(t).correct = Cardinality({s \in Mine(t) : s.right})
           /\ MigratedRow(t).card = CardAfter(t, Cardinality(Mine(t)))
<1> DEFINE n == Cardinality(Mine(t))
           right == Cardinality({s \in Mine(t) : s.right})
<1>1. MigratedRow(t) =
        [stage |-> "contextRecall", stageAttempts |-> n, failureStreak |-> 0,
         masteryStreak |-> 0, card |-> CardAfter(t, n),
         attempts |-> n, correct |-> right, incorrect |-> n - right]
  BY DEF MigratedRow, Mine
<1>2. n \in Nat /\ IsFiniteSet(Mine(t))
  BY ReplayedSorted DEF Listed
<1>3. right \in Nat /\ right <= n
  <2>1. {s \in Mine(t) : s.right} \in SUBSET Mine(t)
    OBVIOUS
  <2> QED
    BY <1>2, <2>1, FS_Subset, FS_CardinalityType
<1>4. CardAfter(t, n) \in Card
  BY <1>2, CardAfterType
<1> HIDE DEF n, right
<1>5. n - right \in Nat /\ n = right + (n - right)
  BY <1>2, <1>3
<1> QED
  BY <1>1, <1>2, <1>3, <1>4, <1>5
     DEF StateRow, WellFormed, Stages, RequiredMasteryReviews, RequiredContextFailures, n, right

LEMMA MigratedEventsType ==
    ASSUME legacy \in Legacy, NEW t, NEW w \in WordIds
    PROVE  MigratedEvents(t, w) \subseteq PracticeEvent
<1> SUFFICES ASSUME NEW i \in 1 .. Cardinality(Mine(t))
             PROVE  [id |-> Replayed(t)[i].id, word |-> w, reviewedAt |-> Replayed(t)[i].at,
                     rating |-> Rating(Replayed(t)[i]), kind |-> "scheduled",
                     stage |-> "contextRecall", movedTo |-> None,
                     nextDueAt |-> CardAfter(t, i).due] \in PracticeEvent
  BY ReplayedSorted DEF MigratedEvents
<1>1. Replayed(t)[i] \in Submission
  BY ReplayedSorted DEF Listed
<1>2. Replayed(t)[i].at \in LegacyTimes /\ Replayed(t)[i].id \in 1 .. MaxSubmissions
  BY <1>1 DEF Submission
<1>3. Replayed(t)[i].at \in Nat /\ Replayed(t)[i].id \in Nat
  <2>1. LegacyTimes \subseteq Nat /\ 1 .. MaxSubmissions \subseteq Nat
    BY LegacyAssumption
  <2> QED
    BY <1>2, <2>1
<1>4. CardAfter(t, i).due \in Nat
  <2>1. i \in 0 .. Cardinality(Mine(t))
    BY ReplayedSorted
  <2>2. CardAfter(t, i) \in Card
    BY <2>1, CardAfterType
  <2> QED
    BY <2>2 DEF Card
<1>5. Rating(Replayed(t)[i]) \in Ratings /\ "scheduled" \in Kinds /\ "contextRecall" \in Stages
  BY DEF Rating, Ratings, Kinds, Stages
<1> QED
  BY <1>3, <1>4, <1>5 DEF PracticeEvent

-------------------------------------------------------------------------------
(***************************************************************************)
(* Type correctness.  A database holds legacy data only with legacy        *)
(* stores, and stores as a released version left them or the versions      *)
(* since have changed them.                                                *)
(***************************************************************************)
DatabaseTyped(db) ==
    /\ db.words \in WordRows /\ db.states \in StateRows
    /\ db.events \subseteq PracticeEvent /\ db.saved \subseteq PracticeEvent
    /\ db.usedIds \subseteq WordIds /\ db.nextEvent \in Nat
    /\ db.legacy \in Legacy
    /\ db.version \in 0 .. 6
    /\ db.version < 6 => db.stores \in StoresOf(db.version)
    /\ db.version = 6 => db.stores = CurrentStores
    /\ "word_entries" \notin db.stores => db.legacy = NoLegacy

BrowserTypeInv ==
    /\ DatabaseTyped(Database)
    /\ Upgrading => DatabaseTyped(before)
    /\ original.legacy \in Legacy
    /\ archivedFrom \in [WordIds -> Nat] /\ deleted \subseteq WordIds
    /\ stray \subseteq Request
    /\ disturbances \in 0 .. MaxDisturbances /\ clock \in 0 .. MaxClock
    /\ decided \in 0 .. MaxRequests

LEMMA DatabaseFields ==
    /\ Database.words = words /\ Database.states = states /\ Database.events = events
    /\ Database.saved = saved /\ Database.usedIds = usedIds /\ Database.nextEvent = nextEvent
    /\ Database.legacy = legacy /\ Database.version = version /\ Database.stores = stores
BY DEF Database

\* Every set of stores a version may have is made of known ones, and the schema's steps
\* lead from one version's to the next's.
LEMMA StoresKnown ==
    ASSUME NEW v \in 0 .. 5, NEW held \in StoresOf(v)
    PROVE  /\ held \subseteq Removed \cup LegacyStores \cup LegacyStates \cup CurrentStores
           /\ v < 5 => (held \cup SchemaSteps[v + 1].add) \ SchemaSteps[v + 1].drop \in StoresOf(v + 1)
           /\ v < 5 => ("word_entries" \in held =>
                "word_entries" \in (held \cup SchemaSteps[v + 1].add) \ SchemaSteps[v + 1].drop)
           /\ v = 5 => (held \ (LegacyStores \cup LegacyStates)) \cup CurrentStores = CurrentStores
           /\ v = 5 /\ ~(LegacyStores \subseteq held) => held = CurrentStores
           /\ CurrentStores \subseteq held =>
                v = 5 /\ ("word_entries" \in held \/ held = CurrentStores)
<1> USE DEF StoresOf, SchemaSteps, Removed, LegacyStores, LegacyStates, CurrentStores
<1>0. v = 0 \/ v = 1 \/ v = 2 \/ v = 3 \/ v = 4 \/ v = 5
  OBVIOUS
<1>1. CASE v = 0
  BY <1>1
<1>2. CASE v = 1
  BY <1>2
<1>3. CASE v = 2
  BY <1>3
<1>4. CASE v = 3
  BY <1>4
<1>5. CASE v = 4
  BY <1>5
<1>6. CASE v = 5
  BY <1>6
<1> QED
  BY <1>0, <1>1, <1>2, <1>3, <1>4, <1>5, <1>6

LEMMA TypeInvImplies == BrowserTypeInv => TypeOK
<1> SUFFICES ASSUME BrowserTypeInv PROVE TypeOK
  OBVIOUS
<1>1. StoreTypeOK
  BY DatabaseFields DEF BrowserTypeInv, DatabaseTyped, StoreTypeOK
<1>2. version \in 0 .. 6 /\ (version = 6 => stores = CurrentStores)
      /\ (version < 6 => stores \in StoresOf(version)) /\ legacy \in Legacy
  BY DatabaseFields DEF BrowserTypeInv, DatabaseTyped
<1>3. stores \subseteq Removed \cup LegacyStores \cup LegacyStates \cup CurrentStores
  <2>1. CASE version = 6
    BY <1>2, <2>1
  <2>2. CASE version < 6
    <3>1. version \in 0 .. 5 /\ stores \in StoresOf(version)
      BY <1>2, <2>2
    <3> QED
      BY <3>1, StoresKnown
  <2> QED
    BY <1>2, <2>1, <2>2
<1> QED
  BY <1>1, <1>2, <1>3 DEF TypeOK, BrowserTypeInv

LEMMA NoLegacyType == NoLegacy \in Legacy
<1>1. {} \in Submissions
  <2> DEFINE Sub == [text: Texts, right: BOOLEAN, at: LegacyTimes]
             f == [i \in 1 .. 0 |-> i]
  <2>1. 0 \in 0 .. MaxSubmissions /\ f \in [1 .. 0 -> Sub]
    BY LegacyAssumption
  <2>2. {[id |-> i, text |-> f[i].text, right |-> f[i].right, at |-> f[i].at] : i \in 1 .. 0} = {}
    OBVIOUS
  <2> HIDE DEF f
  <2>3. {} \in {{[id |-> i, text |-> g[i].text, right |-> g[i].right, at |-> g[i].at] : i \in 1 .. 0}
                  : g \in [1 .. 0 -> Sub]}
    BY <2>1, <2>2
  <2> QED
    BY <2>1, <2>3 DEF Submissions
<1> QED
  BY <1>1 DEF NoLegacy, Legacy

LEMMA StoreStartsTyped ==
    ASSUME StoreInit
    PROVE  StoreTypeOK
<1> DEFINE First == [text: Texts, archived: {FALSE}, examples: {{}}, createdAt: {0}]
<1>1. First \subseteq WordRow
  <2>1. \A sets : {{}} \subseteq SUBSET sets
    OBVIOUS
  <2>2. {FALSE} \subseteq BOOLEAN /\ {0} \subseteq Nat
    OBVIOUS
  <2> QED
    BY <2>1, <2>2, Zenon DEF WordRow
<1>2. words \in [WordIds -> {None} \cup First]
  BY DEF StoreInit
<1> HIDE DEF First
<1>3. words \in WordRows
  BY <1>1, <1>2 DEF WordRows
<1>4. states = [w \in WordIds |-> IF words[w] = None THEN None ELSE FreshRow(0)]
  BY DEF StoreInit
<1>5. FreshRow(0) \in StateRow
  BY FreshRowCorrect
<1>6. states \in StateRows
  BY <1>4, <1>5 DEF StateRows
<1> QED
  BY <1>3, <1>6, BoundsAssumption DEF StoreInit, StoreTypeOK

LEMMA TypeStart == Init => BrowserTypeInv
<1> SUFFICES ASSUME Init PROVE BrowserTypeInv
  OBVIOUS
<1> USE DEF Init, UpgradeInit
<1>1. StoreTypeOK
  BY StoreStartsTyped
<1>2. legacy \in Legacy
  BY NoLegacyType
<1>3. DatabaseTyped(Database)
  BY <1>1, <1>2, DatabaseFields DEF DatabaseTyped, StoreTypeOK
<1>4. original.legacy \in Legacy
  BY <1>2, DatabaseFields
<1>5. ~Upgrading /\ decided \in 0 .. MaxRequests
  BY RequestsAssumption DEF Upgrading
<1> QED
  BY <1>1, <1>3, <1>4, <1>5 DEF BrowserTypeInv, StoreTypeOK

\* A transaction leaves tables of the right type.
LEMMA TransactType ==
    ASSUME BrowserTypeInv, NEW q \in Request, Transact(q)
    PROVE  /\ words' \in WordRows /\ states' \in StateRows
           /\ events' \subseteq PracticeEvent /\ saved' \subseteq PracticeEvent
           /\ archivedFrom' \in [WordIds -> Nat] /\ deleted' \subseteq WordIds
<1>0. /\ words \in WordRows /\ states \in StateRows
      /\ events \subseteq PracticeEvent /\ saved \subseteq PracticeEvent
      /\ archivedFrom \in [WordIds -> Nat] /\ deleted \subseteq WordIds /\ nextEvent \in Nat
  BY DatabaseFields DEF BrowserTypeInv, DatabaseTyped
<1> USE DEF Request, SaveRequest, ReplaceRequest, InsertRequest, UpdateRequest, DeleteRequest
<1>1. CASE q.op = "savePracticeResult" /\ PutPracticeResult(q.event, q.row)
  <2>1. q.event \in PracticeEvent /\ q.row \in StateRow
    BY <1>1
  <2>2. states' \in StateRows
    BY <1>0, <1>1, <2>1 DEF PutPracticeResult, StateRows
  <2> QED
    BY <1>0, <1>1, <2>1, <2>2 DEF PutPracticeResult
<1>2. CASE q.op = "replaceMemoryStates" /\ PutMemoryStates(q.rows)
  <2>1. q.rows \in StateRows
    BY <1>2
  <2>2. states' \in StateRows
    BY <1>0, <1>2, <2>1 DEF PutMemoryStates, Overlay, StateRows
  <2> QED
    BY <1>0, <1>2, <2>2 DEF PutMemoryStates
<1>3. CASE q.op = "insertWords" /\ AddWordsWithStates(q.rows)
  <2>1. q.rows \in WordRows
    BY <1>3
  <2>2. words' \in WordRows
    BY <1>0, <1>3, <2>1 DEF AddWordsWithStates, InsertWords, Overlay, WordRows
  <2>3. \A w \in WordIds : q.rows[w] # None => FreshRow(q.rows[w].createdAt) \in StateRow
    BY <2>1, FreshRowCorrect DEF WordRows, WordRow
  <2>4. states' \in StateRows
    BY <1>0, <1>3, <2>3 DEF AddWordsWithStates, InsertWords, StateRows
  <2> QED
    BY <1>0, <1>3, <2>2, <2>4 DEF AddWordsWithStates, InsertWords, Remember
<1>4. CASE q.op = "updateWords" /\ PutWords(q.rows)
  <2>1. q.rows \in WordRows
    BY <1>4
  <2>2. words' \in WordRows
    BY <1>0, <1>4, <2>1 DEF PutWords, UpdateWords, Overlay, WordRows
  <2> QED
    BY <1>0, <1>4, <2>2 DEF PutWords, UpdateWords, Remember
<1>5. CASE q.op = "deleteWords" /\ RemoveWords(q.ids)
  <2>1. q.ids \subseteq WordIds
    BY <1>5
  <2> QED
    BY <1>0, <1>5, <2>1 DEF RemoveWords, WordRows, StateRows
<1> QED
  BY <1>1, <1>2, <1>3, <1>4, <1>5 DEF Transact

\* What clients decide on are requests.
LEMMA DecisionsType ==
    ASSUME BrowserTypeInv,
           DecideAnswer \/ DecideRecalculation \/ DecideInsert \/ DecideUpdate \/ DecideDelete
    PROVE  /\ stray' \subseteq Request /\ decided' \in 0 .. MaxRequests
           /\ usedIds' \subseteq WordIds /\ nextEvent' \in Nat
           /\ UNCHANGED <<tables, disturbances, clock>>
<1>0. /\ words \in WordRows /\ states \in StateRows
      /\ usedIds \subseteq WordIds /\ nextEvent \in Nat /\ clock \in Nat
      /\ stray \subseteq Request /\ decided \in 0 .. MaxRequests
  BY DatabaseFields, BoundsAssumption DEF BrowserTypeInv, DatabaseTyped
<1>1. ASSUME NEW new \in Request, Decide(new)
      PROVE  /\ stray' \subseteq Request /\ decided' \in 0 .. MaxRequests
             /\ UNCHANGED <<tables, disturbances, clock>>
  BY <1>0, <1>1, RequestsAssumption DEF Decide
<1>2. CASE DecideAnswer
  <2>1. PICK w \in WordIds, rating \in Ratings, kind \in Kinds :
          /\ states[w] # None
          /\ \E card \in PracticeResults(states[w].card, kind, clock, rating) :
               Decide([op |-> "savePracticeResult",
                       event |-> AnswerEvent(nextEvent, w, states[w], card, kind, clock, rating),
                       row |-> AnsweredRow(states[w], card, kind, clock, rating)])
    BY <1>2 DEF DecideAnswer
  <2>2. PICK card \in PracticeResults(states[w].card, kind, clock, rating) :
          Decide([op |-> "savePracticeResult",
                  event |-> AnswerEvent(nextEvent, w, states[w], card, kind, clock, rating),
                  row |-> AnsweredRow(states[w], card, kind, clock, rating)])
    BY <2>1
  <2>3. states[w] \in StateRow /\ states[w].card \in Card
    BY <1>0, <2>1 DEF StateRows, StateRow
  <2>4. card \in Card
    BY <1>0, <2>2, <2>3, SchedulersReturnCards
  <2>5. /\ AnswerEvent(nextEvent, w, states[w], card, kind, clock, rating) \in PracticeEvent
        /\ AnsweredRow(states[w], card, kind, clock, rating) \in StateRow
    BY <1>0, <2>3, <2>4, AnswerEventType, AnsweredRowType
  <2>6. [op |-> "savePracticeResult",
         event |-> AnswerEvent(nextEvent, w, states[w], card, kind, clock, rating),
         row |-> AnsweredRow(states[w], card, kind, clock, rating)] \in Request
    BY <2>5 DEF Request, SaveRequest
  <2>7. nextEvent' \in Nat /\ usedIds' = usedIds
    BY <1>0, <1>2 DEF DecideAnswer
  <2> QED
    BY <1>0, <1>1, <2>2, <2>6, <2>7
<1>3. CASE DecideRecalculation
  <2>1. PICK ws \in SUBSET {w \in WordIds : Active(w) /\ states[w] # None} :
          Decide([op |-> "replaceMemoryStates",
                  rows |-> [w \in WordIds |->
                              IF w \in ws THEN [states[w] EXCEPT !.card = InitialCard(clock)] ELSE None]])
    BY <1>3 DEF DecideRecalculation
  <2> DEFINE rows == [w \in WordIds |->
                        IF w \in ws THEN [states[w] EXCEPT !.card = InitialCard(clock)] ELSE None]
  <2>2. \A w \in ws : [states[w] EXCEPT !.card = InitialCard(clock)] \in StateRow
    <3> TAKE w \in ws
    <3>1. states[w] \in StateRow
      BY <1>0 DEF StateRows
    <3> QED
      BY <1>0, <3>1, InitialCardType, RescheduledRowCorrect
  <2>3. rows \in StateRows
    BY <2>2 DEF StateRows
  <2>4. [op |-> "replaceMemoryStates", rows |-> rows] \in Request
    <3> HIDE DEF rows
    <3> QED
      BY <2>3 DEF Request, ReplaceRequest
  <2> QED
    BY <1>0, <1>1, <1>3, <2>1, <2>4 DEF DecideRecalculation
<1>4. CASE DecideInsert
  <2>1. PICK w, row :
          /\ w \in WordIds \ usedIds /\ row \in WordRow
          /\ Decide([op |-> "insertWords", rows |-> [NoRows EXCEPT ![w] = row]])
          /\ usedIds' = usedIds \cup {w}
    BY <1>0, <1>4 DEF DecideInsert, WordRow
  <2>2. [NoRows EXCEPT ![w] = row] \in WordRows
    BY <2>1 DEF NoRows, WordRows
  <2>3. [op |-> "insertWords", rows |-> [NoRows EXCEPT ![w] = row]] \in Request
    BY <2>2 DEF Request, InsertRequest
  <2> QED
    BY <1>0, <1>1, <1>4, <2>1, <2>3 DEF DecideInsert
<1>5. CASE DecideUpdate
  <2>1. PICK w \in WordIds, t \in Texts, archived \in BOOLEAN :
          /\ Exists(w)
          /\ Decide([op |-> "updateWords",
                     rows |-> [NoRows EXCEPT ![w] = [words[w] EXCEPT !.text = t,
                                                                     !.archived = archived]]])
    BY <1>5 DEF DecideUpdate
  <2>2. words[w] \in WordRow
    BY <1>0, <2>1 DEF WordRows, Exists
  <2>3. PICK row \in WordRow : row = [words[w] EXCEPT !.text = t, !.archived = archived]
    BY <2>2 DEF WordRow
  <2>4. [NoRows EXCEPT ![w] = row] \in WordRows
    BY DEF NoRows, WordRows
  <2>5. [op |-> "updateWords", rows |-> [NoRows EXCEPT ![w] = row]] \in Request
    BY <2>4 DEF Request, UpdateRequest
  <2> QED
    BY <1>0, <1>1, <1>5, <2>1, <2>3, <2>5 DEF DecideUpdate
<1>6. CASE DecideDelete
  <2>1. PICK ids \in SUBSET WordIds : Decide([op |-> "deleteWords", ids |-> ids])
    BY <1>6 DEF DecideDelete
  <2>2. [op |-> "deleteWords", ids |-> ids] \in Request
    BY DEF Request, DeleteRequest
  <2> QED
    BY <1>0, <1>1, <1>6, <2>1, <2>2 DEF DecideDelete
<1> QED
  BY <1>2, <1>3, <1>4, <1>5, <1>6

\* The tables an upgrade builds are of the right type.
LEMMA BuildType ==
    ASSUME BrowserTypeInv, NEW idOf \in [legacy.words -> WordIds \ usedIds], Build(idOf)
    PROVE  /\ words' \in WordRows /\ states' \in StateRows
           /\ events' \subseteq PracticeEvent /\ saved' \subseteq PracticeEvent
           /\ usedIds' \subseteq WordIds /\ nextEvent' \in Nat
           /\ UNCHANGED <<archivedFrom, deleted>>
<1> DEFINE ids == {idOf[t] : t \in legacy.words}
           spelt(w) == CHOOSE t \in legacy.words : idOf[t] = w
           new(w) == [text |-> spelt(w), archived |-> FALSE, examples |-> {}, createdAt |-> 0]
<1>1. legacy \in Legacy /\ legacy.words \subseteq Texts /\ usedIds \subseteq WordIds
  BY DatabaseFields DEF BrowserTypeInv, DatabaseTyped, Legacy
<1>2. words' = [w \in WordIds |-> IF w \in ids THEN new(w) ELSE None]
  BY DEF Build
<1>3. states' = [w \in WordIds |-> IF w \in ids THEN MigratedRow(spelt(w)) ELSE None]
  BY DEF Build
<1>4. \A w \in ids : spelt(w) \in Texts
  BY <1>1
<1>5. \A w \in ids : new(w) \in WordRow
  BY <1>4 DEF WordRow
<1>6. \A w \in ids : MigratedRow(spelt(w)) \in StateRow
  BY <1>1, MigratedRowCorrect
<1>7. \A t \in legacy.words : MigratedEvents(t, idOf[t]) \subseteq PracticeEvent
  BY <1>1, MigratedEventsType
<1>8. events' \subseteq PracticeEvent /\ saved' \subseteq PracticeEvent
  BY <1>7 DEF Build
<1>9. /\ usedIds' = usedIds \cup ids /\ nextEvent' = MaxSubmissions + 1
      /\ UNCHANGED <<archivedFrom, deleted>>
  BY DEF Build
<1>10. ids \subseteq WordIds
  OBVIOUS
<1> HIDE DEF ids, spelt, new
<1> QED
  BY <1>1, <1>2, <1>3, <1>5, <1>6, <1>8, <1>9, <1>10, LegacyAssumption DEF WordRows, StateRows

LEMMA UpgradeType ==
    ASSUME BrowserTypeInv, UpgradeStep
    PROVE  BrowserTypeInv'
<1>1. CASE OpenDatabase
  <2>1. UNCHANGED <<browserVars, version, stores, legacy, original>> /\ before' = Database
    BY <1>1 DEF OpenDatabase
  <2>2. Database' = Database
    BY <2>1 DEF Database, browserVars, storeVars
  <2> QED
    BY <2>1, <2>2 DEF BrowserTypeInv, browserVars, storeVars, Upgrading
<1>2. CASE UpgradeSchema
  <2>1. /\ UNCHANGED <<browserVars, legacy, before, original>> /\ Upgrading
        /\ version < 5 /\ version' = version + 1
        /\ stores' = (stores \cup SchemaSteps[version + 1].add) \ SchemaSteps[version + 1].drop
    BY <1>2 DEF UpgradeSchema
  <2>2. version \in 0 .. 5 /\ stores \in StoresOf(version)
        /\ ("word_entries" \notin stores => legacy = NoLegacy)
    BY <2>1, DatabaseFields DEF BrowserTypeInv, DatabaseTyped
  <2> DEFINE new == (stores \cup SchemaSteps[version + 1].add) \ SchemaSteps[version + 1].drop
  <2>6. new \in StoresOf(version + 1) /\ ("word_entries" \in stores => "word_entries" \in new)
    BY <2>1, <2>2, StoresKnown
  <2>7. stores' = new /\ legacy' = legacy /\ version' \in 0 .. 5
    BY <2>1, <2>2
  <2> HIDE DEF new
  <2>3. /\ stores' \in StoresOf(version + 1) /\ version' \in 0 .. 5
        /\ "word_entries" \notin stores' => legacy' = NoLegacy
    BY <2>2, <2>6, <2>7
  <2>4. /\ Database'.words = words /\ Database'.states = states /\ Database'.events = events
        /\ Database'.saved = saved /\ Database'.usedIds = usedIds
        /\ Database'.nextEvent = nextEvent /\ Database'.legacy = legacy
        /\ Database'.version = version + 1 /\ Database'.stores = stores'
    BY <2>1 DEF Database, browserVars, storeVars
  <2>5. DatabaseTyped(Database)'
    BY <2>1, <2>2, <2>3, <2>4, DatabaseFields DEF BrowserTypeInv, DatabaseTyped
  <2> QED
    BY <2>1, <2>5 DEF BrowserTypeInv, browserVars, storeVars, Upgrading
<1>3. CASE MigrateToVersion6
  <2>1. UNCHANGED <<channel, clock, decided, before, original>> /\ version = 5 /\ version' = 6
    BY <1>3 DEF MigrateToVersion6
  <2>2. version \in 0 .. 5 /\ stores \in StoresOf(version)
        /\ ("word_entries" \notin stores => legacy = NoLegacy)
    BY <2>1, DatabaseFields DEF BrowserTypeInv, DatabaseTyped
  <2>3. /\ Database'.words = words' /\ Database'.states = states' /\ Database'.events = events'
        /\ Database'.saved = saved' /\ Database'.usedIds = usedIds'
        /\ Database'.nextEvent = nextEvent' /\ Database'.legacy = legacy'
        /\ Database'.version = 6 /\ Database'.stores = stores'
    BY <2>1 DEF Database
  <2>4. CASE ~(LegacyStores \subseteq stores) /\ UNCHANGED <<stores, legacy, tables, usedIds, nextEvent>>
    <3>1. stores' = CurrentStores /\ ("word_entries" \notin stores' => legacy' = NoLegacy)
      BY <2>1, <2>2, <2>4, StoresKnown
    <3>2. DatabaseTyped(Database)'
      BY <2>3, <2>4, <3>1, DatabaseFields DEF BrowserTypeInv, DatabaseTyped, tables
    <3> QED
      BY <2>1, <2>4, <3>2 DEF BrowserTypeInv, tables, channel, Upgrading
  <2>5. CASE /\ \E idOf \in [legacy.words -> WordIds \ usedIds] : Build(idOf)
             /\ stores' = (stores \ (LegacyStores \cup LegacyStates)) \cup CurrentStores
             /\ legacy' = NoLegacy
    <3>1. /\ words' \in WordRows /\ states' \in StateRows
          /\ events' \subseteq PracticeEvent /\ saved' \subseteq PracticeEvent
          /\ usedIds' \subseteq WordIds /\ nextEvent' \in Nat
          /\ UNCHANGED <<archivedFrom, deleted>>
      BY <2>5, BuildType
    <3>2. stores' = CurrentStores
      BY <2>1, <2>2, <2>5, StoresKnown
    <3>3. DatabaseTyped(Database)'
      BY <2>3, <2>5, <3>1, <3>2, NoLegacyType DEF DatabaseTyped
    <3> QED
      BY <2>1, <3>1, <3>3 DEF BrowserTypeInv, channel, Upgrading
  <2> QED
    BY <1>3, <2>4, <2>5 DEF MigrateToVersion6
<1>4. CASE CommitUpgrade
  <2>1. UNCHANGED <<browserVars, version, stores, legacy, original>> /\ before' = None
    BY <1>4 DEF CommitUpgrade
  <2>2. Database' = Database
    BY <2>1 DEF Database, browserVars, storeVars
  <2> QED
    BY <2>1, <2>2 DEF BrowserTypeInv, browserVars, storeVars, Upgrading
<1>5. CASE UpgradeAborted
  <2>1. /\ Database'.words = before.words /\ Database'.states = before.states
        /\ Database'.events = before.events /\ Database'.saved = before.saved
        /\ Database'.usedIds = before.usedIds /\ Database'.nextEvent = before.nextEvent
        /\ Database'.legacy = before.legacy /\ Database'.version = before.version
        /\ Database'.stores = before.stores
    BY <1>5 DEF UpgradeAborted, Database
  <2>2. DatabaseTyped(before) /\ ~Upgrading'
        /\ UNCHANGED <<archivedFrom, deleted, channel, clock, decided, original>>
    BY <1>5 DEF UpgradeAborted, BrowserTypeInv, Upgrading
  <2>3. DatabaseTyped(Database)'
    BY <2>1, <2>2 DEF DatabaseTyped
  <2> QED
    BY <2>2, <2>3 DEF BrowserTypeInv, channel
<1> QED
  BY <1>1, <1>2, <1>3, <1>4, <1>5 DEF UpgradeStep

LEMMA TypeKept == BrowserTypeInv /\ [Next]_vars => BrowserTypeInv'
<1> SUFFICES ASSUME BrowserTypeInv, [Next]_vars PROVE BrowserTypeInv'
  OBVIOUS
<1>1. CASE UpgradeStep
  BY <1>1, UpgradeType
<1>2. CASE UseStep
  <2>1. UNCHANGED upgradeVars /\ StoreUsed
    BY <1>2 DEF UseStep
  <2>2. /\ Database'.words = words' /\ Database'.states = states' /\ Database'.events = events'
        /\ Database'.saved = saved' /\ Database'.usedIds = usedIds'
        /\ Database'.nextEvent = nextEvent' /\ Database'.legacy = legacy
        /\ Database'.version = version /\ Database'.stores = stores
    BY <2>1 DEF Database, upgradeVars
  <2>3. CASE RunTransaction
    <3>1. PICK q \in stray : Transact(q) /\ stray' = stray \ {q}
      BY <2>3 DEF RunTransaction
    <3>2. q \in Request
      BY DEF BrowserTypeInv
    <3>3. /\ words' \in WordRows /\ states' \in StateRows
          /\ events' \subseteq PracticeEvent /\ saved' \subseteq PracticeEvent
          /\ archivedFrom' \in [WordIds -> Nat] /\ deleted' \subseteq WordIds
      BY <3>1, <3>2, TransactType
    <3>4. UNCHANGED <<disturbances, decided, usedIds, nextEvent, clock>>
      BY <2>3 DEF RunTransaction, supplies
    <3>5. DatabaseTyped(Database)'
      BY <2>1, <2>2, <3>3, <3>4, DatabaseFields DEF BrowserTypeInv, DatabaseTyped, upgradeVars
    <3> QED
      BY <2>1, <3>1, <3>3, <3>4, <3>5 DEF BrowserTypeInv, upgradeVars, Upgrading
  <2>4. CASE DecideAnswer \/ DecideRecalculation \/ DecideInsert \/ DecideUpdate \/ DecideDelete
    <3>1. /\ stray' \subseteq Request /\ decided' \in 0 .. MaxRequests
          /\ usedIds' \subseteq WordIds /\ nextEvent' \in Nat
          /\ UNCHANGED <<tables, disturbances, clock>>
      BY <2>4, DecisionsType
    <3>2. DatabaseTyped(Database)'
      BY <2>1, <2>2, <3>1, DatabaseFields DEF BrowserTypeInv, DatabaseTyped, upgradeVars, tables
    <3> QED
      BY <2>1, <3>1, <3>2 DEF BrowserTypeInv, upgradeVars, tables, Upgrading
  <2> QED
    BY <2>1, <2>3, <2>4 DEF StoreUsed
<1>3. CASE TimePasses \/ UNCHANGED vars
  <2>1. /\ UNCHANGED <<tables, channel, usedIds, nextEvent, decided, upgradeVars>>
        /\ clock' \in 0 .. MaxClock
    BY <1>3, BoundsAssumption
       DEF BrowserTypeInv, TimePasses, Tick, vars, browserVars, storeVars, tables, channel
  <2>2. Database' = Database
    BY <2>1 DEF Database, tables, upgradeVars
  <2> QED
    BY <2>1, <2>2 DEF BrowserTypeInv, tables, channel, upgradeVars, Upgrading
<1> QED
  BY <1>1, <1>2, <1>3 DEF Next

\* The inductive invariant of types, with the stores each version has.
THEOREM BrowserTypeInvariant == Spec => []BrowserTypeInv
BY TypeStart, TypeKept, PTL DEF Spec

\* Whatever version is opened and however often upgrades are cut short, tables hold rows
\* of their types, and version 6 has exactly the current object stores (migrateToVersion6).
THEOREM BrowserTypeCorrect == Spec => []TypeOK
BY BrowserTypeInvariant, TypeInvImplies, PTL

-------------------------------------------------------------------------------
(***************************************************************************)
(* As it was, or upgraded as a whole.                                      *)
(***************************************************************************)
Empty(db) == db.words = NoRows /\ db.states = NoRows /\ db.events = {}

\* What the versions before 6 leave of the original database.
Untouched(db) ==
    /\ db.version < 6
    /\ db.legacy = original.legacy
    /\ LeftAlone(db)
    /\ "word_entries" \in original.stores => "word_entries" \in db.stores
    /\ original.stores = CurrentStores => db.version = 5 /\ db.stores = CurrentStores

OriginalInv ==
    /\ original = [version |-> original.version, stores |-> original.stores,
                   legacy |-> original.legacy, words |-> original.words,
                   states |-> original.states, events |-> original.events,
                   saved |-> original.saved, usedIds |-> original.usedIds,
                   nextEvent |-> original.nextEvent]
    /\ Untouched(original)
    /\ "word_entries" \notin original.stores =>
         original.legacy = NoLegacy /\ (original.stores = CurrentStores \/ Empty(original))

Upgraded(db) == IF "word_entries" \in original.stores THEN CarriedOver(db) ELSE LeftAlone(db)

(***************************************************************************)
(* The inductive invariant: before version 6 nothing but stores without    *)
(* data has come or gone, a running upgrade would roll back to the         *)
(* original database, and nothing runs before something was decided.       *)
(***************************************************************************)
LossInv ==
    /\ OriginalInv
    /\ version < 6 => Untouched(Database)
    /\ version < 6 /\ ~Upgrading => Database = original
    /\ Upgrading => before = original
    /\ decided = 0 => stray = {}
    /\ decided = 0 /\ version = 6 => Upgraded(Database)

\* The event of the i-th submission.
MigratedEvent(t, w, i) ==
    [id |-> Replayed(t)[i].id, word |-> w, reviewedAt |-> Replayed(t)[i].at,
     rating |-> Rating(Replayed(t)[i]), kind |-> "scheduled", stage |-> "contextRecall",
     movedTo |-> None, nextDueAt |-> CardAfter(t, i).due]

\* The migrated events of a word tell its submissions, and the last of them is due when
\* its row is (buildVersion5Data).
LEMMA MigratedHistory ==
    ASSUME legacy \in Legacy, NEW t, NEW w
    PROVE  /\ {[id |-> e.id, at |-> e.reviewedAt, right |-> IsCorrect(e.rating)]
                 : e \in MigratedEvents(t, w)}
                = {[id |-> s.id, at |-> s.at, right |-> s.right] : s \in Mine(t)}
           /\ MigratedEvents(t, w) # {} => MigratedRow(t).card.due \in
                {e.nextDueAt : e \in {d \in MigratedEvents(t, w) :
                                        \A f \in MigratedEvents(t, w) : f.reviewedAt <= d.reviewedAt}}
<1> DEFINE n == Cardinality(Mine(t))
           told(e) == [id |-> e.id, at |-> e.reviewedAt, right |-> IsCorrect(e.rating)]
           made(s) == [id |-> s.id, at |-> s.at, right |-> s.right]
<1>1. n \in Nat
  BY ReplayedSorted
<1>2. MigratedEvents(t, w) = {MigratedEvent(t, w, i) : i \in 1 .. n}
  BY ReplayedSorted DEF MigratedEvents, MigratedEvent
<1>3. \A i \in 1 .. n : Replayed(t)[i] \in Mine(t) /\ Replayed(t)[i].right \in BOOLEAN
  <2> TAKE i \in 1 .. n
  <2>1. Replayed(t)[i] \in Mine(t) /\ Replayed(t)[i] \in Submission
    BY ReplayedSorted DEF Listed
  <2> QED
    BY <2>1 DEF Submission
<1>4. \A i \in 1 .. n : told(MigratedEvent(t, w, i)) = made(Replayed(t)[i])
  <2> TAKE i \in 1 .. n
  <2>1. IsCorrect(Rating(Replayed(t)[i])) = Replayed(t)[i].right
    BY <1>3 DEF IsCorrect, Rating
  <2> QED
    BY <2>1 DEF MigratedEvent
<1>5. \A s \in Mine(t) : \E i \in 1 .. n : Replayed(t)[i] = s
  BY ReplayedSorted
<1>6. {told(e) : e \in MigratedEvents(t, w)} = {made(s) : s \in Mine(t)}
  <2> HIDE DEF told, made, n
  <2> QED
    BY <1>2, <1>3, <1>4, <1>5
<1>7. ASSUME MigratedEvents(t, w) # {}
      PROVE  MigratedRow(t).card.due \in
               {e.nextDueAt : e \in {d \in MigratedEvents(t, w) :
                                       \A f \in MigratedEvents(t, w) : f.reviewedAt <= d.reviewedAt}}
  <2> DEFINE last == MigratedEvent(t, w, n)
  <2>1. n \in 1 .. n
    BY <1>1, <1>2, <1>7
  <2>2. last \in MigratedEvents(t, w)
    BY <1>2, <2>1
  <2>3. \A i \in 1 .. n : Replayed(t)[i].at <= Replayed(t)[n].at
    BY <2>1, ReplayedSorted
  <2>4. \A i \in 1 .. n : MigratedEvent(t, w, i).reviewedAt = Replayed(t)[i].at
    BY DEF MigratedEvent
  <2>5. \A f \in MigratedEvents(t, w) : f.reviewedAt <= last.reviewedAt
    BY <1>2, <2>1, <2>3, <2>4
  <2>6. last.nextDueAt = MigratedRow(t).card.due
    BY MigratedRowCorrect DEF MigratedEvent
  <2> HIDE DEF last
  <2> QED
    BY <2>2, <2>5, <2>6
<1> QED
  BY <1>6, <1>7

\* Every legacy word is carried over (migrateToVersion6).
LEMMA BuildCarries ==
    ASSUME BrowserTypeInv, legacy = original.legacy, original' = original,
           NEW idOf \in [legacy.words -> WordIds \ usedIds],
           \A s, t \in legacy.words : s # t => idOf[s] # idOf[t],
           Build(idOf), NEW t \in legacy.words
    PROVE  Carried(t, idOf[t], Database)'
<1> DEFINE w == idOf[t]
           ids == {idOf[u] : u \in legacy.words}
           spelt(v) == CHOOSE u \in legacy.words : idOf[u] = v
           new(v) == [text |-> spelt(v), archived |-> FALSE, examples |-> {}, createdAt |-> 0]
<1>1. legacy \in Legacy /\ t \in Texts
  BY DatabaseFields DEF BrowserTypeInv, DatabaseTyped, Legacy
<1>2. w \in WordIds /\ w \in ids /\ spelt(w) = t
  OBVIOUS
<1>3. words' = [v \in WordIds |-> IF v \in ids THEN new(v) ELSE None]
  BY DEF Build
<1>4. states' = [v \in WordIds |-> IF v \in ids THEN MigratedRow(spelt(v)) ELSE None]
  BY DEF Build
<1>5. words'[w] # None /\ words'[w].text = t
  <2>1. new(w) \in WordRow
    BY <1>1, <1>2 DEF WordRow
  <2>2. words'[w] = new(w) /\ new(w).text = t
    BY <1>2, <1>3
  <2> HIDE DEF new
  <2> QED
    BY <2>1, <2>2, AbsenceAssumption
<1>6. states'[w] = MigratedRow(t)
  BY <1>2, <1>4
<1>7. {e \in events' : e.word = w} = MigratedEvents(t, w)
  <2>1. \A u : \A v : \A e \in MigratedEvents(u, v) : e.word = v
    BY DEF MigratedEvents
  <2>2. events' = UNION {MigratedEvents(u, idOf[u]) : u \in legacy.words}
    BY DEF Build
  <2> QED
    BY <2>1, <2>2
<1>8. /\ Database'.words = words' /\ Database'.states = states' /\ Database'.events = events'
  BY DEF Database
<1>9. {s \in original'.legacy.submissions : s.text = t} = Mine(t)
  BY DEF Mine
<1>10. MigratedRow(t) # None
  BY <1>1, MigratedRowCorrect, AbsenceAssumption
<1> HIDE DEF w, ids, spelt, new
<1> DEFINE mine == {e \in events' : e.word = w}
           theirs == {s \in original'.legacy.submissions : s.text = t}
           row == states'[w]
<1>11. Carried(t, w, Database)' <=>
         /\ words'[w] # None /\ words'[w].text = t
         /\ {[id |-> e.id, at |-> e.reviewedAt, right |-> IsCorrect(e.rating)] : e \in mine}
              = {[id |-> s.id, at |-> s.at, right |-> s.right] : s \in theirs}
         /\ row # None /\ WellFormed(row)
         /\ row.attempts = Cardinality(theirs)
         /\ row.correct = Cardinality({s \in theirs : s.right})
         /\ mine # {} => row.card.due \in
              {e.nextDueAt : e \in {d \in mine : \A f \in mine : f.reviewedAt <= d.reviewedAt}}
  BY <1>8, Zenon DEF Carried, w
<1>12. mine = MigratedEvents(t, w) /\ theirs = Mine(t) /\ row = MigratedRow(t)
  BY <1>6, <1>7, <1>9
<1> HIDE DEF mine, theirs, row
<1>13. {[id |-> e.id, at |-> e.reviewedAt, right |-> IsCorrect(e.rating)] : e \in mine}
         = {[id |-> s.id, at |-> s.at, right |-> s.right] : s \in theirs}
  BY <1>1, <1>12, MigratedHistory
<1>14. mine # {} => row.card.due \in
         {e.nextDueAt : e \in {d \in mine : \A f \in mine : f.reviewedAt <= d.reviewedAt}}
  BY <1>1, <1>12, MigratedHistory
<1>15. /\ WellFormed(row) /\ row.attempts = Cardinality(theirs)
       /\ row.correct = Cardinality({s \in theirs : s.right})
  BY <1>1, <1>12, MigratedRowCorrect
<1> QED
  BY <1>5, <1>10, <1>11, <1>12, <1>13, <1>14, <1>15 DEF w

\* No other word is made.
LEMMA BuildMakesNoOther ==
    ASSUME NEW idOf \in [legacy.words -> WordIds \ usedIds], Build(idOf),
           NEW w \in WordIds, words'[w] # None
    PROVE  words'[w].text \in legacy.words
<1> DEFINE ids == {idOf[u] : u \in legacy.words}
           spelt(v) == CHOOSE u \in legacy.words : idOf[u] = v
           new(v) == [text |-> spelt(v), archived |-> FALSE, examples |-> {}, createdAt |-> 0]
<1>1. words' = [v \in WordIds |-> IF v \in ids THEN new(v) ELSE None]
  BY DEF Build
<1>2. w \in ids /\ words'[w] = new(w)
  <2> HIDE DEF ids, new
  <2> QED
    BY <1>1
<1>3. spelt(w) \in legacy.words
  BY <1>2
<1>4. words'[w].text = spelt(w)
  BY <1>2
<1> QED
  BY <1>3, <1>4

\* Without legacy words the tables are empty.
LEMMA BuildOfNothing ==
    ASSUME legacy = NoLegacy, NEW idOf, Build(idOf)
    PROVE  Empty(Database)'
<1>1. \A u : u \notin legacy.words
  BY DEF NoLegacy
<1>2. words' = NoRows /\ states' = NoRows /\ events' = {}
  BY <1>1 DEF Build, NoRows
<1> QED
  BY <1>2 DEF Empty, Database

LEMMA LossStart == Init => LossInv
<1> SUFFICES ASSUME Init PROVE LossInv
  OBVIOUS
<1>1. /\ original = Database /\ ~Upgrading /\ stray = {} /\ events = {}
      /\ version \in 0 .. 5 /\ stores \in StoresOf(version)
      /\ states = [w \in WordIds |-> IF words[w] = None THEN None ELSE FreshRow(0)]
      /\ words = [w \in WordIds |-> words[w]]
  <2>1. original = Database /\ version \in 0 .. 5 /\ stores \in StoresOf(version)
    BY DEF Init, UpgradeInit
  <2>2. ~Upgrading
    BY DEF Init, UpgradeInit, Upgrading
  <2>3. StoreInit
    BY DEF Init, UpgradeInit
  <2>4. /\ stray = {} /\ events = {}
        /\ states = [w \in WordIds |-> IF words[w] = None THEN None ELSE FreshRow(0)]
    BY <2>3 DEF StoreInit
  <2>5. words = [w \in WordIds |-> words[w]]
    BY <2>3 DEF StoreInit
  <2> QED
    BY <2>1, <2>2, <2>4, <2>5
<1>2. Untouched(Database)
  <2>1. CurrentStores \subseteq stores =>
          version = 5 /\ ("word_entries" \in stores \/ stores = CurrentStores)
    BY <1>1, StoresKnown
  <2>2. LeftAlone(Database)
    BY <1>1 DEF LeftAlone
  <2>3. /\ Database.version < 6 /\ Database.legacy = original.legacy
        /\ original.stores = stores
    BY <1>1, DatabaseFields
  <2>4. stores = CurrentStores => version = 5
    BY <2>1
  <2> QED
    BY <2>2, <2>3, <2>4, DatabaseFields DEF Untouched
<1>3. ASSUME "word_entries" \notin stores
      PROVE  legacy = NoLegacy /\ (stores = CurrentStores \/ Empty(Database))
  <2>1. legacy = NoLegacy
    BY <1>3 DEF Init, UpgradeInit
  <2>2. CASE CurrentStores \subseteq stores
    BY <1>1, <1>3, <2>1, <2>2, StoresKnown
  <2>3. CASE ~(CurrentStores \subseteq stores)
    <3>1. \A w \in WordIds : words[w] = None
      BY <2>3 DEF Init, UpgradeInit, Exists
    <3>2. words = NoRows /\ states = NoRows
      BY <1>1, <3>1 DEF NoRows
    <3> QED
      BY <1>1, <2>1, <3>2, DatabaseFields DEF Empty
  <2> QED
    BY <2>2, <2>3
<1>4. OriginalInv
  <2>1. Untouched(original)
    BY <1>1, <1>2
  <2>2. original = [version |-> original.version, stores |-> original.stores,
                    legacy |-> original.legacy, words |-> original.words,
                    states |-> original.states, events |-> original.events,
                    saved |-> original.saved, usedIds |-> original.usedIds,
                    nextEvent |-> original.nextEvent]
    <3>1. original = Database
      BY <1>1
    <3> QED
      BY <3>1, Zenon DEF Database
  <2> QED
    BY <1>1, <1>3, <2>1, <2>2, DatabaseFields DEF OriginalInv
<1> QED
  BY <1>1, <1>2, <1>4 DEF LossInv

\* The same database holds what it held.
LEMMA SameDatabase ==
    ASSUME Database' = Database, original' = original
    PROVE  /\ OriginalInv' <=> OriginalInv
           /\ Untouched(Database)' <=> Untouched(Database)
           /\ Upgraded(Database)' <=> Upgraded(Database)
BY DEF OriginalInv, Empty, Untouched, LeftAlone, Upgraded, CarriedOver, Carried

LEMMA OriginalStays ==
    ASSUME OriginalInv, original' = original
    PROVE  OriginalInv'
BY DEF OriginalInv, Empty, Untouched, LeftAlone

\* migrateToVersion6, whichever stores there were.
LEMMA MigrationUpgrades ==
    ASSUME BrowserTypeInv, LossInv, MigrateToVersion6
    PROVE  Upgraded(Database)'
<1>1. /\ UNCHANGED original /\ version = 5 /\ stores \in StoresOf(5)
      /\ OriginalInv /\ Untouched(Database)
      /\ legacy = original.legacy /\ LeftAlone(Database)
  BY DatabaseFields DEF MigrateToVersion6, BrowserTypeInv, DatabaseTyped, LossInv, Untouched
<1>2. CASE /\ LegacyStores \subseteq stores
           /\ \E idOf \in [legacy.words -> WordIds \ usedIds] :
                (\A s, t \in legacy.words : s # t => idOf[s] # idOf[t]) /\ Build(idOf)
  <2>1. PICK idOf \in [legacy.words -> WordIds \ usedIds] :
          (\A s, t \in legacy.words : s # t => idOf[s] # idOf[t]) /\ Build(idOf)
    BY <1>2
  <2>2. CASE "word_entries" \in original.stores
    <3>1. \A t \in legacy.words : idOf[t] \in WordIds /\ Carried(t, idOf[t], Database)'
      BY <1>1, <2>1, BuildCarries
    <3>2. \A w \in WordIds : words'[w] # None => words'[w].text \in legacy.words
      BY <2>1, BuildMakesNoOther
    <3>3. Database'.words = words' /\ original'.legacy = legacy
      BY <1>1 DEF Database
    <3>4. CarriedOver(Database)'
      BY <3>1, <3>2, <3>3 DEF CarriedOver
    <3> QED
      BY <1>1, <2>2, <3>4 DEF Upgraded
  <2>3. CASE "word_entries" \notin original.stores
    <3>1. legacy = NoLegacy /\ Empty(original)
      BY <1>1, <1>2, <2>3, DatabaseFields
         DEF OriginalInv, Untouched, CurrentStores, LegacyStores
    <3>2. Empty(Database)'
      BY <2>1, <3>1, BuildOfNothing
    <3>3. LeftAlone(Database)'
      BY <1>1, <3>1, <3>2 DEF Empty, LeftAlone
    <3> QED
      BY <1>1, <2>3, <3>3 DEF Upgraded
  <2> QED
    BY <2>2, <2>3
<1>3. CASE ~(LegacyStores \subseteq stores) /\ UNCHANGED <<stores, legacy, tables, usedIds, nextEvent>>
  <2>1. stores = CurrentStores
    BY <1>1, <1>3, StoresKnown
  <2>2. "word_entries" \notin original.stores
    BY <1>1, <2>1, DatabaseFields DEF Untouched, CurrentStores
  <2>3. LeftAlone(Database)'
    BY <1>1, <1>3, DatabaseFields DEF LeftAlone, Database, tables
  <2> QED
    BY <1>1, <2>2, <2>3 DEF Upgraded
<1> QED
  BY <1>2, <1>3 DEF MigrateToVersion6

LEMMA LossKept == BrowserTypeInv /\ LossInv /\ [Next]_vars => LossInv'
<1> SUFFICES ASSUME BrowserTypeInv, LossInv, [Next]_vars PROVE LossInv'
  OBVIOUS
<1>0. OriginalInv /\ version \in 0 .. 6 /\ (version < 6 => stores \in StoresOf(version))
  BY DatabaseFields DEF LossInv, BrowserTypeInv, DatabaseTyped
<1>1. CASE OpenDatabase
  <2>1. UNCHANGED <<browserVars, version, stores, legacy, original>> /\ before' = Database /\ version < 6
        /\ ~Upgrading
    BY <1>1 DEF OpenDatabase
  <2>2. Database' = Database
    BY <2>1 DEF Database, browserVars, storeVars
  <2>3. before' = original
    BY <2>1 DEF LossInv
  <2>4. /\ decided' = decided /\ stray' = stray /\ version' = version
        /\ Untouched(Database) /\ Database = original
    BY <2>1 DEF LossInv, browserVars, storeVars
  <2> QED
    BY <1>0, <2>1, <2>2, <2>3, <2>4, SameDatabase DEF LossInv
<1>2. CASE UpgradeSchema
  <2>1. UNCHANGED <<browserVars, legacy, before, original>> /\ version < 5 /\ version' = version + 1
        /\ stores' = (stores \cup SchemaSteps[version + 1].add) \ SchemaSteps[version + 1].drop
        /\ Upgrading
    BY <1>2 DEF UpgradeSchema
  <2>2. "word_entries" \in stores => "word_entries" \in stores'
    <3>1. version \in 0 .. 5 /\ stores \in StoresOf(version)
      BY <1>0, <2>1
    <3> QED
      BY <2>1, <3>1, StoresKnown
  <2>3. Untouched(Database)
    BY <1>0, <2>1 DEF LossInv
  <2>4. original.stores # CurrentStores /\ version' < 6
    BY <1>0, <2>1, <2>3, DatabaseFields DEF Untouched
  <2>5. /\ Database'.version = version' /\ Database'.stores = stores' /\ Database'.legacy = legacy
        /\ Database'.words = words /\ Database'.states = states /\ Database'.events = events
    BY <2>1 DEF Database, browserVars, storeVars
  <2>6. Untouched(Database)'
    BY <2>1, <2>2, <2>3, <2>4, <2>5, DatabaseFields DEF Untouched, LeftAlone
  <2>7. Upgrading' /\ before' = original' /\ OriginalInv' /\ decided' = decided /\ stray' = stray
    BY <1>0, <2>1, OriginalStays DEF LossInv, Upgrading, browserVars, storeVars
  <2> QED
    BY <2>4, <2>6, <2>7 DEF LossInv
<1>3. CASE MigrateToVersion6
  <2>1. UNCHANGED <<channel, decided, before, original>> /\ version' = 6 /\ Upgrading
    BY <1>3 DEF MigrateToVersion6
  <2>2. Upgraded(Database)'
    BY <1>3, MigrationUpgrades
  <2>3. OriginalInv' /\ before' = original'
    BY <1>0, <2>1, OriginalStays DEF LossInv
  <2> QED
    BY <2>1, <2>2, <2>3 DEF LossInv, channel
<1>4. CASE CommitUpgrade
  <2>1. UNCHANGED <<browserVars, version, stores, legacy, original>> /\ before' = None /\ version = 6
    BY <1>4 DEF CommitUpgrade
  <2>2. Database' = Database
    BY <2>1 DEF Database, browserVars, storeVars
  <2>3. decided' = decided /\ stray' = stray /\ ~Upgrading' /\ ~(version' < 6)
    BY <2>1 DEF browserVars, storeVars, Upgrading
  <2> QED
    BY <2>1, <2>2, <2>3, SameDatabase DEF LossInv
<1>5. CASE UpgradeAborted
  <2>1. /\ before = original /\ ~Upgrading'
        /\ UNCHANGED <<channel, decided, original>>
    BY <1>5 DEF UpgradeAborted, LossInv, Upgrading
  <2>2. Database' = original
    <3>1. Database' = [version |-> original.version, stores |-> original.stores,
                       legacy |-> original.legacy, words |-> original.words,
                       states |-> original.states, events |-> original.events,
                       saved |-> original.saved, usedIds |-> original.usedIds,
                       nextEvent |-> original.nextEvent]
      BY <1>5, <2>1 DEF UpgradeAborted, Database
    <3> QED
      BY <1>0, <3>1 DEF OriginalInv
  <2>3. Untouched(Database)' /\ version' < 6
    <3>1. Untouched(original)
      BY <1>0 DEF OriginalInv
    <3>2. version' = Database'.version
      BY DEF Database
    <3> QED
      BY <2>1, <2>2, <3>1, <3>2 DEF Untouched, LeftAlone
  <2>4. OriginalInv' /\ version' # 6 /\ stray' = stray
    <3>1. version' = original.version /\ original.version < 6
      BY <1>0, <1>5, <2>1 DEF UpgradeAborted, OriginalInv, Untouched
    <3>2. version' # 6
      BY <2>3
    <3> QED
      BY <1>0, <2>1, <3>2, OriginalStays DEF channel
  <2> QED
    BY <2>1, <2>2, <2>3, <2>4 DEF LossInv
<1>6. CASE UseStep
  <2>1. UNCHANGED upgradeVars /\ version = 6 /\ ~Upgrading /\ StoreUsed
    BY <1>6 DEF UseStep, InUse
  <2>2. decided' # 0
    <3>1. decided \in Nat
      BY DEF BrowserTypeInv
    <3>2. CASE RunTransaction
      BY <3>2 DEF RunTransaction, LossInv
    <3>3. CASE DecideAnswer \/ DecideRecalculation \/ DecideInsert \/ DecideUpdate \/ DecideDelete
      <4>1. decided' = decided + 1
        BY <3>3
           DEF DecideAnswer, DecideRecalculation, DecideInsert, DecideUpdate, DecideDelete, Decide
      <4> QED
        BY <3>1, <4>1
    <3> QED
      BY <2>1, <3>2, <3>3 DEF StoreUsed
  <2>3. OriginalInv' /\ version' = 6 /\ ~Upgrading'
    BY <1>0, <2>1, OriginalStays DEF upgradeVars, Upgrading
  <2> QED
    BY <2>2, <2>3 DEF LossInv
<1>7. CASE TimePasses \/ UNCHANGED vars
  <2>1. UNCHANGED <<tables, channel, usedIds, nextEvent, decided, upgradeVars>>
    BY <1>7 DEF TimePasses, Tick, vars, browserVars, storeVars, tables, channel
  <2>2. Database' = Database /\ original' = original /\ version' = version
        /\ (Upgrading' <=> Upgrading) /\ before' = before /\ decided' = decided /\ stray' = stray
    BY <2>1 DEF Database, tables, channel, upgradeVars, Upgrading
  <2> QED
    BY <2>2, SameDatabase DEF LossInv
<1> QED
  BY <1>1, <1>2, <1>3, <1>4, <1>5, <1>6, <1>7 DEF Next, UpgradeStep

\* However often upgrades are cut short, the database is as it was or upgraded as a whole
\* (migrateToVersion6 and buildVersion5Data), as long as nobody has used the new store:
\* legacy words with their histories, counters and due dates in place of whatever current
\* stores beside them held, or the current tables left alone.
THEOREM AlwaysUpgradedAsAWhole == Spec => []UpgradedAsAWhole
<1>1. BrowserTypeInv /\ LossInv => UpgradedAsAWhole
  <2> SUFFICES ASSUME BrowserTypeInv, LossInv, decided = 0
               PROVE  \/ OnDisk = original
                      \/ OnDisk.version = 6 /\ Upgraded(OnDisk)
    BY DEF UpgradedAsAWhole, Upgraded
  <2>1. CASE Upgrading
    BY <2>1 DEF LossInv, OnDisk
  <2>2. CASE ~Upgrading
    <3>1. OnDisk = Database /\ Database.version = version /\ version \in 0 .. 6
      BY <2>2, DatabaseFields DEF OnDisk, BrowserTypeInv, DatabaseTyped
    <3>2. version < 6 \/ version = 6
      BY <3>1
    <3> QED
      BY <2>2, <3>1, <3>2 DEF LossInv
  <2> QED
    BY <2>1, <2>2
<1> QED
  BY <1>1, BrowserTypeInvariant, LossStart, LossKept, PTL DEF Spec
===============================================================================
