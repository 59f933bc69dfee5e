----------------------------- MODULE Library_proofs -----------------------------
(***************************************************************************)
(* What one batch does to the tables, whatever request it runs, and what   *)
(* an operation of the library sends.                                      *)
(***************************************************************************)
EXTENDS Library, PracticeRecords_proofs, FiniteSetTheorems, SequenceTheorems

TablesTypeOK ==
    /\ words \in WordRows
    /\ states \in StateRows
    /\ events \subseteq PracticeEvent
    /\ saved \subseteq PracticeEvent
    /\ archivedFrom \in [WordIds -> Nat]
    /\ deleted \subseteq WordIds

LEMMA TablesAreStore == StoreTypeOK => TablesTypeOK
BY DEF StoreTypeOK, TablesTypeOK

\* Writing a partial map of rows over a table leaves a table.
LEMMA OverlayType ==
    ASSUME NEW Row, NEW base \in [WordIds -> Row \cup {None}],
           NEW given \in [WordIds -> Row \cup {None}]
    PROVE  Overlay(base, given) \in [WordIds -> Row \cup {None}]
BY DEF Overlay

\* Remember keeps a time for every word.
LEMMA RememberType ==
    ASSUME TablesTypeOK, nextEvent \in Nat, NEW new, Remember(new)
    PROVE  archivedFrom' \in [WordIds -> Nat]
BY DEF TablesTypeOK, Remember

\* The request decides which of the batches a commit is.
LEMMA CommitCases ==
    ASSUME NEW q \in Request, Commit(q)
    PROVE  \/ q \in SaveRequest /\ SavePracticeResult(q.event, q.row)
           \/ q \in ReplaceRequest /\ ReplaceMemoryStates(q.rows)
           \/ q \in InsertRequest /\ InsertWords(q.rows)
           \/ q \in UpdateRequest /\ UpdateWords(q.rows)
           \/ q \in DeleteRequest /\ DeleteWords(q.ids)
BY DEF Commit, Request, SaveRequest, ReplaceRequest, InsertRequest, UpdateRequest, DeleteRequest

\* A batch leaves tables of the right type.
LEMMA CommitType ==
    ASSUME TablesTypeOK, nextEvent \in Nat, NEW q \in Request, Commit(q)
    PROVE  TablesTypeOK'
<1>1. CASE q \in SaveRequest /\ SavePracticeResult(q.event, q.row)
  <2>1. q.event \in PracticeEvent /\ q.row \in StateRow
    BY <1>1 DEF SaveRequest
  <2> QED
    BY <1>1, <2>1 DEF SavePracticeResult, TablesTypeOK, StateRows
<1>2. CASE q \in ReplaceRequest /\ ReplaceMemoryStates(q.rows)
  <2>1. q.rows \in StateRows
    BY <1>2 DEF ReplaceRequest
  <2>2. states' \in StateRows
    BY <1>2, <2>1, OverlayType DEF ReplaceMemoryStates, TablesTypeOK, StateRows
  <2> QED
    BY <1>2, <2>2 DEF ReplaceMemoryStates, TablesTypeOK
<1>3. CASE q \in InsertRequest /\ InsertWords(q.rows)
  <2>1. q.rows \in WordRows
    BY <1>3 DEF InsertRequest
  <2>2. words' \in WordRows
    BY <1>3, <2>1, OverlayType DEF InsertWords, TablesTypeOK, WordRows
  <2>3. \A w \in WordIds : q.rows[w] # None => FreshRow(q.rows[w].createdAt) \in StateRow
    BY <2>1, FreshRowCorrect DEF WordRows, WordRow
  <2>4. states' \in StateRows
    BY <1>3, <2>3 DEF InsertWords, TablesTypeOK, StateRows
  <2>5. archivedFrom' \in [WordIds -> Nat]
    BY <1>3, RememberType DEF InsertWords
  <2> QED
    BY <1>3, <2>2, <2>4, <2>5 DEF InsertWords, TablesTypeOK
<1>4. CASE q \in UpdateRequest /\ UpdateWords(q.rows)
  <2>1. q.rows \in WordRows
    BY <1>4 DEF UpdateRequest
  <2>2. words' \in WordRows
    BY <1>4, <2>1, OverlayType DEF UpdateWords, TablesTypeOK, WordRows
  <2>3. archivedFrom' \in [WordIds -> Nat]
    BY <1>4, RememberType DEF UpdateWords
  <2> QED
    BY <1>4, <2>2, <2>3 DEF UpdateWords, TablesTypeOK
<1>5. CASE q \in DeleteRequest /\ DeleteWords(q.ids)
  <2>1. q.ids \subseteq WordIds
    BY <1>5 DEF DeleteRequest
  <2> QED
    BY <1>5, <2>1 DEF DeleteWords, TablesTypeOK, WordRows, StateRows
<1> QED
  BY <1>1, <1>2, <1>3, <1>4, <1>5, CommitCases

-------------------------------------------------------------------------------
(***************************************************************************)
(* Foreign keys.                                                           *)
(***************************************************************************)
KeysHold ==
    /\ \A w \in WordIds : states[w] # None => Exists(w)
    /\ \A e \in events : Exists(e.word)

\* No batch leaves a memory row or an event without its word.
LEMMA CommitKeepsKeys ==
    ASSUME TablesTypeOK, KeysHold, NEW q \in Request, Commit(q)
    PROVE  KeysHold'
<1> USE DEF KeysHold, Exists
<1>0. \A e \in events : e.word \in WordIds
  BY DEF TablesTypeOK, PracticeEvent
<1>1. CASE q \in SaveRequest /\ SavePracticeResult(q.event, q.row)
  BY <1>1 DEF SavePracticeResult, TablesTypeOK, StateRows
<1>2. CASE q \in ReplaceRequest /\ ReplaceMemoryStates(q.rows)
  BY <1>2 DEF ReplaceMemoryStates, Overlay, Given
<1>3. CASE q \in InsertRequest /\ InsertWords(q.rows)
  BY <1>0, <1>3 DEF InsertWords, Overlay
<1>4. CASE q \in UpdateRequest /\ UpdateWords(q.rows)
  BY <1>0, <1>4 DEF UpdateWords, Overlay
<1>5. CASE q \in DeleteRequest /\ DeleteWords(q.ids)
  BY <1>0, <1>5 DEF DeleteWords
<1> QED
  BY <1>1, <1>2, <1>3, <1>4, <1>5, CommitCases

\* A batch takes events from the log only together with their word.
LEMMA CommitKeepsHistory ==
    ASSUME TablesTypeOK, NEW q \in Request, Commit(q), NEW e \in events
    PROVE  e \in events' \/ words'[e.word] = None
<1>0. e.word \in WordIds
  BY DEF TablesTypeOK, PracticeEvent
<1>1. CASE q \in DeleteRequest /\ DeleteWords(q.ids)
  BY <1>0, <1>1 DEF DeleteWords
<1>2. CASE ~(q \in DeleteRequest /\ DeleteWords(q.ids))
  BY <1>2, CommitCases DEF SavePracticeResult, ReplaceMemoryStates, InsertWords, UpdateWords
<1> QED
  BY <1>1, <1>2

-------------------------------------------------------------------------------
(***************************************************************************)
(* Well-formed rows.                                                       *)
(***************************************************************************)
AllWellFormed(rows) == \A w \in WordIds : rows[w] # None => WellFormed(rows[w])

\* A request carries well-formed memory rows only.
CarriesWellFormed(q) ==
    /\ q.op = "savePracticeResult" => WellFormed(q.row)
    /\ q.op = "replaceMemoryStates" => AllWellFormed(q.rows)

\* Well-formed requests leave well-formed tables.
LEMMA CommitKeepsRowsWellFormed ==
    ASSUME TablesTypeOK, AllWellFormed(states), NEW q \in Request, CarriesWellFormed(q), Commit(q)
    PROVE  AllWellFormed(states')
<1>1. CASE q \in SaveRequest /\ SavePracticeResult(q.event, q.row)
  <2>1. WellFormed(q.row)
    BY <1>1 DEF CarriesWellFormed, SaveRequest
  <2> QED
    BY <1>1, <2>1 DEF SavePracticeResult, TablesTypeOK, StateRows, AllWellFormed
<1>2. CASE q \in ReplaceRequest /\ ReplaceMemoryStates(q.rows)
  <2>1. AllWellFormed(q.rows)
    BY <1>2 DEF CarriesWellFormed, ReplaceRequest
  <2> QED
    BY <1>2, <2>1 DEF ReplaceMemoryStates, Overlay, AllWellFormed
<1>3. CASE q \in InsertRequest /\ InsertWords(q.rows)
  <2>1. \A w \in WordIds : q.rows[w] # None => WellFormed(FreshRow(q.rows[w].createdAt))
    BY <1>3, FreshRowCorrect DEF InsertRequest, WordRows, WordRow
  <2> QED
    BY <1>3, <2>1 DEF InsertWords, AllWellFormed
<1>4. CASE q \in UpdateRequest /\ UpdateWords(q.rows)
  BY <1>4 DEF UpdateWords
<1>5. CASE q \in DeleteRequest /\ DeleteWords(q.ids)
  BY <1>5 DEF DeleteWords, AllWellFormed
<1> QED
  BY <1>1, <1>2, <1>3, <1>4, <1>5, CommitCases

-------------------------------------------------------------------------------
(***************************************************************************)
(* Store and channel.                                                      *)
(***************************************************************************)
\* A commit keeps the store typed when channel and supplies stay typed.
LEMMA CommitStoreType ==
    ASSUME StoreTypeOK, NEW q \in Request, Commit(q),
           stray' \subseteq stray, UNCHANGED disturbances, UNCHANGED supplies
    PROVE  StoreTypeOK'
<1>1. TablesTypeOK'
  BY TablesAreStore, CommitType DEF StoreTypeOK
<1> QED
  BY <1>1 DEF TablesTypeOK, StoreTypeOK, supplies

\* A request that joins the stray ones keeps the store typed.
LEMMA StrayStoreType ==
    ASSUME StoreTypeOK, Disturb, stray' \subseteq Request, UNCHANGED tables, UNCHANGED supplies
    PROVE  StoreTypeOK'
BY BoundsAssumption DEF StoreTypeOK, Disturb, tables, supplies

LEMMA StoreUnchangedType ==
    ASSUME StoreTypeOK, UNCHANGED storeVars
    PROVE  StoreTypeOK'
BY DEF StoreTypeOK, storeVars

\* A library of active, unpractised words is typed.
LEMMA StoreStartsTyped == StoreInit => StoreTypeOK
<1> SUFFICES ASSUME StoreInit PROVE StoreTypeOK
  OBVIOUS
<1>1. FreshRow(0) \in StateRow
  BY FreshRowCorrect
<1> DEFINE unpractised == [text: Texts, archived: {FALSE}, examples: {{}}, createdAt: {0}]
<1>2. unpractised \subseteq WordRow
  <2>1. \A sets : {{}} \subseteq SUBSET sets
    OBVIOUS
  <2>2. {FALSE} \subseteq BOOLEAN /\ {0} \subseteq Nat
    OBVIOUS
  <2> QED
    BY <2>1, <2>2, Zenon DEF WordRow
<1>3. words \in [WordIds -> {None} \cup unpractised]
  BY DEF StoreInit
<1> HIDE DEF unpractised
<1>4. words \in WordRows
  BY <1>2, <1>3 DEF WordRows
<1>5. states \in StateRows
  BY <1>1 DEF StoreInit, StateRows
<1> QED
  BY <1>4, <1>5, BoundsAssumption DEF StoreInit, StoreTypeOK

-------------------------------------------------------------------------------
(***************************************************************************)
(* Library operations.                                                     *)
(***************************************************************************)
\* An operation has what its next step needs.
LibraryControl ==
    \A l \in LibraryPages :
        /\ jobStep[l] = "list" => job[l] \in Job
        /\ jobStep[l] = "write" => queue[l] # <<>>

LibraryTyped == LibraryTypeOK /\ LibraryControl

LibraryRequest == InsertRequest \cup UpdateRequest \cup DeleteRequest

LEMMA LibraryRequestsAreRequests == LibraryRequest \subseteq Request
BY DEF LibraryRequest, Request

LEMMA OneRequest ==
    ASSUME NEW q \in LibraryRequest
    PROVE  <<q>> \in Seq(LibraryRequest) /\ <<q>> # <<>>
OBVIOUS

LEMMA JobStarts ==
    ASSUME StoreTypeOK, LibraryTyped, NEW l \in LibraryPages, NEW asked \in Job, Start(l, asked)
    PROVE  LibraryTyped'
<1>1. Instances(asked) \subseteq Job
  BY DEF Instances, Job
<1>2. PICK j \in Instances(asked) :
        /\ job' = [job EXCEPT ![l] = j]
        /\ IF j.kind = "deleteAllWordEntries"
           THEN /\ jobStep' = [jobStep EXCEPT ![l] = "write"]
                /\ queue' = [queue EXCEPT ![l] = <<[op |-> "deleteWords", ids |-> WordIds]>>]
           ELSE /\ jobStep' = [jobStep EXCEPT ![l] = "list"]
                /\ UNCHANGED queue
  BY DEF Start
<1>3. j \in Job
  BY <1>1
<1> DEFINE all == <<[op |-> "deleteWords", ids |-> WordIds]>>
<1>4. all \in Seq(LibraryRequest) /\ all # <<>>
  <2>1. [op |-> "deleteWords", ids |-> WordIds] \in LibraryRequest
    BY DEF LibraryRequest, DeleteRequest
  <2> QED
    BY <2>1, OneRequest
<1> HIDE DEF all
<1>5. CASE j.kind = "deleteAllWordEntries"
  <2>1. jobStep' = [jobStep EXCEPT ![l] = "write"] /\ queue' = [queue EXCEPT ![l] = all]
    BY <1>2, <1>5 DEF all
  <2> QED
    BY <1>2, <1>3, <1>4, <2>1
       DEF LibraryTyped, LibraryTypeOK, LibraryControl, LibraryRequest
<1>6. CASE j.kind # "deleteAllWordEntries"
  BY <1>2, <1>3, <1>6 DEF LibraryTyped, LibraryTypeOK, LibraryControl
<1> QED
  BY <1>5, <1>6

LEMMA JobSends ==
    ASSUME StoreTypeOK, LibraryTyped, NEW l \in LibraryPages,
           NEW requests \in Seq(LibraryRequest), Send(l, requests)
    PROVE  LibraryTyped'
BY DEF Send, LibraryTyped, LibraryTypeOK, LibraryControl, LibraryRequest

LEMMA JobFinishes ==
    ASSUME StoreTypeOK, LibraryTyped, NEW l \in LibraryPages, Finish(l)
    PROVE  LibraryTyped'
BY EmptySeq DEF Finish, LibraryTyped, LibraryTypeOK, LibraryControl

LEMMA NewRowsType ==
    ASSUME StoreTypeOK, NEW new \in SUBSET Texts, NEW j, j.added \subseteq Examples,
           NEW rows \in NewRows(new, j)
    PROVE  rows \in WordRows
<1>1. clock \in Nat
  BY BoundsAssumption DEF StoreTypeOK
<1>2. {NewWord(t, j.added) : t \in new} \subseteq WordRow
  <2>1. \A t \in new : t \in Texts
    OBVIOUS
  <2>2. j.added \in SUBSET Examples /\ FALSE \in BOOLEAN
    OBVIOUS
  <2>3. \A t \in new : NewWord(t, j.added) \in WordRow
    BY <1>1, <2>1, <2>2, Zenon DEF NewWord, WordRow
  <2> QED
    BY <2>3, Zenon
<1> QED
  BY <1>2 DEF NewRows, WordRows

LEMMA WordsAdded ==
    ASSUME StoreTypeOK, LibraryTyped, NEW l \in LibraryPages, AddWords(l)
    PROVE  LibraryTyped' /\ StoreTypeOK'
<1>1. job[l] \in Job
  BY DEF AddWords, Listing, LibraryTyped, LibraryControl
<1>2. PICK ts \in Unrepeated(job[l].texts) :
        \E rows \in NewRows({t \in ts : ~Known(t)}, job[l]) :
            /\ Send(l, IF {t \in ts : ~Known(t)} = {} THEN <<>>
                       ELSE <<[op |-> "insertWords", rows |-> rows]>>)
            /\ usedIds' = usedIds \cup Given(rows)
  BY DEF AddWords
<1>3. PICK new : new = {t \in ts : ~Known(t)}
  OBVIOUS
<1>4. PICK rows \in NewRows(new, job[l]) :
        /\ Send(l, IF new = {} THEN <<>> ELSE <<[op |-> "insertWords", rows |-> rows]>>)
        /\ usedIds' = usedIds \cup Given(rows)
  BY <1>2, <1>3
<1>5. new \subseteq Texts /\ job[l].added \subseteq Examples
  BY <1>1, <1>3 DEF Unrepeated, Job
<1>6. [op |-> "insertWords", rows |-> rows] \in LibraryRequest
  BY <1>5, NewRowsType DEF LibraryRequest, InsertRequest
<1>7. (IF new = {} THEN <<>> ELSE <<[op |-> "insertWords", rows |-> rows]>>) \in Seq(LibraryRequest)
  BY <1>6, OneRequest, EmptySeq
<1>8. LibraryTyped'
  BY <1>4, <1>7, JobSends
<1>9. usedIds' \subseteq WordIds
  BY <1>4 DEF Given, StoreTypeOK
<1> QED
  BY <1>8, <1>9 DEF AddWords, tables, channel, StoreTypeOK

\* A row with one of its fields changed, alone in a batch.
LEMMA SingleUpdate ==
    ASSUME NEW w \in WordIds, NEW row \in WordRow
    PROVE  [op |-> "updateWords", rows |-> [NoRows EXCEPT ![w] = row]] \in LibraryRequest
BY DEF NoRows, WordRows, LibraryRequest, UpdateRequest

LEMMA WordEntryUpdated ==
    ASSUME StoreTypeOK, LibraryTyped, NEW l \in LibraryPages, UpdateWordEntry(l)
    PROVE  LibraryTyped'
<1>1. job[l] \in Job
  BY DEF UpdateWordEntry, Listing, LibraryTyped, LibraryControl
<1>2. PICK w \in WordIds, t \in job[l].texts :
        /\ Exists(w)
        /\ Send(l, <<[op |-> "updateWords",
                      rows |-> [NoRows EXCEPT ![w] = [words[w] EXCEPT !.text = t]]]>>)
  BY DEF UpdateWordEntry
<1>3. words[w] \in WordRow
  BY <1>2 DEF Exists, StoreTypeOK, WordRows
<1>4. [words[w] EXCEPT !.text = t] \in WordRow
  BY <1>1, <1>3 DEF Job, WordRow
<1> QED
  BY <1>2, <1>4, SingleUpdate, OneRequest, JobSends

LEMMA ArchiveChanged ==
    ASSUME StoreTypeOK, LibraryTyped, NEW l \in LibraryPages, ChangeWordArchive(l)
    PROVE  LibraryTyped'
<1> DEFINE archived == job[l].kind = "archive"
           rows == [w \in WordIds |-> IF w \in job[l].ids /\ words[w].archived # archived
                                      THEN [words[w] EXCEPT !.archived = archived]
                                      ELSE None]
<1>1. Send(l, <<[op |-> "updateWords", rows |-> rows]>>)
  BY DEF ChangeWordArchive
<1>2. \A w \in WordIds : w \in job[l].ids => words[w] \in WordRow
  BY DEF ChangeWordArchive, Exists, StoreTypeOK, WordRows
<1>3. \A w \in WordIds : w \in job[l].ids => [words[w] EXCEPT !.archived = archived] \in WordRow
  BY <1>2 DEF WordRow
<1>4. rows \in WordRows
  BY <1>3 DEF WordRows
<1> HIDE DEF rows
<1>5. [op |-> "updateWords", rows |-> rows] \in LibraryRequest
  BY <1>4 DEF LibraryRequest, UpdateRequest
<1> QED
  BY <1>1, <1>5, OneRequest, JobSends

LEMMA WordEntryDeleted ==
    ASSUME StoreTypeOK, LibraryTyped, NEW l \in LibraryPages, DeleteWordEntry(l)
    PROVE  LibraryTyped'
<1>1. PICK w \in WordIds : Send(l, <<[op |-> "deleteWords", ids |-> {w}]>>)
  BY DEF DeleteWordEntry
<1>2. [op |-> "deleteWords", ids |-> {w}] \in LibraryRequest
  BY DEF LibraryRequest, DeleteRequest
<1> QED
  BY <1>1, <1>2, OneRequest, JobSends

LEMMA SelectedEntriesDeleted ==
    ASSUME StoreTypeOK, LibraryTyped, NEW l \in LibraryPages, DeleteSelectedWordEntries(l)
    PROVE  LibraryTyped'
<1>1. job[l] \in Job
  BY DEF DeleteSelectedWordEntries, Listing, LibraryTyped, LibraryControl
<1>2. [op |-> "deleteWords", ids |-> job[l].ids] \in LibraryRequest
  BY <1>1 DEF Job, LibraryRequest, DeleteRequest
<1> QED
  BY <1>2, OneRequest, JobSends DEF DeleteSelectedWordEntries

LEMMA ExamplesImported ==
    ASSUME StoreTypeOK, LibraryTyped, NEW l \in LibraryPages, ImportExampleEntries(l)
    PROVE  LibraryTyped'
<1>1. job[l] \in Job
  BY DEF ImportExampleEntries, Listing, LibraryTyped, LibraryControl
<1> DEFINE Targets(found) == {w \in WordIds : Lacking(w, job[l].added)
                                               /\ \E plain \in DOMAIN found : found[plain] = w}
<1>2. PICK found \in Lookups(job[l].texts) :
        \E order \in SetToSeqs(Targets(found)) :
            Send(l, [i \in DOMAIN order |-> EnrichRequest(order[i], job[l].added)])
  BY DEF ImportExampleEntries
<1> DEFINE n == Cardinality(Targets(found))
<1>3. PICK order \in [1 .. n -> Targets(found)] :
        Send(l, [i \in DOMAIN order |-> EnrichRequest(order[i], job[l].added)])
  BY <1>2 DEF SetToSeqs
<1>4. n \in Nat
  BY FiniteLibrary, FS_Subset, FS_CardinalityType
<1>5. \A w \in Targets(found) : EnrichRequest(w, job[l].added) \in LibraryRequest
  <2> SUFFICES ASSUME NEW w \in Targets(found)
               PROVE  EnrichRequest(w, job[l].added) \in LibraryRequest
    OBVIOUS
  <2>1. words[w] \in WordRow
    BY DEF Lacking, Active, StoreTypeOK, WordRows
  <2>2. [words[w] EXCEPT !.examples = @ \cup job[l].added] \in WordRow
    BY <1>1, <2>1 DEF Job, WordRow
  <2> QED
    BY <2>2, SingleUpdate DEF EnrichRequest
<1> HIDE DEF n, Targets
<1>6. [i \in DOMAIN order |-> EnrichRequest(order[i], job[l].added)] \in [1 .. n -> LibraryRequest]
  BY <1>3, <1>5
<1>7. [i \in DOMAIN order |-> EnrichRequest(order[i], job[l].added)] \in Seq(LibraryRequest)
  BY <1>4, <1>6, SeqDef
<1> QED
  BY <1>3, <1>7, JobSends

\* What is sent first is a request, and what remains to be sent are requests.
LEMMA QueuedRequests ==
    ASSUME StoreTypeOK, LibraryTyped, NEW l \in LibraryPages, jobStep[l] = "write"
    PROVE  Head(queue[l]) \in Request /\ Tail(queue[l]) \in Seq(LibraryRequest)
<1>1. queue[l] \in Seq(LibraryRequest) /\ queue[l] # <<>>
  BY DEF LibraryTyped, LibraryTypeOK, LibraryControl, LibraryRequest
<1> QED
  BY <1>1, HeadTailProperties, LibraryRequestsAreRequests

LEMMA LibraryWrites ==
    ASSUME StoreTypeOK, LibraryTyped, NEW l \in LibraryPages, MutationApplied(l)
    PROVE  LibraryTyped' /\ StoreTypeOK'
<1>1. Head(queue[l]) \in Request /\ Tail(queue[l]) \in Seq(LibraryRequest)
  BY QueuedRequests DEF MutationApplied
<1>2. LibraryTyped'
  BY <1>1
     DEF MutationApplied, LibraryTyped, LibraryTypeOK, LibraryControl, LibraryRequest
<1> QED
  BY <1>1, <1>2, CommitStoreType DEF MutationApplied, channel

LEMMA LibraryLosesCall ==
    ASSUME StoreTypeOK, LibraryTyped, NEW l \in LibraryPages, LibraryCallLost(l)
    PROVE  LibraryTyped' /\ StoreTypeOK'
<1>1. stray' \subseteq Request
  BY QueuedRequests DEF LibraryCallLost, StoreTypeOK
<1> QED
  BY <1>1, JobFinishes, StrayStoreType DEF LibraryCallLost
===============================================================================
