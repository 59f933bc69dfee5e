---------------------------- MODULE OneTab_proofs ----------------------------
(***************************************************************************)
(* One tab used with patience: one page at a time, nothing fails and       *)
(* nothing is closed while it is busy.  Then what a page has read is still *)
(* what the store holds when the page writes, and the application keeps    *)
(* the promises of the practice ledger.                                    *)
(***************************************************************************)
EXTENDS Immersion_proofs

Patient == OneTab /\ MaxDisturbances = 0

PracticeClosed == \A p \in PracticePages : machine[p] = "Closed"
MemoryClosed == \A m \in MemoryPages : memory[m] = "Closed"
LibraryIdle == \A l \in LibraryPages : jobStep[l] = "idle"

\* Whatever is open is open alone.
PracticeAlone(p) ==
    MemoryClosed /\ LibraryIdle /\ \A q \in PracticePages \ {p} : machine[q] = "Closed"
MemoryAlone(m) ==
    PracticeClosed /\ LibraryIdle /\ \A n \in MemoryPages \ {m} : memory[n] = "Closed"
LibraryAlone(l) ==
    PracticeClosed /\ MemoryClosed /\ \A k \in LibraryPages \ {l} : jobStep[k] = "idle"

Alone ==
    /\ \A p \in PracticePages : machine[p] # "Closed" => PracticeAlone(p)
    /\ \A m \in MemoryPages : memory[m] # "Closed" => MemoryAlone(m)
    /\ \A l \in LibraryPages : jobStep[l] # "idle" => LibraryAlone(l)

(***************************************************************************)
(* The store.                                                              *)
(***************************************************************************)
Distinct(rows) ==
    \A v, w \in WordIds : (v # w /\ rows[v] # None /\ rows[w] # None) =>
        PlainText[rows[v].text] # PlainText[rows[w].text]

StoreInOrder ==
    /\ stray = {}
    /\ Distinct(words)
    /\ \A w \in WordIds : Exists(w) <=> states[w] # None
    /\ \A w \in WordIds : Exists(w) => w \in usedIds /\ w \notin deleted
    /\ deleted \subseteq usedIds
    /\ \A e \in events : Exists(e.word) /\ e.id < nextEvent
    /\ nextEvent <= MaxAnswers

(***************************************************************************)
(* What the open page holds is what the store holds.                       *)
(***************************************************************************)
Current(item) == Exists(item.word) /\ item.row = states[item.word]

\* The answer to what is on screen, with the newest id there is.
AnswersCurrent(request, item) ==
    \E now \in 0 .. MaxClock, r \in Ratings :
        \E card \in PracticeResults(item.row.card, "scheduled", now, r) :
            request = AnswerRequest(nextEvent - 1, item, card, now, r)

PageInOrder(p) ==
    /\ machine[p] = "Closed" => step[p] = "idle"
    /\ machine[p] = "Ready" => step[p] = "idle" /\ Current(currentItem[p])
    /\ step[p] \in {"check", "save"} => machine[p] = "Submitting" /\ Current(currentItem[p])
    /\ step[p] = "check" => nextEvent < MaxAnswers
    /\ step[p] = "save" =>
         /\ AnswersCurrent(pending[p], currentItem[p])
         /\ nextEvent > 0
         /\ \A e \in events : e.id < nextEvent - 1
    /\ step[p] = "words" => poolRows[p] = states
    /\ step[p] = "getWord" => candidate[p].row = states[candidate[p].word]

Reschedules(rows) ==
    \A w \in WordIds : rows[w] # None =>
        Exists(w) /\ rows[w] = [states[w] EXCEPT !.card = rows[w].card]

MemoryInOrder(m) ==
    /\ memory[m] = "Closed" => memoryStep[m] = "idle"
    /\ memoryStep[m] # "idle" =>
         memory[m] \in {"CalculatingRecalculationPreview", "ApplyingRecalculation"}
    /\ memoryStep[m] = "words" => readStates[m] = states
    /\ memoryStep[m] = "write" => Reschedules(memoryPending[m].rows)

\* A library mutation that fits the library as it is.
Inserts(q) ==
    /\ q.op = "insertWords"
    /\ Distinct(Overlay(words, q.rows))
    /\ \A w \in Given(q.rows) : ~Exists(w) /\ w \in usedIds /\ w \notin deleted
    /\ \E now \in 0 .. MaxClock : \A w \in Given(q.rows) : q.rows[w].createdAt = now

Updates(q) ==
    /\ q.op = "updateWords"
    /\ Distinct(Overlay(words, q.rows))
    /\ \A w \in Given(q.rows) : Exists(w) /\ q.rows[w].createdAt = words[w].createdAt

\* One of several in a row leaves the spellings alone.
Retouches(q) ==
    /\ q.op = "updateWords"
    /\ \A w \in Given(q.rows) :
         Exists(w) /\ q.rows[w].text = words[w].text /\ q.rows[w].createdAt = words[w].createdAt

JobInOrder(l) ==
    /\ (jobStep[l] = "list" /\ job[l].kind \in Adding) => job[l].ids \cap usedIds = {}
    /\ jobStep[l] = "write" =>
         \/ /\ Len(queue[l]) = 1
            /\ queue[l][1].op = "deleteWords" \/ Inserts(queue[l][1]) \/ Updates(queue[l][1])
         \/ \A i \in DOMAIN queue[l] : Retouches(queue[l][i])

OneTabInv ==
    /\ Alone
    /\ StoreInOrder
    /\ \A p \in PracticePages : PageInOrder(p)
    /\ \A m \in MemoryPages : MemoryInOrder(m)
    /\ \A l \in LibraryPages : JobInOrder(l)

-------------------------------------------------------------------------------
LEMMA NothingFails ==
    ASSUME Patient, TypeInv
    PROVE  ~Disturb
BY DEF Patient, Disturb, TypeInv, TypeOK, StoreTypeOK

\* What leaves the tables alone and takes ids at most leaves the store in order.
LEMMA StoreStaysInOrder ==
    ASSUME TypeInv, TypeInv', StoreInOrder, UNCHANGED tables, UNCHANGED stray,
           usedIds \subseteq usedIds', nextEvent <= nextEvent', nextEvent' <= MaxAnswers
    PROVE  StoreInOrder'
<1>1. /\ words' = words /\ states' = states /\ events' = events /\ deleted' = deleted
  BY DEF tables
<1>2. \A e \in events : e.id \in Nat
  BY DEF TypeInv, TypeOK, StoreTypeOK, PracticeEvent
<1>3. nextEvent \in Nat /\ nextEvent' \in Nat
  BY DEF TypeInv, TypeOK, StoreTypeOK
<1>4. \A e \in events : e.id < nextEvent'
  BY <1>2, <1>3 DEF StoreInOrder
<1>5. Distinct(words)'
  BY <1>1 DEF StoreInOrder, Distinct
<1> QED
  BY <1>1, <1>4, <1>5 DEF StoreInOrder, Exists

LEMMA StoreUntouched ==
    ASSUME TypeInv, TypeInv', StoreInOrder, UNCHANGED storeVars
    PROVE  StoreInOrder' /\ UNCHANGED tables
<1>1. nextEvent \in Nat /\ nextEvent' = nextEvent
  BY DEF TypeInv, TypeOK, StoreTypeOK, storeVars
<1>2. UNCHANGED tables /\ UNCHANGED stray /\ usedIds' = usedIds
  BY DEF storeVars, tables
<1> QED
  BY <1>1, <1>2, StoreStaysInOrder DEF StoreInOrder

(***************************************************************************)
(* Frames: where one page acts alone, only its part of the invariant and   *)
(* the store's are at stake.                                               *)
(***************************************************************************)
LEMMA PracticeFrame ==
    ASSUME OneTabInv, NEW p \in PracticePages, PracticeAlone(p),
           UNCHANGED memoryVars, UNCHANGED libraryVars,
           \A q \in PracticePages \ {p} : machine'[q] = machine[q] /\ step'[q] = step[q],
           StoreInOrder', PageInOrder(p)'
    PROVE  OneTabInv'
<1>1. /\ memory' = memory /\ memoryStep' = memoryStep /\ jobStep' = jobStep
  BY DEF memoryVars, libraryVars
<1>2. \A q \in PracticePages \ {p} : machine'[q] = "Closed" /\ step'[q] = "idle"
  BY DEF OneTabInv, PageInOrder, PracticeAlone
<1>3. \A m \in MemoryPages : memory'[m] = "Closed" /\ memoryStep'[m] = "idle"
  BY <1>1 DEF OneTabInv, MemoryInOrder, PracticeAlone, MemoryClosed
<1>4. \A l \in LibraryPages : jobStep'[l] = "idle"
  BY <1>1 DEF PracticeAlone, LibraryIdle
<1>5. Alone'
  BY <1>2, <1>3, <1>4
     DEF Alone, PracticeAlone, MemoryAlone, LibraryAlone, PracticeClosed, MemoryClosed, LibraryIdle
<1>6. \A q \in PracticePages : PageInOrder(q)'
  BY <1>2 DEF PageInOrder
<1>7. \A m \in MemoryPages : MemoryInOrder(m)'
  BY <1>3 DEF MemoryInOrder
<1>8. \A l \in LibraryPages : JobInOrder(l)'
  BY <1>4 DEF JobInOrder
<1> QED
  BY <1>5, <1>6, <1>7, <1>8 DEF OneTabInv

LEMMA MemoryFrame ==
    ASSUME OneTabInv, NEW m \in MemoryPages, MemoryAlone(m),
           UNCHANGED pageVars, UNCHANGED libraryVars,
           \A n \in MemoryPages \ {m} : memory'[n] = memory[n] /\ memoryStep'[n] = memoryStep[n],
           StoreInOrder', MemoryInOrder(m)'
    PROVE  OneTabInv'
<1>1. /\ machine' = machine /\ step' = step /\ jobStep' = jobStep
  BY DEF pageVars, libraryVars
<1>2. \A n \in MemoryPages \ {m} : memory'[n] = "Closed" /\ memoryStep'[n] = "idle"
  BY DEF OneTabInv, MemoryInOrder, MemoryAlone
<1>3. \A p \in PracticePages : machine'[p] = "Closed" /\ step'[p] = "idle"
  BY <1>1 DEF OneTabInv, PageInOrder, MemoryAlone, PracticeClosed
<1>4. \A l \in LibraryPages : jobStep'[l] = "idle"
  BY <1>1 DEF MemoryAlone, LibraryIdle
<1>5. Alone'
  BY <1>2, <1>3, <1>4
     DEF Alone, PracticeAlone, MemoryAlone, LibraryAlone, PracticeClosed, MemoryClosed, LibraryIdle
<1>6. \A p \in PracticePages : PageInOrder(p)'
  BY <1>3 DEF PageInOrder
<1>7. \A n \in MemoryPages : MemoryInOrder(n)'
  BY <1>2 DEF MemoryInOrder
<1>8. \A l \in LibraryPages : JobInOrder(l)'
  BY <1>4 DEF JobInOrder
<1> QED
  BY <1>5, <1>6, <1>7, <1>8 DEF OneTabInv

LEMMA LibraryFrame ==
    ASSUME OneTabInv, NEW l \in LibraryPages, LibraryAlone(l),
           UNCHANGED pageVars, UNCHANGED memoryVars,
           \A k \in LibraryPages \ {l} : jobStep'[k] = jobStep[k],
           StoreInOrder', JobInOrder(l)'
    PROVE  OneTabInv'
<1>1. /\ machine' = machine /\ step' = step /\ memory' = memory /\ memoryStep' = memoryStep
  BY DEF pageVars, memoryVars
<1>2. \A k \in LibraryPages \ {l} : jobStep'[k] = "idle"
  BY DEF LibraryAlone
<1>3. \A p \in PracticePages : machine'[p] = "Closed" /\ step'[p] = "idle"
  BY <1>1 DEF OneTabInv, PageInOrder, LibraryAlone, PracticeClosed
<1>4. \A m \in MemoryPages : memory'[m] = "Closed" /\ memoryStep'[m] = "idle"
  BY <1>1 DEF OneTabInv, MemoryInOrder, LibraryAlone, MemoryClosed
<1>5. Alone'
  BY <1>2, <1>3, <1>4
     DEF Alone, PracticeAlone, MemoryAlone, LibraryAlone, PracticeClosed, MemoryClosed, LibraryIdle
<1>6. \A p \in PracticePages : PageInOrder(p)'
  BY <1>3 DEF PageInOrder
<1>7. \A m \in MemoryPages : MemoryInOrder(m)'
  BY <1>4 DEF MemoryInOrder
<1>8. \A k \in LibraryPages : JobInOrder(k)'
  BY <1>2 DEF JobInOrder
<1> QED
  BY <1>5, <1>6, <1>7, <1>8 DEF OneTabInv

-------------------------------------------------------------------------------
(***************************************************************************)
(* Practice pages.                                                         *)
(***************************************************************************)
LEMMA PracticePageIsAlone ==
    ASSUME Patient, TypeInv, OneTabInv, NEW p \in PracticePages,
           PracticeNext(p) \/ (MayOpen /\ Open(p))
    PROVE  PracticeAlone(p)
<1>1. CASE MayOpen /\ Open(p)
  BY <1>1 DEF Patient, MayOpen, NothingOpen, PracticeAlone, MemoryClosed, LibraryIdle
<1>2. CASE PracticeNext(p)
  <2>1. machine[p] # "Closed"
    <3>1. step[p] # "idle" => machine[p] # "Closed"
      BY DEF OneTabInv, PageInOrder
    <3>2. CASE Leave(p) \/ Abandon(p) \/ Refresh(p) \/ Reveal(p) \/ \E r \in Ratings : Rate(p, r)
      BY <3>2 DEF Leave, Abandon, Refresh, Reveal, Rate, Invoked
    <3>3. CASE AnswerLost(p) \/ SelectionFailed(p) \/ PracticeRuns(p)
      BY <3>1, <3>3
         DEF AnswerLost, SelectionFailed, PracticeRuns, WordNoLongerActive, SendAnswer, AnswerSaved,
             AnswerRejected, ReadPool, SelectWord, NothingToSelect, ItemLoaded, ItemVanished
    <3> QED
      BY <1>2, <3>2, <3>3 DEF PracticeNext
  <2> QED
    BY <2>1 DEF OneTabInv, Alone
<1> QED
  BY <1>1, <1>2

\* Other pages' machines are not touched.
OthersUntouched(p) == \A q \in PracticePages \ {p} : machine'[q] = machine[q] /\ step'[q] = step[q]

\* The learner's own steps.
LEMMA LearnerKeepsOrder ==
    ASSUME TypeInv, OneTabInv, NEW p \in PracticePages,
           Open(p) \/ Leave(p) \/ Refresh(p) \/ Reveal(p)
    PROVE  PageInOrder(p)' /\ OthersUntouched(p)
<1>1. machine \in [PracticePages -> MachineStates] /\ step \in [PracticePages -> Steps]
  BY DEF TypeInv, TypeOK, PracticeTypeOK
<1>2. PageInOrder(p)
  BY DEF OneTabInv
<1>3. CASE Open(p) \/ Refresh(p)
  BY <1>1, <1>3 DEF Open, Refresh, EnterLoading, PageInOrder, OthersUntouched
<1>4. CASE Leave(p)
  BY <1>1, <1>4 DEF Leave, Forget, PageInOrder, OthersUntouched
<1>5. CASE Reveal(p)
  <2>1. UNCHANGED <<states, words, machine, step, currentItem>>
    BY <1>5 DEF Reveal, storeVars
  <2> QED
    BY <1>2, <1>5, <2>1 DEF Reveal, PageInOrder, OthersUntouched, Current, Exists
<1> QED
  BY <1>3, <1>4, <1>5

\* An answer is only begun while there is room for it (AnswersLeft).
LEMMA RatingKeepsOrder ==
    ASSUME TypeInv, OneTabInv, NEW p \in PracticePages, PracticeAlone(p),
           NEW r \in Ratings, Rate(p, r)
    PROVE  PageInOrder(p)' /\ OthersUntouched(p)
<1>1. machine \in [PracticePages -> MachineStates] /\ step \in [PracticePages -> Steps]
  BY DEF TypeInv, TypeOK, PracticeTypeOK
<1>2. PageInOrder(p) /\ machine[p] = "Ready"
  BY DEF OneTabInv, Rate
<1>3. nextEvent < MaxAnswers
  <2>1. {q \in PracticePages : step[q] = "check"} = {}
    BY <1>2 DEF OneTabInv, PageInOrder, PracticeAlone
  <2>2. nextEvent \in Nat
    BY DEF TypeInv, TypeOK, StoreTypeOK
  <2> QED
    BY <2>1, <2>2, FS_EmptySet DEF Rate, AnswersLeft
<1>4. UNCHANGED <<states, words, nextEvent, currentItem>>
  BY DEF Rate, storeVars
<1> QED
  BY <1>1, <1>2, <1>3, <1>4 DEF Rate, PageInOrder, OthersUntouched, Current, Exists

\* An answer that is not given leaves its word on screen.
LEMMA RejectionKeepsOrder ==
    ASSUME TypeInv, OneTabInv, NEW p \in PracticePages, step[p] \in {"check", "save"},
           RejectAnswer(p), UNCHANGED storeVars
    PROVE  PageInOrder(p)' /\ OthersUntouched(p)
<1>1. machine \in [PracticePages -> MachineStates] /\ step \in [PracticePages -> Steps]
  BY DEF TypeInv, TypeOK, PracticeTypeOK
<1>2. Current(currentItem[p])
  BY DEF OneTabInv, PageInOrder
<1>3. UNCHANGED <<states, words, currentItem>>
  BY DEF RejectAnswer, storeVars
<1> QED
  BY <1>1, <1>2, <1>3 DEF RejectAnswer, PageInOrder, OthersUntouched, Current, Exists

\* Reading and selecting: what is read is what is stored.
LEMMA ReadingKeepsOrder ==
    ASSUME TypeInv, OneTabInv, NEW p \in PracticePages, ReadPool(p) \/ SelectWord(p)
    PROVE  PageInOrder(p)' /\ OthersUntouched(p)
<1>1. /\ machine \in [PracticePages -> MachineStates] /\ step \in [PracticePages -> Steps]
      /\ DOMAIN poolRows = PracticePages /\ DOMAIN candidate = PracticePages
  BY DEF TypeInv, TypeOK, PracticeTypeOK
<1>2. PageInOrder(p)
  BY DEF OneTabInv
<1>3. UNCHANGED states
  BY DEF ReadPool, SelectWord, storeVars
<1>4. CASE ReadPool(p)
  BY <1>1, <1>2, <1>3, <1>4 DEF ReadPool, PageInOrder, OthersUntouched
<1>5. CASE SelectWord(p)
  <2>1. PICK w \in Selectable(poolRows[p], asOf[p]) :
          candidate' = [candidate EXCEPT ![p] = [word |-> w, row |-> poolRows[p][w]]]
    BY <1>5 DEF SelectWord
  <2>2. candidate'[p].row = states'[candidate'[p].word]
    BY <1>1, <1>2, <1>3, <1>5, <2>1 DEF SelectWord, PageInOrder
  <2> QED
    BY <1>1, <1>2, <1>5, <2>2 DEF SelectWord, PageInOrder, OthersUntouched
<1> QED
  BY <1>4, <1>5

\* The word selected comes on screen with the row the store holds, or none does.
LEMMA LoadingKeepsOrder ==
    ASSUME TypeInv, OneTabInv, NEW p \in PracticePages,
           ItemLoaded(p) \/ NothingToSelect(p) \/ ItemVanished(p)
    PROVE  PageInOrder(p)' /\ OthersUntouched(p)
<1>1. /\ machine \in [PracticePages -> MachineStates] /\ step \in [PracticePages -> Steps]
      /\ DOMAIN currentItem = PracticePages
  BY DEF TypeInv, TypeOK, PracticeTypeOK
<1>2. PageInOrder(p)
  BY DEF OneTabInv
<1>3. UNCHANGED <<states, words>>
  BY DEF ItemLoaded, NothingToSelect, ItemVanished, storeVars
<1>4. CASE ItemLoaded(p)
  <2>1. Current(candidate[p])
    BY <1>2, <1>4 DEF ItemLoaded, PageInOrder, Current
  <2>2. Current(currentItem[p])'
    BY <1>1, <1>3, <1>4, <2>1 DEF ItemLoaded, ShowItem, Current, Exists
  <2> QED
    BY <1>1, <1>4, <2>2 DEF ItemLoaded, ShowItem, PageInOrder, OthersUntouched
<1>5. CASE NothingToSelect(p) \/ ItemVanished(p)
  <2>1. PICK resting \in {"EmptyLibrary", "Complete"} : ShowNothing(p, resting, None)
    BY <1>5 DEF NothingToSelect, ItemVanished
  <2> QED
    BY <1>1, <2>1 DEF ShowNothing, EnterLoading, PageInOrder, OthersUntouched
<1> QED
  BY <1>4, <1>5

\* An answer is sent with the newest id, computed from the row the store holds.
LEMMA SendingKeepsOrder ==
    ASSUME TypeInv, TypeInv', OneTabInv, NEW p \in PracticePages, SendAnswer(p)
    PROVE  PageInOrder(p)' /\ OthersUntouched(p) /\ StoreInOrder'
<1>1. /\ machine \in [PracticePages -> MachineStates] /\ step \in [PracticePages -> Steps]
      /\ DOMAIN pending = PracticePages
  BY DEF TypeInv, TypeOK, PracticeTypeOK
<1>2. PageInOrder(p) /\ step[p] = "check"
  BY DEF OneTabInv, SendAnswer
<1>3. /\ nextEvent \in Nat /\ clock \in 0 .. MaxClock /\ rating[p] \in Ratings
      /\ MaxAnswers \in Nat
  BY <1>2, AnswersAssumption DEF TypeInv, TypeOK, StoreTypeOK, PracticeControl, PageControl
<1>4. /\ machine' = machine /\ currentItem' = currentItem /\ nextEvent' = nextEvent + 1
      /\ step' = [step EXCEPT ![p] = "save"]
      /\ UNCHANGED tables /\ UNCHANGED channel /\ UNCHANGED usedIds
  BY DEF SendAnswer
<1>5. StoreInOrder'
  <2>1. nextEvent <= nextEvent' /\ nextEvent' <= MaxAnswers
    BY <1>2, <1>3, <1>4 DEF PageInOrder
  <2> QED
    BY <1>4, <2>1, StoreStaysInOrder DEF OneTabInv, channel
<1>6. AnswersCurrent(pending[p], currentItem[p])'
  <2>1. PICK card \in PracticeResults(currentItem[p].row.card, "scheduled", clock, rating[p]) :
          pending' = [pending EXCEPT ![p] =
              AnswerRequest(nextEvent, currentItem[p], card, clock, rating[p])]
    BY DEF SendAnswer
  <2>2. nextEvent' - 1 = nextEvent
    BY <1>3, <1>4
  <2>3. pending'[p] = AnswerRequest(nextEvent' - 1, currentItem'[p], card, clock, rating[p])
    BY <1>1, <1>4, <2>1, <2>2
  <2>4. card \in PracticeResults(currentItem'[p].row.card, "scheduled", clock, rating[p])
    BY <1>4
  <2> QED
    BY <1>3, <2>3, <2>4 DEF AnswersCurrent
<1>7. Current(currentItem[p])'
  BY <1>2, <1>4 DEF PageInOrder, Current, Exists, tables
<1>8. nextEvent' > 0 /\ \A e \in events' : e.id < nextEvent' - 1
  <2>1. events' = events /\ nextEvent' - 1 = nextEvent
    BY <1>3, <1>4 DEF tables
  <2> QED
    BY <1>3, <1>4, <2>1 DEF OneTabInv, StoreInOrder
<1> QED
  BY <1>1, <1>2, <1>4, <1>5, <1>6, <1>7, <1>8 DEF PageInOrder, OthersUntouched

\* The ledger has the scheduler, the ladder and the rows of the application.
LEMMA LedgerSchedules ==
    ASSUME NEW card, NEW kind, NEW now, NEW r
    PROVE  Ledger!PracticeResults(card, kind, now, r) = PracticeResults(card, kind, now, r)
<1>1. \A delay : Ledger!Next_(card, now, r, delay) = Next_(card, now, r, delay)
  BY DEF Next_, Ledger!Next_, Graduates, Ledger!Graduates, LearningSteps, Ledger!LearningSteps,
         ShortTermPhase, Ledger!ShortTermPhase, ShortTermStep, Ledger!ShortTermStep
<1> QED
  BY <1>1 DEF PracticeResults, Ledger!PracticeResults, KeepsSchedule, Ledger!KeepsSchedule

LEMMA LedgerMoves ==
    ASSUME NEW row, NEW kind, NEW r
    PROVE  /\ Ledger!MasteryAfter(row, kind, r) = MasteryAfter(row, kind, r)
           /\ Ledger!FailuresAfter(row, kind, r) = FailuresAfter(row, kind, r)
           /\ Ledger!MovedTo(row, kind, r) = MovedTo(row, kind, r)
<1>1. Ledger!MasteryAfter(row, kind, r) = MasteryAfter(row, kind, r)
  BY DEF MasteryAfter, Ledger!MasteryAfter, RequiredMasteryReviews, Ledger!RequiredMasteryReviews
<1>2. Ledger!FailuresAfter(row, kind, r) = FailuresAfter(row, kind, r)
  BY DEF FailuresAfter, Ledger!FailuresAfter
<1>3. /\ Ledger!Mastered(row, kind, r) <=> Mastered(row, kind, r)
      /\ Ledger!LostInContext(row, kind, r) <=> LostInContext(row, kind, r)
  BY <1>1, <1>2
     DEF Mastered, Ledger!Mastered, RequiredMasteryReviews, Ledger!RequiredMasteryReviews,
         LostInContext, Ledger!LostInContext, RequiredContextFailures, Ledger!RequiredContextFailures
<1>4. Ledger!MovedTo(row, kind, r) = MovedTo(row, kind, r)
  BY <1>3 DEF MovedTo, Ledger!MovedTo
<1> QED
  BY <1>1, <1>2, <1>4

LEMMA LedgerAnswers ==
    ASSUME NEW id, NEW w, NEW row, NEW card, NEW kind, NEW now, NEW r
    PROVE  /\ Ledger!AnsweredRow(row, card, kind, now, r) = AnsweredRow(row, card, kind, now, r)
           /\ Ledger!AnswerEvent(id, w, row, card, kind, now, r)
                = AnswerEvent(id, w, row, card, kind, now, r)
<1>1. Ledger!TransitionAfterRating(row, card, kind, now, r)
        = TransitionAfterRating(row, card, kind, now, r)
  BY LedgerMoves
     DEF TransitionAfterRating, Ledger!TransitionAfterRating, InitialCard, Ledger!InitialCard
<1>2. Ledger!Tally(row, r) = Tally(row, r)
  BY DEF Tally, Ledger!Tally, IsCorrect, Ledger!IsCorrect
<1>3. Ledger!AnsweredRow(row, card, kind, now, r) = AnsweredRow(row, card, kind, now, r)
  BY <1>1, <1>2 DEF AnsweredRow, Ledger!AnsweredRow
<1> QED
  BY <1>3, LedgerMoves DEF AnswerEvent, Ledger!AnswerEvent

\* An answer that is saved is an answer of the ledger.
SavesAnAnswer ==
    \E id \in 0 .. (MaxAnswers - 1), w \in WordIds, now \in 0 .. MaxClock, r \in Ratings :
        Ledger!Answer(id, w, "scheduled", now, r)

LEMMA SavedAnswer ==
    ASSUME TypeInv, OneTabInv, NEW p \in PracticePages, AnswerSaved(p)
    PROVE  SavesAnAnswer
<1> DEFINE item == currentItem[p]
<1>1. PageInOrder(p) /\ step[p] = "save"
  BY DEF OneTabInv, AnswerSaved
<1>2. PICK now \in 0 .. MaxClock, r \in Ratings :
        \E card \in PracticeResults(item.row.card, "scheduled", now, r) :
            pending[p] = AnswerRequest(nextEvent - 1, item, card, now, r)
  BY <1>1 DEF PageInOrder, AnswersCurrent
<1>3. PICK card \in PracticeResults(item.row.card, "scheduled", now, r) :
        pending[p] = AnswerRequest(nextEvent - 1, item, card, now, r)
  BY <1>2
<1>4. item \in Item /\ item.word \in WordIds
  BY <1>1 DEF TypeInv, PracticeControl, PageControl, Item
<1>5. Exists(item.word) /\ item.row = states[item.word] /\ states[item.word] # None
  BY <1>1, <1>4 DEF PageInOrder, Current, OneTabInv, StoreInOrder
<1>6. nextEvent - 1 \in 0 .. (MaxAnswers - 1)
  BY <1>1, AnswersAssumption DEF OneTabInv, StoreInOrder, PageInOrder, TypeInv, TypeOK, StoreTypeOK
<1>7. SavePracticeResult(pending[p].event, pending[p].row)
  BY <1>3 DEF AnswerSaved, Commit, AnswerRequest
<1>8. /\ pending[p].event = AnswerEvent(nextEvent - 1, item.word, item.row, card, "scheduled", now, r)
      /\ pending[p].row = AnsweredRow(item.row, card, "scheduled", now, r)
      /\ pending[p].event.word = item.word
  BY <1>3 DEF AnswerRequest, AnswerEvent
<1>9. \A e \in events : e.id < nextEvent - 1
  BY <1>1 DEF PageInOrder
<1> HIDE DEF item
<1>10. Ledger!Answer(nextEvent - 1, item.word, "scheduled", now, r)
  <2> DEFINE w == item.word
  <2>1. card \in Ledger!PracticeResults(states[w].card, "scheduled", now, r)
    BY <1>3, <1>5, LedgerSchedules
  <2>2. events' = events \cup
          {Ledger!AnswerEvent(nextEvent - 1, w, states[w], card, "scheduled", now, r)}
    BY <1>5, <1>7, <1>8, LedgerAnswers DEF SavePracticeResult
  <2>3. states' = [states EXCEPT ![w] = Ledger!AnsweredRow(states[w], card, "scheduled", now, r)]
    <3>1. states' = [states EXCEPT ![pending[p].event.word] = pending[p].row]
      BY <1>7 DEF SavePracticeResult
    <3>2. pending[p].row = Ledger!AnsweredRow(states[w], card, "scheduled", now, r)
      BY <1>5, <1>8, LedgerAnswers
    <3>3. pending[p].event.word = w
      BY <1>8
    <3> QED
      BY <3>1, <3>2, <3>3
  <2> HIDE DEF w
  <2>4. states[w] # None /\ \A e \in events : e.id < nextEvent - 1
    BY <1>5, <1>9 DEF w
  <2>5. Ledger!Answer(nextEvent - 1, w, "scheduled", now, r)
    BY <2>1, <2>2, <2>3, <2>4 DEF Ledger!Answer
  <2> QED
    BY <2>5 DEF w
<1> QED
  BY <1>4, <1>6, <1>10 DEF SavesAnAnswer

\* Saving gives a word its new row and the log its newest event.
LEMMA SavingKeepsOrder ==
    ASSUME TypeInv, OneTabInv, NEW p \in PracticePages, AnswerSaved(p)
    PROVE  PageInOrder(p)' /\ OthersUntouched(p) /\ StoreInOrder'
<1> DEFINE event == pending[p].event
           row == pending[p].row
<1>1. PageInOrder(p) /\ step[p] = "save" /\ StoreInOrder
  BY DEF OneTabInv, AnswerSaved
<1>2. /\ step \in [PracticePages -> Steps] /\ states \in StateRows /\ nextEvent \in Nat
      /\ pending[p] \in SaveRequest
  BY <1>1 DEF TypeInv, TypeOK, PracticeTypeOK, StoreTypeOK, PracticeControl, PageControl
<1>3. row \in StateRow /\ row # None /\ event.word \in WordIds
  BY <1>2, AbsenceAssumption DEF SaveRequest, PracticeEvent
<1>4. SavePracticeResult(event, row)
  <2>1. pending[p].op = "savePracticeResult"
    BY <1>2 DEF SaveRequest
  <2> QED
    BY <2>1 DEF AnswerSaved, Commit
<1>5. event.id = nextEvent - 1
  <2>1. \A id, item, card, now, r : AnswerRequest(id, item, card, now, r).event.id = id
    BY DEF AnswerRequest, AnswerEvent
  <2>2. AnswersCurrent(pending[p], currentItem[p])
    BY <1>1 DEF PageInOrder
  <2> QED
    BY <2>1, <2>2 DEF AnswersCurrent
<1> HIDE DEF event, row
<1>6. /\ machine' = machine /\ step' = [step EXCEPT ![p] = "pool"]
      /\ UNCHANGED channel /\ UNCHANGED supplies
  BY DEF AnswerSaved
<1>7. /\ Exists(event.word)
      /\ states' = [states EXCEPT ![event.word] = row]
      /\ events' = events \cup {event}
      /\ words' = words /\ deleted' = deleted
  BY <1>4 DEF SavePracticeResult
<1>8. \A w \in WordIds : states'[w] # None <=> states[w] # None
  BY <1>1, <1>2, <1>3, <1>7 DEF StateRows, StoreInOrder
<1>9. stray' = stray /\ usedIds' = usedIds /\ nextEvent' = nextEvent
  BY <1>6 DEF channel, supplies
<1>10. \A e \in events' : Exists(e.word) /\ e.id < nextEvent
  BY <1>1, <1>2, <1>5, <1>7 DEF StoreInOrder
<1>11. StoreInOrder'
  BY <1>1, <1>7, <1>8, <1>9, <1>10 DEF StoreInOrder, Exists, Distinct
<1>12. PageInOrder(p)' /\ OthersUntouched(p)
  BY <1>1, <1>2, <1>6 DEF PageInOrder, OthersUntouched
<1> QED
  BY <1>11, <1>12

\* A step of a practice page keeps things in order and is an answer of the ledger or nothing to it.
LEMMA PracticeStepInOrder ==
    ASSUME Patient, TypeInv, TypeInv', OneTabInv, PracticeStep
    PROVE  OneTabInv' /\ (SavesAnAnswer \/ UNCHANGED <<states, events>>)
<1>1. PICK p \in PracticePages : PracticeNext(p) \/ (MayOpen /\ Open(p))
  BY DEF PracticeStep
<1>2. PracticeAlone(p)
  BY <1>1, PracticePageIsAlone
<1>3. UNCHANGED memoryVars /\ UNCHANGED libraryVars
  BY DEF PracticeStep
<1>4. CASE AnswerSaved(p)
  BY <1>2, <1>3, <1>4, SavedAnswer, SavingKeepsOrder, PracticeFrame DEF OthersUntouched
<1>5. CASE SendAnswer(p)
  <2>1. UNCHANGED <<states, events>>
    BY <1>5 DEF SendAnswer, tables
  <2> QED
    BY <1>2, <1>3, <1>5, <2>1, SendingKeepsOrder, PracticeFrame DEF OthersUntouched
<1>6. CASE \/ Open(p) \/ Leave(p) \/ Refresh(p) \/ Reveal(p) \/ \E r \in Ratings : Rate(p, r)
           \/ WordNoLongerActive(p) \/ AnswerRejected(p) \/ ReadPool(p) \/ SelectWord(p)
           \/ NothingToSelect(p) \/ ItemLoaded(p) \/ ItemVanished(p)
  <2>1. UNCHANGED storeVars
    BY <1>6 DEF Open, Leave, Refresh, Reveal, Rate, WordNoLongerActive, AnswerRejected, ReadPool,
                SelectWord, NothingToSelect, ItemLoaded, ItemVanished
  <2>2. StoreInOrder' /\ UNCHANGED <<states, events>>
    BY <2>1, StoreUntouched DEF OneTabInv, tables
  <2>3. PageInOrder(p)' /\ OthersUntouched(p)
    <3>1. CASE Open(p) \/ Leave(p) \/ Refresh(p) \/ Reveal(p)
      BY <3>1, LearnerKeepsOrder
    <3>2. CASE \E r \in Ratings : Rate(p, r)
      BY <1>2, <3>2, RatingKeepsOrder
    <3>3. CASE WordNoLongerActive(p) \/ AnswerRejected(p)
      BY <2>1, <3>3, RejectionKeepsOrder DEF WordNoLongerActive, AnswerRejected
    <3>4. CASE ReadPool(p) \/ SelectWord(p)
      BY <3>4, ReadingKeepsOrder
    <3>5. CASE NothingToSelect(p) \/ ItemLoaded(p) \/ ItemVanished(p)
      BY <3>5, LoadingKeepsOrder
    <3> QED
      BY <1>6, <3>1, <3>2, <3>3, <3>4, <3>5
  <2> QED
    BY <1>2, <1>3, <2>2, <2>3, PracticeFrame DEF OthersUntouched
<1>7. CASE Abandon(p) \/ AnswerLost(p) \/ SelectionFailed(p)
  BY <1>7, NothingFails DEF Abandon, AnswerLost, SelectionFailed
<1> QED
  BY <1>1, <1>4, <1>5, <1>6, <1>7 DEF PracticeNext, PracticeRuns

-------------------------------------------------------------------------------
(***************************************************************************)
(* Memory pages.                                                           *)
(***************************************************************************)
LEMMA MemoryPageIsAlone ==
    ASSUME Patient, TypeInv, OneTabInv, NEW m \in MemoryPages,
           MemoryNext(m) \/ (MayOpen /\ OpenMemory(m))
    PROVE  MemoryAlone(m)
<1>1. CASE MayOpen /\ OpenMemory(m)
  BY <1>1 DEF Patient, MayOpen, NothingOpen, MemoryAlone, PracticeClosed, LibraryIdle
<1>2. CASE MemoryNext(m)
  <2>1. memory[m] # "Closed"
    <3>1. memoryStep[m] # "idle" => memory[m] # "Closed"
      BY DEF OneTabInv, MemoryInOrder
    <3>2. CASE \/ LeaveMemory(m) \/ AbandonMemory(m) \/ RefreshMemory(m) \/ RequestRecalculation(m)
               \/ ApplyRecalculation(m) \/ CancelRecalculation(m)
      BY <3>2 DEF LeaveMemory, AbandonMemory, MemoryInvoked, RefreshMemory, RequestRecalculation,
                  ApplyRecalculation, CancelRecalculation
    <3>3. CASE MemoryCallLost(m) \/ MemoryRuns(m)
      BY <3>1, <3>3
         DEF MemoryCallLost, MemoryRuns, MemoryLoaded, ReadEvents, ReadStates, PreviewShown,
             SendReplacement, SchedulesReplaced, ReplacementRejected
    <3> QED
      BY <1>2, <3>2, <3>3 DEF MemoryNext
  <2> QED
    BY <2>1 DEF OneTabInv, Alone
<1> QED
  BY <1>1, <1>2

OtherMemoriesUntouched(m) ==
    \A n \in MemoryPages \ {m} : memory'[n] = memory[n] /\ memoryStep'[n] = memoryStep[n]

\* Steps between the calls of the page's effects.
LEMMA MemoryTurnsInOrder ==
    ASSUME TypeInv, OneTabInv, NEW m \in MemoryPages,
           \/ OpenMemory(m) \/ LeaveMemory(m) \/ RefreshMemory(m) \/ MemoryLoaded(m)
           \/ RequestRecalculation(m) \/ ApplyRecalculation(m) \/ CancelRecalculation(m)
    PROVE  MemoryInOrder(m)' /\ OtherMemoriesUntouched(m)
<1>1. memory \in [MemoryPages -> MemoryStates] /\ memoryStep \in [MemoryPages -> MemorySteps]
  BY DEF TypeInv, TypeOK, MemoryTypeOK
<1>2. MemoryInOrder(m)
  BY DEF OneTabInv
<1>3. CASE OpenMemory(m) \/ RefreshMemory(m) \/ MemoryLoaded(m) \/ CancelRecalculation(m)
  BY <1>1, <1>2, <1>3 DEF OpenMemory, RefreshMemory, MemoryLoaded, CancelRecalculation,
                          MemoryInOrder, OtherMemoriesUntouched
<1>4. CASE RequestRecalculation(m) \/ ApplyRecalculation(m)
  BY <1>1, <1>4 DEF RequestRecalculation, ApplyRecalculation, MemoryInOrder, OtherMemoriesUntouched
<1>5. CASE LeaveMemory(m)
  BY <1>1, <1>5 DEF LeaveMemory, ForgetMemory, MemoryInOrder, OtherMemoriesUntouched
<1> QED
  BY <1>3, <1>4, <1>5

\* The reads, and the ends of effects that write nothing.
LEMMA MemoryReadsInOrder ==
    ASSUME TypeInv, OneTabInv, NEW m \in MemoryPages,
           ReadEvents(m) \/ ReadStates(m) \/ PreviewShown(m) \/ ReplacementRejected(m)
    PROVE  MemoryInOrder(m)' /\ OtherMemoriesUntouched(m)
<1>1. /\ memory \in [MemoryPages -> MemoryStates] /\ memoryStep \in [MemoryPages -> MemorySteps]
      /\ DOMAIN readStates = MemoryPages
  BY DEF TypeInv, TypeOK, MemoryTypeOK
<1>2. MemoryInOrder(m)
  BY DEF OneTabInv
<1>3. CASE ReadEvents(m) \/ ReadStates(m)
  <2>1. states' = states
    BY <1>3 DEF ReadEvents, ReadStates, storeVars
  <2> QED
    BY <1>1, <1>2, <1>3, <2>1 DEF ReadEvents, ReadStates, MemoryInOrder, OtherMemoriesUntouched
<1>4. CASE PreviewShown(m)
  BY <1>1, <1>4 DEF PreviewShown, EndEffect, MemoryInOrder, OtherMemoriesUntouched
<1>5. CASE ReplacementRejected(m)
  BY <1>1, <1>5
     DEF ReplacementRejected, RecalculationStops, EndEffect, MemoryInOrder, OtherMemoriesUntouched
<1> QED
  BY <1>3, <1>4, <1>5

\* The rows sent are those stored, but for their cards.
LEMMA ReplacementIsCurrent ==
    ASSUME TypeInv, OneTabInv, NEW m \in MemoryPages, SendReplacement(m)
    PROVE  MemoryInOrder(m)' /\ OtherMemoriesUntouched(m)
<1>1. /\ memory \in [MemoryPages -> MemoryStates] /\ memoryStep \in [MemoryPages -> MemorySteps]
      /\ DOMAIN memoryPending = MemoryPages /\ states \in StateRows
  BY DEF TypeInv, TypeOK, MemoryTypeOK, StoreTypeOK
<1>2. readStates[m] = states
  BY DEF OneTabInv, MemoryInOrder, SendReplacement
<1>3. PICK cards \in ReplayedCards(states, readEvents[m]) :
        memoryPending' = [memoryPending EXCEPT ![m] =
            [op |-> "replaceMemoryStates", rows |-> ChangedStates(states, cards)]]
  BY <1>2 DEF SendReplacement
<1>4. /\ memory' = memory /\ memory[m] = "ApplyingRecalculation"
      /\ memoryStep' = [memoryStep EXCEPT ![m] = "write"]
      /\ states' = states /\ words' = words
  BY DEF SendReplacement, storeVars
<1>5. Reschedules(memoryPending[m].rows)'
  <2> DEFINE rows == ChangedStates(states, cards)
  <2>1. memoryPending'[m].rows = rows
    BY <1>1, <1>3
  <2>2. ASSUME NEW w \in WordIds, rows[w] # None
        PROVE  Exists(w) /\ rows[w] = [states[w] EXCEPT !.card = rows[w].card]
    <3>1. w \in Replayed(states) /\ rows[w] = [states[w] EXCEPT !.card = cards[w]]
      BY <2>2 DEF ChangedStates
    <3>2. Exists(w) /\ states[w] \in StateRow
      BY <1>1, <3>1 DEF Replayed, Active, Exists, StateRows
    <3>3. rows[w].card = cards[w]
      BY <3>1, <3>2 DEF StateRow
    <3> QED
      BY <3>1, <3>2, <3>3
  <2> HIDE DEF rows
  <2> QED
    BY <1>4, <2>1, <2>2 DEF Reschedules, Exists
<1> QED
  BY <1>1, <1>4, <1>5 DEF MemoryInOrder, OtherMemoriesUntouched

LEMMA LedgerRowsAreRows == Ledger!StateRow = StateRow
BY DEF StateRow, Ledger!StateRow, Stages, Ledger!Stages, Card, Ledger!Card, Phases, Ledger!Phases

\* Written, they are a rescheduling of the ledger.
LEMMA ReplacementReschedules ==
    ASSUME TypeInv, TypeInv', OneTabInv, NEW m \in MemoryPages, SchedulesReplaced(m)
    PROVE  /\ MemoryInOrder(m)' /\ OtherMemoriesUntouched(m) /\ StoreInOrder'
           /\ Ledger!Reschedule
<1> DEFINE rows == memoryPending[m].rows
<1>1. /\ memory \in [MemoryPages -> MemoryStates] /\ memoryStep \in [MemoryPages -> MemorySteps]
      /\ states \in StateRows /\ states' \in StateRows
  BY DEF TypeInv, TypeOK, MemoryTypeOK, StoreTypeOK
<1>2. memoryPending[m] \in ReplaceRequest /\ Reschedules(rows)
  BY DEF SchedulesReplaced, TypeInv, MemoryControl, OneTabInv, MemoryInOrder
<1>3. ReplaceMemoryStates(rows)
  <2>1. memoryPending[m].op = "replaceMemoryStates"
    BY <1>2 DEF ReplaceRequest
  <2> QED
    BY <2>1 DEF SchedulesReplaced, Commit
<1> HIDE DEF rows
<1>4. /\ states' = Overlay(states, rows)
      /\ UNCHANGED <<words, events, deleted, stray, usedIds, nextEvent>>
  BY <1>3 DEF ReplaceMemoryStates, SchedulesReplaced, channel, supplies
<1>5. \A w \in WordIds :
        \/ states'[w] = states[w]
        \/ /\ Exists(w) /\ states'[w] # None
           /\ states'[w] = [states[w] EXCEPT !.card = states'[w].card]
  BY <1>2, <1>4 DEF Overlay, Reschedules
<1>6. \A w \in WordIds : Exists(w) <=> states[w] # None
  BY DEF OneTabInv, StoreInOrder
<1>7. StoreInOrder'
  <2>1. \A w \in WordIds : Exists(w) <=> states'[w] # None
    BY <1>5, <1>6
  <2> QED
    BY <1>4, <2>1 DEF OneTabInv, StoreInOrder, Exists, Distinct
<1>8. Ledger!Reschedule
  <2>1. states' \in Ledger!Rows
    BY <1>1, LedgerRowsAreRows DEF Ledger!Rows, StateRows
  <2>2. \A w \in WordIds :
          \/ states'[w] = states[w]
          \/ /\ states[w] # None
             /\ states'[w] # None
             /\ states'[w] = [states[w] EXCEPT !.card = states'[w].card]
    BY <1>5, <1>6
  <2> QED
    BY <1>4, <2>1, <2>2 DEF Ledger!Reschedule
<1>9. MemoryInOrder(m)' /\ OtherMemoriesUntouched(m)
  BY <1>1 DEF SchedulesReplaced, EndEffect, MemoryInOrder, OtherMemoriesUntouched
<1> QED
  BY <1>7, <1>8, <1>9

\* A step of a memory page keeps things in order and reschedules or is nothing to the ledger.
LEMMA MemoryStepInOrder ==
    ASSUME Patient, TypeInv, TypeInv', OneTabInv, MemoryStep
    PROVE  OneTabInv' /\ (Ledger!Reschedule \/ UNCHANGED <<states, events>>)
<1>1. PICK m \in MemoryPages : MemoryNext(m) \/ (MayOpen /\ OpenMemory(m))
  BY DEF MemoryStep
<1>2. MemoryAlone(m)
  BY <1>1, MemoryPageIsAlone
<1>3. UNCHANGED pageVars /\ UNCHANGED libraryVars
  BY DEF MemoryStep
<1>4. CASE SchedulesReplaced(m)
  BY <1>2, <1>3, <1>4, ReplacementReschedules, MemoryFrame DEF OtherMemoriesUntouched
<1>5. CASE \/ OpenMemory(m) \/ MemoryLoaded(m) \/ RefreshMemory(m) \/ RequestRecalculation(m)
           \/ ApplyRecalculation(m) \/ CancelRecalculation(m) \/ LeaveMemory(m) \/ ReadEvents(m)
           \/ ReadStates(m) \/ PreviewShown(m) \/ SendReplacement(m) \/ ReplacementRejected(m)
  <2>1. UNCHANGED storeVars
    BY <1>5 DEF OpenMemory, MemoryLoaded, RefreshMemory, RequestRecalculation, ApplyRecalculation,
                CancelRecalculation, LeaveMemory, ReadEvents, ReadStates, PreviewShown,
                SendReplacement, ReplacementRejected
  <2>2. StoreInOrder' /\ UNCHANGED <<states, events>>
    BY <2>1, StoreUntouched DEF OneTabInv, tables
  <2>3. MemoryInOrder(m)' /\ OtherMemoriesUntouched(m)
    BY <1>5, MemoryTurnsInOrder, MemoryReadsInOrder, ReplacementIsCurrent
  <2> QED
    BY <1>2, <1>3, <2>2, <2>3, MemoryFrame DEF OtherMemoriesUntouched
<1>6. CASE AbandonMemory(m) \/ MemoryCallLost(m)
  BY <1>6, NothingFails DEF AbandonMemory, MemoryCallLost
<1> QED
  BY <1>1, <1>4, <1>5, <1>6 DEF MemoryNext, MemoryRuns

-------------------------------------------------------------------------------
(***************************************************************************)
(* Library pages.                                                          *)
(***************************************************************************)
LEMMA LibraryPageIsAlone ==
    ASSUME Patient, TypeInv, OneTabInv, NEW l \in LibraryPages,
           LibraryNext(l) \/ (MayOpen /\ \E j \in Jobs : Start(l, j))
    PROVE  LibraryAlone(l)
<1>1. CASE MayOpen /\ \E j \in Jobs : Start(l, j)
  BY <1>1 DEF Patient, MayOpen, NothingOpen, LibraryAlone, PracticeClosed, MemoryClosed
<1>2. CASE LibraryNext(l)
  <2>1. jobStep[l] # "idle"
    BY <1>2
       DEF LibraryNext, LibraryRuns, AddWords, UpdateWordEntry, ChangeWordArchive, DeleteWordEntry,
           DeleteSelectedWordEntries, ImportExampleEntries, RefuseJob, MutationApplied, Reloaded,
           LibraryCallLost, Listing
  <2> QED
    BY <2>1 DEF OneTabInv, Alone
<1> QED
  BY <1>1, <1>2

OtherJobsUntouched(l) == \A k \in LibraryPages \ {l} : jobStep'[k] = jobStep[k]

LEMMA JobsAreTyped ==
    ASSUME TypeInv, NEW l \in LibraryPages
    PROVE  /\ DOMAIN job = LibraryPages /\ DOMAIN jobStep = LibraryPages
           /\ DOMAIN queue = LibraryPages
           /\ jobStep[l] = "list" => job[l] \in Job
BY DEF TypeInv, TypeOK, LibraryTypeOK, LibraryControl

\* Of a job that deletes everything only its one mutation matters, of another its ids.
LEMMA JobStartsInOrder ==
    ASSUME TypeInv, OneTabInv, NEW l \in LibraryPages, NEW asked \in Jobs, Start(l, asked)
    PROVE  JobInOrder(l)' /\ OtherJobsUntouched(l)
<1>1. PICK j \in Instances(asked) :
        /\ job' = [job EXCEPT ![l] = j]
        /\ IF j.kind = "deleteAllWordEntries"
           THEN /\ jobStep' = [jobStep EXCEPT ![l] = "write"]
                /\ queue' = [queue EXCEPT ![l] = <<[op |-> "deleteWords", ids |-> WordIds]>>]
           ELSE /\ jobStep' = [jobStep EXCEPT ![l] = "list"]
                /\ UNCHANGED queue
  BY DEF Start
<1>2. asked \in Job
  BY JobsAssumption
<1>3. j.kind \in Adding => j.ids \cap usedIds = {}
  BY <1>1, <1>2 DEF Instances, Job
<1>4. usedIds' = usedIds
  BY DEF Start, storeVars
<1>5. CASE j.kind = "deleteAllWordEntries"
  BY <1>1, <1>5, JobsAreTyped DEF JobInOrder, OtherJobsUntouched
<1>6. CASE j.kind # "deleteAllWordEntries"
  BY <1>1, <1>3, <1>4, <1>6, JobsAreTyped DEF JobInOrder, OtherJobsUntouched
<1> QED
  BY <1>5, <1>6

\* One mutation that fits, or several that leave the spellings alone.
LEMMA JobSendsInOrder ==
    ASSUME TypeInv, NEW l \in LibraryPages, NEW requests, Send(l, requests),
           \/ requests = <<>>
           \/ \E q : requests = <<q>> /\ (q.op = "deleteWords" \/ Inserts(q)' \/ Updates(q)')
           \/ \A i \in DOMAIN requests : Retouches(requests[i])'
    PROVE  JobInOrder(l)' /\ OtherJobsUntouched(l)
<1>1. /\ queue'[l] = requests
      /\ jobStep' = [jobStep EXCEPT ![l] = IF requests = <<>> THEN "reload" ELSE "write"]
  BY JobsAreTyped DEF Send
<1>2. CASE requests = <<>>
  BY <1>1, <1>2, JobsAreTyped DEF JobInOrder, OtherJobsUntouched
<1>3. CASE \E q : requests = <<q>> /\ (q.op = "deleteWords" \/ Inserts(q)' \/ Updates(q)')
  <2>1. PICK q : requests = <<q>> /\ (q.op = "deleteWords" \/ Inserts(q)' \/ Updates(q)')
    BY <1>3
  <2>2. Len(queue'[l]) = 1 /\ queue'[l][1] = q
    BY <1>1, <2>1
  <2> QED
    BY <1>1, <2>1, <2>2, JobsAreTyped DEF JobInOrder, OtherJobsUntouched
<1>4. CASE \A i \in DOMAIN requests : Retouches(requests[i])'
  <2>1. \A i \in DOMAIN queue'[l] : Retouches(queue[l][i])'
    BY <1>1, <1>4
  <2> QED
    BY <1>1, <2>1, JobsAreTyped DEF JobInOrder, OtherJobsUntouched
<1> QED
  BY <1>2, <1>3, <1>4

LEMMA JobFinishesInOrder ==
    ASSUME TypeInv, NEW l \in LibraryPages, Finish(l)
    PROVE  JobInOrder(l)' /\ OtherJobsUntouched(l)
BY JobsAreTyped DEF Finish, JobInOrder, OtherJobsUntouched

LEMMA NewWordIsRow ==
    ASSUME TypeInv, NEW t \in Texts, NEW j \in Job
    PROVE  /\ NewWord(t, j.added) \in WordRow /\ NewWord(t, j.added) # None
           /\ NewWord(t, j.added).text = t /\ NewWord(t, j.added).createdAt = clock
<1>1. clock \in Nat /\ j.added \in SUBSET Examples /\ FALSE \in BOOLEAN
  BY BoundsAssumption DEF TypeInv, TypeOK, StoreTypeOK, Job
<1>2. NewWord(t, j.added) \in WordRow
  BY <1>1, Zenon DEF NewWord, WordRow
<1> QED
  BY <1>2, AbsenceAssumption DEF NewWord

\* As many rows as spellings: every spelling gets one row.
LEMMA OneRowEach ==
    ASSUME TypeInv, NEW new, new \subseteq Texts, NEW j \in Job, NEW rows \in NewRows(new, j)
    PROVE  /\ Given(rows) \subseteq j.ids
           /\ \A w \in Given(rows) : \E t \in new : rows[w] = NewWord(t, j.added)
           /\ \A w \in Given(rows) : rows[w].createdAt = clock
           /\ \A v, w \in Given(rows) : v # w => rows[v].text # rows[w].text
<1> DEFINE ws == Given(rows)
           f == [w \in ws |-> rows[w].text]
<1>1. \A t \in new : /\ NewWord(t, j.added) # None /\ NewWord(t, j.added).text = t
                     /\ NewWord(t, j.added).createdAt = clock
  BY NewWordIsRow
<1>2. /\ ws \subseteq j.ids
      /\ rows \in [WordIds -> {NewWord(t, j.added) : t \in new} \cup {None}]
      /\ \A t \in new : \E w \in j.ids : rows[w] = NewWord(t, j.added)
      /\ Cardinality(ws) = Cardinality(new)
  BY DEF NewRows
<1>3. \A w \in ws : \E t \in new : rows[w] = NewWord(t, j.added)
  BY <1>2 DEF Given
<1>4. f \in Surjection(ws, new)
  <2>1. f \in [ws -> new]
    BY <1>1, <1>3
  <2>2. ASSUME NEW t \in new PROVE \E w \in ws : f[w] = t
    <3>1. PICK w \in j.ids : rows[w] = NewWord(t, j.added)
      BY <1>2
    <3>2. w \in ws
      BY <1>1, <3>1 DEF Given, Job
    <3> QED
      BY <1>1, <3>1, <3>2
  <2> QED
    BY <2>1, <2>2 DEF Surjection
<1>5. IsFiniteSet(ws)
  BY FiniteLibrary, FS_Subset DEF Given
<1>6. f \in Injection(ws, new)
  BY <1>2, <1>4, <1>5, FS_SurjSameCardinalityImpliesInj
<1>7. \A v, w \in ws : v # w => rows[v].text # rows[w].text
  BY <1>6 DEF Injection, IsInjective
<1>8. \A w \in ws : rows[w].createdAt = clock
  BY <1>1, <1>3
<1> QED
  BY <1>2, <1>3, <1>7, <1>8

\* New words are spelt like no word there is, and like no other new word.
LEMMA NewWordsFit ==
    ASSUME TypeInv, Distinct(words), NEW j \in Job, NEW ts \in Unrepeated(j.texts),
           NEW rows \in NewRows({t \in ts : ~Known(t)}, j)
    PROVE  Distinct(Overlay(words, rows))
<1> DEFINE new == {t \in ts : ~Known(t)}
           all == Overlay(words, rows)
<1>1. new \subseteq Texts
  BY DEF Unrepeated, Job
<1>2. /\ \A w \in Given(rows) : \E t \in new : rows[w] = NewWord(t, j.added)
      /\ \A v, w \in Given(rows) : v # w => rows[v].text # rows[w].text
  <2>1. rows \in NewRows(new, j)
    OBVIOUS
  <2> HIDE DEF new
  <2> QED
    BY <1>1, <2>1, OneRowEach
<1>3. \A w \in Given(rows) : rows[w].text \in ts /\ ~Known(rows[w].text)
  BY <1>1, <1>2, NewWordIsRow
<1> HIDE DEF new
<1>4. \A w \in WordIds : /\ w \in Given(rows) => all[w] = rows[w]
                         /\ w \notin Given(rows) => all[w] = words[w]
  BY DEF Overlay, Given
<1> HIDE DEF all
<1>5. \A s, t \in ts : s # t => PlainText[s] # PlainText[t]
  BY DEF Unrepeated
<1>6. ASSUME NEW v \in WordIds, NEW w \in WordIds, v # w, all[v] # None, all[w] # None
      PROVE  PlainText[all[v].text] # PlainText[all[w].text]
  <2>1. CASE v \in Given(rows) /\ w \in Given(rows)
    BY <1>2, <1>3, <1>4, <1>5, <1>6, <2>1
  <2>2. CASE v \in Given(rows) /\ w \notin Given(rows)
    BY <1>3, <1>4, <1>6, <2>2 DEF Known, SamePlain, Exists
  <2>3. CASE v \notin Given(rows) /\ w \in Given(rows)
    BY <1>3, <1>4, <1>6, <2>3 DEF Known, SamePlain, Exists
  <2>4. CASE v \notin Given(rows) /\ w \notin Given(rows)
    BY <1>4, <1>6, <2>4 DEF Distinct
  <2> QED
    BY <2>1, <2>2, <2>3, <2>4
<1> QED
  BY <1>6 DEF Distinct, all

\* saveWordEntry, importWordEntries
LEMMA WordsAddedInOrder ==
    ASSUME TypeInv, TypeInv', OneTabInv, NEW l \in LibraryPages, AddWords(l)
    PROVE  JobInOrder(l)' /\ OtherJobsUntouched(l) /\ StoreInOrder'
<1> DEFINE new(ts) == {t \in ts : ~Known(t)}
<1>1. job[l] \in Job /\ job[l].ids \cap usedIds = {}
  BY JobsAreTyped DEF AddWords, Listing, OneTabInv, JobInOrder
<1>2. PICK ts \in Unrepeated(job[l].texts) :
        \E rows \in NewRows(new(ts), job[l]) :
          /\ Send(l, IF new(ts) = {} THEN <<>> ELSE <<[op |-> "insertWords", rows |-> rows]>>)
          /\ usedIds' = usedIds \cup Given(rows)
  BY DEF AddWords
<1>3. PICK rows \in NewRows(new(ts), job[l]) :
        /\ Send(l, IF new(ts) = {} THEN <<>> ELSE <<[op |-> "insertWords", rows |-> rows]>>)
        /\ usedIds' = usedIds \cup Given(rows)
  BY <1>2
<1>4. UNCHANGED tables /\ UNCHANGED channel /\ nextEvent' = nextEvent
  BY DEF AddWords
<1>5. new(ts) \subseteq Texts
  BY <1>1 DEF Unrepeated, Job
<1>6. StoreInOrder'
  <2>1. nextEvent \in Nat /\ nextEvent <= MaxAnswers
    BY DEF TypeInv, TypeOK, StoreTypeOK, OneTabInv, StoreInOrder
  <2> QED
    BY <1>3, <1>4, <2>1, StoreStaysInOrder DEF OneTabInv, channel
<1>7. words' = words /\ deleted' = deleted
  BY <1>4 DEF tables
<1> DEFINE q == [op |-> "insertWords", rows |-> rows]
<1>8. Distinct(Overlay(words, rows))'
  <2>1. Distinct(Overlay(words, rows))
    BY <1>1, NewWordsFit DEF OneTabInv, StoreInOrder
  <2> QED
    BY <1>7, <2>1 DEF Distinct, Overlay
<1>9. \A w \in Given(rows) : ~Exists(w)' /\ w \in usedIds' /\ w \notin deleted'
  <2>1. Given(rows) \subseteq job[l].ids /\ Given(rows) \subseteq WordIds
    BY <1>1, <1>5, OneRowEach DEF Given
  <2> QED
    BY <1>1, <1>3, <1>7, <2>1 DEF OneTabInv, StoreInOrder, Exists
<1>10. \A w \in Given(rows) : rows[w].createdAt = clock
  BY <1>1, <1>5, OneRowEach
<1>11. clock \in 0 .. MaxClock
  BY DEF TypeInv, TypeOK, StoreTypeOK
<1>12. Inserts(q)'
  <2>1. q.op = "insertWords" /\ q.rows = rows /\ Given(rows)' = Given(rows)
    BY DEF Given
  <2> HIDE DEF q
  <2> QED
    BY <1>8, <1>9, <1>10, <1>11, <2>1 DEF Inserts
<1> HIDE DEF new
<1>13. Send(l, <<>>) \/ Send(l, <<q>>)
  BY <1>3
<1> HIDE DEF q
<1> QED
  BY <1>6, <1>12, <1>13, JobSendsInOrder

\* Rows that leave the spellings alone keep them apart.
LEMMA RetouchingFits ==
    ASSUME Distinct(words), NEW rows,
           \A w \in Given(rows) : Exists(w) /\ rows[w].text = words[w].text
    PROVE  Distinct(Overlay(words, rows))
<1>1. \A w \in WordIds : LET all == Overlay(words, rows)
                         IN  all[w] # None => Exists(w) /\ all[w].text = words[w].text
  BY DEF Overlay, Given, Exists
<1> QED
  BY <1>1, Zenon DEF Distinct, Exists

\* A spelling that clashes with no other word's.
LEMMA RenamingFits ==
    ASSUME TypeInv, Distinct(words), NEW j \in Job, NEW t \in Texts, ~Clashes(j, t),
           NEW w \in WordIds, Exists(w), words[w].text = j.from, NEW row \in WordRow, row.text = t
    PROVE  Distinct(Overlay(words, [NoRows EXCEPT ![w] = row]))
<1> DEFINE all == Overlay(words, [NoRows EXCEPT ![w] = row])
<1>1. all[w] = row /\ \A v \in WordIds \ {w} : all[v] = words[v]
  BY AbsenceAssumption DEF Overlay, NoRows
<1> HIDE DEF all
<1>2. ASSUME NEW v \in WordIds, v # w, words[v] # None
      PROVE  PlainText[words[v].text] # PlainText[t]
  <2>1. PlainText[words[v].text] # PlainText[j.from] /\ words[v].text # j.from
    BY <1>2 DEF Distinct, Exists
  <2> QED
    BY <1>2, <2>1 DEF Clashes, SamePlain, Exists
<1>3. ASSUME NEW u \in WordIds, NEW v \in WordIds, u # v, all[u] # None, all[v] # None
      PROVE  PlainText[all[u].text] # PlainText[all[v].text]
  BY <1>1, <1>2, <1>3 DEF Distinct
<1> QED
  BY <1>3 DEF Distinct, all

\* updateWordEntry
LEMMA WordUpdatedInOrder ==
    ASSUME TypeInv, OneTabInv, NEW l \in LibraryPages, UpdateWordEntry(l)
    PROVE  JobInOrder(l)' /\ OtherJobsUntouched(l)
<1>1. PICK w \in WordIds, t \in job[l].texts :
        /\ Exists(w)
        /\ words[w].text = job[l].from
        /\ ~Clashes(job[l], t)
        /\ Send(l, <<[op |-> "updateWords",
                      rows |-> [NoRows EXCEPT ![w] = [words[w] EXCEPT !.text = t]]]>>)
  BY DEF UpdateWordEntry
<1>2. PICK row : row = [words[w] EXCEPT !.text = t]
  OBVIOUS
<1>3. PICK rows : rows = [NoRows EXCEPT ![w] = row]
  OBVIOUS
<1>4. PICK q : q = [op |-> "updateWords", rows |-> rows]
  OBVIOUS
<1>5. Send(l, <<q>>) /\ q.op = "updateWords" /\ q.rows = rows
  BY <1>1, <1>2, <1>3, <1>4
<1>6. job[l] \in Job /\ t \in Texts
  BY JobsAreTyped DEF UpdateWordEntry, Listing, Job
<1>7. row \in WordRow /\ row.text = t /\ row.createdAt = words[w].createdAt
  <2>1. words[w] \in WordRow
    BY <1>1 DEF Exists, TypeInv, TypeOK, StoreTypeOK, WordRows
  <2> QED
    BY <1>2, <1>6, <2>1 DEF WordRow
<1>8. \A v \in Given(rows) : v = w /\ rows[v] = row
  BY <1>3 DEF Given, NoRows
<1>9. Distinct(Overlay(words, rows))
  BY <1>1, <1>3, <1>6, <1>7, RenamingFits DEF OneTabInv, StoreInOrder
<1>10. words' = words
  BY DEF UpdateWordEntry, storeVars
<1>11. Updates(q)'
  <2>1. Overlay(words, rows)' = Overlay(words, rows)
    BY <1>10 DEF Overlay
  <2>2. Distinct(Overlay(words, rows))'
    BY <1>9, <2>1 DEF Distinct
  <2> QED
    BY <1>1, <1>5, <1>7, <1>8, <1>10, <2>2 DEF Updates, Exists, Given
<1> QED
  BY <1>5, <1>11, JobSendsInOrder

\* Rows whose spellings and ages are the stored ones.
LEMMA RowsRetouch ==
    ASSUME NEW q, q.op = "updateWords", words' = words,
           \A w \in Given(q.rows) : /\ Exists(w)
                                    /\ q.rows[w].text = words[w].text
                                    /\ q.rows[w].createdAt = words[w].createdAt
    PROVE  Retouches(q)'
BY DEF Retouches, Given, Exists

\* changeWordArchive
LEMMA ArchiveChangedInOrder ==
    ASSUME TypeInv, OneTabInv, NEW l \in LibraryPages, ChangeWordArchive(l)
    PROVE  JobInOrder(l)' /\ OtherJobsUntouched(l)
<1> DEFINE archived == job[l].kind = "archive"
<1>1. PICK rows :
        rows = [w \in WordIds |-> IF w \in job[l].ids /\ words[w].archived # archived
                                  THEN [words[w] EXCEPT !.archived = archived]
                                  ELSE None]
  OBVIOUS
<1>2. PICK q : q = [op |-> "updateWords", rows |-> rows]
  OBVIOUS
<1>3. Send(l, <<q>>) /\ words' = words /\ q.op = "updateWords" /\ q.rows = rows
  BY <1>1, <1>2 DEF ChangeWordArchive, storeVars
<1>4. \A w \in Given(rows) :
        Exists(w) /\ rows[w].text = words[w].text /\ rows[w].createdAt = words[w].createdAt
  <2>1. \A w \in WordIds : Exists(w) => words[w] \in WordRow
    BY DEF Exists, TypeInv, TypeOK, StoreTypeOK, WordRows
  <2>2. \A w \in Given(rows) :
          w \in WordIds /\ w \in job[l].ids /\ rows[w] = [words[w] EXCEPT !.archived = archived]
    BY <1>1 DEF Given
  <2>3. \A w \in job[l].ids : Exists(w)
    BY DEF ChangeWordArchive
  <2> QED
    BY <2>1, <2>2, <2>3 DEF WordRow
<1>5. Retouches(q)'
  BY <1>3, <1>4, RowsRetouch
<1>6. \A i \in DOMAIN <<q>> : Retouches(<<q>>[i])'
  <2>1. \A i \in DOMAIN <<q>> : <<q>>[i] = q
    OBVIOUS
  <2> QED
    BY <1>5, <2>1
<1> QED
  BY <1>3, <1>6, JobSendsInOrder

\* deleteWordEntry, deleteSelectedWordEntries
LEMMA DeletionInOrder ==
    ASSUME TypeInv, NEW l \in LibraryPages, DeleteWordEntry(l) \/ DeleteSelectedWordEntries(l)
    PROVE  JobInOrder(l)' /\ OtherJobsUntouched(l)
<1>1. PICK ids : Send(l, <<[op |-> "deleteWords", ids |-> ids]>>)
  BY DEF DeleteWordEntry, DeleteSelectedWordEntries
<1>2. PICK q : q = [op |-> "deleteWords", ids |-> ids]
  OBVIOUS
<1>3. Send(l, <<q>>) /\ q.op = "deleteWords"
  BY <1>1, <1>2
<1> QED
  BY <1>3, JobSendsInOrder

\* importExampleEntries
LEMMA ExamplesImportedInOrder ==
    ASSUME TypeInv, OneTabInv, NEW l \in LibraryPages, ImportExampleEntries(l)
    PROVE  JobInOrder(l)' /\ OtherJobsUntouched(l)
<1> DEFINE Targets(found) == {w \in WordIds : Lacking(w, job[l].added)
                                               /\ \E plain \in DOMAIN found : found[plain] = w}
<1>1. PICK found \in Lookups(job[l].texts) :
        \E order \in SetToSeqs(Targets(found)) :
            Send(l, [i \in DOMAIN order |-> EnrichRequest(order[i], job[l].added)])
  BY DEF ImportExampleEntries
<1>2. PICK order \in [1 .. Cardinality(Targets(found)) -> Targets(found)] :
        Send(l, [i \in DOMAIN order |-> EnrichRequest(order[i], job[l].added)])
  BY <1>1 DEF SetToSeqs
<1>3. PICK requests : requests = [i \in DOMAIN order |-> EnrichRequest(order[i], job[l].added)]
  OBVIOUS
<1>4. words' = words
  BY DEF ImportExampleEntries, storeVars
<1>5. \A i \in DOMAIN order : Lacking(order[i], job[l].added) /\ order[i] \in WordIds
  BY <1>2
<1>6. ASSUME NEW w \in WordIds, Lacking(w, job[l].added),
             NEW q, q = EnrichRequest(w, job[l].added)
      PROVE  Retouches(q)'
  <2>1. PICK row : row = [words[w] EXCEPT !.examples = @ \cup job[l].added]
    OBVIOUS
  <2>2. Exists(w) /\ words[w] \in WordRow
    BY <1>6 DEF Lacking, Active, Exists, TypeInv, TypeOK, StoreTypeOK, WordRows
  <2>3. row.text = words[w].text /\ row.createdAt = words[w].createdAt
    BY <2>1, <2>2 DEF WordRow
  <2>4. q.op = "updateWords" /\ q.rows = [NoRows EXCEPT ![w] = row]
    BY <1>6, <2>1 DEF EnrichRequest
  <2>5. \A v \in Given(q.rows) : v = w /\ q.rows[v] = row
    BY <2>4 DEF Given, NoRows
  <2> QED
    BY <1>4, <2>2, <2>3, <2>4, <2>5, RowsRetouch
<1>7. \A i \in DOMAIN requests : Retouches(requests[i])'
  BY <1>3, <1>5, <1>6
<1> QED
  BY <1>2, <1>3, <1>7, JobSendsInOrder

\* The words added are registered with the ledger.
LEMMA InsertingKeepsOrder ==
    ASSUME TypeInv, OneTabInv, NEW q, Inserts(q), Commit(q), UNCHANGED channel, UNCHANGED supplies
    PROVE  /\ StoreInOrder'
           /\ \E ws \in SUBSET WordIds, now \in 0 .. MaxClock : Ledger!Register(ws, now)
<1> DEFINE ws == Given(q.rows)
<1>1. InsertWords(q.rows)
  BY DEF Commit, Inserts
<1>2. /\ words' = Overlay(words, q.rows)
      /\ states' = [w \in WordIds |-> IF w \in ws THEN FreshRow(q.rows[w].createdAt) ELSE states[w]]
      /\ UNCHANGED <<events, deleted, stray, usedIds, nextEvent>>
  BY <1>1 DEF InsertWords, channel, supplies, Given
<1>3. PICK now \in 0 .. MaxClock : \A w \in ws : q.rows[w].createdAt = now
  BY DEF Inserts
<1>4. /\ ws \subseteq WordIds
      /\ \A w \in ws : ~Exists(w) /\ w \in usedIds /\ w \notin deleted
  BY DEF Inserts, Given
<1>5. \A w \in WordIds : /\ w \in ws => words'[w] = q.rows[w] /\ words'[w] # None
                         /\ w \notin ws => words'[w] = words[w]
  BY <1>2 DEF Overlay, Given
<1>6. FreshRow(now) = Ledger!FreshRow(now)
  BY DEF FreshRow, Ledger!FreshRow, InitialCard, Ledger!InitialCard
<1>7. now \in Nat /\ FreshRow(now) # None
  BY BoundsAssumption, FreshRowCorrect, AbsenceAssumption
<1>8. Distinct(words')
  BY <1>2 DEF Inserts
<1> HIDE DEF ws
<1>9. states' = [w \in WordIds |-> IF w \in ws THEN FreshRow(now) ELSE states[w]]
  BY <1>2, <1>3
<1>10. Ledger!Register(ws, now)
  <2>1. \A w \in ws : states[w] = None
    BY <1>4 DEF OneTabInv, StoreInOrder
  <2>2. \A e \in events : e.word \notin ws
    BY <1>4 DEF OneTabInv, StoreInOrder
  <2> QED
    BY <1>2, <1>6, <1>9, <2>1, <2>2 DEF Ledger!Register
<1>11. StoreInOrder'
  <2>1. \A w \in WordIds : Exists(w)' <=> states'[w] # None
    BY <1>5, <1>7, <1>9 DEF OneTabInv, StoreInOrder, Exists
  <2>2. \A w \in WordIds : Exists(w)' => w \in usedIds' /\ w \notin deleted'
    BY <1>2, <1>4, <1>5 DEF OneTabInv, StoreInOrder, Exists
  <2>3. \A e \in events' : Exists(e.word)'
    <3>1. \A e \in events : e.word \in WordIds /\ Exists(e.word)
      BY DEF OneTabInv, StoreInOrder, TypeInv, TypeOK, StoreTypeOK, PracticeEvent
    <3> QED
      BY <1>2, <1>4, <1>5, <3>1 DEF Exists
  <2> QED
    BY <1>2, <1>8, <2>1, <2>2, <2>3 DEF OneTabInv, StoreInOrder, Distinct
<1> QED
  BY <1>4, <1>10, <1>11

\* An update that fits touches words that are there, and nothing of the ledger.
LEMMA UpdatingKeepsOrder ==
    ASSUME TypeInv, OneTabInv, NEW q, Updates(q), Commit(q), UNCHANGED channel, UNCHANGED supplies
    PROVE  /\ StoreInOrder' /\ UNCHANGED <<states, events>>
           /\ \A w \in WordIds : Exists(w)' <=> Exists(w)
           /\ \A w \in WordIds : Exists(w) => words'[w].createdAt = words[w].createdAt
<1>1. UpdateWords(q.rows)
  BY DEF Commit, Updates
<1>2. /\ words' = Overlay(words, q.rows)
      /\ UNCHANGED <<states, events, deleted, stray, usedIds, nextEvent>>
  BY <1>1 DEF UpdateWords, channel, supplies
<1>3. \A w \in WordIds : Exists(w)' <=> Exists(w)
  BY <1>2 DEF Updates, Overlay, Given, Exists
<1>4. Distinct(words') /\ \A w \in WordIds : Exists(w) => words'[w].createdAt = words[w].createdAt
  BY <1>2 DEF Updates, Overlay, Given
<1>5. \A e \in events : e.word \in WordIds
  BY DEF TypeInv, TypeOK, StoreTypeOK, PracticeEvent
<1>6. StoreInOrder'
  BY <1>2, <1>3, <1>4, <1>5 DEF OneTabInv, StoreInOrder, Distinct
<1> QED
  BY <1>2, <1>3, <1>4, <1>6

\* What is deleted is erased from the ledger.
LEMMA DeletingKeepsOrder ==
    ASSUME TypeInv, OneTabInv, NEW q \in Request, q.op = "deleteWords", Commit(q),
           UNCHANGED channel, UNCHANGED supplies
    PROVE  StoreInOrder' /\ \E ws \in SUBSET WordIds : Ledger!Erase(ws)
<1> DEFINE ws == q.ids
<1>1. ws \subseteq WordIds
  BY DEF Request, SaveRequest, ReplaceRequest, InsertRequest, UpdateRequest, DeleteRequest
<1>2. DeleteWords(ws)
  BY DEF Commit
<1> HIDE DEF ws
<1>3. /\ words' = [w \in WordIds |-> IF w \in ws THEN None ELSE words[w]]
      /\ states' = [w \in WordIds |-> IF w \in ws THEN None ELSE states[w]]
      /\ events' = {e \in events : e.word \notin ws}
      /\ deleted' = deleted \cup {w \in ws : Exists(w)}
      /\ UNCHANGED <<stray, usedIds, nextEvent>>
  BY <1>2 DEF DeleteWords, channel, supplies
<1>4. Ledger!Erase(ws)
  BY <1>3 DEF Ledger!Erase
<1>5. \A w \in WordIds : /\ w \in ws => ~Exists(w)' /\ states'[w] = None
                         /\ w \notin ws => words'[w] = words[w] /\ states'[w] = states[w]
  BY <1>3 DEF Exists
<1>6. Distinct(words')
  BY <1>5 DEF OneTabInv, StoreInOrder, Distinct, Exists
<1>7. \A w \in WordIds : Exists(w)' => w \in usedIds' /\ w \notin deleted'
  BY <1>3, <1>5 DEF OneTabInv, StoreInOrder, Exists
<1>8. deleted' \subseteq usedIds'
  BY <1>1, <1>3 DEF OneTabInv, StoreInOrder
<1>9. \A e \in events' : Exists(e.word)' /\ e.id < nextEvent'
  <2>1. \A e \in events : e.word \in WordIds
    BY DEF TypeInv, TypeOK, StoreTypeOK, PracticeEvent
  <2> QED
    BY <1>3, <1>5, <2>1 DEF OneTabInv, StoreInOrder, Exists
<1>10. \A w \in WordIds : Exists(w)' <=> states'[w] # None
  BY <1>5 DEF OneTabInv, StoreInOrder, Exists
<1>11. StoreInOrder'
  BY <1>3, <1>6, <1>7, <1>8, <1>9, <1>10 DEF OneTabInv, StoreInOrder, Distinct
<1> QED
  BY <1>1, <1>4, <1>11

(***************************************************************************)
(* A mutation of the queue runs.  Of several, what follows still leaves    *)
(* the spellings alone.                                                    *)
(***************************************************************************)
EditsTheLibrary ==
    \/ \E ws \in SUBSET WordIds, now \in 0 .. MaxClock : Ledger!Register(ws, now)
    \/ \E ws \in SUBSET WordIds : Ledger!Erase(ws)
    \/ UNCHANGED <<states, events>>

LEMMA MutationInOrder ==
    ASSUME TypeInv, OneTabInv, NEW l \in LibraryPages, MutationApplied(l)
    PROVE  StoreInOrder' /\ EditsTheLibrary /\ JobInOrder(l)' /\ OtherJobsUntouched(l)
<1>1. PICK q : q = Head(queue[l])
  OBVIOUS
<1>2. PICK rest : rest = Tail(queue[l])
  OBVIOUS
<1>3. /\ jobStep[l] = "write" /\ Commit(q) /\ UNCHANGED channel /\ UNCHANGED supplies
      /\ queue' = [queue EXCEPT ![l] = rest]
      /\ jobStep' = [jobStep EXCEPT ![l] = IF rest = <<>> THEN "reload" ELSE "write"]
  BY <1>1, <1>2 DEF MutationApplied
<1>4. queue[l] \in Seq(LibraryRequest) /\ queue[l] # <<>> /\ JobInOrder(l)
  BY <1>3 DEF TypeInv, TypeOK, LibraryTypeOK, LibraryControl, LibraryRequest, OneTabInv
<1>5. /\ q = queue[l][1] /\ q \in Request /\ 1 \in DOMAIN queue[l]
      /\ rest \in Seq(LibraryRequest) /\ Len(rest) = Len(queue[l]) - 1
      /\ \A i \in DOMAIN rest : i + 1 \in DOMAIN queue[l] /\ rest[i] = queue[l][i + 1]
  <2>1. q \in Request
    BY <1>1, <1>3, QueuedRequests DEF TypeInv, TypeOK, LibraryTyped
  <2>2. q = queue[l][1] /\ 1 \in DOMAIN queue[l]
    BY <1>1, <1>4
  <2>3. /\ rest \in Seq(LibraryRequest) /\ Len(rest) = Len(queue[l]) - 1
        /\ \A i \in 1 .. Len(rest) : rest[i] = queue[l][i + 1]
    BY <1>2, <1>4, HeadTailProperties
  <2>4. DOMAIN rest = 1 .. Len(rest) /\ DOMAIN queue[l] = 1 .. Len(queue[l]) /\ Len(queue[l]) \in Nat
    BY <1>4, <2>3
  <2>5. \A i \in DOMAIN rest : i + 1 \in DOMAIN queue[l]
    BY <2>3, <2>4
  <2> QED
    BY <2>1, <2>2, <2>3, <2>4, <2>5
<1>6. CASE Len(queue[l]) = 1 /\ (q.op = "deleteWords" \/ Inserts(q) \/ Updates(q))
  <2>1. rest = <<>>
    BY <1>5, <1>6
  <2>2. JobInOrder(l)' /\ OtherJobsUntouched(l)
    BY <1>3, <2>1, JobsAreTyped DEF JobInOrder, OtherJobsUntouched
  <2>3. StoreInOrder' /\ EditsTheLibrary
    BY <1>3, <1>5, <1>6, InsertingKeepsOrder, UpdatingKeepsOrder, DeletingKeepsOrder
       DEF EditsTheLibrary
  <2> QED
    BY <2>2, <2>3
<1>7. CASE \A i \in DOMAIN queue[l] : Retouches(queue[l][i])
  <2>1. Retouches(q)
    BY <1>5, <1>7
  <2>2. Updates(q)
    BY <2>1, RetouchingFits DEF Retouches, Updates, OneTabInv, StoreInOrder
  <2>3. /\ StoreInOrder' /\ UNCHANGED <<states, events>>
        /\ \A w \in WordIds : Exists(w)' <=> Exists(w)
        /\ \A w \in WordIds : Exists(w) => words'[w].createdAt = words[w].createdAt
    BY <1>3, <2>2, UpdatingKeepsOrder
  <2>4. words' = Overlay(words, q.rows)
    BY <1>3, <2>2 DEF Commit, Updates, UpdateWords
  <2>5. \A w \in WordIds : Exists(w) => words'[w].text = words[w].text
    BY <2>1, <2>4 DEF Retouches, Overlay, Given
  <2>6. \A i \in DOMAIN rest : Retouches(rest[i])'
    <3>1. ASSUME NEW i \in DOMAIN rest PROVE Retouches(rest[i])'
      <4>1. Retouches(rest[i])
        BY <1>5, <1>7
      <4> QED
        BY <2>3, <2>5, <4>1 DEF Retouches, Given
    <3> QED
      BY <3>1
  <2>7. JobInOrder(l)' /\ OtherJobsUntouched(l)
    <3>1. queue'[l] = rest
      BY <1>3, JobsAreTyped
    <3>2. \A i \in DOMAIN queue'[l] : Retouches(queue[l][i])'
      BY <2>6, <3>1
    <3> QED
      BY <1>3, <3>2, JobsAreTyped DEF JobInOrder, OtherJobsUntouched
  <2> QED
    BY <2>3, <2>7 DEF EditsTheLibrary
<1> QED
  BY <1>3, <1>4, <1>5, <1>6, <1>7 DEF JobInOrder

\* A step of a library page keeps things in order and registers, erases or is nothing to the ledger.
LEMMA LibraryStepInOrder ==
    ASSUME Patient, TypeInv, TypeInv', OneTabInv, LibraryStep
    PROVE  OneTabInv' /\ EditsTheLibrary
<1>1. PICK l \in LibraryPages : LibraryNext(l) \/ (MayOpen /\ \E j \in Jobs : Start(l, j))
  BY DEF LibraryStep
<1>2. LibraryAlone(l)
  BY <1>1, LibraryPageIsAlone
<1>3. UNCHANGED pageVars /\ UNCHANGED memoryVars
  BY DEF LibraryStep
<1>4. CASE MutationApplied(l)
  BY <1>2, <1>3, <1>4, MutationInOrder, LibraryFrame DEF OtherJobsUntouched
<1>5. CASE AddWords(l)
  <2>1. UNCHANGED <<states, events>>
    BY <1>5 DEF AddWords, tables
  <2> QED
    BY <1>2, <1>3, <1>5, <2>1, WordsAddedInOrder, LibraryFrame DEF OtherJobsUntouched, EditsTheLibrary
<1>6. CASE \/ \E j \in Jobs : Start(l, j)
           \/ UpdateWordEntry(l) \/ ChangeWordArchive(l) \/ DeleteWordEntry(l)
           \/ DeleteSelectedWordEntries(l) \/ ImportExampleEntries(l) \/ RefuseJob(l) \/ Reloaded(l)
  <2>1. UNCHANGED storeVars
    BY <1>6 DEF Start, UpdateWordEntry, ChangeWordArchive, DeleteWordEntry,
                DeleteSelectedWordEntries, ImportExampleEntries, RefuseJob, Reloaded
  <2>2. StoreInOrder' /\ EditsTheLibrary
    BY <2>1, StoreUntouched DEF OneTabInv, tables, EditsTheLibrary
  <2>3. JobInOrder(l)' /\ OtherJobsUntouched(l)
    <3>1. CASE \E j \in Jobs : Start(l, j)
      BY <3>1, JobStartsInOrder
    <3>2. CASE UpdateWordEntry(l) \/ ChangeWordArchive(l)
      BY <3>2, WordUpdatedInOrder, ArchiveChangedInOrder
    <3>3. CASE DeleteWordEntry(l) \/ DeleteSelectedWordEntries(l)
      BY <3>3, DeletionInOrder
    <3>4. CASE ImportExampleEntries(l)
      BY <3>4, ExamplesImportedInOrder
    <3>5. CASE RefuseJob(l) \/ Reloaded(l)
      BY <3>5, JobFinishesInOrder DEF RefuseJob, Reloaded
    <3> QED
      BY <1>6, <3>1, <3>2, <3>3, <3>4, <3>5
  <2> QED
    BY <1>2, <1>3, <2>2, <2>3, LibraryFrame DEF OtherJobsUntouched
<1>7. CASE LibraryCallLost(l)
  BY <1>7, NothingFails DEF LibraryCallLost
<1> QED
  BY <1>1, <1>4, <1>5, <1>6, <1>7 DEF LibraryNext, LibraryRuns

-------------------------------------------------------------------------------
\* Time passes; no mutation is late.
LEMMA EnvironmentInOrder ==
    ASSUME TypeInv, TypeInv', OneTabInv,
           EnvironmentStep \/ UNCHANGED vars
    PROVE  OneTabInv' /\ UNCHANGED <<states, events>>
<1>1. /\ UNCHANGED pageVars /\ UNCHANGED memoryVars /\ UNCHANGED libraryVars
      /\ Tick \/ UNCHANGED storeVars
  BY DEF EnvironmentStep, LateCommit, OneTabInv, StoreInOrder, vars
<1>2. /\ UNCHANGED tables /\ stray' = stray /\ usedIds' = usedIds /\ nextEvent' = nextEvent
  BY <1>1 DEF Tick, channel, storeVars, tables
<1>3. words' = words /\ states' = states /\ events' = events /\ deleted' = deleted
  BY <1>2 DEF tables
<1>4. StoreInOrder'
  <2>1. nextEvent \in Nat /\ nextEvent <= MaxAnswers
    BY DEF TypeInv, TypeOK, StoreTypeOK, OneTabInv, StoreInOrder
  <2> QED
    BY <1>2, <2>1, StoreStaysInOrder DEF OneTabInv
<1>5. Alone'
  BY <1>1 DEF OneTabInv, Alone, PracticeAlone, MemoryAlone, LibraryAlone, PracticeClosed, MemoryClosed,
              LibraryIdle, pageVars, memoryVars, libraryVars
<1>6. \A p \in PracticePages : PageInOrder(p)'
  <2>1. \A item : Current(item)' <=> Current(item)
    BY <1>3 DEF Current, Exists
  <2>2. \A request, item : AnswersCurrent(request, item)' <=> AnswersCurrent(request, item)
    BY <1>2 DEF AnswersCurrent
  <2>3. UNCHANGED <<machine, step, currentItem, pending, poolRows, candidate>>
    BY <1>1 DEF pageVars
  <2> QED
    BY <1>2, <1>3, <2>1, <2>2, <2>3 DEF OneTabInv, PageInOrder
<1>7. \A m \in MemoryPages : MemoryInOrder(m)'
  BY <1>1, <1>3 DEF OneTabInv, MemoryInOrder, Reschedules, Exists, memoryVars
<1>8. \A l \in LibraryPages : JobInOrder(l)'
  <2>1. \A q : /\ Inserts(q)' <=> Inserts(q)
               /\ Updates(q)' <=> Updates(q)
               /\ Retouches(q)' <=> Retouches(q)
    BY <1>2, <1>3 DEF Inserts, Updates, Retouches, Distinct, Overlay, Exists, Given
  <2>2. UNCHANGED <<job, jobStep, queue>>
    BY <1>1 DEF libraryVars
  <2> QED
    BY <1>2, <2>1, <2>2 DEF OneTabInv, JobInOrder
<1> QED
  BY <1>3, <1>4, <1>5, <1>6, <1>7, <1>8 DEF OneTabInv

LEMMA InitInOrder == Init => OneTabInv
<1> SUFFICES ASSUME Init PROVE OneTabInv
  OBVIOUS
<1>1. StoreInOrder
  <2>1. FreshRow(0) # None
    BY FreshRowCorrect, AbsenceAssumption
  <2>2. Distinct(words)
    BY DEF Init, StoreInit, Distinct, Exists
  <2> QED
    BY <2>1, <2>2, AnswersAssumption DEF Init, StoreInit, StoreInOrder, Exists
<1>2. Alone
  BY DEF Init, PracticeInit, MemoryInit, LibraryInit, Alone
<1>3. \A p \in PracticePages : PageInOrder(p)
  BY DEF Init, PracticeInit, PageInOrder
<1>4. \A m \in MemoryPages : MemoryInOrder(m)
  BY DEF Init, MemoryInit, MemoryInOrder
<1>5. \A l \in LibraryPages : JobInOrder(l)
  BY DEF Init, LibraryInit, JobInOrder
<1> QED
  BY <1>1, <1>2, <1>3, <1>4, <1>5 DEF OneTabInv

-------------------------------------------------------------------------------
LEMMA StepInOrder ==
    ASSUME Patient
    PROVE  TypeInv /\ OneTabInv /\ [Next]_vars => OneTabInv' /\ [Ledger!LedgerNext]_(Ledger!ledgerVars)
<1> SUFFICES ASSUME TypeInv, OneTabInv, [Next]_vars
             PROVE  OneTabInv' /\ [Ledger!LedgerNext]_(Ledger!ledgerVars)
  OBVIOUS
<1>1. TypeInv'
  BY StepTyped
<1>2. CASE PracticeStep
  <2>1. OneTabInv' /\ (SavesAnAnswer \/ UNCHANGED <<states, events>>)
    BY <1>1, <1>2, PracticeStepInOrder
  <2>2. "scheduled" \in Kinds
    BY DEF Kinds
  <2> QED
    BY <2>1, <2>2 DEF SavesAnAnswer, Ledger!LedgerNext, Ledger!ledgerVars, Kinds, Ledger!Kinds, Ratings, Ledger!Ratings
<1>3. CASE MemoryStep
  BY <1>1, <1>3, MemoryStepInOrder DEF Ledger!LedgerNext, Ledger!ledgerVars
<1>4. CASE LibraryStep
  BY <1>1, <1>4, LibraryStepInOrder DEF EditsTheLibrary, Ledger!LedgerNext, Ledger!ledgerVars
<1>5. CASE EnvironmentStep \/ UNCHANGED vars
  BY <1>1, <1>5, EnvironmentInOrder DEF Ledger!ledgerVars
<1> QED
  BY <1>2, <1>3, <1>4, <1>5 DEF Next

\* Between any two calls of one tab, whatever a page has read and is about to write
\* (currentItem, the memory page's states, the listing of a library operation) is
\* what d1-store.ts holds.
THEOREM OneTabInvariant ==
    ASSUME Patient
    PROVE  Spec => []OneTabInv
<1>1. Init => OneTabInv
  BY InitInOrder
<1>2. TypeInv /\ OneTabInv /\ [Next]_vars => OneTabInv'
  BY StepInOrder
<1> QED
  BY <1>1, <1>2, TypeInvariant, PTL DEF Spec

\* No two words of the library read the same: saveImported, the rename and the
\* manual import of library-machine.ts ask for the words, decide which spellings are
\* new, and insert in calls of their own.
THEOREM SpellingsAlwaysDiffer ==
    ASSUME Patient
    PROVE  Spec => []SpellingsDiffer
<1>1. OneTabInv => SpellingsDiffer
  BY DEF OneTabInv, StoreInOrder, Distinct, SpellingsDiffer, Exists
<1> QED
  BY <1>1, OneTabInvariant, PTL

\* What deleteWords removed stays removed: updateWord and updateWords are upserts,
\* but of words listed after the last deletion.
THEOREM DeletedStaysDeleted ==
    ASSUME Patient
    PROVE  Spec => []DeletedForGood
<1>1. TypeInv /\ OneTabInv => DeletedForGood
  BY DEF TypeInv, TypeOK, StoreTypeOK, OneTabInv, StoreInOrder, DeletedForGood, Exists
<1> QED
  BY <1>1, TypeInvariant, OneTabInvariant, PTL

\* Every word has a memory row and can be scheduled: insertWords stores both,
\* and no update inserts a word alone.
THEOREM EveryWordAlwaysHasMemory ==
    ASSUME Patient
    PROVE  Spec => []EveryWordHasMemory
<1>1. OneTabInv => EveryWordHasMemory
  BY DEF OneTabInv, StoreInOrder, EveryWordHasMemory
<1> QED
  BY <1>1, OneTabInvariant, PTL

\* The application implements the ledger: check and save of submitPracticeAnswer,
\* calls apart, are one answer taken from the stored row, recalculations change
\* cards only, and all other steps leave rows and log alone or add or delete words.
THEOREM LedgerImplemented ==
    ASSUME Patient
    PROVE  Spec => LedgerSpec
<1>1. Init => Ledger!LedgerInit
  BY DEF Init, StoreInit, Ledger!LedgerInit, FreshRow, Ledger!FreshRow, InitialCard, Ledger!InitialCard
<1>2. TypeInv /\ OneTabInv /\ [Next]_vars => [Ledger!LedgerNext]_(Ledger!ledgerVars)
  BY StepInOrder
<1> QED
  BY <1>1, <1>2, TypeInvariant, OneTabInvariant, PTL DEF Spec, LedgerSpec, Ledger!LedgerSpec

(***************************************************************************)
(* What is proved of the ledger, of the tables.                            *)
(***************************************************************************)
LedgerProofs == INSTANCE PracticeLedger_proofs WITH
    rows <- states, log <- events,
    EventIds <- 0 .. (MaxAnswers - 1), Times <- 0 .. MaxClock

\* The scheduler, the ladder and the rows are the same ones there.
LEMMA SameAnswers ==
    ASSUME NEW id, NEW w, NEW row, NEW card, NEW kind, NEW now, NEW r
    PROVE  /\ LedgerProofs!PracticeResults(card, kind, now, r) = PracticeResults(card, kind, now, r)
           /\ LedgerProofs!AnsweredRow(row, card, kind, now, r) = AnsweredRow(row, card, kind, now, r)
           /\ LedgerProofs!AnswerEvent(id, w, row, card, kind, now, r)
                = AnswerEvent(id, w, row, card, kind, now, r)
<1>1. \A delay : LedgerProofs!Next_(card, now, r, delay) = Next_(card, now, r, delay)
  BY DEF Next_, LedgerProofs!Next_, Graduates, LedgerProofs!Graduates,
         LearningSteps, LedgerProofs!LearningSteps, ShortTermPhase, LedgerProofs!ShortTermPhase,
         ShortTermStep, LedgerProofs!ShortTermStep
<1>2. LedgerProofs!PracticeResults(card, kind, now, r) = PracticeResults(card, kind, now, r)
  BY <1>1 DEF PracticeResults, LedgerProofs!PracticeResults, KeepsSchedule, LedgerProofs!KeepsSchedule
<1>3. LedgerProofs!MasteryAfter(row, kind, r) = MasteryAfter(row, kind, r)
  BY DEF MasteryAfter, LedgerProofs!MasteryAfter,
         RequiredMasteryReviews, LedgerProofs!RequiredMasteryReviews
<1>4. LedgerProofs!FailuresAfter(row, kind, r) = FailuresAfter(row, kind, r)
  BY DEF FailuresAfter, LedgerProofs!FailuresAfter
<1>5. /\ LedgerProofs!Mastered(row, kind, r) <=> Mastered(row, kind, r)
      /\ LedgerProofs!LostInContext(row, kind, r) <=> LostInContext(row, kind, r)
  BY <1>3, <1>4
     DEF Mastered, LedgerProofs!Mastered, LostInContext, LedgerProofs!LostInContext,
         RequiredMasteryReviews, LedgerProofs!RequiredMasteryReviews,
         RequiredContextFailures, LedgerProofs!RequiredContextFailures
<1>6. LedgerProofs!MovedTo(row, kind, r) = MovedTo(row, kind, r)
  BY <1>5 DEF MovedTo, LedgerProofs!MovedTo
<1>7. LedgerProofs!TransitionAfterRating(row, card, kind, now, r)
        = TransitionAfterRating(row, card, kind, now, r)
  BY <1>3, <1>4, <1>6
     DEF TransitionAfterRating, LedgerProofs!TransitionAfterRating, InitialCard, LedgerProofs!InitialCard
<1>8. LedgerProofs!Tally(row, r) = Tally(row, r)
  BY DEF Tally, LedgerProofs!Tally, IsCorrect, LedgerProofs!IsCorrect
<1>9. LedgerProofs!AnsweredRow(row, card, kind, now, r) = AnsweredRow(row, card, kind, now, r)
  BY <1>7, <1>8 DEF AnsweredRow, LedgerProofs!AnsweredRow
<1> QED
  BY <1>2, <1>6, <1>9 DEF AnswerEvent, LedgerProofs!AnswerEvent

LEMMA SameLedger ==
    /\ Ledger!LedgerInit => LedgerProofs!LedgerInit
    /\ [Ledger!LedgerNext]_(Ledger!ledgerVars) => [LedgerProofs!LedgerNext]_(LedgerProofs!ledgerVars)
<1>1. \A now : Ledger!FreshRow(now) = LedgerProofs!FreshRow(now)
  BY DEF Ledger!FreshRow, LedgerProofs!FreshRow, Ledger!InitialCard, LedgerProofs!InitialCard
<1>2. Ledger!LedgerInit => LedgerProofs!LedgerInit
  BY <1>1 DEF Ledger!LedgerInit, LedgerProofs!LedgerInit
<1>3. ASSUME NEW ws, Ledger!Erase(ws) PROVE LedgerProofs!Erase(ws)
  BY <1>3 DEF Ledger!Erase, LedgerProofs!Erase
<1>4. ASSUME NEW ws, NEW now, Ledger!Register(ws, now) PROVE LedgerProofs!Register(ws, now)
  BY <1>1, <1>4 DEF Ledger!Register, LedgerProofs!Register
<1>5. ASSUME NEW id, NEW w, NEW kind, NEW now, NEW r, Ledger!Answer(id, w, kind, now, r)
      PROVE  LedgerProofs!Answer(id, w, kind, now, r)
  <2>1. PICK card \in Ledger!PracticeResults(states[w].card, kind, now, r) :
          /\ events' = events \cup {Ledger!AnswerEvent(id, w, states[w], card, kind, now, r)}
          /\ states' = [states EXCEPT ![w] = Ledger!AnsweredRow(states[w], card, kind, now, r)]
    BY <1>5 DEF Ledger!Answer
  <2>2. card \in LedgerProofs!PracticeResults(states[w].card, kind, now, r)
    BY SameAnswers, LedgerSchedules
  <2>3. /\ LedgerProofs!AnswerEvent(id, w, states[w], card, kind, now, r)
             = Ledger!AnswerEvent(id, w, states[w], card, kind, now, r)
        /\ LedgerProofs!AnsweredRow(states[w], card, kind, now, r)
             = Ledger!AnsweredRow(states[w], card, kind, now, r)
    BY SameAnswers, LedgerAnswers
  <2>4. states[w] # None /\ \A e \in events : e.id < id
    BY <1>5 DEF Ledger!Answer
  <2> QED
    BY <2>1, <2>2, <2>3, <2>4 DEF LedgerProofs!Answer
<1>6. ASSUME Ledger!Reschedule PROVE LedgerProofs!Reschedule
  <2>1. Ledger!Rows = LedgerProofs!Rows
    BY DEF Ledger!Rows, LedgerProofs!Rows, Ledger!StateRow, LedgerProofs!StateRow,
           Ledger!Stages, LedgerProofs!Stages, Ledger!Card, LedgerProofs!Card,
           Ledger!Phases, LedgerProofs!Phases
  <2> QED
    BY <1>6, <2>1 DEF Ledger!Reschedule, LedgerProofs!Reschedule
<1>7. Ledger!Kinds = LedgerProofs!Kinds /\ Ledger!Ratings = LedgerProofs!Ratings
  BY DEF Ledger!Kinds, LedgerProofs!Kinds, Ledger!Ratings, LedgerProofs!Ratings
<1>8. Ledger!LedgerNext => LedgerProofs!LedgerNext
  BY <1>3, <1>4, <1>5, <1>6, <1>7 DEF Ledger!LedgerNext, LedgerProofs!LedgerNext
<1>9. Ledger!ledgerVars = LedgerProofs!ledgerVars /\ (Ledger!ledgerVars = LedgerProofs!ledgerVars)'
  BY DEF Ledger!ledgerVars, LedgerProofs!ledgerVars
<1> QED
  BY <1>2, <1>8, <1>9

LEMMA LedgerProofsApply ==
    /\ LearningDelay \in Nat \ {0} /\ ReviewDelay \in Nat \ {0} /\ Fuzz \in 0 .. (ReviewDelay - 1)
    /\ StageTransitionDelay \in Nat \ {0} /\ None \notin WordIds
    /\ None \notin LedgerProofs!Stages
    /\ None \notin LedgerProofs!WordRow \cup LedgerProofs!StateRow
    /\ 0 .. (MaxAnswers - 1) \subseteq Nat /\ 0 .. MaxClock \subseteq Nat
<1>1. LedgerProofs!Stages = Stages /\ LedgerProofs!WordRow = WordRow
  BY DEF LedgerProofs!Stages, Stages, LedgerProofs!WordRow, WordRow
<1>2. LedgerProofs!StateRow = StateRow
  BY <1>1 DEF LedgerProofs!StateRow, StateRow, LedgerProofs!Card, Card, LedgerProofs!Phases, Phases
<1> QED
  BY <1>1, <1>2, DelayAssumption, StageDelayAssumption, WordIdsAssumption, NoneAssumption,
     AbsenceAssumption, AnswersAssumption, BoundsAssumption

\* Each saved answer was given in the stage the one before it left (stageAtReview,
\* promotedTo and demotedTo of savePracticeResult's events); the ledger's theorem,
\* carried over by the refinement.
THEOREM LogAlwaysConnected ==
    ASSUME Patient
    PROVE  Spec => []LogIsConnected
<1>1. LedgerProofs!LedgerSpec => []LedgerProofs!LogIsConnected
  BY LedgerProofsApply, LedgerProofs!LedgerLogConnected, PTL
<1>2. LedgerProofs!LogIsConnected => LogIsConnected
  BY DEF LogIsConnected, LedgerProofs!LogIsConnected, Ledger!LogIsConnected,
         LedgerProofs!LogOf, Ledger!LogOf, LedgerProofs!StageAfter, Ledger!StageAfter
<1> QED
  BY <1>1, <1>2, LedgerImplemented, SameLedger, PTL
     DEF LedgerSpec, Ledger!LedgerSpec, LedgerProofs!LedgerSpec

-------------------------------------------------------------------------------
(***************************************************************************)
(* The log in one tab: every answer was given when its word was due and    *)
(* put it off, so no two answers to a word are of the same time.           *)
(***************************************************************************)
History(w) == EventsOf(events, w)

Punctual ==
    /\ IsFiniteSet(events)
    /\ \A e \in events : PutsOff(e) /\ e.reviewedAt <= clock
    /\ \A e \in events : e.reviewedAt < states[e.word].card.due
    /\ \A w \in WordIds : OneAtATime(History(w))

\* The answer to what is on screen, which was due, is later than any other.
AnswersInTime(request, item) ==
    \E now \in 0 .. clock, r \in Ratings :
        \E card \in PracticeResults(item.row.card, "scheduled", now, r) :
            /\ request = AnswerRequest(nextEvent - 1, item, card, now, r)
            /\ item.row.card.due <= now
            /\ \A e \in events : e.reviewedAt <= now

\* What a practice page shows or is about to show is due.
OnTime(p) ==
    /\ step[p] \in {"save", "pool", "words"} => asOf[p] <= clock
    /\ step[p] = "getWord" => candidate[p].row.card.due <= clock
    /\ machine[p] = "Ready" \/ step[p] \in {"check", "save"} => currentItem[p].row.card.due <= clock
    /\ step[p] = "save" => AnswersInTime(pending[p], currentItem[p])

\* What a recalculation would write and announce now.
Replacement(rows) == \E cards \in ReplayedCards(states, events) : rows = ChangedStates(states, cards)
Announcement(ws) ==
    \E cards \in ReplayedCards(states, events) : ws = Given(ChangedStates(states, cards))

\* What a recalculation has read, previewed and sent is what it would be now.
UpToDate(m) ==
    /\ memoryStep[m] \in {"states", "words", "write"} => readEvents[m] = events
    /\ memoryStep[m] = "write" => Replacement(memoryPending[m].rows)
    /\ memory[m] \in {"ConfirmingRecalculation", "ApplyingRecalculation"} => Announcement(preview[m])

TimelyInv ==
    /\ Punctual
    /\ \A p \in PracticePages : OnTime(p)
    /\ \A m \in MemoryPages : UpToDate(m)

\* A recalculation would find nothing to change.
Scheduled ==
    \A w \in WordIds : Exists(w) => states[w].card \in Replays(words[w].createdAt, History(w))

(***************************************************************************)
(* What steps that save no answer and write no schedule do to the store.   *)
(***************************************************************************)
KeepsSchedules ==
    /\ events' \subseteq events
    /\ \A w \in WordIds : Exists(w)' =>
         \/ ~Exists(w) /\ states'[w] = FreshRow(words'[w].createdAt)
         \/ /\ Exists(w) /\ states'[w] = states[w]
            /\ words'[w].createdAt = words[w].createdAt
            /\ EventsOf(events', w) = EventsOf(events, w)

LEMMA StoreStaysKept ==
    ASSUME UNCHANGED <<words, states, events>>
    PROVE  KeepsSchedules
BY DEF KeepsSchedules, Exists

LEMMA EventTypes ==
    ASSUME TypeInv
    PROVE  \A e \in events : e \in PracticeEvent /\ e.word \in WordIds /\ e.reviewedAt \in Nat /\ e.id \in Nat
BY DEF TypeInv, TypeOK, StoreTypeOK, PracticeEvent

\* Such steps leave every event before the time its word is due, now that time has not gone back.
LEMMA KeepsPunctual ==
    ASSUME TypeInv, TypeInv', OneTabInv, OneTabInv', Punctual, KeepsSchedules, clock <= clock'
    PROVE  Punctual'
<1>1. events' \subseteq events /\ IsFiniteSet(events')
  BY FS_Subset DEF KeepsSchedules, Punctual
<1>2. clock \in Nat /\ clock' \in Nat
  BY BoundsAssumption DEF TypeInv, TypeOK, StoreTypeOK
<1>3. ASSUME NEW e \in events'
      PROVE  PutsOff(e) /\ e.reviewedAt <= clock' /\ e.reviewedAt < states'[e.word].card.due
  <2>1. e \in events /\ e.word \in WordIds /\ e.reviewedAt \in Nat
    BY <1>1, EventTypes
  <2>2. Exists(e.word) /\ Exists(e.word)'
    BY <1>3, <2>1 DEF OneTabInv, StoreInOrder
  <2>3. states'[e.word] = states[e.word]
    BY <2>1, <2>2 DEF KeepsSchedules
  <2>4. PutsOff(e) /\ e.reviewedAt <= clock /\ e.reviewedAt < states[e.word].card.due
    BY <2>1 DEF Punctual
  <2> QED
    BY <1>2, <2>1, <2>3, <2>4
<1>4. ASSUME NEW w \in WordIds PROVE OneAtATime(History(w))'
  BY <1>1 DEF Punctual, History, EventsOf, OneAtATime
<1> QED
  BY <1>1, <1>3, <1>4 DEF Punctual

\* A new word has the card of an empty history, the others what they had.
LEMMA KeepsScheduled ==
    ASSUME TypeInv, TypeInv', OneTabInv, OneTabInv', Scheduled, KeepsSchedules
    PROVE  Scheduled'
<1>1. ASSUME NEW w \in WordIds, Exists(w)'
      PROVE  states'[w].card \in Replays(words'[w].createdAt, EventsOf(events', w))
  <2>1. CASE ~Exists(w) /\ states'[w] = FreshRow(words'[w].createdAt)
    <3>1. EventsOf(events', w) = {}
      BY <2>1 DEF EventsOf, KeepsSchedules, OneTabInv, StoreInOrder
    <3>2. Replays(words'[w].createdAt, {}) = {InitialCard(words'[w].createdAt)}
      BY ReplayUnfolds, FS_EmptySet
    <3> QED
      BY <2>1, <3>1, <3>2 DEF FreshRow
  <2>2. CASE /\ Exists(w) /\ states'[w] = states[w]
             /\ words'[w].createdAt = words[w].createdAt
             /\ EventsOf(events', w) = EventsOf(events, w)
    BY <2>2 DEF Scheduled, History
  <2> QED
    BY <1>1, <2>1, <2>2 DEF KeepsSchedules
<1> QED
  BY <1>1 DEF Scheduled, History

(***************************************************************************)
(* Library operations.                                                     *)
(***************************************************************************)
\* The mutation that runs fits the library.
LEMMA MutationFits ==
    ASSUME TypeInv, OneTabInv, NEW l \in LibraryPages, MutationApplied(l)
    PROVE  LET q == Head(queue[l])
           IN  /\ Commit(q) /\ UNCHANGED channel /\ UNCHANGED supplies
               /\ Inserts(q) \/ Updates(q) \/ (q \in Request /\ q.op = "deleteWords")
<1>1. PICK q : q = Head(queue[l])
  OBVIOUS
<1>2. jobStep[l] = "write" /\ Commit(q) /\ UNCHANGED channel /\ UNCHANGED supplies
  BY <1>1 DEF MutationApplied
<1>3. queue[l] \in Seq(LibraryRequest) /\ queue[l] # <<>> /\ JobInOrder(l)
  BY <1>2 DEF TypeInv, TypeOK, LibraryTypeOK, LibraryControl, LibraryRequest, OneTabInv
<1>4. q = queue[l][1] /\ 1 \in DOMAIN queue[l] /\ q \in Request
  BY <1>1, <1>2, <1>3, QueuedRequests DEF TypeInv, TypeOK, LibraryTyped
<1>5. Retouches(q) => Updates(q)
  BY RetouchingFits DEF Retouches, Updates, OneTabInv, StoreInOrder
<1>6. Inserts(q) \/ Updates(q) \/ q.op = "deleteWords"
  BY <1>2, <1>3, <1>4, <1>5 DEF JobInOrder
<1> QED
  BY <1>1, <1>2, <1>4, <1>6

LEMMA MutationKeepsSchedules ==
    ASSUME TypeInv, OneTabInv, NEW l \in LibraryPages, MutationApplied(l)
    PROVE  KeepsSchedules /\ clock' = clock
<1>1. PICK q : q = Head(queue[l])
  OBVIOUS
<1>2. /\ Commit(q) /\ UNCHANGED channel /\ UNCHANGED supplies
      /\ Inserts(q) \/ Updates(q) \/ (q \in Request /\ q.op = "deleteWords")
  BY <1>1, MutationFits
<1>3. clock' = clock
  BY <1>2 DEF supplies
<1>4. CASE Inserts(q)
  <2>1. /\ words' = Overlay(words, q.rows) /\ events' = events
        /\ states' = [w \in WordIds |->
                        IF q.rows[w] # None THEN FreshRow(q.rows[w].createdAt) ELSE states[w]]
        /\ \A w \in Given(q.rows) : ~Exists(w)
    BY <1>2, <1>4 DEF Commit, Inserts, InsertWords
  <2>2. \A w \in WordIds : IF q.rows[w] # None
          THEN ~Exists(w) /\ words'[w] = q.rows[w] /\ states'[w] = FreshRow(q.rows[w].createdAt)
          ELSE words'[w] = words[w] /\ states'[w] = states[w]
    BY <2>1 DEF Overlay, Given
  <2> QED
    BY <1>3, <2>1, <2>2 DEF KeepsSchedules, Exists
<1>5. CASE Updates(q)
  BY <1>2, <1>3, <1>5, UpdatingKeepsOrder DEF KeepsSchedules
<1>6. CASE q.op = "deleteWords"
  <2>1. /\ words' = [w \in WordIds |-> IF w \in q.ids THEN None ELSE words[w]]
        /\ states' = [w \in WordIds |-> IF w \in q.ids THEN None ELSE states[w]]
        /\ events' = {e \in events : e.word \notin q.ids}
    BY <1>2, <1>6 DEF Commit, DeleteWords
  <2>2. \A w \in WordIds : Exists(w)' =>
          w \notin q.ids /\ words'[w] = words[w] /\ states'[w] = states[w]
    BY <2>1 DEF Exists
  <2>3. \A w \in WordIds : w \notin q.ids => EventsOf(events', w) = EventsOf(events, w)
    BY <2>1 DEF EventsOf
  <2> QED
    BY <1>3, <2>1, <2>2, <2>3 DEF KeepsSchedules, Exists
<1> QED
  BY <1>2, <1>4, <1>5, <1>6

\* No library operation touches the schedule or the log of a word it leaves in the library.
LEMMA LibraryKeepsSchedules ==
    ASSUME Patient, TypeInv, OneTabInv, LibraryStep
    PROVE  KeepsSchedules /\ clock' = clock
<1>1. PICK l \in LibraryPages : LibraryNext(l) \/ (MayOpen /\ \E j \in Jobs : Start(l, j))
  BY DEF LibraryStep
<1>2. CASE MutationApplied(l)
  BY <1>2, MutationKeepsSchedules
<1>3. CASE AddWords(l)
  BY <1>3, StoreStaysKept DEF AddWords, tables
<1>4. CASE \/ \E j \in Jobs : Start(l, j)
           \/ UpdateWordEntry(l) \/ ChangeWordArchive(l) \/ DeleteWordEntry(l)
           \/ DeleteSelectedWordEntries(l) \/ ImportExampleEntries(l) \/ RefuseJob(l) \/ Reloaded(l)
  <2>1. UNCHANGED storeVars
    BY <1>4 DEF Start, UpdateWordEntry, ChangeWordArchive, DeleteWordEntry,
                DeleteSelectedWordEntries, ImportExampleEntries, RefuseJob, Reloaded
  <2> QED
    BY <2>1, StoreStaysKept DEF storeVars
<1>5. CASE LibraryCallLost(l)
  BY <1>5, NothingFails DEF LibraryCallLost
<1> QED
  BY <1>1, <1>2, <1>3, <1>4, <1>5 DEF LibraryNext, LibraryRuns

(***************************************************************************)
(* Practice pages.                                                         *)
(***************************************************************************)
\* Where one page acts alone, only its part is at stake.
LEMMA PracticeTimelyFrame ==
    ASSUME OneTabInv, NEW p \in PracticePages, PracticeAlone(p), UNCHANGED memoryVars,
           OthersUntouched(p), Punctual', OnTime(p)'
    PROVE  TimelyInv'
<1>1. \A q \in PracticePages \ {p} : machine'[q] = "Closed" /\ step'[q] = "idle"
  BY DEF OneTabInv, PageInOrder, PracticeAlone, OthersUntouched
<1>2. \A m \in MemoryPages : memory'[m] = "Closed" /\ memoryStep'[m] = "idle"
  BY DEF memoryVars, OneTabInv, MemoryInOrder, PracticeAlone, MemoryClosed
<1>3. \A q \in PracticePages : OnTime(q)'
  BY <1>1 DEF OnTime
<1>4. \A m \in MemoryPages : UpToDate(m)'
  BY <1>2 DEF UpToDate
<1> QED
  BY <1>3, <1>4 DEF TimelyInv

LEMMA PageTypes ==
    ASSUME TypeInv
    PROVE  /\ machine \in [PracticePages -> MachineStates] /\ step \in [PracticePages -> Steps]
           /\ DOMAIN asOf = PracticePages /\ DOMAIN currentItem = PracticePages
           /\ DOMAIN candidate = PracticePages /\ DOMAIN pending = PracticePages
           /\ clock \in 0 .. MaxClock /\ clock \in Nat
BY BoundsAssumption DEF TypeInv, TypeOK, PracticeTypeOK, StoreTypeOK

\* The learner's own steps.
LEMMA LearnerStaysOnTime ==
    ASSUME TypeInv, OneTabInv, TimelyInv, NEW p \in PracticePages,
           Open(p) \/ Leave(p) \/ Refresh(p) \/ Reveal(p) \/ \E r \in Ratings : Rate(p, r)
    PROVE  OnTime(p)'
<1>1. OnTime(p) /\ PageInOrder(p)
  BY DEF TimelyInv, OneTabInv
<1>2. clock' = clock /\ clock \in Nat
  BY PageTypes DEF Open, Leave, Refresh, Reveal, Rate, storeVars
<1>3. CASE Open(p) \/ Refresh(p)
  BY <1>2, <1>3, PageTypes DEF Open, Refresh, EnterLoading, OnTime
<1>4. CASE Leave(p)
  BY <1>4, PageTypes DEF Leave, Forget, OnTime
<1>5. CASE Reveal(p)
  <2>1. machine[p] = "Ready" /\ step[p] = "idle" /\ UNCHANGED <<machine, step, currentItem>>
    BY <1>1, <1>5 DEF Reveal, PageInOrder
  <2> QED
    BY <1>1, <1>2, <2>1 DEF OnTime
<1>6. CASE \E r \in Ratings : Rate(p, r)
  <2>1. /\ machine[p] = "Ready" /\ machine'[p] = "Submitting" /\ step'[p] = "check"
        /\ UNCHANGED currentItem
    BY <1>6, PageTypes DEF Rate
  <2> QED
    BY <1>1, <1>2, <2>1 DEF OnTime
<1> QED
  BY <1>3, <1>4, <1>5, <1>6

\* What is read is due by a time that has come.
LEMMA LoadingStaysOnTime ==
    ASSUME TypeInv, OneTabInv, TimelyInv, NEW p \in PracticePages,
           \/ WordNoLongerActive(p) \/ AnswerRejected(p) \/ ReadPool(p) \/ SelectWord(p)
           \/ NothingToSelect(p) \/ ItemLoaded(p) \/ ItemVanished(p)
    PROVE  OnTime(p)'
<1>1. OnTime(p) /\ PageInOrder(p)
  BY DEF TimelyInv, OneTabInv
<1>2. clock' = clock /\ clock \in Nat
  BY PageTypes DEF WordNoLongerActive, AnswerRejected, ReadPool, SelectWord,
                   NothingToSelect, ItemLoaded, ItemVanished, storeVars
<1>3. CASE WordNoLongerActive(p) \/ AnswerRejected(p)
  <2>1. step[p] \in {"check", "save"} /\ RejectAnswer(p)
    BY <1>3 DEF WordNoLongerActive, AnswerRejected
  <2>2. step'[p] = "idle" /\ UNCHANGED currentItem
    BY <2>1, PageTypes DEF RejectAnswer
  <2> QED
    BY <1>1, <1>2, <2>1, <2>2 DEF OnTime
<1>4. CASE ReadPool(p)
  <2>1. step[p] = "pool" /\ step'[p] = "words" /\ UNCHANGED <<machine, currentItem, asOf>>
    BY <1>4, PageTypes DEF ReadPool
  <2> QED
    BY <1>1, <1>2, <2>1 DEF OnTime, PageInOrder
<1>5. CASE SelectWord(p)
  <2>1. PICK w \in Selectable(poolRows[p], asOf[p]) :
          candidate' = [candidate EXCEPT ![p] = [word |-> w, row |-> poolRows[p][w]]]
    BY <1>5 DEF SelectWord
  <2>2. step[p] = "words" /\ step'[p] = "getWord" /\ UNCHANGED machine
    BY <1>5, PageTypes DEF SelectWord
  <2>3. w \in WordIds /\ poolRows[p][w] # None /\ poolRows[p][w].card.due <= asOf[p]
    BY DEF Selectable, LongestDue, DueIn
  <2>4. poolRows[p][w] \in StateRow /\ asOf[p] \in Nat
    BY <2>2, <2>3 DEF TypeInv, TypeOK, PracticeTypeOK, PracticeControl, PageControl, StateRows
  <2>5. poolRows[p][w].card.due <= clock
    BY <1>1, <1>2, <2>2, <2>3, <2>4 DEF OnTime, StateRow, Card
  <2>6. candidate'[p].row.card.due <= clock'
    BY <1>2, <2>1, <2>5, PageTypes
  <2> QED
    BY <1>1, <2>2, <2>6 DEF OnTime, PageInOrder
<1>6. CASE ItemLoaded(p)
  <2>1. step[p] = "getWord" /\ step'[p] = "idle" /\ currentItem'[p] = candidate[p]
    BY <1>6, PageTypes DEF ItemLoaded, ShowItem
  <2> QED
    BY <1>1, <1>2, <2>1 DEF OnTime
<1>7. CASE NothingToSelect(p) \/ ItemVanished(p)
  <2>1. PICK resting \in {"EmptyLibrary", "Complete"} : ShowNothing(p, resting, None)
    BY <1>7 DEF NothingToSelect, ItemVanished
  <2>2. \/ machine'[p] = resting /\ step'[p] = "idle"
        \/ machine'[p] = "Loading" /\ step'[p] = "pool" /\ asOf'[p] = clock
    BY <2>1, PageTypes DEF ShowNothing, EnterLoading
  <2> QED
    BY <1>2, <2>2 DEF OnTime
<1> QED
  BY <1>3, <1>4, <1>5, <1>6, <1>7

\* An answer is sent to a word that is due.
LEMMA SendingIsOnTime ==
    ASSUME TypeInv, OneTabInv, TimelyInv, NEW p \in PracticePages, SendAnswer(p)
    PROVE  OnTime(p)'
<1>1. OnTime(p) /\ PageInOrder(p) /\ step[p] = "check"
  BY DEF TimelyInv, OneTabInv, SendAnswer
<1>2. /\ clock' = clock /\ events' = events /\ nextEvent' = nextEvent + 1 /\ nextEvent \in Nat
      /\ clock \in Nat
  BY PageTypes DEF SendAnswer, tables, TypeInv, TypeOK, StoreTypeOK
<1>3. /\ step'[p] = "save" /\ asOf'[p] = clock /\ UNCHANGED <<machine, currentItem>>
  BY PageTypes DEF SendAnswer
<1>4. PICK card \in PracticeResults(currentItem[p].row.card, "scheduled", clock, rating[p]) :
        pending' = [pending EXCEPT ![p] =
            AnswerRequest(nextEvent, currentItem[p], card, clock, rating[p])]
  BY DEF SendAnswer
<1>5. rating[p] \in Ratings
  BY <1>1 DEF TypeInv, PracticeControl, PageControl
<1>6. currentItem[p].row.card.due <= clock /\ \A e \in events : e.reviewedAt <= clock
  BY <1>1 DEF OnTime, TimelyInv, Punctual
<1>7. AnswersInTime(pending[p], currentItem[p])'
  <2>1. nextEvent' - 1 = nextEvent
    BY <1>2
  <2>2. pending'[p] = AnswerRequest(nextEvent' - 1, currentItem'[p], card, clock, rating[p])
    BY <1>3, <1>4, <2>1, PageTypes
  <2>3. clock \in 0 .. clock'
    BY <1>2
  <2> QED
    BY <1>2, <1>3, <1>4, <1>5, <1>6, <2>2, <2>3 DEF AnswersInTime
<1> QED
  BY <1>1, <1>2, <1>3, <1>6, <1>7 DEF OnTime, PageInOrder

\* The answer that is saved: later than the others to its word, and to what replaying them gives.
LEMMA SavingIsOnTime ==
    ASSUME TypeInv, OneTabInv, TimelyInv, NEW p \in PracticePages, AnswerSaved(p)
    PROVE  OnTime(p)' /\ Punctual' /\ (Fuzz = 0 /\ Scheduled => Scheduled')
<1> DEFINE item == currentItem[p]
           w == item.word
<1>1. OnTime(p) /\ PageInOrder(p) /\ step[p] = "save" /\ machine[p] = "Submitting"
  BY DEF TimelyInv, OneTabInv, AnswerSaved, PageInOrder
<1>2. /\ clock' = clock /\ clock \in Nat /\ nextEvent \in Nat /\ states \in StateRows
      /\ machine' = machine /\ step'[p] = "pool" /\ asOf' = asOf
  BY PageTypes DEF AnswerSaved, supplies, TypeInv, TypeOK, StoreTypeOK
<1>3. OnTime(p)'
  BY <1>1, <1>2 DEF OnTime
<1>4. PICK now \in 0 .. clock, r \in Ratings :
        \E card \in PracticeResults(item.row.card, "scheduled", now, r) :
            /\ pending[p] = AnswerRequest(nextEvent - 1, item, card, now, r)
            /\ item.row.card.due <= now
            /\ \A e \in events : e.reviewedAt <= now
  BY <1>1 DEF OnTime, AnswersInTime
<1>5. PICK card \in PracticeResults(item.row.card, "scheduled", now, r) :
            /\ pending[p] = AnswerRequest(nextEvent - 1, item, card, now, r)
            /\ item.row.card.due <= now
            /\ \A e \in events : e.reviewedAt <= now
  BY <1>4
<1>6. /\ item \in Item /\ w \in WordIds /\ Exists(w) /\ item.row = states[w]
      /\ states[w] \in StateRow
  BY <1>1 DEF TypeInv, PracticeControl, PageControl, Item, PageInOrder, Current
<1>7. nextEvent - 1 \in Nat /\ now \in Nat
  BY <1>1, <1>2 DEF PageInOrder
<1> DEFINE event == AnswerEvent(nextEvent - 1, w, states[w], card, "scheduled", now, r)
           row == AnsweredRow(states[w], card, "scheduled", now, r)
<1>8. /\ words' = words
      /\ states' = [states EXCEPT ![w] = row]
      /\ events' = events \cup {event}
  <2>1. Commit(pending[p])
    BY DEF AnswerSaved
  <2>2. pending[p] = [op |-> "savePracticeResult", event |-> event, row |-> row]
    BY <1>5, <1>6 DEF AnswerRequest
  <2>3. event.word = w
    BY DEF AnswerEvent
  <2> HIDE DEF event, row, w
  <2>4. SavePracticeResult(event, row)
    BY <2>1, <2>2 DEF Commit
  <2> QED
    BY <2>3, <2>4 DEF SavePracticeResult
<1>9. /\ PutsOff(event) /\ event.word = w /\ event.reviewedAt = now /\ event.id = nextEvent - 1
      /\ now < row.card.due
  BY <1>5, <1>6, <1>7, AnswerPutsOff
<1>10. Fuzz = 0 => ReplayEvent(states[w].card, event) = row.card
  <2>1. states[w].card.due \in Nat /\ ~(now < states[w].card.due)
    BY <1>5, <1>6, <1>7 DEF StateRow, Card
  <2> QED
    BY <1>5, <1>6, <2>1, AnswerReplayed
<1>11. states[w].card.due <= now /\ states[w].card.due \in Nat
  BY <1>5, <1>6 DEF StateRow, Card
<1> HIDE DEF event, row, w, item
<1>12. \A e \in events : /\ PutsOff(e) /\ e.reviewedAt \in Nat /\ e.word \in WordIds
                         /\ e.reviewedAt <= now /\ e.reviewedAt < states[e.word].card.due
  BY <1>5, EventTypes DEF TimelyInv, Punctual
<1>13. event \notin events /\ \A e \in events : e.word = w => e.reviewedAt < now
  <2>1. \A e \in events : e.word = w => e.reviewedAt < now
    BY <1>7, <1>11, <1>12
  <2> QED
    BY <1>7, <1>9, <2>1
<1>14. row.card.due \in Nat
  BY <1>6, <1>7, <1>5, AnsweredRowType, SchedulersReturnCards DEF row, StateRow, Card, Kinds
<1>15. states'[w] = row /\ \A v \in WordIds \ {w} : states'[v] = states[v]
  BY <1>2, <1>6, <1>8 DEF StateRows
<1>16. Punctual'
  <2>1. IsFiniteSet(events')
    BY <1>8, FS_AddElement DEF TimelyInv, Punctual
  <2>2. ASSUME NEW e \in events'
        PROVE  PutsOff(e) /\ e.reviewedAt <= clock' /\ e.reviewedAt < states'[e.word].card.due
    <3>1. CASE e = event
      BY <1>2, <1>4, <1>7, <1>9, <1>15, <3>1
    <3>2. CASE e \in events /\ e.word # w
      BY <1>2, <1>12, <1>15, <3>2 DEF TimelyInv, Punctual
    <3>3. CASE e \in events /\ e.word = w
      <4>1. e.reviewedAt < row.card.due
        BY <1>7, <1>9, <1>12, <1>14, <3>3
      <4> QED
        BY <1>2, <1>12, <1>15, <3>3, <4>1 DEF TimelyInv, Punctual
    <3> QED
      BY <1>8, <3>1, <3>2, <3>3
  <2>3. ASSUME NEW v \in WordIds PROVE OneAtATime(History(v))'
    <3>1. ASSUME NEW e \in events', NEW f \in events', e.word = v, f.word = v,
                 e.reviewedAt = f.reviewedAt
          PROVE  e = f
      <4>1. CASE e \in events /\ f \in events
        BY <3>1, <4>1 DEF TimelyInv, Punctual, OneAtATime, History, EventsOf
      <4>2. CASE e \in events /\ f = event
        BY <1>7, <1>9, <1>12, <1>13, <3>1, <4>2
      <4>3. CASE e = event /\ f \in events
        BY <1>7, <1>9, <1>12, <1>13, <3>1, <4>3
      <4> QED
        BY <1>8, <4>1, <4>2, <4>3
    <3> QED
      BY <3>1 DEF OneAtATime, History, EventsOf
  <2> QED
    BY <2>1, <2>2, <2>3 DEF Punctual
<1>17. ASSUME Fuzz = 0, Scheduled PROVE Scheduled'
  <2>1. ASSUME NEW v \in WordIds, Exists(v)'
        PROVE  states'[v].card \in Replays(words'[v].createdAt, EventsOf(events', v))
    <3>1. Exists(v) /\ states[v].card \in Replays(words[v].createdAt, EventsOf(events, v))
      BY <1>8, <1>17, <2>1 DEF Exists, Scheduled, History
    <3>2. CASE v # w
      <4>1. EventsOf(events', v) = EventsOf(events, v)
        BY <1>8, <1>9, <3>2 DEF EventsOf
      <4> QED
        BY <1>8, <1>15, <3>1, <3>2, <4>1
    <3>3. CASE v = w
      <4> DEFINE evs == EventsOf(events, v)
      <4>1. EventsOf(events', v) = evs \cup {event} /\ event \notin evs
        BY <1>8, <1>9, <1>13, <3>3 DEF EventsOf
      <4>2. IsFiniteSet(evs)
        BY FS_Subset DEF EventsOf, TimelyInv, Punctual
      <4>3. \A e \in evs : e.reviewedAt <= event.reviewedAt
        BY <1>9, <1>12 DEF EventsOf
      <4>4. event.reviewedAt \in Nat
        BY <1>7, <1>9
      <4> HIDE DEF evs
      <4>5. ReplayEvent(states[v].card, event) \in Replays(words[v].createdAt, evs \cup {event})
        BY <3>1, <4>1, <4>2, <4>3, <4>4, LaterEventReplayed DEF evs
      <4> QED
        BY <1>8, <1>10, <1>15, <1>17, <3>3, <4>1, <4>5
    <3> QED
      BY <3>2, <3>3
  <2> QED
    BY <2>1 DEF Scheduled, History
<1> QED
  BY <1>3, <1>16, <1>17

\* Of the practice pages only one acts.
LEMMA OnePageActs ==
    ASSUME Patient, TypeInv, TypeInv', OneTabInv, NEW p \in PracticePages, PracticeAlone(p),
           PracticeNext(p) \/ (MayOpen /\ Open(p))
    PROVE  OthersUntouched(p)
<1>1. CASE Open(p) \/ Leave(p) \/ Refresh(p) \/ Reveal(p)
  BY <1>1, LearnerKeepsOrder
<1>2. CASE \E r \in Ratings : Rate(p, r)
  BY <1>2, RatingKeepsOrder
<1>3. CASE WordNoLongerActive(p) \/ AnswerRejected(p)
  BY <1>3, RejectionKeepsOrder DEF WordNoLongerActive, AnswerRejected
<1>4. CASE ReadPool(p) \/ SelectWord(p) \/ NothingToSelect(p) \/ ItemLoaded(p) \/ ItemVanished(p)
  BY <1>4, ReadingKeepsOrder, LoadingKeepsOrder
<1>5. CASE SendAnswer(p) \/ AnswerSaved(p)
  BY <1>5, SendingKeepsOrder, SavingKeepsOrder
<1>6. CASE Abandon(p) \/ AnswerLost(p) \/ SelectionFailed(p)
  BY <1>6, NothingFails DEF Abandon, AnswerLost, SelectionFailed
<1> QED
  BY <1>1, <1>2, <1>3, <1>4, <1>5, <1>6 DEF PracticeNext, PracticeRuns

\* A step of a practice page keeps the log in time, and without fuzz the schedules too.
LEMMA PracticeStepInTime ==
    ASSUME Patient, TypeInv, TypeInv', OneTabInv, OneTabInv', TimelyInv, PracticeStep
    PROVE  TimelyInv' /\ (Fuzz = 0 /\ Scheduled => Scheduled')
<1>1. PICK p \in PracticePages : PracticeNext(p) \/ (MayOpen /\ Open(p))
  BY DEF PracticeStep
<1>2. PracticeAlone(p) /\ OthersUntouched(p) /\ UNCHANGED memoryVars
  BY <1>1, PracticePageIsAlone, OnePageActs DEF PracticeStep
<1>3. clock \in Nat /\ Punctual
  BY PageTypes DEF TimelyInv
<1>4. CASE AnswerSaved(p)
  BY <1>2, <1>4, SavingIsOnTime, PracticeTimelyFrame
<1>5. CASE SendAnswer(p)
  <2>1. KeepsSchedules /\ clock' = clock
    BY <1>5, StoreStaysKept DEF SendAnswer, tables
  <2>2. Punctual' /\ (Scheduled => Scheduled')
    BY <1>3, <2>1, KeepsPunctual, KeepsScheduled
  <2> QED
    BY <1>2, <1>5, <2>2, SendingIsOnTime, PracticeTimelyFrame
<1>6. CASE \/ Open(p) \/ Leave(p) \/ Refresh(p) \/ Reveal(p) \/ \E r \in Ratings : Rate(p, r)
           \/ WordNoLongerActive(p) \/ AnswerRejected(p) \/ ReadPool(p) \/ SelectWord(p)
           \/ NothingToSelect(p) \/ ItemLoaded(p) \/ ItemVanished(p)
  <2>1. UNCHANGED storeVars
    BY <1>6 DEF Open, Leave, Refresh, Reveal, Rate, WordNoLongerActive, AnswerRejected, ReadPool,
                SelectWord, NothingToSelect, ItemLoaded, ItemVanished
  <2>2. KeepsSchedules /\ clock' = clock
    BY <2>1, StoreStaysKept DEF storeVars
  <2>3. Punctual' /\ (Scheduled => Scheduled')
    BY <1>3, <2>2, KeepsPunctual, KeepsScheduled
  <2>4. OnTime(p)'
    BY <1>6, LearnerStaysOnTime, LoadingStaysOnTime
  <2> QED
    BY <1>2, <2>3, <2>4, PracticeTimelyFrame
<1>7. CASE Abandon(p) \/ AnswerLost(p) \/ SelectionFailed(p)
  BY <1>7, NothingFails DEF Abandon, AnswerLost, SelectionFailed
<1> QED
  BY <1>1, <1>4, <1>5, <1>6, <1>7 DEF PracticeNext, PracticeRuns

(***************************************************************************)
(* Memory pages.                                                           *)
(***************************************************************************)
LEMMA MemoryTimelyFrame ==
    ASSUME OneTabInv, NEW m \in MemoryPages, MemoryAlone(m), UNCHANGED pageVars,
           OtherMemoriesUntouched(m), Punctual', UpToDate(m)'
    PROVE  TimelyInv'
<1>1. \A n \in MemoryPages \ {m} : memory'[n] = "Closed" /\ memoryStep'[n] = "idle"
  BY DEF OneTabInv, MemoryInOrder, MemoryAlone, OtherMemoriesUntouched
<1>2. \A p \in PracticePages : machine'[p] = "Closed" /\ step'[p] = "idle"
  BY DEF pageVars, OneTabInv, PageInOrder, MemoryAlone, PracticeClosed
<1>3. \A n \in MemoryPages : UpToDate(n)'
  BY <1>1 DEF UpToDate
<1>4. \A p \in PracticePages : OnTime(p)'
  BY <1>2 DEF OnTime
<1> QED
  BY <1>3, <1>4 DEF TimelyInv

LEMMA MemoryTypes ==
    ASSUME TypeInv
    PROVE  /\ memory \in [MemoryPages -> MemoryStates] /\ memoryStep \in [MemoryPages -> MemorySteps]
           /\ DOMAIN readEvents = MemoryPages /\ DOMAIN readStates = MemoryPages
           /\ DOMAIN preview = MemoryPages /\ DOMAIN memoryPending = MemoryPages
           /\ clock \in Nat
BY BoundsAssumption DEF TypeInv, TypeOK, MemoryTypeOK, StoreTypeOK

\* It is the same while words, rows and events are.
LEMMA ReplacementStays ==
    ASSUME UNCHANGED <<words, states, events>>
    PROVE  /\ \A rows : Replacement(rows) => Replacement(rows)'
           /\ \A ws : Announcement(ws) => Announcement(ws)'
<1>1. Replayed(states)' = Replayed(states)
  BY DEF Replayed, Active
<1>2. \A w : ReplaysOf(w, events)' = ReplaysOf(w, events)
  BY DEF ReplaysOf
<1>3. ReplayedCards(states, events)' = ReplayedCards(states, events)
  BY <1>1, <1>2 DEF ReplayedCards
<1>4. \A cards : ChangedStates(states, cards)' = ChangedStates(states, cards)
  BY <1>1 DEF ChangedStates
<1> QED
  BY <1>3, <1>4 DEF Replacement, Announcement

\* Steps of a memory page that leave the store alone.
LEMMA MemoryStaysUpToDate ==
    ASSUME TypeInv, OneTabInv, TimelyInv, NEW m \in MemoryPages, UNCHANGED storeVars,
           \/ OpenMemory(m) \/ MemoryLoaded(m) \/ RefreshMemory(m) \/ RequestRecalculation(m)
           \/ ApplyRecalculation(m) \/ CancelRecalculation(m) \/ LeaveMemory(m) \/ ReadEvents(m)
           \/ ReadStates(m) \/ PreviewShown(m) \/ SendReplacement(m) \/ ReplacementRejected(m)
    PROVE  UpToDate(m)'
<1>1. UpToDate(m) /\ MemoryInOrder(m)
  BY DEF TimelyInv, OneTabInv
<1>2. /\ \A rows : Replacement(rows) => Replacement(rows)'
      /\ \A ws : Announcement(ws) => Announcement(ws)'
      /\ events' = events
  BY ReplacementStays DEF storeVars
<1>3. CASE OpenMemory(m) \/ MemoryLoaded(m) \/ RefreshMemory(m) \/ CancelRecalculation(m)
  <2>1. memoryStep[m] = "idle"
    BY <1>1, <1>3 DEF OpenMemory, MemoryLoaded, RefreshMemory, CancelRecalculation, MemoryInOrder
  <2>2. memoryStep'[m] = "idle" /\ memory'[m] \in {"Loading", "Ready"}
    BY <1>3, <2>1, MemoryTypes DEF OpenMemory, MemoryLoaded, RefreshMemory, CancelRecalculation
  <2> QED
    BY <2>2 DEF UpToDate
<1>4. CASE RequestRecalculation(m) \/ LeaveMemory(m)
  <2>1. /\ memoryStep'[m] \in {"idle", "events"}
        /\ memory'[m] \in {"Closed", "CalculatingRecalculationPreview"}
    BY <1>4, MemoryTypes DEF RequestRecalculation, LeaveMemory, ForgetMemory
  <2> QED
    BY <2>1 DEF UpToDate
<1>5. CASE ApplyRecalculation(m)
  <2>1. memory[m] = "ConfirmingRecalculation" /\ memoryStep'[m] = "events" /\ preview' = preview
    BY <1>5, MemoryTypes DEF ApplyRecalculation
  <2> QED
    BY <1>1, <1>2, <2>1 DEF UpToDate
<1>6. CASE ReadEvents(m) \/ ReadStates(m)
  <2>1. /\ memory' = memory /\ preview' = preview /\ memoryStep'[m] \in {"states", "words"}
        /\ readEvents'[m] = events
    BY <1>1, <1>6, MemoryTypes DEF ReadEvents, ReadStates, UpToDate
  <2> QED
    BY <1>1, <1>2, <2>1 DEF UpToDate
<1>7. CASE PreviewShown(m)
  <2>1. readStates[m] = states /\ readEvents[m] = events
    BY <1>1, <1>7 DEF PreviewShown, MemoryInOrder, UpToDate
  <2>2. Announcement(preview'[m]) /\ memoryStep'[m] = "idle"
    BY <1>7, <2>1, MemoryTypes DEF PreviewShown, EndEffect, Announcement
  <2> QED
    BY <1>2, <2>2 DEF UpToDate
<1>8. CASE SendReplacement(m)
  <2>1. readStates[m] = states /\ readEvents[m] = events
    BY <1>1, <1>8 DEF SendReplacement, MemoryInOrder, UpToDate
  <2>2. /\ Replacement(memoryPending'[m].rows) /\ readEvents' = readEvents
        /\ memory' = memory /\ preview' = preview
    BY <1>8, <2>1, MemoryTypes DEF SendReplacement, Replacement
  <2> QED
    BY <1>1, <1>2, <2>1, <2>2 DEF UpToDate
<1>9. CASE ReplacementRejected(m)
  <2>1. /\ memoryStep'[m] = "idle"
        /\ memory'[m] = "ConfirmingRecalculation" =>
             memory[m] = "ApplyingRecalculation" /\ preview'[m] = preview[m]
        /\ memory'[m] # "ApplyingRecalculation"
    BY <1>9, MemoryTypes DEF ReplacementRejected, RecalculationStops, EndEffect
  <2> QED
    BY <1>1, <1>2, <2>1 DEF UpToDate
<1> QED
  BY <1>3, <1>4, <1>5, <1>6, <1>7, <1>8, <1>9

\* A replacement that runs leaves every active word with a card its history gives.
LEMMA ReplacementTakes ==
    ASSUME TypeInv, OneTabInv, TimelyInv, NEW m \in MemoryPages, SchedulesReplaced(m)
    PROVE  /\ UNCHANGED <<words, events, clock>>
           /\ \A w \in WordIds :
                IF w \in Replayed(states) THEN states'[w].card \in ReplaysOf(w, events)
                                          ELSE states'[w] = states[w]
<1>1. UpToDate(m) /\ memoryStep[m] = "write"
  BY DEF TimelyInv, SchedulesReplaced
<1>2. PICK cards \in ReplayedCards(states, events) :
        memoryPending[m].rows = ChangedStates(states, cards)
  BY <1>1 DEF UpToDate, Replacement
<1> DEFINE rows == ChangedStates(states, cards)
<1>3. memoryPending[m] \in ReplaceRequest /\ states \in StateRows
  BY <1>1 DEF TypeInv, TypeOK, StoreTypeOK, MemoryControl
<1>4. ReplaceMemoryStates(rows)
  <2>1. memoryPending[m].op = "replaceMemoryStates"
    BY <1>3 DEF ReplaceRequest
  <2> QED
    BY <1>2, <2>1 DEF SchedulesReplaced, Commit
<1>5. UNCHANGED <<words, events, clock>> /\ states' = Overlay(states, rows)
  BY <1>4 DEF ReplaceMemoryStates, SchedulesReplaced, supplies
<1>6. ASSUME NEW w \in Replayed(states) PROVE states'[w].card \in ReplaysOf(w, events)
  <2>1. w \in WordIds /\ states[w] \in StateRow /\ cards[w] \in ReplaysOf(w, events)
    BY <1>2, <1>3, <1>6 DEF Replayed, ReplayedCards, StateRows
  <2>2. CASE cards[w] = states[w].card
    <3>1. states'[w] = states[w]
      BY <1>5, <2>1, <2>2 DEF Overlay, ChangedStates
    <3> QED
      BY <2>1, <2>2, <3>1
  <2>3. CASE cards[w] # states[w].card
    <3>1. rows[w] = [states[w] EXCEPT !.card = cards[w]]
      BY <1>6, <2>1, <2>3 DEF ChangedStates
    <3>2. rows[w].card = cards[w]
      BY <2>1, <3>1 DEF StateRow
    <3>3. rows[w] # None
      <4>1. memoryPending[m].rows \in StateRows /\ cards[w] \in Card
        <5>1. words[w].createdAt \in Nat
          BY <1>6 DEF Replayed, Active, TypeInv, TypeOK, StoreTypeOK, WordRows, WordRow
        <5>2. IsFiniteSet(EventsOf(events, w)) /\ \A e \in EventsOf(events, w) : PutsOff(e)
          BY FS_Subset DEF EventsOf, TimelyInv, Punctual
        <5> QED
          BY <1>3, <2>1, <5>1, <5>2, ReplaysPutOff DEF ReplaceRequest, ReplaysOf
      <4>2. rows[w] \in StateRow
        BY <2>1, <3>1, <4>1 DEF StateRow
      <4> QED
        BY <4>2, AbsenceAssumption
    <3>4. states'[w] = rows[w]
      BY <1>5, <2>1, <3>3 DEF Overlay
    <3> QED
      BY <2>1, <3>2, <3>4
  <2> QED
    BY <2>2, <2>3
<1>7. \A w \in WordIds \ Replayed(states) : states'[w] = states[w]
  BY <1>5 DEF Overlay, ChangedStates
<1> QED
  BY <1>5, <1>6, <1>7

\* Replayed cards are due later than the events they come from.
LEMMA ReplacementIsTimely ==
    ASSUME TypeInv, OneTabInv, TimelyInv, NEW m \in MemoryPages, SchedulesReplaced(m)
    PROVE  UpToDate(m)' /\ Punctual' /\ (Scheduled => Scheduled')
<1>1. /\ words' = words /\ events' = events /\ clock' = clock
      /\ \A w \in WordIds :
           IF w \in Replayed(states) THEN states'[w].card \in ReplaysOf(w, events)
                                     ELSE states'[w] = states[w]
  BY ReplacementTakes
<1>2. UpToDate(m)'
  <2>1. memory'[m] = "Loading" /\ memoryStep'[m] = "idle"
    BY MemoryTypes DEF SchedulesReplaced, EndEffect
  <2> QED
    BY <2>1 DEF UpToDate
<1>3. Punctual
  BY DEF TimelyInv
<1>4. ASSUME NEW e \in events PROVE e.reviewedAt < states'[e.word].card.due
  <2>1. e.word \in WordIds
    BY EventTypes
  <2>2. CASE e.word \in Replayed(states)
    <3> DEFINE w == e.word
    <3>1. words[w].createdAt \in Nat
      BY <2>1, <2>2 DEF Replayed, Active, TypeInv, TypeOK, StoreTypeOK, WordRows, WordRow
    <3>2. /\ IsFiniteSet(EventsOf(events, w)) /\ e \in EventsOf(events, w)
          /\ \A f \in EventsOf(events, w) : PutsOff(f)
      BY <1>3, FS_Subset DEF EventsOf, Punctual
    <3>3. states'[w].card \in Replays(words[w].createdAt, EventsOf(events, w))
      BY <1>1, <2>1, <2>2 DEF ReplaysOf
    <3> HIDE DEF w
    <3>4. e.reviewedAt < states'[w].card.due
      BY <3>1, <3>2, <3>3, ReplaysPutOff
    <3> QED
      BY <3>4 DEF w
  <2>3. CASE e.word \notin Replayed(states)
    BY <1>1, <1>3, <2>1, <2>3 DEF Punctual
  <2> QED
    BY <2>2, <2>3
<1>5. Punctual'
  <2>1. \A w \in WordIds : OneAtATime(History(w))'
    BY <1>1, <1>3 DEF Punctual, History
  <2> QED
    BY <1>1, <1>3, <1>4, <2>1 DEF Punctual
<1>6. Scheduled => Scheduled'
  <2>1. \A w \in WordIds : Exists(w)' <=> Exists(w)
    BY <1>1 DEF Exists
  <2> QED
    BY <1>1, <2>1 DEF Scheduled, History, ReplaysOf
<1> QED
  BY <1>2, <1>5, <1>6

\* A step of a memory page keeps log and schedules in time.
LEMMA MemoryStepInTime ==
    ASSUME Patient, TypeInv, TypeInv', OneTabInv, OneTabInv', TimelyInv, MemoryStep
    PROVE  TimelyInv' /\ (Scheduled => Scheduled')
<1>1. PICK m \in MemoryPages : MemoryNext(m) \/ (MayOpen /\ OpenMemory(m))
  BY DEF MemoryStep
<1>2. MemoryAlone(m) /\ UNCHANGED pageVars
  BY <1>1, MemoryPageIsAlone DEF MemoryStep
<1>3. clock \in Nat /\ Punctual
  BY PageTypes DEF TimelyInv
<1>4. CASE SchedulesReplaced(m)
  BY <1>2, <1>4, ReplacementIsTimely, ReplacementReschedules, MemoryTimelyFrame
<1>5. CASE \/ OpenMemory(m) \/ MemoryLoaded(m) \/ RefreshMemory(m) \/ RequestRecalculation(m)
           \/ ApplyRecalculation(m) \/ CancelRecalculation(m) \/ LeaveMemory(m) \/ ReadEvents(m)
           \/ ReadStates(m) \/ PreviewShown(m) \/ SendReplacement(m) \/ ReplacementRejected(m)
  <2>1. UNCHANGED storeVars
    BY <1>5 DEF OpenMemory, MemoryLoaded, RefreshMemory, RequestRecalculation, ApplyRecalculation,
                CancelRecalculation, LeaveMemory, ReadEvents, ReadStates, PreviewShown,
                SendReplacement, ReplacementRejected
  <2>2. KeepsSchedules /\ clock' = clock
    BY <2>1, StoreStaysKept DEF storeVars
  <2>3. Punctual' /\ (Scheduled => Scheduled')
    BY <1>3, <2>2, KeepsPunctual, KeepsScheduled
  <2>4. UpToDate(m)'
    BY <1>5, <2>1, MemoryStaysUpToDate
  <2>5. OtherMemoriesUntouched(m)
    BY <1>5, MemoryTurnsInOrder, MemoryReadsInOrder, ReplacementIsCurrent
  <2> QED
    BY <1>2, <2>3, <2>4, <2>5, MemoryTimelyFrame
<1>6. CASE AbandonMemory(m) \/ MemoryCallLost(m)
  BY <1>6, NothingFails DEF AbandonMemory, MemoryCallLost
<1> QED
  BY <1>1, <1>4, <1>5, <1>6 DEF MemoryNext, MemoryRuns

-------------------------------------------------------------------------------
\* So does a step of a library page: no other page is open.
LEMMA LibraryStepInTime ==
    ASSUME Patient, TypeInv, TypeInv', OneTabInv, OneTabInv', TimelyInv, LibraryStep
    PROVE  TimelyInv' /\ (Scheduled => Scheduled')
<1>1. PICK l \in LibraryPages : LibraryNext(l) \/ (MayOpen /\ \E j \in Jobs : Start(l, j))
  BY DEF LibraryStep
<1>2. LibraryAlone(l) /\ UNCHANGED <<machine, step, memory, memoryStep>>
  BY <1>1, LibraryPageIsAlone DEF LibraryStep, pageVars, memoryVars
<1>3. KeepsSchedules /\ clock' = clock /\ clock \in Nat /\ Punctual
  BY LibraryKeepsSchedules, PageTypes DEF TimelyInv
<1>4. Punctual' /\ (Scheduled => Scheduled')
  BY <1>3, KeepsPunctual, KeepsScheduled
<1>5. \A p \in PracticePages : OnTime(p)'
  BY <1>2 DEF OnTime, OneTabInv, PageInOrder, LibraryAlone, PracticeClosed
<1>6. \A m \in MemoryPages : UpToDate(m)'
  BY <1>2 DEF UpToDate, OneTabInv, MemoryInOrder, LibraryAlone, MemoryClosed
<1> QED
  BY <1>4, <1>5, <1>6 DEF TimelyInv

\* What was due stays due.
LEMMA EnvironmentInTime ==
    ASSUME TypeInv, TypeInv', OneTabInv, OneTabInv', TimelyInv, EnvironmentStep \/ UNCHANGED vars
    PROVE  TimelyInv' /\ (Scheduled => Scheduled')
<1>1. /\ UNCHANGED pageVars /\ UNCHANGED memoryVars
      /\ Tick \/ UNCHANGED storeVars
  BY DEF EnvironmentStep, LateCommit, OneTabInv, StoreInOrder, vars
<1>2. /\ words' = words /\ states' = states /\ events' = events /\ nextEvent' = nextEvent
      /\ clock \in Nat /\ clock' \in Nat /\ clock <= clock'
  BY <1>1, PageTypes DEF Tick, storeVars, tables
<1>3. Punctual' /\ (Scheduled => Scheduled')
  BY <1>2, StoreStaysKept, KeepsPunctual, KeepsScheduled DEF TimelyInv
<1>4. ASSUME NEW p \in PracticePages PROVE OnTime(p)'
  <2>1. UNCHANGED <<machine, step, asOf, candidate, currentItem, pending>> /\ OnTime(p)
    BY <1>1 DEF pageVars, TimelyInv
  <2>2. /\ asOf[p] \in Nat
        /\ step[p] = "getWord" => candidate[p].row.card.due \in Nat
        /\ machine[p] = "Ready" \/ step[p] \in {"check", "save"} => currentItem[p].row.card.due \in Nat
    BY DEF TypeInv, TypeOK, PracticeTypeOK, PracticeControl, PageControl, Item, StateRow, Card
  <2>3. \A request, item : AnswersInTime(request, item) => AnswersInTime(request, item)'
    <3> SUFFICES ASSUME NEW request, NEW item, AnswersInTime(request, item)
                 PROVE  AnswersInTime(request, item)'
      OBVIOUS
    <3>1. PICK now \in 0 .. clock, r \in Ratings :
            \E card \in PracticeResults(item.row.card, "scheduled", now, r) :
                /\ request = AnswerRequest(nextEvent - 1, item, card, now, r)
                /\ item.row.card.due <= now
                /\ \A e \in events : e.reviewedAt <= now
      BY DEF AnswersInTime
    <3>2. now \in 0 .. clock'
      BY <1>2
    <3> QED
      BY <1>2, <3>1, <3>2 DEF AnswersInTime
  <2> QED
    BY <1>2, <2>1, <2>2, <2>3 DEF OnTime
<1>5. ASSUME NEW m \in MemoryPages PROVE UpToDate(m)'
  <2>1. UNCHANGED <<memory, memoryStep, readEvents, preview, memoryPending>> /\ UpToDate(m)
    BY <1>1 DEF memoryVars, TimelyInv
  <2> QED
    BY <1>2, <2>1, ReplacementStays DEF UpToDate
<1> QED
  BY <1>3, <1>4, <1>5 DEF TimelyInv

\* Words start as their empty histories say.
LEMMA InitInTime == Init => TimelyInv /\ Scheduled
<1> SUFFICES ASSUME Init PROVE TimelyInv /\ Scheduled
  OBVIOUS
<1>1. events = {} /\ IsFiniteSet(events)
  BY FS_EmptySet DEF Init, StoreInit
<1>2. Punctual
  BY <1>1 DEF Punctual, OneAtATime, History, EventsOf
<1>3. \A p \in PracticePages : OnTime(p)
  BY DEF Init, PracticeInit, OnTime
<1>4. \A m \in MemoryPages : UpToDate(m)
  BY DEF Init, MemoryInit, UpToDate
<1>5. Scheduled
  <2>1. ASSUME NEW w \in WordIds, Exists(w)
        PROVE  states[w].card \in Replays(words[w].createdAt, EventsOf(events, w))
    <3>1. words[w].createdAt = 0 /\ states[w] = FreshRow(0)
      BY <2>1 DEF Init, StoreInit, Exists
    <3>2. EventsOf(events, w) = {}
      BY <1>1 DEF EventsOf
    <3>3. Replays(0, {}) = {InitialCard(0)}
      BY ReplayUnfolds, FS_EmptySet
    <3> QED
      BY <3>1, <3>2, <3>3 DEF FreshRow
  <2> QED
    BY <2>1 DEF Scheduled, History
<1> QED
  BY <1>2, <1>3, <1>4, <1>5 DEF TimelyInv

\* All steps.
LEMMA StepInTime ==
    ASSUME Patient
    PROVE  TypeInv /\ OneTabInv /\ TimelyInv /\ [Next]_vars =>
             TimelyInv' /\ (Fuzz = 0 /\ Scheduled => Scheduled')
<1> SUFFICES ASSUME TypeInv, OneTabInv, TimelyInv, [Next]_vars
             PROVE  TimelyInv' /\ (Fuzz = 0 /\ Scheduled => Scheduled')
  OBVIOUS
<1>1. TypeInv' /\ OneTabInv'
  BY StepTyped, StepInOrder
<1>2. CASE PracticeStep
  BY <1>1, <1>2, PracticeStepInTime
<1>3. CASE MemoryStep
  BY <1>1, <1>3, MemoryStepInTime
<1>4. CASE LibraryStep
  BY <1>1, <1>4, LibraryStepInTime
<1>5. CASE EnvironmentStep \/ UNCHANGED vars
  BY <1>1, <1>5, EnvironmentInTime
<1> QED
  BY <1>2, <1>3, <1>4, <1>5 DEF Next

\* The log of one tab is at all times punctual, and its pages know it.
LEMMA TimelyInvariant ==
    ASSUME Patient
    PROVE  Spec => []TimelyInv
<1>1. Init => TimelyInv
  BY InitInTime
<1>2. TypeInv /\ OneTabInv /\ TimelyInv /\ [Next]_vars => TimelyInv'
  BY StepInTime
<1> QED
  BY <1>1, <1>2, TypeInvariant, OneTabInvariant, PTL DEF Spec

\* Without fuzz a word's schedule is at all times what replayPracticeHistory makes of
\* its events: answers are given when the word is due and one after the other, and the
\* live scheduler of submitPracticeAnswer then agrees with the deterministic one.
THEOREM ScheduleAlwaysMatchesHistory ==
    ASSUME Patient, Fuzz = 0
    PROVE  Spec => []ScheduleMatchesHistory
<1>1. Init => Scheduled
  BY InitInTime
<1>2. TypeInv /\ OneTabInv /\ TimelyInv /\ Scheduled /\ [Next]_vars => Scheduled'
  BY StepInTime
<1>3. Scheduled => ScheduleMatchesHistory
  <2>1. \A w : EventsOf(EventsOf(events, w), w) = EventsOf(events, w)
    BY DEF EventsOf
  <2> QED
    BY <2>1 DEF Scheduled, History, ScheduleMatchesHistory, ReplaysOf
<1> QED
  BY <1>1, <1>2, <1>3, TypeInvariant, OneTabInvariant, TimelyInvariant, PTL DEF Spec

\* Applying ends well only by writing.
LEMMA ApplyingEnds ==
    ASSUME Patient, TypeInv, OneTabInv, [Next]_vars, NEW m \in MemoryPages,
           memoryStep[m] = "write" \/ memory[m] = "ApplyingRecalculation", memory'[m] = "Loading"
    PROVE  SchedulesReplaced(m)
<1>1. memory[m] \in {"CalculatingRecalculationPreview", "ApplyingRecalculation"}
  BY DEF OneTabInv, MemoryInOrder
<1>2. memory' # memory /\ DOMAIN memory = MemoryPages
  BY <1>1, MemoryTypes
<1>3. MemoryStep
  BY <1>2 DEF Next, PracticeStep, LibraryStep, EnvironmentStep, vars, memoryVars
<1>4. PICK n \in MemoryPages : MemoryNext(n) \/ (MayOpen /\ OpenMemory(n))
  BY <1>3 DEF MemoryStep
<1>5. MemoryAlone(n)
  BY <1>4, MemoryPageIsAlone
<1>6. n = m
  BY <1>1, <1>5 DEF MemoryAlone
<1>7. ~AbandonMemory(n) /\ ~MemoryCallLost(n)
  BY NothingFails DEF AbandonMemory, MemoryCallLost
<1> QED
  BY <1>1, <1>4, <1>6, <1>7, MemoryTypes
     DEF MemoryNext, MemoryRuns, OpenMemory, LeaveMemory, ForgetMemory, RefreshMemory,
         RequestRecalculation, ApplyRecalculation, CancelRecalculation, MemoryLoaded, ReadEvents,
         ReadStates, PreviewShown, SendReplacement, ReplacementRejected, RecalculationStops

\* A recalculation that was applied (replaceMemoryStates of d1-store.ts) leaves every
\* active word with a schedule its history gives.
THEOREM RecalculationAlwaysTakes ==
    ASSUME Patient
    PROVE  Spec => RecalculationTakes
<1>1. TypeInv /\ OneTabInv /\ TimelyInv /\ [Next]_vars =>
        [\A m \in MemoryPages :
           (memoryStep[m] = "write" /\ memory'[m] = "Loading") =>
              \A w \in WordIds : (Active(w) /\ states[w] # None) =>
                  states'[w].card \in ReplaysOf(w, EventsOf(events, w))]_vars
  <2> SUFFICES ASSUME TypeInv, OneTabInv, TimelyInv, [Next]_vars, NEW m \in MemoryPages,
                      memoryStep[m] = "write", memory'[m] = "Loading",
                      NEW w \in WordIds, Active(w), states[w] # None
               PROVE  states'[w].card \in ReplaysOf(w, EventsOf(events, w))
    OBVIOUS
  <2>1. SchedulesReplaced(m)
    BY ApplyingEnds
  <2>2. w \in Replayed(states)
    BY DEF Replayed
  <2>3. states'[w].card \in ReplaysOf(w, events)
    BY <2>1, <2>2, ReplacementTakes
  <2>4. EventsOf(EventsOf(events, w), w) = EventsOf(events, w)
    BY DEF EventsOf
  <2> QED
    BY <2>3, <2>4 DEF ReplaysOf
<1> QED
  BY <1>1, TypeInvariant, OneTabInvariant, TimelyInvariant, PTL DEF Spec, RecalculationTakes

\* A word that is replayed has one card to get.
LEMMA OneCardEach ==
    ASSUME TypeInv, Punctual, NEW w \in Replayed(states)
    PROVE  OneCard(ReplaysOf(w, events))
<1>1. w \in WordIds
  BY DEF Replayed
<1>2. IsFiniteSet(EventsOf(events, w)) /\ OneAtATime(EventsOf(events, w))
  BY <1>1, FS_Subset DEF EventsOf, Punctual, History
<1>3. \A e \in EventsOf(events, w) : e.reviewedAt \in Nat
  BY EventTypes DEF EventsOf
<1> QED
  BY <1>2, <1>3, OneReplay DEF ReplaysOf

\* What a recalculation changes is what its confirmation announced: the effect of
\* ApplyingRecalculation reads and calculates everything once more, and neither the store
\* nor the order of a word's events leaves it another choice.
THEOREM AlwaysAppliedAsPreviewed ==
    ASSUME Patient
    PROVE  Spec => AppliedAsPreviewed
<1>1. TypeInv /\ OneTabInv /\ TimelyInv /\ [Next]_vars =>
        [(\A e, f \in events : e.word = f.word /\ e.reviewedAt = f.reviewedAt => e = f) =>
           \A m \in MemoryPages :
              (memory[m] = "ApplyingRecalculation" /\ memory'[m] = "Loading") =>
                 Given(memoryPending[m].rows) = preview[m]]_vars
  <2> SUFFICES ASSUME TypeInv, OneTabInv, TimelyInv, [Next]_vars, NEW m \in MemoryPages,
                      memory[m] = "ApplyingRecalculation", memory'[m] = "Loading"
               PROVE  Given(memoryPending[m].rows) = preview[m]
    OBVIOUS
  <2>1. memoryStep[m] = "write" /\ UpToDate(m) /\ Punctual
    BY ApplyingEnds DEF SchedulesReplaced, TimelyInv
  <2>2. PICK cards \in ReplayedCards(states, events) :
          memoryPending[m].rows = ChangedStates(states, cards)
    BY <2>1 DEF UpToDate, Replacement
  <2>3. PICK announced \in ReplayedCards(states, events) :
          preview[m] = Given(ChangedStates(states, announced))
    BY <2>1 DEF UpToDate, Announcement
  <2>4. \A w \in Replayed(states) : cards[w] = announced[w]
    <3> TAKE w \in Replayed(states)
    <3>1. cards[w] \in ReplaysOf(w, events) /\ announced[w] \in ReplaysOf(w, events)
      BY DEF ReplayedCards
    <3> QED
      BY <2>1, <3>1, OneCardEach DEF OneCard
  <2>5. ChangedStates(states, cards) = ChangedStates(states, announced)
    BY <2>4 DEF ChangedStates
  <2> QED
    BY <2>2, <2>3, <2>5
<1> QED
  BY <1>1, TypeInvariant, OneTabInvariant, TimelyInvariant, PTL DEF Spec, AppliedAsPreviewed
==============================================================================
