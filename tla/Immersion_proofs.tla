--------------------------- MODULE Immersion_proofs ---------------------------
(***************************************************************************)
(* What holds of the application for every set of words, pages and         *)
(* operations, every bound and every interleaving.                         *)
(***************************************************************************)
EXTENDS Immersion, Library_proofs

(***************************************************************************)
(* Control: a machine has what its next step needs.                        *)
(***************************************************************************)
PageControl(p) ==
    /\ machine[p] = "Ready" => currentItem[p] \in Item
    /\ step[p] \in {"check", "save"} => currentItem[p] \in Item /\ rating[p] \in Ratings
    /\ step[p] = "save" => pending[p] \in SaveRequest
    /\ step[p] = "words" => poolRows[p] \in StateRows
    /\ step[p] = "getWord" => candidate[p] \in Item

PracticeControl == \A p \in PracticePages : PageControl(p)

MemoryControl ==
    \A m \in MemoryPages : memoryStep[m] = "write" => memoryPending[m] \in ReplaceRequest

TypeInv == TypeOK /\ PracticeControl /\ MemoryControl /\ LibraryControl

LEMMA InitTyped == Init => TypeInv
<1> SUFFICES ASSUME Init PROVE TypeInv
  OBVIOUS
<1>1. StoreTypeOK
  BY StoreStartsTyped DEF Init
<1>2. PracticeTypeOK /\ PracticeControl
  BY DEF Init, PracticeInit, PracticeTypeOK, PracticeControl, PageControl, MachineStates, Steps
<1>3. MemoryTypeOK /\ MemoryControl
  BY DEF Init, MemoryInit, MemoryTypeOK, MemoryControl, MemoryStates, MemorySteps, NoRows, StateRows
<1>4. LibraryTypeOK /\ LibraryControl
  BY EmptySeq DEF Init, LibraryInit, LibraryTypeOK, LibraryControl
<1> QED
  BY <1>1, <1>2, <1>3, <1>4 DEF TypeInv, TypeOK

-------------------------------------------------------------------------------
(***************************************************************************)
(* Store and channel.                                                      *)
(***************************************************************************)
LEMMA EnvironmentTyped ==
    ASSUME TypeInv, EnvironmentStep
    PROVE  TypeInv'
<1>1. StoreTypeOK'
  <2>1. CASE Tick
    BY <2>1, BoundsAssumption DEF Tick, tables, channel, StoreTypeOK, TypeInv, TypeOK
  <2>2. CASE LateCommit
    BY <2>2, CommitStoreType DEF LateCommit, TypeInv, TypeOK, StoreTypeOK
  <2> QED
    BY <2>1, <2>2 DEF EnvironmentStep
<1>2. (PracticeTypeOK /\ PracticeControl)'
  BY DEF EnvironmentStep, pageVars, TypeInv, TypeOK, PracticeTypeOK, PracticeControl, PageControl
<1>3. (MemoryTypeOK /\ MemoryControl)'
  BY DEF EnvironmentStep, memoryVars, TypeInv, TypeOK, MemoryTypeOK, MemoryControl
<1>4. (LibraryTypeOK /\ LibraryControl)'
  BY DEF EnvironmentStep, libraryVars, TypeInv, TypeOK, LibraryTypeOK, LibraryControl
<1> QED
  BY <1>1, <1>2, <1>3, <1>4 DEF TypeInv, TypeOK

-------------------------------------------------------------------------------
(***************************************************************************)
(* Practice pages.                                                         *)
(***************************************************************************)
PracticeTyped == PracticeTypeOK /\ PracticeControl

LEMMA PageOpens ==
    ASSUME TypeInv, NEW p \in PracticePages, Open(p) \/ Refresh(p)
    PROVE  PracticeTyped'
BY DEF Open, Refresh, EnterLoading, storeVars, TypeInv, TypeOK, StoreTypeOK, PracticeTyped,
       PracticeTypeOK, PracticeControl, PageControl, MachineStates, Steps

LEMMA PageForgets ==
    ASSUME TypeInv, NEW p \in PracticePages, Forget(p)
    PROVE  PracticeTyped'
BY DEF Forget, TypeInv, TypeOK, PracticeTyped,
       PracticeTypeOK, PracticeControl, PageControl, MachineStates, Steps

LEMMA PageReveals ==
    ASSUME TypeInv, NEW p \in PracticePages, Reveal(p)
    PROVE  PracticeTyped'
BY DEF Reveal, TypeInv, TypeOK, PracticeTyped, PracticeTypeOK, PracticeControl, PageControl

LEMMA PageRates ==
    ASSUME TypeInv, NEW p \in PracticePages, NEW r \in Ratings, Rate(p, r)
    PROVE  PracticeTyped'
BY DEF Rate, TypeInv, TypeOK, PracticeTyped,
       PracticeTypeOK, PracticeControl, PageControl, MachineStates, Steps

LEMMA PageRejects ==
    ASSUME TypeInv, NEW p \in PracticePages, step[p] \in {"check", "save"}, RejectAnswer(p)
    PROVE  PracticeTyped'
BY DEF RejectAnswer, TypeInv, TypeOK, PracticeTyped,
       PracticeTypeOK, PracticeControl, PageControl, MachineStates, Steps

\* submitPracticeAnswer sends a request of the right type.
LEMMA AnswerRequestType ==
    ASSUME NEW id \in Nat, NEW item \in Item, NEW card \in Card, NEW now \in Nat, NEW r \in Ratings
    PROVE  AnswerRequest(id, item, card, now, r) \in SaveRequest
<1>1. item.word \in WordIds /\ item.row \in StateRow /\ "scheduled" \in Kinds
  BY DEF Item, Kinds
<1> QED
  BY <1>1, AnsweredRowType, AnswerEventType DEF AnswerRequest, SaveRequest

\* The item on screen while an answer to it is being submitted.
LEMMA SubmittedItem ==
    ASSUME TypeInv, NEW p \in PracticePages, step[p] \in {"check", "save"}
    PROVE  /\ currentItem[p] \in Item
           /\ rating[p] \in Ratings
           /\ \A card \in PracticeResults(currentItem[p].row.card, "scheduled", clock, rating[p]) :
                card \in Card
<1>1. currentItem[p] \in Item /\ rating[p] \in Ratings
  BY DEF TypeInv, PracticeControl, PageControl
<1>2. currentItem[p].row.card \in Card /\ "scheduled" \in Kinds
  BY <1>1 DEF Item, StateRow, Kinds
<1>3. clock \in Nat
  BY BoundsAssumption DEF TypeInv, TypeOK, StoreTypeOK
<1> QED
  BY <1>1, <1>2, <1>3, SchedulersReturnCards

LEMMA PageSends ==
    ASSUME TypeInv, NEW p \in PracticePages, SendAnswer(p)
    PROVE  PracticeTyped' /\ StoreTypeOK'
<1>1. clock \in Nat /\ nextEvent \in Nat
  BY BoundsAssumption DEF TypeInv, TypeOK, StoreTypeOK
<1>2. PICK card \in PracticeResults(currentItem[p].row.card, "scheduled", clock, rating[p]) :
        pending' = [pending EXCEPT ![p] =
            AnswerRequest(nextEvent, currentItem[p], card, clock, rating[p])]
  BY DEF SendAnswer
<1> DEFINE request == AnswerRequest(nextEvent, currentItem[p], card, clock, rating[p])
<1>3. request \in SaveRequest
  BY <1>1, SubmittedItem, AnswerRequestType DEF SendAnswer
<1> HIDE DEF request
<1>4. pending' = [pending EXCEPT ![p] = request]
  BY <1>2 DEF request
<1>5. PracticeTypeOK'
  BY <1>1, <1>3, <1>4 DEF SendAnswer, TypeInv, TypeOK, PracticeTypeOK, Steps
<1>6. PracticeControl'
  BY <1>3, <1>4 DEF SendAnswer, TypeInv, TypeOK, PracticeTypeOK, PracticeControl, PageControl
<1>7. StoreTypeOK'
  BY <1>1 DEF SendAnswer, TypeInv, TypeOK, StoreTypeOK, tables, channel
<1> QED
  BY <1>5, <1>6, <1>7 DEF PracticeTyped

LEMMA PageSaves ==
    ASSUME TypeInv, NEW p \in PracticePages, AnswerSaved(p)
    PROVE  PracticeTyped' /\ StoreTypeOK'
<1>1. PracticeTyped'
  BY DEF AnswerSaved, TypeInv, TypeOK, PracticeTyped,
         PracticeTypeOK, PracticeControl, PageControl, Steps
<1>2. pending[p] \in Request
  BY DEF AnswerSaved, TypeInv, PracticeControl, PageControl, Request
<1>3. StoreTypeOK'
  BY <1>2, CommitStoreType DEF AnswerSaved, channel, TypeInv, TypeOK
<1> QED
  BY <1>1, <1>3

LEMMA PageReads ==
    ASSUME TypeInv, NEW p \in PracticePages, ReadPool(p)
    PROVE  PracticeTyped'
BY DEF ReadPool, TypeInv, TypeOK, StoreTypeOK, PracticeTyped,
       PracticeTypeOK, PracticeControl, PageControl, Steps

LEMMA PageSelects ==
    ASSUME TypeInv, NEW p \in PracticePages, SelectWord(p)
    PROVE  PracticeTyped'
<1>1. poolRows[p] \in StateRows
  BY DEF SelectWord, TypeInv, PracticeControl, PageControl
<1>2. PICK w \in Selectable(poolRows[p], asOf[p]) :
        candidate' = [candidate EXCEPT ![p] = [word |-> w, row |-> poolRows[p][w]]]
  BY DEF SelectWord
<1>3. w \in WordIds /\ poolRows[p][w] # None
  BY DEF Selectable, LongestDue, DueIn
<1>4. [word |-> w, row |-> poolRows[p][w]] \in Item
  BY <1>1, <1>3 DEF StateRows, Item
<1> QED
  BY <1>2, <1>4
     DEF SelectWord, TypeInv, TypeOK, PracticeTyped,
         PracticeTypeOK, PracticeControl, PageControl, Steps

LEMMA PageShowsNothing ==
    ASSUME TypeInv, NEW p \in PracticePages, step[p] \in {"words", "getWord"},
           NEW resting \in {"EmptyLibrary", "Complete"}, ShowNothing(p, resting, None),
           \/ /\ poolRows' = [poolRows EXCEPT ![p] = None]
              /\ UNCHANGED candidate
           \/ /\ candidate' = [candidate EXCEPT ![p] = None]
              /\ UNCHANGED poolRows,
           UNCHANGED pending, UNCHANGED storeVars
    PROVE  PracticeTyped'
BY DEF ShowNothing, EnterLoading, storeVars, TypeInv, TypeOK, StoreTypeOK, PracticeTyped,
       PracticeTypeOK, PracticeControl, PageControl, MachineStates, Steps

LEMMA PageShowsItem ==
    ASSUME TypeInv, NEW p \in PracticePages, ItemLoaded(p)
    PROVE  PracticeTyped'
<1>1. candidate[p] \in Item
  BY DEF ItemLoaded, TypeInv, PracticeControl, PageControl
<1> QED
  BY <1>1 DEF ItemLoaded, ShowItem, TypeInv, TypeOK, PracticeTyped,
              PracticeTypeOK, PracticeControl, PageControl, MachineStates, Steps

LEMMA PageFailsToSelect ==
    ASSUME TypeInv, NEW p \in PracticePages, SelectionFailed(p)
    PROVE  PracticeTyped'
<1>1. clock \in Nat
  BY BoundsAssumption DEF TypeInv, TypeOK, StoreTypeOK
<1>2. /\ step[p] \in {"pool", "words", "getWord"}
      /\ poolRows' = [poolRows EXCEPT ![p] = None]
      /\ candidate' = [candidate EXCEPT ![p] = None]
      /\ UNCHANGED pending
  BY DEF SelectionFailed
<1>3. CASE machine[p] = "Loading"
  BY <1>2, <1>3
     DEF SelectionFailed, TypeInv, TypeOK, PracticeTyped,
         PracticeTypeOK, PracticeControl, PageControl, MachineStates, Steps
<1>4. CASE machine[p] # "Loading"
  <2>1. ShowNothing(p, "Failure", SavedNotice)
    BY <1>4 DEF SelectionFailed
  <2>2. /\ machine' = [machine EXCEPT ![p] = "Loading"]
        /\ step' = [step EXCEPT ![p] = "pool"]
        /\ asOf' = [asOf EXCEPT ![p] = clock]
        /\ message' = [message EXCEPT ![p] = SavedNotice]
        /\ currentItem' = [currentItem EXCEPT ![p] = None]
        /\ rating' = [rating EXCEPT ![p] = None]
        /\ answerVisible' = [answerVisible EXCEPT ![p] = FALSE]
    BY <1>4, <2>1 DEF ShowNothing, EnterLoading
  <2>3. PracticeTypeOK'
    BY <1>1, <1>2, <2>2 DEF TypeInv, TypeOK, PracticeTypeOK, MachineStates, Steps
  <2>4. PracticeControl'
    BY <1>2, <2>2 DEF TypeInv, TypeOK, PracticeTypeOK, PracticeControl, PageControl
  <2> QED
    BY <2>3, <2>4 DEF PracticeTyped
<1> QED
  BY <1>3, <1>4

\* A failed call leaves at most the pending request behind.
LEMMA PageLosesAnswer ==
    ASSUME TypeInv, NEW p \in PracticePages, AnswerLost(p)
    PROVE  PracticeTyped' /\ StoreTypeOK'
<1>1. PracticeTyped'
  BY PageRejects DEF AnswerLost
<1>2. step[p] = "save" => pending[p] \in Request
  BY DEF TypeInv, PracticeControl, PageControl, Request
<1>3. stray' \subseteq Request
  BY <1>2 DEF AnswerLost, TypeInv, TypeOK, StoreTypeOK
<1> QED
  BY <1>1, <1>3, StrayStoreType DEF AnswerLost, TypeInv, TypeOK

LEMMA PageIsAbandoned ==
    ASSUME TypeInv, NEW p \in PracticePages, Abandon(p)
    PROVE  PracticeTyped' /\ StoreTypeOK'
<1>1. PracticeTyped'
  BY PageForgets DEF Abandon
<1>2. pending[p] # None => pending[p] \in Request
  BY DEF TypeInv, TypeOK, PracticeTypeOK, Request
<1>3. stray' \subseteq Request
  BY <1>2 DEF Abandon, TypeInv, TypeOK, StoreTypeOK
<1> QED
  BY <1>1, <1>3, StrayStoreType DEF Abandon, TypeInv, TypeOK

LEMMA PracticeStepTyped ==
    ASSUME TypeInv, PracticeStep
    PROVE  TypeInv'
<1>1. PICK p \in PracticePages : PracticeNext(p) \/ Open(p)
  BY DEF PracticeStep
<1>2. PracticeTyped' /\ StoreTypeOK'
  <2> USE StoreUnchangedType DEF TypeInv, TypeOK
  <2>1. CASE Open(p) \/ Refresh(p)
    BY <2>1, PageOpens DEF Open, Refresh
  <2>2. CASE Leave(p)
    BY <2>2, PageForgets DEF Leave
  <2>3. CASE Abandon(p)
    BY <2>3, PageIsAbandoned
  <2>4. CASE Reveal(p)
    BY <2>4, PageReveals DEF Reveal
  <2>5. CASE \E r \in Ratings : Rate(p, r)
    BY <2>5, PageRates DEF Rate
  <2>6. CASE WordNoLongerActive(p)
    BY <2>6, PageRejects DEF WordNoLongerActive
  <2>7. CASE SendAnswer(p)
    BY <2>7, PageSends
  <2>8. CASE AnswerSaved(p)
    BY <2>8, PageSaves
  <2>9. CASE AnswerRejected(p)
    BY <2>9, PageRejects DEF AnswerRejected
  <2>10. CASE AnswerLost(p)
    BY <2>10, PageLosesAnswer
  <2>11. CASE ReadPool(p)
    BY <2>11, PageReads DEF ReadPool
  <2>12. CASE SelectWord(p)
    BY <2>12, PageSelects DEF SelectWord
  <2>13. CASE NothingToSelect(p)
    BY <2>13, PageShowsNothing DEF NothingToSelect
  <2>14. CASE ItemLoaded(p)
    BY <2>14, PageShowsItem DEF ItemLoaded
  <2>15. CASE ItemVanished(p)
    BY <2>15, PageShowsNothing DEF ItemVanished
  <2>16. CASE SelectionFailed(p)
    <3>1. stray' \subseteq Request
      BY <2>16 DEF SelectionFailed, StoreTypeOK
    <3> QED
      BY <2>16, <3>1, PageFailsToSelect, StrayStoreType DEF SelectionFailed
  <2> QED
    BY <1>1, <2>1, <2>2, <2>3, <2>4, <2>5, <2>6, <2>7, <2>8, <2>9, <2>10, <2>11, <2>12,
       <2>13, <2>14, <2>15, <2>16 DEF PracticeNext, PracticeRuns
<1>3. (MemoryTypeOK /\ MemoryControl)'
  BY DEF PracticeStep, memoryVars, TypeInv, TypeOK, MemoryTypeOK, MemoryControl
<1>4. (LibraryTypeOK /\ LibraryControl)'
  BY DEF PracticeStep, libraryVars, TypeInv, TypeOK, LibraryTypeOK, LibraryControl
<1> QED
  BY <1>2, <1>3, <1>4 DEF TypeInv, TypeOK, PracticeTyped

-------------------------------------------------------------------------------
(***************************************************************************)
(* Memory pages.                                                           *)
(***************************************************************************)
MemoryTyped == MemoryTypeOK /\ MemoryControl

LEMMA RowsReset == NoRows \in StateRows
BY DEF NoRows, StateRows

\* Steps that neither read, send nor wait.
LEMMA MemoryTurns ==
    ASSUME TypeInv, NEW m \in MemoryPages,
           \/ OpenMemory(m) \/ MemoryLoaded(m) \/ RefreshMemory(m) \/ RequestRecalculation(m)
           \/ ApplyRecalculation(m) \/ CancelRecalculation(m)
    PROVE  MemoryTyped' /\ StoreTypeOK'
<1>1. MemoryTyped'
  BY DEF OpenMemory, MemoryLoaded, RefreshMemory, RequestRecalculation, ApplyRecalculation,
         CancelRecalculation, TypeInv, TypeOK, MemoryTyped, MemoryTypeOK, MemoryControl,
         MemoryStates, MemorySteps
<1>2. UNCHANGED storeVars
  BY DEF OpenMemory, MemoryLoaded, RefreshMemory, RequestRecalculation, ApplyRecalculation,
         CancelRecalculation
<1> QED
  BY <1>1, <1>2, StoreUnchangedType DEF TypeInv, TypeOK

LEMMA MemoryForgets ==
    ASSUME TypeInv, NEW m \in MemoryPages, ForgetMemory(m)
    PROVE  MemoryTyped'
BY RowsReset DEF ForgetMemory, TypeInv, TypeOK, MemoryTyped, MemoryTypeOK, MemoryControl,
                 MemoryStates, MemorySteps

LEMMA MemoryReads ==
    ASSUME TypeInv, NEW m \in MemoryPages, ReadEvents(m) \/ ReadStates(m)
    PROVE  MemoryTyped'
BY DEF ReadEvents, ReadStates, TypeInv, TypeOK, StoreTypeOK, MemoryTyped, MemoryTypeOK,
       MemoryControl, MemorySteps

LEMMA MemoryEnds ==
    ASSUME TypeInv, NEW m \in MemoryPages, EndEffect(m),
           memory' \in [MemoryPages -> MemoryStates],
           preview' \in [MemoryPages -> (SUBSET WordIds) \cup {None}],
           memoryNotice' \in [MemoryPages -> {None, "unchanged", "recalculated"}]
    PROVE  MemoryTyped'
BY RowsReset DEF EndEffect, TypeInv, TypeOK, MemoryTyped, MemoryTypeOK, MemoryControl, MemorySteps

LEMMA MemoryPreviews ==
    ASSUME TypeInv, NEW m \in MemoryPages, PreviewShown(m)
    PROVE  MemoryTyped'
<1>1. \A rows : Given(rows) \subseteq WordIds
  BY DEF Given
<1>2. preview' \in [MemoryPages -> (SUBSET WordIds) \cup {None}]
  BY <1>1 DEF PreviewShown, TypeInv, TypeOK, MemoryTypeOK
<1>3. /\ memory' \in [MemoryPages -> MemoryStates]
      /\ memoryNotice' \in [MemoryPages -> {None, "unchanged", "recalculated"}]
  BY DEF PreviewShown, TypeInv, TypeOK, MemoryTypeOK, MemoryStates
<1> QED
  BY <1>2, <1>3, MemoryEnds DEF PreviewShown

LEMMA MemorySends ==
    ASSUME TypeInv, NEW m \in MemoryPages, SendReplacement(m)
    PROVE  MemoryTyped'
<1>1. PICK rows \in StateRows :
        memoryPending' = [memoryPending EXCEPT ![m] = [op |-> "replaceMemoryStates", rows |-> rows]]
  BY DEF SendReplacement
<1>2. [op |-> "replaceMemoryStates", rows |-> rows] \in ReplaceRequest
  BY DEF ReplaceRequest
<1> QED
  BY <1>1, <1>2 DEF SendReplacement, TypeInv, TypeOK, MemoryTyped, MemoryTypeOK, MemoryControl,
                    MemorySteps

LEMMA MemoryWrites ==
    ASSUME TypeInv, NEW m \in MemoryPages, SchedulesReplaced(m)
    PROVE  MemoryTyped' /\ StoreTypeOK'
<1>1. /\ memory' \in [MemoryPages -> MemoryStates]
      /\ preview' \in [MemoryPages -> (SUBSET WordIds) \cup {None}]
      /\ memoryNotice' \in [MemoryPages -> {None, "unchanged", "recalculated"}]
  BY DEF SchedulesReplaced, TypeInv, TypeOK, MemoryTypeOK, MemoryStates
<1>2. MemoryTyped'
  BY <1>1, MemoryEnds DEF SchedulesReplaced
<1>3. memoryPending[m] \in Request
  BY DEF SchedulesReplaced, TypeInv, MemoryControl, Request
<1> QED
  BY <1>2, <1>3, CommitStoreType DEF SchedulesReplaced, channel, TypeInv, TypeOK

LEMMA MemoryStops ==
    ASSUME TypeInv, NEW m \in MemoryPages, RecalculationStops(m)
    PROVE  MemoryTyped'
<1>1. /\ memory' \in [MemoryPages -> MemoryStates]
      /\ preview' \in [MemoryPages -> (SUBSET WordIds) \cup {None}]
      /\ memoryNotice' \in [MemoryPages -> {None, "unchanged", "recalculated"}]
  BY DEF RecalculationStops, TypeInv, TypeOK, MemoryTypeOK, MemoryStates
<1> QED
  BY <1>1, MemoryEnds DEF RecalculationStops

LEMMA MemoryIsAbandoned ==
    ASSUME TypeInv, NEW m \in MemoryPages, AbandonMemory(m)
    PROVE  MemoryTyped' /\ StoreTypeOK'
<1>1. memoryPending[m] # None => memoryPending[m] \in Request
  BY DEF TypeInv, TypeOK, MemoryTypeOK, Request
<1>2. stray' \subseteq Request
  BY <1>1 DEF AbandonMemory, TypeInv, TypeOK, StoreTypeOK
<1> QED
  BY <1>2, MemoryForgets, StrayStoreType DEF AbandonMemory, TypeInv, TypeOK

LEMMA MemoryLosesCall ==
    ASSUME TypeInv, NEW m \in MemoryPages, MemoryCallLost(m)
    PROVE  MemoryTyped' /\ StoreTypeOK'
<1>1. memoryStep[m] = "write" => memoryPending[m] \in Request
  BY DEF TypeInv, MemoryControl, Request
<1>2. stray' \subseteq Request
  BY <1>1 DEF MemoryCallLost, TypeInv, TypeOK, StoreTypeOK
<1>3. MemoryTyped'
  <2>1. CASE /\ memory' = [memory EXCEPT ![m] = "Failure"]
             /\ UNCHANGED <<memoryStep, readEvents, readStates, preview, memoryNotice, memoryPending>>
    BY <2>1 DEF TypeInv, TypeOK, MemoryTyped, MemoryTypeOK, MemoryControl, MemoryStates
  <2>2. CASE RecalculationStops(m)
    BY <2>2, MemoryStops
  <2> QED
    BY <2>1, <2>2 DEF MemoryCallLost
<1> QED
  BY <1>2, <1>3, StrayStoreType DEF MemoryCallLost, TypeInv, TypeOK

LEMMA MemoryStepTyped ==
    ASSUME TypeInv, MemoryStep
    PROVE  TypeInv'
<1>1. PICK m \in MemoryPages : MemoryNext(m) \/ OpenMemory(m)
  BY DEF MemoryStep
<1>2. MemoryTyped' /\ StoreTypeOK'
  <2> USE StoreUnchangedType DEF TypeInv, TypeOK
  <2>1. CASE \/ OpenMemory(m) \/ MemoryLoaded(m) \/ RefreshMemory(m) \/ RequestRecalculation(m)
             \/ ApplyRecalculation(m) \/ CancelRecalculation(m)
    BY <2>1, MemoryTurns
  <2>2. CASE LeaveMemory(m)
    BY <2>2, MemoryForgets DEF LeaveMemory
  <2>3. CASE AbandonMemory(m)
    BY <2>3, MemoryIsAbandoned
  <2>4. CASE ReadEvents(m) \/ ReadStates(m)
    BY <2>4, MemoryReads DEF ReadEvents, ReadStates
  <2>5. CASE PreviewShown(m)
    BY <2>5, MemoryPreviews DEF PreviewShown
  <2>6. CASE SendReplacement(m)
    BY <2>6, MemorySends DEF SendReplacement
  <2>7. CASE SchedulesReplaced(m)
    BY <2>7, MemoryWrites
  <2>8. CASE ReplacementRejected(m)
    BY <2>8, MemoryStops DEF ReplacementRejected
  <2>9. CASE MemoryCallLost(m)
    BY <2>9, MemoryLosesCall
  <2> QED
    BY <1>1, <2>1, <2>2, <2>3, <2>4, <2>5, <2>6, <2>7, <2>8, <2>9 DEF MemoryNext, MemoryRuns
<1>3. PracticeTyped'
  BY DEF MemoryStep, pageVars, TypeInv, TypeOK, PracticeTyped, PracticeTypeOK, PracticeControl,
         PageControl
<1>4. (LibraryTypeOK /\ LibraryControl)'
  BY DEF MemoryStep, libraryVars, TypeInv, TypeOK, LibraryTypeOK, LibraryControl
<1> QED
  BY <1>2, <1>3, <1>4 DEF TypeInv, TypeOK, PracticeTyped, MemoryTyped

-------------------------------------------------------------------------------
(***************************************************************************)
(* Library operations.                                                     *)
(***************************************************************************)
LEMMA LibraryStepTyped ==
    ASSUME TypeInv, LibraryStep
    PROVE  TypeInv'
<1>1. PICK l \in LibraryPages : LibraryNext(l) \/ \E j \in Jobs : Start(l, j)
  BY DEF LibraryStep
<1>0. StoreTypeOK /\ LibraryTyped
  BY DEF TypeInv, TypeOK, LibraryTyped
<1>2. LibraryTyped' /\ StoreTypeOK'
  <2> USE <1>0, StoreUnchangedType
  <2>1. CASE \E j \in Jobs : Start(l, j)
    BY <2>1, JobStarts, JobsAssumption DEF Start
  <2>2. CASE AddWords(l)
    BY <2>2, WordsAdded
  <2>3. CASE UpdateWordEntry(l)
    BY <2>3, WordEntryUpdated DEF UpdateWordEntry
  <2>4. CASE ChangeWordArchive(l)
    BY <2>4, ArchiveChanged DEF ChangeWordArchive
  <2>5. CASE DeleteWordEntry(l)
    BY <2>5, WordEntryDeleted DEF DeleteWordEntry
  <2>6. CASE DeleteSelectedWordEntries(l)
    BY <2>6, SelectedEntriesDeleted DEF DeleteSelectedWordEntries
  <2>7. CASE ImportExampleEntries(l)
    BY <2>7, ExamplesImported DEF ImportExampleEntries
  <2>8. CASE RefuseJob(l)
    BY <2>8, JobFinishes DEF RefuseJob
  <2>9. CASE MutationApplied(l)
    BY <2>9, LibraryWrites
  <2>10. CASE Reloaded(l)
    BY <2>10, JobFinishes DEF Reloaded
  <2>11. CASE LibraryCallLost(l)
    BY <2>11, LibraryLosesCall
  <2> QED
    BY <1>1, <2>1, <2>2, <2>3, <2>4, <2>5, <2>6, <2>7, <2>8, <2>9, <2>10, <2>11
       DEF LibraryNext, LibraryRuns
<1>3. PracticeTyped'
  BY DEF LibraryStep, pageVars, TypeInv, TypeOK, PracticeTyped, PracticeTypeOK, PracticeControl,
         PageControl
<1>4. MemoryTyped'
  BY DEF LibraryStep, memoryVars, TypeInv, TypeOK, MemoryTyped, MemoryTypeOK, MemoryControl
<1> QED
  BY <1>2, <1>3, <1>4 DEF TypeInv, TypeOK, PracticeTyped, MemoryTyped, LibraryTyped

-------------------------------------------------------------------------------
LEMMA NothingTyped ==
    ASSUME TypeInv, UNCHANGED vars
    PROVE  TypeInv'
<1>1. StoreTypeOK'
  BY StoreUnchangedType DEF TypeInv, TypeOK, vars
<1>2. PracticeTyped'
  BY DEF vars, pageVars, TypeInv, TypeOK, PracticeTyped, PracticeTypeOK, PracticeControl, PageControl
<1>3. MemoryTyped'
  BY DEF vars, memoryVars, TypeInv, TypeOK, MemoryTyped, MemoryTypeOK, MemoryControl
<1>4. LibraryTyped'
  BY DEF vars, libraryVars, TypeInv, TypeOK, LibraryTyped, LibraryTypeOK, LibraryControl
<1> QED
  BY <1>1, <1>2, <1>3, <1>4 DEF TypeInv, TypeOK, PracticeTyped, MemoryTyped, LibraryTyped

LEMMA StepTyped == TypeInv /\ [Next]_vars => TypeInv'
BY PracticeStepTyped, MemoryStepTyped, LibraryStepTyped, EnvironmentTyped, NothingTyped DEF Next

\* Types, and which call of an effect goes with which state of its machine.
THEOREM TypeInvariant == Spec => []TypeInv
BY InitTyped, StepTyped, PTL DEF Spec

(***************************************************************************)
(* Every table, request and page context is of its type, and a machine in  *)
(* the middle of an effect holds what the next call needs.                 *)
(***************************************************************************)
THEOREM TypeCorrect == Spec => []TypeOK
<1>1. TypeInv => TypeOK
  BY DEF TypeInv
<1> QED
  BY <1>1, TypeInvariant, PTL

-------------------------------------------------------------------------------
(***************************************************************************)
(* Safety of the application, for every set of words, pages and            *)
(* operations and every interleaving.  All of it goes by what is in        *)
(* flight: the tables change only when a request that is in flight runs.   *)
(***************************************************************************)
InFlight ==
    stray \cup {pending[p] : p \in {q \in PracticePages : step[q] = "save"}}
          \cup {memoryPending[m] : m \in {k \in MemoryPages : memoryStep[k] = "write"}}
          \cup {Head(queue[l]) : l \in {k \in LibraryPages : jobStep[k] = "write"}}

LEMMA InFlightType == TypeInv => InFlight \subseteq Request
<1> SUFFICES ASSUME TypeInv PROVE InFlight \subseteq Request
  OBVIOUS
<1>1. stray \subseteq Request
  BY DEF TypeInv, TypeOK, StoreTypeOK
<1>2. \A p \in PracticePages : step[p] = "save" => pending[p] \in Request
  BY DEF TypeInv, PracticeControl, PageControl, Request
<1>3. \A m \in MemoryPages : memoryStep[m] = "write" => memoryPending[m] \in Request
  BY DEF TypeInv, MemoryControl, Request
<1>4. \A l \in LibraryPages : jobStep[l] = "write" => Head(queue[l]) \in Request
  BY QueuedRequests DEF TypeInv, TypeOK, LibraryTyped
<1> QED
  BY <1>1, <1>2, <1>3, <1>4 DEF InFlight

\* A practice page changes the tables by its save alone.
LEMMA PracticeStepCommits ==
    ASSUME PracticeStep
    PROVE  (\E q \in InFlight : Commit(q)) \/ UNCHANGED tables
<1>1. PICK p \in PracticePages : PracticeNext(p) \/ Open(p)
  BY DEF PracticeStep
<1>2. CASE AnswerSaved(p)
  BY <1>2 DEF AnswerSaved, InFlight
<1>3. CASE \/ Open(p) \/ Leave(p) \/ Refresh(p) \/ Reveal(p) \/ \E r \in Ratings : Rate(p, r)
           \/ WordNoLongerActive(p) \/ AnswerRejected(p) \/ ReadPool(p) \/ SelectWord(p)
           \/ NothingToSelect(p) \/ ItemLoaded(p) \/ ItemVanished(p)
  <2>1. UNCHANGED storeVars
    BY <1>3 DEF Open, Leave, Refresh, Reveal, Rate, WordNoLongerActive, AnswerRejected, ReadPool,
                SelectWord, NothingToSelect, ItemLoaded, ItemVanished
  <2> QED
    BY <2>1 DEF storeVars, tables
<1>4. CASE Abandon(p) \/ SendAnswer(p) \/ AnswerLost(p) \/ SelectionFailed(p)
  BY <1>4 DEF Abandon, SendAnswer, AnswerLost, SelectionFailed, tables
<1> QED
  BY <1>1, <1>2, <1>3, <1>4 DEF PracticeNext, PracticeRuns

\* A memory page changes the tables by its replacement alone.
LEMMA MemoryStepCommits ==
    ASSUME MemoryStep
    PROVE  (\E q \in InFlight : Commit(q)) \/ UNCHANGED tables
<1>1. PICK m \in MemoryPages : MemoryNext(m) \/ OpenMemory(m)
  BY DEF MemoryStep
<1>2. CASE SchedulesReplaced(m)
  BY <1>2 DEF SchedulesReplaced, InFlight
<1>3. CASE \/ OpenMemory(m) \/ MemoryLoaded(m) \/ RefreshMemory(m) \/ RequestRecalculation(m)
           \/ ApplyRecalculation(m) \/ CancelRecalculation(m) \/ LeaveMemory(m) \/ ReadEvents(m)
           \/ ReadStates(m) \/ PreviewShown(m) \/ SendReplacement(m) \/ ReplacementRejected(m)
  <2>1. UNCHANGED storeVars
    BY <1>3 DEF OpenMemory, MemoryLoaded, RefreshMemory, RequestRecalculation, ApplyRecalculation,
                CancelRecalculation, LeaveMemory, ReadEvents, ReadStates, PreviewShown,
                SendReplacement, ReplacementRejected
  <2> QED
    BY <2>1 DEF storeVars, tables
<1>4. CASE AbandonMemory(m) \/ MemoryCallLost(m)
  BY <1>4 DEF AbandonMemory, MemoryCallLost, tables
<1> QED
  BY <1>1, <1>2, <1>3, <1>4 DEF MemoryNext, MemoryRuns

\* A library operation changes the tables by its mutations alone.
LEMMA LibraryStepCommits ==
    ASSUME LibraryStep
    PROVE  (\E q \in InFlight : Commit(q)) \/ UNCHANGED tables
<1>1. PICK l \in LibraryPages : LibraryNext(l) \/ \E j \in Jobs : Start(l, j)
  BY DEF LibraryStep
<1>2. CASE MutationApplied(l)
  BY <1>2 DEF MutationApplied, InFlight
<1>3. CASE \/ \E j \in Jobs : Start(l, j)
           \/ UpdateWordEntry(l) \/ ChangeWordArchive(l) \/ DeleteWordEntry(l)
           \/ DeleteSelectedWordEntries(l) \/ ImportExampleEntries(l) \/ RefuseJob(l) \/ Reloaded(l)
  <2>1. UNCHANGED storeVars
    BY <1>3 DEF Start, UpdateWordEntry, ChangeWordArchive, DeleteWordEntry,
                DeleteSelectedWordEntries, ImportExampleEntries, RefuseJob, Reloaded
  <2> QED
    BY <2>1 DEF storeVars, tables
<1>4. CASE AddWords(l) \/ LibraryCallLost(l)
  BY <1>4 DEF AddWords, LibraryCallLost, tables
<1> QED
  BY <1>1, <1>2, <1>3, <1>4 DEF LibraryNext, LibraryRuns

(***************************************************************************)
(* Every step runs one request in flight against the tables or leaves them *)
(* alone.                                                                  *)
(***************************************************************************)
LEMMA StepCommits ==
    ASSUME [Next]_vars
    PROVE  (\E q \in InFlight : Commit(q)) \/ UNCHANGED tables
<1>1. CASE EnvironmentStep
  BY <1>1 DEF EnvironmentStep, Tick, LateCommit, InFlight
<1>2. CASE UNCHANGED vars
  BY <1>2 DEF vars, storeVars, tables
<1> QED
  BY <1>1, <1>2, PracticeStepCommits, MemoryStepCommits, LibraryStepCommits DEF Next

-------------------------------------------------------------------------------
LEMMA NoOrphansMeansKeysHold == NoOrphans <=> KeysHold
BY DEF NoOrphans, KeysHold

(***************************************************************************)
(* Memory rows and events belong to words that exist, whatever arrives     *)
(* late (the foreign keys and cascades of migration 0003).                 *)
(***************************************************************************)
THEOREM NoOrphansEver == Spec => []NoOrphans
<1>1. Init => KeysHold
  BY DEF Init, StoreInit, KeysHold, Exists
<1>2. TypeInv /\ KeysHold /\ [Next]_vars => KeysHold'
  <2> SUFFICES ASSUME TypeInv, KeysHold, [Next]_vars PROVE KeysHold'
    OBVIOUS
  <2>1. CASE \E q \in InFlight : Commit(q)
    BY <2>1, InFlightType, TablesAreStore, CommitKeepsKeys DEF TypeInv, TypeOK
  <2>2. CASE UNCHANGED tables
    BY <2>2 DEF tables, KeysHold, Exists
  <2> QED
    BY <2>1, <2>2, StepCommits
<1>3. KeysHold => NoOrphans
  BY NoOrphansMeansKeysHold
<1> QED
  BY <1>1, <1>2, <1>3, TypeInvariant, PTL DEF Spec

(***************************************************************************)
(* History is never rewritten: an event leaves the log only with its word. *)
(***************************************************************************)
THEOREM HistoryIsAlwaysKept == Spec => HistoryIsKept
<1>1. TypeInv /\ [Next]_vars => [\A e \in events : e \in events' \/ words'[e.word] = None]_vars
  <2> SUFFICES ASSUME TypeInv, [Next]_vars, NEW e \in events
               PROVE  e \in events' \/ words'[e.word] = None
    OBVIOUS
  <2>1. CASE \E q \in InFlight : Commit(q)
    BY <2>1, InFlightType, TablesAreStore, CommitKeepsHistory DEF TypeInv, TypeOK
  <2>2. CASE UNCHANGED tables
    BY <2>2 DEF tables
  <2> QED
    BY <2>1, <2>2, StepCommits
<1> QED
  BY <1>1, TypeInvariant, PTL DEF Spec, HistoryIsKept

-------------------------------------------------------------------------------
(***************************************************************************)
(* Well-formed rows.  A row travels from the store to a page, is answered  *)
(* there and travels back, so every row a page holds and every row in      *)
(* flight has to be well formed for the stored ones to stay so.            *)
(***************************************************************************)
PageRows(p) ==
    /\ (machine[p] = "Ready" \/ step[p] \in {"check", "save"}) => WellFormed(currentItem[p].row)
    /\ step[p] = "words" => AllWellFormed(poolRows[p])
    /\ step[p] = "getWord" => WellFormed(candidate[p].row)
    /\ (pending[p] # None \/ step[p] = "save") => CarriesWellFormed(pending[p])

MemoryRows(m) ==
    /\ AllWellFormed(readStates[m])
    /\ (memoryPending[m] # None \/ memoryStep[m] = "write") => CarriesWellFormed(memoryPending[m])

RowsInv ==
    /\ AllWellFormed(states)
    /\ \A q \in stray : CarriesWellFormed(q)
    /\ \A p \in PracticePages : PageRows(p)
    /\ \A m \in MemoryPages : MemoryRows(m)

LEMMA InitWellFormed == Init => RowsInv
<1> SUFFICES ASSUME Init PROVE RowsInv
  OBVIOUS
<1>1. AllWellFormed(states)
  <2>1. WellFormed(FreshRow(0))
    BY FreshRowCorrect
  <2> QED
    BY <2>1 DEF Init, StoreInit, AllWellFormed
<1>2. \A p \in PracticePages : PageRows(p)
  BY DEF Init, PracticeInit, PageRows
<1>3. \A m \in MemoryPages : MemoryRows(m)
  BY DEF Init, MemoryInit, MemoryRows, NoRows, AllWellFormed
<1> QED
  BY <1>1, <1>2, <1>3 DEF RowsInv, Init, StoreInit

\* Library mutations carry no memory rows.
LEMMA LibraryCarriesNoRows ==
    ASSUME NEW q \in LibraryRequest
    PROVE  CarriesWellFormed(q)
BY DEF LibraryRequest, InsertRequest, UpdateRequest, DeleteRequest, CarriesWellFormed

LEMMA HeadIsLibraryRequest ==
    ASSUME TypeInv, NEW l \in LibraryPages, jobStep[l] = "write"
    PROVE  Head(queue[l]) \in LibraryRequest
<1>1. queue[l] \in Seq(LibraryRequest) /\ queue[l] # <<>>
  BY DEF TypeInv, TypeOK, LibraryTypeOK, LibraryControl, LibraryRequest
<1> QED
  BY <1>1, HeadTailProperties

LEMMA InFlightWellFormed ==
    ASSUME TypeInv, RowsInv, NEW q \in InFlight
    PROVE  CarriesWellFormed(q)
<1>1. CASE q \in stray
  BY <1>1 DEF RowsInv
<1>2. CASE \E p \in PracticePages : step[p] = "save" /\ q = pending[p]
  BY <1>2 DEF RowsInv, PageRows
<1>3. CASE \E m \in MemoryPages : memoryStep[m] = "write" /\ q = memoryPending[m]
  BY <1>3 DEF RowsInv, MemoryRows
<1>4. CASE \E l \in LibraryPages : jobStep[l] = "write" /\ q = Head(queue[l])
  BY <1>4, HeadIsLibraryRequest, LibraryCarriesNoRows
<1> QED
  BY <1>1, <1>2, <1>3, <1>4 DEF InFlight

\* Whatever a step commits, the stored rows stay well formed.
LEMMA StoredRowsStayWellFormed ==
    ASSUME TypeInv, RowsInv, [Next]_vars
    PROVE  AllWellFormed(states')
<1>1. CASE \E q \in InFlight : Commit(q)
  <2>1. PICK q \in InFlight : Commit(q)
    BY <1>1
  <2>2. q \in Request /\ CarriesWellFormed(q)
    BY InFlightType, InFlightWellFormed
  <2> QED
    BY <2>1, <2>2, TablesAreStore, CommitKeepsRowsWellFormed DEF TypeInv, TypeOK, RowsInv
<1>2. CASE UNCHANGED tables
  BY <1>2 DEF tables, RowsInv
<1> QED
  BY <1>1, <1>2, StepCommits

\* Nothing but a request that was in flight is ever left to arrive late.
LEMMA StrayWasInFlight ==
    ASSUME TypeInv, [Next]_vars, NEW q \in stray'
    PROVE  \/ q \in InFlight
           \/ \E p \in PracticePages : pending[p] # None /\ q = pending[p]
           \/ \E m \in MemoryPages : memoryPending[m] # None /\ q = memoryPending[m]
<1> USE DEF InFlight
<1>1. CASE stray' \subseteq stray
  BY <1>1
<1>2. CASE \E p \in PracticePages : Abandon(p) \/ AnswerLost(p)
  BY <1>2 DEF Abandon, AnswerLost
<1>3. CASE \E m \in MemoryPages : AbandonMemory(m) \/ MemoryCallLost(m)
  BY <1>3 DEF AbandonMemory, MemoryCallLost
<1>4. CASE \E l \in LibraryPages : LibraryCallLost(l)
  BY <1>4 DEF LibraryCallLost
<1>5. CASE PracticeStep
  <2>1. PICK p \in PracticePages : PracticeNext(p) \/ Open(p)
    BY <1>5 DEF PracticeStep
  <2>2. stray' \subseteq stray \/ Abandon(p) \/ AnswerLost(p)
    BY <2>1 DEF PracticeNext, PracticeRuns, Open, Leave, Refresh, Reveal, Rate,
                WordNoLongerActive, AnswerRejected, ReadPool, SelectWord, NothingToSelect,
                ItemLoaded, ItemVanished, SelectionFailed, SendAnswer, AnswerSaved, storeVars, channel
  <2> QED
    BY <1>1, <1>2, <2>2
<1>6. CASE MemoryStep
  <2>1. PICK m \in MemoryPages : MemoryNext(m) \/ OpenMemory(m)
    BY <1>6 DEF MemoryStep
  <2>2. stray' \subseteq stray \/ AbandonMemory(m) \/ MemoryCallLost(m)
    BY <2>1 DEF MemoryNext, MemoryRuns, OpenMemory, MemoryLoaded, RefreshMemory,
                RequestRecalculation, ApplyRecalculation, CancelRecalculation, LeaveMemory,
                ReadEvents, ReadStates, PreviewShown, SendReplacement, ReplacementRejected,
                SchedulesReplaced, storeVars, channel
  <2> QED
    BY <1>1, <1>3, <2>2
<1>7. CASE LibraryStep
  <2>1. PICK l \in LibraryPages : LibraryNext(l) \/ \E j \in Jobs : Start(l, j)
    BY <1>7 DEF LibraryStep
  <2>2. stray' \subseteq stray \/ LibraryCallLost(l)
    BY <2>1 DEF LibraryNext, LibraryRuns, Start, UpdateWordEntry, ChangeWordArchive,
                DeleteWordEntry, DeleteSelectedWordEntries, ImportExampleEntries, RefuseJob,
                Reloaded, AddWords, MutationApplied, storeVars, channel
  <2> QED
    BY <1>1, <1>4, <2>2
<1>8. CASE EnvironmentStep \/ UNCHANGED vars
  BY <1>1, <1>8 DEF EnvironmentStep, Tick, LateCommit, channel, vars, storeVars
<1> QED
  BY <1>5, <1>6, <1>7, <1>8 DEF Next

LEMMA StrayStaysWellFormed ==
    ASSUME TypeInv, RowsInv, [Next]_vars, NEW q \in stray'
    PROVE  CarriesWellFormed(q)
BY StrayWasInFlight, InFlightWellFormed DEF RowsInv, PageRows, MemoryRows

-------------------------------------------------------------------------------
\* Pages other than the one that moves keep what they hold.
LEMMA PageStepWellFormed ==
    ASSUME TypeInv, RowsInv, PracticeStep
    PROVE  \A q \in PracticePages : PageRows(q)'
<1>1. PICK p \in PracticePages : PracticeNext(p) \/ Open(p)
  BY DEF PracticeStep
<1> USE DEF RowsInv, PageRows, TypeInv, TypeOK, PracticeTypeOK
<1>2. CASE Open(p) \/ Refresh(p)
  BY <1>2 DEF Open, Refresh, EnterLoading
<1>3. CASE Leave(p) \/ Abandon(p)
  <2>1. Forget(p)
    BY <1>3 DEF Leave, Abandon
  <2> QED
    BY <2>1 DEF Forget
<1>4. CASE Reveal(p) \/ \E r \in Ratings : Rate(p, r)
  BY <1>4 DEF Reveal, Rate
<1>5. CASE WordNoLongerActive(p) \/ AnswerRejected(p) \/ AnswerLost(p)
  <2>1. RejectAnswer(p) /\ step[p] \in {"check", "save"}
    BY <1>5 DEF WordNoLongerActive, AnswerRejected, AnswerLost
  <2> QED
    BY <2>1 DEF RejectAnswer
<1>6. CASE SendAnswer(p)
  <2>1. PICK card \in PracticeResults(currentItem[p].row.card, "scheduled", clock, rating[p]) :
          pending' = [pending EXCEPT ![p] =
              AnswerRequest(nextEvent, currentItem[p], card, clock, rating[p])]
    BY <1>6 DEF SendAnswer
  <2> DEFINE request == AnswerRequest(nextEvent, currentItem[p], card, clock, rating[p])
  <2>2. clock \in Nat
    BY BoundsAssumption DEF StoreTypeOK
  <2>3. /\ currentItem[p].row \in StateRow /\ WellFormed(currentItem[p].row)
        /\ rating[p] \in Ratings /\ card \in Card /\ "scheduled" \in Kinds
    BY <1>6, SubmittedItem DEF SendAnswer, Item, Kinds
  <2>4. WellFormed(AnsweredRow(currentItem[p].row, card, "scheduled", clock, rating[p]))
    BY <2>2, <2>3, AnsweredRowWellFormed
  <2>5. CarriesWellFormed(request)
    BY <2>4 DEF AnswerRequest, CarriesWellFormed
  <2> HIDE DEF request
  <2>6. pending' = [pending EXCEPT ![p] = request]
    BY <2>1 DEF request
  <2> QED
    BY <1>6, <2>5, <2>6 DEF SendAnswer
<1>7. CASE AnswerSaved(p)
  BY <1>7 DEF AnswerSaved
<1>8. CASE ReadPool(p)
  BY <1>8 DEF ReadPool
<1>9. CASE SelectWord(p)
  <2>1. PICK w \in Selectable(poolRows[p], asOf[p]) :
          candidate' = [candidate EXCEPT ![p] = [word |-> w, row |-> poolRows[p][w]]]
    BY <1>9 DEF SelectWord
  <2>2. w \in WordIds /\ poolRows[p][w] # None
    BY DEF Selectable, LongestDue, DueIn
  <2>3. WellFormed(poolRows[p][w])
    BY <1>9, <2>2 DEF SelectWord, AllWellFormed
  <2> QED
    BY <1>9, <2>1, <2>3 DEF SelectWord
<1>10. CASE NothingToSelect(p) \/ ItemVanished(p)
  BY <1>10 DEF NothingToSelect, ItemVanished, ShowNothing, EnterLoading
<1>11. CASE ItemLoaded(p)
  BY <1>11 DEF ItemLoaded, ShowItem
<1>12. CASE SelectionFailed(p)
  BY <1>12 DEF SelectionFailed, ShowNothing, EnterLoading
<1> QED
  BY <1>1, <1>2, <1>3, <1>4, <1>5, <1>6, <1>7, <1>8, <1>9, <1>10, <1>11, <1>12
     DEF PracticeNext, PracticeRuns

\* Recalculation gives rows new cards and nothing else.
LEMMA ChangedStatesWellFormed ==
    ASSUME NEW rows \in StateRows, AllWellFormed(rows), NEW cards, ChangedStates(rows, cards) \in StateRows
    PROVE  AllWellFormed(ChangedStates(rows, cards))
<1> SUFFICES ASSUME NEW w \in WordIds, ChangedStates(rows, cards)[w] # None
             PROVE  WellFormed(ChangedStates(rows, cards)[w])
  BY DEF AllWellFormed
<1>1. w \in Replayed(rows) /\ ChangedStates(rows, cards)[w] = [rows[w] EXCEPT !.card = cards[w]]
  BY DEF ChangedStates
<1>2. rows[w] \in StateRow /\ WellFormed(rows[w])
  BY <1>1 DEF Replayed, StateRows, AllWellFormed
<1> QED
  BY <1>1, <1>2 DEF WellFormed, StateRow

LEMMA MemoryStepWellFormed ==
    ASSUME TypeInv, RowsInv, MemoryStep
    PROVE  \A k \in MemoryPages : MemoryRows(k)'
<1>1. PICK m \in MemoryPages : MemoryNext(m) \/ OpenMemory(m)
  BY DEF MemoryStep
<1>2. AllWellFormed(NoRows)
  BY DEF AllWellFormed, NoRows
<1> USE DEF RowsInv, MemoryRows, TypeInv, TypeOK, MemoryTypeOK
<1>3. CASE \/ OpenMemory(m) \/ MemoryLoaded(m) \/ RefreshMemory(m) \/ RequestRecalculation(m)
           \/ ApplyRecalculation(m) \/ CancelRecalculation(m)
  BY <1>3 DEF OpenMemory, MemoryLoaded, RefreshMemory, RequestRecalculation, ApplyRecalculation,
              CancelRecalculation
<1>4. CASE LeaveMemory(m) \/ AbandonMemory(m)
  <2>1. ForgetMemory(m)
    BY <1>4 DEF LeaveMemory, AbandonMemory
  <2> QED
    BY <1>2, <2>1 DEF ForgetMemory
<1>5. CASE ReadEvents(m) \/ ReadStates(m)
  BY <1>5 DEF ReadEvents, ReadStates
<1>6. CASE PreviewShown(m) \/ SchedulesReplaced(m) \/ RecalculationStops(m)
  <2>1. EndEffect(m)
    BY <1>6 DEF PreviewShown, SchedulesReplaced, RecalculationStops
  <2> QED
    BY <1>2, <2>1 DEF EndEffect
<1>7. CASE SendReplacement(m)
  <2>1. PICK cards \in ReplayedCards(readStates[m], readEvents[m]) :
          /\ ChangedStates(readStates[m], cards) \in StateRows
          /\ memoryPending' = [memoryPending EXCEPT ![m] =
               [op |-> "replaceMemoryStates", rows |-> ChangedStates(readStates[m], cards)]]
    BY <1>7 DEF SendReplacement
  <2>2. AllWellFormed(ChangedStates(readStates[m], cards))
    BY <2>1, ChangedStatesWellFormed
  <2> DEFINE request == [op |-> "replaceMemoryStates", rows |-> ChangedStates(readStates[m], cards)]
  <2>3. CarriesWellFormed(request)
    BY <2>2 DEF CarriesWellFormed
  <2> HIDE DEF request
  <2>4. memoryPending' = [memoryPending EXCEPT ![m] = request]
    BY <2>1 DEF request
  <2> QED
    BY <1>7, <2>3, <2>4 DEF SendReplacement
<1>8. CASE ReplacementRejected(m)
  BY <1>6, <1>8 DEF ReplacementRejected
<1>9. CASE MemoryCallLost(m)
  <2>1. CASE UNCHANGED <<memoryStep, readEvents, readStates, preview, memoryNotice, memoryPending>>
    BY <2>1
  <2> QED
    BY <1>6, <1>9, <2>1 DEF MemoryCallLost
<1> QED
  BY <1>1, <1>3, <1>4, <1>5, <1>6, <1>7, <1>8, <1>9 DEF MemoryNext, MemoryRuns

LEMMA StepWellFormed == TypeInv /\ RowsInv /\ [Next]_vars => RowsInv'
<1> SUFFICES ASSUME TypeInv, RowsInv, [Next]_vars PROVE RowsInv'
  OBVIOUS
<1>1. AllWellFormed(states')
  BY StoredRowsStayWellFormed
<1>2. \A q \in stray' : CarriesWellFormed(q)
  BY StrayStaysWellFormed
<1>3. \A p \in PracticePages : PageRows(p)'
  <2>1. CASE UNCHANGED pageVars
    BY <2>1 DEF pageVars, RowsInv, PageRows
  <2> QED
    BY <2>1, PageStepWellFormed DEF Next, MemoryStep, LibraryStep, EnvironmentStep, vars
<1>4. \A m \in MemoryPages : MemoryRows(m)'
  <2>1. CASE UNCHANGED memoryVars
    BY <2>1 DEF memoryVars, RowsInv, MemoryRows
  <2> QED
    BY <2>1, MemoryStepWellFormed DEF Next, PracticeStep, LibraryStep, EnvironmentStep, vars
<1> QED
  BY <1>1, <1>2, <1>3, <1>4 DEF RowsInv

(***************************************************************************)
(* However pages race and requests are lost, repeated or late, no stored   *)
(* memory row has counters or streaks that no sequence of answers could    *)
(* have produced.                                                          *)
(***************************************************************************)
THEOREM RowsAlwaysWellFormed == Spec => []RowsWellFormed
<1>1. RowsInv => RowsWellFormed
  BY DEF RowsInv, AllWellFormed, RowsWellFormed
<1> QED
  BY <1>1, InitWellFormed, StepWellFormed, TypeInvariant, PTL DEF Spec

-------------------------------------------------------------------------------
(***************************************************************************)
(* Archived words.  archivedFrom[w] is the id the next answer would have   *)
(* had when w became archived: every answer logged or in flight for an     *)
(* archived word has a smaller one, because none is begun afterwards.      *)
(***************************************************************************)
Early(e) ==
    /\ e.id < nextEvent
    /\ (words[e.word] # None /\ words[e.word].archived) => e.id < archivedFrom[e.word]

SavesEarly(q) == q.op = "savePracticeResult" => Early(q.event)

ArchiveInv ==
    /\ \A e \in events : Early(e)
    /\ \A q \in stray : SavesEarly(q)
    /\ \A p \in PracticePages : (pending[p] # None \/ step[p] = "save") => SavesEarly(pending[p])

\* What a commit makes of the words table leaves early answers early.
LEMMA CommitKeepsEarly ==
    ASSUME TypeInv, NEW q \in Request, Commit(q), nextEvent' = nextEvent,
           NEW e \in PracticeEvent, Early(e)
    PROVE  Early(e)'
<1>1. e.word \in WordIds /\ e.id \in Nat /\ nextEvent \in Nat
  BY DEF PracticeEvent, TypeInv, TypeOK, StoreTypeOK
<1>2. CASE UNCHANGED <<words, archivedFrom>>
  BY <1>2 DEF Early
<1>3. CASE Remember(words')
  BY <1>1, <1>3 DEF Remember, Early
<1>4. CASE q \in DeleteRequest /\ DeleteWords(q.ids)
  BY <1>1, <1>4 DEF DeleteWords, Early
<1> QED
  BY <1>2, <1>3, <1>4, CommitCases
     DEF SavePracticeResult, ReplaceMemoryStates, InsertWords, UpdateWords

\* An event the log gains is the one that was saved.
LEMMA CommitLogs ==
    ASSUME NEW q \in Request, Commit(q), NEW e \in events'
    PROVE  e \in events \/ (q \in SaveRequest /\ e = q.event)
BY CommitCases DEF SavePracticeResult, ReplaceMemoryStates, InsertWords, UpdateWords, DeleteWords

\* Only a new answer takes an event id, and it leaves tables and channel alone.
LEMMA EventIdsAreTakenBySending ==
    ASSUME [Next]_vars
    PROVE  \/ nextEvent' = nextEvent
           \/ PracticeStep /\ \E p \in PracticePages : SendAnswer(p)
<1>1. CASE PracticeStep
  <2>1. PICK p \in PracticePages : PracticeNext(p) \/ Open(p)
    BY <1>1 DEF PracticeStep
  <2>2. nextEvent' = nextEvent \/ SendAnswer(p)
    BY <2>1 DEF PracticeNext, PracticeRuns, Open, Leave, Abandon, Refresh, Reveal, Rate,
                WordNoLongerActive, AnswerRejected, AnswerLost, ReadPool, SelectWord,
                NothingToSelect, ItemLoaded, ItemVanished, SelectionFailed, AnswerSaved,
                storeVars, supplies
  <2> QED
    BY <1>1, <2>2
<1>2. CASE MemoryStep
  <2>1. PICK m \in MemoryPages : MemoryNext(m) \/ OpenMemory(m)
    BY <1>2 DEF MemoryStep
  <2> QED
    BY <2>1 DEF MemoryNext, MemoryRuns, OpenMemory, MemoryLoaded, RefreshMemory,
                RequestRecalculation, ApplyRecalculation, CancelRecalculation, LeaveMemory,
                AbandonMemory, MemoryCallLost, ReadEvents, ReadStates, PreviewShown,
                SendReplacement, ReplacementRejected, SchedulesReplaced, storeVars, supplies
<1>3. CASE LibraryStep
  <2>1. PICK l \in LibraryPages : LibraryNext(l) \/ \E j \in Jobs : Start(l, j)
    BY <1>3 DEF LibraryStep
  <2> QED
    BY <2>1 DEF LibraryNext, LibraryRuns, LibraryCallLost, Start, UpdateWordEntry,
                ChangeWordArchive, DeleteWordEntry, DeleteSelectedWordEntries,
                ImportExampleEntries, RefuseJob, Reloaded, AddWords, MutationApplied,
                storeVars, supplies
<1>4. CASE EnvironmentStep \/ UNCHANGED vars
  BY <1>4 DEF EnvironmentStep, Tick, LateCommit, supplies, vars, storeVars
<1> QED
  BY <1>1, <1>2, <1>3, <1>4 DEF Next

\* A page's pending request stays what it was unless it sends one or drops it.
LEMMA PendingStays ==
    ASSUME TypeInv, [Next]_vars, NEW q \in PracticePages, ~SendAnswer(q)
    PROVE  \/ pending'[q] = pending[q] /\ (step'[q] = "save" => step[q] = "save")
           \/ pending'[q] = None /\ step'[q] # "save"
<1> USE DEF TypeInv, TypeOK, PracticeTypeOK
<1>1. CASE PracticeStep
  <2>1. PICK p \in PracticePages : PracticeNext(p) \/ Open(p)
    BY <1>1 DEF PracticeStep
  <2>2. CASE p # q
    BY <2>1, <2>2
       DEF PracticeNext, PracticeRuns, Open, Leave, Abandon, Refresh, Reveal, Rate,
           WordNoLongerActive, AnswerRejected, AnswerLost, RejectAnswer, ReadPool, SelectWord,
           NothingToSelect, ItemLoaded, ItemVanished, SelectionFailed, AnswerSaved, SendAnswer,
           Forget, EnterLoading, ShowNothing, ShowItem
  <2>3. CASE p = q
    BY <2>1, <2>3
       DEF PracticeNext, PracticeRuns, Open, Leave, Abandon, Refresh, Reveal, Rate,
           WordNoLongerActive, AnswerRejected, AnswerLost, RejectAnswer, ReadPool, SelectWord,
           NothingToSelect, ItemLoaded, ItemVanished, SelectionFailed, AnswerSaved,
           Forget, EnterLoading, ShowNothing, ShowItem
  <2> QED
    BY <2>2, <2>3
<1>2. CASE UNCHANGED pageVars
  BY <1>2 DEF pageVars
<1> QED
  BY <1>1, <1>2 DEF Next, MemoryStep, LibraryStep, EnvironmentStep, vars

LEMMA InFlightEarly ==
    ASSUME TypeInv, ArchiveInv, NEW q \in InFlight
    PROVE  SavesEarly(q)
<1>1. CASE q \in stray
  BY <1>1 DEF ArchiveInv
<1>2. CASE \E p \in PracticePages : step[p] = "save" /\ q = pending[p]
  BY <1>2 DEF ArchiveInv
<1>3. CASE \E m \in MemoryPages : memoryStep[m] = "write" /\ q = memoryPending[m]
  BY <1>3 DEF TypeInv, MemoryControl, ReplaceRequest, SavesEarly
<1>4. CASE \E l \in LibraryPages : jobStep[l] = "write" /\ q = Head(queue[l])
  BY <1>4, HeadIsLibraryRequest
     DEF LibraryRequest, InsertRequest, UpdateRequest, DeleteRequest, SavesEarly
<1> QED
  BY <1>1, <1>2, <1>3, <1>4 DEF InFlight

\* The new answer is early: its word is active.
LEMMA SendingKeepsEarly ==
    ASSUME TypeInv, ArchiveInv, PracticeStep, NEW p \in PracticePages, SendAnswer(p)
    PROVE  ArchiveInv'
<1>1. nextEvent \in Nat /\ nextEvent' = nextEvent + 1 /\ UNCHANGED <<words, archivedFrom, events, stray>>
  BY DEF SendAnswer, TypeInv, TypeOK, StoreTypeOK, tables, channel
<1>2. PICK sent \in SaveRequest :
        /\ pending' = [pending EXCEPT ![p] = sent]
        /\ sent.event.id = nextEvent
        /\ sent.event.word = currentItem[p].word
  <2>1. PICK card \in PracticeResults(currentItem[p].row.card, "scheduled", clock, rating[p]) :
          pending' = [pending EXCEPT ![p] =
              AnswerRequest(nextEvent, currentItem[p], card, clock, rating[p])]
    BY DEF SendAnswer
  <2>2. clock \in Nat
    BY BoundsAssumption DEF TypeInv, TypeOK, StoreTypeOK
  <2>3. AnswerRequest(nextEvent, currentItem[p], card, clock, rating[p]) \in SaveRequest
    BY <1>1, <2>2, SubmittedItem, AnswerRequestType DEF SendAnswer
  <2>4. /\ AnswerRequest(nextEvent, currentItem[p], card, clock, rating[p]).event.id = nextEvent
        /\ AnswerRequest(nextEvent, currentItem[p], card, clock, rating[p]).event.word
             = currentItem[p].word
    BY DEF AnswerRequest, AnswerEvent
  <2> QED
    BY <2>1, <2>3, <2>4
<1>3. words[sent.event.word] # None /\ ~words[sent.event.word].archived
  BY <1>2 DEF SendAnswer, StillActive, Active
<1>4. SavesEarly(sent)'
  BY <1>1, <1>2, <1>3 DEF SavesEarly, Early
<1>5. \A e \in PracticeEvent : Early(e) => Early(e)'
  BY <1>1 DEF Early, PracticeEvent
<1>6. \A q \in Request : SavesEarly(q) => SavesEarly(q)'
  <2> SUFFICES ASSUME NEW q \in Request, SavesEarly(q), q.op = "savePracticeResult"
               PROVE  Early(q.event)'
    BY DEF SavesEarly
  <2>1. q.event \in PracticeEvent
    BY DEF Request, SaveRequest, ReplaceRequest, InsertRequest, UpdateRequest, DeleteRequest
  <2> QED
    BY <1>5, <2>1 DEF SavesEarly
<1>7. (\A e \in events : Early(e))'
  <2>1. \A e \in events : Early(e)'
    BY <1>5 DEF ArchiveInv, TypeInv, TypeOK, StoreTypeOK
  <2> QED
    BY <1>1, <2>1
<1>8. (\A q \in stray : SavesEarly(q))'
  <2>1. \A q \in stray : SavesEarly(q)'
    BY <1>6 DEF ArchiveInv, TypeInv, TypeOK, StoreTypeOK
  <2> QED
    BY <1>1, <2>1
<1>9. (\A k \in PracticePages : (pending[k] # None \/ step[k] = "save") => SavesEarly(pending[k]))'
  <2>1. step' = [step EXCEPT ![p] = "save"]
    BY DEF SendAnswer
  <2> SUFFICES ASSUME NEW k \in PracticePages, (pending[k] # None \/ step[k] = "save")'
               PROVE  SavesEarly(pending[k])'
    OBVIOUS
  <2>2. CASE k = p
    <3>1. pending'[k] = sent
      BY <1>2, <2>2 DEF TypeInv, TypeOK, PracticeTypeOK
    <3> QED
      BY <1>4, <3>1 DEF SavesEarly, Early
  <2>3. CASE k # p
    <3>1. pending'[k] = pending[k] /\ (pending[k] # None \/ step[k] = "save")
      BY <1>2, <2>1, <2>3 DEF TypeInv, TypeOK, PracticeTypeOK
    <3>2. pending[k] \in Request
      BY <3>1 DEF TypeInv, TypeOK, PracticeTypeOK, PracticeControl, PageControl, Request
    <3>3. SavesEarly(pending[k])
      BY <3>1 DEF ArchiveInv
    <3> QED
      BY <1>1, <3>1, <3>2, <3>3, <1>6 DEF SavesEarly, Early
  <2> QED
    BY <2>2, <2>3
<1> QED
  BY <1>7, <1>8, <1>9 DEF ArchiveInv

\* Every other step: what was early stays so, and nothing new is sent.
LEMMA OthersKeepEarly ==
    ASSUME TypeInv, ArchiveInv, [Next]_vars, \A p \in PracticePages : ~SendAnswer(p)
    PROVE  ArchiveInv'
<1>1. nextEvent' = nextEvent
  BY EventIdsAreTakenBySending
<1>2. \A e \in PracticeEvent : Early(e) => Early(e)'
  <2>1. CASE \E q \in InFlight : Commit(q)
    BY <1>1, <2>1, InFlightType, CommitKeepsEarly
  <2>2. CASE UNCHANGED tables
    BY <1>1, <2>2 DEF tables, Early
  <2> QED
    BY <2>1, <2>2, StepCommits
<1>3. \A q \in Request : SavesEarly(q) => SavesEarly(q)'
  <2> SUFFICES ASSUME NEW q \in Request, SavesEarly(q), q.op = "savePracticeResult"
               PROVE  Early(q.event)'
    BY DEF SavesEarly
  <2>1. q.event \in PracticeEvent
    BY DEF Request, SaveRequest, ReplaceRequest, InsertRequest, UpdateRequest, DeleteRequest
  <2> QED
    BY <1>2, <2>1 DEF SavesEarly
<1>4. (\A e \in events : Early(e))'
  <2> SUFFICES ASSUME NEW e \in events' PROVE Early(e)'
    OBVIOUS
  <2>1. \/ e \in events
        \/ \E q \in InFlight : q \in SaveRequest /\ e = q.event
    BY InFlightType, StepCommits, CommitLogs DEF tables
  <2>2. Early(e) /\ e \in PracticeEvent
    <3>1. CASE e \in events
      BY <3>1 DEF ArchiveInv, TypeInv, TypeOK, StoreTypeOK
    <3>2. CASE \E q \in InFlight : q \in SaveRequest /\ e = q.event
      BY <3>2, InFlightEarly DEF SaveRequest, SavesEarly
    <3> QED
      BY <2>1, <3>1, <3>2
  <2> QED
    BY <1>2, <2>2
<1>5. (\A q \in stray : SavesEarly(q))'
  <2> SUFFICES ASSUME NEW q \in stray' PROVE SavesEarly(q)'
    OBVIOUS
  <2>1. \/ q \in InFlight
        \/ \E p \in PracticePages : pending[p] # None /\ q = pending[p]
        \/ \E m \in MemoryPages : memoryPending[m] # None /\ q = memoryPending[m]
    BY StrayWasInFlight
  <2>2. SavesEarly(q) /\ q \in Request
    <3>1. CASE q \in InFlight
      BY <3>1, InFlightType, InFlightEarly
    <3>2. CASE \E p \in PracticePages : pending[p] # None /\ q = pending[p]
      BY <3>2 DEF ArchiveInv, TypeInv, TypeOK, PracticeTypeOK, Request
    <3>3. CASE \E m \in MemoryPages : memoryPending[m] # None /\ q = memoryPending[m]
      BY <3>3 DEF TypeInv, TypeOK, MemoryTypeOK, ReplaceRequest, Request, SavesEarly
    <3> QED
      BY <2>1, <3>1, <3>2, <3>3
  <2> QED
    BY <1>3, <2>2
<1>6. (\A k \in PracticePages : (pending[k] # None \/ step[k] = "save") => SavesEarly(pending[k]))'
  <2> SUFFICES ASSUME NEW k \in PracticePages, (pending[k] # None \/ step[k] = "save")'
               PROVE  SavesEarly(pending[k])'
    OBVIOUS
  <2>1. pending'[k] = pending[k] /\ (pending[k] # None \/ step[k] = "save")
    BY PendingStays
  <2>2. pending[k] \in Request /\ SavesEarly(pending[k])
    BY <2>1 DEF ArchiveInv, TypeInv, TypeOK, PracticeTypeOK, PracticeControl, PageControl, Request
  <2>3. \A q \in Request : q = pending[k] => SavesEarly(q)'
    BY <1>3, <2>2 DEF SavesEarly
  <2> QED
    BY <2>1, <2>2, <2>3 DEF SavesEarly, Early
<1> QED
  BY <1>4, <1>5, <1>6 DEF ArchiveInv

(***************************************************************************)
(* An archived word gets no answer but those already under way when it was *)
(* archived (the getWord check of submitPracticeAnswer).                   *)
(***************************************************************************)
THEOREM OnlyLateAnswersEver == Spec => []OnlyLateAnswersWhenArchived
<1>1. Init => ArchiveInv
  BY DEF Init, StoreInit, PracticeInit, ArchiveInv
<1>2. TypeInv /\ ArchiveInv /\ [Next]_vars => ArchiveInv'
  <2> SUFFICES ASSUME TypeInv, ArchiveInv, [Next]_vars PROVE ArchiveInv'
    OBVIOUS
  <2>1. CASE \E p \in PracticePages : SendAnswer(p)
    <3>1. nextEvent' # nextEvent
      BY <2>1 DEF SendAnswer, TypeInv, TypeOK, StoreTypeOK
    <3> QED
      BY <3>1, EventIdsAreTakenBySending, SendingKeepsEarly
  <2>2. CASE \A p \in PracticePages : ~SendAnswer(p)
    BY <2>2, OthersKeepEarly
  <2> QED
    BY <2>1, <2>2
<1>3. ArchiveInv => OnlyLateAnswersWhenArchived
  BY DEF ArchiveInv, Early, OnlyLateAnswersWhenArchived
<1> QED
  BY <1>1, <1>2, <1>3, TypeInvariant, PTL DEF Spec


-------------------------------------------------------------------------------
(***************************************************************************)
(* What the saved answers are worth.  Tabs, retries and late requests may  *)
(* write rows over each other, but whoever holds a row, the store, a page  *)
(* or a request, holds one that answers already saved account for; a       *)
(* request still to be saved may count its own answer too.                 *)
(***************************************************************************)
\* The answers account for the row: for its counter and for its stage.
EarnedBy(row, evs) == row.attempts <= Cardinality(evs) /\ Earned(row.stage, evs)

AllEarned(rows, log) ==
    \A w \in WordIds : rows[w] # None => EarnedBy(rows[w], EventsOf(log, w))

RequestEarned(q, log, next) ==
    /\ q.op = "savePracticeResult" =>
         /\ q.event.id < next
         /\ EarnedBy(q.row, EventsOf(log, q.event.word) \cup {q.event})
    /\ q.op = "replaceMemoryStates" => AllEarned(q.rows, log)

ItemEarned(item, log) == EarnedBy(item.row, EventsOf(log, item.word))

PageEarned(p, log, next) ==
    /\ (machine[p] = "Ready" \/ step[p] \in {"check", "save"}) => ItemEarned(currentItem[p], log)
    /\ step[p] = "words" => AllEarned(poolRows[p], log)
    /\ step[p] = "getWord" => ItemEarned(candidate[p], log)
    /\ (pending[p] # None \/ step[p] = "save") => RequestEarned(pending[p], log, next)

MemoryEarned(m, log, next) ==
    /\ AllEarned(readStates[m], log)
    /\ (memoryPending[m] # None \/ memoryStep[m] = "write") =>
         RequestEarned(memoryPending[m], log, next)

HeldEarned(log, next) ==
    /\ AllEarned(states, log)
    /\ \A q \in stray : RequestEarned(q, log, next)
    /\ \A p \in PracticePages : PageEarned(p, log, next)
    /\ \A m \in MemoryPages : MemoryEarned(m, log, next)

\* Ids are handed out in order, to saved answers and answers under way alike.
SavedInOrder == IsFiniteSet(saved) /\ \A e \in saved : e.id < nextEvent

EarnedInv == SavedInOrder /\ HeldEarned(saved, nextEvent)

-------------------------------------------------------------------------------
(***************************************************************************)
(* More saved answers, or later ids, take nothing away.                    *)
(***************************************************************************)
LEMMA EarnedGrows ==
    ASSUME NEW row \in StateRow, NEW evs, NEW more, evs \subseteq more, IsFiniteSet(more),
           EarnedBy(row, evs)
    PROVE  EarnedBy(row, more)
<1>1. Cardinality(evs) \in Nat /\ Cardinality(more) \in Nat /\ Cardinality(evs) <= Cardinality(more)
  BY FS_Subset, FS_CardinalityType
<1>2. row.attempts <= Cardinality(more)
  BY <1>1 DEF EarnedBy, StateRow
<1>3. row.stage \in Stages /\ Earned(row.stage, evs)
  BY DEF EarnedBy, StateRow
<1>4. Earned(row.stage, more)
  <2>1. CASE row.stage = "recognition"
    BY <2>1 DEF Earned
  <2>2. CASE row.stage = "meaningRecall"
    BY <1>3, <2>2 DEF Earned
  <2>3. CASE row.stage = "contextRecall"
    BY <1>3, <2>3 DEF Earned
  <2> QED
    BY <1>3, <2>1, <2>2, <2>3 DEF Stages
<1> QED
  BY <1>2, <1>4 DEF EarnedBy

LEMMA AllEarnedGrows ==
    ASSUME NEW rows \in StateRows, NEW log, NEW more, log \subseteq more, IsFiniteSet(more),
           AllEarned(rows, log)
    PROVE  AllEarned(rows, more)
<1> SUFFICES ASSUME NEW w \in WordIds, rows[w] # None
             PROVE  EarnedBy(rows[w], EventsOf(more, w))
  BY DEF AllEarned
<1>1. rows[w] \in StateRow /\ EarnedBy(rows[w], EventsOf(log, w))
  BY DEF AllEarned, StateRows
<1>2. EventsOf(log, w) \subseteq EventsOf(more, w) /\ IsFiniteSet(EventsOf(more, w))
  BY FS_Subset DEF EventsOf
<1> QED
  BY <1>1, <1>2, EarnedGrows

LEMMA ItemEarnedGrows ==
    ASSUME NEW item \in Item, NEW log, NEW more, log \subseteq more, IsFiniteSet(more),
           ItemEarned(item, log)
    PROVE  ItemEarned(item, more)
<1>1. item.row \in StateRow
  BY DEF Item
<1>2. /\ EventsOf(log, item.word) \subseteq EventsOf(more, item.word)
      /\ IsFiniteSet(EventsOf(more, item.word))
  BY FS_Subset DEF EventsOf
<1> QED
  BY <1>1, <1>2, EarnedGrows DEF ItemEarned

LEMMA RequestEarnedGrows ==
    ASSUME NEW q \in Request, NEW log, NEW more, log \subseteq more, IsFiniteSet(more),
           NEW next \in Nat, NEW later \in Nat, next <= later,
           RequestEarned(q, log, next)
    PROVE  RequestEarned(q, more, later)
<1>1. CASE q \in SaveRequest
  <2>1. q.row \in StateRow /\ q.event \in PracticeEvent /\ q.op = "savePracticeResult"
    BY <1>1 DEF SaveRequest
  <2> DEFINE old == EventsOf(log, q.event.word) \cup {q.event}
             new == EventsOf(more, q.event.word) \cup {q.event}
  <2>2. old \subseteq new /\ IsFiniteSet(new)
    BY FS_Subset, FS_AddElement DEF EventsOf
  <2>3. EarnedBy(q.row, old) /\ q.event.id < next
    BY <2>1 DEF RequestEarned
  <2>4. EarnedBy(q.row, new)
    BY <2>1, <2>2, <2>3, EarnedGrows
  <2>5. q.event.id < later
    BY <2>1, <2>3 DEF PracticeEvent
  <2> QED
    BY <2>1, <2>4, <2>5 DEF RequestEarned
<1>2. CASE q \in ReplaceRequest
  <2>1. q.op = "replaceMemoryStates" /\ q.rows \in StateRows
    BY <1>2 DEF ReplaceRequest
  <2> QED
    BY <2>1, AllEarnedGrows DEF RequestEarned
<1>3. CASE q \in InsertRequest \cup UpdateRequest \cup DeleteRequest
  BY <1>3 DEF RequestEarned, InsertRequest, UpdateRequest, DeleteRequest
<1> QED
  BY <1>1, <1>2, <1>3 DEF Request

-------------------------------------------------------------------------------
\* The ladder has two stages a word can be moved to.
LEMMA MovedToCases ==
    ASSUME NEW ladder, NEW kind, NEW r
    PROVE  MovedTo(ladder, kind, r) \in {None, "meaningRecall", "contextRecall"}
BY DEF MovedTo

(***************************************************************************)
(* An answer accounts for one more attempt, and for the stage it moves the *)
(* word to (submitPracticeAnswer, transitionAfterRating).                  *)
(***************************************************************************)
LEMMA AnsweredEarned ==
    ASSUME NEW row \in StateRow, NEW card \in Card, NEW kind \in Kinds, NEW now \in Nat,
           NEW r \in Ratings, NEW id \in Nat, NEW w \in WordIds,
           NEW evs, IsFiniteSet(evs), \A e \in evs : e.id \in Nat /\ e.id < id,
           EarnedBy(row, evs)
    PROVE  EarnedBy(AnsweredRow(row, card, kind, now, r),
                    evs \cup {AnswerEvent(id, w, row, card, kind, now, r)})
<1> DEFINE new == AnswerEvent(id, w, row, card, kind, now, r)
           answered == AnsweredRow(row, card, kind, now, r)
<1>1. new.id = id /\ new.movedTo = MovedTo(row, kind, r)
  BY DEF AnswerEvent
<1>2. answered.attempts = row.attempts + 1 /\ row.attempts \in Nat /\ row.stage \in Stages
  BY DEF AnsweredRow, Tally, StateRow
<1>3. answered.stage = IF MovedTo(row, kind, r) = None THEN row.stage ELSE MovedTo(row, kind, r)
  BY DEF AnsweredRow, TransitionAfterRating
<1> HIDE DEF new, answered
<1>4. answered.attempts <= Cardinality(evs \cup {new})
  <2>1. new \notin evs
    BY <1>1
  <2>2. Cardinality(evs \cup {new}) = Cardinality(evs) + 1 /\ Cardinality(evs) \in Nat
    BY <2>1, FS_AddElement, FS_CardinalityType
  <2>3. row.attempts <= Cardinality(evs)
    BY DEF EarnedBy
  <2> QED
    BY <1>2, <2>2, <2>3
<1>5. Earned(row.stage, evs)
  BY DEF EarnedBy
<1>6. Earned(answered.stage, evs \cup {new})
  <2>1. CASE MovedTo(row, kind, r) = None
    <3>1. answered.stage = row.stage
      BY <1>3, <2>1
    <3>2. CASE row.stage = "recognition"
      BY <3>1, <3>2 DEF Earned
    <3>3. CASE row.stage = "meaningRecall"
      BY <1>5, <3>1, <3>3 DEF Earned
    <3>4. CASE row.stage = "contextRecall"
      BY <1>5, <3>1, <3>4 DEF Earned
    <3> QED
      BY <1>2, <3>2, <3>3, <3>4 DEF Stages
  <2>2. CASE MovedTo(row, kind, r) = "meaningRecall"
    <3>1. answered.stage = "meaningRecall" /\ new.movedTo = "meaningRecall"
      BY <1>1, <1>3, <2>2, NoneAssumption DEF Stages
    <3> QED
      BY <3>1 DEF Earned
  <2>3. CASE MovedTo(row, kind, r) = "contextRecall"
    <3>1. answered.stage = "contextRecall" /\ new.movedTo = "contextRecall"
      BY <1>1, <1>3, <2>3, NoneAssumption DEF Stages
    <3>2. row.stage = "meaningRecall"
      BY <2>3, NoneAssumption DEF MovedTo, Stages
    <3>3. PICK e \in evs : e.movedTo = "meaningRecall"
      BY <1>5, <3>2 DEF Earned
    <3>4. e.id < new.id
      BY <1>1, <3>3
    <3> QED
      BY <3>1, <3>3, <3>4 DEF Earned
  <2> QED
    BY <2>1, <2>2, <2>3, MovedToCases
<1> QED
  BY <1>4, <1>6 DEF EarnedBy, new, answered

\* A new word starts where no answer is needed (_makeWordAndState).
LEMMA FreshRowEarned ==
    ASSUME NEW now, NEW evs, IsFiniteSet(evs)
    PROVE  EarnedBy(FreshRow(now), evs)
<1>1. Cardinality(evs) \in Nat
  BY FS_CardinalityType
<1> QED
  BY <1>1 DEF FreshRow, EarnedBy, Earned

-------------------------------------------------------------------------------
LEMMA InitEarned == Init => EarnedInv
<1> SUFFICES ASSUME Init PROVE EarnedInv
  OBVIOUS
<1>1. SavedInOrder
  BY FS_EmptySet DEF Init, StoreInit, SavedInOrder
<1>2. AllEarned(states, saved)
  <2>1. \A w \in WordIds : IsFiniteSet(EventsOf(saved, w))
    BY <1>1, FS_Subset DEF SavedInOrder, EventsOf
  <2> QED
    BY <2>1, FreshRowEarned DEF Init, StoreInit, AllEarned
<1>3. \A p \in PracticePages : PageEarned(p, saved, nextEvent)
  BY DEF Init, PracticeInit, PageEarned
<1>4. \A m \in MemoryPages : MemoryEarned(m, saved, nextEvent)
  BY DEF Init, MemoryInit, MemoryEarned, NoRows, AllEarned
<1>5. stray = {}
  BY DEF Init, StoreInit
<1> QED
  BY <1>1, <1>2, <1>3, <1>4, <1>5 DEF EarnedInv, HeldEarned

LEMMA InFlightEarned ==
    ASSUME TypeInv, EarnedInv, NEW q \in InFlight
    PROVE  RequestEarned(q, saved, nextEvent)
<1> USE DEF EarnedInv, HeldEarned
<1>1. CASE q \in stray
  BY <1>1
<1>2. CASE \E p \in PracticePages : step[p] = "save" /\ q = pending[p]
  BY <1>2 DEF PageEarned
<1>3. CASE \E m \in MemoryPages : memoryStep[m] = "write" /\ q = memoryPending[m]
  BY <1>3 DEF MemoryEarned
<1>4. CASE \E l \in LibraryPages : jobStep[l] = "write" /\ q = Head(queue[l])
  BY <1>4, HeadIsLibraryRequest
     DEF LibraryRequest, InsertRequest, UpdateRequest, DeleteRequest, RequestEarned
<1> QED
  BY <1>1, <1>2, <1>3, <1>4 DEF InFlight

\* A commit saves the answer of the request that runs, or none.
LEMMA CommitSaves ==
    ASSUME NEW q \in Request, Commit(q)
    PROVE  saved' = saved \/ (q \in SaveRequest /\ saved' = saved \cup {q.event})
BY CommitCases DEF SavePracticeResult, ReplaceMemoryStates, InsertWords, UpdateWords, DeleteWords

\* Answers stay saved, and whatever is saved had its id before this step.
LEMMA SavedGrows ==
    ASSUME TypeInv, EarnedInv, [Next]_vars
    PROVE  /\ saved \subseteq saved'
           /\ IsFiniteSet(saved')
           /\ \A e \in saved' : e.id \in Nat /\ e.id < nextEvent
<1>1. /\ IsFiniteSet(saved)
      /\ \A e \in saved : e.id \in Nat /\ e.id < nextEvent
  BY DEF EarnedInv, SavedInOrder, TypeInv, TypeOK, StoreTypeOK, PracticeEvent
<1>2. CASE \E q \in InFlight : Commit(q)
  <2>1. PICK q \in InFlight : Commit(q)
    BY <1>2
  <2>2. q \in Request /\ RequestEarned(q, saved, nextEvent)
    BY InFlightType, InFlightEarned
  <2>3. q \in SaveRequest => q.event.id \in Nat /\ q.event.id < nextEvent
    BY <2>2 DEF RequestEarned, SaveRequest, PracticeEvent
  <2> QED
    BY <1>1, <2>1, <2>2, <2>3, CommitSaves, FS_AddElement
<1>3. CASE UNCHANGED tables
  BY <1>1, <1>3 DEF tables
<1> QED
  BY <1>2, <1>3, StepCommits

LEMMA IdsGrow ==
    ASSUME TypeInv, [Next]_vars
    PROVE  nextEvent \in Nat /\ nextEvent' \in Nat /\ nextEvent <= nextEvent'
<1>1. nextEvent \in Nat
  BY DEF TypeInv, TypeOK, StoreTypeOK
<1> QED
  BY <1>1, EventIdsAreTakenBySending DEF SendAnswer

\* A request that runs leaves rows its answers and the earlier ones account for.
LEMMA StoredRowsStayEarned ==
    ASSUME TypeInv, EarnedInv, [Next]_vars
    PROVE  AllEarned(states', saved')
<1>1. saved \subseteq saved' /\ IsFiniteSet(saved')
  BY SavedGrows
<1>2. states \in StateRows /\ AllEarned(states, saved')
  BY <1>1, AllEarnedGrows DEF TypeInv, TypeOK, StoreTypeOK, EarnedInv, HeldEarned
<1>3. CASE \E q \in InFlight : Commit(q)
  <2>1. PICK q \in InFlight : Commit(q)
    BY <1>3
  <2>2. q \in Request /\ RequestEarned(q, saved, nextEvent)
    BY InFlightType, InFlightEarned
  <2>3. CASE q \in SaveRequest /\ SavePracticeResult(q.event, q.row)
    <3>1. q.op = "savePracticeResult" /\ q.event.word \in WordIds
      BY <2>3 DEF SaveRequest, PracticeEvent
    <3>2. EventsOf(saved', q.event.word) = EventsOf(saved, q.event.word) \cup {q.event}
      BY <2>3 DEF SavePracticeResult, EventsOf
    <3>3. EarnedBy(q.row, EventsOf(saved', q.event.word))
      BY <2>2, <3>1, <3>2 DEF RequestEarned
    <3>4. states' = [states EXCEPT ![q.event.word] = q.row]
      BY <2>3 DEF SavePracticeResult
    <3> QED
      BY <1>2, <3>1, <3>3, <3>4 DEF AllEarned, StateRows
  <2>4. CASE q \in ReplaceRequest /\ ReplaceMemoryStates(q.rows)
    <3>1. q.rows \in StateRows /\ AllEarned(q.rows, saved)
      BY <2>2, <2>4 DEF ReplaceRequest, RequestEarned
    <3>2. AllEarned(q.rows, saved')
      BY <1>1, <3>1, AllEarnedGrows
    <3> QED
      BY <1>2, <2>4, <3>2 DEF ReplaceMemoryStates, Overlay, AllEarned
  <2>5. CASE q \in InsertRequest /\ InsertWords(q.rows)
    <3>1. \A w \in WordIds : IsFiniteSet(EventsOf(saved', w))
      BY <1>1, FS_Subset DEF EventsOf
    <3> QED
      BY <1>2, <2>5, <3>1, FreshRowEarned DEF InsertWords, AllEarned
  <2>6. CASE q \in UpdateRequest /\ UpdateWords(q.rows)
    BY <1>2, <2>6 DEF UpdateWords
  <2>7. CASE q \in DeleteRequest /\ DeleteWords(q.ids)
    BY <1>2, <2>7 DEF DeleteWords, AllEarned
  <2> QED
    BY <2>1, <2>2, <2>3, <2>4, <2>5, <2>6, <2>7, CommitCases
<1>4. CASE UNCHANGED tables
  BY <1>2, <1>4 DEF tables
<1> QED
  BY <1>3, <1>4, StepCommits

\* A request joins the stray ones with answers to account for it.
LEMMA StrayStaysEarned ==
    ASSUME TypeInv, EarnedInv, [Next]_vars, NEW q \in stray'
    PROVE  RequestEarned(q, saved', nextEvent')
<1>1. q \in Request /\ RequestEarned(q, saved, nextEvent)
  <2>1. CASE q \in InFlight
    BY <2>1, InFlightType, InFlightEarned
  <2>2. CASE \E p \in PracticePages : pending[p] # None /\ q = pending[p]
    BY <2>2 DEF EarnedInv, HeldEarned, PageEarned, TypeInv, TypeOK, PracticeTypeOK, Request
  <2>3. CASE \E m \in MemoryPages : memoryPending[m] # None /\ q = memoryPending[m]
    BY <2>3 DEF EarnedInv, HeldEarned, MemoryEarned, TypeInv, TypeOK, MemoryTypeOK, Request
  <2> QED
    BY <2>1, <2>2, <2>3, StrayWasInFlight
<1> QED
  BY <1>1, SavedGrows, IdsGrow, RequestEarnedGrows

-------------------------------------------------------------------------------
(***************************************************************************)
(* Pages.  What they hold stays earned while more is saved; then one of    *)
(* them moves.                                                             *)
(***************************************************************************)
LEMMA HeldGrows ==
    ASSUME TypeInv, EarnedInv, NEW log, saved \subseteq log, IsFiniteSet(log),
           NEW later \in Nat, nextEvent <= later
    PROVE  /\ AllEarned(states, log)
           /\ \A p \in PracticePages : PageEarned(p, log, later)
           /\ \A m \in MemoryPages : MemoryEarned(m, log, later)
<1>1. nextEvent \in Nat
  BY DEF TypeInv, TypeOK, StoreTypeOK
<1>2. AllEarned(states, log)
  BY AllEarnedGrows DEF TypeInv, TypeOK, StoreTypeOK, EarnedInv, HeldEarned
<1>3. ASSUME NEW p \in PracticePages PROVE PageEarned(p, log, later)
  <2>1. PageEarned(p, saved, nextEvent)
    BY DEF EarnedInv, HeldEarned
  <2>2. (machine[p] = "Ready" \/ step[p] \in {"check", "save"}) => ItemEarned(currentItem[p], log)
    BY <2>1, ItemEarnedGrows DEF PageEarned, TypeInv, PracticeControl, PageControl
  <2>3. step[p] = "words" => AllEarned(poolRows[p], log)
    BY <2>1, AllEarnedGrows DEF PageEarned, TypeInv, PracticeControl, PageControl
  <2>4. step[p] = "getWord" => ItemEarned(candidate[p], log)
    BY <2>1, ItemEarnedGrows DEF PageEarned, TypeInv, PracticeControl, PageControl
  <2>5. (pending[p] # None \/ step[p] = "save") => pending[p] \in Request
    BY DEF TypeInv, TypeOK, PracticeTypeOK, PracticeControl, PageControl, Request
  <2>6. (pending[p] # None \/ step[p] = "save") => RequestEarned(pending[p], log, later)
    BY <1>1, <2>1, <2>5, RequestEarnedGrows DEF PageEarned
  <2> QED
    BY <2>2, <2>3, <2>4, <2>6 DEF PageEarned
<1>4. ASSUME NEW m \in MemoryPages PROVE MemoryEarned(m, log, later)
  <2>1. MemoryEarned(m, saved, nextEvent)
    BY DEF EarnedInv, HeldEarned
  <2>2. AllEarned(readStates[m], log)
    BY <2>1, AllEarnedGrows DEF MemoryEarned, TypeInv, TypeOK, MemoryTypeOK
  <2>3. (memoryPending[m] # None \/ memoryStep[m] = "write") => memoryPending[m] \in Request
    BY DEF TypeInv, TypeOK, MemoryTypeOK, MemoryControl, Request
  <2>4. (memoryPending[m] # None \/ memoryStep[m] = "write")
          => RequestEarned(memoryPending[m], log, later)
    BY <1>1, <2>1, <2>3, RequestEarnedGrows DEF MemoryEarned
  <2> QED
    BY <2>2, <2>4 DEF MemoryEarned
<1> QED
  BY <1>2, <1>3, <1>4

LEMMA PageStepEarned ==
    ASSUME TypeInv, PracticeStep, NEW log, IsFiniteSet(log),
           \A e \in log : e.id \in Nat /\ e.id < nextEvent,
           NEW later \in Nat, nextEvent' <= later,
           AllEarned(states, log),
           \A q \in PracticePages : PageEarned(q, log, later)
    PROVE  \A q \in PracticePages : PageEarned(q, log, later)'
<1>1. PICK p \in PracticePages : PracticeNext(p) \/ Open(p)
  BY DEF PracticeStep
<1> USE DEF PageEarned, TypeInv, TypeOK, PracticeTypeOK
<1>2. CASE Open(p) \/ Refresh(p)
  BY <1>2 DEF Open, Refresh, EnterLoading
<1>3. CASE Leave(p) \/ Abandon(p)
  <2>1. Forget(p)
    BY <1>3 DEF Leave, Abandon
  <2> QED
    BY <2>1 DEF Forget
<1>4. CASE Reveal(p) \/ \E r \in Ratings : Rate(p, r)
  BY <1>4 DEF Reveal, Rate
<1>5. CASE WordNoLongerActive(p) \/ AnswerRejected(p) \/ AnswerLost(p)
  <2>1. RejectAnswer(p) /\ step[p] \in {"check", "save"}
    BY <1>5 DEF WordNoLongerActive, AnswerRejected, AnswerLost
  <2> QED
    BY <2>1 DEF RejectAnswer
<1>6. CASE SendAnswer(p)
  <2>1. PICK card \in PracticeResults(currentItem[p].row.card, "scheduled", clock, rating[p]) :
          pending' = [pending EXCEPT ![p] =
              AnswerRequest(nextEvent, currentItem[p], card, clock, rating[p])]
    BY <1>6 DEF SendAnswer
  <2> DEFINE item == currentItem[p]
             request == AnswerRequest(nextEvent, item, card, clock, rating[p])
             event == AnswerEvent(nextEvent, item.word, item.row, card, "scheduled", clock, rating[p])
             earlier == EventsOf(log, item.word)
  <2>2. clock \in Nat /\ nextEvent \in Nat /\ nextEvent' = nextEvent + 1
    BY <1>6, BoundsAssumption DEF SendAnswer, StoreTypeOK
  <2>3. /\ item.word \in WordIds /\ item.row \in StateRow
        /\ rating[p] \in Ratings /\ card \in Card /\ "scheduled" \in Kinds
    BY <1>6, SubmittedItem DEF SendAnswer, Item, Kinds
  <2>4. IsFiniteSet(earlier) /\ \A e \in earlier : e.id \in Nat /\ e.id < nextEvent
    BY FS_Subset DEF EventsOf
  <2>5. EarnedBy(item.row, earlier)
    BY <1>6 DEF SendAnswer, ItemEarned
  <2>6. EarnedBy(AnsweredRow(item.row, card, "scheduled", clock, rating[p]), earlier \cup {event})
    BY <2>2, <2>3, <2>4, <2>5, AnsweredEarned
  <2>7. event.id = nextEvent /\ event.word = item.word
    BY DEF AnswerEvent
  <2>8. /\ request.op = "savePracticeResult"
        /\ request.event = event
        /\ request.row = AnsweredRow(item.row, card, "scheduled", clock, rating[p])
    BY DEF AnswerRequest
  <2> HIDE DEF request, event
  <2>9. RequestEarned(request, log, later)
    <3>1. EventsOf(log, request.event.word) \cup {request.event} = earlier \cup {event}
      BY <2>7, <2>8
    <3>2. EarnedBy(request.row, EventsOf(log, request.event.word) \cup {request.event})
      BY <2>6, <2>8, <3>1
    <3>3. request.event.id < later
      BY <2>2, <2>7, <2>8
    <3> QED
      BY <2>8, <3>2, <3>3 DEF RequestEarned
  <2>10. pending' = [pending EXCEPT ![p] = request]
    BY <2>1 DEF request
  <2> QED
    BY <1>6, <2>9, <2>10 DEF SendAnswer
<1>7. CASE AnswerSaved(p)
  BY <1>7 DEF AnswerSaved
<1>8. CASE ReadPool(p)
  BY <1>8 DEF ReadPool
<1>9. CASE SelectWord(p)
  <2>1. PICK w \in Selectable(poolRows[p], asOf[p]) :
          candidate' = [candidate EXCEPT ![p] = [word |-> w, row |-> poolRows[p][w]]]
    BY <1>9 DEF SelectWord
  <2>2. w \in WordIds /\ poolRows[p][w] # None
    BY DEF Selectable, LongestDue, DueIn
  <2>3. ItemEarned([word |-> w, row |-> poolRows[p][w]], log)
    BY <1>9, <2>2 DEF SelectWord, AllEarned, ItemEarned
  <2> QED
    BY <1>9, <2>1, <2>3 DEF SelectWord
<1>10. CASE NothingToSelect(p) \/ ItemVanished(p)
  BY <1>10 DEF NothingToSelect, ItemVanished, ShowNothing, EnterLoading
<1>11. CASE ItemLoaded(p)
  BY <1>11 DEF ItemLoaded, ShowItem
<1>12. CASE SelectionFailed(p)
  BY <1>12 DEF SelectionFailed, ShowNothing, EnterLoading
<1> QED
  BY <1>1, <1>2, <1>3, <1>4, <1>5, <1>6, <1>7, <1>8, <1>9, <1>10, <1>11, <1>12
     DEF PracticeNext, PracticeRuns

\* A new schedule leaves counter and stage as the answers account for them.
LEMMA ChangedStatesEarned ==
    ASSUME NEW rows \in StateRows, NEW log, AllEarned(rows, log), NEW cards
    PROVE  AllEarned(ChangedStates(rows, cards), log)
<1> SUFFICES ASSUME NEW w \in WordIds, ChangedStates(rows, cards)[w] # None
             PROVE  EarnedBy(ChangedStates(rows, cards)[w], EventsOf(log, w))
  BY DEF AllEarned
<1>1. w \in Replayed(rows) /\ ChangedStates(rows, cards)[w] = [rows[w] EXCEPT !.card = cards[w]]
  BY DEF ChangedStates
<1>2. rows[w] \in StateRow /\ EarnedBy(rows[w], EventsOf(log, w))
  BY <1>1 DEF Replayed, StateRows, AllEarned
<1>3. /\ [rows[w] EXCEPT !.card = cards[w]].attempts = rows[w].attempts
      /\ [rows[w] EXCEPT !.card = cards[w]].stage = rows[w].stage
  BY <1>2 DEF StateRow
<1> QED
  BY <1>1, <1>2, <1>3 DEF EarnedBy

LEMMA MemoryStepEarned ==
    ASSUME TypeInv, MemoryStep, NEW log, NEW later,
           AllEarned(states, log),
           \A k \in MemoryPages : MemoryEarned(k, log, later)
    PROVE  \A k \in MemoryPages : MemoryEarned(k, log, later)'
<1>1. PICK m \in MemoryPages : MemoryNext(m) \/ OpenMemory(m)
  BY DEF MemoryStep
<1>2. AllEarned(NoRows, log)
  BY DEF AllEarned, NoRows
<1> USE DEF MemoryEarned, TypeInv, TypeOK, MemoryTypeOK
<1>3. CASE \/ OpenMemory(m) \/ MemoryLoaded(m) \/ RefreshMemory(m) \/ RequestRecalculation(m)
           \/ ApplyRecalculation(m) \/ CancelRecalculation(m)
  BY <1>3 DEF OpenMemory, MemoryLoaded, RefreshMemory, RequestRecalculation, ApplyRecalculation,
              CancelRecalculation
<1>4. CASE LeaveMemory(m) \/ AbandonMemory(m)
  <2>1. ForgetMemory(m)
    BY <1>4 DEF LeaveMemory, AbandonMemory
  <2> QED
    BY <1>2, <2>1 DEF ForgetMemory
<1>5. CASE ReadEvents(m) \/ ReadStates(m)
  BY <1>5 DEF ReadEvents, ReadStates
<1>6. CASE PreviewShown(m) \/ SchedulesReplaced(m) \/ RecalculationStops(m)
  <2>1. EndEffect(m)
    BY <1>6 DEF PreviewShown, SchedulesReplaced, RecalculationStops
  <2> QED
    BY <1>2, <2>1 DEF EndEffect
<1>7. CASE SendReplacement(m)
  <2>1. PICK cards \in ReplayedCards(readStates[m], readEvents[m]) :
          memoryPending' = [memoryPending EXCEPT ![m] =
               [op |-> "replaceMemoryStates", rows |-> ChangedStates(readStates[m], cards)]]
    BY <1>7 DEF SendReplacement
  <2>2. AllEarned(ChangedStates(readStates[m], cards), log)
    BY ChangedStatesEarned
  <2> DEFINE request == [op |-> "replaceMemoryStates", rows |-> ChangedStates(readStates[m], cards)]
  <2>3. RequestEarned(request, log, later)
    BY <2>2 DEF RequestEarned
  <2> HIDE DEF request
  <2>4. memoryPending' = [memoryPending EXCEPT ![m] = request]
    BY <2>1 DEF request
  <2> QED
    BY <1>7, <2>3, <2>4 DEF SendReplacement
<1>8. CASE ReplacementRejected(m)
  BY <1>6, <1>8 DEF ReplacementRejected
<1>9. CASE MemoryCallLost(m)
  <2>1. CASE UNCHANGED <<memoryStep, readEvents, readStates, preview, memoryNotice, memoryPending>>
    BY <2>1
  <2> QED
    BY <1>6, <1>9, <2>1 DEF MemoryCallLost
<1> QED
  BY <1>1, <1>3, <1>4, <1>5, <1>6, <1>7, <1>8, <1>9 DEF MemoryNext, MemoryRuns

LEMMA StepEarned == TypeInv /\ EarnedInv /\ [Next]_vars => EarnedInv'
<1> SUFFICES ASSUME TypeInv, EarnedInv, [Next]_vars PROVE EarnedInv'
  OBVIOUS
<1>1. PICK log : log = saved'
  OBVIOUS
<1>2. PICK later : later = nextEvent'
  OBVIOUS
<1>3. /\ saved \subseteq log /\ IsFiniteSet(log)
      /\ \A e \in log : e.id \in Nat /\ e.id < nextEvent
  BY <1>1, SavedGrows
<1>4. nextEvent \in Nat /\ later \in Nat /\ nextEvent <= later /\ nextEvent' <= later
  BY <1>2, IdsGrow
<1>5. /\ AllEarned(states, log)
      /\ \A p \in PracticePages : PageEarned(p, log, later)
      /\ \A m \in MemoryPages : MemoryEarned(m, log, later)
  BY <1>3, <1>4, HeldGrows
<1>6. SavedInOrder'
  <2>1. \A e \in log : e.id < later
    BY <1>3, <1>4
  <2> QED
    BY <1>1, <1>2, <1>3, <2>1 DEF SavedInOrder
<1>7. \A p \in PracticePages : PageEarned(p, log, later)'
  <2>1. CASE PracticeStep
    BY <1>3, <1>4, <1>5, <2>1, PageStepEarned
  <2>2. CASE UNCHANGED pageVars
    BY <1>5, <2>2 DEF pageVars, PageEarned
  <2> QED
    BY <2>1, <2>2 DEF Next, MemoryStep, LibraryStep, EnvironmentStep, vars
<1>8. \A m \in MemoryPages : MemoryEarned(m, log, later)'
  <2>1. CASE MemoryStep
    BY <1>5, <2>1, MemoryStepEarned
  <2>2. CASE UNCHANGED memoryVars
    BY <1>5, <2>2 DEF memoryVars, MemoryEarned
  <2> QED
    BY <2>1, <2>2 DEF Next, PracticeStep, LibraryStep, EnvironmentStep, vars
<1>9. HeldEarned(saved, nextEvent)'
  BY <1>1, <1>2, <1>7, <1>8, StoredRowsStayEarned, StrayStaysEarned
     DEF HeldEarned, PageEarned, MemoryEarned
<1> QED
  BY <1>6, <1>9 DEF EarnedInv

\* Whoever holds a row, the store, a page, a recalculation or a request, holds one
\* the saved answers account for (submitPracticeAnswer, replaceMemoryStates).
THEOREM EarnedInvariant == Spec => []EarnedInv
BY InitEarned, StepEarned, TypeInvariant, PTL DEF Spec

(***************************************************************************)
(* No word is ever stored above the stage that saved answers moved it to,  *)
(* in any number of tabs and with any saves lost, repeated or late         *)
(* (submitPracticeAnswer writes the whole row it computed from a copy).    *)
(***************************************************************************)
THEOREM StagesAlwaysEarned == Spec => []StagesAreEarned
<1>1. EarnedInv => StagesAreEarned
  BY DEF EarnedInv, HeldEarned, AllEarned, EarnedBy, StagesAreEarned, SavedFor, EventsOf
<1> QED
  BY <1>1, EarnedInvariant, PTL

(***************************************************************************)
(* No memory row counts more answers than were saved for its word: races,  *)
(* retries and recalculations may lose counts, never invent them.          *)
(***************************************************************************)
THEOREM AttemptsNeverInvented == Spec => []NoInventedAttempts
<1>1. EarnedInv => NoInventedAttempts
  BY DEF EarnedInv, HeldEarned, AllEarned, EarnedBy, NoInventedAttempts, SavedFor, EventsOf
<1> QED
  BY <1>1, EarnedInvariant, PTL

-------------------------------------------------------------------------------
(***************************************************************************)
(* A word comes on screen with its answer hidden: what is on screen only   *)
(* changes together with the flag (onDone of Loading and Submitting).      *)
(***************************************************************************)
THEOREM AnswersAlwaysStartHidden == Spec => AnswersStartHidden
<1>1. TypeInv /\ [Next]_vars =>
        [\A p \in PracticePages : currentItem'[p] # currentItem[p] => ~answerVisible'[p]]_vars
  <2> SUFFICES ASSUME TypeInv, [Next]_vars, NEW q \in PracticePages,
                      currentItem'[q] # currentItem[q]
               PROVE  ~answerVisible'[q]
    OBVIOUS
  <2> USE DEF TypeInv, TypeOK, PracticeTypeOK
  <2>1. CASE PracticeStep
    <3>1. PICK p \in PracticePages : PracticeNext(p) \/ Open(p)
      BY <2>1 DEF PracticeStep
    <3> QED
      BY <3>1 DEF PracticeNext, PracticeRuns, Open, Leave, Abandon, Refresh, Reveal, Rate,
                  WordNoLongerActive, AnswerRejected, AnswerLost, RejectAnswer, ReadPool,
                  SelectWord, NothingToSelect, ItemLoaded, ItemVanished, SelectionFailed,
                  SendAnswer, AnswerSaved, Forget, EnterLoading, ShowNothing, ShowItem
  <2>2. CASE UNCHANGED pageVars
    BY <2>2 DEF pageVars
  <2> QED
    BY <2>1, <2>2 DEF Next, MemoryStep, LibraryStep, EnvironmentStep, vars
<1> QED
  BY <1>1, TypeInvariant, PTL DEF Spec, AnswersStartHidden
===============================================================================
