-------------------------------- MODULE Memory --------------------------------
(***************************************************************************)
(* The word memory page: packages/machines/src/word-memory-machine.ts.     *)
(* It recalculates every schedule from the practice history in four calls: *)
(* the events, the memory rows and the words are read one after the other, *)
(* then the rows whose card differs are written back WHOLE, with the stage *)
(* and the counters they had when they were read.                          *)
(***************************************************************************)
EXTENDS RecalculatedRows

CONSTANT MemoryPages

VARIABLES
    memory,         \* page -> state of its machine
    memoryStep,     \* page -> the call a running effect makes next
    readEvents,     \* page -> events the effect read
    readStates,     \* page -> memory rows the effect read
    preview,        \* page -> words a previewed recalculation changes, or None
    memoryNotice,   \* page -> None, "unchanged" or "recalculated"
    memoryPending   \* page -> the replacement it waits for, or None

memoryVars == <<memory, memoryStep, readEvents, readStates, preview, memoryNotice, memoryPending>>

MemoryStates == {"Closed", "Loading", "Ready", "CalculatingRecalculationPreview",
                 "ConfirmingRecalculation", "ApplyingRecalculation", "Failure"}
MemorySteps == {"idle", "events", "states", "words", "write"}

MemoryInvoked(m) ==
    memory[m] \in {"Loading", "CalculatingRecalculationPreview", "ApplyingRecalculation"}

OpenMemory(m) ==
    /\ memory[m] = "Closed"
    /\ memory' = [memory EXCEPT ![m] = "Loading"]
    /\ UNCHANGED <<memoryStep, readEvents, readStates, preview, memoryNotice, memoryPending>>
    /\ UNCHANGED storeVars

ForgetMemory(m) ==
    /\ memory' = [memory EXCEPT ![m] = "Closed"]
    /\ memoryStep' = [memoryStep EXCEPT ![m] = "idle"]
    /\ readEvents' = [readEvents EXCEPT ![m] = {}]
    /\ readStates' = [readStates EXCEPT ![m] = NoRows]
    /\ preview' = [preview EXCEPT ![m] = None]
    /\ memoryNotice' = [memoryNotice EXCEPT ![m] = None]
    /\ memoryPending' = [memoryPending EXCEPT ![m] = None]

LeaveMemory(m) ==
    /\ memory[m] # "Closed"
    /\ ~MemoryInvoked(m)
    /\ ForgetMemory(m)
    /\ UNCHANGED storeVars

AbandonMemory(m) ==
    /\ MemoryInvoked(m)
    /\ Disturb
    /\ ForgetMemory(m)
    /\ stray' = IF memoryPending[m] = None THEN stray ELSE stray \cup {memoryPending[m]}
    /\ UNCHANGED tables
    /\ UNCHANGED supplies

\* loadWordMemory: what it reads is only displayed.
MemoryLoaded(m) ==
    /\ memory[m] = "Loading"
    /\ memory' = [memory EXCEPT ![m] = "Ready"]
    /\ UNCHANGED <<memoryStep, readEvents, readStates, preview, memoryNotice, memoryPending>>
    /\ UNCHANGED storeVars

RefreshMemory(m) ==
    /\ memory[m] \in {"Ready", "Failure"}
    /\ memory' = [memory EXCEPT ![m] = "Loading"]
    /\ UNCHANGED <<memoryStep, readEvents, readStates, preview, memoryNotice, memoryPending>>
    /\ UNCHANGED storeVars

RequestRecalculation(m) ==
    /\ memory[m] = "Ready"
    /\ memory' = [memory EXCEPT ![m] = "CalculatingRecalculationPreview"]
    /\ memoryStep' = [memoryStep EXCEPT ![m] = "events"]
    /\ preview' = [preview EXCEPT ![m] = None]
    /\ memoryNotice' = [memoryNotice EXCEPT ![m] = None]
    /\ UNCHANGED <<readEvents, readStates, memoryPending>>
    /\ UNCHANGED storeVars

\* mutant: the events of the preview are used again
ApplyRecalculationAsRead(m) ==
    /\ memory[m] = "ConfirmingRecalculation"
    /\ memory' = [memory EXCEPT ![m] = "ApplyingRecalculation"]
    /\ memoryStep' = [memoryStep EXCEPT ![m] = "states"]
    /\ UNCHANGED <<readEvents, readStates, preview, memoryNotice, memoryPending>>
    /\ UNCHANGED storeVars

ApplyRecalculation(m) ==
    /\ memory[m] = "ConfirmingRecalculation"
    /\ memory' = [memory EXCEPT ![m] = "ApplyingRecalculation"]
    /\ memoryStep' = [memoryStep EXCEPT ![m] = "events"]
    /\ UNCHANGED <<readEvents, readStates, preview, memoryNotice, memoryPending>>
    /\ UNCHANGED storeVars

CancelRecalculation(m) ==
    /\ memory[m] = "ConfirmingRecalculation"
    /\ memory' = [memory EXCEPT ![m] = "Ready"]
    /\ preview' = [preview EXCEPT ![m] = None]
    /\ UNCHANGED <<memoryStep, readEvents, readStates, memoryNotice, memoryPending>>
    /\ UNCHANGED storeVars

(***************************************************************************)
(* The three reads, shared by preview and apply.                           *)
(***************************************************************************)
ReadEvents(m) ==
    /\ memoryStep[m] = "events"
    /\ readEvents' = [readEvents EXCEPT ![m] = events]
    /\ memoryStep' = [memoryStep EXCEPT ![m] = "states"]
    /\ UNCHANGED <<memory, readStates, preview, memoryNotice, memoryPending>>
    /\ UNCHANGED storeVars

ReadStates(m) ==
    /\ memoryStep[m] = "states"
    /\ readStates' = [readStates EXCEPT ![m] = states]
    /\ memoryStep' = [memoryStep EXCEPT ![m] = "words"]
    /\ UNCHANGED <<memory, readEvents, preview, memoryNotice, memoryPending>>
    /\ UNCHANGED storeVars

EndEffect(m) ==
    /\ memoryStep' = [memoryStep EXCEPT ![m] = "idle"]
    /\ readEvents' = [readEvents EXCEPT ![m] = {}]
    /\ readStates' = [readStates EXCEPT ![m] = NoRows]
    /\ memoryPending' = [memoryPending EXCEPT ![m] = None]

PreviewShown(m) ==
    /\ memory[m] = "CalculatingRecalculationPreview"
    /\ memoryStep[m] = "words"
    /\ \E cards \in ReplayedCards(readStates[m], readEvents[m]) :
         preview' = [preview EXCEPT ![m] = Given(ChangedStates(readStates[m], cards))]
    /\ memory' = [memory EXCEPT ![m] = "ConfirmingRecalculation"]
    /\ EndEffect(m)
    /\ UNCHANGED memoryNotice
    /\ UNCHANGED storeVars

\* The rows pass the schema of the RPC (packages/data/src/store-rpc.ts).
SendReplacement(m) ==
    /\ memory[m] = "ApplyingRecalculation"
    /\ memoryStep[m] = "words"
    /\ \E cards \in ReplayedCards(readStates[m], readEvents[m]) :
         LET rows == ChangedStates(readStates[m], cards)
         IN  /\ rows \in StateRows
             /\ memoryPending' = [memoryPending EXCEPT ![m] =
                                    [op |-> "replaceMemoryStates", rows |-> rows]]
    /\ memoryStep' = [memoryStep EXCEPT ![m] = "write"]
    /\ UNCHANGED <<memory, readEvents, readStates, preview, memoryNotice>>
    /\ UNCHANGED storeVars

SchedulesReplaced(m) ==
    /\ memoryStep[m] = "write"
    /\ Commit(memoryPending[m])
    /\ memory' = [memory EXCEPT ![m] = "Loading"]
    /\ memoryNotice' = [memoryNotice EXCEPT ![m] =
          IF Given(memoryPending[m].rows) = {} THEN "unchanged" ELSE "recalculated"]
    /\ preview' = [preview EXCEPT ![m] = None]
    /\ EndEffect(m)
    /\ UNCHANGED channel
    /\ UNCHANGED supplies

\* onError of either effect.
RecalculationStops(m) ==
    /\ memory' = [memory EXCEPT ![m] =
          IF memory[m] = "ApplyingRecalculation" THEN "ConfirmingRecalculation" ELSE "Ready"]
    /\ preview' = [preview EXCEPT ![m] =
          IF memory[m] = "ApplyingRecalculation" THEN preview[m] ELSE None]
    /\ EndEffect(m)
    /\ UNCHANGED memoryNotice

ReplacementRejected(m) ==
    /\ memoryStep[m] = "write"
    /\ Rejected(memoryPending[m])
    /\ RecalculationStops(m)
    /\ UNCHANGED storeVars

\* A call fails; a replacement already sent may still be applied.
MemoryCallLost(m) ==
    /\ Disturb
    /\ \/ /\ memory[m] = "Loading"
          /\ memory' = [memory EXCEPT ![m] = "Failure"]
          /\ UNCHANGED <<memoryStep, readEvents, readStates, preview, memoryNotice, memoryPending>>
          /\ UNCHANGED stray
       \/ /\ memoryStep[m] # "idle"
          /\ RecalculationStops(m)
          /\ stray' = IF memoryStep[m] = "write" THEN stray \cup {memoryPending[m]} ELSE stray
    /\ UNCHANGED tables
    /\ UNCHANGED supplies

(***************************************************************************)
(* Specification parts.                                                    *)
(***************************************************************************)
MemoryInit ==
    /\ memory = [m \in MemoryPages |-> "Closed"]
    /\ memoryStep = [m \in MemoryPages |-> "idle"]
    /\ readEvents = [m \in MemoryPages |-> {}]
    /\ readStates = [m \in MemoryPages |-> NoRows]
    /\ preview = [m \in MemoryPages |-> None]
    /\ memoryNotice = [m \in MemoryPages |-> None]
    /\ memoryPending = [m \in MemoryPages |-> None]

\* What the browser and the server do without the learner.
MemoryRuns(m) ==
    \/ MemoryLoaded(m) \/ ReadEvents(m) \/ ReadStates(m) \/ PreviewShown(m)
    \/ SendReplacement(m) \/ SchedulesReplaced(m) \/ ReplacementRejected(m)

MemoryNext(m) ==
    \/ LeaveMemory(m) \/ AbandonMemory(m) \/ RefreshMemory(m) \/ RequestRecalculation(m)
    \/ ApplyRecalculation(m) \/ CancelRecalculation(m) \/ MemoryCallLost(m)
    \/ MemoryRuns(m)

MemoryTypeOK ==
    /\ memory \in [MemoryPages -> MemoryStates]
    /\ memoryStep \in [MemoryPages -> MemorySteps]
    /\ readEvents \in [MemoryPages -> SUBSET PracticeEvent]
    /\ readStates \in [MemoryPages -> StateRows]
    /\ preview \in [MemoryPages -> (SUBSET WordIds) \cup {None}]
    /\ memoryNotice \in [MemoryPages -> {None, "unchanged", "recalculated"}]
    /\ memoryPending \in [MemoryPages -> ReplaceRequest \cup {None}]
==============================================================================
