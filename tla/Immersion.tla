------------------------------ MODULE Immersion ------------------------------
(***************************************************************************)
(* The application: practice, memory and library pages of one learner, in  *)
(* as many browser tabs as there are pages, over one store.                *)
(*                                                                         *)
(* With OneTab a single tab shows one page at a time, and the learner      *)
(* opens the next one only after leaving the last.                         *)
(***************************************************************************)
EXTENDS Practice, Memory, Library

CONSTANT OneTab

ASSUME OneTabAssumption == OneTab \in BOOLEAN

vars == <<storeVars, pageVars, memoryVars, libraryVars>>

NothingOpen ==
    /\ \A p \in PracticePages : machine[p] = "Closed"
    /\ \A m \in MemoryPages : memory[m] = "Closed"
    /\ \A l \in LibraryPages : jobStep[l] = "idle"

MayOpen == OneTab => NothingOpen

Init == StoreInit /\ PracticeInit /\ MemoryInit /\ LibraryInit

PracticeStep ==
    /\ \E p \in PracticePages : PracticeNext(p) \/ (MayOpen /\ Open(p))
    /\ UNCHANGED <<memoryVars, libraryVars>>

MemoryStep ==
    /\ \E m \in MemoryPages : MemoryNext(m) \/ (MayOpen /\ OpenMemory(m))
    /\ UNCHANGED <<pageVars, libraryVars>>

LibraryStep ==
    /\ \E l \in LibraryPages : LibraryNext(l) \/ (MayOpen /\ \E j \in Jobs : Start(l, j))
    /\ UNCHANGED <<pageVars, memoryVars>>

EnvironmentStep == (Tick \/ LateCommit) /\ UNCHANGED <<pageVars, memoryVars, libraryVars>>

Next == PracticeStep \/ MemoryStep \/ LibraryStep \/ EnvironmentStep

Spec == Init /\ [][Next]_vars

(***************************************************************************)
(* Every call is eventually answered or fails: a pending call of a page    *)
(* that stays open does not hang for ever.  Nothing is assumed of the      *)
(* learner, of time or of mutations nobody waits for.                      *)
(***************************************************************************)
Fairness ==
    /\ \A p \in PracticePages :
         WF_vars(PracticeRuns(p) /\ UNCHANGED <<memoryVars, libraryVars>>)
    /\ \A m \in MemoryPages :
         WF_vars(MemoryRuns(m) /\ UNCHANGED <<pageVars, libraryVars>>)
    /\ \A l \in LibraryPages :
         WF_vars(LibraryRuns(l) /\ UNCHANGED <<pageVars, memoryVars>>)

FairSpec == Spec /\ Fairness

-------------------------------------------------------------------------------
TypeOK == StoreTypeOK /\ PracticeTypeOK /\ MemoryTypeOK /\ LibraryTypeOK

(***************************************************************************)
(* However pages race and requests are lost, repeated or late, no stored   *)
(* memory row has counters or streaks a sequence of answers could not have *)
(* produced (word_memory_states as written by savePracticeResult and       *)
(* replaceMemoryStates).                                                   *)
(***************************************************************************)
RowsWellFormed == \A w \in WordIds : states[w] # None => WellFormed(states[w])

SavedFor(w) == {e \in saved : e.word = w}

(***************************************************************************)
(* A memory row never counts an answer that was not saved: races and       *)
(* retries may lose counts, never invent them.                             *)
(***************************************************************************)
NoInventedAttempts ==
    \A w \in WordIds : states[w] # None => states[w].attempts <= Cardinality(SavedFor(w))

(***************************************************************************)
(* No word is ever stored above the stage it earned: meaning recall takes  *)
(* a saved answer that moved it there, context recall one more after it.   *)
(***************************************************************************)
Earned(stage, evs) ==
    CASE stage = "recognition" -> TRUE
      [] stage = "meaningRecall" -> \E e \in evs : e.movedTo = "meaningRecall"
      [] stage = "contextRecall" ->
           \E e, f \in evs :
               e.movedTo = "meaningRecall" /\ f.movedTo = "contextRecall" /\ e.id < f.id

StagesAreEarned == \A w \in WordIds : states[w] # None => Earned(states[w].stage, SavedFor(w))

\* Memory rows and events belong to words that exist, whatever arrives late.
NoOrphans ==
    /\ \A w \in WordIds : states[w] # None => Exists(w)
    /\ \A e \in events : Exists(e.word)

(***************************************************************************)
(* An archived word gets no answer but those already under way when it was *)
(* archived (the getWord check of submitPracticeAnswer).                   *)
(***************************************************************************)
OnlyLateAnswersWhenArchived ==
    \A e \in events :
        (words[e.word] # None /\ words[e.word].archived) => e.id < archivedFrom[e.word]

(***************************************************************************)
(* History is never rewritten: an event leaves the log only with its word. *)
(***************************************************************************)
HistoryIsKept == [][\A e \in events : e \in events' \/ words'[e.word] = None]_vars

(***************************************************************************)
(* The dialog's "permanently delete": a deleted word does not come back.   *)
(***************************************************************************)
DeletedForGood == \A w \in deleted : words[w] = None

\* Every word in the library can be scheduled.
EveryWordHasMemory == \A w \in WordIds : Exists(w) => states[w] # None

(***************************************************************************)
(* Pages.                                                                  *)
(***************************************************************************)
\* A word comes on screen with its answer hidden.
AnswersStartHidden ==
    [][\A p \in PracticePages :
         currentItem'[p] # currentItem[p] => ~answerVisible'[p]]_vars

\* The learner is told that an answer was saved although no word followed it.
SavedNoticeShown ==
    [][\A p \in PracticePages :
         (/\ machine[p] = "Loading"
          /\ message[p] = SavedNotice
          /\ machine'[p] \in {"Ready", "EmptyLibrary", "Complete"})
         => message'[p] = SavedNotice]_vars

(***************************************************************************)
(* Whatever happens to its calls, nothing stays busy for ever: practice    *)
(* and memory pages come to rest, library operations end, refused or not.  *)
(***************************************************************************)
PagesSettle ==
    /\ \A p \in PracticePages : Invoked(p) ~> ~Invoked(p)
    /\ \A m \in MemoryPages : MemoryInvoked(m) ~> ~MemoryInvoked(m)
    /\ \A l \in LibraryPages : jobStep[l] # "idle" ~> jobStep[l] = "idle"

(***************************************************************************)
(* One tab used with patience.                                             *)
(***************************************************************************)

(***************************************************************************)
(* No two words have the same plain spelling: every way to add or rename a *)
(* word looks for one first (library-machine.ts).                          *)
(***************************************************************************)
SpellingsDiffer ==
    \A v, w \in WordIds : (v # w /\ Exists(v) /\ Exists(w)) =>
        PlainText[words[v].text] # PlainText[words[w].text]

(***************************************************************************)
(* Without fuzz, a word's schedule is what replaying its history gives: a  *)
(* recalculation finds nothing to change.                                  *)
(***************************************************************************)
ScheduleMatchesHistory ==
    \A w \in WordIds : (Exists(w) /\ states[w] # None) =>
        states[w].card \in ReplaysOf(w, EventsOf(events, w))

(***************************************************************************)
(* A recalculation leaves every active word with the schedule its history  *)
(* gives, whatever the live scheduler had made of it.                      *)
(***************************************************************************)
RecalculationTakes ==
    [][\A m \in MemoryPages :
         (memoryStep[m] = "write" /\ memory'[m] = "Loading") =>
            \A w \in WordIds : (Active(w) /\ states[w] # None) =>
                states'[w].card \in ReplaysOf(w, EventsOf(events, w))]_vars

(***************************************************************************)
(* What a recalculation writes is what its confirmation announced: the     *)
(* page reads everything again, and in one tab nothing has changed since.  *)
(* Answers of the same instant may be sorted either way and are left out.  *)
(***************************************************************************)
AppliedAsPreviewed ==
    [][(\A e, f \in events : e.word = f.word /\ e.reviewedAt = f.reviewedAt => e = f) =>
         \A m \in MemoryPages :
            (memory[m] = "ApplyingRecalculation" /\ memory'[m] = "Loading") =>
               Given(memoryPending[m].rows) = preview[m]]_vars

\* It implements the ledger.
Ledger == INSTANCE PracticeLedger WITH
    rows <- states, log <- events,
    EventIds <- 0 .. (MaxAnswers - 1), Times <- 0 .. MaxClock

LedgerSpec == Ledger!LedgerSpec
LogIsConnected == Ledger!LogIsConnected
==============================================================================
