------------------------------ MODULE Vocabulary ------------------------------
(***************************************************************************)
(* The learner's library page and the vocabulary script over one store.    *)
(***************************************************************************)
EXTENDS LibraryMachine, VocabularyScript

CONSTANT MaxExtras   \* bound on runs of the script and failed calls, together

ASSUME ExtrasAssumption == MaxExtras \in Nat

vars == <<machineVars, script>>

Init == StoreInit /\ MachineInit /\ ScriptInit

PageStep == (\E l \in LibraryPages : LearnerActs(l) \/ MachineRuns(l)) /\ UNCHANGED script
ScriptStep == ScriptNext /\ UNCHANGED <<libraryVars, page>>
StrayStep == LateCommit /\ UNCHANGED <<libraryVars, page, script>>

Bounded == script.runs + disturbances <= MaxExtras

Next == (PageStep \/ ScriptStep \/ StrayStep) /\ Bounded'

Spec == Init /\ [][Next]_vars

-------------------------------------------------------------------------------
TypeOK == StoreTypeOK /\ MachineTypeOK /\ ScriptTypeOK

(***************************************************************************)
(* The page waits for an operation exactly when one is under way, and for  *)
(* the one it invoked: no state is left busy with nothing to wait for.     *)
(***************************************************************************)
Awaited ==
    [saveWordEntry |-> {"SavingWord"}, importWordEntries |-> {"ImportingWords"},
     updateWordEntry |-> {"UpdatingWord"}, archive |-> {"ChangingWordArchive"},
     restore |-> {"ChangingWordArchive"}, deleteWordEntry |-> {"DeletingWord"},
     deleteSelectedWordEntries |-> {"DeletingSelectedWords"},
     deleteAllWordEntries |-> {"DeletingAllWords"}, importExampleEntries |-> {"ImportingExamples"}]

WaitsForItsOperation ==
    \A l \in LibraryPages :
        IF jobStep[l] = "idle" THEN ~In(l, Invoking) ELSE In(l, Awaited[job[l].kind])

NothingFailed == disturbances = 0

(***************************************************************************)
(* While no call has failed, the words a page has selected are words it    *)
(* lists: the bar's count, "all selected" and what is deleted agree.       *)
(***************************************************************************)
SelectionIsListed ==
    NothingFailed => \A l \in LibraryPages : In(l, Ready \cup Dialogs) =>
        page[l].selected \cup page[l].pending \subseteq Listed(l)

(***************************************************************************)
(* While no call has failed, deleting a selection does not empty the       *)
(* library unless the phrase was typed, whatever the script added or       *)
(* changed since the selection was made.                                   *)
(***************************************************************************)
WholeLibraryNeedsPhrase ==
    [][\A l \in LibraryPages :
         (/\ NothingFailed
          /\ In(l, {"DeletingSelectedWords"})
          /\ Given(words) # {}
          /\ Given(words') = {}) => page[l].phrase]_vars

(***************************************************************************)
(* While no call has failed, a run of the script that reports success left *)
(* every word it inserted in the library and ready to be practised.        *)
(***************************************************************************)
VerifiedIsStored ==
    [][(NothingFailed /\ script.step = "verify" /\ script'.report = "verified") =>
         \A w \in Given(script.plan) :
            Exists(w) /\ (script.kind = "addWords" => states[w] # None)]_vars
==============================================================================
