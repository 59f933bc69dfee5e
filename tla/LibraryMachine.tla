----------------------------- MODULE LibraryMachine -----------------------------
(***************************************************************************)
(* The library page: the machine of packages/machines/src/                 *)
(* library-machine.ts, which decides what the learner may ask for and with *)
(* which words, around the operations of module Library.                   *)
(*                                                                         *)
(* A page shows the listing the last operation that SUCCEEDED brought      *)
(* back.  Selections, dialogs and exports go by that listing, operations   *)
(* by the words they list themselves.                                      *)
(***************************************************************************)
EXTENDS Library

VARIABLE page   \* page -> what the machine holds

machineVars == <<storeVars, libraryVars, page>>

(***************************************************************************)
(* The states of the machine.  Ready is at rest; the dialogs wait for the  *)
(* learner; in every other state the machine waits for an operation.       *)
(***************************************************************************)
Ready == {"Idle", "Copied"}
Dialogs == {"ConfirmingArchiveWords", "ConfirmingSelectedWordsDeletion",
            "ConfirmingAllWordsDeletion", "ConfirmingWordDeletion"}
Invoking == {"ChangingWordArchive", "DeletingSelectedWords", "DeletingAllWords",
             "DeletingWord", "ImportingExamples", "ImportingWords", "SavingWord", "UpdatingWord"}
MachineStates == Ready \cup Dialogs \cup Invoking \cup {"Loading", "ExportingWords"}

\* What the machine looks at in the words a listing brings.
WordEntries ==
    [w \in WordIds |->
        IF Exists(w) THEN [text |-> words[w].text, archived |-> words[w].archived] ELSE None]

Page == [state: MachineStates,
         listed: [WordIds -> [text: Texts, archived: BOOLEAN] \cup {None}],   \* wordEntries
         selected: SUBSET WordIds,                    \* selectedWordIds
         pending: SUBSET WordIds,                     \* pendingWordIds
         covers: BOOLEAN,                             \* deleteSelectionIncludesAllWords
         phrase: BOOLEAN,                             \* the text typed in the open dialog is right
         doomed: Texts \cup {None},                   \* deletingWordText
         editing: Texts \cup {None},                  \* editingWordOriginalText
         action: {"archive", "restore"} \cup {None}]  \* archiveAction

\* Absence is no entry.
ASSUME EntryAssumption == None \notin [text: Texts, archived: BOOLEAN]

\* mutant: no listing to begin with
OpenedPageUnlisted == [state |-> "Loading", listed |-> None, selected |-> {}, pending |-> {},
                       covers |-> FALSE, phrase |-> FALSE, doomed |-> None, editing |-> None,
                       action |-> None]

\* The context a page is mounted with.
OpenedPage == [state |-> "Loading", listed |-> NoRows, selected |-> {}, pending |-> {},
               covers |-> FALSE, phrase |-> FALSE, doomed |-> None, editing |-> None,
               action |-> None]

With(held, changes) ==
    [f \in DOMAIN held |-> IF f \in DOMAIN changes THEN changes[f] ELSE held[f]]

Become(l, changes) == page' = [page EXCEPT ![l] = With(page[l], changes)]

In(l, ss) == page[l].state \in ss

Listed(l) == Given(page[l].listed)
ListedActive(l) == {w \in Listed(l) : ~page[l].listed[w].archived}
ListedTexts(l) == {page[l].listed[w].text : w \in Listed(l)}

(***************************************************************************)
(* Events the machine answers by itself.                                   *)
(***************************************************************************)
Here == UNCHANGED <<storeVars, libraryVars>>

Toggled(set, w) == IF w \in set THEN set \ {w} ELSE set \cup {w}

ToggleWordSelection(l) ==
    /\ In(l, Ready)
    /\ \E w \in Listed(l) : Become(l, [selected |-> Toggled(page[l].selected, w)])
    /\ Here

\* Lengths are compared, not members.
AllSelected(l) == Cardinality(page[l].selected) = Cardinality(Listed(l))

ToggleAllWords(l) ==
    /\ In(l, Ready)
    /\ Become(l, [selected |-> IF AllSelected(l) THEN {} ELSE Listed(l)])
    /\ Here

ClearWordSelection(l) == In(l, Ready) /\ Become(l, [selected |-> {}]) /\ Here

EditWord(l) ==
    /\ In(l, Ready)
    /\ \E t \in ListedTexts(l) : Become(l, [editing |-> t, selected |-> {}])
    /\ Here

CancelWordEdit(l) == In(l, Ready) /\ Become(l, [editing |-> None]) /\ Here

(***************************************************************************)
(* Opening a dialog.                                                       *)
(***************************************************************************)
ArchiveWord(l) ==
    /\ In(l, Ready)
    /\ \E w \in ListedActive(l) :
         Become(l, [state |-> "ConfirmingArchiveWords", action |-> "archive",
                    pending |-> {w}, editing |-> None])
    /\ Here

ArchiveSelectedWords(l) ==
    /\ In(l, Ready)
    /\ page[l].selected \cap ListedActive(l) # {}
    /\ Become(l, [state |-> "ConfirmingArchiveWords", action |-> "archive",
                  pending |-> page[l].selected \cap ListedActive(l)])
    /\ Here

\* mutant: the selection covers the library when it covers its active words
DeleteSelectedWordsOfActive(l) ==
    /\ In(l, Ready)
    /\ page[l].selected # {}
    /\ Become(l, [state |-> "ConfirmingSelectedWordsDeletion", pending |-> page[l].selected,
                  covers |-> Cardinality(page[l].selected) = Cardinality(ListedActive(l)),
                  phrase |-> FALSE])
    /\ Here

DeleteSelectedWords(l) ==
    /\ In(l, Ready)
    /\ page[l].selected # {}
    /\ Become(l, [state |-> "ConfirmingSelectedWordsDeletion", pending |-> page[l].selected,
                  covers |-> AllSelected(l), phrase |-> FALSE])
    /\ Here

DeleteAllWords(l) ==
    /\ \/ /\ In(l, Ready)
          /\ Become(l, [state |-> "ConfirmingAllWordsDeletion", phrase |-> FALSE, doomed |-> None,
                        editing |-> None, selected |-> {}])
       \/ /\ In(l, {"ConfirmingWordDeletion"})
          /\ Become(l, [state |-> "ConfirmingAllWordsDeletion", phrase |-> FALSE, doomed |-> None])
    /\ Here

\* mutant: the selection survives
DeleteWordKeepingSelection(l) ==
    /\ \E t \in ListedTexts(l) :
         \/ /\ In(l, Ready)
            /\ Become(l, [state |-> "ConfirmingWordDeletion", doomed |-> t, editing |-> None])
         \/ /\ In(l, {"ConfirmingAllWordsDeletion"})
            /\ Become(l, [state |-> "ConfirmingWordDeletion", doomed |-> t, phrase |-> FALSE])
         \/ /\ In(l, {"ConfirmingWordDeletion"})
            /\ t # page[l].doomed
            /\ Become(l, [doomed |-> t])
    /\ Here

\* deleteWord names the word; the same event again confirms (DeletingWord).
DeleteWord(l) ==
    /\ \E t \in ListedTexts(l) :
         \/ /\ In(l, Ready)
            /\ Become(l, [state |-> "ConfirmingWordDeletion", doomed |-> t,
                          editing |-> None, selected |-> {}])
         \/ /\ In(l, {"ConfirmingAllWordsDeletion"})
            /\ Become(l, [state |-> "ConfirmingWordDeletion", doomed |-> t, phrase |-> FALSE])
         \/ /\ In(l, {"ConfirmingWordDeletion"})
            /\ t # page[l].doomed
            /\ Become(l, [doomed |-> t])
    /\ Here

(***************************************************************************)
(* In a dialog.                                                            *)
(***************************************************************************)
TypeConfirmation(l) ==
    /\ In(l, {"ConfirmingSelectedWordsDeletion", "ConfirmingAllWordsDeletion"})
    /\ Become(l, [phrase |-> ~page[l].phrase])
    /\ Here

Cancel(l) ==
    /\ \/ /\ In(l, {"ConfirmingArchiveWords"})
          /\ Become(l, [state |-> "Idle", action |-> None, pending |-> {}])
       \/ /\ In(l, {"ConfirmingSelectedWordsDeletion"})
          /\ Become(l, [state |-> "Idle", phrase |-> FALSE, covers |-> FALSE, pending |-> {}])
       \/ In(l, {"ConfirmingAllWordsDeletion"}) /\ Become(l, [state |-> "Idle", phrase |-> FALSE])
       \/ In(l, {"ConfirmingWordDeletion"}) /\ Become(l, [state |-> "Idle", doomed |-> None])
    /\ Here

(***************************************************************************)
(* Invoking an operation.  What it is given is fixed now.                  *)
(***************************************************************************)
Ask(kind, ids, from, texts, added) ==
    [kind |-> kind, ids |-> ids, from |-> from, texts |-> texts, added |-> added]

Invoke(l, state, asked) == Start(l, asked) /\ Become(l, [state |-> state])

ConfirmArchiveWords(l) ==
    /\ In(l, {"ConfirmingArchiveWords"})
    /\ Invoke(l, "ChangingWordArchive", Ask("archive", page[l].pending, None, {}, {}))

RestoreWord(l) ==
    /\ In(l, Ready)
    /\ \E w \in Listed(l) \ ListedActive(l) :
         /\ Start(l, Ask("restore", {w}, None, {}, {}))
         /\ Become(l, [state |-> "ChangingWordArchive", action |-> "restore",
                       pending |-> {w}, editing |-> None])

\* Without the phrase the operation fails before any call, back in the dialog.
ConfirmDeleteSelectedWords(l) ==
    /\ In(l, {"ConfirmingSelectedWordsDeletion"})
    /\ page[l].covers => page[l].phrase
    /\ Invoke(l, "DeletingSelectedWords",
              Ask("deleteSelectedWordEntries", page[l].pending, None, {}, {}))

ConfirmDeleteAllWords(l) ==
    /\ In(l, {"ConfirmingAllWordsDeletion"})
    /\ page[l].phrase
    /\ Invoke(l, "DeletingAllWords", Ask("deleteAllWordEntries", {}, None, {}, {}))

ConfirmWordDeletion(l) ==
    /\ In(l, {"ConfirmingWordDeletion"})
    /\ Invoke(l, "DeletingWord", Ask("deleteWordEntry", {}, page[l].doomed, {}, {}))

SaveWord(l) ==
    /\ In(l, Ready)
    /\ \E t \in Texts : Invoke(l, "SavingWord", Ask("saveWordEntry", {}, None, {t}, {}))

UpdateWord(l) ==
    /\ In(l, Ready)
    /\ page[l].editing # None
    /\ \E t \in Texts :
         Invoke(l, "UpdatingWord", Ask("updateWordEntry", {}, page[l].editing, {t}, {}))

ImportWords(l) ==
    /\ In(l, Ready)
    /\ \E ts \in SUBSET Texts \ {{}} :
         Invoke(l, "ImportingWords", Ask("importWordEntries", {}, None, ts, Examples))

ImportExamples(l) ==
    /\ In(l, Ready)
    /\ \E ts \in SUBSET Texts \ {{}} :
         Invoke(l, "ImportingExamples", Ask("importExampleEntries", {}, None, ts, Examples))

(***************************************************************************)
(* How it ends: onDone, once the words are listed again, and onError.      *)
(***************************************************************************)
OnDone ==
    [ChangingWordArchive   |-> [state |-> "Idle", action |-> None, pending |-> {}, selected |-> {}],
     DeletingSelectedWords |-> [state |-> "Idle", phrase |-> FALSE, covers |-> FALSE,
                                pending |-> {}, selected |-> {}],
     DeletingAllWords      |-> [state |-> "Idle", phrase |-> FALSE, editing |-> None],
     DeletingWord          |-> [state |-> "Idle", doomed |-> None],
     UpdatingWord          |-> [state |-> "Idle", editing |-> None],
     SavingWord            |-> [state |-> "Idle"],
     ImportingWords        |-> [state |-> "Idle"],
     ImportingExamples     |-> [state |-> "Idle"]]

\* mutant: an operation that failed leaves its busy state only when it deletes or archives
OnErrorOfSome ==
    [ChangingWordArchive   |-> [state |-> "Idle", action |-> None, pending |-> {}],
     DeletingSelectedWords |-> [state |-> "ConfirmingSelectedWordsDeletion"],
     DeletingAllWords      |-> [state |-> "ConfirmingAllWordsDeletion"],
     DeletingWord          |-> [state |-> "Idle", doomed |-> None],
     UpdatingWord          |-> [action |-> None],
     SavingWord            |-> [action |-> None],
     ImportingWords        |-> [action |-> None],
     ImportingExamples     |-> [action |-> None]]

OnError ==
    [ChangingWordArchive   |-> [state |-> "Idle", action |-> None, pending |-> {}],
     DeletingSelectedWords |-> [state |-> "ConfirmingSelectedWordsDeletion"],
     DeletingAllWords      |-> [state |-> "ConfirmingAllWordsDeletion"],
     DeletingWord          |-> [state |-> "Idle", doomed |-> None],
     UpdatingWord          |-> [state |-> "Idle"],
     SavingWord            |-> [state |-> "Idle"],
     ImportingWords        |-> [state |-> "Idle"],
     ImportingExamples     |-> [state |-> "Idle"]]

OperationDone(l) ==
    /\ Reloaded(l)
    /\ page' = [page EXCEPT ![l] = [With(@, OnDone[page[l].state]) EXCEPT !.listed = WordEntries]]

OperationFailed(l) ==
    /\ RefuseJob(l) \/ LibraryCallLost(l)
    /\ Become(l, OnError[page[l].state])

OperationGoesOn(l) ==
    /\ \/ AddWords(l) \/ UpdateWordEntry(l) \/ ChangeWordArchive(l) \/ DeleteWordEntry(l)
       \/ DeleteSelectedWordEntries(l) \/ ImportExampleEntries(l) \/ MutationApplied(l)
    /\ UNCHANGED page

(***************************************************************************)
(* Listing the words, and copying the selected active ones.                *)
(***************************************************************************)
\* What a dialog held is dropped with it: opening one sets it anew.
Refresh(l) ==
    /\ In(l, Ready \cup {"ConfirmingAllWordsDeletion", "ConfirmingWordDeletion"})
    /\ Become(l, [state |-> "Loading", phrase |-> FALSE, doomed |-> None])
    /\ Here

Loaded(l) ==
    /\ In(l, {"Loading"})
    /\ Become(l, [state |-> "Idle", listed |-> WordEntries])
    /\ Here

NotLoaded(l) ==
    /\ In(l, {"Loading"})
    /\ Disturb
    /\ Become(l, [state |-> "Idle"])
    /\ UNCHANGED <<tables, supplies, stray, libraryVars>>

ExportWords(l) == In(l, Ready) /\ Become(l, [state |-> "ExportingWords"]) /\ Here

\* The clipboard may refuse.
Exported(l) ==
    /\ In(l, {"ExportingWords"})
    /\ \/ page[l].selected \cap ListedActive(l) # {} /\ Become(l, [state |-> "Copied"])
       \/ Become(l, [state |-> "Idle"])
    /\ Here

\* after: 1800
CopiedLongEnough(l) == In(l, {"Copied"}) /\ Become(l, [state |-> "Idle"]) /\ Here

\* The learner leaves the page and comes back; what it waited for is lost.
Reopen(l) ==
    /\ Become(l, OpenedPage)
    /\ LibraryCallLost(l) \/ (jobStep[l] = "idle" /\ Here)

(***************************************************************************)
(* Specification parts.                                                    *)
(***************************************************************************)
MachineInit == LibraryInit /\ page = [l \in LibraryPages |-> OpenedPage]

LearnerActs(l) ==
    \/ ToggleWordSelection(l) \/ ToggleAllWords(l) \/ ClearWordSelection(l)
    \/ EditWord(l) \/ CancelWordEdit(l)
    \/ ArchiveWord(l) \/ ArchiveSelectedWords(l) \/ DeleteSelectedWords(l)
    \/ DeleteAllWords(l) \/ DeleteWord(l) \/ TypeConfirmation(l) \/ Cancel(l)
    \/ ConfirmArchiveWords(l) \/ RestoreWord(l) \/ ConfirmDeleteSelectedWords(l)
    \/ ConfirmDeleteAllWords(l) \/ ConfirmWordDeletion(l)
    \/ SaveWord(l) \/ UpdateWord(l) \/ ImportWords(l) \/ ImportExamples(l)
    \/ Refresh(l) \/ ExportWords(l) \/ Reopen(l)

MachineRuns(l) ==
    \/ OperationGoesOn(l) \/ OperationDone(l) \/ OperationFailed(l)
    \/ Loaded(l) \/ NotLoaded(l) \/ Exported(l) \/ CopiedLongEnough(l)

MachineTypeOK == LibraryTypeOK /\ page \in [LibraryPages -> Page]
==============================================================================
