--------------------------- MODULE Vocabulary_proofs ---------------------------
(***************************************************************************)
(* The library page and the vocabulary script over one store: for any      *)
(* number of pages what each waits for, and for one page, as long as no    *)
(* call fails, what its selections, its dialogs and the script's report    *)
(* are worth.                                                              *)
(***************************************************************************)
EXTENDS Vocabulary, Library_proofs

(***************************************************************************)
(* What a page holds by itself: words are pending in a dialog and the      *)
(* operation it leads to only, nothing is selected where the whole library *)
(* or a word by its spelling is deleted, and a selection that does not     *)
(* cover the library is not all of it.                                     *)
(***************************************************************************)
Coherent(held) ==
    /\ held.pending # {} =>
         held.state \in {"ConfirmingArchiveWords", "ChangingWordArchive",
                         "ConfirmingSelectedWordsDeletion", "DeletingSelectedWords"}
    /\ held.state \in {"ConfirmingAllWordsDeletion", "ConfirmingWordDeletion",
                       "DeletingAllWords", "DeletingWord"} => held.selected = {}
    /\ held.state \in {"ConfirmingSelectedWordsDeletion", "DeletingSelectedWords"} =>
         (held.covers \/ held.pending # Given(held.listed))
    /\ held.state = "DeletingSelectedWords" => (held.covers => held.phrase)

Selection(held) == held.selected \cup held.pending \subseteq Given(held.listed)

\* The operation under way is the one the state of the page waits for.
Waits(l) ==
    IF jobStep[l] = "idle" THEN page[l].state \notin Invoking
    ELSE job[l] \in Job /\ page[l].state \in Awaited[job[l].kind]

PagesTyped == page \in [LibraryPages -> Page]
PagesWait == \A l \in LibraryPages : Coherent(page[l]) /\ Waits(l)

ScriptControl == script.step # "idle" => script.runs > 0 /\ script.report = None

VocabularyInv ==
    /\ StoreTypeOK /\ LibraryTyped
    /\ PagesTyped /\ PagesWait
    /\ ScriptTypeOK /\ ScriptControl

\* What becomes of a page is what it held, but for the changes.
LEMMA WithFields ==
    ASSUME NEW held \in Page, NEW changes, NEW after, after = With(held, changes)
    PROVE  /\ after.state = IF "state" \in DOMAIN changes THEN changes.state ELSE held.state
           /\ after.listed = IF "listed" \in DOMAIN changes THEN changes.listed ELSE held.listed
           /\ after.selected =
                IF "selected" \in DOMAIN changes THEN changes.selected ELSE held.selected
           /\ after.pending = IF "pending" \in DOMAIN changes THEN changes.pending ELSE held.pending
           /\ after.covers = IF "covers" \in DOMAIN changes THEN changes.covers ELSE held.covers
           /\ after.phrase = IF "phrase" \in DOMAIN changes THEN changes.phrase ELSE held.phrase
           /\ after.doomed = IF "doomed" \in DOMAIN changes THEN changes.doomed ELSE held.doomed
           /\ after.editing = IF "editing" \in DOMAIN changes THEN changes.editing ELSE held.editing
           /\ after.action = IF "action" \in DOMAIN changes THEN changes.action ELSE held.action
BY DEF With, Page

LEMMA AfterType ==
    ASSUME NEW held \in Page, NEW changes, NEW after, after = With(held, changes),
           after.state \in MachineStates,
           after.listed \in [WordIds -> [text: Texts, archived: BOOLEAN] \cup {None}],
           after.selected \subseteq WordIds, after.pending \subseteq WordIds,
           after.covers \in BOOLEAN, after.phrase \in BOOLEAN,
           after.doomed \in Texts \cup {None}, after.editing \in Texts \cup {None},
           after.action \in {"archive", "restore"} \cup {None}
    PROVE  after \in Page
BY DEF With, Page

LEMMA Changed ==
    ASSUME PagesTyped, NEW l \in LibraryPages, NEW changes, Become(l, changes)
    PROVE  /\ page' = [page EXCEPT ![l] = page'[l]]
           /\ page'[l] = With(page[l], changes)
BY DEF PagesTyped, Become

\* The states with an operation under way are none of the others.
LEMMA StatesDiffer ==
    /\ Ready \cap Invoking = {} /\ Dialogs \cap Invoking = {}
    /\ Ready \cap Dialogs = {}
    /\ Ready \cup Dialogs \cup Invoking \subseteq MachineStates
    /\ "Loading" \notin Ready \cup Dialogs \cup Invoking /\ "Loading" \in MachineStates
    /\ "ExportingWords" \notin Ready \cup Dialogs \cup Invoking
    /\ "ExportingWords" \in MachineStates
BY DEF Ready, Dialogs, Invoking, MachineStates

(***************************************************************************)
(* Events the machine answers by itself.                                   *)
(***************************************************************************)
\* A step of a page that begins and ends without an operation.
Rests(l) ==
    /\ page' = [page EXCEPT ![l] = page'[l]]
    /\ page'[l] \in Page /\ Coherent(page'[l])
    /\ page[l].state \notin Invoking /\ page'[l].state \notin Invoking
    /\ (Selection(page[l]) /\ Given(page[l].listed) \subseteq Given(words)) =>
         (Selection(page'[l]) /\ Given(page'[l].listed) \subseteq Given(words))

Resting(held, after) ==
    /\ after \in Page /\ Coherent(after) /\ after.state \notin Invoking
    /\ Selection(held) => Selection(after)
    /\ after.listed = held.listed

\* Enough for a page to rest, in terms of what it holds before and after.
LEMMA PageRests ==
    ASSUME PagesTyped, PagesWait, NEW l \in LibraryPages, page[l].state \notin Invoking,
           NEW changes, Become(l, changes),
           \A held, after :
               (/\ held \in Page /\ Coherent(held) /\ held = page[l]
                /\ after = With(held, changes)) => Resting(held, after)
    PROVE  Rests(l)
<1>1. page[l] \in Page /\ Coherent(page[l])
  BY DEF PagesTyped, PagesWait
<1>2. PICK held, after : held = page[l] /\ after = page'[l]
  OBVIOUS
<1>3. page' = [page EXCEPT ![l] = page'[l]] /\ after = With(held, changes)
  BY <1>2, Changed
<1>4. Resting(held, after)
  BY <1>1, <1>2, <1>3
<1> QED
  BY <1>1, <1>2, <1>3, <1>4 DEF Rests, Resting

LEMMA SelectionRests ==
    ASSUME PagesTyped, PagesWait, NEW l \in LibraryPages, In(l, Ready),
           NEW selected \in SUBSET WordIds,
           Selection(page[l]) => selected \subseteq Given(page[l].listed),
           Become(l, [selected |-> selected])
    PROVE  Rests(l)
<1>1. page[l].state \in Ready /\ page[l].state \notin Invoking
  BY StatesDiffer DEF In
<1> SUFFICES ASSUME NEW held \in Page, Coherent(held), held = page[l],
                    NEW after, after = With(held, [selected |-> selected])
             PROVE  Resting(held, after)
  BY <1>1, PageRests
<1>2. /\ after.state = held.state /\ after.listed = held.listed
      /\ after.selected = selected /\ after.pending = held.pending
      /\ after.covers = held.covers /\ after.phrase = held.phrase /\ after.doomed = held.doomed
      /\ after.editing = held.editing /\ after.action = held.action
  BY WithFields
<1>3. Coherent(after) /\ after \in Page
  BY <1>1, <1>2, AfterType DEF Coherent, Ready, Page
<1>4. Selection(held) => Selection(after)
  BY <1>2 DEF Selection
<1> QED
  BY <1>1, <1>2, <1>3, <1>4 DEF Resting

\* The texts and words of a listing are texts and words.
LEMMA ListingType ==
    ASSUME PagesTyped, NEW l \in LibraryPages
    PROVE  /\ ListedTexts(l) \subseteq Texts
           /\ ListedActive(l) \subseteq Given(page[l].listed)
           /\ Listed(l) = Given(page[l].listed) /\ Listed(l) \subseteq WordIds
<1>1. page[l].listed \in [WordIds -> [text: Texts, archived: BOOLEAN] \cup {None}]
  BY DEF PagesTyped, Page
<1> QED
  BY <1>1 DEF ListedTexts, ListedActive, Listed, Given

\* The page at rest: selecting words, naming one, opening a dialog.
LEMMA ReadyRests ==
    ASSUME PagesTyped, PagesWait, NEW l \in LibraryPages, In(l, Ready),
           \/ ToggleWordSelection(l) \/ ToggleAllWords(l) \/ ClearWordSelection(l)
           \/ EditWord(l) \/ CancelWordEdit(l)
           \/ ArchiveWord(l) \/ ArchiveSelectedWords(l) \/ DeleteSelectedWords(l)
    PROVE  Rests(l)
<1> USE DEF In, Ready, Invoking, Dialogs, MachineStates
<1>1. /\ page[l].state \in {"Idle", "Copied"} /\ page[l].state \notin Invoking
      /\ page[l].selected \subseteq WordIds
  BY DEF PagesTyped, Page
<1>2. CASE ToggleWordSelection(l)
  <2>1. PICK w \in Listed(l) : Become(l, [selected |-> Toggled(page[l].selected, w)])
    BY <1>2 DEF ToggleWordSelection
  <2> QED
    BY <1>1, <2>1, ListingType, SelectionRests DEF Toggled, Selection
<1>3. CASE ToggleAllWords(l)
  BY <1>1, <1>3, ListingType, SelectionRests DEF ToggleAllWords, Selection
<1>4. CASE ClearWordSelection(l)
  BY <1>4, SelectionRests DEF ClearWordSelection
<1>5. CASE EditWord(l)
  <2>1. PICK t \in Texts : Become(l, [editing |-> t, selected |-> {}])
    BY <1>5, ListingType DEF EditWord
  <2> SUFFICES ASSUME NEW held \in Page, Coherent(held), held = page[l],
                      NEW after,
                      after = With(held, [editing |-> t, selected |-> {}])
               PROVE  Resting(held, after)
    BY <1>1, <2>1, PageRests
  <2>8. /\ after.state = held.state /\ after.listed = held.listed /\ after.selected = {}
        /\ after.pending = held.pending /\ after.covers = held.covers
        /\ after.phrase = held.phrase /\ after.doomed = held.doomed /\ after.editing = t
        /\ after.action = held.action
    BY WithFields
  <2>9. after \in Page
    BY <1>1, <2>1, <2>8, AfterType DEF Page
  <2>10. Coherent(after) /\ after.state \notin Invoking
    BY <1>1, <2>1, <2>8 DEF Coherent
  <2> QED
    BY <1>1, <2>1, <2>8, <2>9, <2>10 DEF Resting, Selection
<1>6. CASE CancelWordEdit(l)
  <2>1. Become(l, [editing |-> None])
    BY <1>6 DEF CancelWordEdit
  <2> SUFFICES ASSUME NEW held \in Page, Coherent(held), held = page[l],
                      NEW after,
                      after = With(held, [editing |-> None])
               PROVE  Resting(held, after)
    BY <1>1, <2>1, PageRests
  <2>8. /\ after.state = held.state /\ after.listed = held.listed
        /\ after.selected = held.selected /\ after.pending = held.pending
        /\ after.covers = held.covers /\ after.phrase = held.phrase
        /\ after.doomed = held.doomed /\ after.editing = None /\ after.action = held.action
    BY WithFields
  <2>9. after \in Page
    BY <1>1, <2>1, <2>8, AfterType DEF Page
  <2>10. Coherent(after) /\ after.state \notin Invoking
    BY <1>1, <2>1, <2>8 DEF Coherent
  <2> QED
    BY <1>1, <2>1, <2>8, <2>9, <2>10 DEF Resting, Selection
<1>7. CASE ArchiveWord(l)
  <2>1. PICK pending \in SUBSET Given(page[l].listed) :
          Become(l, [state |-> "ConfirmingArchiveWords", action |-> "archive",
                     pending |-> pending, editing |-> None])
    BY <1>7, ListingType DEF ArchiveWord
  <2>2. pending \subseteq WordIds
    BY DEF Given
  <2> SUFFICES ASSUME NEW held \in Page, Coherent(held), held = page[l],
                      NEW after,
                      after = With(held, [state |-> "ConfirmingArchiveWords",
                                          action |-> "archive", pending |-> pending,
                                          editing |-> None])
               PROVE  Resting(held, after)
    BY <1>1, <2>1, <2>2, PageRests
  <2>8. /\ after.state = "ConfirmingArchiveWords" /\ after.listed = held.listed
        /\ after.selected = held.selected /\ after.pending = pending
        /\ after.covers = held.covers /\ after.phrase = held.phrase
        /\ after.doomed = held.doomed /\ after.editing = None /\ after.action = "archive"
    BY WithFields
  <2>9. after \in Page
    BY <1>1, <2>1, <2>2, <2>8, AfterType DEF Page
  <2>10. Coherent(after) /\ after.state \notin Invoking
    BY <1>1, <2>1, <2>2, <2>8 DEF Coherent
  <2> QED
    BY <1>1, <2>1, <2>2, <2>8, <2>9, <2>10 DEF Resting, Selection
<1>8. CASE ArchiveSelectedWords(l)
  <2>1. PICK pending \in SUBSET Given(page[l].listed) :
          Become(l, [state |-> "ConfirmingArchiveWords", action |-> "archive",
                     pending |-> pending])
    BY <1>8, ListingType DEF ArchiveSelectedWords
  <2>2. pending \subseteq WordIds
    BY DEF Given
  <2> SUFFICES ASSUME NEW held \in Page, Coherent(held), held = page[l],
                      NEW after,
                      after = With(held, [state |-> "ConfirmingArchiveWords",
                                          action |-> "archive", pending |-> pending])
               PROVE  Resting(held, after)
    BY <1>1, <2>1, <2>2, PageRests
  <2>8. /\ after.state = "ConfirmingArchiveWords" /\ after.listed = held.listed
        /\ after.selected = held.selected /\ after.pending = pending
        /\ after.covers = held.covers /\ after.phrase = held.phrase
        /\ after.doomed = held.doomed /\ after.editing = held.editing
        /\ after.action = "archive"
    BY WithFields
  <2>9. after \in Page
    BY <1>1, <2>1, <2>2, <2>8, AfterType DEF Page
  <2>10. Coherent(after) /\ after.state \notin Invoking
    BY <1>1, <2>1, <2>2, <2>8 DEF Coherent
  <2> QED
    BY <1>1, <2>1, <2>2, <2>8, <2>9, <2>10 DEF Resting, Selection
<1>9. CASE DeleteSelectedWords(l)
  <2>1. PICK pending \in SUBSET WordIds, covers \in BOOLEAN :
          /\ pending = page[l].selected
          /\ covers \/ pending # Given(page[l].listed)
          /\ Become(l, [state |-> "ConfirmingSelectedWordsDeletion", pending |-> pending,
                        covers |-> covers, phrase |-> FALSE])
    BY <1>1, <1>9 DEF DeleteSelectedWords, AllSelected, Listed
  <2> SUFFICES ASSUME NEW held \in Page, Coherent(held), held = page[l],
                      NEW after,
                      after = With(held, [state |-> "ConfirmingSelectedWordsDeletion",
                                          pending |-> pending, covers |-> covers,
                                          phrase |-> FALSE])
               PROVE  Resting(held, after)
    BY <1>1, <2>1, PageRests
  <2>8. /\ after.state = "ConfirmingSelectedWordsDeletion" /\ after.listed = held.listed
        /\ after.selected = held.selected /\ after.pending = pending /\ after.covers = covers
        /\ after.phrase = FALSE /\ after.doomed = held.doomed /\ after.editing = held.editing
        /\ after.action = held.action
    BY WithFields
  <2>9. after \in Page
    BY <1>1, <2>1, <2>8, AfterType DEF Page
  <2>10. Coherent(after) /\ after.state \notin Invoking
    BY <1>1, <2>1, <2>8 DEF Coherent
  <2> QED
    BY <1>1, <2>1, <2>8, <2>9, <2>10 DEF Resting, Selection
<1> QED
  BY <1>2, <1>3, <1>4, <1>5, <1>6, <1>7, <1>8, <1>9

\* Opening the other dialogs, and what is done in one.
LEMMA DialogsRest ==
    ASSUME PagesTyped, PagesWait, NEW l \in LibraryPages,
           DeleteAllWords(l) \/ DeleteWord(l) \/ TypeConfirmation(l) \/ Cancel(l)
    PROVE  Rests(l)
<1> USE DEF In, Ready, Invoking, Dialogs, MachineStates
<1>1. page[l].state \notin Invoking
  BY DEF DeleteAllWords, DeleteWord, TypeConfirmation, Cancel
<1>2. CASE DeleteAllWords(l)
  <2>1. \/ /\ page[l].state \in Ready
           /\ Become(l, [state |-> "ConfirmingAllWordsDeletion", phrase |-> FALSE,
                         doomed |-> None, editing |-> None, selected |-> {}])
        \/ /\ page[l].state = "ConfirmingWordDeletion"
           /\ Become(l, [state |-> "ConfirmingAllWordsDeletion", phrase |-> FALSE,
                         doomed |-> None])
    BY <1>2 DEF DeleteAllWords
  <2>2. CASE /\ page[l].state \in Ready
             /\ Become(l, [state |-> "ConfirmingAllWordsDeletion", phrase |-> FALSE,
                           doomed |-> None, editing |-> None, selected |-> {}])
    <3> SUFFICES ASSUME NEW held \in Page, Coherent(held), held = page[l],
                        NEW after,
                        after = With(held, [state |-> "ConfirmingAllWordsDeletion",
                                            phrase |-> FALSE, doomed |-> None, editing |-> None,
                                            selected |-> {}])
                 PROVE  Resting(held, after)
      BY <1>1, <2>2, PageRests
    <3>8. /\ after.state = "ConfirmingAllWordsDeletion" /\ after.listed = held.listed
          /\ after.selected = {} /\ after.pending = held.pending /\ after.covers = held.covers
          /\ after.phrase = FALSE /\ after.doomed = None /\ after.editing = None
          /\ after.action = held.action
      BY WithFields
    <3>9. after \in Page
      BY <1>1, <2>2, <3>8, AfterType DEF Page
    <3>10. Coherent(after) /\ after.state \notin Invoking
      BY <1>1, <2>2, <3>8 DEF Coherent
    <3> QED
      BY <1>1, <2>2, <3>8, <3>9, <3>10 DEF Resting, Selection
  <2>3. CASE /\ page[l].state = "ConfirmingWordDeletion"
             /\ Become(l, [state |-> "ConfirmingAllWordsDeletion", phrase |-> FALSE,
                           doomed |-> None])
    <3> SUFFICES ASSUME NEW held \in Page, Coherent(held), held = page[l],
                        NEW after,
                        after = With(held, [state |-> "ConfirmingAllWordsDeletion",
                                            phrase |-> FALSE, doomed |-> None])
                 PROVE  Resting(held, after)
      BY <1>1, <2>3, PageRests
    <3>8. /\ after.state = "ConfirmingAllWordsDeletion" /\ after.listed = held.listed
          /\ after.selected = held.selected /\ after.pending = held.pending
          /\ after.covers = held.covers /\ after.phrase = FALSE /\ after.doomed = None
          /\ after.editing = held.editing /\ after.action = held.action
      BY WithFields
    <3>9. after \in Page
      BY <1>1, <2>3, <3>8, AfterType DEF Page
    <3>10. Coherent(after) /\ after.state \notin Invoking
      BY <1>1, <2>3, <3>8 DEF Coherent
    <3> QED
      BY <1>1, <2>3, <3>8, <3>9, <3>10 DEF Resting, Selection
  <2> QED
    BY <2>1, <2>2, <2>3
<1>3. CASE DeleteWord(l)
  <2>1. PICK t \in Texts :
          \/ /\ page[l].state \in Ready
             /\ Become(l, [state |-> "ConfirmingWordDeletion", doomed |-> t, editing |-> None,
                           selected |-> {}])
          \/ /\ page[l].state = "ConfirmingAllWordsDeletion"
             /\ Become(l, [state |-> "ConfirmingWordDeletion", doomed |-> t, phrase |-> FALSE])
          \/ /\ page[l].state = "ConfirmingWordDeletion"
             /\ Become(l, [doomed |-> t])
    BY <1>3, ListingType DEF DeleteWord
  <2>2. CASE /\ page[l].state \in Ready
             /\ Become(l, [state |-> "ConfirmingWordDeletion", doomed |-> t, editing |-> None,
                           selected |-> {}])
    <3> SUFFICES ASSUME NEW held \in Page, Coherent(held), held = page[l],
                        NEW after,
                        after = With(held, [state |-> "ConfirmingWordDeletion", doomed |-> t,
                                            editing |-> None, selected |-> {}])
                 PROVE  Resting(held, after)
      BY <1>1, <2>2, PageRests
    <3>8. /\ after.state = "ConfirmingWordDeletion" /\ after.listed = held.listed
          /\ after.selected = {} /\ after.pending = held.pending /\ after.covers = held.covers
          /\ after.phrase = held.phrase /\ after.doomed = t /\ after.editing = None
          /\ after.action = held.action
      BY WithFields
    <3>9. after \in Page
      BY <1>1, <2>2, <3>8, AfterType DEF Page
    <3>10. Coherent(after) /\ after.state \notin Invoking
      BY <1>1, <2>2, <3>8 DEF Coherent
    <3> QED
      BY <1>1, <2>2, <3>8, <3>9, <3>10 DEF Resting, Selection
  <2>3. CASE /\ page[l].state = "ConfirmingAllWordsDeletion"
             /\ Become(l, [state |-> "ConfirmingWordDeletion", doomed |-> t, phrase |-> FALSE])
    <3> SUFFICES ASSUME NEW held \in Page, Coherent(held), held = page[l],
                        NEW after,
                        after = With(held, [state |-> "ConfirmingWordDeletion", doomed |-> t,
                                            phrase |-> FALSE])
                 PROVE  Resting(held, after)
      BY <1>1, <2>3, PageRests
    <3>8. /\ after.state = "ConfirmingWordDeletion" /\ after.listed = held.listed
          /\ after.selected = held.selected /\ after.pending = held.pending
          /\ after.covers = held.covers /\ after.phrase = FALSE /\ after.doomed = t
          /\ after.editing = held.editing /\ after.action = held.action
      BY WithFields
    <3>9. after \in Page
      BY <1>1, <2>3, <3>8, AfterType DEF Page
    <3>10. Coherent(after) /\ after.state \notin Invoking
      BY <1>1, <2>3, <3>8 DEF Coherent
    <3> QED
      BY <1>1, <2>3, <3>8, <3>9, <3>10 DEF Resting, Selection
  <2>4. CASE /\ page[l].state = "ConfirmingWordDeletion"
             /\ Become(l, [doomed |-> t])
    <3> SUFFICES ASSUME NEW held \in Page, Coherent(held), held = page[l],
                        NEW after,
                        after = With(held, [doomed |-> t])
                 PROVE  Resting(held, after)
      BY <1>1, <2>4, PageRests
    <3>8. /\ after.state = held.state /\ after.listed = held.listed
          /\ after.selected = held.selected /\ after.pending = held.pending
          /\ after.covers = held.covers /\ after.phrase = held.phrase /\ after.doomed = t
          /\ after.editing = held.editing /\ after.action = held.action
      BY WithFields
    <3>9. after \in Page
      BY <1>1, <2>4, <3>8, AfterType DEF Page
    <3>10. Coherent(after) /\ after.state \notin Invoking
      BY <1>1, <2>4, <3>8 DEF Coherent
    <3> QED
      BY <1>1, <2>4, <3>8, <3>9, <3>10 DEF Resting, Selection
  <2> QED
    BY <2>1, <2>2, <2>3, <2>4
<1>4. CASE TypeConfirmation(l)
  <2>1. PICK phrase \in BOOLEAN :
          /\ page[l].state \in {"ConfirmingSelectedWordsDeletion", "ConfirmingAllWordsDeletion"}
          /\ Become(l, [phrase |-> phrase])
    BY <1>4 DEF TypeConfirmation
  <2> SUFFICES ASSUME NEW held \in Page, Coherent(held), held = page[l],
                      NEW after,
                      after = With(held, [phrase |-> phrase])
               PROVE  Resting(held, after)
    BY <1>1, <2>1, PageRests
  <2>8. /\ after.state = held.state /\ after.listed = held.listed
        /\ after.selected = held.selected /\ after.pending = held.pending
        /\ after.covers = held.covers /\ after.phrase = phrase /\ after.doomed = held.doomed
        /\ after.editing = held.editing /\ after.action = held.action
    BY WithFields
  <2>9. after \in Page
    BY <1>1, <2>1, <2>8, AfterType DEF Page
  <2>10. Coherent(after) /\ after.state \notin Invoking
    BY <1>1, <2>1, <2>8 DEF Coherent
  <2> QED
    BY <1>1, <2>1, <2>8, <2>9, <2>10 DEF Resting, Selection
<1>5. CASE Cancel(l)
  <2>1. \/ /\ page[l].state = "ConfirmingArchiveWords"
           /\ Become(l, [state |-> "Idle", action |-> None, pending |-> {}])
        \/ /\ page[l].state = "ConfirmingSelectedWordsDeletion"
           /\ Become(l, [state |-> "Idle", phrase |-> FALSE, covers |-> FALSE, pending |-> {}])
        \/ /\ page[l].state = "ConfirmingAllWordsDeletion"
           /\ Become(l, [state |-> "Idle", phrase |-> FALSE])
        \/ /\ page[l].state = "ConfirmingWordDeletion"
           /\ Become(l, [state |-> "Idle", doomed |-> None])
    BY <1>5 DEF Cancel
  <2>2. CASE /\ page[l].state = "ConfirmingArchiveWords"
             /\ Become(l, [state |-> "Idle", action |-> None, pending |-> {}])
    <3> SUFFICES ASSUME NEW held \in Page, Coherent(held), held = page[l],
                        NEW after,
                        after = With(held, [state |-> "Idle", action |-> None, pending |-> {}])
                 PROVE  Resting(held, after)
      BY <1>1, <2>2, PageRests
    <3>8. /\ after.state = "Idle" /\ after.listed = held.listed
          /\ after.selected = held.selected /\ after.pending = {} /\ after.covers = held.covers
          /\ after.phrase = held.phrase /\ after.doomed = held.doomed
          /\ after.editing = held.editing /\ after.action = None
      BY WithFields
    <3>9. after \in Page
      BY <1>1, <2>2, <3>8, AfterType DEF Page
    <3>10. Coherent(after) /\ after.state \notin Invoking
      BY <1>1, <2>2, <3>8 DEF Coherent
    <3> QED
      BY <1>1, <2>2, <3>8, <3>9, <3>10 DEF Resting, Selection
  <2>3. CASE /\ page[l].state = "ConfirmingSelectedWordsDeletion"
             /\ Become(l, [state |-> "Idle", phrase |-> FALSE, covers |-> FALSE, pending |-> {}])
    <3> SUFFICES ASSUME NEW held \in Page, Coherent(held), held = page[l],
                        NEW after,
                        after = With(held, [state |-> "Idle", phrase |-> FALSE,
                                            covers |-> FALSE, pending |-> {}])
                 PROVE  Resting(held, after)
      BY <1>1, <2>3, PageRests
    <3>8. /\ after.state = "Idle" /\ after.listed = held.listed
          /\ after.selected = held.selected /\ after.pending = {} /\ after.covers = FALSE
          /\ after.phrase = FALSE /\ after.doomed = held.doomed /\ after.editing = held.editing
          /\ after.action = held.action
      BY WithFields
    <3>9. after \in Page
      BY <1>1, <2>3, <3>8, AfterType DEF Page
    <3>10. Coherent(after) /\ after.state \notin Invoking
      BY <1>1, <2>3, <3>8 DEF Coherent
    <3> QED
      BY <1>1, <2>3, <3>8, <3>9, <3>10 DEF Resting, Selection
  <2>4. CASE /\ page[l].state = "ConfirmingAllWordsDeletion"
             /\ Become(l, [state |-> "Idle", phrase |-> FALSE])
    <3> SUFFICES ASSUME NEW held \in Page, Coherent(held), held = page[l],
                        NEW after,
                        after = With(held, [state |-> "Idle", phrase |-> FALSE])
                 PROVE  Resting(held, after)
      BY <1>1, <2>4, PageRests
    <3>8. /\ after.state = "Idle" /\ after.listed = held.listed
          /\ after.selected = held.selected /\ after.pending = held.pending
          /\ after.covers = held.covers /\ after.phrase = FALSE /\ after.doomed = held.doomed
          /\ after.editing = held.editing /\ after.action = held.action
      BY WithFields
    <3>9. after \in Page
      BY <1>1, <2>4, <3>8, AfterType DEF Page
    <3>10. Coherent(after) /\ after.state \notin Invoking
      BY <1>1, <2>4, <3>8 DEF Coherent
    <3> QED
      BY <1>1, <2>4, <3>8, <3>9, <3>10 DEF Resting, Selection
  <2>5. CASE /\ page[l].state = "ConfirmingWordDeletion"
             /\ Become(l, [state |-> "Idle", doomed |-> None])
    <3> SUFFICES ASSUME NEW held \in Page, Coherent(held), held = page[l],
                        NEW after,
                        after = With(held, [state |-> "Idle", doomed |-> None])
                 PROVE  Resting(held, after)
      BY <1>1, <2>5, PageRests
    <3>8. /\ after.state = "Idle" /\ after.listed = held.listed
          /\ after.selected = held.selected /\ after.pending = held.pending
          /\ after.covers = held.covers /\ after.phrase = held.phrase /\ after.doomed = None
          /\ after.editing = held.editing /\ after.action = held.action
      BY WithFields
    <3>9. after \in Page
      BY <1>1, <2>5, <3>8, AfterType DEF Page
    <3>10. Coherent(after) /\ after.state \notin Invoking
      BY <1>1, <2>5, <3>8 DEF Coherent
    <3> QED
      BY <1>1, <2>5, <3>8, <3>9, <3>10 DEF Resting, Selection
  <2> QED
    BY <2>1, <2>2, <2>3, <2>4, <2>5
<1> QED
  BY <1>2, <1>3, <1>4, <1>5

\* A listing shows the words there are.
LEMMA WordEntriesType ==
    ASSUME StoreTypeOK
    PROVE  /\ WordEntries \in [WordIds -> [text: Texts, archived: BOOLEAN] \cup {None}]
           /\ Given(WordEntries) = Given(words)
BY EntryAssumption DEF WordEntries, StoreTypeOK, WordRows, WordRow, Exists, Given

\* Listing the words again, copying them, coming back to the page.
LEMMA LoadingRests ==
    ASSUME StoreTypeOK, PagesTyped, PagesWait, NEW l \in LibraryPages,
           \/ Refresh(l) \/ Loaded(l) \/ NotLoaded(l) \/ ExportWords(l) \/ Exported(l)
           \/ CopiedLongEnough(l)
    PROVE  Rests(l)
<1> USE DEF In, Ready, Invoking, Dialogs, MachineStates
<1>1. page[l].state \notin Invoking
  BY DEF Refresh, Loaded, NotLoaded, ExportWords, Exported, CopiedLongEnough
<1>2. CASE Refresh(l)
  <2>1. /\ page[l].state \in Ready \cup {"ConfirmingAllWordsDeletion", "ConfirmingWordDeletion"}
        /\ Become(l, [state |-> "Loading", phrase |-> FALSE, doomed |-> None])
    BY <1>2 DEF Refresh
  <2> SUFFICES ASSUME NEW held \in Page, Coherent(held), held = page[l],
                      NEW after,
                      after = With(held, [state |-> "Loading", phrase |-> FALSE, doomed |-> None])
               PROVE  Resting(held, after)
    BY <1>1, <2>1, PageRests
  <2>8. /\ after.state = "Loading" /\ after.listed = held.listed
        /\ after.selected = held.selected /\ after.pending = held.pending
        /\ after.covers = held.covers /\ after.phrase = FALSE /\ after.doomed = None
        /\ after.editing = held.editing /\ after.action = held.action
    BY WithFields
  <2>9. after \in Page
    BY <1>1, <2>1, <2>8, AfterType DEF Page
  <2>10. Coherent(after) /\ after.state \notin Invoking
    BY <1>1, <2>1, <2>8 DEF Coherent
  <2> QED
    BY <1>1, <2>1, <2>8, <2>9, <2>10 DEF Resting, Selection
<1>3. CASE Loaded(l)
  <2>1. /\ page[l].state = "Loading"
        /\ Become(l, [state |-> "Idle", listed |-> WordEntries])
    BY <1>3 DEF Loaded
  <2>2. PICK entries \in [WordIds -> [text: Texts, archived: BOOLEAN] \cup {None}] :
          entries = WordEntries /\ Given(entries) = Given(words)
    BY WordEntriesType
  <2>3. PICK held \in Page : held = page[l] /\ Coherent(held)
    BY DEF PagesTyped, PagesWait
  <2>4. PICK after : after = page'[l]
    OBVIOUS
  <2>5. /\ page' = [page EXCEPT ![l] = page'[l]]
        /\ after = With(held, [state |-> "Idle", listed |-> entries])
    BY <2>1, <2>2, <2>3, <2>4, Changed
  <2>6. /\ after.state = "Idle" /\ after.listed = entries /\ after.selected = held.selected
        /\ after.pending = held.pending /\ after.covers = held.covers
        /\ after.phrase = held.phrase /\ after.doomed = held.doomed
        /\ after.editing = held.editing /\ after.action = held.action
    BY <2>5, WithFields
  <2>7. after \in Page
    BY <2>5, <2>6, AfterType DEF Page
  <2>8. Coherent(after) /\ after.state \notin Invoking
    BY <2>1, <2>3, <2>6 DEF Coherent
  <2> QED
    BY <1>1, <2>2, <2>3, <2>4, <2>5, <2>6, <2>7, <2>8 DEF Rests, Selection
<1>4. CASE NotLoaded(l)
  <2>1. /\ page[l].state = "Loading"
        /\ Become(l, [state |-> "Idle"])
    BY <1>4 DEF NotLoaded
  <2> SUFFICES ASSUME NEW held \in Page, Coherent(held), held = page[l],
                      NEW after,
                      after = With(held, [state |-> "Idle"])
               PROVE  Resting(held, after)
    BY <1>1, <2>1, PageRests
  <2>8. /\ after.state = "Idle" /\ after.listed = held.listed /\ after.selected = held.selected
        /\ after.pending = held.pending /\ after.covers = held.covers
        /\ after.phrase = held.phrase /\ after.doomed = held.doomed
        /\ after.editing = held.editing /\ after.action = held.action
    BY WithFields
  <2>9. after \in Page
    BY <1>1, <2>1, <2>8, AfterType DEF Page
  <2>10. Coherent(after) /\ after.state \notin Invoking
    BY <1>1, <2>1, <2>8 DEF Coherent
  <2> QED
    BY <1>1, <2>1, <2>8, <2>9, <2>10 DEF Resting, Selection
<1>5. CASE ExportWords(l)
  <2>1. /\ page[l].state \in Ready
        /\ Become(l, [state |-> "ExportingWords"])
    BY <1>5 DEF ExportWords
  <2> SUFFICES ASSUME NEW held \in Page, Coherent(held), held = page[l],
                      NEW after,
                      after = With(held, [state |-> "ExportingWords"])
               PROVE  Resting(held, after)
    BY <1>1, <2>1, PageRests
  <2>8. /\ after.state = "ExportingWords" /\ after.listed = held.listed
        /\ after.selected = held.selected /\ after.pending = held.pending
        /\ after.covers = held.covers /\ after.phrase = held.phrase
        /\ after.doomed = held.doomed /\ after.editing = held.editing
        /\ after.action = held.action
    BY WithFields
  <2>9. after \in Page
    BY <1>1, <2>1, <2>8, AfterType DEF Page
  <2>10. Coherent(after) /\ after.state \notin Invoking
    BY <1>1, <2>1, <2>8 DEF Coherent
  <2> QED
    BY <1>1, <2>1, <2>8, <2>9, <2>10 DEF Resting, Selection
<1>6. CASE Exported(l)
  <2>1. \/ /\ page[l].state = "ExportingWords"
           /\ Become(l, [state |-> "Copied"])
        \/ /\ page[l].state = "ExportingWords"
           /\ Become(l, [state |-> "Idle"])
    BY <1>6 DEF Exported
  <2>2. CASE /\ page[l].state = "ExportingWords"
             /\ Become(l, [state |-> "Copied"])
    <3> SUFFICES ASSUME NEW held \in Page, Coherent(held), held = page[l],
                        NEW after,
                        after = With(held, [state |-> "Copied"])
                 PROVE  Resting(held, after)
      BY <1>1, <2>2, PageRests
    <3>8. /\ after.state = "Copied" /\ after.listed = held.listed
          /\ after.selected = held.selected /\ after.pending = held.pending
          /\ after.covers = held.covers /\ after.phrase = held.phrase
          /\ after.doomed = held.doomed /\ after.editing = held.editing
          /\ after.action = held.action
      BY WithFields
    <3>9. after \in Page
      BY <1>1, <2>2, <3>8, AfterType DEF Page
    <3>10. Coherent(after) /\ after.state \notin Invoking
      BY <1>1, <2>2, <3>8 DEF Coherent
    <3> QED
      BY <1>1, <2>2, <3>8, <3>9, <3>10 DEF Resting, Selection
  <2>3. CASE /\ page[l].state = "ExportingWords"
             /\ Become(l, [state |-> "Idle"])
    <3> SUFFICES ASSUME NEW held \in Page, Coherent(held), held = page[l],
                        NEW after,
                        after = With(held, [state |-> "Idle"])
                 PROVE  Resting(held, after)
      BY <1>1, <2>3, PageRests
    <3>8. /\ after.state = "Idle" /\ after.listed = held.listed
          /\ after.selected = held.selected /\ after.pending = held.pending
          /\ after.covers = held.covers /\ after.phrase = held.phrase
          /\ after.doomed = held.doomed /\ after.editing = held.editing
          /\ after.action = held.action
      BY WithFields
    <3>9. after \in Page
      BY <1>1, <2>3, <3>8, AfterType DEF Page
    <3>10. Coherent(after) /\ after.state \notin Invoking
      BY <1>1, <2>3, <3>8 DEF Coherent
    <3> QED
      BY <1>1, <2>3, <3>8, <3>9, <3>10 DEF Resting, Selection
  <2> QED
    BY <2>1, <2>2, <2>3
<1>7. CASE CopiedLongEnough(l)
  <2>1. /\ page[l].state = "Copied"
        /\ Become(l, [state |-> "Idle"])
    BY <1>7 DEF CopiedLongEnough
  <2> SUFFICES ASSUME NEW held \in Page, Coherent(held), held = page[l],
                      NEW after,
                      after = With(held, [state |-> "Idle"])
               PROVE  Resting(held, after)
    BY <1>1, <2>1, PageRests
  <2>8. /\ after.state = "Idle" /\ after.listed = held.listed /\ after.selected = held.selected
        /\ after.pending = held.pending /\ after.covers = held.covers
        /\ after.phrase = held.phrase /\ after.doomed = held.doomed
        /\ after.editing = held.editing /\ after.action = held.action
    BY WithFields
  <2>9. after \in Page
    BY <1>1, <2>1, <2>8, AfterType DEF Page
  <2>10. Coherent(after) /\ after.state \notin Invoking
    BY <1>1, <2>1, <2>8 DEF Coherent
  <2> QED
    BY <1>1, <2>1, <2>8, <2>9, <2>10 DEF Resting, Selection
<1> QED
  BY <1>2, <1>3, <1>4, <1>5, <1>6, <1>7

-------------------------------------------------------------------------------
(***************************************************************************)
(* Invoking an operation.                                                  *)
(***************************************************************************)
LEMMA AwaitedStates ==
    ASSUME NEW kind \in JobKinds
    PROVE  Awaited[kind] \subseteq Invoking
BY DEF JobKinds, Awaited, Invoking

\* What was asked for is what the operation goes by; only fresh ids are added.
LEMMA JobStartsAs ==
    ASSUME LibraryTyped, NEW l \in LibraryPages, NEW asked \in Job, Start(l, asked)
    PROVE  /\ job'[l] \in Job /\ job'[l].kind = asked.kind
           /\ asked.kind \notin Adding => job'[l] = asked
           /\ \/ jobStep'[l] = "list"
              \/ /\ asked.kind = "deleteAllWordEntries" /\ jobStep'[l] = "write"
                 /\ queue'[l] = <<[op |-> "deleteWords", ids |-> WordIds]>>
           /\ \A k \in LibraryPages \ {l} : job'[k] = job[k] /\ jobStep'[k] = jobStep[k]
<1>1. PICK j \in Instances(asked) :
        /\ job' = [job EXCEPT ![l] = j]
        /\ IF j.kind = "deleteAllWordEntries"
           THEN /\ jobStep' = [jobStep EXCEPT ![l] = "write"]
                /\ queue' = [queue EXCEPT ![l] = <<[op |-> "deleteWords", ids |-> WordIds]>>]
           ELSE /\ jobStep' = [jobStep EXCEPT ![l] = "list"]
                /\ UNCHANGED queue
  BY DEF Start
<1>2. j \in Job /\ j.kind = asked.kind /\ (asked.kind \notin Adding => j = asked)
  BY DEF Instances, Job
<1> QED
  BY <1>1, <1>2 DEF LibraryTyped, LibraryTypeOK

\* A step of a page that begins an operation.
Invokes(l) ==
    /\ page[l].state \notin Invoking
    /\ page' = [page EXCEPT ![l] = page'[l]]
    /\ page'[l] \in Page /\ Coherent(page'[l])
    /\ page'[l].listed = page[l].listed
    /\ Selection(page[l]) => Selection(page'[l])
    /\ \E asked \in Job :
         /\ Start(l, asked)
         /\ page'[l].state \in Awaited[asked.kind]
         /\ page'[l].state = "DeletingSelectedWords" => asked.ids = page'[l].pending

Asking(held, after, asked) ==
    /\ after \in Page /\ Coherent(after) /\ after.state \in Awaited[asked.kind]
    /\ Selection(held) => Selection(after)
    /\ after.listed = held.listed
    /\ after.state = "DeletingSelectedWords" => asked.ids = after.pending

\* Enough for a page to invoke an operation.
LEMMA PageInvokes ==
    ASSUME PagesTyped, PagesWait, NEW l \in LibraryPages, page[l].state \notin Invoking,
           NEW asked \in Job, Start(l, asked), NEW changes, Become(l, changes),
           \A held, after :
               (/\ held \in Page /\ Coherent(held) /\ held = page[l]
                /\ after = With(held, changes)) => Asking(held, after, asked)
    PROVE  Invokes(l)
<1>1. page[l] \in Page /\ Coherent(page[l])
  BY DEF PagesTyped, PagesWait
<1>2. PICK held, after : held = page[l] /\ after = page'[l]
  OBVIOUS
<1>3. page' = [page EXCEPT ![l] = page'[l]] /\ after = With(held, changes)
  BY <1>2, Changed
<1>4. Asking(held, after, asked)
  BY <1>1, <1>2, <1>3
<1> QED
  BY <1>1, <1>2, <1>3, <1>4 DEF Invokes, Asking

LEMMA AskType ==
    ASSUME NEW kind \in JobKinds, NEW ids \in SUBSET WordIds, NEW from \in Texts \cup {None},
           NEW texts \in SUBSET Texts, NEW added \in SUBSET Examples,
           NEW asked, asked = Ask(kind, ids, from, texts, added)
    PROVE  asked \in Job /\ asked.kind = kind /\ asked.ids = ids
BY DEF Ask, Job

\* The learner confirms, saves, imports: a page invokes the operation.
LEMMA LearnerInvokes ==
    ASSUME PagesTyped, PagesWait, NEW l \in LibraryPages,
           \/ ConfirmArchiveWords(l) \/ RestoreWord(l) \/ ConfirmDeleteSelectedWords(l)
           \/ ConfirmDeleteAllWords(l) \/ ConfirmWordDeletion(l)
           \/ SaveWord(l) \/ UpdateWord(l) \/ ImportWords(l) \/ ImportExamples(l)
    PROVE  Invokes(l)
<1> USE DEF In, Ready, Invoking, Dialogs, MachineStates, JobKinds
<1>1. /\ page[l].state \notin Invoking
      /\ page[l].pending \subseteq WordIds /\ page[l].doomed \in Texts \cup {None}
      /\ page[l].editing \in Texts \cup {None}
      /\ Coherent(page[l])
  BY DEF PagesTyped, PagesWait, Page, ConfirmArchiveWords, RestoreWord,
         ConfirmDeleteSelectedWords, ConfirmDeleteAllWords, ConfirmWordDeletion, SaveWord,
         UpdateWord, ImportWords, ImportExamples
<1>2. CASE ConfirmArchiveWords(l)
  <2>1. PICK asked :
          /\ asked = Ask("archive", page[l].pending, None, {}, {})
          /\ Start(l, asked)
          /\ Become(l, [state |-> "ChangingWordArchive"])
          /\ page[l].state = "ConfirmingArchiveWords"
    BY <1>2 DEF ConfirmArchiveWords, Invoke
  <2>2. asked \in Job /\ asked.kind = "archive" /\ asked.ids = page[l].pending
    BY <1>1, <2>1, AskType
  <2> SUFFICES ASSUME NEW held \in Page, Coherent(held), held = page[l],
                      NEW after,
                      after = With(held, [state |-> "ChangingWordArchive"])
               PROVE  Asking(held, after, asked)
    BY <1>1, <2>1, <2>2, PageInvokes
  <2>8. /\ after.state = "ChangingWordArchive" /\ after.listed = held.listed
        /\ after.selected = held.selected /\ after.pending = held.pending
        /\ after.covers = held.covers /\ after.phrase = held.phrase
        /\ after.doomed = held.doomed /\ after.editing = held.editing
        /\ after.action = held.action
    BY WithFields
  <2>9. after \in Page
    BY <1>1, <2>1, <2>2, <2>8, AfterType DEF Page
  <2>10. Coherent(after)
    BY <1>1, <2>1, <2>2, <2>8 DEF Coherent
  <2>11. after.state \in Awaited[asked.kind]
    BY <2>1, <2>2, <2>8 DEF Awaited
  <2> QED
    BY <1>1, <2>1, <2>2, <2>8, <2>9, <2>10, <2>11 DEF Asking, Selection
<1>3. CASE RestoreWord(l)
  <2>1. PICK ids, asked :
          /\ ids \in SUBSET Given(page[l].listed)
          /\ asked = Ask("restore", ids, None, {}, {})
          /\ Start(l, asked)
          /\ Become(l, [state |-> "ChangingWordArchive", action |-> "restore",
                        pending |-> ids, editing |-> None])
          /\ page[l].state \in Ready
    BY <1>3, ListingType DEF RestoreWord, Invoke
  <2>2. ids \subseteq WordIds
    BY <2>1 DEF Given
  <2>3. asked \in Job /\ asked.kind = "restore" /\ ids \subseteq WordIds
    BY <1>1, <2>1, <2>2, AskType
  <2> SUFFICES ASSUME NEW held \in Page, Coherent(held), held = page[l],
                      NEW after,
                      after = With(held, [state |-> "ChangingWordArchive", action |-> "restore",
                                          pending |-> ids, editing |-> None])
               PROVE  Asking(held, after, asked)
    BY <1>1, <2>1, <2>3, PageInvokes
  <2>8. /\ after.state = "ChangingWordArchive" /\ after.listed = held.listed
        /\ after.selected = held.selected /\ after.pending = ids /\ after.covers = held.covers
        /\ after.phrase = held.phrase /\ after.doomed = held.doomed /\ after.editing = None
        /\ after.action = "restore"
    BY WithFields
  <2>9. after \in Page
    BY <1>1, <2>1, <2>3, <2>8, AfterType DEF Page
  <2>10. Coherent(after)
    BY <1>1, <2>1, <2>3, <2>8 DEF Coherent
  <2>11. after.state \in Awaited[asked.kind]
    BY <2>1, <2>3, <2>8 DEF Awaited
  <2> QED
    BY <1>1, <2>1, <2>3, <2>8, <2>9, <2>10, <2>11 DEF Asking, Selection
<1>4. CASE ConfirmDeleteSelectedWords(l)
  <2>1. PICK asked :
          /\ asked = Ask("deleteSelectedWordEntries", page[l].pending, None, {}, {})
          /\ Start(l, asked)
          /\ Become(l, [state |-> "DeletingSelectedWords"])
          /\ page[l].state = "ConfirmingSelectedWordsDeletion"
          /\ page[l].covers => page[l].phrase
    BY <1>4 DEF ConfirmDeleteSelectedWords, Invoke
  <2>2. asked \in Job /\ asked.kind = "deleteSelectedWordEntries" /\ asked.ids = page[l].pending
    BY <1>1, <2>1, AskType
  <2> SUFFICES ASSUME NEW held \in Page, Coherent(held), held = page[l],
                      NEW after,
                      after = With(held, [state |-> "DeletingSelectedWords"])
               PROVE  Asking(held, after, asked)
    BY <1>1, <2>1, <2>2, PageInvokes
  <2>8. /\ after.state = "DeletingSelectedWords" /\ after.listed = held.listed
        /\ after.selected = held.selected /\ after.pending = held.pending
        /\ after.covers = held.covers /\ after.phrase = held.phrase
        /\ after.doomed = held.doomed /\ after.editing = held.editing
        /\ after.action = held.action
    BY WithFields
  <2>9. after \in Page
    BY <1>1, <2>1, <2>2, <2>8, AfterType DEF Page
  <2>10. Coherent(after)
    BY <1>1, <2>1, <2>2, <2>8 DEF Coherent
  <2>11. after.state \in Awaited[asked.kind]
    BY <2>1, <2>2, <2>8 DEF Awaited
  <2> QED
    BY <1>1, <2>1, <2>2, <2>8, <2>9, <2>10, <2>11 DEF Asking, Selection
<1>5. CASE ConfirmDeleteAllWords(l)
  <2>1. PICK asked :
          /\ asked = Ask("deleteAllWordEntries", {}, None, {}, {})
          /\ Start(l, asked)
          /\ Become(l, [state |-> "DeletingAllWords"])
          /\ page[l].state = "ConfirmingAllWordsDeletion"
    BY <1>5 DEF ConfirmDeleteAllWords, Invoke
  <2>2. asked \in Job /\ asked.kind = "deleteAllWordEntries" /\ asked.ids = {}
    BY <1>1, <2>1, AskType
  <2> SUFFICES ASSUME NEW held \in Page, Coherent(held), held = page[l],
                      NEW after,
                      after = With(held, [state |-> "DeletingAllWords"])
               PROVE  Asking(held, after, asked)
    BY <1>1, <2>1, <2>2, PageInvokes
  <2>8. /\ after.state = "DeletingAllWords" /\ after.listed = held.listed
        /\ after.selected = held.selected /\ after.pending = held.pending
        /\ after.covers = held.covers /\ after.phrase = held.phrase
        /\ after.doomed = held.doomed /\ after.editing = held.editing
        /\ after.action = held.action
    BY WithFields
  <2>9. after \in Page
    BY <1>1, <2>1, <2>2, <2>8, AfterType DEF Page
  <2>10. Coherent(after)
    BY <1>1, <2>1, <2>2, <2>8 DEF Coherent
  <2>11. after.state \in Awaited[asked.kind]
    BY <2>1, <2>2, <2>8 DEF Awaited
  <2> QED
    BY <1>1, <2>1, <2>2, <2>8, <2>9, <2>10, <2>11 DEF Asking, Selection
<1>6. CASE ConfirmWordDeletion(l)
  <2>1. PICK asked :
          /\ asked = Ask("deleteWordEntry", {}, page[l].doomed, {}, {})
          /\ Start(l, asked)
          /\ Become(l, [state |-> "DeletingWord"])
          /\ page[l].state = "ConfirmingWordDeletion"
    BY <1>6 DEF ConfirmWordDeletion, Invoke
  <2>2. asked \in Job /\ asked.kind = "deleteWordEntry" /\ asked.ids = {}
    BY <1>1, <2>1, AskType
  <2> SUFFICES ASSUME NEW held \in Page, Coherent(held), held = page[l],
                      NEW after,
                      after = With(held, [state |-> "DeletingWord"])
               PROVE  Asking(held, after, asked)
    BY <1>1, <2>1, <2>2, PageInvokes
  <2>8. /\ after.state = "DeletingWord" /\ after.listed = held.listed
        /\ after.selected = held.selected /\ after.pending = held.pending
        /\ after.covers = held.covers /\ after.phrase = held.phrase
        /\ after.doomed = held.doomed /\ after.editing = held.editing
        /\ after.action = held.action
    BY WithFields
  <2>9. after \in Page
    BY <1>1, <2>1, <2>2, <2>8, AfterType DEF Page
  <2>10. Coherent(after)
    BY <1>1, <2>1, <2>2, <2>8 DEF Coherent
  <2>11. after.state \in Awaited[asked.kind]
    BY <2>1, <2>2, <2>8 DEF Awaited
  <2> QED
    BY <1>1, <2>1, <2>2, <2>8, <2>9, <2>10, <2>11 DEF Asking, Selection
<1>7. CASE SaveWord(l)
  <2>1. PICK texts, asked :
          /\ texts \in SUBSET Texts
          /\ asked = Ask("saveWordEntry", {}, None, texts, {})
          /\ Start(l, asked)
          /\ Become(l, [state |-> "SavingWord"])
          /\ page[l].state \in Ready
    BY <1>7 DEF SaveWord, Invoke
  <2>2. asked \in Job /\ asked.kind = "saveWordEntry" /\ asked.ids = {}
    BY <1>1, <2>1, AskType
  <2> SUFFICES ASSUME NEW held \in Page, Coherent(held), held = page[l],
                      NEW after,
                      after = With(held, [state |-> "SavingWord"])
               PROVE  Asking(held, after, asked)
    BY <1>1, <2>1, <2>2, PageInvokes
  <2>8. /\ after.state = "SavingWord" /\ after.listed = held.listed
        /\ after.selected = held.selected /\ after.pending = held.pending
        /\ after.covers = held.covers /\ after.phrase = held.phrase
        /\ after.doomed = held.doomed /\ after.editing = held.editing
        /\ after.action = held.action
    BY WithFields
  <2>9. after \in Page
    BY <1>1, <2>1, <2>2, <2>8, AfterType DEF Page
  <2>10. Coherent(after)
    BY <1>1, <2>1, <2>2, <2>8 DEF Coherent
  <2>11. after.state \in Awaited[asked.kind]
    BY <2>1, <2>2, <2>8 DEF Awaited
  <2> QED
    BY <1>1, <2>1, <2>2, <2>8, <2>9, <2>10, <2>11 DEF Asking, Selection
<1>8. CASE UpdateWord(l)
  <2>1. PICK texts, asked :
          /\ texts \in SUBSET Texts
          /\ asked = Ask("updateWordEntry", {}, page[l].editing, texts, {})
          /\ Start(l, asked)
          /\ Become(l, [state |-> "UpdatingWord"])
          /\ page[l].state \in Ready
    BY <1>8 DEF UpdateWord, Invoke
  <2>2. asked \in Job /\ asked.kind = "updateWordEntry" /\ asked.ids = {}
    BY <1>1, <2>1, AskType
  <2> SUFFICES ASSUME NEW held \in Page, Coherent(held), held = page[l],
                      NEW after,
                      after = With(held, [state |-> "UpdatingWord"])
               PROVE  Asking(held, after, asked)
    BY <1>1, <2>1, <2>2, PageInvokes
  <2>8. /\ after.state = "UpdatingWord" /\ after.listed = held.listed
        /\ after.selected = held.selected /\ after.pending = held.pending
        /\ after.covers = held.covers /\ after.phrase = held.phrase
        /\ after.doomed = held.doomed /\ after.editing = held.editing
        /\ after.action = held.action
    BY WithFields
  <2>9. after \in Page
    BY <1>1, <2>1, <2>2, <2>8, AfterType DEF Page
  <2>10. Coherent(after)
    BY <1>1, <2>1, <2>2, <2>8 DEF Coherent
  <2>11. after.state \in Awaited[asked.kind]
    BY <2>1, <2>2, <2>8 DEF Awaited
  <2> QED
    BY <1>1, <2>1, <2>2, <2>8, <2>9, <2>10, <2>11 DEF Asking, Selection
<1>9. CASE ImportWords(l)
  <2>1. PICK texts, asked :
          /\ texts \in SUBSET Texts
          /\ asked = Ask("importWordEntries", {}, None, texts, Examples)
          /\ Start(l, asked)
          /\ Become(l, [state |-> "ImportingWords"])
          /\ page[l].state \in Ready
    BY <1>9 DEF ImportWords, Invoke
  <2>2. asked \in Job /\ asked.kind = "importWordEntries" /\ asked.ids = {}
    BY <1>1, <2>1, AskType
  <2> SUFFICES ASSUME NEW held \in Page, Coherent(held), held = page[l],
                      NEW after,
                      after = With(held, [state |-> "ImportingWords"])
               PROVE  Asking(held, after, asked)
    BY <1>1, <2>1, <2>2, PageInvokes
  <2>8. /\ after.state = "ImportingWords" /\ after.listed = held.listed
        /\ after.selected = held.selected /\ after.pending = held.pending
        /\ after.covers = held.covers /\ after.phrase = held.phrase
        /\ after.doomed = held.doomed /\ after.editing = held.editing
        /\ after.action = held.action
    BY WithFields
  <2>9. after \in Page
    BY <1>1, <2>1, <2>2, <2>8, AfterType DEF Page
  <2>10. Coherent(after)
    BY <1>1, <2>1, <2>2, <2>8 DEF Coherent
  <2>11. after.state \in Awaited[asked.kind]
    BY <2>1, <2>2, <2>8 DEF Awaited
  <2> QED
    BY <1>1, <2>1, <2>2, <2>8, <2>9, <2>10, <2>11 DEF Asking, Selection
<1>10. CASE ImportExamples(l)
  <2>1. PICK texts, asked :
          /\ texts \in SUBSET Texts
          /\ asked = Ask("importExampleEntries", {}, None, texts, Examples)
          /\ Start(l, asked)
          /\ Become(l, [state |-> "ImportingExamples"])
          /\ page[l].state \in Ready
    BY <1>10 DEF ImportExamples, Invoke
  <2>2. asked \in Job /\ asked.kind = "importExampleEntries" /\ asked.ids = {}
    BY <1>1, <2>1, AskType
  <2> SUFFICES ASSUME NEW held \in Page, Coherent(held), held = page[l],
                      NEW after,
                      after = With(held, [state |-> "ImportingExamples"])
               PROVE  Asking(held, after, asked)
    BY <1>1, <2>1, <2>2, PageInvokes
  <2>8. /\ after.state = "ImportingExamples" /\ after.listed = held.listed
        /\ after.selected = held.selected /\ after.pending = held.pending
        /\ after.covers = held.covers /\ after.phrase = held.phrase
        /\ after.doomed = held.doomed /\ after.editing = held.editing
        /\ after.action = held.action
    BY WithFields
  <2>9. after \in Page
    BY <1>1, <2>1, <2>2, <2>8, AfterType DEF Page
  <2>10. Coherent(after)
    BY <1>1, <2>1, <2>2, <2>8 DEF Coherent
  <2>11. after.state \in Awaited[asked.kind]
    BY <2>1, <2>2, <2>8 DEF Awaited
  <2> QED
    BY <1>1, <2>1, <2>2, <2>8, <2>9, <2>10, <2>11 DEF Asking, Selection
<1> QED
  BY <1>2, <1>3, <1>4, <1>5, <1>6, <1>7, <1>8, <1>9, <1>10
-------------------------------------------------------------------------------
(***************************************************************************)
(* How an operation goes on and ends.                                      *)
(***************************************************************************)
Deleting == {"DeletingSelectedWords", "DeletingAllWords", "DeletingWord"}

\* An operation that succeeded leaves nothing pending and nothing deleted selected.
LEMMA DoneFields ==
    ASSUME NEW held \in Page, Coherent(held), held.state \in Invoking,
           NEW after, after = With(held, OnDone[held.state])
    PROVE  /\ after \in Page /\ after.state = "Idle" /\ after.listed = held.listed
           /\ after.pending = {} /\ after.selected \subseteq held.selected
           /\ held.state \in Deleting => after.selected = {}
<1> USE DEF Invoking, MachineStates, Ready, Dialogs
<1>1. CASE held.state = "ChangingWordArchive"
  <2>1. after = With(held, [state |-> "Idle", action |-> None, pending |-> {}, selected |-> {}])
    BY <1>1 DEF OnDone
  <2>2. /\ after.state = "Idle" /\ after.listed = held.listed /\ after.selected = {}
        /\ after.pending = {} /\ after.covers = held.covers /\ after.phrase = held.phrase
        /\ after.doomed = held.doomed /\ after.editing = held.editing /\ after.action = None
    BY <2>1, WithFields
  <2>3. after \in Page
    BY <2>1, <2>2, AfterType DEF Page
  <2> QED
    BY <1>1, <2>2, <2>3 DEF Coherent, Deleting, Page
<1>2. CASE held.state = "DeletingSelectedWords"
  <2>1. after = With(held, [state |-> "Idle", phrase |-> FALSE, covers |-> FALSE,
                            pending |-> {}, selected |-> {}])
    BY <1>2 DEF OnDone
  <2>2. /\ after.state = "Idle" /\ after.listed = held.listed /\ after.selected = {}
        /\ after.pending = {} /\ after.covers = FALSE /\ after.phrase = FALSE
        /\ after.doomed = held.doomed /\ after.editing = held.editing
        /\ after.action = held.action
    BY <2>1, WithFields
  <2>3. after \in Page
    BY <2>1, <2>2, AfterType DEF Page
  <2> QED
    BY <1>2, <2>2, <2>3 DEF Coherent, Deleting, Page
<1>3. CASE held.state = "DeletingAllWords"
  <2>1. after = With(held, [state |-> "Idle", phrase |-> FALSE, editing |-> None])
    BY <1>3 DEF OnDone
  <2>2. /\ after.state = "Idle" /\ after.listed = held.listed /\ after.selected = held.selected
        /\ after.pending = held.pending /\ after.covers = held.covers /\ after.phrase = FALSE
        /\ after.doomed = held.doomed /\ after.editing = None /\ after.action = held.action
    BY <2>1, WithFields
  <2>3. after \in Page
    BY <2>1, <2>2, AfterType DEF Page
  <2> QED
    BY <1>3, <2>2, <2>3 DEF Coherent, Deleting, Page
<1>4. CASE held.state = "DeletingWord"
  <2>1. after = With(held, [state |-> "Idle", doomed |-> None])
    BY <1>4 DEF OnDone
  <2>2. /\ after.state = "Idle" /\ after.listed = held.listed /\ after.selected = held.selected
        /\ after.pending = held.pending /\ after.covers = held.covers
        /\ after.phrase = held.phrase /\ after.doomed = None /\ after.editing = held.editing
        /\ after.action = held.action
    BY <2>1, WithFields
  <2>3. after \in Page
    BY <2>1, <2>2, AfterType DEF Page
  <2> QED
    BY <1>4, <2>2, <2>3 DEF Coherent, Deleting, Page
<1>5. CASE held.state = "UpdatingWord"
  <2>1. after = With(held, [state |-> "Idle", editing |-> None])
    BY <1>5 DEF OnDone
  <2>2. /\ after.state = "Idle" /\ after.listed = held.listed /\ after.selected = held.selected
        /\ after.pending = held.pending /\ after.covers = held.covers
        /\ after.phrase = held.phrase /\ after.doomed = held.doomed /\ after.editing = None
        /\ after.action = held.action
    BY <2>1, WithFields
  <2>3. after \in Page
    BY <2>1, <2>2, AfterType DEF Page
  <2> QED
    BY <1>5, <2>2, <2>3 DEF Coherent, Deleting, Page
<1>6. CASE held.state \in {"SavingWord", "ImportingWords", "ImportingExamples"}
  <2>1. after = With(held, [state |-> "Idle"])
    BY <1>6 DEF OnDone
  <2>2. /\ after.state = "Idle" /\ after.listed = held.listed /\ after.selected = held.selected
        /\ after.pending = held.pending /\ after.covers = held.covers
        /\ after.phrase = held.phrase /\ after.doomed = held.doomed
        /\ after.editing = held.editing /\ after.action = held.action
    BY <2>1, WithFields
  <2>3. after \in Page
    BY <2>1, <2>2, AfterType DEF Page
  <2> QED
    BY <1>6, <2>2, <2>3 DEF Coherent, Deleting, Page
<1> QED
  BY <1>1, <1>2, <1>3, <1>4, <1>5, <1>6

\* An operation that failed leaves the page at rest, or back in the dialog it came from.
LEMMA ErrorFields ==
    ASSUME NEW held \in Page, Coherent(held), held.state \in Invoking,
           NEW after, after = With(held, OnError[held.state])
    PROVE  Resting(held, after)
<1> USE DEF Invoking, MachineStates, Ready, Dialogs
<1>1. CASE held.state = "ChangingWordArchive"
  <2>1. after = With(held, [state |-> "Idle", action |-> None, pending |-> {}])
    BY <1>1 DEF OnError
  <2>2. /\ after.state = "Idle" /\ after.listed = held.listed /\ after.selected = held.selected
        /\ after.pending = {} /\ after.covers = held.covers /\ after.phrase = held.phrase
        /\ after.doomed = held.doomed /\ after.editing = held.editing /\ after.action = None
    BY <2>1, WithFields
  <2>3. after \in Page
    BY <2>1, <2>2, AfterType DEF Page
  <2>4. Coherent(after) /\ after.state \notin Invoking
    BY <1>1, <2>2 DEF Coherent
  <2> QED
    BY <2>2, <2>3, <2>4 DEF Resting, Selection
<1>2. CASE held.state = "DeletingSelectedWords"
  <2>1. after = With(held, [state |-> "ConfirmingSelectedWordsDeletion"])
    BY <1>2 DEF OnError
  <2>2. /\ after.state = "ConfirmingSelectedWordsDeletion" /\ after.listed = held.listed
        /\ after.selected = held.selected /\ after.pending = held.pending
        /\ after.covers = held.covers /\ after.phrase = held.phrase
        /\ after.doomed = held.doomed /\ after.editing = held.editing
        /\ after.action = held.action
    BY <2>1, WithFields
  <2>3. after \in Page
    BY <2>1, <2>2, AfterType DEF Page
  <2>4. Coherent(after) /\ after.state \notin Invoking
    BY <1>2, <2>2 DEF Coherent
  <2> QED
    BY <2>2, <2>3, <2>4 DEF Resting, Selection
<1>3. CASE held.state = "DeletingAllWords"
  <2>1. after = With(held, [state |-> "ConfirmingAllWordsDeletion"])
    BY <1>3 DEF OnError
  <2>2. /\ after.state = "ConfirmingAllWordsDeletion" /\ after.listed = held.listed
        /\ after.selected = held.selected /\ after.pending = held.pending
        /\ after.covers = held.covers /\ after.phrase = held.phrase
        /\ after.doomed = held.doomed /\ after.editing = held.editing
        /\ after.action = held.action
    BY <2>1, WithFields
  <2>3. after \in Page
    BY <2>1, <2>2, AfterType DEF Page
  <2>4. Coherent(after) /\ after.state \notin Invoking
    BY <1>3, <2>2 DEF Coherent
  <2> QED
    BY <2>2, <2>3, <2>4 DEF Resting, Selection
<1>4. CASE held.state = "DeletingWord"
  <2>1. after = With(held, [state |-> "Idle", doomed |-> None])
    BY <1>4 DEF OnError
  <2>2. /\ after.state = "Idle" /\ after.listed = held.listed /\ after.selected = held.selected
        /\ after.pending = held.pending /\ after.covers = held.covers
        /\ after.phrase = held.phrase /\ after.doomed = None /\ after.editing = held.editing
        /\ after.action = held.action
    BY <2>1, WithFields
  <2>3. after \in Page
    BY <2>1, <2>2, AfterType DEF Page
  <2>4. Coherent(after) /\ after.state \notin Invoking
    BY <1>4, <2>2 DEF Coherent
  <2> QED
    BY <2>2, <2>3, <2>4 DEF Resting, Selection
<1>5. CASE held.state \in {"UpdatingWord", "SavingWord", "ImportingWords", "ImportingExamples"}
  <2>1. after = With(held, [state |-> "Idle"])
    BY <1>5 DEF OnError
  <2>2. /\ after.state = "Idle" /\ after.listed = held.listed /\ after.selected = held.selected
        /\ after.pending = held.pending /\ after.covers = held.covers
        /\ after.phrase = held.phrase /\ after.doomed = held.doomed
        /\ after.editing = held.editing /\ after.action = held.action
    BY <2>1, WithFields
  <2>3. after \in Page
    BY <2>1, <2>2, AfterType DEF Page
  <2>4. Coherent(after) /\ after.state \notin Invoking
    BY <1>5, <2>2 DEF Coherent
  <2> QED
    BY <2>2, <2>3, <2>4 DEF Resting, Selection
<1> QED
  BY <1>1, <1>2, <1>3, <1>4, <1>5

-------------------------------------------------------------------------------
(***************************************************************************)
(* What each page waits for.                                               *)
(***************************************************************************)
MachineInv == StoreTypeOK /\ LibraryTyped /\ PagesTyped /\ PagesWait

\* One page moves, and the operations of the others stay where they are.
Alone(l) ==
    /\ page' = [page EXCEPT ![l] = page'[l]]
    /\ \A k \in LibraryPages \ {l} : job'[k] = job[k] /\ jobStep'[k] = jobStep[k]

LEMMA PageKeeps ==
    ASSUME PagesTyped, PagesWait, NEW l \in LibraryPages, Alone(l),
           page'[l] \in Page, Coherent(page'[l]), Waits(l)'
    PROVE  PagesTyped' /\ PagesWait'
<1>1. PagesTyped'
  BY DEF PagesTyped, Alone
<1>2. ASSUME NEW k \in LibraryPages, k # l
      PROVE  Coherent(page[k])' /\ Waits(k)'
  <2>1. page'[k] = page[k] /\ job'[k] = job[k] /\ jobStep'[k] = jobStep[k]
    BY <1>2 DEF PagesTyped, Alone
  <2>2. Coherent(page[k]) /\ Waits(k)
    BY DEF PagesWait
  <2> QED
    BY <2>1, <2>2 DEF Waits, Coherent
<1>3. Coherent(page[l])' /\ Waits(l)'
  BY DEF Coherent
<1> QED
  BY <1>1, <1>2, <1>3 DEF PagesWait

LEMMA LibraryUntouched ==
    ASSUME LibraryTyped, UNCHANGED libraryVars
    PROVE  LibraryTyped'
BY DEF libraryVars, LibraryTyped, LibraryTypeOK, LibraryControl

\* At rest there is no operation under way.
LEMMA NoOperation ==
    ASSUME PagesWait, NEW l \in LibraryPages
    PROVE  jobStep[l] = "idle" <=> page[l].state \notin Invoking
<1>1. Waits(l)
  BY DEF PagesWait
<1>2. job[l] \in Job => job[l].kind \in JobKinds
  BY DEF Job
<1> QED
  BY <1>1, <1>2, AwaitedStates DEF Waits

LEMMA RestKeeps ==
    ASSUME MachineInv, NEW l \in LibraryPages, Rests(l), UNCHANGED libraryVars
    PROVE  LibraryTyped' /\ PagesTyped' /\ PagesWait'
<1> USE DEF MachineInv
<1>1. Waits(l)'
  BY NoOperation DEF Rests, Waits, libraryVars
<1>2. Alone(l)
  BY DEF Rests, Alone, libraryVars
<1> QED
  BY <1>1, <1>2, PageKeeps, LibraryUntouched DEF Rests

LEMMA InvokeKeeps ==
    ASSUME MachineInv, NEW l \in LibraryPages, Invokes(l)
    PROVE  MachineInv'
<1> USE DEF MachineInv
<1>1. PICK asked \in Job : Start(l, asked) /\ page'[l].state \in Awaited[asked.kind]
  BY DEF Invokes
<1>2. /\ job'[l] \in Job /\ job'[l].kind = asked.kind /\ jobStep'[l] # "idle"
      /\ \A k \in LibraryPages \ {l} : job'[k] = job[k] /\ jobStep'[k] = jobStep[k]
  BY <1>1, JobStartsAs
<1>3. Waits(l)' /\ Alone(l)
  BY <1>1, <1>2 DEF Waits, Invokes, Alone
<1>4. UNCHANGED storeVars
  BY <1>1 DEF Start
<1> QED
  BY <1>1, <1>3, <1>4, PageKeeps, JobStarts, StoreUnchangedType DEF Invokes

LEMMA FinishedJob ==
    ASSUME LibraryTyped, NEW l \in LibraryPages, Finish(l)
    PROVE  /\ jobStep'[l] = "idle"
           /\ \A k \in LibraryPages \ {l} : job'[k] = job[k] /\ jobStep'[k] = jobStep[k]
BY DEF Finish, LibraryTyped, LibraryTypeOK

LEMMA DoneKeeps ==
    ASSUME MachineInv, NEW l \in LibraryPages, OperationDone(l)
    PROVE  MachineInv'
<1> USE DEF MachineInv
<1>1. jobStep[l] = "reload" /\ Finish(l) /\ UNCHANGED storeVars
  BY DEF OperationDone, Reloaded
<1>2. PICK held \in Page : held = page[l] /\ Coherent(held) /\ held.state \in Invoking
  BY <1>1, NoOperation DEF PagesTyped, PagesWait
<1>3. PICK mid, entries : mid = With(held, OnDone[held.state]) /\ entries = WordEntries
  OBVIOUS
<1>4. mid \in Page /\ mid.state = "Idle" /\ mid.pending = {}
  BY <1>2, <1>3, DoneFields
<1>5. entries \in [WordIds -> [text: Texts, archived: BOOLEAN] \cup {None}]
  BY <1>3, WordEntriesType
<1>6. page' = [page EXCEPT ![l] = page'[l]] /\ page'[l] = [mid EXCEPT !.listed = entries]
  BY <1>2, <1>3 DEF OperationDone, PagesTyped
<1>7. page'[l] \in Page /\ page'[l].state = "Idle" /\ page'[l].pending = {}
  BY <1>4, <1>5, <1>6 DEF Page
<1>8. Coherent(page'[l])
  BY <1>7 DEF Coherent
<1>9. Waits(l)' /\ Alone(l)
  BY <1>1, <1>6, <1>7, FinishedJob DEF Waits, Alone, Invoking
<1> QED
  BY <1>1, <1>7, <1>8, <1>9, PageKeeps, JobFinishes, StoreUnchangedType

\* An operation that fails leaves the page resting where it was.
LEMMA FailureRests ==
    ASSUME MachineInv, NEW l \in LibraryPages, OperationFailed(l)
    PROVE  /\ jobStep[l] # "idle" /\ page[l].state \in Invoking
           /\ page' = [page EXCEPT ![l] = page'[l]]
           /\ Resting(page[l], page'[l])
<1>1. jobStep[l] # "idle"
  BY DEF OperationFailed, RefuseJob, LibraryCallLost
<1>2. PICK held \in Page : held = page[l] /\ Coherent(held) /\ held.state \in Invoking
  BY <1>1, NoOperation DEF MachineInv, PagesTyped, PagesWait
<1>3. PICK after : after = page'[l]
  OBVIOUS
<1>4. page' = [page EXCEPT ![l] = page'[l]] /\ after = With(held, OnError[held.state])
  BY <1>2, <1>3, Changed DEF MachineInv, OperationFailed
<1>5. Resting(held, after)
  BY <1>2, <1>4, ErrorFields
<1> QED
  BY <1>1, <1>2, <1>3, <1>4, <1>5

LEMMA FailureKeeps ==
    ASSUME MachineInv, NEW l \in LibraryPages, OperationFailed(l)
    PROVE  MachineInv'
<1> USE DEF MachineInv
<1>1. /\ page' = [page EXCEPT ![l] = page'[l]]
      /\ page'[l] \in Page /\ Coherent(page'[l]) /\ page'[l].state \notin Invoking
  BY FailureRests DEF Resting
<1>2. Finish(l)
  BY DEF OperationFailed, RefuseJob, LibraryCallLost
<1>3. Waits(l)' /\ Alone(l)
  BY <1>1, <1>2, FinishedJob DEF Waits, Alone
<1>4. PagesTyped' /\ PagesWait'
  BY <1>1, <1>3, PageKeeps
<1>5. LibraryTyped' /\ StoreTypeOK'
  BY <1>2, JobFinishes, LibraryLosesCall, StoreUnchangedType DEF OperationFailed, RefuseJob
<1> QED
  BY <1>4, <1>5

\* Deciding what to send, and sending it, leaves the operation under way.
LEMMA OperationStaysUnderWay ==
    ASSUME LibraryTyped, NEW l \in LibraryPages, OperationGoesOn(l)
    PROVE  /\ UNCHANGED job
           /\ jobStep[l] \in {"list", "write"} /\ jobStep'[l] \in {"write", "reload"}
           /\ \A k \in LibraryPages \ {l} : jobStep'[k] = jobStep[k] /\ queue'[k] = queue[k]
<1> USE DEF LibraryTyped, LibraryTypeOK, Listing
<1>1. ASSUME NEW requests, Send(l, requests)
      PROVE  /\ UNCHANGED job
             /\ jobStep'[l] \in {"write", "reload"}
             /\ \A k \in LibraryPages \ {l} : jobStep'[k] = jobStep[k] /\ queue'[k] = queue[k]
  BY <1>1 DEF Send
<1>2. CASE MutationApplied(l)
  BY <1>2 DEF MutationApplied
<1>3. CASE ~MutationApplied(l)
  <2>1. jobStep[l] = "list" /\ \E requests : Send(l, requests)
    BY <1>3 DEF OperationGoesOn, AddWords, UpdateWordEntry, ChangeWordArchive, DeleteWordEntry,
                DeleteSelectedWordEntries, ImportExampleEntries
  <2> QED
    BY <1>1, <2>1
<1> QED
  BY <1>2, <1>3

LEMMA GoingOnKeeps ==
    ASSUME MachineInv, NEW l \in LibraryPages, OperationGoesOn(l)
    PROVE  MachineInv'
<1> USE DEF MachineInv
<1>1. UNCHANGED page /\ UNCHANGED job
  BY OperationStaysUnderWay DEF OperationGoesOn
<1>2. PagesTyped'
  BY <1>1 DEF PagesTyped
<1>3. PagesWait'
  BY <1>1, OperationStaysUnderWay DEF PagesWait, Waits, Coherent
<1>4. LibraryTyped'
  BY WordsAdded, WordEntryUpdated, ArchiveChanged, WordEntryDeleted, SelectedEntriesDeleted,
     ExamplesImported, LibraryWrites DEF OperationGoesOn
<1>5. StoreTypeOK'
  BY WordsAdded, LibraryWrites, StoreUnchangedType
     DEF OperationGoesOn, UpdateWordEntry, ChangeWordArchive, DeleteWordEntry,
         DeleteSelectedWordEntries, ImportExampleEntries
<1> QED
  BY <1>2, <1>3, <1>4, <1>5

\* A page opened again holds what a page opened for the first time holds.
LEMMA PageOpensAnew ==
    /\ OpenedPage \in Page /\ Coherent(OpenedPage) /\ Selection(OpenedPage)
    /\ OpenedPage.state \notin Invoking /\ Given(OpenedPage.listed) = {}
BY DEF OpenedPage, Page, MachineStates, Ready, Invoking, Dialogs, NoRows, Coherent, Selection, Given

LEMMA Reopens ==
    ASSUME PagesTyped, NEW l \in LibraryPages, Reopen(l)
    PROVE  page' = [page EXCEPT ![l] = page'[l]] /\ page'[l] = OpenedPage
<1>1. PICK held \in Page : held = page[l]
  BY DEF PagesTyped
<1>2. page' = [page EXCEPT ![l] = page'[l]] /\ page'[l] = With(held, OpenedPage)
  BY <1>1, Changed DEF Reopen
<1>3. With(held, OpenedPage) = OpenedPage
  BY DEF With, OpenedPage, Page
<1> QED
  BY <1>2, <1>3

LEMMA ReopeningKeeps ==
    ASSUME MachineInv, NEW l \in LibraryPages, Reopen(l)
    PROVE  MachineInv'
<1> USE DEF MachineInv
<1>1. /\ page' = [page EXCEPT ![l] = page'[l]]
      /\ page'[l] \in Page /\ Coherent(page'[l]) /\ page'[l].state \notin Invoking
  BY Reopens, PageOpensAnew
<1>2. CASE LibraryCallLost(l)
  <2>1. Waits(l)' /\ Alone(l)
    BY <1>1, <1>2, FinishedJob DEF LibraryCallLost, Waits, Alone
  <2> QED
    BY <1>1, <1>2, <2>1, PageKeeps, LibraryLosesCall
<1>3. CASE jobStep[l] = "idle" /\ Here
  <2>1. Waits(l)' /\ Alone(l)
    BY <1>1, <1>3 DEF Here, libraryVars, Waits, Alone
  <2> QED
    BY <1>1, <1>3, <2>1, PageKeeps, LibraryUntouched, StoreUnchangedType DEF Here
<1> QED
  BY <1>2, <1>3 DEF Reopen

\* Every way a page rests leaves the store as it was, but for a failed call.
LEMMA PageRestsOrNot ==
    ASSUME MachineInv, NEW l \in LibraryPages, LearnerActs(l) \/ MachineRuns(l)
    PROVE  \/ Rests(l) /\ UNCHANGED libraryVars
              /\ (UNCHANGED storeVars \/ NotLoaded(l))
           \/ Invokes(l) \/ Reopen(l)
           \/ OperationGoesOn(l) \/ OperationDone(l) \/ OperationFailed(l)
<1> USE DEF MachineInv
<1>1. CASE \/ ToggleWordSelection(l) \/ ToggleAllWords(l) \/ ClearWordSelection(l)
           \/ EditWord(l) \/ CancelWordEdit(l)
           \/ ArchiveWord(l) \/ ArchiveSelectedWords(l) \/ DeleteSelectedWords(l)
  <2>1. In(l, Ready) /\ Here
    BY <1>1 DEF ToggleWordSelection, ToggleAllWords, ClearWordSelection, EditWord,
                CancelWordEdit, ArchiveWord, ArchiveSelectedWords, DeleteSelectedWords
  <2> QED
    BY <1>1, <2>1, ReadyRests DEF Here
<1>2. CASE DeleteAllWords(l) \/ DeleteWord(l) \/ TypeConfirmation(l) \/ Cancel(l)
  BY <1>2, DialogsRest DEF Here, DeleteAllWords, DeleteWord, TypeConfirmation, Cancel
<1>3. CASE \/ ConfirmArchiveWords(l) \/ RestoreWord(l) \/ ConfirmDeleteSelectedWords(l)
           \/ ConfirmDeleteAllWords(l) \/ ConfirmWordDeletion(l)
           \/ SaveWord(l) \/ UpdateWord(l) \/ ImportWords(l) \/ ImportExamples(l)
  BY <1>3, LearnerInvokes
<1>4. CASE \/ Refresh(l) \/ Loaded(l) \/ NotLoaded(l) \/ ExportWords(l) \/ Exported(l)
           \/ CopiedLongEnough(l)
  BY <1>4, LoadingRests
     DEF Here, Refresh, Loaded, NotLoaded, ExportWords, Exported, CopiedLongEnough
<1> QED
  BY <1>1, <1>2, <1>3, <1>4 DEF LearnerActs, MachineRuns

LEMMA PageStepKeeps ==
    ASSUME MachineInv, NEW l \in LibraryPages, LearnerActs(l) \/ MachineRuns(l)
    PROVE  MachineInv'
<1>1. CASE Rests(l) /\ UNCHANGED libraryVars /\ (UNCHANGED storeVars \/ NotLoaded(l))
  <2>1. StoreTypeOK'
    BY <1>1, StoreUnchangedType, StrayStoreType
       DEF MachineInv, NotLoaded, StoreTypeOK
  <2> QED
    BY <1>1, <2>1, RestKeeps DEF MachineInv
<1>2. CASE Invokes(l)
  BY <1>2, InvokeKeeps
<1>3. CASE Reopen(l)
  BY <1>3, ReopeningKeeps
<1>4. CASE OperationGoesOn(l)
  BY <1>4, GoingOnKeeps
<1>5. CASE OperationDone(l)
  BY <1>5, DoneKeeps
<1>6. CASE OperationFailed(l)
  BY <1>6, FailureKeeps
<1> QED
  BY <1>1, <1>2, <1>3, <1>4, <1>5, <1>6, PageRestsOrNot

-------------------------------------------------------------------------------
(***************************************************************************)
(* The script.                                                             *)
(***************************************************************************)
LEMMA PlanTyped ==
    ASSUME ScriptTypeOK, NEW kind \in Operations, NEW rows \in WordRows, Plan(kind, rows)
    PROVE  ScriptTypeOK' /\ ScriptControl'
BY DEF ScriptTypeOK, ScriptControl, Script, Plan

LEMMA IdleTyped ==
    ASSUME NEW runs \in Nat, NEW report \in {"verified", "failed"} \cup {None},
           script' = Idle(runs, report)
    PROVE  ScriptTypeOK' /\ ScriptControl'
BY DEF Idle, ScriptTypeOK, ScriptControl, Script, NoRows, WordRows

LEMMA ScriptSendsRequest ==
    ASSUME ScriptTypeOK
    PROVE  ScriptRequest \in Request
BY DEF ScriptTypeOK, Script, ScriptRequest, Request, InsertRequest, UpdateRequest

\* Rows copied from the listing, with more examples, are rows.
LEMMA EnrichedRowsType ==
    ASSUME StoreTypeOK, NEW ws, ws \subseteq {w \in WordIds : Exists(w)},
           NEW added \in SUBSET Examples
    PROVE  [w \in WordIds |-> IF w \in ws THEN [words[w] EXCEPT !.examples = @ \cup added]
                              ELSE None] \in WordRows
<1>1. \A w \in ws : words[w] \in WordRow
  BY DEF StoreTypeOK, WordRows, Exists
<1>2. \A w \in ws : [words[w] EXCEPT !.examples = @ \cup added] \in WordRow
  BY <1>1 DEF WordRow
<1> QED
  BY <1>2 DEF WordRows

LEMMA ScriptKeeps ==
    ASSUME StoreTypeOK, ScriptTypeOK, ScriptControl, ScriptNext
    PROVE  StoreTypeOK' /\ ScriptTypeOK' /\ ScriptControl'
<1>1. CASE PlanAddWords
  <2>1. PICK ts \in Payloads, ids \in SUBSET (WordIds \ (usedIds \cup Reserved)) :
          /\ \E rows \in NewRows({t \in ts : ~Known(t)}, [ids |-> ids, added |-> Examples]) :
               Plan("addWords", rows)
          /\ usedIds' = usedIds \cup ids
    BY <1>1 DEF PlanAddWords
  <2>2. PICK new, j : new = {t \in ts : ~Known(t)} /\ j = [ids |-> ids, added |-> Examples]
    OBVIOUS
  <2>3. PICK rows \in NewRows(new, j) : Plan("addWords", rows)
    BY <2>1, <2>2
  <2>4. new \subseteq Texts /\ j.added \subseteq Examples
    BY <2>2 DEF Payloads
  <2>5. rows \in WordRows
    BY <2>3, <2>4, NewRowsType
  <2>6. StoreTypeOK'
    BY <1>1, <2>1 DEF PlanAddWords, StoreTypeOK, tables, channel
  <2> QED
    BY <2>3, <2>5, <2>6, PlanTyped DEF Operations
<1>2. CASE PlanAddExamples
  <2>1. PICK ts \in Payloads, added \in SUBSET Examples :
          Plan("addExamples",
               [w \in WordIds |->
                  IF (\E t \in ts : w \in Matches(t)) /\ ~(added \subseteq words[w].examples)
                  THEN [words[w] EXCEPT !.examples = @ \cup added]
                  ELSE None])
    BY <1>2 DEF PlanAddExamples
  <2>2. PICK ws : ws = {w \in WordIds : /\ \E t \in ts : w \in Matches(t)
                                        /\ ~(added \subseteq words[w].examples)}
    OBVIOUS
  <2>3. ws \subseteq {w \in WordIds : Exists(w)}
    BY <2>2 DEF Matches
  <2>4. PICK rows : rows = [w \in WordIds |->
                              IF w \in ws THEN [words[w] EXCEPT !.examples = @ \cup added]
                              ELSE None]
    OBVIOUS
  <2>5. rows \in WordRows
    BY <2>3, <2>4, EnrichedRowsType
  <2>6. Plan("addExamples", rows)
    BY <2>1, <2>2, <2>4
  <2> QED
    BY <1>2, <2>5, <2>6, PlanTyped, StoreUnchangedType DEF Operations, PlanAddExamples
<1>3. CASE PlanReplaceExamples
  <2>1. PICK ts \in Payloads :
          Plan("replaceExamples",
               [w \in WordIds |-> IF \E t \in ts : w \in Matches(t) THEN words[w] ELSE None])
    BY <1>3 DEF PlanReplaceExamples
  <2>2. PICK rows : rows = [w \in WordIds |-> IF \E t \in ts : w \in Matches(t)
                                              THEN words[w] ELSE None]
    OBVIOUS
  <2>3. rows \in WordRows
    BY <2>2 DEF WordRows, StoreTypeOK
  <2> QED
    BY <1>3, <2>1, <2>2, <2>3, PlanTyped, StoreUnchangedType DEF Operations, PlanReplaceExamples
<1>4. CASE ScriptWrites
  <2>1. StoreTypeOK'
    BY <1>4, ScriptSendsRequest, CommitStoreType DEF ScriptWrites, channel
  <2> QED
    BY <1>4, <2>1 DEF ScriptWrites, ScriptTypeOK, ScriptControl, Script
<1>5. CASE ScriptVerifies
  <2>1. script.runs \in Nat
    BY DEF ScriptTypeOK, Script
  <2> QED
    BY <1>5, <2>1, IdleTyped, StoreUnchangedType DEF ScriptVerifies
<1>6. CASE ScriptCallLost
  <2>1. script.runs - 1 \in Nat
    BY <1>6 DEF ScriptCallLost, ScriptTypeOK, ScriptControl, Script
  <2>2. stray' \subseteq Request
    BY <1>6, ScriptSendsRequest DEF ScriptCallLost, StoreTypeOK
  <2> QED
    BY <1>6, <2>1, <2>2, IdleTyped, StrayStoreType DEF ScriptCallLost
<1> QED
  BY <1>1, <1>2, <1>3, <1>4, <1>5, <1>6 DEF ScriptNext, ScriptRuns

LEMMA PagesUntouched ==
    ASSUME LibraryTyped, PagesTyped, PagesWait, UNCHANGED <<libraryVars, page>>
    PROVE  LibraryTyped' /\ PagesTyped' /\ PagesWait'
BY LibraryUntouched DEF PagesTyped, PagesWait, Waits, Coherent, libraryVars

-------------------------------------------------------------------------------
LEMMA VocabularyStarts == Init => VocabularyInv
<1> SUFFICES ASSUME Init PROVE VocabularyInv
  OBVIOUS
<1>1. StoreTypeOK
  BY StoreStartsTyped DEF Init
<1>2. LibraryTyped
  BY EmptySeq DEF Init, MachineInit, LibraryInit, LibraryTyped, LibraryTypeOK, LibraryControl
<1>3. PagesTyped /\ PagesWait
  BY PageOpensAnew DEF Init, MachineInit, LibraryInit, PagesTyped, PagesWait, Waits
<1>4. ScriptTypeOK /\ ScriptControl
  BY DEF Init, ScriptInit, Idle, ScriptTypeOK, ScriptControl, Script, NoRows, WordRows
<1> QED
  BY <1>1, <1>2, <1>3, <1>4 DEF VocabularyInv

LEMMA VocabularyKeeps == VocabularyInv /\ [Next]_vars => VocabularyInv'
<1> SUFFICES ASSUME VocabularyInv, [Next]_vars PROVE VocabularyInv'
  OBVIOUS
<1> USE DEF VocabularyInv
<1>1. CASE PageStep
  <2>1. MachineInv'
    BY <1>1, PageStepKeeps DEF PageStep, MachineInv
  <2>2. ScriptTypeOK' /\ ScriptControl'
    BY <1>1 DEF PageStep, ScriptTypeOK, ScriptControl
  <2> QED
    BY <2>1, <2>2 DEF MachineInv
<1>2. CASE ScriptStep
  BY <1>2, ScriptKeeps, PagesUntouched DEF ScriptStep
<1>3. CASE StrayStep
  <2>1. PICK q \in Request : Commit(q) /\ stray' = stray \ {q}
                             /\ UNCHANGED disturbances /\ UNCHANGED supplies
    BY <1>3 DEF StrayStep, LateCommit, StoreTypeOK
  <2>2. StoreTypeOK'
    BY <2>1, CommitStoreType
  <2> QED
    BY <1>3, <2>2, PagesUntouched DEF StrayStep, ScriptTypeOK, ScriptControl
<1>4. CASE UNCHANGED vars
  BY <1>4, StoreUnchangedType, PagesUntouched DEF vars, machineVars, ScriptTypeOK, ScriptControl
<1> QED
  BY <1>1, <1>2, <1>3, <1>4 DEF Next

\* The inductive invariant of any number of pages, the script and late requests.
THEOREM VocabularyInvariant == Spec => []VocabularyInv
BY VocabularyStarts, VocabularyKeeps, PTL DEF Spec

(***************************************************************************)
(* What the pages hold, what they ask for and what the script plans is of  *)
(* its type, whatever call fails.                                          *)
(***************************************************************************)
THEOREM VocabularyTypeCorrect == Spec => []TypeOK
<1>1. VocabularyInv => TypeOK
  BY DEF VocabularyInv, TypeOK, MachineTypeOK, PagesTyped, LibraryTyped
<1> QED
  BY <1>1, VocabularyInvariant, PTL

(***************************************************************************)
(* A library page is in a busy state exactly while the operation that      *)
(* state invoked is under way: every way an operation ends, failure and    *)
(* reopening included, brings the machine back to rest.                    *)
(***************************************************************************)
THEOREM AlwaysWaitsForItsOperation == Spec => []WaitsForItsOperation
<1>1. VocabularyInv => WaitsForItsOperation
  BY DEF VocabularyInv, PagesWait, Waits, WaitsForItsOperation, In
<1> QED
  BY <1>1, VocabularyInvariant, PTL

-------------------------------------------------------------------------------
(***************************************************************************)
(* One page and the script, as long as no call has failed.  What a page    *)
(* shows is still there, except between a deletion and the listing after   *)
(* it; what a page sends adds words, deletes what was confirmed, or        *)
(* changes words that are there.  The script may add and change words in   *)
(* between, and bring back one the page deleted, without a memory row.     *)
(***************************************************************************)
OnePage == \A k, l \in LibraryPages : k = l

Harmless(q) ==
    \/ q.op = "insertWords"
    \/ q.op = "updateWords" /\ Given(q.rows) \subseteq Given(words)

Sends(l) ==
    IF page[l].state \in Deleting
    THEN \E ids \in SUBSET WordIds :
            /\ queue[l] = <<[op |-> "deleteWords", ids |-> ids]>>
            /\ page[l].state = "DeletingSelectedWords" => ids = page[l].pending
    ELSE \A i \in DOMAIN queue[l] : Harmless(queue[l][i])

Current(l) == Given(page[l].listed) \subseteq Given(words)

Fresh(l) ==
    /\ Selection(page[l])
    /\ Current(l) \/ (jobStep[l] = "reload" /\ page[l].state \in Deleting)
    /\ (jobStep[l] = "list" /\ page[l].state = "DeletingSelectedWords") =>
         job[l].ids = page[l].pending
    /\ jobStep[l] = "write" => Sends(l)

\* What the script inserted has a memory row for as long as it is there.
Vouched ==
    (script.step = "verify" /\ script.kind = "addWords") =>
        \A w \in Given(script.plan) : Exists(w) => states[w] # None

FreshInv == NothingFailed => stray = {} /\ (\A l \in LibraryPages : Fresh(l)) /\ Vouched

LEMMA FreshGrows ==
    ASSUME NEW l \in LibraryPages, Fresh(l), UNCHANGED <<libraryVars, page>>,
           Given(words) \subseteq Given(words')
    PROVE  Fresh(l)'
<1>1. \A rows : Given(rows)' = Given(rows)
  BY DEF Given
<1>2. Given(words)' = Given(words')
  BY DEF Given
<1>3. page' = page /\ job' = job /\ jobStep' = jobStep /\ queue' = queue
  BY DEF libraryVars
<1>4. ASSUME jobStep[l] = "write" PROVE Sends(l)'
  BY <1>2, <1>3, <1>4 DEF Fresh, Sends, Harmless, Given
<1>5. Selection(page[l])' /\ (Current(l) => Current(l)')
  BY <1>2, <1>3 DEF Fresh, Selection, Current, Given
<1> QED
  BY <1>3, <1>4, <1>5 DEF Fresh

\* A call that fails is counted.
LEMMA FailuresCount ==
    ASSUME StoreTypeOK, [Next]_vars, NothingFailed'
    PROVE  NothingFailed /\ ~Disturb
<1>1. UNCHANGED disturbances \/ Disturb
  <2>1. CASE PageStep
    <3>1. PICK l \in LibraryPages : LearnerActs(l) \/ MachineRuns(l)
      BY <2>1 DEF PageStep
    <3>2. LibraryCallLost(l) => Disturb
      BY DEF LibraryCallLost
    <3>3. CASE LearnerActs(l)
      BY <3>2, <3>3
         DEF LearnerActs, Here, storeVars, Start, Invoke, ToggleWordSelection, ToggleAllWords,
             ClearWordSelection, EditWord, CancelWordEdit, ArchiveWord, ArchiveSelectedWords,
             DeleteSelectedWords, DeleteAllWords, DeleteWord, TypeConfirmation, Cancel,
             ConfirmArchiveWords, RestoreWord, ConfirmDeleteSelectedWords, ConfirmDeleteAllWords,
             ConfirmWordDeletion, SaveWord, UpdateWord, ImportWords, ImportExamples, Refresh,
             ExportWords, Reopen
    <3>4. CASE MachineRuns(l)
      BY <3>2, <3>4
         DEF MachineRuns, OperationGoesOn, OperationDone, OperationFailed, Loaded, NotLoaded,
             Exported, CopiedLongEnough, Here, storeVars, channel, AddWords, UpdateWordEntry,
             ChangeWordArchive, DeleteWordEntry, DeleteSelectedWordEntries,
             ImportExampleEntries, MutationApplied, RefuseJob, Reloaded
    <3> QED
      BY <3>1, <3>3, <3>4
  <2>2. CASE ScriptStep
    BY <2>2
       DEF ScriptStep, ScriptNext, ScriptRuns, PlanAddWords, PlanAddExamples,
           PlanReplaceExamples, ScriptWrites, ScriptVerifies, ScriptCallLost, storeVars, channel
  <2>3. CASE StrayStep
    BY <2>3 DEF StrayStep, LateCommit
  <2>4. CASE UNCHANGED vars
    BY <2>4 DEF vars, machineVars, storeVars
  <2> QED
    BY <2>1, <2>2, <2>3, <2>4 DEF Next
<1>2. disturbances \in Nat
  BY BoundsAssumption DEF StoreTypeOK
<1> QED
  BY <1>1, <1>2 DEF NothingFailed, Disturb

\* One row sent alone, of a word that is there, is harmless.
LEMMA OneRowIsHarmless ==
    ASSUME NEW w \in WordIds, Exists(w), NEW row, NEW q,
           q = [op |-> "updateWords", rows |-> [NoRows EXCEPT ![w] = row]]
    PROVE  Harmless(q)
BY DEF Harmless, Given, NoRows, Exists

\* What an operation decides to send is what its page waits for.
LEMMA DecidingStaysFresh ==
    ASSUME MachineInv, NEW l \in LibraryPages, Fresh(l), OperationGoesOn(l), ~MutationApplied(l)
    PROVE  Fresh(l)' /\ UNCHANGED <<words, states, stray>>
<1> USE DEF MachineInv
<1>1. UNCHANGED page /\ UNCHANGED job /\ UNCHANGED <<words, states, stray>>
  BY OperationStaysUnderWay
     DEF OperationGoesOn, AddWords, UpdateWordEntry, ChangeWordArchive, DeleteWordEntry,
         DeleteSelectedWordEntries, ImportExampleEntries, storeVars, tables, channel
<1>2. jobStep[l] = "list" /\ jobStep'[l] \in {"write", "reload"}
  BY OperationStaysUnderWay
     DEF OperationGoesOn, AddWords, UpdateWordEntry, ChangeWordArchive, DeleteWordEntry,
         DeleteSelectedWordEntries, ImportExampleEntries, Listing
<1>3. job[l] \in Job /\ page[l].state \in Awaited[job[l].kind]
  BY <1>2 DEF PagesWait, Waits
<1>4. \A requests : Send(l, requests) => queue'[l] = requests
  BY DEF Send, LibraryTyped, LibraryTypeOK
<1>5. Sends(l)'
  <2>1. SUFFICES IF page[l].state \in Deleting
                 THEN \E ids \in SUBSET WordIds :
                         /\ queue'[l] = <<[op |-> "deleteWords", ids |-> ids]>>
                         /\ page[l].state = "DeletingSelectedWords" => ids = page[l].pending
                 ELSE \A i \in DOMAIN queue'[l] : Harmless(queue'[l][i])
    BY <1>1 DEF Sends, Harmless, Given
  <2>2. CASE AddWords(l)
    <3>1. page[l].state \in {"SavingWord", "ImportingWords"}
      BY <1>3, <2>2 DEF AddWords, Listing, Adding, Awaited
    <3>2. PICK rows, new :
            Send(l, IF new = {} THEN <<>> ELSE <<[op |-> "insertWords", rows |-> rows]>>)
      BY <2>2 DEF AddWords
    <3>3. queue'[l] \in {<<>>, <<[op |-> "insertWords", rows |-> rows]>>}
      BY <1>4, <3>2
    <3> QED
      BY <3>1, <3>3 DEF Deleting, Harmless
  <2>3. CASE UpdateWordEntry(l)
    <3>1. page[l].state = "UpdatingWord"
      BY <1>3, <2>3 DEF UpdateWordEntry, Listing, Awaited
    <3>2. PICK w, row, q :
            /\ w \in WordIds /\ Exists(w)
            /\ q = [op |-> "updateWords", rows |-> [NoRows EXCEPT ![w] = row]]
            /\ Send(l, <<q>>)
      BY <2>3 DEF UpdateWordEntry
    <3>3. queue'[l] = <<q>> /\ Harmless(q)
      BY <1>4, <3>2, OneRowIsHarmless
    <3> QED
      BY <3>1, <3>3 DEF Deleting
  <2>4. CASE ChangeWordArchive(l)
    <3>1. page[l].state = "ChangingWordArchive"
      BY <1>3, <2>4 DEF ChangeWordArchive, Listing, Awaited
    <3>2. PICK rows, q :
            /\ rows = [w \in WordIds |->
                         IF w \in job[l].ids /\ words[w].archived # (job[l].kind = "archive")
                         THEN [words[w] EXCEPT !.archived = (job[l].kind = "archive")]
                         ELSE None]
            /\ q = [op |-> "updateWords", rows |-> rows] /\ Send(l, <<q>>)
      BY <2>4 DEF ChangeWordArchive
    <3>3. Given(rows) \subseteq Given(words)
      BY <2>4, <3>2 DEF ChangeWordArchive, Exists, Given
    <3>4. queue'[l] = <<q>> /\ Harmless(q)
      BY <1>4, <3>2, <3>3 DEF Harmless
    <3> QED
      BY <3>1, <3>4 DEF Deleting
  <2>5. CASE DeleteWordEntry(l)
    <3>1. page[l].state = "DeletingWord"
      BY <1>3, <2>5 DEF DeleteWordEntry, Listing, Awaited
    <3>2. PICK ids \in SUBSET WordIds : queue'[l] = <<[op |-> "deleteWords", ids |-> ids]>>
      BY <1>4, <2>5 DEF DeleteWordEntry
    <3> QED
      BY <3>1, <3>2 DEF Deleting
  <2>6. CASE DeleteSelectedWordEntries(l)
    <3>1. page[l].state = "DeletingSelectedWords"
      BY <1>3, <2>6 DEF DeleteSelectedWordEntries, Listing, Awaited
    <3>2. job[l].ids = page[l].pending
      BY <1>2, <3>1 DEF Fresh
    <3>3. PICK ids \in SUBSET WordIds : ids = page[l].pending
      BY <1>3, <3>2 DEF Job
    <3>4. queue'[l] = <<[op |-> "deleteWords", ids |-> ids]>>
      BY <1>4, <2>6, <3>2, <3>3 DEF DeleteSelectedWordEntries
    <3> QED
      BY <3>1, <3>3, <3>4 DEF Deleting
  <2>7. CASE ImportExampleEntries(l)
    <3>1. page[l].state = "ImportingExamples"
      BY <1>3, <2>7 DEF ImportExampleEntries, Listing, Awaited
    <3>2. PICK found, targets :
            /\ targets = {w \in WordIds : Lacking(w, job[l].added)
                                           /\ \E plain \in DOMAIN found : found[plain] = w}
            /\ \E order \in SetToSeqs(targets) :
                 Send(l, [i \in DOMAIN order |-> EnrichRequest(order[i], job[l].added)])
      BY <2>7 DEF ImportExampleEntries
    <3>3. PICK order \in [1 .. Cardinality(targets) -> targets] :
            Send(l, [i \in DOMAIN order |-> EnrichRequest(order[i], job[l].added)])
      BY <3>2 DEF SetToSeqs
    <3>4. queue'[l] = [i \in DOMAIN order |-> EnrichRequest(order[i], job[l].added)]
      BY <1>4, <3>3
    <3>5. \A w \in targets : Harmless(EnrichRequest(w, job[l].added))
      BY <3>2, OneRowIsHarmless DEF EnrichRequest, Lacking, Active, Exists
    <3>6. \A i \in DOMAIN queue'[l] : Harmless(queue'[l][i])
      BY <3>3, <3>4, <3>5
    <3> QED
      BY <3>1, <3>6 DEF Deleting
  <2> QED
    BY <2>1, <2>2, <2>3, <2>4, <2>5, <2>6, <2>7 DEF OperationGoesOn
<1>6. Selection(page[l])' /\ Current(l)'
  BY <1>1, <1>2 DEF Fresh, Selection, Current, Given
<1> QED
  BY <1>1, <1>2, <1>5, <1>6 DEF Fresh

\* A harmless request takes nothing away, and leaves what it inserts a memory row.
LEMMA HarmlessAppends ==
    ASSUME StoreTypeOK, NEW q \in Request, Harmless(q), Commit(q)
    PROVE  /\ Given(words) \subseteq Given(words')
           /\ \A w \in WordIds : states[w] # None => states'[w] # None
           /\ \A w \in WordIds : (words[w] = None /\ words'[w] # None) => states'[w] # None
<1>1. CASE q \in InsertRequest /\ InsertWords(q.rows)
  <2>1. \A w \in WordIds : q.rows[w] # None => FreshRow(q.rows[w].createdAt) # None
    BY <1>1, FreshRowCorrect, AbsenceAssumption DEF InsertRequest, WordRows, WordRow
  <2> QED
    BY <1>1, <2>1 DEF InsertWords, Overlay, Given
<1>2. CASE q \in UpdateRequest /\ UpdateWords(q.rows)
  <2>1. Given(q.rows) \subseteq Given(words)
    BY <1>2 DEF Harmless, UpdateRequest
  <2> QED
    BY <1>2, <2>1 DEF UpdateWords, Overlay, Given
<1> QED
  BY <1>1, <1>2, CommitCases DEF Harmless, SaveRequest, ReplaceRequest, DeleteRequest

LEMMA HarmlessKeepsVouched ==
    ASSUME StoreTypeOK, ScriptTypeOK, Vouched, NEW q \in Request, Harmless(q), Commit(q),
           UNCHANGED script
    PROVE  Vouched'
BY HarmlessAppends DEF Vouched, Exists, Given, ScriptTypeOK, Script, WordRows

LEMMA DeletingKeepsVouched ==
    ASSUME StoreTypeOK, Vouched, NEW ids \in SUBSET WordIds, DeleteWords(ids), UNCHANGED script
    PROVE  Vouched'
BY DEF DeleteWords, Vouched, Exists, Given

\* Where the page deletes there is one request; elsewhere each is harmless.
LEMMA FirstRequest ==
    ASSUME MachineInv, NEW l \in LibraryPages, Fresh(l), MutationApplied(l)
    PROVE  /\ Head(queue[l]) \in Request /\ Commit(Head(queue[l]))
           /\ jobStep[l] = "write" /\ queue[l] # <<>>
           /\ \/ /\ page[l].state \in Deleting
                 /\ \E ids \in SUBSET WordIds :
                      /\ queue[l] = <<[op |-> "deleteWords", ids |-> ids]>>
                      /\ page[l].state = "DeletingSelectedWords" => ids = page[l].pending
                      /\ DeleteWords(ids) /\ Tail(queue[l]) = <<>>
              \/ page[l].state \notin Deleting /\ Harmless(Head(queue[l]))
<1>1. jobStep[l] = "write" /\ Commit(Head(queue[l])) /\ Sends(l)
  BY DEF MutationApplied, Fresh
<1>2. queue[l] \in Seq(LibraryRequest) /\ queue[l] # <<>>
  BY <1>1 DEF MachineInv, LibraryTyped, LibraryTypeOK, LibraryControl, LibraryRequest
<1>3. Head(queue[l]) \in Request
  BY <1>1, QueuedRequests DEF MachineInv
<1>4. CASE page[l].state \in Deleting
  <2>1. PICK ids \in SUBSET WordIds :
          /\ queue[l] = <<[op |-> "deleteWords", ids |-> ids]>>
          /\ page[l].state = "DeletingSelectedWords" => ids = page[l].pending
    BY <1>1, <1>4 DEF Sends
  <2>2. PICK q : q = [op |-> "deleteWords", ids |-> ids]
    OBVIOUS
  <2>3. Head(queue[l]) = q /\ Tail(queue[l]) = <<>> /\ q.op = "deleteWords" /\ q.ids = ids
    BY <2>1, <2>2
  <2>4. DeleteWords(ids)
    BY <1>1, <2>3 DEF Commit
  <2> QED
    BY <1>1, <1>2, <1>3, <1>4, <2>1, <2>3, <2>4
<1>5. CASE page[l].state \notin Deleting
  <2>1. 1 \in DOMAIN queue[l] /\ Head(queue[l]) = queue[l][1]
    BY <1>2
  <2> QED
    BY <1>1, <1>2, <1>3, <1>5, <2>1 DEF Sends
<1> QED
  BY <1>4, <1>5

LEMMA SendingStaysFresh ==
    ASSUME MachineInv, ScriptTypeOK, Vouched, UNCHANGED script,
           NEW l \in LibraryPages, Fresh(l), OperationGoesOn(l), MutationApplied(l)
    PROVE  Fresh(l)' /\ Vouched'
<1> USE DEF MachineInv
<1>1. UNCHANGED page /\ UNCHANGED job /\ UNCHANGED stray
  BY DEF OperationGoesOn, MutationApplied, channel
<1>2. /\ queue'[l] = Tail(queue[l])
      /\ jobStep'[l] = IF Tail(queue[l]) = <<>> THEN "reload" ELSE "write"
  BY DEF MutationApplied, LibraryTyped, LibraryTypeOK
<1>3. Selection(page[l])'
  BY <1>1 DEF Fresh, Selection, Given
<1>4. CASE page[l].state \in Deleting
  <2>1. PICK ids \in SUBSET WordIds : DeleteWords(ids) /\ Tail(queue[l]) = <<>>
    BY <1>4, FirstRequest
  <2>2. Vouched'
    BY <2>1, DeletingKeepsVouched
  <2> QED
    BY <1>1, <1>2, <1>3, <1>4, <2>1, <2>2 DEF Fresh
<1>5. CASE page[l].state \notin Deleting
  <2>1. PICK q \in Request : q = Head(queue[l]) /\ Commit(q) /\ Harmless(q)
    BY <1>5, FirstRequest
  <2>2. Given(words) \subseteq Given(words') /\ Vouched'
    BY <2>1, HarmlessAppends, HarmlessKeepsVouched
  <2>3. jobStep[l] = "write" /\ queue[l] \in Seq(LibraryRequest) /\ queue[l] # <<>>
    BY FirstRequest DEF LibraryTyped, LibraryTypeOK, LibraryRequest
  <2>4. \A i \in DOMAIN queue[l] : Harmless(queue[l][i])
    BY <1>5, <2>3 DEF Fresh, Sends
  <2>5. \A i \in DOMAIN Tail(queue[l]) :
           i + 1 \in DOMAIN queue[l] /\ Tail(queue[l])[i] = queue[l][i + 1]
    BY <2>3
  <2>6. \A i \in DOMAIN queue'[l] : Harmless(queue'[l][i])
    BY <1>2, <2>4, <2>5
  <2>7. \A q2 : Harmless(q2) => Harmless(q2)'
    BY <2>2 DEF Harmless, Given
  <2>8. Sends(l)'
    BY <1>1, <1>5, <2>6, <2>7 DEF Sends
  <2>9. Current(l)'
    BY <1>1, <2>2, <2>3 DEF Fresh, Current, Given
  <2> QED
    BY <1>1, <1>2, <1>3, <2>2, <2>8, <2>9 DEF Fresh
<1> QED
  BY <1>4, <1>5

LEMMA PageStepStaysFresh ==
    ASSUME MachineInv, ScriptTypeOK, OnePage, stray = {}, Vouched, ~Disturb, UNCHANGED script,
           NEW l \in LibraryPages, Fresh(l), LearnerActs(l) \/ MachineRuns(l)
    PROVE  Fresh(l)' /\ stray' = {} /\ Vouched'
<1> USE DEF MachineInv
<1>1. ~LibraryCallLost(l) /\ ~NotLoaded(l)
  BY DEF LibraryCallLost, NotLoaded
<1>2. ASSUME UNCHANGED <<words, states>>
      PROVE  Vouched' /\ Given(words') = Given(words)
  BY <1>2 DEF Vouched, Exists, Given
<1>3. CASE Rests(l) /\ UNCHANGED libraryVars /\ (UNCHANGED storeVars \/ NotLoaded(l))
  <2>1. UNCHANGED <<words, states, stray>>
    BY <1>1, <1>3 DEF storeVars
  <2>2. jobStep'[l] = "idle" /\ jobStep[l] = "idle"
    BY <1>3, NoOperation DEF Rests, libraryVars
  <2>3. Selection(page[l]) /\ Given(page[l].listed) \subseteq Given(words)
    BY <2>2 DEF Fresh, Current
  <2>4. Selection(page'[l]) /\ Given(page'[l].listed) \subseteq Given(words)
    BY <1>3, <2>3 DEF Rests
  <2>5. Selection(page[l])' /\ Current(l)'
    BY <2>1, <2>4 DEF Selection, Current, Given
  <2> QED
    BY <1>2, <2>1, <2>2, <2>5 DEF Fresh
<1>4. CASE Invokes(l)
  <2>1. PICK asked \in Job :
          /\ Start(l, asked)
          /\ page'[l].state \in Awaited[asked.kind]
          /\ page'[l].state = "DeletingSelectedWords" => asked.ids = page'[l].pending
    BY <1>4 DEF Invokes
  <2>2. UNCHANGED <<words, states, stray>>
    BY <2>1 DEF Start, storeVars
  <2>3. Current(l) /\ Selection(page[l])
    BY <1>4, NoOperation DEF Fresh, Invokes
  <2>4. Selection(page[l])' /\ Current(l)'
    BY <1>4, <2>2, <2>3 DEF Invokes, Selection, Current, Given
  <2>5. /\ asked.kind \notin Adding => job'[l] = asked
        /\ \/ jobStep'[l] = "list"
           \/ /\ asked.kind = "deleteAllWordEntries" /\ jobStep'[l] = "write"
              /\ queue'[l] = <<[op |-> "deleteWords", ids |-> WordIds]>>
    BY <2>1, JobStartsAs
  <2>6. asked.kind \in JobKinds
    BY DEF Job
  <2>7. page'[l].state = "DeletingSelectedWords" => job'[l].ids = page'[l].pending
    BY <2>1, <2>5, <2>6 DEF JobKinds, Awaited, Adding
  <2>8. jobStep'[l] = "write" =>
          /\ page'[l].state = "DeletingAllWords"
          /\ queue'[l] = <<[op |-> "deleteWords", ids |-> WordIds]>>
    BY <2>1, <2>5 DEF Awaited
  <2>9. jobStep'[l] = "write" => Sends(l)'
    BY <2>8 DEF Sends, Deleting
  <2> QED
    BY <1>2, <2>2, <2>4, <2>7, <2>9 DEF Fresh
<1>5. CASE Reopen(l)
  <2>1. jobStep[l] = "idle" /\ UNCHANGED libraryVars /\ UNCHANGED <<words, states, stray>>
    BY <1>1, <1>5 DEF Reopen, Here, storeVars
  <2>2. jobStep'[l] = "idle" /\ page'[l] = OpenedPage
    BY <1>5, <2>1, Reopens DEF libraryVars
  <2>3. Selection(page[l])' /\ Current(l)'
    BY <2>2, PageOpensAnew DEF Selection, Current, Given
  <2> QED
    BY <1>2, <2>1, <2>2, <2>3 DEF Fresh
<1>6. CASE OperationGoesOn(l) /\ ~MutationApplied(l)
  BY <1>2, <1>6, DecidingStaysFresh
<1>7. CASE OperationGoesOn(l) /\ MutationApplied(l)
  BY <1>7, SendingStaysFresh DEF MutationApplied, channel
<1>8. CASE OperationDone(l)
  <2>1. jobStep[l] = "reload" /\ Finish(l) /\ UNCHANGED <<words, states, stray>>
    BY <1>8 DEF OperationDone, Reloaded, storeVars
  <2>2. jobStep'[l] = "idle"
    BY <2>1, FinishedJob
  <2>3. PICK held \in Page : held = page[l] /\ Coherent(held) /\ held.state \in Invoking
    BY <2>1, NoOperation DEF PagesTyped, PagesWait
  <2>4. PICK mid, entries : mid = With(held, OnDone[held.state]) /\ entries = WordEntries
    OBVIOUS
  <2>5. /\ mid \in Page /\ mid.pending = {} /\ mid.selected \subseteq held.selected
        /\ held.state \in Deleting => mid.selected = {}
    BY <2>3, <2>4, DoneFields
  <2>6. page'[l] = [mid EXCEPT !.listed = entries]
    BY <1>8, <2>3, <2>4 DEF OperationDone, PagesTyped
  <2>7. Given(entries) = Given(words)
    BY <2>4, WordEntriesType
  <2>8. page'[l].pending = {} /\ page'[l].selected = mid.selected /\ page'[l].listed = entries
    BY <2>5, <2>6 DEF Page
  <2>9. held.state \in Deleting \/ mid.selected \subseteq Given(words)
    BY <2>3, <2>5 DEF Fresh, Selection, Current
  <2>10. Selection(page[l])' /\ Current(l)'
    BY <2>1, <2>5, <2>7, <2>8, <2>9 DEF Selection, Current, Given
  <2> QED
    BY <1>2, <2>1, <2>2, <2>10 DEF Fresh
<1>9. CASE OperationFailed(l)
  <2>1. jobStep[l] = "list" /\ Finish(l) /\ UNCHANGED <<words, states, stray>>
    BY <1>1, <1>9 DEF OperationFailed, RefuseJob, storeVars
  <2>2. jobStep'[l] = "idle"
    BY <2>1, FinishedJob
  <2>3. Resting(page[l], page'[l]) /\ Selection(page[l]) /\ Current(l)
    BY <1>9, <2>1, FailureRests DEF Fresh
  <2>4. Selection(page[l])' /\ Current(l)'
    BY <2>1, <2>3 DEF Resting, Selection, Current, Given
  <2> QED
    BY <1>2, <2>1, <2>2, <2>4 DEF Fresh
<1> QED
  BY <1>3, <1>4, <1>5, <1>6, <1>7, <1>8, <1>9, PageRestsOrNot

LEMMA ScriptStaysFresh ==
    ASSUME VocabularyInv, NothingFailed, FreshInv, ~Disturb, ScriptStep
    PROVE  (\A l \in LibraryPages : Fresh(l)') /\ stray' = {} /\ Vouched'
<1> USE DEF VocabularyInv
<1>1. stray = {} /\ Vouched /\ \A l \in LibraryPages : Fresh(l)
  BY DEF FreshInv
<1>2. SUFFICES Given(words) \subseteq Given(words') /\ UNCHANGED stray /\ Vouched'
  BY <1>1, FreshGrows DEF ScriptStep
<1>3. CASE PlanAddWords \/ PlanAddExamples \/ PlanReplaceExamples \/ ScriptVerifies
  <2>1. UNCHANGED <<words, stray>>
    BY <1>3 DEF PlanAddWords, PlanAddExamples, PlanReplaceExamples, ScriptVerifies, storeVars,
                tables, channel
  <2>2. ScriptVerifies \/ \E kind, rows : Plan(kind, rows)
    BY <1>3 DEF PlanAddWords, PlanAddExamples, PlanReplaceExamples
  <2>3. script'.step # "verify"
    BY <2>2 DEF ScriptVerifies, Plan, Idle
  <2> QED
    BY <2>1, <2>3 DEF Vouched
<1>4. CASE ScriptWrites
  <2>1. PICK q : q = ScriptRequest
    OBVIOUS
  <2>2. /\ q.op = IF script.kind = "addWords" THEN "insertWords" ELSE "updateWords"
        /\ q.rows = script.plan /\ Commit(q)
    BY <1>4, <2>1 DEF ScriptRequest, ScriptWrites
  <2>3. CASE script.kind = "addWords"
    <3>1. q \in Request /\ Harmless(q)
      BY <2>1, <2>2, <2>3, ScriptSendsRequest DEF Harmless
    <3>2. InsertWords(q.rows) /\ q.rows \in WordRows
      BY <2>2, <2>3 DEF Commit, ScriptTypeOK, Script
    <3>3. \A w \in WordIds : q.rows[w] # None => states'[w] # None
      BY <3>2, FreshRowCorrect, AbsenceAssumption DEF InsertWords, WordRows, WordRow
    <3>4. Given(words) \subseteq Given(words')
      BY <2>2, <3>1, HarmlessAppends
    <3>5. script'.plan = q.rows
      BY <1>4, <2>2 DEF ScriptWrites, ScriptTypeOK, Script
    <3> QED
      BY <1>4, <3>3, <3>4, <3>5 DEF ScriptWrites, channel, Vouched, Given
  <2>4. CASE script.kind # "addWords"
    <3>1. UpdateWords(q.rows) /\ script'.kind = script.kind
      BY <1>4, <2>2, <2>4 DEF Commit, ScriptWrites, ScriptTypeOK, Script
    <3> QED
      BY <1>4, <2>4, <3>1 DEF ScriptWrites, channel, UpdateWords, Overlay, Given, Vouched
  <2> QED
    BY <2>3, <2>4
<1> QED
  BY <1>3, <1>4 DEF ScriptStep, ScriptNext, ScriptRuns, ScriptCallLost

LEMMA FreshStarts == Init => FreshInv
<1> SUFFICES ASSUME Init PROVE FreshInv
  OBVIOUS
<1>1. \A l \in LibraryPages : page[l] = OpenedPage /\ jobStep[l] = "idle"
  BY DEF Init, MachineInit, LibraryInit
<1>2. \A l \in LibraryPages : Fresh(l)
  BY <1>1, PageOpensAnew DEF Fresh, Current
<1> QED
  BY <1>2 DEF Init, StoreInit, ScriptInit, Idle, FreshInv, Vouched

LEMMA FreshStays ==
    ASSUME OnePage, VocabularyInv, FreshInv, [Next]_vars
    PROVE  FreshInv'
<1> SUFFICES ASSUME NothingFailed'
             PROVE  (stray = {} /\ (\A l \in LibraryPages : Fresh(l)) /\ Vouched)'
  BY DEF FreshInv
<1>1. NothingFailed /\ ~Disturb
  BY FailuresCount DEF VocabularyInv
<1>2. stray = {} /\ Vouched /\ \A l \in LibraryPages : Fresh(l)
  BY <1>1 DEF FreshInv
<1>3. CASE PageStep
  <2>1. PICK l \in LibraryPages : LearnerActs(l) \/ MachineRuns(l)
    BY <1>3 DEF PageStep
  <2>2. Fresh(l)' /\ stray' = {} /\ Vouched'
    BY <1>1, <1>2, <1>3, <2>1, PageStepStaysFresh DEF PageStep, VocabularyInv, MachineInv
  <2> QED
    BY <2>2 DEF OnePage
<1>4. CASE ScriptStep
  BY <1>1, <1>4, ScriptStaysFresh
<1>5. CASE StrayStep
  BY <1>2, <1>5 DEF StrayStep, LateCommit
<1>6. CASE UNCHANGED vars
  <2>1. UNCHANGED <<libraryVars, page>> /\ UNCHANGED <<words, states, stray, script>>
    BY <1>6 DEF vars, machineVars, storeVars
  <2>2. \A l \in LibraryPages : Fresh(l)'
    BY <1>2, <2>1, FreshGrows
  <2> QED
    BY <1>2, <2>1, <2>2 DEF Vouched, Exists, Given
<1> QED
  BY <1>3, <1>4, <1>5, <1>6 DEF Next

\* The inductive invariant of one page and the script until a call fails.
THEOREM FreshInvariant == OnePage => (Spec => []FreshInv)
<1> SUFFICES ASSUME OnePage PROVE Spec => []FreshInv
  OBVIOUS
<1>1. VocabularyInv /\ FreshInv /\ [Next]_vars => FreshInv'
  BY FreshStays
<1> QED
  BY <1>1, FreshStarts, VocabularyInvariant, PTL DEF Spec

(***************************************************************************)
(* With one library page open, and until a call fails, what the page has   *)
(* selected or holds pending in a dialog is on the list it shows: a        *)
(* deletion clears the selection before the new listing arrives.           *)
(***************************************************************************)
THEOREM SelectionAlwaysListed == OnePage => (Spec => []SelectionIsListed)
<1>1. FreshInv => SelectionIsListed
  BY DEF FreshInv, Fresh, Selection, SelectionIsListed, Listed
<1> QED
  BY <1>1, FreshInvariant, PTL

\* A word leaves the library by a deletion that a page or a late request makes.
LEMMA WordsLeave ==
    ASSUME VocabularyInv, FreshInv, NothingFailed, [Next]_vars,
           NEW w \in Given(words), w \notin Given(words')
    PROVE  \E l \in LibraryPages : OperationGoesOn(l) /\ MutationApplied(l)
<1> USE DEF VocabularyInv
<1>1. stray = {}
  BY DEF FreshInv
<1>2. words' # words
  OBVIOUS
<1>3. CASE PageStep
  <2>1. PICK l \in LibraryPages : LearnerActs(l) \/ MachineRuns(l)
    BY <1>3 DEF PageStep
  <2>2. LibraryCallLost(l) => UNCHANGED words
    BY DEF LibraryCallLost, tables
  <2>3. \/ Rests(l) /\ UNCHANGED libraryVars /\ (UNCHANGED storeVars \/ NotLoaded(l))
        \/ Invokes(l) \/ Reopen(l)
        \/ OperationGoesOn(l) \/ OperationDone(l) \/ OperationFailed(l)
    BY <2>1, PageRestsOrNot DEF MachineInv
  <2>4. (UNCHANGED storeVars \/ NotLoaded(l)) => UNCHANGED words
    BY DEF storeVars, NotLoaded, tables
  <2>5. Invokes(l) \/ Reopen(l) \/ OperationDone(l) \/ OperationFailed(l) => UNCHANGED words
    BY <2>2 DEF Invokes, Start, Reopen, Here, OperationDone, Reloaded, OperationFailed, RefuseJob,
                storeVars
  <2>6. OperationGoesOn(l) /\ ~MutationApplied(l) => UNCHANGED words
    BY <2>1, DecidingStaysFresh DEF MachineInv, FreshInv
  <2> QED
    BY <1>2, <2>3, <2>4, <2>5, <2>6
<1>4. CASE ScriptStep
  <2>1. CASE ScriptWrites
    <3>1. InsertWords(script.plan) \/ UpdateWords(script.plan)
      BY <2>1 DEF ScriptWrites, Commit, ScriptRequest
    <3>2. w \in WordIds /\ words[w] # None
      BY DEF Given
    <3> QED
      BY <3>1, <3>2 DEF InsertWords, UpdateWords, Overlay, Given
  <2> QED
    BY <1>2, <1>4, <2>1
       DEF ScriptStep, ScriptNext, ScriptRuns, PlanAddWords, PlanAddExamples,
           PlanReplaceExamples, ScriptVerifies, ScriptCallLost, storeVars, tables
<1>5. CASE StrayStep
  BY <1>1, <1>5 DEF StrayStep, LateCommit
<1>6. CASE UNCHANGED vars
  BY <1>2, <1>6 DEF vars, machineVars, storeVars
<1> QED
  BY <1>3, <1>4, <1>5, <1>6 DEF Next

(***************************************************************************)
(* With one library page open, and until a call fails, the deletion of a   *)
(* selection empties the library only if the phrase was typed, whatever    *)
(* the script adds or changes between the moment the dialog compared the   *)
(* selection with the listing and the moment the server deletes.           *)
(***************************************************************************)
THEOREM WholeLibraryAlwaysNeedsPhrase == OnePage => (Spec => WholeLibraryNeedsPhrase)
<1> SUFFICES ASSUME OnePage PROVE Spec => WholeLibraryNeedsPhrase
  OBVIOUS
<1> DEFINE Typed(l) == (/\ NothingFailed
                        /\ In(l, {"DeletingSelectedWords"})
                        /\ Given(words) # {}
                        /\ Given(words') = {}) => page[l].phrase
<1>1. ASSUME VocabularyInv, FreshInv, [Next]_vars PROVE \A l \in LibraryPages : Typed(l)
  <2> SUFFICES ASSUME NEW l \in LibraryPages, NothingFailed,
                      page[l].state = "DeletingSelectedWords",
                      Given(words) # {}, Given(words') = {}, ~page[l].phrase
               PROVE  FALSE
    BY DEF In
  <2>1. MutationApplied(l)
    BY <1>1, WordsLeave DEF OnePage
  <2>2. Fresh(l) /\ Coherent(page[l]) /\ MachineInv
    BY <1>1 DEF FreshInv, VocabularyInv, PagesWait, MachineInv
  <2>3. PICK ids \in SUBSET WordIds : ids = page[l].pending /\ DeleteWords(ids)
    BY <2>1, <2>2, FirstRequest DEF Deleting
  <2>4. page[l].pending # Given(page[l].listed)
    BY <2>2 DEF Coherent
  <2>5. page[l].pending \subseteq Given(page[l].listed) /\ Given(page[l].listed) \subseteq Given(words)
    BY <2>1, <2>2 DEF Fresh, Selection, Current, MutationApplied
  <2>6. PICK w \in WordIds : words[w] # None /\ w \notin ids
    BY <2>3, <2>4, <2>5 DEF Given
  <2>7. words'[w] # None
    BY <2>3, <2>6 DEF DeleteWords
  <2> QED
    BY <2>7 DEF Given
<1>2. VocabularyInv /\ FreshInv /\ [Next]_vars => [\A l \in LibraryPages : Typed(l)]_vars
  BY <1>1
<1>3. WholeLibraryNeedsPhrase <=> [][\A l \in LibraryPages : Typed(l)]_vars
  BY DEF WholeLibraryNeedsPhrase
<1> HIDE DEF Typed
<1> QED
  BY <1>2, <1>3, VocabularyInvariant, FreshInvariant, PTL DEF Spec

(***************************************************************************)
(* With one library page open, and until a call fails, a run of the        *)
(* script that reports success left every word it inserted in the library  *)
(* and with a memory row: the read-back asks for the words only, and the   *)
(* one way to bring a word back without its row is the script's own.       *)
(***************************************************************************)
THEOREM VerifiedAlwaysStored == OnePage => (Spec => VerifiedIsStored)
<1> SUFFICES ASSUME OnePage PROVE Spec => VerifiedIsStored
  OBVIOUS
<1> DEFINE Stored == (NothingFailed /\ script.step = "verify" /\ script'.report = "verified") =>
                        \A w \in Given(script.plan) :
                           Exists(w) /\ (script.kind = "addWords" => states[w] # None)
<1>1. ASSUME VocabularyInv, FreshInv, [Next]_vars PROVE Stored
  <2> SUFFICES ASSUME NothingFailed, script.step = "verify", script'.report = "verified",
                      NEW w \in Given(script.plan)
               PROVE  Exists(w) /\ (script.kind = "addWords" => states[w] # None)
    OBVIOUS
  <2>1. script.report # "verified"
    BY <1>1, ReportAssumption DEF VocabularyInv, ScriptControl
  <2>2. ScriptStep
    BY <1>1, <2>1 DEF Next, PageStep, StrayStep, vars
  <2>3. ScriptVerifies
    BY <2>2 DEF ScriptStep, ScriptNext, ScriptRuns, PlanAddWords, PlanAddExamples,
                PlanReplaceExamples, ScriptWrites, ScriptCallLost, Idle
  <2>4. ReadsBack
    BY <2>3 DEF ScriptVerifies, Idle
  <2>5. Exists(w)
    BY <2>4 DEF ReadsBack
  <2> QED
    BY <1>1, <2>5 DEF FreshInv, Vouched
<1>2. VocabularyInv /\ FreshInv /\ [Next]_vars => [Stored]_vars
  BY <1>1
<1>3. VerifiedIsStored <=> [][Stored]_vars
  BY DEF VerifiedIsStored
<1> HIDE DEF Stored
<1> QED
  BY <1>2, <1>3, VocabularyInvariant, FreshInvariant, PTL DEF Spec
===============================================================================
