-------------------------------- MODULE Library --------------------------------
(***************************************************************************)
(* The library page's operations on the store: the actor sources of        *)
(* packages/machines/src/library-machine.ts.  Each is one effect at a time *)
(* per page: list the words, decide, send one mutation (importExamples     *)
(* sends one per word, in turn), list the words again.  The mutations      *)
(* carry whole rows copied from the first listing.                         *)
(***************************************************************************)
EXTENDS D1Store, SequencesExt

CONSTANTS
    LibraryPages,  \* operations that may be under way at once
    Jobs           \* the operations the learner may ask for, a subset of Job

(***************************************************************************)
(* What an operation is given: the ids selected, the spelling of the word  *)
(* acted on, the spellings typed or imported, the examples imported.       *)
(***************************************************************************)
JobKinds == {"saveWordEntry", "importWordEntries", "updateWordEntry", "archive", "restore",
             "deleteWordEntry", "deleteSelectedWordEntries", "deleteAllWordEntries",
             "importExampleEntries"}

Job == [kind: JobKinds, ids: SUBSET WordIds, from: Texts \cup {None},
        texts: SUBSET Texts, added: SUBSET Examples]

ASSUME JobsAssumption == Jobs \subseteq Job
ASSUME FiniteLibrary == IsFiniteSet(WordIds)   \* UUIDs have 128 bits

VARIABLES
    job,        \* page -> the operation under way, or None
    jobStep,    \* page -> "idle", "list", "write" or "reload"
    queue       \* page -> mutations still to send, the first one sent

libraryVars == <<job, jobStep, queue>>

\* mutant: spellings are compared with their furigana
SameText(w, t) == words[w].text = t

SamePlain(w, t) == PlainText[words[w].text] = PlainText[t]
Known(t) == \E w \in WordIds : Exists(w) /\ SamePlain(w, t)

Listing(l, kinds) == jobStep[l] = "list" /\ job[l].kind \in kinds

(***************************************************************************)
(* An operation that adds words is begun only with an id in hand for every *)
(* spelling: that is the bound on crypto.randomUUID.  The ids of the other *)
(* operations are selected among words that were there.                    *)
(***************************************************************************)
Adding == {"saveWordEntry", "importWordEntries"}
Reserved == UNION {job[l].ids : l \in {k \in LibraryPages : Listing(k, Adding)}}

Instances(j) ==
    IF j.kind \in Adding
    THEN {[j EXCEPT !.ids = ids] : ids \in
            {i \in SUBSET (WordIds \ (usedIds \cup Reserved)) : Cardinality(i) = Cardinality(j.texts)}}
    ELSE {k \in {j} : j.ids \subseteq usedIds}

Start(l, asked) ==
    /\ jobStep[l] = "idle"
    /\ \E j \in Instances(asked) :
         /\ job' = [job EXCEPT ![l] = j]
         /\ IF j.kind = "deleteAllWordEntries"
            THEN /\ jobStep' = [jobStep EXCEPT ![l] = "write"]
                 /\ queue' = [queue EXCEPT ![l] = <<[op |-> "deleteWords", ids |-> WordIds]>>]
            ELSE /\ jobStep' = [jobStep EXCEPT ![l] = "list"]
                 /\ UNCHANGED queue
    /\ UNCHANGED storeVars

\* The mutations are decided; without any, only the listing is refreshed.
Send(l, requests) ==
    /\ queue' = [queue EXCEPT ![l] = requests]
    /\ jobStep' = [jobStep EXCEPT ![l] = IF requests = <<>> THEN "reload" ELSE "write"]
    /\ UNCHANGED job

Finish(l) ==
    /\ job' = [job EXCEPT ![l] = None]
    /\ jobStep' = [jobStep EXCEPT ![l] = "idle"]
    /\ queue' = [queue EXCEPT ![l] = <<>>]

NewWord(t, examples) == [text |-> t, archived |-> FALSE, examples |-> examples, createdAt |-> clock]

(***************************************************************************)
(* saveWordEntry, importWordEntries: spellings not in the library yet, one *)
(* fresh id each.  Of the imported spellings that read the same only the   *)
(* first is looked at.  Imported words bring their examples along.         *)
(***************************************************************************)
Unrepeated(ts) ==
    {us \in SUBSET ts :
        /\ \A s, t \in us : s # t => PlainText[s] # PlainText[t]
        /\ \A t \in ts : \E s \in us : PlainText[s] = PlainText[t]}

NewRows(new, j) ==
    {rows \in [WordIds -> {NewWord(t, j.added) : t \in new} \cup {None}] :
        /\ Given(rows) \subseteq j.ids
        /\ \A t \in new : \E w \in j.ids : rows[w] = NewWord(t, j.added)
        /\ Cardinality(Given(rows)) = Cardinality(new)}

AddWords(l) ==
    /\ Listing(l, Adding)
    /\ \E ts \in Unrepeated(job[l].texts) :
         LET new == {t \in ts : ~Known(t)}
         IN  /\ job[l].kind = "importWordEntries" \/ new # {}
             /\ \E rows \in NewRows(new, job[l]) :
                  /\ Send(l, IF new = {} THEN <<>> ELSE <<[op |-> "insertWords", rows |-> rows]>>)
                  /\ usedIds' = usedIds \cup Given(rows)
    /\ UNCHANGED <<nextEvent, clock>>
    /\ UNCHANGED tables
    /\ UNCHANGED channel

(***************************************************************************)
(* updateWordEntry.  Among words of the same spelling the code takes the   *)
(* most recently updated one, which the model leaves open.                 *)
(***************************************************************************)
Clashes(j, t) ==
    /\ t # j.from
    /\ \E w \in WordIds : Exists(w) /\ words[w].text # j.from /\ SamePlain(w, t)

UpdateWordEntry(l) ==
    /\ Listing(l, {"updateWordEntry"})
    /\ \E w \in WordIds, t \in job[l].texts :
         /\ Exists(w)
         /\ words[w].text = job[l].from
         /\ ~Clashes(job[l], t)
         /\ Send(l, <<[op |-> "updateWords",
                       rows |-> [NoRows EXCEPT ![w] = [words[w] EXCEPT !.text = t]]]>>)
    /\ UNCHANGED storeVars

\* changeWordArchive: rows already as asked are left out of the batch.
ChangeWordArchive(l) ==
    /\ Listing(l, {"archive", "restore"})
    /\ \A w \in job[l].ids : Exists(w)
    /\ LET archived == job[l].kind = "archive"
       IN  Send(l, <<[op |-> "updateWords",
                      rows |-> [w \in WordIds |->
                                  IF w \in job[l].ids /\ words[w].archived # archived
                                  THEN [words[w] EXCEPT !.archived = archived]
                                  ELSE None]]>>)
    /\ UNCHANGED storeVars

DeleteWordEntry(l) ==
    /\ Listing(l, {"deleteWordEntry"})
    /\ \E w \in WordIds :
         /\ Exists(w)
         /\ words[w].text = job[l].from
         /\ Send(l, <<[op |-> "deleteWords", ids |-> {w}]>>)
    /\ UNCHANGED storeVars

DeleteSelectedWordEntries(l) ==
    /\ Listing(l, {"deleteSelectedWordEntries"})
    /\ \A w \in job[l].ids : Exists(w)
    /\ Send(l, <<[op |-> "deleteWords", ids |-> job[l].ids]>>)
    /\ UNCHANGED storeVars

(***************************************************************************)
(* importExampleEntries: every spelling is looked up once, and the word    *)
(* found, if it is active and lacks some of the examples, gets them in a   *)
(* mutation of its own.  All rows are copied from the one listing.         *)
(***************************************************************************)
Lookups(ts) ==
    {found \in [{PlainText[t] : t \in ts} -> WordIds \cup {None}] :
        \A plain \in DOMAIN found :
            LET spelt == {w \in WordIds : Exists(w) /\ PlainText[words[w].text] = plain}
            IN  IF spelt = {} THEN found[plain] = None ELSE found[plain] \in spelt}

Lacking(w, added) == Active(w) /\ ~(added \subseteq words[w].examples)

EnrichRequest(w, added) ==
    [op |-> "updateWords",
     rows |-> [NoRows EXCEPT ![w] = [words[w] EXCEPT !.examples = @ \cup added]]]

ImportExampleEntries(l) ==
    /\ Listing(l, {"importExampleEntries"})
    /\ \E found \in Lookups(job[l].texts) :
         LET targets == {w \in WordIds : Lacking(w, job[l].added)
                                          /\ \E plain \in DOMAIN found : found[plain] = w}
         IN  \E order \in SetToSeqs(targets) :
                Send(l, [i \in DOMAIN order |-> EnrichRequest(order[i], job[l].added)])
    /\ UNCHANGED storeVars

\* The operation does not apply to the words it listed: nothing is sent.
Refused(j) ==
    \/ j.kind = "saveWordEntry" /\ \A t \in j.texts : Known(t)
    \/ /\ j.kind = "updateWordEntry"
       /\ \/ \A w \in WordIds : Exists(w) => words[w].text # j.from
          \/ \A t \in j.texts : Clashes(j, t)
    \/ /\ j.kind \in {"archive", "restore", "deleteSelectedWordEntries"}
       /\ \E w \in j.ids : ~Exists(w)
    \/ j.kind = "deleteWordEntry" /\ \A w \in WordIds : Exists(w) => words[w].text # j.from

RefuseJob(l) ==
    /\ jobStep[l] = "list"
    /\ Refused(job[l])
    /\ Finish(l)
    /\ UNCHANGED storeVars

(***************************************************************************)
(* Sending.  No library mutation can violate a key: ids are fresh.         *)
(***************************************************************************)
MutationApplied(l) ==
    /\ jobStep[l] = "write"
    /\ Commit(Head(queue[l]))
    /\ queue' = [queue EXCEPT ![l] = Tail(queue[l])]
    /\ jobStep' = [jobStep EXCEPT ![l] = IF Tail(queue[l]) = <<>> THEN "reload" ELSE "write"]
    /\ UNCHANGED job
    /\ UNCHANGED channel
    /\ UNCHANGED supplies

\* _loadLibraryData after the mutations.
Reloaded(l) ==
    /\ jobStep[l] = "reload"
    /\ Finish(l)
    /\ UNCHANGED storeVars

\* A call fails or the page is closed: the rest of the queue is never sent.
LibraryCallLost(l) ==
    /\ jobStep[l] # "idle"
    /\ Disturb
    /\ Finish(l)
    /\ stray' = IF jobStep[l] = "write" THEN stray \cup {Head(queue[l])} ELSE stray
    /\ UNCHANGED tables
    /\ UNCHANGED supplies

(***************************************************************************)
(* Specification parts.                                                    *)
(***************************************************************************)
LibraryInit ==
    /\ job = [l \in LibraryPages |-> None]
    /\ jobStep = [l \in LibraryPages |-> "idle"]
    /\ queue = [l \in LibraryPages |-> <<>>]

LibraryRuns(l) ==
    \/ AddWords(l) \/ UpdateWordEntry(l) \/ ChangeWordArchive(l) \/ DeleteWordEntry(l)
    \/ DeleteSelectedWordEntries(l) \/ ImportExampleEntries(l) \/ RefuseJob(l)
    \/ MutationApplied(l) \/ Reloaded(l)

LibraryNext(l) == LibraryRuns(l) \/ LibraryCallLost(l)

LibraryTypeOK ==
    /\ job \in [LibraryPages -> Job \cup {None}]
    /\ jobStep \in [LibraryPages -> {"idle", "list", "write", "reload"}]
    /\ queue \in [LibraryPages -> Seq(InsertRequest \cup UpdateRequest \cup DeleteRequest)]
==============================================================================
