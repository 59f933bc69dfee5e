----------------------------- MODULE LegacyUpgrade -----------------------------
(***************************************************************************)
(* Opening the browser's database: the versions of packages/indexeddb/src/ *)
(* database.ts and the transformation of legacy-migration.ts, before the   *)
(* store is used.  An upgrade from any version is ONE versionchange        *)
(* transaction: when the tab is closed or a request fails before it        *)
(* commits, the database is as it was, and the next opening starts again.  *)
(***************************************************************************)
EXTENDS BrowserStore

CONSTANTS
    LegacyTimes,      \* when legacy submissions were made
    MaxSubmissions    \* bound on their number

ASSUME LegacyAssumption == LegacyTimes \subseteq Nat /\ MaxSubmissions \in Nat

VARIABLES
    version,     \* the database's version, 0 before it exists
    stores,      \* its object stores
    legacy,      \* what the legacy stores hold
    before,      \* while an upgrade runs, the database it would roll back to
    original     \* history: the database to begin with

upgradeVars == <<version, stores, legacy, before, original>>

(***************************************************************************)
(* A legacy word is its spelling.  A submission names the spelling it was  *)
(* for; `right' is its result or, when it has none, whether what was       *)
(* submitted reads as the word.                                            *)
(***************************************************************************)
Submission == [id: 1 .. MaxSubmissions, text: Texts, right: BOOLEAN, at: LegacyTimes]

\* Any number of submissions up to the bound, their ids in no order of time.
Submissions ==
    UNION {{{[id |-> i, text |-> f[i].text, right |-> f[i].right, at |-> f[i].at] : i \in 1 .. n}
              : f \in [1 .. n -> [text: Texts, right: BOOLEAN, at: LegacyTimes]]}
           : n \in 0 .. MaxSubmissions}

Legacy == [words: SUBSET Texts, submissions: Submissions]
NoLegacy == [words |-> {}, submissions |-> {}]

Removed == {"practice_imports", "practice_attempts", "kanji_entries"}
LegacyStores == {"word_entries", "word_practice_submissions", "word_practice_batches"}
CurrentStores == {"words", "word_memory_states", "word_practice_events"}
LegacyStates == {"word_practice_states"}

(***************************************************************************)
(* buildVersion5Data.                                                      *)
(***************************************************************************)
\* mutant: in the order of their ids
PrecedesById(r, s) == r.id < s.id

\* By time; the sort is stable and the store is read in the order of ids.
Precedes(r, s) == r.at < s.at \/ (r.at = s.at /\ r.id < s.id)

\* The submissions for a spelling, sorted.
Replayed(t) ==
    LET mine == {s \in legacy.submissions : s.text = t}
        rank(s) == Cardinality({r \in mine : Precedes(r, s)}) + 1
    IN  [i \in 1 .. Cardinality(mine) |-> CHOOSE s \in mine : rank(s) = i]

Rating(s) == IF s.right THEN "good" ELSE "again"

CardAfter(t, n) ==
    LET submissions == Replayed(t)
        after[i \in 0 .. n] ==
            IF i = 0 THEN InitialCard(0)
            ELSE DeterministicPracticeResult(after[i - 1], "scheduled", submissions[i].at,
                                             Rating(submissions[i]))
    IN  after[n]

MigratedEvents(t, w) ==
    {LET s == Replayed(t)[i]
     IN  [id |-> s.id, word |-> w, reviewedAt |-> s.at, rating |-> Rating(s),
          kind |-> "scheduled", stage |-> "contextRecall", movedTo |-> None,
          nextDueAt |-> CardAfter(t, i).due] : i \in DOMAIN Replayed(t)}

MigratedRow(t) ==
    LET mine == {s \in legacy.submissions : s.text = t}
        n == Cardinality(mine)
        right == Cardinality({s \in mine : s.right})
    IN  [stage |-> "contextRecall", stageAttempts |-> n, failureStreak |-> 0,
         masteryStreak |-> 0, card |-> CardAfter(t, n),
         attempts |-> n, correct |-> right, incorrect |-> n - right]

\* Every legacy word gets an id of its own.  The tables are made anew, and what current
\* stores held is gone; submissions for spellings that are no word are left behind.
Build(idOf) ==
    LET spelt(w) == CHOOSE t \in legacy.words : idOf[t] = w
        ids == {idOf[t] : t \in legacy.words}
    IN  /\ words' = [w \in WordIds |->
                       IF w \in ids
                       THEN [text |-> spelt(w), archived |-> FALSE, examples |-> {}, createdAt |-> 0]
                       ELSE None]
        /\ states' = [w \in WordIds |-> IF w \in ids THEN MigratedRow(spelt(w)) ELSE None]
        /\ events' = UNION {MigratedEvents(t, idOf[t]) : t \in legacy.words}
        /\ saved' = events'
        /\ usedIds' = usedIds \cup ids
        /\ nextEvent' = MaxSubmissions + 1
        /\ UNCHANGED <<archivedFrom, deleted>>

(***************************************************************************)
(* The upgrade.                                                            *)
(***************************************************************************)
Upgrading == before # None

Database == [version |-> version, stores |-> stores, legacy |-> legacy,
             words |-> words, states |-> states, events |-> events, saved |-> saved,
             usedIds |-> usedIds, nextEvent |-> nextEvent]

OpenDatabase ==
    /\ ~Upgrading
    /\ version < 6
    /\ \A s \in legacy.submissions : s.at <= clock   \* they were made before
    /\ before' = Database
    /\ UNCHANGED <<version, stores, legacy, original>>
    /\ UNCHANGED browserVars

\* mutant: version 3 leaves the stores of the removed features
SchemaStepsKeepingRemoved ==
    <<[add |-> {"word_entries", "word_practice_submissions"}, drop |-> {}],
      [add |-> {"word_practice_batches"}, drop |-> {}],
      [add |-> {}, drop |-> {}],
      [add |-> LegacyStates, drop |-> {}],
      [add |-> {}, drop |-> {}]>>

\* migrateToVersion2 to migrateToVersion5, and the first version's init.
SchemaSteps ==
    <<[add |-> {"word_entries", "word_practice_submissions"}, drop |-> {}],
      [add |-> {"word_practice_batches"}, drop |-> {}],
      [add |-> {}, drop |-> Removed],
      [add |-> LegacyStates, drop |-> {}],
      [add |-> {}, drop |-> {}]>>

UpgradeSchema ==
    /\ Upgrading
    /\ version < 5
    /\ version' = version + 1
    /\ stores' = (stores \cup SchemaSteps[version + 1].add) \ SchemaSteps[version + 1].drop
    /\ UNCHANGED <<legacy, before, original>>
    /\ UNCHANGED browserVars

\* migrateToVersion6.  Some stores of each kind but not all were never released.
MigrateToVersion6 ==
    /\ Upgrading
    /\ version = 5
    /\ version' = 6
    /\ \/ /\ LegacyStores \subseteq stores
          /\ \E idOf \in [legacy.words -> WordIds \ usedIds] :
               /\ \A s, t \in legacy.words : s # t => idOf[s] # idOf[t]
               /\ Build(idOf)
          /\ stores' = (stores \ (LegacyStores \cup LegacyStates)) \cup CurrentStores
          /\ legacy' = NoLegacy
       \/ /\ ~(LegacyStores \subseteq stores)
          /\ CurrentStores \subseteq stores
          /\ UNCHANGED <<stores, legacy, tables, usedIds, nextEvent>>
    /\ UNCHANGED <<channel, clock, decided, before, original>>

CommitUpgrade ==
    /\ Upgrading
    /\ version = 6
    /\ before' = None
    /\ UNCHANGED <<version, stores, legacy, original>>
    /\ UNCHANGED browserVars

\* The tab is closed or a request fails: IndexedDB rolls back.
UpgradeAborted ==
    /\ Upgrading
    /\ version' = before.version
    /\ stores' = before.stores
    /\ legacy' = before.legacy
    /\ words' = before.words
    /\ states' = before.states
    /\ events' = before.events
    /\ saved' = before.saved
    /\ usedIds' = before.usedIds
    /\ nextEvent' = before.nextEvent
    /\ before' = None
    /\ UNCHANGED <<archivedFrom, deleted, channel, clock, decided, original>>

(***************************************************************************)
(* Databases the released versions leave behind.  Version 5 was released   *)
(* with the current stores, beside which legacy stores may have remained;  *)
(* the current ones may have been in use.                                  *)
(***************************************************************************)
StoresOf(v) ==
    CASE v = 0 -> {{}}
      [] v = 1 -> {{"word_entries", "word_practice_submissions"},
                   {"word_entries", "word_practice_submissions"} \cup Removed}
      [] v = 2 -> {LegacyStores, LegacyStores \cup Removed}
      [] v = 3 -> {LegacyStores}
      [] v = 4 -> {LegacyStores \cup LegacyStates}
      [] v = 5 -> {LegacyStores \cup LegacyStates, CurrentStores,
                   LegacyStores \cup LegacyStates \cup CurrentStores}

\* Without the current stores there are no rows in them.
UpgradeInit ==
    /\ version \in 0 .. 5
    /\ stores \in StoresOf(version)
    /\ legacy \in IF "word_entries" \in stores THEN Legacy ELSE {NoLegacy}
    /\ before = None
    /\ StoreInit
    /\ (\E w \in WordIds : Exists(w)) => CurrentStores \subseteq stores
    /\ decided = 0
    /\ original = Database

-------------------------------------------------------------------------------
vars == <<browserVars, upgradeVars>>

Init == UpgradeInit

UpgradeStep ==
    OpenDatabase \/ UpgradeSchema \/ MigrateToVersion6 \/ CommitUpgrade \/ UpgradeAborted

\* No query runs before the database is open.
InUse == version = 6 /\ ~Upgrading

UseStep ==
    /\ InUse
    /\ StoreUsed
    /\ UNCHANGED upgradeVars

TimePasses == Tick /\ UNCHANGED <<decided, upgradeVars>>

Next == UpgradeStep \/ UseStep \/ TimePasses

Spec == Init /\ [][Next]_vars

TypeOK ==
    /\ StoreTypeOK
    /\ decided \in 0 .. MaxRequests
    /\ version \in 0 .. 6
    /\ stores \subseteq Removed \cup LegacyStores \cup LegacyStates \cup CurrentStores
    /\ version = 6 => stores = CurrentStores
    /\ legacy \in Legacy /\ original.legacy \in Legacy

\* The database as the next opening would find it.
OnDisk == IF Upgrading THEN before ELSE Database

\* A word and its history as the tables tell them, against the legacy stores.
Carried(t, w, db) ==
    LET mine == {e \in db.events : e.word = w}
        theirs == {s \in original.legacy.submissions : s.text = t}
        row == db.states[w]
    IN  /\ db.words[w] # None /\ db.words[w].text = t
        /\ {[id |-> e.id, at |-> e.reviewedAt, right |-> IsCorrect(e.rating)] : e \in mine}
             = {[id |-> s.id, at |-> s.at, right |-> s.right] : s \in theirs}
        /\ row # None
        /\ WellFormed(row)
        /\ row.attempts = Cardinality(theirs)
        /\ row.correct = Cardinality({s \in theirs : s.right})
        /\ mine # {} => row.card.due \in
             {e.nextDueAt : e \in {d \in mine : \A f \in mine : f.reviewedAt <= d.reviewedAt}}

\* Every legacy word is there with its history, and nothing but legacy words.
CarriedOver(db) ==
    /\ \A t \in original.legacy.words : \E w \in WordIds : Carried(t, w, db)
    /\ \A w \in WordIds : db.words[w] # None => db.words[w].text \in original.legacy.words

\* The current tables hold what they held.
LeftAlone(db) ==
    db.words = original.words /\ db.states = original.states /\ db.events = original.events

(***************************************************************************)
(* However often an upgrade is cut short, until the store is used the      *)
(* database is either as it was or upgraded as a whole.  Where there were  *)
(* legacy stores, every word of theirs has been carried over with the      *)
(* submissions for it, the counters they give and the due date the last of *)
(* them names, and it replaces whatever current stores beside them held;   *)
(* where there were none, the current tables are left alone.               *)
(***************************************************************************)
UpgradedAsAWhole ==
    decided = 0 =>
        \/ OnDisk = original
        \/ /\ OnDisk.version = 6
           /\ IF "word_entries" \in original.stores THEN CarriedOver(OnDisk) ELSE LeftAlone(OnDisk)

(***************************************************************************)
(* The store in the browser is the store of the server to whoever reads    *)
(* the rows of the words it lists: every transaction is a batch the server *)
(* would run, leaving out the rows of words that are gone, or changes      *)
(* nothing that is seen.  An update decided before its word was deleted is *)
(* the exception: it brings back rows that were left behind.               *)
(***************************************************************************)
ActsAsServer ==
    [][InUse => Resurrects \/ \E q \in stray : Server!Commit(Trimmed(q))]_<<words, SeenStates, SeenEvents>>
==============================================================================
