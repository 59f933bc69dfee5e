# Immersion practice: verification project

TLA+ models of the Japanese immersion practice application, checked with TLC,
and theorems about them proved with TLAPS. Paths below are relative to the
repository. Every definition that stands for code is listed with its lines in
`PROJECT.json` under `map`.

## 1. The system

A learner keeps a library of Japanese words. Each word climbs a ladder of three
stages (recognition, meaning recall, context recall), and within a stage a
spaced-repetition scheduler decides when it comes back. Web pages run state
machines whose effects call a store on a server; the server keeps three SQL
tables.

| component | state it keeps | operations | correct when |
|---|---|---|---|
| scheduler, `packages/services/src/word-memory-scheduler.ts` | none (a memory card is its argument) | `initialCard`, `applyPracticeResult` (fuzzed), `applyDeterministicPracticeResult` | extra reviews that succeed leave the schedule alone; a replay agrees with the live schedule when nothing was fuzzed |
| ladder, `word-practice-stage.ts` | none | `transitionAfterRating` | a word moves only on the strength of the right answers; a move resets streaks and card |
| selection, `word-session-selection.ts` | none of consequence | `selectNextWord` | learning words first, then reviews, then new words; nothing that is not due |
| replay, `word-memory-recalculation.ts` | none | `replayPracticeHistory` | ties and early reviews give what the live scheduler gave |
| server store, `apps/server/src/d1-store.ts` + migrations | `words`, `word_memory_states`, `word_practice_events` | insert, update, delete of words, `replaceMemoryStates`, `savePracticeResult`, reads | each mutation is one atomic batch; rows and events never outlive their word |
| store RPC, `packages/data/src/store-rpc.ts`, `apps/client/src/lib/runtime-client.ts` | requests on their way | one request per store operation | a lost answer does no harm a retry cannot live with |
| practice page, `packages/machines/src/practice-overview-machine.ts`, `apps/client/src/routes/practice.tsx` | current item with a COPY of its memory row, answer visibility, rating, message | load, reveal, rate, refresh | the row it writes is one the answers can have produced; it never hangs |
| word memory machine, `word-memory-machine.ts` | preview, notice | load, preview, confirm, apply | a recalculation changes schedules and nothing else |
| library machine, `library-machine.ts` | listing, selection, dialogs | nine effects that change the store, listing, export | no duplicate spellings, deletions are final, words always have a memory row |
| history machine, `word-practice-history-machine.ts` | summaries, query and matches, selected word and its attempts | load, search, show more, open and close a word | what is shown belongs together although calls end late and the store changes |
| authentication, `apps/server/src/auth.ts`, `worker.ts` | none on the server; a cookie and a screen in the browser | login page, password, logout, guard of pages and calls | only a browser that signed in, lately and under the present secret, gets pages and answers; redirects end where the learner wanted to go |
| IndexedDB store, `packages/indexeddb` | the same three tables in a browser, and legacy stores before the upgrade | the same mutations; six versions and a transformation of legacy data | as the server store to readers who list words; an upgrade takes place as a whole or not at all |
| example rotation, `word-practice-presentation.ts` | none (the attempt counter of the row) | `selectExample` | no example twice in a row, all of them in every cycle |
| vocabulary script, `.agents/skills/manage-japanese-vocabulary` | its plan | list, plan, one mutation, read back | success is reported only of what is stored |
| furigana text, lint packages, client components | | pure functions, tools, rendering | |

How they interact: a page's effect makes store calls in sequence (`yield*`).
Each call is a step of its own, and other pages, other tabs and late requests
may run between two of them. No client transaction spans two calls. A page
copies a row at one call and writes it back whole several calls later. Nothing
on the server compares what it stores with what the client had read.

Hard behaviours: stale copies (two tabs, or a page and a recalculation); a save
whose response is lost, which leaves the learner with a button to press again;
requests that run after their page has given up; archive or delete between a
check and a write; multi-call operations that stop halfway; updates that are
upserts; a fuzzing scheduler against a deterministic replay; selections and
dialogs that outlive the listing they were made from; results of calls nobody
waits for any more; sessions that expire between two calls; an upgrade of the
browser's database that is cut short. `PROJECT.json`
lists these hazards at their lines with the properties that cover them, and says
which ones no property covers yet.

## 2. Modules

| module | models |
|---|---|
| `Scheduler` | memory cards and both ways to apply a rating; ts-fsrs itself is external |
| `PracticeStage` | `transitionAfterRating` |
| `PracticeRecords` | stored rows, the row and the event an answer makes, well-formed rows |
| `D1Store` | tables, atomic batches, keys and cascades, the request channel, selection of the next word, time |
| `Practice` | the practice page, one action per event and per store call |
| `Recalculation` | `replayPracticeHistory` |
| `RecalculatedRows` | the rows a recalculation writes, given the events and rows it read |
| `Memory` | the word memory machine with preview and application |
| `Library` | the nine mutating operations of the library |
| `PracticeLedger` | ABSTRACT: rows and a log of answers, an answer being one atomic step |
| `Immersion` | the composition: pages in tabs over one store, fairness, properties, refinement mapping |
| `ExampleRotation` | `selectExample` for any shuffle, over the counters the ledger produces |
| `LibraryMachine` | the library page: states, selection, dialogs, confirmations, errors, around `Library` |
| `VocabularyScript` | the command line tool over the same store |
| `Vocabulary` | library page and script together |
| `HistoryMachine` | the history page, one action per event and per store call, with the loads nobody awaits |
| `Session` | `authenticateRequest`, one action per answer, and one browser with cookie, redirects and clock |
| `HistoryPage` | the history page behind the sign-in, and any number of other pages that load, decide and send mutations later |
| `BrowserStore` | the IndexedDB store's transactions and the clients that decide on them; refinement mapping to `D1Store` |
| `LegacyUpgrade` | versions 0 to 6 of the browser's database, the legacy transformation, interruption |
| `MCLedger`, `MCImmersion`, `MCVocabulary`, `MCHistoryPage`, `MCBrowser` | constants and symmetries for TLC |
| `PracticeRecords_proofs`, `Library_proofs` | lemmas: rows, replays, induction; batches of the store, operations of the library |
| `PracticeLedger_proofs`, `Immersion_proofs`, `OneTab_proofs`, `HistoryPage_proofs`, `Vocabulary_proofs`, `LegacyUpgrade_proofs` | theorems, one module per state machine; `OneTab_proofs` is about `Immersion` used one page at a time |

State and code:

- `words`, `states`, `events` (D1Store) are the three tables. `None` is a missing
  row. `saved`, `archivedFrom` and `deleted` are history variables that no action
  reads except to update them.
- `machine` (Practice) is the state node of the XState machine; `step` says which
  store call the running effect makes next: `check` and `save` belong to
  `submitPracticeAnswer`, `pool`, `words` and `getWord` to `_loadNextPracticeItem`.
  `loadWordSelectionPool` is two SQL statements, so it is two steps here.
- `memory`/`memoryStep` do the same for the memory machine. `memoryStep` is idle
  while the page merely loads, since that effect only displays.
- `job`/`jobStep`/`queue` (Library) are one operation under way: list, decide, send
  one mutation or several, list again. A `LibraryPages` element is an operation
  under way, not a screen.
- `stray` (D1Store) holds mutations nobody waits for: their response was lost or
  their page was closed. The server may run one later (`LateCommit`) or never.
  Requests are never sent twice by the client itself: a repeated answer is a new
  request with a new event id, as in the code.
- In-app navigation does not interrupt an effect (`runtime.runPromise` is given
  no abort signal). An effect left behind this way behaves like one in another tab,
  so the runs with several pages cover it.
- `page` (LibraryMachine) is the context and state of the library machine. An
  operation is fixed when it is invoked (`Start` of `Library`); the machine takes
  over the listing of the operations that succeed only. The two typed
  confirmations of the machine are one field, since opening a dialog clears its own.
- `script` (VocabularyScript) is one run of the tool with `--apply`.
- `flights` (HistoryMachine) are `loadWordAttempts` effects. Closing the word stops
  their actor but not their calls: they run to their end and their result is ignored.
- `jar`, `asking`, `screen` (Session) are the browser's cookie, the request it waits
  for and what it shows; `secret` is the deployment's. A session is its expiry in whole
  seconds and the secret that signed it. A location is a page reached through a number of
  login pages, since `_safeNext` accepts `/login?next=/login?next=...` at any depth
  (`Location`, `LoginPage`, `NextOf`).
- `items`, `elsewhere` (HistoryPage) are what other pages have loaded for practice, and
  how many of their loads and decisions the bound has counted. An answer is computed from the
  row of an item loaded any time before, may be given twice, and travels as a request in
  `stray`, which the server runs later or never; recalculations and changes of the library
  travel in the same way. `overwritten` records the words one of whose rows was replaced
  by one computed without the last answer.
- `version`, `stores`, `legacy` (LegacyUpgrade) are the database; `before` is what the
  versionchange transaction would roll back to, `original` the database to begin with. At
  version 5 it has legacy stores, current ones, which may hold words, or both. A
  submission's `right` is its result or, when it has none, the comparison the code makes.
- `stray` in `BrowserStore` holds mutations a client has decided on and the database
  has not run, whoever the client is.
- `clock` is what every `DateTime.now` reads; the bounds on time, on answers and on
  failures are `MaxClock`, `MaxAnswers`, `MaxDisturbances`.

Abstractions. Stability, difficulty and intervals are reduced to a fixed
`ReviewDelay`, moved by up to `Fuzz` ticks in the live scheduler. Translations,
descriptions and `updatedAt` are dropped. Spellings are model values, and
`PlainText` says which of them read the same without furigana. Examples are model
values. Ties that the code breaks by id are left open. The pool limit of 64 and
the one millisecond grain of time are not reached by small instances. The practice page
only ever answers with kind `scheduled` because the pools it reads leave `extra`
empty; the ledger allows both kinds. `SendReplacement` asks that the replayed
rows be of the row type, which is the schema of the RPC.

No client route mounts the word memory machine at present: it is exported by
`packages/machines` and modelled because it is part of that package's interface.
Nor does a client import `@jip/indexeddb` at present: it is modelled because it
implements the same `Store` service, with a migration of real data.

In `HistoryPage` the learner leaves the history page before asking for another
document, but may sign out from it while its calls are under way. What other pages do
(`Elsewhere`) is call by call as far as it matters to what is stored: they read and decide in
one step and the mutation arrives in another. A practice item, which is kept for longer, is
loaded in a step of its own. The current tables begin with words and their first rows, no events;
so do those of the browser's database where it has them.

## 3. Runs

Deadlock is checked in every run but `browser_store`, which stops when the bound on
mutations and time is reached: none of the other models can stop.

| run | instance | shows |
|---|---|---|
| `ledger` | 1 word, 3 examples, 6 answers of any kind and rating | a demotion takes five answers from the start (two `easy`, three `again`) and a sixth follows it. Counts, stages and the log agree, every move was earned; every cycle being shuffled on its own, no example of two or three repeats or is left out of a cycle, swapped ones included |
| `one_tab` | 2 words (symmetric), 3 spellings of which two read the same, 1 page of each kind, all library jobs, 2 answers, fuzz 1, no failures | the application refines `PracticeLedger` when pages are used one after the other; spellings differ, deletions are final, every word can be scheduled |
| `replay` | 1 word, 5 answers, clock to 4, fuzz 0 | a word's schedule is always what replaying its history gives. With `Fuzz = 1` this does NOT hold (a review fuzzed to come earlier is replayed as extra); `recalculate` covers that case |
| `recalculate` | 1 word, practice and memory page in one tab, 5 answers, clock to 5, fuzz 1 | recalculations that do change schedules: each brings active words to what their history gives, as its confirmation announced, and the ledger is still refined |
| `tabs` | 2 practice pages (symmetric), 3 answers, 1 failure | stale rows in two tabs lose counts but never invent them, and never lift a word above what it earned |
| `races` | a page of each kind, 1 answer, 1 failure, fuzz 1, archiving, restoring and deleting | no orphans, no late answers but those under way, history is kept, and a recalculation that writes whole rows back invents no attempts |
| `library_page` | 2 words and 2 spellings (symmetric), 1 library page, 1 run of the script or 1 failed call | dialogs, selections and the whole-library phrase agree with the listing; every state waits for the operation it invoked; the script's read-back means what it reports |
| `history_page` | 2 words and 2 spellings (symmetric), 1 browser, 2 paths, login pages nested up to 2 deep, 2 secrets (symmetric), sessions of 1 second of 2 ticks, 2 loads of a word at a time, 3 of: a tick, a deployment, a failed call, a load or decision of another page, whose mutations arrive at any time | pages and answers only to who is signed in now, redirects end, signing in leads where the learner wanted to go, the list follows the search field, attempts belong to the open word, late results open nothing, the header's count is covered by the list but for words deleted or overwritten. An item loaded and rated twice uses up the 3: two events, and a row that counts one |
| `browser_store` | 3 ids, 2 spellings (symmetric), every released database version, current stores empty or in use beside legacy ones, up to 3 submissions at 2 times, then 2 mutations in flight | the database is as it was or upgraded as a whole, however often upgrades are cut short; the browser's store acts as the server's |
| `settle` | one tab, all jobs, 1 failure, fairness | pages do not stay busy for ever |
| `saved_notice` | 1 page, 1 failure | VIOLATED, see findings |
| `deleted_for_good` | 2 library operations at once | VIOLATED, see findings |

Each property of a passing run has a mutant in `PROJECT.json`: a definition of
the model with a plausible bug, under which TLC finds the property violated. The
mutated forms are the operators whose comment starts with "mutant".

Why the bounds suffice. Races in this code are between a copy and a write of one
word, so one word and two actors with two or three answers reach every order of
read, write, archive and delete. Two words are there where batches and spellings
matter. One disturbance already gives the lost save that is answered again and
then applied late. The lengths of histories follow the ladder: five answers reach
context recall, leave it or come back over several due dates; six go one answer beyond a
demotion. Three examples are the least that make the code's cycles, and six answers
cross two of their boundaries. `MaxExtras` bounds time, failures, deployments and what other
pages load and decide together, not each kind; the steps of the page itself are not
bounded. Two runs leave out states in which unrelated things happen at once
(`CONSTRAINT`): `Watched` keeps deployments, failures and visits to other locations than
the home page apart from what other pages do, and searches and abandoned loads apart from
the last of that; `Used` lets the browser's store be used with two words and two
submissions. The theorems of section 4 have no such restriction. Three submissions at two
times are ties, and times in the opposite order of the ids.

What some properties do not claim. `SelectionIsListed`, `WholeLibraryNeedsPhrase`
and `VerifiedIsStored` are claimed while no call has failed: after a failure the
operation may still be applied late, and the page goes on with the listing it had.
`VerifiedIsStored` claims for `addExamples` no more than the code reads back, the
NUMBER of examples of each word; the skill's description (`SKILL.md:90`) says that
every requested change is verified, which holds as long as nobody else changes the
examples of the same word at the same time. `RedirectsEnd` allows one redirect
for each login page in what was asked for, since a signed-in browser is sent through them one by
one, and one per change of secret. `TodayIsCovered` exempts words that were deleted, and words
with a row replaced by one that misses an answer: for those the header of the code may count
more than the list, since every page writes whole rows computed from the row it loaded, and a
repeated answer is logged twice. `UpgradedAsAWhole` speaks of legacy words and the submissions
for them. The migration drops submissions whose spelling is no word, and where legacy stores stand
beside current ones it deletes the current ones with whatever they hold (`database.ts:168-178`);
the property states that the legacy data takes their place.
`ActsAsServer` speaks of rows as readers see them who look up the rows of words
they list. Orphan rows do exist in the browser's store after an answer or a
recalculation that arrives after a deletion, and `list*` and
`countPracticeEventsBetween` return or count them. A recalculation that names a word
that is gone is rejected as a whole by the server, and applied for the other words
in the browser. An update that brings a deleted word back finds such rows again;
that step is exempted by name (`Resurrects`).

Symmetry is used only for words, spellings, secrets and pages that no constant distinguishes, and not
in the run with liveness.

Fairness (`FairSpec`): weak fairness of what the browser and the server do by
themselves, for every page. It says that a call made by an open page is eventually
answered or fails. This is an assumption about network and browser: the client
sets no timeout of its own. Nothing is assumed of the learner, of time, or of
stray requests.

## 4. What is proved

Every invariant and every action property of the passing runs is a theorem, and so are both
refinements. The proofs hold for all values of the
constants: any set of words, any number of tabs, answers, ticks, failures, sessions,
versions and submissions. They rest on the named ASSUMEs of the modules, which TLC evaluates
in the runs:

- numbers are numbers and delays are positive, with fuzz smaller than the delay it moves
  (`DelayAssumption`, `StageDelayAssumption`, `BoundsAssumption`, `AnswersAssumption`,
  `ExtrasAssumption`, `SecondsAssumption`, ...);
- absence is not a value (`NoneAssumption`, `WordIdsAssumption`, `AbsenceAssumption`,
  `EntryAssumption`, `ReportAssumption`, `NothingAssumption`, `HistoryAssumption`,
  `SummariesAssumption`);
- `PlainText` maps spellings to spellings, jobs are jobs, `/login` and `/logout` are not
  pages (`PlainTextAssumption`, `JobsAssumption`, `PathsAssumption`);
- there are finitely many word ids (`FiniteLibrary`, `SummariesAssumption`: UUIDs have 128
  bits).

Some theorems state more of what they need: `ExamplesAlwaysRotate` that examples and event
ids are finitely many, those of `OneTab_proofs` that the application is used with
patience (`Patient`: one page open at a time, no failed calls, no page closed while it is busy),
and three of `Vocabulary_proofs` that there is one library page (`OnePage`).

**Lemmas.** `PracticeRecords_proofs` shows that an answer takes a well-formed row to a
well-formed row: streaks stay under their thresholds because reaching a threshold moves the
word, which resets them. It also has the facts about recursive functions. They are proved by
induction in set form (`SetInduction`: a set of numbers with 0 and closed under successor has
all of them), so that a replay exists, unfolds event by event, and is unique where no two
events are of the same time (`ReplayUnfolds`, `OneReplay`). `Library_proofs` says what each
batch does to tables, keys, history and types, and what operations send; later proofs cite
these and do not open the batches.

**The ledger** (`PracticeLedger_proofs`). `LedgerCounts`, `LedgerStages`,
`LedgerLogConnected`: `LedgerInv` adds that the log is finite and that a word's stage is
the one its LAST answer left it in, which links the row, copied by the next event, with the
events before it. `LedgerMovesEarned`: `MovesInv` says what streak and failures of a row
stand for in the log, answer by answer since the last change of stage.
`ExamplesAlwaysRotate`: the stage attempts of the answers to a word count up one by one, so
two neighbours are neighbours in a cycle or lie on a boundary, where the code swaps; a
cycle is complete because the swap of two of its members leaves it a permutation. Each cycle's
order is arbitrary and independent of the others'.

**The application with any number of tabs** (`Immersion_proofs`). `TypeCorrect`
(`TypeInv` adds which step goes with which state and what a page in that step holds).
`StepCommits` says that tables change only by a batch that was in flight; `NoOrphansEver` and
`HistoryIsAlwaysKept` follow from the batches. `RowsAlwaysWellFormed`: every row anybody holds,
on screen, in a pool, read by a recalculation or in flight, is well formed.
`StagesAlwaysEarned` and `AttemptsNeverInvented` have the same shape with `EarnedInv`: a row
is earned by the answers saved so far, a request in flight by these and its own, and event ids
tell the two apart. `OnlyLateAnswersEver`: every answer to an archived word, logged or in
flight, was numbered before the archiving; the check and the numbering are one step.
`AnswersAlwaysStartHidden` is a property of every action.

**One tab used with patience** (`OneTab_proofs`). `OneTabInvariant` says that whatever the
open page has read and is about to write is what the store holds, and that a library mutation
fits the library. From it: `SpellingsAlwaysDiffer`, `DeletedStaysDeleted`,
`EveryWordAlwaysHasMemory`, and `LedgerImplemented`, the refinement: check and save of an
answer, calls apart, are one answer of the ledger. `LogAlwaysConnected` is the ledger's theorem
carried over by it. The findings of section 5 show that the hypothesis is needed. The last
three theorems are about replays. `TimelyInv` adds that every answer was given when its word
was due and put it off, that a page shows only what is due, and that a recalculation has read
and announced what it would do now. So no word has two answers of the same time,
`AlwaysAppliedAsPreviewed` holds because there is one replay, `RecalculationAlwaysTakes` because
cards in flight are those the stored events give, and, without fuzz,
`ScheduleAlwaysMatchesHistory` because the live scheduler makes the deterministic one's step.

**Sign-in and history page** (`HistoryPage_proofs`). `HistoryInv`: a cookie dates from
the last time the browser signed in; a request on its way leads to what was asked for; and
redirects run out, by a rank of the request the browser waits for (the login pages it still
leads through, and one more where it may be refused), which every redirect lowers and a
redeployment may raise by one. It gives `HistoryTypeCorrect`, `AlwaysBackWhereAsked`, `RedirectsAlwaysEnd`,
`FilterAlwaysCurrent`, `AttemptsAlwaysBelong`, and the action properties `WordsOpenedByLearner`
and `OnlyEverWhileSignedIn`. `TodayAlwaysCovered` needs what the store counts (`CoverInv`):
rows and events go with their words; the row of a word that was neither deleted nor overwritten
counts at least as many attempts as there are events of it, whatever arrives from pages that
loaded it earlier; and an event the page has read stays until its word is deleted. Then the
events of today are at most the attempts shown, word by word (`ShownCovers`) and in sum (`SumExists`,
`SumCovers`: the sum is recursive over sets, and is dealt with by induction in set form).

**Library page and script** (`Vocabulary_proofs`). `VocabularyTypeCorrect` and
`AlwaysWaitsForItsOperation` hold for any number of pages (`VocabularyInv`).
`SelectionAlwaysListed`, `WholeLibraryAlwaysNeedsPhrase` and `VerifiedAlwaysStored` are
stated of one page, until a call fails; `FreshInv` says that all a page lists is in the
library or is what it is deleting, and that nothing is late.

**The browser's store** (`LegacyUpgrade_proofs`). `BrowserActsAsServer` is the second
refinement; `UseInv` says that only words that were stored have events and that the words of an
insertion under way are its own. `BrowserTypeCorrect` needs the object stores each version
has, through every step of every upgrade. `AlwaysUpgradedAsAWhole` (`LossInv`): before
version 6 the data is the original data, and a running upgrade would roll back to the original
database; after it either there were no legacy stores and the current ones are as they were, or
each legacy word has an event per submission for it and the card they end with, by induction over
their order, and no other word is left.

Left to TLC: liveness (`PagesSettle`; the prover has no ENABLED) and the two violations.

## 5. Findings

- `saved_notice`: after an answer was saved and the next word could not be loaded,
  the machine stores "Your answer was saved, but the next word could not be
  loaded." and enters Loading, whose completion clears the message before any state
  of the page could show it.
- `deleted_for_good`: the dialog promises that a deletion cannot be undone; a rename,
  archive or example import that listed the words before the deletion inserts the
  word again, without a memory row.

## 6. Not modelled

- Interval arithmetic of ts-fsrs (external), string functions on furigana and
  templates, parsers of imports and payloads, statistics of a practice session,
  rendering, RPC encoding, signatures and digests.
- Schema migrations of the server: they run once, before the application starts.
  0003 defines the tables of `D1Store`; what 0003 and 0004 do to old data is planned.
- In the upgrade of the browser's database: stores of one kind that are incomplete,
  and data the transformation throws on. Neither is reachable from a released
  database. An Effect failure there does not abort the transaction by itself.
  Submissions are migrated as kind `scheduled`, whenever they were made; a later
  recalculation replays early ones as `extra`.
- Lint packages, the vendored Effect repository, generated code.

## 7. Plan

Done, in this order: the ladder and scheduler, the ledger, the store, the practice
page, recalculation, library operations, composition, proofs; then the library page
with the script, the history page with sessions, the browser's store with its upgrade,
the rotation of examples; and then the theorems of section 4.

Next, theorems: the refinement of the ledger with one practice page and other pages
that do not write to its words, which is more than one tab and still true.

Next, models: the server's migrations of old data; the selection with its session
counters and the limit of 64; the import's parsing of repeated words.
