----------------------------- MODULE MCImmersion -----------------------------
(***************************************************************************)
(* The application for TLC: what learners ask of the library page in each  *)
(* run, and the symmetries the runs use.                                   *)
(***************************************************************************)
EXTENDS Immersion, TLC

CONSTANTS Bare, Annotated   \* a spelling, and the same with furigana

\* Every other spelling is plain already.
Plain == [t \in Texts |-> IF t = Annotated THEN Bare ELSE t]

NoJob == {}

Asked(kind, ids, from, texts, added) ==
    [kind |-> kind, ids |-> ids, from |-> from, texts |-> texts, added |-> added]

Deletes == {Asked("deleteSelectedWordEntries", {w}, None, {}, {}) : w \in WordIds}
Wipe == {Asked("deleteAllWordEntries", {}, None, {}, {})}
Erases == {Asked("deleteWordEntry", {}, t, {}, {}) : t \in Texts}
Archivals == {Asked(k, {w}, None, {}, {}) : k \in {"archive", "restore"}, w \in WordIds}
Saves == {Asked("saveWordEntry", {}, None, {t}, {}) : t \in Texts}
Imports == {Asked("importWordEntries", {}, None, ts, Examples) : ts \in {s \in SUBSET Texts : Cardinality(s) = 2}}
Renames == {Asked("updateWordEntry", {}, s, {t}, {}) : s, t \in Texts}
Enrichments == {Asked("importExampleEntries", {}, None, Texts, Examples)}

AllJobs == Deletes \cup Wipe \cup Erases \cup Archivals \cup Saves \cup Imports
           \cup Renames \cup Enrichments

SomeJobs == Deletes \cup Archivals

WordSymmetry == Permutations(WordIds)
PageSymmetry == Permutations(PracticePages)
==============================================================================
