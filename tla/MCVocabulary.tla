----------------------------- MODULE MCVocabulary -----------------------------
(***************************************************************************)
(* One library page and the script for TLC.                                *)
(***************************************************************************)
EXTENDS Vocabulary, TLC

CONSTANTS Bare, Annotated   \* a spelling, and the same with furigana

Plain == [t \in Texts |-> IF t = Annotated THEN Bare ELSE t]

NoJob == {}

Symmetry == Permutations(WordIds) \cup Permutations(Texts)
==============================================================================
