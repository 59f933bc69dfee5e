------------------------------ MODULE MCBrowser ------------------------------
(***************************************************************************)
(* The browser's database for TLC.                                         *)
(***************************************************************************)
EXTENDS LegacyUpgrade, TLC

Plain == [t \in Texts |-> t]

Symmetry == Permutations(WordIds) \cup Permutations(Texts)

\* The store is used with no more words and submissions than two.
Used == decided > 0 => Cardinality(usedIds) < 3 /\ Cardinality(original.legacy.submissions) < 3
==============================================================================
