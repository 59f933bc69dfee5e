----------------------------- MODULE MCHistoryPage -----------------------------
(***************************************************************************)
(* One browser and the history page for TLC.                               *)
(***************************************************************************)
EXTENDS HistoryPage, TLC

Plain == [t \in Texts |-> t]

\* Everything, the words never practised.
SomeQueries == {None, "new"}

Symmetry == Permutations(WordIds) \cup Permutations(Texts) \cup Permutations(Secrets)

\* Not everything at once: while other pages are at work nothing fails or is deployed and
\* the home page was asked for; when they do most, nothing is searched and one word is loaded
\* at a time.
Watched ==
    /\ elsewhere > 0 => deployed = 0 /\ disturbances = 0 /\ wanted = At(Home)
    /\ elsewhere > 2 => history.query = None /\ Cardinality(flights) < 2
==============================================================================
