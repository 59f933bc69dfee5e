------------------------------- MODULE MCLedger -------------------------------
(***************************************************************************)
(* The ledger alone, for TLC: one word, answers numbered in the order they *)
(* are given, cards rescheduled within a few.                              *)
(***************************************************************************)
EXTENDS ExampleRotation

Cards == {[phase |-> "review", step |-> 0, due |-> 2]}

MCReschedule ==
    \E w \in WordIds, card \in Cards :
        /\ rows[w] # None
        /\ rows' = [rows EXCEPT ![w].card = card]
        /\ UNCHANGED log

MCLedgerNext ==
    \/ \E ws \in SUBSET WordIds : Erase(ws)
    \/ \E ws \in SUBSET WordIds, now \in Times : Register(ws, now)
    \/ \E w \in WordIds, kind \in Kinds, now \in Times, r \in Ratings :
         /\ Cardinality(log) \in EventIds
         /\ Answer(Cardinality(log), w, kind, now, r)
    \/ MCReschedule

MCLedgerSpec == LedgerInit /\ [][MCLedgerNext]_ledgerVars
===============================================================================
