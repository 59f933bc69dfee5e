--------------------------- MODULE RecalculatedRows ---------------------------
(***************************************************************************)
(* The rows a recalculation writes: _calculateRecalculation of packages/   *)
(* machines/src/word-memory-machine.ts, given the events and the memory    *)
(* rows that were read, when the words are.                                *)
(***************************************************************************)
EXTENDS D1Store, Recalculation

EventsOf(evs, w) == {e \in evs : e.word = w}

(***************************************************************************)
(* _calculateRecalculation.  Only active words that had a row when the     *)
(* rows were read are replayed, and only rows whose card differs from the  *)
(* replayed one are written.  Differences in card fields the model leaves  *)
(* out are not seen.                                                       *)
(***************************************************************************)
Replayed(rows) == {w \in WordIds : rows[w] # None /\ Active(w)}

ReplaysOf(w, evs) == Replays(words[w].createdAt, EventsOf(evs, w))

\* one card per replayed word
ReplayedCards(rows, evs) ==
    LET cards == UNION {ReplaysOf(w, evs) : w \in Replayed(rows)}
    IN  {c \in [Replayed(rows) -> cards] : \A w \in Replayed(rows) : c[w] \in ReplaysOf(w, evs)}

\* mutant: only schedules that become due earlier are written
ChangedStatesWhenSooner(rows, cards) ==
    [w \in WordIds |->
        IF w \in Replayed(rows) /\ cards[w].due < rows[w].card.due
        THEN [rows[w] EXCEPT !.card = cards[w]] ELSE None]

\* mutant: the ladder is started over with the schedule
ChangedStatesAfresh(rows, cards) ==
    [w \in WordIds |->
        IF w \in Replayed(rows) /\ cards[w] # rows[w].card
        THEN [rows[w] EXCEPT !.card = cards[w], !.stageAttempts = 0, !.masteryStreak = 0] ELSE None]

\* mutant: a word whose card is in review is taken for mastered
ChangedStatesPromoted(rows, cards) ==
    [w \in WordIds |->
        IF w \in Replayed(rows) /\ cards[w].phase = "review"
        THEN [rows[w] EXCEPT !.card = cards[w], !.stage = "contextRecall"] ELSE None]

ChangedStates(rows, cards) ==
    [w \in WordIds |->
        IF w \in Replayed(rows) /\ cards[w] # rows[w].card
        THEN [rows[w] EXCEPT !.card = cards[w]]
        ELSE None]
==============================================================================
