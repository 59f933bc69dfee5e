---------------------------- MODULE Recalculation ----------------------------
(***************************************************************************)
(* Replaying a word's practice history into a memory card: packages/       *)
(* services/src/word-memory-recalculation.ts.                              *)
(***************************************************************************)
EXTENDS PracticeRecords

\* mutant: a review on the very day counts as early
WasScheduledEarlyOrOnTime(card, e) ==
    e.kind = "scheduled" /\ card.phase # "new" /\ e.reviewedAt <= card.due

\* A scheduled review given before the card was due is replayed as extra.
WasScheduledEarly(card, e) ==
    e.kind = "scheduled" /\ card.phase # "new" /\ e.reviewedAt < card.due

ReplayKind(card, e) ==
    IF card.phase # "new" /\ (e.kind = "extra" \/ WasScheduledEarly(card, e))
    THEN "extra" ELSE "scheduled"

\* The body of the loop; a change of stage resets the card to nextDueAt.
ReplayEvent(card, e) ==
    IF e.movedTo # None
    THEN InitialCard(e.nextDueAt)
    ELSE DeterministicPracticeResult(card, ReplayKind(card, e), e.reviewedAt, e.rating)

(***************************************************************************)
(* replayPracticeHistory: the cards it may return.  Events are replayed in *)
(* the order of review time, the latest last.  Events of one word at the   *)
(* same instant come from a repeated submission or from two sessions;      *)
(* session and event ids are random, so either may be sorted first.        *)
(***************************************************************************)
Replays(createdAt, evs) ==
    LET latest(es) == {e \in es : \A f \in es : f.reviewedAt <= e.reviewedAt}
        after[es \in SUBSET evs] ==
            IF es = {} THEN {InitialCard(createdAt)}
            ELSE UNION {{ReplayEvent(card, e) : card \in after[es \ {e}]} : e \in latest(es)}
    IN  after[evs]
==============================================================================
