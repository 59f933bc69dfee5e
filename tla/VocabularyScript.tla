---------------------------- MODULE VocabularyScript ----------------------------
(***************************************************************************)
(* The vocabulary script: .agents/skills/manage-japanese-vocabulary/       *)
(* scripts/manage-vocabulary.ts with --apply.  It speaks to the same store *)
(* as the pages, over the same RPCs: it lists the words, plans one batch,  *)
(* sends it and reads the words back.  A run without --apply, and one      *)
(* whose plan is empty, changes nothing.                                   *)
(***************************************************************************)
EXTENDS Library

VARIABLE script   \* what is under way, what the last run reported, and how
                  \* many runs there were that no failed call cut short

Operations == {"addWords", "addExamples", "replaceExamples"}

Idle(runs, report) ==
    [runs |-> runs, step |-> "idle", kind |-> None, plan |-> NoRows, report |-> report]

Script == [runs: Nat, step: {"idle", "write", "verify"}, kind: Operations \cup {None},
           plan: WordRows, report: {"verified", "failed"} \cup {None}]

\* Before the run ends there is no report.
ASSUME ReportAssumption == None \notin {"verified", "failed"}

Plan(kind, rows) ==
    /\ Given(rows) # {}
    /\ script' = [runs |-> script.runs + 1, step |-> "write", kind |-> kind, plan |-> rows, report |-> None]

Matches(t) == {w \in WordIds : Exists(w) /\ SamePlain(w, t)}

\* _assertUniqueTargets
Payloads == {ts \in SUBSET Texts : \A s, t \in ts : s # t => PlainText[s] # PlainText[t]}

(***************************************************************************)
(* _planAddWords and _makeNewRecords: words that are not there yet, with   *)
(* their examples and a fresh memory row each.                             *)
(***************************************************************************)
PlanAddWords ==
    /\ script.step = "idle"
    /\ \E ts \in Payloads, ids \in SUBSET (WordIds \ (usedIds \cup Reserved)) :
         LET new == {t \in ts : ~Known(t)}
         IN  /\ Cardinality(ids) = Cardinality(new)
             /\ \E rows \in NewRows(new, [ids |-> ids, added |-> Examples]) :
                  Plan("addWords", rows)
             /\ usedIds' = usedIds \cup ids
    /\ UNCHANGED <<tables, channel, nextEvent, clock>>

(***************************************************************************)
(* _planAddExamples: whole rows as listed, with the examples they lack.    *)
(* More than one word of a spelling stops the run.                         *)
(***************************************************************************)
PlanAddExamples ==
    /\ script.step = "idle"
    /\ \E ts \in Payloads, added \in SUBSET Examples :
         /\ \A t \in ts : Cardinality(Matches(t)) <= 1
         /\ Plan("addExamples",
                 [w \in WordIds |->
                    IF (\E t \in ts : w \in Matches(t)) /\ ~(added \subseteq words[w].examples)
                    THEN [words[w] EXCEPT !.examples = @ \cup added]
                    ELSE None])
    /\ UNCHANGED storeVars

(***************************************************************************)
(* _planReplaceExamples: new texts for the templates a word has already,   *)
(* so that the row it sends is, for the model, the row as listed.          *)
(***************************************************************************)
PlanReplaceExamples ==
    /\ script.step = "idle"
    /\ \E ts \in Payloads :
         /\ \A t \in ts : Cardinality(Matches(t)) = 1
         /\ Plan("replaceExamples",
                 [w \in WordIds |-> IF \E t \in ts : w \in Matches(t) THEN words[w] ELSE None])
    /\ UNCHANGED storeVars

ScriptRequest ==
    [op |-> IF script.kind = "addWords" THEN "insertWords" ELSE "updateWords",
     rows |-> script.plan]

ScriptWrites ==
    /\ script.step = "write"
    /\ Commit(ScriptRequest)
    /\ script' = [script EXCEPT !.step = "verify"]
    /\ UNCHANGED channel
    /\ UNCHANGED supplies

\* mutant: what was sent is taken for what is stored
ReadsBackCounts == Cardinality(Given(script.plan)) <= Cardinality(Given(words))

(***************************************************************************)
(* The read-back: inserted words by id, added examples by their number,    *)
(* replaced ones in full.                                                  *)
(***************************************************************************)
ReadsBack ==
    \A w \in Given(script.plan) :
        /\ Exists(w)
        /\ script.kind = "addExamples" =>
             Cardinality(words[w].examples) = Cardinality(script.plan[w].examples)
        /\ script.kind = "replaceExamples" => words[w].examples = script.plan[w].examples

ScriptVerifies ==
    /\ script.step = "verify"
    /\ script' = Idle(script.runs, IF ReadsBack THEN "verified" ELSE "failed")
    /\ UNCHANGED storeVars

\* A call fails and stops the run; the mutation may still arrive.
ScriptCallLost ==
    /\ script.step # "idle"
    /\ Disturb
    /\ script' = Idle(script.runs - 1, "failed")
    /\ stray' = IF script.step = "write" THEN stray \cup {ScriptRequest} ELSE stray
    /\ UNCHANGED <<tables, supplies>>

ScriptInit == script = Idle(0, None)

ScriptRuns == ScriptWrites \/ ScriptVerifies

ScriptNext ==
    \/ PlanAddWords \/ PlanAddExamples \/ PlanReplaceExamples
    \/ ScriptRuns \/ ScriptCallLost

ScriptTypeOK == script \in Script
==============================================================================
