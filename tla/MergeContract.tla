--------------------------- MODULE MergeContract ---------------------------
(***************************************************************************)
(* What the merge of engine.ts promises about one item, without saying how *)
(* it is computed: one decision, taken once, that depends on the SET of    *)
(* things said about the item, so that the order in which rules run cannot *)
(* change an item's fate.                                                  *)
(***************************************************************************)
EXTENDS MergeVerdict, SequencesExt

CONSTANTS Inputs,      \* the evaluation sequences an item may have
          NoDecision

VARIABLES evaluations, candidate, verdict

contractVars == <<evaluations, candidate, verdict>>

Init == /\ evaluations \in Inputs
        /\ candidate \in BOOLEAN
        /\ verdict = NoDecision

Decide == /\ verdict = NoDecision
          /\ verdict' \in Verdicts(ToSet(evaluations), candidate)
          /\ UNCHANGED <<evaluations, candidate>>

Spec == Init /\ [][Decide]_contractVars
=============================================================================
