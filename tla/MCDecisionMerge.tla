-------------------------- MODULE MCDecisionMerge --------------------------
(***************************************************************************)
(* DecisionMerge over the decision shapes the rules of the repository emit *)
(* (rules/protect.ts, rules/prune.ts, semantic/apply.ts).                  *)
(***************************************************************************)
EXTENDS DecisionMerge

Shape(a, auth, ret, comp, r) ==
  [action |-> a, authority |-> auth, retention |-> ret,
   compression |-> comp, rule |-> r]

\* One shape per way a rule fills in a decision.
EmittedByRules ==
  { Shape("PROTECT", "safety", "protected", "forbidden", "current-task"),
    Shape("PROTECT", "safety", "protected", "allowed", "unresolved-error"),
    Shape("PROTECT", "heuristic", "protected", "allowed", "recent-items"),
    Shape("PROTECT", "heuristic", "protected", "forbidden", "recent-items"),
    Shape("DROP", "structural", "normal", "allowed", "superseded-file-read"),
    Shape("DROP", "heuristic", "normal", "allowed", "repeated-command-output"),
    Shape("COMPRESS", "heuristic", "normal", "allowed", "compress-large-output") }

EmittedBySemantics ==
  { Shape(a, "semantic", "normal", "allowed", "semantic") :
      a \in {"KEEP", "COMPRESS", "DROP"} }
=============================================================================
