--------------------------- MODULE MCSemanticRun ---------------------------
(***************************************************************************)
(* Small instances of SemanticRun: two processes, two candidates, scores in *)
(* quarters, and a provider that answers soundly or in one of the ways      *)
(* sanitize.ts guards against.                                              *)
(***************************************************************************)
EXTENDS SemanticRun

CONSTANTS r1, r2

TwoItems == <<"a", "b">>
SameContent == [i \in {"a", "b"} |-> "h"]
UnitCost == [i \in {"a", "b"} |-> 1]

Thresholds(version, keep, compress, drop) ==
  [policyVersion |-> version, keepMinRelevance |-> keep,
   compressMinRelevance |-> compress, dropMinConfidence |-> drop]
OnePolicy == [r \in Runs |-> Thresholds("v1", 3, 2, 4)]

Says(item, action, relevance, confidence) ==
  [item |-> item, action |-> action, relevance |-> relevance,
   confidence |-> confidence]
Each(asked, relevance, confidence) ==
  [n \in DOMAIN asked |-> Says(asked[n], "KEEP", relevance, confidence)]

\* Sound answers: sure that the items are worthless, unsure, and off the scale.
Sound(asked) ==
  {Each(asked, 0, Unit), Each(asked, 1, 3), Each(asked, Unit + 1, -1)}

\* An answer is missing; an item is not in the batch; a score is no number; an
\* action is invalid, and then given again.
Faulty(asked) ==
  {Each(Tail(asked), 0, Unit),
   <<Says(IF Head(asked) = "b" THEN "a" ELSE "b", "DROP", 2, 2)>>,
   <<Says(Head(asked), "DROP", NaN, Unit)>> \o Each(Tail(asked), 2, Unit),
   <<Says(Head(asked), "PROTECT", 0, Unit), Says(Head(asked), "KEEP", 3, Unit)>>,
   None}

\* The item is answered twice.
Repeating(asked) ==
  {<<Says(Head(asked), "DROP", 0, Unit), Says(Head(asked), "KEEP", 4, Unit)>>}

AnyResponse(asked) == Sound(asked) \cup Faulty(asked) \cup Repeating(asked)
=============================================================================
