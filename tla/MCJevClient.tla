---------------------------- MODULE MCJevClient -----------------------------
(***************************************************************************)
(* Two processes under different thresholds, and a vendor that scores one   *)
(* item without a confidence and one well.                                  *)
(***************************************************************************)
EXTENDS JevClient

CONSTANTS r1, r2

TwoItems == <<"a", "b">>
OwnContent == [i \in Items |-> i]
UnitCost == [i \in Items |-> 1]
\* The defaults, and thresholds that keep more.
Thresholds(version, keep, compress, drop) ==
  [policyVersion |-> version, keepMinRelevance |-> keep,
   compressMinRelevance |-> compress, dropMinConfidence |-> drop]
TwoPolicies == [r \in Runs |-> IF r = r1 THEN Thresholds("v1", 3, 2, 4)
                                         ELSE Thresholds("v2", 2, 1, 3)]

Vendor(score, confidence) == [score |-> score, confidence |-> confidence]
PlainAnswers == [i \in Items |->
  IF i = "a" THEN Vendor(0, NaN) ELSE Vendor(1, Unit)]
=============================================================================
