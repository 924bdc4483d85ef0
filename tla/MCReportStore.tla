--------------------------- MODULE MCReportStore ---------------------------
(***************************************************************************)
(* ReportStore for a session that ends twice and is analyzed again by a    *)
(* newer engine.                                                           *)
(***************************************************************************)
EXTENDS ReportStore, TLC

CONSTANTS s1, first, second, newer, viewer, cleaner

Of(s, v) == [session |-> s, version |-> v]
Identities == (first :> Of(s1, "0.1")) @@ (second :> Of(s1, "0.1")) @@
              (newer :> Of(s1, "0.2"))

\* Two analyses that do the same, and the commands, are interchangeable.
Symmetry == Permutations({first, second}) \cup Permutations({viewer, cleaner})

OwnName == [s \in Sessions |-> s]
=============================================================================
