---------------------------- MODULE MergeVerdict ----------------------------
(***************************************************************************)
(* The decision engine.ts arrives at for one item, as a function of the    *)
(* SET of things said about it and of whether it is a semantic candidate:  *)
(* which rules spoke first, or twice, plays no part.  Verdicts has more    *)
(* than one member only when several of them say the same thing.           *)
(***************************************************************************)
EXTENDS DecisionTypes

Retained(said) == \E d \in said : Retains(d)
CompressionForbidden(said) == \E d \in said : d.compression = "forbidden"

\* d has at least the standing of e: authority first, then action.
Outranks(d, e) ==
  \/ AuthorityRank(d.authority) > AuthorityRank(e.authority)
  \/ /\ d.authority = e.authority
     /\ ActionRank(d.action) >= ActionRank(e.action)

\* PROTECT retains; it does not compete for the action.
Contenders(said) ==
  {d \in said : d.action # "PROTECT" /\ d.authority # "semantic"}
    \cup {DefaultKeep}
Strongest(said) ==
  LET all == Contenders(said) IN {d \in all : \A e \in all : Outranks(d, e)}

\* The semantic layer may only go further than a heuristic decision, and only
\* on an item that is a candidate and that nothing retains.
Escalations(said, candidate) ==
  {s \in said : /\ s.authority = "semantic"
                /\ candidate /\ ~Retained(said)
                /\ \A d \in Strongest(said) :
                     /\ d.authority = "heuristic"
                     /\ ActionRank(s.action) > ActionRank(d.action)}
Leading(said, candidate) ==
  LET further == Escalations(said, candidate) IN
  IF further # {} THEN further ELSE Strongest(said)

Compressing(said) == {d \in said : d.action = "COMPRESS"}
Protecting(said)  ==
  {d \in said : /\ Retains(d)
                /\ \A e \in said : Retains(e) => ~BeatsProtect(e, d)}

MayCompress(said) ==
  /\ ~CompressionForbidden(said)
  /\ Compressing(said) # {}
  /\ \A d \in Strongest(said) : d.action \in {"DROP", "COMPRESS"}

Verdicts(said, candidate) ==
  IF ~Retained(said)
  THEN {[d EXCEPT !.retention = "normal"] : d \in Leading(said, candidate)}
  ELSE IF MayCompress(said)
  THEN {[d EXCEPT !.retention = "protected", !.compression = "allowed"] :
          d \in Compressing(said)}
  ELSE {[d EXCEPT !.action = "PROTECT", !.retention = "protected",
                  !.compression = IF CompressionForbidden(said)
                                  THEN "forbidden" ELSE "allowed"] :
          d \in Protecting(said)}
=============================================================================
