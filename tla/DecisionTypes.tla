--------------------------- MODULE DecisionTypes ---------------------------
(***************************************************************************)
(* The vocabulary of one context decision, shared by every module that     *)
(* reads or merges decisions (packages/core/src/types.ts, reasons.ts and   *)
(* the ranking tables of engine.ts).                                       *)
(*                                                                         *)
(* A decision keeps the fields the merge looks at plus the rule that       *)
(* emitted it; reason texts, importance and scores play no part in the     *)
(* control flow and are left out.                                          *)
(***************************************************************************)
EXTENDS Naturals, Sequences

\* The rules that may emit a decision, by their names in the code; "semantic"
\* stands for "semantic-<provider>".
Rules == {"system-instructions", "explicit-user-constraint", "current-task",
          "unresolved-error", "recent-items",
          "successful-test-supersedes-failures", "superseded-test-run",
          "superseded-file-read", "superseded-git-status",
          "superseded-git-diff", "old-directory-listing",
          "repeated-command-output", "compress-large-output", "semantic"}

Actions      == {"PROTECT", "KEEP", "COMPRESS", "DROP"}
Authorities  == {"safety", "structural", "heuristic", "semantic"}
Retentions   == {"protected", "normal"}
Compressions == {"allowed", "forbidden"}

Decision == [action: Actions, authority: Authorities, retention: Retentions,
             compression: Compressions, rule: Rules \cup {"default"}]

\* makeDecision: what a rule leaves unsaid.  A PROTECT retains and forbids
\* compression; anything else does neither.
MakeDecision(a, auth, r) ==
  [action |-> a, authority |-> auth, rule |-> r,
   retention |-> IF a = "PROTECT" THEN "protected" ELSE "normal",
   compression |-> IF a = "PROTECT" THEN "forbidden" ELSE "allowed"]

\* The order of actions under equal authority.
ActionRank(a) == CASE a = "KEEP"     -> 0
                   [] a = "COMPRESS" -> 1
                   [] a = "DROP"     -> 2
                   [] OTHER          -> 3

AuthorityRank(a) == CASE a = "semantic"   -> 0
                      [] a = "heuristic"  -> 1
                      [] a = "structural" -> 2
                      [] OTHER            -> 3

\* What an item gets when no rule speaks about it.
DefaultKeep == [action |-> "KEEP", authority |-> "heuristic",
                retention |-> "normal", compression |-> "allowed",
                rule |-> "default"]

\* A decision that retains its item: it says so, or it is a PROTECT.
Retains(d) == d.retention = "protected" \/ d.action = "PROTECT"

\* Mutant: the last of equals wins.
BeatsActionOnTie(incoming, current, eligible) ==
  LET inRank == IF /\ incoming.authority = "semantic"
                   /\ current.authority = "heuristic" /\ eligible
                THEN AuthorityRank("heuristic")
                ELSE AuthorityRank(incoming.authority)
      curRank == AuthorityRank(current.authority)
  IN  \/ inRank > curRank
      \/ /\ inRank = curRank
         /\ ActionRank(incoming.action) >= ActionRank(current.action)

\* Does incoming replace current as the item's action?  A semantic decision
\* about an eligible item competes with a heuristic one as its equal.
BeatsAction(incoming, current, eligible) ==
  LET lifted == /\ incoming.authority = "semantic"
                /\ current.authority = "heuristic"
                /\ eligible
      inRank == IF lifted THEN AuthorityRank("heuristic")
                          ELSE AuthorityRank(incoming.authority)
      curRank == AuthorityRank(current.authority)
  IN  \/ inRank > curRank
      \/ /\ inRank = curRank
         /\ ActionRank(incoming.action) > ActionRank(current.action)

\* Does incoming replace current as the decision that retains the item?
BeatsProtect(incoming, current) ==
  AuthorityRank(incoming.authority) > AuthorityRank(current.authority)
=============================================================================
