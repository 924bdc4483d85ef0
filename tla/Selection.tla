----------------------------- MODULE Selection -----------------------------
(***************************************************************************)
(* What a loop that skips some elements of a sequence keeps, and what one  *)
(* that writes out part after part has written.  SelectSeq asks an         *)
(* operator about an element; here a function of the index says which      *)
(* elements pass, so that facts about the selection can be stated for      *)
(* every such function.                                                    *)
(***************************************************************************)
EXTENDS Naturals, Sequences

\* The elements of s whose index passes, in order.
Kept(s, passes) ==
  LET kept[n \in 0 .. Len(s)] ==
        IF n = 0 THEN <<>>
        ELSE IF passes[n] THEN Append(kept[n - 1], s[n])
        ELSE kept[n - 1]
  IN  kept[Len(s)]

\* The parts, one after the other.
Joined(parts) ==
  LET joined[n \in 0 .. Len(parts)] ==
        IF n = 0 THEN <<>> ELSE joined[n - 1] \o parts[n]
  IN  joined[Len(parts)]
=============================================================================
