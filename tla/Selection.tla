------------------------------ MODULE Selection ------------------------------
(***************************************************************************)
(* What remains of a sequence when some of its entries are dropped.  Unlike*)
(* SelectSeq() it takes the places of the entries that stay, a set, so     *)
(* that facts about it can be proved once, for any condition.              *)
(***************************************************************************)
EXTENDS Naturals, Sequences

\* The entries of s at the places in P, in their order.
Select(s, P) ==
  LET kept[n \in 0..Len(s)] ==
        IF n = 0 THEN << >>
        ELSE IF n \in P THEN Append(kept[n - 1], s[n]) ELSE kept[n - 1]
  IN  kept[Len(s)]
=============================================================================
