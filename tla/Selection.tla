------------------------------ MODULE Selection ------------------------------
(***************************************************************************)
(* What a loop over a container that acts on some of the elements sees of  *)
(* it.                                                                     *)
(***************************************************************************)
EXTENDS Naturals, Sequences

\* The elements of s that lie in S, in their order.
Kept(s, S) ==
  LET kept[i \in 0 .. Len(s)] ==
        IF i = 0 THEN <<>>
        ELSE IF s[i] \in S THEN Append(kept[i - 1], s[i]) ELSE kept[i - 1]
  IN  kept[Len(s)]
=============================================================================
