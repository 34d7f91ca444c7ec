-------------------------------- MODULE Lists --------------------------------
(***************************************************************************)
(* What erase and remove_if do to a vector or a deque.                     *)
(***************************************************************************)
EXTENDS Naturals, Sequences

\* What is left of s when only the elements at the places in keep are, in their order.
Kept(s, keep) ==
  LET kept[n \in 0..Len(s)] ==
        IF n = 0 THEN <<>>
        ELSE IF n \in keep THEN Append(kept[n - 1], s[n]) ELSE kept[n - 1]
  IN  kept[Len(s)]
=============================================================================
