----------------------------- MODULE Subsequences -----------------------------
(***************************************************************************)
(* Selecting elements of a sequence by their places.  What SelectSeq does  *)
(* with a test of the element, Keep does with a set of places, and its     *)
(* recursion is a function the proofs can unfold.                          *)
(***************************************************************************)
EXTENDS Naturals, Sequences

\* The elements of s at the given places, in their order.
Keep(s, places) ==
    LET Upto[n \in 0..Len(s)] ==
          IF n = 0 THEN <<>>
          ELSE IF n \in places THEN Append(Upto[n - 1], s[n]) ELSE Upto[n - 1]
    IN Upto[Len(s)]
=============================================================================
