------------------------------- MODULE Lists --------------------------------
(***************************************************************************)
(* Loops over vectors that copy or drop some of the elements.  The         *)
(* condition is a set, and the loop a recursive function, so that          *)
(* ListProofs can say what the loop leaves for a vector of any length.     *)
(***************************************************************************)
EXTENDS Integers, Sequences

\* The elements of s that are in S, in the order they have in s.
Where(s, S) ==
    LET kept[i \in 0 .. Len(s)] ==
            IF i = 0 THEN <<>>
            ELSE IF s[i] \in S THEN Append(kept[i - 1], s[i]) ELSE kept[i - 1]
    IN  kept[Len(s)]
=============================================================================
