-------------------------------- MODULE Filter --------------------------------
(***************************************************************************)
(* The list comprehension with a condition, [x for x in s if x in S],      *)
(* as a recursive function: the proofs need its definition.                *)
(***************************************************************************)
EXTENDS Naturals, Sequences

(* The members of s that are in S, in their order.                         *)
Only(s, S) ==
    LET upTo[n \in 0..Len(s)] ==
            IF n = 0 THEN <<>>
            ELSE IF s[n] \in S THEN Append(upTo[n - 1], s[n]) ELSE upTo[n - 1]
    IN  upTo[Len(s)]

=============================================================================
