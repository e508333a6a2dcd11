----------------------------- MODULE MapPromise -----------------------------
(***************************************************************************)
(* What map and map_reduce promise: a call returns a result that holds     *)
(* every item of its iterable exactly once, or it raises.  A result is the *)
(* number of times it holds each item.                                     *)
(***************************************************************************)
EXTENDS Naturals

CONSTANT Items

VARIABLES
    asked,      \* the items of the iterable
    status,     \* "none", "returned" or "raised"
    result      \* what the call returned

Times(items) == [i \in Items |-> IF i \in items THEN 1 ELSE 0]

Init == asked \in SUBSET Items /\ status = "none" /\ result = Times({})

Return ==
    /\ status = "none"
    /\ status' = "returned" /\ result' = Times(asked)
    /\ UNCHANGED asked

Raise ==
    /\ status = "none"
    /\ status' = "raised"
    /\ UNCHANGED <<asked, result>>

Spec == Init /\ [][Return \/ Raise]_<<asked, status, result>>

=============================================================================
