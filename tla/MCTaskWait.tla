----------------------------- MODULE MCTaskWait -----------------------------
(* Instances of TaskWait for TLC: c waits for its parent p, which is on a  *)
(* queue of its own; c is on the other queue, or on both.                  *)
EXTENDS TaskWait

CONSTANTS p, c, q1, q2

Family == [t \in Tasks |-> IF t = c THEN {p} ELSE {}]
Apart  == [t \in Tasks |-> IF t = c THEN {q2} ELSE {q1}]
Shared == [t \in Tasks |-> IF t = c THEN {q1, q2} ELSE {q1}]

Mixed  == {<<c, p, p>>, <<c>>}
Single == {<<p>>}

=============================================================================
