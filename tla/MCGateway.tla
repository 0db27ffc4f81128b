------------------------------ MODULE MCGateway ------------------------------
(* Small instances of Gateway. *)
EXTENDS Gateway, TLC

CONSTANTS r1, r2, j1, a1, a2, k1

OneJob == [r \in Request |-> j1]
Amounts == [r \in Request |-> IF r = r1 THEN 2 ELSE 1]

\* Both submissions carry the same key, as a repeated click does.
SameKey == [a \in Admin |-> k1]
Credit == [a \in Admin |-> 3]

\* A credit and a deduction of their own.
OwnKey == [a \in Admin |-> a]
CreditAndDeduction == [a \in Admin |-> IF a = a1 THEN 3 ELSE -1]

Symmetry == Permutations(Call)
=============================================================================
