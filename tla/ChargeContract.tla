---------------------------- MODULE ChargeContract ----------------------------
(*****************************************************************************)
(* What the account promises about money, with no holds, attempts, calls,    *)
(* jobs or reconciliation: the balance moves when an administrator's         *)
(* submission is taken, once each, and when an answered request is paid,     *)
(* once each and at the cost of its answer.  What was paid for stays as it   *)
(* is; an answer that was not paid yet may be lost or come anew.             *)
(*****************************************************************************)
EXTENDS Integers

CONSTANTS Request, Cost, Admin, Adds

VARIABLES
    balance,    \* what the user owns
    taken,      \* the submissions taken so far
    answer,     \* [Request -> SUBSET Cost]: the cost of its answer, if it has one
    paid        \* [Request -> SUBSET Cost]: what was paid for it

chargeVars == <<balance, taken, answer, paid>>

Nothing == [r \in Request |-> {}]

Init == balance = 0 /\ taken = {} /\ answer = Nothing /\ paid = Nothing

\* Requests that nobody has paid for are answered, or fail.
Answer ==
    /\ \A r \in Request : \/ answer'[r] = answer[r]
                          \/ paid[r] = {} /\ answer'[r] \in {{}} \cup {{cost} : cost \in Cost}
    /\ UNCHANGED <<balance, taken, paid>>

Pay(r) == \E cost \in answer[r] :
    /\ paid[r] = {}
    /\ paid' = [paid EXCEPT ![r] = {cost}]
    /\ balance' = balance - cost
    /\ UNCHANGED <<taken, answer>>

\* A submission is applied or refused; no deduction makes the balance negative.
Take(a) ==
    /\ a \notin taken
    /\ taken' = taken \cup {a}
    /\ \/ balance' = balance
       \/ balance' = balance + Adds[a] /\ (Adds[a] < 0 => balance' >= 0)
    /\ UNCHANGED <<answer, paid>>

Next == Answer \/ (\E r \in Request : Pay(r)) \/ (\E a \in Admin : Take(a))

Spec == Init /\ [][Next]_chargeVars
===============================================================================
