----------------------------- MODULE JobContract -----------------------------
(***************************************************************************)
(* What the job system promises a client about each job, with no rows,     *)
(* workers, leases or clocks.  A job is open until it is settled; it is    *)
(* granted to one attempt after another; only the latest attempt records   *)
(* anything; a job asked to stop is not granted again and does not fail;   *)
(* what is settled stays settled, and what was recorded stays recorded.    *)
(***************************************************************************)
EXTENDS Integers

CONSTANT Job

VARIABLES
    phase,      \* [Job -> Phase]
    epoch,      \* [Job -> Nat]: attempts granted so far
    record      \* [Job -> Nat]: the attempt that last recorded something

cvars == <<phase, epoch, record>>

Settled == {"succeeded", "failed", "cancelled"}
Phase   == {"absent", "open", "stopping", "gone"} \cup Settled

Init == /\ phase  = [j \in Job |-> "absent"]
        /\ epoch  = [j \in Job |-> 0]
        /\ record = [j \in Job |-> 0]

Keep(j)   == phase'[j] = phase[j] /\ epoch'[j] = epoch[j] /\ record'[j] = record[j]

Open(j)   == phase[j] = "absent" /\ phase'[j] = "open"
             /\ epoch'[j] = epoch[j] /\ record'[j] = record[j]

Grant(j)  == phase[j] = "open" /\ phase'[j] = "open"
             /\ epoch'[j] = epoch[j] + 1 /\ record'[j] = record[j]

Record(j) == phase[j] \in {"open", "stopping"} /\ epoch[j] > 0 /\ phase'[j] = phase[j]
             /\ epoch'[j] = epoch[j] /\ record'[j] = epoch[j]

Ask(j)    == phase[j] = "open" /\ phase'[j] = "stopping"
             /\ epoch'[j] = epoch[j] /\ record'[j] = record[j]

Succeed(j) == phase[j] \in {"open", "stopping"} /\ epoch[j] > 0 /\ phase'[j] = "succeeded"
              /\ epoch'[j] = epoch[j] /\ record'[j] = epoch[j]

Fail(j)   == phase[j] = "open" /\ epoch[j] > 0 /\ phase'[j] = "failed"
             /\ epoch'[j] = epoch[j] /\ record'[j] = record[j]

Cancel(j) == phase[j] \in {"open", "stopping"} /\ phase'[j] = "cancelled"
             /\ epoch'[j] = epoch[j] /\ record'[j] = record[j]

Purge(j)  == phase[j] \in Settled /\ phase'[j] = "gone"
             /\ epoch'[j] = epoch[j] /\ record'[j] = record[j]

Step(j) == \/ Keep(j) \/ Open(j) \/ Grant(j) \/ Record(j) \/ Ask(j)
           \/ Succeed(j) \/ Fail(j) \/ Cancel(j) \/ Purge(j)

\* One transaction may move several jobs, each by a step of its own.
Next == \A j \in Job : Step(j)

Spec == Init /\ [][Next]_cvars
=============================================================================
