------------------------------- MODULE Billing -------------------------------
(***************************************************************************)
(* The credit account of one user (billing.py): its balance, the amount    *)
(* reserved on it, the holds behind that amount (credit_reservations) and  *)
(* the append-only ledger (credit_transactions).  The operators are the    *)
(* transactions of BillingService as the model gateway and the API use     *)
(* them; Gateway says when.  Two of them are not one step:                 *)
(*   - account_summary reads the status of linked requests without locking *)
(*     them, so a request may change before the transaction commits;       *)
(*   - adjust looks its idempotency key up before it locks the account.    *)
(* Amounts are whole units; formatting, rounding, the lifetime totals and  *)
(* the creation of the account row are left out.                           *)
(*                                                                         *)
(* An operator marked Faulty is no part of the model: it is its neighbour  *)
(* with a plausible bug, and shows that a property can fail.               *)
(***************************************************************************)
EXTENDS Integers, FiniteSets

CONSTANTS
    Request,          \* rows of ai_model_requests
    Embedding,        \* those of complete_embeddings: reference_type embedding_model
    Job, JobOf,       \* the job each request belongs to
    Amount,           \* what one attempt of a request reserves
    MaxUnit,          \* bound: no amount is larger
    MaxAttempts,      \* bound: attempts of a request
    Admin,            \* submissions of an adjustment form
    KeyOf, Adds       \* their idempotency key and amount

ASSUME BillingAssumption ==
    /\ IsFiniteSet(Request)
    /\ Embedding \subseteq Request
    /\ JobOf \in [Request -> Job]
    /\ MaxUnit \in Nat
    /\ MaxAttempts \in Nat
    /\ Amount \in [Request -> 0..MaxUnit]
    /\ \A r \in Embedding : Amount[r] > 0
    /\ DOMAIN KeyOf = Admin
    /\ Adds \in [Admin -> Int \ {0}]

VARIABLES
    balance,          \* UserCreditAccount.balance_usd
    reserved,         \* UserCreditAccount.reserved_usd
    hold,             \* CreditReservation per request and attempt
    ledger,           \* CreditTransaction: entries with a unique key
    request,          \* AIModelRequest: status, attempt_count, provider_cost_usd
    job,              \* WorkflowJob.status: running, away (queued, cancelled), ended
    admin,            \* the submissions: ready, looked (key not found), done
    summary           \* the account_summary in progress, if any

account == <<balance, reserved, hold, ledger>>

Hold == Request \X (1..MaxAttempts)

None == [open |-> FALSE, release |-> {}, fail |-> {}]

\* The account row is locked while an account_summary is in progress.
Unlocked == ~summary.open

Available == balance - reserved

InStatus(status) == {h \in Hold : hold[h].status = status}

\* The units that a set of holds reserves: their number is the sum of the amounts.
Units(holds) == {u \in holds \X (1..MaxUnit) : u[2] <= Amount[u[1][1]]}

Held(holds) == Cardinality(Units(holds))

\* max(ZERO, reserved - held)
Less(from, held) == IF from > held THEN from - held ELSE 0

Put(holds, status, cost) ==
    [h \in Hold |-> IF h \in holds THEN [status |-> status, charged |-> cost] ELSE hold[h]]

Entry(key, dbalance, dreserved) == [key |-> key, balance |-> dbalance, reserved |-> dreserved]

Posted(key) == \E e \in ledger : e.key = key

\* _append: an entry whose key exists is not added again; zero amounts are not posted.
AppendEntries(entries) ==
    ledger \cup {e \in entries : ~Posted(e.key) /\ (e.balance # 0 \/ e.reserved # 0)}

-----------------------------------------------------------------------------
(* Reconciliation.                                                         *)

\* _linked_request knows text_model and image_model only.
Linked(h) == h[1] \notin Embedding

\* The holds _release_terminal_job_holds releases ...
TerminalJobHolds ==
    {h \in InStatus("active") :
        /\ job[JobOf[h[1]]] = "ended"
        /\ ~(Linked(h) /\ request[h[1]].status = "succeeded")}

\* ... and the requests it fails on the way.
InterruptedRequests ==
    {r \in Request : request[r].status = "running"
                     /\ \E h \in TerminalJobHolds : h[1] = r /\ Linked(h)}

ReleaseEntries(holds) == {Entry(<<"release", h>>, 0, -Amount[h[1]]) : h \in holds}

\* Faulty: a status that no reader of the row knows.
FailedAsError(requests) ==
    [r \in Request |-> IF r \in requests THEN [request[r] EXCEPT !.status = "error"]
                       ELSE request[r]]

Failed(requests) ==
    [r \in Request |-> IF r \in requests THEN [request[r] EXCEPT !.status = "failed"]
                       ELSE request[r]]

\* account_summary: the account is locked, the statuses are read ...
SummaryReads ==
    /\ Unlocked
    /\ TerminalJobHolds # {}
    /\ summary' = [open |-> TRUE, release |-> TerminalJobHolds, fail |-> InterruptedRequests]
    /\ UNCHANGED <<account, request, job, admin>>

\* ... and what follows from them is committed.
SummaryCommits ==
    /\ summary.open
    /\ reserved' = Less(reserved, Held(summary.release))
    /\ hold' = Put(summary.release, "released", 0)
    /\ ledger' = AppendEntries(ReleaseEntries(summary.release))
    /\ request' = Failed(summary.fail)
    /\ summary' = None
    /\ UNCHANGED <<balance, job, admin>>

\* The API process or its connection goes away first: rollback.
SummaryLost ==
    /\ summary.open
    /\ summary' = None
    /\ UNCHANGED <<account, request, job, admin>>

-----------------------------------------------------------------------------
(* The transactions of a provider call.                                    *)

\* Faulty: credit that other calls have reserved is spent again.
ReserveWholeBalance(h) ==
    /\ Unlocked
    /\ hold[h].status = "none"
    /\ balance >= Amount[h[1]]
    /\ reserved' = reserved + Amount[h[1]]
    /\ hold' = Put({h}, "active", 0)
    /\ ledger' = AppendEntries({Entry(<<"reserve", h>>, 0, Amount[h[1]])})
    /\ UNCHANGED <<balance, request>>

\* reserve: reconcile, then hold what the account can still cover.  A refusal
\* (InsufficientCredit) rolls the reconciliation back with it.
Reserve(h) ==
    LET rest == Less(reserved, Held(TerminalJobHolds))
        kept == Put(TerminalJobHolds, "released", 0)
    IN /\ Unlocked
       /\ hold[h].status = "none"
       /\ balance - rest >= Amount[h[1]]
       /\ reserved' = rest + Amount[h[1]]
       /\ hold' = [kept EXCEPT ![h] = [status |-> "active", charged |-> 0]]
       /\ ledger' = AppendEntries(ReleaseEntries(TerminalJobHolds)
                                  \cup {Entry(<<"reserve", h>>, 0, Amount[h[1]])})
       /\ request' = Failed(InterruptedRequests)
       /\ UNCHANGED balance

\* Faulty: an overrun is charged up to the hold only, the entry says otherwise.
SettleCapped(h, cost) ==
    /\ Unlocked
    /\ hold[h].status = "active"
    /\ reserved' = Less(reserved, Amount[h[1]])
    /\ balance' = balance - (IF cost > Amount[h[1]] THEN Amount[h[1]] ELSE cost)
    /\ hold' = Put({h}, IF cost > Amount[h[1]] THEN "overrun" ELSE "settled", cost)
    /\ ledger' = AppendEntries({Entry(<<"settle", h>>, -cost, -Amount[h[1]])})

\* settle of an active hold; any other is left alone (settled, overrun) or an
\* error (released).
Settle(h, cost) ==
    /\ Unlocked
    /\ hold[h].status = "active"
    /\ reserved' = Less(reserved, Amount[h[1]])
    /\ balance' = balance - cost
    /\ hold' = Put({h}, IF cost > Amount[h[1]] THEN "overrun" ELSE "settled", cost)
    /\ ledger' = AppendEntries({Entry(<<"settle", h>>, -cost, -Amount[h[1]])})

\* Faulty: a hold that reconciliation released is released again.
ReleaseAgain(h) ==
    /\ Unlocked
    /\ reserved' = Less(reserved, Amount[h[1]])
    /\ hold' = Put({h}, "released", 0)
    /\ ledger' = AppendEntries(ReleaseEntries({h}))
    /\ UNCHANGED balance

\* release of an active hold; any other is left alone.
Release(h) ==
    /\ Unlocked
    /\ LET freed == {h} \cap InStatus("active")
       IN /\ reserved' = Less(reserved, Held(freed))
          /\ hold' = Put(freed, "released", 0)
          /\ ledger' = AppendEntries(ReleaseEntries(freed))
    /\ UNCHANGED balance

-----------------------------------------------------------------------------
(* adjust, by an administrator.                                            *)

AdminKey(a) == <<"admin", KeyOf[a]>>

\* The key is looked up; a known one ends the submission.
AdjustLooks(a) ==
    /\ admin[a] = "ready"
    /\ admin' = [admin EXCEPT ![a] = IF Posted(AdminKey(a)) THEN "done" ELSE "looked"]
    /\ UNCHANGED <<account, request, job, summary>>

\* With the account locked, a deduction must be covered by what is available.
AdjustApplies(a) ==
    /\ admin[a] = "looked"
    /\ Unlocked
    /\ admin' = [admin EXCEPT ![a] = "done"]
    /\ IF Adds[a] < 0 /\ Available + Adds[a] < 0
       THEN UNCHANGED account
       ELSE /\ balance' = balance + Adds[a]
            /\ ledger' = AppendEntries({Entry(AdminKey(a), Adds[a], 0)})
            /\ UNCHANGED <<reserved, hold>>
    /\ UNCHANGED <<request, job, summary>>

-----------------------------------------------------------------------------
\* The job of some requests is claimed, yields, is cancelled, or ends for good.
JobMoves(j) ==
    /\ job[j] # "ended"
    /\ job' = [job EXCEPT ![j] = IF job[j] = "running" THEN "away" ELSE "running"]
    /\ UNCHANGED <<account, request, admin, summary>>

JobEnds(j) ==
    /\ job[j] # "ended"
    /\ job' = [job EXCEPT ![j] = "ended"]
    /\ UNCHANGED <<account, request, admin, summary>>

BillingInit ==
    /\ balance = 0
    /\ reserved = 0
    /\ hold = [h \in Hold |-> [status |-> "none", charged |-> 0]]
    /\ ledger = {}
    /\ request = [r \in Request |-> [status |-> "none", attempt |-> 0, cost |-> 0]]
    /\ job = [j \in Job |-> "running"]
    /\ admin = [a \in Admin |-> "ready"]
    /\ summary = None

\* Steps outside the gateway process.
BillingNext ==
    \/ SummaryReads \/ SummaryCommits \/ SummaryLost
    \/ \E a \in Admin : AdjustLooks(a) \/ AdjustApplies(a)
    \/ \E j \in Job : JobMoves(j) \/ JobEnds(j)
=============================================================================
