------------------------------- MODULE Gateway -------------------------------
(***************************************************************************)
(* Provider calls of the model gateway: complete and complete_embeddings   *)
(* of model_gateway.py, and their use of the account of Billing.  A call   *)
(* is one HTTP request of a task; several may carry the same request key.  *)
(* The gateway is one asyncio process: between two awaits a call runs      *)
(* alone, but the API, the workers and a crash may come between any two of *)
(* its transactions.                                                       *)
(* Left out: which channel serves a call, the content of prompts and       *)
(* answers, the per-task budget (its refusal is one way a call fails), and *)
(* the provider's own retries inside _provider_call.                       *)
(***************************************************************************)
EXTENDS Billing, Functions

CONSTANTS
    Call,             \* bound: HTTP requests
    Cost              \* what a provider answer may cost

ASSUME GatewayAssumption == IsFiniteSet(Call) /\ Cost \subseteq Nat

VARIABLES call        \* the calls: where they are, their request and attempt

vars == <<account, request, job, admin, summary, call>>

\* Where a call is.  It awaits something at admitted (a slot of a text channel
\* or the embedding limiter), joined (the answer of another call), reserved (a
\* thread that checks the job and counts the attempt) and streaming; it holds
\* the event loop at begin, settling, failing and cached.
HoldsLoop == {"begin", "settling", "failing", "cached"}
Place == {"idle", "admitted", "joined", "reserved", "streaming", "done"} \cup HoldsLoop

LoopFreeFor(c) == \A d \in Call \ {c} : call[d].at \notin HoldsLoop

CallIn(c, places) == call[c].at \in places /\ LoopFreeFor(c)

Goes(c, place) == call' = [call EXCEPT ![c].at = place]

HoldOf(c) == <<call[c].of, call[c].attempt>>

Others == <<job, admin, summary>>

Init == BillingInit /\ call = [c \in Call |-> [at |-> "idle", of |-> "none", attempt |-> 0]]

-----------------------------------------------------------------------------
\* The token is verified and its job is live (_validate_live_job).
Enter(c, r) ==
    /\ CallIn(c, {"idle"})
    /\ job[JobOf[r]] = "running"
    /\ call' = [call EXCEPT ![c] = [at |-> "begin", of |-> r, attempt |-> 0]]
    /\ UNCHANGED <<account, request, Others>>

\* Faulty: a request that is running is started once more.
BeginAgain(c) ==
    LET r == call[c].of
        n == request[r].attempt + 1
    IN /\ CallIn(c, {"begin"})
       /\ request[r].status # "succeeded" /\ n <= MaxAttempts
       /\ request' = [request EXCEPT ![r].status = "running", ![r].attempt = n]
       /\ call' = [call EXCEPT ![c] = [at |-> "admitted", of |-> r, attempt |-> n]]
       /\ UNCHANGED <<account, Others>>

\* _begin_request: a new or failed request is (re)started, a running one joined,
\* a succeeded one answered from its row.  Only text answers are settled then.
Begin(c) ==
    LET r == call[c].of
        n == request[r].attempt + 1
        found(place) == /\ call' = [call EXCEPT ![c] = [at |-> place, of |-> r,
                                                        attempt |-> request[r].attempt]]
                        /\ UNCHANGED request
    IN /\ CallIn(c, {"begin"})
       /\ \/ /\ request[r].status \in {"none", "failed"} /\ n <= MaxAttempts
             /\ request' = [request EXCEPT ![r].status = "running", ![r].attempt = n]
             /\ call' = [call EXCEPT ![c] = [at |-> "admitted", of |-> r, attempt |-> n]]
          \/ request[r].status = "running" /\ found("joined")
          \/ /\ request[r].status = "succeeded"
             /\ found(IF r \in Embedding THEN "done" ELSE "cached")
       /\ UNCHANGED <<account, Others>>

\* _join_running_request: a poll finds the answer; or the request failed, or the
\* deadline passed while it was running.
Join(c) ==
    /\ CallIn(c, {"joined"})
    /\ IF request[call[c].of].status = "succeeded" /\ call[c].of \notin Embedding
       THEN Goes(c, "cached") ELSE Goes(c, "done")
    /\ UNCHANGED <<account, request, Others>>

\* settle_reference for an answer that was there already.
SettleCached(c) ==
    /\ CallIn(c, {"cached"})
    /\ IF hold[HoldOf(c)].status = "active"
       THEN Settle(HoldOf(c), request[call[c].of].cost)
       ELSE UNCHANGED account
    /\ Goes(c, "done")
    /\ UNCHANGED <<request, Others>>

\* A slot is free and the estimated amount is reserved.
ReserveCredit(c) ==
    /\ CallIn(c, {"admitted"})
    /\ Reserve(HoldOf(c))
    /\ Goes(c, IF call[c].of \in Embedding THEN "streaming" ELSE "reserved")
    /\ UNCHANGED Others

\* Faulty: the job is not looked at again.
SendUnchecked(c) ==
    /\ CallIn(c, {"reserved"})
    /\ Goes(c, "streaming")
    /\ UNCHANGED <<account, request, Others>>

\* _validate_live_job and _reserve_text_attempt, before the prompt is sent.
Send(c) ==
    /\ CallIn(c, {"reserved"})
    /\ job[JobOf[call[c].of]] = "running"
    /\ Goes(c, "streaming")
    /\ UNCHANGED <<account, request, Others>>

\* The answer is complete: _finish_request, whatever the row says by now.
Finish(c) == \E cost \in Cost :
    /\ CallIn(c, {"streaming"})
    /\ request' = [request EXCEPT ![call[c].of].status = "succeeded",
                                  ![call[c].of].cost = cost]
    /\ Goes(c, "settling")
    /\ UNCHANGED <<account, Others>>

SettleCall(c) ==
    /\ CallIn(c, {"settling"})
    /\ IF hold[HoldOf(c)].status = "active"
       THEN Settle(HoldOf(c), request[call[c].of].cost)
       ELSE UNCHANGED account
    /\ Goes(c, "done")
    /\ UNCHANGED <<request, Others>>

\* The call raises: its hold is released ...
ReleaseCredit(c) ==
    /\ CallIn(c, {"reserved", "streaming"})
    /\ Release(HoldOf(c))
    /\ Goes(c, "failing")
    /\ UNCHANGED <<request, Others>>

\* ... and the request fails; likewise if it was not admitted or not covered.
Fail(c) ==
    /\ CallIn(c, {"failing", "admitted"})
    /\ request' = Failed({call[c].of})
    /\ Goes(c, "done")
    /\ UNCHANGED <<account, Others>>

\* A transaction of the call fails, or a poll of a joined one.  Settlement and
\* cleanup are not tried again; a failing reservation or _finish_request is a call
\* that raises (Fail, ReleaseCredit), unless its cleanup fails too.
TransactionFails(c) ==
    /\ CallIn(c, Place \ {"idle", "done"})
    /\ Goes(c, "done")
    /\ UNCHANGED <<account, request, Others>>

\* The gateway process ends and takes its calls along.
Crash ==
    /\ \E c \in Call : call[c].at \notin {"idle", "done"}
    /\ call' = [c \in Call |-> IF call[c].at = "idle" THEN call[c]
                               ELSE [call[c] EXCEPT !.at = "done"]]
    /\ UNCHANGED <<account, request, Others>>

Next ==
    \/ BillingNext /\ UNCHANGED call
    \/ \E c \in Call :
         \/ \E r \in Request : Enter(c, r)
         \/ Begin(c) \/ Join(c) \/ SettleCached(c) \/ ReserveCredit(c) \/ Send(c)
         \/ Finish(c) \/ SettleCall(c) \/ ReleaseCredit(c) \/ Fail(c) \/ TransactionFails(c)
    \/ Crash

Spec == Init /\ [][Next]_vars

-----------------------------------------------------------------------------
(* Properties.                                                             *)

Status == {"none", "active", "settled", "overrun", "released"}

\* The account, its holds, the requests and the calls keep their types.
BillingTypeOK ==
    /\ balance \in Int
    /\ reserved \in Nat
    /\ hold \in [Hold -> [status : Status, charged : Nat]]
    /\ \A e \in ledger : e.balance \in Int /\ e.reserved \in Int
    /\ request \in [Request -> [status : {"none", "running", "succeeded", "failed"},
                                attempt : 0..MaxAttempts, cost : Nat]]
    /\ job \in [Job -> {"running", "away", "ended"}]
    /\ admin \in [Admin -> {"ready", "looked", "done"}]
    /\ summary \in [open : BOOLEAN, release : SUBSET Hold, fail : SUBSET Request]
    /\ call \in [Call -> [at : Place, of : Request \cup {"none"}, attempt : 0..MaxAttempts]]

\* reserved_usd is what the active holds reserve, however settlement, release and
\* the reconciliation of ended jobs come after one another (billing.py:146,310,381).
HoldsAreReserved == reserved = Held(InStatus("active"))

\* The balance and the reserved amount are the sums of the ledger ("derived from
\* the immutable credit ledger", database.py:117).
BalanceIsLedger ==
    /\ balance = SumFunction([e \in ledger |-> e.balance])
    /\ reserved = SumFunction([e \in ledger |-> e.reserved])

Charged(r) == {h \in InStatus("settled") \cup InStatus("overrun") : h[1] = r}

\* A request is charged for one attempt at most, and for the answer its row has:
\* a retry, a joining call or an interrupted settlement never charges it twice.
ChargedOnce == \A r \in Request :
    /\ Cardinality(Charged(r)) <= 1
    /\ \A h \in Charged(r) : request[r].status = "succeeded" /\ hold[h].charged = request[r].cost

\* The provider never works on two attempts of one request at a time, not even
\* when reconciliation failed the first while it was streaming.
OneAttemptStreams == \A c, d \in Call :
    call[c].at = "streaming" /\ call[d].at = "streaming" /\ call[c].of = call[d].of => c = d

Excess(h) == hold[h].charged - Amount[h[1]]

\* What is available falls below zero by overruns only: concurrent calls and
\* deductions never commit the same credit twice (billing.py:238,424).
OverdrawnByOverrunsOnly ==
    Available + SumFunction([h \in InStatus("overrun") |-> Excess(h)]) >= 0

\* A step releases the hold of no request that succeeded: "A successfully metered
\* request is deliberately left untouched so it can still be reconciled at cost"
\* (billing.py:113-114).
MeteredHoldsStay == [][\A h \in Hold :
    hold[h].status = "active" /\ hold'[h].status = "released"
        => request[h[1]].status # "succeeded"]_vars

\* What the user sees of it all: whatever holds, attempts, calls that join, crashes and
\* reconciliation there are, the account only moves as ChargeContract says.
Charges == INSTANCE ChargeContract WITH
    taken <- {a \in Admin : admin[a] = "done"},
    answer <- [r \in Request |-> IF request[r].status = "succeeded" THEN {request[r].cost} ELSE {}],
    paid <- [r \in Request |-> {hold[h].charged : h \in Charged(r)}]

KeepsChargeContract == Charges!Spec

-----------------------------------------------------------------------------
(* The attempts of a request: it is orderly, or it is closed.              *)

\* A call that has started an attempt and not ended it.
Works(c) == call[c].at \in {"admitted", "reserved", "streaming", "settling", "failing"}

WorkersOf(r) == {c \in Call : Works(c) /\ call[c].of = r}

Latest(r) == <<r, request[r].attempt>>

IsCharged(h) == hold[h].status \in {"settled", "overrun"}

\* Every attempt has a worker at most, and a hold from its reservation on.
AttemptsOK ==
    /\ \A c, d \in Call : Works(c) /\ Works(d) /\ HoldOf(c) = HoldOf(d) => c = d
    /\ \A c \in Call : Works(c) =>
          /\ call[c].at = "admitted" <=> hold[HoldOf(c)].status = "none"
          /\ call[c].at = "failing" => hold[HoldOf(c)].status # "active"
    /\ \A h \in Hold : h[2] > request[h[1]].attempt => hold[h].status = "none"

\* One call at a time holds the event loop; what is cached was answered.
LoopOK ==
    /\ \A c, d \in Call : call[c].at \in HoldsLoop /\ call[d].at \in HoldsLoop => c = d
    /\ \A c \in Call : call[c].at = "cached" =>
          request[call[c].of].status \in {"succeeded", "failed"}

\* Only such requests are failed from outside their calls.
MayBeFailed(r) == job[JobOf[r]] = "ended" /\ r \notin Embedding

\* An account_summary fails a request together with the hold of its latest attempt.
SummaryFails ==
    \A r \in summary.fail : summary.open /\ Latest(r) \in summary.release /\ MayBeFailed(r)

Sound(c) == request[call[c].of].status = IF call[c].at = "settling" THEN "succeeded" ELSE "running"

\* As long as a request is orderly, its worker works on the latest attempt, unless
\* reconciliation has failed it and released the hold.
WorkersAreLatest(r) == \A c \in WorkersOf(r) :
    /\ HoldOf(c) = Latest(r)
    /\ \/ Sound(c)
       \/ request[r].status = "failed" /\ MayBeFailed(r) /\ hold[HoldOf(c)].status = "released"

ActiveIsLatest(r) == \A h \in Hold : h[1] = r /\ hold[h].status = "active" =>
    h = Latest(r) /\ request[r].status \in {"running", "succeeded"}

ChargedIsFinal(r) == \A h \in Hold : h[1] = r /\ IsCharged(h) =>
    /\ h = Latest(r)
    /\ request[r].status = "succeeded" /\ hold[h].charged = request[r].cost
    /\ WorkersOf(r) = {}

Orderly(r) == WorkersAreLatest(r) /\ ActiveIsLatest(r) /\ ChargedIsFinal(r)

\* It is closed when it was started once more after reconciliation had failed it:
\* its job has ended, so that nobody will begin it again, join the latest attempt or
\* send it ...
LatestIsStuck(r) == \A c \in Call : call[c].of = r =>
    /\ call[c].at # "begin"
    /\ call[c].at \in {"joined", "cached", "streaming", "settling"} =>
          call[c].attempt # request[r].attempt

\* ... and the one worker of an older attempt has lost its hold.
OldWorkersLost(r) == \A c, d \in WorkersOf(r) : HoldOf(c) # Latest(r) =>
    /\ hold[HoldOf(c)].status = "released"
    /\ HoldOf(d) # Latest(r) => c = d

NothingCharged(r) == \A h \in Hold : h[1] = r =>
    /\ hold[h].status = "active" => h = Latest(r)
    /\ ~ IsCharged(h)

Closed(r) == MayBeFailed(r) /\ LatestIsStuck(r) /\ OldWorkersLost(r) /\ NothingCharged(r)

\* The invariant that OneAttemptStreams and ChargedOnce rest on (AttemptsProofs).
AttemptsInv == AttemptsOK /\ LoopOK /\ SummaryFails /\ \A r \in Request : Orderly(r) \/ Closed(r)
=============================================================================
