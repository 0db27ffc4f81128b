-------------------------- MODULE WorkerQueueProofs --------------------------
(***************************************************************************)
(* Proofs about WorkerQueue, for every set of jobs, users and workers,     *)
(* every lease length and every clock lag.                                 *)
(*                                                                         *)
(* Every step moves each row by one of the moves of RowStep, a relation    *)
(* between two records; what must hold of a row is then proved once, from  *)
(* RowStep, instead of once per action.  Likewise every step moves each    *)
(* execution by CtxMove.                                                   *)
(***************************************************************************)
EXTENDS WorkerQueue, FiniteSetTheorems, TLAPS

-----------------------------------------------------------------------------
(***************************************************************************)
(* The moves of a row.                                                     *)
(***************************************************************************)
\* The lease of a row is the one its latest claim minted.
LeaseCurrent(r) == r.status \in Held /\ r.token = r.gen /\ r.gen > 0

Reason == {"none", "model_waiting", "retry"}

MoveCreate(r, s)  == /\ r.status = "absent"
                     /\ \E b \in Nat : s = [NoRow EXCEPT !.status = "queued", !.born = b]
MoveCancel(r, s)  == r.status \in Unfinished /\ s = Cancelled(r)
MoveDequeue(r, s) == r.status = "queued" /\ s = [r EXCEPT !.status = "cancelled", !.flag = TRUE]
MoveAsk(r, s)     == /\ r.status = "running"
                     /\ s = [r EXCEPT !.status = "cancel_requested", !.flag = TRUE]
MoveExpire(r, s)  == /\ r.status = "cancel_requested"
                     /\ s = [Unleased(r) EXCEPT !.status = "cancelled"]
MovePurge(r, s)   == /\ r.status \in Terminal \cup {"gone"}
                     /\ s = [NoRow EXCEPT !.status = "gone", !.gen = r.gen, !.writer = r.writer]
MoveTick(r, s)    == s = TickRow(r)
MoveWake(r, s)    == \E n \in Int : s = [r EXCEPT !.wait = n]
MoveRenew(r, s)   == /\ LeaseCurrent(r)
                     /\ \E lag \in 0..TxLag :
                           LeaseLive(r, lag) /\ s = [r EXCEPT !.ttl = Lease - lag]
MoveClaim(r, s)   == /\ r.status \in {"queued", "running"}
                     /\ \E lag \in 0..TxLag : s = Claimed(r, lag)
MoveWrite(r, s)   == LeaseCurrent(r) /\ s = [r EXCEPT !.writer = r.gen]
MoveSucceed(r, s) == /\ LeaseCurrent(r)
                     /\ s = [Unleased(r) EXCEPT !.status = "succeeded", !.flag = FALSE,
                                                !.writer = r.gen]
MoveRelease(r, s) == /\ LeaseCurrent(r) /\ r.status = "running" /\ ~r.flag
                     /\ \E d \in Nat, why \in Reason, lag \in 0..TxLag :
                           s = Released(r, d, why, lag)
MoveFail(r, s)    == /\ LeaseCurrent(r) /\ r.status = "running" /\ ~r.flag
                     /\ s = [Unleased(r) EXCEPT !.status = "failed"]

\* All of them but the creation of the row, its claim and its purge.
RowMove(r, s) ==
    \/ s = r
    \/ MoveCancel(r, s) \/ MoveDequeue(r, s) \/ MoveAsk(r, s)
    \/ MoveExpire(r, s) \/ MoveTick(r, s) \/ MoveWake(r, s)
    \/ MoveRenew(r, s) \/ MoveWrite(r, s) \/ MoveSucceed(r, s)
    \/ MoveRelease(r, s) \/ MoveFail(r, s)

RowStep(r, s) == MoveCreate(r, s) \/ MoveClaim(r, s) \/ MovePurge(r, s) \/ RowMove(r, s)

LEMMA ClockType == TxLag \in Nat /\ Lease \in Nat /\ Lease > TxLag
  BY JobTableAssumption

LEMMA NoRowType == NoRow \in Row /\ NoRow.gen = 0 /\ NoRow.writer = 0
  BY ClockType DEF NoRow, Row, Status

LEMMA LeaseColumns ==
    ASSUME NEW r \in Row, NEW t \in Nat, NEW l \in Int
    PROVE  [r EXCEPT !.token = t, !.ttl = l] \in Row
  BY DEF Row

LEMMA UnleasedType ==
    ASSUME NEW r \in Row
    PROVE  Unleased(r) \in Row /\ Unleased(r).gen = r.gen
<1>1. 0 \in Nat /\ 0 \in Int
  OBVIOUS
<1>2. Unleased(r) \in Row
  BY <1>1, LeaseColumns, Zenon DEF Unleased
<1>3. Unleased(r).gen = r.gen
  BY DEF Unleased, Row
<1> QED
  BY <1>2, <1>3

LEMMA ClaimColumns ==
    ASSUME NEW r \in Row, NEW t \in Nat, NEW g \in Nat, NEW l \in Int, NEW n \in Int
    PROVE  [r EXCEPT !.status = "running", !.flag = FALSE, !.token = t, !.gen = g,
                     !.ttl = l, !.wait = n, !.reason = "none"] \in Row
  BY DEF Row, Status, Unfinished

LEMMA ClaimedType ==
    ASSUME NEW r \in Row, NEW lag \in Int
    PROVE  Claimed(r, lag) \in Row /\ Claimed(r, lag).gen = r.gen + 1
<1>1. r.gen + 1 \in Nat /\ Lease - lag \in Int /\ -TxLag \in Int
  BY ClockType DEF Row
<1>2. Claimed(r, lag) \in Row
  BY <1>1, ClaimColumns, Zenon DEF Claimed
<1>3. Claimed(r, lag).gen = r.gen + 1
  BY DEF Claimed, Row
<1> QED
  BY <1>2, <1>3

LEMMA ReleasedType ==
    ASSUME NEW r \in Row, NEW d \in Nat, NEW why \in Reason, NEW lag \in Int
    PROVE  Released(r, d, why, lag) \in Row /\ Released(r, d, why, lag).gen = r.gen
<1>1. (IF d > 0 THEN d - lag ELSE -TxLag) \in Int
  BY ClockType
<1>2. (IF d > 0 THEN why ELSE "none") \in Reason
  BY DEF Reason
<1> QED
  BY <1>1, <1>2, UnleasedType DEF Released, Row, Status, Unfinished, Reason

LEMMA TickType ==
    ASSUME NEW r \in Row
    PROVE  TickRow(r) \in Row /\ TickRow(r).gen = r.gen
<1>1. \A n \in Int : CountDown(n) \in Int
  BY DEF CountDown
<1> QED
  BY <1>1 DEF TickRow, Row

LEMMA PurgedType ==
    ASSUME NEW g \in Nat, NEW k \in Nat
    PROVE  LET s == [NoRow EXCEPT !.status = "gone", !.gen = g, !.writer = k]
           IN  s \in Row /\ s.gen = g
  BY NoRowType DEF Row, Status

\* A move of a row yields a row, and generations only grow.
LEMMA RowStepType ==
    ASSUME NEW r \in Row, NEW s, RowStep(r, s), RowConsistent(r)
    PROVE  s \in Row /\ s.gen \in {r.gen, r.gen + 1}
<1>1. CASE s = r
  BY <1>1 DEF Row
<1>2. CASE MoveCreate(r, s)
  BY <1>2, NoRowType DEF MoveCreate, RowConsistent, Row, Status, Unfinished
<1>3. CASE MoveCancel(r, s)
  BY <1>3, UnleasedType DEF MoveCancel, Cancelled, Row, Status, Terminal
<1>4. CASE MoveDequeue(r, s)
  BY <1>4 DEF MoveDequeue, Row, Status, Terminal
<1>5. CASE MoveAsk(r, s)
  BY <1>5 DEF MoveAsk, Row, Status, Unfinished
<1>6. CASE MoveExpire(r, s)
  BY <1>6, UnleasedType DEF MoveExpire, Row, Status, Terminal
<1>7. CASE MovePurge(r, s)
  BY <1>7, PurgedType DEF MovePurge, Row
<1>8. CASE MoveTick(r, s)
  BY <1>8, TickType DEF MoveTick
<1>9. CASE MoveWake(r, s)
  BY <1>9 DEF MoveWake, Row
<1>10. CASE MoveRenew(r, s)
  BY <1>10, ClockType DEF MoveRenew, Row
<1>11. CASE MoveClaim(r, s)
  BY <1>11, ClaimedType DEF MoveClaim
<1>12. CASE MoveWrite(r, s)
  BY <1>12 DEF MoveWrite, Row
<1>13. CASE MoveSucceed(r, s)
  BY <1>13, UnleasedType DEF MoveSucceed, Row, Status, Terminal
<1>14. CASE MoveRelease(r, s)
  BY <1>14, ReleasedType DEF MoveRelease
<1>15. CASE MoveFail(r, s)
  BY <1>15, UnleasedType DEF MoveFail, Row, Status, Terminal
<1> QED
  BY <1>1, <1>2, <1>3, <1>4, <1>5, <1>6, <1>7, <1>8, <1>9, <1>10, <1>11, <1>12, <1>13, <1>14, <1>15
     DEF RowStep, RowMove

\* A move keeps the lease, the status and the flag of a row in agreement.
LEMMA RowStepConsistent ==
    ASSUME NEW r \in Row, NEW s, RowStep(r, s), RowConsistent(r)
    PROVE  RowConsistent(s)
<1> USE ClockType DEF Row, Status, Unfinished, Terminal, Held, LeaseCurrent, RowConsistent
<1>1. CASE s = r
  BY <1>1
<1>2. CASE MoveCreate(r, s)
  BY <1>2 DEF MoveCreate, NoRow
<1>3. CASE MoveCancel(r, s)
  BY <1>3 DEF MoveCancel, Cancelled, Unleased
<1>4. CASE MoveDequeue(r, s)
  BY <1>4 DEF MoveDequeue
<1>5. CASE MoveAsk(r, s)
  BY <1>5 DEF MoveAsk
<1>6. CASE MoveExpire(r, s)
  BY <1>6 DEF MoveExpire, Unleased
<1>7. CASE MovePurge(r, s)
  BY <1>7 DEF MovePurge, NoRow
<1>8. CASE MoveTick(r, s)
  BY <1>8 DEF MoveTick, TickRow
<1>9. CASE MoveWake(r, s)
  BY <1>9 DEF MoveWake
<1>10. CASE MoveRenew(r, s)
  BY <1>10 DEF MoveRenew
<1>11. CASE MoveClaim(r, s)
  BY <1>11 DEF MoveClaim, Claimed
<1>12. CASE MoveWrite(r, s)
  BY <1>12 DEF MoveWrite
<1>13. CASE MoveSucceed(r, s)
  BY <1>13 DEF MoveSucceed, Unleased
<1>14. CASE MoveRelease(r, s)
  BY <1>14 DEF MoveRelease, Released, Unleased
<1>15. CASE MoveFail(r, s)
  BY <1>15 DEF MoveFail, Unleased
<1> QED
  BY <1>1, <1>2, <1>3, <1>4, <1>5, <1>6, <1>7, <1>8, <1>9, <1>10, <1>11, <1>12, <1>13, <1>14, <1>15
     DEF RowStep, RowMove

\* Only its creation makes a row unfinished, only a claim starts a job or lets
\* it be held, and only its purge takes its rank away.
LEMMA RowMoveKeeps ==
    ASSUME NEW r \in Row, NEW s, RowMove(r, s), RowConsistent(r)
    PROVE  /\ s.status \in Unfinished => r.status \in Unfinished
           /\ s.gen = 0 /\ s.status = "queued" => r.status = "queued"
           /\ s.status \in Held => r.status \in Held
           /\ s.gen = r.gen
           /\ s.born = r.born
<1> USE ClockType DEF Row, Status, Unfinished, Terminal, Held, LeaseCurrent, RowConsistent
<1>1. CASE s = r
  BY <1>1
<1>2. CASE MoveCancel(r, s)
  BY <1>2 DEF MoveCancel, Cancelled, Unleased
<1>3. CASE MoveDequeue(r, s)
  BY <1>3 DEF MoveDequeue
<1>4. CASE MoveAsk(r, s)
  BY <1>4 DEF MoveAsk
<1>5. CASE MoveExpire(r, s)
  BY <1>5 DEF MoveExpire, Unleased
<1>6. CASE MoveTick(r, s)
  BY <1>6 DEF MoveTick, TickRow
<1>7. CASE MoveWake(r, s)
  BY <1>7 DEF MoveWake
<1>8. CASE MoveRenew(r, s)
  BY <1>8 DEF MoveRenew
<1>9. CASE MoveWrite(r, s)
  BY <1>9 DEF MoveWrite
<1>10. CASE MoveSucceed(r, s)
  BY <1>10 DEF MoveSucceed, Unleased
<1>11. CASE MoveRelease(r, s)
  BY <1>11 DEF MoveRelease, Released, Unleased
<1>12. CASE MoveFail(r, s)
  BY <1>12 DEF MoveFail, Unleased
<1> QED
  BY <1>1, <1>2, <1>3, <1>4, <1>5, <1>6, <1>7, <1>8, <1>9, <1>10, <1>11, <1>12
     DEF RowMove

-----------------------------------------------------------------------------
(***************************************************************************)
(* Every step moves the rows by RowStep.                                   *)
(***************************************************************************)
IsTable == row' = [j \in Job |-> row'[j]]

Moves == IsTable /\ \A j \in Job : RowMove(row[j], row'[j])

\* An execution whose lease matches holds the current lease of its job.
LEMMA MatchIsCurrent ==
    ASSUME TypeOK, RowsConsistent, Executions,
           NEW w \in Worker, Busy(w), NEW lag \in 0..TxLag, LeaseMatches(w, lag)
    PROVE  /\ ctx[w].job \in Job /\ LeaseCurrent(row[ctx[w].job])
           /\ row[ctx[w].job].gen = ctx[w].gen /\ LeaseLive(row[ctx[w].job], lag)
<1>1. ctx[w].job \in Job /\ ctx[w].gen > 0
  BY DEF Executions
<1>2. row[ctx[w].job] \in Row /\ RowConsistent(row[ctx[w].job])
  BY <1>1 DEF TypeOK, RowsConsistent
<1> QED
  BY <1>1, <1>2 DEF LeaseMatches, LeaseCurrent, RowConsistent

\* A step that changes the row of one job is a move of the table.
LEMMA OneRowMoves ==
    ASSUME TypeOK, NEW j \in Job, NEW s, row' = [row EXCEPT ![j] = s], RowMove(row[j], s)
    PROVE  Moves
<1>1. \A i \in Job : RowMove(row[i], row[i])
  BY DEF RowMove
<1> QED
  BY <1>1 DEF TypeOK, Moves, IsTable

LEMMA NoRowMoves ==
    ASSUME TypeOK, UNCHANGED row
    PROVE  Moves
  BY DEF TypeOK, Moves, IsTable, RowMove

\* The repairs of a claim: each row is cancelled, expires or stays.
LEMMA SweptRow ==
    ASSUME TypeOK, NEW lag \in 0..TxLag, NEW j \in Job
    PROVE  /\ RowMove(row[j], Swept(lag)[j])
           /\ Swept(lag)[j].status \in {"queued", "running"} => Swept(lag)[j] = row[j]
<1>1. CASE row[j].status \in Unfinished /\ ~ActiveProject(j)
  <2>1. Swept(lag)[j] = Cancelled(row[j])
    BY <1>1 DEF Swept
  <2>2. Swept(lag)[j].status = "cancelled"
    BY <2>1, UnleasedType DEF Cancelled, Row, TypeOK
  <2> QED
    BY <1>1, <2>1, <2>2 DEF RowMove, MoveCancel
<1>2. CASE ~(row[j].status \in Unfinished /\ ~ActiveProject(j))
           /\ row[j].status = "cancel_requested" /\ LeaseExpired(row[j], lag)
  <2>1. Swept(lag)[j] = [Unleased(row[j]) EXCEPT !.status = "cancelled"]
    BY <1>2 DEF Swept
  <2>2. Swept(lag)[j].status = "cancelled"
    BY <2>1, UnleasedType DEF Row, TypeOK
  <2> QED
    BY <1>2, <2>1, <2>2 DEF RowMove, MoveExpire
<1>3. CASE ~(row[j].status \in Unfinished /\ ~ActiveProject(j))
           /\ ~(row[j].status = "cancel_requested" /\ LeaseExpired(row[j], lag))
  <2>1. Swept(lag)[j] = row[j]
    BY <1>3 DEF Swept
  <2> QED
    BY <2>1 DEF RowMove
<1> QED
  BY <1>1, <1>2, <1>3

\* The purge of a project erases its rows: none of them is unfinished.
Erases(p) == /\ IsTable
             /\ \A j \in Job : IF JobProject[j] = p /\ row[j].status # "absent"
                               THEN MovePurge(row[j], row'[j]) ELSE row'[j] = row[j]

LEMMA PurgeErases ==
    ASSUME TypeOK, DeletedProjectsAreQuiet, NEW p \in Project, PurgeProject(p)
    PROVE  Erases(p)
<1>1. ASSUME NEW j \in Job, JobProject[j] = p, row[j].status # "absent"
      PROVE  MovePurge(row[j], row'[j])
  <2>1. ~ActiveProject(j)
    BY <1>1, JobTableAssumption DEF PurgeProject, ActiveProject
  <2>2. row[j].status \in Terminal \cup {"gone"}
    BY <1>1, <2>1 DEF DeletedProjectsAreQuiet, TypeOK, Row, Status
  <2>3. row'[j] = [NoRow EXCEPT !.status = "gone", !.gen = row[j].gen, !.writer = row[j].writer]
    BY <1>1 DEF PurgeProject
  <2> QED
    BY <2>2, <2>3 DEF MovePurge
<1> QED
  BY <1>1 DEF PurgeProject, Erases, IsTable

\* The transactions of the API, but for the creation of a job and the purge.
LEMMA ApiMoves ==
    ASSUME TypeOK, ApiNext, \A j \in Job : ~Submit(j), \A p \in Project : ~PurgeProject(p)
    PROVE  Moves
<1>1. ASSUME NEW j \in Job, RequestCancel(j) PROVE Moves
  <2>1. CASE row[j].status = "queued"
    <3>1. row' = [row EXCEPT ![j] = [row[j] EXCEPT !.status = "cancelled", !.flag = TRUE]]
      BY <1>1, <2>1 DEF RequestCancel, TypeOK
    <3> QED
      BY <2>1, <3>1, OneRowMoves DEF RowMove, MoveDequeue
  <2>2. CASE row[j].status = "running"
    <3>1. row' = [row EXCEPT ![j] = [row[j] EXCEPT !.status = "cancel_requested", !.flag = TRUE]]
      BY <1>1, <2>2 DEF RequestCancel, TypeOK
    <3> QED
      BY <2>2, <3>1, OneRowMoves DEF RowMove, MoveAsk
  <2> QED
    BY <1>1, <2>1, <2>2 DEF RequestCancel
<1>2. ASSUME NEW p \in Project, DeleteProject(p) PROVE Moves
  <2>1. ASSUME NEW j \in Job PROVE RowMove(row[j], row'[j])
    BY <1>2 DEF DeleteProject, RowMove, MoveCancel
  <2> QED
    BY <1>2, <2>1 DEF DeleteProject, Moves, IsTable
<1>3. ASSUME NEW p \in Project, RestoreProject(p) PROVE Moves
  BY <1>3, NoRowMoves DEF RestoreProject
<1>4. ASSUME NEW b \in Batch, CancelBatch(b) PROVE Moves
  <2>1. ASSUME NEW j \in Job PROVE RowMove(row[j], row'[j])
    BY <1>4 DEF CancelBatch, RowMove, MoveDequeue
  <2> QED
    BY <1>4, <2>1 DEF CancelBatch, Moves, IsTable
<1>5. ASSUME NEW q \in Queue, SetPaused(q) PROVE Moves
  BY <1>5, NoRowMoves DEF SetPaused
<1>6. CASE Tick
  <2>1. \A j \in Job : RowMove(row[j], row'[j])
    BY <1>6 DEF Tick, RowMove, MoveTick
  <2> QED
    BY <1>6, <2>1 DEF Tick, Moves, IsTable
<1> QED
  BY <1>1, <1>2, <1>3, <1>4, <1>5, <1>6 DEF ApiNext

\* A claim repairs rows and takes one swept row that is queued or running, if
\* it takes any.
Grants(j, lag) ==
    /\ IsTable
    /\ Claimable(Swept(lag), j, lag)
    /\ Swept(lag)[j] = row[j] /\ MoveClaim(row[j], row'[j])
    /\ \A i \in Job : i # j => row'[i] = Swept(lag)[i] /\ RowMove(row[i], row'[i])

LEMMA ClaimGrants ==
    ASSUME TypeOK, NEW w \in Worker, Claim(w)
    PROVE  Moves \/ \E j \in Job, lag \in 0..TxLag : Grants(j, lag)
<1>1. PICK lag \in 0..TxLag :
         \/ \E j \in Supports[w] : /\ Claimable(Swept(lag), j, lag)
                                   /\ row' = [Swept(lag) EXCEPT ![j] = Claimed(@, lag)]
         \/ row' = Swept(lag)
  BY DEF Claim
<1>2. Swept(lag) = [j \in Job |-> Swept(lag)[j]]
  BY DEF Swept
<1>3. CASE row' = Swept(lag)
  <2>1. row' = [j \in Job |-> row'[j]]
    BY <1>2, <1>3
  <2>2. \A j \in Job : RowMove(row[j], row'[j])
    BY <1>3, SweptRow
  <2> QED
    BY <2>1, <2>2 DEF Moves, IsTable
<1>4. ASSUME NEW j \in Supports[w], Claimable(Swept(lag), j, lag),
             row' = [Swept(lag) EXCEPT ![j] = Claimed(@, lag)]
      PROVE  j \in Job /\ Grants(j, lag)
  <2>1. j \in Job
    BY WorkerAssumption
  <2>2. Swept(lag)[j].status \in {"queued", "running"}
    BY <1>4 DEF Claimable, Eligible
  <2>3. Swept(lag)[j] = row[j]
    BY <2>1, <2>2, SweptRow
  <2>4. row'[j] = Claimed(row[j], lag)
    BY <1>2, <1>4, <2>1, <2>3
  <2>5. MoveClaim(row[j], row'[j])
    BY <2>2, <2>3, <2>4 DEF MoveClaim
  <2>6. \A i \in Job : i # j => row'[i] = Swept(lag)[i]
    BY <1>2, <1>4
  <2>7. row' = [i \in Job |-> row'[i]]
    BY <1>2, <1>4
  <2> QED
    BY <1>4, <2>1, <2>3, <2>5, <2>6, <2>7, SweptRow DEF Grants, IsTable
<1> QED
  BY <1>1, <1>3, <1>4

\* The transactions of an execution move its own row by its current lease; a
\* finished model.dispatch may wake its parent.
LEMMA ExecutionMoves ==
    ASSUME TypeOK, RowsConsistent, Executions, NEW w \in Worker,
           \/ Heartbeat(w) \/ HeartbeatFails(w) \/ Execute(w)
           \/ Stop(w) \/ Crash(w) \/ Restart(w)
    PROVE  Moves
<1> DEFINE j == ctx[w].job
           r == row[j]
<1>1. ASSUME NEW lag \in 0..TxLag, Busy(w), LeaseMatches(w, lag)
      PROVE  /\ j \in Job /\ r \in Row /\ LeaseCurrent(r) /\ r.gen = ctx[w].gen
             /\ LeaseLive(r, lag)
  BY <1>1, MatchIsCurrent DEF TypeOK
<1>2. CASE Heartbeat(w)
  <2>1. ASSUME NEW lag \in 0..TxLag, LeaseMatches(w, lag), row' = [row EXCEPT ![j].ttl = Lease - lag]
        PROVE  Moves
    <3>1. row' = [row EXCEPT ![j] = [r EXCEPT !.ttl = Lease - lag]]
      BY <2>1
    <3>2. RowMove(r, [r EXCEPT !.ttl = Lease - lag])
      BY <1>1, <1>2, <2>1 DEF RowMove, MoveRenew, Heartbeat
    <3> QED
      BY <1>1, <1>2, <2>1, <3>1, <3>2, OneRowMoves DEF Heartbeat
  <2> QED
    BY <1>2, <2>1, NoRowMoves DEF Heartbeat
<1>3. ASSUME NEW lag \in 0..TxLag, Busy(w), LeaseMatches(w, lag), Write(w) PROVE Moves
  <2>1. row' = [row EXCEPT ![j] = [r EXCEPT !.writer = r.gen]]
    BY <1>1, <1>3 DEF Write
  <2> QED
    BY <1>1, <1>3, <2>1, OneRowMoves DEF RowMove, MoveWrite
<1>4. CASE ReportProgress(w) \/ ReportPartialResult(w)
  BY <1>3, <1>4 DEF ReportProgress, ReportPartialResult, Busy
<1>5. CASE Succeed(w)
  <2> DEFINE s == [Unleased(r) EXCEPT !.status = "succeeded", !.flag = FALSE, !.writer = r.gen]
  <2>1. ASSUME NEW lag \in 0..TxLag, LeaseMatches(w, lag),
               row' = Woken([row EXCEPT ![j] = [Unleased(@) EXCEPT
                               !.status = "succeeded", !.flag = FALSE, !.writer = ctx[w].gen]], j, lag)
        PROVE  Moves
    <3>1. j \in Job /\ r.gen = ctx[w].gen /\ r \in Row /\ RowMove(r, s)
      BY <1>1, <1>5, <2>1 DEF Succeed, Busy, RowMove, MoveSucceed
    <3> DEFINE t == [row EXCEPT ![j] = s]
               p == JobParent[j]
    <3>2. row' = Woken(t, j, lag)
      BY <2>1, <3>1
    <3>3. \A i \in Job : RowMove(row[i], t[i])
      BY <3>1 DEF RowMove, TypeOK
    <3>4. CASE row' = t
      BY <3>3, <3>4 DEF Moves, IsTable, TypeOK
    <3>5. CASE row' = [t EXCEPT ![p].wait = -lag] /\ p # NoJob /\ t[p].status = "queued"
      <4>1. p \in Job
        BY <3>1, <3>5, JobTableAssumption
      <4>2. s.status = "succeeded"
        BY <3>1, UnleasedType DEF Row
      <4>3. p # j /\ t[p] = row[p]
        BY <3>1, <3>5, <4>1, <4>2 DEF TypeOK
      <4>4. row'[p] = [row[p] EXCEPT !.wait = -lag] /\ -lag \in Int
        BY <3>5, <4>1, <4>3 DEF TypeOK
      <4>5. RowMove(row[p], row'[p])
        BY <4>4 DEF RowMove, MoveWake
      <4>6. \A i \in Job : i # p => row'[i] = t[i]
        BY <3>5 DEF TypeOK
      <4>7. IsTable
        BY <3>5 DEF IsTable, TypeOK
      <4> QED
        BY <3>3, <4>5, <4>6, <4>7 DEF Moves
    <3> QED
      BY <3>2, <3>4, <3>5 DEF Woken
  <2> QED
    BY <1>5, <2>1, NoRowMoves DEF Succeed
<1>6. ASSUME NEW lag \in 0..TxLag, NEW d \in Nat, NEW why \in Reason, Busy(w), Releasable(w, lag),
             row' = [row EXCEPT ![j] = Released(@, d, why, lag)]
      PROVE  Moves
  <2>1. row' = [row EXCEPT ![j] = Released(r, d, why, lag)]
    BY <1>6
  <2> QED
    BY <1>1, <1>6, <2>1, OneRowMoves DEF RowMove, MoveRelease, Releasable
<1>7. CASE YieldJob(w)
  BY <1>6, <1>7, NoRowMoves, JobTableAssumption DEF YieldJob, Busy, Reason
<1>8. CASE ReleaseOnShutdown(w)
  BY <1>6, <1>8, NoRowMoves DEF ReleaseOnShutdown, Busy, Reason
<1>9. CASE MarkCancelled(w)
  <2>1. ASSUME NEW lag \in 0..TxLag, LeaseMatches(w, lag), r.status \in Held,
               row' = [row EXCEPT ![j] = Cancelled(r)]
        PROVE  Moves
    BY <1>1, <1>9, <2>1, OneRowMoves DEF MarkCancelled, Busy, RowMove, MoveCancel, Held, Unfinished
  <2> QED
    BY <1>9, <2>1, NoRowMoves DEF MarkCancelled
<1>10. CASE MarkFailed(w)
  <2>1. ASSUME NEW lag \in 0..TxLag, Releasable(w, lag),
               row' = [row EXCEPT ![j] = [Unleased(r) EXCEPT !.status = "failed"]]
        PROVE  Moves
    BY <1>1, <1>10, <2>1, OneRowMoves DEF MarkFailed, Busy, RowMove, MoveFail, Releasable
  <2> QED
    BY <1>10, <2>1, NoRowMoves DEF MarkFailed
<1>11. CASE HeartbeatFails(w) \/ DropLostJob(w) \/ SeeCancellation(w) \/ RaiseError(w)
            \/ Refused(w) \/ Stop(w) \/ Crash(w) \/ Restart(w)
  BY <1>11, NoRowMoves DEF HeartbeatFails, DropLostJob, SeeCancellation, RaiseError,
                           Refused, Stop, Crash, Restart, table
<1> QED
  BY <1>2, <1>4, <1>5, <1>7, <1>8, <1>9, <1>10, <1>11 DEF Execute

-----------------------------------------------------------------------------
(***************************************************************************)
(* Every step moves the executions by CtxMove.                             *)
(***************************************************************************)
CtxKeep(c, d) == /\ d \in Context /\ d.job = c.job /\ d.gen = c.gen
                 /\ c.pc # "idle"

Claims(w, j) == /\ ~Busy(w) /\ row'[j].gen = row[j].gen + 1
                /\ ctx' = [ctx EXCEPT ![w] = [Idle EXCEPT !.pc = "run", !.job = j,
                                                          !.gen = row[j].gen + 1]]

CtxMove == \/ \E w \in Worker, j \in Job : Claims(w, j)
           \/ /\ ctx' = [w \in Worker |-> ctx'[w]]
              /\ \A w \in Worker : ctx'[w] = ctx[w] \/ ctx'[w] = Idle \/ CtxKeep(ctx[w], ctx'[w])

LEMMA IdleType == Idle \in Context
  BY DEF Idle, Context, PC

LEMMA SameCtx ==
    ASSUME TypeOK, UNCHANGED ctx
    PROVE  CtxMove
  BY DEF TypeOK, CtxMove

LEMMA GotoCtx ==
    ASSUME TypeOK, NEW w \in Worker, Busy(w), NEW pc \in PC, Goto(w, pc)
    PROVE  CtxMove
  BY DEF TypeOK, CtxMove, Goto, CtxKeep, Busy, Context

LEMMA DoneCtx ==
    ASSUME TypeOK, NEW w \in Worker, Done(w)
    PROVE  CtxMove
  BY DEF TypeOK, CtxMove, Done

LEMMA LoseCtx ==
    ASSUME TypeOK, NEW w \in Worker, Busy(w), ctx' = [ctx EXCEPT ![w].lost = TRUE]
    PROVE  CtxMove
  BY DEF TypeOK, CtxMove, CtxKeep, Busy, Context

LEMMA ClaimCtx ==
    ASSUME TypeOK, NEW w \in Worker, Claim(w)
    PROVE  CtxMove
<1>1. CASE UNCHANGED ctx
  BY <1>1, SameCtx
<1>2. ASSUME NEW lag \in 0..TxLag, NEW j \in Supports[w], Claimable(Swept(lag), j, lag),
             row' = [Swept(lag) EXCEPT ![j] = Claimed(@, lag)],
             ctx' = [ctx EXCEPT ![w] = [Idle EXCEPT !.pc = "run", !.job = j,
                                                    !.gen = row[j].gen + 1]]
      PROVE  CtxMove
  <2>1. j \in Job
    BY WorkerAssumption
  <2>2. Swept(lag)[j] = row[j]
    BY <1>2, <2>1, SweptRow DEF Claimable, Eligible
  <2>3. row'[j] = Claimed(row[j], lag)
    BY <1>2, <2>1, <2>2 DEF Swept
  <2>4. row'[j].gen = row[j].gen + 1
    BY <2>1, <2>3, ClaimedType, ClockType DEF TypeOK
  <2> QED
    BY <1>2, <2>1, <2>4 DEF CtxMove, Claims, Claim
<1> QED
  BY <1>1, <1>2 DEF Claim

LEMMA NextCtx ==
    ASSUME TypeOK, Next
    PROVE  CtxMove
<1>1. CASE UNCHANGED ctx
  BY <1>1, SameCtx
<1>2. ASSUME NEW w \in Worker, Claim(w) PROVE CtxMove
  BY <1>2, ClaimCtx
<1>3. ASSUME NEW w \in Worker, Heartbeat(w) \/ HeartbeatFails(w) PROVE CtxMove
  BY <1>1, <1>3, LoseCtx DEF Heartbeat, HeartbeatFails
<1>4. ASSUME NEW w \in Worker, Execute(w) PROVE CtxMove
  <2>1. CASE ReportProgress(w) \/ ReportPartialResult(w)
    BY <1>1, <2>1 DEF ReportProgress, ReportPartialResult
  <2>2. CASE DropLostJob(w) \/ ReleaseOnShutdown(w) \/ MarkCancelled(w) \/ MarkFailed(w)
    BY <2>2, DoneCtx DEF DropLostJob, ReleaseOnShutdown, MarkCancelled, MarkFailed
  <2>3. CASE SeeCancellation(w) \/ RaiseError(w)
    BY <2>3, GotoCtx DEF SeeCancellation, RaiseError, Busy, PC
  <2>4. CASE Succeed(w) \/ YieldJob(w) \/ Refused(w)
    BY <2>4, GotoCtx, DoneCtx DEF Succeed, YieldJob, Refused, Busy, PC
  <2> QED
    BY <1>4, <2>1, <2>2, <2>3, <2>4 DEF Execute
<1>5. ASSUME NEW w \in Worker, Stop(w) \/ Crash(w) \/ Restart(w) PROVE CtxMove
  BY <1>1, <1>5, DoneCtx DEF Stop, Crash, Restart
<1> QED
  BY <1>1, <1>2, <1>3, <1>4, <1>5 DEF Next, WorkerNext

-----------------------------------------------------------------------------
(***************************************************************************)
(* The invariant.                                                          *)
(***************************************************************************)
\* A submission creates one row.  Every other step moves the rows, grants one
\* or erases those of a project.
Creates(j) == /\ IsTable /\ Submit(j) /\ UNCHANGED <<ctx, stopping>>
              /\ MoveCreate(row[j], row'[j])
              /\ \A i \in Job : i # j => row'[i] = row[i]

LEMMA SubmitCreates ==
    ASSUME TypeOK, NEW j \in Job, Submit(j), UNCHANGED <<ctx, stopping>>
    PROVE  Creates(j)
<1>1. Rank(j) \in Nat
  <2>1. IsFiniteSet({i \in Job : JobGroup[i] = JobGroup[j] /\ row[i].born > 0})
    BY JobTableAssumption, FS_Subset
  <2> QED
    BY <2>1, FS_CardinalityType DEF Rank
<1> QED
  BY <1>1 DEF Creates, Submit, MoveCreate, IsTable, TypeOK

LEMMA NextRows ==
    ASSUME IInv, Next
    PROVE  \/ Moves
           \/ \E j \in Job : Creates(j)
           \/ \E j \in Job, lag \in 0..TxLag : Grants(j, lag)
           \/ \E p \in Project : Erases(p)
<1>1. ASSUME NEW j \in Job, Submit(j), UNCHANGED <<ctx, stopping>> PROVE Creates(j)
  BY <1>1, SubmitCreates DEF IInv
<1>2. ASSUME NEW p \in Project, PurgeProject(p) PROVE Erases(p)
  BY <1>2, PurgeErases DEF IInv
<1>3. CASE /\ ApiNext /\ UNCHANGED <<ctx, stopping>>
           /\ \A j \in Job : ~Submit(j)
           /\ \A p \in Project : ~PurgeProject(p)
  BY <1>3, ApiMoves DEF IInv
<1>4. ASSUME NEW w \in Worker, WorkerNext(w)
      PROVE  Moves \/ \E j \in Job, lag \in 0..TxLag : Grants(j, lag)
  BY <1>4, ClaimGrants, ExecutionMoves DEF IInv, WorkerNext
<1> QED
  BY <1>1, <1>2, <1>3, <1>4 DEF Next

\* What the invariants need of the rows: each is a row, generations grow.
LEMMA NextRowSteps ==
    ASSUME IInv, Next
    PROVE  /\ row' \in [Job -> Row]
           /\ \A j \in Job : /\ RowStep(row[j], row'[j]) /\ RowConsistent(row'[j])
                             /\ row'[j].gen >= row[j].gen
<1>1. IsTable /\ \A j \in Job : RowStep(row[j], row'[j])
  <2>1. \A j \in Job : RowStep(row[j], row[j])
    BY DEF RowStep, RowMove
  <2>2. CASE Moves
    BY <2>2 DEF Moves, RowStep
  <2>3. ASSUME NEW j \in Job, Creates(j) PROVE IsTable /\ \A i \in Job : RowStep(row[i], row'[i])
    BY <2>1, <2>3 DEF Creates, RowStep
  <2>4. ASSUME NEW j \in Job, NEW lag \in 0..TxLag, Grants(j, lag)
        PROVE  IsTable /\ \A i \in Job : RowStep(row[i], row'[i])
    BY <2>4 DEF Grants, RowStep
  <2>5. ASSUME NEW p \in Project, Erases(p)
        PROVE  IsTable /\ \A i \in Job : RowStep(row[i], row'[i])
    BY <2>1, <2>5 DEF Erases, RowStep
  <2> QED
    BY <2>2, <2>3, <2>4, <2>5, NextRows
<1>2. \A j \in Job : row[j] \in Row /\ RowConsistent(row[j])
  BY DEF IInv, TypeOK, RowsConsistent
<1>3. \A j \in Job : row'[j] \in Row /\ row'[j].gen \in {row[j].gen, row[j].gen + 1}
  BY <1>1, <1>2, RowStepType
<1>4. \A j \in Job : RowConsistent(row'[j])
  BY <1>1, <1>2, RowStepConsistent
<1>5. row' \in [Job -> Row]
  BY <1>1, <1>3 DEF IsTable
<1>6. \A j \in Job : row'[j].gen >= row[j].gen
  BY <1>2, <1>3 DEF Row
<1> QED
  BY <1>1, <1>4, <1>5, <1>6

\* The invariant holds initially.
LEMMA InitInv == Init => IInv
<1> SUFFICES ASSUME Init PROVE IInv
  OBVIOUS
<1>1. \A j \in Job : row[j] = NoRow
  BY DEF Init, TableInit
<1>2. TypeOK
  BY NoRowType, IdleType DEF Init, TableInit, TypeOK
<1>3. RowConsistent(NoRow)
  BY DEF RowConsistent, NoRow, Held
<1> QED
  BY <1>1, <1>2, <1>3
     DEF Init, IInv, RowsConsistent, DeletedProjectsAreQuiet, OneUnfinishedPerScope, Executions,
         DistinctGenerations, FencedBatchesAreQuiet, NoRow, Unfinished, Busy, Idle

\* Only the API changes pointers, projects and fences.
LEMMA WorkerKeeps ==
    ASSUME NEW w \in Worker, WorkerNext(w)
    PROVE  UNCHANGED <<pointer, project, fenced, paused>>
  BY DEF WorkerNext, Execute, Claim, Heartbeat, HeartbeatFails, ReportProgress,
         ReportPartialResult, DropLostJob, SeeCancellation, RaiseError, Succeed, YieldJob,
         ReleaseOnShutdown, Refused, MarkCancelled, MarkFailed, Stop, Crash, Restart, table

LEMMA NextTypeOK ==
    ASSUME IInv, Next
    PROVE  TypeOK'
<1>1. row' \in [Job -> Row]
  BY NextRowSteps
<1>2. ctx' \in [Worker -> Context]
  <2>1. CASE \E w \in Worker, j \in Job : Claims(w, j)
    <3>1. PICK w \in Worker, j \in Job : Claims(w, j)
      BY <2>1
    <3>2. row[j].gen + 1 \in Nat
      BY DEF IInv, TypeOK, Row
    <3> DEFINE c == [Idle EXCEPT !.pc = "run", !.job = j, !.gen = row[j].gen + 1]
    <3>3. c \in Context
      BY <3>2 DEF Idle, Context, PC
    <3>4. ctx' = [ctx EXCEPT ![w] = c]
      BY <3>1 DEF Claims
    <3> HIDE DEF c
    <3> QED
      BY <3>3, <3>4 DEF IInv, TypeOK
  <2>2. CASE /\ ctx' = [w \in Worker |-> ctx'[w]]
             /\ \A w \in Worker : ctx'[w] = ctx[w] \/ ctx'[w] = Idle \/ CtxKeep(ctx[w], ctx'[w])
    BY <2>2, IdleType DEF CtxKeep, IInv, TypeOK
  <2> QED
    BY <2>1, <2>2, NextCtx DEF CtxMove, IInv
<1>3. /\ pointer' \in [Scope -> Job \cup {NoJob}]
      /\ project' \in [Project -> {"active", "deleted", "purged"}]
      /\ fenced' \subseteq Batch /\ paused' \subseteq Queue
  <2> USE DEF IInv, TypeOK
  <2>1. CASE ApiNext
    <3>1. ASSUME NEW j \in Job, Submit(j) PROVE pointer' \in [Scope -> Job \cup {NoJob}]
      BY <3>1 DEF Submit
    <3>2. ASSUME NEW p \in Project, PurgeProject(p) PROVE pointer' \in [Scope -> Job \cup {NoJob}]
      BY <3>2 DEF PurgeProject
    <3>3. pointer' \in [Scope -> Job \cup {NoJob}]
      BY <2>1, <3>1, <3>2 DEF ApiNext, RequestCancel, DeleteProject, RestoreProject, CancelBatch,
                              SetPaused, Tick
    <3>4. ASSUME NEW p \in Project, DeleteProject(p) \/ RestoreProject(p) \/ PurgeProject(p)
          PROVE  project' \in [Project -> {"active", "deleted", "purged"}]
      BY <3>4 DEF DeleteProject, RestoreProject, PurgeProject
    <3>5. project' \in [Project -> {"active", "deleted", "purged"}]
      BY <2>1, <3>4 DEF ApiNext, Submit, RequestCancel, CancelBatch, SetPaused, Tick
    <3>6. fenced' \subseteq Batch /\ paused' \subseteq Queue
      BY <2>1 DEF ApiNext, Submit, RequestCancel, DeleteProject, RestoreProject, PurgeProject,
                  CancelBatch, SetPaused, Tick
    <3> QED
      BY <3>3, <3>5, <3>6
  <2> QED
    BY <2>1, WorkerKeeps DEF Next
<1>4. stopping' \subseteq Worker
  BY DEF IInv, TypeOK, Next, WorkerNext, Execute, Claim, Heartbeat, HeartbeatFails, ReportProgress,
         ReportPartialResult, DropLostJob, SeeCancellation, RaiseError, Succeed, YieldJob,
         ReleaseOnShutdown, Refused, MarkCancelled, MarkFailed, Stop, Crash, Restart
<1> QED
  BY <1>1, <1>2, <1>3, <1>4 DEF TypeOK

\* A row that a step leaves unfinished was so before, or is being created.
LEMMA NextUnfinished ==
    ASSUME IInv, Next, NEW j \in Job, row'[j].status \in Unfinished
    PROVE  row[j].status \in Unfinished \/ Creates(j)
<1>1. row[j] \in Row /\ RowConsistent(row[j])
  BY DEF IInv, TypeOK, RowsConsistent
<1>2. RowMove(row[j], row'[j]) => row[j].status \in Unfinished
  BY <1>1, RowMoveKeeps
<1>3. MoveClaim(row[j], row'[j]) => row[j].status \in Unfinished
  BY DEF MoveClaim, Unfinished
<1>4. ~MovePurge(row[j], row'[j])
  BY <1>1 DEF MovePurge, NoRow, Unfinished
<1>5. row'[j] = row[j] => row[j].status \in Unfinished
  OBVIOUS
<1> QED
  BY <1>2, <1>3, <1>4, <1>5, NextRows DEF Moves, Creates, Grants, Erases

LEMMA NextDeletedProjectsAreQuiet ==
    ASSUME IInv, Next
    PROVE  DeletedProjectsAreQuiet'
<1> SUFFICES ASSUME NEW j \in Job, row'[j].status \in Unfinished
             PROVE  JobProject[j] # NoProject => project'[JobProject[j]] = "active"
  BY DEF DeletedProjectsAreQuiet, ActiveProject
<1>1. row[j].status \in Unfinished \/ Creates(j)
  BY NextUnfinished
<1>2. JobProject[j] # NoProject => project[JobProject[j]] = "active"
  BY <1>1 DEF Creates, Submit, IInv, DeletedProjectsAreQuiet, ActiveProject
<1>3. CASE UNCHANGED project
  BY <1>2, <1>3
<1>4. ASSUME NEW p \in Project, DeleteProject(p)
      PROVE  JobProject[j] # p
  <2>1. row[j] \in Row
    BY DEF IInv, TypeOK
  <2>2. Cancelled(row[j]).status = "cancelled"
    BY <2>1, UnleasedType DEF Cancelled, Row
  <2> QED
    BY <1>4, <2>2 DEF DeleteProject, Unfinished
<1>5. ASSUME NEW p \in Project, DeleteProject(p) \/ RestoreProject(p) \/ PurgeProject(p)
      PROVE  JobProject[j] # NoProject => project'[JobProject[j]] = "active"
  <2>1. /\ project \in [Project -> {"active", "deleted", "purged"}]
        /\ JobProject[j] \in Project \cup {NoProject}
    BY JobTableAssumption DEF IInv, TypeOK
  <2>2. CASE DeleteProject(p)
    BY <1>2, <1>4, <2>1, <2>2 DEF DeleteProject
  <2>3. CASE RestoreProject(p)
    BY <1>2, <2>1, <2>3 DEF RestoreProject
  <2>4. CASE PurgeProject(p)
    BY <1>2, <2>1, <2>4 DEF PurgeProject
  <2> QED
    BY <1>5, <2>2, <2>3, <2>4
<1>6. CASE ApiNext
  BY <1>3, <1>5, <1>6 DEF ApiNext, Submit, RequestCancel, CancelBatch, SetPaused, Tick
<1> QED
  BY <1>3, <1>6, WorkerKeeps DEF Next

LEMMA NextOneUnfinishedPerScope ==
    ASSUME IInv, Next
    PROVE  OneUnfinishedPerScope'
<1> SUFFICES ASSUME NEW j \in Job, row'[j].status \in Unfinished
             PROVE  pointer'[JobScope[j]] = j
  BY DEF OneUnfinishedPerScope
<1>1. pointer \in [Scope -> Job \cup {NoJob}] /\ JobScope[j] \in Scope
  BY JobTableAssumption DEF IInv, TypeOK
<1>2. CASE Creates(j)
  BY <1>1, <1>2 DEF Creates, Submit
<1>3. CASE ~Creates(j)
  <2>1. row[j].status \in Unfinished /\ pointer[JobScope[j]] = j
    BY <1>3, NextUnfinished DEF IInv, OneUnfinishedPerScope
  <2>2. ASSUME NEW i \in Job, Submit(i), UNCHANGED <<ctx, stopping>> PROVE pointer'[JobScope[j]] = j
    <3>1. i # j
      BY <1>3, <2>2, SubmitCreates DEF IInv
    <3>2. JobScope[i] # JobScope[j]
      BY <2>1, <2>2, <3>1, JobTableAssumption DEF Submit
    <3> QED
      BY <1>1, <2>1, <2>2, <3>2, JobTableAssumption DEF Submit
  <2>3. ASSUME NEW p \in Project, PurgeProject(p) PROVE pointer'[JobScope[j]] = j
    <3>1. JobProject[j] # p
      <4>1. row[j].status # "absent"
        BY <2>1 DEF Unfinished
      <4>2. JobProject[j] = p => row'[j].status = "gone"
        BY <2>3, <4>1 DEF PurgeProject, NoRow
      <4> QED
        BY <4>2 DEF Unfinished
    <3> QED
      BY <1>1, <2>1, <2>3, <3>1 DEF PurgeProject
  <2>4. CASE UNCHANGED pointer
    BY <2>1, <2>4
  <2>5. CASE ApiNext /\ UNCHANGED <<ctx, stopping>>
    BY <2>2, <2>3, <2>4, <2>5
       DEF ApiNext, RequestCancel, DeleteProject, RestoreProject, CancelBatch, SetPaused, Tick
  <2> QED
    BY <2>4, <2>5, WorkerKeeps DEF Next
<1> QED
  BY <1>2, <1>3

LEMMA NextExecutions ==
    ASSUME IInv, Next
    PROVE  Executions' /\ DistinctGenerations'
<1>1. \A j \in Job : row[j].gen \in Nat /\ row'[j].gen \in Nat /\ row'[j].gen >= row[j].gen
  BY NextRowSteps DEF IInv, TypeOK, Row
<1>2. ctx \in [Worker -> Context] /\ Executions /\ DistinctGenerations
  BY DEF IInv, TypeOK
<1>3. \A w \in Worker : ctx[w].gen \in Nat
  BY <1>2 DEF Context
<1>4. CASE /\ ctx' = [w \in Worker |-> ctx'[w]]
           /\ \A w \in Worker : ctx'[w] = ctx[w] \/ ctx'[w] = Idle \/ CtxKeep(ctx[w], ctx'[w])
  <2>1. \A w \in Worker : Busy(w)' => /\ Busy(w)
                                      /\ ctx'[w].job = ctx[w].job /\ ctx'[w].gen = ctx[w].gen
    BY <1>4 DEF CtxKeep, Busy, Idle
  <2>2. Executions'
    BY <1>1, <1>2, <1>3, <2>1 DEF Executions
  <2>3. DistinctGenerations'
    BY <1>2, <2>1 DEF DistinctGenerations
  <2> QED
    BY <2>2, <2>3
<1>5. ASSUME NEW w \in Worker, NEW j \in Job, Claims(w, j)
      PROVE  Executions' /\ DistinctGenerations'
  <2>1. ctx'[w].job = j /\ ctx'[w].gen = row[j].gen + 1 /\ row'[j].gen = row[j].gen + 1
    BY <1>2, <1>5 DEF Claims, Idle
  <2>2. \A v \in Worker : v # w => ctx'[v] = ctx[v]
    BY <1>2, <1>5 DEF Claims
  <2>3. \A v \in Worker : v # w /\ Busy(v) => ctx[v].job \in Job /\ ctx[v].gen <= row[ctx[v].job].gen
    BY <1>2 DEF Executions
  <2>4. \A v \in Worker : v # w /\ Busy(v) /\ ctx[v].job = j => ctx[v].gen # row[j].gen + 1
    BY <1>1, <1>3, <2>3
  <2>5. Executions'
    BY <1>1, <1>2, <1>3, <2>1, <2>2 DEF Executions, Busy
  <2>6. DistinctGenerations'
    BY <1>2, <2>1, <2>2, <2>4 DEF DistinctGenerations, Busy
  <2> QED
    BY <2>5, <2>6
<1> QED
  BY <1>4, <1>5, NextCtx DEF CtxMove, IInv

\* A file of a fenced batch that was never claimed stays so.
LEMMA NextFenced ==
    ASSUME IInv, Next
    PROVE  /\ FencedBatchesAreQuiet'
           /\ \A j \in Job : JobBatch[j] \in fenced /\ row[j].gen = 0 => row'[j].gen = 0
<1>1. \A j \in Job : /\ row[j] \in Row /\ RowConsistent(row[j])
                     /\ row'[j] \in Row /\ RowConsistent(row'[j]) /\ row'[j].gen >= row[j].gen
  BY NextRowSteps DEF IInv, TypeOK, RowsConsistent
<1>2. \A j \in Job : row'[j].gen = 0 => row[j].gen = 0
  BY <1>1 DEF Row
<1>3. ASSUME NEW j \in Job, JobBatch[j] \in fenced, row[j].gen = 0
      PROVE  row'[j].gen = 0 /\ row'[j].status # "queued"
  <2>1. row[j].status \notin {"queued", "running"}
    BY <1>1, <1>3 DEF IInv, FencedBatchesAreQuiet, RowConsistent, Held, Row
  <2>2. ~Creates(j)
    BY <1>3 DEF Creates, Submit
  <2>3. ~MoveClaim(row[j], row'[j])
    BY <2>1 DEF MoveClaim
  <2>4. CASE RowMove(row[j], row'[j])
    BY <1>1, <1>3, <2>1, <2>4, RowMoveKeeps
  <2>5. CASE MovePurge(row[j], row'[j])
    BY <1>3, <2>5 DEF MovePurge, NoRow
  <2>6. CASE row'[j] = row[j]
    BY <1>3, <2>1, <2>6
  <2> QED
    BY <2>2, <2>3, <2>4, <2>5, <2>6, NextRows DEF Moves, Creates, Grants, Erases
<1>4. ASSUME NEW j \in Job, JobBatch[j] \in fenced', row'[j].gen = 0
      PROVE  row'[j].status # "queued"
  <2>1. CASE JobBatch[j] \in fenced
    BY <1>2, <1>3, <1>4, <2>1
  <2>2. ASSUME NEW b \in Batch, CancelBatch(b), JobBatch[j] = b PROVE row'[j].status # "queued"
    BY <1>1, <2>2 DEF CancelBatch, Row
  <2>3. CASE ApiNext
    BY <1>4, <2>1, <2>2, <2>3 DEF ApiNext, Submit, RequestCancel, DeleteProject, RestoreProject,
       PurgeProject, CancelBatch, SetPaused, Tick
  <2> QED
    BY <1>4, <2>1, <2>3, WorkerKeeps DEF Next
<1> QED
  BY <1>3, <1>4 DEF FencedBatchesAreQuiet

LEMMA NextInv == IInv /\ [Next]_vars => IInv'
<1> SUFFICES ASSUME IInv, [Next]_vars PROVE IInv'
  OBVIOUS
<1>1. CASE Next
  <2>1. RowsConsistent'
    BY <1>1, NextRowSteps DEF RowsConsistent
  <2> QED
    BY <1>1, <2>1, NextTypeOK, NextDeletedProjectsAreQuiet, NextOneUnfinishedPerScope,
       NextExecutions, NextFenced DEF IInv
<1>2. CASE UNCHANGED vars
  BY <1>2 DEF vars, table, IInv, TypeOK, RowsConsistent, DeletedProjectsAreQuiet, ActiveProject,
              OneUnfinishedPerScope, Executions, DistinctGenerations, FencedBatchesAreQuiet, Busy
<1> QED
  BY <1>1, <1>2

\* The inductive invariant: types, consistent rows, quiet deleted projects, one
\* unfinished job per scope, and what executions know of the rows they run.
THEOREM Invariance == Spec => []IInv
  BY InitInv, NextInv, PTL DEF Spec

-----------------------------------------------------------------------------
(***************************************************************************)
(* The properties.                                                         *)
(***************************************************************************)
\* The table and the executions have their types in every reachable state.
THEOREM TypeCorrect == Spec => []TypeOK
  BY Invariance, PTL DEF IInv

\* However the transactions of users, workers and repairs interleave, the
\* lease columns, the status and the cancellation flag of a row agree.
THEOREM RowsStayConsistent == Spec => []RowsConsistent
  BY Invariance, PTL DEF IInv

\* Nothing that a project's deletion stopped is queued or running, also after
\* the project is restored.
THEOREM DeletionStopsJobs == Spec => []DeletedProjectsAreQuiet
  BY Invariance, PTL DEF IInv

\* A user never has two unfinished jobs of one type in one scope.
THEOREM Deduplication == Spec => []OneUnfinishedPerScope
  BY Invariance, PTL DEF IInv

LEMMA InvOneWriter == IInv => OneWriter
<1> SUFFICES ASSUME IInv, NEW v \in Worker, NEW w \in Worker, NEW lag \in 0..TxLag,
                    v # w, Busy(v), Busy(w), ctx[v].job = ctx[w].job, LeaseMatches(v, lag)
             PROVE  ~LeaseMatches(w, lag) /\ ctx[w].gen < ctx[v].gen
  BY DEF OneWriter
<1>1. ctx[v].gen \in Nat /\ ctx[w].gen \in Nat /\ ctx[v].gen # ctx[w].gen
  BY DEF IInv, TypeOK, Context, DistinctGenerations
<1>2. row[ctx[w].job].gen = ctx[v].gen /\ ctx[w].gen <= ctx[v].gen
  BY DEF LeaseMatches, IInv, Executions
<1> QED
  BY <1>1, <1>2 DEF LeaseMatches

\* At most one execution of a job holds its lease, and it is the latest.
THEOREM SingleWriter == Spec => []OneWriter
  BY Invariance, InvOneWriter, PTL

\* A cancelled upload batch starts no further file.
THEOREM BatchCancellationHolds == Spec => CancelledBatchStartsNothing
<1>1. IInv /\ [Next]_vars
        => [\A j \in Job : JobBatch[j] \in fenced /\ row[j].gen = 0 => row'[j].gen = 0]_vars
  BY NextFenced
<1> QED
  BY <1>1, Invariance, PTL DEF Spec, CancelledBatchStartsNothing

-----------------------------------------------------------------------------
(***************************************************************************)
(* The job table keeps the contract with clients.                          *)
(***************************************************************************)
\* A move of a row as JobContract sees it.
Sees(r, s, phases, epoch, record) ==
    /\ <<PhaseOf(r.status), PhaseOf(s.status)>> \in phases
    /\ s.gen = epoch /\ s.writer = record

Stay == {<<p, p>> : p \in Contract!Phase}

LEMMA RowStepContract ==
    ASSUME NEW r \in Row, NEW s, RowStep(r, s), RowConsistent(r)
    PROVE  \/ Sees(r, s, Stay, r.gen, r.writer)
           \/ Sees(r, s, {<<"absent", "open">>}, r.gen, r.writer)
           \/ Sees(r, s, {<<"open", "open">>}, r.gen + 1, r.writer)
           \/ Sees(r, s, {<<"open", "open">>, <<"stopping", "stopping">>}, r.gen, r.gen) /\ r.gen > 0
           \/ Sees(r, s, {<<"open", "stopping">>}, r.gen, r.writer)
           \/ Sees(r, s, {"open", "stopping"} \X {"succeeded"}, r.gen, r.gen) /\ r.gen > 0
           \/ Sees(r, s, {<<"open", "failed">>}, r.gen, r.writer) /\ r.gen > 0
           \/ Sees(r, s, {"open", "stopping"} \X {"cancelled"}, r.gen, r.writer)
           \/ Sees(r, s, Contract!Settled \X {"gone"}, r.gen, r.writer)
<1> USE ClockType DEF Row, Status, Unfinished, Terminal, Held, LeaseCurrent, RowConsistent,
                      Sees, Stay, PhaseOf, Contract!Phase, Contract!Settled
<1>1. CASE s = r
  BY <1>1
<1>2. CASE MoveCreate(r, s)
  BY <1>2 DEF MoveCreate, NoRow
<1>3. CASE MoveCancel(r, s)
  BY <1>3 DEF MoveCancel, Cancelled, Unleased
<1>4. CASE MoveDequeue(r, s)
  BY <1>4 DEF MoveDequeue
<1>5. CASE MoveAsk(r, s)
  BY <1>5 DEF MoveAsk
<1>6. CASE MoveExpire(r, s)
  BY <1>6 DEF MoveExpire, Unleased
<1>7. CASE MovePurge(r, s)
  BY <1>7 DEF MovePurge, NoRow
<1>8. CASE MoveTick(r, s)
  BY <1>8 DEF MoveTick, TickRow
<1>9. CASE MoveWake(r, s)
  BY <1>9 DEF MoveWake
<1>10. CASE MoveRenew(r, s)
  BY <1>10 DEF MoveRenew
<1>11. CASE MoveClaim(r, s)
  BY <1>11 DEF MoveClaim, Claimed
<1>12. CASE MoveWrite(r, s)
  BY <1>12 DEF MoveWrite
<1>13. CASE MoveSucceed(r, s)
  BY <1>13 DEF MoveSucceed, Unleased
<1>14. CASE MoveRelease(r, s)
  BY <1>14 DEF MoveRelease, Released, Unleased
<1>15. CASE MoveFail(r, s)
  BY <1>15 DEF MoveFail, Unleased
<1> QED
  BY <1>1, <1>2, <1>3, <1>4, <1>5, <1>6, <1>7, <1>8, <1>9, <1>10, <1>11, <1>12, <1>13, <1>14, <1>15
     DEF RowStep, RowMove

LEMMA StepKeepsContract ==
    ASSUME IInv, Next
    PROVE  Contract!Next
<1> SUFFICES ASSUME NEW j \in Job PROVE Contract!Step(j)
  BY DEF Contract!Next
<1> DEFINE r == row[j]
           s == row'[j]
<1>1. r \in Row /\ RowConsistent(r) /\ RowStep(r, s)
  BY NextRowSteps DEF IInv, TypeOK, RowsConsistent
<1> HIDE DEF r, s
<1>2. CASE Sees(r, s, Stay, r.gen, r.writer)
  BY <1>2 DEF r, s, Sees, Stay, Contract!Step, Contract!Keep
<1>3. CASE Sees(r, s, {<<"absent", "open">>}, r.gen, r.writer)
  BY <1>3 DEF r, s, Sees, Contract!Step, Contract!Open
<1>4. CASE Sees(r, s, {<<"open", "open">>}, r.gen + 1, r.writer)
  BY <1>4 DEF r, s, Sees, Contract!Step, Contract!Grant
<1>5. CASE /\ Sees(r, s, {<<"open", "open">>, <<"stopping", "stopping">>}, r.gen, r.gen)
           /\ r.gen > 0
  BY <1>5 DEF r, s, Sees, Contract!Step, Contract!Record
<1>6. CASE Sees(r, s, {<<"open", "stopping">>}, r.gen, r.writer)
  BY <1>6 DEF r, s, Sees, Contract!Step, Contract!Ask
<1>7. CASE Sees(r, s, {"open", "stopping"} \X {"succeeded"}, r.gen, r.gen) /\ r.gen > 0
  BY <1>7 DEF r, s, Sees, Contract!Step, Contract!Succeed
<1>8. CASE Sees(r, s, {<<"open", "failed">>}, r.gen, r.writer) /\ r.gen > 0
  BY <1>8 DEF r, s, Sees, Contract!Step, Contract!Fail
<1>9. CASE Sees(r, s, {"open", "stopping"} \X {"cancelled"}, r.gen, r.writer)
  BY <1>9 DEF r, s, Sees, Contract!Step, Contract!Cancel
<1>10. CASE Sees(r, s, Contract!Settled \X {"gone"}, r.gen, r.writer)
  BY <1>10 DEF r, s, Sees, Contract!Step, Contract!Purge
<1> QED
  BY <1>1, <1>2, <1>3, <1>4, <1>5, <1>6, <1>7, <1>8, <1>9, <1>10, RowStepContract

\* The job system implements its contract: settled jobs stay settled, only the
\* latest attempt records anything, and a job asked to stop is not granted again.
THEOREM ContractKept == Spec => KeepsContract
<1>1. Init => Contract!Init
  BY DEF Init, TableInit, NoRow, PhaseOf, Contract!Init
<1>2. IInv /\ [Next]_vars => [Contract!Next]_(Contract!cvars)
  <2>1. UNCHANGED vars => UNCHANGED Contract!cvars
    BY DEF vars, table, Contract!cvars
  <2> QED
    BY <2>1, StepKeepsContract
<1> QED
  BY <1>1, <1>2, Invariance, PTL DEF Spec, KeepsContract, Contract!Spec

-----------------------------------------------------------------------------
(***************************************************************************)
(* Admission, when no transaction outlives the tick it started in.         *)
(***************************************************************************)
HoldsLease(r) == r.status \in Held /\ LeaseLive(r, 0)

\* Without a stale clock only a claim makes a lease live.
LEMMA RowMoveLive ==
    ASSUME TxLag = 0, NEW r \in Row, NEW s, RowMove(r, s), RowConsistent(r), HoldsLease(s)
    PROVE  HoldsLease(r)
<1> USE ClockType DEF Row, Status, Unfinished, Terminal, Held, LeaseCurrent, RowConsistent,
                      HoldsLease, LeaseLive
<1>1. CASE s = r
  BY <1>1
<1>2. CASE MoveCancel(r, s)
  BY <1>2 DEF MoveCancel, Cancelled, Unleased
<1>3. CASE MoveDequeue(r, s)
  BY <1>3 DEF MoveDequeue
<1>4. CASE MoveAsk(r, s)
  BY <1>4 DEF MoveAsk
<1>5. CASE MoveExpire(r, s)
  BY <1>5 DEF MoveExpire, Unleased
<1>6. CASE MoveTick(r, s)
  BY <1>6 DEF MoveTick, TickRow, CountDown
<1>7. CASE MoveWake(r, s)
  BY <1>7 DEF MoveWake
<1>8. CASE MoveRenew(r, s)
  BY <1>8 DEF MoveRenew
<1>9. CASE MoveWrite(r, s)
  BY <1>9 DEF MoveWrite
<1>10. CASE MoveSucceed(r, s)
  BY <1>10 DEF MoveSucceed, Unleased
<1>11. CASE MoveRelease(r, s)
  BY <1>11 DEF MoveRelease, Released, Unleased
<1>12. CASE MoveFail(r, s)
  BY <1>12 DEF MoveFail, Unleased
<1> QED
  BY <1>1, <1>2, <1>3, <1>4, <1>5, <1>6, <1>7, <1>8, <1>9, <1>10, <1>11, <1>12 DEF RowMove

\* A step makes no lease live but the one it grants.
LEMMA NextLive ==
    ASSUME TxLag = 0, IInv, Next
    PROVE  \/ \A i \in Job : HoldsLease(row'[i]) => HoldsLease(row[i])
           \/ \E j \in Job : /\ Grants(j, 0)
                             /\ \A i \in Job : i # j /\ HoldsLease(row'[i])
                                   => HoldsLease(row[i]) /\ HoldsLease(Swept(0)[i])
<1>1. \A i \in Job : row[i] \in Row /\ RowConsistent(row[i])
  BY DEF IInv, TypeOK, RowsConsistent
<1>2. \A i \in Job : RowMove(row[i], row'[i]) /\ HoldsLease(row'[i]) => HoldsLease(row[i])
  BY <1>1, RowMoveLive
<1>3. \A i \in Job : MoveCreate(row[i], row'[i]) => ~HoldsLease(row'[i])
  BY DEF MoveCreate, NoRow, HoldsLease, Held
<1>4. \A i \in Job : MovePurge(row[i], row'[i]) => ~HoldsLease(row'[i])
  BY DEF MovePurge, NoRow, HoldsLease, Held
<1>5. ASSUME NEW j \in Job, NEW lag \in 0..TxLag, Grants(j, lag)
      PROVE  /\ Grants(j, 0)
             /\ \A i \in Job : i # j /\ HoldsLease(row'[i])
                   => HoldsLease(row[i]) /\ HoldsLease(Swept(0)[i])
  <2>1. lag = 0
    OBVIOUS
  <2> QED
    BY <1>2, <1>5, <2>1 DEF Grants
<1> QED
  BY <1>2, <1>3, <1>4, <1>5, NextRows DEF Moves, Creates, Erases

Limit(q) == IF q = ModelQueue THEN TextParallelism ELSE 1

LEMMA LimitType ==
    /\ \A q \in Queue : Limit(q) \in Nat
    /\ \A j \in Job : LeaseLimit(j) \in Nat /\ LeaseLimit(j) <= Limit(JobQueue[j])
  BY JobTableAssumption DEF Limit, LeaseLimit

LEMMA LiveLeasesFinite ==
    ASSUME NEW rows, NEW u, NEW q
    PROVE  /\ LiveLeases(rows, u, q, 0) \subseteq Job
           /\ IsFiniteSet(LiveLeases(rows, u, q, 0))
           /\ LiveLeases(rows, u, q, 0)
                = {i \in Job : JobOwner[i] = u /\ JobQueue[i] = q /\ HoldsLease(rows[i])}
<1>1. LiveLeases(rows, u, q, 0) \subseteq Job
  BY DEF LiveLeases
<1> QED
  BY <1>1, JobTableAssumption, FS_Subset DEF LiveLeases, HoldsLease

\* A set grows by at most the element that is added to it.
LEMMA AddOne ==
    ASSUME NEW S, NEW T, NEW x, IsFiniteSet(T), S \subseteq T \cup {x}
    PROVE  /\ Cardinality(S) \in Nat /\ Cardinality(T) \in Nat
           /\ Cardinality(S) <= Cardinality(T) + 1
<1>1. Cardinality(T) \in Nat
  BY FS_CardinalityType
<1>2. IsFiniteSet(T \cup {x})
      /\ Cardinality(T \cup {x}) = IF x \in T THEN Cardinality(T) ELSE Cardinality(T) + 1
  BY FS_AddElement
<1>3. Cardinality(S) <= Cardinality(T \cup {x}) /\ IsFiniteSet(S)
  BY <1>2, FS_Subset
<1>4. Cardinality(S) \in Nat
  BY <1>3, FS_CardinalityType
<1> QED
  BY <1>1, <1>2, <1>3, <1>4

LEMMA NextLeasesWithinLimit ==
    ASSUME TxLag = 0, IInv, LeasesWithinLimit, Next
    PROVE  LeasesWithinLimit'
<1> SUFFICES ASSUME NEW u \in User, NEW q \in Queue
             PROVE  Cardinality(LiveLeases(row', u, q, 0)) <= Limit(q)
  BY DEF LeasesWithinLimit, Limit, LiveLeases
<1> DEFINE L(rows) == LiveLeases(rows, u, q, 0)
<1>1. /\ IsFiniteSet(L(row)) /\ Cardinality(L(row)) <= Limit(q)
      /\ Cardinality(L(row)) \in Nat /\ Limit(q) \in Nat
  BY LiveLeasesFinite, FS_CardinalityType, LimitType DEF LeasesWithinLimit, Limit
<1>2. CASE L(row') \subseteq L(row)
  <2>1. Cardinality(L(row')) <= Cardinality(L(row)) /\ IsFiniteSet(L(row'))
    BY <1>1, <1>2, FS_Subset
  <2> QED
    BY <1>1, <2>1, FS_CardinalityType
<1>3. CASE \A i \in Job : HoldsLease(row'[i]) => HoldsLease(row[i])
  <2>1. L(row') \subseteq L(row)
    BY <1>3, LiveLeasesFinite
  <2> QED
    BY <1>2, <2>1
<1>4. ASSUME NEW j \in Job, Grants(j, 0),
             \A i \in Job : i # j /\ HoldsLease(row'[i])
                => HoldsLease(row[i]) /\ HoldsLease(Swept(0)[i])
      PROVE  Cardinality(L(row')) <= Limit(q)
  <2>1. CASE JobOwner[j] = u /\ JobQueue[j] = q
    <3>1. L(row') \subseteq (L(Swept(0)) \ {j}) \cup {j}
      BY <1>4, LiveLeasesFinite
    <3>2. IsFiniteSet(L(Swept(0)) \ {j})
      BY LiveLeasesFinite, FS_Difference
    <3>3. Cardinality(L(Swept(0)) \ {j}) < LeaseLimit(j)
      BY <1>4, <2>1 DEF Grants, Claimable
    <3> HIDE DEF L
    <3>4. /\ Cardinality(L(row')) <= Cardinality(L(Swept(0)) \ {j}) + 1
          /\ Cardinality(L(row')) \in Nat /\ Cardinality(L(Swept(0)) \ {j}) \in Nat
      BY <3>1, <3>2, AddOne
    <3>5. LeaseLimit(j) \in Nat /\ LeaseLimit(j) <= Limit(q)
      BY <2>1, LimitType
    <3> QED
      BY <1>1, <3>3, <3>4, <3>5
  <2>2. CASE ~(JobOwner[j] = u /\ JobQueue[j] = q)
    <3>1. L(row') \subseteq L(row)
      BY <1>4, <2>2, LiveLeasesFinite
    <3> QED
      BY <1>2, <3>1
  <2> QED
    BY <2>1, <2>2
<1> QED
  BY <1>3, <1>4, NextLive

\* A user holds at most one live lease on a business queue and at most
\* text_parallelism on the model queue, if no transaction decides with a clock
\* older than the last tick.
THEOREM LeaseAdmission ==
    ASSUME TxLag = 0
    PROVE  Spec => []LeasesWithinLimit
<1>1. Init => LeasesWithinLimit
  <2> SUFFICES ASSUME Init, NEW u \in User, NEW q \in Queue
               PROVE  Cardinality(LiveLeases(row, u, q, 0)) <= Limit(q)
    BY DEF LeasesWithinLimit, Limit
  <2>1. LiveLeases(row, u, q, 0) = {}
    BY DEF LiveLeases, Init, TableInit, NoRow, Held
  <2> QED
    BY <2>1, FS_EmptySet, LimitType
<1>2. IInv /\ LeasesWithinLimit /\ [Next]_vars => LeasesWithinLimit'
  <2>1. CASE UNCHANGED vars
    BY <2>1 DEF vars, table, LeasesWithinLimit, LiveLeases
  <2> QED
    BY <2>1, NextLeasesWithinLimit
<1> QED
  BY <1>1, <1>2, Invariance, PTL DEF Spec

LEMMA ActiveUploadsFinite ==
    ASSUME NEW rows
    PROVE  /\ IsFiniteSet(ActiveUploads(rows, 0))
           /\ ActiveUploads(rows, 0) = {i \in Upload : HoldsLease(rows[i])}
<1>1. IsFiniteSet(Upload)
  BY JobTableAssumption, FS_Subset
<1> QED
  BY <1>1, FS_Subset DEF ActiveUploads, HoldsLease

LEMMA NextUploadsWithinCap ==
    ASSUME TxLag = 0, IInv, UploadsWithinCap, Next
    PROVE  UploadsWithinCap'
<1> DEFINE A(rows) == ActiveUploads(rows, 0)
<1> SUFFICES Cardinality(A(row')) <= UploadCap
  BY DEF UploadsWithinCap, ActiveUploads
<1>1. /\ IsFiniteSet(A(row)) /\ Cardinality(A(row)) <= UploadCap
      /\ Cardinality(A(row)) \in Nat /\ UploadCap \in Nat /\ Upload \subseteq Job
  BY ActiveUploadsFinite, FS_CardinalityType, JobTableAssumption DEF UploadsWithinCap
<1>2. CASE A(row') \subseteq A(row)
  <2>1. Cardinality(A(row')) <= Cardinality(A(row)) /\ IsFiniteSet(A(row'))
    BY <1>1, <1>2, FS_Subset
  <2> QED
    BY <1>1, <2>1, FS_CardinalityType
<1>3. CASE \A i \in Job : HoldsLease(row'[i]) => HoldsLease(row[i])
  <2>1. A(row') \subseteq A(row)
    BY <1>1, <1>3, ActiveUploadsFinite
  <2> QED
    BY <1>2, <2>1
<1>4. ASSUME NEW j \in Job, Grants(j, 0),
             \A i \in Job : i # j /\ HoldsLease(row'[i])
                => HoldsLease(row[i]) /\ HoldsLease(Swept(0)[i])
      PROVE  Cardinality(A(row')) <= UploadCap
  <2>1. CASE j \in Upload
    <3>1. A(row') \subseteq A(Swept(0)) \cup {j}
      BY <1>1, <1>4, ActiveUploadsFinite
    <3>2. IsFiniteSet(A(Swept(0)))
      BY ActiveUploadsFinite
    <3>3. Cardinality(A(Swept(0))) < UploadCap
      BY <1>4, <2>1 DEF Grants, Claimable
    <3> HIDE DEF A
    <3>4. /\ Cardinality(A(row')) <= Cardinality(A(Swept(0))) + 1
          /\ Cardinality(A(row')) \in Nat /\ Cardinality(A(Swept(0))) \in Nat
      BY <3>1, <3>2, AddOne
    <3> QED
      BY <1>1, <3>3, <3>4
  <2>2. CASE j \notin Upload
    <3>1. A(row') \subseteq A(row)
      BY <1>1, <1>4, <2>2, ActiveUploadsFinite
    <3> QED
      BY <1>2, <3>1
  <2> QED
    BY <2>1, <2>2
<1> QED
  BY <1>3, <1>4, NextLive

\* All workers together parse at most mineru_max_concurrency uploads, under the
\* same condition.
THEOREM UploadAdmission ==
    ASSUME TxLag = 0
    PROVE  Spec => []UploadsWithinCap
<1>1. Init => UploadsWithinCap
  <2> SUFFICES ASSUME Init PROVE Cardinality(ActiveUploads(row, 0)) <= UploadCap
    BY DEF UploadsWithinCap
  <2>1. ActiveUploads(row, 0) = {}
    BY JobTableAssumption DEF ActiveUploads, Init, TableInit, NoRow, Held
  <2>2. Cardinality(ActiveUploads(row, 0)) = 0
    BY <2>1, FS_EmptySet
  <2> QED
    BY <2>2, JobTableAssumption
<1>2. IInv /\ UploadsWithinCap /\ [Next]_vars => UploadsWithinCap'
  <2>1. CASE UNCHANGED vars
    BY <2>1 DEF vars, table, UploadsWithinCap, ActiveUploads
  <2> QED
    BY <2>1, NextUploadsWithinCap
<1> QED
  BY <1>1, <1>2, Invariance, PTL DEF Spec

-----------------------------------------------------------------------------
(***************************************************************************)
(* Groups run in creation order, whatever the clocks.                      *)
(***************************************************************************)
Members(rows, g) == {i \in Job : JobGroup[i] = g /\ rows[i].born > 0}

\* Ranks are handed out without gaps, so a new one is higher than those given.
RanksCounted ==
    \A j \in Job : JobGroup[j] # NoGroup => row[j].born <= Cardinality(Members(row, JobGroup[j]))

LEMMA MembersFinite ==
    ASSUME NEW rows, NEW g
    PROVE  IsFiniteSet(Members(rows, g)) /\ Cardinality(Members(rows, g)) \in Nat
<1>1. Members(rows, g) \subseteq Job
  BY DEF Members
<1> QED
  BY <1>1, JobTableAssumption, FS_Subset, FS_CardinalityType

LEMMA RankIsNext ==
    ASSUME NEW j \in Job
    PROVE  /\ Rank(j) = IF JobGroup[j] = NoGroup THEN 0 ELSE 1 + Cardinality(Members(row, JobGroup[j]))
           /\ Rank(j) \in Nat
<1>1. Cardinality(Members(row, JobGroup[j])) \in Nat
  BY MembersFinite
<1> QED
  BY <1>1 DEF Rank, Members

LEMMA CreatedRank ==
    ASSUME IInv, NEW j \in Job, Creates(j)
    PROVE  /\ row'[j].born = Rank(j) /\ row'[j].status = "queued" /\ row[j].born = 0
           /\ \A i \in Job : i # j => row'[i] = row[i]
<1>1. row[j] \in Row /\ RowConsistent(row[j]) /\ row[j].status = "absent"
  BY DEF IInv, TypeOK, RowsConsistent, Creates, Submit
<1> QED
  BY <1>1 DEF Creates, Submit, NoRow, RowConsistent, IInv, TypeOK

LEMMA RowStepBorn ==
    ASSUME NEW r \in Row, NEW s, RowConsistent(r), RowMove(r, s) \/ MoveClaim(r, s)
    PROVE  s.born = r.born
<1>1. CASE RowMove(r, s)
  BY <1>1, RowMoveKeeps
<1>2. CASE MoveClaim(r, s)
  BY <1>2 DEF MoveClaim, Claimed, Row
<1> QED
  BY <1>1, <1>2

LEMMA NextRanksCounted ==
    ASSUME IInv, RanksCounted, Next
    PROVE  RanksCounted'
<1> SUFFICES ASSUME NEW j \in Job, JobGroup[j] # NoGroup
             PROVE  row'[j].born <= Cardinality(Members(row', JobGroup[j]))
  BY DEF RanksCounted, Members
<1> DEFINE g == JobGroup[j]
<1>1. \A i \in Job : row[i] \in Row /\ RowConsistent(row[i]) /\ row[i].born \in Nat
  BY DEF IInv, TypeOK, RowsConsistent, Row
<1>2. row[j].born <= Cardinality(Members(row, g)) /\ Cardinality(Members(row, g)) \in Nat
  BY MembersFinite DEF RanksCounted
<1>3. CASE \A i \in Job : row'[i].born = row[i].born
  <2>1. Members(row', g) = Members(row, g)
    BY <1>3 DEF Members
  <2> QED
    BY <1>2, <1>3, <2>1
<1>4. CASE Moves
  BY <1>1, <1>3, <1>4, RowStepBorn DEF Moves
<1>5. ASSUME NEW i \in Job, NEW lag \in 0..TxLag, Grants(i, lag)
      PROVE  \A k \in Job : row'[k].born = row[k].born
  BY <1>1, <1>5, RowStepBorn DEF Grants
<1>6. ASSUME NEW i \in Job, Creates(i)
      PROVE  row'[j].born <= Cardinality(Members(row', g))
  <2>1. /\ row'[i].born = Rank(i) /\ row[i].born = 0
        /\ \A k \in Job : k # i => row'[k] = row[k]
    BY <1>6, CreatedRank
  <2>2. CASE JobGroup[i] = g
    <3>1. Rank(i) = Cardinality(Members(row, g)) + 1
      BY <1>2, <2>2, RankIsNext
    <3>2. Members(row', g) = Members(row, g) \cup {i} /\ i \notin Members(row, g)
      BY <1>2, <2>1, <2>2, <3>1 DEF Members
    <3>3. Cardinality(Members(row', g)) = Cardinality(Members(row, g)) + 1
      BY <3>2, MembersFinite, FS_AddElement
    <3> QED
      BY <1>1, <1>2, <2>1, <3>1, <3>3
  <2>3. CASE JobGroup[i] # g
    <3>1. Members(row', g) = Members(row, g) /\ row'[j] = row[j]
      BY <2>1, <2>3 DEF Members
    <3> QED
      BY <1>2, <3>1
  <2> QED
    BY <2>2, <2>3
<1>7. ASSUME NEW p \in Project, Erases(p)
      PROVE  row'[j].born <= Cardinality(Members(row', g))
  <2>1. CASE JobProject[j] = p
    <3>1. row'[j].born = 0
      BY <1>1, <1>7, <2>1 DEF Erases, MovePurge, NoRow, RowConsistent
    <3> QED
      BY <3>1, MembersFinite
  <2>2. CASE JobProject[j] # p
    <3>1. \A k \in Job : JobGroup[k] = g => row'[k] = row[k]
      BY <1>7, <2>2, JobTableAssumption DEF Erases
    <3>2. Members(row', g) = Members(row, g)
      BY <3>1 DEF Members
    <3> QED
      BY <1>2, <3>1, <3>2
  <2> QED
    BY <2>1, <2>2
<1> QED
  BY <1>3, <1>4, <1>5, <1>6, <1>7, NextRows

LEMMA NextGroupsRunInOrder ==
    ASSUME IInv, RanksCounted, GroupsRunInOrder, Next
    PROVE  GroupsRunInOrder'
<1> SUFFICES ASSUME NEW j \in Job, row'[j].status \in Held, NEW i \in Job,
                    JobGroup[j] # NoGroup, JobGroup[i] = JobGroup[j],
                    row'[i].status \in Unfinished, row'[i].born < row'[j].born
             PROVE  FALSE
  BY DEF GroupsRunInOrder, EarlierUnfinished
<1>1. \A k \in Job : row[k] \in Row /\ RowConsistent(row[k]) /\ row[k].born \in Nat
  BY DEF IInv, TypeOK, RowsConsistent, Row
<1>2. row'[i].born \in Nat /\ row'[j].born \in Nat /\ i # j
  BY NextRowSteps DEF Row
<1>3. row[j].status \in Held /\ row[i].status \in Unfinished => ~(row[i].born < row[j].born)
  BY DEF GroupsRunInOrder, EarlierUnfinished
<1>4. \A k \in Job : RowMove(row[k], row'[k])
         => /\ row'[k].born = row[k].born
            /\ row'[k].status \in Held => row[k].status \in Held
            /\ row'[k].status \in Unfinished => row[k].status \in Unfinished
  BY <1>1, RowMoveKeeps
<1>5. CASE Moves
  BY <1>3, <1>4, <1>5 DEF Moves
<1>6. ASSUME NEW k \in Job, Creates(k) PROVE FALSE
  <2>1. /\ row'[k].born = Rank(k) /\ row'[k].status = "queued"
        /\ \A l \in Job : l # k => row'[l] = row[l]
    BY <1>6, CreatedRank
  <2>2. j # k /\ row'[j] = row[j]
    BY <2>1 DEF Held
  <2>3. CASE i = k
    <3>1. row[j].born <= Cardinality(Members(row, JobGroup[j]))
      BY DEF RanksCounted
    <3>2. row'[i].born = 1 + Cardinality(Members(row, JobGroup[j]))
      BY <2>1, <2>3, RankIsNext
    <3> QED
      BY <1>1, <2>2, <3>1, <3>2, MembersFinite
  <2>4. CASE i # k
    BY <1>3, <2>1, <2>2, <2>4
  <2> QED
    BY <2>3, <2>4
<1>7. ASSUME NEW k \in Job, NEW lag \in 0..TxLag, Grants(k, lag) PROVE FALSE
  <2>1. row'[k].born = row[k].born
    BY <1>1, <1>7, RowStepBorn DEF Grants
  <2>2. \A l \in Job : l # k => row'[l] = Swept(lag)[l] /\ RowMove(row[l], row'[l])
    BY <1>7 DEF Grants
  <2>3. CASE j = k
    <3>1. Swept(lag)[i] = row'[i] /\ Swept(lag)[j] = row[j]
      BY <1>2, <1>7, <2>2, <2>3 DEF Grants
    <3>2. ~EarlierUnfinished(Swept(lag), j)
      BY <1>7, <2>3 DEF Grants, Claimable
    <3> QED
      BY <2>1, <2>3, <3>1, <3>2 DEF EarlierUnfinished
  <2>4. CASE j # k
    <3>1. row[j].status \in Held /\ row'[j].born = row[j].born
      BY <1>4, <2>2, <2>4
    <3>2. row[i].status \in Unfinished /\ row'[i].born = row[i].born
      <4>1. CASE i = k
        BY <1>7, <2>1, <4>1 DEF Grants, MoveClaim, Unfinished
      <4>2. CASE i # k
        BY <1>4, <2>2, <4>2
      <4> QED
        BY <4>1, <4>2
    <3> QED
      BY <1>3, <3>1, <3>2
  <2> QED
    BY <2>3, <2>4
<1>8. ASSUME NEW p \in Project, Erases(p) PROVE FALSE
  <2>1. \A k \in Job : MovePurge(row[k], row'[k]) => row'[k].status = "gone"
    BY DEF MovePurge, NoRow
  <2>2. row'[j] = row[j] /\ row'[i] = row[i]
    BY <1>8, <2>1 DEF Erases, Held, Unfinished
  <2> QED
    BY <1>3, <2>2
<1> QED
  BY <1>5, <1>6, <1>7, <1>8, NextRows

\* The matrix writers and their planner, and the turns of a dialogue, run one
\* at a time in creation order: a job is held only when every earlier one of
\* its group has ended.
THEOREM GroupOrder == Spec => []GroupsRunInOrder
<1>1. Init => RanksCounted /\ GroupsRunInOrder
  BY MembersFinite DEF Init, TableInit, NoRow, RanksCounted, GroupsRunInOrder, Held
<1>2. IInv /\ RanksCounted /\ GroupsRunInOrder /\ [Next]_vars => (RanksCounted /\ GroupsRunInOrder)'
  <2>1. CASE UNCHANGED vars
    BY <2>1 DEF vars, table, RanksCounted, Members, GroupsRunInOrder, EarlierUnfinished
  <2> QED
    BY <2>1, NextRanksCounted, NextGroupsRunInOrder
<1> QED
  BY <1>1, <1>2, Invariance, PTL DEF Spec
=============================================================================
