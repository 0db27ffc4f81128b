---------------------------- MODULE AttemptsProofs ----------------------------
(*****************************************************************************)
(* Theorems about the attempts of Gateway: the provider works on one attempt *)
(* of a request at a time, and a request is charged once.                    *)
(*****************************************************************************)
EXTENDS GatewayProofs

-----------------------------------------------------------------------------
(* What the steps of a call, and those outside the gateway, leave alone.     *)

\* Jobs that have ended stay so.
JobsStayEnded == \A j \in Job : job[j] = "ended" => job'[j] = "ended"

\* A worker's hold is one of its request.
LEMMA WorkerFacts ==
    ASSUME GInv, NEW c \in Call, Works(c)
    PROVE  /\ call[c].of \in Request
           /\ HoldOf(c) \in Hold /\ HoldOf(c)[1] = call[c].of
           /\ call[c].attempt <= request[call[c].of].attempt
           /\ call[c].attempt \in 1..MaxAttempts
<1>1. call[c].at \notin {"idle", "begin", "done"}
  BY DEF Works
<1>2. HoldOf(c) \in Hold /\ call[c].attempt <= request[call[c].of].attempt
  BY <1>1 DEF GInv, CallOK
<1>3. QED
  BY <1>2 DEF HoldOf, Hold

\* The latest attempt of a request that was begun is a hold.
LEMMA LatestFacts ==
    ASSUME GInv, NEW r \in Request, request[r].status # "none"
    PROVE  Latest(r) \in Hold
<1>1. request[r].attempt \in 1..MaxAttempts
  BY BillingAssumption DEF GInv, RequestOK
<1>2. QED
  BY <1>1 DEF Latest, Hold

\* Steps that leave holds, requests and calls alone.
LEMMA QuietKeeps ==
    ASSUME GInv, AttemptsInv, UNCHANGED <<hold, request, call>>, JobsStayEnded, SummaryFails'
    PROVE  AttemptsInv'
<1>1. \A r \in Request : JobOf[r] \in Job
  BY BillingAssumption
<1>2. \A r \in Request : MayBeFailed(r) => MayBeFailed(r)'
  BY <1>1 DEF MayBeFailed, JobsStayEnded
<1>3. \A c \in Call : (Works(c) <=> Works(c)') /\ HoldOf(c)' = HoldOf(c) /\ (Sound(c) <=> Sound(c)')
  BY DEF Works, HoldOf, Sound
<1>4. \A r \in Request : WorkersOf(r)' = WorkersOf(r) /\ Latest(r)' = Latest(r)
  BY DEF WorkersOf, Works, Latest
<1>5. \A h \in Hold : IsCharged(h)' <=> IsCharged(h)
  BY DEF IsCharged
<1>6. ASSUME NEW r \in Request, Orderly(r) PROVE Orderly(r)'
  BY <1>2, <1>3, <1>4, <1>5, <1>6 DEF Orderly, WorkersAreLatest, ActiveIsLatest, ChargedIsFinal, WorkersOf
<1>7. ASSUME NEW r \in Request, Closed(r) PROVE Closed(r)'
  BY <1>2, <1>3, <1>4, <1>5, <1>7 DEF Closed, LatestIsStuck, OldWorkersLost, NothingCharged, WorkersOf
<1>8. AttemptsOK' /\ LoopOK'
  BY <1>3 DEF AttemptsInv, AttemptsOK, LoopOK, Works
<1>9. QED
  BY <1>6, <1>7, <1>8 DEF AttemptsInv

\* What a call's step leaves alone.
LEMMA CallFrame ==
    ASSUME GInv, NEW c \in Call, NEW place, Goes(c, place)
    PROVE  /\ \A d \in Call : HoldOf(d)' = HoldOf(d) /\ call'[d].of = call[d].of
                              /\ call'[d].attempt = call[d].attempt
           /\ \A d \in Call \ {c} : call'[d] = call[d] /\ (Works(d)' <=> Works(d))
           /\ call'[c].at = place
<1>1. \A d \in Call \ {c} : call'[d] = call[d]
  BY DEF Goes, GInv, CallOK
<1>2. call'[c].at = place /\ call'[c].of = call[c].of /\ call'[c].attempt = call[c].attempt
  BY DEF Goes, GInv, CallOK
<1>3. QED
  BY <1>1, <1>2 DEF HoldOf, Works

\* A call may end anywhere, leaving its hold as it is.
LEMMA LeavingKeeps ==
    ASSUME GInv, AttemptsInv, UNCHANGED <<hold, request, job, summary>>,
           NEW c \in Call, Goes(c, "done")
    PROVE  AttemptsInv'
<1>1. /\ \A d \in Call : HoldOf(d)' = HoldOf(d) /\ call'[d].of = call[d].of
                              /\ call'[d].attempt = call[d].attempt
      /\ \A d \in Call \ {c} : call'[d] = call[d] /\ (Works(d)' <=> Works(d))
      /\ call'[c].at = "done"
  BY CallFrame
<1>2. ~ Works(c)'
  BY <1>1 DEF Works
<1>3. \A r \in Request : WorkersOf(r)' \subseteq WorkersOf(r) /\ Latest(r)' = Latest(r)
                         /\ (MayBeFailed(r)' <=> MayBeFailed(r))
  BY <1>1, <1>2 DEF WorkersOf, Latest, MayBeFailed
<1>4. \A d \in Call : Works(d)' => Works(d) /\ call'[d] = call[d] /\ (Sound(d)' <=> Sound(d))
  BY <1>1, <1>2 DEF Sound
<1>5. \A h \in Hold : IsCharged(h)' <=> IsCharged(h)
  BY DEF IsCharged
<1>6. ASSUME NEW r \in Request, Orderly(r) PROVE Orderly(r)'
  BY <1>1, <1>3, <1>4, <1>5, <1>6 DEF Orderly, WorkersAreLatest, ActiveIsLatest, ChargedIsFinal, WorkersOf
<1>7. ASSUME NEW r \in Request, Closed(r) PROVE Closed(r)'
  <2>1. LatestIsStuck(r)'
    BY <1>1, <1>7 DEF Closed, LatestIsStuck
  <2>2. OldWorkersLost(r)'
    BY <1>1, <1>3, <1>7 DEF Closed, OldWorkersLost, WorkersOf
  <2>3. NothingCharged(r)'
    BY <1>3, <1>5, <1>7 DEF Closed, NothingCharged
  <2>4. QED
    BY <1>3, <1>7, <2>1, <2>2, <2>3 DEF Closed
<1>8. AttemptsOK'
  BY <1>1, <1>4 DEF AttemptsInv, AttemptsOK
<1>9. LoopOK'
  BY <1>1 DEF AttemptsInv, LoopOK, HoldsLoop
<1>10. SummaryFails'
  BY <1>3 DEF AttemptsInv, SummaryFails, GInv, SummaryOK
<1>11. QED
  BY <1>6, <1>7, <1>8, <1>9, <1>10 DEF AttemptsInv

\* A crash leaves no call at work, and holds and requests as they are.
LEMMA CrashKeeps ==
    ASSUME GInv, AttemptsInv, Crash
    PROVE  AttemptsInv'
<1>1. \A d \in Call : /\ HoldOf(d)' = HoldOf(d) /\ call'[d].of = call[d].of
                      /\ call'[d].attempt = call[d].attempt /\ call'[d].at \in {"idle", "done"}
  BY DEF Crash, GInv, CallOK, HoldOf
<1>2. \A d \in Call : ~ Works(d)'
  BY <1>1 DEF Works
<1>3. UNCHANGED <<hold, request, job, summary>>
  BY DEF Crash, account, Others
<1>4. \A r \in Request : WorkersOf(r)' = {} /\ Latest(r)' = Latest(r)
                         /\ (MayBeFailed(r)' <=> MayBeFailed(r))
  BY <1>2, <1>3 DEF WorkersOf, Latest, MayBeFailed
<1>5. \A h \in Hold : IsCharged(h)' <=> IsCharged(h)
  BY <1>3 DEF IsCharged
<1>6. ASSUME NEW r \in Request, Orderly(r) PROVE Orderly(r)'
  BY <1>3, <1>4, <1>5, <1>6 DEF Orderly, WorkersAreLatest, ActiveIsLatest, ChargedIsFinal
<1>7. ASSUME NEW r \in Request, Closed(r) PROVE Closed(r)'
  BY <1>1, <1>3, <1>4, <1>5, <1>7 DEF Closed, LatestIsStuck, OldWorkersLost, NothingCharged
<1>8. AttemptsOK' /\ LoopOK'
  BY <1>1, <1>2, <1>3 DEF AttemptsInv, AttemptsOK, LoopOK, HoldsLoop
<1>9. SummaryFails'
  BY <1>3, <1>4 DEF AttemptsInv, SummaryFails, GInv, SummaryOK
<1>10. QED
  BY <1>6, <1>7, <1>8, <1>9 DEF AttemptsInv

\* A call whose job is no longer open for others to interfere enters the loop.
LEMMA EnterKeeps ==
    ASSUME GInv, AttemptsInv, NEW c \in Call, NEW r \in Request, Enter(c, r)
    PROVE  AttemptsInv'
<1>1. UNCHANGED <<hold, request, job, summary>>
  BY DEF Enter, account, Others
<1>2. \A d \in Call \ {c} : call'[d] = call[d] /\ call[d].at \notin HoldsLoop
  BY DEF Enter, CallIn, LoopFreeFor, GInv, CallOK
<1>3. call'[c] = [at |-> "begin", of |-> r, attempt |-> 0] /\ call[c].at = "idle"
  BY DEF Enter, CallIn, GInv, CallOK
<1>4. ~ MayBeFailed(r)
  BY DEF Enter, MayBeFailed
<1>5. \A d \in Call : (Works(d)' <=> Works(d)) /\ (Works(d) => call'[d] = call[d])
  BY <1>2, <1>3 DEF Works
<1>6. \A d \in Call : Works(d) => HoldOf(d)' = HoldOf(d) /\ (Sound(d)' <=> Sound(d))
  BY <1>1, <1>5 DEF HoldOf, Sound
<1>7. \A s \in Request : WorkersOf(s)' = WorkersOf(s) /\ Latest(s)' = Latest(s)
                         /\ (MayBeFailed(s)' <=> MayBeFailed(s))
  BY <1>1, <1>5 DEF WorkersOf, Latest, MayBeFailed
<1>8. \A h \in Hold : IsCharged(h)' <=> IsCharged(h)
  BY <1>1 DEF IsCharged
<1>9. ASSUME NEW s \in Request, Orderly(s) PROVE Orderly(s)'
  BY <1>1, <1>6, <1>7, <1>8, <1>9 DEF Orderly, WorkersAreLatest, ActiveIsLatest, ChargedIsFinal, WorkersOf
<1>10. ASSUME NEW s \in Request, Closed(s) PROVE Closed(s)'
  <2>1. s # r
    BY <1>4, <1>10 DEF Closed, LatestIsStuck, OldWorkersLost, NothingCharged
  <2>2. ASSUME NEW d \in Call, call'[d].of = s PROVE call'[d] = call[d]
    BY <1>2, <1>3, <2>1, <2>2
  <2>3. QED
    BY <1>1, <1>6, <1>7, <1>8, <1>10, <2>2 DEF Closed, LatestIsStuck, OldWorkersLost, NothingCharged, WorkersOf
<1>11. AttemptsOK'
  BY <1>1, <1>5, <1>6 DEF AttemptsInv, AttemptsOK
<1>12. LoopOK'
  BY <1>1, <1>2, <1>3 DEF AttemptsInv, LoopOK, HoldsLoop
<1>13. SummaryFails'
  BY <1>1, <1>7 DEF AttemptsInv, SummaryFails, GInv, SummaryOK
<1>14. QED
  BY <1>9, <1>10, <1>11, <1>12, <1>13 DEF AttemptsInv

\* A request that a step does not touch keeps its part of the invariant.
LEMMA OtherKept ==
    ASSUME GInv, NEW s \in Request, Orderly(s) \/ Closed(s), request'[s] = request[s],
           MayBeFailed(s) => MayBeFailed(s)',
           \A h \in Hold : h[1] = s => hold'[h] = hold[h],
           \A d \in Call : call'[d].of = s \/ call[d].of = s => call'[d] = call[d]
    PROVE  Orderly(s)' \/ Closed(s)'
<1>1. \A d \in Call : call[d].of = s => /\ Works(d)' <=> Works(d)
                                        /\ HoldOf(d)' = HoldOf(d)
                                        /\ Sound(d)' <=> Sound(d)
  BY DEF Works, HoldOf, Sound
<1>2. WorkersOf(s)' = WorkersOf(s) /\ Latest(s)' = Latest(s)
  BY <1>1 DEF WorkersOf, Latest
<1>3. \A h \in Hold : h[1] = s => (IsCharged(h)' <=> IsCharged(h))
  BY DEF IsCharged
<1>4. \A d \in WorkersOf(s) : /\ d \in Call /\ HoldOf(d)' = HoldOf(d)
                              /\ Sound(d)' <=> Sound(d)
                              /\ hold'[HoldOf(d)] = hold[HoldOf(d)]
  BY <1>1, WorkerFacts DEF WorkersOf
<1>5. CASE Orderly(s)
  <2>1. WorkersAreLatest(s)'
    BY <1>2, <1>4, <1>5 DEF Orderly, WorkersAreLatest
  <2>2. ActiveIsLatest(s)'
    BY <1>2, <1>5 DEF Orderly, ActiveIsLatest
  <2>3. ChargedIsFinal(s)'
    BY <1>2, <1>3, <1>5 DEF Orderly, ChargedIsFinal
  <2>4. QED
    BY <2>1, <2>2, <2>3 DEF Orderly
<1>6. CASE Closed(s)
  <2>1. LatestIsStuck(s)'
    BY <1>6 DEF Closed, LatestIsStuck
  <2>2. OldWorkersLost(s)'
    BY <1>2, <1>4, <1>6 DEF Closed, OldWorkersLost
  <2>3. NothingCharged(s)'
    BY <1>2, <1>3, <1>6 DEF Closed, NothingCharged
  <2>4. QED
    BY <1>6, <2>1, <2>2, <2>3 DEF Closed
<1>7. QED
  BY <1>5, <1>6

\* A call that joined the answer of another takes it from the row.
LEMMA JoinKeeps ==
    ASSUME GInv, AttemptsInv, NEW c \in Call, Join(c)
    PROVE  AttemptsInv'
<1>1. UNCHANGED <<hold, request, job, summary>> /\ CallIn(c, {"joined"})
  BY DEF Join, account, Others
<1>2. CASE Goes(c, "done")
  BY <1>1, <1>2, LeavingKeeps
<1>3. CASE Goes(c, "cached") /\ request[call[c].of].status = "succeeded"
  <2>1. /\ \A d \in Call : HoldOf(d)' = HoldOf(d) /\ call'[d].of = call[d].of
                                /\ call'[d].attempt = call[d].attempt
        /\ \A d \in Call \ {c} : call'[d] = call[d] /\ (Works(d)' <=> Works(d))
        /\ call'[c].at = "cached"
    BY <1>3, CallFrame
  <2>2. call[c].at = "joined" /\ \A d \in Call \ {c} : call[d].at \notin HoldsLoop
    BY <1>1 DEF CallIn, LoopFreeFor
  <2>3. \A d \in Call : (Works(d)' <=> Works(d)) /\ (Works(d) => call'[d] = call[d])
    BY <2>1, <2>2 DEF Works
  <2>4. \A s \in Request : WorkersOf(s)' = WorkersOf(s) /\ Latest(s)' = Latest(s)
                           /\ (MayBeFailed(s)' <=> MayBeFailed(s))
    BY <1>1, <2>1, <2>3 DEF WorkersOf, Latest, MayBeFailed
  <2>5. \A h \in Hold : IsCharged(h)' <=> IsCharged(h)
    BY <1>1 DEF IsCharged
  <2>6. \A d \in Call : Works(d) => (Sound(d)' <=> Sound(d))
    BY <1>1, <2>3 DEF Sound
  <2>7. ASSUME NEW s \in Request, Orderly(s) PROVE Orderly(s)'
    BY <1>1, <2>1, <2>4, <2>5, <2>6, <2>7 DEF Orderly, WorkersAreLatest, ActiveIsLatest, ChargedIsFinal, WorkersOf
  <2>8. ASSUME NEW s \in Request, Closed(s) PROVE Closed(s)'
    <3>1. LatestIsStuck(s)'
      BY <1>1, <2>1, <2>2, <2>8 DEF Closed, LatestIsStuck
    <3>2. OldWorkersLost(s)'
      BY <1>1, <2>1, <2>4, <2>8 DEF Closed, OldWorkersLost, WorkersOf
    <3>3. NothingCharged(s)'
      BY <1>1, <2>4, <2>5, <2>8 DEF Closed, NothingCharged
    <3>4. QED
      BY <2>4, <2>8, <3>1, <3>2, <3>3 DEF Closed
  <2>9. AttemptsOK'
    BY <1>1, <2>1, <2>3 DEF AttemptsInv, AttemptsOK
  <2>10. LoopOK'
    <3>1. \A d, e \in Call : call'[d].at \in HoldsLoop /\ call'[e].at \in HoldsLoop => d = e
      BY <2>1, <2>2
    <3>2. \A d \in Call : call'[d].at = "cached"
              => request'[call'[d].of].status \in {"succeeded", "failed"}
      BY <1>1, <1>3, <2>1 DEF AttemptsInv, LoopOK
    <3>3. QED
      BY <3>1, <3>2 DEF LoopOK
  <2>11. SummaryFails'
    BY <1>1, <2>4 DEF AttemptsInv, SummaryFails, GInv, SummaryOK
  <2>12. QED
    BY <2>7, <2>8, <2>9, <2>10, <2>11 DEF AttemptsInv
<1>4. QED
  BY <1>2, <1>3 DEF Join

\* Only a call whose job is running sends its prompt.
LEMMA SendKeeps ==
    ASSUME GInv, AttemptsInv, NEW c \in Call, Send(c)
    PROVE  AttemptsInv'
<1>1. UNCHANGED <<hold, request, job, summary>> /\ CallIn(c, {"reserved"}) /\ Goes(c, "streaming")
      /\ job[JobOf[call[c].of]] = "running"
  BY DEF Send, account, Others
<1>2. /\ \A d \in Call : HoldOf(d)' = HoldOf(d) /\ call'[d].of = call[d].of
                              /\ call'[d].attempt = call[d].attempt
      /\ \A d \in Call \ {c} : call'[d] = call[d] /\ (Works(d)' <=> Works(d))
      /\ call'[c].at = "streaming"
  BY <1>1, CallFrame
<1>3. call[c].at = "reserved" /\ Works(c) /\ Works(c)'
  BY <1>1, <1>2 DEF CallIn, Works
<1>4. \A s \in Request : WorkersOf(s)' = WorkersOf(s) /\ Latest(s)' = Latest(s)
                         /\ (MayBeFailed(s)' <=> MayBeFailed(s))
  BY <1>1, <1>2, <1>3 DEF WorkersOf, Latest, MayBeFailed
<1>5. \A h \in Hold : IsCharged(h)' <=> IsCharged(h)
  BY <1>1 DEF IsCharged
<1>6. \A d \in Call : Sound(d)' <=> Sound(d)
  BY <1>1, <1>2, <1>3 DEF Sound
<1>7. ASSUME NEW s \in Request, Orderly(s) PROVE Orderly(s)'
  BY <1>1, <1>2, <1>4, <1>5, <1>6, <1>7 DEF Orderly, WorkersAreLatest, ActiveIsLatest, ChargedIsFinal, WorkersOf
<1>8. ASSUME NEW s \in Request, Closed(s) PROVE Closed(s)'
  <2>1. s # call[c].of
    BY <1>1, <1>8 DEF Closed, LatestIsStuck, OldWorkersLost, NothingCharged, MayBeFailed
  <2>2. \A d \in Call : call'[d].of = s \/ call[d].of = s => call'[d] = call[d]
    BY <1>2, <2>1
  <2>3. LatestIsStuck(s)'
    BY <1>1, <1>8, <2>2 DEF Closed, LatestIsStuck
  <2>4. OldWorkersLost(s)'
    BY <1>1, <1>2, <1>4, <1>8 DEF Closed, OldWorkersLost, WorkersOf
  <2>5. NothingCharged(s)'
    BY <1>1, <1>4, <1>5, <1>8 DEF Closed, NothingCharged
  <2>6. QED
    BY <1>4, <1>8, <2>3, <2>4, <2>5 DEF Closed
<1>9. AttemptsOK'
  BY <1>1, <1>2, <1>3 DEF AttemptsInv, AttemptsOK
<1>10. LoopOK'
  BY <1>1, <1>2 DEF AttemptsInv, LoopOK, HoldsLoop
<1>11. SummaryFails'
  BY <1>1, <1>4 DEF AttemptsInv, SummaryFails, GInv, SummaryOK
<1>12. QED
  BY <1>7, <1>8, <1>9, <1>10, <1>11 DEF AttemptsInv

\* The requests other than that of the call that steps.
LEMMA OthersKeptByCall ==
    ASSUME GInv, AttemptsInv, NEW c \in Call, NEW place, Goes(c, place), UNCHANGED job,
           \A s \in Request \ {call[c].of} : request'[s] = request[s],
           \A h \in Hold : h[1] # call[c].of => hold'[h] = hold[h]
    PROVE  \A s \in Request \ {call[c].of} : Orderly(s)' \/ Closed(s)'
<1> SUFFICES ASSUME NEW s \in Request \ {call[c].of} PROVE Orderly(s)' \/ Closed(s)'
  OBVIOUS
<1>1. \A d \in Call : call'[d].of = s \/ call[d].of = s => call'[d] = call[d]
  BY CallFrame
<1>2. MayBeFailed(s) => MayBeFailed(s)'
  BY DEF MayBeFailed
<1>3. Orderly(s) \/ Closed(s)
  BY DEF AttemptsInv
<1>4. request'[s] = request[s] /\ \A h \in Hold : h[1] = s => hold'[h] = hold[h]
  OBVIOUS
<1>5. QED
  BY <1>1, <1>2, <1>3, <1>4, OtherKept

\* The answer of a call is charged to its hold.
LEMMA ChargeKeeps ==
    ASSUME GInv, AttemptsInv, NEW c \in Call, CallIn(c, {"cached", "settling"}), Goes(c, "done"),
           Settle(HoldOf(c), request[call[c].of].cost), UNCHANGED <<request, job, summary>>
    PROVE  /\ AttemptsInv'
           /\ request[call[c].of].status = "succeeded" /\ HoldOf(c) = Latest(call[c].of)
           /\ \A h \in Hold : h[1] = call[c].of => ~ IsCharged(h)
<1>0. call[c].of \in Request /\ HoldOf(c) \in Hold
  BY DEF GInv, CallOK, CallIn
<1> PICK r \in Request, k \in Hold : r = call[c].of /\ k = HoldOf(c)
  BY <1>0
<1>1. /\ \A d \in Call : HoldOf(d)' = HoldOf(d) /\ call'[d].of = call[d].of
                              /\ call'[d].attempt = call[d].attempt
      /\ \A d \in Call \ {c} : call'[d] = call[d] /\ (Works(d)' <=> Works(d))
      /\ call'[c].at = "done"
  BY CallFrame
<1>2. call[c].at \in {"cached", "settling"} /\ \A d \in Call \ {c} : call[d].at \notin HoldsLoop
  BY DEF CallIn, LoopFreeFor
<1>3. k[1] = r /\ k[2] = call[c].attempt
  BY DEF HoldOf
<1>4. hold[k].status = "active" /\ ~ summary.open
  BY DEF Settle, Unlocked
<1>5. Orderly(r)
  <2>1. Closed(r) => k = Latest(r)
    BY <1>3, <1>4 DEF Closed, NothingCharged
  <2>2. Closed(r) => call[c].attempt # request[r].attempt
    BY <1>2 DEF Closed, LatestIsStuck
  <2>3. QED
    BY <1>3, <2>1, <2>2 DEF AttemptsInv, Latest
<1>6. k = Latest(r) /\ request[r].status = "succeeded"
  <2>1. k = Latest(r) /\ request[r].status \in {"running", "succeeded"}
    BY <1>3, <1>4, <1>5 DEF Orderly, ActiveIsLatest
  <2>2. CASE call[c].at = "cached"
    BY <2>1, <2>2 DEF AttemptsInv, LoopOK
  <2>3. CASE call[c].at = "settling"
    <3>1. c \in WorkersOf(r)
      BY <2>3 DEF WorkersOf, Works
    <3>2. Sound(c)
      BY <1>4, <1>5, <3>1 DEF Orderly, WorkersAreLatest
    <3>3. QED
      BY <2>1, <2>3, <3>2 DEF Sound
  <2>4. QED
    BY <1>2, <2>2, <2>1, <2>3
<1>7. WorkersOf(r)' = {}
  <2>1. ASSUME NEW d \in Call \ {c}, Works(d), call[d].of = r PROVE FALSE
    <3>1. d \in WorkersOf(r)
      BY <2>1 DEF WorkersOf
    <3>2. HoldOf(d) = k
      BY <1>5, <1>6, <3>1 DEF Orderly, WorkersAreLatest
    <3>3. Sound(d)
      BY <1>4, <1>5, <1>6, <3>1, <3>2 DEF Orderly, WorkersAreLatest
    <3>4. call[d].at = "settling"
      BY <1>6, <2>1, <3>3 DEF Sound
    <3>5. QED
      BY <1>2, <3>4 DEF HoldsLoop
  <2>2. ~ Works(c)'
    BY <1>1 DEF Works
  <2>3. QED
    BY <1>1, <2>1, <2>2 DEF WorkersOf
<1>8. /\ hold'[k].status \in {"settled", "overrun"} /\ hold'[k].charged = request[r].cost
      /\ \A h \in Hold \ {k} : hold'[h] = hold[h]
  BY <1>3 DEF Settle, Put
<1>9. \A h \in Hold : h[1] = r => ~ IsCharged(h)
  BY <1>4, <1>5, <1>6 DEF Orderly, ChargedIsFinal, IsCharged
<1>10. \A s \in Request \ {r} : Orderly(s)' \/ Closed(s)'
  BY <1>3, <1>8, OthersKeptByCall
<1>11. Orderly(r)'
  <2>1. WorkersAreLatest(r)'
    BY <1>7 DEF WorkersAreLatest
  <2>2. \A h \in Hold \ {k} : h[1] = r => hold[h].status # "active"
    BY <1>5, <1>6 DEF Orderly, ActiveIsLatest
  <2>3. ActiveIsLatest(r)'
    BY <1>8, <2>2 DEF ActiveIsLatest
  <2>4. \A h \in Hold : h[1] = r /\ IsCharged(h)' => h = k
    BY <1>8, <1>9 DEF IsCharged
  <2>5. Latest(r)' = k
    BY <1>6 DEF Latest
  <2>6. ChargedIsFinal(r)'
    BY <1>6, <1>7, <1>8, <2>4, <2>5 DEF ChargedIsFinal
  <2>7. QED
    BY <2>1, <2>3, <2>6 DEF Orderly
<1>12. AttemptsOK'
  <2>1. \A d \in Call : Works(d)' => Works(d) /\ call'[d] = call[d] /\ d # c
    BY <1>1 DEF Works
  <2>2. \A h \in Hold : /\ hold'[h].status = "none" <=> hold[h].status = "none"
                        /\ hold'[h].status = "active" => hold[h].status = "active"
    BY <1>4, <1>8
  <2>3. \A d \in Call : Works(d) => HoldOf(d) \in Hold
    BY WorkerFacts
  <2>4. QED
    BY <1>1, <2>1, <2>2, <2>3 DEF AttemptsInv, AttemptsOK
<1>13. LoopOK'
  BY <1>1 DEF AttemptsInv, LoopOK, HoldsLoop
<1>14. SummaryFails'
  BY <1>4 DEF AttemptsInv, SummaryFails
<1>15. AttemptsInv'
  BY <1>10, <1>11, <1>12, <1>13, <1>14 DEF AttemptsInv
<1>16. QED
  BY <1>6, <1>9, <1>15

\* A call that settles charges its hold or only ends.
LEMMA SettlingKeeps ==
    ASSUME GInv, AttemptsInv, NEW c \in Call, SettleCached(c) \/ SettleCall(c)
    PROVE  AttemptsInv'
<1>1. CallIn(c, {"cached", "settling"}) /\ Goes(c, "done") /\ UNCHANGED <<request, job, summary>>
  BY DEF SettleCached, SettleCall, CallIn, Others
<1>2. CASE UNCHANGED account
  BY <1>1, <1>2, LeavingKeeps DEF account
<1>3. CASE Settle(HoldOf(c), request[call[c].of].cost)
  BY <1>1, <1>3, ChargeKeeps
<1>4. QED
  BY <1>2, <1>3 DEF SettleCached, SettleCall

\* A call that fails gives its hold back first ...
LEMMA ReleasingKeeps ==
    ASSUME GInv, AttemptsInv, NEW c \in Call, ReleaseCredit(c)
    PROVE  AttemptsInv'
<1>0. call[c].of \in Request /\ HoldOf(c) \in Hold
  BY DEF GInv, CallOK, CallIn, ReleaseCredit
<1> PICK r \in Request, k \in Hold : r = call[c].of /\ k = HoldOf(c)
  BY <1>0
<1>1. CallIn(c, {"reserved", "streaming"}) /\ Goes(c, "failing")
      /\ UNCHANGED <<request, job, summary>> /\ ~ summary.open
  BY DEF ReleaseCredit, Others, Release, Unlocked
<1>2. /\ \A d \in Call : HoldOf(d)' = HoldOf(d) /\ call'[d].of = call[d].of
                              /\ call'[d].attempt = call[d].attempt
      /\ \A d \in Call \ {c} : call'[d] = call[d] /\ (Works(d)' <=> Works(d))
      /\ call'[c].at = "failing"
  BY <1>1, CallFrame
<1>3. call[c].at \in {"reserved", "streaming"} /\ Works(c) /\ Works(c)'
      /\ \A d \in Call \ {c} : call[d].at \notin HoldsLoop
  BY <1>1, <1>2 DEF CallIn, LoopFreeFor, Works
<1>4. k[1] = r /\ k[2] = call[c].attempt /\ c \in WorkersOf(r)
  BY <1>3 DEF HoldOf, WorkersOf
<1>5. hold' = Put({k} \cap InStatus("active"), "released", 0)
  BY DEF ReleaseCredit, Release
<1>6. \A h \in Hold \ {k} : hold'[h] = hold[h]
  BY <1>5 DEF Put
<1>7. IF hold[k].status = "active" THEN hold'[k].status = "released" ELSE hold'[k] = hold[k]
  BY <1>5 DEF Put, InStatus
<1>8. \A h \in Hold : /\ hold'[h].status = "none" <=> hold[h].status = "none"
                      /\ hold'[h].status = "active" => hold[h].status = "active" /\ h # k
                      /\ hold[h].status = "released" => hold'[h].status = "released"
                      /\ IsCharged(h)' => IsCharged(h) /\ hold'[h] = hold[h]
  BY <1>6, <1>7 DEF IsCharged
<1>9. \A s \in Request : WorkersOf(s)' = WorkersOf(s) /\ Latest(s)' = Latest(s)
                         /\ (MayBeFailed(s)' <=> MayBeFailed(s))
  BY <1>1, <1>2, <1>3 DEF WorkersOf, Latest, MayBeFailed
<1>10. \A s \in Request \ {r} : Orderly(s)' \/ Closed(s)'
  BY <1>1, <1>4, <1>6, OthersKeptByCall
<1>11. \A d \in WorkersOf(r) : d \in Call /\ HoldOf(d)' = HoldOf(d) /\ HoldOf(d) \in Hold
                               /\ (Sound(d)' <=> Sound(d))
  BY <1>1, <1>2, <1>3, WorkerFacts DEF WorkersOf, Sound
<1>12. ASSUME Orderly(r) PROVE Orderly(r)'
  <2>1. WorkersAreLatest(r)'
    BY <1>1, <1>8, <1>9, <1>11, <1>12 DEF Orderly, WorkersAreLatest
  <2>2. ActiveIsLatest(r)'
    BY <1>1, <1>8, <1>9, <1>12 DEF Orderly, ActiveIsLatest
  <2>3. ChargedIsFinal(r)'
    BY <1>4, <1>8, <1>9, <1>12 DEF Orderly, ChargedIsFinal
  <2>4. QED
    BY <2>1, <2>2, <2>3 DEF Orderly
<1>13. ASSUME Closed(r) PROVE Closed(r)'
  <2>1. LatestIsStuck(r)'
    BY <1>1, <1>2, <1>3, <1>13 DEF Closed, LatestIsStuck
  <2>2. OldWorkersLost(r)'
    BY <1>8, <1>9, <1>11, <1>13 DEF Closed, OldWorkersLost
  <2>3. NothingCharged(r)'
    BY <1>8, <1>9, <1>13 DEF Closed, NothingCharged
  <2>4. QED
    BY <1>9, <1>13, <2>1, <2>2, <2>3 DEF Closed
<1>14. AttemptsOK'
  <2>1. \A d \in Call : Works(d)' => Works(d) /\ HoldOf(d) \in Hold /\ HoldOf(d)' = HoldOf(d)
    BY <1>2, <1>3, WorkerFacts
  <2>2. hold[k].status # "none"
    BY <1>3 DEF AttemptsInv, AttemptsOK
  <2>3. ASSUME NEW d \in Call, Works(d)'
        PROVE  /\ call'[d].at = "admitted" <=> hold'[HoldOf(d)].status = "none"
               /\ call'[d].at = "failing" => hold'[HoldOf(d)].status # "active"
    <3>1. CASE d = c
      BY <1>2, <1>8, <2>2, <3>1
    <3>2. CASE d # c
      BY <1>2, <1>8, <2>1, <2>3, <3>2 DEF AttemptsInv, AttemptsOK
    <3>3. QED
      BY <3>1, <3>2
  <2>4. QED
    BY <1>1, <1>8, <2>1, <2>3 DEF AttemptsInv, AttemptsOK
<1>15. LoopOK'
  BY <1>1, <1>2, <1>3 DEF AttemptsInv, LoopOK
<1>16. SummaryFails'
  BY <1>1 DEF AttemptsInv, SummaryFails
<1>17. \A s \in Request : Orderly(s)' \/ Closed(s)'
  BY <1>10, <1>12, <1>13 DEF AttemptsInv
<1>18. QED
  BY <1>14, <1>15, <1>16, <1>17 DEF AttemptsInv

\* ... and then fails its request; no other call works on it, or it is closed.
LEMMA FailingKeeps ==
    ASSUME GInv, AttemptsInv, NEW c \in Call, Fail(c)
    PROVE  AttemptsInv'
<1>0. call[c].of \in Request /\ HoldOf(c) \in Hold
  BY DEF GInv, CallOK, CallIn, Fail
<1> PICK r \in Request, k \in Hold : r = call[c].of /\ k = HoldOf(c)
  BY <1>0
<1>1. CallIn(c, {"failing", "admitted"}) /\ Goes(c, "done") /\ request' = Failed({r})
      /\ UNCHANGED <<hold, job, summary>>
  BY DEF Fail, Others, account
<1>2. /\ \A d \in Call : HoldOf(d)' = HoldOf(d) /\ call'[d].of = call[d].of
                              /\ call'[d].attempt = call[d].attempt
      /\ \A d \in Call \ {c} : call'[d] = call[d] /\ (Works(d)' <=> Works(d))
      /\ call'[c].at = "done"
  BY <1>1, CallFrame
<1>3. call[c].at \in {"failing", "admitted"} /\ Works(c) /\ ~ Works(c)' /\ c \in WorkersOf(r)
  BY <1>1, <1>2 DEF CallIn, Works, WorkersOf
<1>4. hold[k].status # "active"
  BY <1>3 DEF AttemptsInv, AttemptsOK
<1>5. /\ \A s \in Request : request'[s].attempt = request[s].attempt
      /\ \A s \in Request \ {r} : request'[s] = request[s]
      /\ request'[r].status = "failed"
  BY <1>1 DEF Failed, GInv, RequestOK
<1>6. \A s \in Request : WorkersOf(s)' \subseteq WorkersOf(s) /\ Latest(s)' = Latest(s)
                         /\ (MayBeFailed(s)' <=> MayBeFailed(s))
  BY <1>1, <1>2, <1>3, <1>5 DEF WorkersOf, Latest, MayBeFailed
<1>7. \A s \in Request \ {r} : Orderly(s)' \/ Closed(s)'
  BY <1>1, <1>5, OthersKeptByCall
<1>8. \A h \in Hold : IsCharged(h)' <=> IsCharged(h)
  BY <1>1 DEF IsCharged
<1>9. ASSUME Orderly(r) PROVE Orderly(r)'
  <2>1. WorkersOf(r)' = {}
    <3>1. ASSUME NEW d \in WorkersOf(r)' PROVE FALSE
      <4>1. d \in Call /\ d # c /\ d \in WorkersOf(r) /\ Works(d)
        BY <1>2, <1>3, <1>6 DEF WorkersOf
      <4>2. HoldOf(d) = HoldOf(c)
        BY <1>3, <1>9, <4>1 DEF Orderly, WorkersAreLatest
      <4>3. QED
        BY <1>3, <4>1, <4>2 DEF AttemptsInv, AttemptsOK
    <3>2. QED
      BY <3>1
  <2>2. k = Latest(r)
    BY <1>3, <1>9 DEF Orderly, WorkersAreLatest
  <2>3. \A h \in Hold : h[1] = r => hold[h].status # "active" /\ ~ IsCharged(h)
    BY <1>3, <1>4, <1>9, <2>2 DEF Orderly, ActiveIsLatest, ChargedIsFinal
  <2>4. WorkersAreLatest(r)' /\ ActiveIsLatest(r)' /\ ChargedIsFinal(r)'
    BY <1>1, <1>8, <2>1, <2>3 DEF WorkersAreLatest, ActiveIsLatest, ChargedIsFinal
  <2>5. QED
    BY <2>4 DEF Orderly
<1>10. ASSUME Closed(r) PROVE Closed(r)'
  <2>1. LatestIsStuck(r)'
    BY <1>2, <1>5, <1>10 DEF Closed, LatestIsStuck
  <2>2. OldWorkersLost(r)'
    BY <1>1, <1>2, <1>6, <1>10 DEF Closed, OldWorkersLost, WorkersOf
  <2>3. NothingCharged(r)'
    BY <1>1, <1>6, <1>8, <1>10 DEF Closed, NothingCharged
  <2>4. QED
    BY <1>6, <1>10, <2>1, <2>2, <2>3 DEF Closed
<1>11. AttemptsOK'
  <2>1. \A d \in Call : Works(d)' => Works(d) /\ call'[d] = call[d] /\ HoldOf(d)' = HoldOf(d)
    BY <1>2, <1>3
  <2>2. \A h \in Hold : request'[h[1]].attempt = request[h[1]].attempt
    BY <1>5 DEF Hold
  <2>3. \A h \in Hold : h[2] > request'[h[1]].attempt => hold'[h].status = "none"
    BY <1>1, <2>2 DEF AttemptsInv, AttemptsOK
  <2>4. \A d, e \in Call : Works(d)' /\ Works(e)' /\ HoldOf(d)' = HoldOf(e)' => d = e
    BY <2>1 DEF AttemptsInv, AttemptsOK
  <2>5. \A d \in Call : Works(d)' =>
            /\ call'[d].at = "admitted" <=> hold'[HoldOf(d)'].status = "none"
            /\ call'[d].at = "failing" => hold'[HoldOf(d)'].status # "active"
    BY <1>1, <2>1 DEF AttemptsInv, AttemptsOK
  <2>6. QED
    BY <2>3, <2>4, <2>5 DEF AttemptsOK
<1>12. LoopOK'
  <2>1. \A d \in Call : call'[d].at \in HoldsLoop => call'[d] = call[d]
    BY <1>2 DEF HoldsLoop
  <2>2. \A s \in Request : request'[s].status \in {request[s].status, "failed"}
    BY <1>5
  <2>3. \A d \in Call : call'[d].at = "cached" => call[d].of \in Request
    BY <1>2 DEF GInv, CallOK
  <2>4. \A d \in Call : call'[d].at = "cached" =>
            request'[call'[d].of].status \in {"succeeded", "failed"}
    BY <1>2, <2>2, <2>3 DEF AttemptsInv, LoopOK
  <2>5. QED
    BY <2>1, <2>4 DEF AttemptsInv, LoopOK
<1>13. SummaryFails'
  BY <1>1, <1>6 DEF AttemptsInv, SummaryFails, GInv, SummaryOK
<1>14. \A s \in Request : Orderly(s)' \/ Closed(s)'
  BY <1>7, <1>9, <1>10 DEF AttemptsInv
<1>15. QED
  BY <1>11, <1>12, <1>13, <1>14 DEF AttemptsInv

\* The provider has answered, whatever the row says by now.
LEMMA FinishingKeeps ==
    ASSUME GInv, AttemptsInv, NEW c \in Call, Finish(c)
    PROVE  AttemptsInv'
<1>0. call[c].of \in Request /\ HoldOf(c) \in Hold
  BY DEF GInv, CallOK, CallIn, Finish
<1> PICK r \in Request, k \in Hold : r = call[c].of /\ k = HoldOf(c)
  BY <1>0
<1>1. PICK cost \in Cost :
        /\ CallIn(c, {"streaming"}) /\ Goes(c, "settling") /\ UNCHANGED <<hold, job, summary>>
        /\ request' = [request EXCEPT ![r].status = "succeeded", ![r].cost = cost]
  BY DEF Finish, Others, account
<1>2. /\ \A d \in Call : HoldOf(d)' = HoldOf(d) /\ call'[d].of = call[d].of
                              /\ call'[d].attempt = call[d].attempt
      /\ \A d \in Call \ {c} : call'[d] = call[d] /\ (Works(d)' <=> Works(d))
      /\ call'[c].at = "settling"
  BY <1>1, CallFrame
<1>3. call[c].at = "streaming" /\ Works(c) /\ Works(c)' /\ c \in WorkersOf(r)
      /\ \A d \in Call \ {c} : call[d].at \notin HoldsLoop
  BY <1>1, <1>2 DEF CallIn, LoopFreeFor, Works, WorkersOf
<1>4. /\ \A s \in Request : request'[s].attempt = request[s].attempt
      /\ \A s \in Request \ {r} : request'[s] = request[s]
      /\ request'[r].status = "succeeded"
  BY <1>1 DEF GInv, RequestOK
<1>5. \A s \in Request : WorkersOf(s)' = WorkersOf(s) /\ Latest(s)' = Latest(s)
                         /\ (MayBeFailed(s)' <=> MayBeFailed(s))
  BY <1>1, <1>2, <1>3, <1>4 DEF WorkersOf, Latest, MayBeFailed
<1>6. \A s \in Request \ {r} : Orderly(s)' \/ Closed(s)'
  BY <1>1, <1>4, OthersKeptByCall
<1>7. \A h \in Hold : IsCharged(h)' <=> IsCharged(h)
  BY <1>1 DEF IsCharged
<1>8. ASSUME Orderly(r) PROVE Orderly(r)'
  <2>1. \A d \in WorkersOf(r) : d = c
    BY <1>3, <1>8 DEF Orderly, WorkersAreLatest, AttemptsInv, AttemptsOK, WorkersOf
  <2>2. Sound(c)'
    BY <1>2, <1>4 DEF Sound
  <2>3. WorkersAreLatest(r)'
    BY <1>2, <1>3, <1>5, <1>8, <2>1, <2>2 DEF Orderly, WorkersAreLatest
  <2>4. ActiveIsLatest(r)'
    BY <1>1, <1>4, <1>5, <1>8 DEF Orderly, ActiveIsLatest
  <2>5. ChargedIsFinal(r)'
    BY <1>3, <1>7, <1>8 DEF Orderly, ChargedIsFinal
  <2>6. QED
    BY <2>3, <2>4, <2>5 DEF Orderly
<1>9. ASSUME Closed(r) PROVE Closed(r)'
  <2>1. LatestIsStuck(r)'
    BY <1>2, <1>3, <1>4, <1>9 DEF Closed, LatestIsStuck
  <2>2. OldWorkersLost(r)'
    BY <1>1, <1>2, <1>5, <1>9 DEF Closed, OldWorkersLost, WorkersOf
  <2>3. NothingCharged(r)'
    BY <1>1, <1>5, <1>7, <1>9 DEF Closed, NothingCharged
  <2>4. QED
    BY <1>5, <1>9, <2>1, <2>2, <2>3 DEF Closed
<1>10. AttemptsOK'
  <2>1. \A d \in Call : (Works(d)' <=> Works(d)) /\ HoldOf(d)' = HoldOf(d)
                        /\ (call'[d].at = "admitted" <=> call[d].at = "admitted")
                        /\ (call'[d].at = "failing" <=> call[d].at = "failing")
    BY <1>2, <1>3
  <2>2. \A h \in Hold : request'[h[1]].attempt = request[h[1]].attempt
    BY <1>4 DEF Hold
  <2>3. \A h \in Hold : h[2] > request'[h[1]].attempt => hold'[h].status = "none"
    BY <1>1, <2>2 DEF AttemptsInv, AttemptsOK
  <2>4. \A d, e \in Call : Works(d)' /\ Works(e)' /\ HoldOf(d)' = HoldOf(e)' => d = e
    BY <2>1 DEF AttemptsInv, AttemptsOK
  <2>5. \A d \in Call : Works(d)' =>
            /\ call'[d].at = "admitted" <=> hold'[HoldOf(d)'].status = "none"
            /\ call'[d].at = "failing" => hold'[HoldOf(d)'].status # "active"
    BY <1>1, <2>1 DEF AttemptsInv, AttemptsOK
  <2>6. QED
    BY <2>3, <2>4, <2>5 DEF AttemptsOK
<1>11. LoopOK'
  <2>1. \A d, e \in Call : call'[d].at \in HoldsLoop /\ call'[e].at \in HoldsLoop => d = e
    BY <1>2, <1>3
  <2>2. \A d \in Call : call'[d].at # "cached"
    BY <1>2, <1>3 DEF HoldsLoop
  <2>3. QED
    BY <2>1, <2>2 DEF LoopOK
<1>12. SummaryFails'
  BY <1>1, <1>5 DEF AttemptsInv, SummaryFails, GInv, SummaryOK
<1>13. \A s \in Request : Orderly(s)' \/ Closed(s)'
  BY <1>6, <1>8, <1>9 DEF AttemptsInv
<1>14. QED
  BY <1>10, <1>11, <1>12, <1>13 DEF AttemptsInv

\* Reconciliation releases active holds, and fails a request only together with the
\* hold of its latest attempt: seen from one request ...
LEMMA RequestReconciled ==
    ASSUME GInv, AttemptsInv, NEW s \in Request, NEW R \in SUBSET InStatus("active"), NEW F,
           s \in F => Latest(s) \in R /\ MayBeFailed(s),
           request'[s].attempt = request[s].attempt, UNCHANGED job,
           IF s \in F THEN request'[s].status = "failed" ELSE request'[s] = request[s],
           \A h \in Hold : h[1] = s => IF h \in R THEN hold'[h].status = "released"
                                                  ELSE hold'[h] = hold[h],
           \A d \in Call : call'[d].of = s \/ call[d].of = s => call'[d] = call[d]
    PROVE  Orderly(s)' \/ Closed(s)'
<1>1. \A h \in R : hold[h].status = "active"
  BY DEF InStatus
<1>2. \A h \in Hold : h[1] = s =>
         /\ hold'[h].status = "none" <=> hold[h].status = "none"
         /\ hold'[h].status = "active" => hold[h].status = "active" /\ h \notin R
         /\ hold[h].status = "released" => hold'[h].status = "released"
         /\ IsCharged(h)' => IsCharged(h) /\ hold'[h] = hold[h]
  BY <1>1 DEF IsCharged
<1>3. \A d \in Call : call'[d].of = s \/ call[d].of = s =>
         HoldOf(d)' = HoldOf(d) /\ (Works(d)' <=> Works(d))
  BY DEF HoldOf, Works
<1>4. WorkersOf(s)' = WorkersOf(s) /\ Latest(s)' = Latest(s) /\ (MayBeFailed(s)' <=> MayBeFailed(s))
  BY <1>3 DEF WorkersOf, Latest, MayBeFailed
<1>5. ASSUME NEW d \in WorkersOf(s)
      PROVE  d \in Call /\ HoldOf(d)' = HoldOf(d) /\ HoldOf(d) \in Hold /\ HoldOf(d)[1] = s
             /\ (s \notin F => (Sound(d)' <=> Sound(d)))
  <2>1. d \in Call /\ Works(d) /\ call[d].of = s /\ call'[d] = call[d]
    BY <1>5 DEF WorkersOf
  <2>2. HoldOf(d)' = HoldOf(d) /\ HoldOf(d) \in Hold /\ HoldOf(d)[1] = s
    BY <1>3, <2>1, WorkerFacts
  <2>3. s \notin F => (Sound(d)' <=> Sound(d))
    BY <2>1 DEF Sound
  <2>4. QED
    BY <2>1, <2>2, <2>3
<1>6. ASSUME Orderly(s) PROVE Orderly(s)'
  <2>1. WorkersAreLatest(s)'
    <3>1. ASSUME NEW d \in WorkersOf(s), s \in F
          PROVE  HoldOf(d) = Latest(s) /\ request'[s].status = "failed"
                 /\ hold'[HoldOf(d)].status = "released" /\ MayBeFailed(s)
      BY <1>5, <1>6, <3>1 DEF Orderly, WorkersAreLatest
    <3>2. ASSUME NEW d \in WorkersOf(s), s \notin F
          PROVE  HoldOf(d) = Latest(s)
                 /\ \/ Sound(d)'
                    \/ request'[s].status = "failed" /\ MayBeFailed(s)
                       /\ hold'[HoldOf(d)].status = "released"
      BY <1>2, <1>5, <1>6, <3>2 DEF Orderly, WorkersAreLatest
    <3>3. QED
      BY <1>4, <1>5, <3>1, <3>2 DEF WorkersAreLatest
  <2>2. ActiveIsLatest(s)'
    BY <1>2, <1>4, <1>6 DEF Orderly, ActiveIsLatest
  <2>3. ChargedIsFinal(s)'
    <3>1. ASSUME NEW h \in Hold, h[1] = s, IsCharged(h)'
          PROVE  h = Latest(s) /\ request'[s] = request[s] /\ request[s].status = "succeeded"
                 /\ hold'[h].charged = request[s].cost /\ WorkersOf(s) = {}
      <4>1. IsCharged(h) /\ hold'[h] = hold[h]
        BY <1>2, <3>1
      <4>2. h = Latest(s) /\ request[s].status = "succeeded"
            /\ hold[h].charged = request[s].cost /\ WorkersOf(s) = {}
        BY <1>6, <3>1, <4>1 DEF Orderly, ChargedIsFinal
      <4>3. s \notin F
        BY <1>1, <4>1, <4>2 DEF IsCharged
      <4>4. QED
        BY <4>1, <4>2, <4>3
    <3>2. QED
      BY <1>4, <3>1 DEF ChargedIsFinal
  <2>4. QED
    BY <2>1, <2>2, <2>3 DEF Orderly
<1>7. ASSUME Closed(s) PROVE Closed(s)'
  <2>1. LatestIsStuck(s)'
    BY <1>7 DEF Closed, LatestIsStuck
  <2>2. OldWorkersLost(s)'
    BY <1>2, <1>4, <1>5, <1>7 DEF Closed, OldWorkersLost
  <2>3. NothingCharged(s)'
    BY <1>2, <1>4, <1>7 DEF Closed, NothingCharged
  <2>4. QED
    BY <1>4, <1>7, <2>1, <2>2, <2>3 DEF Closed
<1>8. QED
  BY <1>6, <1>7 DEF AttemptsInv

\* ... and what it finds when it looks.
LEMMA InterruptedFacts ==
    ASSUME GInv, AttemptsInv
    PROVE  /\ TerminalJobHolds \in SUBSET InStatus("active")
           /\ InterruptedRequests \in SUBSET Request
           /\ \A r \in InterruptedRequests : Latest(r) \in TerminalJobHolds /\ MayBeFailed(r)
<1>1. ASSUME NEW r \in InterruptedRequests
      PROVE  r \in Request /\ Latest(r) \in TerminalJobHolds /\ MayBeFailed(r)
  <2>1. PICK h \in TerminalJobHolds : h[1] = r /\ Linked(h)
    BY DEF InterruptedRequests
  <2>2. h \in Hold /\ hold[h].status = "active" /\ job[JobOf[r]] = "ended" /\ r \in Request
    BY <2>1 DEF TerminalJobHolds, InStatus, InterruptedRequests
  <2>3. h = Latest(r)
    BY <2>1, <2>2 DEF AttemptsInv, Orderly, ActiveIsLatest, Closed, NothingCharged
  <2>4. QED
    BY <2>1, <2>2, <2>3 DEF MayBeFailed, Linked
<1>2. QED
  BY <1>1 DEF TerminalJobHolds

\* The reservation of a call reconciles first; its own request stays as it is.
LEMMA ReservingKeeps ==
    ASSUME GInv, AttemptsInv, NEW c \in Call, ReserveCredit(c)
    PROVE  AttemptsInv'
<1>0. call[c].of \in Request /\ HoldOf(c) \in Hold
  BY DEF GInv, CallOK, CallIn, ReserveCredit
<1> PICK r \in Request, k \in Hold : r = call[c].of /\ k = HoldOf(c)
  BY <1>0
<1> DEFINE T == TerminalJobHolds
           F == InterruptedRequests
<1>1. /\ CallIn(c, {"admitted"}) /\ ~ summary.open /\ hold[k].status = "none"
      /\ Goes(c, IF r \in Embedding THEN "streaming" ELSE "reserved")
      /\ hold' = [Put(T, "released", 0) EXCEPT ![k] = [status |-> "active", charged |-> 0]]
      /\ request' = Failed(F) /\ UNCHANGED <<job, summary>>
  BY DEF ReserveCredit, Reserve, Unlocked, Others
<1>2. PICK place \in {"streaming", "reserved"} :
        Goes(c, place) /\ place = (IF r \in Embedding THEN "streaming" ELSE "reserved")
  BY <1>1
<1>3. /\ \A d \in Call : HoldOf(d)' = HoldOf(d) /\ call'[d].of = call[d].of
                              /\ call'[d].attempt = call[d].attempt
      /\ \A d \in Call \ {c} : call'[d] = call[d] /\ (Works(d)' <=> Works(d))
      /\ call'[c].at = place
  BY <1>2, CallFrame
<1>4. call[c].at = "admitted" /\ Works(c) /\ Works(c)' /\ c \in WorkersOf(r)
  BY <1>1, <1>3 DEF CallIn, Works, WorkersOf
<1>5. /\ T \in SUBSET InStatus("active") /\ F \in SUBSET Request
      /\ \A s \in F : Latest(s) \in T /\ MayBeFailed(s)
  BY InterruptedFacts
<1>6. k \notin T /\ \A h \in T : h \in Hold /\ hold[h].status = "active"
  BY <1>1, <1>5 DEF InStatus
<1>7. k[1] = r /\ k = Latest(r)
  <2>1. k[1] = r
    BY DEF HoldOf
  <2>2. Orderly(r) => k = Latest(r)
    BY <1>4 DEF Orderly, WorkersAreLatest
  <2>3. Closed(r) => k = Latest(r)
    BY <1>1, <1>4 DEF Closed, OldWorkersLost
  <2>4. QED
    BY <2>1, <2>2, <2>3 DEF AttemptsInv
<1>8. /\ \A s \in Request : request'[s].attempt = request[s].attempt
      /\ \A s \in Request : IF s \in F THEN request'[s].status = "failed"
                                       ELSE request'[s] = request[s]
      /\ request'[r] = request[r]
  BY <1>1, <1>5, <1>6, <1>7 DEF Failed, GInv, RequestOK
<1>9. /\ hold'[k].status = "active"
      /\ \A h \in Hold \ {k} : IF h \in T THEN hold'[h].status = "released"
                                          ELSE hold'[h] = hold[h]
  BY <1>1 DEF Put
<1>10. \A s \in Request : WorkersOf(s)' = WorkersOf(s) /\ Latest(s)' = Latest(s)
                         /\ (MayBeFailed(s)' <=> MayBeFailed(s))
  BY <1>1, <1>3, <1>4, <1>8 DEF WorkersOf, Latest, MayBeFailed
<1>11. ASSUME NEW s \in Request \ {r} PROVE Orderly(s)' \/ Closed(s)'
  <2>1. \A h \in Hold : h[1] = s => IF h \in T THEN hold'[h].status = "released"
                                               ELSE hold'[h] = hold[h]
    BY <1>7, <1>9
  <2>2. \A d \in Call : call'[d].of = s \/ call[d].of = s => call'[d] = call[d]
    BY <1>3
  <2>3. /\ s \in F => Latest(s) \in T /\ MayBeFailed(s)
        /\ request'[s].attempt = request[s].attempt /\ UNCHANGED job
        /\ IF s \in F THEN request'[s].status = "failed" ELSE request'[s] = request[s]
    BY <1>1, <1>5, <1>8
  <2> HIDE DEF T, F
  <2>4. QED
    BY <1>5, <2>1, <2>2, <2>3, RequestReconciled
<1>12. \A h \in Hold \ {k} :
         /\ hold'[h].status = "none" <=> hold[h].status = "none"
         /\ hold'[h].status = "active" => hold[h].status = "active"
         /\ hold[h].status = "released" => hold'[h].status = "released"
         /\ IsCharged(h)' => IsCharged(h)
  BY <1>6, <1>9 DEF IsCharged
<1>13. ASSUME Orderly(r) PROVE Orderly(r)'
  <2>1. \A d \in WorkersOf(r) : d = c
    BY <1>4, <1>13 DEF Orderly, WorkersAreLatest, AttemptsInv, AttemptsOK, WorkersOf
  <2>2. request[r].status = "running"
    BY <1>1, <1>4, <1>13 DEF Orderly, WorkersAreLatest, Sound
  <2>3. Sound(c)'
    BY <1>3, <1>8, <2>2 DEF Sound
  <2>4. WorkersAreLatest(r)'
    BY <1>3, <1>7, <1>10, <2>1, <2>3 DEF WorkersAreLatest
  <2>5. ActiveIsLatest(r)'
    BY <1>7, <1>8, <1>10, <1>12, <1>13, <2>2 DEF Orderly, ActiveIsLatest
  <2>6. ChargedIsFinal(r)'
    BY <1>4, <1>9, <1>12, <1>13 DEF Orderly, ChargedIsFinal, IsCharged
  <2>7. QED
    BY <2>4, <2>5, <2>6 DEF Orderly
<1>14. ASSUME Closed(r) PROVE Closed(r)'
  <2>1. r \notin Embedding /\ place = "reserved"
    BY <1>2, <1>14 DEF Closed, MayBeFailed
  <2>2. LatestIsStuck(r)'
    BY <1>3, <1>8, <1>14, <2>1 DEF Closed, LatestIsStuck
  <2>3. OldWorkersLost(r)'
    <3>1. \A d \in WorkersOf(r) : d \in Call /\ HoldOf(d) \in Hold /\ HoldOf(d)' = HoldOf(d)
      BY <1>3, WorkerFacts DEF WorkersOf
    <3>2. QED
      BY <1>7, <1>10, <1>12, <1>14, <3>1 DEF Closed, OldWorkersLost
  <2>4. NothingCharged(r)'
    BY <1>7, <1>9, <1>10, <1>12, <1>14 DEF Closed, NothingCharged, IsCharged
  <2>5. QED
    BY <1>10, <1>14, <2>2, <2>3, <2>4 DEF Closed
<1>15. AttemptsOK'
  <2>1. \A h \in Hold : request'[h[1]].attempt = request[h[1]].attempt
    BY <1>8 DEF Hold
  <2>2. \A h \in Hold : h[2] > request'[h[1]].attempt => h # k
    BY <1>4, <2>1, WorkerFacts DEF HoldOf, GInv, RequestOK
  <2>3. \A h \in Hold : h[2] > request'[h[1]].attempt => hold'[h].status = "none"
    BY <1>12, <2>1, <2>2 DEF AttemptsInv, AttemptsOK
  <2>4. \A d, e \in Call : Works(d)' /\ Works(e)' /\ HoldOf(d)' = HoldOf(e)' => d = e
    BY <1>3, <1>4 DEF AttemptsInv, AttemptsOK
  <2>5. ASSUME NEW d \in Call, Works(d)'
        PROVE  /\ call'[d].at = "admitted" <=> hold'[HoldOf(d)'].status = "none"
               /\ call'[d].at = "failing" => hold'[HoldOf(d)'].status # "active"
    <3>1. CASE d = c
      BY <1>3, <1>9, <3>1
    <3>2. CASE d # c
      <4>1. Works(d) /\ HoldOf(d) \in Hold /\ HoldOf(d) # k /\ call'[d] = call[d]
            /\ HoldOf(d)' = HoldOf(d)
        BY <1>3, <1>4, <2>5, <3>2, WorkerFacts DEF AttemptsInv, AttemptsOK
      <4>2. QED
        BY <1>12, <4>1 DEF AttemptsInv, AttemptsOK
    <3>3. QED
      BY <3>1, <3>2
  <2>6. QED
    BY <2>3, <2>4, <2>5 DEF AttemptsOK
<1>16. LoopOK'
  <2>1. \A d \in Call : call'[d].at \in HoldsLoop => call'[d] = call[d]
    BY <1>3 DEF HoldsLoop
  <2>2. \A s \in Request : request'[s].status \in {request[s].status, "failed"}
    BY <1>8
  <2>3. \A d \in Call : call[d].at = "cached" => call[d].of \in Request
    BY DEF GInv, CallOK
  <2>4. \A d \in Call : call'[d].at = "cached" =>
            request'[call'[d].of].status \in {"succeeded", "failed"}
    BY <1>3, <2>2, <2>3 DEF AttemptsInv, LoopOK
  <2>5. QED
    BY <2>1, <2>4 DEF AttemptsInv, LoopOK
<1>17. SummaryFails'
  BY <1>1 DEF AttemptsInv, SummaryFails
<1>18. \A s \in Request : Orderly(s)' \/ Closed(s)'
  BY <1>11, <1>13, <1>14 DEF AttemptsInv
<1>19. QED
  BY <1>15, <1>16, <1>17, <1>18 DEF AttemptsInv

\* An account_summary that commits.
LEMMA SummaryCommitKeeps ==
    ASSUME GInv, AttemptsInv, SummaryCommits, UNCHANGED call
    PROVE  AttemptsInv'
<1> DEFINE R == summary.release
           F == summary.fail
<1>1. R \in SUBSET InStatus("active") /\ F \in SUBSET Request
  BY DEF GInv, SummaryOK, SummaryCommits
<1>2. \A r \in F : Latest(r) \in R /\ MayBeFailed(r)
  BY DEF AttemptsInv, SummaryFails
<1>3. request' = Failed(F) /\ hold' = Put(R, "released", 0) /\ UNCHANGED job /\ summary' = None
  BY DEF SummaryCommits
<1>4. \A h \in R : h \in Hold /\ hold[h].status = "active"
  BY <1>1 DEF InStatus
<1>5. /\ \A s \in Request : request'[s].attempt = request[s].attempt
      /\ \A s \in Request : IF s \in F THEN request'[s].status = "failed"
                                       ELSE request'[s] = request[s]
  BY <1>1, <1>3 DEF Failed, GInv, RequestOK
<1>6. \A h \in Hold : IF h \in R THEN hold'[h].status = "released" ELSE hold'[h] = hold[h]
  BY <1>3 DEF Put
<1>7. \A s \in Request : Orderly(s)' \/ Closed(s)'
  <2> SUFFICES ASSUME NEW s \in Request PROVE Orderly(s)' \/ Closed(s)'
    OBVIOUS
  <2>1. /\ s \in F => Latest(s) \in R /\ MayBeFailed(s)
        /\ request'[s].attempt = request[s].attempt /\ UNCHANGED job
        /\ IF s \in F THEN request'[s].status = "failed" ELSE request'[s] = request[s]
    BY <1>2, <1>3, <1>5
  <2>2. \A h \in Hold : h[1] = s => IF h \in R THEN hold'[h].status = "released"
                                               ELSE hold'[h] = hold[h]
    BY <1>6
  <2>3. \A d \in Call : call'[d].of = s \/ call[d].of = s => call'[d] = call[d]
    OBVIOUS
  <2> HIDE DEF R, F
  <2>4. QED
    BY <1>1, <2>1, <2>2, <2>3, RequestReconciled
<1>8. AttemptsOK'
  <2>1. \A h \in Hold : request'[h[1]].attempt = request[h[1]].attempt
    BY <1>5 DEF Hold
  <2>2. \A h \in Hold : /\ hold'[h].status = "none" <=> hold[h].status = "none"
                        /\ hold'[h].status = "active" => hold[h].status = "active"
    BY <1>4, <1>6
  <2>3. \A h \in Hold : h[2] > request'[h[1]].attempt => hold'[h].status = "none"
    BY <2>1, <2>2 DEF AttemptsInv, AttemptsOK
  <2>4. \A d \in Call : HoldOf(d)' = HoldOf(d) /\ (Works(d)' <=> Works(d))
                        /\ (Works(d) => HoldOf(d) \in Hold)
    BY WorkerFacts DEF HoldOf, Works
  <2>5. \A d, e \in Call : Works(d)' /\ Works(e)' /\ HoldOf(d)' = HoldOf(e)' => d = e
    BY <2>4 DEF AttemptsInv, AttemptsOK
  <2>6. \A d \in Call : Works(d)' =>
            /\ call'[d].at = "admitted" <=> hold'[HoldOf(d)'].status = "none"
            /\ call'[d].at = "failing" => hold'[HoldOf(d)'].status # "active"
    BY <2>2, <2>4 DEF AttemptsInv, AttemptsOK
  <2>7. QED
    BY <2>3, <2>5, <2>6 DEF AttemptsOK
<1>9. LoopOK'
  <2>1. \A s \in Request : request'[s].status \in {request[s].status, "failed"}
    BY <1>5
  <2>2. \A d \in Call : call[d].at = "cached" => call[d].of \in Request
    BY DEF GInv, CallOK
  <2>3. \A d \in Call : call[d].at = "cached" =>
            request'[call[d].of].status \in {"succeeded", "failed"}
    BY <2>1, <2>2 DEF AttemptsInv, LoopOK
  <2>4. QED
    BY <2>3 DEF AttemptsInv, LoopOK
<1>10. SummaryFails'
  BY <1>3 DEF SummaryFails, None
<1>11. QED
  BY <1>7, <1>8, <1>9, <1>10 DEF AttemptsInv

\* Steps outside the gateway.
LEMMA BillingKeeps ==
    ASSUME GInv, AttemptsInv, BillingNext, UNCHANGED call
    PROVE  AttemptsInv'
<1>1. CASE SummaryReads
  <2>1. UNCHANGED <<hold, request, call>> /\ JobsStayEnded
    BY <1>1 DEF SummaryReads, account, JobsStayEnded
  <2>2. SummaryFails'
    <3>1. summary' = [open |-> TRUE, release |-> TerminalJobHolds, fail |-> InterruptedRequests]
          /\ UNCHANGED <<request, job>>
      BY <1>1 DEF SummaryReads
    <3>2. \A r \in InterruptedRequests : Latest(r) \in TerminalJobHolds /\ MayBeFailed(r)
      BY InterruptedFacts
    <3>3. \A r \in InterruptedRequests : Latest(r)' = Latest(r) /\ (MayBeFailed(r)' <=> MayBeFailed(r))
      BY <3>1 DEF Latest, MayBeFailed
    <3>4. QED
      BY <3>1, <3>2, <3>3 DEF SummaryFails
  <2>3. QED
    BY <2>1, <2>2, QuietKeeps
<1>2. CASE SummaryCommits
  BY <1>2, SummaryCommitKeeps
<1>3. CASE SummaryLost
  <2>1. UNCHANGED <<hold, request, call>> /\ JobsStayEnded /\ SummaryFails'
    BY <1>3 DEF SummaryLost, account, JobsStayEnded, SummaryFails, None
  <2>2. QED
    BY <2>1, QuietKeeps
<1>4. ASSUME NEW a \in Admin, AdjustLooks(a) \/ AdjustApplies(a) PROVE AttemptsInv'
  <2>1. UNCHANGED <<hold, request, call, job, summary>>
    BY <1>4 DEF AdjustLooks, AdjustApplies, account
  <2>2. JobsStayEnded /\ SummaryFails'
    BY <2>1 DEF JobsStayEnded, AttemptsInv, SummaryFails, Latest, MayBeFailed
  <2>3. QED
    BY <2>1, <2>2, QuietKeeps
<1>5. ASSUME NEW j \in Job, JobMoves(j) \/ JobEnds(j) PROVE AttemptsInv'
  <2>1. UNCHANGED <<hold, request, call, summary>> /\ JobsStayEnded
    BY <1>5 DEF JobMoves, JobEnds, account, JobsStayEnded, GInv, OthersOK
  <2>2. \A r \in Request : Latest(r)' = Latest(r) /\ (MayBeFailed(r) => MayBeFailed(r)')
    BY <2>1, BillingAssumption DEF JobsStayEnded, Latest, MayBeFailed
  <2>3. SummaryFails'
    BY <2>1, <2>2 DEF AttemptsInv, SummaryFails, GInv, SummaryOK
  <2>4. QED
    BY <2>1, <2>3, QuietKeeps
<1>6. QED
  BY <1>1, <1>2, <1>3, <1>4, <1>5 DEF BillingNext

\* A call that starts its request works on an attempt nobody has; a request whose
\* previous worker is still there is closed by it.
LEMMA StartKeeps ==
    ASSUME GInv, AttemptsInv, NEW c \in Call, CallIn(c, {"begin"}),
           NEW r \in Request, r = call[c].of, request[r].status \in {"none", "failed"},
           NEW n, n = request[r].attempt + 1, n <= MaxAttempts,
           request' = [request EXCEPT ![r].status = "running", ![r].attempt = n],
           call' = [call EXCEPT ![c] = [at |-> "admitted", of |-> r, attempt |-> n]],
           UNCHANGED <<hold, job, summary>>
    PROVE  AttemptsInv'
<1>1. request[r].attempt \in Nat /\ n \in 1..MaxAttempts
  BY BillingAssumption DEF GInv, RequestOK
<1>2. /\ \A d \in Call \ {c} : call'[d] = call[d] /\ call[d].at \notin HoldsLoop
                               /\ HoldOf(d)' = HoldOf(d) /\ (Works(d)' <=> Works(d))
      /\ call[c].at = "begin" /\ ~ Works(c)
      /\ call'[c] = [at |-> "admitted", of |-> r, attempt |-> n] /\ Works(c)'
      /\ HoldOf(c)' = <<r, n>>
  BY DEF CallIn, LoopFreeFor, GInv, CallOK, HoldOf, Works
<1>3. /\ \A s \in Request \ {r} : request'[s] = request[s]
      /\ request'[r].status = "running" /\ request'[r].attempt = n
  BY DEF GInv, RequestOK
<1>4. Latest(r)' = <<r, n>> /\ <<r, n>> \in Hold /\ hold[<<r, n>>].status = "none"
  <2>1. Latest(r)' = <<r, n>>
    BY <1>3 DEF Latest
  <2>2. <<r, n>> \in Hold
    BY <1>1 DEF Hold
  <2>3. n > request[r].attempt
    BY <1>1
  <2>4. QED
    BY <2>1, <2>2, <2>3 DEF AttemptsInv, AttemptsOK
<1>5. Orderly(r)
  BY <1>2 DEF AttemptsInv, Closed, LatestIsStuck
<1>6. \A h \in Hold : h[1] = r => hold[h].status # "active" /\ ~ IsCharged(h)
  BY <1>5 DEF Orderly, ActiveIsLatest, ChargedIsFinal
<1>7. \A d \in WorkersOf(r) : /\ HoldOf(d) = Latest(r) /\ HoldOf(d) # <<r, n>>
                              /\ MayBeFailed(r) /\ hold[HoldOf(d)].status = "released"
                              /\ d \in Call \ {c}
  BY <1>1, <1>2, <1>5 DEF Orderly, WorkersAreLatest, Sound, WorkersOf, Latest
<1>8. WorkersOf(r)' = WorkersOf(r) \cup {c}
  BY <1>2 DEF WorkersOf
<1>9. \A d \in Call \ {c} : call[d].of = r /\ call[d].at \notin {"idle", "begin", "done"}
                            => call[d].attempt # n
  BY <1>1 DEF GInv, CallOK
<1>10. \A h \in Hold : IsCharged(h)' <=> IsCharged(h)
  BY DEF IsCharged
<1>11. ASSUME WorkersOf(r) = {} PROVE Orderly(r)'
  <2>1. Sound(c)'
    <3>1. call'[c].of = r /\ call'[c].at # "settling"
      BY <1>2
    <3>2. QED
      BY <1>3, <3>1 DEF Sound
  <2>2. WorkersAreLatest(r)'
    BY <1>2, <1>4, <1>8, <1>11, <2>1 DEF WorkersAreLatest
  <2>3. ActiveIsLatest(r)' /\ ChargedIsFinal(r)'
    BY <1>6, <1>10 DEF ActiveIsLatest, ChargedIsFinal
  <2>4. QED
    BY <2>2, <2>3 DEF Orderly
<1>12. ASSUME WorkersOf(r) # {} PROVE Closed(r)'
  <2>1. MayBeFailed(r)'
    BY <1>7, <1>12 DEF MayBeFailed
  <2>2. LatestIsStuck(r)'
    <3>1. call'[c].at = "admitted"
      BY <1>2
    <3>2. \A d \in Call \ {c} : call'[d] = call[d] /\ call[d].at # "begin"
      BY <1>2 DEF HoldsLoop
    <3>3. \A d \in Call \ {c} : call'[d].of = r /\ call'[d].at \in {"joined", "cached", "streaming", "settling"}
                                => call'[d].attempt # request'[r].attempt
      BY <1>3, <1>9, <3>2
    <3>4. QED
      BY <3>1, <3>2, <3>3 DEF LatestIsStuck
  <2>3. OldWorkersLost(r)'
    <3>1. \A d, e \in WorkersOf(r) : d = e
      BY <1>7 DEF WorkersOf, AttemptsInv, AttemptsOK
    <3>2. QED
      BY <1>2, <1>4, <1>7, <1>8, <3>1 DEF OldWorkersLost
  <2>4. NothingCharged(r)'
    BY <1>6, <1>10 DEF NothingCharged
  <2>5. QED
    BY <2>1, <2>2, <2>3, <2>4 DEF Closed
<1>13. ASSUME NEW s \in Request \ {r} PROVE Orderly(s)' \/ Closed(s)'
  <2>1. \A d \in Call : call'[d].of = s \/ call[d].of = s => call'[d] = call[d]
    BY <1>2
  <2>2. MayBeFailed(s) => MayBeFailed(s)'
    BY DEF MayBeFailed
  <2>3. (Orderly(s) \/ Closed(s)) /\ request'[s] = request[s]
    BY <1>3 DEF AttemptsInv
  <2>4. QED
    BY <2>1, <2>2, <2>3, OtherKept
<1>14. AttemptsOK'
  <2>1. \A d \in Call : Works(d) => d # c /\ HoldOf(d) # <<r, n>>
    <3>1. ASSUME NEW d \in Call, Works(d), HoldOf(d) = <<r, n>> PROVE FALSE
      <4>1. call[d].of = r /\ call[d].attempt = n /\ d # c
        BY <1>2, <3>1 DEF HoldOf
      <4>2. QED
        BY <1>9, <3>1, <4>1 DEF Works
    <3>2. QED
      BY <1>2, <3>1
  <2>2. \A d, e \in Call : Works(d)' /\ Works(e)' /\ HoldOf(d)' = HoldOf(e)' => d = e
    BY <1>2, <2>1 DEF AttemptsInv, AttemptsOK
  <2>3. \A d \in Call : Works(d)' =>
            /\ call'[d].at = "admitted" <=> hold'[HoldOf(d)'].status = "none"
            /\ call'[d].at = "failing" => hold'[HoldOf(d)'].status # "active"
    BY <1>2, <1>4 DEF AttemptsInv, AttemptsOK
  <2>4. ASSUME NEW h \in Hold, h[2] > request'[h[1]].attempt PROVE hold'[h].status = "none"
    <3>1. h[1] \in Request /\ h[2] \in Int /\ request[h[1]].attempt \in Int
      BY BillingAssumption DEF Hold, GInv, RequestOK
    <3>2. request'[h[1]].attempt \in Int /\ request[h[1]].attempt <= request'[h[1]].attempt
      <4>1. CASE h[1] = r
        <5>1. request'[r].attempt = request[r].attempt + 1
          BY <1>3
        <5>2. QED
          BY <1>1, <4>1, <5>1
      <4>2. CASE h[1] # r
        <5>1. h[1] \in Request \ {r}
          BY <3>1, <4>2
        <5>2. request'[h[1]] = request[h[1]]
          BY <1>3, <5>1
        <5>3. QED
          BY <3>1, <5>2
      <4>3. QED
        BY <4>1, <4>2
    <3>3. h[2] > request[h[1]].attempt
      BY <2>4, <3>1, <3>2
    <3>4. QED
      BY <3>3 DEF AttemptsInv, AttemptsOK
  <2>5. QED
    BY <2>2, <2>3, <2>4 DEF AttemptsOK
<1>15. LoopOK'
  <2>1. \A d \in Call \ {c} : call'[d].at \notin HoldsLoop
    BY <1>2
  <2>2. call'[c].at = "admitted"
    BY <1>2
  <2>3. QED
    BY <2>1, <2>2 DEF LoopOK, HoldsLoop
<1>16. SummaryFails'
  <2>1. r \notin summary.fail
    <3>1. ASSUME r \in summary.fail PROVE FALSE
      <4>1. Latest(r) \in InStatus("active")
        BY <3>1 DEF AttemptsInv, SummaryFails, GInv, SummaryOK
      <4>2. QED
        BY <1>6, <4>1 DEF InStatus, Latest
    <3>2. QED
      BY <3>1
  <2>2. \A s \in summary.fail : s \in Request \ {r} /\ Latest(s)' = Latest(s)
                                /\ (MayBeFailed(s)' <=> MayBeFailed(s))
    BY <1>3, <2>1 DEF GInv, SummaryOK, Latest, MayBeFailed
  <2>3. QED
    BY <2>2 DEF AttemptsInv, SummaryFails
<1>17. \A s \in Request : Orderly(s)' \/ Closed(s)'
  BY <1>11, <1>12, <1>13
<1>18. QED
  BY <1>14, <1>15, <1>16, <1>17 DEF AttemptsInv

\* A call that finds its request running or answered touches nothing.
LEMMA FoundKeeps ==
    ASSUME GInv, AttemptsInv, NEW c \in Call, CallIn(c, {"begin"}),
           NEW r \in Request, r = call[c].of,
           NEW place \in {"joined", "done", "cached"},
           call' = [call EXCEPT ![c] = [at |-> place, of |-> r, attempt |-> request[r].attempt]],
           place = "cached" => request[r].status = "succeeded",
           UNCHANGED <<request, hold, job, summary>>
    PROVE  AttemptsInv'
<1>1. /\ \A d \in Call \ {c} : call'[d] = call[d] /\ call[d].at \notin HoldsLoop
      /\ call[c].at = "begin" /\ ~ Works(c) /\ ~ Works(c)'
      /\ call'[c].at = place /\ call'[c].of = r
  BY DEF CallIn, LoopFreeFor, GInv, CallOK, Works
<1>2. ~ Closed(r)
  BY <1>1 DEF Closed, LatestIsStuck
<1>3. \A d \in Call : (Works(d)' <=> Works(d)) /\ (Works(d) => call'[d] = call[d])
  BY <1>1 DEF Works
<1>4. \A s \in Request : WorkersOf(s)' = WorkersOf(s) /\ Latest(s)' = Latest(s)
                         /\ (MayBeFailed(s)' <=> MayBeFailed(s))
  BY <1>3 DEF WorkersOf, Latest, MayBeFailed
<1>5. \A h \in Hold : IsCharged(h)' <=> IsCharged(h)
  BY DEF IsCharged
<1>6. \A d \in Call : Works(d) => HoldOf(d)' = HoldOf(d) /\ (Sound(d)' <=> Sound(d))
  BY <1>3 DEF HoldOf, Sound
<1>7. ASSUME Orderly(r) PROVE Orderly(r)'
  <2>1. WorkersAreLatest(r)'
    BY <1>4, <1>6, <1>7 DEF Orderly, WorkersAreLatest, WorkersOf
  <2>2. ActiveIsLatest(r)' /\ ChargedIsFinal(r)'
    BY <1>4, <1>5, <1>7 DEF Orderly, ActiveIsLatest, ChargedIsFinal
  <2>3. QED
    BY <2>1, <2>2 DEF Orderly
<1>8. ASSUME NEW s \in Request \ {r} PROVE Orderly(s)' \/ Closed(s)'
  <2>1. \A d \in Call : call'[d].of = s \/ call[d].of = s => call'[d] = call[d]
    BY <1>1
  <2>2. MayBeFailed(s) => MayBeFailed(s)'
    BY <1>4
  <2>3. Orderly(s) \/ Closed(s)
    BY DEF AttemptsInv
  <2>4. QED
    BY <2>1, <2>2, <2>3, OtherKept
<1>9. AttemptsOK'
  BY <1>3, <1>6 DEF AttemptsInv, AttemptsOK, Works
<1>10. LoopOK'
  <2>1. \A d, e \in Call : call'[d].at \in HoldsLoop /\ call'[e].at \in HoldsLoop => d = e
    BY <1>1
  <2>2. \A d \in Call : call'[d].at = "cached" =>
            request'[call'[d].of].status \in {"succeeded", "failed"}
    BY <1>1 DEF HoldsLoop
  <2>3. QED
    BY <2>1, <2>2 DEF LoopOK
<1>11. SummaryFails'
  BY <1>4 DEF AttemptsInv, SummaryFails, GInv, SummaryOK
<1>12. \A s \in Request : Orderly(s)' \/ Closed(s)'
  BY <1>2, <1>7, <1>8 DEF AttemptsInv
<1>13. QED
  BY <1>9, <1>10, <1>11, <1>12 DEF AttemptsInv

\* A call that looks its request up starts an attempt, or finds one, or is refused.
LEMMA BeginKeeps ==
    ASSUME GInv, AttemptsInv, NEW c \in Call, Begin(c)
    PROVE  AttemptsInv'
<1>1. call[c].of \in Request
  BY CallFacts DEF GInv, Begin
<1> PICK r \in Request : r = call[c].of
  BY <1>1
<1>2. CallIn(c, {"begin"}) /\ UNCHANGED <<hold, job, summary>>
  BY DEF Begin, account, Others
<1>3. CASE /\ request[r].status \in {"none", "failed"} /\ request[r].attempt + 1 <= MaxAttempts
           /\ request' = [request EXCEPT ![r].status = "running",
                                         ![r].attempt = request[r].attempt + 1]
           /\ call' = [call EXCEPT ![c] = [at |-> "admitted", of |-> r,
                                           attempt |-> request[r].attempt + 1]]
  BY <1>2, <1>3, StartKeeps
<1>4. ASSUME NEW place \in {"joined", "done", "cached"},
             call' = [call EXCEPT ![c] = [at |-> place, of |-> r, attempt |-> request[r].attempt]],
             place = "cached" => request[r].status = "succeeded", UNCHANGED request
      PROVE  AttemptsInv'
  BY <1>2, <1>4, FoundKeeps
<1>5. QED
  BY <1>3, <1>4 DEF Begin

\* In the beginning nobody works and nothing is held.
LEMMA AttemptsInit == Init => AttemptsInv
<1> SUFFICES ASSUME Init PROVE AttemptsInv
  OBVIOUS
<1>1. \A c \in Call : call[c].at = "idle" /\ ~ Works(c)
  BY DEF Init, Works
<1>2. \A h \in Hold : hold[h].status = "none" /\ ~ IsCharged(h)
  BY DEF Init, BillingInit, IsCharged
<1>3. AttemptsOK /\ LoopOK
  BY <1>1, <1>2 DEF AttemptsOK, LoopOK, HoldsLoop
<1>4. SummaryFails
  BY DEF Init, BillingInit, SummaryFails, None
<1>5. \A r \in Request : Orderly(r)
  BY <1>1, <1>2 DEF Orderly, WorkersAreLatest, ActiveIsLatest, ChargedIsFinal, WorkersOf
<1>6. QED
  BY <1>3, <1>4, <1>5 DEF AttemptsInv

\* Each request has one attempt that can still be charged, and only its worker, or a
\* call that found the answer, can do it; once reconciliation has failed a request under
\* a worker, a later attempt is never sent (model_gateway.py, billing.py).
THEOREM AttemptsInvariance == Spec => []AttemptsInv
<1>1. GInv /\ AttemptsInv /\ [Next]_vars => AttemptsInv'
  <2> SUFFICES ASSUME GInv, AttemptsInv, [Next]_vars PROVE AttemptsInv'
    OBVIOUS
  <2>1. CASE BillingNext /\ UNCHANGED call
    BY <2>1, BillingKeeps
  <2>2. ASSUME NEW c \in Call, NEW r \in Request, Enter(c, r) PROVE AttemptsInv'
    BY <2>2, EnterKeeps
  <2>3. ASSUME NEW c \in Call, Begin(c) PROVE AttemptsInv'
    BY <2>3, BeginKeeps
  <2>4. ASSUME NEW c \in Call, Join(c) PROVE AttemptsInv'
    BY <2>4, JoinKeeps
  <2>5. ASSUME NEW c \in Call, SettleCached(c) \/ SettleCall(c) PROVE AttemptsInv'
    BY <2>5, SettlingKeeps
  <2>6. ASSUME NEW c \in Call, ReserveCredit(c) PROVE AttemptsInv'
    BY <2>6, ReservingKeeps
  <2>7. ASSUME NEW c \in Call, Send(c) PROVE AttemptsInv'
    BY <2>7, SendKeeps
  <2>8. ASSUME NEW c \in Call, Finish(c) PROVE AttemptsInv'
    BY <2>8, FinishingKeeps
  <2>9. ASSUME NEW c \in Call, ReleaseCredit(c) PROVE AttemptsInv'
    BY <2>9, ReleasingKeeps
  <2>10. ASSUME NEW c \in Call, Fail(c) PROVE AttemptsInv'
    BY <2>10, FailingKeeps
  <2>11. ASSUME NEW c \in Call, TransactionFails(c) PROVE AttemptsInv'
    <3>1. Goes(c, "done") /\ UNCHANGED <<hold, request, job, summary>>
      BY <2>11 DEF TransactionFails, account, Others
    <3>2. QED
      BY <3>1, LeavingKeeps
  <2>12. CASE Crash
    BY <2>12, CrashKeeps
  <2>13. CASE UNCHANGED vars
    <3>1. UNCHANGED <<hold, request, call, job, summary>>
      BY <2>13 DEF vars, account
    <3>2. JobsStayEnded /\ SummaryFails'
      BY <3>1 DEF JobsStayEnded, AttemptsInv, SummaryFails, Latest, MayBeFailed
    <3>3. QED
      BY <3>1, <3>2, QuietKeeps
  <2>14. QED
    BY <2>1, <2>2, <2>3, <2>4, <2>5, <2>6, <2>7, <2>8, <2>9, <2>10, <2>11, <2>12, <2>13 DEF Next
<1>2. QED
  BY AttemptsInit, GatewayInvariance, <1>1, PTL DEF Spec

\* Calls that stream work on the latest attempt, and only one call works on a hold.
LEMMA OneAttempt == GInv /\ AttemptsInv => OneAttemptStreams
<1> SUFFICES ASSUME GInv, AttemptsInv, NEW c \in Call, NEW d \in Call, call[c].at = "streaming",
                    call[d].at = "streaming", call[c].of = call[d].of
             PROVE  c = d
  BY DEF OneAttemptStreams
<1>1. call[c].of \in Request
  BY DEF GInv, CallOK
<1> PICK r \in Request : r = call[c].of
  BY <1>1
<1>2. Works(c) /\ Works(d) /\ c \in WorkersOf(r) /\ d \in WorkersOf(r)
  BY DEF Works, WorkersOf
<1>3. CASE Orderly(r)
  <2>1. HoldOf(c) = Latest(r) /\ HoldOf(d) = Latest(r)
    BY <1>2, <1>3 DEF Orderly, WorkersAreLatest
  <2>2. QED
    BY <1>2, <2>1 DEF AttemptsInv, AttemptsOK
<1>4. CASE Closed(r)
  <2>1. call[c].attempt # request[r].attempt /\ call[d].attempt # request[r].attempt
    BY <1>4 DEF Closed, LatestIsStuck
  <2>2. HoldOf(c) # Latest(r) /\ HoldOf(d) # Latest(r)
    BY <2>1 DEF HoldOf, Latest
  <2>3. QED
    BY <1>2, <1>4, <2>2 DEF Closed, OldWorkersLost
<1>5. QED
  BY <1>3, <1>4 DEF AttemptsInv

\* What is charged is the latest hold of a request that succeeded.
LEMMA OneCharge == GInv /\ AttemptsInv => ChargedOnce
<1> SUFFICES ASSUME GInv, AttemptsInv, NEW r \in Request
             PROVE  /\ Cardinality(Charged(r)) <= 1
                    /\ \A h \in Charged(r) : request[r].status = "succeeded"
                                            /\ hold[h].charged = request[r].cost
  BY DEF ChargedOnce
<1>1. \A h \in Charged(r) : h \in Hold /\ h[1] = r /\ IsCharged(h)
  BY DEF Charged, InStatus, IsCharged
<1>2. \A h \in Charged(r) : h = Latest(r) /\ request[r].status = "succeeded"
                            /\ hold[h].charged = request[r].cost
  BY <1>1 DEF AttemptsInv, Orderly, ChargedIsFinal, Closed, NothingCharged
<1>3. Charged(r) \in SUBSET {Latest(r)}
  BY <1>2
<1>4. IsFiniteSet({Latest(r)}) /\ Cardinality({Latest(r)}) = 1
  BY FS_Singleton
<1>5. Cardinality(Charged(r)) <= 1
  BY <1>3, <1>4, FS_Subset
<1>6. QED
  BY <1>2, <1>5

\* The provider never works on two attempts of a request at a time, whatever calls,
\* reconciliation and crashes come between (model_gateway.py).
THEOREM SingleStream == Spec => []OneAttemptStreams
BY GatewayInvariance, AttemptsInvariance, OneAttempt, PTL

\* No request is charged for two attempts, or for another answer than that of its
\* row (billing.py:238, model_gateway.py).
THEOREM SingleCharge == Spec => []ChargedOnce
BY GatewayInvariance, AttemptsInvariance, OneCharge, PTL

-----------------------------------------------------------------------------
(* Gateway implements ChargeContract.                                        *)

AnswerOf(r) == IF request[r].status = "succeeded" THEN {request[r].cost} ELSE {}

PaidFor(r) == {hold[h].charged : h \in Charged(r)}

ChargesStay == \A h \in Hold :
    (IsCharged(h)' <=> IsCharged(h)) /\ (IsCharged(h) => hold'[h] = hold[h])

AnswersFollow == \A r \in Request :
    \/ AnswerOf(r)' = AnswerOf(r)
    \/ PaidFor(r) = {} /\ AnswerOf(r)' \in {{}} \cup {{cost} : cost \in Cost}

\* Charged holds, in the terms of the invariant.
LEMMA ChargedAre == \A r \in Request : Charged(r) = {h \in Hold : h[1] = r /\ IsCharged(h)}
BY DEF Charged, InStatus, IsCharged

\* Nobody has paid for a request that is still worked on.
LEMMA WorkIsUnpaid ==
    ASSUME GInv, AttemptsInv, NEW c \in Call, Works(c)
    PROVE  call[c].of \in Request /\ PaidFor(call[c].of) = {}
<1> PICK r \in Request : r = call[c].of
  BY WorkerFacts
<1>1. c \in WorkersOf(r)
  BY DEF WorkersOf
<1>2. \A h \in Hold : h[1] = r => ~ IsCharged(h)
  BY <1>1 DEF AttemptsInv, Orderly, ChargedIsFinal, Closed, NothingCharged
<1>3. QED
  BY <1>2, ChargedAre DEF PaidFor

\* A step that touches no charge and no balance is an Answer.
LEMMA AnswerStep ==
    ASSUME ChargesStay, AnswersFollow, UNCHANGED <<balance, admin>>
    PROVE  Charges!Answer
<1>1. ASSUME NEW r \in Request PROVE PaidFor(r)' = PaidFor(r)
  <2>1. Charged(r)' = Charged(r)
    BY ChargedAre DEF ChargesStay, Charged, InStatus, IsCharged
  <2>2. \A h \in Charged(r) : hold'[h] = hold[h]
    BY ChargedAre DEF ChargesStay
  <2>3. QED
    BY <2>1, <2>2 DEF PaidFor
<1>2. QED
  BY <1>1 DEF Charges!Answer, AnswersFollow, AnswerOf, PaidFor

\* Active holds that are released, and holds that are not there yet, are not charges.
LEMMA FreeingIsNoCharge ==
    ASSUME NEW S \in SUBSET InStatus("active"), hold' = Put(S, "released", 0)
    PROVE  ChargesStay
BY DEF ChargesStay, IsCharged, Put, InStatus

\* A request that fails loses its answer, which nobody has paid for.
LEMMA FailingAnswers ==
    ASSUME GInv, NEW S \in SUBSET Request, request' = Failed(S),
           \A r \in S : request[r].status = "succeeded" => PaidFor(r) = {}
    PROVE  AnswersFollow
<1> SUFFICES ASSUME NEW r \in Request, AnswerOf(r)' # AnswerOf(r)
             PROVE  PaidFor(r) = {} /\ AnswerOf(r)' = {}
  BY DEF AnswersFollow
<1>1. r \in S /\ request'[r].status = "failed"
  BY DEF Failed, AnswerOf, GInv, RequestOK
<1>2. AnswerOf(r)' = {} /\ request[r].status = "succeeded"
  BY <1>1 DEF AnswerOf
<1>3. QED
  BY <1>1, <1>2

\* To a step that touches neither account nor answers the contract says nothing.
LEMMA QuietIsAnswer ==
    ASSUME GInv, UNCHANGED <<account, admin>>,
           \A r \in Request : AnswerOf(r)' = AnswerOf(r)
    PROVE  Charges!Answer
<1>1. ChargesStay /\ AnswersFollow /\ UNCHANGED <<balance, admin>>
  BY DEF account, ChargesStay, IsCharged, AnswersFollow
<1>2. QED
  BY <1>1, AnswerStep

\* A settlement is the one payment of its request.
LEMMA SettleIsPay ==
    ASSUME GInv, AttemptsInv, NEW c \in Call, SettleCached(c) \/ SettleCall(c),
           ~ UNCHANGED account
    PROVE  \E r \in Request : Charges!Pay(r)
<1>1. /\ CallIn(c, {"cached", "settling"}) /\ Goes(c, "done")
      /\ Settle(HoldOf(c), request[call[c].of].cost) /\ UNCHANGED <<request, job, summary, admin>>
  BY DEF SettleCached, SettleCall, CallIn, Others
<1>2. /\ request[call[c].of].status = "succeeded" /\ HoldOf(c) = Latest(call[c].of)
      /\ \A h \in Hold : h[1] = call[c].of => ~ IsCharged(h)
  BY <1>1, ChargeKeeps
<1>3. call[c].of \in Request /\ HoldOf(c) \in Hold
  BY <1>1 DEF GInv, CallOK, CallIn
<1> PICK r \in Request, k \in Hold, cost \in Nat :
            r = call[c].of /\ k = HoldOf(c) /\ cost = request[r].cost
  BY <1>3 DEF GInv, RequestOK
<1>4. PaidFor(r) = {} /\ AnswerOf(r) = {cost}
  BY <1>2, ChargedAre DEF PaidFor, AnswerOf
<1>5. balance' = balance - cost /\ \E s \in {"overrun", "settled"} : hold' = Put({k}, s, cost)
  BY <1>1 DEF Settle
<1>6. k[1] = r /\ hold'[k].charged = cost /\ IsCharged(k)' /\ hold[k].status = "active"
  BY <1>1, <1>5 DEF HoldOf, Put, IsCharged, Settle
<1>7. \A h \in Hold \ {k} : hold'[h] = hold[h]
  BY <1>5 DEF Put
<1>8. \A q \in Request : Charged(q)' = {h \in Hold : h[1] = q /\ IsCharged(h)'}
  BY DEF Charged, InStatus, IsCharged
<1>9. PaidFor(r)' = {cost}
  <2>1. Charged(r)' = {k}
    BY <1>2, <1>6, <1>7, <1>8 DEF IsCharged
  <2>2. QED
    BY <1>6, <2>1 DEF PaidFor
<1>10. ASSUME NEW q \in Request \ {r} PROVE PaidFor(q)' = PaidFor(q)
  <2>1. k \notin Charged(q)
    BY <1>6, ChargedAre
  <2>2. \A h \in Hold : h[1] = q => (IsCharged(h)' <=> IsCharged(h))
    BY <1>6, <1>7 DEF IsCharged
  <2>3. Charged(q)' = Charged(q)
    BY <1>8, <2>2, ChargedAre
  <2>4. \A h \in Charged(q) : hold'[h] = hold[h]
    BY <1>7, <2>1, ChargedAre
  <2>5. QED
    BY <2>3, <2>4 DEF PaidFor
<1>11. QED
  BY <1>1, <1>4, <1>5, <1>9, <1>10 DEF Charges!Pay, AnswerOf, PaidFor

\* A submission that looks has done nothing yet; one that is through is taken, once.
LEMMA AdminIsTake ==
    ASSUME GInv, NEW a \in Admin, AdjustLooks(a) \/ AdjustApplies(a)
    PROVE  Charges!Answer \/ Charges!Take(a)
<1> DEFINE done == {b \in Admin : admin[b] = "done"}
<1>1. UNCHANGED <<hold, request>>
  BY DEF AdjustLooks, AdjustApplies, account
<1>2. \A r \in Request : PaidFor(r)' = PaidFor(r) /\ AnswerOf(r)' = AnswerOf(r)
  BY <1>1 DEF PaidFor, Charged, InStatus, AnswerOf
<1>3. CASE AdjustLooks(a) /\ admin'[a] = "looked"
  <2>1. UNCHANGED <<balance, done>>
    BY <1>3 DEF AdjustLooks, account, GInv, OthersOK
  <2>2. QED
    BY <1>2, <2>1 DEF Charges!Answer, PaidFor, AnswerOf
<1>4. CASE AdjustLooks(a) /\ admin'[a] = "done"
  <2>1. a \notin done /\ done' = done \cup {a} /\ balance' = balance
    BY <1>4 DEF AdjustLooks, account, GInv, OthersOK
  <2>2. QED
    BY <1>2, <2>1 DEF Charges!Take, PaidFor, AnswerOf
<1>5. CASE AdjustApplies(a)
  <2>1. a \notin done /\ done' = done \cup {a}
    BY <1>5 DEF AdjustApplies, GInv, OthersOK
  <2>2. balance \in Int /\ reserved \in Nat /\ Adds[a] \in Int
    BY BillingAssumption DEF GInv, AccountOK
  <2>3. \/ balance' = balance
        \/ balance' = balance + Adds[a] /\ (Adds[a] < 0 => balance' >= 0)
    BY <1>5, <2>2 DEF AdjustApplies, Available, account
  <2>4. QED
    BY <1>2, <2>1, <2>3 DEF Charges!Take, PaidFor, AnswerOf
<1>6. QED
  BY <1>3, <1>4, <1>5 DEF AdjustLooks, GInv, OthersOK

\* Every step outside the gateway is a step of the contract.
LEMMA BillingKeepsContract ==
    ASSUME GInv, AttemptsInv, BillingNext
    PROVE  Charges!Next
<1>1. CASE SummaryCommits
  <2>1. summary.release \in SUBSET InStatus("active") /\ summary.fail \in SUBSET Request
    BY <1>1 DEF SummaryCommits, GInv, SummaryOK
  <2>2. ASSUME NEW r \in summary.fail PROVE PaidFor(r) = {}
    <3>1. hold[Latest(r)].status = "active" /\ Latest(r) \in Hold
      BY <2>1 DEF AttemptsInv, SummaryFails, InStatus
    <3>2. \A h \in Hold : h[1] = r /\ IsCharged(h) => h = Latest(r)
      BY <2>1 DEF AttemptsInv, Orderly, ChargedIsFinal, Closed, NothingCharged
    <3>3. \A h \in Hold : h[1] = r => ~ IsCharged(h)
      BY <3>1, <3>2 DEF IsCharged
    <3>4. QED
      BY <2>1, <3>3, ChargedAre DEF PaidFor
  <2>3. ChargesStay
    BY <1>1, <2>1, FreeingIsNoCharge DEF SummaryCommits
  <2>4. AnswersFollow
    BY <1>1, <2>1, <2>2, FailingAnswers DEF SummaryCommits
  <2>5. QED
    BY <1>1, <2>3, <2>4, AnswerStep DEF SummaryCommits, Charges!Next
<1>2. ASSUME NEW a \in Admin, AdjustLooks(a) \/ AdjustApplies(a) PROVE Charges!Next
  BY <1>2, AdminIsTake DEF Charges!Next
<1>3. CASE SummaryReads \/ SummaryLost \/ \E j \in Job : JobMoves(j) \/ JobEnds(j)
  <2>1. UNCHANGED <<account, request, admin>>
    BY <1>3 DEF SummaryReads, SummaryLost, JobMoves, JobEnds
  <2>2. QED
    BY <2>1, QuietIsAnswer DEF AnswerOf, Charges!Next
<1>4. QED
  BY <1>1, <1>2, <1>3 DEF BillingNext

\* Every step of a call is one.
LEMMA CallKeepsContract ==
    ASSUME GInv, AttemptsInv, NEW c \in Call,
           \/ \E r \in Request : Enter(c, r)
           \/ Begin(c) \/ Join(c) \/ SettleCached(c) \/ ReserveCredit(c) \/ Send(c)
           \/ Finish(c) \/ SettleCall(c) \/ ReleaseCredit(c) \/ Fail(c) \/ TransactionFails(c)
    PROVE  Charges!Next
<1>1. CASE (\E r \in Request : Enter(c, r)) \/ Join(c) \/ Send(c) \/ TransactionFails(c)
  <2>1. UNCHANGED <<account, request, admin>>
    BY <1>1 DEF Enter, Join, Send, TransactionFails, Others
  <2>2. QED
    BY <2>1, QuietIsAnswer DEF AnswerOf, Charges!Next
<1>2. CASE Begin(c)
  <2>1. \A r \in Request : AnswerOf(r)' = AnswerOf(r)
    <3>1. \A r \in Request :
              \/ request'[r] = request[r]
              \/ request[r].status \in {"none", "failed"} /\ request'[r].status = "running"
      <4>1. CASE UNCHANGED request
        BY <4>1
      <4>2. CASE /\ request[call[c].of].status \in {"none", "failed"}
                 /\ request' = [request EXCEPT ![call[c].of].status = "running",
                                                ![call[c].of].attempt = request[call[c].of].attempt + 1]
        BY <4>2 DEF GInv, RequestOK
      <4>3. QED
        BY <1>2, <4>1, <4>2 DEF Begin
    <3>2. QED
      BY <3>1 DEF AnswerOf
  <2>2. UNCHANGED <<account, admin>>
    BY <1>2 DEF Begin, Others
  <2>3. QED
    BY <2>1, <2>2, QuietIsAnswer DEF Charges!Next
<1>3. CASE SettleCached(c) \/ SettleCall(c)
  <2>1. CASE UNCHANGED account
    <3>1. UNCHANGED <<account, request, admin>>
      BY <1>3, <2>1 DEF SettleCached, SettleCall, Others
    <3>2. QED
      BY <3>1, QuietIsAnswer DEF AnswerOf, Charges!Next
  <2>2. CASE ~ UNCHANGED account
    BY <1>3, <2>2, SettleIsPay DEF Charges!Next
  <2>3. QED
    BY <2>1, <2>2
<1>4. CASE ReserveCredit(c)
  <2>1. UNCHANGED <<balance, admin>> /\ Reserve(HoldOf(c))
    BY <1>4 DEF ReserveCredit, Reserve, Others
  <2>2. TerminalJobHolds \in SUBSET InStatus("active") /\ InterruptedRequests \in SUBSET Request
        /\ \A r \in InterruptedRequests : request[r].status # "succeeded"
    BY DEF TerminalJobHolds, InterruptedRequests
  <2>3. ChargesStay
    BY <2>1, <2>2 DEF Reserve, ChargesStay, IsCharged, Put, InStatus
  <2>4. AnswersFollow
    BY <2>1, <2>2, FailingAnswers DEF Reserve
  <2>5. QED
    BY <2>1, <2>3, <2>4, AnswerStep DEF Charges!Next
<1>5. CASE ReleaseCredit(c)
  <2>1. UNCHANGED <<balance, admin, request>> /\ Release(HoldOf(c))
    BY <1>5 DEF ReleaseCredit, Release, Others
  <2>2. ChargesStay
    BY <2>1, FreeingIsNoCharge DEF Release
  <2>3. AnswersFollow
    BY <2>1 DEF AnswersFollow, AnswerOf
  <2>4. QED
    BY <2>1, <2>2, <2>3, AnswerStep DEF Charges!Next
<1>6. CASE Finish(c)
  <2>1. UNCHANGED <<account, admin>> /\ Works(c)
    BY <1>6 DEF Finish, Others, CallIn, Works
  <2>2. PICK r \in Request : r = call[c].of /\ PaidFor(r) = {}
    BY <2>1, WorkIsUnpaid
  <2>3. PICK cost \in Cost : request' = [request EXCEPT ![r].status = "succeeded", ![r].cost = cost]
    BY <1>6, <2>2 DEF Finish
  <2>4. ASSUME NEW q \in Request
        PROVE  AnswerOf(q)' = AnswerOf(q) \/ (q = r /\ AnswerOf(q)' = {cost})
    <3>1. CASE q = r
      <4>1. request'[q].status = "succeeded" /\ request'[q].cost = cost
        BY <2>3, <3>1 DEF GInv, RequestOK
      <4>2. QED
        BY <3>1, <4>1 DEF AnswerOf
    <3>2. CASE q # r
      <4>1. request'[q] = request[q]
        BY <2>3, <3>2 DEF GInv, RequestOK
      <4>2. QED
        BY <4>1 DEF AnswerOf
    <3>3. QED
      BY <3>1, <3>2
  <2>5. ChargesStay /\ UNCHANGED balance
    BY <2>1 DEF ChargesStay, account, IsCharged
  <2>6. AnswersFollow
    <3> SUFFICES ASSUME NEW q \in Request, AnswerOf(q)' # AnswerOf(q)
                 PROVE  PaidFor(q) = {} /\ AnswerOf(q)' \in {{}} \cup {{x} : x \in Cost}
      BY DEF AnswersFollow
    <3>1. q = r /\ AnswerOf(q)' = {cost}
      BY <2>4
    <3>2. {cost} \in {{x} : x \in Cost}
      OBVIOUS
    <3>3. QED
      BY <2>2, <3>1, <3>2
  <2>7. QED
    BY <2>1, <2>5, <2>6, AnswerStep DEF Charges!Next
<1>7. CASE Fail(c)
  <2>1. UNCHANGED <<account, admin>> /\ Works(c) /\ request' = Failed({call[c].of})
    BY <1>7 DEF Fail, Others, CallIn, Works
  <2>2. call[c].of \in Request /\ PaidFor(call[c].of) = {}
    BY <2>1, WorkIsUnpaid
  <2>3. AnswersFollow
    BY <2>1, <2>2, FailingAnswers
  <2>4. ChargesStay /\ UNCHANGED balance
    BY <2>1 DEF ChargesStay, account, IsCharged
  <2>5. QED
    BY <2>1, <2>3, <2>4, AnswerStep DEF Charges!Next
<1>8. QED
  BY <1>1, <1>2, <1>3, <1>4, <1>5, <1>6, <1>7

\* The account keeps the contract of charges: a request is paid once, at the cost of the
\* answer it keeps, and nothing but payments and submissions moves the balance
\* (billing.py, model_gateway.py).
THEOREM ChargeContractKept == Spec => KeepsChargeContract
<1>1. Init => Charges!Init
  BY DEF Init, BillingInit, Charges!Init, Charges!Nothing, Charged, InStatus
<1>2. GInv /\ AttemptsInv /\ [Next]_vars => [Charges!Next]_(Charges!chargeVars)
  <2> SUFFICES ASSUME GInv, AttemptsInv, [Next]_vars
               PROVE  Charges!Next \/ UNCHANGED Charges!chargeVars
    OBVIOUS
  <2>1. CASE BillingNext
    BY <2>1, BillingKeepsContract
  <2>2. CASE Crash
    <3>1. UNCHANGED <<account, request, admin>>
      BY <2>2 DEF Crash, Others
    <3>2. QED
      BY <3>1, QuietIsAnswer DEF AnswerOf, Charges!Next
  <2>3. CASE UNCHANGED vars
    <3>1. UNCHANGED <<account, request, admin>>
      BY <2>3 DEF vars
    <3>2. QED
      BY <3>1, QuietIsAnswer DEF AnswerOf, Charges!Next
  <2>4. QED
    BY <2>1, <2>2, <2>3, CallKeepsContract DEF Next
<1>3. QED
  BY <1>1, <1>2, GatewayInvariance, AttemptsInvariance, PTL
     DEF Spec, KeepsChargeContract, Charges!Spec
===============================================================================
