----------------------------- MODULE ChapterPlan -----------------------------
(* Generating, restoring and confirming the plan of the chapters               *)
(* (ChapterPlanningWorkspace.tsx), beside another tab. A plan that was made is *)
(* a candidate; it replaces the current plan when it is confirmed.             *)
EXTENDS Integers, Sequences

CONSTANTS
    NoChapterPlan,             \* nothing loaded, nothing under way
    MaxPlans,           \* bound on the plans made
    MaxOutlines,        \* bound on the changes of the outline
    MaxPlanSteps        \* bound on what the user does here

ASSUME ChapterPlanAssumption == MaxPlans \in Nat /\ MaxOutlines \in Nat /\ MaxPlanSteps \in Nat

VARIABLES
    outlineNow,         \* server: state of the outline and the evidence
    plans,              \* server: the plans made, each with what it was made from
    planStage,          \* server: revision, current plan and whether it is approved
    chapterJob,            \* server: the task that makes a plan
    blueprintCache,          \* the answer the page shows
    blueprintFetch,          \* an answer of which the server has read the first half
    planDue,            \* the answer is to be fetched
    planEnds,           \* number of the last ended task the page has noticed
    planRequest,        \* the confirmation, how far it has got
    generating,         \* the request for a plan: none, or the revision it names
    planSteps           \* what the user has done

chapterServerVars == <<outlineNow, plans, planStage, chapterJob>>
planPageVars == <<blueprintCache, blueprintFetch, planDue, planEnds>>
chapterPlanVars == <<chapterServerVars, planPageVars, planRequest, generating, planSteps>>

PlanStep == planSteps < MaxPlanSteps /\ planSteps' = planSteps + 1

-----------------------------------------------------------------------------
(* The server.                                                                 *)

\* What has changed since the candidate was made.
CandidateConflicts(c, rev) ==
    \/ plans[c].rev # rev \/ plans[c].base # planStage.current \/ plans[c].outline # outlineNow

\* The latest plan, unless it is the current one or out of date.
PendingCandidate ==
    IF plans # <<>> /\ Len(plans) # planStage.current /\ ~CandidateConflicts(Len(plans), planStage.rev)
    THEN Len(plans) ELSE 0

PlanMade(rev, complete) ==
    Append(plans, [rev |-> rev, base |-> planStage.current, outline |-> outlineNow, complete |-> complete])

OutlineChanges ==
    /\ outlineNow < MaxOutlines /\ outlineNow' = outlineNow + 1
    /\ planStage' = [planStage EXCEPT !.rev = @ + 1, !.approved = FALSE]
    /\ UNCHANGED <<plans, chapterJob, planPageVars, planRequest, generating, planSteps>>

\* Made for the outline and the revision it started from, or not made.
PlanJobEnds ==
    /\ chapterJob.status = "active"
    /\ chapterJob' = [chapterJob EXCEPT !.status = "over"]
    /\ \/ /\ chapterJob.rev = planStage.rev /\ chapterJob.outline = outlineNow /\ Len(plans) < MaxPlans
          /\ \E complete \in BOOLEAN : plans' = PlanMade(chapterJob.rev, complete)
       \/ UNCHANGED plans
    /\ UNCHANGED <<outlineNow, planStage, planPageVars, planRequest, generating, planSteps>>

Promote(c) == planStage' = [rev |-> planStage.rev + 1, current |-> c, approved |-> TRUE]

ConfirmedElsewhere ==
    /\ PendingCandidate # 0 /\ plans[PendingCandidate].complete /\ Promote(PendingCandidate)
    /\ UNCHANGED <<outlineNow, plans, chapterJob, planPageVars, planRequest, generating, planSteps>>

-----------------------------------------------------------------------------
(* What the page shows.                                                        *)

PlanShown == IF blueprintCache = NoChapterPlan THEN 0 ELSE blueprintCache.data.plan

\* The plans are read first, the task at the end.
FetchPlan ==
    /\ blueprintFetch = NoChapterPlan
    /\ planDue \/ (blueprintCache # NoChapterPlan /\ blueprintCache.job = "active")
    /\ LET shown == IF PendingCandidate # 0 THEN PendingCandidate ELSE planStage.current
           isCurrent == PendingCandidate # 0 \/ (shown # 0 /\ plans[shown].outline = outlineNow)
       IN blueprintFetch' = [plan |-> shown, rev |-> planStage.rev, seen |-> planStage.current, current |-> isCurrent,
                        approved |-> PendingCandidate = 0 /\ isCurrent /\ planStage.approved]
    /\ planDue' = FALSE
    /\ UNCHANGED <<chapterServerVars, blueprintCache, planEnds, planRequest, generating, planSteps>>

\* The first answer that shows a task ended has the plans fetched again.
PlanArrives ==
    /\ blueprintFetch # NoChapterPlan /\ blueprintFetch' = NoChapterPlan
    /\ blueprintCache' = [data |-> blueprintFetch, job |-> chapterJob.status]
    /\ IF chapterJob.status = "over" /\ chapterJob.n # planEnds THEN planEnds' = chapterJob.n /\ planDue' = TRUE
       ELSE UNCHANGED <<planEnds, planDue>>
    /\ UNCHANGED <<chapterServerVars, planRequest, generating, planSteps>>

PlanBusy == blueprintCache = NoChapterPlan \/ generating # NoChapterPlan \/ blueprintCache.job = "active"

-----------------------------------------------------------------------------
(* Requests.                                                                   *)

GeneratePlan ==
    /\ ~PlanBusy /\ planRequest = NoChapterPlan
    /\ generating' = blueprintCache.data.rev
    /\ PlanStep
    /\ UNCHANGED <<chapterServerVars, planPageVars, planRequest>>

\* One task at a time, for the revision shown.
PlanGenerationAnswered ==
    /\ generating # NoChapterPlan /\ generating' = NoChapterPlan
    /\ \/ /\ chapterJob.status # "active" /\ generating = planStage.rev
          /\ chapterJob' = [n |-> chapterJob.n + 1, status |-> "active", rev |-> planStage.rev, outline |-> outlineNow]
          /\ planDue' \in {planDue, TRUE}
       \/ UNCHANGED <<chapterJob, planDue>>
    /\ UNCHANGED <<outlineNow, plans, planStage, blueprintCache, blueprintFetch, planEnds, planRequest, planSteps>>

CancelPlan ==
    /\ blueprintCache # NoChapterPlan /\ blueprintCache.job = "active" /\ chapterJob.status = "active"
    /\ chapterJob' = [chapterJob EXCEPT !.status = "over"] /\ planDue' = TRUE
    /\ PlanStep
    /\ UNCHANGED <<outlineNow, plans, planStage, blueprintCache, blueprintFetch, planEnds, planRequest, generating>>

\* An earlier plan is made a candidate again, for what is current now.
RestorePlan(old) ==
    /\ ~PlanBusy /\ planRequest = NoChapterPlan /\ PlanShown # 0 /\ PlanShown # old
    /\ Len(plans) < MaxPlans /\ old # planStage.current
    /\ blueprintCache.data.rev = planStage.rev
    /\ plans' = PlanMade(planStage.rev, plans[old].complete)
    /\ planDue' = TRUE
    /\ PlanStep
    /\ UNCHANGED <<outlineNow, planStage, chapterJob, blueprintCache, blueprintFetch, planEnds, planRequest, generating>>

ConfirmPlan ==
    /\ ~PlanBusy /\ planRequest = NoChapterPlan /\ PlanShown # 0
    /\ ~blueprintCache.data.approved /\ blueprintCache.data.current /\ plans[PlanShown].complete
    /\ planRequest' = [phase |-> "sent", plan |-> PlanShown, rev |-> blueprintCache.data.rev, seen |-> blueprintCache.data.seen]
    /\ PlanStep
    /\ UNCHANGED <<chapterServerVars, planPageVars, generating>>

\* Faulty: what is confirmed is compared with what the server has now.
ConfirmAcceptsLatest(r) ==
    \/ planStage.current = r.plan /\ planStage.approved /\ plans[r.plan].outline = outlineNow
    \/ ~CandidateConflicts(r.plan, plans[r.plan].rev) \/ PendingCandidate = 0

\* The current plan is approved already, or the candidate still fits, or not.
ConfirmAccepts(r) ==
    \/ planStage.current = r.plan /\ planStage.approved /\ plans[r.plan].outline = outlineNow
    \/ r.rev = planStage.rev /\ ~CandidateConflicts(r.plan, r.rev)

ConfirmStored ==
    /\ planRequest # NoChapterPlan /\ planRequest.phase = "sent"
    /\ \/ /\ ConfirmAccepts(planRequest)
          /\ IF planStage.current = planRequest.plan /\ planStage.approved THEN UNCHANGED planStage
             ELSE Promote(planRequest.plan)
          /\ planRequest' \in {[planRequest EXCEPT !.phase = p] : p \in {"taken", "failed"}}
       \/ planRequest' = [planRequest EXCEPT !.phase = "failed"] /\ UNCHANGED planStage
    /\ UNCHANGED <<outlineNow, plans, chapterJob, planPageVars, generating, planSteps>>

\* After a failure the page looks whether a plan is approved; it never asks
\* again by itself.
ConfirmAnswered ==
    /\ planRequest # NoChapterPlan /\ planRequest.phase \in {"taken", "failed"} /\ planRequest' = NoChapterPlan
    /\ IF planRequest.phase = "taken" \/ (PendingCandidate = 0 /\ planStage.approved)
       THEN planDue' = TRUE /\ blueprintFetch' = NoChapterPlan
       ELSE UNCHANGED <<planDue, blueprintFetch>>
    /\ UNCHANGED <<chapterServerVars, blueprintCache, planEnds, generating, planSteps>>

-----------------------------------------------------------------------------

ChapterPlanInit ==
    /\ outlineNow = 1 /\ plans = <<>>
    /\ planStage = [rev |-> 0, current |-> 0, approved |-> FALSE]
    /\ chapterJob = [n |-> 0, status |-> "none", rev |-> 0, outline |-> 0]
    /\ blueprintCache = NoChapterPlan /\ blueprintFetch = NoChapterPlan /\ planDue = TRUE /\ planEnds = 0
    /\ planRequest = NoChapterPlan /\ generating = NoChapterPlan /\ planSteps = 0

ChapterPlanNext ==
    \/ OutlineChanges \/ PlanJobEnds \/ ConfirmedElsewhere
    \/ FetchPlan \/ PlanArrives
    \/ GeneratePlan \/ PlanGenerationAnswered \/ CancelPlan
    \/ \E old \in 1..Len(plans) : RestorePlan(old)
    \/ ConfirmPlan \/ ConfirmStored \/ ConfirmAnswered

ChapterPlanSpec == ChapterPlanInit /\ [][ChapterPlanNext]_chapterPlanVars

-----------------------------------------------------------------------------
(* Properties.                                                                 *)

PromotesHere == planRequest # NoChapterPlan /\ planStage'.current # planStage.current /\ planRequest' # planRequest

\* A confirmation approves the plan that was shown, made for the outline there
\* is now, in place of the plan that was current when the user looked.
ConfirmationsReplaceWhatWasSeen ==
    [][PromotesHere =>
          /\ planRequest.seen = planStage.current
          /\ planStage'.current = planRequest.plan
          /\ plans[planRequest.plan].outline = outlineNow]_chapterPlanVars
=============================================================================
