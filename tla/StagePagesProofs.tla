------------------------- MODULE StagePagesProofs -------------------------
(* Theorems about three pages that adopt what was made: the plan of the        *)
(* chapters, the selection of the papers and the rewrite of a chapter.         *)
EXTENDS ChapterPlan, DiscoveryPage, ChapterRewrites, SequenceTheorems, TLAPS

-----------------------------------------------------------------------------
(* ChapterPlan: a revision the page knows says which plan was current.         *)

StageTyped == planStage = [rev |-> planStage.rev, current |-> planStage.current, approved |-> planStage.approved]
                  /\ planStage.rev \in Nat

\* What was read under the present revision was read with the present plan.
SawCurrent(data) ==
    /\ data.rev \in Nat /\ data.rev <= planStage.rev
    /\ data.rev = planStage.rev => data.seen = planStage.current

PlanInv ==
    /\ StageTyped
    /\ blueprintFetch # NoChapterPlan => SawCurrent(blueprintFetch)
    /\ blueprintCache # NoChapterPlan => SawCurrent(blueprintCache.data)
    /\ planRequest # NoChapterPlan =>
          /\ planRequest = [phase |-> planRequest.phase, plan |-> planRequest.plan, rev |-> planRequest.rev, seen |-> planRequest.seen]
          /\ SawCurrent(planRequest)

LEMMA PlanInitially == ChapterPlanInit => PlanInv
BY DEF ChapterPlanInit, PlanInv, StageTyped

\* A stage that moves on makes every revision an old one.
LEMMA NewRevisionKeepsInv ==
    ASSUME PlanInv, planStage'.rev = planStage.rev + 1,
           planStage' = [rev |-> planStage'.rev, current |-> planStage'.current, approved |-> planStage'.approved],
           UNCHANGED <<blueprintFetch, blueprintCache>>,
           \/ UNCHANGED planRequest
           \/ planRequest # NoChapterPlan /\ \E p : planRequest' = [planRequest EXCEPT !.phase = p]
    PROVE  PlanInv'
<1>1. planStage.rev \in Nat /\ planStage'.rev \in Nat
  BY DEF PlanInv, StageTyped
<1>2. ASSUME NEW data, SawCurrent(data)
      PROVE  data.rev \in Nat /\ data.rev <= planStage'.rev /\ data.rev # planStage'.rev
  BY <1>1, <1>2 DEF SawCurrent
<1>3. StageTyped'
  BY <1>1 DEF StageTyped
<1>4. blueprintFetch' # NoChapterPlan => SawCurrent(blueprintFetch)'
  BY <1>2 DEF PlanInv, SawCurrent
<1>5. blueprintCache' # NoChapterPlan => SawCurrent(blueprintCache.data)'
  BY <1>2 DEF PlanInv, SawCurrent
<1>6. CASE UNCHANGED planRequest
  BY <1>2, <1>3, <1>4, <1>5, <1>6 DEF PlanInv, SawCurrent
<1>7. CASE planRequest # NoChapterPlan /\ \E p : planRequest' = [planRequest EXCEPT !.phase = p]
  <2>1. PICK p : planRequest' = [planRequest EXCEPT !.phase = p]
    BY <1>7
  <2>2. planRequest = [phase |-> planRequest.phase, plan |-> planRequest.plan, rev |-> planRequest.rev, seen |-> planRequest.seen]
    BY <1>7 DEF PlanInv
  <2>3. planRequest' = [phase |-> p, plan |-> planRequest.plan, rev |-> planRequest.rev, seen |-> planRequest.seen]
    BY <2>1, <2>2
  <2>4. SawCurrent(planRequest)
    BY <1>7 DEF PlanInv
  <2>5. planRequest'.rev = planRequest.rev /\ planRequest'.seen = planRequest.seen
    BY <2>3
  <2>6. SawCurrent(planRequest)'
    BY <1>2, <2>4, <2>5 DEF SawCurrent
  <2>7. planRequest' = [phase |-> planRequest'.phase, plan |-> planRequest'.plan, rev |-> planRequest'.rev, seen |-> planRequest'.seen]
    BY <2>3
  <2>8. QED
    BY <1>3, <1>4, <1>5, <2>6, <2>7 DEF PlanInv
<1>8. QED
  BY <1>6, <1>7

LEMMA PlanStepKeepsInv == PlanInv /\ [ChapterPlanNext]_chapterPlanVars => PlanInv'
<1> SUFFICES ASSUME PlanInv, [ChapterPlanNext]_chapterPlanVars PROVE PlanInv'
  OBVIOUS
<1> USE DEF chapterServerVars, planPageVars
<1>0. planStage.rev \in Nat /\ StageTyped
  BY DEF PlanInv, StageTyped
<1>1. CASE OutlineChanges
  <2>1. planStage' = [rev |-> planStage.rev + 1, current |-> planStage.current, approved |-> FALSE]
    BY <1>0, <1>1 DEF OutlineChanges, StageTyped
  <2>2. QED
    BY <1>1, <2>1, NewRevisionKeepsInv DEF OutlineChanges
<1>2. CASE ConfirmedElsewhere
  <2>1. planStage' = [rev |-> planStage.rev + 1, current |-> PendingCandidate, approved |-> TRUE]
    BY <1>2 DEF ConfirmedElsewhere, Promote
  <2>2. QED
    BY <1>2, <2>1, NewRevisionKeepsInv DEF ConfirmedElsewhere
<1>3. CASE PlanJobEnds \/ GeneratePlan \/ PlanGenerationAnswered \/ CancelPlan
  BY <1>3 DEF PlanJobEnds, GeneratePlan, PlanGenerationAnswered, CancelPlan, PlanInv, StageTyped, SawCurrent
<1>4. CASE FetchPlan
  <2>1. UNCHANGED <<planStage, blueprintCache, planRequest>>
    BY <1>4 DEF FetchPlan
  <2>2. blueprintFetch'.rev = planStage.rev /\ blueprintFetch'.seen = planStage.current
    BY <1>4 DEF FetchPlan
  <2>3. SawCurrent(blueprintFetch)'
    BY <1>0, <2>1, <2>2 DEF SawCurrent
  <2>4. QED
    BY <2>1, <2>3 DEF PlanInv, StageTyped, SawCurrent
<1>5. CASE PlanArrives
  <2>1. UNCHANGED <<planStage, planRequest>> /\ blueprintFetch' = NoChapterPlan /\ blueprintFetch # NoChapterPlan
    BY <1>5 DEF PlanArrives
  <2>2. blueprintCache'.data = blueprintFetch
    BY <1>5 DEF PlanArrives
  <2>3. SawCurrent(blueprintCache.data)'
    BY <2>1, <2>2 DEF PlanInv, SawCurrent
  <2>4. QED
    BY <2>1, <2>3 DEF PlanInv, StageTyped, SawCurrent
<1>6. ASSUME NEW old \in 1..Len(plans), RestorePlan(old) PROVE PlanInv'
  BY <1>6 DEF RestorePlan, PlanInv, StageTyped, SawCurrent
<1>7. CASE ConfirmPlan
  <2>1. UNCHANGED <<planStage, blueprintCache, blueprintFetch>> /\ blueprintCache # NoChapterPlan
    BY <1>7 DEF ConfirmPlan, PlanBusy
  <2>2. planRequest' = [phase |-> "sent", plan |-> PlanShown, rev |-> blueprintCache.data.rev, seen |-> blueprintCache.data.seen]
    BY <1>7 DEF ConfirmPlan
  <2>3. SawCurrent(planRequest)'
    BY <2>1, <2>2 DEF PlanInv, SawCurrent
  <2>4. planRequest' = [phase |-> planRequest'.phase, plan |-> planRequest'.plan, rev |-> planRequest'.rev, seen |-> planRequest'.seen]
    BY <2>2
  <2>5. QED
    BY <2>1, <2>3, <2>4 DEF PlanInv, StageTyped, SawCurrent
<1>8. CASE ConfirmStored
  <2>1. UNCHANGED <<blueprintFetch, blueprintCache>> /\ planRequest # NoChapterPlan
            /\ \E p : planRequest' = [planRequest EXCEPT !.phase = p]
    BY <1>8 DEF ConfirmStored
  <2>2. CASE Promote(planRequest.plan)
    <3>1. planStage' = [rev |-> planStage.rev + 1, current |-> planRequest.plan, approved |-> TRUE]
      BY <2>2 DEF Promote
    <3>2. QED
      BY <2>1, <3>1, NewRevisionKeepsInv
  <2>3. CASE UNCHANGED planStage
    <3>1. PICK p : planRequest' = [planRequest EXCEPT !.phase = p]
      BY <2>1
    <3>2. planRequest' = [phase |-> p, plan |-> planRequest.plan, rev |-> planRequest.rev, seen |-> planRequest.seen]
      BY <2>1, <3>1 DEF PlanInv
    <3>3. QED
      BY <2>1, <2>3, <3>2 DEF PlanInv, StageTyped, SawCurrent
  <2>4. QED
    BY <1>8, <2>2, <2>3 DEF ConfirmStored
<1>9. CASE ConfirmAnswered
  BY <1>9 DEF ConfirmAnswered, PlanInv, StageTyped, SawCurrent
<1>10. CASE UNCHANGED chapterPlanVars
  BY <1>10 DEF chapterPlanVars, PlanInv, StageTyped, SawCurrent
<1>11. QED
  BY <1>1, <1>2, <1>3, <1>4, <1>5, <1>6, <1>7, <1>8, <1>9, <1>10 DEF ChapterPlanNext

\* TLC's view of a confirmation holds for every number of plans, outlines and
\* tabs: a revision the page read fixes the plan that was current then.
THEOREM PlansKnowWhatTheyReplace == ChapterPlanSpec => []PlanInv
<1>1. ChapterPlanInit => PlanInv
  BY PlanInitially
<1>2. PlanInv /\ [ChapterPlanNext]_chapterPlanVars => PlanInv'
  BY PlanStepKeepsInv
<1>3. QED
  BY <1>1, <1>2, PTL DEF ChapterPlanSpec

LEMMA OnlyConfirmStoredPromotes ==
    ASSUME [ChapterPlanNext]_chapterPlanVars, PromotesHere
    PROVE  ConfirmStored
<1> USE DEF PromotesHere, chapterServerVars, planPageVars
<1>1. CASE OutlineChanges
  BY <1>1 DEF OutlineChanges
<1>2. CASE ConfirmedElsewhere
  BY <1>2 DEF ConfirmedElsewhere
<1>3. CASE PlanJobEnds \/ FetchPlan \/ PlanArrives \/ GeneratePlan \/ PlanGenerationAnswered \/ CancelPlan
  BY <1>3 DEF PlanJobEnds, FetchPlan, PlanArrives, GeneratePlan, PlanGenerationAnswered, CancelPlan
<1>4. ASSUME NEW old \in 1..Len(plans), RestorePlan(old) PROVE FALSE
  BY <1>4 DEF RestorePlan
<1>5. CASE ConfirmPlan \/ ConfirmAnswered
  BY <1>5 DEF ConfirmPlan, ConfirmAnswered
<1>6. CASE UNCHANGED chapterPlanVars
  BY <1>6 DEF chapterPlanVars
<1>7. QED
  BY <1>1, <1>2, <1>3, <1>4, <1>5, <1>6 DEF ChapterPlanNext

\* A confirmation approves the shown plan, for the present outline, in place of
\* the plan that was current when the user looked.
THEOREM ConfirmationsReplace == ChapterPlanSpec => ConfirmationsReplaceWhatWasSeen
<1>1. ASSUME PlanInv, [ChapterPlanNext]_chapterPlanVars, PromotesHere
      PROVE  /\ planRequest.seen = planStage.current
             /\ planStage'.current = planRequest.plan
             /\ plans[planRequest.plan].outline = outlineNow
  <2>1. ConfirmStored
    BY <1>1, OnlyConfirmStoredPromotes
  <2>2. ConfirmAccepts(planRequest) /\ Promote(planRequest.plan)
    BY <1>1, <2>1 DEF ConfirmStored, PromotesHere
  <2>3. planStage'.current = planRequest.plan /\ planStage.current # planRequest.plan
    BY <1>1, <2>2 DEF Promote, PromotesHere
  <2>4. planRequest.rev = planStage.rev /\ ~CandidateConflicts(planRequest.plan, planRequest.rev)
    BY <2>2, <2>3 DEF ConfirmAccepts
  <2>5. QED
    BY <1>1, <2>3, <2>4 DEF PlanInv, SawCurrent, CandidateConflicts, PromotesHere
<1>2. PlanInv /\ [ChapterPlanNext]_chapterPlanVars =>
          [PromotesHere =>
              /\ planRequest.seen = planStage.current
              /\ planStage'.current = planRequest.plan
              /\ plans[planRequest.plan].outline = outlineNow]_chapterPlanVars
  BY <1>1
<1>3. QED
  BY <1>2, PlansKnowWhatTheyReplace, PTL DEF ChapterPlanSpec, ConfirmationsReplaceWhatWasSeen

-----------------------------------------------------------------------------
(* DiscoveryPage: the revision of a save stands for the rows that were saved.  *)

ReviewRecord(r) ==
    /\ r = [artifact |-> r.artifact, source |-> r.source, search |-> r.search, local |-> r.local, decided |-> r.decided]
    /\ r.artifact \in Nat /\ r.local \subseteq Candidate

RowsRecord(g) == g = [local |-> g.local, decided |-> g.decided] /\ g.local \subseteq Candidate

Acquiring ==
    /\ library \subseteq Candidate
    /\ acquireJob = [status |-> acquireJob.status, candidate |-> acquireJob.candidate]
    /\ acquireJob.status = "active" \/ refreshing.phase # "none" => acquireJob.candidate \in Candidate
    /\ refreshing = [phase |-> refreshing.phase, base |-> refreshing.base, rev |-> refreshing.rev, tries |-> refreshing.tries]
    /\ refreshing.phase \in {"read", "publish"} => ReviewRecord(refreshing.base)

ShownRows ==
    /\ reviewFetch # NoReview => ReviewRecord(reviewFetch)
    /\ reviewLoad # NoReview => loadedArtifact # NoReview
    /\ loadedArtifact # NoReview => RowsRecord(groups)

\* Until something else is published, the review is the one the page saved.
AdoptionKnown ==
    adoption # NoReview =>
        /\ adoption = [phase |-> adoption.phase, rows |-> adoption.rows, rev |-> adoption.rev]
        /\ RowsRecord(adoption.rows)
        /\ adoption.phase = "confirm" =>
              /\ adoption.rev \in Nat /\ adoption.rev <= reviewRev
              /\ adoption.rev = reviewRev => ChosenOf(review) = ChosenOf(adoption.rows)

DiscoveryInv == reviewRev \in Nat /\ ReviewRecord(review) /\ Acquiring /\ ShownRows /\ AdoptionKnown

LEMMA DiscoveryInitially == DiscoveryInit => DiscoveryInv
<1> SUFFICES ASSUME DiscoveryInit PROVE DiscoveryInv
  OBVIOUS
<1> USE ReviewAssumption DEF DiscoveryInit
<1>1. ReviewRecord(review) /\ reviewRev \in Nat
  BY DEF ReviewRecord
<1>2. Acquiring
  BY DEF Acquiring, NoRefresh
<1>3. ShownRows /\ AdoptionKnown
  BY DEF ShownRows, AdoptionKnown
<1>4. QED
  BY <1>1, <1>2, <1>3 DEF DiscoveryInv

\* A review one field of which is replaced is a review.
LEMMA RecordWithField ==
    ASSUME NEW r, ReviewRecord(r)
    PROVE  /\ \A d : ReviewRecord([r EXCEPT !.decided = d]) /\ [r EXCEPT !.decided = d].local = r.local
                         /\ [r EXCEPT !.decided = d].decided = d
           /\ \A s : ReviewRecord([r EXCEPT !.source = s])
           /\ \A l \in SUBSET Candidate : ReviewRecord([r EXCEPT !.local = l])
<1>0. r = [artifact |-> r.artifact, source |-> r.source, search |-> r.search, local |-> r.local, decided |-> r.decided]
  BY DEF ReviewRecord
<1>1. ASSUME NEW d
      PROVE  [r EXCEPT !.decided = d] =
                 [artifact |-> r.artifact, source |-> r.source, search |-> r.search, local |-> r.local, decided |-> d]
  BY <1>0
<1>2. ASSUME NEW s
      PROVE  [r EXCEPT !.source = s] =
                 [artifact |-> r.artifact, source |-> s, search |-> r.search, local |-> r.local, decided |-> r.decided]
  BY <1>0
<1>3. ASSUME NEW l \in SUBSET Candidate
      PROVE  [r EXCEPT !.local = l] =
                 [artifact |-> r.artifact, source |-> r.source, search |-> r.search, local |-> l, decided |-> r.decided]
  BY <1>0
<1>4. ASSUME NEW d
      PROVE  ReviewRecord([r EXCEPT !.decided = d]) /\ [r EXCEPT !.decided = d].local = r.local
                 /\ [r EXCEPT !.decided = d].decided = d
  BY <1>1 DEF ReviewRecord
<1>5. ASSUME NEW s PROVE ReviewRecord([r EXCEPT !.source = s])
  BY <1>2 DEF ReviewRecord
<1>6. ASSUME NEW l \in SUBSET Candidate PROVE ReviewRecord([r EXCEPT !.local = l])
  BY <1>3 DEF ReviewRecord
<1>7. QED
  BY <1>4, <1>5, <1>6

LEMMA RefreshedRecord ==
    ASSUME NEW b, ReviewRecord(b), acquireJob.candidate \in Candidate
    PROVE  ReviewRecord(Refreshed(b))
<1> DEFINE wider == b.local \cup {acquireJob.candidate}
<1>1. wider \in SUBSET Candidate
  BY DEF ReviewRecord
<1>2. ReviewRecord([b EXCEPT !.local = wider])
  <2> HIDE DEF wider
  <2> QED
    BY <1>1, RecordWithField
<1>3. Refreshed(b) = [[b EXCEPT !.local = wider] EXCEPT !.source = b.artifact]
  BY DEF Refreshed
<1>4. \A s : ReviewRecord([[b EXCEPT !.local = wider] EXCEPT !.source = s])
  <2> HIDE DEF wider
  <2> DEFINE r == [b EXCEPT !.local = wider]
  <2>1. ReviewRecord(r)
    BY <1>2
  <2>2. \A s : ReviewRecord([r EXCEPT !.source = s])
    <3> HIDE DEF r
    <3> QED
      BY <2>1, RecordWithField
  <2>3. QED
    BY <2>2
<1>5. QED
  BY <1>3, <1>4, Zenon

\* A published review keeps its rows, under a revision nobody has seen yet.
LEMMA PublishedReview ==
    ASSUME reviewRev \in Nat, NEW new, ReviewRecord(new), PublishReview(new)
    PROVE  /\ reviewRev' \in Nat /\ reviewRev' = reviewRev + 1
           /\ ReviewRecord(review)' /\ review'.local = new.local /\ review'.decided = new.decided
<1>1. review' = [new EXCEPT !.artifact = reviewRev + 1] /\ reviewRev' = reviewRev + 1
  BY DEF PublishReview
<1>2. new = [artifact |-> new.artifact, source |-> new.source, search |-> new.search, local |-> new.local, decided |-> new.decided]
  BY DEF ReviewRecord
<1>3. review' = [artifact |-> reviewRev + 1, source |-> new.source, search |-> new.search, local |-> new.local, decided |-> new.decided]
  BY <1>1, <1>2
<1>4. QED
  BY <1>1, <1>3 DEF ReviewRecord

LEMMA PublishKeepsAdoption ==
    ASSUME DiscoveryInv, reviewRev' = reviewRev + 1, UNCHANGED adoption
    PROVE  AdoptionKnown'
BY DEF DiscoveryInv, AdoptionKnown, RowsRecord, ChosenOf

LEMMA SameReviewKeepsAdoption ==
    ASSUME DiscoveryInv, UNCHANGED <<review, reviewRev, adoption>>
    PROVE  AdoptionKnown' /\ reviewRev' \in Nat /\ ReviewRecord(review)'
BY DEF DiscoveryInv, AdoptionKnown, RowsRecord, ChosenOf, ReviewRecord

LEMMA SameRows ==
    ASSUME DiscoveryInv, UNCHANGED <<reviewLoad, loadedArtifact, groups>>, reviewFetch' \in {reviewFetch, NoReview}
    PROVE  ShownRows'
BY DEF DiscoveryInv, ShownRows, RowsRecord, ReviewRecord

LEMMA SameAcquisition ==
    ASSUME DiscoveryInv, UNCHANGED <<library, acquireJob, refreshing>>
    PROVE  Acquiring'
BY DEF DiscoveryInv, Acquiring, ReviewRecord

\* What the server does alone.
LEMMA DiscoveryServerStep == DiscoveryInv /\ ReviewServerNext => DiscoveryInv'
<1> SUFFICES ASSUME DiscoveryInv, ReviewServerNext PROVE DiscoveryInv'
  OBVIOUS
<1> USE DEF rowVars, searchVars, reviewServerVars
<1>0. reviewRev \in Nat /\ ReviewRecord(review) /\ Acquiring /\ ShownRows /\ library \subseteq Candidate
  BY DEF DiscoveryInv, Acquiring
<1>1. CASE SaveElsewhere
  <2>1. PICK c \in review.local, choice \in {"in", "out"} : PublishReview([review EXCEPT !.decided[c] = choice])
    BY <1>1 DEF SaveElsewhere
  <2>2. [review EXCEPT !.decided[c] = choice] = [review EXCEPT !.decided = [review.decided EXCEPT ![c] = choice]]
    OBVIOUS
  <2>3. ReviewRecord([review EXCEPT !.decided[c] = choice])
    BY <1>0, <2>2, RecordWithField
  <2>4. reviewRev' \in Nat /\ reviewRev' = reviewRev + 1 /\ ReviewRecord(review)'
    BY <1>0, <2>1, <2>3, PublishedReview
  <2>5. UNCHANGED <<library, acquireJob, refreshing, reviewLoad, loadedArtifact, groups, reviewFetch, adoption>>
    BY <1>1 DEF SaveElsewhere
  <2>6. QED
    BY <2>4, <2>5, PublishKeepsAdoption, SameRows, SameAcquisition DEF DiscoveryInv
<1>2. CASE SearchElsewhere
  BY <1>2, SameReviewKeepsAdoption, SameRows, SameAcquisition DEF SearchElsewhere, DiscoveryInv
<1>3. ASSUME NEW n \in SearchNumber, SearchEnds(n) PROVE DiscoveryInv'
  <2>1. UNCHANGED <<library, acquireJob, refreshing, reviewLoad, loadedArtifact, groups, reviewFetch, adoption>>
    BY <1>3 DEF SearchEnds
  <2>2. CASE UNCHANGED <<review, reviewRev>>
    BY <2>1, <2>2, SameReviewKeepsAdoption, SameRows, SameAcquisition DEF DiscoveryInv
  <2>3. CASE PublishReview([artifact |-> 0, source |-> 0, search |-> n, local |-> library, decided |-> Undecided])
    <3>1. ReviewRecord([artifact |-> 0, source |-> 0, search |-> n, local |-> library, decided |-> Undecided])
      BY <1>0 DEF ReviewRecord
    <3>2. reviewRev' \in Nat /\ reviewRev' = reviewRev + 1 /\ ReviewRecord(review)'
      BY <1>0, <2>3, <3>1, PublishedReview
    <3>3. QED
      BY <2>1, <3>2, PublishKeepsAdoption, SameRows, SameAcquisition DEF DiscoveryInv
  <2>4. QED
    BY <1>3, <2>2, <2>3 DEF SearchEnds
<1>4. CASE AcquireDownloads
  <2>1. UNCHANGED <<review, reviewRev, reviewLoad, loadedArtifact, groups, reviewFetch, adoption>>
    BY <1>4 DEF AcquireDownloads
  <2>2. acquireJob.candidate \in Candidate /\ refreshing.phase = "none"
    BY <1>0, <1>4 DEF Acquiring, AcquireDownloads
  <2>3. CASE library' = library \cup {acquireJob.candidate} /\ refreshing' = [refreshing EXCEPT !.phase = "due"] /\ UNCHANGED acquireJob
    <3>1. refreshing' = [phase |-> "due", base |-> refreshing.base, rev |-> refreshing.rev, tries |-> refreshing.tries]
      BY <1>0, <2>3 DEF Acquiring
    <3>2. Acquiring'
      BY <1>0, <2>2, <2>3, <3>1 DEF Acquiring
    <3>3. QED
      BY <2>1, <3>2, SameReviewKeepsAdoption, SameRows DEF DiscoveryInv
  <2>4. CASE acquireJob' = [acquireJob EXCEPT !.status = "missing"] /\ UNCHANGED <<library, refreshing>>
    <3>1. acquireJob' = [status |-> "missing", candidate |-> acquireJob.candidate]
      BY <1>0, <2>4 DEF Acquiring
    <3>2. Acquiring'
      BY <1>0, <2>2, <2>4, <3>1 DEF Acquiring
    <3>3. QED
      BY <2>1, <3>2, SameReviewKeepsAdoption, SameRows DEF DiscoveryInv
  <2>5. QED
    BY <1>4, <2>3, <2>4 DEF AcquireDownloads
<1>5. CASE AcquireFails
  <2>1. UNCHANGED <<library, review, reviewRev, reviewLoad, loadedArtifact, groups, reviewFetch, adoption>>
    BY <1>5 DEF AcquireFails
  <2>2. acquireJob' = [status |-> "failed", candidate |-> acquireJob.candidate] /\ refreshing' = NoRefresh
    BY <1>0, <1>5 DEF AcquireFails, Acquiring
  <2>3. Acquiring'
    BY <1>0, <2>1, <2>2 DEF Acquiring, NoRefresh
  <2>4. QED
    BY <2>1, <2>3, SameReviewKeepsAdoption, SameRows DEF DiscoveryInv
<1>6. CASE RefreshReads
  <2>1. UNCHANGED <<library, acquireJob, review, reviewRev, reviewLoad, loadedArtifact, groups, reviewFetch, adoption>>
    BY <1>6 DEF RefreshReads
  <2>2. CASE refreshing.phase = "due" /\ refreshing' = [refreshing EXCEPT !.phase = "read", !.base = review]
    <3>1. refreshing' = [phase |-> "read", base |-> review, rev |-> refreshing.rev, tries |-> refreshing.tries]
      BY <1>0, <2>2, Zenon DEF Acquiring
    <3>2. refreshing'.base = review /\ acquireJob.candidate \in Candidate /\ refreshing' = [phase |-> refreshing'.phase,
              base |-> refreshing'.base, rev |-> refreshing'.rev, tries |-> refreshing'.tries]
      BY <1>0, <2>2, <3>1 DEF Acquiring
    <3>3. Acquiring'
      BY <1>0, <2>1, <3>2 DEF Acquiring, ReviewRecord
    <3>4. QED
      BY <2>1, <3>3, SameReviewKeepsAdoption, SameRows DEF DiscoveryInv
  <2>3. CASE refreshing.phase = "read" /\ refreshing' = [refreshing EXCEPT !.phase = "publish", !.rev = reviewRev]
    <3>1. refreshing' = [phase |-> "publish", base |-> refreshing.base, rev |-> reviewRev, tries |-> refreshing.tries]
      BY <1>0, <2>3, Zenon DEF Acquiring
    <3>2. refreshing'.base = refreshing.base /\ acquireJob.candidate \in Candidate /\ refreshing' = [phase |-> refreshing'.phase,
              base |-> refreshing'.base, rev |-> refreshing'.rev, tries |-> refreshing'.tries]
      BY <1>0, <2>3, <3>1 DEF Acquiring
    <3>3. Acquiring'
      BY <1>0, <2>1, <2>3, <3>2 DEF Acquiring, ReviewRecord
    <3>4. QED
      BY <2>1, <3>3, SameReviewKeepsAdoption, SameRows DEF DiscoveryInv
  <2>4. QED
    BY <1>6, <2>2, <2>3 DEF RefreshReads
<1>7. CASE RefreshPublishes
  <2>1. UNCHANGED <<library, reviewLoad, loadedArtifact, groups, reviewFetch, adoption>>
    BY <1>7 DEF RefreshPublishes
  <2>2. ReviewRecord(refreshing.base) /\ acquireJob.candidate \in Candidate
    BY <1>0, <1>7 DEF RefreshPublishes, Acquiring
  <2>3. AcquireEnds => Acquiring'
    <3>1. SUFFICES ASSUME AcquireEnds PROVE Acquiring'
      OBVIOUS
    <3>2. acquireJob' = [status |-> "succeeded", candidate |-> acquireJob.candidate] /\ refreshing' = NoRefresh
      BY <1>0, <3>1 DEF AcquireEnds, Acquiring
    <3>3. QED
      BY <1>0, <2>1, <3>2 DEF Acquiring, NoRefresh
  <2>4. CASE PublishReview(Refreshed(refreshing.base)) /\ AcquireEnds
    <3>1. ReviewRecord(Refreshed(refreshing.base))
      BY <2>2, RefreshedRecord
    <3>3. reviewRev' \in Nat /\ reviewRev' = reviewRev + 1 /\ ReviewRecord(review)'
      BY <1>0, <2>4, <3>1, PublishedReview
    <3>4. QED
      BY <2>1, <2>3, <2>4, <3>3, PublishKeepsAdoption, SameRows DEF DiscoveryInv
  <2>5. CASE refreshing' = [NoRefresh EXCEPT !.phase = "due", !.tries = 1] /\ UNCHANGED <<review, reviewRev, acquireJob>>
    <3>1. refreshing' = [phase |-> "due", base |-> NoReview, rev |-> 0, tries |-> 1]
      BY <2>5, Zenon DEF NoRefresh
    <3>2. Acquiring'
      BY <1>0, <2>1, <2>2, <2>5, <3>1 DEF Acquiring
    <3>3. QED
      BY <2>1, <2>5, <3>2, SameReviewKeepsAdoption, SameRows DEF DiscoveryInv
  <2>6. CASE AcquireEnds /\ UNCHANGED <<review, reviewRev>>
    BY <2>1, <2>3, <2>6, SameReviewKeepsAdoption, SameRows DEF DiscoveryInv
  <2>7. QED
    BY <1>7, <2>4, <2>5, <2>6 DEF RefreshPublishes
<1>8. QED
  BY <1>1, <1>2, <1>3, <1>4, <1>5, <1>6, <1>7 DEF ReviewServerNext, AcquireNext

\* Decisions change no row's kind.
LEMMA DecisionsKeepInv == ASSUME DiscoveryInv, NEW d, Decide(d) PROVE DiscoveryInv'
<1>1. UNCHANGED <<library, acquireJob, refreshing, review, reviewRev, adoption, reviewLoad, loadedArtifact, reviewFetch>>
  BY DEF Decide, reviewServerVars
<1>2. loadedArtifact # NoReview => groups' = [local |-> groups.local, decided |-> d]
  BY Zenon DEF Decide, DiscoveryInv, ShownRows, RowsRecord
<1>3. ShownRows'
  BY <1>1, <1>2 DEF DiscoveryInv, ShownRows, RowsRecord, ReviewRecord
<1>4. QED
  BY <1>1, <1>3, SameReviewKeepsAdoption, SameAcquisition DEF DiscoveryInv

\* The rows: what arrives replaces them, or keeps what is decided there.
LEMMA RowStepKeepsInv ==
    DiscoveryInv /\ (FetchReviewRows \/ ReviewArrives \/ UpdateRow \/ ApplyRecommendation \/ SelectVisible \/ ClearSelection)
        => DiscoveryInv'
<1> USE DEF rowVars, searchVars, reviewServerVars
<1>1. ASSUME DiscoveryInv, FetchReviewRows PROVE DiscoveryInv'
  <2>1. UNCHANGED <<library, acquireJob, refreshing, review, reviewRev, reviewLoad, loadedArtifact, groups, adoption>>
            /\ reviewFetch' = review
    BY <1>1 DEF FetchReviewRows
  <2>2. ShownRows'
    BY <1>1, <2>1 DEF DiscoveryInv, ShownRows, RowsRecord, ReviewRecord
  <2>3. QED
    BY <1>1, <2>1, <2>2, SameReviewKeepsAdoption, SameAcquisition DEF DiscoveryInv
<1>2. ASSUME DiscoveryInv, ReviewArrives PROVE DiscoveryInv'
  <2>1. UNCHANGED <<library, acquireJob, refreshing, review, reviewRev, adoption>> /\ reviewFetch' = NoReview
            /\ reviewFetch # NoReview
    BY <1>2 DEF ReviewArrives
  <2>2. ReviewRecord(reviewFetch) /\ reviewFetch.artifact # NoReview
    BY <1>2, <2>1, ReviewAssumption DEF DiscoveryInv, ShownRows, ReviewRecord
  <2>3. CASE reviewFetch.artifact = loadedArtifact /\ UNCHANGED <<loadedArtifact, groups>>
    BY <1>2, <2>1, <2>2, <2>3, SameReviewKeepsAdoption, SameAcquisition DEF DiscoveryInv, ShownRows, RowsRecord
  <2>4. CASE loadedArtifact' = reviewFetch.artifact /\ groups' = RowsOf(reviewFetch)
    <3>1. RowsRecord(groups)'
      BY <2>2, <2>4 DEF RowsOf, RowsRecord, ReviewRecord
    <3>2. ShownRows'
      BY <2>1, <2>2, <2>4, <3>1 DEF ShownRows
    <3>3. QED
      BY <1>2, <2>1, <3>2, SameReviewKeepsAdoption, SameAcquisition DEF DiscoveryInv
  <2>5. QED
    BY <1>2, <2>3, <2>4 DEF ReviewArrives
<1>3. ASSUME DiscoveryInv, UpdateRow \/ ApplyRecommendation \/ SelectVisible \/ ClearSelection PROVE DiscoveryInv'
  <2>1. \E d : Decide(d)
    BY <1>3, Zenon DEF UpdateRow, ApplyRecommendation, SelectVisible, ClearSelection
  <2>2. QED
    BY <1>3, <2>1, DecisionsKeepInv
<1>4. QED
  BY <1>1, <1>2, <1>3

\* Searching and acquiring, as far as the page takes part in them.
LEMMA SearchStepKeepsInv ==
    DiscoveryInv /\ (RunSearch \/ PollJobState \/ PollSearch \/ DownloadExternal \/ PollAcquire \/ WatchExpires)
        => DiscoveryInv'
<1> USE DEF rowVars, searchVars, reviewServerVars
<1>1. ASSUME DiscoveryInv, RunSearch \/ PollJobState \/ PollSearch \/ PollAcquire \/ WatchExpires PROVE DiscoveryInv'
  <2>1. UNCHANGED <<library, acquireJob, refreshing, review, reviewRev, adoption, reviewLoad, loadedArtifact, groups>>
            /\ reviewFetch' \in {reviewFetch, NoReview}
    BY <1>1 DEF RunSearch, PollJobState, PollSearch, SearchOver, PollAcquire, WatchExpires
  <2>2. QED
    BY <1>1, <2>1, SameReviewKeepsAdoption, SameRows, SameAcquisition DEF DiscoveryInv
<1>2. ASSUME DiscoveryInv, DownloadExternal PROVE DiscoveryInv'
  <2>1. UNCHANGED <<library, refreshing, review, reviewRev, adoption, reviewLoad, loadedArtifact, groups, reviewFetch>>
    BY <1>2 DEF DownloadExternal
  <2>2. PICK c \in Candidate \ (groups.local \cup library) : acquireJob' = [status |-> "active", candidate |-> c]
    BY <1>2 DEF DownloadExternal
  <2>3. Acquiring'
    BY <1>2, <2>1, <2>2 DEF DiscoveryInv, Acquiring, ReviewRecord
  <2>4. QED
    BY <1>2, <2>1, <2>3, SameReviewKeepsAdoption, SameRows DEF DiscoveryInv
<1>3. QED
  BY <1>1, <1>2

\* Rows that may be saved are the rows of the review.
LEMMA MergedRows ==
    ASSUME reviewRev \in Nat, ReviewRecord(review), NEW rows, RowsRecord(rows), MergeAccepted(rows), PublishReview(Merged(rows))
    PROVE  ReviewRecord(review)' /\ reviewRev' \in Nat /\ reviewRev' = reviewRev + 1 /\ ChosenOf(review)' = ChosenOf(rows)
<1> DEFINE d == [c \in Candidate |-> IF c \in review.local THEN rows.decided[c] ELSE "open"]
<1>1. Merged(rows) = [review EXCEPT !.decided = d]
  BY DEF Merged
<1>2. ReviewRecord(Merged(rows)) /\ Merged(rows).local = review.local /\ Merged(rows).decided = d
  <2> HIDE DEF d
  <2> QED
    BY <1>1, RecordWithField
<1>3. ReviewRecord(review)' /\ reviewRev' \in Nat /\ reviewRev' = reviewRev + 1
          /\ review'.local = review.local /\ review'.decided = d
  <2> HIDE DEF d
  <2> QED
    BY <1>2, PublishedReview
<1>4. rows.local = review.local /\ review.local \subseteq Candidate
  BY DEF MergeAccepted, RowsRecord, ReviewRecord
<1>5. \A c \in review.local : d[c] = rows.decided[c]
  BY <1>4
<1>6. ChosenOf(review)' = ChosenOf(rows)
  <2> HIDE DEF d
  <2> QED
    BY <1>3, <1>4, <1>5 DEF ChosenOf
<1>7. QED
  BY <1>3, <1>6

\* Saving and adopting.
LEMMA AdoptionStepKeepsInv ==
    DiscoveryInv /\ (KeepLocalCoverage \/ Confirm \/ ConfirmSaved \/ ConfirmAdopted) => DiscoveryInv'
<1> USE DEF rowVars, searchVars, reviewServerVars
<1>0. SUFFICES ASSUME DiscoveryInv, KeepLocalCoverage \/ Confirm \/ ConfirmSaved \/ ConfirmAdopted PROVE DiscoveryInv'
  OBVIOUS
<1>1. reviewRev \in Nat /\ ReviewRecord(review) /\ ShownRows /\ AdoptionKnown
  BY <1>0 DEF DiscoveryInv
<1>2. CASE KeepLocalCoverage
  <2>1. RowsRecord(groups) /\ MergeAccepted(groups) /\ PublishReview(Merged(groups))
    BY <1>1, <1>2 DEF KeepLocalCoverage, ShownRows, SaveAccepted
  <2>2. ReviewRecord(review)' /\ reviewRev' \in Nat /\ reviewRev' = reviewRev + 1
    BY <1>1, <2>1, MergedRows
  <2>3. UNCHANGED <<library, acquireJob, refreshing, adoption, reviewLoad, loadedArtifact, groups>> /\ reviewFetch' = NoReview
    BY <1>2 DEF KeepLocalCoverage
  <2>4. QED
    BY <1>0, <2>2, <2>3, PublishKeepsAdoption, SameRows, SameAcquisition DEF DiscoveryInv
<1>3. CASE Confirm
  <2>1. UNCHANGED <<library, acquireJob, refreshing, review, reviewRev, reviewLoad, loadedArtifact, groups, reviewFetch>>
            /\ adoption' = [phase |-> "save", rows |-> groups, rev |-> reviewLoad.rev] /\ RowsRecord(groups)
    BY <1>1, <1>3 DEF Confirm, ShownRows
  <2>2. adoption'.phase = "save" /\ adoption'.rows = groups
            /\ adoption' = [phase |-> adoption'.phase, rows |-> adoption'.rows, rev |-> adoption'.rev]
    BY <2>1
  <2>3. AdoptionKnown'
    BY <2>1, <2>2 DEF AdoptionKnown, RowsRecord
  <2>4. QED
    BY <1>0, <2>1, <2>3, SameRows, SameAcquisition DEF DiscoveryInv, ReviewRecord
<1>4. CASE ConfirmSaved
  <2>1. UNCHANGED <<library, acquireJob, refreshing, reviewLoad, loadedArtifact, groups, reviewFetch>>
    BY <1>4 DEF ConfirmSaved
  <2>2. CASE adoption' = NoReview /\ UNCHANGED <<review, reviewRev>>
    BY <1>0, <2>1, <2>2, SameRows, SameAcquisition DEF DiscoveryInv, AdoptionKnown, ReviewRecord
  <2>3. CASE /\ MergeAccepted(adoption.rows) /\ PublishReview(Merged(adoption.rows))
             /\ adoption' = [adoption EXCEPT !.phase = "confirm", !.rev = reviewRev + 1]
    <3>1. adoption = [phase |-> adoption.phase, rows |-> adoption.rows, rev |-> adoption.rev] /\ RowsRecord(adoption.rows)
      BY <1>1, <1>4 DEF ConfirmSaved, AdoptionKnown
    <3>2. ReviewRecord(review)' /\ reviewRev' \in Nat /\ reviewRev' = reviewRev + 1
              /\ ChosenOf(review)' = ChosenOf(adoption.rows)
      BY <1>1, <2>3, <3>1, MergedRows
    <3>3. adoption' = [phase |-> "confirm", rows |-> adoption.rows, rev |-> reviewRev + 1]
      BY <2>3, <3>1, Zenon
    <3>4. adoption'.rows = adoption.rows /\ adoption'.rev = reviewRev'
              /\ adoption' = [phase |-> adoption'.phase, rows |-> adoption'.rows, rev |-> adoption'.rev]
      BY <3>2, <3>3
    <3>5. ChosenOf(adoption.rows)' = ChosenOf(adoption.rows) /\ RowsRecord(adoption.rows)'
      BY <3>1, <3>4 DEF ChosenOf, RowsRecord
    <3>6. AdoptionKnown'
      BY <3>2, <3>4, <3>5 DEF AdoptionKnown
    <3>7. QED
      BY <1>0, <2>1, <3>2, <3>6, SameRows, SameAcquisition DEF DiscoveryInv
  <2>4. QED
    BY <1>4, <2>2, <2>3 DEF ConfirmSaved, SaveAccepted
<1>5. CASE ConfirmAdopted
  <2>1. UNCHANGED <<library, acquireJob, refreshing, reviewLoad, loadedArtifact, groups, reviewFetch>> /\ adoption' = NoReview
    BY <1>5 DEF ConfirmAdopted
  <2>2. reviewRev' \in Nat /\ ReviewRecord(review)'
    <3>1. CASE PublishReview(review)
      BY <1>1, <3>1, PublishedReview
    <3>2. CASE UNCHANGED <<review, reviewRev>>
      BY <1>1, <3>2 DEF ReviewRecord
    <3>3. QED
      BY <1>5, <3>1, <3>2 DEF ConfirmAdopted
  <2>3. QED
    BY <1>0, <2>1, <2>2, SameRows, SameAcquisition DEF DiscoveryInv, AdoptionKnown
<1>6. QED
  BY <1>0, <1>2, <1>3, <1>4, <1>5

LEMMA DiscoveryStepKeepsInv == DiscoveryInv /\ [DiscoveryNext]_discoveryVars => DiscoveryInv'
<1>1. ASSUME DiscoveryInv, UNCHANGED discoveryVars PROVE DiscoveryInv'
  BY <1>1, SameReviewKeepsAdoption, SameRows, SameAcquisition DEF DiscoveryInv, discoveryVars, rowVars, reviewServerVars
<1>2. QED
  BY <1>1, DiscoveryServerStep, RowStepKeepsInv, SearchStepKeepsInv, AdoptionStepKeepsInv DEF DiscoveryNext

\* Between the save and the adoption the page's revision stands for exactly
\* the rows it saved.
THEOREM SavedRowsAreKnown == DiscoverySpec => []DiscoveryInv
<1>1. QED
  BY DiscoveryInitially, DiscoveryStepKeepsInv, PTL DEF DiscoverySpec

\* The matrix takes the papers the page showed as chosen.
THEOREM AdoptedSelection == DiscoverySpec => AdoptedSelectionIsTheShownOne
<1>1. ASSUME DiscoveryInv, [DiscoveryNext]_discoveryVars, adopted' # adopted
      PROVE  adopted' = ChosenOf(adoption.rows)
  <2> USE DEF rowVars, searchVars, reviewServerVars
  <2>1. ReviewServerNext => UNCHANGED adopted
    BY DEF ReviewServerNext, AcquireNext, SaveElsewhere, SearchElsewhere, AcquireDownloads, AcquireFails, RefreshReads,
           RefreshPublishes, SearchEnds
  <2>2. FetchReviewRows \/ ReviewArrives \/ RunSearch \/ PollJobState \/ PollSearch \/ DownloadExternal
            \/ PollAcquire \/ WatchExpires \/ KeepLocalCoverage \/ Confirm \/ ConfirmSaved => UNCHANGED adopted
    BY DEF FetchReviewRows, ReviewArrives, RunSearch, PollJobState, PollSearch, DownloadExternal, PollAcquire,
           WatchExpires, KeepLocalCoverage, Confirm, ConfirmSaved
  <2>3. UpdateRow \/ ApplyRecommendation \/ SelectVisible \/ ClearSelection => UNCHANGED adopted
    BY DEF UpdateRow, ApplyRecommendation, SelectVisible, ClearSelection, Decide
  <2>4. ConfirmAdopted
    BY <1>1, <2>1, <2>2, <2>3 DEF DiscoveryNext, discoveryVars
  <2>5. adoption # NoReview /\ adoption.phase = "confirm" /\ adoption.rev = reviewRev /\ adopted' = ChosenOf(review)
    BY <1>1, <2>4 DEF ConfirmAdopted, ConfirmCurrent
  <2>6. QED
    BY <1>1, <2>5 DEF DiscoveryInv, AdoptionKnown
<1>2. DiscoveryInv /\ [DiscoveryNext]_discoveryVars =>
          [adopted' # adopted => adopted' = ChosenOf(adoption.rows)]_discoveryVars
  BY <1>1
<1>3. QED
  BY <1>2, SavedRowsAreKnown, PTL DEF DiscoverySpec, AdoptedSelectionIsTheShownOne

-----------------------------------------------------------------------------
(* ChapterRewrites: the request the page or the browser keeps is the one whose *)
(* answer is missing, but for the wishes whose stored key was replaced.        *)

Request == [wish : Nat, base : Nat, key : Int]
Task == [asked : Request, status : {"active", "succeeded", "failed"}, told : BOOLEAN]

KeyKnown(tasks, key) == \E n \in 1..Len(tasks) : tasks[n].asked.key = key

\* Outside the wishes in X a second task needs the first to be told.
TaskLog(tasks, X) ==
    /\ tasks \in Seq(Task)
    /\ \A i, j \in 1..Len(tasks) : tasks[i].asked.key = tasks[j].asked.key => i = j
    /\ \A i, j \in 1..Len(tasks) :
          i < j /\ tasks[i].asked.wish = tasks[j].asked.wish => tasks[i].told \/ tasks[i].asked.wish \in X

\* Of the wish w the one request whose answer is missing is kept, under its key.
WishKept(tasks, kept, key, w, X) ==
    \A n \in 1..Len(tasks) :
        /\ tasks[n].asked.wish <= w
        /\ tasks[n].asked.wish = w /\ ~tasks[n].told /\ w \notin X => kept = tasks[n].asked /\ tasks[n].asked.key = key

\* A request of an earlier visit is the kept one, or can make no second task.
OldFits(tasks, kept, key, w, old, X) ==
    old # NoRewrite =>
        /\ old.wish <= w
        /\ old.wish = w /\ w \notin X => (old = kept /\ old.key = key) \/ KeyKnown(tasks, old.key)
        /\ \A n \in 1..Len(tasks) :
              ~tasks[n].told /\ tasks[n].asked.wish = old.wish /\ old.wish \notin X => KeyKnown(tasks, old.key)

\* The key has a task, and no task of the wish is untold: nothing can go wrong.
Settled(tasks, key, w) ==
    /\ KeyKnown(tasks, key)
    /\ \A n \in 1..Len(tasks) : tasks[n].asked.wish = w => tasks[n].told

RewriteTyped ==
    /\ wish \in Nat /\ rewriteSteps \in Nat /\ wish <= rewriteSteps
    /\ rewriteKey \in Int /\ chapterIndex \in Nat /\ indexShown \in Nat
    /\ {submitted, rewritePost, oldRewritePost} \subseteq Request \cup {NoRewrite}
    /\ rewriteScratch \in [key : Int, submitted : Request \cup {NoRewrite}, job : Int]
    \* The key the next answer to an earlier visit brings is not in use.
    /\ rewriteKey >= -(2 * NewKey) /\ rewriteScratch.key >= -(2 * NewKey) - 1

PageIsStored == rewriteScratch.key = rewriteKey /\ rewriteScratch.submitted = submitted

RewriteInv ==
    /\ RewriteTyped
    /\ TaskLog(rewrites, rekeyedWishes)
    /\ WishKept(rewrites, submitted, rewriteKey, wish, rekeyedWishes)
    /\ OldFits(rewrites, submitted, rewriteKey, wish, oldRewritePost, rekeyedWishes)
    /\ rewritePost # NoRewrite => submitted = rewritePost /\ rewritePost.wish = wish /\ rewritePost.key = rewriteKey
    /\ \/ PageIsStored
       \/ wish \in rekeyedWishes /\ rewriteScratch.key # rewriteKey
       \/ Settled(rewrites, rewriteKey, wish)
    /\ oldRewritePost # NoRewrite => PageIsStored

LEMMA RewritesInitially == RewritesInit => RewriteInv
<1> SUFFICES ASSUME RewritesInit PROVE RewriteInv
  OBVIOUS
<1>1. rewrites \in Seq(Task) /\ Len(rewrites) = 0
  BY EmptySeq DEF RewritesInit
<1>2. /\ TaskLog(rewrites, rekeyedWishes) /\ WishKept(rewrites, submitted, rewriteKey, wish, rekeyedWishes)
      /\ OldFits(rewrites, submitted, rewriteKey, wish, oldRewritePost, rekeyedWishes)
  BY <1>1 DEF TaskLog, WishKept, OldFits, RewritesInit
<1>3. RewriteTyped /\ PageIsStored
  BY DEF RewriteTyped, PageIsStored, RewritesInit, NewKey
<1>4. QED
  BY <1>2, <1>3 DEF RewriteInv, RewritesInit

\* What a request does to the tasks: nothing to their wishes, at most one more.
Grown(tasks, new, r) ==
    /\ new \in Seq(Task) /\ Len(new) \in {Len(tasks), Len(tasks) + 1}
    /\ \A n \in 1..Len(tasks) : new[n].asked = tasks[n].asked /\ (tasks[n].told => new[n].told)
    /\ Len(new) = Len(tasks) + 1 => new[Len(new)].asked = r /\ ~KeyKnown(tasks, r.key)

LEMMA GrownLength ==
    ASSUME NEW tasks, NEW new, NEW r, NEW X, TaskLog(tasks, X), Grown(tasks, new, r)
    PROVE  /\ Len(tasks) \in Nat /\ Len(new) \in Nat /\ new \in Seq(Task) /\ 1..Len(tasks) \subseteq 1..Len(new)
           /\ \A n \in 1..Len(new) : n \in 1..Len(tasks) \/ (n = Len(tasks) + 1 /\ n = Len(new))
           /\ \A n \in 1..Len(tasks) : new[n].asked = tasks[n].asked /\ (tasks[n].told => new[n].told)
           /\ \A key : KeyKnown(tasks, key) => KeyKnown(new, key)
<1>1. Len(tasks) \in Nat /\ Len(new) \in Nat /\ new \in Seq(Task) /\ 1..Len(tasks) \subseteq 1..Len(new)
  BY DEF TaskLog, Grown
<1>2. \A n \in 1..Len(new) : n \in 1..Len(tasks) \/ (n = Len(tasks) + 1 /\ n = Len(new))
  BY <1>1 DEF Grown
<1>3. \A n \in 1..Len(tasks) : new[n].asked = tasks[n].asked /\ (tasks[n].told => new[n].told)
  BY DEF Grown
<1>4. \A key : KeyKnown(tasks, key) => KeyKnown(new, key)
  BY <1>1, <1>3 DEF KeyKnown
<1>5. QED
  BY <1>1, <1>2, <1>3, <1>4

\* A task that ends, and an answer that is told, ask for nothing new.
LEMMA SameTasksLog ==
    ASSUME NEW tasks, NEW new, NEW r, NEW kept, NEW key, NEW w, NEW old, NEW X,
           TaskLog(tasks, X), WishKept(tasks, kept, key, w, X), OldFits(tasks, kept, key, w, old, X),
           Grown(tasks, new, r), Len(new) = Len(tasks)
    PROVE  TaskLog(new, X) /\ WishKept(new, kept, key, w, X) /\ OldFits(new, kept, key, w, old, X)
<1>1. /\ new \in Seq(Task)
      /\ \A n \in 1..Len(tasks) : new[n].asked = tasks[n].asked /\ (tasks[n].told => new[n].told)
      /\ \A k : KeyKnown(tasks, k) => KeyKnown(new, k)
  BY GrownLength
<1>2. TaskLog(new, X)
  BY <1>1 DEF TaskLog
<1>3. WishKept(new, kept, key, w, X)
  BY <1>1 DEF WishKept
<1>4. OldFits(new, kept, key, w, old, X)
  BY <1>1 DEF OldFits
<1>5. QED
  BY <1>2, <1>3, <1>4

\* A request under a known key, and the end of a task, settle nothing anew.
LEMMA SettledStays ==
    ASSUME NEW tasks, NEW new, NEW r, NEW key, NEW w, NEW X, TaskLog(tasks, X), Grown(tasks, new, r),
           Settled(tasks, key, w), Len(new) = Len(tasks) \/ r.key = key
    PROVE  Settled(new, key, w)
<1>1. Len(new) = Len(tasks)
  BY DEF Grown, Settled
<1>2. QED
  BY <1>1, GrownLength DEF Settled

\* A request the page is waiting for, or has waited for, makes a task of its
\* wish only when every task of that wish is told.
LEMMA GrownLog ==
    ASSUME NEW tasks, NEW new, NEW r, NEW kept, NEW key, NEW w \in Nat, NEW old, NEW X,
           TaskLog(tasks, X), WishKept(tasks, kept, key, w, X), OldFits(tasks, kept, key, w, old, X),
           Grown(tasks, new, r),
           (r = kept /\ r.wish = w /\ r.key = key) \/ (r = old /\ old # NoRewrite), r \in Request
    PROVE  TaskLog(new, X) /\ WishKept(new, kept, key, w, X) /\ OldFits(new, kept, key, w, old, X)
<1>1. Len(tasks) \in Nat /\ Len(new) \in Nat /\ new \in Seq(Task) /\ 1..Len(tasks) \subseteq 1..Len(new)
  BY GrownLength
<1>2. \A n \in 1..Len(new) : n \in 1..Len(tasks) \/ (n = Len(tasks) + 1 /\ n = Len(new))
  BY GrownLength
<1>3. \A n \in 1..Len(tasks) : new[n].asked = tasks[n].asked /\ (tasks[n].told => new[n].told)
  BY GrownLength
<1>4. \A k : KeyKnown(tasks, k) => KeyKnown(new, k)
  BY GrownLength
<1>5. CASE Len(new) = Len(tasks)
  BY <1>5, SameTasksLog
<1>6. CASE Len(new) = Len(tasks) + 1
  <2>1. new[Len(new)].asked = r /\ ~KeyKnown(tasks, r.key) /\ Len(new) \in 1..Len(new)
    BY <1>1, <1>6 DEF Grown
  <2>2. KeyKnown(new, r.key)
    BY <2>1 DEF KeyKnown
  <2>3. \A n \in 1..Len(tasks) : tasks[n].asked.key # r.key
    BY <2>1 DEF KeyKnown
  <2>4. \A i, j \in 1..Len(new) : new[i].asked.key = new[j].asked.key => i = j
    BY <1>2, <1>3, <2>1, <2>3 DEF TaskLog
  \* An untold task of the same wish would have been the same request.
  <2>5. ASSUME NEW n \in 1..Len(tasks), tasks[n].asked.wish = r.wish, ~tasks[n].told, r.wish \notin X PROVE FALSE
    <3>1. CASE r = kept /\ r.wish = w
      BY <2>3, <2>5, <3>1 DEF WishKept
    <3>2. CASE r = old /\ old # NoRewrite
      BY <2>1, <2>5, <3>2 DEF OldFits
    <3>3. QED
      BY <3>1, <3>2
  <2>6. \A i, j \in 1..Len(new) :
            i < j /\ new[i].asked.wish = new[j].asked.wish => new[i].told \/ new[i].asked.wish \in X
    <3> SUFFICES ASSUME NEW i \in 1..Len(new), NEW j \in 1..Len(new), i < j, new[i].asked.wish = new[j].asked.wish
                 PROVE  new[i].told \/ new[i].asked.wish \in X
      OBVIOUS
    <3>1. i \in 1..Len(tasks)
      BY <1>1, <1>6
    <3>2. CASE j \in 1..Len(tasks)
      BY <1>3, <3>1, <3>2 DEF TaskLog
    <3>3. CASE j = Len(new)
      BY <1>3, <2>1, <2>5, <3>1, <3>3
    <3>4. QED
      BY <1>2, <3>2, <3>3
  <2>7. TaskLog(new, X)
    BY <1>1, <2>4, <2>6 DEF TaskLog
  <2>8. r.wish <= w /\ (r.wish = w /\ w \notin X => kept = r /\ r.key = key)
    BY <2>1 DEF OldFits
  <2>9. WishKept(new, kept, key, w, X)
    BY <1>2, <1>3, <2>1, <2>8 DEF WishKept
  <2>10. OldFits(new, kept, key, w, old, X)
    <3> SUFFICES ASSUME old # NoRewrite PROVE OldFits(new, kept, key, w, old, X)
      BY DEF OldFits
    <3>1. /\ old.wish <= w
          /\ old.wish = w /\ w \notin X => (old = kept /\ old.key = key) \/ KeyKnown(new, old.key)
      BY <1>4 DEF OldFits
    <3>2. ASSUME NEW n \in 1..Len(new), ~new[n].told, new[n].asked.wish = old.wish, old.wish \notin X
          PROVE  KeyKnown(new, old.key)
      <4>1. CASE n \in 1..Len(tasks)
        BY <1>3, <1>4, <3>2, <4>1 DEF OldFits
      <4>2. CASE n = Len(new)
        <5>1. r.wish = old.wish
          BY <2>1, <3>2, <4>2
        <5>2. CASE r = old
          BY <2>2, <5>2
        <5>3. CASE r = kept /\ r.wish = w
          BY <2>2, <3>1, <3>2, <5>1, <5>3
        <5>4. QED
          BY <5>2, <5>3
      <4>3. QED
        BY <1>2, <4>1, <4>2
    <3>3. QED
      BY <3>1, <3>2 DEF OldFits
  <2>11. QED
    BY <2>7, <2>9, <2>10
<1>7. QED
  BY <1>5, <1>6 DEF Grown

LEMMA TakenGrows ==
    ASSUME TaskLog(rewrites, rekeyedWishes), NEW r \in Request, NEW n, NEW told \in BOOLEAN, RewriteTaken(r, n, told)
    PROVE  Grown(rewrites, rewrites', r) /\ n \in 1..Len(rewrites') /\ rewrites'[n].asked = r
               /\ (told => rewrites'[n].told)
<1>1. rewrites \in Seq(Task) /\ Len(rewrites) \in Nat
  BY DEF TaskLog
<1>2. CASE n \in 1..Len(rewrites) /\ rewrites[n].asked = r /\ rewrites' = [rewrites EXCEPT ![n].told = @ \/ told]
  <2>1. rewrites[n] \in Task
    BY <1>1, <1>2
  <2>2. ASSUME NEW t \in Task PROVE [t EXCEPT !.told = t.told \/ told] \in Task
            /\ [t EXCEPT !.told = t.told \/ told].asked = t.asked
            /\ [t EXCEPT !.told = t.told \/ told].told = (t.told \/ told)
    BY Zenon DEF Task
  <2> DEFINE again == [rewrites[n] EXCEPT !.told = rewrites[n].told \/ told]
  <2>3. again \in Task /\ again.asked = r /\ again.told = (rewrites[n].told \/ told)
    <3>1. again \in Task /\ again.asked = rewrites[n].asked /\ again.told = (rewrites[n].told \/ told)
      BY <2>1, <2>2, Zenon
    <3>2. QED
      BY <1>2, <3>1
  <2>4. rewrites' = [rewrites EXCEPT ![n] = again]
    BY <1>2
  <2> HIDE DEF again
  <2>5. rewrites' \in Seq(Task) /\ Len(rewrites') = Len(rewrites) /\ rewrites'[n] = again
            /\ \A k \in 1..Len(rewrites) : k # n => rewrites'[k] = rewrites[k]
    BY <1>1, <1>2, <2>3, <2>4, ExceptSeq
  <2>6. rewrites'[n].asked = rewrites[n].asked
    BY <1>2, <2>3, <2>5
  <2>7. (rewrites[n].told => rewrites'[n].told) /\ (told => rewrites'[n].told)
    BY <2>3, <2>5, Zenon
  <2>8. \A k \in 1..Len(rewrites) : rewrites'[k].asked = rewrites[k].asked /\ (rewrites[k].told => rewrites'[k].told)
    BY <2>5, <2>6, <2>7, Zenon
  <2>9. Grown(rewrites, rewrites', r)
    BY <1>1, <2>5, <2>8 DEF Grown
  <2>10. n \in 1..Len(rewrites') /\ rewrites'[n].asked = r
    BY <1>2, <2>5, <2>6
  <2>11. QED
    BY <2>7, <2>9, <2>10, Zenon
<1>3. CASE /\ \A k \in 1..Len(rewrites) : rewrites[k].asked.key # r.key
           /\ n = Len(rewrites) + 1
           /\ rewrites' = Append(rewrites, [asked |-> r, status |-> "active", told |-> told])
  <2> DEFINE added == [asked |-> r, status |-> "active", told |-> told]
  <2>1. added \in Task /\ added.asked = r /\ added.told = told
    BY Zenon DEF Task
  <2>2. rewrites' = Append(rewrites, added)
    BY <1>3
  <2> HIDE DEF added
  <2>3. rewrites' \in Seq(Task) /\ Len(rewrites') = Len(rewrites) + 1 /\ rewrites'[Len(rewrites) + 1] = added
            /\ \A k \in 1..Len(rewrites) : rewrites'[k] = rewrites[k]
    BY <1>1, <2>1, <2>2, AppendProperties
  <2>4. told => rewrites'[n].told
    BY <1>3, <2>1, <2>3, Zenon
  <2>5. Grown(rewrites, rewrites', r)
    BY <1>1, <1>3, <2>1, <2>3 DEF Grown, KeyKnown
  <2>6. QED
    BY <1>1, <1>3, <2>1, <2>3, <2>4, <2>5
<1>4. QED
  BY <1>2, <1>3 DEF RewriteTaken

LEMMA EndGrows ==
    ASSUME TaskLog(rewrites, rekeyedWishes), RewriteEnds, NEW r
    PROVE  Grown(rewrites, rewrites', r) /\ Len(rewrites') = Len(rewrites)
<1>1. rewrites \in Seq(Task) /\ Len(rewrites) \in Nat
  BY DEF TaskLog
<1>2. PICK n \in 1..Len(rewrites), end \in {"succeeded", "failed"} : rewrites' = [rewrites EXCEPT ![n].status = end]
  BY DEF RewriteEnds
<1>3. rewrites[n] \in Task
  BY <1>1, <1>2
<1>4. ASSUME NEW t \in Task PROVE [t EXCEPT !.status = end] \in Task /\ [t EXCEPT !.status = end].asked = t.asked
          /\ [t EXCEPT !.status = end].told = t.told
  BY <1>2, Zenon DEF Task
<1> DEFINE over == [rewrites[n] EXCEPT !.status = end]
<1>5. over \in Task /\ over.asked = rewrites[n].asked /\ over.told = rewrites[n].told
  BY <1>3, <1>4, Zenon
<1>6. rewrites' = [rewrites EXCEPT ![n] = over]
  BY <1>2
<1> HIDE DEF over
<1>7. rewrites' \in Seq(Task) /\ Len(rewrites') = Len(rewrites) /\ rewrites'[n] = over
          /\ \A k \in 1..Len(rewrites) : k # n => rewrites'[k] = rewrites[k]
  BY <1>1, <1>2, <1>5, <1>6, ExceptSeq
<1>8. \A k \in 1..Len(rewrites) : rewrites'[k].asked = rewrites[k].asked /\ (rewrites[k].told => rewrites'[k].told)
  BY <1>5, <1>7, Zenon
<1>9. QED
  BY <1>1, <1>7, <1>8 DEF Grown

\* Sending: the kept request again, or one for a wish without an untold task.
LEMMA AskKeepsInv == RewriteInv /\ AskRewrite => RewriteInv'
<1> SUFFICES ASSUME RewriteInv, AskRewrite PROVE RewriteInv'
  OBVIOUS
<1> USE DEF rewriteServerVars
<1>0. RewriteTyped /\ wish \in Nat
  BY DEF RewriteInv, RewriteTyped
<1>1. SubmittedSnapshot \in Request /\ SubmittedSnapshot.wish = wish /\ SubmittedSnapshot.key = rewriteKey
  BY <1>0, RewriteAssumption DEF RewriteTyped, SubmittedSnapshot, Request
<1>2. /\ submitted' = SubmittedSnapshot /\ rewritePost' = SubmittedSnapshot /\ rewriteSteps' = rewriteSteps + 1
      /\ rewriteScratch' = [rewriteScratch EXCEPT !.submitted = SubmittedSnapshot]
      /\ UNCHANGED <<chapterIndex, rewrites, indexShown, wish, rewriteKey, rekeyedWishes, oldRewritePost>>
  BY DEF AskRewrite, RewriteStep
<1>3. submitted \in Request /\ submitted.wish = wish /\ submitted.key = rewriteKey => SubmittedSnapshot = submitted
  BY RewriteAssumption DEF SubmittedSnapshot, Request
<1>4. WishKept(rewrites, SubmittedSnapshot, rewriteKey, wish, rekeyedWishes)
  <2> SUFFICES ASSUME NEW n \in 1..Len(rewrites), rewrites[n].asked.wish = wish, ~rewrites[n].told, wish \notin rekeyedWishes
               PROVE  SubmittedSnapshot = rewrites[n].asked /\ rewrites[n].asked.key = rewriteKey
    BY DEF WishKept, RewriteInv
  <2>1. submitted = rewrites[n].asked /\ rewrites[n].asked.key = rewriteKey
    BY DEF WishKept, RewriteInv
  <2>2. rewrites[n] \in Task
    BY DEF RewriteInv, TaskLog
  <2>3. rewrites[n].asked \in Request
    BY <2>2, Zenon DEF Task
  <2>4. QED
    BY <1>3, <2>1, <2>3
<1>5. OldFits(rewrites, SubmittedSnapshot, rewriteKey, wish, oldRewritePost, rekeyedWishes)
  <2> SUFFICES ASSUME oldRewritePost # NoRewrite
               PROVE  OldFits(rewrites, SubmittedSnapshot, rewriteKey, wish, oldRewritePost, rekeyedWishes)
    BY DEF OldFits
  <2>1. oldRewritePost \in Request
    BY <1>0 DEF RewriteTyped
  <2>2. QED
    BY <1>3, <2>1 DEF OldFits, RewriteInv
<1>6. rewriteScratch'.key = rewriteScratch.key /\ rewriteScratch'.submitted = submitted'
      /\ rewriteScratch' \in [key : Int, submitted : Request \cup {NoRewrite}, job : Int]
  BY <1>0, <1>1, <1>2 DEF RewriteTyped
<1>7. RewriteTyped'
  BY <1>0, <1>1, <1>2, <1>6 DEF RewriteTyped, NewKey
<1>8. PageIsStored => PageIsStored'
  BY <1>2, <1>6 DEF PageIsStored
<1>9. QED
  BY <1>1, <1>2, <1>4, <1>5, <1>6, <1>7, <1>8, RewriteAssumption DEF RewriteInv, TaskLog, Request

\* A new wish: no task and no request is of it.
LEMMA TypeKeepsInv == RewriteInv /\ TypeWish => RewriteInv'
<1> SUFFICES ASSUME RewriteInv, TypeWish PROVE RewriteInv'
  OBVIOUS
<1> USE DEF rewriteServerVars
<1>1. /\ wish' = rewriteSteps + 1 /\ rewriteSteps' = rewriteSteps + 1
      /\ UNCHANGED <<chapterIndex, rewrites, indexShown, rewritePost, oldRewritePost>> /\ rewritePost = NoRewrite
  BY DEF TypeWish, RewriteStep, NewKey, RewriteBusy
<1>2. \/ /\ UNCHANGED <<rewriteKey, submitted, rewriteScratch>>
         /\ rekeyedWishes' = IF wish \in rekeyedWishes /\ rewriteScratch.key # rewriteKey
                             THEN rekeyedWishes \cup {wish'} ELSE rekeyedWishes
      \/ /\ rewriteKey' = rewriteSteps + 1 /\ submitted' = NoRewrite /\ UNCHANGED rekeyedWishes
         /\ rewriteScratch' = [rewriteScratch EXCEPT !.key = rewriteSteps + 1, !.submitted = NoRewrite]
  BY <1>1 DEF TypeWish, NewKey
<1>3. wish \in Nat /\ rewriteSteps \in Nat /\ wish' \in Nat /\ wish < wish' /\ RewriteTyped /\ wish' <= rewriteSteps'
  BY <1>1 DEF RewriteInv, RewriteTyped
<1>4. RewriteTyped'
  <2>1. CASE UNCHANGED <<rewriteKey, submitted, rewriteScratch>>
    BY <1>1, <1>3, <2>1 DEF RewriteTyped, NewKey
  <2>2. CASE /\ rewriteKey' = rewriteSteps + 1 /\ submitted' = NoRewrite
             /\ rewriteScratch' = [rewriteScratch EXCEPT !.key = rewriteSteps + 1, !.submitted = NoRewrite]
    <3>1. rewriteScratch' \in [key : Int, submitted : Request \cup {NoRewrite}, job : Int]
          /\ rewriteScratch'.key = rewriteSteps + 1
      <4>1. rewriteScratch' = [key |-> rewriteSteps + 1, submitted |-> NoRewrite, job |-> rewriteScratch.job]
            /\ rewriteScratch.job \in Int
        BY <1>3, <2>2 DEF RewriteTyped
      <4>2. rewriteSteps + 1 \in Int
        BY <1>3
      <4>3. QED
        BY <4>1, <4>2
    <3>2. rewriteKey' >= -(2 * NewKey') /\ rewriteScratch'.key >= -(2 * NewKey') - 1
      BY <1>1, <1>3, <2>2, <3>1 DEF NewKey
    <3>3. wish' \in Nat /\ rewriteSteps' \in Nat /\ rewriteKey' \in Int /\ submitted' = NoRewrite
      BY <1>1, <1>3, <2>2
    <3>4. QED
      BY <1>1, <1>3, <3>1, <3>2, <3>3 DEF RewriteTyped
  <2>3. QED
    BY <1>2, <2>1, <2>2
<1>5. \A n \in 1..Len(rewrites) : rewrites[n].asked.wish \in Nat
  <2> SUFFICES ASSUME NEW n \in 1..Len(rewrites) PROVE rewrites[n].asked.wish \in Nat
    OBVIOUS
  <2>1. rewrites[n] \in Task
    BY DEF RewriteInv, TaskLog
  <2>2. rewrites[n].asked \in Request
    BY <2>1, Zenon DEF Task
  <2>3. QED
    BY <2>2 DEF Request
<1>6. \A n \in 1..Len(rewrites) : rewrites[n].asked.wish <= wish' /\ rewrites[n].asked.wish # wish'
  BY <1>3, <1>5 DEF WishKept, RewriteInv
<1>7. WishKept(rewrites, submitted', rewriteKey', wish', rekeyedWishes')
  BY <1>6 DEF WishKept
<1>8. rekeyedWishes \subseteq rekeyedWishes'
  BY <1>2
<1>9. OldFits(rewrites, submitted', rewriteKey', wish', oldRewritePost, rekeyedWishes')
  <2> SUFFICES ASSUME oldRewritePost # NoRewrite
               PROVE  OldFits(rewrites, submitted', rewriteKey', wish', oldRewritePost, rekeyedWishes')
    BY DEF OldFits
  <2>1. oldRewritePost.wish \in Nat /\ oldRewritePost.wish <= wish
    BY DEF OldFits, RewriteInv, RewriteTyped, Request
  <2>2. oldRewritePost.wish <= wish' /\ oldRewritePost.wish # wish'
    BY <1>3, <2>1
  <2>3. \A n \in 1..Len(rewrites) :
            ~rewrites[n].told /\ rewrites[n].asked.wish = oldRewritePost.wish /\ oldRewritePost.wish \notin rekeyedWishes'
                => KeyKnown(rewrites, oldRewritePost.key)
    BY <1>8 DEF OldFits, RewriteInv
  <2>4. QED
    BY <2>2, <2>3 DEF OldFits
<1>10. TaskLog(rewrites, rekeyedWishes')
  BY <1>8 DEF RewriteInv, TaskLog
\* A wish that takes the key over takes over what has befallen it.
<1>11. /\ PageIsStored' \/ (wish' \in rekeyedWishes' /\ rewriteScratch'.key # rewriteKey') \/ Settled(rewrites, rewriteKey', wish')
       /\ oldRewritePost # NoRewrite => PageIsStored'
  <2>1. CASE /\ UNCHANGED <<rewriteKey, submitted, rewriteScratch>>
             /\ rekeyedWishes' = IF wish \in rekeyedWishes /\ rewriteScratch.key # rewriteKey
                                 THEN rekeyedWishes \cup {wish'} ELSE rekeyedWishes
    <3>1. PageIsStored => PageIsStored'
      BY <2>1 DEF PageIsStored
    <3>2. Settled(rewrites, rewriteKey, wish) => Settled(rewrites, rewriteKey', wish')
      BY <1>6, <2>1 DEF Settled
    <3>3. QED
      BY <2>1, <3>1, <3>2 DEF RewriteInv
  <2>2. CASE /\ rewriteKey' = rewriteSteps + 1 /\ submitted' = NoRewrite
             /\ rewriteScratch' = [rewriteScratch EXCEPT !.key = rewriteSteps + 1, !.submitted = NoRewrite]
    BY <1>3, <2>2 DEF PageIsStored, RewriteTyped
  <2>3. QED
    BY <1>2, <2>1, <2>2
<1>12. QED
  BY <1>1, <1>4, <1>7, <1>9, <1>10, <1>11 DEF RewriteInv

\* The answer to the kept request.
LEMMA AnswerKeepsInv == RewriteInv /\ RewriteAnswered => RewriteInv'
<1> SUFFICES ASSUME RewriteInv, RewriteAnswered PROVE RewriteInv'
  OBVIOUS
<1> USE DEF rewriteServerVars
<1>0. RewriteTyped /\ wish \in Nat /\ TaskLog(rewrites, rekeyedWishes) /\ rewriteSteps \in Nat
  BY DEF RewriteInv, RewriteTyped
<1>1. /\ rewritePost # NoRewrite /\ rewritePost' = NoRewrite
      /\ UNCHANGED <<chapterIndex, indexShown, wish, rekeyedWishes, oldRewritePost, rewriteSteps>>
  BY DEF RewriteAnswered
<1>2. rewritePost = submitted /\ submitted \in Request /\ submitted.wish = wish /\ submitted.key = rewriteKey
      /\ submitted # NoRewrite
  BY <1>1 DEF RewriteInv, RewriteTyped
<1>3. ASSUME Grown(rewrites, rewrites', submitted)
      PROVE  /\ TaskLog(rewrites', rekeyedWishes)
             /\ WishKept(rewrites', submitted, rewriteKey, wish, rekeyedWishes)
             /\ OldFits(rewrites', submitted, rewriteKey, wish, oldRewritePost, rekeyedWishes)
  BY <1>0, <1>2, <1>3, GrownLog DEF RewriteInv
<1>4. ASSUME NEW n \in 1..MaxRewrites, RewriteTaken(rewritePost, n, TRUE), rewriteScratch' = Answered(n, 0),
             rewriteKey' = rewriteScratch'.key, submitted' = NoRewrite
      PROVE  RewriteInv'
  <2>1. Grown(rewrites, rewrites', submitted) /\ n \in 1..Len(rewrites') /\ rewrites'[n].asked = submitted /\ rewrites'[n].told
    BY <1>0, <1>2, <1>4, TakenGrows
  <2>2. /\ TaskLog(rewrites', rekeyedWishes)
        /\ WishKept(rewrites', submitted, rewriteKey, wish, rekeyedWishes)
        /\ OldFits(rewrites', submitted, rewriteKey, wish, oldRewritePost, rekeyedWishes)
    BY <1>3, <2>1
  <2>3. ASSUME NEW k \in 1..Len(rewrites'), rewrites'[k].asked.wish = wish, ~rewrites'[k].told, wish \notin rekeyedWishes
        PROVE  FALSE
    <3>1. rewrites'[k].asked = rewrites'[n].asked
      BY <2>1, <2>2, <2>3 DEF WishKept
    <3>2. k = n
      BY <2>1, <2>2, <3>1 DEF TaskLog
    <3>3. QED
      BY <2>1, <2>3, <3>2
  <2>4. WishKept(rewrites', NoRewrite, rewriteKey', wish, rekeyedWishes)
    BY <2>2, <2>3 DEF WishKept
  <2>5. KeyKnown(rewrites', submitted.key)
    BY <2>1 DEF KeyKnown
  <2>6. OldFits(rewrites', NoRewrite, rewriteKey', wish, oldRewritePost, rekeyedWishes)
    BY <2>2, <2>5 DEF OldFits
  <2>7. rewriteScratch'.key = -(2 * NewKey) /\ rewriteScratch'.submitted = NoRewrite
        /\ rewriteScratch' \in [key : Int, submitted : Request \cup {NoRewrite}, job : Int]
    BY <1>0, <1>4 DEF Answered, NewKey
  <2>8. RewriteTyped'
    BY <1>0, <1>1, <1>4, <2>7 DEF RewriteTyped, NewKey
  <2>9. PageIsStored'
    BY <1>4, <2>7 DEF PageIsStored
  <2>10. QED
    BY <1>1, <1>4, <2>2, <2>4, <2>6, <2>8, <2>9 DEF RewriteInv
<1>5. ASSUME UNCHANGED <<submitted, rewriteKey, rewriteScratch>>, Grown(rewrites, rewrites', submitted)
      PROVE  RewriteInv'
  <2>1. RewriteTyped' /\ (PageIsStored => PageIsStored')
    BY <1>0, <1>1, <1>5 DEF RewriteTyped, NewKey, PageIsStored
  <2>2. Settled(rewrites, rewriteKey, wish) => Settled(rewrites', rewriteKey, wish)
    BY <1>0, <1>2, <1>5, SettledStays
  <2>3. QED
    BY <1>1, <1>3, <1>5, <2>1, <2>2 DEF RewriteInv
<1>6. ASSUME NEW n \in 1..MaxRewrites, RewriteTaken(rewritePost, n, FALSE) PROVE Grown(rewrites, rewrites', submitted)
  BY <1>0, <1>2, <1>6, TakenGrows
<1>7. UNCHANGED rewrites => Grown(rewrites, rewrites', submitted)
  BY <1>0 DEF Grown, TaskLog
<1>8. QED
  BY <1>4, <1>5, <1>6, <1>7 DEF RewriteAnswered

\* The answer to a request of an earlier visit: the browser gets a new key; when
\* the key it replaces is the request's own, the wish is settled.
LEMMA OldAnswerKeepsInv == RewriteInv /\ OldRewriteTaken => RewriteInv'
<1> SUFFICES ASSUME RewriteInv, OldRewriteTaken PROVE RewriteInv'
  OBVIOUS
<1>0. RewriteTyped /\ wish \in Nat /\ TaskLog(rewrites, rekeyedWishes) /\ rewriteSteps \in Nat
      /\ oldRewritePost # NoRewrite /\ oldRewritePost \in Request /\ PageIsStored
  BY DEF RewriteInv, RewriteTyped, OldRewriteTaken
<1>1. /\ oldRewritePost' = NoRewrite
      /\ UNCHANGED <<chapterIndex, indexShown, wish, rewriteKey, submitted, rewritePost, rewriteSteps>>
  BY DEF OldRewriteTaken
<1>2. ASSUME Grown(rewrites, rewrites', oldRewritePost)
      PROVE  TaskLog(rewrites', rekeyedWishes) /\ WishKept(rewrites', submitted, rewriteKey, wish, rekeyedWishes)
  BY <1>0, <1>2, GrownLog DEF RewriteInv
<1>3. OldFits(rewrites', submitted, rewriteKey, wish, NoRewrite, rekeyedWishes')
  BY DEF OldFits
<1>4. ASSUME NEW n \in 1..MaxRewrites, RewriteTaken(oldRewritePost, n, TRUE), rewriteScratch' = Answered(n, 1),
             rekeyedWishes' = IF rewriteScratch.key = oldRewritePost.key THEN rekeyedWishes
                              ELSE rekeyedWishes \cup {wish}
      PROVE  RewriteInv'
  <2>1. Grown(rewrites, rewrites', oldRewritePost) /\ n \in 1..Len(rewrites') /\ rewrites'[n].asked = oldRewritePost
        /\ rewrites'[n].told
    BY <1>0, <1>4, TakenGrows
  <2>2. TaskLog(rewrites', rekeyedWishes) /\ WishKept(rewrites', submitted, rewriteKey, wish, rekeyedWishes)
    BY <1>2, <2>1
  <2>3. TaskLog(rewrites', rekeyedWishes') /\ WishKept(rewrites', submitted, rewriteKey, wish, rekeyedWishes')
    <3>1. rekeyedWishes \subseteq rekeyedWishes'
      BY <1>4
    <3>2. QED
      BY <2>2, <3>1 DEF TaskLog, WishKept
  <2>4. rewriteScratch'.key = -(2 * NewKey) - 1
        /\ rewriteScratch' \in [key : Int, submitted : Request \cup {NoRewrite}, job : Int]
    BY <1>0, <1>4 DEF Answered, NewKey
  <2>5. RewriteTyped' /\ rewriteScratch'.key # rewriteKey
    BY <1>0, <1>1, <2>4 DEF RewriteTyped, NewKey
  <2>6. wish \notin rekeyedWishes' => Settled(rewrites', rewriteKey, wish)
    <3> SUFFICES ASSUME wish \notin rekeyedWishes' PROVE Settled(rewrites', rewriteKey, wish)
      OBVIOUS
    <3>1. rewriteKey = oldRewritePost.key /\ wish \notin rekeyedWishes
      BY <1>0, <1>4 DEF PageIsStored
    <3>2. KeyKnown(rewrites', rewriteKey)
      BY <2>1, <3>1 DEF KeyKnown
    <3>3. ASSUME NEW k \in 1..Len(rewrites'), rewrites'[k].asked.wish = wish, ~rewrites'[k].told PROVE FALSE
      <4>1. rewrites'[k].asked.key = rewrites'[n].asked.key
        BY <2>1, <2>2, <3>1, <3>3 DEF WishKept
      <4>2. k = n
        BY <2>1, <2>2, <4>1 DEF TaskLog
      <4>3. QED
        BY <2>1, <3>3, <4>2
    <3>4. QED
      BY <3>2, <3>3 DEF Settled
  <2>7. QED
    BY <1>1, <1>3, <2>3, <2>5, <2>6 DEF RewriteInv
<1>5. ASSUME UNCHANGED <<rewriteScratch, rekeyedWishes>>, Grown(rewrites, rewrites', oldRewritePost) PROVE RewriteInv'
  <2>1. RewriteTyped' /\ PageIsStored'
    BY <1>0, <1>1, <1>5 DEF RewriteTyped, NewKey, PageIsStored
  <2>2. QED
    BY <1>1, <1>2, <1>3, <1>5, <2>1 DEF RewriteInv
<1>6. ASSUME NEW n \in 1..MaxRewrites, RewriteTaken(oldRewritePost, n, FALSE) PROVE Grown(rewrites, rewrites', oldRewritePost)
  BY <1>0, <1>6, TakenGrows
<1>7. UNCHANGED rewrites => Grown(rewrites, rewrites', oldRewritePost)
  BY <1>0 DEF Grown, TaskLog
<1>8. QED
  BY <1>4, <1>5, <1>6, <1>7 DEF OldRewriteTaken

\* The next visit starts from what the browser keeps.
LEMMA LeaveKeepsInv == RewriteInv /\ LeaveChapter => RewriteInv'
<1> SUFFICES ASSUME RewriteInv, LeaveChapter PROVE RewriteInv'
  OBVIOUS
<1> USE DEF rewriteServerVars
<1>0. RewriteTyped /\ wish \in Nat /\ TaskLog(rewrites, rekeyedWishes) /\ rewriteSteps \in Nat
  BY DEF RewriteInv, RewriteTyped
<1>1. /\ UNCHANGED <<chapterIndex, rewrites, wish, rewriteScratch, rekeyedWishes>> /\ indexShown' = chapterIndex
      /\ rewritePost' = NoRewrite /\ rewriteSteps' = rewriteSteps + 1
      /\ rewriteKey' = rewriteScratch.key /\ submitted' = rewriteScratch.submitted
      /\ \/ oldRewritePost = NoRewrite /\ oldRewritePost' = rewritePost
         \/ oldRewritePost # NoRewrite /\ oldRewritePost' = oldRewritePost
  BY DEF LeaveChapter, RewriteStep
<1>2. RewriteTyped' /\ PageIsStored'
  BY <1>0, <1>1 DEF RewriteTyped, NewKey, PageIsStored
<1>3. WishKept(rewrites, submitted', rewriteKey', wish, rekeyedWishes)
  <2>1. CASE PageIsStored
    BY <1>1, <2>1 DEF PageIsStored, RewriteInv
  <2>2. CASE wish \in rekeyedWishes \/ Settled(rewrites, rewriteKey, wish)
    BY <2>2 DEF WishKept, Settled, RewriteInv
  <2>3. QED
    BY <2>1, <2>2 DEF RewriteInv
<1>4. OldFits(rewrites, submitted', rewriteKey', wish, oldRewritePost', rekeyedWishes)
  <2>1. CASE oldRewritePost # NoRewrite
    BY <1>1, <2>1 DEF PageIsStored, RewriteInv
  <2>2. CASE rewritePost # NoRewrite /\ oldRewritePost' = rewritePost
    <3>1. rewritePost = submitted /\ rewritePost.wish = wish /\ rewritePost.key = rewriteKey /\ wish <= wish
      BY <1>0, <2>2 DEF RewriteInv
    <3>2. ASSUME NEW n \in 1..Len(rewrites), ~rewrites[n].told, rewrites[n].asked.wish = wish, wish \notin rekeyedWishes
          PROVE  KeyKnown(rewrites, rewritePost.key)
      BY <3>1, <3>2 DEF RewriteInv, WishKept, KeyKnown
    <3>3. wish \notin rekeyedWishes => (rewritePost = submitted' /\ rewritePost.key = rewriteKey') \/ KeyKnown(rewrites, rewritePost.key)
      BY <1>1, <3>1 DEF RewriteInv, PageIsStored, Settled
    <3>4. QED
      BY <2>2, <3>1, <3>2, <3>3 DEF OldFits
  <2>3. CASE oldRewritePost' = NoRewrite
    BY <2>3 DEF OldFits
  <2>4. QED
    BY <1>1, <2>1, <2>2, <2>3
<1>5. QED
  BY <1>0, <1>1, <1>2, <1>3, <1>4 DEF RewriteInv

LEMMA RewriteStepKeepsInv == RewriteInv /\ [RewritesNext]_rewriteVars => RewriteInv'
<1> SUFFICES ASSUME RewriteInv, [RewritesNext]_rewriteVars PROVE RewriteInv'
  OBVIOUS
<1> USE DEF rewriteServerVars, rewriteKeptVars
<1>0. RewriteTyped /\ TaskLog(rewrites, rekeyedWishes)
  BY DEF RewriteInv
<1>1. CASE ChaptersElsewhere \/ RefreshIndex \/ WatchRewrite \/ AdoptRewrite \/ AdoptionAnswered \/ UNCHANGED rewriteVars
  <2>1. /\ UNCHANGED <<rewrites, wish, rewriteKey, submitted, rewriteScratch, rekeyedWishes, rewritePost, oldRewritePost>>
        /\ rewriteSteps' \in {rewriteSteps, rewriteSteps + 1}
        /\ chapterIndex' \in {chapterIndex, chapterIndex + 1} /\ indexShown' \in {indexShown, chapterIndex, chapterIndex'}
    BY <1>1 DEF ChaptersElsewhere, RefreshIndex, WatchRewrite, AdoptRewrite, AdoptionAnswered, RewriteStep, rewriteVars
  <2>2. RewriteTyped'
    <3>1. chapterIndex' \in Nat /\ indexShown' \in Nat
      BY <1>0, <2>1 DEF RewriteTyped
    <3>2. rewriteSteps' \in Nat /\ rewriteSteps' >= rewriteSteps /\ rewriteSteps \in Nat
      BY <1>0, <2>1 DEF RewriteTyped
    <3>3. wish' \in Nat /\ wish' <= rewriteSteps'
      BY <1>0, <2>1, <3>2 DEF RewriteTyped
    <3>4. rewriteKey' >= -(2 * NewKey') /\ rewriteScratch'.key >= -(2 * NewKey') - 1
      <4>1. rewriteKey \in Int /\ rewriteScratch.key \in Int
            /\ rewriteKey >= -(2 * (rewriteSteps + 1)) /\ rewriteScratch.key >= -(2 * (rewriteSteps + 1)) - 1
        BY <1>0 DEF RewriteTyped, NewKey
      <4>2. rewriteKey' = rewriteKey /\ rewriteScratch'.key = rewriteScratch.key
        BY <2>1
      <4>3. NewKey' = rewriteSteps' + 1
        BY DEF NewKey
      <4>4. \A a, b \in Int, m, n \in Nat :
                n >= m /\ a >= -(2 * (m + 1)) /\ b >= -(2 * (m + 1)) - 1
                    => a >= -(2 * (n + 1)) /\ b >= -(2 * (n + 1)) - 1
        OBVIOUS
      <4>5. QED
        BY <3>2, <4>1, <4>2, <4>3, <4>4, Zenon
    <3>5. QED
      BY <1>0, <2>1, <3>1, <3>2, <3>3, <3>4 DEF RewriteTyped
  <2>3. PageIsStored' <=> PageIsStored
    BY <2>1 DEF PageIsStored
  <2>4. QED
    BY <2>1, <2>2, <2>3 DEF RewriteInv
<1>2. CASE RewriteEnds
  <2>1. UNCHANGED <<chapterIndex, indexShown, wish, rewriteKey, submitted, rewriteScratch, rekeyedWishes, rewritePost,
                    oldRewritePost, rewriteSteps>>
    BY <1>2 DEF RewriteEnds
  <2>2. Grown(rewrites, rewrites', NoRewrite) /\ Len(rewrites') = Len(rewrites)
    BY <1>0, <1>2, EndGrows
  <2>3. /\ TaskLog(rewrites', rekeyedWishes)
        /\ WishKept(rewrites', submitted, rewriteKey, wish, rekeyedWishes)
        /\ OldFits(rewrites', submitted, rewriteKey, wish, oldRewritePost, rekeyedWishes)
    BY <1>0, <2>2, SameTasksLog DEF RewriteInv
  <2>4. Settled(rewrites, rewriteKey, wish) => Settled(rewrites', rewriteKey, wish)
    BY <1>0, <2>2, SettledStays
  <2>5. RewriteTyped' /\ (PageIsStored <=> PageIsStored')
    BY <1>0, <2>1 DEF RewriteTyped, NewKey, PageIsStored
  <2>6. QED
    BY <2>1, <2>3, <2>4, <2>5 DEF RewriteInv
<1>3. QED
  BY <1>1, <1>2, AskKeepsInv, TypeKeepsInv, AnswerKeepsInv, OldAnswerKeepsInv, LeaveKeepsInv DEF RewritesNext

\* Whatever the visits, keys and answers: a wish whose stored key was not
\* replaced is run again only after the browser was told of the task it has.
THEOREM RewritesRunOnce == RewritesSpec => []UnansweredRewritesRunOnce
<1>1. RewriteInv => UnansweredRewritesRunOnce
  BY DEF RewriteInv, TaskLog, UnansweredRewritesRunOnce
<1>2. QED
  BY <1>1, RewritesInitially, RewriteStepKeepsInv, PTL DEF RewritesSpec
=============================================================================
