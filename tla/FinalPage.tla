------------------------------ MODULE FinalPage ------------------------------
(* The final page (FinalPage.tsx): assembling the approved draft, by itself on *)
(* the first visit, exporting it, and following the task until its result is   *)
(* shown and downloaded, across reloads and beside other tabs. A final and an  *)
(* export are known by the state of the inputs they were made of.              *)
EXTENDS Integers, Sequences

CONSTANTS
    NoFinal,            \* nothing loaded, nothing under way
    MaxInputs,          \* bound on the changes of the draft
    MaxFinalJobs,       \* bound on the tasks
    MaxFinalMoves       \* bound on what the user does here

ASSUME FinalAssumption ==
    MaxInputs \in Nat /\ MaxFinalJobs \in Nat /\ MaxFinalMoves \in Nat

VARIABLES
    inputs,         \* server: state of the draft and what else goes into a final
    approved,       \* server: the draft is approved
    finalRev,       \* server: revision of the stage
    finals,         \* server: of which inputs the final is, of which final the export; 0 for none
    finalJobs,      \* server: the tasks, the latest last
    finalCache,     \* the answer the page shows
    finalFetch,     \* an answer of which the server has read the first half
    finalDue,       \* the answer is to be fetched
    localJob,       \* task this visit follows
    storedJob,      \* task the browser remembers
    jobSeen,        \* task and status the page saw last
    posting,        \* the request of this visit
    oldPosting,     \* a request of the visit before
    tried,          \* the first assembly has been tried in this visit
    awaited,        \* task whose file is to be downloaded
    finishing,      \* ended task for which the answer is being fetched
    downloads,      \* tasks whose download has begun in this visit
    finalMoves      \* what the user has done

finalServerVars == <<inputs, approved, finalRev, finals, finalJobs>>
finalQueryVars == <<finalCache, finalFetch, finalDue>>
finalFollowVars == <<localJob, storedJob, jobSeen, finishing, downloads>>
finalRequestVars == <<posting, oldPosting, tried, awaited>>
finalVars == <<finalServerVars, finalQueryVars, finalFollowVars, finalRequestVars, finalMoves>>

\* Queued and running are one status here.
FinalGoing == {"running", "published"}
JobNumbers == 1..Len(finalJobs)
ActiveFinal == {n \in JobNumbers : finalJobs[n].status \in FinalGoing}
FinalMove == finalMoves < MaxFinalMoves /\ finalMoves' = finalMoves + 1

-----------------------------------------------------------------------------
(* The server.                                                                 *)

InputsChange ==
    /\ inputs <= MaxInputs
    /\ inputs' = inputs + 1 /\ approved' = FALSE /\ finalRev' = finalRev + 1
    /\ UNCHANGED <<finals, finalJobs, finalQueryVars, finalFollowVars, finalRequestVars, finalMoves>>

ApproveInputs ==
    /\ ~approved /\ approved' = TRUE
    /\ UNCHANGED <<inputs, finalRev, finals, finalJobs, finalQueryVars, finalFollowVars, finalRequestVars, finalMoves>>

FinalEnded(end) == {n \in JobNumbers : finalJobs[n].status = end}

FinalIsCurrent == approved /\ finals.build = inputs

Payload(r) == [kind |-> r.kind, inputs |-> inputs, rev |-> finalRev]

\* A known key gives its task back, for the same inputs; a new task needs no
\* other of its kind, an approved draft, and to be exported a current final. A
\* task is repeated only while what it was asked for is as it was.
FinalSubmitted(r, n) ==
    \/ \E k \in JobNumbers :
          /\ finalJobs[k].key = r.key /\ finalJobs[k].asked = Payload(r)
          /\ n = k /\ UNCHANGED finalJobs
    \/ /\ \A k \in JobNumbers : finalJobs[k].key # r.key
       /\ \A k \in ActiveFinal : finalJobs[k].asked.kind # r.kind
       /\ IF r.kind = "build" THEN approved ELSE FinalIsCurrent
       /\ r.of # 0 => finalJobs[r.of].asked = Payload(r)
       /\ n = Len(finalJobs) + 1 /\ n <= MaxFinalJobs
       /\ finalJobs' = Append(finalJobs, [key |-> r.key, asked |-> Payload(r), status |-> "running", made |-> 0])

SubmittedElsewhere ==
    /\ \E kind \in {"build", "export"} :
          FinalSubmitted([kind |-> kind, key |-> <<"elsewhere", Len(finalJobs)>>, of |-> 0], Len(finalJobs) + 1)
    /\ UNCHANGED <<inputs, approved, finalRev, finals, finalQueryVars, finalFollowVars, finalRequestVars, finalMoves>>

\* Publishing needs the revision the task was made for.
JobAdvances(n) ==
    \/ /\ finalJobs[n].status = "running" /\ approved /\ finalJobs[n].asked.rev = finalRev
       /\ finals' = IF finalJobs[n].asked.kind = "build" THEN [build |-> inputs, export |-> finals.export]
                    ELSE [finals EXCEPT !.export = finals.build]
       /\ finalJobs' = [finalJobs EXCEPT ![n].status = "published", ![n].made = inputs]
       /\ finalRev' = finalRev + 1
    \/ finalJobs[n].status = "published" /\ finalJobs' = [finalJobs EXCEPT ![n].status = "succeeded"]
          /\ UNCHANGED <<finals, finalRev>>
    \/ finalJobs[n].status = "running" /\ UNCHANGED <<finals, finalRev>>
          /\ \E end \in {"failed", "cancelled"} : finalJobs' = [finalJobs EXCEPT ![n].status = end]

FinalJobStep ==
    /\ \E n \in ActiveFinal : JobAdvances(n)
    /\ UNCHANGED <<inputs, approved, finalQueryVars, finalFollowVars, finalRequestVars, finalMoves>>

-----------------------------------------------------------------------------
(* What the page shows and follows.                                            *)

Latest(cache) == IF cache = NoFinal THEN 0 ELSE cache.latest

\* The active task, else the one this visit follows, else the latest, else the
\* stored one.
FollowedJob ==
    IF finalCache # NoFinal /\ finalCache.active # 0 THEN finalCache.active
    ELSE IF localJob # 0 THEN localJob ELSE Latest(finalCache)

SeenGoing == jobSeen.id # 0 /\ jobSeen.id = FollowedJob /\ jobSeen.status \in FinalGoing
FinalBusy == posting # NoFinal \/ (finalCache # NoFinal /\ finalCache.active # 0) \/ SeenGoing

\* What a task has made is shown, or something later.
MadeIsShown(n) ==
    /\ n \in JobNumbers /\ finalCache # NoFinal
    /\ finalJobs[n].made <= IF finalJobs[n].asked.kind = "build" THEN finalCache.data.build ELSE finalCache.data.export

RefreshFinal == finalFetch' = NoFinal /\ finalDue' = TRUE

\* The server reads the artifacts first, the tasks at the end.
FetchFinal ==
    /\ finalFetch = NoFinal
    /\ finalDue \/ (finalCache # NoFinal /\ finalCache.active # 0)
    /\ finalFetch' = [build |-> finals.build, export |-> finals.export, approved |-> approved,
                      current |-> FinalIsCurrent, rev |-> finalRev]
    /\ finalDue' = FALSE
    /\ UNCHANGED <<finalServerVars, finalCache, finalFollowVars, finalRequestVars, finalMoves>>

\* A visit that follows nothing takes up what the server names. What an ended
\* task has made is downloaded when it is awaited, after the answer.
FinalArrives ==
    /\ finalFetch # NoFinal
    /\ LET active == IF ActiveFinal = {} THEN 0 ELSE CHOOSE n \in ActiveFinal : \A k \in ActiveFinal : n >= k
           named == IF active # 0 THEN active ELSE Len(finalJobs)
       IN /\ finalCache' = [data |-> finalFetch, active |-> active, latest |-> Len(finalJobs),
                            end |-> IF finalJobs = <<>> THEN "none" ELSE finalJobs[Len(finalJobs)].status,
                            kind |-> IF finalJobs = <<>> THEN "none" ELSE finalJobs[Len(finalJobs)].asked.kind]
          /\ IF localJob = 0 /\ named # 0 THEN localJob' = named /\ storedJob' = named
             ELSE UNCHANGED <<localJob, storedJob>>
    /\ finalFetch' = NoFinal
    /\ finishing' = 0
    /\ IF finishing # 0 /\ awaited = finishing /\ finishing \notin downloads
       THEN downloads' = downloads \cup {finishing} /\ awaited' = 0
       ELSE UNCHANGED <<downloads, awaited>>
    /\ UNCHANGED <<finalServerVars, finalDue, jobSeen, posting, oldPosting, tried, finalMoves>>

RefreshNever(status) == FALSE

RefreshOn(status) == status = "succeeded"

\* The task is polled while it goes on; its success has the answer fetched.
WatchFinalJob ==
    /\ FollowedJob # 0
    /\ LET seen == [id |-> FollowedJob, status |-> finalJobs[FollowedJob].status]
       IN /\ seen # jobSeen /\ jobSeen' = seen
          /\ IF RefreshOn(seen.status) THEN RefreshFinal /\ finishing' = FollowedJob
             ELSE UNCHANGED <<finalFetch, finalDue, finishing>>
    /\ UNCHANGED <<finalServerVars, finalCache, localJob, storedJob, downloads, finalRequestVars, finalMoves>>

-----------------------------------------------------------------------------
(* Requests.                                                                   *)

\* The first assembly has a key of its own for each revision.
InitialKey == <<"initial", finalCache.data.rev>>

\* Failed and cancelled attempts wait for the user, also after a reload.
AutoAssemble ==
    /\ finalCache # NoFinal /\ finalCache.data.build = 0 /\ finalCache.data.approved
    /\ ~FinalBusy /\ ~tried
    /\ ~(finalCache.kind = "build" /\ finalCache.end \in {"failed", "cancelled", "succeeded"})
    /\ tried' = TRUE
    /\ posting' = [kind |-> "build", key |-> InitialKey, of |-> 0]
    /\ UNCHANGED <<finalServerVars, finalQueryVars, finalFollowVars, oldPosting, awaited, finalMoves>>

StartFinalJob(kind) ==
    /\ finalCache # NoFinal /\ ~FinalBusy
    /\ IF kind = "build" THEN finalCache.data.approved /\ ~finalCache.data.current
       ELSE finalCache.data.current /\ finalCache.data.export # finalCache.data.build
    /\ tried' = TRUE
    /\ posting' = [kind |-> kind, key |-> <<"page", finalMoves>>, of |-> 0]
    /\ FinalMove
    /\ UNCHANGED <<finalServerVars, finalQueryVars, finalFollowVars, oldPosting, awaited>>

\* A task that ended badly is asked for again.
ResumeFinalJob ==
    /\ finalCache # NoFinal /\ posting = NoFinal /\ jobSeen.id # 0 /\ jobSeen.id = FollowedJob
    /\ jobSeen.status \in {"failed", "cancelled"}
    /\ posting' = [kind |-> finalJobs[FollowedJob].asked.kind, key |-> <<"page", finalMoves>>, of |-> FollowedJob]
    /\ FinalMove
    /\ UNCHANGED <<finalServerVars, finalQueryVars, finalFollowVars, oldPosting, tried, awaited>>

CancelFinalJob ==
    /\ SeenGoing /\ finalJobs[FollowedJob].status = "running"
    /\ finalJobs' = [finalJobs EXCEPT ![FollowedJob].status = "cancelled"]
    /\ FinalMove
    /\ UNCHANGED <<inputs, approved, finalRev, finals, finalQueryVars, finalFollowVars, finalRequestVars>>

\* Taken and answered, taken with the answer lost, or refused.
PostAnswered ==
    /\ posting # NoFinal /\ posting' = NoFinal
    /\ \/ \E n \in 1..MaxFinalJobs :
             /\ FinalSubmitted(posting, n)
             /\ localJob' = n /\ storedJob' = n
             /\ awaited' = IF posting.kind = "export" THEN n ELSE awaited
             /\ RefreshFinal
       \/ (\E n \in 1..MaxFinalJobs : FinalSubmitted(posting, n)) /\ UNCHANGED <<localJob, storedJob, awaited, finalFetch, finalDue>>
       \/ UNCHANGED <<finalJobs, localJob, storedJob, awaited, finalFetch, finalDue>>
    /\ UNCHANGED <<inputs, approved, finalRev, finals, finalCache, jobSeen, finishing, downloads, oldPosting, tried, finalMoves>>

\* A request of the visit before may still be taken.
OldPostTaken ==
    /\ oldPosting # NoFinal /\ oldPosting' = NoFinal
    /\ (\E n \in 1..MaxFinalJobs : FinalSubmitted(oldPosting, n)) \/ UNCHANGED finalJobs
    /\ UNCHANGED <<inputs, approved, finalRev, finals, finalQueryVars, finalFollowVars, posting, tried, awaited, finalMoves>>

ReloadFinalPage ==
    /\ oldPosting = NoFinal /\ oldPosting' = posting /\ posting' = NoFinal
    /\ finalCache' = NoFinal /\ RefreshFinal
    /\ localJob' = 0 /\ jobSeen' = [id |-> 0, status |-> "none"] /\ finishing' = 0 /\ downloads' = {}
    /\ tried' = FALSE /\ awaited' = 0
    /\ FinalMove
    /\ UNCHANGED <<finalServerVars, storedJob>>

-----------------------------------------------------------------------------

FinalInit ==
    /\ inputs = 1 /\ approved \in BOOLEAN /\ finalRev = 0
    /\ finals = [build |-> 0, export |-> 0] /\ finalJobs = <<>>
    /\ finalCache = NoFinal /\ finalFetch = NoFinal /\ finalDue = TRUE
    /\ localJob = 0 /\ storedJob = 0 /\ jobSeen = [id |-> 0, status |-> "none"]
    /\ posting = NoFinal /\ oldPosting = NoFinal /\ tried = FALSE
    /\ awaited = 0 /\ finishing = 0 /\ downloads = {} /\ finalMoves = 0

FinalNext ==
    \/ InputsChange \/ ApproveInputs \/ SubmittedElsewhere \/ FinalJobStep
    \/ FetchFinal \/ FinalArrives \/ WatchFinalJob
    \/ AutoAssemble \/ ResumeFinalJob \/ CancelFinalJob
    \/ \E kind \in {"build", "export"} : StartFinalJob(kind)
    \/ PostAnswered \/ OldPostTaken \/ ReloadFinalPage

-----------------------------------------------------------------------------
(* Properties.                                                                 *)

AwaitedSucceeded == awaited # 0 /\ finalJobs[awaited].status = "succeeded"

\* What the task this visit follows has made comes to be shown, although the
\* server reads the artifacts before the tasks; and a download that was asked
\* for begins when its task succeeds, unless that was seen before the answer to
\* the request, or the page is loaded again.
FinalResultsAreShown ==
    /\ \A n \in 1..MaxFinalJobs :
          (n \in FinalEnded("succeeded") /\ finalCache # NoFinal /\ localJob = n) ~> MadeIsShown(n)
    /\ AwaitedSucceeded /\ jobSeen # [id |-> awaited, status |-> "succeeded"] ~> ~AwaitedSucceeded
=============================================================================
