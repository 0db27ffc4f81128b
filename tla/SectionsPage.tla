---------------------------- MODULE SectionsPage ----------------------------
(* The drafts of the sections page: their generation and the way to the images *)
(* (SectionsPage.tsx), and the status poll that finds out what was done in     *)
(* another window (useSectionStatusSync.ts). Plans and drafts are known by     *)
(* their number, the newest last.                                              *)
EXTENDS Integers, Sequences

CONSTANTS
    NoDrafts,       \* nothing loaded, nothing sent
    MaxDrafts,      \* bounds on drafts and generation jobs
    MaxDraftJobs,
    MaxDraftMoves   \* bound on what the user does

ASSUME SectionsAssumption ==
    /\ MaxDrafts \in Nat /\ MaxDraftJobs \in Nat /\ MaxDraftMoves \in Nat

VARIABLES
    drafts,         \* confirmed plan; drafts of it, completeness, revision
    draftJobs,      \* the generation jobs, the newest last
    draftsCache,    \* the sections payload of the page
    draftsFetch,    \* a sections request the server has answered half of
    shownJob,       \* the job the page was told to show, 0 for none
    polledJob,      \* what polling said of the job shown, and its number
    statusUnseen,   \* the status the poll would see is not the last it saw
    draftSend,      \* a generation request under way
    draftConfirm,   \* the revision of a confirmation under way
    sectionMoves    \* what the user has done

draftServerVars == <<drafts, draftJobs>>
draftViewVars == <<draftsCache, shownJob, polledJob>>
sectionVars == <<draftServerVars, draftViewVars, draftsFetch, statusUnseen,
                 draftSend, draftConfirm, sectionMoves>>

\* Queued and running are one status here.
Working(status) == status \in {"running", "published"}

JobIds == 1..MaxDraftJobs

SectionMove == sectionMoves < MaxDraftMoves /\ sectionMoves' = sectionMoves + 1

-----------------------------------------------------------------------------
(* The server.                                                                 *)

\* Drafts of an older plan count as none.
CurrentDrafts == drafts.out > 0

PublishDrafts(whole) ==
    drafts' = [drafts EXCEPT !.out = @ + 1, !.whole = whole, !.rev = @ + 1]

\* A job publishes what was made of the inputs it was submitted with, or fails
\* and leaves finished chapters behind.
DraftJobStep(i) ==
    /\ i \in DOMAIN draftJobs
    /\ \/ /\ draftJobs[i].status = "running" /\ drafts.out < MaxDrafts
          /\ draftJobs[i].of = drafts.plan /\ draftJobs[i].rev = drafts.rev
          /\ \E whole \in BOOLEAN : PublishDrafts(whole)
          /\ draftJobs' = [draftJobs EXCEPT ![i].status = "published"]
       \/ /\ draftJobs[i].status = "published"
          /\ draftJobs' = [draftJobs EXCEPT ![i].status = "succeeded"] /\ UNCHANGED drafts
       \/ /\ draftJobs[i].status = "running"
          /\ \E saved \in BOOLEAN :
                draftJobs' = [draftJobs EXCEPT ![i].status = "failed", ![i].saved = saved]
          /\ UNCHANGED drafts
    /\ statusUnseen' = TRUE
    /\ UNCHANGED <<draftViewVars, draftsFetch, draftSend, draftConfirm, sectionMoves>>

ActiveJobs == {i \in DOMAIN draftJobs : Working(draftJobs[i].status)}

NewJob(restart, of, rev) ==
    Append(draftJobs, [status |-> "running", of |-> of, rev |-> rev, restart |-> restart, saved |-> FALSE])

SubmitElsewhere ==
    /\ ActiveJobs = {} /\ Len(draftJobs) < MaxDraftJobs /\ drafts.plan > 0
    /\ draftJobs' = NewJob(TRUE, drafts.plan, drafts.rev)
    /\ statusUnseen' = TRUE
    /\ UNCHANGED <<drafts, draftViewVars, draftsFetch, draftSend, draftConfirm, sectionMoves>>

-----------------------------------------------------------------------------
(* The job the page shows.                                                     *)

Newest(S) == IF S = {} THEN 0 ELSE CHOOSE i \in S : \A j \in S : j <= i

\* Finished chapters are continued only for the plan they belong to.
Resumable(cache) == Newest({i \in DOMAIN cache.jobs :
                               cache.jobs[i].status = "failed" /\ cache.jobs[i].saved
                               /\ cache.jobs[i].of = cache.plan})

Displayed(cache) ==
    IF cache = NoDrafts THEN 0
    ELSE LET active == {i \in DOMAIN cache.jobs : Working(cache.jobs[i].status)}
         IN IF active # {} THEN Newest(active)
            ELSE IF cache.current THEN Len(cache.jobs) ELSE Resumable(cache)

CurrentJob(cache, shown, polled) ==
    LET id == IF shown # 0 THEN shown ELSE Displayed(cache)
    IN IF id # 0 /\ polled[1] = id THEN polled
       ELSE IF Displayed(cache) = 0 THEN <<0, "none">>
       ELSE <<Displayed(cache), cache.jobs[Displayed(cache)].status>>

JobShown == CurrentJob(draftsCache, shownJob, polledJob)

\* Faulty: an answer on its way is taken for a new one.
RerenderOnce(cache, shown, polled, stale) ==
    LET again == cache # NoDrafts /\ stale
    IN /\ shownJob' = shown /\ polledJob' = polled
       /\ draftsCache' = IF again THEN [cache EXCEPT !.due = TRUE] ELSE cache
       /\ draftsFetch' = IF cache # draftsCache THEN NoDrafts ELSE draftsFetch

\* What is marked stale is fetched again, and a request under way is given up
\* unless it is the first.
Rerender(cache, shown, polled, stale) ==
    LET now   == CurrentJob(cache, shown, polled)
        again == cache # NoDrafts /\ (stale \/ (now # JobShown /\ now[2] = "succeeded"))
    IN /\ shownJob' = shown /\ polledJob' = polled
       /\ draftsCache' = IF again THEN [cache EXCEPT !.due = TRUE] ELSE cache
       /\ draftsFetch' = IF again \/ cache # draftsCache THEN NoDrafts ELSE draftsFetch

JobSummary(i) == [status |-> draftJobs[i].status, of |-> draftJobs[i].of, saved |-> draftJobs[i].saved]

\* The server reads the drafts first, the jobs and the revision later.
FetchDrafts ==
    /\ draftsFetch = NoDrafts
    /\ draftsCache # NoDrafts => draftsCache.due
    /\ draftsFetch' = [out |-> drafts.out, plan |-> drafts.plan,
                       current |-> CurrentDrafts]
    /\ UNCHANGED <<draftServerVars, draftViewVars, statusUnseen, draftSend, draftConfirm, sectionMoves>>

DraftsArrive ==
    /\ draftsFetch # NoDrafts
    /\ Rerender([out |-> draftsFetch.out, plan |-> draftsFetch.plan,
                 current |-> draftsFetch.current, rev |-> drafts.rev, jobs |-> [i \in DOMAIN draftJobs |-> JobSummary(i)], due |-> FALSE],
                shownJob, polledJob, FALSE)
    /\ UNCHANGED <<draftServerVars, statusUnseen, draftSend, draftConfirm, sectionMoves>>

\* A job is asked for until it has ended.
PollJob ==
    /\ LET id == IF shownJob # 0 THEN shownJob ELSE Displayed(draftsCache)
       IN /\ id # 0
          /\ polledJob[1] = id => Working(polledJob[2]) /\ polledJob[2] # draftJobs[id].status
          /\ Rerender(draftsCache, shownJob, <<id, draftJobs[id].status>>, FALSE)
    /\ UNCHANGED <<draftServerVars, statusUnseen, draftSend, draftConfirm, sectionMoves>>

\* The status names the plan, the drafts and the newest job, and never repeats.
\* With one not seen before the page follows the payload again and asks for it.
PollStatus ==
    /\ statusUnseen /\ statusUnseen' = FALSE
    /\ Rerender(draftsCache, 0, polledJob, TRUE)
    /\ UNCHANGED <<draftServerVars, draftSend, draftConfirm, sectionMoves>>

-----------------------------------------------------------------------------
(* Generating the drafts.                                                      *)

CanContinue == /\ JobShown[2] = "failed"
               /\ draftJobs[JobShown[1]].saved
               /\ \A i \in DOMAIN draftsCache.jobs \cap {JobShown[1]} :
                      draftsCache.jobs[i].of = draftsCache.plan

\* What the buttons allow while the payload is shown.
MaySend(kind) ==
    /\ draftsCache # NoDrafts /\ draftSend = NoDrafts /\ ~Working(JobShown[2])
    /\ IF draftsCache.current
       THEN draftConfirm = NoDrafts /\ kind \in {"restart"} \cup {k \in {"continue"} : CanContinue}
       ELSE kind = IF CanContinue THEN "continue" ELSE "generate"

SendDrafts(kind) ==
    /\ MaySend(kind)
    /\ draftSend' = [kind |-> kind, of |-> JobShown[1], phase |-> "sent", job |-> 0]
    /\ SectionMove
    /\ UNCHANGED <<draftServerVars, draftViewVars, draftsFetch, statusUnseen, draftConfirm>>

\* The server looks whether complete drafts are there before it submits the job.
DraftsNeeded ==
    /\ draftSend # NoDrafts /\ draftSend.phase = "sent"
    /\ draftSend.kind = "restart" \/ ~(CurrentDrafts /\ drafts.whole)
    /\ draftSend' = [draftSend EXCEPT !.phase = "needed"]
    /\ UNCHANGED <<draftServerVars, draftViewVars, draftsFetch, statusUnseen, draftConfirm, sectionMoves>>

Submitted(id) == draftSend' \in {[draftSend EXCEPT !.phase = p, !.job = id] : p \in {"accepted", "lost"}}

\* A generation takes the inputs of now and joins the job that is under way; a
\* continuation takes those of its job and is refused while another runs.
Submit ==
    /\ draftSend # NoDrafts /\ draftSend.phase = "needed"
    /\ \/ /\ ActiveJobs = {} /\ Len(draftJobs) < MaxDraftJobs
          /\ draftJobs' = IF draftSend.kind = "continue"
                          THEN NewJob(FALSE, draftJobs[draftSend.of].of, draftJobs[draftSend.of].rev)
                          ELSE NewJob(draftSend.kind = "restart", drafts.plan, drafts.rev)
          /\ Submitted(Len(draftJobs) + 1)
       \/ /\ ActiveJobs # {} /\ draftSend.kind # "continue"
          /\ Submitted(Newest(ActiveJobs)) /\ UNCHANGED draftJobs
       \/ /\ ActiveJobs # {} /\ draftSend.kind = "continue"
          /\ draftSend' = [draftSend EXCEPT !.phase = "lost"] /\ UNCHANGED draftJobs
    /\ statusUnseen' = (statusUnseen \/ draftJobs' # draftJobs)
    /\ UNCHANGED <<drafts, draftViewVars, draftsFetch, draftConfirm, sectionMoves>>

\* Inputs that changed and drafts that are there already are told to the page,
\* which asks for the payload again.
SubmitRefused ==
    /\ draftSend # NoDrafts
    /\ \/ draftSend.phase = "sent" /\ draftSend.kind # "restart" /\ CurrentDrafts /\ drafts.whole
       \/ /\ draftSend.phase \in {"sent", "needed"} /\ draftSend.kind = "continue"
          /\ draftJobs[draftSend.of].of # drafts.plan \/ draftJobs[draftSend.of].rev # drafts.rev
    /\ Rerender(draftsCache, 0, polledJob, TRUE)
    /\ draftSend' = NoDrafts
    /\ UNCHANGED <<draftServerVars, statusUnseen, draftConfirm, sectionMoves>>

\* A lost answer does not imply that no job was created: the page looks for an
\* active one.
DraftsAnswered ==
    /\ draftSend # NoDrafts /\ draftSend.phase \in {"accepted", "lost"}
    /\ LET id == IF draftSend.phase = "accepted" THEN draftSend.job ELSE Newest(ActiveJobs)
       IN IF id # 0 THEN Rerender(draftsCache, id, <<id, draftJobs[id].status>>, FALSE)
          ELSE UNCHANGED <<draftViewVars, draftsFetch>>
    /\ draftSend' = NoDrafts
    /\ UNCHANGED <<draftServerVars, statusUnseen, draftConfirm, sectionMoves>>

\* Confirming leaves the page.
ConfirmDrafts ==
    /\ draftsCache # NoDrafts /\ draftsCache.current
    /\ draftSend = NoDrafts /\ draftConfirm = NoDrafts /\ ~Working(JobShown[2])
    /\ draftConfirm' = draftsCache.rev
    /\ SectionMove
    /\ UNCHANGED <<draftServerVars, draftViewVars, draftsFetch, statusUnseen, draftSend>>

DraftsConfirmed ==
    /\ draftConfirm # NoDrafts
    /\ IF CurrentDrafts /\ draftConfirm = drafts.rev
       THEN /\ drafts' = [drafts EXCEPT !.rev = @ + 1]
            /\ draftsCache' = NoDrafts /\ draftsFetch' = NoDrafts
            /\ shownJob' = 0 /\ statusUnseen' = TRUE /\ polledJob' = <<0, "none">>
       ELSE UNCHANGED <<drafts, draftViewVars, draftsFetch, statusUnseen>>
    /\ draftConfirm' = NoDrafts
    /\ UNCHANGED <<draftJobs, draftSend, sectionMoves>>

-----------------------------------------------------------------------------

SectionsInit ==
    /\ drafts \in [plan : {1}, out : {0}, whole : {FALSE}, rev : {0}]
    /\ draftJobs \in {<<>>} \cup {<<[status |-> "failed", of |-> of, rev |-> 0, restart |-> FALSE,
                                   saved |-> TRUE]>> : of \in {0, 1}}
    /\ draftsCache = NoDrafts /\ draftsFetch = NoDrafts
    /\ shownJob = 0 /\ polledJob = <<0, "none">>
    /\ statusUnseen = TRUE /\ draftSend = NoDrafts /\ draftConfirm = NoDrafts
    /\ sectionMoves = 0

SectionsNext ==
    \/ SubmitElsewhere
    \/ \E i \in JobIds : DraftJobStep(i)
    \/ FetchDrafts \/ DraftsArrive \/ PollJob \/ PollStatus
    \/ \E kind \in {"generate", "continue", "restart"} : SendDrafts(kind)
    \/ DraftsNeeded \/ Submit \/ SubmitRefused \/ DraftsAnswered
    \/ ConfirmDrafts \/ DraftsConfirmed

-----------------------------------------------------------------------------
(* Properties.                                                                 *)

\* The page comes to show what the job it shows has published, whatever the
\* status poll, the payload and the polling of the job interleave to.
GeneratedDraftsAreShown ==
    /\ draftsCache # NoDrafts /\ shownJob # 0 /\ shownJob = Len(draftJobs)
    /\ draftJobs[shownJob].status = "succeeded"
    ~> \/ draftsCache # NoDrafts /\ draftsCache.out = drafts.out
       \/ draftsCache = NoDrafts
=============================================================================
