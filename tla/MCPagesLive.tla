---------------------------- MODULE MCPagesLive ----------------------------
(* Small instances of the pages that poll, stream and refetch, with what may   *)
(* be expected of them: queries that are due are sent, what was sent is        *)
(* answered, what is polled is polled again. The user owes nothing. As in      *)
(* MCPages, a behaviour stays on the page it starts on.                        *)
EXTENDS PlanningPage, SectionsPage, LibraryUploads, DiscoveryPage, ChapterDialogue, FinalPage

CONSTANTS
    Pages,              \* the pages of this instance
    pa, p1, p2

VARIABLE page

pagesVars == <<page, planVars, sectionVars, uploadVars, discoveryVars, dialogueVars, finalVars>>

\* Pages that are not shown start in one state.
PagesInit ==
    /\ page \in Pages
    /\ PlanInit /\ SectionsInit /\ UploadsInit /\ DiscoveryInit /\ DialogueInit /\ FinalInit
    /\ page # "planning" => planServer = [rev |-> 0, outline |-> 1, papers |-> [p \in ReadPaper |-> "pending"]]
    \* The page of the sections starts with a job that failed.
    /\ IF page = "sections" THEN Len(draftJobs) = 1 ELSE draftJobs = <<>>
    /\ page # "final" => approved

On(p) == page = p /\ UNCHANGED page

Still(p, v) == IF page = p THEN TRUE ELSE UNCHANGED v

OthersStill ==
    /\ Still("planning", planVars) /\ Still("sections", sectionVars)
    /\ Still("uploads", uploadVars) /\ Still("discovery", discoveryVars)
    /\ Still("dialogue", dialogueVars) /\ Still("final", finalVars)

PagesNext ==
    \/ On("planning") /\ OthersStill /\ PlanNext
    \/ On("sections") /\ OthersStill /\ SectionsNext
    \/ On("uploads") /\ OthersStill /\ UploadsNext
    \/ On("discovery") /\ OthersStill /\ DiscoveryNext
    \/ On("dialogue") /\ OthersStill /\ DialogueNext
    \/ On("final") /\ OthersStill /\ FinalNext

-----------------------------------------------------------------------------
(* A behaviour stays on its page, so a page's own variables are enough of a    *)
(* subscript.                                                                  *)

PlanningFairness ==
    /\ WF_planVars(page = "planning" /\ FetchPlanning)
    /\ WF_planVars(page = "planning" /\ PlanningArrives)

SectionsFairness ==
    /\ WF_sectionVars(page = "sections" /\ FetchDrafts)
    /\ WF_sectionVars(page = "sections" /\ DraftsArrive)
    /\ WF_sectionVars(page = "sections" /\ PollJob)
    /\ WF_sectionVars(page = "sections" /\ PollStatus)

UploadsFairness ==
    /\ WF_uploadVars(page = "uploads" /\ TransferNext)
    /\ WF_uploadVars(page = "uploads" /\ PollUploads)
    /\ WF_uploadVars(page = "uploads" /\ ParseUpload)
    /\ WF_uploadVars(page = "uploads" /\ RefreshLibrary)
    /\ WF_uploadVars(page = "uploads" /\ BatchCancelled)

DiscoveryFairness ==
    /\ WF_discoveryVars(page = "discovery" /\ FetchReviewRows)
    /\ WF_discoveryVars(page = "discovery" /\ ReviewArrives)
    /\ WF_discoveryVars(page = "discovery" /\ PollJobState)
    /\ WF_discoveryVars(page = "discovery" /\ PollSearch)

\* Every connection of the stream begins with the present state.
DialogueFairness ==
    /\ WF_dialogueVars(page = "dialogue" /\ PollHistory)
    /\ WF_dialogueVars(page = "dialogue" /\ ReadReplies)
    /\ SF_dialogueVars(page = "dialogue" /\ StreamSnapshot)

FinalFairness ==
    /\ WF_finalVars(page = "final" /\ FetchFinal)
    /\ WF_finalVars(page = "final" /\ FinalArrives)
    /\ WF_finalVars(page = "final" /\ WatchFinalJob)

PagesLiveSpec ==
    /\ PagesInit /\ [][PagesNext]_pagesVars
    /\ PlanningFairness /\ SectionsFairness /\ UploadsFairness
    /\ DiscoveryFairness /\ DialogueFairness /\ FinalFairness
=============================================================================
