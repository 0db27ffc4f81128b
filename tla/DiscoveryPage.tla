--------------------------- MODULE DiscoveryPage ---------------------------
(* The discovery page (DiscoveryPage.tsx): searching, deciding which papers go *)
(* into the matrix, acquiring the full text of an external candidate and       *)
(* adopting the selection, while the server publishes reviews of its own       *)
(* (discovery.py). A search is known by its number.                            *)
EXTENDS Integers, FiniteSets

CONSTANTS
    Candidate,          \* papers a search finds
    Recommended,        \* those it recommends
    NoReview,           \* nothing loaded, nothing under way
    MaxSearches,        \* bound on the searches
    MaxReviewWrites,    \* bound on what the server publishes
    MaxReviewMoves      \* bound on what the user decides

ASSUME ReviewAssumption ==
    /\ Recommended \subseteq Candidate
    /\ NoReview \notin Nat
    /\ MaxSearches \in Nat /\ MaxReviewWrites \in Nat /\ MaxReviewMoves \in Nat

VARIABLES
    review,         \* server: the current review
    reviewRev,      \* server: revision of the stage
    library,        \* server: candidates whose paper is in the library
    searchJob,      \* server: by number, a search and the revision it expects
    acquireJob,     \* server: acquiring a candidate
    refreshing,     \* server: a refresh after an acquisition, under way
    adopted,        \* server: papers of the adopted matrix
    reviewLoad,     \* the review the query holds, with its revision
    reviewFetch,    \* a review the server has read the first half of
    reviewDue,      \* the review is to be fetched
    loadedArtifact, \* artifact the rows were taken from
    groups,         \* the rows: which are local, what is decided of them
    jobState,       \* the page's idea of the active search and whether to ask again
    searchSeen,     \* by number, the status of a search as the page knows it
    ownSearch,      \* search submitted on this page, 0 for none
    watch,          \* the acquisition the page waits for
    adoption,       \* adopting: what was shown, what was sent, how far it is
    reviewMoves     \* what the user has decided

reviewServerVars == <<review, reviewRev, library, acquireJob, refreshing>>
rowVars == <<reviewLoad, reviewFetch, reviewDue, loadedArtifact, groups>>
searchVars == <<jobState, searchSeen, ownSearch>>
discoveryVars == <<reviewServerVars, searchJob, adopted, rowVars, searchVars, watch, adoption, reviewMoves>>

SearchNumber == 1..MaxSearches
ReviewWritable == reviewRev < MaxReviewWrites
ReviewMove == reviewMoves < MaxReviewMoves /\ reviewMoves' = reviewMoves + 1

Undecided == [c \in Candidate |-> "open"]

-----------------------------------------------------------------------------
(* The server.                                                                 *)

\* Every publication is a new artifact and a new revision; a refresh names the
\* artifact it was made from, which every later save carries along.
PublishReview(new) ==
    /\ ReviewWritable
    /\ reviewRev' = reviewRev + 1
    /\ review' = [new EXCEPT !.artifact = reviewRev + 1]

\* The rows that may be saved are those of the current review: a row sent as
\* external that is local by now refuses the whole.
MergeAccepted(rows) == review.local \subseteq rows.local /\ (Candidate \ review.local) \subseteq (Candidate \ rows.local)

SaveAccepted(rows, rev) == rev = reviewRev /\ MergeAccepted(rows)

Merged(rows) == [review EXCEPT !.decided = [c \in Candidate |->
                     IF c \in review.local THEN rows.decided[c] ELSE "open"]]

ChosenOf(r) == {c \in r.local : r.decided[c] = "in"}

\* Another tab saves its rows.
SaveElsewhere ==
    /\ review # NoReview
    /\ \E c \in review.local, choice \in {"in", "out"} : PublishReview([review EXCEPT !.decided[c] = choice])
    /\ UNCHANGED <<library, acquireJob, refreshing, searchJob, adopted, rowVars, searchVars, watch, adoption, reviewMoves>>

ActiveSearches == {n \in SearchNumber : searchJob[n].status = "active"}
NewSearch == {n \in SearchNumber : searchJob[n].status = "none" /\ \A k \in 1..(n - 1) : searchJob[k].status # "none"}

SearchStarts(n) ==
    /\ ActiveSearches = {} /\ n \in NewSearch
    /\ searchJob' = [searchJob EXCEPT ![n] = [status |-> "active", rev |-> reviewRev]]

SearchElsewhere ==
    /\ \E n \in SearchNumber : SearchStarts(n)
    /\ UNCHANGED <<reviewServerVars, adopted, rowVars, searchVars, watch, adoption, reviewMoves>>

\* The result of a search replaces the review unless that has changed since.
SearchEnds(n) ==
    /\ searchJob[n].status = "active"
    /\ \/ /\ searchJob[n].rev = reviewRev
          /\ PublishReview([artifact |-> 0, source |-> 0, search |-> n, local |-> library, decided |-> Undecided])
          /\ searchJob' = [searchJob EXCEPT ![n].status = "succeeded"]
       \/ /\ searchJob' = [searchJob EXCEPT ![n].status = "failed"]
          /\ UNCHANGED <<review, reviewRev>>
    /\ UNCHANGED <<library, acquireJob, refreshing, adopted, rowVars, searchVars, watch, adoption, reviewMoves>>

NoRefresh == [phase |-> "none", base |-> NoReview, rev |-> 0, tries |-> 0]

\* The job puts the paper into the library, finds none, or fails somewhere on
\* the way.
AcquireDownloads ==
    /\ acquireJob.status = "active" /\ refreshing.phase = "none"
    /\ \/ /\ library' = library \cup {acquireJob.candidate}
          /\ refreshing' = [refreshing EXCEPT !.phase = "due"]
          /\ UNCHANGED acquireJob
       \/ /\ acquireJob' = [acquireJob EXCEPT !.status = "missing"]
          /\ UNCHANGED <<library, refreshing>>
    /\ UNCHANGED <<review, reviewRev, searchJob, adopted, rowVars, searchVars, watch, adoption, reviewMoves>>

AcquireFails ==
    /\ acquireJob.status = "active"
    /\ acquireJob' = [acquireJob EXCEPT !.status = "failed"] /\ refreshing' = NoRefresh
    /\ UNCHANGED <<review, reviewRev, library, searchJob, adopted, rowVars, searchVars, watch, adoption, reviewMoves>>

\* Before it ends the review is read, then its revision; the candidate becomes
\* a local row that is not chosen.
RefreshReads ==
    /\ \/ refreshing.phase = "due" /\ refreshing' = [refreshing EXCEPT !.phase = "read", !.base = review]
       \/ refreshing.phase = "read" /\ refreshing' = [refreshing EXCEPT !.phase = "publish", !.rev = reviewRev]
    /\ UNCHANGED <<review, reviewRev, library, acquireJob, searchJob, adopted, rowVars, searchVars, watch,
                   adoption, reviewMoves>>

Refreshed(base) == [base EXCEPT !.local = @ \cup {acquireJob.candidate}, !.source = base.artifact]

AcquireEnds == acquireJob' = [acquireJob EXCEPT !.status = "succeeded"] /\ refreshing' = NoRefresh

\* A revision that has changed since has the refresh done once more; whatever
\* becomes of it, the job ends well.
RefreshPublishes ==
    /\ refreshing.phase = "publish"
    /\ LET wanted == acquireJob.candidate \notin refreshing.base.local
           current == refreshing.rev = reviewRev
       IN \/ wanted /\ current /\ PublishReview(Refreshed(refreshing.base)) /\ AcquireEnds
          \/ /\ wanted /\ ~current /\ refreshing.tries = 0
             /\ refreshing' = [NoRefresh EXCEPT !.phase = "due", !.tries = 1]
             /\ UNCHANGED <<review, reviewRev, acquireJob>>
          \/ /\ ~(wanted /\ current) /\ (wanted => refreshing.tries = 1)
             /\ AcquireEnds /\ UNCHANGED <<review, reviewRev>>
    /\ UNCHANGED <<library, searchJob, adopted, rowVars, searchVars, watch, adoption, reviewMoves>>

-----------------------------------------------------------------------------
(* The rows.                                                                   *)

\* The server reads the review first and its revision when it answers.
FetchReviewRows ==
    /\ reviewDue /\ reviewFetch = NoReview /\ review # NoReview
    /\ reviewFetch' = review /\ reviewDue' = FALSE
    /\ UNCHANGED <<reviewServerVars, searchJob, adopted, reviewLoad, loadedArtifact, groups, searchVars, watch,
                   adoption, reviewMoves>>

\* A refresh of what the page shows keeps what the user has decided there.
RowsOf(new) ==
    [local |-> new.local,
     decided |-> [c \in Candidate |-> IF new.source = loadedArtifact /\ c \in groups.local \cap new.local
                                      THEN groups.decided[c] ELSE new.decided[c]]]

\* The watch ends with the first revision after the one it began at, or with
\* what the page knows of the job; a job that ended well is looked after.
Watched(rev) ==
    IF watch = NoReview THEN NoReview
    ELSE IF watch.status \in {"failed", "missing"} \/ rev > watch.rev THEN NoReview ELSE watch

ReviewArrives ==
    /\ reviewFetch # NoReview
    /\ reviewLoad' = [rev |-> reviewRev, search |-> reviewFetch.search]
    /\ IF reviewFetch.artifact = loadedArtifact THEN UNCHANGED <<loadedArtifact, groups>>
       ELSE loadedArtifact' = reviewFetch.artifact /\ groups' = RowsOf(reviewFetch)
    /\ watch' = Watched(reviewRev)
    /\ reviewFetch' = NoReview
    /\ UNCHANGED <<reviewServerVars, searchJob, adopted, reviewDue, searchVars, adoption, reviewMoves>>

Decide(decided) ==
    /\ groups # NoReview
    /\ groups' = [groups EXCEPT !.decided = decided]
    /\ ReviewMove
    /\ UNCHANGED <<reviewServerVars, searchJob, adopted, reviewLoad, reviewFetch, reviewDue, loadedArtifact,
                   searchVars, watch, adoption>>

UpdateRow ==
    \E c \in Candidate, choice \in {"in", "out", "open"} :
        /\ groups # NoReview /\ c \in groups.local /\ choice # groups.decided[c]
        /\ Decide([groups.decided EXCEPT ![c] = choice])

\* Papers chosen instead of the present ones, or besides them.
SetSelected(ids, mode) ==
    [c \in Candidate |-> IF c \in ids THEN "in"
                         ELSE IF mode = "replace" /\ groups.decided[c] = "in" THEN "open"
                         ELSE groups.decided[c]]

RecommendedIds == {c \in groups.local \cap Recommended : groups.decided[c] # "out"}
VisibleIds == {c \in groups.local : groups.decided[c] # "out"}

ApplyRecommendation == groups # NoReview /\ RecommendedIds # {} /\ Decide(SetSelected(RecommendedIds, "replace"))
SelectVisible == groups # NoReview /\ VisibleIds # {} /\ Decide(SetSelected(VisibleIds, "add"))
ClearSelection == groups # NoReview /\ ChosenOf(groups) # {} /\ Decide(SetSelected({}, "replace"))

-----------------------------------------------------------------------------
(* Searching.                                                                  *)

CurrentSearch == IF jobState.active # 0 THEN jobState.active ELSE ownSearch

SearchActive(n) == n # 0 /\ searchSeen[n] = "active"

RunSearch ==
    /\ jobState.active = 0 /\ ~SearchActive(CurrentSearch)
    /\ \E n \in SearchNumber :
          /\ SearchStarts(n)
          /\ ownSearch' = n
    /\ jobState' = [jobState EXCEPT !.due = TRUE]
    /\ UNCHANGED <<reviewServerVars, adopted, rowVars, searchSeen, watch, adoption, reviewMoves>>

\* The active search is asked for again while there is one.
PollJobState ==
    /\ jobState.due \/ jobState.active # 0
    /\ jobState' = [active |-> IF ActiveSearches = {} THEN 0 ELSE CHOOSE n \in ActiveSearches : TRUE,
                    due |-> FALSE]
    /\ UNCHANGED <<reviewServerVars, searchJob, adopted, rowVars, searchSeen, ownSearch, watch, adoption, reviewMoves>>

SearchOverKeepsFetch(status) ==
    IF status = "active" THEN UNCHANGED <<reviewFetch, reviewDue, jobState>>
    ELSE UNCHANGED reviewFetch /\ reviewDue' = (reviewDue \/ reviewFetch = NoReview) /\ jobState' = [jobState EXCEPT !.due = TRUE]

\* A search seen ended has everything fetched again, also what is on its way.
SearchOver(status) ==
    IF status = "active" THEN UNCHANGED <<reviewFetch, reviewDue, jobState>>
    ELSE reviewFetch' = NoReview /\ reviewDue' = TRUE /\ jobState' = [jobState EXCEPT !.due = TRUE]

PollSearch ==
    /\ CurrentSearch # 0 /\ searchSeen[CurrentSearch] \in {"none", "active"}
    /\ searchSeen[CurrentSearch] # searchJob[CurrentSearch].status
    /\ searchSeen' = [searchSeen EXCEPT ![CurrentSearch] = searchJob[CurrentSearch].status]
    /\ SearchOver(searchJob[CurrentSearch].status)
    /\ UNCHANGED <<reviewServerVars, searchJob, adopted, reviewLoad, loadedArtifact, groups, ownSearch, watch,
                   adoption, reviewMoves>>

-----------------------------------------------------------------------------
(* Acquiring the full text of an external candidate.                           *)

DownloadExternal ==
    /\ reviewLoad # NoReview /\ watch = NoReview
    /\ acquireJob.status # "active" /\ reviewLoad.rev = reviewRev
    /\ \E c \in Candidate \ (groups.local \cup library) :
          acquireJob' = [status |-> "active", candidate |-> c]
    /\ watch' = [rev |-> reviewLoad.rev, status |-> "active"]
    /\ ReviewMove
    /\ UNCHANGED <<review, reviewRev, library, refreshing, searchJob, adopted, rowVars, searchVars, adoption>>

\* What the job has come to; without a paper the watch ends at once, and as
\* long as there is one to come the review is fetched again and again.
PollAcquire ==
    /\ watch # NoReview
    /\ \/ /\ watch.status = "active" /\ acquireJob.status # "active"
          /\ watch' = IF acquireJob.status = "succeeded" /\ reviewLoad.rev <= watch.rev
                      THEN [watch EXCEPT !.status = "succeeded"] ELSE NoReview
       \/ watch.status = "succeeded" /\ UNCHANGED watch
    /\ ~reviewDue /\ reviewFetch = NoReview /\ reviewDue' = TRUE
    /\ UNCHANGED <<reviewServerVars, searchJob, adopted, reviewLoad, reviewFetch, loadedArtifact, groups, searchVars,
                   adoption, reviewMoves>>

\* Three minutes are enough.
WatchOver == watch.status = "succeeded"

WatchExpires ==
    /\ watch # NoReview /\ WatchOver
    /\ watch' = NoReview
    /\ UNCHANGED <<reviewServerVars, searchJob, adopted, rowVars, searchVars, adoption, reviewMoves>>

-----------------------------------------------------------------------------
(* Saving and adopting.                                                        *)

KeepLocalCoverage ==
    /\ reviewLoad # NoReview /\ SaveAccepted(groups, reviewLoad.rev)
    /\ PublishReview(Merged(groups))
    /\ reviewDue' = TRUE /\ reviewFetch' = NoReview
    /\ ReviewMove
    /\ UNCHANGED <<library, acquireJob, refreshing, searchJob, adopted, reviewLoad, loadedArtifact, groups, searchVars,
                   watch, adoption>>

Confirm ==
    /\ reviewLoad # NoReview /\ adoption = NoReview /\ ChosenOf(groups) # {}
    /\ adoption' = [phase |-> "save", rows |-> groups, rev |-> reviewLoad.rev]
    /\ UNCHANGED <<reviewServerVars, searchJob, adopted, rowVars, searchVars, watch, reviewMoves>>

\* The rows are saved first; either request may be refused or get lost.
ConfirmSaved ==
    /\ adoption # NoReview /\ adoption.phase = "save"
    /\ \/ /\ SaveAccepted(adoption.rows, adoption.rev)
          /\ PublishReview(Merged(adoption.rows))
          /\ adoption' = [adoption EXCEPT !.phase = "confirm", !.rev = reviewRev + 1]
       \/ adoption' = NoReview /\ UNCHANGED <<review, reviewRev>>
    /\ UNCHANGED <<library, acquireJob, refreshing, searchJob, adopted, rowVars, searchVars, watch, reviewMoves>>

ConfirmCurrentUnchecked == TRUE

\* What is adopted is what is current, under the revision of the save.
ConfirmCurrent == adoption.rev = reviewRev

ConfirmAdopted ==
    /\ adoption # NoReview /\ adoption.phase = "confirm"
    /\ \/ ConfirmCurrent /\ adopted' = ChosenOf(review) /\ PublishReview(review)
       \/ UNCHANGED <<adopted, review, reviewRev>>
    /\ adoption' = NoReview
    /\ UNCHANGED <<library, acquireJob, refreshing, searchJob, rowVars, searchVars, watch, reviewMoves>>

-----------------------------------------------------------------------------

DiscoveryInit ==
    /\ library = {c \in Candidate : c \in Recommended}
    /\ review = [artifact |-> 0, source |-> 0, search |-> 0, local |-> library, decided |-> Undecided]
    /\ reviewRev = 0 /\ adopted = {}
    /\ searchJob = [n \in SearchNumber |-> [status |-> "none", rev |-> 0]]
    /\ acquireJob = [status |-> "none", candidate |-> NoReview]
    /\ refreshing = NoRefresh
    /\ reviewLoad = NoReview /\ reviewFetch = NoReview /\ reviewDue = TRUE
    /\ loadedArtifact = NoReview /\ groups = NoReview
    /\ jobState = [active |-> 0, due |-> TRUE] /\ ownSearch = 0
    /\ searchSeen = [n \in SearchNumber |-> "none"]
    /\ watch = NoReview /\ adoption = NoReview /\ reviewMoves = 0

AcquireNext == AcquireDownloads \/ AcquireFails \/ RefreshReads \/ RefreshPublishes

ReviewServerNext ==
    \/ SaveElsewhere \/ SearchElsewhere \/ AcquireNext
    \/ \E n \in SearchNumber : SearchEnds(n)

DiscoveryNext ==
    \/ ReviewServerNext
    \/ FetchReviewRows \/ ReviewArrives
    \/ UpdateRow \/ ApplyRecommendation \/ SelectVisible \/ ClearSelection
    \/ RunSearch \/ PollJobState \/ PollSearch
    \/ DownloadExternal \/ PollAcquire \/ WatchExpires
    \/ KeepLocalCoverage \/ Confirm \/ ConfirmSaved \/ ConfirmAdopted

DiscoverySpec == DiscoveryInit /\ [][DiscoveryNext]_discoveryVars

-----------------------------------------------------------------------------
(* Properties.                                                                 *)

\* What is adopted is what the page showed as chosen when the user pressed the
\* button: saves, refreshes and searches that come between the two requests
\* never slip their rows into the matrix.
AdoptedSelectionIsTheShownOne ==
    [][adopted' # adopted => adopted' = ChosenOf(adoption.rows)]_discoveryVars

\* The result of a search this page submitted comes to be shown without a
\* reload, whichever of the two polls sees its end first, unless a refresh that
\* had read the review before puts that one back.
SubmittedSearchesAreShown ==
    \A n \in SearchNumber :
        ownSearch = n /\ searchJob[n].status = "succeeded"
            ~> review.search < n \/ (reviewLoad # NoReview /\ reviewLoad.search >= n)
=============================================================================
