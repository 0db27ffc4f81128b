--------------------------- MODULE ChapterRewrites ---------------------------
(* Rewriting a whole chapter (ChapterRewrite.tsx): the wish, the key of the    *)
(* request, what was submitted last and the task are kept in the browser; the  *)
(* candidate is adopted only into the chapters it was made from.               *)
EXTENDS Integers, Sequences

CONSTANTS
    NoRewrite,          \* nothing submitted, nothing under way
    MaxRewrites,        \* bound on the tasks
    MaxChapterIndexes,  \* bound on the versions of the chapters
    MaxRewriteSteps     \* bound on what the user does, here and elsewhere

ASSUME RewriteAssumption ==
    /\ MaxRewrites \in Nat /\ MaxChapterIndexes \in Nat /\ MaxRewriteSteps \in Nat
    /\ NoRewrite \notin [wish : Nat, base : Nat, key : Int]

VARIABLES
    chapterIndex,       \* server: version of the chapters
    adoptedNow,         \* server: the rewrite the chapters were adopted from
    rewrites,           \* server: the tasks
    indexShown,         \* version the page shows
    wish,               \* the message, by number; kept in the browser
    rewriteKey,         \* key of the next request
    submitted,          \* the request sent last and not answered
    rewriteJob,         \* the task followed
    rewriteScratch,     \* these three as the browser keeps them for the next visit
    rekeyedWishes,      \* wishes whose stored key the answer to another request has replaced
    rewriteSeen,        \* its status as the page saw it last
    rewritePost,        \* the request under way
    oldRewritePost,     \* a request of an earlier visit, still to be taken
    rewriteFailed,      \* the last request of this visit failed
    adopting,           \* the adoption: none, under way, done
    rewriteSteps        \* what the user has done, here and elsewhere

rewriteServerVars == <<chapterIndex, adoptedNow, rewrites>>
rewriteKeptVars == <<wish, rewriteKey, submitted, rewriteJob, rewriteScratch, rekeyedWishes>>
rewriteVars == <<rewriteServerVars, indexShown, rewriteKeptVars, rewriteSeen, rewritePost,
                 oldRewritePost, rewriteFailed, adopting, rewriteSteps>>

RewriteStep == rewriteSteps < MaxRewriteSteps /\ rewriteSteps' = rewriteSteps + 1
NewKey == rewriteSteps + 1

\* What an answer stores: its task, no request, a new key. An answer of this
\* visit (0) and one of an earlier visit (1) draw different keys.
Answered(n, visit) == [key |-> -(2 * NewKey) - visit, submitted |-> NoRewrite, job |-> n]

-----------------------------------------------------------------------------
(* The server.                                                                 *)

ChaptersElsewhere ==
    /\ chapterIndex < MaxChapterIndexes
    /\ chapterIndex' = chapterIndex + 1 /\ adoptedNow' = 0
    /\ RewriteStep
    /\ UNCHANGED <<rewrites, indexShown, rewriteKeptVars, rewriteSeen, rewritePost, oldRewritePost, rewriteFailed, adopting>>

\* A known key gives its task back, for the same wish and version; a new task
\* needs the present version and no other task. The page is told, or not.
RewriteTaken(r, n, told) ==
    \/ /\ n \in 1..Len(rewrites) /\ rewrites[n].asked = r
       /\ rewrites' = [rewrites EXCEPT ![n].told = @ \/ told]
    \/ /\ \A k \in 1..Len(rewrites) : rewrites[k].asked.key # r.key /\ rewrites[k].status # "active"
       /\ r.base = chapterIndex
       /\ n = Len(rewrites) + 1 /\ n <= MaxRewrites
       /\ rewrites' = Append(rewrites, [asked |-> r, status |-> "active", told |-> told])

\* A candidate is published only while the chapters are what they were.
RewriteEnds ==
    /\ \E n \in 1..Len(rewrites), end \in {"succeeded", "failed"} :
          /\ rewrites[n].status = "active"
          /\ end = "succeeded" => rewrites[n].asked.base = chapterIndex
          /\ rewrites' = [rewrites EXCEPT ![n].status = end]
    /\ UNCHANGED <<chapterIndex, adoptedNow, indexShown, rewriteKeptVars, rewriteSeen, rewritePost,
                   oldRewritePost, rewriteFailed, adopting, rewriteSteps>>

-----------------------------------------------------------------------------
(* The page.                                                                   *)

RefreshIndex ==
    /\ indexShown # chapterIndex /\ indexShown' = chapterIndex
    /\ UNCHANGED <<rewriteServerVars, rewriteKeptVars, rewriteSeen, rewritePost, oldRewritePost, rewriteFailed, adopting, rewriteSteps>>

RewriteBusy == rewritePost # NoRewrite \/ adopting = "sent" \/ rewriteSeen = "active"

\* A new wish has a key of its own, unless the request before it failed: then
\* it takes the key over, and what has befallen it in the browser.
TypeWish ==
    /\ ~RewriteBusy
    /\ wish' = NewKey
    /\ IF rewriteFailed
       THEN /\ UNCHANGED <<rewriteKey, submitted, rewriteScratch>>
            /\ rekeyedWishes' = IF wish \in rekeyedWishes /\ rewriteScratch.key # rewriteKey
                                THEN rekeyedWishes \cup {NewKey} ELSE rekeyedWishes
       ELSE /\ rewriteKey' = NewKey /\ submitted' = NoRewrite
            /\ rewriteScratch' = [rewriteScratch EXCEPT !.key = NewKey, !.submitted = NoRewrite]
            /\ UNCHANGED rekeyedWishes
    /\ RewriteStep
    /\ UNCHANGED <<rewriteServerVars, indexShown, rewriteJob, rewriteSeen, rewritePost, oldRewritePost, rewriteFailed, adopting>>

SnapshotAfresh == [wish |-> wish, base |-> indexShown, key |-> NewKey]

\* What was submitted with this wish and key is sent again as it was.
SubmittedSnapshot ==
    IF submitted # NoRewrite /\ submitted.wish = wish /\ submitted.key = rewriteKey THEN submitted
    ELSE [wish |-> wish, base |-> indexShown, key |-> rewriteKey]

AskRewrite ==
    /\ ~RewriteBusy /\ wish # 0
    /\ submitted' = SubmittedSnapshot /\ rewritePost' = SubmittedSnapshot
    /\ rewriteScratch' = [rewriteScratch EXCEPT !.submitted = SubmittedSnapshot]
    /\ adopting' = "none" /\ rewriteFailed' = FALSE
    /\ RewriteStep
    /\ UNCHANGED <<rewriteServerVars, indexShown, wish, rewriteKey, rewriteJob, rekeyedWishes, rewriteSeen, oldRewritePost>>

\* Taken and answered, taken with the answer lost, or refused.
RewriteAnswered ==
    /\ rewritePost # NoRewrite /\ rewritePost' = NoRewrite
    /\ \/ /\ \E n \in 1..MaxRewrites : /\ RewriteTaken(rewritePost, n, TRUE)
                                      /\ rewriteScratch' = Answered(n, 0)
          /\ rewriteKey' = rewriteScratch'.key /\ submitted' = NoRewrite /\ rewriteJob' = rewriteScratch'.job
          /\ rewriteSeen' = "none" /\ UNCHANGED rewriteFailed
       \/ /\ (\E n \in 1..MaxRewrites : RewriteTaken(rewritePost, n, FALSE)) \/ UNCHANGED rewrites
          /\ rewriteFailed' = TRUE /\ UNCHANGED <<submitted, rewriteKey, rewriteJob, rewriteScratch, rewriteSeen>>
    /\ UNCHANGED <<chapterIndex, adoptedNow, indexShown, wish, rekeyedWishes, oldRewritePost, adopting, rewriteSteps>>

\* The answer to a request of an earlier visit finds its page gone and goes to
\* the browser alone, over whatever a later visit has stored there.
OldRewriteTaken ==
    /\ oldRewritePost # NoRewrite /\ oldRewritePost' = NoRewrite
    /\ \/ /\ \E n \in 1..MaxRewrites : /\ RewriteTaken(oldRewritePost, n, TRUE)
                                      /\ rewriteScratch' = Answered(n, 1)
          /\ rekeyedWishes' = IF rewriteScratch.key = oldRewritePost.key THEN rekeyedWishes
                              ELSE rekeyedWishes \cup {wish}
       \/ /\ (\E n \in 1..MaxRewrites : RewriteTaken(oldRewritePost, n, FALSE)) \/ UNCHANGED rewrites
          /\ UNCHANGED <<rewriteScratch, rekeyedWishes>>
    /\ UNCHANGED <<chapterIndex, adoptedNow, indexShown, wish, rewriteKey, submitted, rewriteJob, rewriteSeen,
                   rewritePost, rewriteFailed, adopting, rewriteSteps>>

WatchRewrite ==
    /\ rewriteJob # 0 /\ rewriteSeen # rewrites[rewriteJob].status
    /\ rewriteSeen' = rewrites[rewriteJob].status
    /\ UNCHANGED <<rewriteServerVars, indexShown, rewriteKeptVars, rewritePost, oldRewritePost, rewriteFailed, adopting, rewriteSteps>>

\* The candidate the page shows fits the chapters the page shows.
CanAdopt ==
    /\ ~RewriteBusy /\ adopting # "done" /\ rewriteSeen = "succeeded"
    /\ rewrites[rewriteJob].asked.base = indexShown

AdoptRewrite ==
    /\ CanAdopt /\ adopting' = "sent"
    /\ RewriteStep
    /\ UNCHANGED <<rewriteServerVars, indexShown, rewriteKeptVars, rewriteSeen, rewritePost, oldRewritePost, rewriteFailed>>

\* Every input of the rewrite is what it was.
AcceptFits(n) == rewrites[n].asked.base = chapterIndex

\* Adopted before and asked again, adopted, or refused; the answer may be lost.
AdoptionAnswered ==
    /\ adopting = "sent"
    /\ \/ /\ \/ adoptedNow = rewriteJob /\ UNCHANGED <<chapterIndex, adoptedNow>>
             \/ /\ adoptedNow # rewriteJob /\ AcceptFits(rewriteJob)
                /\ chapterIndex' = chapterIndex + 1 /\ adoptedNow' = rewriteJob
          /\ \/ adopting' = "done" /\ indexShown' = chapterIndex'
             \/ adopting' = "none" /\ UNCHANGED indexShown
       \/ adopting' = "none" /\ UNCHANGED <<chapterIndex, adoptedNow, indexShown>>
    /\ UNCHANGED <<rewrites, rewriteKeptVars, rewriteSeen, rewritePost, oldRewritePost, rewriteFailed, rewriteSteps>>

\* The next visit starts from what the browser keeps. One request of the
\* visits before is on its way at a time.
LeaveChapter ==
    /\ \/ oldRewritePost = NoRewrite /\ oldRewritePost' = rewritePost
       \/ oldRewritePost # NoRewrite /\ rewritePost = NoRewrite /\ UNCHANGED oldRewritePost
    /\ rewritePost' = NoRewrite
    /\ rewriteKey' = rewriteScratch.key /\ submitted' = rewriteScratch.submitted /\ rewriteJob' = rewriteScratch.job
    /\ indexShown' = chapterIndex /\ rewriteSeen' = "none" /\ rewriteFailed' = FALSE /\ adopting' = "none"
    /\ RewriteStep
    /\ UNCHANGED <<rewriteServerVars, wish, rewriteScratch, rekeyedWishes>>

-----------------------------------------------------------------------------

RewritesInit ==
    /\ chapterIndex = 1 /\ adoptedNow = 0 /\ rewrites = <<>> /\ indexShown = 1
    /\ wish = 0 /\ rewriteKey = 0 /\ submitted = NoRewrite /\ rewriteJob = 0
    /\ rewriteScratch = [key |-> 0, submitted |-> NoRewrite, job |-> 0] /\ rekeyedWishes = {}
    /\ rewriteSeen = "none" /\ rewritePost = NoRewrite /\ oldRewritePost = NoRewrite
    /\ rewriteFailed = FALSE /\ adopting = "none" /\ rewriteSteps = 0

RewritesNext ==
    \/ ChaptersElsewhere \/ RewriteEnds \/ OldRewriteTaken
    \/ RefreshIndex \/ TypeWish \/ AskRewrite \/ RewriteAnswered \/ WatchRewrite
    \/ AdoptRewrite \/ AdoptionAnswered \/ LeaveChapter

RewritesSpec == RewritesInit /\ [][RewritesNext]_rewriteVars

-----------------------------------------------------------------------------
(* Properties.                                                                 *)

\* A wish whose request was not answered and is sent again, in this visit or a
\* later one, becomes no second task that has to be paid for, whatever is lost,
\* refused or left behind meanwhile ("retrying the same request keeps its original
\* identity"), unless the late answer to another request has replaced the key the
\* browser kept for it.
UnansweredRewritesRunOnce ==
    \A i, j \in 1..Len(rewrites) :
        i < j /\ rewrites[i].asked.wish = rewrites[j].asked.wish =>
            rewrites[i].told \/ rewrites[i].asked.wish \in rekeyedWishes
=============================================================================
