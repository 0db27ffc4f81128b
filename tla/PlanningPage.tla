---------------------------- MODULE PlanningPage ----------------------------
(* The planning page (PlanningPage.tsx): the analysis of the papers, the       *)
(* outline editor with its draft in browser storage (useFormDraft), and the    *)
(* query that follows the analysis job (usePlanningCompletionSync). An outline *)
(* is an opaque text here; OutlineEditor says what is done to one.             *)
EXTENDS Integers, FiniteSets

CONSTANTS
    OutlineText,        \* texts an outline may have
    ReadPaper,          \* papers of the matrix
    NoPlan,             \* nothing loaded, nothing sent, no draft
    MaxPlanWrites,      \* bound on the matrix revision
    MaxPlanVisits,      \* times the page is opened
    MaxPlanMoves        \* bound on what the user does

ASSUME PlanAssumption ==
    /\ MaxPlanWrites \in Nat /\ MaxPlanVisits \in Nat \ {0} /\ MaxPlanMoves \in Nat
    /\ NoPlan \notin OutlineText
    /\ NoPlan \notin [command : {"save", "choose", "recommend", "import"}, text : OutlineText, rev : Nat,
                      phase : {"sent", "accepted"}, left : OutlineText \cup {NoPlan}]

VARIABLES
    planServer,     \* revision, saved outline, analysis of the papers
    planJob,        \* the analysis job: status and papers
    planCache,      \* the planning payload the query holds
    planFetch,      \* a planning request whose artifacts have been read
    planSeen,       \* completions of the job the page has observed
    planVisit,      \* number of this visit of the page, and whether it goes on
    outlineDraft,   \* the draft the editor holds
    outlineStored,  \* the draft in browser storage
    outlineTypedIn, \* the visit that stored it; no action reads it
    outlineSent,    \* by visit: the outline command under way
    planMoves       \* what the user has done

planServerVars == <<planServer, planJob>>
planQueryVars == <<planCache, planFetch, planSeen>>
outlineVars == <<outlineDraft, outlineStored, outlineTypedIn, outlineSent>>
planVars == <<planServerVars, planQueryVars, outlineVars, planVisit, planMoves>>

Analysis == {"pending", "complete", "failed"}
OutlineCommands == {"save", "choose", "recommend", "import"}
Visits == 1..MaxPlanVisits

PlanMove == planMoves < MaxPlanMoves /\ planMoves' = planMoves + 1

Mounted == planVisit.open /\ planCache # NoPlan

JobActive(status) == status \in {"queued", "running", "published"}

-----------------------------------------------------------------------------
(* The server.                                                                 *)

\* What is published moves the revision an outline is saved on.
PublishAnalysis ==
    /\ planJob.status = "running" /\ planServer.rev < MaxPlanWrites
    /\ \E p \in planJob.papers, result \in {"complete", "failed"} :
          planServer' = [planServer EXCEPT !.rev = @ + 1, !.papers[p] = result]
    /\ planJob' = [planJob EXCEPT !.status = "published"]
    /\ UNCHANGED <<planQueryVars, outlineVars, planVisit, planMoves>>

AnalysisStep ==
    /\ \/ planJob.status = "queued" /\ planJob' = [planJob EXCEPT !.status = "running"]
       \/ planJob.status = "published" /\ planJob' = [planJob EXCEPT !.status = "succeeded"]
       \/ planJob.status = "running" /\ planJob' = [planJob EXCEPT !.status = "failed"]
    /\ UNCHANGED <<planServer, planQueryVars, outlineVars, planVisit, planMoves>>

OutlineElsewhere ==
    /\ planServer.rev < MaxPlanWrites
    /\ \E t \in OutlineText : planServer' = [planServer EXCEPT !.rev = @ + 1, !.outline = t]
    /\ UNCHANGED <<planJob, planQueryVars, outlineVars, planVisit, planMoves>>

-----------------------------------------------------------------------------
(* The planning query.                                                         *)

Artifacts == [rev |-> planServer.rev, outline |-> planServer.outline, papers |-> planServer.papers]

\* The open page asks when it has nothing and while a job runs; a refresh that
\* was asked for runs on when the page is left.
PlanningAsked ==
    \/ planCache = NoPlan /\ planVisit.open
    \/ \E c \in {planCache} \ {NoPlan} : c.due \/ (planVisit.open /\ JobActive(c.job))

FetchPlanning ==
    /\ planFetch = NoPlan /\ PlanningAsked
    /\ planFetch' = Artifacts
    /\ UNCHANGED <<planServerVars, planCache, planSeen, outlineVars, planVisit, planMoves>>

\* Faulty: completions are not told apart from answers.
CompletionsIgnored(job, number) == {}

\* A completion not seen before makes the page fetch once more.
Completions(job, number) ==
    IF job \in {"succeeded", "failed"} THEN {<<number, job>>} ELSE {}

\* The draft of an accepted command goes when the page has been refreshed and
\* still shows the text the command was given for; a visit that has ended shows
\* what it showed last.
Here(v) == planVisit = [number |-> v, open |-> TRUE]

OutlineIn(cache) == IF outlineDraft # NoPlan THEN outlineDraft ELSE cache.outline

CommittedAnyText(v, cache) == \E c \in {outlineSent[v]} \ {NoPlan} : c.phase = "accepted"

Committed(v, cache) ==
    \E c \in {outlineSent[v]} \ {NoPlan} :
        /\ c.phase = "accepted"
        /\ c.text = IF Here(v) THEN OutlineIn(cache) ELSE c.left

PlanningArrives ==
    /\ planFetch # NoPlan
    /\ LET new == IF planVisit.open THEN Completions(planJob.status, planJob.number) \ planSeen ELSE {}
       IN /\ planCache' = [rev |-> planFetch.rev, outline |-> planFetch.outline,
                           papers |-> planFetch.papers, job |-> planJob.status,
                           number |-> planJob.number, due |-> new # {}]
          /\ planSeen' = planSeen \cup new
    /\ outlineStored' = IF \E v \in Visits : Committed(v, planCache') THEN NoPlan ELSE outlineStored
    /\ outlineDraft' = IF \E v \in Visits : Here(v) /\ Committed(v, planCache') THEN NoPlan
                       ELSE outlineDraft
    /\ outlineSent' = [v \in Visits |-> IF \E c \in {outlineSent[v]} \ {NoPlan} : c.phase = "accepted"
                                        THEN NoPlan ELSE outlineSent[v]]
    /\ planFetch' = NoPlan
    /\ UNCHANGED <<planServerVars, outlineTypedIn, planVisit, planMoves>>

-----------------------------------------------------------------------------
(* The analysis of the papers.                                                 *)

\* Papers shown as pending or failed are analysed again; the request is answered
\* at once here.
Unfinished(papers) == {p \in ReadPaper : papers[p] \in {"pending", "failed"}}

ResumeAnalysis ==
    /\ Mounted /\ ~JobActive(planCache.job) /\ Unfinished(planCache.papers) # {}
    /\ IF JobActive(planJob.status) THEN UNCHANGED planJob
       ELSE planJob' = [status |-> "queued", papers |-> Unfinished(planCache.papers),
                        number |-> planJob.number + 1]
    /\ planCache' = [planCache EXCEPT !.due = TRUE]
    /\ planFetch' = NoPlan
    /\ PlanMove
    /\ UNCHANGED <<planServer, planSeen, outlineVars, planVisit>>

-----------------------------------------------------------------------------
(* The draft of the outline.                                                   *)

\* Without a draft the editor follows the server.
OutlineValue == OutlineIn(planCache)

OutlineDirty == outlineDraft # NoPlan /\ outlineDraft # planCache.outline

SetDraft(t) == outlineDraft' = t /\ outlineStored' = t /\ outlineTypedIn' = planVisit.number

OutlineBusy == outlineSent[planVisit.number] # NoPlan

Sends(command) == \E c \in {outlineSent[planVisit.number]} : c # NoPlan /\ c.command = command

\* Typing is never blocked.
EditOutline ==
    /\ Mounted
    /\ \E t \in OutlineText \ {OutlineValue} : SetDraft(t)
    /\ PlanMove
    /\ UNCHANGED <<planServerVars, planQueryVars, outlineSent, planVisit>>

DiscardEdits ==
    /\ Mounted /\ outlineDraft # NoPlan /\ ~Sends("save") /\ ~Sends("choose")
    /\ SetDraft(NoPlan)
    /\ PlanMove
    /\ UNCHANGED <<planServerVars, planQueryVars, outlineSent, planVisit>>

\* A command remembers the text it was given for (checkpoint); choosing another
\* outline and importing one ask before they replace edits.
SendOutline(command) ==
    /\ Mounted /\ ~OutlineBusy
    /\ outlineSent' = [outlineSent EXCEPT ![planVisit.number] =
                          [command |-> command, text |-> OutlineValue, rev |-> planCache.rev,
                           phase |-> "sent", left |-> NoPlan]]
    /\ PlanMove
    /\ UNCHANGED <<planServerVars, planQueryVars, outlineDraft, outlineStored, outlineTypedIn, planVisit>>

\* A save and a choice are refused on another revision; the answer of a choice
\* is in the cache before the refetch. A refresh still under way is cancelled,
\* and with it what was to happen after it.
OutlineAccepted(v) ==
    /\ outlineSent[v] # NoPlan /\ outlineSent[v].phase = "sent"
    /\ outlineSent[v].command \in {"save", "choose"}
    /\ outlineSent[v].rev = planServer.rev /\ planServer.rev < MaxPlanWrites
    /\ \E t \in IF outlineSent[v].command = "save" THEN {outlineSent[v].text} ELSE OutlineText :
          /\ planServer' = [planServer EXCEPT !.rev = @ + 1, !.outline = t]
          /\ planCache' = IF outlineSent[v].command = "choose"
                          THEN [planCache EXCEPT !.outline = t, !.rev = planServer.rev + 1, !.due = TRUE]
                          ELSE [planCache EXCEPT !.due = TRUE]
    /\ planFetch' = NoPlan
    /\ outlineSent' = [w \in Visits |->
                          IF w = v THEN [outlineSent[v] EXCEPT !.phase = "accepted"]
                          ELSE IF \E c \in {outlineSent[w]} \ {NoPlan} : c.phase = "accepted" THEN NoPlan
                          ELSE outlineSent[w]]
    /\ UNCHANGED <<planJob, planSeen, outlineDraft, outlineStored, outlineTypedIn, planVisit, planMoves>>

\* The answer of a recommendation is for the text it was asked about; an import
\* fills the editor.
OutlineSuggested(v) ==
    /\ outlineSent[v] # NoPlan /\ outlineSent[v].phase = "sent"
    /\ outlineSent[v].command \in {"recommend", "import"}
    /\ \E t \in OutlineText :
          IF \/ outlineSent[v].command = "import"
             \/ outlineSent[v].text = IF Here(v) THEN OutlineValue ELSE outlineSent[v].left
          THEN /\ outlineDraft' = IF Here(v) THEN t ELSE outlineDraft
               /\ outlineStored' = t /\ outlineTypedIn' = v
          ELSE UNCHANGED <<outlineDraft, outlineStored, outlineTypedIn>>
    /\ outlineSent' = [outlineSent EXCEPT ![v] = NoPlan]
    /\ UNCHANGED <<planServerVars, planQueryVars, planVisit, planMoves>>

\* A refused choice fetches the state again.
OutlineRefused(v) ==
    /\ outlineSent[v] # NoPlan
    /\ outlineSent[v].phase = "sent"
    /\ planCache' = IF outlineSent[v].command = "choose" THEN [planCache EXCEPT !.due = TRUE]
                    ELSE planCache
    /\ outlineSent' = [outlineSent EXCEPT ![v] = NoPlan]
    /\ UNCHANGED <<planServerVars, planFetch, planSeen, outlineDraft, outlineStored, outlineTypedIn, planVisit, planMoves>>

-----------------------------------------------------------------------------
(* Leaving the page and coming back.                                           *)

LeavePlanning ==
    /\ Mounted
    /\ planVisit.number < MaxPlanVisits
    /\ planVisit' = [planVisit EXCEPT !.open = FALSE]
    /\ outlineDraft' = NoPlan
    /\ outlineSent' = IF OutlineBusy THEN [outlineSent EXCEPT ![planVisit.number].left = OutlineValue]
                      ELSE outlineSent
    /\ UNCHANGED <<planServerVars, planQueryVars, outlineStored, outlineTypedIn, planMoves>>

\* A new page reads the draft from storage and knows no completions; what the
\* cache holds may be fresh enough not to be fetched again.
ReturnToPlanning ==
    /\ ~planVisit.open
    /\ planVisit' = [number |-> planVisit.number + 1, open |-> TRUE]
    /\ outlineDraft' = outlineStored
    /\ planSeen' = Completions(planCache.job, planCache.number)
    /\ planCache' \in {[planCache EXCEPT !.due = due] : due \in {TRUE, planCache.due \/ planSeen' # {}}}
    /\ UNCHANGED <<planServerVars, planFetch, outlineStored, outlineTypedIn, outlineSent, planMoves>>

-----------------------------------------------------------------------------

PlanInit ==
    /\ \E t \in OutlineText, papers \in [ReadPaper -> Analysis] :
          planServer = [rev |-> 0, outline |-> t, papers |-> papers]
    /\ planJob = [status |-> "none", papers |-> {}, number |-> 0]
    /\ planCache = NoPlan /\ planFetch = NoPlan /\ planSeen = {}
    /\ planVisit = [number |-> 1, open |-> TRUE]
    /\ outlineDraft = NoPlan /\ outlineStored = NoPlan /\ outlineTypedIn = 1
    /\ outlineSent = [v \in Visits |-> NoPlan]
    /\ planMoves = 0

PlanServerNext == PublishAnalysis \/ AnalysisStep \/ OutlineElsewhere

PlanNext ==
    \/ PlanServerNext
    \/ FetchPlanning \/ PlanningArrives \/ ResumeAnalysis
    \/ EditOutline \/ DiscardEdits
    \/ \E command \in OutlineCommands : SendOutline(command)
    \/ \E v \in Visits : OutlineAccepted(v) \/ OutlineSuggested(v) \/ OutlineRefused(v)
    \/ LeavePlanning \/ ReturnToPlanning

PlanSpec == PlanInit /\ [][PlanNext]_planVars

-----------------------------------------------------------------------------
(* Properties.                                                                 *)

\* Whatever a save, a choice or a recommendation is answered, and whenever: the
\* editor keeps what it shows, and the browser what the visit that sent the
\* command has stored, when that is not the text the command was given for (the
\* checkpoint of useFormDraft). What a later visit stored is not safe.
SavesKeepLaterEdits ==
    [][\A v \in Visits :
          /\ outlineSent[v] # NoPlan /\ outlineSent'[v] = NoPlan
          /\ outlineSent[v].command \in {"save", "choose", "recommend"}
          => /\ outlineDraft \notin {NoPlan, outlineSent[v].text} => outlineDraft' = outlineDraft
             /\ outlineStored \notin {NoPlan, outlineSent[v].text} /\ outlineTypedIn = v
                    => outlineStored' = outlineStored]_planVars

\* The end of a save erases no edits from the browser but the ones it was given
\* for, whichever visit they were typed in ("A successful save must not erase
\* edits made while that request was running").
SavesEraseNoEdits ==
    [][\A v \in Visits :
          /\ outlineSent[v] # NoPlan /\ outlineSent'[v] = NoPlan /\ outlineSent[v].command = "save"
          /\ outlineStored \notin {NoPlan, outlineSent[v].text}
          => outlineStored' = outlineStored]_planVars

\* A page that stays open comes to show the analysis a finished job published,
\* although the response that first shows it finished may hold the old one.
FinishedAnalysisIsShown ==
    planJob.status \in {"succeeded", "failed"} /\ planVisit.open
        ~> \/ planCache # NoPlan /\ planCache.papers = planServer.papers
           \/ ~planVisit.open
=============================================================================
