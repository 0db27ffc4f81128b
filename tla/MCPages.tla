------------------------------ MODULE MCPages ------------------------------
(* Small instances of the pages of the frontend. The router shows one page at  *)
(* a time, and the pages share nothing but the server: a behaviour stays on    *)
(* the page it starts on.                                                      *)
EXTENDS TLC, SvgEditor, FigurePages, PlanningPage, OutlineEditor, ChapterPlan,
        ChapterRewrites, LibraryMetadata, DiscoveryPage, DraftPage, ChapterDialogue,
        FinalPage, FinalReview

CONSTANTS
    Pages,              \* the pages of this instance
    t1, i1, i2, i3, pa, pb, p1, p2, q1, f1, f2

VARIABLE page

pagesVars == <<page, vars, figureVars, planVars, outlineEditorVars, chapterPlanVars, rewriteVars,
               recordVars, discoveryVars, draftVars, dialogueVars, finalVars, finalReviewVars>>

-----------------------------------------------------------------------------
(* The figure editor's instance: a figure whose trace is one object, which     *)
(* stands elsewhere in the redrawn image, and documents of an older editor,    *)
(* with the object moved and a stroke, or a single dab, that is not bound.     *)

TraceBase == ("source" :> [t \in Trace |-> 0]) @@ ("redrawn" :> [t \in Trace |-> 1])

Old(n) == [Build([Clean("source", TraceBase["source"]) EXCEPT
                  !.edits = [t \in Trace |-> [dx |-> 1, hidden |-> FALSE]]])
        EXCEPT !.operations.strokes = {[id |-> i3, bound |-> FALSE, points |-> n, targets |-> {}]}]
OldDocuments == {Old(1), Old(2)}

-----------------------------------------------------------------------------

\* Pages that are not shown start in one state; the outlines are interchangeable.
OtherPagesFixed ==
    /\ page # "editor" => row.doc = None
    /\ page # "figures" => /\ reviewForm.paper = pa
                           /\ figureServer.inputs = figureServer.pick
                           /\ \A p \in Paper : figureServer.pick[p] = NoFigure
    /\ planServer.outline = 1
    /\ page # "planning" => \A p \in ReadPaper : planServer.papers[p] = "pending"
    /\ page # "final" => approved

PagesInit ==
    /\ page \in Pages
    /\ Init /\ FigureInit /\ PlanInit /\ OutlineInit /\ ChapterPlanInit
    /\ RewritesInit /\ RecordsInit /\ DiscoveryInit /\ DraftInit
    /\ DialogueInit /\ FinalInit /\ FinalReviewInit
    /\ OtherPagesFixed

On(p) == page = p /\ UNCHANGED page

Still(p, v) == IF page = p THEN TRUE ELSE UNCHANGED v

OthersStill ==
    /\ Still("editor", vars) /\ Still("figures", figureVars) /\ Still("planning", planVars)
    /\ Still("outline", outlineEditorVars) /\ Still("plan", chapterPlanVars)
    /\ Still("rewrite", rewriteVars) /\ Still("metadata", recordVars)
    /\ Still("discovery", discoveryVars) /\ Still("draft", draftVars)
    /\ Still("dialogue", dialogueVars) /\ Still("final", finalVars)
    /\ Still("issues", finalReviewVars)

PagesNext ==
    \/ On("editor") /\ OthersStill /\ Next
    \/ On("figures") /\ OthersStill /\ FigureNext
    \/ On("planning") /\ OthersStill /\ PlanNext
    \/ On("outline") /\ OthersStill /\ OutlineNext
    \/ On("plan") /\ OthersStill /\ ChapterPlanNext
    \/ On("rewrite") /\ OthersStill /\ RewritesNext
    \/ On("metadata") /\ OthersStill /\ RecordsNext
    \/ On("discovery") /\ OthersStill /\ DiscoveryNext
    \/ On("draft") /\ OthersStill /\ DraftNext
    \/ On("dialogue") /\ OthersStill /\ DialogueNext
    \/ On("final") /\ OthersStill /\ FinalNext
    \/ On("issues") /\ OthersStill /\ FinalReviewNext

PagesSpec == PagesInit /\ [][PagesNext]_pagesVars
=============================================================================
