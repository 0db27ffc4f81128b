\* One page at a time; the import of papers and the drafts of the chapters have
\* only liveness properties and are left to MCPagesLive.
SPECIFICATION PagesSpec
CONSTANTS
    Pages = {"editor", "figures", "planning", "outline", "plan", "rewrite", "metadata",
             "discovery", "draft", "dialogue", "final", "issues"}
    t1 = t1
    i1 = i1
    i2 = i2
    i3 = i3
    pa = pa
    pb = pb
    p1 = p1
    p2 = p2
    q1 = q1
    f1 = f1
    f2 = f2
    None = None
    Trace = {t1}
    Base <- TraceBase
    Id = {i1, i2, i3}
    Content = {"a"}
    Width = 2
    Density = 2
    MaxScale = 2
    Legacy <- OldDocuments
    HistoryLimit = 1
    Point = {0, 2}
    Shift = {0, 1}
    MaxGestures = 2
    MaxVersion = 1
    Paper = {pa, pb}
    Pick = {1}
    NoFigure = NoFigure
    MaxFigureWrites = 2
    MaxFigureMoves = 3
    OutlineText = {1, 2}
    ReadPaper = {pa}
    NoPlan = NoPlan
    MaxPlanWrites = 2
    MaxPlanVisits = 2
    MaxPlanMoves = 2
    Deepest = 4
    TypedId = {1, 3}
    MaxTyped = 2
    MaxSections = 3
    NoChapterPlan = NoChapterPlan
    MaxPlans = 3
    MaxOutlines = 2
    MaxPlanSteps = 3
    NoRewrite = NoRewrite
    MaxRewrites = 3
    MaxChapterIndexes = 2
    MaxRewriteSteps = 7
    MaxPapers = 2
    NoRecord = NoRecord
    MaxRecordMoves = 4
    Candidate = {p1, p2}
    Recommended = {p1}
    NoReview = NoReview
    MaxSearches = 0
    MaxReviewWrites = 4
    MaxReviewMoves = 2
    Para = {q1}
    NoDraft = NoDraft
    MaxDraftWrites = 3
    MaxDraftSteps = 2
    NoChapter = NoChapter
    MaxTurns = 2
    MaxChapterChanges = 0
    MaxDialogueMoves = 3
    NoFinal = NoFinal
    MaxInputs = 1
    MaxFinalJobs = 1
    MaxFinalMoves = 1
    Field = {f1, f2}
    NoReference = NoReference
    MaxCorrections = 2
    MaxReviewSteps = 3
INVARIANTS
    ReopenShowsWhatWasSaved
    PublishedStrokesAreBound
    NotesStayWithTheirPaper
    UnansweredRewritesRunOnce
    RecordsStayWithTheirPaper
    MessagesAreTakenOnce
PROPERTIES
    SavesKeepLaterEdits
    ModuleEditsKeepTheTree
    IdsSurviveEditing
    ConfirmationsReplaceWhatWasSeen
    AdoptedSelectionIsTheShownOne
    SavesReplaceWhatWasEdited
    CorrectionsKeepOthersFields
CHECK_DEADLOCK FALSE
