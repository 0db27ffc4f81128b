\* The pages that poll, stream and refetch, with the fairness of what they do.
SPECIFICATION PagesLiveSpec
CONSTANTS
    Pages = {"planning", "sections", "uploads", "discovery", "dialogue", "final"}
    pa = pa
    p1 = p1
    p2 = p2
    OutlineText = {1, 2}
    ReadPaper = {pa}
    NoPlan = NoPlan
    MaxPlanWrites = 1
    MaxPlanVisits = 1
    MaxPlanMoves = 1
    NoDrafts = NoDrafts
    MaxDrafts = 2
    MaxDraftJobs = 2
    MaxDraftMoves = 1
    NoUpload = NoUpload
    MaxFiles = 2
    MaxBatches = 1
    MaxUploadMoves = 1
    Candidate = {p1, p2}
    Recommended = {p1}
    NoReview = NoReview
    MaxSearches = 1
    MaxReviewWrites = 1
    MaxReviewMoves = 1
    NoChapter = NoChapter
    MaxTurns = 1
    MaxChapterChanges = 1
    MaxDialogueMoves = 2
    NoFinal = NoFinal
    MaxInputs = 0
    MaxFinalJobs = 2
    MaxFinalMoves = 1
PROPERTIES
    FinishedAnalysisIsShown
    GeneratedDraftsAreShown
    UploadsReachTheList
    SubmittedSearchesAreShown
    RepliesAreShown
    FinalResultsAreShown
CHECK_DEADLOCK FALSE
