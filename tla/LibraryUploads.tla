--------------------------- MODULE LibraryUploads ---------------------------
(* Importing a batch of papers on the library page: the files go to the server *)
(* one after another (LibraryPage.tsx uploadFiles, sharedUploads.ts), their    *)
(* jobs are polled, and the list of papers is fetched again when they have     *)
(* been parsed (uploadRefresh.ts). A file is known by its batch and place.     *)
EXTENDS Integers, FiniteSets

CONSTANTS
    NoUpload,       \* nothing under way, nothing loaded
    MaxFiles,       \* files of a batch
    MaxBatches,     \* bound on the batches
    MaxUploadMoves  \* bound on cancelling and loading again

ASSUME UploadAssumption == MaxFiles \in Nat \ {0} /\ MaxBatches \in Nat /\ MaxUploadMoves \in Nat

VARIABLES
    uploadJob,          \* server: by file, the status of its parsing job
    cancelledBatches,   \* server: batches that take no more files
    batchNumber,        \* the batches started
    expectedBatch,      \* batch the page expects to see, 0 after a reload
    uploadRow,          \* by file, its row on the page while it is not handed over
    transfer,           \* the loop over the files of the batch
    stoppedBatches,     \* batches the user has cancelled on this page
    cancelSend,         \* batch whose cancellation is under way, 0 for none
    uploadsCache,       \* the jobs the page knows
    submittedHere,      \* files submitted by this page, not yet parsed
    refreshedUploads,   \* parsed files the list was fetched again for
    libraryCache,       \* files whose papers the list shows
    libraryDue,         \* the list is to be fetched
    uploadMoves         \* remainders cancelled, and the page loaded again

uploadServerVars == <<uploadJob, cancelledBatches>>
uploadPageVars == <<batchNumber, expectedBatch, uploadRow, transfer, stoppedBatches, cancelSend>>
uploadRefVars == <<submittedHere, refreshedUploads>>
libraryVars == <<libraryCache, libraryDue>>
uploadVars == <<uploadServerVars, uploadPageVars, uploadsCache, uploadRefVars, libraryVars, uploadMoves>>

File == (1..MaxBatches) \X (1..MaxFiles)
FilesOf(b) == {f \in File : f[1] = b}

Ended == {"succeeded", "failed", "cancelled"}
Underway == {"queued", "running"}

UploadMove == uploadMoves < MaxUploadMoves /\ uploadMoves' = uploadMoves + 1

Papers == {f \in File : uploadJob[f] = "succeeded"}

-----------------------------------------------------------------------------
(* The server.                                                                 *)

ParseUpload ==
    /\ \E f \in File :
          \/ uploadJob[f] = "queued" /\ uploadJob' = [uploadJob EXCEPT ![f] = "running"]
          \/ /\ uploadJob[f] = "running"
             /\ \E end \in {"succeeded", "failed"} : uploadJob' = [uploadJob EXCEPT ![f] = end]
    /\ UNCHANGED <<cancelledBatches, uploadPageVars, uploadsCache, uploadRefVars, libraryVars, uploadMoves>>

-----------------------------------------------------------------------------
(* The way of the files to the server.                                         *)

\* A new batch replaces the rows of the one before.
UploadFiles ==
    /\ transfer = NoUpload /\ batchNumber < MaxBatches
    /\ batchNumber' = batchNumber + 1 /\ expectedBatch' = batchNumber + 1
    /\ uploadRow' = [f \in File |-> IF f[1] = batchNumber + 1 THEN "queued" ELSE "none"]
    /\ transfer' = [file |-> <<batchNumber + 1, 1>>, phase |-> "next"]
    /\ UNCHANGED <<uploadServerVars, stoppedBatches, cancelSend, uploadsCache, uploadRefVars, libraryVars, uploadMoves>>

MoreFiles == transfer.file[2] <= MaxFiles /\ transfer.file[1] \notin stoppedBatches

BeginTransfer ==
    /\ transfer # NoUpload /\ transfer.phase = "next" /\ MoreFiles
    /\ transfer' = [transfer EXCEPT !.phase = "sent"]
    /\ uploadRow' = [uploadRow EXCEPT ![transfer.file] = "uploading"]
    /\ UNCHANGED <<uploadServerVars, batchNumber, expectedBatch, stoppedBatches, cancelSend,
                   uploadsCache, uploadRefVars, libraryVars, uploadMoves>>

\* The account, the kind and the size of a file are looked at first; the server
\* refuses a file of a batch that is cancelled; an answer may be lost.
TransferEnds ==
    /\ transfer # NoUpload /\ transfer.phase = "sent"
    /\ \/ /\ transfer.file[1] \notin cancelledBatches
          /\ uploadJob' = [uploadJob EXCEPT ![transfer.file] = "queued"]
          /\ \E phase \in {"accepted", "lost"} : transfer' = [transfer EXCEPT !.phase = phase]
       \/ transfer' = [transfer EXCEPT !.phase = "lost"] /\ UNCHANGED uploadJob
    /\ UNCHANGED <<cancelledBatches, batchNumber, expectedBatch, uploadRow, stoppedBatches, cancelSend,
                   uploadsCache, uploadRefVars, libraryVars, uploadMoves>>

NextFile == [file |-> <<transfer.file[1], transfer.file[2] + 1>>, phase |-> "next"]

\* An accepted file leaves the page's rows; the rest is told by its job.
HandedOver ==
    /\ uploadRow' = [uploadRow EXCEPT ![transfer.file] = "none"]
    /\ submittedHere' = submittedHere \cup {transfer.file}

UploadAnswered ==
    /\ transfer # NoUpload /\ transfer.phase \in {"accepted", "lost"}
    /\ IF transfer.phase = "accepted" THEN HandedOver
       ELSE /\ uploadRow' = [uploadRow EXCEPT ![transfer.file] =
                                IF transfer.file[1] \in stoppedBatches THEN "cancelled" ELSE "failed"]
            /\ UNCHANGED submittedHere
    /\ transfer' = NextFile
    /\ UNCHANGED <<uploadServerVars, batchNumber, expectedBatch, stoppedBatches, cancelSend,
                   uploadsCache, refreshedUploads, libraryVars, uploadMoves>>

\* Whatever became of the files, the list is fetched again at the end.
BatchEnds ==
    /\ transfer # NoUpload /\ transfer.phase = "next" /\ ~MoreFiles
    /\ transfer' = NoUpload /\ libraryDue' = TRUE
    /\ UNCHANGED <<uploadServerVars, batchNumber, expectedBatch, uploadRow, stoppedBatches, cancelSend,
                   uploadsCache, uploadRefVars, libraryCache, uploadMoves>>

-----------------------------------------------------------------------------
(* Cancelling what remains of a batch.                                         *)

Known(f) == uploadsCache # NoUpload /\ uploadsCache[f] # "none"

\* The page shows the batch it expects, or the newest that has something to do.
CurrentBatch ==
    IF expectedBatch # 0 /\ \E f \in FilesOf(expectedBatch) : uploadRow[f] # "none" \/ Known(f)
    THEN expectedBatch
    ELSE LET known == {b \in 1..MaxBatches : \E f \in FilesOf(b) : Known(f)}
             active == {b \in known : \E f \in FilesOf(b) : uploadsCache[f] \in Underway}
             shown == IF active # {} THEN active ELSE known
         IN IF shown = {} THEN 0 ELSE CHOOSE b \in shown : \A c \in shown : c <= b

DropQueuedRows(b) ==
    uploadRow' = [f \in File |-> IF f[1] = b /\ uploadRow[f] = "queued" THEN "cancelled" ELSE uploadRow[f]]

CancelRemaining ==
    /\ CurrentBatch # 0 /\ cancelSend = 0 /\ UploadMove
    /\ \E f \in FilesOf(CurrentBatch) : uploadRow[f] \in {"queued", "uploading"}
                                           \/ (Known(f) /\ uploadsCache[f] \in Underway)
    /\ stoppedBatches' = stoppedBatches \cup {CurrentBatch}
    /\ DropQueuedRows(CurrentBatch)
    /\ cancelSend' = CurrentBatch
    /\ UNCHANGED <<uploadServerVars, batchNumber, expectedBatch, transfer, uploadsCache, uploadRefVars,
                   libraryVars>>

\* The server cancels what is queued and lets what runs go on; the request may
\* also get lost.
BatchCancelled ==
    /\ cancelSend # 0
    /\ \/ /\ cancelledBatches' = cancelledBatches \cup {cancelSend}
          /\ uploadJob' = [f \in File |-> IF f[1] = cancelSend /\ uploadJob[f] = "queued"
                                          THEN "cancelled" ELSE uploadJob[f]]
       \/ UNCHANGED uploadServerVars
    /\ cancelSend' = 0
    /\ UNCHANGED <<batchNumber, expectedBatch, uploadRow, transfer, stoppedBatches, uploadsCache,
                   uploadRefVars, libraryVars, uploadMoves>>

-----------------------------------------------------------------------------
(* Following the jobs.                                                         *)

\* Faulty: a job first seen parsed is taken for an old one.
NeedsRefreshOnceKnown(f) ==
    /\ uploadJob[f] = "succeeded" /\ f \notin refreshedUploads
    /\ Known(f) /\ uploadsCache[f] # "succeeded"

\* A job that has succeeded needs the list to be fetched when this page has
\* submitted it or has seen it before it succeeded; of what it did not submit
\* the page remembers what it saw last.
NeedsRefresh(f) ==
    /\ uploadJob[f] = "succeeded" /\ f \notin refreshedUploads
    /\ f \in submittedHere \/ (Known(f) /\ uploadsCache[f] # "succeeded")

\* The page looks at the jobs only when they are not what it knows already.
PollUploads ==
    /\ uploadsCache # uploadJob
    /\ uploadsCache' = uploadJob
    /\ LET completed == {f \in File : NeedsRefresh(f)}
       IN /\ refreshedUploads' = refreshedUploads \cup completed
          /\ submittedHere' = {f \in submittedHere \ completed : uploadJob[f] \notin {"failed", "cancelled"}}
          /\ libraryDue' = (libraryDue \/ completed # {})
    /\ UNCHANGED <<uploadServerVars, uploadPageVars, libraryCache, uploadMoves>>

RefreshLibrary ==
    /\ libraryDue
    /\ libraryCache' = Papers /\ libraryDue' = FALSE
    /\ UNCHANGED <<uploadServerVars, uploadPageVars, uploadsCache, uploadRefVars, uploadMoves>>

\* Loading the page again ends the loop, which may lose an answer.
ReloadLibrary ==
    /\ UploadMove
    /\ transfer # NoUpload /\ transfer.phase # "sent"
    /\ transfer' = NoUpload /\ uploadRow' = [f \in File |-> "none"]
    /\ expectedBatch' = 0 /\ stoppedBatches' = {} /\ cancelSend' = 0
    /\ uploadsCache' = NoUpload
    /\ submittedHere' = {} /\ refreshedUploads' = {}
    /\ libraryCache' = {} /\ libraryDue' = TRUE
    /\ UNCHANGED <<uploadServerVars, batchNumber>>

-----------------------------------------------------------------------------

UploadsInit ==
    /\ uploadJob = [f \in File |-> "none"] /\ cancelledBatches = {}
    /\ batchNumber = 0 /\ expectedBatch = 0
    /\ uploadRow = [f \in File |-> "none"] /\ transfer = NoUpload
    /\ stoppedBatches = {} /\ cancelSend = 0
    /\ uploadsCache = NoUpload
    /\ submittedHere = {} /\ refreshedUploads = {}
    /\ libraryCache = {} /\ libraryDue = TRUE /\ uploadMoves = 0

TransferNext == BeginTransfer \/ TransferEnds \/ UploadAnswered \/ BatchEnds

UploadsNext ==
    \/ ParseUpload \/ UploadFiles \/ TransferNext
    \/ CancelRemaining \/ BatchCancelled
    \/ PollUploads \/ RefreshLibrary \/ ReloadLibrary

-----------------------------------------------------------------------------
(* The counts of the panel (buildUploadBatchCounts) and the properties.        *)

ServerCount(S) == Cardinality({f \in FilesOf(expectedBatch) : Known(f) /\ uploadsCache[f] \in S})
RowCount(S) == Cardinality({f \in FilesOf(expectedBatch) : uploadRow[f] \in S})

Accounted == ServerCount(Ended \cup Underway) + RowCount({"queued", "uploading", "failed", "cancelled"})
TotalCount == IF Accounted > MaxFiles THEN Accounted ELSE MaxFiles
FinishedCount == ServerCount(Ended) + RowCount({"failed", "cancelled"})

\* A paper whose file this page has handed over comes to be in its list, even
\* when its job was seen parsed before the answer to its upload, or the page is
\* loaded again in between; and the panel of a batch comes to its end, cancelled
\* or not: no file of it stays queued or in work on the page for ever.
UploadsReachTheList ==
    /\ \A f \in File : f \in submittedHere /\ uploadJob[f] = "succeeded" ~> f \in libraryCache
    /\ expectedBatch # 0 ~> expectedBatch = 0 \/ FinishedCount = TotalCount
=============================================================================
