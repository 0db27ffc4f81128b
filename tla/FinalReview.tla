----------------------------- MODULE FinalReview -----------------------------
(* The two dialogs of the final's issues: correcting the bibliography of a     *)
(* reference (FinalIssuesPanel.tsx), with a merge when somebody else has saved *)
(* the record, and reviewing a figure's caption (FinalFigureReview.tsx). What  *)
(* others write is a positive number, what this user types a negative one.     *)
EXTENDS Integers

CONSTANTS
    Field,              \* fields of the bibliography
    NoReference,        \* nothing loaded, nothing under way
    MaxCorrections,     \* bound on what others save
    MaxReviewSteps      \* bound on what the user does

ASSUME IssueAssumption == MaxCorrections \in Nat /\ MaxReviewSteps \in Nat

VARIABLES
    record,         \* server: version and fields of the reference
    figureState,    \* server: state of the figure and its prose, and the caption
    baseline,       \* the record the dialog began with, or was last merged with
    values,         \* the fields of the dialog
    collisions,     \* fields that both have changed
    confirmed,      \* the user says that he has checked
    correcting,     \* the request to save, or how it ended
    figureCache,    \* the figure as it was read last
    caption,        \* the caption of the dialog, and the state it was typed for
    reviewing,      \* the request to save the figure, or how it ended
    sync,           \* the assembly after saving
    reviewSteps     \* what the user has done

bibliographyVars == <<baseline, values, collisions, confirmed, correcting>>
captionVars == <<figureCache, caption, reviewing>>
issueServerVars == <<record, figureState>>
finalReviewVars == <<issueServerVars, bibliographyVars, captionVars, sync, reviewSteps>>

ReviewStep == reviewSteps < MaxReviewSteps /\ reviewSteps' = reviewSteps + 1
Typed == -(reviewSteps + 1)

\* How a request to save stands: none, under way, taken, refused.
AtRest == [phase |-> "open"]
Saved == [phase |-> "saved"]
Conflict == [phase |-> "conflict"]

\* One dialog is open at a time.
NoFigureDialog == figureCache = NoReference
NoReferenceDialog == baseline = NoReference

-----------------------------------------------------------------------------
(* Others.                                                                     *)

CorrectedElsewhere ==
    /\ record.version < MaxCorrections
    /\ \E f \in Field : record' = [version |-> record.version + 1, value |-> [record.value EXCEPT ![f] = record.version + 1]]
    /\ UNCHANGED <<figureState, bibliographyVars, captionVars, sync, reviewSteps>>

FigureElsewhere ==
    /\ figureState.print < MaxCorrections
    /\ figureState' = [print |-> figureState.print + 1, caption |-> figureState.print + 1]
    /\ UNCHANGED <<record, bibliographyVars, captionVars, sync, reviewSteps>>

-----------------------------------------------------------------------------
(* The bibliography.                                                           *)

\* The first answer fills the form, later ones do not.
OpenReference ==
    /\ NoReferenceDialog /\ NoFigureDialog /\ sync = "none"
    /\ baseline' = record /\ values' = record.value
    /\ collisions' = {} /\ confirmed' = FALSE /\ correcting' = AtRest
    /\ UNCHANGED <<issueServerVars, captionVars, sync, reviewSteps>>

CorrectField(f) ==
    /\ baseline # NoReference /\ correcting \in {AtRest, Conflict}
    /\ values' = [values EXCEPT ![f] = Typed]
    /\ ReviewStep
    /\ UNCHANGED <<issueServerVars, baseline, collisions, confirmed, correcting, captionVars, sync>>

ConfirmReference ==
    /\ baseline # NoReference /\ correcting \in {AtRest, Conflict} /\ ~confirmed
    /\ confirmed' = TRUE
    /\ UNCHANGED <<issueServerVars, baseline, values, collisions, correcting, captionVars, sync, reviewSteps>>

SaveCorrection ==
    /\ baseline # NoReference /\ correcting = AtRest /\ confirmed
    /\ correcting' = [phase |-> "sent", version |-> baseline.version, value |-> values]
    /\ ReviewStep
    /\ UNCHANGED <<issueServerVars, baseline, values, collisions, confirmed, captionVars, sync>>

Sending == correcting.phase = "sent"

\* Every field is written under the version the form was made from. A lost
\* answer leaves the form as it is.
CorrectionStored ==
    /\ Sending
    /\ \/ /\ correcting.version = record.version
          /\ record' = [version |-> record.version + 1, value |-> correcting.value]
          /\ \/ correcting' = Saved /\ sync' = "pending"
             \/ correcting' = AtRest /\ UNCHANGED sync
       \/ correcting.version # record.version /\ correcting' = Conflict /\ UNCHANGED <<record, sync>>
       \/ correcting' = AtRest /\ UNCHANGED <<record, sync>>
    /\ UNCHANGED <<figureState, baseline, values, collisions, confirmed, captionVars, reviewSteps>>

\* The fields the user has changed are kept, the others become the latest ones.
MergedForm(fresh) == values

MergedFields(fresh) == [f \in Field |-> IF values[f] # baseline.value[f] THEN values[f] ELSE fresh.value[f]]

Collisions(fresh) ==
    {f \in Field : values[f] # baseline.value[f] /\ fresh.value[f] \notin {baseline.value[f], values[f]}}

\* The latest record is merged into the form, which has to be confirmed again.
ReloadReference ==
    /\ baseline # NoReference /\ correcting = Conflict
    /\ values' = MergedFields(record) /\ collisions' = Collisions(record)
    /\ baseline' = record /\ confirmed' = FALSE /\ correcting' = AtRest
    /\ UNCHANGED <<issueServerVars, captionVars, sync, reviewSteps>>

CloseReference ==
    /\ baseline # NoReference /\ ~Sending /\ sync # "pending"
    /\ baseline' = NoReference /\ values' = [f \in Field |-> 0] /\ collisions' = {}
    /\ confirmed' = FALSE /\ correcting' = AtRest /\ sync' = "none"
    /\ UNCHANGED <<issueServerVars, captionVars, reviewSteps>>

-----------------------------------------------------------------------------
(* The figure.                                                                 *)

\* Every answer fills in the caption.
CaptionRead == [text |-> figureState.caption, of |-> figureState.print]

\* On opening, and again when the network comes back.
ReadFigure ==
    /\ NoReferenceDialog /\ reviewing \in {AtRest, Conflict}
    /\ figureCache = NoReference => sync = "none"
    /\ figureCache # NoReference => figureCache # figureState.print
    /\ figureCache' = figureState.print /\ caption' = CaptionRead
    /\ UNCHANGED <<issueServerVars, bibliographyVars, reviewing, sync, reviewSteps>>

EditCaption ==
    /\ figureCache # NoReference /\ reviewing \in {AtRest, Conflict}
    /\ caption' = [text |-> Typed, of |-> figureCache]
    /\ ReviewStep
    /\ UNCHANGED <<issueServerVars, bibliographyVars, figureCache, reviewing, sync>>

SaveFigureReview ==
    /\ figureCache # NoReference /\ reviewing \in {AtRest, Conflict}
    /\ reviewing' = [phase |-> "sent", print |-> figureCache, caption |-> caption]
    /\ ReviewStep
    /\ UNCHANGED <<issueServerVars, bibliographyVars, figureCache, caption, sync>>

\* A review is a state of its own: the next one needs a fresh look.
FigureReviewStored ==
    /\ reviewing.phase = "sent"
    /\ \/ /\ reviewing.print = figureState.print
          /\ figureState' = [print |-> figureState.print + 1, caption |-> reviewing.caption.text]
          /\ reviewing' = Saved /\ sync' = "pending"
       \/ reviewing' = Conflict /\ UNCHANGED <<figureState, sync>>
    /\ UNCHANGED <<record, bibliographyVars, figureCache, caption, reviewSteps>>

CloseFigure ==
    /\ figureCache # NoReference /\ reviewing \in {AtRest, Conflict, Saved} /\ sync # "pending"
    /\ figureCache' = NoReference /\ caption' = [text |-> 0, of |-> 0] /\ reviewing' = AtRest /\ sync' = "none"
    /\ UNCHANGED <<issueServerVars, bibliographyVars, reviewSteps>>

-----------------------------------------------------------------------------

\* What was saved is assembled; a failed attempt can be repeated.
SyncStep ==
    /\ \/ sync = "pending" /\ sync' \in {"done", "failed"} /\ UNCHANGED reviewSteps
       \/ sync = "failed" /\ sync' = "pending" /\ ReviewStep
    /\ UNCHANGED <<issueServerVars, bibliographyVars, captionVars>>

FinalReviewInit ==
    /\ record = [version |-> 0, value |-> [f \in Field |-> 0]]
    /\ figureState = [print |-> 0, caption |-> 0]
    /\ baseline = NoReference /\ values = [f \in Field |-> 0] /\ collisions = {}
    /\ confirmed = FALSE /\ correcting = AtRest
    /\ figureCache = NoReference /\ caption = [text |-> 0, of |-> 0] /\ reviewing = AtRest
    /\ sync = "none" /\ reviewSteps = 0

FinalReviewNext ==
    \/ CorrectedElsewhere \/ FigureElsewhere
    \/ OpenReference \/ ConfirmReference \/ SaveCorrection \/ CorrectionStored
    \/ \E f \in Field : CorrectField(f)
    \/ ReloadReference \/ CloseReference
    \/ ReadFigure \/ EditCaption \/ SaveFigureReview \/ FigureReviewStored \/ CloseFigure
    \/ SyncStep

FinalReviewSpec == FinalReviewInit /\ [][FinalReviewNext]_finalReviewVars

-----------------------------------------------------------------------------
(* Properties.                                                                 *)

\* A correction replaces a field that somebody else has written only by what
\* this user has typed in, after conflicts, merges and lost answers; a caption
\* is stored for the state of the figure it was typed or shown for.
CorrectionsKeepOthersFields ==
    [][/\ record' # record /\ correcting' # correcting => \A f \in Field : record'.value[f] # record.value[f] => record'.value[f] < 0
       /\ reviewing' = Saved /\ reviewing # Saved => reviewing.caption.of = figureState.print]_finalReviewVars
=============================================================================
