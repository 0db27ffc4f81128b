------------------------------ MODULE DraftPage ------------------------------
(* The draft page (DraftPage.tsx): editing paragraphs and title in place       *)
(* (ParagraphManualEditor.tsx, DraftManuscriptFields.tsx), deciding on         *)
(* candidates, merging a changed section (DraftUpstreamSync.tsx), restoring    *)
(* and approving (approveCurrentDraft.ts), beside other writers (drafts.py).   *)
(* A text, a title and an artifact are known by the revision that made them.   *)
EXTENDS Integers, Sequences

CONSTANTS
    Para,               \* paragraphs of the draft
    NoDraft,            \* nothing loaded, nothing under way
    MaxDraftWrites,     \* bound on what the server accepts
    MaxDraftSteps       \* bound on what the user does

ASSUME DraftAssumption == MaxDraftWrites \in Nat /\ MaxDraftSteps \in Nat

VARIABLES
    draftLog,       \* server: by revision the artifact, its texts and title, what is approved
    candidates,     \* server: proposals for a paragraph
    draftCache,     \* the draft the query holds: artifact, revision, proposals
    draftFetch,     \* artifact of a draft the server has read the first half of
    draftDue,       \* the draft is to be fetched
    textEdit,       \* by paragraph, an unsaved edit; outlives the page
    textSave,       \* the edit being saved
    fieldsEdit,     \* unsaved title; outlives the page
    fieldsSave,     \* the title being saved
    approving,      \* approving: what was viewed, how far it is
    deciding,       \* proposals still to be decided on
    merging,        \* merge of a section: the draft it was made for
    draftSteps      \* what the user has done

manuscriptVars == <<draftLog, candidates>>
draftQueryVars == <<draftCache, draftFetch, draftDue>>
draftEditVars == <<textEdit, textSave, fieldsEdit, fieldsSave>>
draftCommandVars == <<approving, deciding, merging>>
draftVars == <<manuscriptVars, draftQueryVars, draftEditVars, draftCommandVars, draftSteps>>

Now == Len(draftLog)
Current == draftLog[Now]
Unapproved == 0

DraftWritable == Now <= MaxDraftWrites
DraftStep == draftSteps < MaxDraftSteps /\ draftSteps' = draftSteps + 1

-----------------------------------------------------------------------------
(* The server.                                                                 *)

\* New prose is a new artifact, which nobody has approved.
WriteProse(entry) ==
    /\ DraftWritable
    /\ draftLog' = Append(draftLog, [entry EXCEPT !.art = Now + 1, !.approved = Unapproved])

WriteParagraph(p) == WriteProse([Current EXCEPT !.text[p] = Now + 1])
WriteTitle == WriteProse([Current EXCEPT !.title = Now + 1])

\* Another tab or user writes.
DraftElsewhere ==
    /\ WriteTitle \/ \E p \in Para : WriteParagraph(p)
    /\ UNCHANGED <<candidates, draftQueryVars, draftEditVars, draftCommandVars, draftSteps>>

\* A dialogue or an analysis ends: the revision moves, the prose does not.
ProposeElsewhere ==
    /\ DraftWritable /\ draftLog' = Append(draftLog, Current)
    /\ \E p \in Para : candidates' = candidates \cup
          {[id |-> Now + 1, para |-> p, base |-> Current.text[p], status |-> "pending"]}
    /\ UNCHANGED <<draftQueryVars, draftEditVars, draftCommandVars, draftSteps>>

\* Accepting a proposal supersedes the others of its paragraph.
Settled(c, status) ==
    {IF d.id = c.id THEN [d EXCEPT !.status = status]
     ELSE IF status = "accepted" /\ d.para = c.para /\ d.status = "pending"
          THEN [d EXCEPT !.status = "superseded"] ELSE d : d \in candidates}

-----------------------------------------------------------------------------
(* The query.                                                                  *)

\* The server reads the prose first, its revision later.
FetchDraft ==
    /\ draftDue /\ draftFetch = NoDraft
    /\ draftFetch' = Current.art /\ draftDue' = FALSE
    /\ UNCHANGED <<manuscriptVars, draftCache, draftEditVars, draftCommandVars, draftSteps>>

Refresh == draftFetch' = NoDraft /\ draftDue' = TRUE

\* The editors of what has been saved are emptied after the refresh.
DraftArrives ==
    /\ draftFetch # NoDraft
    /\ draftCache' = [art |-> draftFetch, rev |-> Now, pending |-> {c \in candidates : c.status = "pending"}]
    /\ draftFetch' = NoDraft
    /\ IF textSave # NoDraft /\ textSave.stored
       THEN textEdit' = [textEdit EXCEPT ![textSave.para] = NoDraft] /\ textSave' = NoDraft
       ELSE UNCHANGED <<textEdit, textSave>>
    /\ IF fieldsSave # NoDraft /\ fieldsSave.stored
       THEN fieldsEdit' = NoDraft /\ fieldsSave' = NoDraft
       ELSE UNCHANGED <<fieldsEdit, fieldsSave>>
    /\ UNCHANGED <<manuscriptVars, draftDue, draftCommandVars, draftSteps>>

ShownText == draftLog[draftCache.art]

\* Edits outlive the page, requests and what is loaded do not.
ReloadDraft ==
    /\ draftCache # NoDraft
    /\ draftCache' = NoDraft /\ Refresh
    /\ textSave' = NoDraft /\ fieldsSave' = NoDraft
    /\ approving' = NoDraft /\ deciding' = NoDraft /\ merging' = NoDraft
    /\ DraftStep
    /\ UNCHANGED <<manuscriptVars, textEdit, fieldsEdit>>

-----------------------------------------------------------------------------
(* Editing in place.                                                           *)

\* An edit keeps the text it began on.
EditParagraph(p) ==
    /\ draftCache # NoDraft /\ textEdit[p] = NoDraft /\ textSave = NoDraft /\ deciding = NoDraft
    /\ textEdit' = [textEdit EXCEPT ![p] = ShownText.text[p]]
    /\ DraftStep
    /\ UNCHANGED <<manuscriptVars, draftQueryVars, textSave, fieldsEdit, fieldsSave, draftCommandVars>>

UndoText(p) ==
    /\ draftCache # NoDraft /\ textEdit[p] # NoDraft /\ textSave = NoDraft
    /\ textEdit' = [textEdit EXCEPT ![p] = NoDraft]
    /\ UNCHANGED <<manuscriptVars, draftQueryVars, textSave, fieldsEdit, fieldsSave, draftCommandVars, draftSteps>>

BaseShown(p) == ShownText.text[p]

\* The text the edit was made on.
BaseOf(p) == textEdit[p]

SaveText(p) ==
    /\ draftCache # NoDraft /\ textEdit[p] # NoDraft /\ textSave = NoDraft /\ deciding = NoDraft
    /\ textSave' = [para |-> p, base |-> BaseOf(p), stored |-> FALSE]
    /\ UNCHANGED <<manuscriptVars, draftQueryVars, textEdit, fieldsEdit, fieldsSave, draftCommandVars, draftSteps>>

\* The server looks at the paragraph only, whatever else has changed. A refused
\* edit, or one whose answer is lost, stays.
TextStored ==
    /\ textSave # NoDraft /\ ~textSave.stored
    /\ \/ /\ Current.text[textSave.para] = textSave.base
          /\ WriteParagraph(textSave.para)
          /\ \/ textSave' = [textSave EXCEPT !.stored = TRUE] /\ Refresh /\ UNCHANGED draftCache
             \/ textSave' = NoDraft /\ UNCHANGED draftQueryVars
       \/ textSave' = NoDraft /\ UNCHANGED <<draftLog, draftQueryVars>>
    /\ UNCHANGED <<candidates, textEdit, fieldsEdit, fieldsSave, draftCommandVars, draftSteps>>

\* What is shown is the title of the revision it is held under.
WholeRead == ShownText.title = draftLog[draftCache.rev].title

EditFields ==
    /\ draftCache # NoDraft /\ fieldsEdit = NoDraft /\ fieldsSave = NoDraft
    /\ fieldsEdit' = [base |-> ShownText.title, rev |-> draftCache.rev, whole |-> WholeRead]
    /\ DraftStep
    /\ UNCHANGED <<manuscriptVars, draftQueryVars, textEdit, textSave, fieldsSave, draftCommandVars>>

\* Only another title is a conflict, not another revision.
FieldsConflict == fieldsEdit.rev # draftCache.rev /\ fieldsEdit.base # ShownText.title

ReloadFields ==
    /\ draftCache # NoDraft /\ fieldsEdit # NoDraft /\ fieldsSave = NoDraft
    /\ fieldsEdit' = NoDraft
    /\ UNCHANGED <<manuscriptVars, draftQueryVars, textEdit, textSave, fieldsSave, draftCommandVars, draftSteps>>

SaveFields ==
    /\ draftCache # NoDraft /\ fieldsEdit # NoDraft /\ fieldsSave = NoDraft
    /\ ~FieldsConflict
    /\ fieldsSave' = [rev |-> draftCache.rev, whole |-> fieldsEdit.whole /\ WholeRead, stored |-> FALSE]
    /\ UNCHANGED <<manuscriptVars, draftQueryVars, textEdit, textSave, fieldsEdit, draftCommandVars, draftSteps>>

FieldsStored ==
    /\ fieldsSave # NoDraft /\ ~fieldsSave.stored
    /\ \/ /\ fieldsSave.rev = Now /\ WriteTitle
          /\ fieldsSave' = [fieldsSave EXCEPT !.stored = TRUE] /\ Refresh /\ UNCHANGED draftCache
       \/ fieldsSave' = NoDraft /\ UNCHANGED <<draftLog, draftQueryVars>>
    /\ UNCHANGED <<candidates, textEdit, textSave, fieldsEdit, draftCommandVars, draftSteps>>

-----------------------------------------------------------------------------
(* Commands; they wait for the edits to be saved or undone.                    *)

RequireSaved ==
    /\ draftCache # NoDraft
    /\ fieldsEdit = NoDraft /\ \A p \in Para : textEdit[p] = NoDraft

\* Approving reads the draft anew and compares it with what is shown.
Approve ==
    /\ RequireSaved /\ approving = NoDraft
    /\ approving' = [viewed |-> draftCache.art, attempt |-> 1, phase |-> "prose", art |-> 0, rev |-> 0]
    /\ DraftStep
    /\ UNCHANGED <<manuscriptVars, draftQueryVars, draftEditVars, deciding, merging>>

ApproveReads ==
    /\ approving # NoDraft
    /\ \/ approving.phase = "prose" /\ approving' = [approving EXCEPT !.phase = "revision", !.art = Current.art]
       \/ approving.phase = "revision" /\ approving' = [approving EXCEPT !.phase = "check", !.rev = Now]
    /\ UNCHANGED <<manuscriptVars, draftQueryVars, draftEditVars, deciding, merging, draftSteps>>

\* Compared in each of two attempts.
Viewed == approving.art = approving.viewed

\* A conflict has the draft read once more; approving changes the revision.
ApproveAnswered ==
    /\ approving # NoDraft /\ approving.phase = "check"
    /\ \/ /\ Viewed /\ approving.rev = Now /\ DraftWritable
          /\ draftLog' = Append(draftLog, [Current EXCEPT !.approved = Current.art])
          /\ approving' = NoDraft /\ Refresh /\ UNCHANGED draftCache
       \/ /\ Viewed /\ approving.rev # Now /\ approving.attempt = 1
          /\ approving' = [approving EXCEPT !.attempt = 2, !.phase = "prose"]
          /\ UNCHANGED <<draftLog, draftQueryVars>>
       \/ approving' = NoDraft /\ UNCHANGED <<draftLog, draftQueryVars>>
    /\ UNCHANGED <<candidates, draftEditVars, deciding, merging, draftSteps>>

\* An older version becomes current under the revision the page knows.
Restore ==
    /\ RequireSaved
    /\ \E k \in 1..draftCache.rev :
          /\ draftLog[k].art # Current.art
          /\ draftCache.rev = Now /\ WriteProse(draftLog[k])
    /\ Refresh /\ DraftStep
    /\ UNCHANGED <<candidates, draftCache, draftEditVars, draftCommandVars>>

\* The checked proposals are decided on one after another.
DecideCandidates(ids, action) ==
    /\ draftCache # NoDraft /\ deciding = NoDraft /\ ids # {}
    /\ action = "accept" => RequireSaved
    /\ deciding' = [left |-> ids, action |-> action]
    /\ DraftStep
    /\ UNCHANGED <<manuscriptVars, draftQueryVars, draftEditVars, approving, merging>>

Accepted(c) == c.status = "pending" /\ Current.text[c.para] = c.base /\ WriteParagraph(c.para)
Rejected(c) == c.status = "pending" /\ DraftWritable /\ draftLog' = Append(draftLog, Current)

\* One that is refused does not keep the others from being tried.
DecideNext ==
    /\ deciding # NoDraft /\ deciding.left # {}
    /\ \E id \in deciding.left :
          /\ deciding' = [deciding EXCEPT !.left = @ \ {id}]
          /\ \/ \E c \in {d \in candidates : d.id = id} :
                   \/ deciding.action = "accept" /\ textEdit[c.para] = NoDraft
                         /\ Accepted(c) /\ candidates' = Settled(c, "accepted")
                   \/ deciding.action = "reject" /\ Rejected(c) /\ candidates' = Settled(c, "rejected")
             \/ UNCHANGED manuscriptVars
    /\ UNCHANGED <<draftQueryVars, draftEditVars, approving, merging, draftSteps>>

DecideEnds ==
    /\ deciding # NoDraft /\ deciding.left = {}
    /\ deciding' = NoDraft /\ Refresh
    /\ UNCHANGED <<manuscriptVars, draftCache, draftEditVars, approving, merging, draftSteps>>

\* The differences of a section to the draft; they go with the draft they were
\* made for.
InspectSection ==
    /\ draftCache # NoDraft /\ merging = NoDraft
    /\ merging' = [art |-> Current.art, sent |-> FALSE]
    /\ DraftStep
    /\ UNCHANGED <<manuscriptVars, draftQueryVars, draftEditVars, approving, deciding>>

MergeSection ==
    /\ merging # NoDraft /\ ~merging.sent /\ RequireSaved /\ merging.art = draftCache.art
    /\ merging' = [merging EXCEPT !.sent = TRUE]
    /\ UNCHANGED <<manuscriptVars, draftQueryVars, draftEditVars, approving, deciding, draftSteps>>

SectionMerged ==
    /\ merging # NoDraft /\ merging.sent
    /\ \/ /\ merging.art = Current.art /\ \E p \in Para : WriteParagraph(p)
          /\ merging' = NoDraft /\ Refresh /\ UNCHANGED draftCache
       \/ merging' = [merging EXCEPT !.sent = FALSE] /\ UNCHANGED <<draftLog, draftQueryVars>>
    /\ UNCHANGED <<candidates, draftEditVars, approving, deciding, draftSteps>>

-----------------------------------------------------------------------------

DraftInit ==
    /\ draftLog = <<[art |-> 1, text |-> [p \in Para |-> 1], title |-> 1, approved |-> Unapproved]>>
    /\ candidates = {}
    /\ draftCache = NoDraft /\ draftFetch = NoDraft /\ draftDue = TRUE
    /\ textEdit = [p \in Para |-> NoDraft] /\ textSave = NoDraft
    /\ fieldsEdit = NoDraft /\ fieldsSave = NoDraft
    /\ approving = NoDraft /\ deciding = NoDraft /\ merging = NoDraft
    /\ draftSteps = 0

CheckedIds == IF draftCache = NoDraft THEN {} ELSE {c.id : c \in draftCache.pending}

DraftNext ==
    \/ DraftElsewhere \/ ProposeElsewhere
    \/ FetchDraft \/ DraftArrives \/ ReloadDraft
    \/ \E p \in Para : EditParagraph(p) \/ UndoText(p) \/ SaveText(p)
    \/ TextStored \/ EditFields \/ ReloadFields \/ SaveFields \/ FieldsStored
    \/ Approve \/ ApproveReads \/ ApproveAnswered \/ Restore
    \/ \E ids \in SUBSET CheckedIds, action \in {"accept", "reject"} : DecideCandidates(ids, action)
    \/ DecideNext \/ DecideEnds
    \/ InspectSection \/ MergeSection \/ SectionMerged

DraftSpec == DraftInit /\ [][DraftNext]_draftVars

-----------------------------------------------------------------------------
(* Properties.                                                                 *)

ParagraphReplaces ==
    (textSave # NoDraft /\ ~textSave.stored /\ textSave' # NoDraft /\ textSave'.stored)
        => Current.text[textSave.para] = textEdit[textSave.para]

TitleReplaces ==
    (fieldsSave # NoDraft /\ ~fieldsSave.stored /\ fieldsSave' # NoDraft /\ fieldsSave'.stored)
        => (fieldsSave.whole => Current.title = fieldsEdit.base)

\* What an editor saves replaces the text its author had before him when he
\* began, although drafts are fetched anew under the edit and edits outlive the
\* page. A title read with the revision of a later one is the exception.
SavesReplaceWhatWasEdited == [][ParagraphReplaces /\ TitleReplaces]_draftVars

ApprovesHere ==
    /\ approving # NoDraft /\ approving' = NoDraft /\ draftLog' # draftLog
    /\ draftLog'[Now + 1].approved # Unapproved /\ draftLog'[Now + 1].art = Current.art

\* What gets approved here is the prose that was on the page when the user
\* pressed the button, whatever revisions come and go ("approve only viewed
\* prose"). The code lets it differ when prose is written between the two reads
\* of one answer.
ApprovedProseWasViewed ==
    [][ApprovesHere => draftLog'[Now + 1].approved = approving.viewed]_draftVars
=============================================================================
