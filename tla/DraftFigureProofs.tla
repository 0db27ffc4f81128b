------------------------- MODULE DraftFigureProofs -------------------------
(* Theorems about the pages of figures and drafts: what an editor saves        *)
(* replaces what its author saw when he began, what is approved is what was    *)
(* viewed, a note stays with its paper, a message becomes one turn, and the    *)
(* figure editor opens a saved document on what was on its canvas.             *)
EXTENDS DraftPage, FigurePages, ChapterDialogue, SvgEditor, SequenceTheorems, TLAPS

-----------------------------------------------------------------------------
(* DraftPage: its invariant.                                                   *)

Entry == [art : Nat, text : [Para -> Nat], title : Nat, approved : Nat]

\* The server only appends to its history.
LogInv == draftLog \in Seq(Entry) /\ Len(draftLog) >= 1
LogGrows == LogInv' /\ Len(draftLog') >= Len(draftLog) /\ \A k \in 1..Len(draftLog) : draftLog'[k] = draftLog[k]

CacheInv == draftCache = NoDraft \/ draftCache.rev \in 1..Len(draftLog)

\* A paragraph that is being saved was edited from the text that is sent along.
TextInv ==
    \/ textSave = NoDraft
    \/ /\ textSave = [para |-> textSave.para, base |-> textSave.base, stored |-> textSave.stored]
       /\ ~textSave.stored => textSave.base = textEdit[textSave.para]

\* A title is edited, and saved, under a revision that has the title it began
\* with, when it was read together with that.
FieldsEditInv ==
    \/ fieldsEdit = NoDraft
    \/ /\ fieldsEdit.rev \in 1..Len(draftLog)
       /\ fieldsEdit.whole => draftLog[fieldsEdit.rev].title = fieldsEdit.base

FieldsSaveInv ==
    \/ fieldsSave = NoDraft
    \/ /\ fieldsSave = [rev |-> fieldsSave.rev, whole |-> fieldsSave.whole, stored |-> fieldsSave.stored]
       /\ fieldsSave.rev \in 1..Len(draftLog)
       /\ fieldsSave.whole => draftLog[fieldsSave.rev].title = fieldsEdit.base

DraftInv == LogInv /\ CacheInv /\ TextInv /\ FieldsEditInv /\ FieldsSaveInv

-----------------------------------------------------------------------------
(* The history.                                                                *)

LEMMA AppendGrows ==
    ASSUME LogInv, NEW entry \in Entry, draftLog' = Append(draftLog, entry)
    PROVE  LogGrows /\ Len(draftLog') = Len(draftLog) + 1 /\ draftLog'[Len(draftLog) + 1] = entry
<1>1. draftLog \in Seq(Entry) /\ Len(draftLog) \in Nat /\ Len(draftLog) >= 1
  BY DEF LogInv
<1>2. /\ draftLog' \in Seq(Entry) /\ Len(draftLog') = Len(draftLog) + 1
      /\ \A k \in 1..Len(draftLog) : draftLog'[k] = draftLog[k]
      /\ draftLog'[Len(draftLog) + 1] = entry
  BY <1>1
<1>3. QED
  BY <1>1, <1>2 DEF LogGrows, LogInv

LEMMA CurrentTyped ==
    ASSUME LogInv
    PROVE  Current \in Entry /\ Now \in Nat /\ Now >= 1 /\ \A k \in 1..Now : draftLog[k] \in Entry
BY DEF LogInv, Current, Now

LEMMA ProseGrows ==
    ASSUME LogInv, NEW entry \in Entry, WriteProse(entry)
    PROVE  LogGrows
<1>1. Now \in Nat
  BY CurrentTyped
<1>2. [entry EXCEPT !.art = Now + 1] \in Entry
  BY <1>1 DEF Entry
<1>3. ASSUME NEW e \in Entry PROVE [e EXCEPT !.approved = Unapproved] \in Entry
  BY DEF Entry, Unapproved
<1>4. [[entry EXCEPT !.art = Now + 1] EXCEPT !.approved = Unapproved] \in Entry
  BY <1>2, <1>3, Zenon
<1>5. draftLog' = Append(draftLog, [[entry EXCEPT !.art = Now + 1] EXCEPT !.approved = Unapproved])
  BY Zenon DEF WriteProse
<1>6. QED
  BY <1>4, <1>5, AppendGrows

LEMMA ParagraphGrows == ASSUME LogInv, NEW p, WriteParagraph(p) PROVE LogGrows
<1>1. Current \in Entry /\ Now + 1 \in Nat
  BY CurrentTyped
<1>2. [Current EXCEPT !.text[p] = Now + 1] \in Entry
  BY <1>1 DEF Entry
<1>3. QED
  BY <1>2, ProseGrows DEF WriteParagraph

LEMMA TitleGrows == ASSUME LogInv, WriteTitle PROVE LogGrows
<1>1. Current \in Entry /\ Now + 1 \in Nat
  BY CurrentTyped
<1>2. [Current EXCEPT !.title = Now + 1] \in Entry
  BY <1>1 DEF Entry
<1>3. QED
  BY <1>2, ProseGrows DEF WriteTitle

LEMMA StutterGrows == ASSUME LogInv, UNCHANGED draftLog PROVE LogGrows
BY DEF LogInv, LogGrows

-----------------------------------------------------------------------------
(* The invariant.                                                              *)

LEMMA DraftInitially == DraftInit => DraftInv
<1> SUFFICES ASSUME DraftInit PROVE DraftInv
  OBVIOUS
<1>1. [art |-> 1, text |-> [p \in Para |-> 1], title |-> 1, approved |-> Unapproved] \in Entry
  BY DEF Entry, Unapproved
<1>2. LogInv
  BY <1>1 DEF DraftInit, LogInv
<1>3. QED
  BY <1>2 DEF DraftInit, DraftInv, CacheInv, TextInv, FieldsEditInv, FieldsSaveInv

\* What refers to the history is not disturbed when it grows.
LEMMA CacheKept == ASSUME LogInv, CacheInv, LogGrows, UNCHANGED draftCache PROVE CacheInv'
BY DEF LogInv, CacheInv, LogGrows

LEMMA TextKept == ASSUME TextInv, UNCHANGED <<textEdit, textSave>> PROVE TextInv'
BY DEF TextInv

LEMMA FieldsKept ==
    ASSUME LogInv, FieldsEditInv, FieldsSaveInv, LogGrows, UNCHANGED fieldsEdit,
           fieldsSave' = NoDraft \/ UNCHANGED fieldsSave
    PROVE  FieldsEditInv' /\ FieldsSaveInv'
<1>1. Len(draftLog') \in Nat /\ Len(draftLog) \in Nat /\ Len(draftLog') >= Len(draftLog)
  BY DEF LogInv, LogGrows
<1>2. ASSUME NEW k \in 1..Len(draftLog)
      PROVE  k \in 1..Len(draftLog') /\ draftLog'[k] = draftLog[k]
  BY <1>1 DEF LogGrows
<1>3. FieldsEditInv'
  BY <1>2 DEF FieldsEditInv
<1>4. FieldsSaveInv'
  BY <1>2 DEF FieldsSaveInv
<1>5. QED
  BY <1>3, <1>4

LEMMA EditsKept ==
    ASSUME DraftInv, LogGrows, UNCHANGED <<draftCache, draftEditVars>>
    PROVE  DraftInv'
<1>1. LogInv'
  BY DEF LogGrows
<1>2. QED
  BY <1>1, CacheKept, TextKept, FieldsKept DEF DraftInv, draftEditVars

\* An action that writes prose, or nothing, and touches none of the editors.
LEMMA CommandsKeepInv ==
    ASSUME DraftInv, UNCHANGED <<draftCache, draftEditVars>>,
           \/ UNCHANGED draftLog
           \/ \E p : WriteParagraph(p)
           \/ WriteTitle
           \/ \E k \in 1..Now : WriteProse(draftLog[k])
           \/ \E n \in Nat : draftLog' = Append(draftLog, [Current EXCEPT !.approved = n])
           \/ draftLog' = Append(draftLog, Current)
    PROVE  DraftInv'
<1>1. LogInv
  BY DEF DraftInv
<1>2. Current \in Entry /\ \A k \in 1..Now : draftLog[k] \in Entry
  BY <1>1, CurrentTyped
<1>3. CASE UNCHANGED draftLog
  BY <1>1, <1>3, StutterGrows, EditsKept
<1>4. CASE \E p : WriteParagraph(p)
  BY <1>1, <1>4, ParagraphGrows, EditsKept
<1>5. CASE WriteTitle
  BY <1>1, <1>5, TitleGrows, EditsKept
<1>6. CASE \E k \in 1..Now : WriteProse(draftLog[k])
  BY <1>1, <1>2, <1>6, ProseGrows, EditsKept
<1>7. CASE \E n \in Nat : draftLog' = Append(draftLog, [Current EXCEPT !.approved = n])
  <2>1. PICK n \in Nat : draftLog' = Append(draftLog, [Current EXCEPT !.approved = n])
    BY <1>7
  <2>2. [Current EXCEPT !.approved = n] \in Entry
    BY <1>2 DEF Entry
  <2>3. QED
    BY <1>1, <2>1, <2>2, AppendGrows, EditsKept
<1>8. CASE draftLog' = Append(draftLog, Current)
  BY <1>1, <1>2, <1>8, AppendGrows, EditsKept
<1>9. QED
  BY <1>3, <1>4, <1>5, <1>6, <1>7, <1>8

LEMMA DraftStepKeepsInv == DraftInv /\ [DraftNext]_draftVars => DraftInv'
<1> SUFFICES ASSUME DraftInv, [DraftNext]_draftVars PROVE DraftInv'
  OBVIOUS
<1>0. LogInv /\ CacheInv /\ TextInv /\ FieldsEditInv /\ FieldsSaveInv /\ Now = Len(draftLog) /\ Now \in Nat /\ Now >= 1
  BY CurrentTyped DEF DraftInv, Now
<1>1. CASE DraftElsewhere
  BY <1>1, CommandsKeepInv DEF DraftElsewhere, draftQueryVars
<1>2. CASE ProposeElsewhere
  BY <1>2, CommandsKeepInv DEF ProposeElsewhere, draftQueryVars
<1>3. CASE FetchDraft
  BY <1>3, CommandsKeepInv DEF FetchDraft, manuscriptVars
<1>4. CASE DraftArrives
  <2>1. LogGrows /\ LogInv'
    BY <1>0, <1>4, StutterGrows DEF DraftArrives, manuscriptVars, LogGrows
  <2>2. CacheInv'
    BY <1>0, <1>4 DEF DraftArrives, manuscriptVars, CacheInv, Now
  <2>3. TextInv'
    BY <1>0, <1>4 DEF DraftArrives, TextInv
  <2>4. FieldsEditInv' /\ FieldsSaveInv'
    <3>1. CASE UNCHANGED <<fieldsEdit, fieldsSave>>
      BY <1>0, <2>1, <3>1, FieldsKept
    <3>2. CASE fieldsEdit' = NoDraft /\ fieldsSave' = NoDraft
      BY <3>2 DEF FieldsEditInv, FieldsSaveInv
    <3>3. QED
      BY <1>4, <3>1, <3>2 DEF DraftArrives
  <2>5. QED
    BY <2>1, <2>2, <2>3, <2>4 DEF DraftInv
<1>5. CASE ReloadDraft
  <2>1. LogGrows /\ LogInv'
    BY <1>0, <1>5, StutterGrows DEF ReloadDraft, manuscriptVars, LogGrows
  <2>2. CacheInv' /\ TextInv'
    BY <1>5 DEF ReloadDraft, CacheInv, TextInv
  <2>3. FieldsEditInv' /\ FieldsSaveInv'
    BY <1>0, <1>5, <2>1, FieldsKept DEF ReloadDraft
  <2>4. QED
    BY <2>1, <2>2, <2>3 DEF DraftInv
<1>6. ASSUME NEW p \in Para, EditParagraph(p) \/ UndoText(p) \/ SaveText(p) PROVE DraftInv'
  <2>1. LogGrows /\ LogInv'
    BY <1>0, <1>6, StutterGrows DEF EditParagraph, UndoText, SaveText, manuscriptVars, LogGrows
  <2>2. CacheInv'
    BY <1>0, <1>6, <2>1, CacheKept DEF EditParagraph, UndoText, SaveText, draftQueryVars
  <2>3. TextInv'
    BY <1>6 DEF EditParagraph, UndoText, SaveText, TextInv, BaseOf
  <2>4. FieldsEditInv' /\ FieldsSaveInv'
    BY <1>0, <1>6, <2>1, FieldsKept DEF EditParagraph, UndoText, SaveText
  <2>5. QED
    BY <2>1, <2>2, <2>3, <2>4 DEF DraftInv
<1>7. CASE TextStored
  <2>1. LogGrows /\ LogInv'
    <3>1. CASE UNCHANGED draftLog
      BY <1>0, <3>1, StutterGrows DEF LogGrows
    <3>2. CASE WriteParagraph(textSave.para)
      BY <1>0, <3>2, ParagraphGrows DEF LogGrows
    <3>3. QED
      BY <1>7, <3>1, <3>2 DEF TextStored
  <2>2. CacheInv'
    BY <1>0, <1>7, <2>1, CacheKept DEF TextStored, draftQueryVars
  <2>3. TextInv'
    <3>1. CASE textSave' = NoDraft
      BY <3>1 DEF TextInv
    <3>2. CASE textSave' = [textSave EXCEPT !.stored = TRUE]
      BY <1>0, <1>7, <3>2 DEF TextStored, TextInv
    <3>3. QED
      BY <1>7, <3>1, <3>2 DEF TextStored
  <2>4. FieldsEditInv' /\ FieldsSaveInv'
    BY <1>0, <1>7, <2>1, FieldsKept DEF TextStored
  <2>5. QED
    BY <2>1, <2>2, <2>3, <2>4 DEF DraftInv
<1>8. CASE EditFields
  <2>1. LogGrows /\ LogInv' /\ UNCHANGED <<draftLog, draftCache, textEdit, textSave, fieldsSave>>
    BY <1>0, <1>8, StutterGrows DEF EditFields, manuscriptVars, draftQueryVars, LogGrows
  <2>2. CacheInv' /\ TextInv'
    BY <1>0, <2>1, CacheKept, TextKept
  <2>3. fieldsEdit' = [base |-> ShownText.title, rev |-> draftCache.rev, whole |-> WholeRead]
    BY <1>8 DEF EditFields
  <2>4. fieldsEdit'.base = ShownText.title /\ fieldsEdit'.rev = draftCache.rev /\ fieldsEdit'.whole = WholeRead
    BY <2>3
  <2>5. draftCache.rev \in 1..Len(draftLog)
    BY <1>0, <1>8 DEF EditFields, CacheInv
  <2>6. FieldsEditInv'
    BY <2>1, <2>4, <2>5 DEF FieldsEditInv, WholeRead
  <2>7. FieldsSaveInv'
    BY <1>8 DEF EditFields, FieldsSaveInv
  <2>8. QED
    BY <2>1, <2>2, <2>6, <2>7 DEF DraftInv
<1>9. CASE ReloadFields
  <2>1. LogGrows /\ LogInv' /\ UNCHANGED <<draftCache, textEdit, textSave, fieldsSave>>
    BY <1>0, <1>9, StutterGrows DEF ReloadFields, manuscriptVars, draftQueryVars, LogGrows
  <2>2. CacheInv' /\ TextInv'
    BY <1>0, <2>1, CacheKept, TextKept
  <2>3. FieldsEditInv' /\ FieldsSaveInv'
    BY <1>9 DEF ReloadFields, FieldsEditInv, FieldsSaveInv
  <2>4. QED
    BY <2>1, <2>2, <2>3 DEF DraftInv
<1>10. CASE SaveFields
  <2>1. LogGrows /\ LogInv' /\ UNCHANGED <<draftLog, draftCache, textEdit, textSave, fieldsEdit>>
    BY <1>0, <1>10, StutterGrows DEF SaveFields, manuscriptVars, draftQueryVars, LogGrows
  <2>2. CacheInv' /\ TextInv' /\ FieldsEditInv'
    BY <1>0, <2>1, CacheKept, TextKept DEF FieldsEditInv
  <2>3. draftCache.rev \in 1..Len(draftLog)
    BY <1>0, <1>10 DEF SaveFields, CacheInv
  <2>4. ASSUME fieldsEdit.whole, WholeRead
        PROVE  draftLog[draftCache.rev].title = fieldsEdit.base
    <3>1. CASE fieldsEdit.rev = draftCache.rev
      BY <1>0, <1>10, <2>4, <3>1 DEF SaveFields, FieldsEditInv
    <3>2. CASE fieldsEdit.base = ShownText.title
      BY <2>4, <3>2 DEF WholeRead
    <3>3. QED
      BY <1>10, <3>1, <3>2 DEF SaveFields, FieldsConflict
  <2>5. fieldsSave' = [rev |-> draftCache.rev, whole |-> fieldsEdit.whole /\ WholeRead, stored |-> FALSE]
    BY <1>10 DEF SaveFields
  <2>6. /\ fieldsSave'.rev = draftCache.rev /\ fieldsSave'.whole = (fieldsEdit.whole /\ WholeRead)
        /\ fieldsSave'.stored = FALSE
        /\ fieldsSave' = [rev |-> fieldsSave'.rev, whole |-> fieldsSave'.whole, stored |-> fieldsSave'.stored]
    BY <2>5
  <2>7. FieldsSaveInv'
    BY <2>1, <2>3, <2>4, <2>6 DEF FieldsSaveInv
  <2>8. QED
    BY <2>1, <2>2, <2>7 DEF DraftInv
<1>11. CASE FieldsStored
  <2>1. LogGrows /\ LogInv'
    <3>1. CASE UNCHANGED draftLog
      BY <1>0, <3>1, StutterGrows DEF LogGrows
    <3>2. CASE WriteTitle
      BY <1>0, <3>2, TitleGrows DEF LogGrows
    <3>3. QED
      BY <1>11, <3>1, <3>2 DEF FieldsStored
  <2>2. CacheInv' /\ TextInv'
    BY <1>0, <1>11, <2>1, CacheKept, TextKept DEF FieldsStored, draftQueryVars
  <2>3. CASE fieldsSave' = NoDraft
    <3>1. FieldsEditInv' /\ FieldsSaveInv'
      BY <1>0, <1>11, <2>1, <2>3, FieldsKept DEF FieldsStored
    <3>2. QED
      BY <2>1, <2>2, <3>1 DEF DraftInv
  <2>4. CASE fieldsSave' = [fieldsSave EXCEPT !.stored = TRUE]
    <3>1. fieldsEdit' = fieldsEdit /\ fieldsSave # NoDraft
      BY <1>11 DEF FieldsStored
    <3>2. /\ fieldsSave'.rev = fieldsSave.rev /\ fieldsSave'.whole = fieldsSave.whole
          /\ fieldsSave' = [rev |-> fieldsSave'.rev, whole |-> fieldsSave'.whole, stored |-> fieldsSave'.stored]
      BY <1>0, <2>4, <3>1 DEF FieldsSaveInv
    <3>3. \A k \in 1..Len(draftLog) : k \in 1..Len(draftLog') /\ draftLog'[k] = draftLog[k]
      BY <1>0, <2>1 DEF LogGrows, LogInv
    <3>4. FieldsEditInv'
      BY <1>0, <3>1, <3>3 DEF FieldsEditInv
    <3>5. FieldsSaveInv'
      BY <1>0, <3>1, <3>2, <3>3 DEF FieldsSaveInv
    <3>6. QED
      BY <2>1, <2>2, <3>4, <3>5 DEF DraftInv
  <2>5. QED
    BY <1>11, <2>3, <2>4 DEF FieldsStored
<1>12. CASE Approve \/ ApproveReads
  BY <1>12, CommandsKeepInv DEF Approve, ApproveReads, manuscriptVars, draftQueryVars
<1>13. CASE ApproveAnswered
  <2>1. Current.art \in Nat
    BY <1>0, CurrentTyped DEF Entry
  <2>2. QED
    BY <1>13, <2>1, CommandsKeepInv DEF ApproveAnswered, draftQueryVars
<1>14. CASE Restore
  <2>1. draftCache # NoDraft /\ draftCache.rev = Now
    BY <1>14 DEF Restore, RequireSaved
  <2>2. QED
    BY <1>14, <2>1, CommandsKeepInv DEF Restore
<1>15. ASSUME NEW ids \in SUBSET CheckedIds, NEW action \in {"accept", "reject"}, DecideCandidates(ids, action)
       PROVE  DraftInv'
  BY <1>15, CommandsKeepInv DEF DecideCandidates, manuscriptVars, draftQueryVars
<1>16. CASE DecideNext
  <2>1. UNCHANGED draftLog \/ (\E p : WriteParagraph(p)) \/ draftLog' = Append(draftLog, Current)
    BY <1>16 DEF DecideNext, Accepted, Rejected, manuscriptVars
  <2>2. QED
    BY <1>16, <2>1, CommandsKeepInv DEF DecideNext, draftQueryVars
<1>17. CASE DecideEnds \/ InspectSection \/ MergeSection
  BY <1>17, CommandsKeepInv DEF DecideEnds, InspectSection, MergeSection, manuscriptVars, draftQueryVars
<1>18. CASE SectionMerged
  BY <1>18, CommandsKeepInv DEF SectionMerged, draftQueryVars
<1>19. CASE UNCHANGED draftVars
  BY <1>19, CommandsKeepInv DEF draftVars, manuscriptVars, draftQueryVars
<1>20. QED
  BY <1>1, <1>2, <1>3, <1>4, <1>5, <1>6, <1>7, <1>8, <1>9, <1>10, <1>11, <1>12, <1>13, <1>14, <1>15,
     <1>16, <1>17, <1>18, <1>19 DEF DraftNext

-----------------------------------------------------------------------------

\* The history, the cached draft and the editors stay in step.
THEOREM DraftInvariant == DraftSpec => []DraftInv
<1>1. DraftInit => DraftInv
  BY DraftInitially
<1>2. DraftInv /\ [DraftNext]_draftVars => DraftInv'
  BY DraftStepKeepsInv
<1>3. QED
  BY <1>1, <1>2, PTL DEF DraftSpec

\* Only one action stores a paragraph, and only one a title.
LEMMA OthersStoreNothing ==
    ASSUME [DraftNext]_draftVars
    PROVE  /\ TextStored \/ UNCHANGED textSave \/ textSave = NoDraft \/ textSave' = NoDraft
           /\ FieldsStored \/ UNCHANGED fieldsSave \/ fieldsSave = NoDraft \/ fieldsSave' = NoDraft
<1> USE DEF draftEditVars
<1>1. CASE DraftElsewhere \/ ProposeElsewhere \/ FetchDraft \/ DraftArrives \/ ReloadDraft
  BY <1>1 DEF DraftElsewhere, ProposeElsewhere, FetchDraft, DraftArrives, ReloadDraft
<1>2. ASSUME NEW p \in Para, EditParagraph(p) \/ UndoText(p) \/ SaveText(p)
      PROVE  (UNCHANGED textSave \/ textSave = NoDraft) /\ UNCHANGED fieldsSave
  BY <1>2 DEF EditParagraph, UndoText, SaveText
<1>3. CASE TextStored \/ EditFields \/ ReloadFields \/ SaveFields \/ FieldsStored
  BY <1>3 DEF TextStored, EditFields, ReloadFields, SaveFields, FieldsStored
<1>4. CASE Approve \/ ApproveReads \/ ApproveAnswered \/ Restore
  BY <1>4 DEF Approve, ApproveReads, ApproveAnswered, Restore
<1>5. ASSUME NEW ids \in SUBSET CheckedIds, NEW action \in {"accept", "reject"}, DecideCandidates(ids, action)
      PROVE  UNCHANGED <<textSave, fieldsSave>>
  BY <1>5 DEF DecideCandidates
<1>6. CASE DecideNext \/ DecideEnds \/ InspectSection \/ MergeSection \/ SectionMerged
  BY <1>6 DEF DecideNext, DecideEnds, InspectSection, MergeSection, SectionMerged
<1>7. CASE UNCHANGED draftVars
  BY <1>7 DEF draftVars
<1>8. QED
  BY <1>1, <1>2, <1>3, <1>4, <1>5, <1>6, <1>7 DEF DraftNext

LEMMA SavesStep == DraftInv /\ [DraftNext]_draftVars => [ParagraphReplaces /\ TitleReplaces]_draftVars
<1> SUFFICES ASSUME DraftInv, [DraftNext]_draftVars PROVE ParagraphReplaces /\ TitleReplaces
  OBVIOUS
<1>1. ParagraphReplaces
  <2> SUFFICES ASSUME textSave # NoDraft, ~textSave.stored, textSave' # NoDraft, textSave'.stored
               PROVE  Current.text[textSave.para] = textEdit[textSave.para]
    BY DEF ParagraphReplaces
  <2>1. TextStored
    BY OthersStoreNothing
  <2>2. Current.text[textSave.para] = textSave.base
    BY <2>1 DEF TextStored
  <2>3. textSave.base = textEdit[textSave.para]
    BY DEF DraftInv, TextInv
  <2>4. QED
    BY <2>2, <2>3
<1>2. TitleReplaces
  <2> SUFFICES ASSUME fieldsSave # NoDraft, ~fieldsSave.stored, fieldsSave' # NoDraft, fieldsSave'.stored,
                      fieldsSave.whole
               PROVE  Current.title = fieldsEdit.base
    BY DEF TitleReplaces
  <2>1. FieldsStored
    BY OthersStoreNothing
  <2>2. fieldsSave.rev = Now
    BY <2>1 DEF FieldsStored
  <2>3. draftLog[fieldsSave.rev].title = fieldsEdit.base
    BY DEF DraftInv, FieldsSaveInv
  <2>4. QED
    BY <2>2, <2>3 DEF Current
<1>3. QED
  BY <1>1, <1>2

\* Whatever is fetched, written and reloaded in between, a paragraph or a title
\* that is saved replaces what its author began with.
THEOREM SavesReplace == DraftSpec => SavesReplaceWhatWasEdited
<1>1. DraftInv /\ [DraftNext]_draftVars => [ParagraphReplaces /\ TitleReplaces]_draftVars
  BY SavesStep
<1>2. QED
  BY <1>1, DraftInvariant, PTL DEF DraftSpec, SavesReplaceWhatWasEdited

-----------------------------------------------------------------------------
(* FigurePages: the state of the review is well formed, and a note reaches the *)
(* server with the paper it was written on.                                    *)

Picks == [Paper -> Pick \cup {NoFigure}]
Notes == {n \in [Paper -> Paper \cup {NoFigure}] : \A p \in Paper : n[p] \in {p, NoFigure}}

Server == [rev : Nat, pick : Picks, note : Notes, inputs : Picks]
Review == [rev : Nat, pick : Picks, note : Notes, synced : BOOLEAN]
Form == {f \in [paper : Paper, note : Paper \cup {NoFigure}] : f.note \in {f.paper, NoFigure}}
Selection == {s \in [rev : Nat, paper : Paper, pick : Pick, note : Paper \cup {NoFigure}] : s.note \in {s.paper, NoFigure}}

\* The invariant: each of the four places a note is in knows its paper.
NotesInv ==
    /\ figureServer \in Server
    /\ reviewCache \in Review \cup {NoFigure}
    /\ reviewForm \in Form
    /\ reviewSave \in Selection \cup {NoFigure}

-----------------------------------------------------------------------------

LEMMA ReviewIsTyped == figureServer \in Server => ReviewOf \in Review
BY DEF Server, Review, ReviewOf

\* However the form follows the rows, its note is of the paper it shows.
LEMMA FollowKeepsForm ==
    ASSUME NEW p \in Paper, NEW new \in Review, reviewForm \in Form, FollowRow(p, new)
    PROVE  reviewForm' \in Form
<1>1. new.note[p] \in {p, NoFigure} /\ new.note[p] \in Paper \cup {NoFigure}
  BY DEF Review, Notes
<1>2. [paper |-> p, note |-> new.note[p]] \in Form
  BY <1>1 DEF Form
<1>3. reviewForm' \in {reviewForm, [paper |-> p, note |-> new.note[p]]}
  BY DEF FollowRow
<1>4. QED
  BY <1>2, <1>3

LEMMA AcceptKeepsServer ==
    ASSUME figureServer \in Server, NEW p \in Paper, NEW c \in Pick, NEW note \in {p, NoFigure},
           AcceptSelection(p, c, note)
    PROVE  figureServer' \in Server
<1>1. [figureServer.pick EXCEPT ![p] = c] \in Picks
  BY DEF Server, Picks
<1>2. [figureServer.note EXCEPT ![p] = note] \in Notes
  BY DEF Server, Notes
<1>3. figureServer.rev + 1 \in Nat
  BY DEF Server
<1>4. QED
  BY <1>1, <1>2, <1>3 DEF AcceptSelection, Server

LEMMA NotesInitially == FigureInit => NotesInv
<1> SUFFICES ASSUME FigureInit PROVE NotesInv
  OBVIOUS
<1>1. [p \in Paper |-> NoFigure] \in Notes /\ [p \in Paper |-> NoFigure] \in Picks
  BY DEF Notes, Picks
<1>2. figureServer \in Server
  BY <1>1 DEF FigureInit, Server, Picks
<1>3. reviewForm \in Form
  BY DEF FigureInit, Form
<1>4. QED
  BY <1>2, <1>3 DEF FigureInit, NotesInv

LEMMA NotesStep == NotesInv /\ [FigureNext]_figureVars => NotesInv'
<1> SUFFICES ASSUME NotesInv, [FigureNext]_figureVars PROVE NotesInv'
  OBVIOUS
<1> USE DEF NotesInv
<1>1. CASE SelectionElsewhere
  <2>1. PICK p \in Paper, c \in Pick : AcceptSelection(p, c, figureServer.note[p])
    BY <1>1 DEF SelectionElsewhere
  <2>2. figureServer.note[p] \in {p, NoFigure}
    BY DEF Server, Notes
  <2>3. figureServer' \in Server
    BY <2>1, <2>2, AcceptKeepsServer
  <2>4. QED
    BY <1>1, <2>3 DEF SelectionElsewhere, reviewVars
<1>2. CASE FetchReview
  <2>1. ReviewOf \in Review
    BY ReviewIsTyped
  <2>2. reviewForm' \in Form
    BY <1>2, <2>1, FollowKeepsForm DEF FetchReview, Form
  <2>3. QED
    BY <1>2, <2>1, <2>2 DEF FetchReview, figureServerVars
<1>3. ASSUME NEW p \in Paper, SelectPaper(p) PROVE NotesInv'
  <2>1. reviewCache \in Review /\ FollowRow(p, reviewCache)
    BY <1>3 DEF SelectPaper
  <2>2. reviewForm' \in Form
    BY <2>1, FollowKeepsForm
  <2>3. QED
    BY <1>3, <2>2 DEF SelectPaper, figureServerVars
<1>4. CASE TypeNote
  <2>1. reviewForm' \in Form
    BY <1>4 DEF TypeNote, Form
  <2>2. QED
    BY <1>4, <2>1 DEF TypeNote, figureServerVars
<1>5. ASSUME NEW c \in Pick, SaveSelection(c) PROVE NotesInv'
  <2>1. reviewCache \in Review
    BY <1>5 DEF SaveSelection
  <2>2. reviewSave' \in Selection
    BY <1>5, <2>1 DEF SaveSelection, Review, Form, Selection
  <2>3. QED
    BY <1>5, <2>2 DEF SaveSelection, figureServerVars
<1>6. CASE SelectionSaved
  <2>1. CASE reviewSave.rev = figureServer.rev /\ Writable
    <3>1. AcceptSelection(reviewSave.paper, reviewSave.pick, reviewSave.note)
      BY <1>6, <2>1 DEF SelectionSaved
    <3>2. reviewSave \in Selection
      BY <1>6 DEF SelectionSaved
    <3>3. figureServer' \in Server
      BY <3>1, <3>2, AcceptKeepsServer DEF Selection
    <3> DEFINE new == [rev |-> figureServer'.rev, pick |-> figureServer'.pick,
                       note |-> figureServer'.note, synced |-> TRUE]
    <3>4. new \in Review
      BY <3>3 DEF Server, Review
    <3>5. \/ UNCHANGED <<reviewCache, reviewForm>>
          \/ reviewCache' = new /\ FollowRow(reviewForm.paper, new)
      BY <1>6, <2>1 DEF SelectionSaved
    <3>6. reviewCache' \in Review \cup {NoFigure} /\ reviewForm' \in Form
      <4> HIDE DEF new
      <4>1. reviewForm.paper \in Paper
        BY DEF Form
      <4>2. QED
        BY <3>4, <3>5, <4>1, FollowKeepsForm
    <3>7. QED
      BY <1>6, <3>3, <3>6 DEF SelectionSaved
  <2>2. CASE ~(reviewSave.rev = figureServer.rev /\ Writable)
    BY <1>6, <2>2 DEF SelectionSaved
  <2>3. QED
    BY <2>1, <2>2
<1>7. CASE Sync
  <2>1. figureServer' \in Server
    <3>1. CASE UNCHANGED figureServer
      BY <3>1
    <3>2. CASE figureServer' = [figureServer EXCEPT !.rev = @ + 1, !.inputs = figureServer.pick]
      <4>1. ASSUME NEW s \in Server, NEW k \in Nat PROVE [s EXCEPT !.rev = k] \in Server
        BY DEF Server
      <4>2. ASSUME NEW s \in Server, NEW q \in Picks PROVE [s EXCEPT !.inputs = q] \in Server
        BY DEF Server
      <4>3. figureServer.rev + 1 \in Nat /\ figureServer.pick \in Picks
        BY DEF Server
      <4>4. [[figureServer EXCEPT !.rev = figureServer.rev + 1] EXCEPT !.inputs = figureServer.pick] \in Server
        BY <4>1, <4>2, <4>3, Zenon
      <4>5. QED
        BY <3>2, <4>4, Zenon
    <3>3. QED
      BY <1>7, <3>1, <3>2 DEF Sync
  <2>2. QED
    BY <1>7, <2>1 DEF Sync, reviewVars
<1>8. CASE EnterRedraw
  <2>1. ReviewOf \in Review
    BY ReviewIsTyped
  <2>2. reviewForm' \in Form
    BY <1>8, <2>1, FollowKeepsForm DEF EnterRedraw, Form
  <2>3. QED
    BY <1>8, <2>1, <2>2 DEF EnterRedraw, figureServerVars
<1>9. CASE RedrawStarts \/ PublishRedraw \/ RedrawEnds
  BY <1>9 DEF RedrawStarts, PublishRedraw, RedrawEnds, reviewVars
<1>10. CASE OpenRedraw \/ BackToReview \/ FetchFigures \/ FiguresArrive
  BY <1>10 DEF OpenRedraw, BackToReview, FetchFigures, FiguresArrive, figureServerVars, reviewVars
<1>11. ASSUME NEW command \in FigureCommands, NEW p \in Paper, Command(command, p) PROVE NotesInv'
  BY <1>11 DEF Command, figureServerVars, reviewVars
<1>12. CASE CommandAnswered
  BY <1>12 DEF CommandAnswered, reviewVars
<1>13. CASE UNCHANGED figureVars
  BY <1>13 DEF figureVars, figureServerVars, reviewVars
<1>14. QED
  BY <1>1, <1>2, <1>3, <1>4, <1>5, <1>6, <1>7, <1>8, <1>9, <1>10, <1>11, <1>12, <1>13 DEF FigureNext

-----------------------------------------------------------------------------

\* The review and every copy of a note stay well formed.
THEOREM NotesInvariant == FigureSpec => []NotesInv
<1>1. FigureInit => NotesInv
  BY NotesInitially
<1>2. NotesInv /\ [FigureNext]_figureVars => NotesInv'
  BY NotesStep
<1>3. QED
  BY <1>1, <1>2, PTL DEF FigureSpec

\* A note is stored with the paper it was written on, whatever the user looks
\* at when the request is made, taken and answered.
THEOREM NotesStay == FigureSpec => []NotesStayWithTheirPaper
<1>1. NotesInv => NotesStayWithTheirPaper
  BY DEF NotesInv, Server, Notes, NotesStayWithTheirPaper
<1>2. QED
  BY <1>1, NotesInvariant, PTL

-----------------------------------------------------------------------------
(* ChapterDialogue: the messages in the boxes, on their way and in turns.      *)

Typed == [text : Nat, base : Nat, key : Nat]
Asked == [text : Nat, base : Nat, key : Nat, action : {"discuss", "revise"}]
Sent == [text : Nat, base : Nat, key : Nat, action : {"discuss", "revise"}, ref : Nat]

Turn == [status : {"none"} \cup Going \cup Over, asked : Asked \cup {NoChapter}]

\* A message as it stands in a box, travels, or has been taken.
Use(r) == [text |-> r.text, base |-> r.base, key |-> r.key]
UsesTurns == {Use(turn[n].asked) : n \in Started}
UsesSent == {Use(s) : s \in {sending, oldSending} \ {NoChapter}}
Uses == {Use(compose), Use(scratch)} \cup UsesSent \cup UsesTurns

DialogueTypes ==
    /\ turn \in [TurnNumber -> Turn]
    /\ \A n \in Started : turn[n].asked \in Asked
    /\ chapterText \in Nat /\ dialogueMoves \in Nat
    /\ compose \in Typed /\ scratch \in Typed
    /\ sending \in Sent \cup {NoChapter} /\ oldSending \in Sent \cup {NoChapter}

\* A text has been typed by one of the moves so far; in one box and request it has
\* the key it has in all of them, if the chapter they are for is the same.
TextsAreOld == \A u \in Uses : u.text <= dialogueMoves
KeysAgree ==
    \A u, v \in Uses : u.text = v.text /\ u.base = v.base /\ u.text \notin rekeyed \cup {0} => u.key = v.key
BoxIsLatest == \A u \in Uses : u.text = compose.text /\ u.text # 0 => u.base <= compose.base

\* The box was typed on a chapter the page has read.
BoxWasRead ==
    /\ compose.base <= chapterText
    /\ chapterCache # NoChapter =>
          /\ chapterCache.text \in Nat
          /\ compose.base <= chapterCache.text /\ chapterCache.text <= chapterText

\* What is stored is what the box shows, but for what an old answer changed.
StoredBox == scratch.base = compose.base /\ scratch.text \in {0, compose.text} /\ (scratch.key = 0 => scratch.text = 0)

\* What was typed after sending has been sent nowhere.
TypedIsNew ==
    sending # NoChapter /\ compose.text \notin {0, sending.text} =>
        /\ oldSending # NoChapter => oldSending.text # compose.text
        /\ \A n \in Started : turn[n].asked.text # compose.text

DialogueInv ==
    /\ DialogueTypes /\ TextsAreOld /\ KeysAgree /\ BoxIsLatest /\ BoxWasRead /\ StoredBox
    /\ TypedIsNew /\ MessagesAreTakenOnce

-----------------------------------------------------------------------------

\* Messages are well formed wherever they are.
LEMMA UsesAreTyped == ASSUME DialogueTypes PROVE \A u \in Uses : u \in Typed
BY DEF DialogueTypes, Uses, UsesSent, UsesTurns, Use, Typed, Sent, Asked

\* Nothing is in a box, travels or is taken that was not before.
LEMMA FewerUses ==
    ASSUME DialogueInv, Uses' \subseteq Uses, rekeyed \subseteq rekeyed',
           dialogueMoves' \in Nat, dialogueMoves <= dialogueMoves'
    PROVE  TextsAreOld' /\ KeysAgree'
<1>1. \A u \in Uses : u.text \in Nat
  BY UsesAreTyped DEF DialogueInv, Typed
<1>2. TextsAreOld'
  BY <1>1 DEF DialogueInv, DialogueTypes, TextsAreOld
<1>3. KeysAgree'
  BY DEF DialogueInv, KeysAgree
<1>4. QED
  BY <1>2, <1>3

\* Only one message more, whose text is new or which stands alone with its base.
LEMMA OneMoreUse ==
    ASSUME DialogueInv, NEW box \in Typed, Uses' \subseteq Uses \cup {box}, rekeyed \subseteq rekeyed',
           dialogueMoves' \in Nat, dialogueMoves <= dialogueMoves', box.text <= dialogueMoves',
           \A u \in Uses : u.text # 0 => u.text # box.text \/ u.base # box.base
    PROVE  TextsAreOld' /\ KeysAgree'
<1>1. \A u \in Uses : u.text \in Nat
  BY UsesAreTyped DEF DialogueInv, Typed
<1>2. TextsAreOld'
  BY <1>1 DEF DialogueInv, DialogueTypes, TextsAreOld
<1>3. KeysAgree'
  BY DEF DialogueInv, KeysAgree
<1>4. QED
  BY <1>2, <1>3

\* Nothing has been typed.
LEMMA DialogueInitially == ASSUME DialogueInit PROVE DialogueInv
<1>1. Started = {}
  BY DEF DialogueInit, Started
<1>2. DialogueTypes
  BY <1>1 DEF DialogueInit, DialogueTypes, Typed, Sent, Turn
<1>3. Uses = {Use(compose)} /\ Use(compose) = [text |-> 0, base |-> 0, key |-> 0]
  BY <1>1 DEF DialogueInit, Uses, UsesSent, UsesTurns, Use
<1>4. TextsAreOld /\ KeysAgree /\ BoxIsLatest
  BY <1>3 DEF DialogueInit, TextsAreOld, KeysAgree, BoxIsLatest
<1>5. BoxWasRead /\ StoredBox /\ TypedIsNew /\ MessagesAreTakenOnce
  BY <1>1 DEF DialogueInit, BoxWasRead, StoredBox, TypedIsNew, MessagesAreTakenOnce
<1>6. QED
  BY <1>2, <1>4, <1>5 DEF DialogueInv

\* What the server and the queries do concerns no message.
LEMMA OthersKeepMessages ==
    ASSUME DialogueInv, UNCHANGED composeVars,
           dialogueMoves' \in Nat, dialogueMoves <= dialogueMoves',
           turn' \in [TurnNumber -> Turn],
           \A n \in TurnNumber : turn'[n].asked = turn[n].asked /\ (turn'[n].status = "none" <=> turn[n].status = "none"),
           chapterText' \in Nat, chapterText <= chapterText',
           chapterCache' = chapterCache \/ (chapterCache'.text = chapterText /\ chapterText' = chapterText)
    PROVE  DialogueInv'
<1>1. Started' = Started /\ \A n \in Started : turn'[n].asked = turn[n].asked
  BY DEF Started
<1>2. UsesTurns' = UsesTurns
  BY <1>1 DEF UsesTurns, Use
<1>3. Uses' = Uses
  BY <1>2 DEF Uses, UsesSent, Use, composeVars
<1>4. DialogueTypes'
  BY <1>1 DEF DialogueInv, DialogueTypes, composeVars
<1>5. TextsAreOld' /\ KeysAgree'
  BY <1>3, FewerUses DEF composeVars
<1>6. BoxIsLatest'
  BY <1>3 DEF DialogueInv, BoxIsLatest, composeVars
<1>7. BoxWasRead'
  BY DEF DialogueInv, DialogueTypes, BoxWasRead, Typed, composeVars
<1>8. StoredBox' /\ TypedIsNew' /\ MessagesAreTakenOnce'
  BY <1>1 DEF DialogueInv, StoredBox, TypedIsNew, MessagesAreTakenOnce, composeVars
<1>9. QED
  BY <1>4, <1>5, <1>6, <1>7, <1>8 DEF DialogueInv

\* A box that is filled anew, here and in the browser.
LEMMA FilledBox ==
    ASSUME DialogueInv, NEW box \in Typed, Compose(box), DialogueMove,
           UNCHANGED <<turnVars, chapterQueryVars, sending, oldSending, rekeyed>>,
           chapterCache # NoChapter, box.base = chapterCache.text,
           box.text = 0 \/ box.text = dialogueMoves + 1
             \/ (box.text = compose.text /\ compose.base # chapterCache.text),
           box.text # 0 \/ sending = NoChapter, box.key # 0
    PROVE  DialogueInv'
<1>1. Started' = Started /\ UsesTurns' = UsesTurns /\ UsesSent' = UsesSent
  BY DEF Started, UsesTurns, UsesSent, turnVars
<1>2. Uses' \subseteq Uses \cup {box} /\ Use(box) = box
  BY <1>1 DEF Uses, Compose, Use, Typed
<1>3. compose' = box /\ scratch' = box /\ dialogueMoves' = dialogueMoves + 1 /\ dialogueMoves \in Nat
  BY DEF Compose, DialogueMove, DialogueInv, DialogueTypes
<1>4. \A u \in Uses : u \in Typed /\ u.text <= dialogueMoves
  BY UsesAreTyped DEF DialogueInv, TextsAreOld
<1>5. Use(compose) \in Uses /\ Use(compose).text = compose.text
  BY DEF Uses, Use
<1>6. compose.base <= chapterCache.text /\ chapterCache.text \in Nat /\ chapterCache.text <= chapterText
  BY DEF DialogueInv, BoxWasRead
<1>7. \A u \in Uses : u.text # 0 => u.text # box.text \/ u.base < box.base
  BY <1>4, <1>6 DEF DialogueInv, DialogueTypes, BoxIsLatest, Typed
<1>8. DialogueTypes'
  BY <1>1, <1>3 DEF DialogueInv, DialogueTypes, turnVars
<1>9. box.text <= dialogueMoves + 1
  BY <1>3, <1>4, <1>5 DEF DialogueInv, DialogueTypes, Typed
<1>10. TextsAreOld' /\ KeysAgree'
  BY <1>2, <1>3, <1>4, <1>7, <1>9, OneMoreUse DEF Typed
<1>11. BoxIsLatest'
  BY <1>2, <1>3, <1>4, <1>7 DEF BoxIsLatest, Typed
<1>12. BoxWasRead' /\ StoredBox'
  <2>1. chapterCache' = chapterCache /\ chapterText' = chapterText
    BY DEF turnVars, chapterQueryVars
  <2>2. QED
    BY <1>3, <1>6, <2>1 DEF BoxWasRead, StoredBox
<1>13. TypedIsNew'
  <2>1. CASE box.text = dialogueMoves + 1
    <3>1. \A n \in Started : Use(turn[n].asked) \in Uses /\ Use(turn[n].asked).text = turn[n].asked.text
      BY DEF Uses, UsesTurns, Use
    <3>2. oldSending # NoChapter => Use(oldSending) \in Uses /\ Use(oldSending).text = oldSending.text
      BY DEF Uses, UsesSent, Use
    <3>3. QED
      BY <2>1, <1>1, <1>3, <1>4, <3>1, <3>2 DEF TypedIsNew, turnVars
  <2>2. CASE box.text = compose.text
    BY <2>2, <1>1, <1>3 DEF DialogueInv, TypedIsNew, turnVars
  <2>3. CASE box.text = 0
    BY <2>3, <1>3 DEF TypedIsNew
  <2>4. QED
    BY <2>1, <2>2, <2>3
<1>14. MessagesAreTakenOnce'
  BY <1>1 DEF DialogueInv, MessagesAreTakenOnce, turnVars
<1>15. QED
  BY <1>8, <1>10, <1>11, <1>12, <1>13, <1>14 DEF DialogueInv

-----------------------------------------------------------------------------

\* A request that is taken becomes a turn that differs from all others.
LEMMA TakenDiffers ==
    ASSUME DialogueInv, NEW s \in Sent, Use(s) \in Uses, Taken(s), rekeyed \subseteq rekeyed'
    PROVE  /\ turn' \in [TurnNumber -> Turn]
           /\ \A n \in Started' : turn'[n].asked \in Asked
           /\ UsesTurns' \subseteq UsesTurns \cup {Use(s)}
           /\ \A n \in Started' : (n \in Started /\ turn'[n].asked = turn[n].asked) \/ turn'[n].asked.text = s.text
           /\ MessagesAreTakenOnce'
<1>1. CASE UNCHANGED turn
  <2>1. Started' = Started
    BY <1>1 DEF Started
  <2>2. UsesTurns' = UsesTurns
    BY <1>1, <2>1 DEF UsesTurns
  <2>3. QED
    BY <1>1, <2>1, <2>2 DEF DialogueInv, DialogueTypes, MessagesAreTakenOnce
<1>2. ASSUME TurnsOf(s) = {}, NEW k \in NextTurn,
             turn' = [turn EXCEPT ![k] = [status |-> "queued", asked |-> Request(s)]]
      PROVE  /\ turn' \in [TurnNumber -> Turn]
             /\ \A n \in Started' : turn'[n].asked \in Asked
             /\ UsesTurns' \subseteq UsesTurns \cup {Use(s)}
             /\ \A n \in Started' : (n \in Started /\ turn'[n].asked = turn[n].asked) \/ turn'[n].asked.text = s.text
             /\ MessagesAreTakenOnce'
  <2>1. k \in TurnNumber /\ k \notin Started
    BY <1>2 DEF NextTurn, Started
  <2>2. Request(s) \in Asked
    BY DEF Request, Asked, Sent
  <2>3. /\ turn'[k] = [status |-> "queued", asked |-> Request(s)]
        /\ \A n \in TurnNumber \ {k} : turn'[n] = turn[n]
    BY <1>2, <2>1 DEF DialogueInv, DialogueTypes
  <2>4. Started' = Started \cup {k}
    BY <2>1, <2>3 DEF Started
  <2>5. turn' \in [TurnNumber -> Turn]
    BY <1>2, <2>1, <2>2 DEF DialogueInv, DialogueTypes, Turn, Going
  <2>6. \A n \in Started' : (n \in Started /\ turn'[n].asked = turn[n].asked) \/ (n = k /\ turn'[n].asked = Request(s))
    BY <2>1, <2>3, <2>4 DEF Started
  <2>7. Request(s).text = s.text /\ Request(s).base = s.base /\ Request(s).key = s.key /\ Request(s).action = s.action
    BY DEF Request
  <2>8. UsesTurns' \subseteq UsesTurns \cup {Use(s)}
    BY <2>6, <2>7 DEF UsesTurns, Use
  <2>9. ASSUME NEW m \in Started, turn[m].asked.text \notin rekeyed \cup {0},
               turn[m].asked.text = s.text, turn[m].asked.base = s.base, turn[m].asked.action = s.action
        PROVE  FALSE
    <3>1. Use(turn[m].asked) \in Uses
      BY DEF Uses, UsesTurns
    <3>2. turn[m].asked.key = s.key
      BY <2>9, <3>1 DEF DialogueInv, KeysAgree, Use
    <3>3. m \in TurnsOf(s)
      BY <2>9, <3>2 DEF TurnsOf, Started
    <3>4. QED
      BY <1>2, <3>3
  <2>10. MessagesAreTakenOnce'
    <3> SUFFICES ASSUME NEW m \in Started', NEW n \in Started', m # n,
                        turn'[n].asked.text \notin rekeyed' \cup {0},
                        turn'[m].asked.text = turn'[n].asked.text, turn'[m].asked.base = turn'[n].asked.base,
                        turn'[m].asked.action = turn'[n].asked.action
                 PROVE  FALSE
      BY DEF MessagesAreTakenOnce
    <3>1. CASE m \in Started /\ n \in Started
      BY <3>1, <2>1, <2>3 DEF DialogueInv, MessagesAreTakenOnce, Started
    <3>2. CASE m = k
      BY <3>2, <2>3, <2>4, <2>6, <2>7, <2>9
    <3>3. CASE n = k
      BY <3>3, <2>3, <2>4, <2>6, <2>7, <2>9
    <3>4. QED
      BY <2>4, <3>1, <3>2, <3>3
  <2>11. QED
    BY <2>2, <2>5, <2>6, <2>7, <2>8, <2>10 DEF DialogueInv, DialogueTypes
<1>3. QED
  BY <1>1, <1>2 DEF Taken

\* What is sent is what the box holds.
LEMMA SendKeepsInv == ASSUME DialogueInv, NEW action \in {"discuss", "revise"}, SendMessage(action) PROVE DialogueInv'
<1>1. /\ UNCHANGED <<turn, chapterText, chapterCache, compose, scratch, oldSending, rekeyed>>
      /\ sending = NoChapter /\ dialogueMoves \in Nat /\ dialogueMoves' = dialogueMoves + 1
  BY DEF SendMessage, DialogueMove, turnVars, chapterQueryVars, DialogueInv, DialogueTypes
<1>2. sending' \in Sent /\ sending'.text = compose.text /\ sending'.base = chapterCache.text
      /\ sending'.key = compose.key
  BY DEF SendMessage, DialogueInv, DialogueTypes, BoxWasRead, Typed, Sent
<1>3. Started' = Started /\ UsesTurns' = UsesTurns
  BY <1>1 DEF Started, UsesTurns
<1>4. compose.text # 0 => Use(sending') = Use(compose)
  BY <1>2 DEF SendMessage, Use
<1>5. Uses' \subseteq Uses \cup {Use(sending')}
  BY <1>1, <1>3 DEF Uses, UsesSent
<1>6. \A u \in Uses : u \in Typed /\ u.text <= dialogueMoves
  BY UsesAreTyped DEF DialogueInv, TextsAreOld
<1>7. Use(sending') \in Typed /\ Use(sending').text = compose.text
  BY <1>2 DEF Use, Sent, Typed
<1>8. TextsAreOld' /\ KeysAgree' /\ BoxIsLatest'
  <2>1. CASE compose.text # 0
    <3>1. Uses' \subseteq Uses
      BY <2>1, <1>4, <1>5 DEF Uses
    <3>2. QED
      BY <3>1, <1>1, FewerUses DEF DialogueInv, BoxIsLatest
  <2>2. CASE compose.text = 0
    <3>1. TextsAreOld' /\ BoxIsLatest'
      BY <2>2, <1>1, <1>5, <1>6, <1>7 DEF DialogueInv, TextsAreOld, BoxIsLatest, Typed
    <3>2. KeysAgree'
      BY <2>2, <1>1, <1>5, <1>7 DEF DialogueInv, KeysAgree
    <3>3. QED
      BY <3>1, <3>2
  <2>3. QED
    BY <2>1, <2>2
<1>9. DialogueTypes'
  BY <1>1, <1>2, <1>3 DEF DialogueInv, DialogueTypes
<1>10. BoxWasRead' /\ StoredBox' /\ TypedIsNew' /\ MessagesAreTakenOnce'
  BY <1>1, <1>2, <1>3 DEF DialogueInv, BoxWasRead, StoredBox, TypedIsNew, MessagesAreTakenOnce
<1>11. QED
  BY <1>8, <1>9, <1>10 DEF DialogueInv

\* An answer empties the box, or gives what was typed since a key of its own.
LEMMA SentKeepsInv == ASSUME DialogueInv, MessageSent PROVE DialogueInv'
<1>1. /\ UNCHANGED <<chapterText, chapterCache, oldSending, rekeyed, dialogueMoves>>
      /\ sending \in Sent /\ sending # NoChapter /\ sending' = NoChapter
  BY DEF MessageSent, DialogueInv, DialogueTypes
<1>2. Use(sending) \in Uses
  BY <1>1 DEF Uses, UsesSent
<1>3. \/ Taken(sending)
      \/ UNCHANGED turn
  BY DEF MessageSent
<1>4. /\ turn' \in [TurnNumber -> Turn]
      /\ \A n \in Started' : turn'[n].asked \in Asked
      /\ UsesTurns' \subseteq UsesTurns \cup {Use(sending)}
      /\ MessagesAreTakenOnce'
  <2>1. CASE Taken(sending)
    BY <2>1, <1>1, <1>2, TakenDiffers
  <2>2. CASE UNCHANGED turn
    <3>1. Started' = Started
      BY <2>2 DEF Started
    <3>2. UsesTurns' = UsesTurns
      BY <2>2, <3>1 DEF UsesTurns
    <3>3. QED
      BY <2>2, <1>1, <3>1, <3>2 DEF DialogueInv, DialogueTypes, MessagesAreTakenOnce
  <2>3. QED
    BY <1>3, <2>1, <2>2
<1>5. UsesTurns' \cup UsesSent' \subseteq Uses
  BY <1>1, <1>2, <1>4 DEF Uses, UsesSent
<1>6. CASE UNCHANGED <<compose, scratch>>
  <2>1. Uses' \subseteq Uses
    BY <1>5, <1>6 DEF Uses, Use
  <2>2. TextsAreOld' /\ KeysAgree' /\ BoxIsLatest'
    BY <2>1, <1>1, <1>6, FewerUses DEF DialogueInv, DialogueTypes, BoxIsLatest
  <2>3. DialogueTypes' /\ BoxWasRead' /\ StoredBox' /\ TypedIsNew'
    BY <1>1, <1>4, <1>6 DEF DialogueInv, DialogueTypes, BoxWasRead, StoredBox, TypedIsNew
  <2>4. QED
    BY <2>2, <2>3, <1>4 DEF DialogueInv
<1>7. CASE Compose(AfterSend(sending, compose, compose.text, AnswerKey)) /\ Taken(sending)
  <2> DEFINE box == AfterSend(sending, compose, compose.text, AnswerKey)
  <2>1. box \in Typed /\ box.base = compose.base
        /\ box.text = (IF compose.text = sending.text THEN 0 ELSE compose.text)
    <3>1. AnswerKey \in Nat
      BY DEF AnswerKey, DialogueInv, DialogueTypes
    <3>2. QED
      BY <3>1 DEF AfterSend, Clears, DialogueInv, DialogueTypes, Typed
  <2>2. compose' = box /\ scratch' = box /\ Use(box) = box
    BY <1>7, <2>1 DEF Compose, Use, Typed
  <2> HIDE DEF box
  <2>3. Uses' \subseteq UsesTurns' \cup UsesSent' \cup {box}
    BY <2>2 DEF Uses
  <2>4. \A u \in Uses : u \in Typed /\ u.text <= dialogueMoves
    BY UsesAreTyped DEF DialogueInv, TextsAreOld
  <2>5. box.text # 0 => \A u \in UsesTurns' \cup UsesSent' : u.text # box.text
    <3>1. ASSUME box.text # 0, NEW n \in Started' PROVE Use(turn'[n].asked).text # box.text
      BY <3>1, <1>1, <1>2, <1>7, <2>1, TakenDiffers DEF DialogueInv, TypedIsNew, Use
    <3>2. ASSUME box.text # 0, oldSending # NoChapter PROVE Use(oldSending).text # box.text
      BY <3>2, <1>1, <2>1 DEF DialogueInv, TypedIsNew, Use
    <3>3. QED
      BY <3>1, <3>2, <1>1 DEF UsesTurns, UsesSent
  <2>6. box.text <= dialogueMoves
    <3>1. Use(compose) \in Uses /\ Use(compose).text = compose.text
      BY DEF Uses, Use
    <3>2. QED
      BY <2>1, <2>4, <3>1 DEF DialogueInv, DialogueTypes
  <2>7. TextsAreOld'
    BY <1>1, <1>5, <2>3, <2>4, <2>6 DEF TextsAreOld
  <2>8. KeysAgree'
    BY <1>1, <1>5, <2>3, <2>5 DEF DialogueInv, KeysAgree
  <2>9. BoxIsLatest'
    BY <2>1, <2>2, <2>3, <2>5 DEF BoxIsLatest, Typed
  <2>10. DialogueTypes' /\ BoxWasRead' /\ TypedIsNew'
    BY <1>1, <1>4, <2>1, <2>2 DEF DialogueInv, DialogueTypes, BoxWasRead, TypedIsNew
  <2>11. StoredBox'
    <3>1. box.key # 0
      BY DEF box, AfterSend, AnswerKey, DialogueInv, DialogueTypes, Typed
    <3>2. QED
      BY <2>2, <3>1 DEF StoredBox
  <2>12. QED
    BY <1>4, <2>7, <2>8, <2>9, <2>10, <2>11 DEF DialogueInv
<1>8. QED
  BY <1>6, <1>7 DEF MessageSent

\* An old answer changes what is stored: a text it does not empty is marked.
LEMMA OldSentKeepsInv == ASSUME DialogueInv, OldMessageSent PROVE DialogueInv'
<1>1. /\ UNCHANGED <<chapterText, chapterCache, compose, sending, dialogueMoves>>
      /\ oldSending \in Sent /\ oldSending # NoChapter /\ oldSending' = NoChapter
  BY DEF OldMessageSent, DialogueInv, DialogueTypes
<1>2. Use(oldSending) \in Uses
  BY <1>1 DEF Uses, UsesSent
<1>3. rekeyed \subseteq rekeyed'
  BY DEF OldMessageSent
<1>4. /\ turn' \in [TurnNumber -> Turn]
      /\ \A n \in Started' : turn'[n].asked \in Asked
      /\ UsesTurns' \subseteq UsesTurns \cup {Use(oldSending)}
      /\ \A n \in Started' : (n \in Started /\ turn'[n].asked = turn[n].asked) \/ turn'[n].asked.text = oldSending.text
      /\ MessagesAreTakenOnce'
  <2>1. CASE Taken(oldSending)
    BY <2>1, <1>1, <1>2, <1>3, TakenDiffers
  <2>2. CASE UNCHANGED turn
    <3>1. Started' = Started
      BY <2>2 DEF Started
    <3>2. UsesTurns' = UsesTurns
      BY <2>2, <3>1 DEF UsesTurns
    <3>3. QED
      BY <2>2, <1>3, <3>1, <3>2 DEF DialogueInv, DialogueTypes, MessagesAreTakenOnce
  <2>3. QED
    BY <2>1, <2>2 DEF OldMessageSent
<1>5. UsesTurns' \cup UsesSent' \subseteq Uses
  BY <1>1, <1>2, <1>4 DEF Uses, UsesSent
<1>6. TypedIsNew'
  BY <1>1, <1>4 DEF DialogueInv, TypedIsNew
<1>7. CASE UNCHANGED scratch
  <2>1. Uses' \subseteq Uses
    BY <1>1, <1>5, <1>7 DEF Uses, Use
  <2>2. TextsAreOld' /\ KeysAgree' /\ BoxIsLatest'
    BY <2>1, <1>1, <1>3, FewerUses DEF DialogueInv, DialogueTypes, BoxIsLatest
  <2>3. DialogueTypes' /\ BoxWasRead' /\ StoredBox'
    BY <1>1, <1>4, <1>7 DEF DialogueInv, DialogueTypes, BoxWasRead, StoredBox
  <2>4. QED
    BY <2>2, <2>3, <1>4, <1>6 DEF DialogueInv
<1>8. CASE /\ scratch' = AfterSend(oldSending, scratch, oldSending.ref, OldAnswerKey)
           /\ rekeyed' = rekeyed \cup {scratch'.text}
  <2>1. /\ scratch' \in Typed /\ scratch'.base = scratch.base /\ scratch'.key # 0
        /\ scratch'.text \in {0, scratch.text}
    <3>1. OldAnswerKey \in Nat /\ OldAnswerKey # 0
      BY DEF OldAnswerKey, DialogueInv, DialogueTypes
    <3>2. QED
      BY <1>8, <3>1 DEF AfterSend, Clears, DialogueInv, DialogueTypes, Typed
  <2>2. Use(scratch') = scratch'
    BY <2>1 DEF Use, Typed
  <2>3. Uses' \subseteq Uses \cup {scratch'}
    BY <1>1, <1>5, <2>2 DEF Uses, Use
  <2>4. \A u \in Uses : u \in Typed /\ u.text <= dialogueMoves
    BY UsesAreTyped DEF DialogueInv, TextsAreOld
  <2>5. Use(scratch) \in Uses /\ Use(scratch).text = scratch.text /\ Use(scratch).base = scratch.base
    BY DEF Uses, Use
  <2>6. TextsAreOld'
    BY <1>1, <2>1, <2>3, <2>4, <2>5 DEF DialogueInv, DialogueTypes, TextsAreOld
  <2>7. KeysAgree'
    BY <1>8, <2>3 DEF DialogueInv, KeysAgree
  <2>8. BoxIsLatest'
    BY <1>1, <2>1, <2>3, <2>5 DEF DialogueInv, BoxIsLatest
  <2>9. DialogueTypes' /\ BoxWasRead' /\ StoredBox'
    BY <1>1, <1>4, <2>1 DEF DialogueInv, DialogueTypes, BoxWasRead, StoredBox
  <2>10. QED
    BY <1>4, <1>6, <2>6, <2>7, <2>8, <2>9 DEF DialogueInv
<1>9. QED
  BY <1>7, <1>8 DEF OldMessageSent

\* The next visit begins with what is stored.
LEMMA LeaveKeepsInv == ASSUME DialogueInv, LeaveAndReturn PROVE DialogueInv'
<1>1. /\ UNCHANGED <<turn, chapterText, chapterCache, scratch, rekeyed>>
      /\ sending' = NoChapter /\ oldSending = NoChapter
      /\ dialogueMoves \in Nat /\ dialogueMoves' = dialogueMoves + 1
  BY DEF LeaveAndReturn, DialogueMove, turnVars, DialogueInv, DialogueTypes
<1>2. oldSending' \in Sent \cup {NoChapter}
      /\ (oldSending' # NoChapter => sending # NoChapter /\ Use(oldSending') = Use(sending))
  BY DEF LeaveAndReturn, DialogueInv, DialogueTypes, Sent, Typed, Use
<1>3. /\ compose' \in Typed /\ compose'.text = scratch.text /\ compose'.base = scratch.base
      /\ scratch.text # 0 => Use(compose') = Use(scratch)
  <2>1. FreshKey \in Nat
    BY DEF FreshKey, DialogueInv, DialogueTypes
  <2>2. QED
    BY <2>1 DEF LeaveAndReturn, DialogueInv, DialogueTypes, StoredBox, Typed, Use
<1>4. Started' = Started /\ UsesTurns' = UsesTurns
  BY <1>1 DEF Started, UsesTurns
<1>5. UsesSent' \subseteq UsesSent
  BY <1>1, <1>2 DEF UsesSent
<1>6. Uses' \subseteq Uses \cup {Use(compose')}
  BY <1>1, <1>4, <1>5 DEF Uses, Use
<1>7. \A u \in Uses : u \in Typed /\ u.text <= dialogueMoves
  BY UsesAreTyped DEF DialogueInv, TextsAreOld
<1>8. Use(compose').text = compose'.text /\ Use(compose').base = compose'.base
  BY DEF Use
<1>9. TextsAreOld' /\ KeysAgree'
  <2>1. CASE scratch.text # 0
    <3>1. Uses' \subseteq Uses
      BY <2>1, <1>3, <1>6 DEF Uses
    <3>2. QED
      BY <3>1, <1>1, FewerUses
  <2>2. CASE scratch.text = 0
    BY <2>2, <1>1, <1>3, <1>6, <1>7, <1>8 DEF DialogueInv, KeysAgree, TextsAreOld, Typed
  <2>3. QED
    BY <2>1, <2>2
<1>10. BoxIsLatest' /\ StoredBox' /\ BoxWasRead'
  BY <1>1, <1>3, <1>6, <1>8 DEF DialogueInv, DialogueTypes, BoxIsLatest, StoredBox, BoxWasRead, Typed
<1>11. DialogueTypes' /\ TypedIsNew' /\ MessagesAreTakenOnce'
  BY <1>1, <1>2, <1>3, <1>4 DEF DialogueInv, DialogueTypes, TypedIsNew, MessagesAreTakenOnce
<1>12. QED
  BY <1>9, <1>10, <1>11 DEF DialogueInv

\* The three ways to fill the box.
LEMMA BoxStepKeepsInv ==
    ASSUME DialogueInv, TypeMessage \/ MarkReviewed \/ RestartDialogue PROVE DialogueInv'
<1>1. dialogueMoves \in Nat /\ FreshKey \in Nat /\ FreshKey # 0 /\ compose \in Typed
  BY DEF DialogueInv, DialogueTypes, FreshKey
<1>2. chapterCache # NoChapter => chapterCache.text \in Nat
  BY DEF DialogueInv, BoxWasRead
<1>3. CASE TypeMessage
  <2> DEFINE box == [text |-> dialogueMoves + 1, base |-> chapterCache.text, key |-> FreshKey]
  <2>1. box \in Typed
    BY <1>1, <1>2, <1>3 DEF TypeMessage, Typed
  <2>2. QED
    BY <2>1, <1>1, <1>3, FilledBox DEF TypeMessage
<1>4. CASE MarkReviewed
  <2> DEFINE box == [compose EXCEPT !.base = chapterCache.text, !.key = FreshKey]
  <2>1. box \in Typed /\ box.text = compose.text /\ box.base = chapterCache.text /\ box.key = FreshKey
    BY <1>1, <1>2, <1>4 DEF MarkReviewed, Typed
  <2>2. QED
    BY <2>1, <1>1, <1>4, FilledBox DEF MarkReviewed
<1>5. CASE RestartDialogue
  <2> DEFINE box == [text |-> 0, base |-> chapterCache.text, key |-> FreshKey]
  <2>1. box \in Typed
    BY <1>1, <1>2, <1>5 DEF RestartDialogue, Typed
  <2>2. QED
    BY <2>1, <1>1, <1>5, FilledBox DEF RestartDialogue
<1>6. QED
  BY <1>3, <1>4, <1>5

\* Every step, by what it does to messages.
LEMMA DialogueStep == DialogueInv /\ [DialogueNext]_dialogueVars => DialogueInv'
<1> SUFFICES ASSUME DialogueInv, [DialogueNext]_dialogueVars PROVE DialogueInv'
  OBVIOUS
<1> USE DEF DialogueInv, DialogueTypes, turnVars, chapterQueryVars, followVars
<1>1. CASE ChapterElsewhere
  BY <1>1, OthersKeepMessages DEF ChapterElsewhere
<1>2. CASE TurnStep
  <2>1. /\ turn' \in [TurnNumber -> Turn]
        /\ \A n \in TurnNumber : turn'[n].asked = turn[n].asked /\ (turn'[n].status = "none" <=> turn[n].status = "none")
    BY <1>2 DEF TurnStep, Turn, Going, Over
  <2>2. QED
    BY <1>2, <2>1, OthersKeepMessages DEF TurnStep
<1>3. CASE ReadChapter
  BY <1>3, OthersKeepMessages DEF ReadChapter
<1>4. CASE PollHistory \/ StreamNext \/ ReadReplies
  BY <1>4, OthersKeepMessages DEF PollHistory, StreamNext, StreamOpens, StreamBreaks, StreamSnapshot, ReadReplies
<1>5. CASE ReloadReply
  BY <1>5, OthersKeepMessages DEF ReloadReply, DialogueMove
<1>6. CASE TypeMessage \/ MarkReviewed \/ RestartDialogue
  BY <1>6, BoxStepKeepsInv
<1>7. CASE \E action \in {"discuss", "revise"} : SendMessage(action)
  BY <1>7, SendKeepsInv
<1>8. CASE MessageSent \/ OldMessageSent \/ LeaveAndReturn
  BY <1>8, SentKeepsInv, OldSentKeepsInv, LeaveKeepsInv
<1>9. CASE UNCHANGED dialogueVars
  BY <1>9, OthersKeepMessages DEF dialogueVars
<1>10. QED
  BY <1>1, <1>2, <1>3, <1>4, <1>5, <1>6, <1>7, <1>8, <1>9 DEF DialogueNext

-----------------------------------------------------------------------------

\* Wherever a message is, its key is the one it was typed under, unless the answer
\* to another one has replaced that in the browser.
THEOREM DialogueInvariance == DialogueSpec => []DialogueInv
<1>1. DialogueInit => DialogueInv
  BY DialogueInitially
<1>2. QED
  BY <1>1, DialogueStep, PTL DEF DialogueSpec

\* A message becomes one turn, however often it is sent (SectionDialogue.tsx:90-93).
THEOREM TakenOnce == DialogueSpec => []MessagesAreTakenOnce
<1>1. DialogueInv => MessagesAreTakenOnce
  BY DEF DialogueInv
<1>2. QED
  BY <1>1, DialogueInvariance, PTL
-----------------------------------------------------------------------------
(* What every workspace has that the editor holds anywhere: strokes that are   *)
(* read back again, and a cut within the canvas.                               *)

Lasting(s) ==
    s = [id |-> s.id, bound |-> s.bound, points |-> s.points, targets |-> s.targets] /\ s.points > 1

Parts(w) == w.crop \in Crop /\ \A s \in w.strokes : Lasting(s)

Sound(w) ==
    /\ w = [mode |-> w.mode, base |-> w.base, edits |-> w.edits, strokes |-> w.strokes,
            marks |-> w.marks, labels |-> w.labels, crop |-> w.crop]
    /\ Parts(w)

\* A document the editor can open on a sound workspace.
Readable(d) == SavedCrop(d) \in Crop /\ \A s \in NormalizedStrokes(d.operations.strokes) : Lasting(s)

-----------------------------------------------------------------------------
(* The invariant.                                                              *)

ViewInv == view = None \/ Sound(view)

\* The snapshots of h are parts of sound workspaces.
Undoable(h) == \E S : h \in Seq(S) /\ \A s \in S : Parts(s)

DialogInv ==
    /\ cropping = None \/ Sound(cropping)
    /\ ketcher # None =>
          /\ ketcher = [target |-> ketcher.target, ready |-> ketcher.ready, on |-> ketcher.on]
          /\ ketcher.on = None \/ Sound(ketcher.on)

\* Work is saved only when all its strokes are bound.
SavingInv ==
    saving # None =>
        /\ saving = [phase |-> saving.phase, work |-> saving.work, mine |-> saving.mine]
        /\ Sound(saving.work) /\ Unbound(saving.work) = {}

DocInv ==
    /\ row.doc = None \/ Readable(row.doc)
    /\ seen.doc = None \/ Readable(seen.doc)
    /\ load = None \/ load.doc = None \/ Readable(load.doc)

EditorInv == ViewInv /\ Undoable(history) /\ DialogInv /\ SavingInv /\ DocInv /\ PublishedStrokesAreBound

-----------------------------------------------------------------------------
(* Workspaces and documents.                                                   *)

\* Edits, marks and labels are nothing the invariant depends on.
LEMMA EditsKeepSound ==
    ASSUME NEW w, Sound(w), NEW e, NEW m, NEW l
    PROVE  /\ Sound([w EXCEPT !.marks = m]) /\ Sound([w EXCEPT !.labels = l])
           /\ Sound([w EXCEPT !.edits = e, !.marks = m, !.labels = l])
<1>1. Sound([w EXCEPT !.marks = m])
  BY DEF Sound, Parts
<1>2. Sound([w EXCEPT !.labels = l])
  BY DEF Sound, Parts
<1>3. Sound([w EXCEPT !.edits = e, !.marks = m, !.labels = l])
  <2> DEFINE w1 == [w EXCEPT !.edits = e]
             w2 == [w1 EXCEPT !.marks = m]
             w3 == [w2 EXCEPT !.labels = l]
  <2>1. Sound(w1)
    BY DEF Sound, Parts
  <2>2. Sound(w2)
    <3> HIDE DEF w1
    <3> QED
      BY <2>1 DEF Sound, Parts
  <2>3. Sound(w3)
    <3> HIDE DEF w2
    <3> QED
      BY <2>2 DEF Sound, Parts
  <2>4. w3 = [w EXCEPT !.edits = e, !.marks = m, !.labels = l]
    BY Zenon
  <2> QED
    BY <2>3, <2>4, Zenon
<1> QED
  BY <1>1, <1>2, <1>3

\* A stroke that is bound lasts as before.
LEMMA BindLasts ==
    ASSUME NEW w, NEW s, Lasting(s), NEW touched
    PROVE  Lasting(Bind(w, s, touched))
<1> DEFINE under == {[object |-> t, dx |-> w.edits[t].dx] : t \in {u \in touched : ~w.edits[u].hidden}}
<1>1. Bind(w, s, touched) = [s EXCEPT !.bound = TRUE, !.targets = under]
  BY DEF Bind
<1> HIDE DEF under
<1> QED
  BY <1>1 DEF Lasting

LEMMA BoundSound ==
    ASSUME NEW w, Sound(w) PROVE Sound(Bound(w))
<1> DEFINE strokes == {IF s.bound THEN s ELSE Bind(w, s, Trace) : s \in w.strokes}
<1>1. \A s \in strokes : Lasting(s)
  BY BindLasts DEF Sound, Parts
<1> HIDE DEF strokes
<1>2. Sound([w EXCEPT !.strokes = strokes])
  BY <1>1 DEF Sound, Parts
<1> QED
  BY <1>2 DEF Bound, strokes

\* A base image without edits is sound.
LEMMA CleanSound ==
    ASSUME NEW m, NEW b PROVE Sound(Clean(m, b))
BY CanvasAssumption DEF Sound, Parts, Clean, FullCanvas, Crop

\* What a document opens on is sound.
LEMMA ReopenSound ==
    ASSUME NEW d, Readable(d) PROVE Sound(Reopen(d))
<1>1. Sound(Parse(d))
  BY CleanSound DEF Parse
<1>2. CASE AlreadyApplied(d)
  BY <1>1, <1>2 DEF Reopen, Merge
<1>3. CASE ~AlreadyApplied(d)
  <2> DEFINE edits == [t \in Trace |-> IF t \in DOMAIN d.edits THEN d.edits[t] ELSE Parse(d).edits[t]]
             strokes == NormalizedStrokes(d.operations.strokes)
             cut == SavedCrop(d)
  <2>1. Reopen(d) = [Parse(d) EXCEPT !.edits = edits, !.strokes = strokes,
                         !.marks = d.operations.marks, !.labels = d.labels, !.crop = cut]
    BY <1>3 DEF Reopen, Merge
  <2>2. cut \in Crop /\ \A s \in strokes : Lasting(s)
    BY DEF Readable
  <2> HIDE DEF edits, strokes, cut
  <2> QED
    BY <1>1, <2>1, <2>2 DEF Sound, Parts
<1> QED
  BY <1>2, <1>3

\* Multiplying by the density and dividing by it again changes nothing.
LEMMA DensityCancels ==
    ASSUME NEW x \in Nat
    PROVE  (x * Density) \div Density = x /\ (x * Density = Width * Density => x = Width)
BY CanvasAssumption

\* The cut of a saved document is the one of the workspace, and only an uncut
\* document is as wide as its source.
LEMMA CutComesBack ==
    ASSUME NEW w, Sound(w)
    PROVE  SavedCrop(Build(w)) = w.crop /\ ~AlreadyApplied(Build(w))
<1>1. w.crop \in [x : 0..Width, width : 1..Width] /\ w.crop.x + w.crop.width <= Width
  BY DEF Sound, Parts, Crop
<1>2. w.crop.x \in Nat /\ w.crop.width \in Nat /\ w.crop = [x |-> w.crop.x, width |-> w.crop.width]
  BY <1>1, CanvasAssumption
<1>3. SavedCrop(Build(w)) = w.crop
  BY <1>2, DensityCancels DEF SavedCrop, Build, PixelCrop
<1>4. w.crop.width = Width => w.crop = FullCanvas
  BY <1>1, <1>2, CanvasAssumption DEF FullCanvas
<1>5. ~AlreadyApplied(Build(w))
  BY <1>2, <1>4, DensityCancels DEF AlreadyApplied, Build, PixelCrop
<1> QED
  BY <1>3, <1>5

LEMMA BuildReadable ==
    ASSUME NEW w, Sound(w)
    PROVE  Readable(Build(w)) /\ NormalizedStrokes(Build(w).operations.strokes) = w.strokes
<1>1. NormalizedStrokes(Build(w).operations.strokes) = w.strokes
  BY DEF NormalizedStrokes, Build, OperationsForSave, Sound, Parts, Lasting
<1>2. w.crop \in Crop /\ \A s \in w.strokes : Lasting(s)
  BY DEF Sound, Parts
<1> QED
  BY <1>1, <1>2, CutComesBack DEF Readable

\* What is opened shows what was saved.
LEMMA ReopenShows ==
    ASSUME NEW w, Sound(w)
    PROVE  Shown(Reopen(Build(w))) = Shown(w)
<1> DEFINE d == Build(w)
           o == Reopen(d)
<1>1. d.mode = w.mode /\ d.labels = w.labels /\ d.operations.marks = w.marks
      /\ d.trace = [t \in Trace |-> [drawn |-> w.base[t] + w.edits[t].dx, base |-> w.base[t]]]
      /\ d.edits = [t \in {u \in Trace : w.edits[u] # NoEdit} |-> w.edits[t]]
  BY DEF Build, Materialized, OperationsForSave
<1>2. Parse(d) = Clean(w.mode, [t \in Trace |-> w.base[t]])
  BY <1>1 DEF Parse, EditableTrace
<1>3. o = [Parse(d) EXCEPT
              !.edits = [t \in Trace |-> IF t \in DOMAIN d.edits THEN d.edits[t] ELSE Parse(d).edits[t]],
              !.strokes = w.strokes, !.marks = w.marks, !.labels = w.labels, !.crop = w.crop]
  BY <1>1, CutComesBack, BuildReadable DEF Reopen, Merge
<1>4. [t \in Trace |-> IF t \in DOMAIN d.edits THEN d.edits[t] ELSE Parse(d).edits[t]]
          = [t \in Trace |-> w.edits[t]]
  <2>1. DOMAIN d.edits = {u \in Trace : w.edits[u] # NoEdit}
    BY <1>1
  <2>2. \A t \in Trace : Parse(d).edits[t] = NoEdit
    BY <1>2 DEF Clean
  <2> QED
    BY <1>1, <2>1, <2>2
<1>5. o = [mode |-> w.mode, base |-> [t \in Trace |-> w.base[t]], edits |-> [t \in Trace |-> w.edits[t]],
           strokes |-> w.strokes, marks |-> w.marks, labels |-> w.labels, crop |-> w.crop]
  <2> DEFINE base == [t \in Trace |-> w.base[t]]
             edits == [t \in Trace |-> w.edits[t]]
  <2>1. Parse(d) = [mode |-> w.mode, base |-> base, edits |-> [t \in Trace |-> NoEdit],
                    strokes |-> {}, marks |-> {}, labels |-> {}, crop |-> FullCanvas]
    BY <1>2 DEF Clean
  <2>2. o = [Parse(d) EXCEPT !.edits = edits, !.strokes = w.strokes, !.marks = w.marks,
                             !.labels = w.labels, !.crop = w.crop]
    BY <1>3, <1>4
  <2> HIDE DEF base, edits, d, o
  <2> DEFINE o1 == [Parse(d) EXCEPT !.edits = edits]
             o2 == [o1 EXCEPT !.strokes = w.strokes]
             o3 == [o2 EXCEPT !.marks = w.marks]
             o4 == [o3 EXCEPT !.labels = w.labels]
  <2>3. o1 = [mode |-> w.mode, base |-> base, edits |-> edits,
              strokes |-> {}, marks |-> {}, labels |-> {}, crop |-> FullCanvas]
    BY <2>1
  <2>4. o2 = [mode |-> w.mode, base |-> base, edits |-> edits, strokes |-> w.strokes,
              marks |-> {}, labels |-> {}, crop |-> FullCanvas]
    <3> HIDE DEF o1
    <3> QED
      BY <2>3
  <2>5. o3 = [mode |-> w.mode, base |-> base, edits |-> edits, strokes |-> w.strokes,
              marks |-> w.marks, labels |-> {}, crop |-> FullCanvas]
    <3> HIDE DEF o2
    <3> QED
      BY <2>4
  <2>6. o4 = [mode |-> w.mode, base |-> base, edits |-> edits, strokes |-> w.strokes,
              marks |-> w.marks, labels |-> w.labels, crop |-> FullCanvas]
    <3> HIDE DEF o3
    <3> QED
      BY <2>5
  <2>7. o = [o4 EXCEPT !.crop = w.crop]
    BY <2>2, Zenon
  <2>8. o = [mode |-> w.mode, base |-> base, edits |-> edits, strokes |-> w.strokes,
             marks |-> w.marks, labels |-> w.labels, crop |-> w.crop]
    <3> HIDE DEF o4
    <3> QED
      BY <2>6, <2>7
  <2> QED
    BY <2>8 DEF base, edits
<1> HIDE DEF d, o
<1>6. \A t \in Trace : o.base[t] = w.base[t] /\ o.edits[t] = w.edits[t]
  BY <1>5
<1>7. \A t \in Trace : Holes(o, t) = Holes(w, t)
  BY <1>5, <1>6 DEF Holes
<1>8. {u \in Trace : ~o.edits[u].hidden} = {u \in Trace : ~w.edits[u].hidden}
  BY <1>6
<1>9. [t \in {u \in Trace : ~o.edits[u].hidden} |-> [at |-> o.base[t] + o.edits[t].dx, holes |-> Holes(o, t)]]
        = [t \in {u \in Trace : ~w.edits[u].hidden} |-> [at |-> w.base[t] + w.edits[t].dx, holes |-> Holes(w, t)]]
  BY <1>6, <1>7, <1>8
<1> QED
  <2>1. o.marks = w.marks /\ o.labels = w.labels /\ o.crop = w.crop
    BY <1>5
  <2>2. Shown(o) = Shown(w)
    BY <1>9, <2>1, Zenon DEF Shown
  <2> QED
    BY <2>2 DEF d, o

\* What the commands of the user make of a workspace.
LEMMA CommandsKeepSound ==
    ASSUME NEW w, Sound(w), NEW keys, NEW d, NEW l, NEW m, NEW text, NEW i
    PROVE  /\ Sound(Move(w, keys, d)) /\ Sound(Delete(w, keys))
           /\ Sound(WithMark(w, m)) /\ Sound(WithLabel(w, l)) /\ Sound(MaterializeText(w, text, i))
<1>1. Sound(Move(w, keys, d))
  BY EditsKeepSound DEF Move
<1>2. \A k : Sound(Delete(w, k))
  BY EditsKeepSound DEF Delete
<1>3. Sound(WithMark(w, m)) /\ \A k : Sound(WithLabel(w, k))
  BY EditsKeepSound DEF WithMark, WithLabel
<1>4. Sound(MaterializeText(w, text, i))
  BY <1>2, <1>3, EditsKeepSound DEF MaterializeText
<1> QED
  BY <1>1, <1>2, <1>3, <1>4

LEMMA FinishedSound ==
    ASSUME Sound(view), NEW session, session.kind \in {"mark", "handle", "resize"}, NEW x
    PROVE  Sound(Finished(session, x))
BY EditsKeepSound DEF Finished

\* A snapshot carries the parts of its workspace there and back.
LEMMA RestoreSound ==
    ASSUME NEW w, Sound(w), NEW s, Parts(s)
    PROVE  Sound(RestoreSnapshot(w, s))
<1> DEFINE kept == [w EXCEPT !.edits = s.edits, !.marks = s.marks, !.labels = s.labels]
           rubbed == [kept EXCEPT !.strokes = s.strokes]
           cut == [rubbed EXCEPT !.crop = s.crop]
<1>1. Sound(kept)
  BY EditsKeepSound
<1>2. Sound(rubbed)
  <2> HIDE DEF kept
  <2> QED
    BY <1>1 DEF Sound, Parts
<1>3. Sound(cut)
  <2> HIDE DEF rubbed
  <2> QED
    BY <1>2 DEF Sound, Parts
<1>4. RestoreSnapshot(w, s) = cut
  BY DEF RestoreSnapshot, Sound
<1> QED
  BY <1>3, <1>4, Zenon

-----------------------------------------------------------------------------
(* The history.                                                                *)

LEMMA PushUndoable ==
    ASSUME HistoryLimit \in Nat \ {0}, NEW w, Sound(w), Undoable(history), PushHistory(w)
    PROVE  Undoable(history')
<1> DEFINE tail == IF Len(history) < HistoryLimit THEN history
                   ELSE SubSeq(history, Len(history) - HistoryLimit + 2, Len(history))
<1>1. PICK S : history \in Seq(S) /\ \A s \in S : Parts(s)
  BY DEF Undoable
<1>2. tail \in Seq(S)
  <2>1. CASE Len(history) < HistoryLimit
    BY <1>1, <2>1
  <2>2. CASE ~(Len(history) < HistoryLimit)
    BY <1>1, <2>2, SubSeqProperties, LenProperties
  <2> QED
    BY <2>1, <2>2
<1>3. Parts(CloneSnapshot(w))
  BY DEF Parts, Sound, CloneSnapshot
<1>4. history' = Append(tail, CloneSnapshot(w))
  BY DEF PushHistory
<1> HIDE DEF tail
<1> DEFINE T == S \cup {CloneSnapshot(w)}
<1>5. tail \in Seq(T) /\ \A s \in T : Parts(s)
  BY <1>1, <1>2, <1>3, SeqMonotonic
<1>6. history' \in Seq(T)
  BY <1>4, <1>5, AppendProperties
<1> QED
  BY <1>5, <1>6 DEF Undoable

\* Undo takes the last snapshot off.
LEMMA PopUndoable ==
    ASSUME Undoable(history), history # <<>>
    PROVE  Parts(history[Len(history)]) /\ Undoable(SubSeq(history, 1, Len(history) - 1))
<1>1. PICK S : history \in Seq(S) /\ \A s \in S : Parts(s)
  BY DEF Undoable
<1>2. Len(history) \in Nat \ {0}
  BY <1>1, EmptySeq, LenProperties
<1>3. history[Len(history)] \in S
  BY <1>1, <1>2, ElementOfSeq
<1>4. SubSeq(history, 1, Len(history) - 1) \in Seq(S)
  BY <1>1, <1>2, SubSeqProperties
<1> QED
  BY <1>1, <1>3, <1>4 DEF Undoable

LEMMA EmptyUndoable == Undoable(<<>>)
<1>1. \E S : <<>> \in Seq(S) /\ \A s \in S : Parts(s)
  <2> DEFINE none == {}
  <2>1. <<>> \in Seq(none) /\ \A s \in none : Parts(s)
    BY EmptySeq
  <2> HIDE DEF none
  <2> QED
    BY <2>1
<1> QED
  BY <1>1 DEF Undoable

-----------------------------------------------------------------------------
(* The steps, by the part of the invariant they can disturb.                   *)

StillDialogs == UNCHANGED <<cropping, ketcher>>

LEMMA UnchangedParts ==
    ASSUME EditorInv
    PROVE  /\ (UNCHANGED view) => ViewInv'
           /\ (UNCHANGED history) => Undoable(history')
           /\ StillDialogs => DialogInv'
           /\ (UNCHANGED saving) => SavingInv'
           /\ UNCHANGED <<row, seen, load>> => DocInv'
           /\ (UNCHANGED row) => PublishedStrokesAreBound'
BY DEF EditorInv, ViewInv, DialogInv, SavingInv, DocInv, PublishedStrokesAreBound, StillDialogs

\* Steps of a gesture or a command that leave the dialogs, the server and what
\* is being saved alone.
OnCanvas == StillDialogs /\ UNCHANGED <<server, load, saving>>

LEMMA CanvasStep ==
    ASSUME EditorInv, OnCanvas, ViewInv', Undoable(history')
    PROVE  EditorInv'
BY UnchangedParts DEF EditorInv, OnCanvas, server

\* A command pushes what is on the canvas and changes it.
LEMMA PushedStep ==
    ASSUME EditorInv, OnCanvas, view # None, PushHistory(view), Sound(view) => Sound(view')
    PROVE  EditorInv'
<1>1. Sound(view) /\ Undoable(history)
  BY DEF EditorInv, ViewInv
<1>2. Undoable(history')
  BY <1>1, EditorAssumption, PushUndoable
<1> QED
  BY <1>1, <1>2, CanvasStep DEF ViewInv

LEMMA LoadingSteps ==
    ASSUME EditorInv,
           \/ Redrawn \/ LoadFails \/ Refetch \/ Close
           \/ \E m \in Mode : ConversionAnswers(m) \/ ConversionReleased(m) \/ Open(m) \/ ChangeBaseMode(m)
           \/ \E readable, measurable \in BOOLEAN : LoadDone(readable, measurable)
    PROVE  EditorInv'
<1> USE UnchangedParts DEF StillDialogs, server, loading, canvas, dialogs, bounds
<1>1. CASE Redrawn
  BY <1>1 DEF Redrawn, EditorInv, DocInv, PublishedStrokesAreBound
<1>2. CASE LoadFails
  BY <1>2 DEF LoadFails, EditorInv, DocInv
<1>3. CASE Refetch
  BY <1>3, EmptyUndoable DEF Refetch, Reload, EditorInv, DocInv
<1>4. CASE Close
  <2>1. SavingInv'
    BY <1>4 DEF Close, EditorInv, SavingInv
  <2>2. DocInv' /\ ViewInv' /\ DialogInv' /\ Undoable(history')
    BY <1>4, EmptyUndoable DEF Close, Unmount, EditorInv, ViewInv, DialogInv, DocInv
  <2> QED
    BY <1>4, <2>1, <2>2 DEF Close, EditorInv
<1>5. ASSUME NEW m \in Mode, ConversionAnswers(m) \/ ConversionReleased(m) PROVE EditorInv'
  BY <1>5 DEF ConversionAnswers, ConversionReleased, EditorInv
<1>6. ASSUME NEW m \in Mode, Open(m) \/ ChangeBaseMode(m) PROVE EditorInv'
  BY <1>6, EmptyUndoable DEF Open, ChangeBaseMode, Reload, EditorInv, ViewInv, DocInv
<1>7. ASSUME NEW readable \in BOOLEAN, NEW measurable \in BOOLEAN, LoadDone(readable, measurable)
      PROVE  EditorInv'
  <2> DEFINE w == IF readable /\ load.doc # None THEN Reopen(load.doc) ELSE Clean(load.mode, Base[load.mode])
  <2>1. Sound(w) /\ Sound(Bound(w))
    BY <1>7, ReopenSound, CleanSound, BoundSound DEF LoadDone, EditorInv, DocInv
  <2>2. view' \in {w, Bound(w)}
    BY <1>7 DEF LoadDone
  <2> HIDE DEF w
  <2>3. ViewInv'
    BY <2>1, <2>2 DEF ViewInv
  <2> QED
    BY <1>7, <2>3 DEF LoadDone, EditorInv, DocInv
<1> QED
  BY <1>1, <1>2, <1>3, <1>4, <1>5, <1>6, <1>7

LEMMA PointingSteps ==
    ASSUME EditorInv, Pointing
    PROVE  EditorInv'
<1> USE DEF OnCanvas, StillDialogs, server, loading, canvas, Grab, LetGo, Gesture, PointerFree, Ready
<1>1. Sound(view) \/ view = None
  BY DEF EditorInv, ViewInv
<1>2. ASSUME NEW x \in Point, StartMark(x) PROVE EditorInv'
  BY <1>2, CommandsKeepSound, PushedStep DEF StartMark
<1>3. CASE StartErase
  BY <1>3, PushedStep DEF StartErase
<1>4. ASSUME NEW key, NEW shift, StartMove(key, shift) PROVE EditorInv'
  BY <1>4, PushedStep DEF StartMove
<1>5. ASSUME NEW m, NEW end, StartHandle(m, end) PROVE EditorInv'
  BY <1>5, PushedStep DEF StartHandle
<1>6. ASSUME NEW l, StartResize(l) PROVE EditorInv'
  BY <1>6, PushedStep DEF StartResize
<1>7. CASE StartMarquee \/ \E keys \in SUBSET (Trace \cup Id) : FinishMarquee(keys)
  BY <1>7, CanvasStep DEF StartMarquee, FinishMarquee, EditorInv, ViewInv
<1>8. ASSUME NEW x \in Point, FinishShape(x) PROVE EditorInv'
  <2>1. Sound(view')
    BY <1>1, <1>8, FinishedSound DEF FinishShape, SetView
  <2> QED
    BY <1>8, <2>1, CanvasStep DEF FinishShape, EditorInv, ViewInv
<1>9. ASSUME NEW d \in Shift, FinishMove(d) PROVE EditorInv'
  <2>1. Sound(view')
    BY <1>1, <1>9, CommandsKeepSound DEF FinishMove, SetView
  <2> QED
    BY <1>9, <2>1, CanvasStep DEF FinishMove, EditorInv, ViewInv
<1>10. ASSUME NEW touched \in SUBSET Trace, FinishErase(touched) PROVE EditorInv'
  <2> DEFINE drawn == [id |-> pointer.id, bound |-> FALSE, points |-> 2, targets |-> {}]
             rubbed == Bind(view, drawn, touched)
  <2>1. Lasting(rubbed)
    <3>1. Lasting(drawn)
      BY DEF Lasting
    <3> QED
      BY <3>1, BindLasts
  <2> HIDE DEF rubbed
  <2>2. Sound([view EXCEPT !.strokes = @ \cup {rubbed}])
    BY <1>1, <1>10, <2>1 DEF FinishErase, Sound, Parts
  <2>3. Sound(view')
    BY <1>1, <1>10, <2>2 DEF FinishErase, SetView, rubbed
  <2> QED
    BY <1>10, <2>3, CanvasStep DEF FinishErase, EditorInv, ViewInv
<1> QED
  BY <1>2, <1>3, <1>4, <1>5, <1>6, <1>7, <1>8, <1>9, <1>10 DEF Pointing

\* Taking the text from its box leaves a sound workspace and a history.
LEMMA DraftTaken ==
    ASSUME EditorInv, view # None, TakeDraft
    PROVE  Sound(view') /\ Undoable(history')
<1>1. Sound(view) /\ Undoable(history)
  BY DEF EditorInv, ViewInv
<1>2. Sound(view')
  BY <1>1, CommandsKeepSound DEF TakeDraft
<1>3. Undoable(history')
  BY <1>1, EditorAssumption, PushUndoable DEF TakeDraft
<1> QED
  BY <1>2, <1>3

LEMMA CommandSteps ==
    ASSUME EditorInv,
           \/ Undo \/ DeleteSelection \/ ResetEditor \/ CommitText \/ CancelText
           \/ \E x \in Point : StartText(x)
           \/ \E l, s : EditText(l) \/ Rescale(l, s) \/ ApplyTextStyle(l) \/ TypeText(s)
    PROVE  EditorInv'
<1> USE DEF OnCanvas, StillDialogs, server, loading, canvas, dialogs, Gesture, PointerFree, Ready, SetView
<1>1. CASE Undo
  <2>1. Sound(view) /\ Parts(history[Len(history)]) /\ Undoable(history')
    BY <1>1, PopUndoable DEF Undo, EditorInv, ViewInv
  <2>2. Sound(view')
    BY <1>1, <2>1, RestoreSound DEF Undo
  <2> QED
    BY <1>1, <2>1, <2>2, CanvasStep DEF Undo, ViewInv
<1>2. CASE DeleteSelection
  BY <1>2, CommandsKeepSound, PushedStep DEF DeleteSelection
<1>3. CASE ResetEditor
  BY <1>3, CleanSound, PushedStep DEF ResetEditor
<1>4. CASE CommitText
  <2>1. Sound(view') /\ Undoable(history')
    BY <1>4, DraftTaken DEF CommitText
  <2> QED
    BY <1>4, <2>1, CanvasStep DEF CommitText, ViewInv
<1>5. CASE CancelText \/ (\E x \in Point : StartText(x)) \/ \E l, s : EditText(l) \/ TypeText(s)
  BY <1>5, CanvasStep DEF CancelText, StartText, EditText, TypeText, EditorInv, ViewInv
<1>6. ASSUME NEW l, NEW s, Rescale(l, s) PROVE EditorInv'
  BY <1>6, CommandsKeepSound, PushedStep DEF Rescale
<1>7. ASSUME NEW l, ApplyTextStyle(l) PROVE EditorInv'
  BY <1>7, PushedStep DEF ApplyTextStyle
<1> QED
  BY <1>1, <1>2, <1>3, <1>4, <1>5, <1>6, <1>7

LEMMA DialogSteps ==
    ASSUME EditorInv,
           \/ KetcherLoads \/ CloseKetcher \/ InsertKetcher \/ KetcherExportFails \/ CropCanvas
           \/ \E c : OpenKetcher(c) \/ KetcherExported(c)
           \/ \E c \in Crop : CropDone(c)
    PROVE  EditorInv'
<1> USE DEF server, loading, canvas, SetView
<1>1. Undoable(history) /\ ViewInv /\ DialogInv
  BY DEF EditorInv
<1>2. CASE KetcherLoads \/ CloseKetcher \/ InsertKetcher \/ KetcherExportFails \/ CropCanvas \/ \E c : OpenKetcher(c)
  <2>1. DialogInv'
    BY <1>1, <1>2 DEF KetcherLoads, CloseKetcher, InsertKetcher, KetcherExportFails, CropCanvas,
                      OpenKetcher, DialogInv, ViewInv
  <2> QED
    BY <1>2, <2>1, UnchangedParts
       DEF KetcherLoads, CloseKetcher, InsertKetcher, KetcherExportFails, CropCanvas, OpenKetcher, EditorInv
<1>3. ASSUME NEW c, KetcherExported(c) PROVE EditorInv'
  <2>1. Sound(ketcher.on)
    BY <1>1, <1>3 DEF KetcherExported, DialogInv
  <2>2. Sound(view')
    BY <1>3, <2>1, EditsKeepSound, CommandsKeepSound DEF KetcherExported, Inserted
  <2>3. Undoable(history')
    BY <1>1, <1>3, <2>1, EditorAssumption, PushUndoable DEF KetcherExported
  <2>4. DialogInv'
    BY <1>1, <1>3 DEF KetcherExported, DialogInv
  <2> QED
    BY <1>3, <2>2, <2>3, <2>4, UnchangedParts DEF KetcherExported, EditorInv, ViewInv
<1>4. ASSUME NEW c \in Crop, CropDone(c) PROVE EditorInv'
  <2>1. Sound(cropping) /\ Sound([cropping EXCEPT !.crop = c])
    BY <1>1, <1>4 DEF CropDone, DialogInv, Sound, Parts
  <2>2. ViewInv' /\ Undoable(history')
    BY <1>1, <1>4, <2>1, EditorAssumption, PushUndoable DEF CropDone, ViewInv
  <2>3. DialogInv'
    BY <1>1, <1>4 DEF CropDone, DialogInv
  <2> QED
    BY <1>4, <2>2, <2>3, UnchangedParts DEF CropDone, EditorInv
<1> QED
  BY <1>2, <1>3, <1>4

LEMMA SavingSteps ==
    ASSUME EditorInv, Save \/ PngDrawn \/ SaveStored \/ SaveFails \/ SaveCloses
    PROVE  EditorInv'
<1> USE DEF server, loading, canvas, dialogs, bounds, StillDialogs
<1>1. SavingInv /\ Undoable(history) /\ ViewInv /\ DocInv
  BY DEF EditorInv
<1>2. CASE Save
  <2>1. Sound(view') /\ Undoable(history')
    BY <1>1, <1>2, DraftTaken DEF Save, Ready, ViewInv
  <2>2. SavingInv'
    BY <1>2, <2>1 DEF Save, SavingInv, CanBuild
  <2> QED
    BY <1>2, <2>1, <2>2, UnchangedParts DEF Save, EditorInv, ViewInv
<1>3. CASE PngDrawn \/ SaveFails
  <2>1. SavingInv'
    BY <1>1, <1>3 DEF PngDrawn, SaveFails, SavingInv
  <2> QED
    BY <1>3, <2>1, UnchangedParts DEF PngDrawn, SaveFails, EditorInv
<1>4. CASE SaveStored
  <2>1. SavingInv'
    BY <1>1, <1>4 DEF SaveStored, SavingInv
  <2>2. Readable(row'.doc) /\ \A s \in row'.doc.operations.strokes : s.bound
    <3>1. row'.doc = Build(saving.work)
      BY <1>4 DEF SaveStored
    <3>2. Sound(saving.work) /\ Unbound(saving.work) = {}
      BY <1>1, <1>4 DEF SaveStored, SavingInv
    <3>3. Build(saving.work).operations.strokes = saving.work.strokes
      BY DEF Build, OperationsForSave
    <3> QED
      BY <3>1, <3>2, <3>3, BuildReadable DEF Unbound
  <2>3. DocInv' /\ PublishedStrokesAreBound'
    BY <1>1, <1>4, <2>2 DEF SaveStored, DocInv, PublishedStrokesAreBound
  <2> QED
    BY <1>4, <2>1, <2>3, UnchangedParts DEF SaveStored, EditorInv
<1>5. CASE SaveCloses
  <2>1. SavingInv' /\ DialogInv' /\ ViewInv'
    BY <1>5 DEF SaveCloses, Unmount, SavingInv, DialogInv, ViewInv
  <2>2. Undoable(history')
    BY <1>5, EmptyUndoable DEF SaveCloses, Unmount
  <2>3. DocInv'
    BY <1>1, <1>5 DEF SaveCloses, Unmount, DocInv
  <2> QED
    BY <1>5, <2>1, <2>2, <2>3, UnchangedParts DEF SaveCloses, EditorInv
<1> QED
  BY <1>2, <1>3, <1>4, <1>5

-----------------------------------------------------------------------------
(* The theorems.                                                               *)

\* The invariant holds throughout: every workspace the editor holds - on the
\* canvas, in its history, in a dialog, in a save - keeps what a document keeps
\* of it, and what is saved is bound.
THEOREM EditorInvariance == Spec => []EditorInv
<1>1. Init => EditorInv
  <2> SUFFICES ASSUME Init PROVE EditorInv
    OBVIOUS
  <2>1. \A d \in Legacy : Readable(d)
    BY LegacyAssumption DEF Readable, NormalizedStrokes, Stroke, Lasting
  <2>2. DocInv /\ PublishedStrokesAreBound
    BY <2>1 DEF Init, DocInv, PublishedStrokesAreBound
  <2> QED
    BY <2>2, EmptyUndoable DEF Init, EditorInv, ViewInv, DialogInv, SavingInv
<1>2. EditorInv /\ [Next]_vars => EditorInv'
  <2> SUFFICES ASSUME EditorInv, [Next]_vars PROVE EditorInv'
    OBVIOUS
  <2>1. CASE UNCHANGED vars
    BY <2>1, UnchangedParts
       DEF vars, server, loading, canvas, dialogs, StillDialogs, EditorInv
  <2>2. CASE Next
    BY <2>2, LoadingSteps, PointingSteps, CommandSteps, DialogSteps, SavingSteps
       DEF Next, Answers, Commands
  <2> QED
    BY <2>1, <2>2
<1> QED
  BY <1>1, <1>2, PTL DEF Spec

\* For every base image, canvas, density, history and set of older documents:
\* whatever is on the canvas, opening the document saved from it shows the same
\* figure (mergeSavedSvg after buildSvgDocument).
THEOREM ReopeningShowsTheFigure == Spec => []ReopenShowsWhatWasSaved
<1>1. EditorInv => ReopenShowsWhatWasSaved
  BY ReopenShows DEF EditorInv, ViewInv, ReopenShowsWhatWasSaved
<1> QED
  BY <1>1, EditorInvariance, PTL

\* No published document holds a stroke that is not bound, whichever way its
\* work came: through undo, a crop, or a dialog begun on an older canvas
\* (buildSvgDocument's check before the save).
THEOREM PublishedAreBound == Spec => []PublishedStrokesAreBound
<1>1. EditorInv => PublishedStrokesAreBound
  BY DEF EditorInv
<1> QED
  BY <1>1, EditorInvariance, PTL
=============================================================================
