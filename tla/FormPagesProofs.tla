--------------------------- MODULE FormPagesProofs ---------------------------
(* Theorems about three pages with a form over a record that changes: whatever *)
(* lists, selections and late answers do, no record is stored with what was    *)
(* typed for another paper, no edit of an outline is lost to the answer to an  *)
(* earlier command, and no correction writes over a field of others.           *)
EXTENDS LibraryMetadata, PlanningPage, FinalReview, WellFoundedInduction, TLAPS

-----------------------------------------------------------------------------
(* LibraryMetadata: whose record a copy is.                                    *)

\* A record whose marks are those of paper p.
Own(p) == {r \in Record : r.text \in {0, p} /\ r.checked \in {0, p}}

OwnOrNone(p) == Own(p) \cup {NoRecord}

\* What is on its way, to the page or to the server.
FetchOfPaper == UNION {[paper : {p}, record : Own(p)] : p \in PaperNumber}
SentOfPaper == UNION {[paper : {p}, answered : BOOLEAN, record : Own(p)] : p \in PaperNumber}

\* The invariant: every copy of a record, on the server, in the cache, on its
\* way and in the editor, belongs to its paper, the editor's to the selected one.
ByPaper(f) ==
    /\ f \in [PaperNumber -> Record \cup {NoRecord}]
    /\ \A p \in PaperNumber : f[p] \in OwnOrNone(p)

ListInv == listed \in (SUBSET PaperNumber) \cup {NoRecord}
DraftInv == recordDraft = NoRecord \/ (Selected \in PaperNumber /\ recordDraft \in Own(Selected))
FetchInv == recordFetch \in FetchOfPaper \cup {NoRecord}
SentInv == recordSent \in [RecordCommands -> SentOfPaper \cup {NoRecord}]

RecordsInv == ByPaper(records) /\ ByPaper(recordCache) /\ ListInv /\ DraftInv /\ FetchInv /\ SentInv

-----------------------------------------------------------------------------
(* The selected paper.                                                         *)

LEMMA LeastPaper ==
    ASSUME NEW S \in SUBSET PaperNumber, S # {}
    PROVE  \E p \in S : \A q \in S : p <= q
<1>1. S \subseteq Nat
  BY RecordAssumption DEF PaperNumber
<1>2. \E p \in S : \A q \in S : ~ (<<q, p>> \in OpToRel(<, Nat))
  BY <1>1, WFMin, NatLessThanWellFounded
<1>3. PICK p \in S : \A q \in S : ~ (<<q, p>> \in OpToRel(<, Nat))
  BY <1>2
<1>4. ASSUME NEW q \in S PROVE p <= q
  <2>1. <<q, p>> \in Nat \X Nat /\ ~ (q < p)
    BY <1>1, <1>3 DEF OpToRel
  <2>2. QED
    BY <2>1
<1>5. QED
  BY <1>4

LEMMA SelectedIsListed ==
    ASSUME NEW list \in (SUBSET PaperNumber) \cup {NoRecord}, NEW choice
    PROVE  SelectedPaper(list, choice) # 0 => SelectedPaper(list, choice) \in PaperNumber
<1>1. CASE list = NoRecord \/ list = {}
  BY <1>1 DEF SelectedPaper
<1>2. CASE list # NoRecord /\ list # {} /\ choice \in list
  BY <1>2 DEF SelectedPaper
<1>3. CASE list # NoRecord /\ list # {} /\ choice \notin list
  <2>1. \E p \in list : \A q \in list : p <= q
    BY <1>3, LeastPaper
  <2>2. SelectedPaper(list, choice) \in list
    BY <1>3, <2>1 DEF SelectedPaper
  <2>3. QED
    BY <1>3, <2>2
<1>4. QED
  BY <1>1, <1>2, <1>3

\* Whatever list, choice and cache become, the editor is left with a record of
\* the paper it shows.
LEMMA FollowKeepsDraft ==
    ASSUME NEW list \in (SUBSET PaperNumber) \cup {NoRecord}, NEW choice, NEW cache, NEW draft,
           ByPaper(cache),
           draft = NoRecord \/ (Selected \in PaperNumber /\ draft \in Own(Selected)),
           Follow(list, choice, cache, draft)
    PROVE  ListInv' /\ ByPaper(recordCache)' /\ DraftInv'
<1> DEFINE now == SelectedPaper(list, choice)
<1>1. listed' = list /\ recordCache' = cache /\ chosen' = IF now # 0 THEN now ELSE choice
  BY DEF Follow
<1>2. now # 0 => now \in PaperNumber
  BY SelectedIsListed
<1>3. Selected' = now
  <2>1. Selected' = SelectedPaper(list, IF now # 0 THEN now ELSE choice)
    BY <1>1 DEF Selected
  <2>2. CASE now = 0
    BY <2>1, <2>2
  <2>3. CASE now # 0
    <3>1. list # NoRecord /\ list # {} /\ list \in SUBSET PaperNumber
      BY <2>3 DEF SelectedPaper
    <3>2. now \in list
      <4>1. \E p \in list : \A q \in list : p <= q
        BY <3>1, LeastPaper
      <4>2. QED
        BY <3>1, <4>1 DEF SelectedPaper
    <3>3. SelectedPaper(list, now) = now
      BY <3>1, <3>2 DEF SelectedPaper
    <3>4. QED
      BY <2>1, <2>3, <3>3
  <2>4. QED
    BY <2>2, <2>3
<1>4. Cached(cache, now) = NoRecord \/ (now \in PaperNumber /\ Cached(cache, now) \in Own(now))
  BY <1>2 DEF Cached, ByPaper, OwnOrNone
<1>5. recordDraft' = Cached(cache, now) \/ (now = Selected /\ recordDraft' = draft)
  BY DEF Follow
<1>6. DraftInv'
  BY <1>3, <1>4, <1>5 DEF DraftInv
<1>7. QED
  BY <1>1, <1>6 DEF ListInv, ByPaper

-----------------------------------------------------------------------------
(* The invariant.                                                              *)

\* The library page starts with records that are as they were extracted.
LEMMA RecordsInitially == RecordsInit => RecordsInv
<1> SUFFICES ASSUME RecordsInit PROVE RecordsInv
  OBVIOUS
<1>1. \A p \in PaperNumber : records[p] \in Own(p)
  BY RecordAssumption DEF RecordsInit, Own, Record, PaperNumber
<1>2. records \in [PaperNumber -> Record \cup {NoRecord}]
  BY RecordAssumption DEF RecordsInit, Record
<1>3. ByPaper(records) /\ ByPaper(recordCache)
  BY <1>1, <1>2 DEF RecordsInit, ByPaper, OwnOrNone
<1>4. QED
  BY <1>3 DEF RecordsInit, RecordsInv, ListInv, DraftInv, FetchInv, SentInv

LEMMA RecordTyped ==
    ASSUME NEW p \in PaperNumber, NEW r \in Own(p)
    PROVE  /\ r \in Record /\ r # NoRecord
           /\ [r EXCEPT !.text = p] \in Own(p)
           /\ [r EXCEPT !.tags = "typed", !.checked = 0] \in Own(p)
           /\ [r EXCEPT !.checked = p] \in Own(p)
           /\ [r EXCEPT !.checked = 0] \in Own(p)
           /\ [r EXCEPT !.reviewed = TRUE] \in Own(p)
           /\ [r EXCEPT !.abstract = TRUE, !.reviewed = FALSE] \in Own(p)
<1>1. p \in 0..MaxPapers /\ 0 \in 0..MaxPapers
  BY RecordAssumption DEF PaperNumber
<1>2. r \in Record /\ r.text \in {0, p} /\ r.checked \in {0, p}
  BY DEF Own
<1>3. Record \subseteq [text : Nat, abstract : BOOLEAN, tags : {"none", "typed"}, checked : Nat, reviewed : BOOLEAN]
  BY DEF Record
<1>4. r # NoRecord
  BY <1>2, <1>3, RecordAssumption
<1>5. QED
  BY <1>1, <1>2, <1>4 DEF Own, Record

\* What the user types or marks is marked with the selected paper.
LEMMA TypingKeepsInv ==
    ASSUME RecordsInv, NEW draft, Type(draft),
           draft \in Own(Selected)
    PROVE  RecordsInv'
<1>1. Selected \in PaperNumber
  BY DEF RecordsInv, DraftInv, Type, Editing
<1>2. UNCHANGED <<records, listed, chosen, recordCache, recordFetch, recordSent>> /\ recordDraft' = draft
  BY DEF Type
<1>3. Selected' = Selected
  BY <1>2 DEF Selected
<1>4. DraftInv'
  BY <1>1, <1>2, <1>3 DEF DraftInv
<1>5. QED
  BY <1>2, <1>4 DEF RecordsInv, ByPaper, ListInv, FetchInv, SentInv

LEMMA FollowingKeepsInv ==
    ASSUME RecordsInv, NEW list \in (SUBSET PaperNumber) \cup {NoRecord}, NEW choice, NEW cache, NEW draft,
           Follow(list, choice, cache, draft), ByPaper(cache),
           draft = NoRecord \/ (Selected \in PaperNumber /\ draft \in Own(Selected)),
           ByPaper(records)', FetchInv', SentInv'
    PROVE  RecordsInv'
BY FollowKeepsDraft DEF RecordsInv

LEMMA StillKeepsInv ==
    ASSUME RecordsInv, UNCHANGED recordViewVars, ByPaper(records)', FetchInv', SentInv'
    PROVE  RecordsInv'
<1>1. Selected' = Selected
  BY DEF Selected, recordViewVars
<1>2. DraftInv'
  BY <1>1 DEF RecordsInv, DraftInv, recordViewVars
<1>3. QED
  BY <1>2 DEF RecordsInv, ByPaper, ListInv, recordViewVars

LEMMA RecordsStep == RecordsInv /\ [RecordsNext]_recordVars => RecordsInv'
<1> SUFFICES ASSUME RecordsInv, [RecordsNext]_recordVars PROVE RecordsInv'
  OBVIOUS
<1>0. ByPaper(records) /\ ByPaper(recordCache) /\ ListInv /\ DraftInv /\ FetchInv /\ SentInv
  BY DEF RecordsInv
<1>1. ASSUME NEW p \in PaperNumber, SelectRecord(p) PROVE RecordsInv'
  <2>1. Follow(listed, p, recordCache, recordDraft) /\ UNCHANGED <<records, recordFetch, recordSent>>
    BY <1>1 DEF SelectRecord
  <2>2. ByPaper(records)' /\ FetchInv' /\ SentInv'
    BY <1>0, <2>1 DEF ByPaper, FetchInv, SentInv
  <2>3. listed \in (SUBSET PaperNumber) \cup {NoRecord}
    BY <1>0 DEF ListInv
  <2>4. QED
    BY <1>0, <2>1, <2>2, <2>3, FollowingKeepsInv DEF DraftInv
<1>2. ASSUME NEW p \in PaperNumber, DeletePaper(p) PROVE RecordsInv'
  <2>1. ByPaper(records)'
    BY <1>0, <1>2 DEF DeletePaper, ByPaper, OwnOrNone
  <2>2. FetchInv' /\ SentInv'
    BY <1>0, <1>2 DEF DeletePaper, FetchInv, SentInv
  <2>3. listed \in (SUBSET PaperNumber) \cup {NoRecord}
    BY <1>0 DEF ListInv
  <2>4. CASE Follow(listed, 0, recordCache, recordDraft)
    BY <1>0, <2>1, <2>2, <2>3, <2>4, FollowingKeepsInv DEF DraftInv
  <2>5. CASE UNCHANGED recordViewVars
    BY <2>1, <2>2, <2>5, StillKeepsInv
  <2>6. QED
    BY <1>2, <2>4, <2>5 DEF DeletePaper
<1>3. CASE FilterPapers
  <2>1. Follow(NoRecord, 0, recordCache, recordDraft) /\ UNCHANGED <<records, recordFetch, recordSent>>
    BY <1>3 DEF FilterPapers
  <2>2. ByPaper(records)' /\ FetchInv' /\ SentInv'
    BY <1>0, <2>1 DEF ByPaper, FetchInv, SentInv
  <2>3. QED
    BY <1>0, <2>1, <2>2, FollowingKeepsInv DEF DraftInv
<1>4. CASE ListArrives
  <2>1. PICK list \in {Present} \cup (IF listed = NoRecord THEN SUBSET Present ELSE {}) :
            Follow(list, chosen, recordCache, recordDraft)
    BY <1>4 DEF ListArrives
  <2>2. list \in SUBSET PaperNumber
    BY DEF Present
  <2>3. ByPaper(records)' /\ FetchInv' /\ SentInv'
    BY <1>0, <1>4 DEF ListArrives, ByPaper, FetchInv, SentInv
  <2>4. QED
    BY <1>0, <2>1, <2>2, <2>3, FollowingKeepsInv DEF DraftInv
<1>5. CASE FetchRecord
  <2>1. Selected \in PaperNumber
    <3>1. listed \in (SUBSET PaperNumber) \cup {NoRecord} /\ Selected # 0
      BY <1>0, <1>5 DEF ListInv, FetchRecord
    <3>2. QED
      BY <3>1, SelectedIsListed DEF Selected
  <2>2. records[Selected] \in Own(Selected)
    BY <1>0, <1>5, <2>1 DEF FetchRecord, ByPaper, OwnOrNone
  <2>3. FetchInv'
    BY <1>5, <2>1, <2>2 DEF FetchRecord, FetchInv, FetchOfPaper
  <2>4. ByPaper(records)' /\ SentInv'
    BY <1>0, <1>5 DEF FetchRecord, ByPaper, SentInv
  <2>5. QED
    BY <1>5, <2>3, <2>4, StillKeepsInv DEF FetchRecord
<1>6. CASE RecordArrives
  <2>1. PICK p \in PaperNumber : recordFetch \in [paper : {p}, record : Own(p)]
    BY <1>0, <1>6 DEF RecordArrives, FetchInv, FetchOfPaper
  <2>2. ByPaper([recordCache EXCEPT ![recordFetch.paper] = recordFetch.record])
    BY <1>0, <2>1 DEF ByPaper, OwnOrNone, Own
  <2>3. ByPaper(records)' /\ FetchInv' /\ SentInv'
    BY <1>0, <1>6 DEF RecordArrives, ByPaper, FetchInv, SentInv
  <2>4. listed \in (SUBSET PaperNumber) \cup {NoRecord}
    BY <1>0 DEF ListInv
  <2>5. QED
    BY <1>0, <1>6, <2>2, <2>3, <2>4, FollowingKeepsInv DEF RecordArrives, DraftInv
<1>7. ASSUME Editing PROVE Selected \in PaperNumber /\ recordDraft \in Own(Selected)
  BY <1>0, <1>7 DEF Editing, DraftInv
<1>8. CASE TypeRecord
  <2>1. Editing
    BY <1>8 DEF TypeRecord, Type
  <2>2. QED
    BY <1>7, <1>8, <2>1, RecordTyped, TypingKeepsInv DEF TypeRecord
<1>9. CASE TypeTag
  <2>1. Editing
    BY <1>9 DEF TypeTag
  <2>2. QED
    BY <1>7, <1>9, <2>1, RecordTyped, TypingKeepsInv DEF TypeTag
<1>10. CASE CheckTags
  <2>1. Editing
    BY <1>10 DEF CheckTags, Type
  <2>2. [recordDraft EXCEPT !.checked = IF @ = 0 THEN Selected ELSE 0] \in Own(Selected)
    <3>1. CASE recordDraft.checked = 0
      BY <1>7, <2>1, <3>1, RecordTyped
    <3>2. CASE recordDraft.checked # 0
      BY <1>7, <2>1, <3>2, RecordTyped
    <3>3. QED
      BY <3>1, <3>2
  <2>3. QED
    BY <1>10, <2>2, TypingKeepsInv DEF CheckTags
<1>11. ASSUME NEW command \in RecordCommands, SendRecord(command) PROVE RecordsInv'
  <2> DEFINE sent == IF command = "review" THEN [recordDraft EXCEPT !.reviewed = TRUE] ELSE recordDraft
  <2>1. Editing
    BY <1>11 DEF SendRecord, MaySendRecord
  <2>2. sent \in Own(Selected)
    BY <1>7, <2>1, RecordTyped
  <2>3. recordSent' = [recordSent EXCEPT ![command] = [paper |-> Selected, answered |-> FALSE, record |-> sent]]
    BY <1>11 DEF SendRecord
  <2>4. SentInv'
    <3> HIDE DEF sent
    <3>1. [paper |-> Selected, answered |-> FALSE, record |-> sent] \in SentOfPaper
      BY <1>7, <2>1, <2>2 DEF SentOfPaper
    <3>2. QED
      BY <1>0, <2>3, <3>1 DEF SentInv
  <2>5. ByPaper(records)' /\ FetchInv'
    BY <1>0, <1>11 DEF SendRecord, ByPaper, FetchInv
  <2>6. QED
    BY <1>11, <2>4, <2>5, StillKeepsInv DEF SendRecord
<1>12. ASSUME NEW command \in RecordCommands, RecordStored(command) PROVE RecordsInv'
  <2>1. PICK sent \in {recordSent[command]} \ {NoRecord} :
            /\ ~sent.answered /\ records[sent.paper] # NoRecord
            /\ \E kept \in Stored(command, sent) :
                  /\ records' = [records EXCEPT ![sent.paper] = kept]
                  /\ recordSent' = [recordSent EXCEPT ![command].answered = TRUE, ![command].record = kept]
    BY <1>12 DEF RecordStored
  <2>2. PICK kept \in Stored(command, sent) :
            /\ records' = [records EXCEPT ![sent.paper] = kept]
            /\ recordSent' = [recordSent EXCEPT ![command].answered = TRUE, ![command].record = kept]
    BY <2>1
  <2>3. PICK p \in PaperNumber : sent \in [paper : {p}, answered : BOOLEAN, record : Own(p)]
    BY <1>0, <2>1 DEF SentInv, SentOfPaper
  <2>4. records[p] \in Own(p)
    BY <1>0, <2>1, <2>3 DEF ByPaper, OwnOrNone
  <2>5. kept \in Own(p)
    <3>1. sent.paper = p /\ sent.record \in Own(p)
      BY <2>3
    <3>2. [records[p] EXCEPT !.abstract = TRUE, !.reviewed = FALSE] \in Own(p)
      BY <2>4, RecordTyped
    <3>3. kept \in {sent.record, records[p], [records[p] EXCEPT !.abstract = TRUE, !.reviewed = FALSE]}
      BY <3>1, Zenon DEF Stored
    <3>4. QED
      BY <2>4, <3>1, <3>2, <3>3, Zenon
  <2>6. ByPaper(records)'
    BY <1>0, <2>2, <2>3, <2>5 DEF ByPaper, OwnOrNone, Own
  <2>7. SentInv'
    <3>1. recordSent[command] = sent
      BY <2>1
    <3>2. [[sent EXCEPT !.answered = TRUE] EXCEPT !.record = kept] \in SentOfPaper
      <4>1. [sent EXCEPT !.answered = TRUE] \in [paper : {p}, answered : BOOLEAN, record : Own(p)]
        BY <2>3
      <4>2. ASSUME NEW s \in [paper : {p}, answered : BOOLEAN, record : Own(p)]
            PROVE  [s EXCEPT !.record = kept] \in [paper : {p}, answered : BOOLEAN, record : Own(p)]
        BY <2>5
      <4>3. [[sent EXCEPT !.answered = TRUE] EXCEPT !.record = kept]
                \in [paper : {p}, answered : BOOLEAN, record : Own(p)]
        BY <4>1, <4>2, Zenon
      <4>4. QED
        BY <4>3, Zenon DEF SentOfPaper
    <3> DEFINE once == [recordSent EXCEPT ![command].answered = TRUE]
    <3>3. once = [recordSent EXCEPT ![command] = [sent EXCEPT !.answered = TRUE]]
      BY <3>1, Zenon
    <3>4. once[command] = [sent EXCEPT !.answered = TRUE]
      BY <1>0, <3>3 DEF SentInv
    <3>5. recordSent' = [once EXCEPT ![command] = [once[command] EXCEPT !.record = kept]]
      BY <2>2, Zenon
    <3>6. recordSent' = [once EXCEPT ![command] = [[sent EXCEPT !.answered = TRUE] EXCEPT !.record = kept]]
      BY <3>4, <3>5, Zenon
    <3> DEFINE stored == [[sent EXCEPT !.answered = TRUE] EXCEPT !.record = kept]
               first == [sent EXCEPT !.answered = TRUE]
    <3>7. recordSent' = [[recordSent EXCEPT ![command] = first] EXCEPT ![command] = stored]
      BY <3>3, <3>6, Zenon
    <3>8. stored \in SentOfPaper
      BY <3>2
    <3>9. QED
      <4> HIDE DEF stored, first
      <4> QED
        BY <1>0, <3>7, <3>8 DEF SentInv
  <2>8. FetchInv' /\ UNCHANGED recordViewVars
    BY <1>0, <1>12 DEF RecordStored, FetchInv
  <2>9. QED
    BY <2>6, <2>7, <2>8, StillKeepsInv
<1>13. ASSUME NEW command \in RecordCommands, RecordAnswered(command) PROVE RecordsInv'
  <2>1. PICK sent \in {recordSent[command]} \ {NoRecord} :
            IF sent.answered
            THEN Follow(listed, chosen, [recordCache EXCEPT ![sent.paper] = sent.record],
                        IF AnswerShown(sent) THEN sent.record ELSE recordDraft)
            ELSE UNCHANGED recordViewVars
    BY <1>13 DEF RecordAnswered
  <2>2. PICK p \in PaperNumber : sent \in [paper : {p}, answered : BOOLEAN, record : Own(p)]
    BY <1>0, <2>1 DEF SentInv, SentOfPaper
  <2>3. ByPaper(records)' /\ FetchInv' /\ SentInv'
    BY <1>0, <1>13 DEF RecordAnswered, ByPaper, FetchInv, SentInv
  <2>4. CASE ~sent.answered
    BY <2>1, <2>3, <2>4, StillKeepsInv
  <2>5. CASE sent.answered
    <3> DEFINE shown == IF AnswerShown(sent) THEN sent.record ELSE recordDraft
               cache == [recordCache EXCEPT ![sent.paper] = sent.record]
    <3>1. ByPaper(cache)
      BY <1>0, <2>2 DEF ByPaper, OwnOrNone, Own
    <3>2. shown = NoRecord \/ (Selected \in PaperNumber /\ shown \in Own(Selected))
      BY <1>0, <2>2 DEF AnswerShown, DraftInv
    <3>3. listed \in (SUBSET PaperNumber) \cup {NoRecord} /\ Follow(listed, chosen, cache, shown)
      BY <1>0, <2>1, <2>5 DEF ListInv
    <3>4. QED
      <4> HIDE DEF shown, cache
      <4> QED
        BY <2>3, <3>1, <3>2, <3>3, FollowingKeepsInv
  <2>6. QED
    BY <2>4, <2>5
<1>14. CASE UNCHANGED recordVars
  <2>1. UNCHANGED recordViewVars /\ UNCHANGED <<records, recordFetch, recordSent>>
    BY <1>14 DEF recordVars, recordViewVars
  <2>2. ByPaper(records)' /\ FetchInv' /\ SentInv'
    BY <1>0, <2>1 DEF ByPaper, FetchInv, SentInv
  <2>3. QED
    BY <2>1, <2>2, StillKeepsInv
<1>15. QED
  BY <1>1, <1>2, <1>3, <1>4, <1>5, <1>6, <1>8, <1>9, <1>10, <1>11, <1>12, <1>13, <1>14 DEF RecordsNext

-----------------------------------------------------------------------------

\* Every copy of a record stays with its paper.
THEOREM RecordCopiesStay == RecordsSpec => []RecordsInv
<1>1. RecordsInit => RecordsInv
  BY RecordsInitially
<1>2. RecordsInv /\ [RecordsNext]_recordVars => RecordsInv'
  BY RecordsStep
<1>3. QED
  BY <1>1, <1>2, PTL DEF RecordsSpec

\* What is stored on the server was typed and checked for its own paper,
\* although all papers share the library page's one editor.
THEOREM StoredRecordsStay == RecordsSpec => []RecordsStayWithTheirPaper
<1>1. RecordsInv => RecordsStayWithTheirPaper
  BY DEF RecordsInv, ByPaper, OwnOrNone, Own, RecordsStayWithTheirPaper
<1>2. QED
  BY <1>1, RecordCopiesStay, PTL

-----------------------------------------------------------------------------
(* PlanningPage: commands and the draft of the outline.                        *)

\* A command with the text it was given for.
PlanCommand == [command : OutlineCommands, text : OutlineText, rev : Nat,
                phase : {"sent", "accepted"}, left : OutlineText \cup {NoPlan}]

\* Of all visits at most one waits for the refresh after its command: the answer
\* to another command drops that refresh.
OneAccepted ==
    \A v, w \in Visits :
        /\ outlineSent[v] # NoPlan /\ outlineSent[v].phase = "accepted"
        /\ outlineSent[w] # NoPlan /\ outlineSent[w].phase = "accepted"
        => v = w

\* The page has its payload: before that nothing is sent and it is not left.
Loaded ==
    /\ planCache = [rev |-> planCache.rev, outline |-> planCache.outline, papers |-> planCache.papers,
                    job |-> planCache.job, number |-> planCache.number, due |-> planCache.due]
    /\ planCache.rev \in Nat /\ planCache.outline \in OutlineText

\* The invariant of the outline's draft.
OutlineInv ==
    /\ planVisit \in [number : Visits, open : BOOLEAN] /\ (planVisit.open \/ planVisit.number < MaxPlanVisits)
    /\ planServer = [rev |-> planServer.rev, outline |-> planServer.outline, papers |-> planServer.papers]
    /\ planServer.rev \in Nat /\ planServer.outline \in OutlineText
    /\ planCache # NoPlan =>
          /\ planCache = [rev |-> planCache.rev, outline |-> planCache.outline, papers |-> planCache.papers,
                          job |-> planCache.job, number |-> planCache.number, due |-> planCache.due]
          /\ planCache.rev \in Nat /\ planCache.outline \in OutlineText
    /\ planCache # NoPlan \/ ~planVisit.open \/ (\E v \in Visits : outlineSent[v] # NoPlan) => Loaded
    /\ planFetch # NoPlan => planFetch.rev \in Nat /\ planFetch.outline \in OutlineText
    /\ outlineDraft \in OutlineText \cup {NoPlan} /\ outlineStored \in OutlineText \cup {NoPlan}
    /\ outlineSent \in [Visits -> PlanCommand \cup {NoPlan}]
    /\ OneAccepted

\* At first nothing is loaded, typed or sent.
LEMMA OutlineInitially == ASSUME PlanInit PROVE OutlineInv
BY PlanAssumption DEF PlanInit, OutlineInv, OneAccepted, Visits

\* The fields of a cache whose refetch is due, or not any more.
LEMMA CacheDue ==
    ASSUME Loaded, NEW due
    PROVE  [planCache EXCEPT !.due = due] =
              [rev |-> planCache.rev, outline |-> planCache.outline, papers |-> planCache.papers,
               job |-> planCache.job, number |-> planCache.number, due |-> due]
BY DEF Loaded

\* What the editor shows is a text.
LEMMA ShownText == ASSUME OutlineInv, planCache # NoPlan PROVE OutlineValue \in OutlineText
BY DEF OutlineInv, Loaded, OutlineValue, OutlineIn

\* The server and the queries leave the commands alone.
LEMMA OutlineServerStep == ASSUME OutlineInv, PlanServerNext PROVE OutlineInv'
<1> USE DEF OutlineInv, Loaded, OneAccepted, planQueryVars, outlineVars
<1>1. CASE PublishAnalysis
  <2>1. PICK p, result : planServer' = [planServer EXCEPT !.rev = @ + 1, !.papers[p] = result]
    BY <1>1 DEF PublishAnalysis
  <2>2. /\ planServer'.rev = planServer.rev + 1 /\ planServer'.outline = planServer.outline
        /\ planServer' = [rev |-> planServer'.rev, outline |-> planServer'.outline, papers |-> planServer'.papers]
    BY <2>1
  <2>3. QED
    BY <1>1, <2>2 DEF PublishAnalysis
<1>2. CASE AnalysisStep
  BY <1>2 DEF AnalysisStep
<1>3. CASE OutlineElsewhere
  <2>1. PICK t \in OutlineText : planServer' = [planServer EXCEPT !.rev = @ + 1, !.outline = t]
    BY <1>3 DEF OutlineElsewhere
  <2>2. /\ planServer'.rev = planServer.rev + 1 /\ planServer'.outline = t
        /\ planServer' = [rev |-> planServer'.rev, outline |-> planServer'.outline, papers |-> planServer'.papers]
    BY <2>1
  <2>3. QED
    BY <1>3, <2>2 DEF OutlineElsewhere
<1>4. QED
  BY <1>1, <1>2, <1>3 DEF PlanServerNext

\* A payload that arrives ends the commands that waited for it.
LEMMA OutlineQueryStep == ASSUME OutlineInv, FetchPlanning \/ PlanningArrives \/ ResumeAnalysis PROVE OutlineInv'
<1> USE DEF Loaded, planServerVars, outlineVars
<1>1. CASE FetchPlanning
  BY <1>1 DEF FetchPlanning, Artifacts, OutlineInv, OneAccepted
<1>2. CASE PlanningArrives
  <2>1. /\ UNCHANGED <<planServer, planVisit>> /\ planFetch # NoPlan /\ planFetch' = NoPlan
        /\ planCache' = [rev |-> planFetch.rev, outline |-> planFetch.outline,
                         papers |-> planFetch.papers, job |-> planJob.status,
                         number |-> planJob.number, due |-> planCache'.due]
    BY <1>2 DEF PlanningArrives
  <2>2. planCache'.rev \in Nat /\ planCache'.outline \in OutlineText
        /\ planCache' = [rev |-> planCache'.rev, outline |-> planCache'.outline, papers |-> planCache'.papers,
                          job |-> planCache'.job, number |-> planCache'.number, due |-> planCache'.due]
    BY <2>1 DEF OutlineInv
  <2>3. outlineDraft' \in {outlineDraft, NoPlan} /\ outlineStored' \in {outlineStored, NoPlan}
    BY <1>2 DEF PlanningArrives
  <2>4. outlineSent' = [v \in Visits |-> IF \E c \in {outlineSent[v]} \ {NoPlan} : c.phase = "accepted"
                                        THEN NoPlan ELSE outlineSent[v]]
    BY <1>2 DEF PlanningArrives
  <2>5. outlineSent' \in [Visits -> PlanCommand \cup {NoPlan}] /\ OneAccepted'
    BY <2>4 DEF OutlineInv, OneAccepted
  <2>6. QED
    BY <2>1, <2>2, <2>3, <2>5 DEF OutlineInv
<1>3. CASE ResumeAnalysis
  <2>1. planCache # NoPlan /\ planCache' = [planCache EXCEPT !.due = TRUE] /\ planFetch' = NoPlan
        /\ UNCHANGED <<planServer, outlineVars, planVisit>>
    BY <1>3 DEF ResumeAnalysis, Mounted
  <2>2. QED
    BY <2>1, CacheDue DEF OutlineInv, OneAccepted, Mounted
<1>4. QED
  BY <1>1, <1>2, <1>3

\* What the user does on the page.
LEMMA OutlineEditStep ==
    ASSUME OutlineInv, EditOutline \/ DiscardEdits \/ \E command \in OutlineCommands : SendOutline(command)
    PROVE  OutlineInv'
<1> USE DEF OutlineInv, Loaded, planServerVars, planQueryVars
<1>1. CASE EditOutline \/ DiscardEdits
  BY <1>1 DEF EditOutline, DiscardEdits, SetDraft, OneAccepted
<1>2. ASSUME NEW command \in OutlineCommands, SendOutline(command) PROVE OutlineInv'
  <2>1. OutlineValue \in OutlineText
    BY <1>2, ShownText DEF SendOutline, Mounted
  <2> planCache # NoPlan
    BY <1>2 DEF SendOutline, Mounted
  <2>2. [command |-> command, text |-> OutlineValue, rev |-> planCache.rev, phase |-> "sent", left |-> NoPlan] \in PlanCommand
    BY <1>2, <2>1 DEF PlanCommand, SendOutline, Mounted
  <2>3. /\ outlineSent' \in [Visits -> PlanCommand \cup {NoPlan}]
        /\ \A v \in Visits : outlineSent'[v] # NoPlan /\ outlineSent'[v].phase = "accepted" => outlineSent'[v] = outlineSent[v]
    BY <1>2, <2>2 DEF SendOutline
  <2>4. OneAccepted'
    BY <2>3 DEF OneAccepted
  <2>5. QED
    BY <1>2, <2>3, <2>4 DEF SendOutline
<1>3. QED
  BY <1>1, <1>2

\* An answer is accepted, and waits for the refresh, or ends its command.
LEMMA OutlineAnswerStep ==
    ASSUME OutlineInv, NEW v \in Visits, OutlineAccepted(v) \/ OutlineSuggested(v) \/ OutlineRefused(v)
    PROVE  OutlineInv'
<1> DEFINE sent == outlineSent[v]
<1>1. sent # NoPlan /\ sent \in PlanCommand /\ Loaded
  BY DEF OutlineInv, OutlineAccepted, OutlineSuggested, OutlineRefused
<1>2. CASE OutlineAccepted(v)
  <2>1. PICK t \in OutlineText :
           /\ planServer' = [planServer EXCEPT !.rev = @ + 1, !.outline = t]
           /\ planCache' = IF outlineSent[v].command = "choose"
                           THEN [planCache EXCEPT !.outline = t, !.rev = planServer.rev + 1, !.due = TRUE]
                           ELSE [planCache EXCEPT !.due = TRUE]
    <3>1. sent.text \in OutlineText
      BY <1>1 DEF PlanCommand
    <3>2. QED
      BY <1>2, <3>1 DEF OutlineAccepted
  <2>2. /\ planServer'.rev = planServer.rev + 1 /\ planServer'.outline = t
        /\ planServer' = [rev |-> planServer'.rev, outline |-> planServer'.outline, papers |-> planServer'.papers]
    BY <2>1 DEF OutlineInv
  <2>3. /\ planCache'.rev \in {planCache.rev, planServer.rev + 1} /\ planCache'.outline \in {planCache.outline, t}
        /\ planCache' = [rev |-> planCache'.rev, outline |-> planCache'.outline, papers |-> planCache'.papers,
                          job |-> planCache'.job, number |-> planCache'.number, due |-> planCache'.due]
    BY <2>1, <1>1 DEF Loaded
  <2>4. outlineSent' = [w \in Visits |->
                          IF w = v THEN [outlineSent[v] EXCEPT !.phase = "accepted"]
                          ELSE IF \E c \in {outlineSent[w]} \ {NoPlan} : c.phase = "accepted" THEN NoPlan
                          ELSE outlineSent[w]]
    BY <1>2 DEF OutlineAccepted
  <2>5. [sent EXCEPT !.phase = "accepted"] \in PlanCommand
    BY <1>1 DEF PlanCommand
  <2>6. outlineSent' \in [Visits -> PlanCommand \cup {NoPlan}]
    BY <2>4, <2>5 DEF OutlineInv
  <2>7. OneAccepted'
    BY <2>4 DEF OneAccepted
  <2>8. Loaded'
    BY <1>1, <2>1, <2>3 DEF Loaded, OutlineInv
  <2>9. UNCHANGED <<planVisit, outlineDraft, outlineStored>> /\ planFetch' = NoPlan
    BY <1>2 DEF OutlineAccepted
  <2>10. QED
    <3>1. planServer'.rev \in Nat /\ planServer'.outline \in OutlineText
      BY <2>2 DEF OutlineInv
    <3>2. /\ planVisit' \in [number : Visits, open : BOOLEAN] /\ (planVisit'.open \/ planVisit'.number < MaxPlanVisits)
          /\ outlineDraft' \in OutlineText \cup {NoPlan} /\ outlineStored' \in OutlineText \cup {NoPlan}
      BY <2>9 DEF OutlineInv
    <3>3. QED
      BY <2>2, <2>6, <2>7, <2>8, <2>9, <3>1, <3>2 DEF OutlineInv, Loaded
<1>3. CASE OutlineSuggested(v)
  <2>1. /\ outlineDraft' \in OutlineText \cup {outlineDraft} /\ outlineStored' \in OutlineText \cup {outlineStored}
        /\ outlineSent' = [outlineSent EXCEPT ![v] = NoPlan]
        /\ UNCHANGED <<planServerVars, planQueryVars, planVisit>>
    BY <1>3 DEF OutlineSuggested
  <2>2. outlineSent' \in [Visits -> PlanCommand \cup {NoPlan}] /\ OneAccepted'
    BY <2>1 DEF OutlineInv, OneAccepted
  <2>3. QED
    BY <1>1, <2>1, <2>2 DEF OutlineInv, Loaded, planServerVars, planQueryVars
<1>4. CASE OutlineRefused(v)
  <2>1. /\ outlineSent' = [outlineSent EXCEPT ![v] = NoPlan]
        /\ UNCHANGED <<planServer, planFetch, outlineDraft, outlineStored, planVisit>>
        /\ planCache' = planCache \/ planCache' = [planCache EXCEPT !.due = TRUE]
    BY <1>4 DEF OutlineRefused, planServerVars
  <2>2. outlineSent' \in [Visits -> PlanCommand \cup {NoPlan}] /\ OneAccepted'
    BY <2>1 DEF OutlineInv, OneAccepted
  <2>3. QED
    BY <1>1, <2>1, <2>2, CacheDue DEF OutlineInv, Loaded
<1>5. QED
  BY <1>2, <1>3, <1>4

\* The next visit finds the commands of this one.
LEMMA OutlineVisitStep == ASSUME OutlineInv, LeavePlanning \/ ReturnToPlanning PROVE OutlineInv'
<1>1. CASE LeavePlanning
  <2> DEFINE n == planVisit.number
  <2>1. /\ UNCHANGED <<planServerVars, planQueryVars, outlineStored>> /\ planCache # NoPlan /\ outlineDraft' = NoPlan
        /\ planVisit' = [planVisit EXCEPT !.open = FALSE]
    BY <1>1 DEF LeavePlanning, Mounted
  <2>2. OutlineValue \in OutlineText /\ Loaded /\ n \in Visits
    BY <2>1, ShownText DEF OutlineInv
  <2>3. \/ outlineSent' = outlineSent
        \/ /\ outlineSent[n] # NoPlan
           /\ outlineSent' = [outlineSent EXCEPT ![n] = [outlineSent[n] EXCEPT !.left = OutlineValue]]
    BY <1>1, <2>2 DEF LeavePlanning, OutlineBusy, OutlineInv
  <2>4. outlineSent[n] # NoPlan => /\ [outlineSent[n] EXCEPT !.left = OutlineValue] \in PlanCommand
                                  /\ [outlineSent[n] EXCEPT !.left = OutlineValue].phase = outlineSent[n].phase
    BY <2>2 DEF OutlineInv, PlanCommand
  <2> HIDE DEF n
  <2>5. outlineSent' \in [Visits -> PlanCommand \cup {NoPlan}]
    BY <2>2, <2>3, <2>4 DEF OutlineInv
  <2>6. \A v \in Visits : outlineSent'[v] # NoPlan =>
           outlineSent[v] # NoPlan /\ outlineSent'[v].phase = outlineSent[v].phase
    BY <2>2, <2>3, <2>4 DEF OutlineInv
  <2>7. OneAccepted'
    BY <2>6 DEF OutlineInv, OneAccepted
  <2>8. planVisit'.number = n /\ planVisit'.open = FALSE /\ planVisit' \in [number : Visits, open : BOOLEAN]
        /\ n < MaxPlanVisits
    BY <1>1, <2>1 DEF LeavePlanning, OutlineInv, n
  <2>9. QED
    BY <2>1, <2>2, <2>5, <2>7, <2>8 DEF OutlineInv, Loaded, planServerVars, planQueryVars
<1>2. CASE ReturnToPlanning
  <2>1. /\ UNCHANGED <<planServerVars, planFetch, outlineStored, outlineSent>> /\ ~planVisit.open
        /\ planVisit' = [number |-> planVisit.number + 1, open |-> TRUE]
        /\ outlineDraft' = outlineStored
        /\ \E due : planCache' = [planCache EXCEPT !.due = due]
    BY <1>2 DEF ReturnToPlanning
  <2>2. Loaded
    BY <2>1 DEF OutlineInv
  <2>3. Loaded'
    BY <2>1, <2>2, CacheDue DEF Loaded
  <2>4. planVisit'.number \in Visits
    BY <2>1, PlanAssumption DEF OutlineInv, Visits
  <2>5. QED
    <3>1. OneAccepted' /\ outlineSent' \in [Visits -> PlanCommand \cup {NoPlan}]
      BY <2>1 DEF OutlineInv, OneAccepted
    <3>2. planVisit' \in [number : Visits, open : BOOLEAN] /\ planVisit'.open
      BY <2>1, <2>4
    <3>3. QED
      <4>1. planServer' = planServer /\ planFetch' = planFetch
        BY <2>1 DEF planServerVars
      <4>2. planServer' = [rev |-> planServer'.rev, outline |-> planServer'.outline, papers |-> planServer'.papers]
            /\ planServer'.rev \in Nat /\ planServer'.outline \in OutlineText
            /\ (planFetch' # NoPlan => planFetch'.rev \in Nat /\ planFetch'.outline \in OutlineText)
        BY <4>1 DEF OutlineInv
      <4>3. outlineDraft' \in OutlineText \cup {NoPlan} /\ outlineStored' \in OutlineText \cup {NoPlan}
        BY <2>1 DEF OutlineInv
      <4>4. QED
        BY <2>3, <3>1, <3>2, <4>2, <4>3 DEF OutlineInv, Loaded
<1>3. QED
  BY <1>1, <1>2

\* Every step of the page and of the server.
LEMMA OutlineStep == OutlineInv /\ [PlanNext]_planVars => OutlineInv'
<1> SUFFICES ASSUME OutlineInv, [PlanNext]_planVars PROVE OutlineInv'
  OBVIOUS
<1>1. CASE PlanNext
  BY <1>1, OutlineServerStep, OutlineQueryStep, OutlineEditStep, OutlineAnswerStep, OutlineVisitStep DEF PlanNext
<1>2. CASE UNCHANGED planVars
  BY <1>2 DEF planVars, planServerVars, planQueryVars, outlineVars, OutlineInv, OneAccepted, Loaded
<1>3. QED
  BY <1>1, <1>2

\* At most one command waits for the refresh that takes its draft away
\* (useFormDraft.ts, PlanningPage.tsx).
THEOREM OneRefreshAtATime == PlanSpec => []OutlineInv
<1>1. PlanInit => OutlineInv
  BY OutlineInitially
<1>2. QED
  BY <1>1, OutlineStep, PTL DEF PlanSpec

-----------------------------------------------------------------------------

\* What a visit stored last is what its editor shows, or showed when it was left
\* with a command under way; visits come one after the other.
StoredInv ==
    /\ outlineTypedIn \in Visits /\ outlineTypedIn <= planVisit.number
    /\ outlineStored # NoPlan /\ planVisit.open /\ outlineTypedIn = planVisit.number => outlineDraft = outlineStored
    /\ \A v \in Visits : outlineSent[v] # NoPlan =>
          /\ v <= planVisit.number
          /\ ~Here(v) /\ outlineStored # NoPlan /\ outlineTypedIn = v => outlineSent[v].left = outlineStored

LEMMA StoredInitially == ASSUME PlanInit PROVE StoredInv
BY PlanAssumption DEF PlanInit, StoredInv, Visits

\* A command that ends leaves no trace of its visit.
LEMMA StoredUnderFewer ==
    ASSUME OutlineInv, StoredInv, UNCHANGED <<planVisit, outlineTypedIn>>,
           outlineStored' \in {outlineStored, NoPlan}, outlineStored' # NoPlan => UNCHANGED outlineDraft,
           \A v \in Visits : outlineSent'[v] # NoPlan =>
               outlineSent[v] # NoPlan /\ outlineSent'[v].left = outlineSent[v].left
    PROVE  StoredInv'
BY DEF StoredInv, Here

LEMMA StoredStep == OutlineInv /\ StoredInv /\ [PlanNext]_planVars => StoredInv'
<1> SUFFICES ASSUME OutlineInv, StoredInv, [PlanNext]_planVars PROVE StoredInv'
  OBVIOUS
<1> DEFINE n == planVisit.number
<1>0. n \in Visits /\ n \in Nat /\ outlineSent \in [Visits -> PlanCommand \cup {NoPlan}]
  BY PlanAssumption DEF OutlineInv, Visits
<1>1. CASE PlanServerNext \/ FetchPlanning \/ ResumeAnalysis \/ UNCHANGED planVars
  <2>1. UNCHANGED <<planVisit, outlineVars>>
    BY <1>1 DEF PlanServerNext, PublishAnalysis, AnalysisStep, OutlineElsewhere, FetchPlanning, ResumeAnalysis, planVars
  <2>2. QED
    BY <2>1 DEF outlineVars, StoredInv, Here
<1>2. CASE PlanningArrives
  <2>1. /\ UNCHANGED <<planVisit, outlineTypedIn>>
        /\ outlineStored' = IF \E v \in Visits : Committed(v, planCache') THEN NoPlan ELSE outlineStored
        /\ outlineDraft' = IF \E v \in Visits : Here(v) /\ Committed(v, planCache') THEN NoPlan ELSE outlineDraft
        /\ \A v \in Visits : outlineSent'[v] \in {outlineSent[v], NoPlan}
    BY <1>2 DEF PlanningArrives
  <2>2. outlineStored' # NoPlan => UNCHANGED outlineDraft
    BY <2>1
  <2>3. outlineStored' \in {outlineStored, NoPlan}
    BY <2>1
  <2>4. \A v \in Visits : outlineSent'[v] # NoPlan => outlineSent[v] # NoPlan /\ outlineSent'[v].left = outlineSent[v].left
    BY <2>1
  <2>5. QED
    BY <2>1, <2>2, <2>3, <2>4, StoredUnderFewer
<1>3. CASE EditOutline \/ DiscardEdits
  <2>1. UNCHANGED <<planVisit, outlineSent>> /\ Here(n) /\ outlineTypedIn' = n /\ outlineDraft' = outlineStored'
    BY <1>3 DEF EditOutline, DiscardEdits, SetDraft, Mounted, Here, OutlineInv
  <2>2. n <= n
    BY <1>0
  <2>3. QED
    BY <1>0, <2>1, <2>2 DEF StoredInv, Here
<1>4. ASSUME NEW command \in OutlineCommands, SendOutline(command) PROVE StoredInv'
  <2>1. Here(n) /\ UNCHANGED <<planVisit, outlineDraft, outlineStored, outlineTypedIn>>
        /\ \A v \in Visits : v # n => outlineSent'[v] = outlineSent[v]
    BY <1>0, <1>4 DEF SendOutline, Mounted, Here, OutlineInv
  <2>2. QED
    BY <1>0, <2>1 DEF StoredInv, Here
<1>5. ASSUME NEW v \in Visits, OutlineAccepted(v) \/ OutlineRefused(v) PROVE StoredInv'
  <2>1. UNCHANGED <<planVisit, outlineDraft, outlineStored, outlineTypedIn>>
    BY <1>5 DEF OutlineAccepted, OutlineRefused
  <2>2. \A w \in Visits : outlineSent'[w] # NoPlan =>
            outlineSent[w] # NoPlan /\ outlineSent'[w].left = outlineSent[w].left
    <3>1. outlineSent[v] \in PlanCommand
      BY <1>0, <1>5 DEF OutlineAccepted, OutlineRefused
    <3>2. [outlineSent[v] EXCEPT !.phase = "accepted"].left = outlineSent[v].left
      BY <3>1 DEF PlanCommand
    <3>3. QED
      BY <1>0, <1>5, <3>2 DEF OutlineAccepted, OutlineRefused
  <2>3. QED
    BY <2>1, <2>2, StoredUnderFewer
<1>6. ASSUME NEW v \in Visits, OutlineSuggested(v) PROVE StoredInv'
  <2>1. outlineSent[v] # NoPlan /\ UNCHANGED planVisit /\ outlineSent' = [outlineSent EXCEPT ![v] = NoPlan]
        /\ v <= n
    BY <1>6 DEF OutlineSuggested, StoredInv
  <2>2. CASE UNCHANGED <<outlineDraft, outlineStored, outlineTypedIn>>
    BY <1>0, <2>1, <2>2, StoredUnderFewer
  <2>3. CASE ~UNCHANGED <<outlineDraft, outlineStored, outlineTypedIn>>
    <3>1. outlineTypedIn' = v /\ (Here(v) => outlineDraft' = outlineStored')
      <4>1. PICK t \in OutlineText :
               \/ UNCHANGED <<outlineDraft, outlineStored, outlineTypedIn>>
               \/ /\ outlineDraft' = IF Here(v) THEN t ELSE outlineDraft
                  /\ outlineStored' = t /\ outlineTypedIn' = v
        BY <1>6 DEF OutlineSuggested
      <4>2. QED
        BY <2>2, <2>3, <4>1
    <3>2. planVisit.open /\ v = n => Here(v)
      BY DEF OutlineInv, Here
    <3>3. QED
      BY <1>0, <2>1, <3>1, <3>2 DEF StoredInv, Here
  <2>4. QED
    BY <1>6, <2>2, <2>3 DEF OutlineSuggested
<1>7. CASE LeavePlanning
  <2>1. /\ UNCHANGED <<outlineStored, outlineTypedIn>> /\ planVisit.open /\ planVisit' = [planVisit EXCEPT !.open = FALSE]
    BY <1>7 DEF LeavePlanning, Mounted
  <2>2. planVisit'.number = n /\ ~planVisit'.open /\ Here(n)
    BY <2>1 DEF OutlineInv, Here
  <2>3. /\ outlineSent[n] # NoPlan => outlineSent'[n].left = OutlineValue
        /\ \A v \in Visits : outlineSent'[v] # NoPlan => outlineSent[v] # NoPlan \/ v = n
        /\ \A v \in Visits : v # n => outlineSent'[v] = outlineSent[v]
        /\ outlineSent'[n] # NoPlan => outlineSent[n] # NoPlan
    <3>1. CASE outlineSent[n] = NoPlan
      BY <1>0, <1>7, <3>1 DEF LeavePlanning, OutlineBusy
    <3>2. CASE outlineSent[n] # NoPlan
      <4>1. outlineSent' = [outlineSent EXCEPT ![n] = [outlineSent[n] EXCEPT !.left = OutlineValue]]
        BY <1>7, <3>2 DEF LeavePlanning, OutlineBusy
      <4>2. [outlineSent[n] EXCEPT !.left = OutlineValue].left = OutlineValue
        BY <1>0, <3>2 DEF PlanCommand
      <4>3. QED
        BY <1>0, <3>2, <4>1, <4>2
    <3>3. QED
      BY <3>1, <3>2
  <2>4. outlineStored # NoPlan /\ outlineTypedIn = n => OutlineValue = outlineStored
    BY <2>1 DEF StoredInv, OutlineValue, OutlineIn
  <2>5. QED
    BY <1>0, <2>1, <2>2, <2>3, <2>4 DEF StoredInv, Here
<1>8. CASE ReturnToPlanning
  <2>1. UNCHANGED <<outlineStored, outlineTypedIn, outlineSent>> /\ ~planVisit.open
        /\ planVisit' = [number |-> n + 1, open |-> TRUE] /\ outlineDraft' = outlineStored
    BY <1>8 DEF ReturnToPlanning
  <2>2. \A v \in Visits : ~Here(v)
    BY <2>1 DEF Here
  <2>3. \A v \in Visits : v \in Nat
    BY DEF Visits
  <2>4. QED
    BY <1>0, <2>1, <2>2, <2>3 DEF StoredInv
<1>9. QED
  BY <1>1, <1>2, <1>3, <1>4, <1>5, <1>6, <1>7, <1>8 DEF PlanNext

THEOREM StoredByTheVisit == PlanSpec => []StoredInv
<1>1. PlanInit => StoredInv
  BY StoredInitially
<1>2. QED
  BY <1>1, StoredStep, OneRefreshAtATime, PTL DEF PlanSpec

-----------------------------------------------------------------------------

\* What SavesKeepLaterEdits says of a step.
LaterEditsStay ==
    \A v \in Visits :
          /\ outlineSent[v] # NoPlan /\ outlineSent'[v] = NoPlan
          /\ outlineSent[v].command \in {"save", "choose", "recommend"}
          => /\ outlineDraft \notin {NoPlan, outlineSent[v].text} => outlineDraft' = outlineDraft
             /\ outlineStored \notin {NoPlan, outlineSent[v].text} /\ outlineTypedIn = v
                    => outlineStored' = outlineStored

\* A command that ends takes the draft away only with the text it was given for.
LEMMA EndingCommandDraft ==
    ASSUME OutlineInv, [PlanNext]_planVars, NEW v \in Visits,
           outlineSent[v] # NoPlan, outlineSent'[v] = NoPlan,
           outlineSent[v].command \in {"save", "choose", "recommend"},
           outlineDraft \notin {NoPlan, outlineSent[v].text}, outlineDraft' # outlineDraft
    PROVE  FALSE
<1>1. CASE PlanningArrives
  <2>1. PICK w \in Visits : Here(w) /\ Committed(w, planCache')
    BY <1>1 DEF PlanningArrives
  <2>2. /\ outlineSent[w] # NoPlan /\ outlineSent[w].phase = "accepted" /\ outlineSent[w].text = outlineDraft
    BY <2>1 DEF Committed, OutlineIn
  <2>3. outlineSent[v].phase = "accepted"
    BY <1>1 DEF PlanningArrives
  <2>4. QED
    BY <2>2, <2>3 DEF OutlineInv, OneAccepted
<1>2. ASSUME NEW w \in Visits, OutlineSuggested(w) PROVE FALSE
  <2>1. w = v
    BY <1>2 DEF OutlineSuggested, OutlineInv
  <2>2. QED
    BY <1>2, <2>1 DEF OutlineSuggested, OutlineValue, OutlineIn
<1>3. CASE LeavePlanning
  <2>1. planVisit.number = v /\ outlineSent' = [outlineSent EXCEPT ![v] = [outlineSent[v] EXCEPT !.left = OutlineValue]]
    BY <1>3 DEF LeavePlanning, OutlineBusy, OutlineInv
  <2>2. OutlineValue \in OutlineText
    BY <1>3, ShownText DEF LeavePlanning, Mounted
  <2>3. [outlineSent[v] EXCEPT !.left = OutlineValue] \in PlanCommand
    BY <2>2 DEF OutlineInv, PlanCommand
  <2>4. QED
    BY <2>1, <2>3, PlanAssumption DEF OutlineInv, PlanCommand, OutlineCommands
<1>4. CASE UNCHANGED outlineSent \/ UNCHANGED outlineDraft
  BY <1>4
<1>5. CASE PlanServerNext \/ FetchPlanning \/ ResumeAnalysis \/ EditOutline \/ DiscardEdits \/ ReturnToPlanning \/ UNCHANGED planVars
  BY <1>5, <1>4 DEF PlanServerNext, PublishAnalysis, AnalysisStep, OutlineElsewhere, FetchPlanning, ResumeAnalysis,
     EditOutline, DiscardEdits, ReturnToPlanning, planVars, outlineVars
<1>6. CASE \/ \E command \in OutlineCommands : SendOutline(command)
           \/ \E w \in Visits : OutlineAccepted(w) \/ OutlineRefused(w)
  BY <1>6, <1>4 DEF SendOutline, OutlineAccepted, OutlineRefused
<1>7. QED
  BY <1>1, <1>2, <1>3, <1>5, <1>6 DEF PlanNext

\* So it is with what its visit has stored.
LEMMA EndingCommandStored ==
    ASSUME OutlineInv, StoredInv, [PlanNext]_planVars, NEW v \in Visits,
           outlineSent[v] # NoPlan, outlineSent'[v] = NoPlan,
           outlineSent[v].command \in {"save", "choose", "recommend"},
           outlineStored \notin {NoPlan, outlineSent[v].text}, outlineTypedIn = v, outlineStored' # outlineStored
    PROVE  FALSE
<1>0. (Here(v) => outlineDraft = outlineStored) /\ (~Here(v) => outlineSent[v].left = outlineStored)
  BY DEF StoredInv, Here
<1>1. CASE PlanningArrives
  <2>1. PICK w \in Visits : Committed(w, planCache')
    BY <1>1 DEF PlanningArrives
  <2>2. outlineSent[w] # NoPlan /\ outlineSent[w].phase = "accepted" /\ outlineSent[v].phase = "accepted"
    BY <1>1, <2>1 DEF Committed, PlanningArrives
  <2>3. w = v
    BY <2>2 DEF OutlineInv, OneAccepted
  <2>4. outlineSent[v].text = IF Here(v) THEN OutlineIn(planCache') ELSE outlineSent[v].left
    BY <2>1, <2>3 DEF Committed
  <2>5. QED
    BY <1>0, <2>4 DEF OutlineIn
<1>2. ASSUME NEW w \in Visits, OutlineSuggested(w) PROVE FALSE
  <2>1. w = v
    BY <1>2 DEF OutlineSuggested, OutlineInv
  <2>2. QED
    BY <1>0, <1>2, <2>1 DEF OutlineSuggested, OutlineValue, OutlineIn
<1>3. CASE UNCHANGED outlineSent \/ UNCHANGED outlineStored
  BY <1>3
<1>4. CASE \/ PlanServerNext \/ FetchPlanning \/ ResumeAnalysis \/ EditOutline \/ DiscardEdits
           \/ LeavePlanning \/ ReturnToPlanning \/ UNCHANGED planVars
  BY <1>4, <1>3 DEF PlanServerNext, PublishAnalysis, AnalysisStep, OutlineElsewhere, FetchPlanning, ResumeAnalysis,
     EditOutline, DiscardEdits, LeavePlanning, ReturnToPlanning, planVars, outlineVars
<1>5. CASE \/ \E command \in OutlineCommands : SendOutline(command)
           \/ \E w \in Visits : OutlineAccepted(w) \/ OutlineRefused(w)
  BY <1>5, <1>3 DEF SendOutline, OutlineAccepted, OutlineRefused
<1>6. QED
  BY <1>1, <1>2, <1>4, <1>5 DEF PlanNext

\* Whatever a command is answered, and in whichever visit: what was typed after
\* it was sent stays in the editor, and what its own visit stored in the browser.
THEOREM LaterEditsAreKept == PlanSpec => SavesKeepLaterEdits
<1>1. OutlineInv /\ StoredInv /\ [PlanNext]_planVars => [LaterEditsStay]_planVars
  BY EndingCommandDraft, EndingCommandStored DEF LaterEditsStay
<1>2. QED
  BY <1>1, OneRefreshAtATime, StoredByTheVisit, PTL DEF PlanSpec, SavesKeepLaterEdits, LaterEditsStay

-----------------------------------------------------------------------------
(* FinalReview: what the forms hold against what is stored.                    *)

Reference == [version : Nat, value : [Field -> Int]]

\* Fields that differ from a record of the server have been typed in.
TypedOver(fields, r) == \A f \in Field : fields[f] # r.value[f] => fields[f] < 0

\* A form holds the record of its version, but for what has been typed in; so
\* does the request to save it.
FormInv ==
    baseline # NoReference =>
        /\ baseline \in Reference /\ baseline.version <= record.version
        /\ baseline.version = record.version => baseline.value = record.value
        /\ TypedOver(values, baseline)

RequestInv ==
    correcting.phase = "sent" =>
        /\ correcting.version \in Nat /\ correcting.version <= record.version
        /\ correcting.value \in [Field -> Int]
        /\ correcting.version = record.version => TypedOver(correcting.value, record)

\* A caption is the one of the state of the figure it is sent under.
CaptionInv ==
    /\ figureCache # NoReference => caption.of = figureCache
    /\ reviewing.phase = "sent" => reviewing.caption.of = reviewing.print

\* The invariant of the two dialogs.
IssuesInv ==
    /\ record \in Reference /\ values \in [Field -> Int] /\ reviewSteps \in Nat
    /\ FormInv /\ RequestInv /\ CaptionInv

\* No dialog is open.
LEMMA IssuesInitially == ASSUME FinalReviewInit PROVE IssuesInv
BY DEF FinalReviewInit, IssuesInv, FormInv, RequestInv, CaptionInv, AtRest, Reference

\* What others save leaves every form behind.
LEMMA NewVersionKeepsForms ==
    ASSUME IssuesInv, record' \in Reference, record'.version = record.version + 1,
           UNCHANGED <<baseline, values, reviewSteps>>,
           UNCHANGED correcting \/ correcting'.phase # "sent"
    PROVE  record' \in Reference /\ values' \in [Field -> Int] /\ reviewSteps' \in Nat /\ FormInv' /\ RequestInv'
<1>1. record.version \in Nat
  BY DEF IssuesInv, Reference
<1>2. FormInv'
  BY <1>1 DEF IssuesInv, FormInv, Reference, TypedOver
<1>3. RequestInv'
  BY <1>1 DEF IssuesInv, RequestInv
<1>4. QED
  BY <1>2, <1>3 DEF IssuesInv

\* What is done in the dialog of the bibliography.
LEMMA BibliographyStep ==
    ASSUME IssuesInv,
           \/ OpenReference \/ ConfirmReference \/ SaveCorrection
           \/ \E f \in Field : CorrectField(f)
           \/ ReloadReference \/ CloseReference
    PROVE  IssuesInv'
<1>1. CaptionInv' /\ record' \in Reference /\ record' = record
  BY DEF OpenReference, ConfirmReference, SaveCorrection, CorrectField, ReloadReference, CloseReference,
     issueServerVars, captionVars, IssuesInv, CaptionInv
<1>2. CASE OpenReference
  BY <1>1, <1>2 DEF OpenReference, IssuesInv, FormInv, RequestInv, Reference, TypedOver, AtRest
<1>3. CASE ConfirmReference
  BY <1>1, <1>3 DEF ConfirmReference, IssuesInv, FormInv, RequestInv, Reference, TypedOver
<1>4. CASE SaveCorrection
  BY <1>1, <1>4 DEF SaveCorrection, ReviewStep, IssuesInv, FormInv, RequestInv, Reference, TypedOver
<1>5. ASSUME NEW f \in Field, CorrectField(f) PROVE IssuesInv'
  <2>1. /\ values' = [values EXCEPT ![f] = Typed] /\ Typed \in Int /\ Typed < 0
        /\ UNCHANGED <<baseline, correcting>> /\ reviewSteps' \in Nat
    BY <1>5 DEF CorrectField, Typed, ReviewStep, IssuesInv
  <2>2. values' \in [Field -> Int] /\ FormInv' /\ RequestInv'
    BY <1>1, <2>1 DEF IssuesInv, FormInv, RequestInv, TypedOver
  <2>3. QED
    BY <1>1, <2>1, <2>2 DEF IssuesInv
<1>6. CASE ReloadReference
  <2>1. /\ values' = MergedFields(record) /\ baseline' = record /\ correcting' = AtRest /\ baseline # NoReference
        /\ UNCHANGED reviewSteps
    BY <1>6 DEF ReloadReference
  <2>2. values' \in [Field -> Int] /\ TypedOver(values', record)
    BY <2>1 DEF MergedFields, IssuesInv, FormInv, Reference, TypedOver
  <2>3. QED
    BY <1>1, <2>1, <2>2 DEF IssuesInv, FormInv, RequestInv, Reference, TypedOver, AtRest
<1>7. CASE CloseReference
  BY <1>1, <1>7 DEF CloseReference, IssuesInv, FormInv, RequestInv, AtRest
<1>8. QED
  BY <1>2, <1>3, <1>4, <1>5, <1>6, <1>7

\* A stored correction is a new version, of which no form knows.
LEMMA CorrectionStoredStep == ASSUME IssuesInv, CorrectionStored PROVE IssuesInv'
<1>1. correcting'.phase # "sent" /\ CaptionInv'
  BY DEF CorrectionStored, Saved, AtRest, Conflict, captionVars, IssuesInv, CaptionInv
<1>2. CASE UNCHANGED record
  BY <1>1, <1>2 DEF CorrectionStored, IssuesInv, FormInv, RequestInv
<1>3. CASE record' = [version |-> record.version + 1, value |-> correcting.value]
  <2>1. record' \in Reference /\ record'.version = record.version + 1
    BY <1>3 DEF CorrectionStored, Sending, IssuesInv, RequestInv, Reference
  <2>2. QED
    BY <1>1, <2>1, NewVersionKeepsForms DEF CorrectionStored, IssuesInv
<1>4. QED
  BY <1>2, <1>3 DEF CorrectionStored

\* What is done in the dialog of the figure.
LEMMA FigureDialogStep ==
    ASSUME IssuesInv,
           FigureElsewhere \/ ReadFigure \/ EditCaption \/ SaveFigureReview \/ FigureReviewStored \/ CloseFigure \/ SyncStep
    PROVE  IssuesInv'
<1>1. /\ UNCHANGED <<record, baseline, values, correcting>> /\ reviewSteps' \in Nat
  BY DEF FigureElsewhere, ReadFigure, EditCaption, SaveFigureReview, FigureReviewStored, CloseFigure, SyncStep,
     ReviewStep, bibliographyVars, issueServerVars, IssuesInv
<1>2. CaptionInv'
  BY DEF FigureElsewhere, ReadFigure, EditCaption, SaveFigureReview, FigureReviewStored, CloseFigure, SyncStep,
     CaptionRead, captionVars, AtRest, Saved, Conflict, IssuesInv, CaptionInv
<1>3. QED
  BY <1>1, <1>2 DEF IssuesInv, FormInv, RequestInv, TypedOver

\* Every step of the dialogs and of others.
LEMMA IssuesStep == IssuesInv /\ [FinalReviewNext]_finalReviewVars => IssuesInv'
<1> SUFFICES ASSUME IssuesInv, [FinalReviewNext]_finalReviewVars PROVE IssuesInv'
  OBVIOUS
<1>1. CASE CorrectedElsewhere
  <2>1. record' \in Reference /\ record'.version = record.version + 1
    BY <1>1 DEF CorrectedElsewhere, IssuesInv, Reference
  <2>2. QED
    BY <1>1, <2>1, NewVersionKeepsForms DEF CorrectedElsewhere, IssuesInv, CaptionInv, bibliographyVars, captionVars
<1>2. CASE UNCHANGED finalReviewVars
  BY <1>2 DEF finalReviewVars, issueServerVars, bibliographyVars, captionVars, IssuesInv, FormInv, RequestInv, CaptionInv, TypedOver
<1>3. QED
  BY <1>1, <1>2, BibliographyStep, CorrectionStoredStep, FigureDialogStep DEF FinalReviewNext

\* Both forms, and the requests made from them, differ from the version they
\* name only by what was typed in (FinalIssuesPanel.tsx, FinalFigureReview.tsx).
THEOREM IssuesInvariance == FinalReviewSpec => []IssuesInv
<1>1. FinalReviewInit => IssuesInv
  BY IssuesInitially
<1>2. QED
  BY <1>1, IssuesStep, PTL DEF FinalReviewSpec

-----------------------------------------------------------------------------

\* What CorrectionsKeepOthersFields says of a step.
OnlyTypedIsWritten ==
    /\ record' # record /\ correcting' # correcting => \A f \in Field : record'.value[f] # record.value[f] => record'.value[f] < 0
    /\ reviewing' = Saved /\ reviewing # Saved => reviewing.caption.of = figureState.print

\* Only a correction that is stored, or a review, writes; both from their form.
LEMMA StoredIsTyped == IssuesInv /\ [FinalReviewNext]_finalReviewVars => [OnlyTypedIsWritten]_finalReviewVars
<1> SUFFICES ASSUME IssuesInv, FinalReviewNext PROVE OnlyTypedIsWritten
  OBVIOUS
<1>1. ASSUME record' # record, correcting' # correcting
      PROVE  \A f \in Field : record'.value[f] # record.value[f] => record'.value[f] < 0
  <2>1. CorrectionStored
    BY <1>1 DEF FinalReviewNext, CorrectedElsewhere, FigureElsewhere, OpenReference, ConfirmReference, SaveCorrection,
       CorrectField, ReloadReference, CloseReference, ReadFigure, EditCaption, SaveFigureReview, FigureReviewStored,
       CloseFigure, SyncStep, issueServerVars, bibliographyVars
  <2>2. record'.value = correcting.value /\ correcting.version = record.version /\ correcting.phase = "sent"
    BY <1>1, <2>1 DEF CorrectionStored, Sending
  <2>3. QED
    BY <2>2 DEF IssuesInv, RequestInv, TypedOver
<1>2. ASSUME reviewing' = Saved, reviewing # Saved PROVE reviewing.caption.of = figureState.print
  <2>1. FigureReviewStored
    BY <1>2 DEF FinalReviewNext, CorrectedElsewhere, FigureElsewhere, OpenReference, ConfirmReference, SaveCorrection,
       CorrectField, CorrectionStored, ReloadReference, CloseReference, ReadFigure, EditCaption, SaveFigureReview,
       CloseFigure, SyncStep, captionVars, AtRest, Saved
  <2>2. QED
    BY <1>2, <2>1 DEF FigureReviewStored, Saved, Conflict, IssuesInv, CaptionInv
<1>3. QED
  BY <1>1, <1>2 DEF OnlyTypedIsWritten

\* A merged and confirmed correction writes over a field of others only what the
\* user has typed in.
THEOREM OthersFieldsAreKept == FinalReviewSpec => CorrectionsKeepOthersFields
<1>1. QED
  BY IssuesInvariance, StoredIsTyped, PTL DEF FinalReviewSpec, CorrectionsKeepOthersFields, OnlyTypedIsWritten
=============================================================================
