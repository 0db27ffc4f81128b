--------------------------- MODULE LibraryMetadata ---------------------------
(* The bibliographic records of the library page (LibraryPage.tsx, with        *)
(* MetadataVisualEditor.tsx): one draft follows the selected paper while saves *)
(* and re-readings of several papers are under way. Papers are numbers in the  *)
(* order of the list.                                                          *)
EXTENDS Integers, FiniteSets

CONSTANTS
    MaxPapers,          \* papers of the library
    NoRecord,           \* nothing loaded, nothing sent
    MaxRecordMoves      \* bound on what the user does

ASSUME RecordAssumption ==
    /\ MaxPapers \in Nat \ {0} /\ MaxRecordMoves \in Nat
    /\ NoRecord \notin [text : Nat, abstract : BOOLEAN, tags : {"none", "typed"}, checked : Nat, reviewed : BOOLEAN]

VARIABLES
    records,        \* server: by paper its record, NoRecord once deleted
    listed,         \* papers the list holds, NoRecord while it loads
    chosen,         \* the paper chosen, 0 for none
    recordCache,    \* by paper the record the page holds
    recordDraft,    \* what the editor holds
    recordFetch,    \* a record on its way to the page
    recordSent,     \* by command the request under way
    recordMoves     \* what the user has done

recordViewVars == <<listed, chosen, recordCache, recordDraft>>
recordVars == <<records, recordViewVars, recordFetch, recordSent, recordMoves>>

PaperNumber == 1..MaxPapers
RecordCommands == {"save", "review", "reextract"}

\* A text is known by the paper it was typed for, 0 as it was extracted; tags
\* are as extracted, typed, or checked by the user for a paper.
Record == [text : 0..MaxPapers, abstract : BOOLEAN, tags : {"none", "typed"}, checked : 0..MaxPapers,
           reviewed : BOOLEAN]

RecordMove == recordMoves < MaxRecordMoves /\ recordMoves' = recordMoves + 1

-----------------------------------------------------------------------------
(* The selected paper and the draft.                                           *)

\* Without the chosen paper the first of the list is shown.
SelectedPaper(list, choice) ==
    IF list = NoRecord \/ list = {} THEN 0
    ELSE IF choice \in list THEN choice
    ELSE CHOOSE p \in list : \A q \in list : p <= q

Selected == SelectedPaper(listed, chosen)

Cached(cache, p) == IF p = 0 THEN NoRecord ELSE cache[p]

\* Another paper empties the editor and fills it with what is held of it; a
\* record that is not what was held of the same paper replaces the draft.
Follow(list, choice, cache, draft) ==
    LET now == SelectedPaper(list, choice)
    IN /\ listed' = list /\ recordCache' = cache
       /\ chosen' = IF now # 0 THEN now ELSE choice
       /\ recordDraft' = IF now # Selected THEN Cached(cache, now)
                         ELSE IF Cached(cache, now) # Cached(recordCache, now) THEN Cached(cache, now)
                         ELSE draft

SelectRecord(p) ==
    /\ listed # NoRecord /\ p \in listed /\ p # Selected
    /\ Follow(listed, p, recordCache, recordDraft)
    /\ RecordMove
    /\ UNCHANGED <<records, recordFetch, recordSent>>

\* Another search text drops the choice, and the list until it is loaded.
FilterPapers ==
    /\ listed # NoRecord
    /\ Follow(NoRecord, 0, recordCache, recordDraft)
    /\ RecordMove
    /\ UNCHANGED <<records, recordFetch, recordSent>>

Present == {p \in PaperNumber : records[p] # NoRecord}

ListArrives ==
    /\ listed = NoRecord \/ listed # Present
    /\ \E list \in {Present} \cup (IF listed = NoRecord THEN SUBSET Present ELSE {}) :
          Follow(list, chosen, recordCache, recordDraft)
    /\ UNCHANGED <<records, recordFetch, recordSent, recordMoves>>

-----------------------------------------------------------------------------
(* The records.                                                                *)

FetchRecord ==
    /\ recordFetch = NoRecord /\ Selected # 0
    /\ records[Selected] \notin {NoRecord, recordCache[Selected]}
    /\ recordFetch' = [paper |-> Selected, record |-> records[Selected]]
    /\ UNCHANGED <<records, recordViewVars, recordSent, recordMoves>>

RecordArrives ==
    /\ recordFetch # NoRecord
    /\ Follow(listed, chosen, [recordCache EXCEPT ![recordFetch.paper] = recordFetch.record], recordDraft)
    /\ recordFetch' = NoRecord
    /\ UNCHANGED <<records, recordSent, recordMoves>>

\* The editor is shown once it holds something.
Editing == Selected # 0 /\ recordDraft # NoRecord

Type(draft) ==
    /\ Editing /\ recordDraft' = draft
    /\ RecordMove
    /\ UNCHANGED <<records, listed, chosen, recordCache, recordFetch, recordSent>>

TypeRecord == Type([recordDraft EXCEPT !.text = Selected])

\* Another tag takes the mark of a check away.
TypeTag == Editing /\ recordDraft.tags = "none" /\ Type([recordDraft EXCEPT !.tags = "typed", !.checked = 0])
CheckTags == Type([recordDraft EXCEPT !.checked = IF @ = 0 THEN Selected ELSE 0])

RecordDirty == recordDraft # recordCache[Selected]

MaySendRecord(command) ==
    /\ Editing
    /\ recordSent["save"] = NoRecord /\ recordSent["review"] = NoRecord
    /\ command = "save" => RecordDirty
    /\ command = "reextract" => ~RecordDirty /\ recordSent["reextract"] = NoRecord

\* A save and a review send the whole record as the editor holds it.
SendRecord(command) ==
    /\ MaySendRecord(command)
    /\ recordSent' = [recordSent EXCEPT ![command] =
                         [paper |-> Selected, answered |-> FALSE,
                          record |-> IF command = "review" THEN [recordDraft EXCEPT !.reviewed = TRUE]
                                     ELSE recordDraft]]
    /\ RecordMove
    /\ UNCHANGED <<records, recordViewVars, recordFetch>>

\* The server takes a whole record; reading the abstract again takes the mark
\* of a review away when it finds another one.
Stored(command, sent) ==
    IF command # "reextract" THEN {sent.record}
    ELSE {records[sent.paper], [records[sent.paper] EXCEPT !.abstract = TRUE, !.reviewed = FALSE]}

RecordStored(command) ==
    /\ \E sent \in {recordSent[command]} \ {NoRecord} :
          /\ ~sent.answered /\ records[sent.paper] # NoRecord
          /\ \E record \in Stored(command, sent) :
                /\ records' = [records EXCEPT ![sent.paper] = record]
                /\ recordSent' = [recordSent EXCEPT ![command].answered = TRUE, ![command].record = record]
    /\ UNCHANGED <<recordViewVars, recordFetch, recordMoves>>

AnswerShownAlways(sent) == TRUE

\* The answer goes to the cache of its paper, and to the editor only while that
\* still shows this paper.
AnswerShown(sent) == Selected = sent.paper

RecordAnswered(command) ==
    /\ \E sent \in {recordSent[command]} \ {NoRecord} :
          IF sent.answered
          THEN Follow(listed, chosen, [recordCache EXCEPT ![sent.paper] = sent.record],
                      IF AnswerShown(sent) THEN sent.record ELSE recordDraft)
          ELSE UNCHANGED recordViewVars
    /\ recordSent' = [recordSent EXCEPT ![command] = NoRecord]
    /\ UNCHANGED <<records, recordFetch, recordMoves>>

\* Here or elsewhere a paper is deleted.
DeletePaper(p) ==
    /\ records[p] # NoRecord /\ Cardinality(Present) > 1
    /\ records' = [records EXCEPT ![p] = NoRecord]
    /\ \/ p = Selected /\ Follow(listed, 0, recordCache, recordDraft)
       \/ UNCHANGED recordViewVars
    /\ RecordMove
    /\ UNCHANGED <<recordFetch, recordSent>>

-----------------------------------------------------------------------------

RecordsInit ==
    /\ records = [p \in PaperNumber |-> [text |-> 0, abstract |-> FALSE, tags |-> "none", checked |-> 0,
                                    reviewed |-> FALSE]]
    /\ listed = NoRecord /\ chosen = 0
    /\ recordCache = [p \in PaperNumber |-> NoRecord]
    /\ recordDraft = NoRecord /\ recordFetch = NoRecord
    /\ recordSent = [command \in RecordCommands |-> NoRecord]
    /\ recordMoves = 0

RecordsNext ==
    \/ \E p \in PaperNumber : SelectRecord(p) \/ DeletePaper(p)
    \/ FilterPapers \/ ListArrives \/ FetchRecord \/ RecordArrives
    \/ TypeRecord \/ TypeTag \/ CheckTags
    \/ \E command \in RecordCommands :
          SendRecord(command) \/ RecordStored(command) \/ RecordAnswered(command)

RecordsSpec == RecordsInit /\ [][RecordsNext]_recordVars

-----------------------------------------------------------------------------
(* Properties.                                                                 *)

\* No record is ever written with what was typed or checked for another paper, although
\* all papers share one draft, answers come late, and the list may change the
\* selection by itself.
RecordsStayWithTheirPaper ==
    \A p \in PaperNumber : records[p] # NoRecord => {records[p].text, records[p].checked} \subseteq {0, p}
=============================================================================
