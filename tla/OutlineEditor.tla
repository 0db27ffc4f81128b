--------------------------- MODULE OutlineEditor ---------------------------
(* The module editor of an outline (OutlineBuilder.tsx): headings in document  *)
(* order whose levels make a tree, the operations on sections and subtrees,    *)
(* and the way through the text, which every operation takes: it writes the    *)
(* headings with their identifiers and reads them back, together with what was *)
(* typed into the purpose and the notes of a section, whose lines may be       *)
(* headings and identifiers too.                                               *)
EXTENDS Integers, Sequences, FiniteSets

CONSTANTS
    Deepest,        \* the deepest heading level, 6 in the code
    TypedId,        \* the identifiers that somebody may type
    MaxTyped,       \* bound on the headings typed in one edit
    MaxSections     \* bound on the length of an outline

ASSUME OutlineAssumption ==
    /\ Deepest \in Nat /\ Deepest >= 2 /\ MaxSections \in Nat
    /\ TypedId \subseteq Nat \ {0} /\ MaxTyped \in Nat

VARIABLES
    sections,       \* the headings: identifier and level
    unsafe,         \* the text has lines the module editor does not open on
    outlineEdit     \* the last operation, and the section whose level it changed

outlineEditorVars == <<sections, unsafe, outlineEdit>>

Section == [id : Nat, level : 2..Deepest]

-----------------------------------------------------------------------------
(* The tree.                                                                   *)

\* The ancestor a heading is put under: the last one above it that is higher.
Above(s, i) == {j \in 1..i-1 : s[j].level < s[i].level}

ParentOf(s, i) == IF Above(s, i) = {} THEN 0 ELSE CHOOSE j \in Above(s, i) : \A k \in Above(s, i) : k <= j

\* The first heading behind i that does not belong to its subtree.
EndOf(s, i) ==
    LET outside == {j \in i+1..Len(s) : s[j].level <= s[i].level}
    IN IF outside = {} THEN Len(s) + 1 ELSE CHOOSE j \in outside : \A k \in outside : j <= k

Siblings(s, i) == {j \in 1..Len(s) : ParentOf(s, j) = ParentOf(s, i)}

HasChildren(s, i) == EndOf(s, i) > i + 1

\* No level is skipped.
ValidTree(s) ==
    \A i \in 1..Len(s) :
        s[i].level = IF ParentOf(s, i) = 0 THEN 2 ELSE s[ParentOf(s, i)].level + 1

-----------------------------------------------------------------------------
(* The text.                                                                   *)

Ids(s) == {s[i].id : i \in 1..Len(s)} \ {0}

\* A section without identifier (0) takes the smallest serial number no section
\* has, in document order.
Missing(s, i) == Cardinality({j \in 1..i : s[j].id = 0})

Serial(used, n) ==
    CHOOSE k \in 1..Cardinality(used) + n :
        k \notin used /\ Cardinality((1..k) \ used) = n

\* Faulty: the number of the heading, which the parser starts with, stays.
NumberedByPlace(s) == [i \in 1..Len(s) |-> IF s[i].id # 0 THEN s[i] ELSE [s[i] EXCEPT !.id = i]]

WithIds(s) ==
    [i \in 1..Len(s) |-> IF s[i].id # 0 THEN s[i]
                         ELSE [s[i] EXCEPT !.id = Serial(Ids(s), Missing(s, i))]]

\* The headings of a text, with the identifiers that stand below them (0 for
\* none), as sections.
ParseOutline(s) == WithIds(s)

\* What is written is read back. Notes lose the blanks before their first line,
\* which may leave a fence or a bare mark at the start of it.
Commit(s) ==
    /\ sections' = ParseOutline(WithIds(s))
    /\ unsafe' \in BOOLEAN

-----------------------------------------------------------------------------
(* The operations.                                                             *)

\* The module editor opens on a tree only, of a text without fences, bare heading
\* marks and headings deeper than the deepest.
Editable == ValidTree(sections) /\ ~unsafe

NewSection(level) == [id |-> 0, level |-> level]

Insert(s, i, new) == SubSeq(s, 1, i - 1) \o new \o SubSeq(s, i, Len(s))

\* A child goes behind the subtree of its parent, a main section to the end.
AddSection(parent) ==
    LET level == IF parent = 0 THEN 2 ELSE sections[parent].level + 1
        at == IF parent = 0 THEN Len(sections) + 1 ELSE EndOf(sections, parent)
    IN /\ Editable /\ level <= Deepest /\ Len(sections) < MaxSections
       /\ Commit(Insert(sections, at, <<NewSection(level)>>))
       /\ outlineEdit' = [kind |-> "add", id |-> 0]

\* The introduction and the conclusion are added where they are missing, which the
\* role lines and the titles tell: both are data here, so either may be there.
AddStarterSections ==
    /\ Editable
    /\ \E introduction, conclusion \in {<<>>, <<NewSection(2)>>} :
          /\ Len(introduction \o sections \o conclusion) <= MaxSections
          /\ Commit(introduction \o sections \o conclusion)
    /\ outlineEdit' = [kind |-> "starter", id |-> 0]

\* Two neighbouring subtrees change places.
SwapSubtrees(s, first, second) ==
    SubSeq(s, 1, first - 1) \o SubSeq(s, second, EndOf(s, second) - 1)
        \o SubSeq(s, EndOf(s, first), second - 1) \o SubSeq(s, first, EndOf(s, first) - 1)
        \o SubSeq(s, EndOf(s, second), Len(s))

NextSibling(s, i, j) == j > i /\ j \in Siblings(s, i) /\ \A k \in i+1..j-1 : k \notin Siblings(s, i)

MoveDown(i) ==
    /\ Editable
    /\ \E j \in Siblings(sections, i) :
          /\ NextSibling(sections, i, j)
          /\ Commit(SwapSubtrees(sections, i, j))
    /\ outlineEdit' = [kind |-> "move", id |-> 0]

MoveUp(i) ==
    /\ Editable
    /\ \E j \in Siblings(sections, i) :
          /\ NextSibling(sections, j, i)
          /\ Commit(SwapSubtrees(sections, j, i))
    /\ outlineEdit' = [kind |-> "move", id |-> 0]

Shifted(s, i, level) ==
    [j \in 1..Len(s) |-> IF j \in i..EndOf(s, i) - 1
                         THEN [s[j] EXCEPT !.level = @ + level - s[i].level] ELSE s[j]]

\* Faulty: what follows the subtree is not looked at.
LevelFits(s, i, level) ==
    /\ level = 2 \/ \E j \in 1..i-1 : s[j].level = level - 1
    /\ \A j \in i..EndOf(s, i) - 1 : s[j].level + level - s[i].level \in 2..Deepest
    /\ ValidTree(Shifted(s, i, level))

\* A subtree changes its level when some heading above can be its parent, when
\* it does not take in what follows it, and when the result is a tree.
LevelAllowed(s, i, level) ==
    /\ level = 2 \/ \E j \in 1..i-1 : s[j].level = level - 1
    /\ EndOf(s, i) <= Len(s) => s[EndOf(s, i)].level <= level
    /\ \A j \in i..EndOf(s, i) - 1 : s[j].level + level - s[i].level \in 2..Deepest
    /\ ValidTree(Shifted(s, i, level))

ChangeLevel(i, level) ==
    /\ Editable /\ level # sections[i].level /\ LevelAllowed(sections, i, level)
    /\ Commit(Shifted(sections, i, level))
    /\ outlineEdit' = [kind |-> "level", id |-> sections[i].id]

RemoveSubtree(i) ==
    /\ Editable
    /\ Commit(SubSeq(sections, 1, i - 1) \o SubSeq(sections, EndOf(sections, i), Len(sections)))
    /\ outlineEdit' = [kind |-> "remove", id |-> 0]

Heading == [id : {0} \cup TypedId, level : 2..Deepest]

\* The fields of a section. Its title is one line and its papers are chosen. Its
\* purpose and its notes are written below its identifier as they are, so a line
\* in them that is an identifier is read back as that of the section, and a heading
\* opens another section, to which the lines below it belong.
UpdateSection(i) ==
    /\ Editable
    /\ \E id \in {sections[i].id} \cup TypedId, n \in 0..MaxTyped : \E typed \in [1..n -> Heading] :
          /\ Len(sections) + n <= MaxSections
          /\ Commit(Insert([sections EXCEPT ![i].id = id], i + 1, typed))
          /\ outlineEdit' = [kind |-> IF id # sections[i].id \/ \E k \in 1..n : typed[k].id # 0
                                         THEN "identity" ELSE IF n # 0 THEN "headings" ELSE "field",
                             id |-> 0]

\* The code editor takes any text, one change after the other: a heading is typed,
\* copied, changed or deleted, levels may be skipped, and an identifier may be
\* missing, changed or there twice.
TextEdits(s) ==
    {[s EXCEPT ![i].level = level] : i \in 1..Len(s), level \in 2..Deepest}
        \cup {[s EXCEPT ![i].id = id] : i \in 1..Len(s), id \in {0} \cup TypedId}
        \cup {Insert(s, i, <<heading>>) : i \in {j \in 1..Len(s) + 1 : Len(s) < MaxSections}, heading \in Heading}
        \cup {SubSeq(s, 1, i - 1) \o SubSeq(s, i + 1, Len(s)) : i \in 1..Len(s)}
        \cup {<<>>}

CodeEdit ==
    /\ \E s \in TextEdits(sections) : sections' = ParseOutline(s)
    /\ unsafe' \in BOOLEAN
    /\ outlineEdit' = [kind |-> "code", id |-> 0]

-----------------------------------------------------------------------------

OutlineInit ==
    /\ sections = <<>> /\ unsafe = FALSE
    /\ outlineEdit = [kind |-> "code", id |-> 0]

OutlineNext ==
    \/ \E parent \in 0..Len(sections) : AddSection(parent)
    \/ AddStarterSections
    \/ \E i \in 1..Len(sections) :
          \/ MoveDown(i) \/ MoveUp(i) \/ RemoveSubtree(i) \/ UpdateSection(i)
          \/ \E level \in 2..Deepest : ChangeLevel(i, level)
    \/ CodeEdit

OutlineSpec == OutlineInit /\ [][OutlineNext]_outlineEditorVars

-----------------------------------------------------------------------------
(* Properties.                                                                 *)

UniqueIds(s) == \A i, j \in 1..Len(s) : s[i].id = s[j].id => i = j

ParentId(s, i) == IF ParentOf(s, i) = 0 THEN 0 ELSE s[ParentOf(s, i)].id

\* The tree and the parents: every section that is still there stands under the
\* section it stood under, the one whose level was changed excepted.
ParentsKept ==
    \A i \in 1..Len(sections), k \in 1..Len(sections') :
        /\ sections[i].id = sections'[k].id
        /\ ~(outlineEdit'.kind = "level" /\ sections[i].id = outlineEdit'.id)
        => ParentId(sections', k) = ParentId(sections, i)

\* Every section that is still there stands under the section it stood under, or
\* under a new one.
NewParentsOnly ==
    \A i \in 1..Len(sections), k \in 1..Len(sections') :
        sections[i].id = sections'[k].id =>
            ParentId(sections', k) \in {ParentId(sections, i)} \cup (Ids(sections') \ Ids(sections))

\* The operations that type no heading and no identifier.
Structural == {"add", "starter", "move", "level", "remove", "field"}

\* An operation of the module editor leaves a tree and hands no section another
\* parent than it had: moves take their subtrees along, a new level takes no
\* section in, the removal of a subtree takes nothing else away, and a field may
\* be edited. Headings typed into a field become sections and may take others
\* over, against OutlineBuilder.test.tsx:19; nothing else gets another parent.
ModuleEditsKeepTheTree ==
    [][UniqueIds(sections) =>
          /\ outlineEdit'.kind \in Structural => ValidTree(sections') /\ ParentsKept
          /\ outlineEdit'.kind = "headings" => NewParentsOnly]_outlineEditorVars

\* An operation of the module editor leaves every section that it does not remove
\* its identifier and gives new sections, those of headings typed into notes
\* included, identifiers of their own. Where an identifier is typed there may be
\* two of it.
IdsSurviveEditing ==
    [][outlineEdit'.kind \in Structural \cup {"headings"} /\ UniqueIds(sections) =>
          /\ UniqueIds(sections')
          /\ outlineEdit'.kind # "remove" => Ids(sections) \subseteq Ids(sections')]_outlineEditorVars
=============================================================================
