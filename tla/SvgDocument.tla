---------------------------- MODULE SvgDocument ----------------------------
(* The workspace of the figure editor and the SVG document it is saved as      *)
(* (svgEditorModel.ts). Positions keep one coordinate; a stroke, a label or a  *)
(* molecule is what it is made of and where it stands. The painting order is   *)
(* left out: no operation of the editor changes it. Of the points of a stroke  *)
(* only their number matters, 2 for more than one.                             *)
EXTENDS Integers, FiniteSets

CONSTANTS
    Trace,          \* the selectable objects of the traced base image
    Base,           \* of each base image, where its trace objects stand
    Id,             \* identities of what the user draws
    Content,        \* texts and molecules
    Width,          \* width of the vector canvas
    MaxScale,       \* the largest scale of a molecule
    Density         \* source pixels per unit of the vector canvas

Mode == {"source", "redrawn"}

\* The trace never has more units than the source has pixels.
ASSUME CanvasAssumption ==
    /\ Width \in Nat \ {0} /\ MaxScale \in Nat \ {0}
    /\ Density \in Nat \ {0}
    /\ Base \in [Mode -> [Trace -> Int]]

-----------------------------------------------------------------------------
(* The workspace.                                                              *)

Edit   == [dx : Int, hidden : BOOLEAN]
Target == [object : Trace, dx : Int]
Stroke == [id : Id, bound : BOOLEAN, points : {1, 2}, targets : SUBSET Target]
Mark   == [id : Id, start : Int, end : Int]        \* a line or an arrow
Label  == [id : Id, kind : {"text", "ketcher"}, x : Int, content : Content,
           scale : Int]
Crop   == {c \in [x : 0..Width, width : 1..Width] : c.x + c.width <= Width}

FullCanvas == [x |-> 0, width |-> Width]
NoEdit     == [dx |-> 0, hidden |-> FALSE]

Workspace == [mode : Mode, base : [Trace -> Int], edits : [Trace -> Edit],
              strokes : SUBSET Stroke, marks : SUBSET Mark,
              labels : SUBSET Label, crop : Crop]

\* What undo brings back.
Snapshot == [edits : [Trace -> Edit], strokes : SUBSET Stroke,
             marks : SUBSET Mark, labels : SUBSET Label, crop : Crop]

CloneSnapshot(w) == [edits |-> w.edits, strokes |-> w.strokes, marks |-> w.marks,
                     labels |-> w.labels, crop |-> w.crop]

RestoreSnapshot(w, s) ==
    [w EXCEPT !.edits = s.edits, !.strokes = s.strokes, !.marks = s.marks,
              !.labels = s.labels, !.crop = s.crop]

\* A base image as it is traced, with nothing done to it.
Clean(mode, base) ==
    [mode |-> mode, base |-> base, edits |-> [t \in Trace |-> NoEdit],
     strokes |-> {}, marks |-> {}, labels |-> {}, crop |-> FullCanvas]

Clamp(x) == IF x < 0 THEN 0 ELSE IF x > Width THEN Width ELSE x

\* Where the screen, which shows the cut, has the position x of its own.
CanvasPoint(w, x) == Clamp(w.crop.x + x)

ClampScale(s) == IF s < 1 THEN 1 ELSE IF s > MaxScale THEN MaxScale ELSE s

\* The scale that puts the corner of a molecule under the pointer.
ScaleAtPoint(l, x) == ClampScale(x - l.x)

-----------------------------------------------------------------------------
(* Edits of a workspace.                                                       *)

\* An eraser stroke is bound to the objects under it, each at the offset it has
\* at that moment, so that the hole moves with the object.
Bind(w, stroke, touched) ==
    [stroke EXCEPT
        !.bound   = TRUE,
        !.targets = {[object |-> t, dx |-> w.edits[t].dx] :
                        t \in {u \in touched : ~w.edits[u].hidden}}]

MoveMark(m, d) == [m EXCEPT !.start = @ + d, !.end = @ + d]

\* A selection names trace objects, marks and labels.
Move(w, selection, d) ==
    [w EXCEPT
        !.edits  = [t \in Trace |->
                       IF t \in selection
                       THEN [dx |-> w.edits[t].dx + d, hidden |-> w.edits[t].hidden]
                       ELSE w.edits[t]],
        !.marks  = {IF m.id \in selection THEN MoveMark(m, d) ELSE m : m \in @},
        !.labels = {IF l.id \in selection THEN [l EXCEPT !.x = @ + d] ELSE l : l \in @}]

\* Trace objects are hidden, what the user added is dropped.
Delete(w, selection) ==
    [w EXCEPT
        !.edits  = [t \in Trace |->
                       IF t \in selection
                       THEN [dx |-> w.edits[t].dx, hidden |-> TRUE]
                       ELSE w.edits[t]],
        !.marks  = {m \in @ : m.id \notin selection},
        !.labels = {l \in @ : l.id \notin selection}]

\* One end of a mark is dragged.
UpdateHandle(m, end, x) ==
    IF end = "start" THEN [m EXCEPT !.start = x] ELSE [m EXCEPT !.end = x]

WithMark(w, m)  == [w EXCEPT !.marks = {n \in @ : n.id # m.id} \cup {m}]
WithLabel(w, l) == [w EXCEPT !.labels = {k \in @ : k.id # l.id} \cup {l}]

\* A text box is turned into a label, or empties the one it edits.
MaterializeText(w, draft, i) ==
    IF draft.existing
    THEN IF draft.text = "" THEN Delete(w, {draft.id})
         ELSE [w EXCEPT !.labels = {IF l.id = draft.id /\ l.kind = "text"
                                    THEN [l EXCEPT !.content = draft.text] ELSE l : l \in @}]
    ELSE IF draft.text = "" THEN w
         ELSE WithLabel(w, [id |-> i, kind |-> "text", x |-> draft.x,
                            content |-> draft.text, scale |-> 1])

-----------------------------------------------------------------------------
(* The saved document and the way back.                                        *)

\* Where the holes of the eraser stand in a trace object: each moved as far as
\* the object has moved since.
Holes(w, t) ==
    UNION {{[stroke |-> s.id, at |-> w.edits[t].dx - h.dx] :
               h \in {g \in s.targets : g.object = t}} : s \in w.strokes}

\* What the reader of the figure sees: every visible object at its place with
\* the holes rubbed into it, what was drawn, and the cut.
Shown(w) ==
    [objects |-> [t \in {u \in Trace : ~w.edits[u].hidden} |->
                     [at |-> w.base[t] + w.edits[t].dx, holes |-> Holes(w, t)]],
     marks |-> w.marks, labels |-> w.labels, crop |-> w.crop]

Unbound(w) == {s \in w.strokes : ~s.bound}

PixelCrop(w) == [x |-> w.crop.x * Density, width |-> w.crop.width * Density]

\* A trace object is written where it stands and keeps its own place beside.
Materialized(w) ==
    [t \in Trace |-> [drawn |-> w.base[t] + w.edits[t].dx, base |-> w.base[t]]]

\* Marks are painted and written down, strokes are written down only.
OperationsForSave(w) == [strokes |-> w.strokes, marks |-> w.marks]

\* The document of a workspace without unbound strokes: only edits that change
\* something are written down.
Build(w) ==
    [mode    |-> w.mode, trace |-> Materialized(w),
     edits   |-> [t \in {u \in Trace : w.edits[u] # NoEdit} |-> w.edits[t]],
     operations |-> OperationsForSave(w), labels |-> w.labels,
     cropped |-> w.crop # FullCanvas, crop |-> PixelCrop(w)]

\* Faulty: what Build drew is taken for the trace itself.
EditableTraceAsDrawn(doc) == [t \in Trace |-> doc.trace[t].drawn]

\* The trace of a document, without what Build drew into it.
EditableTrace(doc) == [t \in Trace |-> doc.trace[t].base]

Parse(doc) == Clean(doc.mode, EditableTrace(doc))

\* A document that was cut to exactly the size of its source is taken to have
\* its edits in the trace already.
AlreadyApplied(doc) == doc.cropped /\ doc.crop.width = Width * Density

SavedCrop(doc) ==
    IF doc.cropped
    THEN [x |-> doc.crop.x \div Density, width |-> doc.crop.width \div Density]
    ELSE FullCanvas

\* What is read back of the strokes: a dab of one point draws nothing and goes.
NormalizedStrokes(strokes) == {s \in strokes : s.points > 1}

Merge(w, doc) ==
    IF AlreadyApplied(doc) THEN w
    ELSE [w EXCEPT
            !.edits   = [t \in Trace |-> IF t \in DOMAIN doc.edits THEN doc.edits[t] ELSE w.edits[t]],
            !.strokes = NormalizedStrokes(doc.operations.strokes),
            !.marks   = doc.operations.marks,
            !.labels  = doc.labels,
            !.crop    = SavedCrop(doc)]

\* What opening a saved document shows for editing.
Reopen(doc) == Merge(Parse(doc), doc)
=============================================================================
