----------------------------- MODULE SvgEditor -----------------------------
(* The figure editor of the images page (SvgKetcherEditor.tsx): the workspace  *)
(* on the canvas, its undo history, the gestures, and the operations that      *)
(* leave the editor for a while and come back to a workspace that may have     *)
(* changed: loading, saving, cropping and drawing a molecule in Ketcher.       *)
EXTENDS SvgDocument, Sequences

CONSTANTS
    None,           \* nothing there
    Legacy,         \* documents the project may hold from older editors
    HistoryLimit,   \* snapshots undo keeps (50 in the code)
    Point,          \* where on the screen the pointer goes down and up
    Shift,          \* how far a selection is dragged
    MaxGestures,    \* bound on what the user does
    MaxVersion      \* bound on the results the server publishes for the figure

ASSUME EditorAssumption ==
    /\ HistoryLimit \in Nat \ {0}
    /\ Point \subseteq Int /\ Shift \subseteq Int /\ MaxGestures \in Nat
    /\ MaxVersion \in Nat

\* What is read of an older document: strokes of points, and a cut that is
\* brought within the canvas.
ASSUME LegacyAssumption ==
    \A d \in Legacy : d.operations.strokes \subseteq Stroke /\ SavedCrop(d) \in Crop

VARIABLES
    row,            \* the server's result for the figure: version and document
    seen,           \* the row the page last fetched
    open,           \* the editor is mounted
    mode,           \* the base image chosen in the header
    load,           \* the load under way: base image and saved document
    request,        \* conversions of the base images, shared by all loads
    view,           \* the workspace on the canvas
    history,        \* snapshots to undo to
    selection, dirty,
    draft,          \* the text box
    pointer,        \* the gesture between pointer-down and pointer-up
    cropping,       \* the workspace a crop was started on
    ketcher,        \* the Ketcher dialog
    saving,         \* the save under way
    used, gestures

server  == <<row, seen>>
loading == <<mode, load, request>>
canvas  == <<view, history, selection, dirty>>
dialogs == <<draft, pointer, cropping, ketcher>>
bounds  == <<used, gestures>>
vars    == <<server, open, loading, canvas, dialogs, saving, bounds>>

-----------------------------------------------------------------------------
(* Helpers.                                                                    *)

PushHistory(w) ==
    LET tail == IF Len(history) < HistoryLimit THEN history
                ELSE SubSeq(history, Len(history) - HistoryLimit + 2, Len(history))
    IN history' = Append(tail, CloneSnapshot(w))

SetView(w) == view' = w /\ dirty' = TRUE

\* The editor is there, shows a workspace and is not loading another.
Ready == open /\ view # None /\ load = None

Gesture == gestures < MaxGestures /\ gestures' = gestures + 1

\* Identities are random and never repeat.
NewId == CHOOSE i \in Id : i \notin used
HasId == Id \ used # {}

\* What can be clicked on the canvas.
Selectable(w) ==
    {t \in Trace : ~w.edits[t].hidden} \cup {m.id : m \in w.marks} \cup {l.id : l \in w.labels}

\* The effect that loads the workspace, run when the editor appears and when
\* the base image or the saved result changes. A conversion already under way
\* for that base image is joined.
Reload(m, r) ==
    /\ load' = [mode |-> m,
                doc  |-> IF r.doc # None /\ r.doc.mode = m THEN r.doc ELSE None]
    /\ request' = [request EXCEPT ![m] = IF @ = "idle" THEN "sent" ELSE @]
    /\ selection' = {} /\ history' = <<>> /\ dirty' = FALSE

-----------------------------------------------------------------------------
(* Opening, loading, closing.                                                  *)

Open(m) ==
    /\ ~open
    /\ open' = TRUE /\ mode' = m /\ view' = None
    /\ Reload(m, seen)
    /\ UNCHANGED <<server, dialogs, saving, bounds>>

\* A conflict is tried once more.
ConversionAnswers(m) ==
    /\ \/ request[m] = "sent" /\ request' = [request EXCEPT ![m] = "retried"]
       \/ /\ request[m] \in {"sent", "retried"}
          /\ \E a \in {"ready", "failed"} : request' = [request EXCEPT ![m] = a]
    /\ UNCHANGED <<server, open, mode, load, canvas, dialogs, saving, bounds>>

\* A settled conversion is forgotten a moment later, after those that wait for
\* it have read it.
ConversionReleased(m) ==
    /\ request[m] \in {"ready", "failed"} /\ (load # None => load.mode # m)
    /\ request' = [request EXCEPT ![m] = "idle"]
    /\ UNCHANGED <<server, open, mode, load, canvas, dialogs, saving, bounds>>

\* Strokes of older documents are bound as soon as they are on the canvas,
\* unless the browser cannot measure it.
Bound(w) ==
    [w EXCEPT !.strokes = {IF s.bound THEN s ELSE Bind(w, s, Trace) : s \in @}]

\* A saved document that cannot be read leaves the base image.
LoadDone(readable, measurable) ==
    /\ load # None /\ request[load.mode] = "ready"
    /\ LET w == IF readable /\ load.doc # None THEN Reopen(load.doc)
                ELSE Clean(load.mode, Base[load.mode])
       IN /\ view' = IF measurable THEN Bound(w) ELSE w
          /\ dirty' = (dirty \/ (measurable /\ Unbound(w) # {}))
    /\ load' = None
    /\ UNCHANGED <<server, open, mode, request, history, selection, dialogs, saving, bounds>>

\* The workspace that was on the canvas stays there.
LoadFails ==
    /\ load # None /\ request[load.mode] = "failed"
    /\ load' = None
    /\ UNCHANGED <<server, open, mode, request, canvas, dialogs, saving, bounds>>

\* The user has confirmed that unsaved edits go.
ChangeBaseMode(m) ==
    /\ open /\ load = None /\ (saving # None => ~saving.mine) /\ ketcher = None
    /\ m # mode /\ Gesture
    /\ mode' = m
    /\ Reload(m, seen)
    /\ UNCHANGED <<server, open, view, dialogs, saving, used>>

Unmount ==
    /\ open' = FALSE /\ load' = None /\ view' = None /\ history' = <<>>
    /\ selection' = {} /\ dirty' = FALSE /\ draft' = None /\ pointer' = None
    /\ cropping' = None /\ ketcher' = None

\* Asked first when there are unsaved edits.
Close ==
    /\ open /\ ketcher = None /\ Gesture
    /\ Unmount
    /\ saving' = IF saving = None THEN None ELSE [saving EXCEPT !.mine = FALSE]
    /\ UNCHANGED <<server, mode, request, used>>

\* The page's query brings the row the server has; when that is another
\* document, the editor loads it over what is on its canvas.
Refetch ==
    /\ seen # row
    /\ seen' = row
    /\ IF open /\ seen.doc # row.doc
       THEN Reload(mode, row)
       ELSE UNCHANGED <<load, request, history, selection, dirty>>
    /\ UNCHANGED <<row, open, mode, view, dialogs, saving, bounds>>

\* A redraw by a worker, or another tab, publishes a result.
Redrawn ==
    /\ row.version < MaxVersion
    /\ row' = [version |-> row.version + 1, doc |-> None]
    /\ UNCHANGED <<seen, open, loading, canvas, dialogs, saving, bounds>>

-----------------------------------------------------------------------------
(* Gestures on the canvas.                                                     *)

PointerFree == Ready /\ draft = None /\ ketcher = None /\ pointer = None /\ Gesture

Grab(session) == pointer' = session /\ UNCHANGED <<draft, cropping, ketcher>>

\* The history is written when the pointer goes down.
StartMark(x) ==
    /\ PointerFree /\ HasId /\ used' = used \cup {NewId}
    /\ PushHistory(view)
    /\ LET at == CanvasPoint(view, x)
       IN view' = WithMark(view, [id |-> NewId, start |-> at, end |-> at])
    /\ selection' = {NewId}
    /\ Grab([kind |-> "mark", id |-> NewId])
    /\ UNCHANGED <<server, open, loading, dirty, saving>>

StartErase ==
    /\ PointerFree /\ HasId /\ used' = used \cup {NewId}
    /\ PushHistory(view)
    /\ Grab([kind |-> "erase", id |-> NewId])
    /\ UNCHANGED <<server, open, loading, view, selection, dirty, saving>>

\* A click selects what it hits unless that is selected already; with shift it
\* adds or takes it away.
StartMove(key, shift) ==
    /\ PointerFree /\ key \in Selectable(view)
    /\ selection' = IF shift
                    THEN (selection \cup {key}) \ (selection \cap {key})
                    ELSE IF key \in selection THEN selection ELSE {key}
    /\ PushHistory(view)
    /\ Grab([kind |-> "move", keys |-> selection'])
    /\ UNCHANGED <<server, open, loading, view, dirty, saving, used>>

StartHandle(m, end) ==
    /\ PointerFree /\ m \in view.marks /\ m.id \in selection
    /\ PushHistory(view)
    /\ selection' = {m.id}
    /\ Grab([kind |-> "handle", id |-> m.id, end |-> end])
    /\ UNCHANGED <<server, open, loading, view, dirty, saving, used>>

StartResize(l) ==
    /\ PointerFree /\ l \in view.labels /\ l.kind = "ketcher" /\ l.id \in selection
    /\ PushHistory(view)
    /\ selection' = {l.id}
    /\ Grab([kind |-> "resize", id |-> l.id])
    /\ UNCHANGED <<server, open, loading, view, dirty, saving, used>>

StartMarquee ==
    /\ PointerFree
    /\ Grab([kind |-> "marquee"])
    /\ UNCHANGED <<server, open, loading, canvas, saving, used>>

\* What a gesture leaves when the pointer goes up at x; a click moves nothing,
\* and a mark of no length is given one.
Finished(session, x) ==
    CASE session.kind = "mark" ->
            [view EXCEPT !.marks = {IF m.id = session.id
                THEN UpdateHandle(m, "end", IF x = m.start THEN Clamp(x + 1) ELSE x)
                ELSE m : m \in @}]
      [] session.kind = "handle" ->
            [view EXCEPT !.marks = {IF m.id = session.id
                THEN UpdateHandle(m, session.end, x) ELSE m : m \in @}]
      [] session.kind = "resize" ->
            [view EXCEPT !.labels = {IF l.id = session.id
                THEN [l EXCEPT !.scale = ScaleAtPoint(l, x)] ELSE l : l \in @}]
      [] OTHER -> view

\* The pointer goes up, and with it the gesture ends, on the workspace that is
\* on the canvas now.
LetGo(kinds) == pointer # None /\ view # None /\ pointer.kind \in kinds /\ Grab(None)

FinishShape(x) ==
    /\ LetGo({"mark", "handle", "resize"})
    /\ SetView(Finished(pointer, CanvasPoint(view, x)))
    /\ UNCHANGED <<server, open, loading, history, selection, saving, bounds>>

FinishMove(d) ==
    /\ LetGo({"move"})
    /\ IF d = 0 THEN UNCHANGED <<view, dirty>> ELSE SetView(Move(view, pointer.keys, d))
    /\ UNCHANGED <<server, open, loading, history, selection, saving, bounds>>

\* Nothing is rubbed out by a click, or on a canvas that cannot be measured.
FinishErase(touched) ==
    /\ LetGo({"erase"})
    /\ \/ /\ Unbound(view) = {}
          /\ SetView([view EXCEPT !.strokes = @ \cup
               {Bind(view, [id |-> pointer.id, bound |-> FALSE, points |-> 2, targets |-> {}], touched)}])
       \/ UNCHANGED <<view, dirty>>
    /\ UNCHANGED <<server, open, loading, history, selection, saving, bounds>>

FinishMarquee(keys) ==
    /\ LetGo({"marquee"})
    /\ keys \subseteq Selectable(view)
    /\ selection' = keys
    /\ UNCHANGED <<server, open, loading, view, history, dirty, saving, bounds>>

\* The keys work while a gesture, a save or a dialog is under way.
Undo ==
    /\ open /\ view # None /\ history # <<>> /\ Gesture
    /\ SetView(RestoreSnapshot(view, history[Len(history)]))
    /\ history' = SubSeq(history, 1, Len(history) - 1)
    /\ selection' = {}
    /\ UNCHANGED <<server, open, loading, dialogs, saving, used>>

DeleteSelection ==
    /\ open /\ view # None /\ selection # {} /\ Gesture
    /\ PushHistory(view)
    /\ SetView(Delete(view, selection))
    /\ selection' = {}
    /\ UNCHANGED <<server, open, loading, dialogs, saving, used>>

-----------------------------------------------------------------------------
(* The text box, styles and sizes.                                             *)

\* An empty box at x, or a label opened for editing.
StartText(x) ==
    /\ PointerFree
    /\ draft' = [existing |-> FALSE, id |-> None, x |-> CanvasPoint(view, x), text |-> ""]
    /\ UNCHANGED <<server, open, loading, canvas, pointer, cropping, ketcher, saving, used>>

EditText(l) ==
    /\ PointerFree /\ l \in view.labels /\ l.kind = "text"
    /\ draft' = [existing |-> TRUE, id |-> l.id, x |-> l.x, text |-> l.content]
    /\ UNCHANGED <<server, open, loading, canvas, pointer, cropping, ketcher, saving, used>>

TypeText(c) ==
    /\ draft # None /\ draft.text # c
    /\ draft' = [draft EXCEPT !.text = c]
    /\ UNCHANGED <<server, open, loading, canvas, pointer, cropping, ketcher, saving, bounds>>

Changed(text) == text.existing \/ text.text # ""

\* The draft becomes part of the workspace; the caller closes the box.
TakeDraft ==
    /\ HasId
    /\ used' = IF draft.existing \/ draft.text = "" THEN used ELSE used \cup {NewId}
    /\ IF Changed(draft) THEN PushHistory(view) ELSE UNCHANGED history
    /\ view' = MaterializeText(view, draft, NewId)
    /\ selection' = IF draft.text = "" THEN {}
                    ELSE IF draft.existing THEN {draft.id} ELSE {NewId}

CommitText ==
    /\ draft # None /\ view # None
    /\ TakeDraft
    /\ dirty' = (dirty \/ Changed(draft))
    /\ draft' = None
    /\ UNCHANGED <<server, open, loading, pointer, cropping, ketcher, saving, gestures>>

CancelText ==
    /\ draft # None /\ draft' = None
    /\ UNCHANGED <<server, open, loading, canvas, pointer, cropping, ketcher, saving, bounds>>

Rescale(l, scale) ==
    /\ open /\ view # None /\ ketcher = None /\ l \in view.labels
    /\ l.kind = "ketcher" /\ l.id \in selection /\ scale # l.scale /\ Gesture
    /\ PushHistory(view)
    /\ SetView(WithLabel(view, [l EXCEPT !.scale = scale]))
    /\ UNCHANGED <<server, open, loading, selection, dialogs, saving, used>>

\* Colors and sizes of texts are not modelled, their way into the history is.
ApplyTextStyle(l) ==
    /\ open /\ view # None /\ ketcher = None /\ l \in view.labels
    /\ l.kind = "text" /\ l.id \in selection /\ Gesture
    /\ PushHistory(view)
    /\ SetView(view)
    /\ UNCHANGED <<server, open, loading, selection, dialogs, saving, used>>

ResetEditor ==
    /\ open /\ view # None /\ ketcher = None /\ Gesture
    /\ PushHistory(view)
    /\ SetView(Clean(view.mode, view.base))
    /\ selection' = {}
    /\ UNCHANGED <<server, open, loading, dialogs, saving, used>>

-----------------------------------------------------------------------------
(* Ketcher and cropping: both end on the workspace they were started on.       *)

OpenKetcher(target) ==
    /\ open /\ ketcher = None /\ Gesture
    /\ target # None => (view # None /\ \E l \in view.labels :
                              l.kind = "ketcher" /\ l.id = target /\ target \in selection)
    /\ ketcher' = [target |-> target, ready |-> "loading", on |-> None]
    /\ UNCHANGED <<server, open, loading, canvas, draft, pointer, cropping, saving, used>>

\* The dialog waits ten seconds for the editor in its frame.
KetcherLoads ==
    /\ ketcher # None /\ ketcher.ready = "loading"
    /\ \E r \in {"ready", "failed"} : ketcher' = [ketcher EXCEPT !.ready = r]
    /\ UNCHANGED <<server, open, loading, canvas, draft, pointer, cropping, saving, bounds>>

CloseKetcher ==
    /\ ketcher # None /\ ketcher.on = None
    /\ ketcher' = None
    /\ UNCHANGED <<server, open, loading, canvas, draft, pointer, cropping, saving, bounds>>

InsertKetcher ==
    /\ ketcher # None /\ ketcher.ready = "ready" /\ ketcher.on = None /\ view # None
    /\ ketcher' = [ketcher EXCEPT !.on = view]
    /\ UNCHANGED <<server, open, loading, canvas, draft, pointer, cropping, saving, bounds>>

\* A molecule that was deleted meanwhile comes back with the workspace, one
\* deleted before is not drawn.
Inserted(w, target, i, c) ==
    IF target = None
    THEN WithLabel(w, [id |-> i, kind |-> "ketcher", x |-> w.crop.x, content |-> c, scale |-> 1])
    ELSE [w EXCEPT !.labels = {IF l.id = target /\ l.kind = "ketcher"
                               THEN [l EXCEPT !.content = c] ELSE l : l \in @}]

KetcherExported(c) ==
    /\ ketcher # None /\ ketcher.on # None /\ HasId
    /\ used' = IF ketcher.target = None THEN used \cup {NewId} ELSE used
    /\ PushHistory(ketcher.on)
    /\ SetView(Inserted(ketcher.on, ketcher.target, NewId, c))
    /\ selection' = {IF ketcher.target = None THEN NewId ELSE ketcher.target}
    /\ ketcher' = None
    /\ UNCHANGED <<server, open, loading, draft, pointer, cropping, saving, gestures>>

KetcherExportFails ==
    /\ ketcher # None /\ ketcher.on # None
    /\ ketcher' = [ketcher EXCEPT !.on = None]
    /\ UNCHANGED <<server, open, loading, canvas, draft, pointer, cropping, saving, bounds>>

CropCanvas ==
    /\ open /\ view # None /\ cropping = None /\ ketcher = None /\ Gesture
    /\ cropping' = IF Unbound(view) = {} THEN view ELSE None
    /\ selection' = {}
    /\ UNCHANGED <<server, open, loading, view, history, dirty, draft, pointer, ketcher, saving, used>>

\* Nothing changes when no content is visible or the canvas fits it already.
CropDone(c) ==
    /\ cropping # None
    /\ c.x >= cropping.crop.x /\ c.x + c.width <= cropping.crop.x + cropping.crop.width
    /\ IF c = cropping.crop THEN UNCHANGED <<history, view, dirty>>
       ELSE PushHistory(cropping) /\ SetView([cropping EXCEPT !.crop = c])
    /\ cropping' = None
    /\ UNCHANGED <<server, open, loading, selection, draft, pointer, ketcher, saving, bounds>>

-----------------------------------------------------------------------------
(* Saving.                                                                     *)

\* Faulty: the check is not made.
CanBuildAlways(w) == TRUE

\* A stroke nobody bound would rub out whatever comes under it.
CanBuild(w) == Unbound(w) = {}

\* The open text box is saved with the rest.
Save ==
    /\ Ready /\ saving = None /\ ketcher = None /\ Gesture
    /\ IF draft = None THEN UNCHANGED <<view, history, selection, used>> ELSE TakeDraft
    /\ draft' = None
    /\ saving' = IF CanBuild(view') THEN [phase |-> "drawing", work |-> view', mine |-> TRUE] ELSE None
    /\ UNCHANGED <<server, open, loading, dirty, pointer, cropping, ketcher>>

\* The browser draws the document as a picture.
PngDrawn ==
    /\ saving # None /\ saving.phase = "drawing"
    /\ saving' = [saving EXCEPT !.phase = "sent"]
    /\ UNCHANGED <<server, open, loading, canvas, dialogs, bounds>>

\* The request outlives the editor that sent it.
SaveStored ==
    /\ saving # None /\ saving.phase = "sent" /\ row.version < MaxVersion
    /\ row' = [version |-> row.version + 1, doc |-> Build(saving.work)]
    /\ saving' = [saving EXCEPT !.phase = "stored"]
    /\ dirty' = (dirty /\ ~saving.mine)
    /\ UNCHANGED <<seen, open, loading, view, history, selection, dialogs, bounds>>

\* It cannot be drawn, or the server refuses it.
SaveFails ==
    /\ saving # None /\ saving.phase \in {"drawing", "sent"}
    /\ saving' = None
    /\ UNCHANGED <<server, open, loading, canvas, dialogs, bounds>>

\* The page refetches its rows and then closes whatever editor it shows.
SaveCloses ==
    /\ saving # None /\ saving.phase = "stored"
    /\ seen' = row
    /\ saving' = None
    /\ Unmount
    /\ UNCHANGED <<row, mode, request, bounds>>

-----------------------------------------------------------------------------

Init ==
    /\ row \in [version : {0}, doc : {None} \cup Legacy] /\ seen = row
    /\ open = FALSE /\ mode = "source" /\ load = None
    /\ request = [m \in Mode |-> "idle"]
    /\ view = None /\ history = <<>> /\ selection = {} /\ dirty = FALSE
    /\ draft = None /\ pointer = None /\ cropping = None /\ ketcher = None
    /\ saving = None
    /\ used = {s.id : s \in UNION {d.operations.strokes : d \in Legacy}} /\ gestures = 0

\* What the network and the browser bring back.
Answers ==
    \/ \E m \in Mode : ConversionAnswers(m) \/ ConversionReleased(m)
    \/ \E readable, measurable \in BOOLEAN : LoadDone(readable, measurable)
    \/ LoadFails
    \/ Refetch
    \/ KetcherLoads
    \/ \E c \in Content : KetcherExported(c)
    \/ KetcherExportFails
    \/ \E c \in Crop : CropDone(c)
    \/ PngDrawn \/ SaveStored \/ SaveFails \/ SaveCloses

Pointing ==
    \/ \E x \in Point : StartMark(x)
    \/ StartErase
    \/ \E key \in Trace \cup Id, shift \in BOOLEAN : view # None /\ StartMove(key, shift)
    \/ \E m \in IF view = None THEN {} ELSE view.marks, end \in {"start", "end"} : StartHandle(m, end)
    \/ \E l \in IF view = None THEN {} ELSE view.labels : StartResize(l)
    \/ StartMarquee
    \/ \E x \in Point : FinishShape(x)
    \/ \E d \in Shift : FinishMove(d)
    \/ \E touched \in SUBSET Trace : FinishErase(touched)
    \/ \E keys \in SUBSET (Trace \cup Id) : FinishMarquee(keys)

Commands ==
    \/ \E m \in Mode : Open(m) \/ ChangeBaseMode(m)
    \/ Close \/ Undo \/ DeleteSelection \/ ResetEditor
    \/ \E x \in Point : StartText(x)
    \/ \E l \in IF view = None THEN {} ELSE view.labels : EditText(l)
    \/ \E c \in Content \cup {""} : TypeText(c)
    \/ CommitText \/ CancelText \/ Save
    \/ \E l \in IF view = None THEN {} ELSE view.labels, x \in Point : Rescale(l, ClampScale(x + 1))
    \/ \E l \in IF view = None THEN {} ELSE view.labels : ApplyTextStyle(l)
    \/ \E target \in {None} \cup Id : OpenKetcher(target)
    \/ CloseKetcher \/ InsertKetcher \/ CropCanvas

Next == Redrawn \/ Answers \/ Pointing \/ Commands

Spec == Init /\ [][Next]_vars

-----------------------------------------------------------------------------
(* Properties.                                                                 *)

\* Whatever is on the canvas, opening the document saved from it shows the same
\* figure: nothing is moved, cut or rubbed out twice, nothing is dropped
\* (materializedTraceMarkup, editableTraceMarkup, mergeSavedSvg).
ReopenShowsWhatWasSaved ==
    view # None /\ CanBuild(view) => Shown(Reopen(Build(view))) = Shown(view)

\* A document the editor publishes holds no stroke that rubs out whatever comes
\* under it, also when the work it was made from came through undo, a crop or a
\* dialog that started on an older canvas (buildSvgDocument).
PublishedStrokesAreBound ==
    row.version > 0 /\ row.doc # None => \A s \in row.doc.operations.strokes : s.bound
=============================================================================
