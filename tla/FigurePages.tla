---------------------------- MODULE FigurePages ----------------------------
(* The images page (ImagesPage.tsx): choosing the source figure of every paper *)
(* (FigureReview) and working on the chosen ones (FigureRedraw), as one browser *)
(* tab beside other writers of the same project. The server's part is what     *)
(* figures.py does with a call; its revisions are those of the stage rows.     *)
EXTENDS Integers, FiniteSets

CONSTANTS
    Paper,              \* papers with figure candidates
    Pick,               \* candidate figures of a paper
    NoFigure,           \* nothing chosen, nothing there
    MaxFigureWrites,    \* bound on what the server accepts
    MaxFigureMoves      \* bound on what the user does

ASSUME FigureAssumption == MaxFigureWrites \in Nat /\ MaxFigureMoves \in Nat

VARIABLES
    figureServer,   \* review revision, picks, notes, what the redraw works on
    figureJob,      \* the redraw job and its figure
    figureOutput,   \* outputs: published version, approval, inclusion; revision
    reviewCache,    \* the review the query holds
    reviewForm,     \* paper looked at and the note in the box
    reviewSave,     \* selections on their way to the server
    figureTab,      \* "review" or "redraw"
    opening,        \* the way from one to the other
    figuresCache,   \* the figures the query holds
    figuresFetch,   \* a figures request the server has answered half of
    figureCommand,  \* a command of the redraw tab under way
    figureMoves     \* what the user has done

figureServerVars == <<figureServer, figureJob, figureOutput>>
reviewVars == <<reviewCache, reviewForm, reviewSave>>
redrawVars == <<figuresCache, figuresFetch, figureCommand>>
figureVars == <<figureServerVars, reviewVars, redrawVars, figureTab, opening, figureMoves>>

Active == {"queued", "running", "published", "cancel_requested"}

FigureMove == figureMoves < MaxFigureMoves /\ figureMoves' = figureMoves + 1

Writable == figureServer.rev + figureOutput.rev < MaxFigureWrites

-----------------------------------------------------------------------------
(* The server.                                                                 *)

\* Every accepted selection is what the redraw works on at once; a selection
\* made on an older revision is refused.
AcceptSelection(p, c, note) ==
    figureServer' = [rev    |-> figureServer.rev + 1,
                     pick   |-> [figureServer.pick EXCEPT ![p] = c],
                     note   |-> [figureServer.note EXCEPT ![p] = note],
                     inputs |-> [figureServer.pick EXCEPT ![p] = c]]

\* Another tab or user does the same; older projects hold picks the redraw does
\* not work on yet.
SelectionElsewhere ==
    /\ Writable
    /\ \E p \in Paper, c \in Pick : AcceptSelection(p, c, figureServer.note[p])
    /\ UNCHANGED <<figureJob, figureOutput, reviewVars, redrawVars, figureTab, opening, figureMoves>>

\* The worker runs the job; its output is published before it is marked done.
RedrawStarts ==
    /\ figureJob.status = "queued" /\ figureJob' = [figureJob EXCEPT !.status = "running"]
    /\ UNCHANGED <<figureServer, figureOutput, reviewVars, redrawVars, figureTab, opening, figureMoves>>

PublishRedraw ==
    /\ figureJob.status = "running" /\ Writable
    /\ figureOutput' = [figureOutput EXCEPT !.rev = @ + 1, !.image[figureJob.paper] = "redrawn",
                                            !.approved = @ \ {figureJob.paper}]
    /\ figureJob' = [figureJob EXCEPT !.status = "published"]
    /\ UNCHANGED <<figureServer, reviewVars, redrawVars, figureTab, opening, figureMoves>>

RedrawEnds ==
    /\ \/ figureJob.status = "published" /\ figureJob' = [figureJob EXCEPT !.status = "succeeded"]
       \/ figureJob.status = "running" /\ figureJob' = [figureJob EXCEPT !.status = "failed"]
       \/ figureJob.status = "cancel_requested" /\ figureJob' = [figureJob EXCEPT !.status = "cancelled"]
    /\ UNCHANGED <<figureServer, figureOutput, reviewVars, redrawVars, figureTab, opening, figureMoves>>

-----------------------------------------------------------------------------
(* FigureReview.                                                               *)

ReviewOf == [rev |-> figureServer.rev, pick |-> figureServer.pick, note |-> figureServer.note,
             synced |-> figureServer.inputs = figureServer.pick]

\* Faulty: what is typed follows the paper.
FollowPaper(p, new) == reviewForm' = [reviewForm EXCEPT !.paper = p]

\* The form follows the row of the paper it shows when that row changes.
FollowRow(p, new) ==
    reviewForm' =
        IF \/ p # reviewForm.paper
           \/ reviewCache = NoFigure
           \/ <<reviewCache.pick[p], reviewCache.note[p]>> # <<new.pick[p], new.note[p]>>
        THEN [paper |-> p, note |-> new.note[p]] ELSE reviewForm

FetchReview ==
    /\ figureTab = "review" /\ reviewCache # ReviewOf
    /\ reviewCache' = ReviewOf
    /\ FollowRow(reviewForm.paper, ReviewOf)
    /\ UNCHANGED <<figureServerVars, reviewSave, redrawVars, figureTab, opening, figureMoves>>

SelectPaper(p) ==
    /\ figureTab = "review" /\ reviewCache # NoFigure /\ p # reviewForm.paper
    /\ FollowRow(p, reviewCache)
    /\ FigureMove
    /\ UNCHANGED <<figureServerVars, reviewCache, reviewSave, redrawVars, figureTab, opening>>

\* A note is known by the paper it was written on.
TypeNote ==
    /\ figureTab = "review" /\ reviewCache # NoFigure
    /\ reviewForm' = [reviewForm EXCEPT !.note = reviewForm.paper]
    /\ FigureMove
    /\ UNCHANGED <<figureServerVars, reviewCache, reviewSave, redrawVars, figureTab, opening>>

\* The request is made of what the form holds when the candidate is pressed.
SaveSelection(c) ==
    /\ figureTab = "review" /\ reviewCache # NoFigure /\ reviewSave = NoFigure
    /\ reviewSave' = [rev |-> reviewCache.rev, paper |-> reviewForm.paper, pick |-> c,
                      note |-> reviewForm.note]
    /\ FigureMove
    /\ UNCHANGED <<figureServerVars, reviewCache, reviewForm, redrawVars, figureTab, opening>>

\* After a success the figures are forgotten and the review is fetched again.
SelectionSaved ==
    /\ reviewSave # NoFigure
    /\ IF reviewSave.rev = figureServer.rev /\ Writable
       THEN /\ AcceptSelection(reviewSave.paper, reviewSave.pick, reviewSave.note)
            /\ figuresCache' = NoFigure
            /\ IF reviewCache = NoFigure THEN UNCHANGED <<reviewCache, reviewForm>>
               ELSE LET new == [rev |-> figureServer'.rev, pick |-> figureServer'.pick,
                                note |-> figureServer'.note, synced |-> TRUE]
                    IN reviewCache' = new /\ FollowRow(reviewForm.paper, new)
       ELSE UNCHANGED <<figureServer, figuresCache, reviewCache, reviewForm>>
    /\ reviewSave' = NoFigure
    /\ UNCHANGED <<figureJob, figureOutput, figuresFetch, figureCommand, figureTab, opening, figureMoves>>

Reviewed == {p \in Paper : figureServer.pick[p] # NoFigure}

-----------------------------------------------------------------------------
(* From the review to the redraw.                                              *)

\* The review may be taken from the cache while that is fresh.
OpenRedraw ==
    /\ figureTab = "review" /\ opening = NoFigure
    /\ opening' = [phase |-> "sync", rev |-> 0,
                   known |-> IF reviewCache # NoFigure THEN reviewCache.rev ELSE figureServer.rev]
    /\ FigureMove
    /\ UNCHANGED <<figureServerVars, reviewVars, redrawVars, figureTab>>

\* A selection the redraw works on already is not written again, whatever
\* revision the page knows.
Sync ==
    /\ opening # NoFigure /\ opening.phase = "sync"
    /\ \/ /\ Reviewed # {} /\ figureServer.inputs = figureServer.pick
          /\ UNCHANGED figureServer
          /\ opening' = [opening EXCEPT !.phase = "fetch", !.rev = figureServer.rev]
       \/ /\ Reviewed # {} /\ figureServer.inputs # figureServer.pick
          /\ opening.known = figureServer.rev /\ Writable
          /\ figureServer' = [figureServer EXCEPT !.rev = @ + 1, !.inputs = figureServer.pick]
          /\ opening' = [opening EXCEPT !.phase = "fetch", !.rev = figureServer.rev + 1]
       \/ opening' = NoFigure /\ UNCHANGED figureServer
    /\ UNCHANGED <<figureJob, figureOutput, reviewVars, redrawVars, figureTab, figureMoves>>

FiguresOf(f) == [syncRev |-> f.syncRev, inputs |-> f.inputs, image |-> f.image,
                 active |-> figureJob.status \in Active, rev |-> figureOutput.rev,
                 due |-> FALSE]

ReadFigures == [syncRev |-> figureServer.rev, inputs |-> figureServer.inputs,
                image |-> figureOutput.image]

\* The figures are dropped and fetched before the tab changes.
EnterRedraw ==
    /\ opening # NoFigure /\ opening.phase = "fetch"
    /\ figuresCache' = FiguresOf(ReadFigures)
    /\ figuresFetch' = NoFigure
    /\ reviewCache' = ReviewOf /\ FollowRow(reviewForm.paper, ReviewOf)
    /\ figureTab' = "redraw" /\ opening' = NoFigure
    /\ UNCHANGED <<figureServerVars, reviewSave, figureCommand, figureMoves>>

BackToReview ==
    /\ figureTab = "redraw" /\ figureTab' = "review"
    /\ FigureMove
    /\ UNCHANGED <<figureServerVars, reviewVars, redrawVars, opening>>

-----------------------------------------------------------------------------
(* FigureRedraw.                                                               *)

\* The server reads the outputs first, the jobs and the revision later.
FetchFigures ==
    /\ figureTab = "redraw" /\ figuresFetch = NoFigure
    /\ figuresCache # NoFigure => figuresCache.active \/ figuresCache.due
    /\ figuresFetch' = ReadFigures
    /\ UNCHANGED <<figureServerVars, reviewVars, figuresCache, figureCommand, figureTab, opening, figureMoves>>

FiguresArrive ==
    /\ figuresFetch # NoFigure
    /\ figuresCache' = FiguresOf(figuresFetch)
    /\ figuresFetch' = NoFigure
    /\ UNCHANGED <<figureServerVars, reviewVars, figureCommand, figureTab, opening, figureMoves>>

\* What the buttons of the redraw tab allow.
MayCommand(command) ==
    /\ figureTab = "redraw" /\ figuresCache # NoFigure /\ figureCommand = NoFigure
    /\ command \in {"submit", "preserve", "confirm"} => ~figuresCache.active
    /\ command = "cancel" => figuresCache.active
    /\ command = "confirm" => \A p \in Paper : figuresCache.inputs[p] # NoFigure =>
                                  figuresCache.image[p] # NoFigure

Command(command, p) ==
    /\ MayCommand(command)
    /\ figureCommand' = [command |-> command, paper |-> p, rev |-> figuresCache.rev]
    /\ FigureMove
    /\ UNCHANGED <<figureServerVars, reviewVars, figuresCache, figuresFetch, figureTab, opening>>

SubmittedRedraw(c) ==
    /\ c.command = "submit" /\ figureJob.status \notin Active
    /\ figureJob' = [status |-> "queued", paper |-> c.paper]
    /\ UNCHANGED figureOutput

Cancelled(c) ==
    /\ c.command = "cancel" /\ figureJob.status \in Active \ {"cancel_requested"}
    /\ figureJob' = [figureJob EXCEPT !.status =
                        IF @ = "queued" THEN "cancelled" ELSE "cancel_requested"]
    /\ UNCHANGED figureOutput

Written(c) ==
    /\ c.command \notin {"submit", "cancel"} /\ Writable
    /\ c.command = "confirm" => /\ figureJob.status \notin Active
                                /\ c.rev = figureOutput.rev
    /\ figureOutput' =
          CASE c.command = "approve"  -> [figureOutput EXCEPT !.rev = @ + 1, !.approved = @ \cup
                                             {p \in {c.paper} : figureOutput.image[p] # NoFigure}]
            [] c.command = "preserve" -> [figureOutput EXCEPT !.rev = @ + 1, !.image =
                                             [p \in Paper |-> IF @[p] = NoFigure THEN "source" ELSE @[p]]]
            [] OTHER                  -> [figureOutput EXCEPT !.rev = @ + 1]
    /\ UNCHANGED figureJob

\* After a success the figures are fetched again; confirming leaves the page.
CommandAnswered ==
    /\ figureCommand # NoFigure
    /\ \/ /\ SubmittedRedraw(figureCommand) \/ Cancelled(figureCommand) \/ Written(figureCommand)
          /\ figuresCache' = IF figuresCache = NoFigure THEN NoFigure
                             ELSE [figuresCache EXCEPT !.due = TRUE]
          /\ figuresFetch' = NoFigure
          /\ figureTab' = IF figureCommand.command = "confirm" THEN "left" ELSE figureTab
       \/ UNCHANGED <<figureJob, figureOutput, figuresCache, figuresFetch, figureTab>>
    /\ figureCommand' = NoFigure
    /\ UNCHANGED <<figureServer, reviewVars, opening, figureMoves>>

-----------------------------------------------------------------------------

FigureCommands == {"submit", "cancel", "approve", "preserve", "confirm"}

FigureInit ==
    /\ \E pick \in [Paper -> Pick \cup {NoFigure}] :
          figureServer \in [rev : {0}, pick : {pick}, note : {[p \in Paper |-> NoFigure]},
                            inputs : {pick, [p \in Paper |-> NoFigure]}]
    /\ figureJob = [status |-> "none", paper |-> NoFigure]
    /\ figureOutput = [rev |-> 0, image |-> [p \in Paper |-> NoFigure], approved |-> {}]
    /\ reviewCache = NoFigure /\ reviewSave = NoFigure
    /\ reviewForm \in [paper : Paper, note : {NoFigure}]
    /\ figureTab = "review" /\ opening = NoFigure
    /\ figuresCache = NoFigure /\ figuresFetch = NoFigure /\ figureCommand = NoFigure
    /\ figureMoves = 0

FigureNext ==
    \/ SelectionElsewhere \/ RedrawStarts \/ PublishRedraw \/ RedrawEnds
    \/ FetchReview \/ TypeNote \/ SelectionSaved
    \/ \E p \in Paper : SelectPaper(p)
    \/ \E c \in Pick : SaveSelection(c)
    \/ OpenRedraw \/ Sync \/ EnterRedraw \/ BackToReview
    \/ FetchFigures \/ FiguresArrive
    \/ \E command \in FigureCommands, p \in Paper : Command(command, p)
    \/ CommandAnswered

FigureSpec == FigureInit /\ [][FigureNext]_figureVars

-----------------------------------------------------------------------------
(* Properties.                                                                 *)

\* A note is stored with the paper it was written on, although the form is
\* shared by all papers and requests and refetches are under way while the user
\* moves on (the effects that follow the selected row).
NotesStayWithTheirPaper == \A p \in Paper : figureServer.note[p] \in {p, NoFigure}
=============================================================================
