--------------------------- MODULE ChapterDialogue ---------------------------
(* Talking about one chapter of the draft (SectionDialogue.tsx): composing and *)
(* sending a message, following the turn over a stream with polling as the     *)
(* fallback, and showing the reply, which is published apart from the turn     *)
(* (actions/draft/dialogue.py). Texts and request keys are numbers; a text is  *)
(* fresh each time it is typed.                                                *)
EXTENDS Integers, FiniteSets

CONSTANTS
    NoChapter,          \* nothing loaded, nothing under way
    MaxTurns,           \* bound on the turns
    MaxChapterChanges,  \* bound on the changes of the chapter by others
    MaxDialogueMoves    \* bound on what the user does

ASSUME DialogueAssumption ==
    MaxTurns \in Nat /\ MaxChapterChanges \in Nat /\ MaxDialogueMoves \in Nat

VARIABLES
    turn,           \* server: by number what was asked, and the status
    published,      \* server: turns whose reply can be read
    chapterText,    \* server: version of the chapter's text
    chapterCache,   \* the draft as the page holds it: text, active turn, replies
    chapterDue,     \* the draft is to be fetched
    historyCache,   \* by turn, its status as the page knows it
    historyDue,     \* the history is to be fetched
    stream,         \* turn whose stream is connected, 0 for none
    endedStreams,   \* turns whose end came over a stream
    replies,        \* the replies read last: for which ended turns, which were there
    compose,        \* the box: text, text of the chapter it was typed on, request key
    scratch,        \* the same as the browser stores it
    sending,        \* the request of this visit
    oldSending,     \* a request of the visit before, with what its box held at the end
    rekeyed,        \* texts whose stored key the answer to another message has replaced
    dialogueMoves   \* what the user has done

turnVars == <<turn, published, chapterText>>
chapterQueryVars == <<chapterCache, chapterDue, historyCache, historyDue>>
followVars == <<stream, endedStreams, replies>>
composeVars == <<compose, scratch, sending, oldSending, rekeyed>>
dialogueVars == <<turnVars, chapterQueryVars, followVars, composeVars, dialogueMoves>>

TurnNumber == 1..MaxTurns
Going == {"queued", "running"}
Over == {"succeeded", "failed", "cancelled"}

Started == {n \in TurnNumber : turn[n].status # "none"}
GoingTurns == {n \in TurnNumber : turn[n].status \in Going}

DialogueMove == dialogueMoves < MaxDialogueMoves /\ dialogueMoves' = dialogueMoves + 1

\* Request keys that have not been used: one for the user's next move, and one
\* for the answer to a request of this visit or of the one before.
FreshKey == 3 * dialogueMoves + 1
AnswerKey == 3 * dialogueMoves + 2
OldAnswerKey == 3 * dialogueMoves + 3

-----------------------------------------------------------------------------
(* The server.                                                                 *)

ChapterElsewhere ==
    /\ chapterText < MaxChapterChanges /\ chapterText' = chapterText + 1
    /\ UNCHANGED <<turn, published, chapterQueryVars, followVars, composeVars, dialogueMoves>>

\* The reply is published before the turn is marked done.
TurnStep ==
    /\ \E n \in TurnNumber :
          \/ turn[n].status = "queued" /\ turn' = [turn EXCEPT ![n].status = "running"] /\ UNCHANGED published
          \/ turn[n].status = "running" /\ published' = published \cup {n} /\ published' # published /\ UNCHANGED turn
          \/ turn[n].status = "running" /\ n \in published
                /\ turn' = [turn EXCEPT ![n].status = "succeeded"] /\ UNCHANGED published
          \/ turn[n].status = "running" /\ n \notin published
                /\ \E end \in {"failed", "cancelled"} : turn' = [turn EXCEPT ![n].status = end]
                /\ UNCHANGED published
    /\ UNCHANGED <<chapterText, chapterQueryVars, followVars, composeVars, dialogueMoves>>

Request(s) == [text |-> s.text, base |-> s.base, key |-> s.key, action |-> s.action]

TurnsStillGoing(s) == {n \in GoingTurns : turn[n].asked.key = s.key /\ turn[n].asked.action = s.action}

TurnsOf(s) == {n \in Started : turn[n].asked.key = s.key /\ turn[n].asked.action = s.action}

NextTurn == {n \in TurnNumber \ Started : 1..(n - 1) \subseteq Started}

\* A key that is known gives its turn back, or is refused with another request;
\* a new turn needs the chapter to be as it was read, and no other turn.
Taken(s) ==
    \/ \E n \in TurnsOf(s) : turn[n].asked = Request(s) /\ UNCHANGED turn
    \/ /\ TurnsOf(s) = {} /\ s.base = chapterText /\ GoingTurns = {}
       /\ \E n \in NextTurn : turn' = [turn EXCEPT ![n] = [status |-> "queued", asked |-> Request(s)]]

-----------------------------------------------------------------------------
(* What the page knows.                                                        *)

KnownTurns == IF historyCache = NoChapter THEN {} ELSE {n \in TurnNumber : historyCache[n] # "none"}
KnownOver == {n \in KnownTurns : historyCache[n] \in Over}
KnownGoing == KnownTurns \ KnownOver

\* The turn that goes on, by the history or else by the draft.
ActiveTurn ==
    IF KnownGoing # {} THEN CHOOSE n \in KnownGoing : \A k \in KnownGoing : n <= k
    ELSE IF chapterCache # NoChapter /\ chapterCache.active # 0 /\ chapterCache.active \notin KnownOver
    THEN chapterCache.active ELSE 0

\* The stream belongs to the active turn.
KeepStream == stream' = IF ActiveTurn' = stream THEN stream ELSE 0

ReadChapter ==
    /\ \/ chapterDue
       \/ chapterCache # NoChapter /\ chapterCache.text # chapterText
    /\ chapterCache' = [text |-> chapterText, published |-> published,
                        active |-> IF GoingTurns = {} THEN 0 ELSE CHOOSE n \in GoingTurns : TRUE]
    /\ chapterDue' = FALSE
    /\ UNCHANGED <<historyCache, historyDue>> /\ KeepStream
    /\ UNCHANGED <<turnVars, endedStreams, replies, composeVars, dialogueMoves>>

PollingNever == FALSE

\* Polling stands in while no stream is connected.
Polling == stream = 0 /\ ActiveTurn # 0

PollHistory ==
    /\ historyDue \/ Polling
    /\ historyCache' = [n \in TurnNumber |-> turn[n].status]
    /\ historyDue' = FALSE
    /\ UNCHANGED <<chapterCache, chapterDue>> /\ KeepStream
    /\ UNCHANGED <<turnVars, endedStreams, replies, composeVars, dialogueMoves>>

\* A browser need not have streams; the end of a turn is followed only once.
StreamOpens ==
    /\ ActiveTurn # 0 /\ stream = 0 /\ ActiveTurn \notin endedStreams
    /\ stream' = ActiveTurn
    /\ UNCHANGED <<turnVars, chapterQueryVars, endedStreams, replies, composeVars, dialogueMoves>>

StreamBreaks ==
    /\ stream # 0 /\ stream' = 0
    /\ UNCHANGED <<turnVars, chapterQueryVars, endedStreams, replies, composeVars, dialogueMoves>>

\* A snapshot changes what is known of its turn; an end has everything fetched.
StreamSnapshot ==
    /\ stream # 0
    /\ historyCache' = IF stream \in KnownTurns THEN [historyCache EXCEPT ![stream] = turn[stream].status]
                       ELSE historyCache
    /\ IF turn[stream].status \in Over
       THEN /\ endedStreams' = endedStreams \cup {stream} /\ stream' = 0
            /\ historyDue' = TRUE /\ chapterDue' = TRUE
       ELSE UNCHANGED <<endedStreams, stream, historyDue, chapterDue>>
    /\ UNCHANGED <<turnVars, chapterCache, replies, composeVars, dialogueMoves>>

\* The replies are read for the ended turns that are known: more ended turns
\* are another question.
ReplyKey == KnownOver

\* Reading the replies is not tried again when it fails.
ReadReplies ==
    /\ KnownOver # {} /\ replies.key # ReplyKey
    /\ \/ replies' = [key |-> ReplyKey, there |-> published, failed |-> FALSE]
       \/ replies' = [key |-> ReplyKey, there |-> {}, failed |-> TRUE]
    /\ UNCHANGED <<turnVars, chapterQueryVars, stream, endedStreams, composeVars, dialogueMoves>>

ReloadReply ==
    /\ replies.failed /\ replies.key = ReplyKey
    /\ replies' = [key |-> ReplyKey, there |-> published, failed |-> FALSE]
    /\ DialogueMove
    /\ UNCHANGED <<turnVars, chapterQueryVars, stream, endedStreams, composeVars>>

-----------------------------------------------------------------------------
(* Composing and sending.                                                      *)

Compose(new) == compose' = new /\ scratch' = new

TypeMessage ==
    /\ chapterCache # NoChapter
    /\ Compose([text |-> dialogueMoves + 1, base |-> chapterCache.text, key |-> FreshKey])
    /\ DialogueMove
    /\ UNCHANGED <<turnVars, chapterQueryVars, followVars, sending, oldSending, rekeyed>>

\* The user has read the chapter again.
MarkReviewed ==
    /\ chapterCache # NoChapter /\ compose.text # 0 /\ compose.base # chapterCache.text
    /\ Compose([compose EXCEPT !.base = chapterCache.text, !.key = FreshKey])
    /\ DialogueMove
    /\ UNCHANGED <<turnVars, chapterQueryVars, followVars, sending, oldSending, rekeyed>>

\* A fresh discussion from the first version of the chapter.
RestartDialogue ==
    /\ chapterCache # NoChapter /\ ActiveTurn = 0 /\ sending = NoChapter
    /\ Compose([text |-> 0, base |-> chapterCache.text, key |-> FreshKey])
    /\ DialogueMove
    /\ UNCHANGED <<turnVars, chapterQueryVars, followVars, sending, oldSending, rekeyed>>

\* Without a message a revision is asked for on the chapter as it is shown.
SendMessage(action) ==
    /\ chapterCache # NoChapter /\ ActiveTurn = 0 /\ sending = NoChapter
    /\ compose.text # 0 => compose.base = chapterCache.text
    /\ compose.text = 0 => action = "revise"
    /\ sending' = [text |-> compose.text, base |-> chapterCache.text, key |-> compose.key,
                   action |-> action, ref |-> 0]
    /\ DialogueMove
    /\ UNCHANGED <<turnVars, chapterQueryVars, followVars, compose, scratch, oldSending, rekeyed>>

\* What has been typed since stays.
Clears(s, text) == text = s.text

AfterSend(s, box, text, new) == [box EXCEPT !.text = IF Clears(s, text) THEN 0 ELSE @, !.key = new]

MessageSent ==
    /\ sending # NoChapter
    /\ \/ Taken(sending)
             /\ \/ Compose(AfterSend(sending, compose, compose.text, AnswerKey)) /\ historyDue' = TRUE /\ chapterDue' = TRUE
                \/ UNCHANGED <<compose, scratch, historyDue, chapterDue>>
       \/ UNCHANGED <<turn, compose, scratch, historyDue, chapterDue>>
    /\ sending' = NoChapter
    /\ UNCHANGED <<published, chapterText, chapterCache, historyCache, followVars, oldSending, rekeyed, dialogueMoves>>

\* The answer to an earlier visit reaches only what the browser stores: it gives a
\* text that stays another key there than this visit sends it under.
OldMessageSent ==
    /\ oldSending # NoChapter
    /\ \/ Taken(oldSending)
             /\ \/ /\ scratch' = AfterSend(oldSending, scratch, oldSending.ref, OldAnswerKey)
                   /\ rekeyed' = rekeyed \cup {scratch'.text}
                   /\ historyDue' = TRUE /\ chapterDue' = TRUE
                \/ UNCHANGED <<scratch, rekeyed, historyDue, chapterDue>>
       \/ UNCHANGED <<turn, scratch, rekeyed, historyDue, chapterDue>>
    /\ oldSending' = NoChapter
    /\ UNCHANGED <<published, chapterText, chapterCache, historyCache, followVars, compose, sending, dialogueMoves>>

\* To another chapter or page and back. The key is stored when it changes; a visit
\* that finds none makes one.
LeaveAndReturn ==
    /\ oldSending = NoChapter
    /\ oldSending' = IF sending = NoChapter THEN NoChapter ELSE [sending EXCEPT !.ref = compose.text]
    /\ sending' = NoChapter
    /\ compose' = IF scratch.key = 0 THEN [scratch EXCEPT !.key = FreshKey] ELSE scratch
    /\ stream' = 0 /\ endedStreams' = {} /\ historyDue' = TRUE
    /\ DialogueMove
    /\ UNCHANGED <<turnVars, chapterCache, chapterDue, historyCache, replies, scratch, rekeyed>>

-----------------------------------------------------------------------------

DialogueInit ==
    /\ turn = [n \in TurnNumber |-> [status |-> "none", asked |-> NoChapter]]
    /\ published = {} /\ chapterText = 0
    /\ chapterCache = NoChapter /\ chapterDue = TRUE
    /\ historyCache = NoChapter /\ historyDue = TRUE
    /\ stream = 0 /\ endedStreams = {}
    /\ replies = [key |-> {}, there |-> {}, failed |-> FALSE]
    /\ compose = [text |-> 0, base |-> 0, key |-> 0] /\ scratch = compose
    /\ sending = NoChapter /\ oldSending = NoChapter /\ rekeyed = {}
    /\ dialogueMoves = 0

StreamNext == StreamOpens \/ StreamBreaks \/ StreamSnapshot

DialogueNext ==
    \/ ChapterElsewhere \/ TurnStep
    \/ ReadChapter \/ PollHistory \/ StreamNext
    \/ ReadReplies \/ ReloadReply
    \/ TypeMessage \/ MarkReviewed \/ RestartDialogue
    \/ \E action \in {"discuss", "revise"} : SendMessage(action)
    \/ MessageSent \/ OldMessageSent \/ LeaveAndReturn

DialogueSpec == DialogueInit /\ [][DialogueNext]_dialogueVars

-----------------------------------------------------------------------------
(* Properties.                                                                 *)

\* However often it is sent after a lost answer, from this visit or the one
\* before, a message becomes one turn for one state of the chapter; except one
\* whose key a late answer to another message has replaced in the browser.
MessagesAreTakenOnce ==
    \A m, n \in Started :
        m # n /\ turn[n].asked.text \notin rekeyed \cup {0}
            => <<turn[m].asked.text, turn[m].asked.base, turn[m].asked.action>>
                  # <<turn[n].asked.text, turn[n].asked.base, turn[n].asked.action>>

\* The reply of a turn the page follows comes to be shown, or a way to read it
\* again: with a stream, without one, and with one that breaks at any moment.
RepliesAreShown ==
    \A n \in TurnNumber :
        n \in KnownTurns /\ turn[n].status = "succeeded"
            ~> \/ chapterCache # NoChapter /\ n \in chapterCache.published
               \/ replies.key = KnownOver /\ (n \in replies.there \/ replies.failed)
=============================================================================
