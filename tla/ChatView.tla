------------------------------ MODULE ChatView ------------------------------
(***************************************************************************)
(* What the chat page draws of a conversation: the rows it keeps of the    *)
(* history it read (chat-message-boundary.ts), the messages drawn and the  *)
(* task cards in them (ChatContainer, MessageRow), the notice under them   *)
(* and its button, the input box (ChatInput), and how the page scrolls     *)
(* (useChatScroll).  How stored and streamed messages merge is ChatSession.*)
(***************************************************************************)
EXTENDS Naturals, Sequences, SequencesExt, FiniteSets

CONSTANTS
    ViewTasks,    \* the tasks the conversation may mention
    NoTask,
    Histories,    \* the stored conversations that may be read
    MaxReplyParts,\* bound: parts of one streamed reply
    MaxViewSteps  \* bound: messages sent, answers and tasks retried, scrolls by the reader, locks

ASSUME ChatViewAssumption ==
    /\ NoTask \notin ViewTasks
    /\ MaxReplyParts \in Nat /\ MaxViewSteps \in Nat

Kinds == {"text", "blank", "tool", "lookup", "lookupFailed", "step", "untyped"}
\* A part of a message: of one of the kinds, or data on a task, which carries its status
\* ("status", or "done" when completed) or merely names it ("marker").
ViewParts(ts) == [kind : Kinds, task : {NoTask}] \cup [kind : {"status", "done", "marker"}, task : ts]
OfTask(p) == p.task # NoTask
HasStatus(p) == p.kind \in {"status", "done"}

VARIABLES
    following,   \* what this behaviour follows of the page: its "rows", its "box" or its "scroll"
    artifacts,   \* showTaskArtifacts
    embedded,    \* variant = 'embedded'
    activeTask,
    stored,      \* the rows of the history
    read,        \* they have been read
    messages,
    pageStatus,      \* status of useChat: "idle" (ready or error), "submitted" or "streaming"
    err,         \* error of useChat: "none", "auth", "quota" or "generic"
    retryErr,    \* taskRetryError
    locked,      \* isInteractionLocked
    draft,       \* the text in the box
    scroll,
    viewSteps

chatViewVars == <<following, artifacts, embedded, activeTask, stored, read, messages, pageStatus, err, retryErr,
                  locked, draft, scroll, viewSteps>>
kindVars == <<following, artifacts, embedded>>

ViewStep == viewSteps < MaxViewSteps /\ viewSteps' = viewSteps + 1
Busy == pageStatus \in {"submitted", "streaming"}

-----------------------------------------------------------------------------
(* The boundary: a stored row is a message, or it is dropped for a reason. *)

FailureReason(row) ==
    CASE row.id = 0 -> "missing-id"
      [] row.id # 0 /\ row.role = "system" -> "system-role-not-allowed"
      [] row.id # 0 /\ row.role \notin {"user", "assistant", "system"} -> "invalid-role"
      [] OTHER -> IF ~ row.list THEN "parts-not-array"
                  ELSE IF row.parts = << >> THEN "parts-empty"
                  ELSE IF \E i \in DOMAIN row.parts : row.parts[i].kind = "untyped" THEN "part-missing-type"
                  ELSE "none"

\* Mutant: the rows after the first bad one are dropped with it.
SanitizeUpToFirstBad(rows) ==
    LET bad == {i \in DOMAIN rows : FailureReason(rows[i]) # "none"}
    IN  IF bad = {} THEN rows ELSE SubSeq(rows, 1, (CHOOSE i \in bad : \A j \in bad : i <= j) - 1)

\* sanitizeStoredMessages
Sanitize(rows) == SelectSeq(rows, LAMBDA r : FailureReason(r) = "none")

-----------------------------------------------------------------------------
(* What is drawn. *)

LastOf(role) == LET is == {i \in DOMAIN messages : messages[i].role = role}
                IN  IF is = {} THEN 0 ELSE CHOOSE i \in is : \A j \in is : j <= i

\* The stored reply of a turn the allowance stopped, while it is the last message.
PersistedQuota == messages # << >> /\ Last(messages).role = "assistant" /\ Last(messages).state = "quota"

Streaming == pageStatus = "streaming" /\ messages # << >> /\ Last(messages).role = "assistant"

\* Mutant: cards are placed in the messages of the page, hidden or not.
PlacedInAll == DOMAIN messages

\* renderMessages: the history without the streaming reply and without a reply the
\* notice stands for.
Rendered == {i \in DOMAIN messages : i < Len(messages) \/ (~ Streaming /\ ~ PersistedQuota)}

\* The messages the cards are placed in.
Placed == Rendered

TasksIn(m) == {m.parts[k].task : k \in {k \in DOMAIN m.parts : OfTask(m.parts[k])}}

\* latestTaskIdsByMessage: a task belongs to the last message that names it.
LatestTasks(i) == {t \in TasksIn(messages[i]) : \A j \in Placed : j > i => t \notin TasksIn(messages[j])}

\* visibleTaskIds: of a message of the history its latest tasks, of the
\* streaming one all of them.
VisibleTasks(i) == IF ~ artifacts THEN {}
                   ELSE IF i \in Rendered THEN LatestTasks(i) ELSE TasksIn(messages[i])

\* shouldRenderToolPart: a lookup of a task's status shows only its failure.
DrawsTool(p) == p.kind \in {"tool", "lookupFailed"}

\* MessageRow draws a message of the user, and a reply with a part to draw.
DrawsRow(i) ==
    \/ messages[i].role = "user"
    \/ \E k \in DOMAIN messages[i].parts :
           LET p == messages[i].parts[k]
           IN  p.kind = "text" \/ DrawsTool(p) \/ (OfTask(p) /\ p.task \in VisibleTasks(i))

Drawn == {i \in Rendered \cup (IF Streaming THEN {Len(messages)} ELSE {}) : DrawsRow(i)}

\* renderDataParts: one card for each visible task a part of the message has the status of.
CardsOf(i) == IF i \notin Drawn THEN {}
              ELSE {t \in VisibleTasks(i) : \E k \in DOMAIN messages[i].parts :
                        messages[i].parts[k].task = t /\ HasStatus(messages[i].parts[k])}
LiveCards(i) == IF i \in Rendered THEN CardsOf(i) ELSE {}

\* A row of the history is drawn again only when its props differ: the sets of its tasks, by
\* their members, or its message, by its parts.
Props(i) == [message |-> messages[i], tasks |-> VisibleTasks(i)]

\* Mutant: only the message counts.
SameTasksAlways(old, new) == TRUE

\* areTaskIdSetsEqual
SameTasks(old, new) == Cardinality(old) = Cardinality(new) /\ old \subseteq new

\* partsAreEqual: texts by value, any other part by itself.
SameParts(old, new) ==
    /\ Len(old) = Len(new)
    /\ \A k \in DOMAIN old : old[k].kind = new[k].kind /\ (old[k].kind # "text" => old[k] = new[k])

KeepsRow(old, new) ==
    /\ old.message.id = new.message.id /\ old.message.role = new.message.role
    /\ SameTasks(old.tasks, new.tasks) /\ SameParts(old.message.parts, new.message.parts)

\* checkHasRenderableAssistant: some reply, of whatever turn, has text, a tool call to show
\* or data.
HasRenderableAssistant ==
    \E i \in DOMAIN messages : messages[i].role = "assistant" /\ \E k \in DOMAIN messages[i].parts :
        LET p == messages[i].parts[k] IN p.kind = "text" \/ DrawsTool(p) \/ OfTask(p)

\* The loading indicator.
Thinking == pageStatus = "submitted" \/ (pageStatus = "streaming" /\ ~ HasRenderableAssistant)

-----------------------------------------------------------------------------
(* The notice and the ways on it offers. *)

Continuation == LET i == LastOf("assistant")
                IN  IF PersistedQuota \/ i = 0 THEN "none"
                    ELSE CASE messages[i].state \in {"failed", "quota"} -> "failed"
                           [] messages[i].state = "waiting" -> "waiting"
                           [] OTHER -> "none"
RetryAnswer   == Continuation = "failed"
QuotaExceeded == err = "quota" \/ PersistedQuota
Notice        == retryErr \/ err # "none" \/ PersistedQuota

\* Mutant: the notice offers a retry beside that of the answer.
NoticeRetriesToo == CASE ~ Notice -> "none"
                      [] Notice /\ err = "auth" -> "sign in"
                      [] Notice /\ err # "auth" /\ QuotaExceeded /\ ~ retryErr -> "plans"
                      [] OTHER -> IF err # "none" /\ ~ retryErr THEN "retry" ELSE "none"

NoticeButton == CASE ~ Notice -> "none"
                  [] Notice /\ err = "auth" -> "sign in"
                  [] Notice /\ err # "auth" /\ QuotaExceeded /\ ~ retryErr -> "plans"
                  [] OTHER -> IF err # "none" /\ ~ retryErr /\ ~ RetryAnswer THEN "retry" ELSE "none"

-----------------------------------------------------------------------------
(* Scrolling. pos "bottom" is within the 100 px of handleScroll. *)

Digest(m, a) ==
    /\ a # NoTask /\ Len(m) = 1 /\ m[1].role = "assistant"
    /\ m[1].parts # << >> /\ \A k \in DOMAIN m[1].parts : m[1].parts[k].kind = "done"

\* The content has grown: what was the bottom may be it no more.
Grown(s) == {[s EXCEPT !.pos = p, !.glide = IF @ = "on" THEN g ELSE @] :
                p \in {s.pos} \cup (IF s.pos = "bottom" THEN {"mid"} ELSE {}), g \in {"on", "short"}}

\* Mutant: a scroll asked for before the digest came is not called off.
OpenedKeepsFrame(s, a) == [s EXCEPT !.pos = "top", !.glide = "none", !.moved = TRUE, !.own = FALSE, !.digest = a]

\* A digest opens as a document, at its beginning.
Opened(s, a) ==
    IF s.digest = a THEN [s EXCEPT !.frame = "none"]
    ELSE [s EXCEPT !.frame = "none", !.pos = "top", !.glide = "none", !.moved = TRUE, !.own = FALSE, !.digest = a]

\* Mutant: leaving the digest, the page remembers that its reader was not at the bottom.
FollowsAsBefore(s) == s.near

\* The first message under a digest is followed wherever its reader was.
Follows(s) == s.near \/ s.digest # NoTask

\* The layout effect, after the page has drawn the messages m of the task a.
Effect(s, m, a) ==
    IF m = << >> /\ a = NoTask THEN s
    ELSE IF Digest(m, a) THEN Opened(s, a)
    ELSE LET n == Follows(s)
         IN  [s EXCEPT !.digest = NoTask, !.near = n, !.begun = @ \/ n,
                       !.frame = IF ~ n THEN @ ELSE IF s.begun THEN "later" ELSE "first"]

\* The page draws the new messages, task or status.
Draw ==
    scroll' \in IF following # "scroll" \/ <<messages, activeTask, pageStatus>>' = <<messages, activeTask, pageStatus>>
                THEN {scroll}
                ELSE {Effect(s, messages', activeTask') : s \in IF messages' = messages THEN {scroll} ELSE Grown(scroll)}

\* The frame asked for: at once the first time and while a reply streams,
\* otherwise a smooth scroll that takes its time.
FrameRuns ==
    /\ scroll.frame # "none"
    /\ scroll' = IF scroll.frame = "first" \/ pageStatus = "streaming"
                 THEN [scroll EXCEPT !.frame = "none", !.pos = "bottom", !.glide = "none", !.moved = TRUE]
                 ELSE [scroll EXCEPT !.frame = "none", !.glide = IF scroll.pos = "bottom" THEN "none" ELSE "on"]
    /\ UNCHANGED <<kindVars, activeTask, stored, read, messages, pageStatus, err, retryErr, locked, draft, viewSteps>>

\* handleScroll: on the way of a smooth scroll the reader counts as away until its end is near.
HandleScroll ==
    /\ scroll.moved \/ scroll.glide # "none"
    /\ \E n \in IF scroll.glide = "none" THEN {scroll.pos = "bottom"} ELSE BOOLEAN :
           scroll' = [scroll EXCEPT !.moved = FALSE, !.near = n]
    /\ UNCHANGED <<kindVars, activeTask, stored, read, messages, pageStatus, err, retryErr, locked, draft, viewSteps>>

GlideEnds ==
    /\ scroll.glide # "none"
    /\ scroll' = [scroll EXCEPT !.glide = "none", !.moved = TRUE,
                                !.pos = IF scroll.glide = "on" THEN "bottom" ELSE "mid"]
    /\ UNCHANGED <<kindVars, activeTask, stored, read, messages, pageStatus, err, retryErr, locked, draft, viewSteps>>

ReaderScrolls(p) ==
    /\ following = "scroll" /\ p # scroll.pos /\ ViewStep
    /\ scroll' = [scroll EXCEPT !.pos = p, !.glide = "none", !.moved = TRUE, !.own = TRUE]
    /\ UNCHANGED <<kindVars, activeTask, stored, read, messages, pageStatus, err, retryErr, locked, draft>>

-----------------------------------------------------------------------------
(* What happens to the page.  The reader is signed in; a message of one who is not is
   PendingHandoff's.                                                              *)

Text(role, n) == [id |-> n, role |-> role, list |-> TRUE, state |-> "none",
                  parts |-> IF role = "user" THEN <<[kind |-> "text", task |-> NoTask]>> ELSE << >>]
NewId == Len(stored) + Len(messages) + 1

Welcome == messages = << >> /\ ~ embedded

\* The history of the thread is read (storedMessages). The welcome box goes, with what was in it.
HistoryIsRead ==
    /\ ~ read /\ ~ Busy
    /\ read' = TRUE /\ locked' = FALSE
    /\ messages' = Sanitize(stored)
    /\ draft' = IF Welcome /\ messages' # << >> THEN "" ELSE draft
    /\ UNCHANGED <<kindVars, activeTask, stored, pageStatus, err, retryErr, viewSteps>>
    /\ Draw

Type(d) ==
    /\ following = "box" /\ draft = "" /\ (locked => Welcome)
    /\ draft' = d
    /\ UNCHANGED <<kindVars, activeTask, stored, read, messages, pageStatus, err, retryErr, locked, scroll, viewSteps>>

\* Mutant: the box is emptied whatever became of its text.
LeftOfDraftEmptied(accepted) == ""

\* ChatInput.handleSubmit: what handleSendMessage did not accept stays in the box.
LeftOfDraft(accepted) == IF accepted THEN "" ELSE draft

\* handleSubmit and handleSendMessage. The box under the messages is disabled with the page,
\* the welcome box is not.
Submit ==
    /\ ~ Busy /\ (locked => Welcome) /\ ViewStep
    /\ following = "box" => draft = "text"
    /\ draft' = LeftOfDraft(~ locked)
    /\ IF locked THEN UNCHANGED <<messages, pageStatus, err>>
       ELSE messages' = Append(messages, Text("user", NewId)) /\ pageStatus' = "submitted" /\ err' = "none"
    /\ UNCHANGED <<kindVars, activeTask, stored, read, retryErr, locked>>
    /\ Draw

\* The first chunk of the answer.
AnswerStarts ==
    /\ pageStatus = "submitted"
    /\ pageStatus' = "streaming" /\ messages' = Append(messages, Text("assistant", NewId))
    /\ UNCHANGED <<kindVars, activeTask, stored, read, err, retryErr, locked, draft, viewSteps>>
    /\ Draw

\* A part of the answer; the status of a task replaces the one the answer has of it.
PartArrives(p) ==
    /\ Streaming /\ Len(Last(messages).parts) < MaxReplyParts
    /\ messages' = [messages EXCEPT ![Len(messages)].parts =
                      LET old == {k \in DOMAIN @ : OfTask(p) /\ @[k].task = p.task}
                      IN  IF old = {} THEN Append(@, p) ELSE [k \in DOMAIN @ |-> IF k \in old THEN p ELSE @[k]]]
    /\ UNCHANGED <<kindVars, activeTask, stored, read, pageStatus, err, retryErr, locked, draft, viewSteps>>
    /\ Draw

\* latestConfirmedTaskId, or the task the page had.
ConfirmedTask(m) ==
    LET at == UNION {{<<i, k>> : k \in {k \in DOMAIN m[i].parts : HasStatus(m[i].parts[k])}} : i \in DOMAIN m}
        latest == CHOOSE x \in at : \A y \in at : y[1] < x[1] \/ (y[1] = x[1] /\ y[2] <= x[2])
    IN  IF at = {} THEN activeTask ELSE m[latest[1]].parts[latest[2]].task

\* onFinish; the page is told of the conversation and of its task.
AnswerFinishes(state) ==
    /\ Streaming
    /\ pageStatus' = "idle" /\ messages' = [messages EXCEPT ![Len(messages)].state = state]
    /\ activeTask' = ConfirmedTask(messages)
    /\ UNCHANGED <<kindVars, stored, read, err, retryErr, locked, draft, viewSteps>>
    /\ Draw

AnswerStops ==
    /\ Streaming /\ pageStatus' = "idle"
    /\ UNCHANGED <<kindVars, activeTask, stored, read, messages, err, retryErr, locked, draft, viewSteps>>
    /\ Draw

\* The request is refused, or the stream carries an error.
AnswerFails(e) ==
    /\ Busy
    /\ pageStatus' = "idle" /\ err' = e
    /\ UNCHANGED <<kindVars, activeTask, stored, read, messages, retryErr, locked, draft, viewSteps>>
    /\ Draw

\* The stored reply of the turn is read while the page is idle.
ReplyIsRead(state) ==
    /\ ~ Busy /\ messages # << >> /\ read
    /\ LET n == Len(messages) IN
       IF Last(messages).role = "user"
       THEN messages' = Append(messages, [Text("assistant", NewId) EXCEPT
                                             !.parts = <<[kind |-> "text", task |-> NoTask]>>, !.state = state])
       ELSE Last(messages).state \in {"none", "waiting"} /\ ~ Digest(messages, activeTask)
            /\ messages' = [messages EXCEPT ![n].state = state]
    /\ UNCHANGED <<kindVars, activeTask, stored, read, pageStatus, err, retryErr, locked, draft, viewSteps>>
    /\ Draw

\* regenerate, of either retry button.
Regenerate ==
    /\ ~ Busy /\ ViewStep
    /\ \/ NoticeButton = "retry"
       \/ RetryAnswer /\ ~ locked /\ LastOf("user") # 0
    /\ pageStatus' = "submitted" /\ err' = "none"
    /\ messages' = IF Last(messages).role = "assistant" THEN Front(messages) ELSE messages
    /\ UNCHANGED <<kindVars, activeTask, stored, read, retryErr, locked, draft>>
    /\ Draw

\* handleTaskRetry, of a card: the last failure stays until the next retry.
RetryTask(ok) ==
    /\ ViewStep /\ following = "rows" /\ \E i \in DOMAIN messages : CardsOf(i) # {}
    /\ retryErr' = ~ ok
    /\ UNCHANGED <<kindVars, activeTask, stored, read, messages, pageStatus, err, locked, draft, scroll>>

\* The page is locked while the reader goes to another thread, until that fails or the page goes.
SwitchThread ==
    /\ following = "box" /\ read /\ ViewStep /\ locked' = ~ locked
    /\ UNCHANGED <<kindVars, activeTask, stored, read, messages, pageStatus, err, retryErr, draft, scroll>>

-----------------------------------------------------------------------------

AtTop == [pos |-> "top", near |-> TRUE, begun |-> FALSE, frame |-> "none", digest |-> NoTask,
          moved |-> FALSE, glide |-> "none", own |-> FALSE]

ChatViewInit ==
    /\ following \in {"rows", "box", "scroll"} /\ artifacts \in BOOLEAN /\ embedded \in BOOLEAN
    /\ activeTask \in ViewTasks \cup {NoTask} /\ (embedded => activeTask # NoTask)
    /\ stored \in Histories
    /\ messages = << >> /\ read = (stored = << >>) /\ locked = ~ read
    /\ pageStatus = "idle" /\ err = "none" /\ retryErr = FALSE /\ draft = ""
    /\ scroll = (IF following = "scroll" THEN Effect(AtTop, messages, activeTask) ELSE AtTop)
    /\ viewSteps = 0

\* Of a streamed part the box and the scrolling see only that there is more.
ReplyParts == {p \in ViewParts(ViewTasks) :
                  p.kind \in IF following # "rows" THEN {"text"} ELSE {"text", "lookup", "status"}}

ChatViewNext ==
    \/ HistoryIsRead \/ Submit \/ AnswerStarts \/ AnswerStops \/ Regenerate \/ SwitchThread
    \/ \E d \in {"blank", "text"} : Type(d)
    \/ \E p \in ReplyParts : PartArrives(p)
    \/ \E state \in {"completed", "waiting", "failed"} : AnswerFinishes(state)
    \/ \E e \in {"auth", "quota", "generic"} : AnswerFails(e)
    \/ \E state \in {"completed", "failed", "quota"} : ReplyIsRead(state)
    \/ \E ok \in BOOLEAN : RetryTask(ok)
    \/ FrameRuns \/ HandleScroll \/ GlideEnds
    \/ \E p \in {"top", "mid", "bottom"} : ReaderScrolls(p)

ChatViewSpec == ChatViewInit /\ [][ChatViewNext]_chatViewVars

ChatViewTypeOK ==
    /\ \A i \in DOMAIN messages : messages[i].id \in Nat /\ messages[i].role \in {"user", "assistant"}
    /\ pageStatus \in {"idle", "submitted", "streaming"} /\ err \in {"none", "auth", "quota", "generic"}
    /\ {read, retryErr, locked} \subseteq BOOLEAN /\ draft \in {"", "blank", "text"}
    /\ activeTask \in ViewTasks \cup {NoTask} /\ viewSteps \in 0..MaxViewSteps
    /\ scroll \in [pos : {"top", "mid", "bottom"}, near : BOOLEAN, begun : BOOLEAN,
                   frame : {"none", "first", "later"}, digest : ViewTasks \cup {NoTask},
                   moved : BOOLEAN, glide : {"none", "on", "short"}, own : BOOLEAN]

\* A row that can be shown is not lost to one beside it that cannot: of the history read, every
\* message of the reader and every reply before one is on the page, in its order. (A reply at the
\* end may be asked for again.)
Showable(row) ==
    /\ row.id # 0 /\ row.role \in {"user", "assistant"} /\ row.list /\ row.parts # << >>
    /\ \A j \in DOMAIN row.parts : row.parts[j].kind # "untyped"
HistoryKept ==
    read => LET asked == {k \in DOMAIN stored : Showable(stored[k]) /\ stored[k].role = "user"}
                kept  == {k \in DOMAIN stored : Showable(stored[k]) /\ \E u \in asked : k <= u}
            IN  Cardinality(kept) <= Len(messages)
                /\ \A k \in kept : messages[Cardinality({j \in kept : j <= k})].id = stored[k].id

\* Of all the messages that carry the status of a task one shows its live card, and no task
\* loses its card to a reply the page does not draw, or has one on a page that shows none.
OneCardEach ==
    \A t \in ViewTasks :
        LET named  == {i \in Rendered : t \in TasksIn(messages[i])}
            newest == {i \in named : \A j \in named : j <= i}
            told   == {i \in newest : \E p \in Range(messages[i].parts) : p.task = t /\ HasStatus(p)}
        IN  {i \in DOMAIN messages : t \in LiveCards(i)} = IF artifacts THEN told ELSE {}

\* A reader who waits for the first answer sees that it is on its way or sees what there is of it.
BusyIsSeen ==
    Busy /\ artifacts /\ (\A i \in 1..(Len(messages) - 1) : messages[i].role # "assistant") =>
        Thinking \/ Len(messages) \in Drawn

\* A reader whose answer failed has one way on: the button of the notice or the retry under
\* the answer, and never a retry of what the allowance stopped.
OneWayOn ==
    /\ ~ (NoticeButton = "retry" /\ RetryAnswer)
    /\ ~ Busy /\ err = "generic" /\ ~ retryErr =>
           NoticeButton \in {"retry", "plans"} \/ RetryAnswer
    /\ ~ Busy /\ PersistedQuota =>
           Notice /\ ~ RetryAnswer /\ NoticeButton # "retry" /\ Len(messages) \notin Drawn

\* At rest, a reader at the end of the conversation sees its end, and one who has
\* not scrolled sees a digest from its beginning.
AtRest == scroll.frame = "none" /\ scroll.glide = "none" /\ ~ scroll.moved
ReaderFollows ==
    messages # << >> /\ following = "scroll" /\ AtRest =>
        IF Digest(messages, activeTask) THEN scroll.own \/ scroll.pos = "top"
        ELSE scroll.near => scroll.pos = "bottom"

\* The first question under a digest is scrolled to, and a text typed goes from
\* the box only as a message, unless the welcome box itself goes.
NothingGoesUnseen ==
    /\ scroll.digest # NoTask /\ scroll'.digest = NoTask => scroll'.frame # "none"
    /\ draft = "text" /\ draft' = "" => Len(messages') > Len(messages) /\ (read = read' => pageStatus' = "submitted")

\* A row that is not drawn again would look the same: a card that moves to a later message leaves
\* the row it was in (MessageRow.tsx:173-192).
RowsAreCurrent ==
    following = "rows" /\ messages # messages' =>
        \A i \in Rendered, j \in Rendered' :
            KeepsRow(Props(i), Props(j)') =>
                (i \in Drawn <=> j \in Drawn') /\ CardsOf(i) = CardsOf(j)'

\* What the chat page shows its reader, of useChatScroll, ChatContainer and MessageRow.
PageIsHonest ==
    /\ [](ChatViewTypeOK /\ HistoryKept /\ OneCardEach /\ BusyIsSeen /\ OneWayOn /\ ReaderFollows)
    /\ [][NothingGoesUnseen /\ RowsAreCurrent]_chatViewVars
=============================================================================
