---------------------------- MODULE ChatSession ----------------------------
(* One conversation in the browser: the streamed answer, the database's realtime channel and
   snapshots, the history handed down as props, and the cancel and retry buttons
   (ChatContainer, useChatRealtime, /api/chat and its cancel route). A reply is abstracted to
   the agentState its metadata carries; replies are numbered by turn. *)
EXTENDS Naturals, Sequences, FiniteSets

CONSTANTS
    MaxTurns,    \* bound on the messages the user sends
    MaxDrops,    \* bound on losses, failures, reloads and retries elsewhere
    MaxRetries,  \* bound on retried answers
    MaxQueue     \* bound on the change events on their way

ASSUME ChatAssumption ==
    MaxTurns \in Nat \ {0} /\ MaxDrops \in Nat /\ MaxRetries \in Nat /\ MaxQueue \in Nat \ {0}

Turns  == 1..MaxTurns
States == {"running", "waiting", "finalizing", "completed", "failed", "cancelled"}
\* What is known of each reply; "absent" is a reply that is not there.
Replies == [Turns -> States \cup {"absent"}]
Nothing == [k \in Turns |-> "absent"]

VARIABLES
    turn,      \* agent_turns.status on the server
    row,       \* the reply rows of chat_messages
    chan,      \* the channel: "off", "joined" (SUBSCRIBED) or "ready" (its listener is up)
    queue,     \* change events on their way to the browser
    snap,      \* the latest snapshot: on, what it read, the replies an event touched meanwhile
    snapLost,  \* the latest snapshot failed
    status,    \* useChat's status
    cur,       \* the turn being streamed
    result,    \* how the server ended the stream: "none", or the last state written to it
    msgs,      \* useChat's messages
    pendInit, pendDb,  \* useChatRealtime's pending buffers
    load,      \* the history request of the page: what it read
    props,     \* a new initialMessages whose effect has not run
    finished,  \* onFinish has not run yet
    action,    \* the cancel or retry in flight
    acted,     \* answerActionResult
    dirty,     \* replies that props replaced and the database has not restored
    drops, retries

vars == <<turn, row, chan, queue, snap, snapLost, status, cur, result, msgs, pendInit, pendDb, load,
          props, finished, action, acted, dirty, drops, retries>>
srvVars  == <<turn, row>>
chanVars == <<chan, queue, snap, snapLost>>
viewVars == <<msgs, pendInit, pendDb, dirty>>
propVars == <<load, props, finished>>
actVars  == <<action, acted>>

NoAction == [kind |-> "none", turn |-> 0, answer |-> "none"]
NoResult == [turn |-> 0, state |-> "none"]
NoSnap   == [on |-> FALSE, read |-> {}, touched |-> {}]

TypeOK ==
    /\ turn \in Replies /\ row \in Replies
    /\ chan \in {"off", "joined", "ready"}
    /\ queue \in Seq([turn : Turns, st : States])
    /\ snap.on \in BOOLEAN /\ snap.read \subseteq Replies /\ snap.touched \subseteq Turns
    /\ snapLost \in BOOLEAN
    /\ status \in {"ready", "submitted", "streaming", "error"} /\ cur \in 0..MaxTurns
    /\ result \in States \cup {"none", "error"}
    /\ msgs \in Replies /\ pendInit \in Replies /\ pendDb \in Replies
    /\ load \subseteq Replies /\ props \subseteq Replies /\ finished \in BOOLEAN
    /\ action \in [kind : {"none", "cancel", "retry"}, turn : 0..MaxTurns,
                   answer : {"none", "cancelled", "terminal"}]
    /\ acted \in [turn : 0..MaxTurns, state : {"none", "cancelled", "terminal", "error"}]
    /\ dirty \subseteq Turns /\ drops \in 0..MaxDrops /\ retries \in 0..MaxRetries

-----------------------------------------------------------------------------
(* mergeChatMessages, and what is derived from the messages. *)

\* Mutant: a snapshot is taken for the whole conversation.
MergeReplaces(current, incoming) == incoming

\* Incoming replies win; what they do not mention stays.
Merge(current, incoming) ==
    [k \in Turns |-> IF incoming[k] # "absent" THEN incoming[k] ELSE current[k]]

\* With preferCurrent they only fill gaps.
MergePreferCurrent(current, incoming) == Merge(incoming, current)

IsBusy == status \in {"submitted", "streaming"}

Latest == LET known == {k \in Turns : msgs[k] # "absent"}
          IN  IF known = {} THEN 0 ELSE CHOOSE k \in known : \A j \in known : j <= k

\* The states of a turn that a newer message of the thread cancels.
Open == {"running", "waiting", "finalizing", "failed"}

Pending(st) == st \in {"waiting", "finalizing"}

\* Mutant: an acknowledgement is shown whatever turn it is about.
MatchingAnyTurn == IF acted.turn # 0 THEN acted.state ELSE "none"

\* matchingActionResult: an acknowledgement counts for the turn it was asked for only.
MatchingActionResult == IF acted.turn = Latest /\ Latest # 0 THEN acted.state ELSE "none"

\* continuationState, the line and buttons under the last answer.
ContinuationState ==
    IF Latest = 0 THEN "none"
    ELSE LET st == msgs[Latest]
         IN  CASE Pending(st) /\ MatchingActionResult = "cancelled" -> "cancelled"
               [] Pending(st) /\ MatchingActionResult = "terminal" -> "none"
               [] st \in {"running", "completed"} -> "none"
               [] OTHER -> st

\* answerActionsDisabled and answerActionInFlight, for a signed-in user with nothing locked.
ActionsEnabled == ~IsBusy /\ action.kind = "none" /\ load = {} /\ Latest # 0

-----------------------------------------------------------------------------
(* The server: a reply row follows its turn's state, and every write is an event. *)

\* A row write reaches the browser only through a listener that is up.
Write(k, st) ==
    /\ row' = [row EXCEPT ![k] = st]
    /\ IF chan = "ready"
       THEN Len(queue) < MaxQueue /\ queue' = Append(queue, [turn |-> k, st |-> st])
       ELSE UNCHANGED queue

\* project_agent_turn_state: an update of the turn updates the reply row if there is one.
Project(k, st) == IF row[k] = "absent" THEN UNCHANGED <<row, queue>> ELSE Write(k, st)

\* POST /api/chat, accept_agent_turn: a new message cancels the thread's open turn and starts its
\* own, or is refused while that turn still holds its lease; a failed turn runs again, or waits
\* for its task again and replays its reply.
AcceptTurn ==
    /\ status = "submitted" /\ result = "none" /\ turn[cur] = "absent"
    /\ turn' = [k \in Turns |-> CASE k = cur -> "running"
                                [] turn[k] \in Open -> "cancelled"
                                [] OTHER -> turn[k]]
    /\ IF \E k \in Turns : turn[k] \in Open
       THEN \E k \in Turns : turn[k] \in Open /\ Project(k, "cancelled")
       ELSE UNCHANGED <<row, queue>>
    /\ result' = "running"
    /\ UNCHANGED <<chan, snap, snapLost, status, cur, viewVars, propVars, actVars, drops, retries>>

RefuseTurn ==
    /\ status = "submitted" /\ result = "none" /\ turn[cur] \in {"absent", "running"}
    /\ \E k \in Turns : turn[k] = "running"
    /\ result' = "error"
    /\ UNCHANGED <<srvVars, chanVars, status, cur, viewVars, propVars, actVars, drops, retries>>

RerunTurn ==
    /\ status = "submitted" /\ result = "none" /\ turn[cur] \in {"failed", "running"}
    /\ \E st \in IF turn[cur] = "failed" THEN {"running", "waiting"} ELSE {"running"} :
        /\ turn' = [turn EXCEPT ![cur] = st]
        /\ Project(cur, st)
        /\ result' = st
    /\ UNCHANGED <<chan, snap, snapLost, status, cur, viewVars, propVars, actVars, drops, retries>>

ReplayTurn ==
    /\ status = "submitted" /\ result = "none" /\ turn[cur] \notin {"absent", "failed", "running"}
    /\ result' = IF row[cur] = "absent" THEN "error" ELSE row[cur]
    /\ UNCHANGED <<srvVars, chanVars, status, cur, viewVars, propVars, actVars, drops, retries>>

\* The failed continuation is retried from another tab, which this one learns of later.
OtherTabRetries(k) ==
    /\ turn[k] = "failed" /\ drops < MaxDrops /\ drops' = drops + 1
    /\ turn' = [turn EXCEPT ![k] = "waiting"]
    /\ Project(k, "waiting")
    /\ UNCHANGED <<chan, snap, snapLost, status, cur, result, viewVars, propVars, actVars, retries>>

\* The agent hands the turn over to a video task in the middle of its stream.
HandOff(k) ==
    /\ turn[k] = "running"
    /\ turn' = [turn EXCEPT ![k] = "waiting"]
    /\ Write(k, "waiting")
    /\ UNCHANGED <<chan, snap, snapLost, status, cur, result, viewVars, propVars, actVars, drops, retries>>

\* The run of turn k ends: its reply is stored and the finish part written, or it fails; a turn
\* that has moved on meanwhile refuses the write.
RunEnds(k) ==
    /\ result = "running" /\ k = cur
    /\ \/ /\ turn[k] = "running"
          /\ \E st \in {"completed", "failed"} :
                /\ turn' = [turn EXCEPT ![k] = st]
                /\ Write(k, st)
                /\ result' = IF st = "completed" THEN st ELSE "error"
       \/ /\ turn[k] = "waiting"
          /\ Write(k, "waiting")
          /\ result' = "waiting"
          /\ UNCHANGED turn
       \/ /\ turn[k] \notin {"running", "waiting"}
          /\ result' \in {"waiting", "error"}
          /\ UNCHANGED <<turn, row, queue>>
    /\ UNCHANGED <<chan, snap, snapLost, status, cur, viewVars, propVars, actVars, drops, retries>>

\* The continuation worker takes the turn up and delivers or fails it.
Continue(k) ==
    /\ \/ turn[k] = "waiting" /\ turn' = [turn EXCEPT ![k] = "finalizing"]
       \/ turn[k] = "finalizing" /\ \E st \in {"completed", "failed"} : turn' = [turn EXCEPT ![k] = st]
    /\ Project(k, turn'[k])
    /\ UNCHANGED <<chan, snap, snapLost, status, cur, result, viewVars, propVars, actVars, drops, retries>>

\* Mutant: the route answers with the state of the turn it could not cancel.
CancelAnswerAsState(k) == IF Pending(turn[k]) THEN "cancelled" ELSE turn[k]

\* POST /api/chat/turns/[turnId]/cancel: what it answers, and what it does.
CancelAnswer(k) == IF Pending(turn[k]) THEN "cancelled" ELSE "terminal"

CancelTurn ==
    /\ action.kind = "cancel" /\ action.answer = "none"
    /\ LET k == action.turn
       IN  /\ action' = [action EXCEPT !.answer = CancelAnswer(k)]
           /\ IF Pending(turn[k])
              THEN turn' = [turn EXCEPT ![k] = "cancelled"] /\ Project(k, "cancelled")
              ELSE UNCHANGED <<turn, row, queue>>
    /\ UNCHANGED <<chan, snap, snapLost, status, cur, result, viewVars, propVars, acted, drops, retries>>

-----------------------------------------------------------------------------
(* useChat: sending, streaming, finishing. *)

\* handleSendMessage
Send ==
    /\ ~IsBusy /\ load = {} /\ ~finished /\ cur < MaxTurns
    /\ cur' = cur + 1 /\ status' = "submitted" /\ result' = "none"
    /\ UNCHANGED <<srvVars, chanVars, viewVars, propVars, actVars, drops, retries>>

\* The first chunk: the reply appears.
StreamStarts ==
    /\ status = "submitted" /\ result \notin {"none", "error"}
    /\ status' = "streaming"
    /\ msgs' = [msgs EXCEPT ![cur] = "running"]
    /\ UNCHANGED <<srvVars, chanVars, cur, result, pendInit, pendDb, dirty, propVars, actVars, drops, retries>>

\* The effect of useChatRealtime once the chat is idle: buffered props fill gaps, buffered rows win.
Flush(m) == Merge(MergePreferCurrent(m, pendInit), pendDb)

Idle(m, st) ==
    /\ status' = st
    /\ msgs' = Flush(m)
    /\ pendInit' = Nothing /\ pendDb' = Nothing
    /\ dirty' = {k \in dirty : pendDb[k] = "absent"}

\* The finish part: the chat is idle first, then onFinish runs.
StreamFinishes ==
    /\ status = "streaming" /\ result \notin {"running", "error"}
    /\ Idle([msgs EXCEPT ![cur] = result], "ready")
    /\ finished' = TRUE
    /\ action' = IF action.kind = "retry" THEN NoAction ELSE action
    /\ UNCHANGED <<srvVars, chanVars, cur, result, load, props, acted, drops, retries>>

\* An error part or response; a retry reports it.
StreamFails ==
    /\ IsBusy /\ result = "error"
    /\ Idle(msgs, "error")
    /\ IF action.kind = "retry"
       THEN action' = NoAction /\ acted' = [turn |-> action.turn, state |-> "error"]
       ELSE UNCHANGED actVars
    /\ UNCHANGED <<srvVars, chanVars, cur, result, propVars, drops, retries>>

\* The Stop button: the answer so far stays, onFinish is told of an abort and does nothing.
Stop ==
    /\ status = "streaming" /\ result = "running" /\ drops < MaxDrops
    /\ Idle(msgs, "ready")
    /\ drops' = drops + 1
    /\ action' = IF action.kind = "retry" THEN NoAction ELSE action
    /\ UNCHANGED <<srvVars, chanVars, cur, result, propVars, acted, retries>>

\* onFinish: onChatStarted makes the finished conversation the page's initialMessages.
OnFinish ==
    /\ finished /\ finished' = FALSE
    /\ props' = {[k \in Turns |-> IF k = cur THEN result ELSE msgs[k]]}
    /\ UNCHANGED <<srvVars, chanVars, status, cur, result, viewVars, load, actVars, drops, retries>>

\* The history request of a reload answers with what it read: new initialMessages.
HistoryArrives ==
    /\ load # {} /\ load' = {} /\ props' = load
    /\ UNCHANGED <<srvVars, chanVars, status, cur, result, viewVars, finished, actVars, drops, retries>>

\* The effect on initialMessages.
PropsEffect ==
    /\ props # {} /\ props' = {}
    /\ \E p \in props :
        IF IsBusy
        THEN /\ pendInit' = Merge(pendInit, p)
             /\ UNCHANGED <<msgs, pendDb, dirty>>
        ELSE /\ msgs' = Merge(msgs, p)
             /\ dirty' = dirty \cup {k \in Turns : msgs[k] # "absent" /\ msgs'[k] # msgs[k]}
             /\ UNCHANGED <<pendInit, pendDb>>
    /\ UNCHANGED <<srvVars, chanVars, status, cur, result, load, finished, actVars, drops, retries>>

\* handleCancelAnswer up to its await, and its answer or failure.
HandleCancelAnswer ==
    /\ ActionsEnabled /\ Pending(msgs[Latest])
    /\ ContinuationState \in {"waiting", "finalizing"}
    /\ action' = [kind |-> "cancel", turn |-> Latest, answer |-> "none"]
    /\ acted' = NoResult
    /\ UNCHANGED <<srvVars, chanVars, status, cur, result, viewVars, propVars, drops, retries>>

CancelAnswered ==
    /\ action.kind = "cancel" /\ action.answer # "none"
    /\ acted' = [turn |-> action.turn, state |-> action.answer]
    /\ action' = NoAction
    /\ UNCHANGED <<srvVars, chanVars, status, cur, result, viewVars, propVars, drops, retries>>

CancelFails ==
    /\ action.kind = "cancel" /\ drops < MaxDrops /\ drops' = drops + 1
    /\ acted' = [turn |-> action.turn, state |-> "error"]
    /\ action' = NoAction
    /\ UNCHANGED <<srvVars, chanVars, status, cur, result, viewVars, propVars, retries>>

\* handleRetryAnswer: the last reply is taken back and its message sent again.
HandleRetryAnswer ==
    /\ ActionsEnabled /\ Latest = cur /\ msgs[cur] = "failed" /\ ~finished /\ retries < MaxRetries
    /\ retries' = retries + 1
    /\ action' = [kind |-> "retry", turn |-> cur, answer |-> "none"]
    /\ acted' = NoResult
    /\ msgs' = [msgs EXCEPT ![cur] = "absent"]
    /\ status' = "submitted" /\ result' = "none"
    /\ UNCHANGED <<srvVars, chanVars, cur, pendInit, pendDb, dirty, propVars, drops>>

-----------------------------------------------------------------------------
(* useChatRealtime's channel. *)

\* receive
Receive(incoming) ==
    /\ IF IsBusy
       THEN pendDb' = Merge(pendDb, incoming) /\ UNCHANGED msgs
       ELSE msgs' = Merge(msgs, incoming) /\ UNCHANGED pendDb
    /\ dirty' = IF IsBusy THEN dirty ELSE {k \in dirty : incoming[k] = "absent"}
    /\ UNCHANGED pendInit

ReadSnapshot == snap' = [on |-> TRUE, read |-> {}, touched |-> {}] /\ snapLost' = FALSE

\* SUBSCRIBED: the first one of a connection reads a snapshot.
Subscribed ==
    /\ chan = "off" /\ chan' = "joined"
    /\ ReadSnapshot
    /\ UNCHANGED <<srvVars, queue, status, cur, result, viewVars, propVars, actVars, drops, retries>>

\* The system event: the database listener is up, and the gap before it is read again.
ListenerReady ==
    /\ chan = "joined" /\ chan' = "ready"
    /\ ReadSnapshot
    /\ UNCHANGED <<srvVars, queue, status, cur, result, viewVars, propVars, actVars, drops, retries>>

\* The connection is lost, with the events on their way.
ChannelDrops ==
    /\ chan # "off" /\ drops < MaxDrops /\ drops' = drops + 1
    /\ chan' = "off" /\ queue' = <<>>
    /\ UNCHANGED <<srvVars, snap, snapLost, status, cur, result, viewVars, propVars, actVars, retries>>

\* onChange
OnChange ==
    /\ queue # <<>> /\ queue' = Tail(queue)
    /\ LET e == Head(queue)
       IN  /\ Receive([Nothing EXCEPT ![e.turn] = e.st])
           /\ snap' = IF snap.on THEN [snap EXCEPT !.touched = @ \cup {e.turn}] ELSE snap
    /\ UNCHANGED <<srvVars, chan, snapLost, status, cur, result, propVars, actVars, drops, retries>>

\* The snapshot's query runs.
SnapshotRead ==
    /\ snap.on /\ snap.read = {}
    /\ snap' = [snap EXCEPT !.read = {row}]
    /\ UNCHANGED <<srvVars, chan, queue, snapLost, status, cur, result, viewVars, propVars, actVars, drops, retries>>

\* Mutant: the snapshot is applied whatever events came meanwhile.
UntouchedAll(read) == read

\* Rows that an event touched while the snapshot was in flight are left out.
Untouched(read) == [k \in Turns |-> IF k \in snap.touched THEN "absent" ELSE read[k]]

SnapshotArrives ==
    /\ snap.on /\ \E r \in snap.read : Receive(Untouched(r))
    /\ snap' = NoSnap
    /\ UNCHANGED <<srvVars, chan, queue, snapLost, status, cur, result, propVars, actVars, drops, retries>>

SnapshotFails ==
    /\ snap.on /\ drops < MaxDrops /\ drops' = drops + 1
    /\ snap' = NoSnap /\ snapLost' = TRUE
    /\ UNCHANGED <<srvVars, chan, queue, status, cur, result, viewVars, propVars, actVars, retries>>

-----------------------------------------------------------------------------
\* The container is mounted while its history is loading, or without one.
Init ==
    /\ turn = Nothing /\ row = Nothing
    /\ chan = "off" /\ queue = <<>> /\ snap = NoSnap /\ snapLost = FALSE
    /\ status = "ready" /\ cur = 0 /\ result = "none"
    /\ msgs = Nothing /\ pendInit = Nothing /\ pendDb = Nothing
    /\ load = {} /\ props = {} /\ finished = FALSE
    /\ action = NoAction /\ acted = NoResult
    /\ dirty = {} /\ drops = 0 /\ retries = 0

\* The page is loaded again: the browser's state is lost, the server's is not.
Reload ==
    /\ drops < MaxDrops /\ drops' = drops + 1
    /\ ~IsBusy /\ action.kind = "none"
    /\ chan' = "off" /\ queue' = <<>> /\ snap' = NoSnap /\ snapLost' = FALSE
    /\ status' = "ready" /\ result' = "none"
    /\ msgs' = Nothing /\ pendInit' = Nothing /\ pendDb' = Nothing
    /\ load' = {row} /\ props' = {} /\ finished' = FALSE
    /\ action' = NoAction /\ acted' = NoResult /\ dirty' = {}
    /\ UNCHANGED <<srvVars, cur, retries>>

Next ==
    \/ AcceptTurn \/ RefuseTurn \/ RerunTurn \/ ReplayTurn \/ CancelTurn
    \/ \E k \in Turns : HandOff(k) \/ RunEnds(k) \/ Continue(k) \/ OtherTabRetries(k)
    \/ Send \/ StreamStarts \/ StreamFinishes \/ StreamFails \/ Stop \/ OnFinish
    \/ HistoryArrives \/ PropsEffect
    \/ HandleCancelAnswer \/ CancelAnswered \/ CancelFails \/ HandleRetryAnswer
    \/ Subscribed \/ ListenerReady \/ ChannelDrops \/ OnChange
    \/ SnapshotRead \/ SnapshotArrives \/ SnapshotFails \/ Reload

Spec == Init /\ [][Next]_vars

-----------------------------------------------------------------------------
(* Properties. *)

\* Nothing is on its way to the browser.
Quiet ==
    /\ chan = "ready" /\ queue = <<>> /\ ~snap.on /\ ~snapLost
    /\ ~IsBusy /\ load = {} /\ props = {} /\ ~finished

\* When nothing is on its way every stored reply is shown in its stored state, through listener
\* gaps, reconnects and buffering (useChatRealtime), unless props replaced it since.
Converges == Quiet => \A k \in Turns \ dirty : row[k] # "absent" => msgs[k] = row[k]

\* "Cancelled" is shown only for an answer the server has cancelled (a late acknowledgement,
\* a newer turn or a retry does not borrow it).
CancelShownIsReal == ContinuationState = "cancelled" => turn[Latest] = "cancelled"

\* No snapshot, event or history takes a reply off the screen; only a retry or a reload does.
RepliesKept ==
    [][\A k \in Turns : msgs[k] # "absent" /\ msgs'[k] = "absent" => retries' # retries \/ drops' # drops]_vars

\* The page's state is one the hook can be in, it shows what is stored once nothing is on its
\* way, and "cancelled" for no other answer than the one cancelled (useChatRealtime.ts,
\* ChatContainer.tsx).
ShowsWhatIsStored == TypeOK /\ Converges /\ CancelShownIsReal
=============================================================================
