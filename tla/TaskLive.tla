------------------------------ MODULE TaskLive ------------------------------
(* A video task as the browser follows it: the shared subscription of lib/task-live.ts with the
   cards that listen to it, the card's own summary reads (TaskDataGroup), the retry button, and
   the task page that asks the server to render again (TaskDetailRefresh). A committed row is its
   version and its status; a summary is its version. The version stands for updated_at, which is
   the start of the writing transaction (db_client.py:252, 319): two writes that commit in the other
   order than they began are not followed. *)
EXTENDS Naturals, Sequences, FiniteSets

CONSTANTS
    Cards,       \* the cards in the conversation that show the task
    MaxVer,      \* bound on the commits of the task row
    MaxOut,      \* bound on the commits of its summary
    MaxFaults,   \* bound on lost channels, failed reads and lost answers
    MaxRetries,  \* bound on retry clicks
    MaxMoves     \* bound on cards becoming live or not

ASSUME TaskLiveAssumption ==
    /\ MaxVer \in Nat \ {0} /\ MaxOut \in Nat /\ MaxFaults \in Nat
    /\ MaxRetries \in Nat /\ MaxMoves \in Nat

Channels == {"task", "outputs", "page"}
Statuses == {"pending", "processing", "completed", "failed", "captions"}
Rows     == [ver : 0..MaxVer, st : Statuses]
\* A read on its way: what it has read, and whether the listener was up by then.
NoRead   == [on |-> FALSE, read |-> {}, up |-> FALSE]
NoTry    == [id |-> 0, ver |-> 0]

VARIABLES
    watching,        \* the consumer followed: they share only what the database commits
    row, out,        \* the committed task row and summary
    chan,            \* per channel: "off", "joined" (SUBSCRIBED) or "ready" (listener up)
    events,          \* rows on their way to the shared subscription
    ticks,           \* change events on their way to the summary reader and to the page
    seed,            \* the status the message carried, without updated_at
    mounted,         \* the cards subscribed to the shared entry
    snap,            \* entry.snapshot, as a set of at most one row
    prime,           \* entry.primePromise
    live,            \* per card: its liveSnapshot, as a set of at most one row
    asked, got,      \* summary reads not yet run, and answers on their way
    summary,         \* the summary the card shows
    timer, fetch,    \* TaskDetailRefresh's pending timer; the server render on its way
    page,            \* what the page was rendered from
    attempt,         \* per card: retryAttempt
    posts,           \* retry requests on their way
    closed,          \* channels whose consumer has read since its listener came up
    faults, retries, moves

vars == <<watching, row, out, chan, events, ticks, seed, mounted, snap, prime, live, asked, got, summary, timer,
          fetch, page, attempt, posts, closed, faults, retries, moves>>
entryVars == <<mounted, snap, prime, live>>
outVars   == <<asked, got, summary>>
pageVars  == <<timer, fetch, page>>
retryVars == <<attempt, posts>>
bounds    == <<faults, retries, moves>>

TypeOK ==
    /\ watching \in Channels
    /\ row \in Rows /\ out \in 0..MaxOut
    /\ chan \in [Channels -> {"off", "joined", "ready"}]
    /\ events \in Seq(Rows) /\ ticks \in [{"outputs", "page"} -> Nat]
    /\ seed \in Rows /\ mounted \subseteq Cards
    /\ snap \subseteq Rows /\ Cardinality(snap) <= 1
    /\ prime.on \in BOOLEAN /\ prime.read \subseteq Rows /\ prime.up \in BOOLEAN
    /\ live \in [Cards -> SUBSET Rows] /\ \A c \in Cards : Cardinality(live[c]) <= 1
    /\ asked \in Nat /\ got \subseteq 0..MaxOut /\ summary \in 0..MaxOut
    /\ timer \in BOOLEAN /\ fetch.on \in BOOLEAN /\ fetch.up \in BOOLEAN
    /\ attempt \in [Cards -> [id : 0..MaxRetries, ver : 0..MaxVer]]
    /\ \A p \in posts : p.card \in Cards /\ p.id \in 1..MaxRetries /\ p.ver \in 0..MaxVer
                        /\ p.answer \in {"none", "ok", "rejected"}
    /\ closed \subseteq Channels
    /\ faults \in 0..MaxFaults /\ retries \in 0..MaxRetries /\ moves \in 0..MaxMoves

-----------------------------------------------------------------------------
(* The database. *)

\* A commit is an event for the channels whose listener is up.
Tick(x) == IF chan[x] = "ready" THEN ticks[x] + 1 ELSE ticks[x]

Commit(st) ==
    /\ row.ver < MaxVer
    /\ row' = [ver |-> row.ver + 1, st |-> st]
    /\ events' = IF chan["task"] = "ready" THEN Append(events, row') ELSE events
    /\ ticks' = [ticks EXCEPT !["page"] = Tick("page")]

\* The worker takes the task up, and ends it.
WorkerStep ==
    /\ \/ row.st = "pending" /\ Commit("processing")
       \/ row.st = "processing" /\ \E st \in {"completed", "failed", "captions"} : Commit(st)
    /\ UNCHANGED <<watching, out, chan, seed, entryVars, outVars, pageVars, retryVars, closed, bounds>>

\* A summary is stored or generated again.
SaveSummary ==
    /\ row.st \in {"processing", "completed"} /\ out < MaxOut
    /\ out' = out + 1
    /\ ticks' = [x \in DOMAIN ticks |-> Tick(x)]
    /\ UNCHANGED <<watching, row, chan, events, seed, entryVars, outVars, pageVars, retryVars, closed, bounds>>

-----------------------------------------------------------------------------
(* TaskDataGroup: what a card shows, and its retry button. *)

\* resolveTaskSnapshot: the live row over the seed.
View(c, l) == IF l[c] = {} THEN seed ELSE CHOOSE r \in l[c] : TRUE

\* A newer failed row than the one retried proves a new attempt; a seed has no updated_at.
HasNewFailure(a, v) == v.st = "failed" /\ a.ver # 0 /\ v.ver > a.ver

\* Mutant: only a row that is not failed any more ends an attempt.
SettledByStatus(a, v) == IF a.id # 0 /\ v.st # "failed" THEN NoTry ELSE a

\* retryAttempt once the card has rendered v.
Settled(a, v) == IF a.id # 0 /\ (v.st # "failed" \/ HasNewFailure(a, v)) THEN NoTry ELSE a

Render(l) == attempt' = [c \in Cards |-> Settled(attempt[c], View(c, l))]

\* handleRetry up to its await: canRetry excludes failures of the source.
HandleRetry(c) ==
    /\ watching = "task" /\ View(c, live).st = "failed" /\ attempt[c].id = 0 /\ retries < MaxRetries
    /\ retries' = retries + 1
    /\ attempt' = [attempt EXCEPT ![c] = [id |-> retries', ver |-> View(c, live).ver]]
    /\ posts' = posts \cup {[card |-> c, id |-> retries', ver |-> View(c, live).ver, answer |-> "none"]}
    /\ UNCHANGED <<watching, row, out, chan, events, ticks, seed, entryVars, outVars, pageVars, closed, faults, moves>>

Answer(p, a) == posts' = (posts \ {p}) \cup {[p EXCEPT !.answer = a]}

\* /api/chat/retry-task and the backend behind it: a failed task is queued again.
RetryTaskRoute(p) ==
    /\ p.answer = "none"
    /\ \/ row.st = "failed" /\ Commit("pending") /\ Answer(p, "ok")
       \/ row.st # "failed" /\ Answer(p, "rejected") /\ UNCHANGED <<watching, row, events, ticks>>
    /\ UNCHANGED <<watching, out, chan, seed, entryVars, outVars, pageVars, attempt, closed, bounds>>

\* The answer is lost: handleTaskRetry returns false.
AnswerLost(p) ==
    /\ p.answer # "rejected" /\ faults < MaxFaults /\ faults' = faults + 1
    /\ Answer(p, "rejected")
    /\ UNCHANGED <<watching, row, out, chan, events, ticks, seed, entryVars, outVars, pageVars, attempt, closed,
                   retries, moves>>

\* Mutant: a rejection clears whatever attempt the card is at.
ClearedAny(c, p) == NoTry

\* current === attempt
Cleared(c, p) == IF attempt[c].id = p.id THEN NoTry ELSE attempt[c]

RetryAnswered(p) ==
    /\ p.answer # "none" /\ posts' = posts \ {p}
    /\ attempt' = IF p.answer = "ok" THEN attempt ELSE [attempt EXCEPT ![p.card] = Cleared(p.card, p)]
    /\ UNCHANGED <<watching, row, out, chan, events, ticks, seed, entryVars, outVars, pageVars, closed, bounds>>

-----------------------------------------------------------------------------
(* lib/task-live.ts: one channel and one snapshot for all cards of the task. *)

\* Mutant: the last row to arrive wins.
StaleNever(r) == FALSE

\* A row older than the snapshot is dropped.
Stale(r) == \E s \in snap : r.ver < s.ver

\* Mutant: earlier rows are kept beside the new one.
SnapshotsPile(r) == snap \cup {r}

Snapshot(r) == {r}

\* publishTask
PublishTask(r) ==
    IF Stale(r) THEN UNCHANGED <<snap, live, attempt>>
    ELSE /\ snap' = Snapshot(r)
         /\ live' = [c \in Cards |-> IF c \in mounted THEN {r} ELSE live[c]]
         /\ Render(live')

\* primeTask: not while a read is on its way, even when forced.
PrimeTask(force) ==
    prime' = IF (~force /\ snap # {}) \/ prime.on THEN prime ELSE [NoRead EXCEPT !.on = TRUE]

\* Mutant: a card that joins waits for the next row.
JoiningLater(c) == live

\* A card that joins is handed the snapshot at once.
Joining(c) == IF snap = {} THEN live ELSE [live EXCEPT ![c] = snap]

\* subscribeToTask: a card becomes live; the first one opens the channel.
SubscribeToTask(c) ==
    /\ watching = "task" /\ c \notin mounted /\ moves < MaxMoves /\ moves' = moves + 1
    /\ mounted' = mounted \cup {c}
    /\ live' = Joining(c)
    /\ Render(live')
    /\ PrimeTask(FALSE)
    /\ UNCHANGED <<watching, row, out, chan, events, ticks, seed, snap, outVars, pageVars, posts, closed, faults, retries>>

\* The cleanup it returns: the last card to leave removes the channel and the entry.
Unsubscribe(c) ==
    /\ c \in mounted /\ moves < MaxMoves /\ moves' = moves + 1
    /\ mounted' = mounted \ {c}
    /\ IF mounted' # {} THEN UNCHANGED <<chan, events, snap, prime, closed>>
       ELSE /\ chan' = [chan EXCEPT !["task"] = "off"]
            /\ events' = <<>> /\ snap' = {} /\ prime' = NoRead
            /\ closed' = closed \ {"task"}
    /\ UNCHANGED <<watching, row, out, ticks, seed, live, outVars, pageVars, retryVars, faults, retries>>

\* The read of the row runs, answers, or fails.
PrimeReads ==
    /\ prime.on /\ prime.read = {}
    /\ prime' = [prime EXCEPT !.read = {row}, !.up = chan["task"] = "ready"]
    /\ UNCHANGED <<watching, row, out, chan, events, ticks, seed, mounted, snap, live, outVars, pageVars, retryVars,
                   closed, bounds>>

PrimeArrives ==
    /\ prime.on /\ \E r \in prime.read : PublishTask(r)
    /\ prime' = NoRead
    /\ closed' = IF prime.up THEN closed \cup {"task"} ELSE closed
    /\ UNCHANGED <<watching, row, out, chan, events, ticks, seed, mounted, outVars, pageVars, posts, bounds>>

PrimeFails ==
    /\ prime.on /\ faults < MaxFaults /\ faults' = faults + 1
    /\ prime' = NoRead
    /\ UNCHANGED <<watching, row, out, chan, events, ticks, seed, mounted, snap, live, outVars, pageVars, retryVars,
                   closed, retries, moves>>

TaskEvent ==
    /\ events # <<>> /\ events' = Tail(events)
    /\ PublishTask(Head(events))
    /\ UNCHANGED <<watching, row, out, chan, ticks, seed, mounted, prime, outVars, pageVars, posts, closed, bounds>>

-----------------------------------------------------------------------------
(* useTaskOutputs: every change event reads the summary again; answers are taken as they come. *)

OutputsRead ==
    /\ asked > 0 /\ asked' = asked - 1 /\ got' = got \cup {out}
    /\ UNCHANGED <<watching, row, out, chan, events, ticks, seed, entryVars, summary, pageVars, retryVars, closed, bounds>>

OutputsArrive ==
    /\ \E v \in got : got' = got \ {v} /\ summary' = v
    /\ UNCHANGED <<watching, row, out, chan, events, ticks, seed, entryVars, asked, pageVars, retryVars, closed, bounds>>

OutputsEvent ==
    /\ ticks["outputs"] > 0
    /\ ticks' = [ticks EXCEPT !["outputs"] = @ - 1]
    /\ asked' = asked + 1
    /\ UNCHANGED <<watching, row, out, chan, events, seed, entryVars, got, summary, pageVars, retryVars, closed, bounds>>

-----------------------------------------------------------------------------
(* TaskDetailRefresh: changes restart a timer, the timer asks for a new server render. *)

\* Mutant: a change is not followed up while a render is on its way.
RefreshUnlessBusy == timer \/ ~fetch.on

Refresh == TRUE

PageEvent ==
    /\ ticks["page"] > 0
    /\ ticks' = [ticks EXCEPT !["page"] = @ - 1]
    /\ timer' = Refresh
    /\ UNCHANGED <<watching, row, out, chan, events, seed, entryVars, outVars, fetch, page, retryVars, closed, bounds>>

\* router.refresh: a newer one takes the place of the one on its way.
TimerFires ==
    /\ timer /\ timer' = FALSE
    /\ fetch' = [NoRead EXCEPT !.on = TRUE]
    /\ UNCHANGED <<watching, row, out, chan, events, ticks, seed, entryVars, outVars, page, retryVars, closed, bounds>>

\* getTaskAndOutputs: the task and its summaries.
PageReads ==
    /\ fetch.on /\ fetch.read = {}
    /\ fetch' = [fetch EXCEPT !.read = {<<row, out>>}, !.up = chan["page"] = "ready"]
    /\ UNCHANGED <<watching, row, out, chan, events, ticks, seed, entryVars, outVars, timer, page, retryVars, closed, bounds>>

PageArrives ==
    /\ fetch.on /\ \E p \in fetch.read : page' = p
    /\ fetch' = NoRead
    /\ closed' = IF fetch.up THEN closed \cup {"page"} ELSE closed
    /\ UNCHANGED <<watching, row, out, chan, events, ticks, seed, entryVars, outVars, timer, retryVars, bounds>>

-----------------------------------------------------------------------------
(* The channels. *)

\* SUBSCRIBED makes its consumer read again: not the summary reader, which subscribes without a callback.
ReadsWhenJoined(x) == x # "outputs"

Subscribed(x) ==
    /\ x = watching /\ chan[x] = "off" /\ (x = "task" => mounted # {})
    /\ chan' = [chan EXCEPT ![x] = "joined"]
    /\ IF x = "task" /\ ReadsWhenJoined(x) THEN PrimeTask(TRUE) ELSE UNCHANGED prime
    /\ timer' = IF x = "page" /\ ReadsWhenJoined(x) THEN Refresh ELSE timer
    /\ UNCHANGED <<watching, row, out, events, ticks, seed, mounted, snap, live, outVars, fetch, page, retryVars,
                   closed, bounds>>

ListenerUp(x) ==
    /\ chan[x] = "joined"
    /\ chan' = [chan EXCEPT ![x] = "ready"]
    /\ UNCHANGED <<watching, row, out, events, ticks, seed, entryVars, outVars, pageVars, retryVars, closed, bounds>>

ChannelDrops(x) ==
    /\ chan[x] # "off" /\ faults < MaxFaults /\ faults' = faults + 1
    /\ chan' = [chan EXCEPT ![x] = "off"]
    /\ events' = IF x = "task" THEN <<>> ELSE events
    /\ ticks' = [y \in DOMAIN ticks |-> IF x = y THEN 0 ELSE ticks[y]]
    /\ prime' = IF x = "task" THEN [prime EXCEPT !.up = FALSE] ELSE prime
    /\ fetch' = IF x = "page" THEN [fetch EXCEPT !.up = FALSE] ELSE fetch
    /\ closed' = closed \ {x}
    /\ UNCHANGED <<watching, row, out, seed, mounted, snap, live, outVars, timer, page, retryVars, retries, moves>>

-----------------------------------------------------------------------------
\* The page is rendered and its card mounted, for a task that is queued or has failed.
Init ==
    /\ watching \in Channels
    /\ row \in {[ver |-> 1, st |-> st] : st \in {"pending", "failed"}} /\ out = 0
    /\ seed = [row EXCEPT !.ver = 0]
    /\ chan = [x \in Channels |-> "off"] /\ events = <<>> /\ ticks = [x \in {"outputs", "page"} |-> 0]
    /\ mounted = {} /\ snap = {} /\ prime = NoRead /\ live = [c \in Cards |-> {}]
    /\ asked = (IF watching = "outputs" THEN 1 ELSE 0) /\ got = {} /\ summary = 0
    /\ timer = FALSE /\ fetch = NoRead /\ page = <<row, out>>
    /\ attempt = [c \in Cards |-> NoTry] /\ posts = {} /\ closed = {}
    /\ faults = 0 /\ retries = 0 /\ moves = 0

Next ==
    \/ WorkerStep \/ SaveSummary
    \/ \E c \in Cards : HandleRetry(c) \/ SubscribeToTask(c) \/ Unsubscribe(c)
    \/ \E p \in posts : RetryTaskRoute(p) \/ AnswerLost(p) \/ RetryAnswered(p)
    \/ PrimeReads \/ PrimeArrives \/ PrimeFails \/ TaskEvent
    \/ OutputsRead \/ OutputsArrive \/ OutputsEvent
    \/ PageEvent \/ TimerFires \/ PageReads \/ PageArrives
    \/ \E x \in Channels : Subscribed(x) \/ ListenerUp(x) \/ ChannelDrops(x)

Spec == Init /\ [][Next]_vars

-----------------------------------------------------------------------------
(* Properties. *)

\* A card never goes back to an older row, whatever order reads and events arrive in and however
\* often its subscription is shared, dropped and taken up again (publishTask).
CardsNeverGoBack ==
    [][\A c \in Cards : \A r \in live[c] : \A s \in live'[c] : s.ver >= r.ver]_live

TaskQuiet == chan["task"] = "ready" /\ events = <<>> /\ ~prime.on

\* With the listener up, one read since, and nothing on its way, every live card shows the
\* committed row (primeTask and publishTask racing commits, reconnects and other cards).
CardsConverge ==
    TaskQuiet /\ "task" \in closed => \A c \in mounted : live[c] = {row}

\* With nothing on its way a card does not say "retry queued" of a failure the task has moved
\* past, even when the events between two failures were missed (hasNewFailure).
RetryEnds ==
    TaskQuiet /\ "task" \in closed =>
        \A c \in mounted : attempt[c].ver # 0 => row.st = "failed" /\ row.ver = attempt[c].ver

\* The late answer of an earlier attempt does not free the button of the one on its way: one
\* failure is not retried twice at once (handleRetry).
InFlightIsShown ==
    \A p \in posts : LET v == View(p.card, live)
                     IN  v.st = "failed" /\ v.ver = p.ver => attempt[p.card].id = p.id \/ p.answer # "none"

\* The page is rendered from the committed state once its listener is up, one render was read
\* since and nothing is on its way, so coalescing never loses the last change (TaskDetailRefresh).
PageConverges ==
    chan["page"] = "ready" /\ "page" \in closed /\ ticks["page"] = 0 /\ ~timer /\ ~fetch.on
        => page = <<row, out>>

\* The cards of a task and the task's page come to show what is stored, and a retry is shown while
\* it lasts, and no longer (task-live.ts, TaskDataGroup.tsx:478-542, TaskDetailRefresh.tsx).
ViewsConverge ==
    TypeOK /\ CardsConverge /\ PageConverges /\ RetryEnds /\ InFlightIsShown
=============================================================================
