-------------------------- MODULE ThreadNavigation --------------------------
(* The chat page's navigation: which conversation is on screen while URL commits, thread-list
   and payload requests, sidebar clicks, late stream endings and the session lookup interleave
   (useThreadNavigation, useThreadPayload, useThreadsQuery, ChatPageClient, ChatWorkspace). *)
EXTENDS Naturals, Sequences, FiniteSets

CONSTANTS
    Stored,     \* threads that exist when the page is opened
    Spare,      \* identifiers uuidv4 and the server may still hand out
    Tasks,      \* videos
    Example,    \* the task of the public example
    Linked,     \* the task of each stored thread
    Links,      \* addresses the page is opened at or linked to
    None,       \* null
    MaxMoves,   \* bound on what the user does
    MaxFaults   \* bound on failed requests

\* initialMessages: none, the example's card, or (as a thread identifier) that thread's messages.
Empty == "empty"
Demo  == "demo"

ASSUME NavAssumption ==
    /\ Stored \cap Spare = {} /\ None \notin Stored \cup Spare \cup Tasks
    /\ {Empty, Demo} \cap (Stored \cup Spare) = {} /\ {"absent", "failed", "no"} \cap (Tasks \cup {None}) = {}
    /\ Example \in Tasks /\ Linked \in [Stored -> Tasks \cup {None}]
    /\ MaxMoves \in Nat /\ MaxFaults \in Nat
    /\ Links \subseteq [thread : Stored \cup {None}, task : Tasks \cup {None}]

Ids  == Stored \cup Spare
Task == Tasks \cup {None}

\* The two search parameters the page reads.
Params   == [thread : Ids \cup {None}, task : Task]
P(th, tk) == [thread |-> th, task |-> tk]
Bare(p)  == p = P(None, None)

\* What is known of a thread's task: a value, or undefined.
Slot == Task \cup {"absent"}

VARIABLES
    session,    \* the server knows the user
    auth,       \* what the browser knows of that: "unknown", "in" or "out"
    stored,     \* chat_threads rows
    taskOf,     \* their task_id
    threads,    \* the thread list query: data, age ("none", "fresh", "stale"), busy
    payload,    \* the payload queries: cached data, the request in flight, and whether removed
    addr,       \* url, pending navigation, latestSearchParamsRef, navigationHistoryRef
    ui,         \* the hook's React state
    ref,        \* newThreadIdsRef, freshThreadIdRef, hasBootstrappedRef, isUserNavigatingRef
    due,        \* the initialization effect is due: "no", "url" or "retry"
    init,       \* the initialization run that is not stale
    sel,        \* the thread selection that is not superseded
    stream,     \* containers, mounted or not, that are receiving an answer
    used,       \* identifiers handed out
    chosen,     \* the thread the user chose last
    moves, faults

srvVars == <<session, stored, taskOf>>
vars == <<srvVars, auth, threads, payload, addr, ui, ref, due, init, sel, stream, used, chosen,
          moves, faults>>

NoRun == [st |-> "none", q |-> P(None, None), id |-> None, res |-> "absent"]
NoSel == [id |-> None, res |-> "absent"]

TypeOK ==
    /\ session \in BOOLEAN /\ auth \in {"unknown", "in", "out"}
    /\ stored \subseteq Ids /\ taskOf \in [Ids -> Task]
    /\ threads \in [data : [Ids -> Slot], age : {"none", "fresh", "stale"}, busy : BOOLEAN]
    /\ payload \in [Ids -> [data : Slot, flight : Slot \cup {"no"}, removed : BOOLEAN]]
    /\ addr.url \in Params /\ addr.nav \in SUBSET Params /\ addr.latest \in Params
    /\ addr.recent \in Seq(Params) /\ Len(addr.recent) <= 5
    /\ ui \in [active : Ids \cup {None}, task : Task, shown : Ids \cup {Empty, Demo},
               pending : Ids \cup {None}, boot : BOOLEAN, initErr : BOOLEAN]
    /\ ref \in [newIds : SUBSET Ids, fresh : Ids \cup {None}, hasBoot : BOOLEAN, userNav : BOOLEAN]
    /\ due \in {"no", "url", "retry"}
    /\ init \in [st : {"none", "list", "resolve", "load"}, q : Params, id : Ids \cup {None},
                 res : Slot \cup {"failed"}]
    /\ sel \in [id : Ids \cup {None}, res : Slot \cup {"failed"}]
    /\ stream \subseteq Ids /\ used \subseteq Ids /\ chosen \in Ids \cup {None}
    /\ moves \in 0..MaxMoves /\ faults \in 0..MaxFaults

\* activeThreadId as the hook returns it.
Shown == IF ui.active # None THEN ui.active ELSE addr.url.thread

\* The workspace mounts the chat container unless the history failed to load, and locks it
\* behind an overlay while a thread is being switched or the page bootstraps.
Interactive == ~ui.initErr /\ ui.pending = None /\ ~ui.boot

\* GET /api/threads: the user's rows.
ThreadRows == [id \in Ids |-> IF id \in stored THEN taskOf[id] ELSE "absent"]

\* GET /api/threads/[id] as fetchThreadTaskId reads it: no row is no task.
ThreadTaskId(id) == IF id \in stored THEN taskOf[id] ELSE None

-----------------------------------------------------------------------------
(* safeReplace and the two query caches. *)

\* safeReplace(q) from address state a: nothing when the address is unchanged or was asked for
\* within two seconds.
SafeReplace(a, q) ==
    IF q = a.latest \/ \E i \in DOMAIN a.recent : a.recent[i] = q
    THEN a
    ELSE [a EXCEPT !.nav = {q}, !.latest = q,
                   !.recent = LET h == Append(@, q) IN IF Len(h) > 5 THEN Tail(h) ELSE h]

\* refetchThreads: no request for a guest, nor while the cached list is within its staleTime.
Refetch == threads' = [threads EXCEPT !.busy = @ \/ (auth = "in" /\ threads.age # "fresh")]

\* ensureQueryData: cached data is the answer; otherwise a request is joined or started.
Cached(id) == payload[id].data
Ensure(id, known) ==
    payload' = [payload EXCEPT ![id] =
        IF @.data # "absent" \/ (@.flight # "no" /\ ~@.removed) THEN @
        ELSE [@ EXCEPT !.flight = known, !.removed = FALSE]]

\* removeQueries: the data is dropped, and an answer under way will not be cached.
Remove(id) ==
    payload' = [payload EXCEPT ![id] = [data |-> "absent", flight |-> @.flight, removed |-> @.flight # "no"]]

Fresh == {id \in Spare : id \notin used}

-----------------------------------------------------------------------------
(* The initialization effect. *)

\* The end every concluded initialization shares.
Booted(u) == [u EXCEPT !.boot = FALSE, !.initErr = FALSE]

\* initialize starts by raising isBootstrapping until the page has bootstrapped once.
Booting == IF ref.hasBoot THEN ui ELSE [ui EXCEPT !.boot = TRUE]

Load(q, th) == [NoRun EXCEPT !.st = "load", !.q = q, !.id = th, !.res = Cached(th)]

\* A conversation without messages, under identifier th.
OpenNew(th, tk, a) ==
    /\ ref' = [ref EXCEPT !.newIds = @ \cup {th}, !.fresh = None, !.hasBoot = TRUE]
    /\ ui' = Booted([ui EXCEPT !.active = th, !.task = tk, !.shown = Empty])
    /\ addr' = IF tk = None THEN a ELSE SafeReplace(a, P(th, tk))
    /\ init' = NoRun

\* Past the list of a thread-only address: not listed or still new, or to be loaded.
Listed(th, data, a) ==
    IF data[th] = "absent" \/ th \in ref.newIds
    THEN OpenNew(th, None, a) /\ UNCHANGED payload
    ELSE /\ init' = Load(P(th, None), th)
         /\ Ensure(th, data[th])
         /\ ui' = Booting /\ addr' = a
         /\ ref' = [ref EXCEPT !.fresh = None]

\* openPublicExample; a selection still loading is not superseded by it.
OpenPublicExample(a) ==
    /\ ui' = [ui EXCEPT !.active = None, !.task = Example, !.shown = Demo, !.pending = None,
                        !.boot = FALSE, !.initErr = FALSE]
    /\ addr' = SafeReplace(a, P(None, Example))

\* A bare address: a fresh conversation under the identity of the first render, or a new one.
InitBare(a) ==
    \E id \in IF ref.fresh # None THEN {ref.fresh} ELSE Fresh :
        /\ ref' = [ref EXCEPT !.fresh = id, !.newIds = @ \cup {id}, !.hasBoot = TRUE]
        /\ used' = used \cup {id}
        /\ ui' = Booted([ui EXCEPT !.active = id, !.task = None, !.shown = Empty])
        /\ addr' = SafeReplace(a, P(id, None))
        /\ init' = NoRun
        /\ Refetch
        /\ UNCHANGED payload

\* An address with a task: its thread is loaded, or looked up first; the list is independent.
InitTask(q, a) ==
    /\ Refetch
    /\ UNCHANGED used
    /\ IF q.thread \in ref.newIds
       THEN OpenNew(q.thread, q.task, a) /\ Ensure(q.thread, q.task)
       ELSE /\ ui' = Booting /\ addr' = a
            /\ ref' = [ref EXCEPT !.fresh = None]
            /\ IF q.thread = None
               THEN init' = [NoRun EXCEPT !.st = "resolve", !.q = q] /\ UNCHANGED payload
               ELSE init' = Load(q, q.thread) /\ Ensure(q.thread, q.task)

\* A thread-only address depends on the list: empty for a guest, cached while fresh, or awaited.
InitThread(q, a) ==
    /\ Refetch
    /\ UNCHANGED used
    /\ CASE auth # "in" -> Listed(q.thread, [id \in Ids |-> "absent"], a)
         [] auth = "in" /\ threads.age = "fresh" -> Listed(q.thread, threads.data, a)
         [] OTHER -> /\ init' = [NoRun EXCEPT !.st = "list", !.q = q]
                     /\ ui' = Booting /\ addr' = a
                     /\ ref' = [ref EXCEPT !.fresh = None]
                     /\ UNCHANGED payload

\* Mutant: the first identity is forgotten only by an initialization that runs.
SkipUserKeepsFresh(q) == [ref EXCEPT !.userNav = FALSE]

\* The user's own navigation is skipped; leaving the bare address still forgets its identity.
SkipUser(q) == [ref EXCEPT !.userNav = FALSE, !.fresh = IF Bare(q) THEN @ ELSE None]

\* The effect: latestSearchParamsRef is brought up to date and the previous run becomes stale.
RunEffect ==
    LET q == addr.url
        a == IF due = "url" THEN [addr EXCEPT !.latest = q] ELSE addr
    IN
    /\ due # "no" /\ due' = "no"
    /\ CASE ref.userNav ->
              /\ ref' = SkipUser(q)
              /\ init' = NoRun /\ addr' = a
              /\ UNCHANGED <<ui, threads, payload, used>>
         [] ~ref.userNav /\ Bare(q) -> InitBare(a)
         [] ~ref.userNav /\ q = P(None, Example) ->
              /\ OpenPublicExample(a)
              /\ ref' = [ref EXCEPT !.fresh = None, !.hasBoot = TRUE]
              /\ init' = NoRun
              /\ UNCHANGED <<threads, payload, used>>
         [] ~ref.userNav /\ q.task # None /\ q # P(None, Example) -> InitTask(q, a)
         [] OTHER -> InitThread(q, a)
    /\ UNCHANGED <<srvVars, auth, sel, stream, chosen, moves, faults>>

\* resolveOrCreateThreadForTask: the task's latest thread, or one created for it.
InitResolve ==
    /\ init.st = "resolve" /\ session
    /\ LET tk == init.q.task
           of == {id \in stored : taskOf[id] = tk}
       IN  \E id \in IF of # {} THEN of ELSE Fresh :
              /\ stored' = stored \cup {id} /\ taskOf' = [taskOf EXCEPT ![id] = tk]
              /\ used' = used \cup {id}
              /\ IF id \in ref.newIds
                 THEN OpenNew(id, tk, addr) /\ UNCHANGED payload
                 ELSE /\ init' = Load(init.q, id) /\ Ensure(id, tk)
                      /\ UNCHANGED <<addr, ui, ref>>
    /\ UNCHANGED <<session, auth, threads, due, sel, stream, chosen, moves, faults>>

\* A guest, or failed requests: a local identifier, used at once as a new conversation.
InitFallback ==
    /\ init.st = "resolve"
    /\ session => faults < MaxFaults
    /\ faults' = IF session THEN faults + 1 ELSE faults
    /\ \E id \in Fresh : used' = used \cup {id} /\ OpenNew(id, init.q.task, addr)
    /\ UNCHANGED <<srvVars, auth, threads, payload, due, sel, stream, chosen, moves>>

\* Mutant: the conversation is opened under the address's identifiers before its messages are set.
InitApplyBlank ==
    /\ init.st = "load" /\ init.res \in Task
    /\ ui' = Booted([ui EXCEPT !.active = init.id, !.task = init.res])
    /\ ref' = [ref EXCEPT !.hasBoot = TRUE]
    /\ addr' = SafeReplace(addr, P(init.id, init.res))
    /\ init' = NoRun
    /\ UNCHANGED <<srvVars, auth, threads, payload, due, sel, stream, used, chosen, moves, faults>>

\* The payload is here: the address's task wins over the payload's, and a conversation without
\* a task leaves the address alone.
InitApply ==
    /\ init.st = "load" /\ init.res \in Task
    /\ LET tk == IF init.q.task # None THEN init.q.task ELSE init.res
       IN  /\ ui' = Booted([ui EXCEPT !.active = init.id, !.task = tk, !.shown = init.id])
           /\ addr' = IF tk = None THEN addr ELSE SafeReplace(addr, P(init.id, tk))
    /\ ref' = [ref EXCEPT !.hasBoot = TRUE]
    /\ init' = NoRun
    /\ UNCHANGED <<srvVars, auth, threads, payload, due, sel, stream, used, chosen, moves, faults>>

\* The list or the payload could not be loaded.
InitFail ==
    /\ init.res = "failed"
    /\ ui' = [ui EXCEPT !.initErr = TRUE, !.boot = FALSE]
    /\ init' = NoRun
    /\ UNCHANGED <<srvVars, auth, threads, payload, addr, ref, due, sel, stream, used, chosen, moves, faults>>

\* retryInitialization, from the workspace or the sidebar.
RetryInit ==
    /\ ui.initErr /\ moves < MaxMoves
    /\ ui' = [ui EXCEPT !.initErr = FALSE, !.boot = TRUE]
    /\ due' = IF due = "no" THEN "retry" ELSE due
    /\ chosen' = None
    /\ moves' = moves + 1
    /\ UNCHANGED <<srvVars, auth, threads, payload, addr, ref, init, sel, stream, used, faults>>

-----------------------------------------------------------------------------
(* What the user does. *)

\* Mutant: New Chat does not supersede what is loading.
HandleNewChatVersionless ==
    /\ moves < MaxMoves
    /\ \E id \in Fresh :
        /\ used' = used \cup {id}
        /\ ref' = [ref EXCEPT !.userNav = TRUE, !.newIds = @ \cup {id}, !.hasBoot = TRUE]
        /\ ui' = Booted([ui EXCEPT !.active = id, !.task = None, !.shown = Empty, !.pending = None])
        /\ addr' = SafeReplace(addr, P(id, None))
        /\ chosen' = id
    /\ moves' = moves + 1
    /\ UNCHANGED <<srvVars, auth, threads, payload, due, init, sel, stream, faults>>

\* handleNewChat
HandleNewChat ==
    /\ moves < MaxMoves
    /\ \E id \in Fresh :
        /\ used' = used \cup {id}
        /\ ref' = [ref EXCEPT !.userNav = TRUE, !.newIds = @ \cup {id}, !.hasBoot = TRUE]
        /\ ui' = Booted([ui EXCEPT !.active = id, !.task = None, !.shown = Empty, !.pending = None])
        /\ addr' = SafeReplace(addr, P(id, None))
        /\ chosen' = id
    /\ init' = NoRun /\ sel' = NoSel
    /\ moves' = moves + 1
    /\ UNCHANGED <<srvVars, auth, threads, payload, due, stream, faults>>

\* handleSelectThread up to its await: every thread of the sidebar's list can be clicked.
HandleSelectThread(id) ==
    /\ moves < MaxMoves
    /\ threads.data[id] # "absent" /\ id # Shown /\ id # ui.pending
    /\ ref' = [ref EXCEPT !.userNav = TRUE, !.newIds = @ \ {id}]
    /\ ui' = [ui EXCEPT !.pending = id]
    /\ sel' = [id |-> id, res |-> Cached(id)]
    /\ Ensure(id, threads.data[id])
    /\ init' = NoRun
    /\ chosen' = id
    /\ moves' = moves + 1
    /\ UNCHANGED <<srvVars, auth, threads, addr, due, stream, used, faults>>

\* commitThreadSelection
CommitThreadSelection ==
    /\ sel.res \in Task
    /\ ui' = [ui EXCEPT !.active = sel.id, !.task = sel.res, !.shown = sel.id, !.pending = None,
                        !.initErr = FALSE]
    /\ addr' = SafeReplace(addr, P(sel.id, sel.res))
    /\ sel' = NoSel
    /\ UNCHANGED <<srvVars, auth, threads, payload, ref, due, init, stream, used, chosen, moves, faults>>

\* Mutant: the failure is reported but the switch is left pending.
SelectionFailedPending ==
    /\ sel.res = "failed"
    /\ ref' = [ref EXCEPT !.userNav = FALSE]
    /\ sel' = NoSel /\ chosen' = None
    /\ UNCHANGED <<srvVars, auth, threads, payload, addr, ui, due, init, stream, used, moves, faults>>

\* The payload of the selection could not be loaded.
SelectionFailed ==
    /\ sel.res = "failed"
    /\ ref' = [ref EXCEPT !.userNav = FALSE]
    /\ ui' = [ui EXCEPT !.pending = None]
    /\ sel' = NoSel /\ chosen' = None
    /\ UNCHANGED <<srvVars, auth, threads, payload, addr, due, init, stream, used, moves, faults>>

\* handleSelectExample, from the welcome screen of an empty conversation.
HandleSelectExample ==
    /\ moves < MaxMoves
    /\ ui.shown = Empty /\ Interactive
    /\ ref' = [ref EXCEPT !.userNav = TRUE, !.hasBoot = TRUE]
    /\ OpenPublicExample(addr)
    /\ chosen' = None
    /\ moves' = moves + 1
    /\ UNCHANGED <<srvVars, auth, threads, payload, due, init, sel, stream, used, faults>>

\* prefetchThread, on hover or focus of a sidebar entry.
PrefetchThread(id) ==
    /\ moves < MaxMoves
    /\ threads.data[id] # "absent" /\ payload[id].data = "absent" /\ payload[id].flight = "no"
    /\ Ensure(id, threads.data[id])
    /\ moves' = moves + 1
    /\ UNCHANGED <<srvVars, auth, threads, addr, ui, ref, due, init, sel, stream, used, chosen, faults>>

\* A link, or the browser's back button.
FollowLink(p) ==
    /\ moves < MaxMoves
    /\ addr' = [addr EXCEPT !.nav = {p}]
    /\ chosen' = None
    /\ moves' = moves + 1
    /\ UNCHANGED <<srvVars, auth, threads, payload, ui, ref, due, init, sel, stream, used, faults>>

\* A message is sent from the conversation on screen, or from the example's own session id.
Send ==
    /\ moves < MaxMoves
    /\ auth = "in" /\ session /\ Interactive
    /\ \E id \in IF Shown # None THEN {Shown} ELSE Fresh :
        /\ id \notin stream
        /\ stream' = stream \cup {id}
        /\ used' = used \cup {id}
        /\ stored' = stored \cup {id}
        /\ taskOf' = IF id \in stored THEN taskOf ELSE [taskOf EXCEPT ![id] = ui.task]
    /\ moves' = moves + 1
    /\ UNCHANGED <<session, auth, threads, payload, addr, ui, ref, due, init, sel, chosen, faults>>

\* updateThreadStatus: the changed row is merged into the cached list, which counts as new data.
UpdateThreadStatus(id) ==
    /\ moves < MaxMoves
    /\ session /\ threads.data[id] # "absent"
    /\ threads' = [threads EXCEPT !.data[id] = taskOf[id], !.age = "fresh"]
    /\ moves' = moves + 1
    /\ UNCHANGED <<srvVars, auth, payload, addr, ui, ref, due, init, sel, stream, used, chosen, faults>>

-----------------------------------------------------------------------------
(* What the browser, the server and the clock do. *)

\* The router commits a navigation.
UrlCommit ==
    /\ \E q \in addr.nav :
        /\ addr' = [addr EXCEPT !.url = q, !.nav = {}]
        /\ due' = IF q = addr.url THEN due ELSE "url"
    /\ UNCHANGED <<srvVars, auth, threads, payload, ui, ref, init, sel, stream, used, chosen, moves, faults>>

\* The session lookup answers; useThreadsQuery is enabled for a signed-in user.
AuthResolves ==
    /\ auth = "unknown"
    /\ auth' = IF session THEN "in" ELSE "out"
    /\ threads' = [threads EXCEPT !.busy = session]
    /\ UNCHANGED <<srvVars, payload, addr, ui, ref, due, init, sel, stream, used, chosen, moves, faults>>

\* The thread list arrives.
ListDone ==
    /\ threads.busy
    /\ threads' = [data |-> ThreadRows, age |-> "fresh", busy |-> FALSE]
    /\ IF init.st = "list"
       THEN Listed(init.q.thread, ThreadRows, addr)
       ELSE UNCHANGED <<init, payload, ui, addr, ref>>
    /\ UNCHANGED <<srvVars, auth, due, sel, stream, used, chosen, moves, faults>>

\* The list request failed, its one retry included; cached history stays.
ListFails ==
    /\ threads.busy /\ faults < MaxFaults
    /\ threads' = [threads EXCEPT !.busy = FALSE]
    /\ init' = IF init.st = "list" THEN [init EXCEPT !.res = "failed"] ELSE init
    /\ faults' = faults + 1
    /\ UNCHANGED <<srvVars, auth, payload, addr, ui, ref, due, sel, stream, used, chosen, moves>>

\* Thirty seconds pass since the list arrived.
ListAges ==
    /\ threads.age = "fresh"
    /\ threads' = [threads EXCEPT !.age = "stale"]
    /\ UNCHANGED <<srvVars, auth, payload, addr, ui, ref, due, init, sel, stream, used, chosen, moves, faults>>

\* Two seconds pass since the oldest remembered navigation.
HistoryAges ==
    /\ addr.recent # <<>>
    /\ addr' = [addr EXCEPT !.recent = Tail(@)]
    /\ UNCHANGED <<srvVars, auth, threads, payload, ui, ref, due, init, sel, stream, used, chosen, moves, faults>>

\* Mutant: whatever came back is cached.
DeliverCachesAll(id, res, data) ==
    /\ payload' = [payload EXCEPT ![id] = [data |-> res, flight |-> "no", removed |-> FALSE]]
    /\ init' = IF init.st = "load" /\ init.id = id /\ init.res = "absent" THEN [init EXCEPT !.res = res] ELSE init
    /\ sel' = IF sel.id = id /\ sel.res = "absent" THEN [sel EXCEPT !.res = res] ELSE sel

\* A payload request ends with res; every caller that waits for this thread gets it.
Deliver(id, res, data) ==
    /\ payload' = [payload EXCEPT ![id] = [data |-> data, flight |-> "no", removed |-> FALSE]]
    /\ init' = IF init.st = "load" /\ init.id = id /\ init.res = "absent" THEN [init EXCEPT !.res = res] ELSE init
    /\ sel' = IF sel.id = id /\ sel.res = "absent" THEN [sel EXCEPT !.res = res] ELSE sel

\* fetchThreadPayload succeeds: the caller's known task, or the one the server has.
FetchOk(id) ==
    /\ payload[id].flight # "no" /\ session
    /\ LET res == IF payload[id].flight # "absent" THEN payload[id].flight ELSE ThreadTaskId(id)
       IN  Deliver(id, res, IF payload[id].removed THEN "absent" ELSE res)
    /\ UNCHANGED <<srvVars, auth, threads, addr, ui, ref, due, stream, used, chosen, moves, faults>>

FetchFails(id) ==
    /\ payload[id].flight # "no"
    /\ session => faults < MaxFaults
    /\ faults' = IF session THEN faults + 1 ELSE faults
    /\ Deliver(id, "failed", "absent")
    /\ UNCHANGED <<srvVars, auth, threads, addr, ui, ref, due, stream, used, chosen, moves>>

\* onFinish and handleChatStarted; the container may have been left. Without a task of its own
\* the conversation takes over the one the address has.
HandleChatStarted(id, tk) ==
    /\ id \in stream /\ stream' = stream \ {id}
    /\ tk \in Tasks \cup {taskOf[id]}
    /\ ref' = [ref EXCEPT !.userNav = TRUE, !.newIds = @ \ {id}]
    /\ Remove(id)
    /\ ui' = [ui EXCEPT !.active = id, !.shown = id, !.task = IF tk = None THEN @ ELSE tk]
    /\ addr' = SafeReplace(addr, P(id, IF tk = None THEN addr.latest.task ELSE tk))
    /\ taskOf' = [taskOf EXCEPT ![id] = tk]
    /\ Refetch
    /\ chosen' = None
    /\ UNCHANGED <<session, stored, auth, due, init, sel, used, moves, faults>>

\* The answer was aborted, cut off or failed: the page is not told.
StreamDrops(id) ==
    /\ id \in stream /\ stream' = stream \ {id}
    /\ UNCHANGED <<srvVars, auth, threads, payload, addr, ui, ref, due, init, sel, used, chosen, moves, faults>>

-----------------------------------------------------------------------------
\* The first render, before its effects.
InitAt(q) ==
    /\ session \in BOOLEAN /\ auth = "unknown"
    /\ stored = Stored
    /\ taskOf = [id \in Ids |-> IF id \in Stored THEN Linked[id] ELSE None]
    /\ threads = [data |-> [id \in Ids |-> "absent"], age |-> "none", busy |-> FALSE]
    /\ payload = [id \in Ids |-> [data |-> "absent", flight |-> "no", removed |-> FALSE]]
    /\ addr = [url |-> q, nav |-> {}, latest |-> q, recent |-> <<>>]
    /\ \E id \in IF Bare(q) THEN Spare ELSE {None} :
        /\ ui = [active |-> id, task |-> q.task, shown |-> Empty, pending |-> None,
                 boot |-> ~Bare(q), initErr |-> FALSE]
        /\ ref = [newIds |-> {}, fresh |-> id, hasBoot |-> FALSE, userNav |-> FALSE]
        /\ used = {id} \ {None}
    /\ due = "url"
    /\ init = NoRun /\ sel = NoSel
    /\ stream = {} /\ chosen = None
    /\ moves = 0 /\ faults = 0

Init == \E q \in Links : InitAt(q)

User ==
    \/ HandleNewChat \/ HandleSelectExample \/ Send \/ RetryInit
    \/ \E id \in Ids : HandleSelectThread(id) \/ PrefetchThread(id) \/ UpdateThreadStatus(id)
    \/ \E p \in Links : FollowLink(p)

Requests ==
    \/ ListDone \/ ListFails
    \/ \E id \in Ids : FetchOk(id) \/ FetchFails(id)

Steps ==
    \/ InitResolve \/ InitFallback \/ InitApply \/ InitFail
    \/ CommitThreadSelection \/ SelectionFailed

\* A due effect runs before the browser handles anything else.
Next ==
    \/ RunEffect
    \/ due = "no" /\ (User \/ Requests \/ Steps)
    \/ due = "no" /\ (UrlCommit \/ AuthResolves \/ ListAges \/ HistoryAges)
    \/ due = "no" /\ \E id \in Ids : StreamDrops(id) \/ \E tk \in Task : HandleChatStarted(id, tk)

\* The browser runs its effects, requests end one way or the other, navigations commit.
Fairness ==
    /\ WF_vars(RunEffect) /\ WF_vars(due = "no" /\ Steps) /\ WF_vars(due = "no" /\ UrlCommit)
    /\ WF_vars(due = "no" /\ AuthResolves) /\ WF_vars(due = "no" /\ (ListDone \/ ListFails))
    /\ \A id \in Ids : WF_vars(due = "no" /\ (FetchOk(id) \/ FetchFails(id)))

Spec == Init /\ [][Next]_vars /\ Fairness

-----------------------------------------------------------------------------
(* Properties. *)

\* The messages handed to the chat container are those of the thread it is mounted for,
\* whichever of the selection, the initialization and a late stream ending came last.
MessagesOfThread == ui.shown \in Ids => ui.shown = Shown

\* Once the thread the user chose is on screen, only the user or an answer that ends takes it
\* away: no list, payload or lookup started for an earlier address does (isStale).
ChoiceKept == [][chosen # None /\ chosen' = chosen /\ ui.active = chosen => ui'.active = chosen]_vars

\* The bare address never reopens a conversation that has been stored (freshThreadIdRef).
BareStartsFresh ==
    [][due # "no" /\ due' = "no" /\ Bare(addr.url) /\ ui'.active # ui.active
       => ui'.active \notin stored]_vars

\* A pending switch and a waiting initialization always have an answer to apply or a request
\* that will bring one, whatever was evicted, joined or superseded meanwhile.
WaitsHaveAnswers ==
    /\ ui.pending # None => sel.id = ui.pending
    /\ sel.id # None /\ sel.res = "absent" => payload[sel.id].flight # "no"
    /\ init.st = "load" /\ init.res = "absent" => payload[init.id].flight # "no"
    /\ init.st = "list" /\ init.res = "absent" => threads.busy

\* Selections, initializations and endings that overlap leave the page with the right messages
\* and with nothing to wait for in vain (useThreadNavigation.ts).
SwitchesHold == TypeOK /\ MessagesOfThread /\ WaitsHaveAnswers

\* What the reader chose stays on screen, and the bare address begins a new conversation
\* (useThreadNavigation.ts:260-310, 428-449).
ScreenFollowsReader == ChoiceKept /\ BareStartsFresh
=============================================================================
