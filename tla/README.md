# VibeDigest: a TLA+ verification project

VibeDigest turns a YouTube URL into a summarised, searchable digest and lets a chat agent work
with it. Its hard parts lie where several actors write one state: Postgres transactions, queue
workers whose lease may lapse under them, HTTP requests that outlive their client, webhooks that are
delivered twice, and a browser in which streams, realtime events, reads and the router race each
other. Paths below are relative to the repository root, which these files see as `src/`.

## 1. Inventory

| Component | State | Operations | Module |
| --- | --- | --- | --- |
| Submission and retry transactions (`backend/api/routes/tasks.py`, `services/task_queue.py`, `supabase/migrations/20261028081449_*`, `20260825160000_*`) | tasks, outputs, debits | submit (reuse, create), retry task, retry output, caption-retry triggers | TaskPipeline, Billing |
| Video queue (`task_queue.py`, `202607290001_*.sql`) | PGMQ messages, handoffs | send, read, set visibility, validate, archive | TaskPipeline |
| Video worker (`backend/worker.py`) | message in hand, attempt | read, heartbeat, dispatch, defer, reject, archive | TaskPipeline |
| Pipeline graph (`backend/workflow.py`), output retry handler (`job_handlers.py`), `db_client.py` | task status, progress, outputs | check_cache, ingest, cognition, cleanup | TaskPipeline |
| Agent turn transactions (`20260828052805_*.sql`, `20260830120454_*.sql`, `agent_turns.py`, `routes/agent.py`) | turns, actions, messages | accept, rerun, retry, watch, submit, finish, claim, fail, cancel, wake-up trigger | AgentTurns |
| Agent continuation worker (`AgentAnswerWorker`), request handlers (`app/api/chat`, `app/api/internal/agent/continue`) | delivery, execution token | dispatch, confirm, defer, reject; run the agent, finish | AgentTurns |
| Agent run (`lib/agent/task-agent.ts`, `tools.ts`, `backend.ts`, `lib/local-codex.ts`) | tool bundle, budget, reply | the tool loop, late requests, finishing | AgentRun, TurnOutcome |
| Source index (`lib/agent/source-index.ts`) | passages, segments | parse, split, search, read within a budget | SourceIndex |
| Billing (`webhooks.py`, `payments.py`, `db_client.py`, `pricing/page.tsx`) | profile, orders, debits | submit, refund, check out, webhooks, read the account | Billing |
| Chat messages (`useChatRealtime.ts`, `ChatContainer.tsx`, cancel route) | messages, buffers, channel | send, stream, merge, cancel, retry | ChatSession |
| Chat page (`ChatContainer.tsx`, `MessageRow.tsx`, `useChatScroll.ts`, `ChatInput.tsx`) | drawn rows and cards, notice, draft, scroll | boundary, memo, notice, scroll | ChatView |
| Code blocks (`code-block.tsx`) | highlighter and token caches | render, effect, callbacks | CodeHighlight |
| Thread navigation (`useThreadNavigation.ts`, `useThreadPayload.ts`) | selection, URL, payload cache | select, new chat, initialise, chat started | ThreadNavigation |
| Thread list (`useThreadsQuery.ts`, `useProgressiveThreadList.ts`, `AppSidebar.tsx`, `MobileMenuDrawer.tsx`) | cached list, sections | read, PATCH, show more | ThreadList |
| Task rows in the browser (`task-live.ts`, `TaskDetailRefresh.tsx`, `TaskDataGroup.tsx`) | shared entry, cards, page | prime, subscribe, events, retry, refresh | TaskLive |
| Task card (`TaskDataGroup.tsx`, `summary-contract.ts`) | the face of a card | rows and outputs arrive, demo timers | TaskCard |
| Handoff across sign-in (`pending-handoff.ts`, `LoginForm.tsx`, `auth/callback`, `HeroSection.tsx`) | one localStorage slot | write, redirect, claim, send | PendingHandoff |
| Public library (`CommunityTemplates.tsx`, `ServerCommunityTemplates.tsx`) | search box, history, lists | type, choose, navigate, render | LibrarySearch, LibraryCatalog |
| Publication and digest page (`20260904163323_*.sql`, `tasks/[id]/[slug]/page.tsx`, `public-task-seo.ts`) | published projection | write outputs, publish, open a page | PublicDigest |
| Agent plug-in server (`agent-plugin/mcp/server.mjs`) | calls, children | JSON-RPC, concurrent CLI runs | PluginServer |
| Podcast discovery, summariser, providers, reporting, task notifications, marketing UI | - | - | not modelled (section 7) |

How they interact. A submission writes task, debit, message and handoff in one transaction; workers
run the graph and write the same rows; a turn hands its goal over to such a task and a trigger on the
task's terminal write queues its continuation, which the agent worker turns into a request of the web
application. That request is an agent run: it reads the source through the index, and its reply
reaches the browser as a stream, as a stored row and as a realtime event. The chat page draws messages
and mounts cards, whose rows come through the shared live entry. The refund of a failed task and the
payment webhooks meet in the profile row. The pages of section "public" read only what publication lets out.

What is hard, and where it bites, is the list under `hazards` in `PROJECT.json` (40 entries). What
makes each component correct is stated by the properties of section 4.

## 2. Structure

One module per component, its bounds CONSTANTS with a named assumption, one action per operation,
handler or effect. `TurnOutcome` is the abstract promise of a run; `AgentRun` implements it under
`Promise == INSTANCE TurnOutcome WITH outcome <- ..., durable <- kept, told <- ...`, and
`KeepsPromise == Promise!TurnSpec`. The MC modules instantiate the specifications; where components
that do not share state are checked by one run, a constant variable `active` picks the one that
moves and the others rest in an initial state. Definitions called `Mutant: ...` in a comment are
plausible wrong versions of the definition after them. They are not used by the specification;
putting one in the place of its original must make a run fail.

    TaskPipeline <- TaskPipelineProofs            Billing        <- BillingProofs
    AgentTurns   <- AgentTurnsProofs              TaskLive       <- TaskLiveProofs
    ThreadNavigation <- NavigationProofs          PendingHandoff <- PendingHandoffProofs
    TurnOutcome <- AgentRun                       PublicDigest, LibrarySearch <- LibraryProofs
    AgentRun, ChatSession, CodeHighlight <- ChatProofs
    MCSubmissions: TaskPipeline, Billing    MCThreadNavigation: ThreadNavigation, ThreadList
    MCChatSession: ChatSession, ChatView, AgentRun, CodeHighlight, SourceIndex
    MCTaskLive: TaskLive, TaskCard          MCLibrary: LibrarySearch, LibraryCatalog,
    MCPendingHandoff, MCAgentTurns                     PublicDigest, PluginServer

## 3. Modules

### TaskPipeline

State: the rows of `tasks` (`status`, `err` as the class of `error_message`, `progress`, `url`,
`want` as the requested locale), `debit`, the rows of `task_outputs` (`ostatus`, `content`), the
queue (`queue`, `handoff`, `reads`, `jtask`, `jpart`: one job id names the message and its
handoff, which are created in one transaction) and each worker's program counter, job and locals.

* Requests. `ReuseInflight`, `ReuseScript` and `SubmitNew` are the three outcomes of
  `submit_user_video_task`, `RetryTask` and `RetryOutput` the retry transactions. The routes'
  checks before a transaction are not guards: a request may be delayed between check and
  transaction, and what decides is the transaction's own condition and the caption-retry
  triggers (`TaskWritable`, `OutputWritable`). A job key stays queued until archived, as the
  partial unique index says.
* Queue. `Read` takes any visible message; `Expire` lets a timeout pass that no live worker
  extends; `Stall` (a fault) lets it pass under a live worker, so that two workers run one message.
* Graph. One action per database write, in the order of `workflow.py`. Providers, the model and
  the length check on the transcript are nondeterministic. `AdvanceRead` and `AdvanceWrite` are
  separate because `_advance_task_progress` reads and writes in two statements. The copies of a
  cache hit are one action unless they fail part-way (`CacheHitFails`) or the worker dies in
  between (`CrashCopying`).
* Faults. `Crash` is the death of a worker or its abandoning a delivery (failed heartbeat, failed
  archive); `Raise` is an exception or the execution timeout at any await point, also after the last
  write of the graph. Bounds: `MaxTasks`, `MaxJobs`, `MaxFaults`.

Left out: audio and cover images, the catalog workload, the branch for unsupported sources, which no
current route reaches, and the arithmetic of quotas, which is `Billing`'s.

### AgentTurns

State: `agent_turns` (`turn`, `lease`, `holder`, `watched`, `waits`, `attempts`), `acted` for
`agent_actions`, the two messages a turn may write (`reply`, `answered`), `threadTask`; the watched
`task` and its summary row `out`; the agent queue; the workers; the requests of the web application.

* An execution token is only compared with the row's: it is modelled by the request that knows it
  (`holder`). A delivery's `read_ct` is only compared with the message's: it is the flag `current`,
  cleared by the next read. `reads` is capped at `MaxAttempts`, the only value it is compared with.
  A lease is live or lapsed; `LeaseLapses` may happen at any time.
* Each plpgsql function is one action (it holds the turn's row lock), except `complete_queue_job`,
  which locks neither row it looks at: `AckCheck`, then `Ack`. A second call of
  `submit_agent_video_task` and the replay of an accepted message change nothing and are left out.
* `TaskEnds`, `OutputEnds` and `Redo` are what the pipeline and its users write to the watched rows,
  with the wake-up trigger in the same step. `Submit` keeps of `submit_user_video_task` which task it
  returns and whether it puts the summary back to work. A task has at most one summary row here.
* `Post` starts a request; the worker waits for its answer. After `Raise` (HTTP timeout) or `Crash`
  the request goes on without its client, which is what makes late claims possible.
* `Enqueue` stops at `MaxGens` continuations per turn. `RoomToWake`, a part of the proved invariant,
  says that the bound never suppresses a wake-up: only `AcceptRetry` is cut off by it.

### AgentRun, TurnOutcome, SourceIndex

`AgentRun` is one run: the model is free to call tools in parallel, to stream, to end or to fail.
A tool call and the finishing calls are requests that may be answered late or carried out after the
run stopped waiting (`CallLost`, `SaveLost`); cancellation, a lapsed lease and a claim elsewhere take
the turn away at any time. `TurnOutcome` says what remains true for the caller: the turn ends at most
once, a handover is not undone, and "completed" or "waiting_task" is told only when it is durable.
`SourceIndex` has the loops of `source-index.ts` as steps: reading lines into passages, cutting a
paragraph into overlapping segments at character boundaries (halves of a surrogate pair are
characters of their own), searching, and reading within a budget.

### Billing

One account: the profile row, a debit per video, the orders, and the events the payment provider has
still to deliver. `Reconcile` is the lazy fall-back to the free tier and to a new month that a
submission performs. A refund gives a unit back only to the allowance it came from (month, tier and
paid period). A webhook may be delivered again, and its handler may die after any of its writes; three
writes swallow a database error (`silent`). `cut` remembers the orders whose handler died between
receipt and credits, which no later delivery makes good: `CreditsArrive`, a part of `PaymentsSettle`,
excepts them (section 6). Handlers do not interleave with each other: the API is
one process and awaits nothing between its writes. The pricing page shows the tier of a projection.

### ChatSession, ChatView, CodeHighlight

`ChatSession` follows the replies of one thread through the server's rows, the realtime channel
(subscribed, then listening), snapshots, props and `useChat`. `ChatView` follows one of three things
per behaviour: the rows and cards, the box and the notice, or the scroll position; `RowsAreCurrent`
compares the memoised row with what a new render would draw. `CodeHighlight` has the token cache
and its waiting callbacks, with two texts that share a cache key.

### ThreadNavigation, ThreadList, TaskLive, TaskCard, PendingHandoff

`ThreadNavigation` separates React effects (`RunEffect`), requests, router commits and clicks, and
keeps the refs of the hook that decide between them. `ThreadList` has the server's rows, the cached
list and PATCH requests. `TaskLive` follows one of three consumers (cards, their summary reads, the
task page) from commit to screen over a channel that may be lost. `TaskCard` is the face of one
card, whose seed supplies what a row lacks. `PendingHandoff` has two tabs and one localStorage slot,
with redirects, remounts and sign-in. `WrittenIsSent` speaks of messages written in a conversation
with an address or under a digest; `LandingIsSent`, of the landing page, is what the code breaks.

### LibrarySearch, LibraryCatalog, PublicDigest, PluginServer

`LibrarySearch` is the box with its 220 ms debounce, its memory of submitted addresses and the
browser's history under Next's router. `LibraryCatalog` serves a list from several reads of a catalog
that changes between them. `PublicDigest` has the triggers that project and gate publication, and the
second decision of the page, the sitemap and the examples. `PluginServer` answers JSON-RPC lines with
child processes whose output arrives in pieces.

## 4. Runs

`tlc -config <cfg> <module>`. Deadlock is not checked: users may stop, and the bounds stop them. A
star marks a property that is also proved. Two workers are enough for every race on one message (each
is between a holder and the next reader), two requests for a run and its late rival, one fault for a
failure and two for a failure during recovery, two orders of different kinds for what they share.
Symmetric model values are used only where no liveness is checked.

| Run | Instance | Shows |
| --- | --- | --- |
| `pipeline_faults` | 2 workers, 2 tasks, 2 jobs, 2 attempts, 2 crashes or exceptions; account: limits 1 and 2, 2 videos, one subscription and one top-up, clock to 3, 1 trouble | `TypeOK`\*, `NoStrandedTask`\*, `AttemptsBounded`\*, `CompletesWithSummary`\*, `CompletedIsFinal`\*, `ArchivedAfterTerminal`\*, `AdvanceMovesForward`\*; `AllowanceHolds`\*, `PaymentsSettle`\*, `ShownIsWhatCounts`\* |
| `pipeline_live` | 2 workers, 1 task, 2 jobs, one crash, exception or stall, fair | `QueueMatchesHandoff`\*, `OneQueuedJobPerKey`\*, `EveryJobResolves` |
| `agent_faults` | 1 thread, 2 turns, 2 continuations, 2 workers, 2 requests; one fault or redo, a second turn without them (`OneDifficulty`) | `TypeOK`\*, `NoLostWakeup`\*, `SubmittedNeverReruns`\*, `ClaimsBounded`\*, `OneOpenTurn`\*, `EndedIsFinal`\*, `RetryGetsItsAttempts`\* |
| `agent_live` | 1 turn, 1 worker, 2 requests, 2 attempts, one crash or exception, fair | `EveryContinuationResolves` |
| `navigation` | 2 stored threads, 2 fresh ids, 3 moves, 1 failed request; a list of 3 threads, batch 1, 4 writes | `SwitchesHold`\*, `ScreenFollowsReader`\*, `ListIsHonest` |
| `chat` | 2 turns, 1 loss, 1 retry; a run of 2 calls and 2 steps; 2 blocks, 3 texts; transcripts of 3 lines, segments of 6 with overlap 2; 8 stored histories | `ShowsWhatIsStored`\*, `RepliesKept`\*, `PageIsHonest`, `AnswersWithinAllowance`\*, `KeepsPromise`\*, `HighlightIsSound`\*, `EvidenceIsWhole` |
| `task_live` | 2 cards, 6 row versions, 2 summaries, at most 5 faults, retries and moves; 3 card steps | `ViewsConverge`\*, `CardsNeverGoBack`\*, `CardIsHonest` |
| `handoff` | 2 tabs, 1 digest, 1 thread, 2 messages, 2 visits, 2 new threads, fair | `SentOnceWhereWritten`\*, `WrittenIsSent` |
| `library` | 2 paths, 1 source, 1 word, 5 moves; 2 shows, 4 digests, pages of 2; 5 writes, 2 visits; 2 lines, 2 CLI runs | `BoxAndListAgree`\*, `CatalogIsHonest`, `DigestsAreAsPublished`\*, `PluginAnswers` |

Three runs show where the code departs from what the repository says of it; `findings` quotes both:

* `pipeline_free_retry`: the terminal failure write replaces the caption marker of a refunded task
  (`db_client.py:312`), after which a retry without a debit is accepted
  (`docs/codemaps/backend.md:172-174` rules that out);
* `raw_code`: a block whose tokens are cached between its render and its effect stays raw
  (`code-block.tsx:406`; line 173 says raw tokens are for "while highlighting loads");
* `handoff_landing` (one tab, one message, fair): a message of the landing page is never sent. A new
  conversation has its thread's identifier before its container looks for the message
  (`useThreadNavigation.ts:284-290`), and `pending-handoff.ts:58` refuses every container that has
  one (`:57` and `i18n-messages.ts:101` say otherwise).

`ArchivedAfterTerminal` and `AdvanceMovesForward` are checked and proved without stalls. With
`"stall"` among the faults a message is also archived while its task is processed again; the codemap
(`docs/codemaps/architecture.md:159`) does not state that assumption. As one worker writes a task
then, what `AdvanceMovesForward` says in `pipeline_faults` is that a redelivery, which starts the
graph anew, does not lower a milestone.

### Fairness

All fairness is weak. In `TaskPipeline` and `AgentTurns`: a visibility timeout passes, a worker that
can take a step takes one (processes are restarted and `consume` loops for ever), a request ends (its
`maxDuration` is 180 s and every provider call has a timeout), a lease lapses, and, in `AgentTurns`,
a pending task ends (`pipeline_live` shows it for the task's own job). In `PendingHandoff`, per
tab: the session lookup ends, `replace` commits, the container unlocks, the effect runs, and a reader
who was sent to the login page signs in; `WrittenIsSent` and `LandingIsSent` are about such readers,
each up to the next page the reader opens. No other user
action and no fault is fair, and faults are finite in number.

## 5. Proofs

`tlapm` checks every proof. They hold for all values of the constants that satisfy the named
assumptions (`PipelineAssumption`, `AgentAssumption`, `AgentRunAssumption`, `BillingAssumption`,
`TaskLiveAssumption`, `HandoffAssumption`, `ChatAssumption`, `CodeHighlightAssumption`,
`NavAssumption`, `DigestAssumption`, `LibraryAssumption`), which the runs evaluate; further hypotheses are stated with each theorem and here.

* `TaskPipelineProofs`. `QueueInv` is `WellFormed` (types, a sent job names an existing task, a busy
  worker holds a sent job), `QueueMatchesHandoff` and `OneQueuedJobPerKey`. The last two are not
  inductive alone: archiving acts on the job a worker holds, which must have been sent. Theorems
  `TypeCorrect`, `QueueAndHandoffAgree`, `JobKeysUnique`, with every kind of fault.
  Its second part, with `"stall" \notin FaultKinds`: `LeaseInv` adds `Exclusive` (a held message is
  hidden and held once), `GraphAt` (a worker inside the graph works for an unfinished task; one about
  to archive has left it terminal) and `NoStrandedTask`. With unique job keys this makes one worker
  at a time the writer of a task. Theorems `NoTaskStranded`, `CompletionIsFinal`. The assumption is
  needed: without it a message can be archived while a second worker is in the graph, and that
  worker's end strands the task.
  Its third part: `AttemptsInv`, a queued message that has used up its allowance is in the hands
  of the worker that read it last, which buries it. It gives `AttemptsAreBounded` with every kind
  of fault. `AdvanceInv`, again without stalls, extends `LeaseInv` by what the rows hold (a
  completed summary has content, the requested locale has a row) and by where each worker is in its
  milestones: `TerminalBeforeArchival`, `MilestonesMoveForward`, `CompletionHasSummary`.
* `AgentTurnsProofs`: types, with `RequestGoal` and `WorkerJob` (a request carries a delivery of its own
  turn, a busy worker holds a message). Theorem `TypeCorrect`.
  Then `AgentInv`: `SentTurns` says that a turn with a continuation has handed its goal over
  and does not run again; `AckSafe` that a worker about to acknowledge a queued delivery never meets
  a waiting turn, although it checked without a lock: a turn returns to waiting only by a retry, which
  retires that delivery first. From these follow `WakeupsAreNotLost`, `ThreadHasOneGoal`,
  `OneSubmissionPerMessage` and `EndedTurnsAreFinal`, for every kind of fault.
  Last, `ClaimInv` adds that a turn has one queued delivery (`OneDelivery`), that a claim was
  sent (`ClaimSent`), that at most one process can still turn the last read of a message into a
  claim, the worker or the request it posted (`OneCurrent`), that such a claim finds an attempt left
  (`FreshClaim`), and how a turn's attempts relate to the reads of its delivery (`AttemptsKept`,
  `CountRead`, `RejectFair`). Without `OneCurrent` two late requests could both claim. Theorems
  `ClaimsAreBounded` and `RetriesGetTheirAttempts`, for every kind of fault; hypothesis: workers and
  requests are different sets.
* `BillingProofs`: `AccountInv` says that debits are ordered by the allowance they came from, and the
  unrefunded ones of the current allowance do not exceed what is used (`UsageKept`); that an order's
  state agrees with the events still in the mail (`OrdersKept`); that credits were added at most once per
  paid top-up (`CreditsKept`); and that the newest period and its cancellation are either in the
  profile or awaited (`PeriodsKept`, `CancelsKept`). That the newest period exists is a lemma by
  well-foundedness (`GreatestTime`). `GrantsKept`, on top of it, says that a paid top-up is still
  announced or has been given, and that its receipt comes with its credits or with the death of
  its handler (`cut`); the second part is what a repeated delivery rests on, which adds nothing to a
  receipted order. `PaidIsGranted` takes `CreditsArrive` from it: unless a write was
  lost unnoticed, at most once, and once but for that death. Theorems `AccountInvariant`, `RefundsKeepTheirAllowance`,
  `PaidIsGranted`, `PageShowsTheAccount`.
* `PendingHandoffProofs`: `HandoffInv` says that the slot holds at most one message, which is unsent and
  carries the scope, source and thread it was written with (`SlotKept`), and that what was sent was
  sent once, to a place that fits (`SentKept`). It needs the page addresses (`Plain`: a conversation
  has no digest in its address) and that a fresh thread id is new. Theorems `HandoffInvariant`,
  `SentOnceWhereItWasWritten`.
* `TaskLiveProofs`: `LiveInv`. `RowsInv` says that a version stands for one row and none is newer than the
  committed one; `SharedInv` that, while the listener is up, the last event on its way is the
  committed row and a read made since makes up for what was missed, and that no card shows a row
  newer than the snapshot, or than what is still to arrive when there is none; `RetryInv` that an
  attempt is that of the failure its card shows; `PageInv` that a change not yet rendered is counted,
  awaits its timer or is not read yet. Theorems `LiveInvariant`, `ViewsComeToAgree`, `CardsOnlyMoveOn`.
* `ChatProofs`, about `CodeHighlight`, `ChatSession` and `AgentRun`. `HighlightInv` adds to the property that cached and later
  tokens are filed under their own text's key (`TokensFiled`), that a mounted block was rendered with
  tokens of its key (`RenderedOwn`) and that only mounted blocks have an effect due
  (`EffectsOfMounted`), for an effect acts on the text of its block.
  Theorem `BlocksShowTheirOwn`.
  `ChatInv` says that a stored reply is in its turn's state and that one turn of a thread can still
  change (`ServerInv`); that no copy of a reply, in a row, an event, a snapshot, a buffer or an answer,
  says "cancelled" of a turn that is not (`CancelInv`); and that, while the listener is up and the last
  snapshot did not fail, a stored reply is the last event on its way about it, or else in the snapshot
  that no event has touched, or else received (`RowsInv`). Received (`Held`) means buffered, shown,
  replaced by props, or taken back by a retry that the server has not answered: that last case
  is closed because the server then still holds the failed turn, so that its answer is an event.
  Theorems `ChatInvariant`, `PageConverges`, `RepliesStay`.
  Last, of a run of the agent: `RunInv` relates its phases to its outstanding calls, the budget to what
  was given, and what the run believes (`waiting`, `quota`) to what is durable. `AllowanceKept` is
  `AnswersWithinAllowance`; `PromiseKept` is the refinement `AgentRunSpec => Promise!TurnSpec`, one
  step per action, each a step of `TurnOutcome` or a stutter.
* `NavigationProofs`: `NavInv` adds to `SwitchesHold` that the messages shown are handed over with
  their thread's identifier (`ShownIsActive`) and that a selection or an initialization loads a
  thread, a list only for a signed-in reader (`LoadsThreads`). `Leads` is what the reader's choice
  rests on. `ChoiceLeads`: while a choice stands, every address change, initialization and selection
  that is still to be handled leads to the chosen thread, or the next effect is skipped as the
  reader's own. `FreshLeads`: the identity of the first render is remembered only while the address
  stays bare and nothing loads, and an effect never finds it stored. `NavAssumption` says that the
  markers of the model are no thread, task or link. Theorems `NavigationHolds`, `ReaderIsFollowed`.
* `LibraryProofs`, about `PublicDigest`. `DigestInv` says that the row agrees with its outputs
  (`RowOf`: the published languages are those of the valid outputs, and a published bilingual task
  has both); that a page on its way holds the present row and outputs if nothing was written since its
  link was made, and whatever was written, an anonymous reader of a bilingual task got all of its
  outputs valid or none (`Loading`, `WholeOrNothing`); and what a rendered page shows (`Rendered`).
  The lemmas `SqlValidIs` and `ValidIs` say that what the database's gate lets pass, the page's parser
  shows in that language. Theorems `DigestInvariant`, `PagesShowWhatIsPublished`.
  Then `LibrarySearch`: `SearchInv` says that, unless a link from outside the box led somewhere
  (`stray`), the request under way is one the box remembers, and the last request it made is under
  way or is what the page shows (`OwnRequests`). Without it an answer could be taken for a foreign
  one and reset the draft. What `Without` leaves of a sequence is shown by the lemmas `UpTo` and
  `FilterExists`: it is a recursive function on the prefixes, and the set of lengths up to which it
  is as expected has no least gap, an induction that needs no operator. Theorem `BoxAgrees`.

Only model-checked: the liveness properties `EveryJobResolves`, `EveryContinuationResolves` and
`WrittenIsSent` (fairness and ENABLED are out of the prover's reach); `EvidenceIsWhole`,
`CatalogIsHonest`, `PluginAnswers` and `CardIsHonest`, whose operators fold over or filter sequences
by library operators the prover has no definition for; `ListIsHonest`, about sorted lists; and
`PageIsHonest`, about `ChatView`.

## 6. Departures without a run of their own

Met while modelling. The model follows the code; the properties are stated so that they hold of it.

* Pipeline. `_advance_task_progress` reads the progress and writes it in a second, unconditional
  statement (`workflow.py:61-64`). After a stall the two may straddle the terminal write of the worker
  that took the message over: the progress falls and the ended task is reopened, although
  `workflow.py:58` says "only move task progress forward". `retry_video_task` resets summaries of other locales although only the requested one is
  processed. A task may complete by the cache short cut while the summary a turn waits for stays
  pending. A summary row read before the transcript row is reused in any language
  (`workflow.py:213` against `:185`).
* Agent turns. A rerun's task receipt is swallowed by the failure notice of the first run
  (`20260828052805:223`, `task-agent.ts:181-182`). A request whose worker gave up may claim between
  the acknowledgement's check and its archive (`20260828052805:416` against `:404`).
* Agent run. A rejected source read stays cached. The lost answer of a committed submission or save
  is told as an error or as "completed" although the other is stored.
* Billing. A handler that dies after the receipt of a top-up (`webhooks.py:129`) and before its
  credits (`:150`) leaves a paid order without them: the next delivery answers "Already processed"
  (`:124`), though "your plan or credits will update after confirmation" (`i18n-messages.ts:339`).
  `PaymentsSettle` excepts that death and no other. `link_creem_customer`, `update_payment_order` and `add_credits` swallow database errors; a
  `subscription.paid` before the customer is linked matches no row. The Pro button is enabled while the profile is unknown.
* Chat. An idle `initialMessages` effect can replace newer content (`useChatRealtime.ts:101-102`). The
  "thinking" row vanishes early on a second question. A legacy marker in a later message takes the
  task's card away. `taskRetryError` hides the retry button. A draft of the welcome box is lost when
  history arrives. A pending frame still pulls a reader down who has just scrolled up.
* Code blocks. A rejected highlighter promise is cached for ever; a key collision shows the tokens of
  another text.
* Navigation. Selecting a thread while bootstrapping leaves `isBootstrapping` set
  (`useThreadNavigation.ts:272-273`). A late `onFinish` of an unmounted container pulls the view back.
  A thread-only URL is taken for a new thread before the session is known. A failed lookup makes
  `resolveOrCreate` create a second thread. `handleSelectTask` has no caller.
* Thread list. PATCH on a deleted thread restores it (`route.ts:75-81`); a late PATCH answer or list
  read overwrites newer cached rows until the next read; "more" may add nothing.
* Task rows. `docs/frontend_data_plane.md:59-60` promises a read on SUBSCRIBED that
  `TaskDataGroup.tsx:165-178` does not make. Overlapping summary reads apply in order of arrival.
  `primeTask` drops a forced read while one is in flight (`task-live.ts:31`).
* Handoff. Beside the messages of the landing page, one written on a bare `/chat` before `replace`
  puts the thread into the address is refused by every conversation as well (`pending-handoff.ts:58`).
* Published digests. A private task has no published languages, by which its page filters the
  summaries (`page.tsx:295`), so its owner reads "Summary not available yet" of a completed task.
* Library. A link to the address already shown keeps the filter (`CommunityTemplates.tsx:656`); going back to
  page 2 after a slow restore ends at page 1; a change of topic loses the draft; the SQL order has no unique
  tiebreaker. Legacy rows with alias tags appear on no page.
* Plug-in server. No timeout and no cancellation of a CLI run; `chunk.toString()` breaks characters that
  straddle two chunks (`server.mjs:51`); a call without an id is answered without one; a `null` line
  rejects unhandled.

## 7. Not modelled

Podcast discovery is a scheduled batch that alone writes its table. The summariser, formatting and
text utilities are transformations without shared state; `TaskPipeline` keeps whether a summary was
produced. Caption and video providers are HTTP clients whose answers are nondeterministic here.
Operations and acquisition reporting only read. Nothing calls the subscription functions of
`useTaskNotification`. Marketing pages, UI primitives and wording keep no state of their own. Left
out of modelled components: prompts and model routing, message metadata projections, ownership
checks, the URL allow-list, money amounts and layout. `PROJECT.json` gives each component's reason.

## 8. Plan

1. Proofs of `PageIsHonest`, and, with filters and folds stated as recursive functions on prefixes
   as `Without` is, of `PluginAnswers`, `EvidenceIsWhole`, `CatalogIsHonest` and `CardIsHonest`.
2. The row locks of `submit_agent_video_task` and of terminal writes, taken in opposite orders.
