# AgentHub verification project

AgentHub is a chat application in which several AI agents work in one
conversation. A user message starts *runs*; a run of an *orchestrator* agent
plans tasks, asks the user to approve the plan, executes the tasks as child runs
of other agents and writes a summary. This directory holds TLA+ models of the
parts of the program where order matters, the TLC configurations that check them
on small instances, and theorems about them with proofs for TLAPS.

`AR` below is `src/src/server/agent-runner.ts`.

## 1. The system

One Node process serves everything. Its parts, from the user inwards:

| layer | where | what it is |
|---|---|---|
| UI components | `src/src/components` | React components; they read the client store and call the HTTP routes |
| client store | `src/src/stores/app-store.ts`, `components/stream-provider.tsx` | one store per browser tab, filled by the events of an SSE connection and by fetches |
| routes and services | `src/src/app/api`, `src/src/server` | request handlers, the agent runner, the approval stores, the tools |
| adapters | `src/src/server/adapters` | translate the stream of a vendor's SDK or CLI into `StreamEvent`s |
| database | `src/src/db` | SQLite, synchronous driver |

JavaScript runs one handler at a time, so all the concurrency is in what may
happen at an `await`. The database driver (better-sqlite3) and the file calls of
the tools are synchronous: an `await` on nothing but them comes back before any
timer, request or stream of another handler is looked at. The places where others
really get in are timers, the network and the streams of models, child processes,
the decisions of users, queues of waiting callers, and a restart of the process.

The models have one action per stretch between two such places. `Approvals` and
`TaskQueue` have a state ("calling", "next") for a handler in the middle of such a
stretch, and `Quiet` keeps everybody else still until it is over. `DispatchDag`
and `RunTranscript` are finer than the code: they also let an abort in at awaits
that wait for the database only, so what holds there holds in the program.

### Components, their state, operations and interactions

| component | state | operations | talks to |
|---|---|---|---|
| Sub-agent semaphore (`AR` 157-212) | counter, FIFO queue, abort listeners | `acquire(signal)`, release function, `drain` | every `runChildTask` of every orchestrator run shares one instance |
| EXECUTE stage (`AR` 743-970) | results map, remaining set, attempt counter of a task | `executeDag`, `runChildTask`, `markRemainingTasksAborted` | semaphore, child runs, event bus, write evidence |
| Orchestrator rounds (`AR` 395-595) | round, merged results, plan items by id, approved plan | plan, review, execute, aggregate | review store, EXECUTE stage, adapters |
| Plan review store (`pending-dispatch-plans.ts`) | map of open reviews with their resolvers | `register`, `attachResolver`, `approve`, `revise`, `reject`, `cancel` | POST route, `reviseDispatchPlan`, `waitForDispatchPlanReview`, event bus |
| Plan compilation (`dispatch-plan.ts`) | none (pure) | `compileDispatchPlan`, `validateDispatchPlan`, `collectDependencyClosure`, `shouldReplan` | orchestrator rounds, review store |
| Event bus and SSE (`event-bus.ts`, `api/stream/route.ts`) | listeners; no history | `publish`, `subscribe` | every tab |
| Client plan card (`app-store.ts`) | `dispatchesByRunId` | reducers of `dispatch.*` events, `setPendingDispatchPlansForConversation` | SSE, GET of open reviews, POST of decisions |
| Approvals inside a run (`pending-writes.ts`, `pending-bash-commands.ts`, `pending-questions.ts`) | maps of open requests | register, decide, cancel | `fs_write`, `bash`, `ask_user`, the SDK's permission bridge, client dialogs |
| Approval dialogs (`app-store.ts`, `ask-user-question-dialog.tsx`) | lists of requests in the tab | reducers of `*.pending` and `*.resolved` | SSE, POST of decisions |
| Write conflicts and evidence (`dispatch-file-writes.ts`, `dispatch-run-evidence.ts`) | per-run maps in memory | record, merge, compare, clear | EXECUTE stage, tools |
| Run lifecycle (`AR` 228-345, 1510-1812) | `activeRuns`, the run's row, its messages | `run`, `abort`, `executeRun`, `consumeStream`, `persistEvent`, `finalize` | adapters, database, event bus |
| Conversation service (`conversation-service.ts`) | messages, run rows | send, withdraw, regenerate, edit, clear, `reviseDispatchPlan` | run lifecycle |
| Adapters, tools | CLI sessions, none | streams, tool calls | run lifecycle |
| Resource locks (`resource-lock-service.ts`) | rows | acquire, release, expire | task queue, workflow runner, employee runtime |
| Task queue and continuation plans (`scheduler-service.ts`, `agent-continuity-service.ts`) | rows | enqueue, scan, process, cancel | locks, employee runs |
| Workflow runner, employee runtime, runtime control, recovery | rows | run nodes, record steps | locks |
| Optimistic locks, collaboration, budgets, gateway | rows | compare and raise a version, count | database |
| Deployment | child processes | start, stop, publish | database, files |
| Coverage, report and catalogue services (about 150 files) | rows and static tables | list, summarise | database |
| Mobile client, desktop shell | | a second client of the routes; a process wrapper | |

`PROJECT.json` repeats the list with the status of each part.

### What is hard in it, and what makes each component correct

The full list, each at its line, is under "hazards" in `PROJECT.json`.

* **Semaphore.** Releases, aborts of queued callers and new callers interleave.
  Correct: the counter is exactly the slots that are out and never exceeds the
  limit; nobody waits while a slot is free; grants are first come, first
  served; every waiter is settled.
* **EXECUTE stage.** Aborts of the run or of a child at every await, retries,
  failed gates, exceptions. Correct: a slot is held exactly while the task runs,
  on every way out; nothing starts before its dependencies, or after the abort;
  one `dispatch.end` per task that agrees with the results map; a failure skips
  everything downstream and nothing else; the stage ends when its child runs do.
* **Rounds and review.** Decisions from several clients, an approval that
  compiles the plan a second time, remedial rounds over older results, the abort.
  Correct: the first decision is final; only an approved plan runs, once; no
  review outlives its stage; remedial rounds build on known results; the
  aggregation sees every task; outside the stages where a model works only an
  open review can hold a run up, and an abort ends it.
* **Client card.** Events and snapshots travel on two connections, and one of
  them may break and lose what it carries. Correct: what a card with buttons
  shows is what the server holds under that id; with the stream drained the card
  offers exactly the open review.
* **Approvals.** Requests of parallel tasks, decided by either client, cancelled
  by two kinds of abort, with writes that change the disk inside the route, and
  retries that write under another run id. Correct: an entry and the call that
  waits for it live and die together; a late click writes nothing; the conflicts
  a wave reports are the real ones, apart from what commands and the SDK write
  unseen; a running command hears the abort; the
  dialog leads to every question that waits.
* **Run and transcript.** An abort or an error at any point of a stream, several
  tool calls under way, three counters that must agree on the index of a part.
  Correct: the tab rebuilds the rows; a run that did not complete leaves no call
  open, answers none twice and says once, at the end, why; nothing changes after
  `run.end`; an aborted run ends aborted.
* **Conversation.** Withdrawals that wait 500 ms for runs they abort, found by
  comparing milliseconds, while other requests come in; a message that several
  agents answer; restarts that leave rows `running`. Correct: nothing of a
  withdrawn message stays and no run of it goes on, which the wait does not
  guarantee (finding 5); `running` is true until a restart; the answers to a
  message are those of one request.
* **Locks and queue.** Several processing calls with stale lists, partial
  acquisition, time to live, exceptions, a restart. Correct: a resource has one
  holder; two executions never share one unless a lock ran out; locks, rows and
  plans come back on every path.

## 2. The modules

| module | models | extends or instantiates |
|---|---|---|
| `SlotPool` | what the semaphore promises: an abstract pool | |
| `SubAgentSemaphore` | class `Semaphore` | `SlotPool` by refinement |
| `DispatchDag` | `executeDag` and `runChildTask` for several orchestrator runs | `SubAgentSemaphore` |
| `DispatchPlan` | compile, validate and close a plan (operators) | |
| `PlanReview` | review store, its requests, registration and cancel | `DispatchPlan` |
| `PlanGate` | what the review gate promises: only a granted plan runs, once | |
| `OrchestratorRun` | `executeOrchestratorRun` inside `executeRun` | `PlanReview`, `PlanGate` by refinement |
| `ReviewCard` | event bus, SSE, reducers and snapshot of a tab | `OrchestratorRun` |
| `Approvals` | the tool calls of a wave, the three stores, the workspace, the conflict check | |
| `ApprovalDialogs` | the lists of requests in a tab | `Approvals` |
| `MessageParts` | the list of parts of a message: assign, push, close open calls (operators) | |
| `RunTranscript` | a run of a simple agent: adapter, `consumeStream`, `persistEvent`, `finalize`, and a tab | `MessageParts` |
| `Conversation` | the rows of a conversation: messages, runs, withdrawal, restart | |
| `ResourceLocks` | the rows of locks and what is done to them | |
| `TaskQueue` | one queue, its calls, continuation plans and workflow nodes | `ResourceLocks` |
| `SubAgentSemaphoreProofs`, `DispatchDagProofs`, `OrchestratorRunProofs`, `ReviewCardProofs`, `ApprovalsProofs`, `RunTranscriptProofs`, `ConversationProofs`, `TaskQueueProofs` | theorems and proofs | the module in their name |
| `MCDispatchDag`, `MCOrchestratorRun`, `MCReviewCard`, `MCApprovals`, `MCConversation`, `MCTaskQueue` | instances for TLC | |

### SubAgentSemaphore

The constant `Task` names the callers, `Parent` the signals, `ParentOf[t]` the
signal a task's `acquire` listens to. `active` is the counter, `queue` the FIFO
list, `slot[t]` how the call of `t` stands (idle, waiting, held, released,
rejected), `aborted` the signals.

`Acquire(calls)` takes a *sequence* of callers because `executeDag` starts a
whole wave in one block: each is granted at once while a slot is free, else
queued, and all are refused when the signal is aborted. `Release(t)` is the
once-only release function together with the `drain` it calls, `Abort(p)` all
the listeners of one signal. `SlotPool` forgets counter and queue and keeps who
waits and who holds; `PoolSpec` says that the class implements it.

### DispatchDag

`dag[p]` is the place of run `p`'s loop, `stage[t]` the await at which
`runChildTask` of `t` stands, `result` the results map seeded with the tasks of
earlier rounds (`External`), `bound` the tasks whose result carries the artifact
a later task may need, `attempt`, `raw` and `childSig` the current child run,
`ends` the `dispatch.end` events of a task, `gone` the runs that have left
`activeRuns`.

| action | code |
|---|---|
| `LoopTop`, `StopAborted` | the block at the top of the `while` loop: record the wave, note the abort, skip pass, missing inputs, start the next wave |
| `WaveRejects` | `Promise.all` rejects |
| `SlotDenied`, `SlotGranted`, `PromptBuilt` | `acquire` settles, the prompt is built, the first child run starts |
| `ChildStops`, `ChildResolves` | the child's adapter stops and its status is chosen; its `finalize` is done |
| `Evaluate`, `Pack`, `GateFails`, `NextAttempt` | required commands and report; project artifact; a failed gate; another child run |
| `TaskThrows` | a database or file operation of `runChildTask` throws (tasks in `Faulty`) |
| `AbortRun`, `AbortChild` | `AgentRunner.abort` on the orchestrator run or on a child |
| `RunGone` | the orchestrator run leaves `activeRuns` |

The skip pass looks at the plan in plan order and sees the skips it made
earlier in the same pass. `IsSkipPass(p, res, S)` states what the pass does as a
condition on the set `S` it skips, without a loop; for a plan without repeated
tasks exactly one `S` satisfies it.

### DispatchPlan

A plan is a sequence of task records. What the patterns of the compiler find in
a task's wording is data of the task (`says`): the tasks it names, the topics it
reads and makes, whether it asks for an artifact or a review, whether it is about
code.

| operator | code |
|---|---|
| `Inferred` | the dependencies `compileDispatchPlan` adds: tasks named, topics, a review after everything that delivers |
| `Normalized`, `NextOutput` | `normalizeTaskContract`: a code task gets a required project output under a free id |
| `Compile` | both, and the sources of the inputs as dependencies |
| `Sound`, `Valid` | `validateDispatchPlan`, with the tasks of earlier rounds |
| `Upstream`, `Acyclic`, `ClosureEnds` | the depth-first searches of `assertAcyclicDispatchPlan` and `collectDependencyClosure`, as what can be reached within as many steps as there are tasks |
| `Merged` | `planItemsById` and `mergeExternalPlanItems` |

### PlanReview, PlanGate, OrchestratorRun

`reviews` is every review ever registered, in order, with its verdict; the open
ones are the entries of the store's map. Every request is one step: what
`reviseDispatchPlan` awaits before `revise()` is the database. `Register`
includes the look at the signal right after the registration. `Approve` compiles
and validates the registered plan again, as `approve()` does; a plan that is
refused now stays open.

`phase[r]` is where the run waits, `approved` the plan in execution, `planned`
the tasks in `planItemsById`, `results` the merged results, `status` what
`executeRun` decides for the row.

| action | code |
|---|---|
| `PlanFails`, `NoPlanMade`, `PlanMade` | `runPlanStage` throws, returns without a plan, returns one that is compiled, validated and put up |
| `ReviewResolved` (`Launch`, `Replan`, `Decline`) | the promise of `waitForDispatchPlanReview` resolves |
| `ExecuteReturns`, `ExecuteThrows` | `executeDag` returns its results, or throws |
| `AggregateEnds`, `RunEnds` | the AGGREGATE stage ends, `finalize` is done |
| `AbortRun` | `AgentRunner.abort`; cancels the open review |

The EXECUTE stage is one step, whose `Outcomes` are those of `DispatchDag`: any
status per task, where a task that is not skipped has complete dependencies, plus
the flag that two tasks wrote different contents to one file. If the closure over
the tasks of all rounds has a cycle, the task's prompt cannot be built and only
`ExecuteThrows` is left.

`PlanGate` is the promise of the whole gate; the refinement reads `shown` off the
open review, `granted` off a review that is approved while the run has not
resumed, `running` off `approved`. The gate lets a grant stand for the plan shown
or a stricter one (`WithMoreDeps`): that is what the second compilation can do.

### ReviewCard

`wire` is the SSE connection of one tab, which keeps order; every server step
appends the events it publishes, in the order of the code. `Deliver` applies one
with the reducers of `applyEvent`. `Breaks` loses what is on the way,
`Reconnects` subscribes again; what is published in between reaches nobody,
because the bus has no history. `Fetch` is the GET handler of the open reviews,
`Respond` the application of its answer: the two are apart, and the stream may
deliver any number of events in between.

### Approvals, ApprovalDialogs

`at[t]` says where task `t` is: waiting for the model, inside a stretch of tool
calls, waiting for a user, running a command, letting the SDK write, in the
required commands and gates that follow a run, or done, with its result
("settled") or with one that names none of its runs ("dropped"); `attempt[t]` is
the number of its run and `batch[t]` how many calls of the model's answer are
left. `requests` is every request of the three stores. `file` is the workspace,
`records` what `recordFileWrite` keeps per run; `own` and `outside` are history
variables for the property only.

| action | code |
|---|---|
| `Answer`, `TurnEnds`, `RunEnds` | the tool loop of an adapter |
| `TaskSettles`, `Retry`, `TaskDropped` | after the run: the task has its result, another run follows, or the dispatch was aborted before it could |
| `WriteDirectly`, `Refused`, `RunCommand`, `Ask` | one call of `fs_write`, `bash` or `ask_user`: done at once, refused, spawned, or registered with the check of the signal |
| `ApproveWrite`, `WriteFails`, `ApproveCommand`, `Reject`, `AnswerQuestion` | the routes of both clients |
| `CommandWrites`, `CommandEnds` | a child process, of the model or of the required commands, writes a file at any moment; it exits |
| `SdkWrites` | the SDK applies the write it was allowed |
| `AbortRun`, `AbortDispatch` | the abort of one run or of the orchestrator's, with every listener |
| `WaveEnds` | `mergeFileWrites` and `detectWaveConflicts`; after an abort either they too, when no task is left for another wave, or the exception of `executeDag` |

The SDK makes one call at a time and writes files itself, and commands write what
they like, both without a record: that is the documented blind spot of the
conflict check, and `ConflictsExact` excepts the files they wrote. It also
excepts the files of a dropped task: `runChildTask` returns a result without run
ids when it sees the abort between two attempts (`AR` 883), so the merge does not
find what the task's earlier runs wrote. TLC shows both exceptions to be needed.
The approval that a required command may wait for is left out, and the wave
starts with its tasks running: what holds slots is `DispatchDag`.
`ApprovalDialogs` adds the
connection of a tab and its lists; a cancellation is announced by the store of
commands alone, as in the code.

### MessageParts, RunTranscript

`db` is the run's message rows in the order of their insertion, `row` the status
of its `agent_runs` row, `shown` and `shownRun` the tab's copies, `wire` the
events in between. A message is named by its position. `phase` is where
`executeRun` and the generator of the adapter stand.

| action | code |
|---|---|
| `Begin`, `Refuse` | `executeRun` up to `run.start`; no workspace or trigger message, so `finalizeFailed` without a row |
| `TurnStarts`, `Chunk`, `RequestFails`, `ReadingStops`, `AnswerRead`, `ToolStarts`, `ToolReturns`, `ToolsEnd`, `TurnReturns` | `CustomAgentAdapter.stream`, one message per turn, each event written and published by `consumeStream` |
| `SingleStarts`, `Reports`, `ReportEnds` | `ClaudeCodeAdapter.stream` and `CodexAdapter.stream`, one message in all |
| `Throws` | the adapter cannot be built, or the project artifact cannot be made |
| `Finish` | the rest of `executeRun` with `finalize`: open calls closed, row, message statuses, error text, `run.end` |
| `Abort` | `AgentRunner.abort` |
| `Deliver` | `applyEvent` in the tab |

An event's write and its publication are one step, and so is `finalize`: between
their awaits only an abort could come, which sets a flag that they do not read,
and the tab sees nothing but the events, in their order. The tab listens from
before the run; one that opens the conversation later is planned (section 6).
`AnswerRead` and the tool loop have no guard on the signal because the code has
none there; the adapters notice an abort at the points where they look.

### Conversation

`users`, `runs` and `posts` are rows with the millisecond they were made in;
`now` is the clock, because the code finds what to withdraw by comparing times.
`op[c]` is the withdrawal, edit or regeneration for which client `c` waits.

| action | code |
|---|---|
| `Send` | `sendMessage` with the responders it starts, none, one, or one for each agent mentioned (`Start`) |
| `Speak`, `Ends`, `AbortRun` | a run's first message, `finalize`, `AgentRunner.abort` |
| `Asks` | withdraw, edit, regenerate: checks and aborts, up to the wait; all of it if nothing runs |
| `Expire` | the 500 ms are over: the deletion, and what the request starts |
| `Clear`, `Crash` | `clearConversationHistory`; a restart, which keeps rows only |

Nothing is assumed of the 500 ms: `Expire` may come before or after the runs that
were told to stop are finalized, and any request of the other client may come in
between. The history variable `outlived` keeps the runs that were live when a
deletion reached them, so that the properties can say exactly what the wait does
not cover: `WithdrawnIsGone` and `OneAnswer` except these runs and nothing else of
the overlap, `NoDeadMessage` excepts nothing and is violated (finding 5).
`batch` names the first of the runs that one request started, which is what
`OneAnswer` compares when several agents respond.

### ResourceLocks, TaskQueue

`held` is the set of rows with status `held`, with owner and whether the time to
live is over; expiry happens when somebody asks, as in the code. `items` and
`plans` are the rows of one queue and of continuation plans, `job[w]` what a
processing call or a workflow node is doing.

| action | code |
|---|---|
| `Enqueue`, `Scan`, `Cancel`, `SetPlan` | the routes and `enqueueDueContinuationPlans` |
| `Process` | `processTaskQueue` reads its list, within the concurrency limit |
| `NextItem` (`Take`, `TakeFails`) | the item is marked, locked and started, or its failure is recorded |
| `Finish` | the employee run is over: plan, locks and row |
| `StartNode`, `EndNode` | an agent node of a workflow |
| `Expire`, `Crash` | a time to live passes; a restart |

Due time, priority and `maxItems` only choose and order the list of a call, so
the list is any choice in any order. There is one queue, with `autoComplete`;
an employee run lets others in only at its one wait, the probe of the desktop.

## 3. The runs

| run | instance | question and answer |
|---|---|---|
| `DispatchDag` | run p: a, b, and c that needs both; run q: d, and f that needs d, where d builds on an earlier round; 2 slots, 1 attempt | the safety of the EXECUTE stage: holds |
| `DispatchRetry` | run p: a; run q: f before d in the plan, f needs d; 1 slot, 2 attempts, a may throw | retries, exceptions and unresolved plans: slots, reports and dependencies stay right, the semaphore implements `SlotPool`, and every run comes to an end if no child run lasts for ever |
| `ReviewCard` | 1 run, 1 tab, 3 plans (one made stricter by an approval, one valid only after an earlier round), 2 reviews, 2 rounds, 1 snapshot, 1 outage | the rounds, the review store, the refinement of `PlanGate`, and liveness; card and store agree on id and plan, whatever the snapshot races and the connection loses; without a snapshot the events keep the card in step, after an outage from the next review on: hold |
| `RunTranscript` | 1 run with either kind of adapter, 1 tab, 2 turns, 2 calls, 2 text parts a message | tab and rows agree once drained, calls, error text, finality, growth, and an abort that reaches the tab: hold |
| `Approvals` | 3 tasks, one on the SDK, 1 file, 2 contents, 2 calls an answer, 2 attempts of one of the tasks, 1 request | stores and waiting calls, late clicks, conflicts: hold |
| `Conversation` | 2 clients, 2 messages, up to 2 responders each, 3 runs, 2 milliseconds, 1 restart | withdrawal, `running` rows, the answers of one request: hold |
| `TaskQueue` | 2 calls and a workflow node, 2 resources, 2 items, 2 plans, limit 2, 1 restart | locks, executions, rows and plans: hold |
| `DispatchReversed` | the chain a, b, c listed as c, b, a | violated: see finding 1 |
| `QuestionQueue` | 2 tasks, 2 requests, a tab | violated: see finding 2 |
| `AbortedCommand` | 2 tasks, 2 calls an answer, 1 request | violated: see finding 3 |
| `ApprovedPlan` | 1 run, 6 plans of two tasks (`MCOrchestratorRun`), 2 reviews, 2 rounds | violated: see finding 4 |
| `WithdrawWait` | 1 client, 1 message, 1 run | violated: see finding 5 |

What each property says, and of which code, is in the comment above it.
`PROJECT.json` names for each one a plausible bug of the code (`mutants`) under
which TLC finds it violated.

### Bounds

* `Limit`, `MaxAttempts`, `MaxRounds` are constants of the code (4, 4, 4). One or
  two slots with more tasks than slots give every kind of contention; with two
  attempts there is a first, a last and an await between them; the code tells a
  first round from later ones and the last from earlier ones, and two rounds give
  both.
* `MaxReviews` caps revisions, which the code does not. Two are a review and the one
  that replaces it, or one for each round, which is what store, rounds and card
  can mix up. At the bound a run cannot put up another plan, and ends through
  `PlanFails`: no property depends on the cut.
* `MaxFetches` and `MaxOutages` cap snapshots and outages. A second snapshot drops
  the first, so one is the worst case at any time.
* Tasks are few but the shapes are there: a join, a chain, a dependency on an
  earlier round, two tasks of one wave, two runs that compete. The plans of
  `MCReviewCard` reach the inferred dependency, the project output that a code
  task gets, an approval that makes the plan stricter and a plan that only a later
  round accepts; those of `MCOrchestratorRun` also a cycle over two rounds and a
  refused approval. In `DispatchDag` and `DispatchRetry` task a may throw.
* `MaxTurns` is 8 in the code; two turns give a message that is over while the
  next is open. Two calls can be under way together, be answered in either
  order, or be half answered at an abort; two text parts give one before and one
  after a call, or a thinking part and a text part.
* `Approvals`: a conflict needs two tasks and one file, whether a retry overwrites
  or restores a content needs two contents and two attempts; one request can be
  decided, cancelled or made too late. The wave's third task is the SDK's. The
  constraint `OneRetry` lets one of the two other tasks be retried: a retry of both
  or of the SDK's task writes nothing a single one does not.
* `Conversation`: two messages give an earlier and a later one to compare, three
  runs two responders and a regeneration, `Delay = {0, 1}` a run in its message's
  millisecond or after it.
* `TaskQueue`: two resources make a request that is granted in part; two calls
  with two items make a stale list.
* The semaphore's invariants are checked inside `DispatchDag`, which is its only
  caller, and proved for every caller (section 5).
* Symmetry is used where only safety is checked and the values are told apart by
  equality: contents and the tasks on the custom adapter (`Approvals`), clients
  (`Conversation`), items, calls and plans (`TaskQueue`).
* `CHECK_DEADLOCK FALSE` stands in six runs. In `Approvals`, `QuestionQueue`,
  `AbortedCommand` a wave that is over has nothing more to do; in `Conversation`,
  `WithdrawWait` and `TaskQueue` the bounds on rows and time leave nothing to do. In the others
  the end of all runs is an explicit step and deadlock is checked.
* Type invariants take part in the runs `DispatchDag` and `RunTranscript`. Those of
  the other modules were checked on the same instances, and those of
  `OrchestratorRun`, `ReviewCard` and `TaskQueue` are proved.

### Findings

1. **A plan listed in the wrong order breaks the propagation of a skip**
   (`DispatchReversed`, `AR` 763). The skip pass visits the plan once. A task
   listed before its dependency does not see that the dependency is skipped in
   the same pass; if nothing is ready the loop then throws `Circular dependency
   or unresolved task in plan` and the run fails, with no `dispatch.end` for the
   task. Plans listed in dependency order are not affected: `EveryTaskAccounted`
   and `SkipReachesDownstream` hold in `DispatchDag`.
2. **A question of an aborted run blocks the others** (`QuestionQueue`,
   `pending-questions.ts` 86). A cancellation publishes no event and no reducer
   cleans up, so the modal dialog goes on showing a question that nobody can
   answer, and a question of another run stays behind it while that run waits.
   `fs_write.resolved` is missing in the same way (`pending-writes.ts` 111),
   where spec 02 line 62 lists a run abort among its causes.
3. **A command started after the abort is not killed** (`AbortedCommand`,
   `tools/bash.ts` 316). The listener is added to a signal that has fired, and
   the tool loop makes the rest of the model's calls without a look at it.
4. **The plan that is launched is not the plan that was shown** (`ApprovedPlan`,
   `pending-dispatch-plans.ts` 82). `approve()` compiles a second time, and
   compiling is not idempotent: the output that a code task got the first time
   makes a later review task depend on it. If the code task depends on the
   review, the approval is refused as circular every time.
5. **A withdrawal does not wait for the runs it aborts** (`WithdrawWait`,
   `conversation-service.ts` 1090). The 500 ms are a sleep: a run whose adapter
   stops later, because a tool or a command (finding 3) does not hear the signal,
   inserts its error message behind the deletion, and it stays in the conversation
   for a message that is gone. The comment at line 1048 and spec 09 line 286 say
   that the wait lets `finalize` insert the dead messages so that they are deleted
   too.

More differences were seen in the models or read in the code, and have no run:

* A remedial plan may close a cycle with an older round's dependencies;
  `collectDependencyClosure` (`dispatch-plan.ts` 497) then does not come back and
  the run fails with a stack overflow, where spec 06 line 264 wants a clear error
  before the stage.
* An exception of `runChildTask` is not caught: the task has no `dispatch.end`
  (`AR` 866), `Promise.all` rejects (`AR` 788), and the orchestrator run fails and
  leaves `activeRuns` while the other child runs of the wave go on, out of reach of
  its abort. Spec 06 lines 332-336 catch the exception and report the task as
  failed. `NoOrphans` and `EveryTaskAccounted` hold of every other plan and name
  this exception (`Rejected`).
* Rejecting a remedial plan goes on to AGGREGATE (`AR` 502-513); spec 17 line 77 and
  spec 06 line 519 say a rejection runs no aggregation. `CompleteIsAggregated`
  therefore excepts a run whose last plan was rejected.
* A late snapshot puts a decided review back on the card (`app-store.ts` 448),
  against spec 02 line 304.
* The Claude Code and Codex adapters count their own text parts only, so text
  after a tool call overwrites the call and its result stays without one
  (`claude-code-adapter.ts` 461, `codex-adapter.ts` 350; spec 03 line 92). Server
  and tab do the same, so they stay in step (`TabInStep`).
* A withdrawal deletes by time, so a message sent during its 500 ms goes with it,
  where the comment at `conversation-service.ts` 1043 speaks of the last message
  and what it triggered.
* Spec 06 says `MAX_DISPATCH_ROUNDS = 2` (line 425) where the code has 4 (`AR` 225),
  and that AgentRunner never reruns a subtask (lines 349, 410) where
  `runChildTask` starts up to 4 child runs (`AR` 882).
* Spec 09 (line 263) shows the error message of a run with the status `error`; the
  tab sets it to `complete` on `message.end`, the row alone has `error`
  (`TabInStep` states the exception). The comment at `AR` 1783 adds the error to
  the run's streaming message, but a run that threw hands `finalize` an empty
  result, so its error always gets a message of its own.
* A regeneration compares with `gt`, so an answer whose run started in the
  millisecond of its message survives it (`OneAnswer` states the exception).

The task queue also does things that nothing in the repository forbids: a stale
list starts an item again that was canceled or is being executed, `Finish`
overwrites `canceled` and the status a user gave the plan, and a restart leaves
rows `running` that count against the concurrency limit for ever. `Take` and
`Finish` do them too; the properties speak of what holds in spite of them.

The models follow the code in all of these.

## 4. Fairness

Liveness is checked under weak fairness on

* the continuations of settled promises, which the event loop always runs: the
  loop of `executeDag` and the steps of `runChildTask` that wait for nothing but
  the database and the semaphore (`OwnStep`), a decided review
  (`ReviewResolved`), and `finalize` (`RunEnds`);
* the steps that wait for a model, a child run or a required command, *once the
  signal is aborted*. Until then they may last for ever: an agent may call
  `ask_user`, in the PLAN stage too (`AR` 611-617), and a child run or a command may
  wait for an approval, all without a timeout. The waits listen to the signal
  (`ask-user.ts` 94-102, `fs-write.ts` 100-112, `bash-command-approval.ts`), so an
  abort ends them;
* the run's own steps in `RunTranscript`, the delivery of events, and the steps of
  an adapter once the run is aborted: SDKs, requests and waiting tools listen to
  the signal, a shell command has a timeout.

Nothing is assumed of users, of aborts or of failures. `AbortTakesEffect`,
`AbortEndsRun` and `AbortReachesTab` speak of what happens after an abort.
`DispatchTerminates` has the rest as its hypothesis: *if* no child run and no
required command lasts for ever (`ChildrenEnd`), every stage ends; what it shows is
that nothing else holds one up, neither slots nor waves nor the runs that compete.
`DecisionsResumeRun` says that a run which waits waits for work in progress or for
a review that is open, so that no decision, of any client and however early, is
lost on its way; whether the work or the user ever comes to an end is left open.

## 5. Proofs

TLAPS checks eight modules, for every number of tasks, runs, slots, attempts,
reviews, rounds, requests, files, turns, tool calls, messages, clients, snapshots,
outages, workers and restarts, and every plan.

**Assumptions.** All are about constants, and TLC evaluates them in the runs.

| name | what it says |
|---|---|
| `SemaphoreAssumption` | finitely many tasks, a positive limit, every task has a run |
| `DagAssumption` | a plan lists the tasks of its run, each once, dependencies are tasks of the model, required inputs are dependencies, at least one attempt; plans need not be acyclic or in any order |
| `ReviewAssumption`, `RoundAssumption` | raw plans are sequences of tasks, with no further condition; at least one round; `NoPlan` is no plan |
| `CardAssumption` | the numbers of snapshots and outages are natural numbers |
| `BoundsAssumption` | the adapters are of the two kinds, at least one turn, the bounds are natural numbers |
| `ConversationAssumption` | the bounds and the delays are natural numbers |
| `ApprovalsAssumption` | finitely many tasks, "no content" is no content, the bounds are positive |
| `WorkerAssumption`, `QueueAssumption` | nobody is no worker, calls are workers, finitely many items |

**Semaphore** (`SubAgentSemaphoreProofs`). `SemaphoreCorrect` proves the type
invariant, `SlotBound` and `NoIdleSlot`. None is inductive alone: that no slot
idles needs to know that the queue lists exactly the waiting callers, each once,
and that the counter is the number of holders. `SemInv` is that conjunction.
`Acquire` is proved by showing that the callers of a wave split into a granted
prefix and a queued suffix, so the cardinalities add up; `Release` by a case on
whether somebody waits. `SemaphoreImplementsPool` follows: each step maps to a
step of `SlotPool`.

**EXECUTE stage** (`DispatchDagProofs`). The inductive invariant is `DagInv` (with
`SemInv`):

* `DagTypeOK`: the types of the stage, without those of the semaphore;
* `SlotsMatch`: `SlotsFollowTasks`, and a task that was never started has no slot;
* `EndsMatch`: which tasks have a `dispatch.end` is a function of `stage` and
  `result`, the step needed for "at most one";
* `ReadyFirst`: a task under way, waiting for its slot included, has complete
  dependencies and bound inputs; needed because the check is made at the top of
  the loop and the child run starts later;
* `FirstAttempt`: an attempt counter above 0 belongs to a task past its prompt.

`NextInv` has one step per action. Where a task's step concerns one task only,
lemma `OneOf` reduces the invariant to that task. From `DagInvariant` follow
`DispatchTypes`, `DispatchHoldsSlots` (with the bound on child runs),
`DispatchInOrder`, `DispatchReportsOnce`; `DispatchStopsLaunching` and
`DispatchResultsFinal` are action properties from the same invariant.

How a stage ends is a second induction, over `Endings`: what `dag[p]` says of
the results and of the tasks of `p`. `DispatchReturnsAll`, that a loop which
returns has all its results, and `DispatchLeavesNoOrphans` need no order of the
plan. `DispatchAccounts` and `DispatchSkipsDownstream` assume `InOrder`: each plan
lists a task after those it depends on. Then a task that is left, and the first
of those left in the order of the plan (lemma `FirstIsReady`), was either skipped
in this pass or is ready, so the loop never gives up. Without `InOrder` they are
false: that is finding 1. Any task may throw (`Faulty` is arbitrary): the theorems
except the runs one of whose own calls threw, since `Promise.all` then rejects while
others of the wave go on. That this says nothing of a run whose calls did not throw
although those of a competing run did is part of the induction: `Rejected(p)` once
true stays true, and only then may `dag[p]` end with tasks of `p` under way.

`DispatchImplementsSemaphore` shows that every step of the stage is a step of the
semaphore or leaves it alone, so the stage is a legal client: it releases only
what it holds and acquires only for callers that are idle.

**Rounds and review** (`OrchestratorRunProofs`). `IInv` is `StoreInv`, `RunInv`,
`ReviewsFollowRun`, `ApprovalsKnown` and `RoundsInv`:

* `StoreInv`: only plans that were compiled once are put up, so what an approval
  launches is in `Plan`;
* `ReviewsFollowRun` is inductive with the types of the run, because a review is
  open only for a run in phase "review" and is its latest;
* `ApprovalsKnown`: an approved latest review was valid against the tasks the run
  has planned, which are still the same when the run resumes; the promise is
  taken up later than the click, and this is what bridges the gap;
* `RoundsInv`: every planned task has a result except those of the plan in
  execution (`Accounted`), and in the first round nothing is planned before an
  approval (`FirstRound`), so a run that ends as complete without AGGREGATE has
  done no work, or its last plan was rejected.

The store changes in two ways only, one more review or one settled; each action
is shown to be one of the two and to touch one run (`OneRun`), which reduces
every conjunct to that run and every other run to "unchanged". The theorems are
`OrchestratorTypes`, `ReviewsFollow`, `RoundsKnow`, `FinalDecisions`,
`WorkIsReported`, and `RoundsImplementGate`, whose refinement mapping is read off
the latest review (lemmas `GrownViews`, `SettledViews`); the step that launches maps to `Launch`
because the plan granted and the plan launched are the same compilation.

**Plan card** (`ReviewCardProofs`). `CardsShowRegistered` rests on `WireShown`: a
`pending` event on its way names a review of the store, with the run and the plan
the store keeps for ever. `CardsInStep` needs to say where a review *is*:
`OnTheWay` holds of every run's latest review that was put up while the tab
listened. If it is open, the card `WillOffer` it: its event is the last one about
the run, or has been applied and nothing follows. If it is not, the card
`WillNotOffer` anything: the event that takes it off follows the one that puts it
on, or the card has done with it, and no other is under way. Lemma `ServerMoves`
reduces the steps of the server to four: nothing, a launch, a new review, a decision,
and `ServerEffect` says which events each sends; `OthersArrive`, `NoNewsArrives`,
`EndArrives` and `NewsArrives` say what these do to a card's future, and
delivering the head of the connection is the one remaining step. `Breaks` makes
`missed` the number of reviews, so what it loses is not claimed.

**Approvals** (`ApprovalsProofs`). `CallInv` pairs tasks with entries: a task waits
if and only if it has an entry, that is the only one, and its run is alive.
`StoresMatch` and `LateIsVoid` follow. For `ConflictsAreExact` the history `own` is
tied to the code's records (`RecordsMatch`: what a task last wrote is the record of
its last run that wrote) and to the disk (`FileMatch`: a file neither the SDK nor a
command has touched holds what some task last put there, or nothing), and nothing
of a task changes once the wave is done. The versions compared are those of the
tasks whose result names their runs; for a file that no dropped task wrote these are
all there are. That more than one version means two tasks that differ is counted
with the library's theorems on cardinalities.

**Transcript** (`RunTranscriptProofs`). Six of the seven properties of the run are
proved; no hypothesis is needed beyond `BoundsAssumption`. `Inv` is a conjunction of:

* `Types`, and `Messages`: while the run goes on, no message has a call or a
  result twice or a result for a call in `unanswered`, none has an error text, and
  only the last may be open;
* `Places`: where the adapter is, with `nextPart` equal to the length of the list
  it writes to (custom adapter) or not beyond it (SDK), so that no write leaves
  a hole;
* `Ending`: what the rows hold once `finalize` is through;
* `Wires`: `run.end` is last, and nothing is on its way once the tab has had it;
* `Mirror`: the events on the way, applied one after the other by the reducers, turn
  the tab's copies into the rows (`Trace`). Only with this can the events of a
  failing run be followed: the results, the error text and the message ends that
  `finalize` sends find in the tab what the rows had, not what the tab shows yet.

A step of the run appends to the rows and to the wire and keeps `Mirror`, because
the reducer does with the event what `persistEvent` did to the row; `Deliver` takes
the head off the trace (`TraceHead`). The hard step is `Finish` of a run that failed:
it closes the open calls of all messages at once, and publishes one event per result. The
results that close one message are followed by an induction on their number
(`NextClosed`, `PartlyClosedProperties`), the messages by one on theirs
(`ClosedToFacts`, `ClosingTrace`), and `FlattenSeq`, which puts the sequences of
events together, by one on the number of sequences (`FlattenJoins`). The error
text goes to the last message, or to a new one if the run has none (`ErrorTrace`).

**Conversation** (`ConversationProofs`). `Rows` says that rows refer to rows and that
times grow in the order of insertion. `RunningRowsAreLive` needs no more. The other
two theorems hold for any overlap of requests and any delay of `finalize`.
`History` is their inductive invariant: a live run's row says `running` until a
deletion has taken it (`LiveRows`), so the runs a deletion does not find live are
over; and a run with a later request for its message is over with its messages
gone, or was live when that request reached it (`Superseded`), which is `OneAnswer`
with the runs that have not spoken yet. The deletion compares times, so the proof
is about what `gt` and `gte` reach: an answer is not earlier than its message, nor
its messages than the run, nor a later message than an earlier one.

**Locks and queue** (`TaskQueueProofs`). `LockInv` says that rows are one per
resource, that a row belongs to a busy worker that needs the resource, or to
nobody, and that a busy worker that is not late has a row for each of its
resources, which is what excludes a second one; `ListsOK` that a call's list is not empty while it works and
that only calls have lists. `LocksAreExclusive`, `LocksComeBack`, `ExecutionsExclude`
and `QueueTypes` follow from `IInv`. `NothingLeftRunning` proves `RowsSettle` with its
own induction: a row or a plan becomes active only in `Take`, together with the job
that holds it, and every way out of the job writes both.

**Only model-checked.** Liveness: TLAPS has no rules for `ENABLED` and fairness
here. What the operators of `DispatchPlan` compute for every plan is not proved
either: the proofs use that compiling keeps the number and the ids of the tasks
and only adds dependencies, and the validator's conditions as they stand. The
library's induction theorems take an operator and cannot be used; where a proof
needs an induction over numbers, lemma `LeastOf` or `Induction` gives it for the
members of a set, from the library's theorem on well-founded relations.

## 6. Plan

Done: all modules of section 2.

Next modules, most important first:

1. `MessageFeed`, over `RunTranscript`: a tab that opens the conversation while a
   run goes on (`message-list.tsx` 90 fetches only while it knows no message of
   it), and one that reconnects.
2. Nested orchestrators: `DispatchDag` with a child that is itself an
   orchestrator. The validator refuses only the orchestrator's own id
   (`dispatch-plan.ts` 305), so it takes two orchestrator agents in one
   conversation; parents then hold slots while children wait.
3. The cleanup of write records and evidence when a dispatch is aborted.
4. Schedules and the workflow runner's nodes; budget counters.

Next theorem: that what `DispatchReturnsAll` and `DispatchAccounts` say of
`DispatchDag` is what `OrchestratorRun` assumes of its EXECUTE stage, stated as one
interface that both modules name.

## 7. What the models leave out

* The wording of prompts, events and messages, token counts, artifact contents.
  A message or a plan is a value that the properties tell apart and no more.
* Database writes are one atomic step; an error of the database is `TaskThrows`
  or the failing outcome of a stage.
* `report_task_result`, acceptance commands and the project artifact are
  nondeterministic outcomes of `Evaluate` and `Pack`.
* The agent's identity is not modelled: two tasks of a wave may use one agent.
* The components marked `not_modelled` in `PROJECT.json`, each with its reason:
  mostly row keeping, I/O or rendering. They are most of the lines of the
  repository: catalogues, reports, validators, schema and React views whose
  handlers are one synchronous stretch, with nothing for a model to interleave.
  The models cover the part of the code where order matters, which is small.

## 8. Running it

In this directory: `tlc -config <run>.cfg <module>` for a row of section 3 (the
modules are in `PROJECT.json`), `tlapm <module>.tla` for each of the eight proof
modules. The longest run takes three to four minutes with two workers, the proofs
a quarter of an hour.
