# gopheragent in TLA+

TLA+ models of gopheragent (Go, `src/pkg/`), the TLC instances that check them
and TLAPS proofs about them. gopheragent runs tool-calling agents: a caller asks
for a run of a session, the agent loop asks a model, executes the tools the
model asks for and persists the transcript, until the model answers.

Contents: [the system](#the-system), [the modules](#the-modules),
[runs](#runs-and-bounds), [fairness](#fairness), [proofs](#proofs),
[divergences](#what-the-models-disagree-with), [what is left out](#what-is-not-modelled),
[plan](#plan).

## The system

    caller --Run/Continue/Resume/Regenerate--> agent run --messages--> model (stream)
                                                 |  ^
                           tool calls of a turn  v  |  tool results
       loop detector <--AddCall/Detect-- tool turn --prompts--> person
                                         |   |  \--waves--> tool scheduler
                               tools <---'   '--hooks--> audit client --batches--> collector
                                 |
                       async tools (StartTask, CancelTask, SyncTasks, UpdateTask)
                                 |
                       async task manager --one worker = one agent run in its own session
                                 |
    session manager <--LoadHistory/SaveHistory/SaveAsyncTasks-- everything above

| component | state | operations | interacts with | hard behaviour | what makes it correct |
|---|---|---|---|---|---|
| tool scheduler (`agent/scheduler.go`) | none between calls; in-degrees, dependents and waves within one | `scheduleToolCalls` | called by the tool turn | arbitrary reference graphs, duplicate ids, cycles | every call once, after everything it references, as early as possible; an error exactly for a cycle, a duplicate or an unknown reference |
| loop detector (`agent/anti_loop.go`) | ring of call hashes, head, count | `AddCall`, `Detect`, rebuild from history | called by every goroutine of a wave | two critical sections per call, wrap-around, rebuild after a restart | the ring is the recent log; repeats are stopped; a rebuilt detector decides like the live one |
| tool turn (`loop_execute.go`, `hitl_gate.go`, `plan_mode_gate.go`, `speculative.go`, `resume.go`) | message per call, pending approvals, prompt lock, semaphore, plan mode, speculations, result cache | waves and their goroutines, gates, record, suspend, `Resume` | scheduler, detector, session manager, tools, person | goroutines of a wave share prompts and slots, timeouts race answers, crash between execution and save | a call runs once and only after it was permitted; nothing is lost; references hold real results |
| agent run (`loop_stream.go`, `loop_iteration.go`, `llm_call.go`, `regenerate.go`, `pruning.go`) | in-memory transcript, iteration, tool total, frames, speculation of the attempt | `Run`, `Continue`, `Regenerate`, `Resume`, retries, terminal frames | model, tool turn, session manager | cancellation at every frame, failed saves, crashes, retries after text or side effects | one frame that ends the run, durable before shown; balanced requests; limits hold; history only grows or is rewound by Regenerate |
| async task manager (`async.go`, `builtin/async_tools.go`) | active workers, semaphore, instruction buffers; the session's task map | `StartTask`, `CancelTask`, `UpdateTask`, `SyncTasks`, list, `WithMaxConcurrent` | agent run (a worker), session manager | read-change-write of one shared map without a lock; restart under running workers | slots are held by live workers and given back; rows tell the truth about workers; cancelled workers end |
| file session manager (`history/session_manager.go`, `fork.go`) | cache entry per session; one JSON file per session | load, save, title, soft delete, restore, fork, delete, list, purge | everything that persists | snapshot under the lock, I/O outside it, temporary file and rename, restarts | files are whole; tombstones hide; a purge takes tombstones only; what is durable was once the latest |
| audit client (`auditlog/`) | bounded queue, batch, timer, worker | `Send`, `Flush`, `Close` | hooks of the run, collector | full queue, timer against size limit, retries, Close against Send and Flush | accepted events leave in order, none lost; Flush is a barrier; the first Close drains |
| history, compaction, requests (`compaction.go`, `history_window.go`, `pruning.go`) | the stored log, its compaction records | compact, window, prune, bound, fork | agent run | a cut planned on a view and inserted into the log; cutting inside a tool turn; a budget smaller than the last turn | a request separates no call from its result, opens with a user message and keeps the one being answered; its trace points at stored positions; summaries leave no gap |
| memory consolidator (`agent/memory.go`, `memory/inmem.go`) | notes per scope, fire state, background goroutines | load, consolidate, host writes, `Shutdown` | agent run, note store | list, minutes of model time and replace-all against other writers; Shutdown against starts | a note is lost only by an eviction or a race the code documents; Shutdown has waited for what it found |
| in-memory sessions (`history/inmem_session_manager.go`, `background_summarizer.go`) | sessions, profiles, how far they are summarised | save, fork, delete, evict, summarise | agent run | a summary made outside the lock while its session changes | a profile was made from every message it claims to cover, and dies with its session |
| MySQL sessions (`history/mysql_session_manager.go`, `mysql_append_only_store.go`) | cache, known row counts, rows | save, truncate, tasks, fork, soft delete, purge | agent run | saves that fail half way, restarts, a changed mode | what a successful save stored is what is loaded |
| budgets and cost (`agent/budget.go`, `cost.go`) | spend per session, cost per run | guard, charge, rewind, reset | agent run | guard and charge in two critical sections around a model call | the runs pass the budget by less than one call each; their sub-agents are charged without a limit |
| reflection (`agent/reflect.go`) | best answer, its score | score, revise, adopt, discard | agent run | the last message is rewritten in place and restored | the answer kept is the first of the best ranked |
| permission rules (`agent/permissions.go`) | deny, allow and confirm lists | add, check | tool turn | a hand-written glob matcher | a decision is what the rules mean |
| tools, middleware, selector (`pkg/tools`) | registry with debug views, embedding index, rate limiter | register, wrap, look up, select; validate, wait, time out | tool turn | cached views; an embedder called outside both locks, lookups one by one after it; a deadline of its own inside the caller's | lookups give out what is registered, selections what was when it was looked up; a call starts in its slot and ends with the right error |
| SQL sub-agent (`builtin/sql_*.go`) | candidates, captured results | classify, limit, run, vote | tool turn, database | candidates end in any order, some without a result | only limited reads reach the database unasked; the reply is one candidate's, of the largest group |
| session tools (`builtin/tasks.go`, `memory.go`) | task lists, keys | create, update, list, emit | tool turn, parent stream | read after the change, sent after the read | the last list shown is the store's |
| search cache (`pkg/cache`) | map and LRU list | get, promote, set, expire | search tool | a hit is promoted after the read lock is gone | map and list hold the same entries, within the limit |
| skills (`pkg/skills`, `builder/skills.go`, `builtin/skills.go`) | a set per source, the merge | walk, admit, merge, activate | builder, tool turn | budgets that apply per source and to the merge | every skill the walk looks at is served or reported |
| providers (`pkg/llm`) | the stream under way | route, translate, collect | agent run | a stream may be cut at any event | an answer reported as cut is not taken for a whole one, calls are unique and announced |
| evaluation (`pkg/eval`) | trials, transcripts, report | run, capture, grade, aggregate, replay, match | agent run | concurrent trials, failing factories, cancelled suites | replaying the kept transcripts gives the live verdicts; a match earns credit only by distinct calls |
| events, telemetry, audio, builder, examples | see `PROJECT.json` | | | | |

The hazards of this code, each at its line and with the properties that watch
it, are the list "hazards" of `PROJECT.json`.

## The modules

| module | models | state and actions against the code |
|---|---|---|
| `ToolScheduler` | `scheduler.go` | `deps`, `indeg`, `waves` are the local maps of `scheduleToolCalls`. `Build*` are the validations and the graph, `Round` one pass of the `remaining > 0` loop, `DetectCycle` and `Finish` its exits. A wave is a set: its order is a function of the batch and nothing depends on it. |
| `LoopDetector` | `anti_loop.go` and its call sites | `ring`, `head`, `count` are the fields; `log` is a ghost. `ExecuteAndAdd` and `Detect` are the two critical sections of one goroutine, `AnswerWithoutRunning` the paths that never reach the detector, `EndTurn` the persisted messages, `NewRun` the rebuild (`SeedEntry` strips warnings as `loopDetectorFromHistory` does). |
| `ToolTurn` | `loop_execute.go`, the gates, speculation, `recordToolTurn`, `Resume` | one `pc` per goroutine: queued, check, plan gate and prompt, policy gate and prompt, ready, run, done. `lock` is `hitlMu`. `msgs` is the branch that wrote each tool message, `saved` the persisted turn. `Crash`, `Resume` and `RunInstead` end or restart the process's view of the turn; the host may flip plan mode at any time. Uses `ToolScheduler`'s meaning of waves through its own definition over sets, because a turn needs no more of the scheduler than the waves it returns. |
| `SessionTranscript` | abstract: what the agent promises of a persisted history | it grows, an open tool turn is only its end, is closed once, and only Regenerate removes anything, from a user message on. |
| `AgentRun` | the four entries, the iteration, retries, saves, frames | `phase` is where the run is; `store` the persisted and `msgs` the in-memory transcript. A tool turn is one step. Every save may fail (one within an iteration shows an error and the run goes on), `Cancel` may come at any frame, `Crash` between any two steps. Implements `SessionTranscript`. |
| `AsyncTasks` | `async.go`, `async_tools.go` | `rows` is the session's task map, `copy` what each process read of it, so each read and each save is an action. `worker` and `iter` are the goroutine, `tokens` the semaphore, `active` the map of live tasks, `pending` the instruction buffers. |
| `SessionStore` | abstract: a cached store with durable records | each operation changes one part of the latest record; what is durable is a whole record that was the latest. |
| `FileSessions` | `session_manager.go`, `Fork` | `mem` and `disk`; `op` is each call under way, with its snapshot. Each critical section of `sm.mu` and each file operation is an action. Implements `SessionStore` as long as no two calls are about one session. |
| `AuditBatch` | `batch.go`, `client.go` | `queue` the channel, `pending` the worker's batch, `timer`, `worker` where the goroutine is, `settled` the events exported or reported, `collector` what was received. |
| `Conversation` | `compaction.go`, `history_window.go`, `pruning.go`, `loop_iteration_helpers.go` | `log` is the stored history with its records; a request is an operator of it (`View`, `WindowStart`, pruning, budget), so the actions are what makes histories: runs, turns, interruptions, compactions, `Regenerate`, forks. A summary is the set of messages it tells of. |
| `Consolidation` | `memory.go`, `memory/inmem.go` | `notes` is the store, `fire` the `fireState`, `jobs` the goroutines from their `List` to their `ReplaceAll`, `bg` the WaitGroup; `taught` and `raced` are ghosts. |
| `MemSessions` | `inmem_session_manager.go`, `background_summarizer.go` | a call under the lock is a step; `flying` are the summaries being made outside it. |
| `RowSessions` | `mysql_session_manager.go`, `mysql_append_only_store.go` | `cache`, `known` (rows believed stored), `table` and `msgRows`; each statement may fail. `acked`, `torn` and `emptied` are ghosts. |
| `Budgets` | `budget.go`, `cost.go`, `llm_call.go` | `spent` is the tracker's usage, `cost` the accumulator of a run; hooks, call and charge are three actions, the forwarded usage of a sub-agent a fourth; `forwarded` is a ghost. |
| `Reflection` | `reflect.go` | one action per outcome of a pass; `ranked` is a ghost. |
| `PermissionRules` | `permissions.go` | the three lists; `globMatch` as the two-pointer matcher, against `Means`, what a glob means. |
| `ToolMiddleware` | `middleware.go`, `errors.go` | `clock` in ticks; the limiter's two critical sections are two actions, the wait lies between them. |
| `ToolRegistry` | `tool.go`, `selector.go` | `registry` with `tools`, `views`, `debug`; `index` the embeddings; a `caller` of the selector stands before, in or after the embedder, and then looks up what it chose name by name. |
| `SqlStatement` | `sql_agent.go`, `sql_validate.go` | one statement as tokens: classify, check, limit, send. |
| `SqlAgent` | `sql_agent.go`, `sql_consistency.go` | `cand` is each candidate's run, its open statements and capture; the vote is one action. |
| `SessionTools` | `tasks.go`, `memory.go` of `builtin` | change, `emitTaskList` and send are three actions. |
| `SkillSets` | `load.go`, `set.go`, `builder/skills.go`, `builtin/skills.go` | the walk name by name, then the merge, then activations. |
| `SearchCache` | `trigram_cache.go` | `items` and `lru`; the scan and the promotion of a `Get` are two actions. |
| `ProviderStream` | `router.go`, the three adapters | one action per kind of stream event; `past` holds the calls of earlier turns, which another dialect may translate. |
| `EvalSuite` | `runner.go`, `grader.go`, `judge.go`, `record.go` of `eval/` | each trial's goroutine, the pool, the report and its replay. |
| `Trajectory` | `eval/trajectory.go` | `placing` and `matched` are `matchSet`'s loop, `assigned` is `assignedExp`; `path` and `seen` are the calls of `augment` under way, whose beginnings and ends are the actions. The greedy in-order count is an operator. |
| `Ordered` | sorting and filtering as the Go loops of the memory store, the cache and the adapters do them | two operators defined without recursion, so that the modules that use them can be proved about. |
| `MC*` | the instances | the values of the constants; `MCAlgorithms`, `MCSessions` and `MCServices` also the choice of the component in focus. |
| `*Proofs`, `DataLemmas` | theorems, and the lemmas about numbers and sequences that several of them rest on | see [proofs](#proofs). |

Choices that hold for all of them:

- Messages, arguments and results are members of small sets, or the branch of
  the code that produced them. Call ids are positions where the provider makes
  them unique; the scheduler, which must survive duplicates, has ids as values.
- The order of results inside a turn is a function of the calls, so it is not
  state.
- Ghost variables (`log`, `runs`, `acked`, `overrun` and the like) never
  guard an action; the counters that bound a run do, and are named as bounds.
- `ToolTurn`: whether the policy allows, denies or escalates a call depends on
  the call alone.
- `AsyncTasks`: the task map survives a restart, as in a store that persists it
  (the file manager does not, see [divergences](#what-the-models-disagree-with)).

Composition. `AgentRun` has a tool turn as one step whose outcomes are the ends
of `ToolTurn`: all answered, suspended, fatal. A worker of `AsyncTasks` is a run
in a session of its own, with an end that is success, error or cancellation, as
`AgentRun`'s `RunEnds` allows. `SessionTranscript` is the promise both an
agent run keeps and every store has to store; `SessionStore` is what the file
manager makes durable of it. `Conversation` starts from the histories that
promise allows and adds what a request makes of them. `Budgets` composes the
tracker, the cost accumulator and the calls of several runs; `SkillSets` the
loader, the builder's merge and the tools that read it.

## Runs and bounds

Each passing run explores its whole state space. Deadlock is not checked where a
run of the system simply comes to its end: a scheduled batch, a turn that is
over, a session whose runs are used up, workers that are done, a closed client.
The model of such a system stops there by design; that nothing stops *earlier* is
what the liveness properties say.

Three runs hold several components that share no state: `algorithms`, `sessions`
and `services`. A behaviour of such a run moves the one component in focus, which
is chosen at the start; the others stand still in an initial state. The state
space is the sum of the components', not the product, and nothing is lost by it:
a step of one component neither reads nor writes a variable of another.

| run | instance | what it shows | why the bounds suffice |
|---|---|---|---|
| `algorithms` | batches of at most 3 calls over 3 ids; 2 goroutines on a ring of 3 with 2 tools and 2 argument texts; every relation of 3 expected to 3 recorded calls; every statement of 5 tokens; 2 skills in 3 sources; 2 rules against arguments of 3 characters; 2 in-memory sessions | layers and cycle verdicts are exact; repeats are killed and a rebuilt detector agrees; credit is earned by distinct calls; only limited reads pass; every skill walked to is accounted for; decisions follow the rules' meaning; profiles match sessions | duplicates, self references, 2- and 3-cycles and unknown ids all occur; the ring wraps; greedy and optimal matchings differ from three calls on; five tokens hold a nested LIMIT, a second statement and a comment behind one |
| `tool_turn` | six families of turns: every two-call turn of gated tools (attended or not, in plan mode or not), three-call turns deferred over two resumptions with a fault, three parallel calls under a cap of two, speculated turns; plan mode turned on or off by the host (`maxToggles`) | a call runs once, only when permitted and with its references resolved; none is forgotten; one prompt at a time; no more at work than slots; waves end | three calls are the fewest with a second wave that depends on two calls of the first, and with a cap that makes a goroutine wait; two resumptions let a turn suspend again after a resumption |
| `run_session` | 2 runs, 2 iterations, 2 calls a turn, a cap of 2, 1 retry, speculation, 1 fault (a failed save or load, an unknown tool) | one frame ends a run, durable; balanced requests; attempts leave nothing behind; the transcript's promise; every run ends | a second run starts from whatever a failed, cancelled, suspended or crashed one left; a retry follows streamed text and speculated calls |
| `async_tasks` | 2 tasks, 1 tool call at a time, cap none or 1, 1 event (restart, failed access or change of cap) | slots, live tasks, honest rows, cancelled workers end | two writers and one more actor are enough for each read-change-write to overlap every other |
| `audit_batch` | 2 senders, 1 flush, queue and batch of 2, 2 attempts, 3 events | order, no loss, what the first Close and each Flush vouch for, delivery order, everybody answered | the queue fills, a batch is split, an attempt delivers and fails, Close meets Send and Flush |
| `sessions` | histories of 8 messages with 2 bulky ones, a window of 2 messages, a budget of 8; 2 files, 2 writes, 2 failures or restarts; notes of one scope over 3 runs and one host write | requests are balanced and traced; summaries have no gap; files are whole and implement `SessionStore`; notes are kept | eight messages hold two tool turns, a compaction and a second one over its record; fork and purge need a second file, a failed persist and a restart two events; three runs let one job start while another is under way |
| `services` | rows of 2 sessions, 2 messages and 2 outages; 3 providers under 2 requests of 2 tool calls; 3 SQL candidates of 2 statements; 2 rate-limited calls; 2 tools with 4 registrations or middlewares under 2 callers of the selector, 2 refreshes; 2 trials; 3 queries in a cache of 2; 3 answers over 3 passes; 2 runs of 2 calls on a budget of 1, with 2 calls of their sub-agents; 4 session tool calls | see the properties in `PROJECT.json`, one per component | two actors and one fault more than a property needs; a failed save, a restart and another save need two outages; a vote needs three; an eviction a third query |
| `turn_decision_ignored`, `async_instructions`, `files_tasks_lost`, `glob_star`, `rows_inserted` | smallest instance that shows the disagreement | see [divergences](#what-the-models-disagree-with) | |

Distinct states: `run_session` 2 291 098, `algorithms` 2 188 410, `services`
1 369 828, `sessions` 845 828, `async_tasks` 786 946, `tool_turn` 759 582,
`audit_batch` 524 141. Every property of a passing run has a
mutant in `PROJECT.json`: a plausible bug in one mapped definition under which
the same run reports that property. The mutated forms stand in the modules before
the definitions they replace, marked as such; no specification uses them.

Several properties are conjunctions whose parts are stated and named on their
own in the modules, so that a proof or a reader can take one: `CallsAreExclusive`
and `CallsRunInTurn` of `ToolTurn` (a call runs once, one prompt at a time;
permitted, resolved, in its wave), `OneDurableEnd` and `AttemptsAreIsolated` of
`AgentRun`, `WorkersAreAccounted` of `AsyncTasks`, `FilesKeepPromises` of
`FileSessions`, `CallsMeanSettled` and `EverythingSettles` of `AuditBatch`,
`ProfilesMatchSessions` of `MemSessions`.

No symmetry is declared. In `algorithms` the tools of the detector give one
result: a result decides only the text of a warning, which the persisted messages
carry and the rebuilt detector strips.

Restrictions that are not bounds:

- `FileSessions.LoadedFirst`: a save comes after a load of the same session,
  because every caller in `pkg/agent` reads the history before it writes it. A
  client that saved first after a restart would write a file without the title
  and the tombstone the old one had.
- `FileSessions` is checked for one call at a time, and proved for any number on
  different sessions: with two on one session its saves can be reordered (see
  [divergences](#what-the-models-disagree-with)).
- `RowSessions` makes one call at a time, for the same reason; `Inserts` is FALSE
  in `services` because `rows_inserted` shows what an insertion breaks.
- `AsyncTasks.RowsTellTheTruth` excludes the rows in `overrun`, the ones another
  writer's stale copy or a failed access damaged: the lost updates the hazard of
  `async.go:117` describes. It says that this is the *only* way a row can be wrong,
  and does not watch the loss itself.
- The slot and liveness properties of `AsyncTasks` exclude the time after
  `WithMaxConcurrent` replaced the semaphore under running workers
  (`swapped`): the worker then receives from the new, empty channel and blocks.
- `ShownListIsCurrent`, `SavedIsLoaded`, `MemoryIsKept` and `ProfilesMatchSessions`
  name, in history variables, the ways the code is known to break them, and say that
  there is no other. What they set aside is the greater part of some hazards:
  - `disturbed`: calls of one session that overlap, and sends a full stream drops. What
    is left is that a call changes, then reads, then sends.
  - `torn`: saves that leave rows of two logs. `emptied`: sessions of which
    `AsyncTasks` or `SaveAsyncTasks` was called on a cold cache before `History`.
  - `raced`: notes written between the list of a consolidation and its replace-all.
  - `spoilt`: summaries that overlap, fail, come late, or whose session was cut back.
- `MiddlewareIsFair` keeps the distance of calls only while one of them waits at a time:
  calls that wait together start together, against "at most rps" (`middleware.go:183`).
- `StreamIsTruthful` speaks of cuts that somebody reports, the service by its reason or
  the SDK by an error. A stream that ends without a reason is taken for a whole
  response, as `anthropic/errors.go:48` documents, with an unfinished call dropped, or kept when
  its arguments happen to parse.
- `CallsRunInTurn`: a tool that was let through before the host turned plan mode on still
  starts in it. `speculative.go:45` calls running a tool in plan mode a correctness bug;
  nothing in the code looks again between the gate and the start.
- `CallsMeanSettled`: a `Close` after the first returns nil at once (`client.go:181`),
  so only the first vouches for the events; a later one says that no `Send` will add
  one. When the first gives up, an export under way may still arrive.
- `OneDurableEnd`: a failed save within an iteration and an unknown tool show an
  `ErrorEvent`, which `event_types.go:227` calls terminal, and the run goes on to its
  end. A consumer that breaks on the first frame of `Continue`, `Resume` or
  `Regenerate` gets none after it, and no run starts.
- `OverrunIsBounded`: sub-agents have no hooks, and their usage is charged to the
  session of the run that called them (`loop_execute.go:296`), so it is set apart. A
  refusal by the guard is retried like an error of the service, and goes through once
  the session was reset or refunded; how many retries there are is left open.
- `SkillsAreAccounted`: directories under the names to skip, deeper than the limit, or
  with no regular `SKILL.md` leave no trace, by design and with tests for it
  (`load.go:162`).
- `LookupsAreCurrent`: a selection is current tool by tool, each at the time of its
  lookup (`selector.go:160`); it can hold one that was replaced before it is returned.
- `ReplyStandsOnVote` says nothing of ties: the code takes the group seen first, where
  `sql_consistency.go:27` says the one with the fewest attempts.
- `ReplayAgrees` is checked with one turn a task (`EvalTurns = 1`), so the order of
  turns is proved and not checked; writing a transcript as JSON and reading it back is
  the identity.

## Fairness

Weak fairness only, on what the scheduling of the program guarantees:

- `ToolTurn`: `WF(Progress)`. Goroutines run, tools return, a prompt ends with an
  answer or its timeout (`hitl_gate.go`). No fairness on resuming, crashing or
  starting a speculation: a suspended turn may wait for ever.
- `AgentRun`: `WF(Progress)`. The provider's stream ends, timers fire, saves
  return. None on `Cancel`, `Crash` or on the caller starting a run.
- `AsyncTasks`: `WF` on a starting task (`StartTask` goes on), on the steps after
  its run has returned, and on the return of a run whose context was cancelled,
  since every model and tool call of the loop is given that context. A run that
  nobody cancels need not end.
- `AuditBatch`: `WF` on the worker, the timer and the stop signal. Every
  attempt has a timeout. Go's `select` is random among ready cases; with finitely
  many events to come, weak fairness is all it needs to mean here.
- All other modules have no liveness property and no fairness: either nothing in
  them must happen, or, as for the trials of `EvalSuite` and the goroutines of
  `Consolidation`, what must happen next depends on a model call that need not end.

## Proofs

Each theorem holds for every value of the constants under the named assumption of
its module (finite id sets, natural bounds, positive sizes, thresholds in order),
so also for the bounds that the runs put on counters. The argument is always the
same three steps, `Init => IInv`, `IInv /\ [Next]_vars => IInv'` and `IInv => Inv`;
what differs is what has to be added to the property to make it inductive.
`PROJECT.json` lists the theorems; every property of a passing run is stated by
one, but for those under [only model-checked](#only-model-checked).

`DataLemmas` holds what several components need: a set of numbers has a least one
(`LeastNatural`, which stands in for induction over numbers) and, below a bound, a
greatest, the facts about `Ordered`, about a sequence without one element, with one
more, or a stretch of one, about `SetToSeq`, and that the members of a sequence are
finitely many.

### The loop (`AlgorithmsProofs`, `ToolTurnProofs`, `AgentRunProofs`)

- Scheduler. `WavesAreLayers` and `CycleVerdictExact` say nothing of `indeg`, from
  which `Round` picks the next wave. `Counting` adds that an in-degree is the number
  of unscheduled references, `Unscheduled` that `indeg` has exactly the calls
  without a wave, `Disjoint` that waves do not overlap, and `NewlyReady` that a call
  which is ready now waited for the latest wave, which makes waves earliest.
  `StuckNeverScheduled` gives the cycle verdict: a set whose members wait for each
  other never loses a member, so a layering that finishes had none, and one that
  stops has the unscheduled calls as such a set.
- Detector. `RingIsRecentLog` (the k-th slot back from the head is the k-th latest
  call, while k is below the count) is inductive once the log is known to hold
  well-typed entries and a goroutine between its two sections to hold a raw result;
  two arithmetic lemmas (`Wrap`, `IndexValue`) carry the wrap-around for any ring.
  `FinalRepeatsAreKilled` follows with `JudgedInv`: when a turn is not fatal,
  either the goroutine that added last has its `Detect` still to come, or the log
  does not end in a repetition. `SeedMatchesLive` follows with `AheadInv`: where
  every turn has one call and each was executed, the log is the history, ahead of
  it by the call under way.
- Skills. `SkillIInv` gives each thing that is considered one fate: `WalkInv` a directory
  the walk has passed (turned away from without a trace, a skill of its set, or skipped
  for one reason) and none the walk has not reached, `MergeInv` a skill of a source's set or one it skipped. That a
  source's set is a part of the merged one while the source is merged (`FirstInv`)
  keeps the first of a name; the catalog's cost is a count, so admission adds a fixed
  amount to it.
- Permission rules. The matcher answers what a glob *means*: a way to cut the text into
  the stretches its items stand for. `Knows` is what a round of the walk has settled:
  without a star behind it, the rest of the glob must match the rest of the text;
  with one, what follows the star must match from the mark, or from a later place, on.
  `Pace` grows with every round until the walk stays, so the rounds `MatchRounds`
  allows are enough. The hypothesis is that no argument contains `*`: the source
  compares the two bytes before it looks for a wildcard, which is what `glob_star`
  shows.
- SQL. A statement without its comments is told by a recursive function of its
  prefixes (`Kept`), as is the depth of parentheses (`DepthAt`); that both have a value
  for every statement, and that a prefix decides them (`KeptOfPrefix`,
  `DepthOfPrefix`), are lemmas. What `ClassifySQL` saw is then what `EnsureLimit` saw and
  semicolons (`SemicolonsTrail`), its last statement begins behind the same cut
  (`LastStatement`), and that statement with a LIMIT is the only one of what is sent
  (`LimitedStatement`), at depth 0 because the parentheses match.
- Trajectory grader. `augment` is a step machine whose `path` holds its calls under way.
  `PathInv` makes the path alternate (each call asks in place of the one who holds
  what the call around it tries), so that giving along it keeps a matching
  (`MatchingInv`). An expected call that gets nothing leaves behind a set of recorded calls,
  all given, and all that their holders accept (`HeldInv`, from `SeenInv`: who was
  asked in vain accepts only what was tried); no later step enters that set. Any other
  assignment injects into the recorded one (`MatchedIsMost`): this is what makes Kuhn's
  matching maximum. The in-order count is a recursive function with a value for every
  transcript (`FoundExists`), ahead of any choice of calls in order (`NoMoreInOrder`).
- Tool turn. Per goroutine, `Standing` says which gates its position has passed,
  `Waiting` and `Deferred` what it waits for when it ended without an answer; `Shown`
  ties memory to what is persisted; `Speculated`, `Runs` and `MayStart` count
  starts: a call that may still start has one left of what faults and a deferred
  speculation allow. `Follows` keeps a repeated gated call behind its leader. From
  them, each call runs once, prompts exclude each other, the goroutines at work hold a
  slot each, no call is forgotten, and `CallsRunInTurn`, an action property: a tool
  starts only with permission, in its wave, with its references resolved, and in plan
  mode only if it was let through before. That the recursive function of the waves
  has a value for every turn is a lemma of its own.
- Agent run. `TranscriptInv` relates the in-memory and the persisted transcript in
  each phase (how one continues the other, where an open turn may be), `FrameInv` the
  frames shown and pending to the phase and to the last save (errors of a run that goes
  on come before the one that ends it), `CapInv` the tool total
  to the calls scheduled, `BoundInv` the counters to the limits. From them: one
  frame ends the run, only after its save or a failed one, so `OneDurableEnd`;
  balanced requests; no model call past the cap; and `Spec => KeepsTranscript`, the
  refinement of `SessionTranscript` with the persisted history for its state,
  crashes included. `AttemptsAreIsolated` rests on a second invariant over the
  first: `FreshInv` (a speculation belongs to the attempt under way), `ShownInv`
  (only that attempt has shown content) and `ReportInv` (a degradation consumed is
  filed until the one event that reports it).

### Workers and the audit log (`AsyncTasksProofs`, `AuditBatchProofs`)

- Async tasks. `ActiveInv` says between which steps a worker is in the map of active
  tasks; with `SlotsAreHeld` it gives `WorkersAreAccounted`. `RowsTellTheTruth` needs
  what each process is about to write (`IntentsInv`), that a copy which is not
  stale is the map but for those rows (`CopiesAreFresh`), that nobody has heard of a
  task before it is recorded, and that `SyncTasks` calls interrupted only what was
  cancelled or is over.
- Audit batch. `NoneLostOrReordered` is `accepted = settled \o pending \o queue`.
  `WorkerInv` adds what the worker's position says of batch and timer, `CloseInv`
  that a Send under way keeps the first Close from stopping the worker, that an exited
  worker left nothing, and which of the calls of Close came first, `FlushInv` that a barrier is never passed before it is
  settled. `ArrivedInv` adds, for `CollectorOrder`, that what the collector has is
  either decided or the very batch being exported.

### What outlives a run (`SessionsProofs`, and parts of the other two)

- File sessions. The promises and the refinement of `SessionStore` are proved under
  `OneCallPerSession`: no two calls under way are about one session. They may be
  any number, on different sessions; one client needs no hypothesis
  (`OneClientNeedsNothing`, the instance that `sessions` checks). Without it the code does not keep them, because an older
  snapshot may be renamed after a newer one. `Standing` says that what a call has
  read and is about to write still is so, `Kept` when the cache is the file, and
  each step of a call is brought into one form (`StoreStep`) that maps to a step of
  the store or to none.
- Memory. `NotesInv`: in a scope that nobody wrote to beside a consolidation, the
  notes a job listed are the notes there when it replaces them; the wait group
  counts the jobs; a Shutdown that drained has none left of those it found.
- In-memory sessions. `KnownIsCovered`: a session that none of the known ways has
  spoilt has one summary under way at most, and that one, or the profile, covers what
  `lastSumLen` counts. `GoneIsForgotten` keeps a deleted session's profile away.
- Conversation. `ConvIInv` says what every stored history is: an identity is given
  once and a call has one caller (`WellMade`); a system message is the prompt or a
  record before a user message, each tool message is in the turn that asked for it,
  and only the latest turn can have open calls (`Formed`); a record tells of what is
  before it (`Gapless`); and nothing is open while a run iterates (`Closed`). One
  lemma per kind of change keeps it: a record inserted where a compaction cuts
  (`CompactionProperties`), messages added (`ExtensionProperties`, `TurnExtension`),
  results made up for open calls (`PatchProperties`), a cut (`PrefixProperties`).
  `RequestShape` then says what view, window and budget make of such a history,
  whatever their sizes: a system block, then the history from a user message on with
  some sizes changed. `RequestStandsForHistory` follows from it, `SummaryIsGapless`
  from `Gapless`.
- Row sessions. `RowsAreGood`: the count is that of the rows, and the rows agree with
  the cached log below the last one it counts (the last is rewritten by each save).
  The hypothesis `Inserts = FALSE` is the premise on which the store refreshes one row
  only ("edits typically modify only the most recent assistant message",
  `mysql_append_only_store.go:95`); `rows_inserted` shows what happens without it. The proof attempt found a
  way to mix two logs that the run did not: `SoftDelete` drops the cached log and
  keeps its count, so a save that goes by that count and fails half way leaves rows
  of both (`Outdated`). `torn` names it now. `emptied` grows only where a call for
  the tasks installs a session without messages over a log that is stored.

### Services (`ServicesProofs`)

- Budgets. `OverrunIsBounded` is not inductive: a run that passed the guard may
  still be charged. `CommittedIsBounded` counts each uncharged call (`Uncharged`) at
  its most, `spent + MaxUse * |Uncharged| < Budget + MaxUse * |RunsOf| + forwarded`. Admission
  needs only the guard, because no more runs can be uncharged than there are; a
  charge takes one run out of the set; what a sub-agent is charged is added on both
  sides; refunds and resets only lower the left side.
- Reflection. `KeptIsBest` speaks of the times between scorings. `RankInv` holds at
  all times: something was ranked exactly when there is a best score, and then the
  answer kept is the first of the best. `LoserKeepsBest` and `WinnerIsBest` are the
  two ways a candidate joins the ranking; `MessageInv` says which text ends the
  conversation in each step.
- Tool registry. `LookupsAreCurrent` follows once a view in debug mode is missing or
  is the tool (`ViewsAreFresh`); the views made before debug mode, which may be out of
  date, are rebuilt when it is enabled. That an index is never younger than the registry
  (`Past`), and no registration goes back, makes what a caller gathers at least as young
  as what it ranked by (`Gathered`).
- Session tools. `ShownListIsCurrent` needs that an undisturbed session has at most
  one call in progress (`OneAtATime`) and that what it is about to send is the list
  (`SendsAreCurrent`).
- Middleware. `StartsInv`, `SpacedInv` and `BudgetUsedInv` carry the interval from what
  a call read of the limiter to its own start, and the cause of a timeout to the
  budget that ran out.
- SQL vote. A candidate that is done has no statement open (`RunsStand`), so the reply
  stands on captures that no longer change. `Candidates` is assumed finite.
- Evaluation. `EvalInv` keeps, for each trial, that the records of it are one for each
  turn it took, that it passed if all of them are good, and that the report is made of
  trials that are over; then a replay, which has only the records, says the same.
- Search cache. `CacheInv`: the list holds nothing twice, its members are the queries
  with an entry, and they are no more than the capacity. A promotion keeps it because
  it looks again, under the lock, whether the entry is there.
- Providers. `ProvInv`: the ids of a response differ (a service's number is new, an id
  Gemini's adapter makes up counts the calls of its name so far), an open block is the
  last and is not announced, and the phase says what has been sent of limits. The
  result is that an answer reported as cut is not returned as a whole one, and that each result of
  any earlier turn finds its call's name.

Most inductive invariants were checked with TLC on the instances above before they
were proved; where a step failed in the proof alone, the state it described was
looked for with TLC first.

### Only model-checked

- All liveness properties (`WavesEnd`, `RunEnds`, `CancelledWorkersEnd`,
  `EverythingSettles`) and everything that needs ENABLED.
- The counterexamples of the five divergence runs.


## What the models disagree with

Five runs exhibit a disagreement between the code and its own documentation:

| run | the code | its documentation |
|---|---|---|
| `turn_decision_ignored` | a decision for a gated call of a later wave is accepted by `Resume`; the turn suspends again at an earlier wave and the decision is gone | `resume.go:25` "so a decision can never be silently ignored" |
| `async_instructions` | instructions are drained when the worker's *run* starts, so one sent later is never delivered | `async.go:20` "drained at each iteration boundary", `async_tools.go:215` |
| `files_tasks_lost` | the snapshot written to the file leaves the task map out, so a restart forgets the tasks | `session_manager.go:199` "persists the wrapper to disk" |
| `glob_star` | `globMatch` takes a star that meets a literal star for that character: `*b` does not cover `*ab` (`permissions.go:224`) | `permissions.go:220` "* (any sequence, including empty)" |
| `rows_inserted` | a message inserted in the middle of the log, as a compaction inserts its record, never reaches the table, and another is stored twice (`mysql_append_only_store.go:93`) | `loop_stream.go:50` "SaveHistory atomically replaces the persisted log with msgs" |

Behaviour met while modelling that a reader of the code should know, without a run
of its own:

- Identical calls that are not consecutive are counted towards the kill threshold
  of `Detect` as long as they are within the ring (`anti_loop.go:185`).
- Between a goroutine's `AddCall` and its `Detect` another call may land, so
  `Detect` may miss a kill; by the end of the wave some `Detect` has seen it
  (`FinalRepeatsAreKilled`).
- The call that trips the detector has run, and its result is replaced by the
  sealing text.
- A degradation of a speculation that outlives its discarded attempt is not
  reported; a call whose policy would refuse it, or escalate it to a prompt, can have been
  speculated, although the docs of the option exclude "HITL-gated tools" (`options.go:237`):
  eligibility looks at the registry's flag and not at the policy.
- Append-only rows: `SoftDelete` drops the cached log and keeps its row count, so a save that
  follows and fails half way can leave rows of two logs (`Outdated` in `RowSessions`).
- `SoftDelete` repeated after a failed persist returns success without a write.
- A session file that cannot be read counts as empty, and the next save
  replaces it.
- `loop_stream.go:121` speaks of soft-deleted sessions as missing; `History`
  returns their messages.
- In `ModeBlocking`, `Send` keeps the read lock across the export.
- When scheduling fails, all calls run in one wave with results keyed by id, so two
  calls with one id overwrite each other's result (`loop_execute.go:54`).
- A fatal wave that also deferred approvals seals calls whose approval was already
  announced (`loop_iteration.go:104`).
- `needsApproval` asks the policy about the raw arguments while the wave asks it
  about the substituted ones (`resume.go:186`).
- `BaseDelay << attempt` overflows for large `MaxRetries` (`retry.go:52`).
- A full instruction buffer drops the instruction and the tool reports success
  (`async.go:279`); task ids are clock readings (`async.go:100`).
- `RunIterationMessage` sets and restores `EmitThoughts` without a lock
  (`loop_stream.go:791`).
- Two concurrent saves of one file session may rename their files in the opposite
  order of their snapshots, and a lazy load that read before a save may install
  the older log after it (`session_manager.go:563`, `513`, `139`).
- Compaction runs at the start of a run only: within a run that outgrows the window,
  or when the compactor fails, the window drops messages no summary covers yet
  (`compaction.go:190`, `history_window.go:33`); the next compaction covers them.
- Append-only store: a truncation that fails leaves rows of two logs; a failed
  read of the history degrades to an empty one that the next save writes; a purge
  leaves message rows behind; `History` still returns soft-deleted sessions.
- MySQL sessions: `AsyncTasks` on a key that is not cached, even for a row whose tasks are
  "null", and `SaveAsyncTasks` install a session without messages
  (`mysql_session_manager.go:270`, `288`). `History` serves that one from the cache, and in
  JSON mode the save writes it over the stored log (`440`).
- In-memory sessions: summaries of one session may overlap, and the later to
  finish wins with what it was given; `lastSumLen` is stamped before the summary
  exists; a summary may write the profile of a deleted session; `evictExpired`
  leaves tombstones and titles.
- The consolidator says it serialises per scope and does not; the
  documented default of three messages is six in the code (`memory.go:263`, `437`);
  its goroutine has no deadline, and the
  stamp set before a consolidation stays when that fails.
- Reflection calls pass by the BeforeLLMHooks and their usage is not recorded
  (`loop_stream.go:307`, `reflect.go:172`).
- With a tool selector, the selection replaces the registry that plan mode had given
  `exit_plan_mode` (`llm_call.go:178`); an older `Refresh` that ends last overwrites a newer index; tools
  registered later are missed until the next one; a blank query selects everything; `SelectRegistry` drops debug
  mode.
- A task list may be sent late, out of order or not at all (`tasks.go:150`).
- The limiter lets calls that waited together start together; its doc says "at most
  rps calls per second".
- SQL: a mutation never replaces the captured result, so a reply may show the rows of
  an earlier read; a semicolon with a comment behind it is not trimmed, and the LIMIT
  then follows as a second statement (`sql_validate.go:193`).
- Providers: Anthropic announces a call it put together itself at the end of the
  stream; OpenAI deltas without an index are merged; an empty finish reason counts
  as a clean end; a call of an earlier turn whose arguments do not parse makes every
  request to Anthropic fail (`anthropic.go:146`); Gemini's call ids are unique within a response only.
- Skills: of two with one name the first wins (`load.go:101`).
- Evaluation: a trial whose factory failed leaves no transcript, so a replay can pass
  a task that failed; a turn without a decisive grade passes; `OnTrial` and
  `OnTranscript` are called concurrently.
- A purge deletes what it listed, also what was restored in between
  (`session_manager.go:475`).
- One event that cannot be encoded fails its whole batch (`client.go:217`).

## What is not modelled

- Texts, logging, JSON layout, prompts, HTTP: no property depends on them.
- In `AgentRun`: compaction, the window, reflection, budgets and hooks, which have
  modules of their own. In `ToolTurn`: `OnToolResult` and the events of sub-agents.
  In `FileSessions`: times, prompt versions, queries by field, the legacy file
  format. In `AuditBatch`: `SendSync`, `ModeBlocking`, the hash chain, the event
  builders. In `RowSessions`: titles, the behaviour summary, the blob store, which is
  one statement. In `ProviderStream`: embedders, transcribers, vision.
- `plan_response.go` and the JSON helpers: single calls around the provider.
- Built-in tools other than SQL, tasks, memory and skills: one call to an outside
  service each.
- Events, hints, telemetry, audio, the builder apart from skills, examples: types,
  observation, construction and pass-through without a protocol of their own.

## Plan

What would add most next:

1. `ModeBlocking`, `SendSync` and the hash chain with `Verify` in the audit client.
2. Two runs of one session over one store, against `SessionTranscript`: the code
   leaves it to its callers to serialise them.
3. The background summariser over files and rows, where a profile is persisted.
