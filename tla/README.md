# PhoneBuddySDK in TLA+

A verification project for the Rust SDK under `src/crates/phone-buddy`: modules
that model its stateful components and its pure algorithms, TLC configurations
that check them on small instances, and theorems proved with TLAPS for every
value of the constants. Line numbers below are those of the files under `src/`.

## 1. Inventory

The SDK is a library a phone app embeds. A host (the app) opens a runtime and
an engine, sends chats, and gets callbacks. Everything runs on tokio, so any
two operations interleave at every `await`, and a future may be dropped at
every `await` when a `select!` takes another branch.

| Component (source) | State it keeps | Operations | Talks to |
|---|---|---|---|
| Provider health (`llm/router/health.rs`, `failover.rs`) | per provider: recent failures, consecutive trips, cooldown, last trip's operation, last seen | trip, success, prune, reconcile, snapshot load/save | owned by the router |
| Visit order (`llm/router/select.rs`, `config.rs`) | none (pure) | eligible members, group and tier ranking, probing of suppressed members | called by the router |
| LLM router (`llm/router/mod.rs`) | config, generation, health, `health-v1.json` | open, update_config, plan_visit, record_trip, record_success | shared by all clients of a process |
| LLM client (`llm/client.rs`, `retry.rs`, `error.rs`) | slots bound to a config generation; of one operation: position in the plan, tier, bad origins, partial turn, attempts | capture, visit loop, try_provider, backoff, prefix continuation, deadlines, cloud-to-local switch | router, transport, host LLM hub, observer |
| Stream collector (`llm/stream.rs`, `doom_loop_wire.rs`, `doom_loop_collector.rs`) | the turn assembled so far, parked fragments, reports of the server's checks | delta, snapshot, end, idle timeout, break | wire adapter, observer |
| Wire adapters and media (`llm/wire/*`, `types.rs`, `image.rs`) | none between calls | encode a history, decode events, read attachments, redact dumps | client, transport |
| Context budget (`llm/context_budget.rs`) | none (pure) | trimming of a request to a window | client |
| Transport (`llm/transport.rs`) | none between calls | HTTP, SSE, the class of an error | client |
| Session items (`conversation.rs`, `agent/doom_loop.rs`, part of `engine.rs`) | a list of items, a run of identical steps | append, compaction, nudge, hard stop, conversion to and from messages | agent engine, task manager |
| Agent engine (`engine.rs`) | active/started/pending cancellation tables, one turn per chat | chat, cancel, delete_session, tool execution | client, session store, task manager, hubs |
| Session store (`session.rs`) | `<id>.json` | load, save through a temporary file, list, delete | engine |
| Task manager (`agent/task_manager.rs`, `tools/task.rs`) | table of subagent tasks and their tokens | spawn, resume, output, kill, wait | client, tools |
| Host LLM hub (`llm/host.rs`) | table of streams the host feeds | open, push, finish, fail, abort_operation, abort_all | client, engine, runtime |
| Host tool hub (`tools/host.rs`, `webview.rs`, `ask_user_question.rs`, `notification.rs`) | pending calls of host tools and of the WebView, the callbacks | call, complete, cancel, set and clear callbacks | engine, task manager, host |
| Scheduler (`agent/scheduler_manager.rs`, `tools/scheduler.rs`) | table of schedules, `scheduler.json`, id counter | create, delete, list, host callback | host |
| Plan tool (`tools/plan.rs`) | the plan, what is shown of it | update, snapshot | engine, task manager, observer |
| Runtime (`runtime.rs`) | operations by id, client cache, binding to the host | one-shots, cancel by id, update of config | router, clients, hub |
| File tools (`read_file.rs`, `write_file.rs`, `edit_file.rs`, `edit_helpers.rs`, `unicode_confusables.rs`, `fs.rs`, `list_dir.rs`, `grep.rs`, `binary.rs`, `monitor.rs`) | files | read, write, edit, list, search, poll | engine, task manager |
| Web tools (`web_search.rs`, `web_fetch.rs`, `browser.rs`, `ssrf.rs`) | the cooldown of DuckDuckGo | search, fetch, browse | client's endpoints, WebView |
| Shell and script tools, FFI, CLI, configuration, prompt, diagnostics | interpreters, handles, values | — | all of the above |

### What is hard, and what makes each part correct

* **Router.** Records are shared by concurrent operations that captured their
  plans under older configs; they survive restarts through a file whose writes
  may fail. Correct when: escalation and last-trip id agree; cooldowns replace
  each other and never add up; each failed visit is penalised once; a restart
  loses nothing that was saved; a plan never puts a suppressed or fallback
  member before an eligible one.
* **Client.** Attempts, continuations, deadline shares and failovers nest; what
  the observer was shown cannot be taken back; the slots of a client and the
  router's plan may be of different configs. Correct when: the UI shows the
  turn that is returned; attempts are bounded; the operation ends; health is
  reported once per visit, in plan order; an agent turn does not restart on the
  phone's local model after output; a plan comes with the slots of its config.
* **Streams and requests.** Gateways drop or renumber what identifies a tool
  call, repeat and reorder its arguments, and cut streams anywhere; a history
  made by several providers is sent to another one. Correct when: arguments stay
  with their call; a whole stream gives the model's turn; calls and answers stay
  together; what only its maker can read goes to no one else, and nothing else is
  lost.
* **Engine.** `cancel` may come before, in, or after a turn; two chats may use
  one session; saves and crashes interleave. Correct when: a cancel stops the
  turn it was meant for and no other; histories pair calls and results through
  every compaction; a completed turn stays in the file; a model that repeats
  itself is stopped.
* **Task manager.** kill races the task's own last write; a task is resumed from
  a record that may not be final; waiters poll. Correct when: an outcome, once
  recorded, is final; a killed task stops asking; waits return only when what
  they wait for has happened; background tasks end.
* **Hubs, scheduler, plan, runtime.** Answers race timeouts and cancels, callbacks
  are made under locks and replaced, a file is written in place, tables are keyed
  by ids the host chooses. Correct when: an answer that was taken reaches its
  call; what the host's system runs is on file; the plan shown is the plan; the
  host hears once of a stream that was given up.
* **Tools.** Texts matched up to look-alike characters, paths through links,
  listings and searches under limits. Correct when: an edit changes the one place
  it names; no path leads out of the sandbox; nothing is left out silently.

`PROJECT.json` lists each hazard with its line and the properties aimed at it.

## 2. Modules

| Module | Models | Built on |
|---|---|---|
| `RouterHealth` | one health record: penalties per second, trips, cooldown, and `Trip`, `Recover`, `Reconcile` on it | |
| `RouterSelect` | `SelectVisitOrder`: eligibility and ranking as sets ordered by lexicographic keys | `RouterHealth` |
| `LlmRouter` | the router's lock-atomic methods as actions, its file, restarts, config replacement, and the operations that run along captured plans | `RouterSelect` |
| `CircuitBreaker` | abstract: providers in service or suspended until a deadline | |
| `RequestErrors` | how a request comes out before its stream is open, the class of the error, and how long it is waited | |
| `LlmClient` | one operation: visit loop, try_provider, stream, observer | `RequestErrors` |
| `VisitLoop` | abstract: what one operation does to the health of its plan's providers | |
| `SlotBinding` | a client's slots, their generation, and the capture of plans by concurrent operations | |
| `WebSearch` | calls of web_search beside these operations | `SlotBinding` |
| `TurnAssembly` | collect_stream: attribution, parking and grafting of fragments, the terminal snapshot | |
| `WireStreams` | what providers and gateways send on the four wires, and how the adapters decode it | `TurnAssembly` |
| `TurnStream` | one response from the provider to the collected turn, with the observer | `WireStreams` |
| `WireRequests` | a history rewritten for a slot and encoded on each wire; trimming to a window | |
| `Requests` | a session that grows while it is sent to one provider after another | `WireRequests` |
| `SessionItems` | items by kind, `IdenticalToolCallRun`, `maybe_compact` | |
| `AgentEngine` | concurrent chats, cancellation, session files | `SessionItems` |
| `TaskManager` | subagent tasks and the tools that spawn, kill and wait for them | |
| `Runtime` | one-shots, their cancellation by id, the client cache, and the hub's table of host streams | |
| `HostCalls` | calls of host tools, questions, the WebView and notifications | |
| `ToolCalls` | these, the schedules with their file, and the plan, in a process that may die | `HostCalls` |
| `FileText`, `FileTrees` | operators: matching, editing and paging of texts; paths, listings, searches, polls | |
| `WebPages` | operators: the fetching of a page, references to elements, parsers of results and answers | |
| `SessionFormats`, `Attachments` | operators: items and messages, session files, turn groups; images and audio read for a request and redacted from dumps | |
| `FileChecks`, `WebChecks`, `RecordChecks` | what these operators promise, as assumptions over bounded inputs | the operators' modules |
| `LlmRouterProofs`, `LlmClientProofs`, `WebSearchProofs`, `TurnStreamProofs`, `RequestsProofs`, `AgentEngineProofs`, `OperationProofs` (of `TaskManager` and `Runtime`), `ToolCallsProofs` | theorems | the module of that name, TLAPS |
| `MC*` | instances for TLC | |

The components meet as follows. `LlmClient` implements `VisitLoop`, which is
the discipline the operations in `LlmRouter` follow (`PlanVisit`, then
`TripVisit`/`SkipVisit` down the plan, `SucceedVisit` or `EndVisit` last): the
router is checked under many such operations, the client is shown to be one.
The plan it begins with is the one `SlotBinding` captures; what it sends is
encoded by `WireRequests`, and how the answer is collected is `TurnStream`.
`AgentEngine` and `TaskManager` see an LLM operation as a step that starts, may
wait, and returns an answer or an error, which is what `Terminates` and the
result of `LlmClient` give them; the tools they run are the calls of `ToolCalls`.
`AgentEngine` takes its history operators from `SessionItems`. `Runtime` runs
one-shots over the same client; it keeps of a visit only that it opens a host
stream and is over, and models the hub both sides share.

### How state and actions correspond to the code

* **Locks.** Each router method holds one mutex from start to end and is one
  action. `AgentEngine.Cancel` is the part of `cancel` under the lock;
  `AbortHostStreams` is the call made after it is released, so other chats move
  in between. A callback made under a lock (`delete_task`, `notify_event`) is two
  actions, and what needs the lock is not enabled in between.
* **Awaits.** A chat is cut where the code awaits: loading, sending a request,
  waiting for it, running a tool, saving. `select!` polls its branches in random
  order, so a cancelled chat may still take a step whose future was ready
  (`SendRequest` after `Cancel`, counted by `late`) or be dropped (`Dropped`).
* **Polls.** A one-shot looks at its token when it is polled (`biased`), and then runs
  on to its next await: `Poll` takes the look, and the steps up to `Await` happen
  whatever is cancelled meanwhile. `cancel_operation` is cut between the token and
  the streams (`CancelOperation`, `AbortOperation`), `adopt_http_settings` between the
  settings and the cache (`AdoptSettings`, `ClearClients`), and the building of a
  client at each lock. `update_routing` may run at any time, so whether the pool is
  there is a choice.
* **Reads that go stale.** `capture_operation` reads the generation, syncs the
  slots and asks for a plan under three locks, `web_search` reads the current
  endpoint and the fallbacks in two calls, the plan tool shows a copy it took
  under another lock: each is an action of its own, and the routing, the slots or
  the plan may change in between.
* **Host calls.** A call is entered in `pending` before the callback is made;
  `complete` by the host, the cancel of the agent, the tool's own timeout and the
  120 s of `execute_tool` take it out or leave it, in any order. Subagents have no
  such limit (`task_manager.rs:459`). The id, a random UUID, is the agent and the
  number of its call.
* **Files.** Session files and the health snapshot are written to a temporary
  file and renamed, so a crash shows the old or the new file. A failed write of
  the snapshot is logged only: `WriteHealth` may leave `disk` as it was.
  `scheduler.json` is written in place: a crash in the write leaves it torn
  (`Torn`), and a torn file loads as an empty one.
* **Overlapping chats** of one session share `<id>.tmp`: `SaveFails` includes the
  case in which the other chat has already renamed it.
* **Time.** The router's clock is a counter of abstract seconds; a failure list is
  a count per second. Deadlines of the client are actions that may happen when
  the deadline was given. Retry waits are real milliseconds (`RequestErrors`).
* **Text** is a sequence of token numbers: equal prefixes are what
  `merge_continued_turn` and `skip_prefix_chunk` look at, and chunks may end
  anywhere. The arguments of a streamed call are two fragments `<<call, k>>`; JSON
  is complete when the fragments are 1, 2 in order, whosever they are, so a mix-up
  is never hidden by a parse error. What a request says is a sequence of messages
  of parts `<<tag, n>>` that trace back to the item they came from. Texts, tool
  arguments and results of the engine are abstracted to the kind of an item, the
  signature of a batch and the position a result answers.
* **The provider is external.** Its events are a set with a partial order;
  `Deliver` takes any event whose predecessors were sent, so every order a gateway
  may produce is a behaviour. Which index, ids, deltas, `done` events and final
  output a gateway sends is a record of its own.
* **History variables** (`visits`, `late`, `stillborn`, `overlapped`, `shrunk`,
  `cancels`, `lost`, `tripped`, `shared`, `raced`, `accepted`, `outcome`, `loose`,
  `overtaken`, `disturbed`, `moved`, `due`, `asked`) record what the properties
  speak about and guard nothing, except that `overlapped` allows the failure of a
  save that only overlapping chats can see, and that `cancels` bounds the cancels.

Each module keeps the faulty variants the mutation checks put in place of a
definition next to the definition they replace, marked as such; no
specification uses them.

## 3. Runs

| Run | Question | Properties |
|---|---|---|
| `router_disk` | Two operations, a config replacement, restarts, writes that fail | `EscalationConsistent`, `CooldownBounded`, `RestartLosesNothing`, `PlanPrefersEligible` |
| `router_breaker` | The same over more time on a disk that works | `PenaltiesAreVisits`, refinement of `CircuitBreaker` |
| `client_turn` | One operation with every failure and deadline | `UiIsTurn`, `VisitBudget`, `LocalSwitchGuarded`, refinement of `VisitLoop`, `Terminates` |
| `search` | Two operations and a web search of a client whose routing is replaced | `CapturesCoherent`, `AllAsked`, `DuckDuckGoReturns`; `WebChecks` |
| `stream` | One response on each wire through every gateway | `OwnArguments`, `TurnAssembled`, `UiAgrees` |
| `requests` | A session sent to four providers on four wires | `CallsAnswered`, `ReasoningInPlace`, `NothingLost`; `RecordChecks` |
| `requests_trim` | Does a request trimmed to a window keep the user's input? | `CurrentTurnSent` (violated) |
| `engine_turns` | Two chats of one session, cancels, deletion, compaction, failed saves, a crash | `HistoriesWellPaired`, `CancelStops`, `CancelStopsOneTurn`, `LoneTurnCancellable`, `CompletedTurnsKept` |
| `engine_loop` | Long turns of models that repeat themselves | `StationaryRuns`, `ChatsEnd` |
| `tasks` | Two tasks, resumed, killed, dropped, waited for | `KilledTaskStops`, `WaitMeansEnded`, `TerminalIsFinal`, `ResumeContinues`, `BackgroundTasksEnd` |
| `tools` | A chat and a subagent over the host, the schedules and the plan | `HubsConsistent`, `SchedulesKept`, `PlanShown`, `CallsEnd`; `FileChecks` |
| `runtime` | Two one-shots with one id or two, host streams closed, aborted and dropped, settings and callbacks replaced | `HostToldOnce`, `LoneCallCancellable`, `ClientsCurrent`, `CancelledCallsEnd` |

### The algorithms

The pure parts are operators, and what they promise are assumptions that TLC
evaluates over all inputs up to a bound at the start of the run named:

* `FileChecks` (`tools`): an edit changes one place (`EditsOnePlace`), which for a
  text that is there verbatim is the only one (`ExactIsUnique`), can be taken back
  (`EditUndone`), and leaves none when it replaces all (`AllReplaced`); the snippet
  shows it (`SnippetShowsEdit`); pages cover a file (`PagesCover`, `FromTheEnd`) and
  polls a log (`PollsCover`); paths stay in the sandbox (`PathsStayInside`);
  listings keep to their budget (`ListingFits`); grep shows what matches
  (`MatchesShown`) and says when it was cut (`CutIsSaid`).
* `WebChecks` (`search`): a page is a successful answer of an allowed host
  (`PagesAreAnswers`); a second try that fails is silent (`FailedRetryIsSilent`);
  client hints fit the agent (`HintsFitAgents`); references are the usable elements
  (`RefsAreElements`); snippets and answers are attributed (`SnippetsOfTheirLinks`,
  `AnswersAreHeard`); settings have an order (`OwnSettingFirst`).
* `RecordChecks` (`requests`): the two forms of a session agree (`MessagesKeepTurns`,
  `UpgradeSettles`, `FilesReadBack`, `GroupsAreTurns`); images are sent as declared
  (`SentAsDeclared`) and accepted turns can be sent (`AcceptedTurnsAreSent`); dumps
  hold no media (`DumpsHoldNoMedia`).

### Bounds

* Router: three providers (two clouds in one pool, a local one that replaces the
  second), two operations, a clock of 2 or 3 with a penalty window of 2, base
  cooldown 1, cap 3 and retention 3. The clock passes the window, every cooldown
  of the first escalation, and (with 3) the retention of a provider that the
  second config dropped. Two operations are what it takes for one to trip or
  restore a record the other has tripped. A third would need three visits in one
  window, which no code looks at: a record remembers one operation only.
  `MaxGeneration = 1` gives one replacement between restarts, `Reopen` is unbounded.
* Client: plans of one slot, of one unfit slot, of two clouds and a host's local
  model, of a cloud, an unfit cloud of the same origin
  and the local model, and of a cloud and an unfit local model;
  two attempts, one rate-limit and one doom-loop retry, three tokens. Two
  attempts reach both sides of every attempt check; three tokens give chunks that
  end before, at and after the end of a repeated prefix, and a second
  continuation on the next provider.
* Search: two operations, one search, one replacement among three routings (two
  clouds and a host's model; one whose only cloud is disabled; one whose cloud
  has moved to the phone). One replacement meets every lock of a capture; a
  capture tries four times, which two operations that sync the slots in turn
  already take it through.
* Stream: eight turns of up to three items over two function calls, one without
  arguments, a hosted search, a custom tool and a shell call, on four wires,
  through gateways that keep or lose indices, ids, item ids, deltas, `done` events
  and the final output, or send a turn whole. Two fragments per call are what it
  takes to mix, double or drop one. One report of the server's checks, at, above
  and without its threshold.
* Requests: four slots with two compatibility keys (Responses with hosted search,
  Messages, Gemini, Chat), up to five items, five kinds of user input, one
  attachment per message and one inlined per request. Five items hold a turn with
  a batch, its results, an answer of another provider, and the next input.
  `requests_trim`: windows of five and of three.
* Engine: two chats, one session, two cancels (one meant
  for each chat), a crash, a deletion, compaction at five items with a window of
  three, so that the window begins on every kind of item. `engine_loop` uses the
  thresholds 2 and 3 instead of the code's and up to four requests a turn, which
  lets two different runs and a nudge happen in one turn, and compacts at eight
  items. The theorems below hold for any bounds.
* Tasks: two tasks (the second may resume or wait for the first, or itself),
  two turns, batches of up to two calls, one waiter over every set of ids,
  unknown ones included.
* Tools: one chat and one subagent with three pairs of repertoires (host tools,
  questions and WebView; schedules; the plan), two calls each, one change of the
  host's callbacks or tools, two faults (a failed or torn write, a restart). Two
  calls each make a creation meet a deletion, an answer come late for the call
  after, and an update overtake another.
* Runtime: two one-shots of which the second may take the first's id, two streams,
  one cancel, and two acts of the host in all (a cancel, a change of the settings, a
  change of the callbacks): each pair of them meets both calls at every step. A third
  act could only repeat one of these, whose effects do not add up.

### Fairness

The engine's and the tasks' `FairSpec` gives each chat and each worker weak
fairness on its own steps: tokio polls a spawned future until it ends, its HTTP
requests carry timeouts, tools end by their own timeout. The client's
`FairSpec` is weak fairness on the operation as a whole; an HTTP stream has an
idle timeout, so waiting on it ends. The one assumption the code does not
justify is that a host ends each stream it was asked for: `llm/host.rs` waits for
the host without a limit of its own unless an operation timeout was given. It is
listed as a hazard. `Runtime` does not need it: its `FairSpec` has the executor go on
with a call that is not waiting, and wake one whose token is cancelled, and
`CancelledCallsEnd` holds of hosts that never answer. `ToolCalls` has weak
fairness on the steps of each agent: its code runs on, its timers fire, and a
callback, once made, returns; that the host answers the call is not assumed.
`WebSearch` has it on the clock and on the steps of a running search, whose
requests carry timeouts. Nothing is assumed of the host's own choices: cancel, kill,
wait, answers, config changes and crashes are never fair.

### What the violated run shows

`requests_trim`: `trim_history_to_window` computes `keep_from`, the first item that
must stay, once, as an index into the list before anything was removed
(`context_budget.rs:70`), and then removes from the front of the list and compares
with the same index. With each removal one more item of the protected part becomes
removable, the current user input first. The doc of the function (49-53) says
"Never drops the current user input", and that it fails with
`LocalContextExceeded` when the protected part does not fit.

### Other differences met while modelling

The models have these as the code has them; no run is spent on them.

* `health.rs:90` calls a second trip of one operation idempotent; it is so only
  while no other operation has tripped the record in between. The client reports
  each visit once, so today's caller is not affected.
* The bar on crossing to the local model (`client.rs:894`) is decided on the next
  slot of the plan without the cloud deadline and fitness checks of the head of the
  loop; if that slot is then passed over, an agent turn restarts on the local model
  after output. `LocalSwitchGuarded` shows that this is the only way.
* A doom-loop resample in mid-stream, or a spent deadline share, sends a request
  that continues nothing after output was shown (`client.rs:1068`, against its
  lines 9-11).
* `cancel` calls `abort_all`, which fails the host streams of every session
  (`engine.rs:560`).
* One long turn is never compacted: the cut walks forward to a user message or a
  final answer, and there is none (`engine.rs:1015`).
* Buffered Chat answers carry tool calls without an index, and Gemini may send its
  calls in chunks of their own: nothing in the stream says whose a fragment is, and
  calls merge (`stream.rs:658`). `Attributable` excludes them.
* On Chat a user turn of audio alone is sent without it; `NothingLost` excludes it.
  A function named web_search is dropped on failover to a slot with a hosted one.
* A capture may see the slots of an older config stored again by a slower operation,
  up to four times, and then fail (`docs/llm-routing-and-one-shot-design.md:651`
  asks for a coherent snapshot); `disturbed` marks these.
* `last_success` may keep a disabled member as the current endpoint of web_search.
* A file that is not UTF-8 counts as empty for edit_file and is overwritten
  (`edit_file.rs:88`). A DuckDuckGo result without a snippet takes the next one's. A
  blank setting of the environment hides those after it. An audio data URL within a
  longer text stays in a dump.
* A reused `attachment_id` keeps the first file's bytes, the cap on inlined media
  counts images only on Gemini, and an attachment that has vanished fails every later
  request of its session.
* Two updates of the plan may show the older one last, and the plan's observer is
  that of the chat that began last (`engine.rs:623`).
* After a torn write of `scheduler.json` ids start again at 1, although the host may
  still run the old ones.

## 4. Proofs

Every theorem is about `Spec`, for all values of the constants that satisfy the
named assumptions: any finite or infinite sets of providers, chats, sessions, tasks,
calls and agents, any numbers of turns, attempts, cancels and faults.

### The router

`LlmRouterProofs` proves, for every set of providers, operations, pools and
configs, every clock bound, and disks whose writes may or may not fail:

* `TypeCorrect`: `Spec => []TypeOK`.
* `EscalationSafe`: `Spec => []EscalationConsistent`, and `CooldownSafe`: `Spec => []CooldownBounded`.
* `RestartSafe`: `Spec => []RestartLosesNothing`.
* `PlansPreferEligible`: `Spec => PlanPrefersEligible`.
* `PenaltiesSafe`: `Spec => []PenaltiesAreVisits`.
* `RouterIsBreaker`: `Spec => BreakerSpec`, under the two assumptions named below.

The assumptions are `HealthAssumption` and `RouterAssumption`: ids are naturals,
configs are valid in the sense of `LlmRoutingConfig::validate` and name finitely
many providers, hints are at most `RETRY_AFTER_CAP`.

*The invariant.* `Inv` says that memory and disk are both *good maps* for the
current time: maps of typed records, each consistent and bounded, with the last
sighting not in the future. The checked properties are not inductive alone:
`Reopen` turns disk into memory and a failed write leaves an old disk beside a
new memory, so both maps must be good at any later time (`GoodMapLater`). One
lemma per operation on records (`TripGood`, `RecoverGood`, `ReconcileGood`)
carries the step proof; the bound of a cooldown rests on `CooldownDurationBound`.

*Restart.* `plan_visit` reconciles memory without writing, so memory and disk
differ even on a perfect disk. The proof rests on `ReconcileCompose`:
reconciling at a time and again later is reconciling at the later time.

*Visit order.* A plan is the result of two sorts by keys (`RankBy`). Keys are tuples
of numbers that differ between members, so `LexTotal` and its neighbours make a strict
total order of them; `RankPlaces` shows that every place of the ranking is taken by
exactly one member (its number is how many are below it, which grows along the order by
`RankMonotone`, and `FiniteGreatest` steps from the last place down), and `RankSorts`
that the ranking is sorted and without repetition. That the keys are numbers at all
rests on the score, which adds penalties up with a fold over a set of times:
`SetRecursion` shows that the recursive function by which the library defines that fold
exists, `SetFoldInduction` that what holds of the start and is kept by each step
holds of the result, and `SumType` is the case of sums. All three are inductions, over
the finite subsets of a set ordered by inclusion; an induction that takes its predicate
as a *set* (`SetInduction`) is within the provers' reach. `EligibleOfPart` carries the
result from the bound part of a pool, which is what is ranked, to the pool.

*Penalties.* `PenaltyInv` says, of memory and of disk, that the penalties of an instant
are at most the operations that tripped the provider then (`Attributed`) and, when
writes succeed, no fewer as long as they are fresh, which is in every window and
retention a config may set (`Complete`). The disk needs this of its own, since a
restart brings it back. Each trip must be a visit that is not yet counted:
`PlansAhead` says that an operation has tripped none of the providers still in its plan,
in which none is twice; the latter is the theorem on plans once more. `ReconcilePenalties`
and `TripPenalties` are the two operations that touch counts.

*Refinement.* `RouterIsBreaker`: with writes that succeed
(`ReliableWrites`) and a retention no shorter than any suspension
(`LongRetention`), `Spec => BreakerSpec`. Each step maps to a step of the
abstract breaker or a stutter. `ReconcileSuspensions` shows that dropping and
pruning records leaves the running suspensions as they are (this is where the
retention is needed), `DiskSuspensions` that a restart does. Without either
assumption the statement is false: a lost write or a dropped record ends a
suspension early. The SDK's defaults satisfy `LongRetention` (retention in
days, suspensions of minutes); a host may configure otherwise.

### The web search and what a client captures

`WebSearchProofs`, under `BindingAssumption` (a config names every member once, as
`LlmRoutingConfig::validate` demands, and keys are of providers):

* `CapturesSafe`: `Spec => []CapturesCoherent`. `BindingInv` follows a capture through its
  nine places: what an operation holds is always of *some* config that was in force
  (`OpSound`), and of the one in force as long as nothing disturbed it (`OpCurrent`); the
  shared slots are those of one config (`SlotsSound`), which the operation that stores
  older ones over newer ones keeps.
* `SearchesAsk`: `Spec => []AllAsked`. `SearchInv`: what a search has asked and has yet to
  ask are what was due when it read the current endpoint, in that order, unless the
  endpoints moved between its two reads. `EndpointFacts` says that the two reads
  do not overlap, `ClientSteps` that a step of the client that leaves config and last
  success alone leaves both reads alone.

Both rest on `AmongFacts`: `Among`, which filters a list, keeps order, repeats
nothing, loses nothing, and filters to the list itself if all of it passes. It is a recursive
function; `KeepsExists` shows that it exists.

### The client

`LlmClientProofs`, under `ClientAssumption` (plans are sequences of slots and not
empty, the policy's numbers are naturals):

* `VisitsBounded`: `Spec => []VisitBudget`. `BudgetInv` adds that a request is sent
  only while an attempt is left; a continuation gives back the attempt it spends.
* `SwitchesGuarded`: `Spec => LocalSwitchGuarded`. `SwitchInv` keeps, from the failure
  handler to the next visit, what the handler checked: shown output means a report
  of a trip, and if that report is of the slot just before, the slot is not a
  host's model of a higher tier.
* `OperationIsVisitLoop`: `Spec => VisitSpec`, the refinement of `VisitLoop` by all
  retries, continuations, resamples and deadlines. `SingleInv` (a plan of one slot
  is never passed over) is needed for the plans that report nothing.

* `TurnShown`: `Spec => []UiIsTurn`. `TurnInv` relates, while nothing was given up,
  what the host was shown to the text carried on with (`Kept`), to what the observer
  has left to skip and to what the open stream has yet to say: the stream either
  is within the text it repeats (`Repeats`) or has said all of it and a token
  of its own (`Goes`). `DeltaStreams` takes a chunk of any size through it; `WholeTurn`
  shows that `merge_continued_turn` counts what is repeated once, whether a model
  repeats it or not. It rests on what a model's own token is, one that the turn
  does not hold: with a token said twice, the merge could not tell a repetition.

The step proof of the first three goes by what a step does to the visit rather than by action: every
failure ends the operation, asks again, or fails over (`RequestFailures`,
`StreamOutcomes`, `StepCases`), and each of the three is treated once
(`Finishes`, `Retries`, `Failovers`).

### The stream

`TurnStreamProofs`, under `PiecesAssumption`, `ToolsAssumption` and `StreamAssumption` (a
turn is a sequence of items in which no call occurs twice; gateways are records made
with `Gateway`): turns of any length, any number of calls and of fragments per call,
any set of gateways, on all four wires.

* `ArgumentsOwned`: `Spec => []OwnArguments`. What `Attributable` promises of the gateway
  reaches the collector in one of three ways, and the invariant (`CollectorOK`, `FlowOK`)
  has one conjunct for each. *Positions* (`Placed`): the index of every delta is the
  place of its call, and the collector has learnt no other (`TrueOuts`); `PlaceApart`
  says that places of different calls differ, also where calls only are counted.
  *Ids* (`ById`): a call whose fragments come by id was announced before
  (`Announced`), which follows from the order of delivery (`DeliveryOrder`), so the
  ids of a fragment resolve to the place of its call and to no other (`IdsApart`).
  *One call*: every fragment there is, is its own (`SingleCall`). `Owned` is the common
  part: at the place of a call there is nothing but its fragments, and the ids that
  lead there are its ids; `OwnedStep` keeps it over one delta, with parking and
  grafting.
* `UiShown`: `Spec => []UiAgrees`. While the stream is not given up, the text shown is
  the text collected, and both are the positions of the texts delivered so far
  in ascending order (`TextStep`; texts are delivered in the order of the turn, and
  `InOrderExtends` says what the next one does to the list); every hosted call of
  which the collector knows, and every hosted item of a terminal snapshot, was
  announced (`HostedStep`). `FinalizedStream` and `FinalizedSnapshot` show that either
  way of finalizing gives this text, `SalvageFacts` that salvaging changes neither.

* `TurnWhole`: `Spec => []TurnAssembled`. The end of a stream says nothing that was not
  collected before, so the invariant must say, for every set of events delivered so far,
  what the collector holds and what it still lacks: `AssemblyInv`, on top of the one above.
  `Guided` says where ids and positions lead, `Named` that the entries are the announced
  calls, and the arguments are accounted for by a number: `Earned` is how many fragments
  of a call were sent, or all of them once a snapshot repeated them. A call that was
  announced holds that many (`HasArgs`); of a call that was overtaken by its fragments, as
  many are parked under its id and no other (`Waits`), so that grafting them when it is
  announced earns nothing twice; and if nothing says whose the fragments are (`Lost`), which
  only a turn of one call may afford, they are all parked (`Stray`) and `LostGathered` shows
  that the salvage at the end gives them to it, unless a `done` event came first. `Shot` is
  the same for answers that carry their calls whole, `Spoken` for texts, reasoning and the
  terminal output. `StreamStep` and `ShotStep` keep it over one event. At the end
  (`TrackedGathered`, `LostGathered`, `ShotGathered`) every call is at its position with all
  its arguments; positions ascend with the turn (`HomesOrdered`, which for Chat Completions
  is a statement on counting), so that the list made of them is the turn's (`StreamHolds`),
  and so is the one made of a terminal output, whose placeholders are filled by call id
  (`PreferredArgs`, `SnapshotHolds`).

`Decoded` is what the adapters of all wires owe the collector, event by event
(`ResponsesDecoded`, `IndexedDecoded`, `PartsDecoded`, `WholeDecoded`). The loops of the
collector (over the deltas of a chunk, over parked fragments, over positions) are recursive
functions; that such a function exists is shown for each (`TakenExists`, `KeptExists`,
`CountExists`), and what a loop keeps is shown by an induction that takes its predicate as a set
(`SetInduction`).

### The engine

The first part of `AgentEngineProofs` is about histories: `Paired(items, left)` is a history whose
last batch still waits for `left` results; appending what a chat appends and
`maybe_compact` (`CompactKeepsPairs`) preserve it. `Tracked(items, run)` says that the
only run of identical steps that reaches the end of a history is the one the
detector has counted. `AppendTracked` is what the detector must do for each item
for that to stay, and `EndRuns`, with `CompactIsEnd`, that compaction cannot lose it:
a cut keeps the end of the history as it was, behind a user item. The second part builds on it, under
`ItemsAssumption` and `EngineAssumption`:

* `HistoriesPaired`: `Spec => []HistoriesWellPaired`. The invariant says of every
  chat how many results its history owes at each place of its loop, and that
  files owe none.
* `CancelledTurnsStop`: `Spec => []CancelStops`, with the places in which something
  late may just have been started (`LateOnce`, `StillbornStops`).
* `CancelsAreSpent`: `Spec => []CancelStopsOneTurn`. `Counted` adds the cancels that
  still wait for their session's first turn.
* `StationaryBounded`: `Spec => []StationaryRuns`. `RunInv` has every chat that works
  tracked, with a run that is shorter than the hard stop while a model is asked, and
  every file bounded. That an answer is the last one exactly if it has no signature
  (`EngineAssumption`) is needed: the detector does not look at last answers.
* `LoneTurns`: `Spec => []LoneTurnCancellable`, and `CompletedTurnsStay`:
  `Spec => []CompletedTurnsKept`.

### The requests

`RequestsProofs`, under `SlotAssumption` (a slot has one of the four wires and a window in
`Nat`) and `RequestAssumption`, for sessions of any length, any slots, keys and inputs:

* `HistorySound`: `Spec => []HistoryInv`. `History(h, b, open)` says of a sequence of items
  that reasoning and hosted calls stand before the assistant of their answer (`Grouped`),
  that answers and calls have numbers of their own (`Numbered`), and that each assistant is
  followed by the results of its calls, in their order (`Paired`; but for the last one
  while its tools run). `AppendGroup` and `AppendResults` are the two steps that matter:
  what `Salvaged(Stamped(AnswerItems(...)))` appends is a group, with a salvaged search as
  one more call of its assistant, and what the tools append answers it.
* `RequestsCurrent`: `Spec => []RequestInv`, what was sent last is `Encoded` from the
  history as it stands, rewritten for the slot that was visited last; no step between
  requests of one turn changes the history behind its back.
* `ReasoningKept`: `Spec => []ReasoningInPlace`, from `RequestInv` alone, in two parts.
  `SanitizeOwn` shows that each item `Sanitize` leaves may be said to the owner of the key
  (`OwnItems`): an item is left as it is only when the assistant at the end of its group was
  made under that key, and `Maker` finds that assistant by its number because no two have
  the same. `StepTyped` shows that a wire says of an item nothing but what `Sayable` lists
  of it, and `TrimTyped` that trimming adds nothing; so every part that is sent is in
  `OwnParts`. The place of thinking is an invariant of the encoder's loop, `ThinkInv`, proved
  over the number of items passed (`AfterSteps`, `AfterCases`): what is pending of the model
  has thinking at its front only, which holds because reasoning comes first of its group.

* `NothingKeptBack`: `Spec => []NothingLost`, also over the number of items passed. Four
  steps: `Ops`, `SharedForms` and the `*Forms` lemmas say what each operation of an
  encoder adds to what is written and what is pending; `StepSays`, that what a request
  says (`Raw`: the written parts, then the pending ones) grows by the words of the item
  that is encoded, whatever was pending, but for Chat, which puts the thinking of an
  assistant before the hosted calls that waited for it (`Waits` says what may wait, and
  where); `StepTells`, that what the provider is told of those words is `SentTold` of the
  item on every wire; `StripTold`, that a foreign assistant tells its own parts behind the
  hosted calls of its group, which are owed to it (`Owed`) since they were passed. `ToldSoFar` puts
  these together. On Gemini a result is told only under the name of its call: `IdsSent`
  and `Paired` show that the call is among the items sent.

* `CallsHaveAnswers`: `Spec => []CallsAnswered`, again over the number of items passed.
  `Zones(s, n)` is the assistant, one at most, of which calls are still open behind the
  first `n` items: `ZoneNext` shows from `Paired` that the next item then is the result of
  the next of these calls, and that there is no result elsewhere. `AnsweredSoFar` says that
  the encoder is in the same place: `Settled` when no call is open, `Asking` when the first
  `m` of the last calls are answered (`CallsOpen`, `AnswerNext` and `AskedAll` are the steps
  between the two; `StaysSettled` is any other item, `BalancedAside` and `BalancedAnswered`
  the facts on sequences behind them). For Anthropic and Gemini both also say where the
  messages end: the calls are in the last one written, and their answers pending for the
  next one. That an answer has the tag of its call (`AnswerIs`) is `IdsSent` again: no other
  call of the items sent has its id.

The recursions behind these proofs (`FlattenSeq`, and the loops of `Written` and `Trim`) are
recursive functions of the number of items; `OneMore`, `OneMoreItem` and `TrimExists` show
that they exist and what one more item does to them, by induction over a set of naturals
(`SetInduction`), which needs no operator as a parameter.

### The tasks, the runtime and the tools

* `OperationProofs`, first part, under `TaskAssumption`: `KilledStops`, `WaitsMeanEnded`,
  `OutcomesStand` (`TerminalIsFinal`) and `ResumptionContinues` (`ResumeContinues`),
  from `TaskInv`: a worker writes an outcome as its last act, a killed task has its
  record at once, and a conversation that has begun holds its own prompt.
* `OperationProofs`, second part, under `RuntimeAssumption`: `ToldOnce`, `LoneCallsCancellable` and
  `CacheIsCurrent`, from three invariants that do not depend on each other: of the
  table of operations (calls with one id know of each other), of the streams (a
  pending one has a reader that works), and of the cache (it is right for every
  binding, also those not in force, and so is what is about to be inserted).
* `ToolCallsProofs`, under `HostCallsAssumption`: `HubsAgree`, `SchedulesAgree` and
  `PlanAgrees`. The hubs' invariant says what tables, channels and history hold of a
  call before it is made, while it waits and when it is over; the schedules' that
  numbers armed, on file and being created are apart and below the counter.

### What is only model-checked

Every invariant, action property and refinement of a passing run is also a theorem; what is
left is liveness (`Terminates`, `ChatsEnd`, `BackgroundTasksEnd`, `CancelledCallsEnd`,
`CallsEnd`, `DuckDuckGoReturns`), which is out of the prover's reach, as is anything with
`ENABLED`. The algorithms (`FileChecks`, `WebChecks`, `RecordChecks`) are checked over
bounded inputs only: they are recursions over texts and trees whose values, not just
their ranges, are what is promised.

## 5. Not modelled

* The interpreters of the shell and of scripts (`tools/busybox.rs`, `tools/script.rs`):
  a call of theirs is one step of a chat or a subagent. The C interface and the
  command line, which convert arguments and handles. Configuration, prompts,
  events and diagnostics, which are values and wording.
* Network I/O, headers, client profiles and the dumping of requests: what comes of
  a request is a choice, in `RequestErrors` and `WireStreams`.
* JSON layout and the names of its fields; the conversion of HTML to text; reasoning
  text in the client (same code as the text, other buffers).
* Two routers over one health file and two schedulers over one `scheduler.json`: the
  SDK's documents give an app one runtime. Torn writes of a session's temporary file
  by two simultaneous saves.
* The observer of the plan tool that a later chat replaces. The reports of the
  monitor tool on tasks, which read what `TaskManager` records.
* The order of chunks in the channel of a host stream. In `Runtime`: more than one
  pool, the second kind of client per pool, callers that bring a token of their
  own, the end of the runtime itself, and the engine's streams (`abort_all` is in
  `AgentEngine`).
* `failover.rs` keeps an older in-memory record of health that only its own tests
  use.

## 6. Plan

Done: the router, the client and its binding to configs, streams and requests on
four wires, the engine with its sessions, the task manager, one-shots and the
table of host streams, host tools, schedules, the plan, the algorithms of the
file and web tools; the proofs above.

Left, in this order:

1. Two managers over one file, for the router and for the scheduler.
2. One promise-table specification that the hub of `HostCalls` and the streams of
   `Runtime` both implement.

