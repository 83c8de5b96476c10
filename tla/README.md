# Verification of KilinGuard

KilinGuard is a terminal agent for operating a machine: a model proposes
tool calls, a Rust runtime runs them. This directory models the parts of the
Rust workspace (`src/rust/crates`) in which state is kept over several steps,
shared between threads, or survives a crash, checks them with TLC on small
instances and proves some of the properties with TLAPS for every instance.
Paths below are relative to the repository (`src/`).

## 1. Inventory

### Components

| Component | Code | State it keeps | Operations |
|---|---|---|---|
| approval-token ledger | `runtime/src/approval_tokens.rs` | token -> grant (scope, approver, executor, status, expiry, uses) | insert, remove, revoke, verify, consume |
| confirmation gate | `runtime/src/safety_confirmation.rs` | pending requests, issued tokens, a ledger, a request counter | require_confirmation, decide, consume, the expiry sweep each of them starts with |
| safety rule store | `runtime/src/safety_rules.rs` | one `Arc` snapshot (generation, rules) behind a read-write lock | new, snapshot, reload_from_bytes |
| safety intent analysis | `runtime/src/safety_intent.rs` | none; a report carries the generation it was made under | analyze_plan_with_rule_store, score_intent |
| least-privilege session | `runtime/src/permissions.rs` | mode in force, grants, leases, clock, frozen flag, audit log | set_now_ms, request_escalation, apply_template, authorize, complete_operation, expire_session, freeze_on_anomaly |
| worker boot registry | `runtime/src/worker_boot.rs` | per worker: status, gates, prompt in flight, replay, error, events, state file | create, observe, resolve_trust, send_prompt, restart, terminate, observe_completion, observe_startup_timeout |
| conversation | `runtime/src/conversation.rs`, `session.rs`, `compact.rs`, driven by `rusty-claude-cli/src/main.rs` | session in memory, the turn's copy of it, session file and rotated files | run_turn, append, save, rotate, compact, resume |
| sensing runtime | `os-sense/src/{scheduler,runtime,storage}.rs`, `tools/src/lib.rs` | deadlines, run count, active alerts, metric rows | tick, on-demand collection, history query, restart |
| plugin runtime registry | `plugins/src/lib.rs` | snapshot, generation, phase, mutation slot, blocked plugins, calls in flight | execute_tool, prepare/commit hot replace, hot_unload |
| plugin installation | `plugins/src/lib.rs`, driven by `rusty-claude-cli/src/main.rs` | version slots, registry file, `enabledPlugins` of the settings, file locks | install, update, rollback, enable, disable, uninstall, the transaction around them, clean-up of stale entries |
| plugin approval | `plugins/src/lib.rs` | approved hashes | approve, enable |
| MCP server manager | `runtime/src/mcp_stdio.rs` | per server: process, handshake, catalog, heartbeat; the tool routes | discover, list, read, get, call, check heartbeats, shut down; retry and reset within each |
| task, team and cron registries | `runtime/src/task_registry.rs`, `team_cron_registry.rs` | maps behind mutexes | create, update, stop, record |
| recovery and policy | `runtime/src/recovery_recipes.rs`, `policy_engine.rs` | attempts per scenario | attempt, escalate |
| permission policy | `runtime/src/permissions.rs` | none | authorize_with_context |
| everything else | providers, parsers, redaction, configuration, rendering, standalone tools, test doubles | none that outlives a call, or plain data | see `PROJECT.json` |

`PROJECT.json` lists all of them with the reason where one is not modelled.

### How they interact

* An analysis takes the rule store's snapshot and gives the caller a report;
  the caller brings the report to the confirmation gate, perhaps much later.
  Store and gate never call each other; the generation number in the report
  is the only link. The gate keeps its tokens in two maps, its own `issued`
  and an approval-token ledger.
* `run_turn` works on a copy of the session; the session file is written
  message by message while the turn runs and as a whole when it is over. A
  failed turn ends the client; the next one resumes from the file. The record
  of a prompt for the history goes into the same file before the turn; when it
  fails the client warns and goes on.
* A collector thread and the tools share one sensing runtime behind a mutex.
  The thread reads the clock before it has the mutex, a tool after.
* Tool calls and plugin mutations share the registry's mutex, which both let
  go of while plugin code runs.
* Every plugin command builds a manager of its own, with the settings as it
  found them; file locks serialise the commands of several processes. The
  transaction hands the new plugins to the runtime registry, which may refuse.
* The MCP manager works on one call at a time (`&mut self`), over pipes to
  processes it does not control.
* Workers are observed from outside: a caller hands in screen texts, and
  another process polls `worker-state.json`.

### What is hard, and what correctness means

| Component | Hard | Correct when |
|---|---|---|
| ledger, gate | any caller may bring any time; two maps to keep alike; sweeps remove entries in the middle of other operations; a token may be presented with a report other than the one it was asked for | what runs is what was shown, to the person approved, once, before the deadline; maps never drift apart; the limit holds |
| rule store, analysis | two reloads race between the read and the write lock; rules change under an analysis and between request and execution | a generation names one rule set; a report is made under one; rule files only raise |
| least-privilege session | leases, one-operation grants and the session end in any order, the clock may go back | what is closed stays closed; the mode is backed by something open; the audit log accounts for all of it |
| worker | cues come in any order, late, and each sets several fields by hand | one delivery at a time; nothing accepted is sent again; the reason for a stop is on record; the file can be acted on |
| conversation | a crash between any two appends, compaction in mid-turn, rotation before the new file is there, an append cut off within its line or before the newline | the session and any file that loads account for all that was said, in full or by what a summary kept of it; no tool result without its use, no use unanswered |
| sensing | failed readings and failed writes, late and overtaken collections, restarts | cadences keep step, alerts tell the last reading, what is counted is stored, no history over its limit |
| plugins | lock released during lifecycle commands, replacements prepared against a snapshot that may be gone, calls that hang | a change applies to what it was worked out from; no call on a plugin that is being stopped; loaded plugins have what they need; every mutation ends |
| plugin installation | settings read before the locks, version directories pruned before the registry that forgets them is stored, any step refused and put back in several writes, a client that dies | the registry can be validated by the next command; the tree is what it records; the active version is there; enabled plugins have what they need |
| MCP servers | a process exits, answers late, out of order or never, and offers something else after each start; retries within retries | nothing is sent before the handshake; a tool call is sent once; what can be called is listed; failures are counted; every call ends |

`PROJECT.json` has the hazards line by line, those without a property with
the reason.

## 2. Modules and plan

| Module | Models | State and actions |
|---|---|---|
| `ApprovalTokenLedger` | the ledger | `grants`; `Insert`, `Consume`, `Revoke`, ... in the validation order of `validate_grant`; `history` observes what each token did since it was inserted |
| `OneShotAuthorization` | abstract | what a confirmation promises: ask, approve, use or drop |
| `ConfirmationGate` | the gate | `pending`, `issued`, `ledger`, `counter`; one action per operation and outcome; instantiates the ledger; `asked` and `log` observe what was shown and what ran |
| `SafetyRules` | rule store and analysis | `snapshot`; a reload is `Build` (read lock, unlocked work) then `Store` or `Overtaken` (write lock); an analysis is `Take` then `Finish` |
| `SafetyPipeline` | store, analyses and gate | extends `SafetyRules`, instantiates `ConfirmationGate` over the reports analyses answer |
| `LeastPrivilegeSession` | the session half of `permissions.rs` | one action per method; every method's `revoke_expired` is part of its action |
| `PromptDelivery` | abstract | what a worker promises about prompts |
| `WorkerBoot` | one worker | the worker record and the last state file; `Observe` follows the order of the checks in `observe` |
| `Compaction` | `compact_session` | pure operators on message structure, used by `Conversation` |
| `Conversation` | turn loop, session file, client | `memory`, `turn`, `main`, `rotated`; `RecordPrompt` and a step per append; `Stop` between any two, `StopMidAppend` within one |
| `OsSenseRuntime` | scheduler, alerts, store, collector thread, tools | a collection is one step, at the time it completes, with the time its caller read before |
| `MetricHistory` | the history query | one step per row of the streaming selection |
| `PluginRuntimeRegistry` | the registry | one action per critical section; the locals of a mutation in `job` |
| `PluginManager` | installed plugins and the commands on them | `slots`, `registry`, `settings` are the disk; `txn` the transaction of who holds the locks; a step per write to the disk, `Fails` and `Crash` between any two; `left` observes the directories a pruning could not remove |
| `McpServerManager` | the MCP manager and its servers | `servers` (record and process), `routes`, `op` the call being worked off; a call is a sequence of parts, a part of steps, an `await` ends in an answer, a wrong one, a lost connection or a timeout |

`MC*` modules give constants their values. The theorems are in eight modules:
`ConfirmationGateProofs`, `ConversationProofs`, `LeastPrivilegeProofs`,
`PluginManagerProofs` and `PluginRuntimeRegistryProofs` about the module they are
named after, `SafetyPipelineProofs` about rule store, pipeline and ledger,
`OsSenseProofs` about `OsSenseRuntime` and `MetricHistory`, and
`RuntimeProcessesProofs` about `WorkerBoot` and `McpServerManager`. Since these
two bring two modules into one name space each, `MetricHistory` and
`McpServerManager` say `QueryInit`, `McpInit` and so on for what the other
modules call `Init`. No module that is proved about declares a RECURSIVE
operator.

Order of work: the way from a rule file to an execution first (ledger, gate,
rules, pipeline), since everything the agent may do passes through it; then
privilege, worker, conversation, sensing, plugins; then what plugins and tools
stand on, the installed plugins and the MCP servers. That is the state of this
directory. Left, in order:

1. the retry of a turn refused for its size (`main.rs:6765`, `trident.rs`)
   on top of `Conversation`, and two clients on one session file.
2. two processes that write one worker state file: they share its temporary
   file, and each holds a lock of its own only.
3. `PluginApproval`; bundled plugins and old registries in `PluginManager`.
4. the task, team and cron registries, and `RecoveryRecipes`.
5. `authorize_with_context` as an operator module against a reference
   decision table.

Every safety and refinement property that a passing run checks is a theorem
(section 6). Proofs left, in order: an abstract registry that
`PluginRuntimeRegistry` implements (a change installs one consistent set or
nothing); and what the plan's items 1 to 5 bring.

## 3. Runs

| Run | Checks | Shows |
|---|---|---|
| `gate_binding` | OneExecutionPerRequest, TokensMirrorLedger, ImplementsOneShot | the gate implements `OneShotAuthorization`, whatever reports, people, modes and times a token is brought with |
| `pipeline` | GenerationsRise, ReportsHoldTogether, RulesOnlyRaise, ExecutionsAreReproducible, NothingSlipsPast, Capacity | rule store and analyses under racing reloads, and what rules replaced between request, approval and execution can do |
| `privilege_session` | AuditReplays, EndedSessionIsBase, GrantsNeverRevive | every order of grants, completions, leases, session end, freeze and clock |
| `privilege_leases` | ElevationIsBacked (violated) | finding 1 |
| `worker_boot` | DeliveryIsLive, BlockedSaysWhy, StateFileCanBeActedOn, DeliversAsPromised | the worker implements `PromptDelivery` under every order of screens and calls |
| `conversation` | HistoryIsWhole, IdleIsSaved, NoOrphanResults, RequestsAreAnswered | crashes, appends cut off at either write, compactions and rotations at every point of a turn, prompt history that fails while the client goes on |
| `os_sense` | ScheduleKeepsStep, CountedIsOnRecord, AlertsTellLastReading | the collector thread against the tools, with failures, lateness and restarts |
| `metric_history` | WithinLimit, SelectionIsFaithful | every window of up to six rows |
| `plugin_runtime` | ChangeIsCurrent, SnapshotIsClosed, DrainedStaysDrained, MutationEnds | two mutators and a call that may never return |
| `plugin_runtime_dependents` | LoadedIsUp (violated) | finding 2 |
| `plugin_manager` | RegistryIsCoherent, TreeIsTheRegistry, ActiveIsInPlace, EnabledAreServed | every interleaving of two processes' commands, refused and put back at any step, one of them cut short; what survives which mishap |
| `mcp` | NothingBeforeHandshake, CallsAreNotRepeated, RoutesAreListed, FailuresAddUp, CallsEnd | every call of the manager on a server that does what it likes |

Every module of the program's state has a `TypeOK`. Runs do not check them,
because each is proved, the ledger's as part of `LedgerInv`. The ledger has no
run of its own: the gate's run works it, and its own properties, `UseBudget` and
`RevokedIsRefused`, are proved.

### Findings

1. `permissions.rs:420`: completing a one-operation grant restores the mode
   recorded when it was made. Completed first-in first-out, two such grants
   leave the session elevated with none open.
2. `plugins/src/lib.rs:7391`: replacing a plugin shuts down its unchanged
   dependents as well and does not initialise them again; they stay loaded.

The models show more, which no run states as a violation:

* `worker_boot.rs:525`: accepting a prompt changes the status without writing
  the state file, although `ROADMAP.md:1144` has it written on every change.
  `StateFileCanBeActedOn` says what the file is still good for.
* `worker_boot.rs:787`: a startup timeout observed on a worker that accepted
  its prompt and is ready again is classified as a misdelivery, because
  acceptance is read off the status. `BlockedSaysWhy` says what can be relied
  on: a prompt said not to have been accepted in time was not.
* With two mutators outside the plugin manager's file locks, the late shutdown
  of a replaced plugin can hit the same version loaded again meanwhile; the
  manager's locks keep that from happening.
* A client that dies in the middle of a plugin command leaves, at worst, a
  registry that names a pruned version, or a version directory it does not
  name. The former makes `validate_installed_version_records` refuse every
  later command, the latter makes `install` refuse that version; nothing
  repairs either, although `docs/requirements-4.2-mcp-ops-plugin-plan.md:45`
  asks for the recovery of damaged registries. `TreeIsTheRegistry` therefore
  excludes the histories `crash` and `torn`, and of what is left over allows only
  what a pruning left (below); `RegistryIsCoherent` and, short of
  a restoration, `ActiveIsInPlace` hold without exception. A client that dies
  in the middle of a restoration leaves the tree empty, and the next listing
  drops its plugins from the registry while the copy of the tree is still there.
* A plugin command that fails writes back all of `enabledPlugins` as it had
  read them before it waited for the locks (`lib.rs:9274`), and judges who
  depends on a plugin by the same reading: another process's `enable` is undone,
  or a plugin disabled or removed that an enabled one needs. `EnabledAreServed`
  excludes the history `stale`; with it, TLC finds both.
* With `keepVersions` 0 an update prunes the active version before the
  registry names its successor; `ActiveIsInPlace` excludes it.
* A record of the session file and its newline are two writes
  (`session.rs:616`). A client that dies in between leaves a file that loads, but
  the next one glues its first record to that line, and the file loads no more
  until the turn's rewrite. `record_prompt_history` (`main.rs:7218`) only warns
  when its append fails, so a turn may go on over a spoilt file: a crash before
  its rewrite leaves none that loads. `HistoryIsWhole` speaks of files that load.
* A compaction of a compacted session keeps the highlights of the summary it
  finds but drops that summary's timeline (`compact.rs:295`), so of what was said
  before the one but last compaction only highlights are left.
* Pruning drops the error of `remove_dir_all` (`lib.rs:14745`). A command that
  succeeds can leave a version directory the registry has forgotten, and
  `install` refuses that version from then on (`lib.rs:8221`). `TreeIsTheRegistry`
  says these are the only leftovers.
* An MCP server that cannot be spawned, or dies at `notifications/initialized`,
  leaves `ensure_server_ready` by `?` without marking the heartbeat: the status
  stays what it was. `FailuresAddUp` counts failed exchanges only.

## 4. Bounds, and why they are enough

* `gate_binding`: two sessions and people; four reports of one plan that
  differ in generation, confirmable intents, rating or denial, so that each
  part of a token's scope can differ alone; times 0 to 2 with a deadline one
  second off, so a deadline can pass, and the last second overflows; two
  requests, both of which may wait at once. `U64Max` stands for u64::MAX both
  of seconds and of the request counter.
* `pipeline`: two reloads are the race; one analysis is enough since analyses
  share nothing but the store they read, and keeping its last report is
  enough since `installed` only grows. The five rule files are good, rival,
  milder, or refused (level and policy disagree, an id twice, a rule that
  claims to be built in). `MaxPending` is 1: the limit is met by a waiting
  request, by a token, and by a call that asks for two.
* `privilege_session`: three grants are the fewest with one in the middle;
  leases end at 1 and 2, the session at 3, and the clock takes any value in
  between, backwards too. The role's maximum is either everything or workspace
  writes.
* `worker_boot`: workers share no state but the state file of a directory, so
  one, whose file another may overwrite at any time; a second prompt makes an
  echo of another prompt possible; three attempts include a replay of a replay.
* `conversation`: `Preserve` 2 with three tool uses in one answer puts the
  boundary of a compaction inside a group of results, eight messages allow a
  compaction of a compacted session.
* `os_sense`: intervals 2 and 3 in five instants make a collection more than
  an interval late; one dimension is a sensor that may be absent. Alerts do not
  influence each other or the schedule, so one.
* `metric_history`: four points leave two buckets for up to six rows; the code's
  maximum is covered by the theorem.
* `plugin_runtime`: two plugins, one of which needs the other, in two versions;
  one generation is enough for a replacement prepared before to go stale. One
  caller suffices for the drain; several are covered by the theorem. Versions
  are interchangeable, so `MCFairSpec` starts from the one called `v1`.
* `plugin_manager`: two processes are the fewest that race for the locks; three
  versions with `keepVersions` 1 make a prune of an archived version happen; a
  plugin that accepts two of them can be broken by an update and by a rollback.
  `MayBreak` bounds the mishaps to one death or failed restoration, after which
  the commands go on.
* `mcp`: servers share nothing but the manager, which works on one call at a
  time, so one server, of either transport; one tool and one prompt, listed or
  not; the capabilities for both (what is listed of resources matters to nothing
  else, so a stdio server never declares them); two pages
  (`MCP_MAX_PAGINATION_PAGES` is 64) make a listing go on and reach the limit;
  two answers in a pipe (`MaxSaid`) are a late one and the one waited for, in
  either order.

`CHECK_DEADLOCK FALSE` is set where the system stops: a missing or torn
session file cannot be resumed, a history query ends, and the bound on
generations ends the plugin mutations. Symmetry is used in
`gate_binding`, which has no liveness property.

## 5. Fairness

Two specifications state any.

`FairSpec` of `PluginRuntimeRegistry`: weak fairness of each
mutator's next step once it holds the slot. The code justifies it: the wait for
calls polls with a deadline (`wait_for_runtime_in_flight`) and lifecycle
commands run under the time that is left. Nothing is assumed of calls, which may
hang, nor of mutators that have not got the slot. `MutationEnds` then says the
slot is always given back, so one mutation never blocks the others for good.

`McpSpec` of `McpServerManager`: weak fairness of `Work`, the manager's own next
step. Answers are awaited under a timeout (`run_process_request`, the SSE
deadlines), and a process is killed before `reset_server` waits for it, which has
no timeout but needs nothing of the process. So the step is always there to
take; nothing is assumed of the servers. `CallsEnd` then says every call ends,
through its nested retries.

The other modules are driven by callers (a user, a screen, a clock) that
promise nothing, so nothing has to happen and no liveness is stated. In
`PluginManager` every wait for a lock has a deadline, so nothing can hang.

## 6. Proofs

| Theorem | For every | Invariant, and why it is needed |
|---|---|---|
| `LedgerUseBudget`, `LedgerRevokedIsRefused` | tokens, scopes, actors, budgets, times (`LedgerBounds`) | `LedgerInv`: `history` counts exactly what `uses` counts; a revoked token is accepted no more |
| `GateTypeOK`, `GateOneExecutionPerRequest`, `GateTokensMirrorLedger` | sessions, actors, reports, limits | `GateInv`: types, both token maps alike, logged ids were asked for, and pending, issued and logged ids are disjoint. Every operation but three only shrinks the maps (`ShrinkingStep`); the three are asking, approving and consuming |
| `GateCapacity`, `GateImplementsOneShot` | the same | `TermsInv` beside it: waiting requests, tokens, ledger and log bear the terms each number was asked on. The refinement then maps `Book`, where every number stands: an operation with its sweep drops what is expired and moves at most what it is about |
| `StoreTypeOK`, `StoreGenerationsRise`, `StoreReportsHoldTogether`, `StoreRulesOnlyRaise` | reloaders, analysts, rule files, plans, configurations | `StoreInv`: the snapshot in force is the last installed, what an analysis holds was installed, generations rise. `RulesOnlyRaise` then follows from the operators: more rules give a larger maximum (`MaxGrows`, `RiskGrows`); `StoreTypeOK` needs `FormedInv`, what validation makes of a rule file |
| `PipelineImplementsGate`, `PipelineImplementsOneShot`, `PipelineCapacity`, `PipelineNothingSlipsPast`, `PipelineExecutionsAreReproducible` | all of both | `PipelineInv`: both components' invariants; `ValidInv`, a rule in the store or on its way there bears the policy of its level; `AskedFromStore`, what a request rates is what a stored snapshot rates under some configuration. The gate's theorems carry over once every report answered is one the gate can meet (`GateReports`) |
| `SessionTypeOK`, `SessionAuditReplays`, `SessionEndedIsBase`, `SessionGrantsNeverRevive` | tools, modes, requests, templates, clocks | `SessionInv`: types with "used means closed", the replay itself, and `EndedIsQuiet`: until something is granted after the end of a session, nothing is open and nothing raised. Replay is shown to follow a grant added, one closed, and all of a kind closed |
| `WorkerTypeOK`, `WorkerDeliveryIsLive`, `WorkerBlockedSaysWhy`, `WorkerStateFileCanBeActedOn`, `WorkerDeliversAsPromised` | prompts, receipts, attempts | `WorkerInv`: the properties, and that an open delivery was not accepted and startup not given up on. It is a condition on a worker record, `Good`, which every helper (`Pushed`, the parts of `observe`) is shown to keep, so an action is the sequence of its helpers |
| `ConversationTypeOK`, `ConversationHistoryIsWhole`, `ConversationIdleIsSaved` | `Preserve`, bounds | `HistoryInv`: shapes, a rotated file is whole while the new one is written, and the history itself, of every file that loads; `TellsAllCompacted` is the lemma about compaction |
| `ConversationNoOrphanResults`, `ConversationRequestsAreAnswered` | the same | `ResultsInv`: session and file hold every result with its use, and end in the open round while tools run; the boundary of a compaction is then never inside a round. `AnswersInv`: what was said since the client started is answered but for the open round, and the file tells nothing later than was said |
| `OsSenseTypeOK`, `OsSenseScheduleKeepsStep` | dimensions, intervals, retry, limits | `ScheduleInv`: times read are not in the future, and the property; arithmetic of whole intervals in `LastMultiple` and `WholeSteps` |
| `OsSenseAlertsTellLastReading`, `OsSenseCountedIsOnRecord` | dimensions, sources, TTL, retention | `AlertsInv`: an alert kept is from the last reading that could tell; `RecordsInv`: the times on record, and the property, which pruning keeps because it goes by the same clock |
| `HistoryTypeOK`, `HistoryWithinLimit`, `HistorySelectionIsFaithful` | maxima over two, rows, times | `HistoryInv`: rows in order, `selected` is the bucket of the row taken last and at most as many were taken as buckets passed. `SelectionInv`: the first readable row is kept, the last held back, those taken in between rise, and every other row has one of its bucket before it |
| `RegistryTypeOK`, `RegistryChangeIsCurrent`, `RegistrySnapshotIsClosed`, `RegistryIdleIsOpen`, `RegistryDrainedStaysDrained` | plugins, dependencies, versions, threads | `IInv`: types; `SlotInv`, what each mutator knows at each point and that one holds the slot; `CountInv`, a plugin's count is the number of calls running on it |
| `ManagerRegistryIsCoherent` | processes, plugins, versions, requirements, `keepVersions` | `CoherenceInv`: the registry on disk, the one put aside and the one accepted are all coherent. That what is stored was accepted needs the stage of the transaction, not the mutation that got there |
| `ManagerTypeOK`, `ManagerTreeIsTheRegistry`, `ManagerActiveIsInPlace`, `ManagerEnabledAreServed` | the same (`ActiveIsInPlace` says nothing of `keepVersions` 0) | `ManagerInv`: `PlanInv`, what the transaction's new registry is at each stage compared with the file's and what is put aside is a state between transactions; `TreeInv`, which slots are there at each stage beside those in `left`; `PlaceInv`, the active versions of the file, of what was put aside and of the registry to come are there; `ServedInv`, the same of dependencies, with the settings the holder read. Each holds short of the mishaps its property excepts |
| `McpKeepsTypes`, `McpNothingBeforeHandshake`, `McpCallsAreNotRepeated`, `McpRoutesAreListed`, `McpFailuresAddUp` | servers, tools, prompts, capabilities, pages, answers in a pipe | `McpInv`: `ServerFits`, a server that counts as ready has a process that was told so; `CallFits`, what is left of a call is the rest of the steps of its part, and relies on a ready server once it is past making it so; `CountFits`, failures counted show in the heartbeat; routes are of listed tools unless the call under way ends in new ones |

The properties are seldom inductive alone. `ChangeIsCurrent`, for instance, needs
that a prepared job's old snapshot is the snapshot of its generation,
`DrainedStaysDrained` that a count of zero means no call, and
`NothingBeforeHandshake` that a list of steps left to do never begins behind the
handshake of a process that is gone. TLC checked each strengthening before it was
proved.

The assumptions are those of the modules (`GateAssumption`, `RulesAssumption`,
...), which TLC evaluates on the runs' instances: bounds are numbers, optional
values have a `None` (`Nothing`, `NoRow`) that is none of what they may hold,
configurations are those the code's validation lets through. `PipelineAssumption`
gives the gate's limits; what the gate assumes of reports is proved of those the
analyses answer. The ledger's bounds are a hypothesis of its two theorems
(`LedgerBounds`). No theorem assumes anything else.

Only model-checked: `MutationEnds` and `CallsEnd`. They are out of the prover's
reach (liveness, and the ENABLED in their fairness), as is what a recursively
defined operator computes for every input. The prover knows nothing of
`SelectSeq` either, so `PluginManager` has `Only` and `SafetyPipeline` its
`ConfirmOrders` as the ascending enumeration of a set of numbers, which exists
for every finite one (`AscendingExists`).

## 7. Abstractions

* Hashes are injective: a scope is the record of what is hashed into it, an id
  the counter in it.
* Patterns, scores and extraction are data: a rule carries the intents it hits,
  a configuration the level each intent scores.
* Of an audit log, an event list or a metric sample, what the properties read
  is kept. Texts, wording, truncation and redaction are left out.
* In the pipeline a risk is its level and policy; the code's token also binds
  score, factors and matched rules, so the model accepts more than the code.
* A screen is the set of cues it triggers, not its text.
* The least-privilege clock may go back; the sensing clock does not.
* A collection is atomic; sources read while others fail are outcomes of it.
* Writes of `worker-state.json` succeed; the session file's may fail or tear.
* A panicking tool is not modelled.
* `Conversation` is about sessions that Trident has not thinned. Its stages run
  on a refused turn and on `/compact` of a resumed session (`main.rs:4581`), and
  drop messages for good by what their text looks like: a tool use superseded by
  a later write goes without its result (`trident.rs:179`), and of three
  messages of the user only their number stays (`trident.rs:426`). Of such a
  session neither `HistoryIsWhole` nor `NoOrphanResults` can be said.
* The plugin registry's lock and the install tree's are taken together and in
  one order: one lock. A failed mutation's own undoing is overwritten by the
  transaction's restoration, which alone is modelled. A version slot that is
  there is intact.
* An MCP request is the one waited for or a late one: ids are never reused. An
  SSE request is one step with all its outcomes, connection included; a failed
  one counts as sent unless it was the connection that failed.

What is not modelled at all is in `PROJECT.json` with the reason: pure
decisions over strings, parsers, I/O without a protocol, standalone programs,
and the components the plan above still has.
