# CyreneBot in TLA+

This directory holds TLA+ specifications of CyreneBot: how tasks, events, chats,
agents, plugins and providers behave when their steps interleave, fail half-way,
are cut short by a crash, or follow each other in an order nobody wrote a test
for. TLC checks them on small instances; TLAPS proves the most important
invariants for every instance. Paths below are relative to `src/src/cyreneAI/` of
the repository.

## The system

CyreneBot is a bot framework in layers: `core` (protocols, schemas, managers),
`application` (orchestration), `infra` (adapters to databases, channels,
providers and tools), `api` (what plugin authors import) and `server` (HTTP
routes and background runners). It runs in one asyncio event loop per process;
several processes may share the SQLite table of plugin tasks. Code between two
awaits is atomic, everything else interleaves.

| component | state | operations | what is hard | what makes it correct |
|---|---|---|---|---|
| one-shot plugin tasks (`application/plugins/tasks.py`, `infra/adapters/plugins/sqlite/task_store.py`) | table of task instances with status, lease and attempt; semaphores | schedule, scan, restore, claim, heartbeat, complete, retry, fail, cancel | workers crash, leases run out, copies of rows are stale, slots are scarce | one executor per task, no late verdict, every task settled |
| coroutine table (`application/plugins/tasks.py`) | `_managed_tasks` | start, shutdown, register, unregister, forget | done callbacks run later than cancellations and replacements | no stale entries, one loop per definition, shutdown ends everything |
| channel polling (`server/channel_polling.py`, `infra/adapters/bot_polling_states/`) | offset in memory and in the store, marks of processed events | poll, filter, process, mark, save, start, stop | crash or failed call between any two steps, lost responses | nothing lost, order kept, duplicates explained |
| server process (`server/app.py`, `server/channel_websocket.py`, `application/runtime.py`) | runners, websocket and its client, resources | start, updates by websocket and webhook, shutdown | a shutdown among things that go on, any part of which may fail | nothing closed under a runner that works, everything closed |
| outbox (`application/plugins/outbox.py`) | two kinds of histories | send | pruned histories stand for sliding windows | limits hold on every window, nothing refused wrongly |
| agent (`application/agent/`, `core/context/`) | messages, counters, plan, context window, snapshot | plan, round, replan, answer, finalize, save | limits, plans, replans, failures and tools that change combine | budget, paired tool results, a history to go on from, a true record |
| plugin host and registries (`application/plugins/host.py`, `core/plugin/`, `core/tool/registry.py`) | definitions, command index, tools, skills, statuses | register, reload with rollback, unregister, enable | failures half-way through several registries | indexes agree with definitions, nothing leaks |
| plugin installation (`infra/adapters/plugins/filesystem/`, `infra/adapters/plugins/python_env.py`, `server/plugin_admin.py`, `core/plugin/install_policy.py`) | sources on record, assets, environments | load, install, reload | loading changes things before anybody has decided | records are true, only upgrades |
| plugin API (`api/_routing.py`, `api/_arguments.py`, `api/_executors.py`, `api/_depends.py`, `core/tool/validation.py`) | routes of routers, what setup registered | decorators, include, setup, calls | the same signature is read by four walks | what is mounted is what was declared, what is accepted can be called |
| bot sessions (`core/bot/session_manager.py`) | conversations of a session | create, use, rename, delete, clear, reset | names, ids and contexts part ways | a name leads to one conversation, contexts stay apart |
| chats of a context (`application/chat/orchestrator.py`, `infra/database/sqlalchemy/context_store.py`) | snapshots | chat, chat_stream, erase | read, await, write the whole window | turns are lost or come back only where overlaps explain it |
| one turn (`application/chat/orchestrator.py`) | conversation, tool rounds, policy | prepare, ask, call, feed back, save | rounds at their limit, clients that go, tools that change | only permitted tools, only completed turns remembered |
| tools and skills (`core/tool/`, `core/skill/`, `application/tools/execution_policy.py`) | registry, disabled names | register, disable, filter, execute | the policy has four sources | nothing runs that any of them forbids |
| bot turn (`application/bot/`, `core/plugin/manager.py`) | event, handlers, actions | dispatch, handlers, command, chat, send | handlers fail, plugins are switched meanwhile | all actions delivered once, admin commands for admins |
| replies (`infra/adapters/providers/`, `application/chat/orchestrator.py`) | the accumulator of a stream, the payload | map, fold, announce, send again | four protocols, calls in pieces, other providers' histories | the stream is the reply, the payload says the messages |
| providers (`core/provider/manager.py`, `server/provider_admin.py`) | running instances, saved configuration | add, remove, reload, close, start, stop | close is awaited between table and store | no client leaked, table and store in step |
| knowledge and memory (`application/knowledge/`, `application/tools/memory.py`, `infra/adapters/vector_stores/`) | vector records | index, delete, remember, search, forget, retrieve | chunks, overlaps, overlapping runs | what was written last is whole and found |

Plugins call the scheduler, the outbox, chats and agents through namespaces; the
plugin host registers and unregisters tasks with the scheduler (`host.py:395`);
the polling runner, the websocket and the webhooks hand each event to the
dispatcher, which ends in handlers, a command, a chat or an agent run; chats and
agents load and save context snapshots and execute tools. The hazards this leads
to are listed, each at its line, in `PROJECT.json`, and so is, under the
components, what is modelled of each and what is left out.

## Modules

| module | contents |
|---|---|
| `TaskPromise` | abstract specification: what a one-shot task promises |
| `TaskLeases`, `TaskLeasesProofs` | workers, rows, leases and semaphores; implements `TaskPromise` |
| `ManagedTasks` | coroutines and the table of one process |
| `ChannelPolling` | the polling runner, its store, the platform's queue |
| `Server` | extends it by the life of the process: both runners, the websocket, webhooks, shutdown |
| `Outbox` | the rate limiter |
| `PluginServicesProofs` | proofs about `Outbox`, `ManagedTasks`, `CommandArguments` and `PluginRoutes` |
| `ToolUse` | registry, policy and skills: what may be called |
| `AgentLoop` | the loop of one run of the agent |
| `AgentRun` | composes it with `ToolUse`, the planners, the context and the snapshot |
| `AgentLoopProofs` | proofs about both |
| `PluginHost` | the plugin host over the registries it keeps in step |
| `PluginInstall` | extends it by projects, loaders, environments and the install policy |
| `PluginHostProofs` | proofs about both |
| `CommandArguments` | how words become the arguments of a handler |
| `PluginRoutes` | extends it by routers, manifests, setup, and the calls of all kinds of handlers |
| `BotSessions` | the conversations of a session |
| `BotChats` | extends it by concurrent chats and erasing commands over the snapshots |
| `ChatTurn` | extends `ToolUse` by the chats of one context, one after the other |
| `BotTurn` | extends `ChatTurn` by the events of a bot |
| `BotProofs` | proofs about `BotChats`, `ChatTurn` and `BotTurn` |
| `StreamedReply` | a reply that arrives as a stream, over four adapters |
| `Exchange` | extends it by the requests and by replies that come whole |
| `ExchangeProofs` | proofs about both |
| `Providers` | the instances of one provider and its saved configuration |
| `ServerProofs` | proofs about `ChannelPolling`, `Server` and `Providers` |
| `Knowledge` | indexing of documents |
| `Recall` | extends it by the tools of memory and retrieval |
| `KnowledgeProofs` | proofs about both |
| `MC...` | the instances for TLC, where a configuration cannot say them alone |

Operators marked "Faulty" are variants of the operator below them with a
plausible bug; nothing uses them. Substituted for the original they make TLC
find the property violated that `PROJECT.json` names: each property is shown to
be sensitive to the code it is about.

### TaskLeases

`row` is the table, one record per task id: the columns `status`,
`lease_owner`, `lease_expires_at` (none, in the future, or passed), `attempt`,
and whether `run_at` has passed. `run[w][t]` is where the coroutine that runs a
task stands in worker `w`: `waiting` (asleep until its run_at, or about to
claim), `queued` for the global semaphore, `admitted` to it and waiting for the
definition's, `running` the handler with its heartbeat. `listed[w]` is the
result of a query that has not been looked at yet, so a claim can be based on an
old copy of the row; `attempt` is the attempt number in that copy, which is what
`_reschedule_retry` counts from. The SQL statements are the operators `AddedRow`,
`SettledRow`, `CanceledRow`, `RescheduledRow`, `Claimable`, `Runnable`: note
that `update_task_status` is unconditional. `Stop` is a shutdown or a crash;
both leave the rows as they are. With the default lease owner, a random id, a
restarted worker does not recognize its old leases, which the model expresses
by the owner `Departed`; with a configured `lease_owner` (`StableOwner`) it does.

A store call that raises is handled as the handler's failure: where the update to
completed raises the outcome is that of a failed handler (`Retry`, `Fail`), a claim
that raises reschedules or fails the row (`ClaimRaises`), and if recording that
raises too the coroutine is gone and the row left to its lease (`Abandon`).

Three assumptions are constants: `HeartbeatsOnTime`, that a handler's lease does
not run out while its heartbeat renews it (no stall, and no heartbeat that raises,
which would end them unnoticed); `WaitsAreShort`, that a claimed task
gets its slots before its lease runs out; `ClaimsRaiseAlone`, that a claim raises
only where it would have succeeded.

Abstractions: all instances belong to one definition (others appear as the
declared loops that compete for the global semaphore); a worker has one
coroutine per task id; the scan has no limit; tasks have no keys; a declared loop takes the semaphores when they are free.

### ManagedTasks

Coroutines have identities from a pool `Coro`; `managed` maps the ids the code
computes (`plugin:task:declared`, `:restore`, a task id, `:retry:`) to them, and
`pc` says where each stands. A coroutine that returned or was cancelled is
`done` until `Forget`, its done callback, has run. `Reload` is
`unregister_plugin` and `register_task` in one step, as the host calls them with
no await in between. Rows are reduced to what decides whether a scan lists
them. A coroutine takes any number of turns before its callback runs, except
where the code relies on the order (`RetryPop`).

### ChannelPolling and Server

In `ChannelPolling` the program counter follows `run_once` await by await.
`kept` is the platform's side: a poll with an offset discards the events below
it. Crash, stop and failed calls share the budget `MaxFaults`; a failed poll may
or may not have reached the platform. An event that raises in the processor
counts as tried, as in the code. Event ids are consecutive.

`Server` composes it with the rest of the process. `Boot` is the start of the
lifespan; a shutdown goes through the stages client, socket, polling, runtime
and then closes one resource after the other, each of which may raise; the
runners go on until it is their turn. A websocket task that has failed raises
out of the shutdown, and the process ends where it is. Each update makes a task
of its own; those of the websocket are not cancelled by a shutdown, go on while
resources are closed, and are lost with the process, while the HTTP server waits
for its webhooks. A process that cannot start is one that never was. The
channels' HTTP clients and the token cache of QQ are left out; channels are not
closed by `runtime.close`.

### Outbox

`_reserve_send` runs under a lock and awaits nothing inside it, so a send is one
step. `log` is the model's own record of accepted sends, never read by the
actions; all properties are about it. Time is an integer clock; the code's float
seconds are compared in the same way.

### AgentLoop and AgentRun

`AgentLoop` is `run` from the plan to the saved snapshot. A request chooses its
limits freely; the model's responses have up to `MaxCalls` tool calls. `at`
follows the code: planning, the try block of a round (`looping`), what follows
it (`deciding`), the last request (`finalizing`), `saving`; any of it, the
preparation too, may raise. Messages keep role and number of tool calls.

`AgentRun` adds what the loop leaves open: the tools offered under the policy of
the request, its selection and its skills (`ToolUse`), which plugins change
while it runs; plans by rules and by a model's reply, cut and filtered as the
planner does; the deviations that replace them; the memory retrieved, of which a
result that was cut by `max_tool_result_chars` or by the tool's own limit cannot
be read; the messages selected under a token budget; the steps, the snapshot
and its metadata. With a skill manager and no selected skill no tool is allowed.
A token budget may cut calls from their results; `HistoryGoesOn` asks for
pairs only where the budget is unlimited.

### PluginHost and PluginInstall

The host's operations are synchronous, so each is one step; what makes them hard
is that they are sequences of calls that can raise, with handlers that take back
part of what was done. `state` is one record of all registries, and the calls
are operators on it: `Reclaimed` is `_unregister_runtime_resources`, `Entered`
and `Dropped` are the plugin registry's `register` and `unregister`, and so on.
`Registrations` gives the possible outcomes of `PluginHost.register`, each a
record and whether it returned or raised: a setup that raises leaves any part of
what it could register before. `Reloads` composes unregistering, registering the
new module, and, if that raises, unregistering and registering the old one.

A module is a record of what its author chose; its setup behaves the same each
time it is called, so an old module fails in a rollback only because something
is in its way. The history `leaky` marks the plugins whose setup was cut short
or that were loaded on top of themselves: what those leave behind is the known
gap, and the part `Accounted` of `RegistriesAgree` is about all others. Skills
behave as tools do, events and middlewares as commands without conflicts.

`PluginInstall` says where modules come from: `Load`, `Install` and `Reload` read
a project at a path, which re-points its assets and makes its environment
(`env`), then decide by the manifest, the version and the content hash against
what is on record (`source`). Equal hashes are equal records; a step reads any
project at a path, so directories change between operations but not within one;
several projects of one directory are loaded one after another. An environment
without its marker counts as absent, whatever is left of it. Not modelled: two
processes sharing the environments' root, helper modules that stay in
`sys.modules`, and that the host's start checks no isolation mode.

### CommandArguments and PluginRoutes

A plugin is what its author wrote: decorators on routers, inclusions, and a
manifest, which may say a name twice. `Include` copies the routes a router has at that time; `Register` goes
through the root's routes and validates each signature; the host joins them with
the manifest's definitions (`Joined`), so that what the manifest says of a name
goes before what decorators say, and `Mounted` looks for handlers of all that is
defined. `CallInjected` deals out request, context and dependencies to tasks,
events and middlewares; `CallTool` lets `ToolManager` validate the arguments
against the schema made from the handler's signature, or the author's own, and
hands over by position what is left; `CallNobody` is a name that only the manifest
knows. For commands, `CommandArguments` reads one word and binds one parameter
at a time. Values of JSON are modelled to a depth of four, the object of the
arguments included (`Admits`). Positional-only parameters, annotations that cannot
be evaluated, what handlers return, usage texts, the test kit and the command line
are left out.

### BotSessions and BotChats

The store of sessions that exists is in memory and never suspends, so an
operation of the manager is one step; a conversation keeps the id of its first
name, and the context in the database is addressed by that id. `BotChats` lets
messages and commands of one session overlap at every await: a chat pins its
context, reads the window of the latest snapshot, asks, dates its snapshot and
commits it; an erasing command works on the conversations and then awaits the
deletion of the snapshots, which may fail. A crash loses the sessions and keeps
the snapshots. `overlap`, `erased`, `outlived` and `tainted` are histories that
the properties need to say what admits a loss. Names are compared casefolded, and
equal creation dates are left out. `update_activity` counts turns that nothing
reads.

### ToolUse, ChatTurn and BotTurn

`ToolUse` has the registry with its switch, the policy composed of the request's
policy, its allow-list and the selected skills, and the verdict on a call. A list
that is not given is the set of all names. `ChatTurn` follows one chat from the
history it loads through its rounds to the snapshot: `Begin` or `Refuse` decides
what may be offered, `Step` goes on from there await by await (the request, the
reply, the calls one by one, the snapshot), and a stream that falls back is
prepared again; a client that goes ends a stream anywhere.

`BotTurn` leads it: an event goes to the handlers of all enabled plugins, to a
command or to a chat, and the actions of all of them to the channel. Users,
admin rights, triggers and the longest match among commands decide what it is.
Handlers and commands may chat themselves (`ctx.llm`), at most one at a time and
leaving the event its own turn; the followed context is the one such chats
share. A command whose handler lacks a permission is answered like one for
admins. Middlewares, the agent as the mode of response and the texts of notices
are left out; HTTP chats in the same context happen while no event is handled,
their overlap being in `BotChats`.

### StreamedReply and Exchange

The model makes blocks of text, thoughts and calls, in pieces (`Grow`, `Close`);
`Parts` and `Finish` say how each protocol brings them, `Break` how it may fail, `Consume` is the accumulator, one chunk
at a time. `Exchange` puts the messages of a session on the wire as each of the
adapters' mappers does, takes a reply whole or streamed, and asks again, perhaps
through another adapter; the last request may offer a tool and oblige the model
to it or to another one. Texts are sequences of pieces, an image is one piece;
Gemini answers calls by name, which is modelled by the id. Passed-on parameters,
descriptions of tools, the kinds of errors and the HTTP clients are left out.

### Providers

`UpsertEnabled`, `UpsertDisabled`, `DeleteConfig`, `StartProvider`, `StopProvider`,
`Reload` and `Shutdown` run without interruption up to the close of the instance they took out of service; what is
left to do after it is in `op` (`Closed`, `CloseFails`). A close or a write may fail, a crash may come at
any time, and `disturbed` is the history of what admits a difference between
table and store: overlapping operations, a failure or a crash.

### Knowledge and Recall

A text has paragraphs with positions and lengths, a content is a sequence of
positions, and a vector is the content it is the embedding of. `index` awaits
the embeddings, which may fail, come in any order, or be too few, and the
transaction. `Recall` adds facts as sets of words with hashed vectors, compared
by the squares of their cosines, the tools of memory, whose arguments are
well-formed, and retrieval from a collection. Ids of facts and of chunks are
apart, and embeddings are longer or shorter than the vectors of facts. `Merged` is
`{**g, **f}`; who has the last word in it decides whether a caller can give a fact
another kind or namespace. The least score a question may ask for has no upper bound
in the code, so one above what equal words have finds nothing: of such
questions `SearchesFind` does not say that a fact is found by its own words. The vector store in memory (its records before a bad one stay written),
raw upserts, todos, a tool context without a session and the format of what is
retrieved are left out.

## Runs

| run | instance | shows |
|---|---|---|
| `leases` | 2 workers, 1 task with a retry, 2 slots of which 1 for the definition, 2 declared loops (in one worker), cancels by the other, 2 stops or raising store calls | mutual exclusion, rows and leases in step, `TaskPromise` implemented, every task settled |
| `managed` | 1 task with a retry, 4 coroutine identities, 1 reload | no stale entries, one loop, shutdown ends every coroutine |
| `host` | 2 plugins, 6 modules in 11 projects (three ways not to be readable among them), 2 paths, 2 tools, 3 commands in 2 namespaces | registries in step, true records, only upgrades, a plugin is lost to a conflict only |
| `server` | 3 events, responses of 2, 3 faults, 1 update | nothing lost, order, duplicates explained, progress, an orderly shutdown |
| `outbox` | window of 5, interval 2, 3 per session, 4 per plugin, 11 instants | the limits are exact |
| `agent` | up to 3 steps, 2 calls, 1 replan, plans of 2; 4 requests, 2 tools, 1 change of them | budget, pairs, a history to go on from, a true record, an end |
| `bots` | 3 messages, 1 eraser, 2 names, 1 crash | names, contexts, what is lost and what comes back |
| `providers` | 2 operations at a time, 2 versions, 4 instances, 2 restarts | no client leaked or closed twice, table and store in step |
| `exchange` | 6 dialects of 4 adapters, 3 blocks of up to 2 pieces, 2 requests, 2 openings | a stream folds to the reply, a payload says what its messages say |
| `turns` | 2 turns, 1 event of 9, 4 requests, 2 plugins of which one may chat, 2 tools, 1 change | permitted tools, transcripts, deliveries, admin commands, an end |
| `routes` | 3 routers, 7 declarations, up to 4 decorators or inclusions (5 for one plugin), 2 further plugins with manifests, all signatures of up to 3 injected parameters, 4 tool handlers with arguments of every JSON type, 8 command signatures with up to 4 of 9 words | what is mounted is declared, what is accepted can be called, words reach their parameters |
| `knowledge` | 2 runs of index, 2 documents, 2 collections, 1 deletion, 2 calls of memory tools of 4 kinds, 7 candidates | the latest version is whole, searches find what is meant |

Why the bounds suffice. The defects of the scheduler we know of need two workers,
one task, and one expiry, crash or failing call; the second fault lets a
crash meet the recovery from a failing call. Two slots of which the definition
has one make a task wait for either semaphore. Four coroutine identities let the
loop and the restore of before and after a reload coexist. Two plugins that
compete for two tools and two namespaces, with modules of every kind, meet every
conflict of the registries. Three events with responses of two give a batch, a
rest and a repeat; of three faults a shutdown takes two, as its stages need them,
and a crash may come during the recovery from a failed save. The outbox clock
passes its window twice. Three rounds of the agent allow a replan, a round under
the new plan and one beyond its end. Three messages let one chat overlap two
others that do not overlap each other; one crash is enough to separate sessions
from snapshots, one erasing command beside them to bring turns back. With two
operations every pair of administrative operations meets; four instances are what
they and a restart can make. Three blocks are the least that has a call between
two others; two pieces are the least that can be interleaved. Two turns let the
second read what the first saved. Three routers give an inclusion of an
inclusion; three parameters each have a neighbour of either kind. Two runs of
index with two documents overlap on one and not on the other, and the store can
come to hold more than the seven records that a search admits.

Deadlock is checked in `host` and `server`, where there is always a next step; the
others may rest. `bots` uses the symmetry of messages, and checks
invariants only.

Further instances are kept for use by hand:

| configuration | module | shows |
|---|---|---|
| `TaskLeasesLive` | `TaskLeases` | with one slot, and waits that outlast leases, rows and leases still agree and every task is settled (passes) |
| `TaskLeasesContended` | `TaskLeases` | such a wait makes two executors of one task (`OneExecutor` fails) |
| `TaskLeasesClaims` | `TaskLeases` | so does a claim that raises while another worker executes (`OneExecutor` fails) |
| `ManagedTasksReload` | `ManagedTasks` | after a second reload two loops of one definition run (`OneLoop` fails) |
| `AgentLoopLimit` | `AgentLoop` | a tool limit reached beyond the plan's end leads to a replan (`LimitIsTerminal` fails) |
| `AgentRunLeftover` | `MCAgentRun` | a last reply that holds calls all the same leaves them without results (`HistoryGoesOn` fails) |
| `PluginInstallRollback` | `MCPluginInstall` | a rollback may fail on what the new module left behind (`RollbackRestores` fails) |
| `StreamedReplyGemini` | `StreamedReply` | calls numbered per chunk collide (`EqualsWhole` fails) |
| `ServerAborts` | `Server` | a failed websocket task ends a shutdown early (`ShutdownsClose` fails) |

### Fairness

* `TaskLeases`: asyncio runs every ready coroutine, so a scan, a claim, an
  outcome or an adoption that stays possible happens (weak fairness); handlers
  end (the code offers `timeout_seconds`, and a handler that never ends keeps its
  row for ever); asyncio semaphores are first come first served, so a waiter that
  is passed over again and again gets its turn (strong fairness of `Admit` and
  `Begin`); clocks advance. Nothing is assumed of start, stop, schedule and
  cancel: `EventuallySettled` assumes instead that some worker stays up.
* `ManagedTasks`: every coroutine that can take a step does, and done callbacks
  run.
* `ChannelPolling` and `Server`: the process is started again, a round of the
  runner goes on, and a shutdown that has begun goes on; faults are finite in
  number, and arrivals are not required.
* `AgentLoop` and `AgentRun`: a run takes its next step: calls of the provider,
  of tools and of the store return or raise.
* `BotTurn` (`BotFairSpec`): so do handlers, commands, chats and channels.

## Where code and expectation part

Found while modelling, with the line where it bites:

* `application/plugins/tasks.py:422`: a claimed task queues for the semaphores
  with its lease running and no heartbeat; if that takes longer than
  `lease_seconds`, another worker executes the task too, although
  `core/plugin/plugin_protocol.py:600` has `claim_task` refuse a task that is held
  by another worker.
* `tasks.py:346`: a claim that raises is handled as a failed execution. It
  reschedules the row, or marks it failed, whoever executes the task by then and
  whatever verdict the row has.
* `tasks.py:566`: `_forget_task` removes the entry of a successor under the same
  id. After a reload the callback of the cancelled loop removes the new loop's
  entry, so the next reload does not cancel it, and two loops run.
* `tasks.py:285`: the limit of a scan counts the definitions and coroutines of
  this process; older runnable rows of plugins that nobody registers can fill it
  for ever.
* `application/agent/orchestrator.py:1185`: in a step beyond the plan's end the
  tool limit is not seen, and the run is replanned although a comment and a test
  call the limit terminal.
* `application/agent/orchestrator.py:1682`: tool calls in the reply to the last
  request, which offers no tools, stay in the history without results.
* `application/plugins/host.py:212`: tools that a setup registered before it
  raised are not taken back; in a reload they make the rollback conflict, and the
  plugin is gone.
* `host.py:983`: a command, event or middleware that the manifest also defines is
  what the manifest says: a decorator's `admin_required` is dropped then, while
  tasks and tools go by the decorator. `host.py:1046`: a command that only the
  manifest names resolves and has no handler.
* `host.py:1172`: chats of plugins during an event go to the context of the
  platform's session, not to that of the selected conversation.
* `infra/adapters/plugins/filesystem/loader.py:109`: failed reloads and duplicate
  loads re-point the assets of the plugin that is running; helper modules stay in
  `sys.modules`; startup checks no isolation mode.
* `server/app.py:72`: a websocket task that failed raises out of the shutdown
  before the runtime is closed.
* Streams: an empty streamed reply is stored as an empty assistant message, which
  only the OpenAI adapter drops when sending; Gemini's whole responses put thoughts
  into the text, its streams do not; Gemini's streamed calls are numbered per
  chunk, so that calls of two chunks are folded into one, although the
  accumulator's docstring says that its result equals that of a chat without
  streaming; Gemini's calls without ids get their name for an id; `<think>` is
  stripped from whole OpenAI replies only.
* Requests: a forced `tool_choice` stays in all the tool rounds of a chat; a
  choice of a tool without a name would be any tool for Gemini and none for the
  others (the orchestrators filter it first); streamed chats pass no middlewares.
* `api/_executors.py:254`: arguments of tools are handed over by position while
  unset defaults are skipped, so an argument that follows an unset one arrives
  at an earlier parameter. A `next` parameter of tasks and events passes
  validation and fails at the call; `Annotated[int, Arg(...)]` without markers is
  read as a string; a list annotation asks for a string in the generated schema;
  a command that is a generator and raises half-way raises unwrapped; a usage
  text is lost under a prefix.
* `core/tool/validation.py:44`: a value whose types admit null must still be an
  object or an array if its schema has properties or items.
* `application/tools/memory.py:195`: `remember_fact` replaces whatever record has
  the given id, while get and forget check its kind; `forget_memory` may delete a
  fact that was told after its lookup.
* Knowledge: re-indexing a shorter version leaves the higher-numbered chunks of
  its predecessor in the store, where retrieval finds them, and ids of records do
  not hold the collection (`infra/adapters/vector_stores/`); a search in any
  collection fails once the store holds more than `max_search_candidates`.
* Providers: chats in flight keep an instance that a reload closes under them.

## Proofs

All theorems hold for every value of the constants that the named assumptions of
the modules admit; finite sets are assumed where the code has them.

`TaskLeasesProofs` (`ConstantsAssumption`). `TypeCorrect`: `TypeOK` is
inductive, with lemmas about what each statement of the store leaves in a row.
`LeasesMatchStatuses`: `LeasedIffRunning` is inductive relative to it, without
any assumption on slots or time. `Exclusion` needs three: that heartbeats are on
time, that a claimed task waits less than a lease (or slots are enough that it
never waits), and that a claim raises only where it would have succeeded; the
instances by hand show that none can go. The inductive invariant adds that
who has a task in hand owns its row with an unexpired lease unless the row was
canceled (`ExecutorOwnsRow`), that at most one worker has (`OneTaker`, which
ownership alone does not give once the row is canceled), and `NothingWaits` where
slots are plenty. `PromiseIsKept` is the refinement: the executor of the promise
is the worker that has the task in hand, which is one by `OneTaker`; each action
maps to one of the promise or to a stutter, a crash to a crash.

`ServerProofs` (`PollingAssumption`, `ProvidersAssumption`). `PollingInv` adds to the types
which prefix of the ids has been tried, where the offset, the stored offset and
the platform stand relative to it, and what the lists of the round hold at each
program counter; `NothingIsLost`, `FirstTriesInOrder`, `DuplicatesAreExplained`
and `MarksAreFinal` follow. `TheServerPolls`: `ServerSpec => Spec`, so all of
them hold of the server. `ShutdownsAreOrderly` by an invariant on the stages of
a shutdown, `StageInv`. For providers, `ProvidersInv` says who owns each instance, the
table or one operation, and gives `InstancesAreOwned`; `SaveInv`, that without a
disturbance one operation at most has something to save, which the table fits
already, makes `StepInv` of `InStep`, and gives `TableKeepsStep`.

`PluginServicesProofs` (`OutboxAssumption`, `ManagedAssumption`, `ArgumentsAssumption`, `RoutesAssumption`). For the outbox,
`OutboxInv` says that times are accepted in order and that each pruned history mirrors
what its window reaches of the sends it counts (`HistoriesAreExact`), from which
`TheLimitsAreExact` follows. For the table of coroutines, `TableTypes` comes first;
`EntriesAreLive` holds together with `LoopInv`, which adds that until a first reload the loop of a
definition is the one in the table, so that the reload finds it:
`OneLoopAfterAReload`, and `TheTableHolds` where a plugin is reloaded at most once. A second
reload is what the code gets wrong (`ManagedTasksReload`), so the bound is part of
the theorem.

For the words of a command, `ArgumentsAreAsMeant`: `ArgumentsSpec => []BoundAsMeant`
for signatures that are `Usable`, as `_command_arguments_metadata` leaves them. The
meaning of words is defined without an order of reading: a word is a value if the one
before it asks for one and is none itself (`ValuesInTurn`). `OptionsRead` and
`PlainRead` say that at each point the reader has of options and positionals just what
the words before the next one mean, for which the next one must not be a value;
`MeantSoFar` and `UsedSoFar`, that each bound parameter has its meaning and as many
positionals are used as parameters of that kind came by, or all behind the rest. Two
parameters in a signature never share a name, or a word would have two meanings.

For routes, `RoutesInv` says that what decorators, inclusions and the manifest leave in
a route is either unnamed or a handler whose signature was validated. `AcceptedAreCallable`
then compares two loops over one signature, the validation and the injection, parameter
by parameter: `InStep` relates what each has dealt out, `First` and `FoldStep` being the
equations of such a loop. For tools it adds that the schema generated from the handler
names what the handler needs, so that arguments it admits, handed over by position, are
those the handler has. `RoutesReadArguments` shows that reading the words of a plugin's
command is a behaviour of `CommandArguments` for a signature that is `Usable`, which
gives `CommandsAreAsMeant`. `RoutesAssumption` says of decorators what Python does:
declared kinds, names that are finite sequences of words, finite lists of parameters,
no two of one name.

`TheHostHasIt`, for any number of routers, decorators and inclusions: `MountedAsDeclared`.
What a router holds is counted, so the invariant `MountInv` is about bijections: the routes
of each router and kind are a list without repetition (`Lists`, by `Pairs`) of what the
history has for it (`Entries`), each a declaration with a way of inclusions to that
router. A declaration adds one way, of no inclusion (`EntriesDeclare`); an inclusion
adds, to each way to the router that is included, one that is longer by its step
(`EntriesInclude`), and on it the definition merged once more is the one that the
longer way asks for (`MountedIncluded`): prefixes go in front, an admin is asked for if
any router on it asks, what was said of metadata first is what stays. It holds of
every router, although the promise is about the root: a router may be included by
one that the root includes later. The root's five lists are one after another
(`FlattenFive`), in the order of kinds (`UpTo`); the host has been given the first routes of
them (`Begun`), and has joined them with the manifest (`JoinedWell`): each of them is
defined under names that nothing else defines, or all its names are the manifest's.
That a route's names are all taken or none is, is what the code asks of commands alone;
the other kinds have one name.

`AgentLoopProofs` (`AgentAssumption`; `AgentRunAssumption` for the run). `AgentInv`
says what has been counted at each point of the loop and that the conversation pairs
calls and results before and after the messages of a step are appended
(`WellFormedConcat`: concatenation preserves the pairing). `AgentTypes`,
`ToolBudgetIsKept`, `ConversationsMatch`, `RunsEndCleanly`. `RunsAreLoopRuns`:
`RunSpec => Spec`, so all of them hold of the run. `RunInv` is about what the run adds:
`Prepared` (the selected window is paired where the budget is unlimited), `Recorded`
(the steps on record add up to the counters of the loop), `Placed` (at each point of the
loop the trace of the steps is what the messages say, or one reply ahead of it), `Kept`
(what the snapshot and its metadata hold once saved). It gives `RecordsAreTrue`, and `HistoriesGoOn` for models
that are `Obedient`: the last request offers no tools, and a model that calls some all
the same leaves calls without results (`AgentRunLeftover`), so the hypothesis cannot go.
Facts about lists are proved by a least counterexample in a set of positions
(`LeastNatural`, `Climb`), and a recursive function is shown to satisfy its equations
from one that does (`Recursion`).

`PluginHostProofs` (`PluginHostAssumption`, `InstallAssumption`, which say nothing
of what modules do). A lemma per call shows that it preserves `Good`, the
conjunction of types and the agreement of index, names and statuses, and leaves
the shares of other plugins `Apart`, whether it returns or raises; the lemmas
compose as the calls do. `HostTypes`, `CommandsAlwaysResolve`, `NamesStayOwn`,
`StatusesAreTrue`, `OthersStayUntouched`, `ReloadsKeepDisabled`; that what is
registered for a plugin is what its module and manifest say, unless it leaks, survives
the same calls, which gives `RegistriesAlwaysAgree` and `PluginsAreLostToConflicts`; `TheHost`:
`InstallSpec => Spec`; `SourcesAreTrue` and `PluginsOnlyUpgrade` by `InstallInv`,
`Good` with what is on record. Names must be own before the cleanup can be shown
to leave others alone, and the index must agree with the definitions before
unregistering can be shown to clear it.

`BotProofs` (`NameAssumption`, `ChatsAssumption`, `ToolAssumption`, `ChatAssumption`,
`BotAssumption`). Of chats side by side, `SessionInv` is about names
and conversations and gives `OneConversationPerName`; `ChatInv` adds that all rows
a chat has read are of its own context, which gives `ContextsAreIsolated`;
`LossInv` that a chat has read every row it does not overlap with (`ReadInv`), which
gives `TurnsAreKept`; `EraseInv` that an erased turn a chat still holds was erased
under it or had come back before, which gives `ErasedTurnsStayErased`; `PinInv`
that a chat under way keeps its conversation or its context is tainted, which
gives `NewConversationsStartEmpty`. Of one event after the other, `TurnInv` and
`HistoryInv` give, of chats alone, `OnlyPermittedToolsRun`, `RoundsStayLimited` and
`TheHistoryIsATranscript`. `TheBotChats`: every step of the bot is one of
its chats or unseen by them, so `TheBotRunsPermittedTools`. `EventInv` (types of
the event in hand, who has heard it, what was delivered, how it was answered) gives
`HandlersAreHeard`, `ActionsAreDelivered`, `EventsAreAnsweredOnce` and
`AdminCommandsAreForAdmins`.

`KnowledgeProofs` (`RequestAssumption`, `TextAssumption`, `RecallAssumption`,
`CallAssumption`, `LikenessAssumption`):
`LatestAlwaysWhole`, for any texts, sizes, overlaps, requests, runs and deletions. Half of it
is about the cutting: the chunks of `Split`, of `TakeParagraph` and of `Flush`, whatever
they are cut from, begin and end behind those before them (`Cuts`), which is why none
repeats another, and have every position of the paragraphs taken (`Covers`); the loop over
paragraphs is a recursive function, of which this is shown paragraph by paragraph with
the least one that fails (`LeastNatural`, `Agree`, `Recursion`, as in `AgentLoopProofs`). The
other half is the inductive invariant `KInv`: what a run holds is what its request was cut
into, vectors of those contents (`RunsMeant`); records have the ids of documents or of
facts (`IdsMeant`); and of each document written, for some request, every chunk of that
request is in the table as it was written, or its text is among what is known to be
deleted (`DocumentsMeant`). The last of them is needed: that a text is covered does not survive a
deletion or a run beside it, that each chunk is there or known to be gone does. The
assumptions say that the overlap is smaller than the size, that paragraphs come in order
without overlapping, that a request has finitely many documents, and that facts and
chunks have ids apart.

`SearchesAlwaysFind`, of the same module, for any facts, words, buckets, questions, filters and
limits. The invariant `RInv` adds `TableMeant`: the table is finite, holds for each fact told and not
forgotten the row made of what was told last, and else only rows of chunks of requests. It
is needed since a search sees rows alone, and a promise about facts is one about what was
told. What is left is about one search. That a fact is found by its own words is an
inequality: a vector is as like itself as any other is, which is the inequality of Cauchy and
Schwarz in integers (`CauchySchwarz`), for sums over the buckets; those are recursive
functions of sets, defined because a set is finite and each smaller one has a sum (`Descent`,
`SumsExist`, `AddsUp`). `BestExists`: of any finite set some best part of each size
exists, so that a search answers at all; `SearchIs` says which parts those are,
`MemoryCandidates` which rows are looked at, and `FactsFound` and `ChunksFound` put
these together. The assumptions say that a call has finitely many words, each with a
bucket and an integer for its sign, that limits are positive, that a least score is a
fraction, and that a likeness is a fraction of at most one, and one of equal contents: the
store refuses a vector that is zero, and any other is as like itself as can be.

`ExchangeProofs`, first (without assumptions): `OneStreamIsFaithful` and, of all the streams of a
session, `StreamsAreFaithful`, for any number of blocks, pieces and requests. The inductive
invariant `StreamInv` relates the accumulator to what the model has made (`Sound`): the
text and the thoughts are those of the blocks (`Folded`); the buffers hold, under indices that
go up, one entry for each call with its id and the arguments it has so far (`Indexes`,
`Held`), at the places the adapter gives them, by block or by call (`Placed`); only the
last block is open; and nothing is announced before the stream ends (`Quiet`). The places are
needed: that a call's delta comes beyond all others, and a later one meets its own call,
follows from nothing that the buffers hold. For Gemini, whose indices start over with
each chunk, the hypothesis `~ misplaced` takes their part. That the calls are built in the order
of the indices needs that there is but one increasing enumeration of a finite set
(`GoesUp`, `BuildIs`).

Then, for any windows, replies, tools and numbers of requests, `RequestsAreAsMeant`
(`BoundsAssumption`, `DialectsAssumption`, `ToolsAssumption`, `OpeningsAssumption`): what a
request says is what its chat says. Its inductive invariant is `ExchangeInv`: `StreamInv`;
every message of the window and of the thread is one that may be sent (`Sayable`), and while a
reply is awaited the payload is still the one made of the thread (`ThreadInv`); and Gemini,
whose chunks start over with their indices, fills the first two buffers at most
(`GeminiFew`), so that the calls built of them are calls even where they are misplaced. That
every reply, streamed or whole, is sayable is needed because Anthropic's and Gemini's mappers
leave out the images of an assistant that makes calls: no reply has both. The rest is about
lists. What a payload says and what a chat means are both lists flattened, and such a list is
taken apart piece by piece (`FlatMapAppend`, `FlatMapConcat`, `FlatMapTwice`), which is
proved by appending, with the set of the lists that have the property in place of an operator
(`ByAppending`). Of each adapter it is shown what it sends for one message (`BlocksSay`,
`UsesSay`, `OpenAIMessageSays`, `ResponsesItemsSay`), then for all of them: OpenAI's messages
that are dropped say nothing, what is left out for Responses are the calls without an answer
and nothing else (`CallsLeft`), and the parts that Anthropic's payload takes out of order are
put together as `SentAsMeant` puts them (`SystemSays`, `AnthropicSays`). The assumptions say
that the adapters are the four, that the name standing for none is no tool's, and that the
windows a session begins with hold messages of the schema, in which only assistants make
calls, and show no images where they do: messages posted over HTTP have no calls
(`HTTPMessage`), so that those with calls come from the mappers of replies. A client may
post images as the system's, and Anthropic's mapper then drops them: `SentAsMeant` asks for
the texts of the system alone there (`Content`), and the run has such a message.

Some proved invariants are not the property of a run of their own, being parts of
one that is (`InOrder` of `InTurn`, `CommandsResolve` of `RegistriesAgree`, `EntryIsLive`
of `TableHolds`) or
what it is proved from (`TypeOK`, `ExecutorOwnsRow`, `VerdictIsFinal`, `MarkedIsFinal`,
`EndsCleanly`, `StatusIsTrue`, `NamesAreOwn`, `OthersUntouched`,
`ReloadKeepsDisabled`, `RoundsAreLimited`, `ReactsOnce`).

Every safety property that a run checks is stated by a theorem. Only model-checked:
liveness (`EventuallySettled`, `Quiesces`, `EventuallyAttempted`, `Terminates`,
`Settles`), because the prover handles neither fairness nor ENABLED.

## Not modelled

* Tasks: keys, the limit of a scan, several definitions with one-shot tasks in one
  table, lease times below the heartbeat's minimum.
* Plugins: the agent namespace and its composition with events, the storage, the
  permission audit, what stays imported, two processes that share the root of
  environments, positional-only and keyword-only parameters of tools, annotations
  that cannot be evaluated, handlers' return values, the test kit, the command
  line.
* Bots: more than one session at a time in `BotTurn`, the agent as the mode of
  response, and commands that only report; sessions are those of the store in
  memory, the only one there is; turn counts.
* Chats: middlewares are external (a chain that may refuse a request or a
  response); ties of dates; pinned items and priorities of context, which no
  caller makes before messages are selected.
* Providers: `close_all` beside other operations; adapters' parameters that are
  only passed on, descriptions, kinds of errors, HTTP.
* Knowledge: raw vector upserts, todos, the vector store in memory where it
  differs, a tool context without a session, formatting.
* Channels' HTTP clients and QQ's token cache; generation of images, video and
  speech; external programs behind built-in tools (shell, MCP, HTTP); the wiring of
  the composition roots; schemas without behaviour. They are input and output,
  or hold no state of their own.

Next in order: keys and the scan's limit in `TaskLeases`; environments shared by two
processes; the agent as a bot's mode of response; todos; middlewares.
