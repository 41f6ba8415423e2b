# calfcord: a TLA+ model of the bridge, its workers and the `disco` command

calfcord lets people talk to AI agents in a Discord guild. The *bridge* process
takes @mentions from Discord, starts agent runs over a message broker (calfkit),
shows their progress, posts the replies under the agent's persona and keeps an
audit trail of what agents ask each other. Agents, tools and MCP servers are
worker processes; a *supervisor* (Process Compose, driven by the `disco`
command) starts and stops them. An agent is a Markdown file in a directory that
`disco agent` commands edit; `disco init` sets an install up.

This directory holds TLA+ modules of the parts with the most concurrency and
the most ways to fail, the configurations with which TLC checks them, and proofs
checked by TLAPS. Paths below are relative to `src/src/calfcord/`.

    tlc -config MentionTurn.cfg MentionTurn       # likewise for the other runs
    tlapm MentionTurn_proofs.tla

## 1. The system

The bridge is one asyncio event loop: between two awaits nothing interleaves,
and at every await another task may run, the call may fail, or the task may be
cancelled. That shapes all modules: **an action is what runs between two
awaits**, and program counters name awaits.

### 1.1 Components, their state, operations and what makes them correct

| Component | State | Operations | Correct when |
|---|---|---|---|
| **Mention handler** `bridge/mention_handler.py`, **reply poster** `bridge/reply_poster.py`, feedback for retries `discord/retry_feedback.py` | per turn: target, history, run handle, retry counter `attempts`, `attempt_history` | route, start run, drain stream, deliver, run again after a refusal, split the reply, notices | every turn ends with an answer, an apology or an excuse; the agent runs at most budget + 1 times; nothing follows an acknowledged reply; the transcript stores what the run added |
| **Progress message** `bridge/progress.py` (+ `step_events.py`, `steps_render.py`) | per run: lines, message id, debounce task | post on the first line, debounced edit, cancel and delete at the end | no edit after the delete; no known message left behind; never costs the reply |
| **Mesh roster** `bridge/roster.py` | snapshot of online agents | refresh, read | a turn routes on the snapshot it just took |
| **A2A audit trail** `bridge/a2a_dispatch.py`, `a2a_project.py`, `egress.py` | open consults per turn; thread per turn; channel and category ids | classify events, post, find or create channel and category, anchor a thread | one thread per turn, beside any whose creation failed after it took effect; an existing channel is reused; a consult is closed once |
| **Persona sender** `discord/persona.py` | webhook per channel, one discovery lock | send, edit, delete, discover or create the webhook | one webhook per channel; the lock is never left held; posts are recognised as ours |
| **Gateway, bridge process** `bridge/gateway.py`, `discord/typing.py`, `normalizer.py`, `wire.py` | ids seen (bounded), handler tasks, typing tasks, readiness | dedup, spawn a handler, shut down in order | a redelivery is not handled twice; resources outlive the tasks that use them; shutdown ends, unless a handler swallowed its cancellation |
| **Bridge health** `health/*` | the heartbeat file; connected flag; refresher task | beat, refresh, verdict of the probe | healthy means recently connected; a connected bridge does not flap |
| **Channel history** `bridge/history.py` | cache with a time to live, fetches in flight | fetch (single flight), cut at `/clear`, join with stored turns, build the model's history | nothing from before a `/clear` is shown; followers get what their leader gets, also when it fails or is cancelled; a provider takes what is built |
| **Transcripts, overrides, steps view** `bridge/transcripts.py`, `overrides.py`, `steps_toggle.py`, `slash.py` | SQLite tables, an in-memory map of efforts | upsert a turn, look it up, set and clear an override, prune, hydrate, show steps | map, table and disk agree; a row is found under the message it belongs to |
| **Supervisor lifecycle** `supervisor/lifecycle.py`, `client.py`, `_workspace.py` (and the reload of `cli/agent_create.py`) | a lock file per home; the supervisor on its REST port | start, stop, reload; status reads | a home has one supervisor; a failed start leaves none; every command ends |
| **Supervisor roster** `supervisor/roster.py`, `mcp_roster.py`, `component.py`, slots of `compose.py` | none of its own: the supervisor's process list, the mesh | start, stop, restart one or all agents, MCP servers, the tools host | an agent known to be online elsewhere is not started; a sweep deals with all it lists, and with nothing else |
| **Worker runtime** `_worker_runtime.py`, `agents/runner.py`, `loader.py`, `factory.py` | serve task, stop event, exit code | load the directory, build, run until signal, drain | a crash exits with an error, also beside a signal; a wanted agent serves in the end |
| **Agent definitions and commands** `agents/definition.py`, `md_writer.py`, `cli/_agents.py`, `agent_create.py`, `agent_edit.py`, `agent_tools.py`, `agent_lifecycle.py` | one file per agent | create, set, edit, choose tools, rename, delete; at the end of create, open or restart the workspace | a write changes its own field; no failure or interruption loses an agent; what is left behind loads |
| **Setup wizard** `cli/init.py`, `setup_state.py`, `discord_discovery.py`, `_envfile.py`, `_providers.py` | `.env`, the checkpoint `setup.json`, the agent's file | name and model, token, guild, channel, broker, live finish | resumable: Enter keeps a binding that the checkpoint has; the bound channel is one the bot may post in; every wait ends |
| Codex provider `providers/codex/*` | token file shared by processes | refresh, persist | a refreshed token is not lost |
| Pure algorithms `tools/deploy_filters.py`, `mcp/selector.py`, `mcp/agent_select.py`, `discord/messages.py`, `bridge/steps_render.py` | none | filter, alias, select, split, render | agree with their reference definitions |
| Compose rendering, provisioning, deployment files, doctor, logs and other commands | files written whole | render, print | sequential; not modelled |

### 1.2 How they interact

The gateway's `_on_message` drops redeliveries and ambient messages and spawns
one handler task per mention. The handler awaits, in this order, the roster, the
history, the start of the run, each event of its stream (an event goes to the
audit trail *or* to the progress message), the end of the progress message, the
result, and the posts of the reply poster; it shares with all other handlers the
persona sender (webhook cache and lock), the projector and resolver of the audit
trail, the transcript store and the dedup memory. The progress renderer has a
timer task per run that lives beside the handler. The shutdown stops the gateway,
cancels the handlers, waits for them and for the typing tasks, and only then
closes store, client and sender. The refresher task writes the heartbeat that a
probe in another process reads.

Outside the bridge, every `disco` command is a process of its own. `start`,
`stop` and the reload of `agent create` exclude each other per home by a file
lock; the roster verbs take no lock and meet each other, and the lifecycle
commands, in the supervisor's slots only. Agents of several hosts see each other
on the mesh, with a delay.

The history provider reads Discord and then the transcript store, which the
reply posters of all turns, the slash commands and the clicks on a reply's button
use too, through one connection whose statements run in the order in which they
come. The effort map is read by every mention and written by a slash command,
after the table.

The agents directory is shared without a lock by every `disco agent` command,
`disco init`, `disco start` (which makes a slot of every file) and every agent
process (which parses all files to find its own). A process that ends with an
error is run again by the supervisor.

### 1.3 What is hard

Discord calls that fail after they took effect; errors that are not
`DiscordException` and slip past the handlers written for those; cancellation at
any await, including inside a `finally`; a timer task racing the end of the
turn; find-then-create without a lock; caches read before an await and used
after it; a bounded memory at its limit; a heartbeat file that outlives its
process; commands that look at a supervisor and then act on it, while another
command, another home on the same port or a process's end changes it in between;
a shared future whose leader is cancelled; a window of history that starts
anywhere in a conversation; files read to ask a question and written when it is
answered; a rename of two steps; a wizard cut off between any two of its saves.
`PROJECT.json` lists each at its line with the property that would show
it going wrong.

## 2. Modules

| Module | Models | Composition |
|---|---|---|
| `TurnOutcome` | what a turn promises its user, with no word of how | abstract specification |
| `MentionTurn` | one turn: handler, progress message, reply poster, crash notice | implements `TurnOutcome` (`KeepsPromise`) |
| `A2AProjection` | dispatcher, projector and resolver of several turns | `MCA2AProjection` for TLC |
| `PersonaWebhooks` | the persona sender under all tasks of the bridge | |
| `BridgeGateway` | dedup, handler and typing tasks, shutdown | a handler is a unit here, a `MentionTurn` there |
| `BridgeHealth` | heartbeat, refresher, probe, restarts | |
| `Lifecycle` | start, stop and reload of several homes against their supervisors | `MCLifecycle` for TLC |
| `Roster` | the roster verbs on one host, against slots and mesh | the workspace that `Lifecycle` opens is one flag here |
| `ChannelHistory` | what an agent is shown of a channel: window, starter, marker, replay | operators, used by `BridgeMemory` |
| `BridgeMemory` | fetches, transcript store, overrides, steps view, slash commands, restart | `MCBridgeMemory` for TLC; a mention ends here where `MentionTurn` starts the run |
| `AgentFiles` | the agents directory and the commands that change it | extended by `AgentWorkers` |
| `AgentWorkers` | the directory with the agents' processes and the workspace | `MCAgentWorkers` for TLC; the workspace commands, in detail in `Lifecycle` and `Roster`, are one step here |
| `SetupWizard` | `disco init` over several runs, beside Discord | `MCSetupWizard` for TLC; the directory is a model per agent here, `AgentFiles` has it in detail |
| `MentionTurn_proofs`, `BridgeProcess_proofs` (of `BridgeGateway`, `BridgeHealth` and `PersonaWebhooks`), `Lifecycle_proofs`, `Roster_proofs`, `A2AProjection_proofs`, `BridgeMemory_proofs`, `AgentWorkers_proofs`, `SetupWizard_proofs` | theorems | |

Operators named `...Not`, `...Late`, `...Blind` and the like, under a comment
"Mutated form", are wrong on purpose. Nothing refers to them; each stands for a
plausible bug and is put in place of the definition after it to see that a
property notices.

### 2.1 MentionTurn

`pc` is the await of the handler task: `refresh`, `history`, `start` (routing);
`drain`, `project`, `post` (inside the drain loop); `await_debounce`, `delete`
(`finish()` in the `finally`); `result`, `fault_notes`, `send`, `backoff`,
`resend`, `transcript`, `retry`, `chunk`, `chunk_row` (delivery); `notice`,
`crash_notice`; and three ends. `unwinding` is what propagates through the
`finally`. `task` are the debounce tasks, `tracked` the one the progress entry
knows. `runs`, `attemptHist` and `base` follow the retry loop.

A Discord call ends well, is refused (4xx the agent could fix), blocked (auth,
permission, rate limit), in an outage (5xx: effect unknown), or with an error of
the transport, which is no `DiscordException` and is caught by none of the
handlers for those (effect unknown). `Cancel` is `drain_inflight`'s
`task.cancel()`, at any await, once. Cancelled while `finish()` awaits the
debounce task it cancelled itself, the handler swallows the cancellation
(`progress.py:269`) and goes on; the model does the same, and such a turn may
come to wait for another run of the agent (`DrainedTurnRunsNoAgent`).

Only the number of progress lines, of history entries and of chunks is kept.
Routing sees a mention always: the gateway spawns handlers for no other message.

### 2.2 A2AProjection

The turns of the bridge, each alternating between draining events and one
projection at a time. Channels and categories on Discord are numbered in the
order of creation. A projection resolves the channel (`discover`,
`find_category`, `make_category`, `create`), anchors the turn's thread
(`anchor`, `thread`) and posts the rest. `Lose` is a call that raises: the
projector swallows it; `Cancel` is a cancellation at an await. Both leave on
Discord what `Unnoticed` allows: nothing, or the channel, category or thread that
was being created. `threads` counts a turn's threads, `strays` those of them the
bridge was not told of, and `closed` the ends of a consult, for the properties.

### 2.3 PersonaWebhooks

`cache` and `lock` are the sender's, `hooks` what exists on Discord, `pc` the
await of each task: waiting for the lock, `fetch`, `list` and `create` under it,
or the `call` of the webhook. Any await may raise or be cancelled, and the
process may die, with a creation in flight taking effect or not. `asyncio.Lock`
is fair: a task that finds others waiting queues behind them.
Assumed: nobody else creates webhooks of this name and owner, a creation takes
effect at most once and no later than its call is seen to fail, and Discord's
list shows it from then on.

### 2.4 BridgeGateway

`seen` is the ordered, bounded dedup memory; `sighted[m]` remembers, for the
property, which other messages came since `m` was last sighted. `cancelled` are
the handlers the drain cancelled, `swallowed` those of them that suppressed it
(`Swallows`; where that happens in a turn is in `MentionTurn`). `phase` is what
`main()` awaits on its way out. While the gateway is closing it still hands out
messages; afterwards not.

### 2.5 BridgeHealth

Time passes in seconds and is kept as ages that stop counting past the time to
live. `beatAge` is the age of the file's beat, whoever wrote it; `gatewayAge` the
time since a bridge was last connected. The refresher may be woken up to
`MaxLate` seconds late, its writes may fail, the process may die and start again.

### 2.6 Lifecycle

Commands are CLI processes. `cmd[c].pc` is the call a command is in: `lock`, the
probes `isup` and `whose`, `launch`, the polls `awaitup` and `gate`, `prime`, and
the blocking `teardown` (of a failed start) and `down` (of a stop). `lock[h]` is
the holder of the home's lock file, which the kernel frees when a command is
killed (`Kill`, at any point). `booting[h]` counts supervisors launched for a
home that do not answer yet, `server[p]` says whose supervisor answers on a port;
they boot, fail and die on their own. The port is a hash of the home
(`pc_port_for`), so two homes may share one.

`overlooked` is a history variable: the homes for which the program lost track of
a supervisor, because one was still booting when the wait for it ran out, did not
answer a probe in time, would not go down, or its command was killed. The code
promises nothing for these; `OneSupervisor` and `FailedStartTornDown` leave them
out, and homes that share their port.

A `reload` is the `stop` that `disco agent create` runs, and goes on as a `start`
that takes the lock anew. Whether a probe, a poll or an update succeeds is open
wherever the code has both outcomes; the texts and the rendered project are not
kept.

### 2.7 Roster

`proc` is what the supervisor says of its slots, `online` and `elsewhere` the
agents the mesh shows, of this host and of others. One command is followed REST
call by REST call (`up`, `list`, `probe`, `act`), for each of the verbs of
agents, MCP servers and the tools host, on one name or on all. Everything else
that can change a slot between two of its calls - other commands, a crash and
its restart, a workspace closed and opened again with other agents - is
`OtherCommand`, `OpenWorkspace` and `CloseWorkspace`. `here` and `live` are what
the command read, `known` (for the property) the agents that have been online
elsewhere ever since it began.

`ListForAgent` is the read of the process list that `start --all` repeats for
every agent; its workspace check before that read is left out, since it fails as
the read does.

### 2.8 ChannelHistory and BridgeMemory

`ChannelHistory` is `_do_fetch` and `build_message_history` as operators: a
channel is a sequence of posts told apart by what the code tells apart (a human's
words, a blank post, a human who writes the marker's text, an agent's reply, the
marker), an id is a place in it, and the starter of a thread that was started
from a message has the id 0. `Records` is the window with the starter in front,
cut at the last marker; `ModelHistory` the requests and responses built from it,
with the tool calls and returns of stored turns in front of their replies.

`BridgeMemory` has the tasks that use them. `task[t].pc` is an await: `history`
and `starter` of a leader, `follow` of a follower, `join` with the store;
`execute` and `commit` of a writer (`op` says which); `defer`, `read` and
`followup` of a click. `queue` holds the tasks whose statement waits for the
connection's thread. `table` is what a statement sees, `disk` what has been
committed, by anybody: a statement whose commit failed stays in the open
transaction unless SQLite rolled it back, and both are taken. A follower awaits the shared future
itself: cancelled, it cancels the future, its fellows end `unawaited`, with a
cancellation that is not theirs, and the leader is `broken`, whose future throws
the same at whoever still joins. `faithful` (for the property) is false once a commit or a
hydration of the process failed. A restart opens the store or does without, and
prunes and hydrates if it can.

Kept histories are dropped at any moment (`Expire`): the time to live, the size
of the cache, and the bypass for callers that ask for it.

### 2.9 AgentFiles and AgentWorkers

A definition keeps its name, the stem it was created under, and for four fields
(description, prompt, memory, tools) whether they are as created. Those are the
ones the code tells apart: the description decides what the wizard takes for the
untouched seed, memory needs a tool, and any other field is like the prompt. A
command of a terminal goes from `pc` to `pc` as it looks, asks, loads, writes;
`Interrupt` ends it anywhere, and every write may fail. `todo` are the fields it
has yet to write, `then` and `else` where a menu or the end of create goes on.
`base`, `disk` and `alone` are for properties, except that `base` is also what a
rename copies.

An agent's process reads the names in the directory, parses each file in any
order, builds, starts and serves; a crash and a signal may both be there before
it wakes. `wanted` is that an operator started it and nobody stopped it before
it crashed. `Process Compose` is modelled by how `compose.py` configures it: a
process that exits with an error and was not stopped runs again, without limit.

### 2.10 SetupWizard

`w.pc` is the prompt or call the wizard is at. `env`, `ckpt` and `md` survive it;
`w` does not, and `Interrupt` ends it anywhere, `Begin` runs it again. Discord's
answers come from `joined`, which changes beside it, and from `Accepted` tokens,
and it may be out of reach at any call. The clock of the poll counts the time of
requests and the waits between them. A listing gives each channel of a guild its
overwrites; `Effective` is the code's computation over sets of permissions,
`Grants` Discord's rule stated separately, per permission: the most specific
overwrite that has an opinion decides. An administrator may post everywhere; that
`_can_post` asks for Administrator once more after the overwrites
(`discord_discovery.py:427`) is left out, since Discord has no overwrite that
grants it.

`base` (for the properties) is the binding of token, guild and channel a run
found, as long as every answer was Enter with the saved answer on offer; `agreed`
that guild and channel were then the checkpoint's; `bound` the channel that was picked, and whether those offered
were the ones the bot may post in.

## 3. What TLC checks

| Run | Shows | Instance |
|---|---|---|
| `turn` | safety of the turn, and that it implements `TurnOutcome` including its end | 4 events, 2 retries, 2 chunks |
| `a2a` | the audit trail under two concurrent turns | 2 turns, 2 events each, 2 channel ids, a category; turns are symmetric |
| `webhooks` | webhook discovery under three tasks, and that calls return | 3 tasks, 2 channels, 3 ids |
| `gateway` | dedup at its limit, shutdown | 3 messages (2 mentions), memory of 2, 2 runs per message |
| `health` | the verdict of the probe with the shipped interval (2 s) and time to live (10 s) | 3 s late, 1 missed beat |
| `lifecycle` | supervisors under concurrent, failing and killed commands | 2 homes, on one port or two; 2 commands at a time, without end; 2 supervisors of a home not yet up |
| `roster` | the roster verbs beside everything that changes slots and mesh | 2 agents, 1 MCP slot, the tools slot |
| `memory` | what agents are shown, single flight, store and map | 3 tasks that mention, or 2 of any kind; channels of 2 messages that tasks share, of 3 for a task alone; windows of 2; 1 restart |
| `agents` | the agent commands beside each other and beside the workers | 2 terminals, 2 commands, 2 files (one the seed), 1 process, 1 crash |
| `setup` | `disco init` cut off and run again | 2 runs, 2 guilds, 3 channels, 2 permissions, a good and a bad token |
| `sweep_scope` | violation: `agent stop --all` takes MCP servers for agents | as `roster` |
| `prune_customized` | violation: the wizard deletes a seed that was customised | 1 terminal, 2 commands |

**The properties.** `NoEditRacesDelete`: while the progress message is being
deleted, and ever after, no debounce task can edit it. `ProgressRetired`: it is
gone, or its delete was tried, before the turn goes on. `WholeReplyIsFinal`,
`DeltaMatchesRun`: see 1.1. `KeepsPromise`: the refinement. `OneTrail` (a turn has
one thread beside those whose creation the bridge was not told of, and a channel
that was there is the only one used) and `ClosedOnce` for the audit trail; `OneWebhookPerChannel`, `CallsReturn`
for the sender; `HandledOnceWhileRemembered` (an action property: a second
handler for a message only after as many other messages as the memory holds),
`ResourcesOutliveTasks`, `ShutdownEnds` (the shutdown ends, unless a handler
that swallowed its cancellation goes on for ever) for the gateway; `VerdictIsRight` (a
healthy bridge was connected within the time to live, and a connected one that is
late within its budget is not found unhealthy), `ConnectedGetsHealthy` for
health. `OneSupervisor`,
`FailedStartTornDown`, `CommandsEnd` for the lifecycle; `NoKnownDuplicate` (an
agent online elsewhere from before the command on is not started, unless it was
found running here or the mesh could not be read) and `SweepVisitsAll` (a sweep
of agents does not end before its last agent) for the roster.

For the memory, `ClearBoundsHistory` (an agent's records start after the last
marker of the window, the thread's starter included), `ReplayFits` (what is built
starts with a request, and a replayed return stands between its call and its
reply), `FollowersAreServed` (an action property: a follower waits on for a fetch
that is under way, or gets what its leader gets, or a follower of the same future
was cancelled), `MapMatchesTable` (with nothing in flight, the map
is the table and the disk). For the agents, `UpdateTouchesOwnField` (a write
whose file nobody else wrote since it was loaded changes one field),
`AgentSurvives` (an agent goes by delete, or with the file that passes for the
untouched seed, and by nothing else a command does alone, failed or cut off), `CrashIsSeen` (an exit without an error
was asked for and hides no crash), `WantedServes` (in a directory that is left
alone and loads, a wanted agent serves in the end). For the wizard,
`EnterKeepsBinding` (Enter keeps a binding on which `.env` and the checkpoint
agreed when the run began), `BoundWhereItMayPost`, `WaitsEnd`.

Four properties state what a doc or a comment says, where the code is weaker:
`OneThreadPerTurn` beside `OneTrail`, `DrainedTurnRunsNoAgent` beside
`ShutdownEnds`, `OneFetchServesAll` beside `FollowersAreServed`,
`EnterKeepsNewest` beside `EnterKeepsBinding`. The code does not keep them (3.1),
and no run lists them; the property beside each says what does hold.

**The bounds and why they are enough.** In a turn four events give a posted
message, a live debounce task with an event that reuses it, and a second task
spawned when the first is done; two retries a history that grows twice; two chunks give partial and total loss. Two turns are enough for
a race to find or create, and two events for a call and its answer or two calls
that dangle. Three tasks on two channels give a holder, a waiter on the same
channel and one on another; the third id is the one a wrong second creation
would take. A memory of two with three messages is at its limit with every
order of sightings. The shipped time to live is two refresh periods of the worst
lateness, so one missed beat is the budget the boundary has to stand. Two homes
and two commands give a race on one home, a race of two homes for one port, and
a command killed with another close behind; commands begin again without limit,
so two at a time are not two in all. `MaxBoot` only stops the model from
launching more supervisors while two of a home have not come up, which happens
after kills and late supervisors. Two agents make a sweep with a part done and a
part to do, and an MCP slot beside them what the code takes for an agent.

Three tasks are what the single flight needs: a leader, a follower that is
cancelled and one that is not. Elsewhere a task meets one other at a time: the
queue, the table and the map are the only places, and `ThreeOnlyMention` keeps
the third for mentions. A window of two with a starter has a marker in front of,
between and behind others, and a reply before and after the first request
(`LongIsForOne`: such channels are long from the start, with all transcripts at
hand, for one task in one life of the process; what tasks do to each other does
not depend on the window). Two commands and two files give every pair of
commands on one file and on two, a rename with a target, and a seed beside an
agent; three files under one terminal that gives three commands gave the same
verdict. `OneBesideWorkers` leaves out two terminals at work while a process runs:
they meet in the directory, which the process only reads. The constraint cuts no
behaviour in which one terminal works at a time, and `WantedServes` speaks of
states with none at work. A poll of 3 with an interval of 2, waits of 1 and 4 and
requests of 0 and 1 can end at the deadline, just before it and by a wait that
would go beyond. Two runs are a run that is cut off anywhere and the one that
resumes; three gave the same verdict. One channel of a listing has overwrites, since the computation takes
channels one by one; two permissions are needed for one to be allowed and the
other denied.

**Fairness.** The event loop runs every ready task and every awaited call returns
or raises: weak fairness of the handler and of the debounce tasks in
`MentionTurn`, of each task's step in `PersonaWebhooks`. `asyncio.Lock` serves in
order: a task that can have the lock again and again gets it (strong fairness of
`Acquire`; the queue's order itself is not kept, only that newcomers queue). In
`BridgeGateway` `main()` goes on, a handler that a cancellation *reaches* ends and
a typing call returns; one that nobody cancelled, or that swallowed its
cancellation, need not end, since an agent's run has no timeout. In `BridgeHealth` time passes,
the loop runs the refresher, and of infinitely many writes infinitely many
succeed (strong fairness of `RefreshWrites`), without which the file could be
unwritable for good. In `Lifecycle` a command's process is scheduled and its
calls and polls come to their timeout: weak fairness of each command's `Step`;
nothing makes a supervisor boot or end. `Roster` and `BridgeMemory` state safety
only. In `AgentWorkers` a process is scheduled and a failed one is run again (weak
fairness of `Proceeds`): `compose.py` sets `restart: on_failure` without a limit.
In `SetupWizard` the wizard's own steps go on (weak fairness of `Works`): its
requests and its watcher have timeouts; the prompts are not among them. No fairness makes Discord call, an operator act, a process
die or a call succeed.

### 3.1 Where code and comment part

* `sweep_scope`: `roster.py:441-442` says that `stop --all` acts on "exactly this
  host's Running agent processes", and `roster.py:369` names "--all never touches
  another component type" as an invariant. The filter (`roster.py:589`) knows the
  names `broker`, `bridge` and `tools` but not the `mcp-<server>` slots.
* `prune_customized`: `_agents.py:220-221` says that a customised `assistant.md`
  "is never deleted". `is_pristine_seed` (`_agents.py:185`) compares its id and
  description only: a seed with a prompt or tools of the operator's own goes when
  `disco init` creates another agent. So does another agent that was renamed to
  `assistant` and has the default description.

Stated in the modules and listed by no run. As an `INVARIANT` of the run's
configuration (`a2a`, `turn`, `memory`; `setup` with three runs) TLC finds each
violated:

* `OneThreadPerTurn`: `docs/a2a-threads.md:73-77`, "One thread per human turn" (and
  `a2a_project.py:10`). Discord may create the thread and the call still fail or
  be cancelled (`egress.py:151-163`); the projector remembers a thread only when
  the call returns (`a2a_project.py:168`), so the turn's next projection posts a
  second anchor and opens a second thread. `OneTrail` says what holds.
* `DrainedTurnRunsNoAgent`: `gateway.py:249-252`, `drain_inflight` cancels "a
  parked `result()` await". A turn that was cancelled while it awaits its debounce
  task has swallowed that (`progress.py:269`); if Discord then refuses its reply,
  it has the agent run again and waits for the result without a timeout
  (`mention_handler.py:307-315`), and the drain's `gather` waits for it.
  `ShutdownEnds` says what holds.
* `OneFetchServesAll`: `history.py:286-287`, "one fetch serves all N callers", and
  `history.py:387-395`, which keeps a leader's cancellation from its followers.
  A follower awaits the shared future itself (`history.py:363`), so its own
  cancellation cancels the future, and the other followers and whoever still
  joins get a `CancelledError`. Today handlers are cancelled by `drain_inflight`
  only, all at once, so it does not show; the model lets tasks be cancelled one
  by one. `FollowersAreServed` says what holds.
* `EnterKeepsNewest`: `init.py:48-50` pins that a re-run "defaults [...] to the saved
  (working) guild/channel binding rather than clobbering it", and `init.py:398`
  that Ctrl-C is "safe & resumable". The defaults are the checkpoint's (`init.py:423`,
  428), which is saved after guild and channel went into `.env` (426, 433): cut off
  in between, the checkpoint has the older binding, and Enter writes that back.
  `EnterKeepsBinding` says what holds.

Read in the code, and stated nowhere:

* `progress.py:33-35` promises that a progress message "must never crash the run
  or affect the terminal reply". Only `DiscordException` is swallowed; a
  connection error from the delete in the `finally` leaves the handler before the
  reply is posted, and a crash notice takes its place (a state of `turn`).
* `egress.py:6`, "one such channel per guild". Two turns that look for it for the
  first time at once both create one (a state of `a2a`; `OneTrail` says what
  holds).
* `check.py:15-19`, a fresh beat means "Discord-connected". For up to the time to
  live after a restart it is the predecessor's (a state of `health`).
* `/clear` hides a thread's starter as long as the marker is among the messages
  Discord returns. Once the thread has grown past the limit the starter is back
  in front of the window, where `slash.py:66-69` says that every agent "stops
  seeing messages above the line". `ClearBoundsHistory` says what holds.
* `init.py:257-260` prints "Press enter to keep each saved answer". At the broker
  prompt Enter is the local broker, whatever was saved (`init.py:573`), and at
  the model prompt the provider's flagship, if it is on offer.

Other things met on the way, about which the code promises nothing and no
property is stated: `stop` and the teardown of a failed start close whatever
supervisor answers on the port, also another home's; `stop` says "workspace
closed" when `down` exits with an error; a `start` that finds its home open
returns without waiting for the bridge; `agent restart` starts a stopped slot
without a look at the mesh; the second of two concurrent `agent start` on a host
is told that the agent is not in the running workspace; a listing that fails
leaves the new guild with the channel of the old one in `.env` until the next run
picks one; `disco init` finds an open workspace "already open" and the new
settings wait for the next start; `.env` and the agents' files are rewritten
without a lock, so of two writers at once the later wins whole; the wizard's
last prompt blocks the loop its watcher runs in, which goes on afterwards.

## 4. What is proved

For every value of the constants:

* `BridgeProcess_proofs`, three components that live in one process:
  * `PersonaWebhooks`: `TypeOK`, `OneWebhookPerChannel`, `LockMatchesHolder`
    and `PostsAreRecognised` are invariants, for any sets of tasks, channels and
    ids. Assumption: `None` is none of them. The inductive invariant `IInv` (in
    the component's module) adds `CreatesOnlyIfNone`: a task about to create a
    webhook holds the lock on a channel that has none. Without it, two tasks
    could both be past the look at the list; `LockMatchesHolder` is what excludes
    that.
  * `BridgeGateway`: `GatewayTypeOK`, `ResourcesOutliveTasks` and the action
    property `HandledOnceWhileRemembered`, for any messages (also infinitely
    many), any capacity and any bound on the handlers. Assumption:
    `GatewayAssumption` (a mention is a message; the capacity is not 0). That an
    evicted id has seen `Capacity` others go by is not inductive: `ForgottenLate`
    adds that what stands behind an id in the memory was sighted since the id
    was, so that at an eviction the whole memory is what the oldest id has
    missed, and that it stays so while the id is forgotten. The lemmas on
    sequences without repetition (`LineAppend`, `LineTail`, `LineRemove`) say
    what a renewal and an eviction do to that order; `AsManyAsLong` counts. For
    the shutdown, `DrainWaitsForAll`: no handler is missing from those the drain
    waits for, since none is spawned after the gateway is closed.
  * `BridgeHealth`: `HealthTypeOK` and `VerdictIsRight`, for any interval,
    lateness and time to live. Assumption: `HealthAssumption`, in which
    (`MaxMissed` + 1) * (`Interval` + `MaxLate`) is at most `TTL`; the shipped
    2 and 10 seconds meet it with one beat missed and 3 seconds late. The
    verdict only looks at the beat's age; `BeatsTellTheTime` adds that the beat
    is never younger than the connection, and accounts for its age by the ticks
    missed and the sleep since the last one.
* `MentionTurn_proofs`: all safety invariants of the run `turn`, and
  `KeepsPromiseSafely`, that every step maps to a step of `TurnOutcome` or a
  stutter, for any number of events, retries and chunks. Assumption:
  `TurnAssumption` (naturals, at least one chunk). The invariant is strengthened
  by what the program counter says of the counters: `TasksTracked` (a debounce
  task that may edit is the tracked one, and only during the drain),
  `RunsCounted` (runs against attempts, place by place), `HistoryCounted`,
  `AnswersCounted` (acknowledged + failed = tried) and `Served` (why a turn may
  be over). Each is one conjunct of `IInv`, each step of the proof one action.

* `Lifecycle_proofs`: `TypeOK`, `OneSupervisor` and the action property
  `FailedStartTornDown`, for any homes, ports, hashes and commands. Assumption:
  `LifecycleAssumption` (the hash maps homes to ports; `None` is neither a home
  nor a command). `OneSupervisor` is not inductive: `HolderRuns` adds that a
  command past the lock holds it, `PortOfServer` that who answers on a port has
  it, and `BootIsAwaited` that a home that lost track of no supervisor has one
  booting only while the lock's holder waits for it, and none at all when the
  holder is about to launch. `SubsidesKeeps` and `CommandStep` do the steps that
  launch nothing at once; the lock, the first probe, the launch and the boot are
  what is left.

* `Roster_proofs`: `TypeOK` and the action properties `NoKnownDuplicate` and
  `SweepVisitsAll`, for any agents and MCP slots; no assumption is used. What has
  to be added is that a command past its reads has something to do (`TodoLeft`),
  that what `start --all` looked up is one of those (`ItemOfTodo`), and
  `GuardInformed`: at the duplicate guard, every agent that has been elsewhere
  all along is on the roster that was read, or was found running here.

* `A2AProjection_proofs`: `TypeOK`, `OneTrail` and `ClosedOnce`, for any turns and
  bounds. Assumption: `A2AAssumption` (`None` is no id; only `TypeOK` uses the
  bounds). `ThreadIsKept` adds that a turn has its strays and the thread it
  remembers, if any, and that one on its way to a thread still remembers none,
  though the code checked that some awaits earlier; `OneChannel` that in a guild with the
  channel no turn is on the way to create one and everything remembered is that
  one; `OpenUntilClosed` that a consult has been closed exactly if it was asked
  and is no longer open. `OthersKeep` says once what a turn leaves alone of
  another.

* `BridgeMemory_proofs`: every property of the run `memory`, `TypeOK`,
  `ClearBoundsHistory`, `ReplayFits`, `FollowersAreServed` and
  `MapMatchesTable`, for any tasks, any channel, anchors, limits and tiers.
  Assumptions: `LimitAssumption` and `MemoryAssumption` (naturals; the tasks are
  finite, without which the followers of a fetch could not be queued one after
  the other). Added are at which awaits which operation can be (`KeepsToItsOp`),
  who is in the connection's queue and that nobody is in it twice
  (`QueueWaits`), that a follower's leader is a task that fetches,
  at the same place, with a future that is whole (`LeadersFetch`), from which
  `FollowersAreServed` follows step by step, the bound of every list of records, also of those in the
  cache (`RecordsBounded`), and for the overrides `LastCommitCounts`: of the
  effort commands that are still to commit, the last in the queue has the tier
  of the table, and with none map, table and disk agree. Two theorems about the
  operators carry the rest: `RecordsBound`, what a fetch returns of any channel,
  and `ModelHistoryFits`, what is built of any records and rows. The latter is
  about `Built`, a recursive function, and needs induction over its length,
  which the library's theorems do not allow: it is done from the least
  counterexample (`LeastNumber`, from the well-foundedness of `<` on the
  naturals), which names a set instead of a predicate.

* `AgentWorkers_proofs`: `TypeOK`, `CrashIsSeen` and the action properties
  `UpdateTouchesOwnField` and `AgentSurvives`, for any terminals, files, updates
  and slots. Assumptions: `FilesAssumption`, `WorkersAssumption`, and
  `NoDefinition` (a missing or broken file is no definition). What has to be added
  is what a command knows of the directory as long as it had no other beside it
  (`Knows`), that at most one command is such (`CommandsInv`), what it may write
  back (`WritesBack`), and that a process on its way out has seen its crash
  (`ExitIsKnown`).

* `SetupWizard_proofs`: `TypeOK`, `EnterKeepsBinding` and `BoundWhereItMayPost`,
  for any guilds, channels, permissions and any number of runs. Assumption:
  `SetupAssumption` (an overwrite does not allow and deny the same, waits are
  positive). `EnterKeepsBinding` is about runs that begin with `.env` and the
  checkpoint agreed; without that `EnterKeepsNewest` would hold, which does not (3.1). Added are
  what the two have in common while nothing but Enter was answered
  (`SavedIsBound`), that a pasted token is no Enter, that
  the guild is written before the channel is asked for, and that nothing of the
  binding is asked for after it. `CanPostIsDiscordsRule` proves the computation
  over a channel's overwrites equal to Discord's rule, whatever the overwrites.

`LockMatchesHolder`, `PostsAreRecognised` and `RetryBudget` are proved and no
longer checked by a run of their own: they say less than the properties beside
them, which rest on them.

So every invariant and every action property that a passing run checks is
proved for all values of the constants. Model-checked only is liveness
(`<>over` of `KeepsPromise`, `CallsReturn`, `ShutdownEnds`,
`ConnectedGetsHealthy`, `CommandsEnd`, `WantedServes`, `WaitsEnd`), which is out
of reach of the prover, as is `ENABLED`; of `KeepsPromise` the safety part is
proved. The two runs that expect a violation are counterexamples and need no
proof.

## 5. What is not modelled

Texts, personas, avatars and formatting; the agents themselves and calfkit (a run
is started, yields events and ends or faults); discord.py's own retries. In the
gateway: slash commands and startup wiring. `CALFKIT_A2A_CHANNEL_CATEGORY` unset
is a value of `WithCategory` that the runs do not use: it skips two awaits.
`BridgeGateway` lets any cancelled handler swallow its cancellation; in the code
it is one that awaits its debounce task, which only `MentionTurn` knows. Nothing is stated about posting again after an
operator deleted a cached webhook: the code fails such posts until a restart.

Outside the bridge: the tools and MCP runners, which share the worker runtime but
load other things; `mcp.json`, selectors and deployment filters, which are pure
functions and files; the Codex provider, whose token refresh is in the libraries
under it (that several agent processes refresh one token file at once is a
hazard no property covers); the wizard's credentials, application id and codex
login; deployment files, doctor, logs, and everything that only prints. In
`AgentWorkers` the agents' processes share nothing but the directory. In
`SetupWizard` no agent's file is broken, and the answers of Discord within one
listing belong together.

## 6. Plan

Done: the inventory; turn, audit trail, webhooks, gateway, health, lifecycle,
roster, memory, agents, setup; for each of them the proofs of all safety and
action properties that are checked.

Next, in the order of their worth:

1. Proofs: that a task of `BridgeMemory` gets no more of the cache than a fetch of
   its own would give it; the safety that liveness rests on (a deadline that is
   never passed, a queue whose head always moves).
2. Pure algorithms against reference definitions over bounded inputs: deployment
   filters and MCP selectors in what a worker hosts, the splitting of a reply in
   `MentionTurn`, truncation in the steps view.
3. The codex token file that agent processes share, and the tools and MCP
   runners beside `AgentWorkers`.
