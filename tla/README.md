# minecraft-mcp-rs in TLA+

`minecraft-mcp-rs` is a Minecraft bot (azalea) that MCP clients drive through
tool calls. This directory holds TLA+ models of its concurrent core and of its longest operations, the TLC
configurations that check them on small instances, and TLAPS proofs of the
invariants that matter most. Paths below are relative to the repository's
`src/`, so `bot/spawn.rs` means `src/src/bot/spawn.rs`.

- [The system](#the-system)
- [The modules](#the-modules)
- [The runs](#the-runs)
- [Bounds](#bounds)
- [Fairness](#fairness)
- [The proofs](#the-proofs)
- [Where the code and its own words differ](#where-the-code-and-its-own-words-differ)
- [Not modelled](#not-modelled)
- [Plan](#plan)

## The system

Three threads of control share one `SharedState` (`state.rs`):

- the **MCP runtime** (rmcp, multi-threaded tokio) runs tool calls;
- the **bot thread** (`bot/spawn.rs`) makes a tokio runtime (`Runtime::new`, a multi-threaded one) and runs
  `ConnectionManager::connect` on it with `block_on`. The azalea event handlers, the command executor
  and the snapshot builds are local tasks (`spawn_local`) of the `LocalSet` that azalea runs inside `start()`,
  hence of the same thread, and end with it;
- either the **egui window** or the **headless supervisor** decides when a bot
  thread exists.

A tool call that acts on the world puts a command and a oneshot responder into
a bounded mpsc channel (`channel.rs`). The channel has one receiver for the
life of the process. Each session's executor leases it, runs commands
serially, and gives it back. A tool call that only looks reads the stored
`WorldSnapshot`, which tick tasks rebuild incrementally.

| Part | State it keeps | Operations | What is hard about it | What makes it correct |
|---|---|---|---|---|
| Command channel (`channel.rs`, `mcp/common.rs`) | mpsc buffer, receiver slot, leases, responders | send with envelope, lease, drain, dispatch, abort, give back | an await inside every hand-over; abort at any await; full buffer without executor; timeouts on both legs | receiver conserved; commands serial and at most once; "not run" is true; every call returns |
| Connection loop (`bot/connection.rs`) | loop position, first-connect counter, token clone | entry clean-up, dial, checkpoints, restart, retry, backoff, exit | requests arrive at any point; two sleeps; `start()` ends in several ways | a disconnect ends it, a restart reconnects it, no stale latch |
| Bot thread, supervisor (`bot/spawn.rs`, `main.rs`) | `connecting` flag, thread handle | claim, spawn, join, backoff, shutdown | flag released twice; creation may fail; supervisor and loop both consume the restart flag | one loop at a time; shutdown ends; creation is retried |
| Session events (`bot/events.rs`) | `bot_online`, `bot_ecs`, executor handle, tick tasks, dirty tracker | Spawn, Disconnect, Tick, ReceiveChunk, packets, Chat, Death | handlers are spawned tasks and overlap; Spawn awaits the receiver | the online flag never stays up without a session; no stale work |
| Snapshot (`bot/snapshot_updater.rs`, `snapshot.rs`) | stored snapshot, dirty chunks and blocks | mark, plan, scan, prune, store | three radii, a cap, single reads, marks drained before reading | no change is forgotten; bounded; absence means absence |
| Forced refresh (`mcp/tools_query.rs`, `state.rs`) | one sender slot, build tasks | request, take, restore, answer | two callers, failing builds, abort, timeout | sender neither lost nor doubled; answered means fresh |
| Settings and lifecycle tools (`mcp/tools_settings.rs`), window (`ui/app.rs`) | the flags above | connect, disconnect, update settings | each is a sequence of separate flag writes | see the loop |
| Executor handlers (`bot/commands.rs`, `bot/ops.rs`, `compound_ops.rs`) | handler-local | goto, mine, place, attack, containers, collect, mine compound | polling loops with budgets, abort on disconnect | legs fit the envelope; verified outcomes |
| Container session (`mcp/tools_container.rs`, `state.rs`) | shared container handle | open, take, put, close | another caller or a disconnect between any two | no handle replaces another or outlives a cleared session |
| Chat (`mcp/tools_chat.rs`, `state.rs`) | ring of 50, sequence numbers | append, read since a cursor | eviction under a reader | the newest messages, under their own numbers; a rejection is reported |
| View caches (`mcp/tools_query.rs`, `ui/preview.rs`, `state.rs`) | last rendering and last list of blocks with their keys, panel texture | render, look up, invalidate, draw | two locks per look-up; replaced or cleared in between | never served for another revision; the panel follows |
| MCP server (`mcp/server.rs`) | transport, activity clock | serve, idle watchdog, shutdown | activity racing the watchdog | an active client is not dropped |
| Pure parts (`command_validate.rs`, `tool_select.rs`, `mcp/tools_item.rs`, `config.rs`, `mining_calc.rs`) | none | validate, choose, map slots, parse | boundaries; two choices of one tool | the tool chosen is the tool used |

`PROJECT.json` lists every component with its status, and every hazard with the
line where it bites.

## The modules

`CommandChannel` models `channel.rs`, `send_command_with_timeout`, and the parts of
`events.rs` and `commands.rs` that lease, drain, run and abort. `CommandService`
is the abstract specification: what a tool call may rely on, without buffer,
lease or session. `BotLifecycle` models who starts, restarts and stops the bot.
`SnapshotCoherence` models the incremental build; `SnapshotForce` the slot
through which a query asks for one. `CommandLegs` models one command that waits, from dispatch to
reply, against the envelope of its caller; `MineBlock` the longest of them, mining a block.
`SharedSession` models what a session keeps for the tools, the container handle and
the chat ring; `ContainerService` is the abstract specification of the container tools, one box
without queue, window or second check. `ViewCache` the cached answers of the view tools. The `MC...` modules add symmetry sets, worlds and
budgets for TLC, and `...Proofs` modules hold the theorems.

The models meet at the session: `BotLifecycle` models when a session starts
and ends, and the others take "a session starts", "ends by a Disconnect
event", "ends without one" as actions that may happen at any time allowed by their own state.
They share no variable that one of them writes and another one relies on
except `bot_online`, which `CommandChannel` and `BotLifecycle` both model in full.
`CommandChannel` abstracts a handler to `Receive` and `Finish` with any time between
them; `CommandLegs` and `MineBlock` say what happens in that time and
bound it, and leave the abort of the handler to `CommandChannel`.
`CommandChannel` allows several `Event::Spawn` in one session (respawn, world
change); `BotLifecycle` needs only the first, since later ones change nothing
but the executor.

### CommandChannel

| Model | Code |
|---|---|
| `Issue`, `Send`, `TimeoutSending`, `TimeoutWaiting` | the two legs of `send_command_with_timeout`: a send that blocks on a full buffer, and a wait for the reply, under one deadline |
| `slot`, `exec[e]` in `Holding` | `ReceiverSlot`, and a `ReceiverLease` owned by executor `e`, whose `Drop` gives the receiver back |
| `SpawnBegin`, `SpawnLease`, `SpawnUnserved` | `handle_spawn`: abort the previous executor, wait at most 100 ms for the slot, start an executor and store its handle |
| `DrainOne`, `DrainDone`, `Receive`, `Finish` | `drain_stale` and the serial loop of `run_with_lease`, with `executor_busy` |
| `DropAborted` | the runtime drops an aborted task at its next poll; only then does the lease return the receiver |
| `Disconnect`, `SessionDrop`, `SessionEnd` | the `Disconnect` event with `clear_session_state`, and the end of `start()` with or without it |

Stretches of bot-thread code without an await are one step, because the `LocalSet`
inside `start()` is polled by one thread; callers run on other threads, so each channel operation of
theirs is a step, and the drain loop takes one command per step. `born` is
a history field: the lease that was newest when the command was queued.

### BotLifecycle

Every flag of `SharedState` that the lifecycle uses is a variable, and every
write of one is a step of its own, in the order of the code: `prepare_connect_entry` is four
steps, the end of `start()` three (`StartReturns`, `TakeLatch`, `SetOffline`), the cancel branch up to
seven (`CancelStart`, `CancelSetOffline`, `CancelClearEcs`, `CancelDecides`, `RestartClearDisconnect`,
`RestartResetToken`, `CancelTakeLatch`). So the bot is seen online without a session between `StartReturns` and `SetOffline`, as
it is in the code and in `CommandChannel` (`SessionDrop`, `SessionEnd`). `loop[t]` is the control point of thread `t`
in `connect()`, `world[t]` the azalea session inside `start()`, and `token[t]` the
clone of the cancel token its `select!` waits on; `reset_cancel_token` turns
clones of the old token into `stale` or `tripped`. Particular points:

- `start()` and the handlers inside it are polled by one thread. A handler that is between two writes with no
  await between them is therefore neither dropped nor overtaken by its own loop (`Settled`), while all other actors see the gap.
- `request_disconnect` is three writes (flag, token, `AppExit`), so a loop may act
  on the first and meet the others in its next session.
- `bot_ecs` that reaches a world which has ended is modelled as 0, since an event
  sent there has no reader.
- Joins and polls with time bounds may end either way.
- The window's close is a disconnect of an agent. `Agents` are slots for calls under way: a
  call takes the least free one, since callers are interchangeable.
- The supervisor may look at the thread slot before the agent that spawned a
  thread has stored its handle (`ConnectSpawn`, `ConnectStore`), and its idle check is three loads (`IdleCheck`).
- `Modes` says whether the process has a window or a supervisor; the initial state chooses.
- `owed` and `stopped` are history variables for two liveness properties: what a
  settings update or a disconnect has asked and not got yet. They guard nothing.

### SnapshotCoherence

The world maps blocks to contents; `loaded` is what the client holds. The packet
handler applies a packet to the client's world before the event that marks it
dirty is handled, so a change and its mark are two steps, and a build may come
between them. A build runs without an await: one step, which re-reads dirty
chunks up to `Cap` and dirty blocks within their radii, copies the rest and
prunes. Chunks over the cap return to the tracker (`Overflow`).

### SnapshotForce

The world is a version number. `slot` is `snapshot_force`, `tasks` are the build
tasks spawned by `handle_tick`, and a failed build gives its sender back to the slot if
that is empty. `build_snapshot_inner` has no error source today; the failure
path exists in the code and is modelled.

### CommandLegs

One command that finds the executor idle. A handler that waits is a chain of waits:
`pc` is the present one, `until` the tick at which it ends. `clock` counts game ticks
of 50 ms since the caller began to listen; every delay of these handlers is a multiple of that.

| Model | Code |
|---|---|
| `Envelope`, `envelope` | `timeout_for`, and what it gave the caller at the send |
| `BeginWalk`, `Walks`, `WalkEnds`, `WalkTimesOut` | `goto_with_margin_with_timeout` and its callers: a walk gets the timeout less `MOVEMENT_REPLY_MARGIN` |
| `Short`, `Retry` | `handle_smart_move`: one retry after a pause, if two margins are left |
| `BeginCollect`, `NextTarget`, `PickedUp`, `TargetDone` | `handle_collect_items`: an equal share of what is left for each target, in whole seconds |
| `BeginAttack`, `Decide`, `InReach` | `handle_attack_entity`: approach, then the reach check on the snapshot |
| `BeginPlace`, `Click`, `Verified` | `handle_place_block`, `handle_use_item_on_block`: approach, click, activity stamp, `wait_for_block_present` |
| `BeginWait`, `WaitEnds` | chat feedback, the settling of a drop, the opening of a container |
| `Tick`, `Due`, `Cadence` | `handle_tick` with `effective_snapshot_interval_ms` and `check_and_update_timer` |
| `UpdateSettings` | `update_settings` under the running handler |

`fact` and `seen` are the world and the snapshot reduced to the one thing the handler looks at: the
placed block, or that the entity is in reach. An entity does not move away. `envelope` is what the caller read
when it sent; the handler reads the settings again at every leg. `longest`, a history variable, is the
longest envelope of the settings there were since: while it equals `envelope` no change has raised the timeouts.

### MineBlock

`execute_mine_block_with_budget` as it drives `MineBlockOperation`: `op` is `OperationState`, with the waits
that the executor makes inside a state split out (`Swapping`, and `EquippingTool` with a `plan`).
Tool selection, the choice of a hotbar slot, the swap, the choice that `handle_equip_tool` makes anew, the mining
time and the budget are computed as in the code, over tools that are a type and a material. `Select` prefers the
hotbar and `Equip` the best tier; that they can differ is the finding `MineAssumed`. The server breaks the
block after the time the same formula gives for the item in hand, as long as the bot is in reach of it. It may carry
the bot off after the walk (`Displace`, once, not back): out of reach, where it no longer digs, or beyond
the retention radius, where the next build prunes the block's entry (`Pass`). The code takes any absence from the index for a
mined block (`Poll`), a pruned entry included, and refuses to begin on an absent one (`Break`). The clock counts quarters
of a second: the delays are multiples of it, except ticks and polls (50 ms, 100 ms), which are rounded away, and mining
times, which are rounded up. Settings are constant here (`CommandLegs` changes them), the time in the queue is
not counted (`CommandChannel` has the queue), and the inventory changes only by the operation's own swaps. The shears a cobweb may
be cut with are left out.

### SharedSession

Tool calls check `online` and the handle on threads of their own (`PreCheck`) and queue a command;
the executor checks again (`StartOpen`, `StartClick`) and yields only while it waits for a window
or for chat feedback. `handle` carries the session that stored it (history). `menu` is the window the
server has open, `requested` the containers whose window may still come, after
`open_container_at` gave up too (`Opened`, `OpenTimesOut`). `ring` maps sequence numbers to messages and `log`
is every message there was. A session ends cleared (`EndCleared`) or by `AppExit` alone
(`EndByExit`). The queue is simplified to one that `Connect` drains; `CommandChannel` has it in full.

`Service` maps the handle to the box of `ContainerService` and keeps `reply`: every answer must be true of the
box when it is given. `already_open`, `clicked` and `full` are said of an open container, `not_open` of
none, and `opened` is the only answer that fills the box. `closed` is always true, since the handler drops what there is.

### ViewCache

A snapshot is its revision, a render is the pair of revision and parameters. `get_world_view` probes
the key of `last_world_view` under one lock and fetches under another (`Probe`, `Fetch`);
`get_nearby_blocks` looks and copies under one (`Lookup`). Both store what they render (`Render`). The
preview panel decides to rebuild on the key and fetches later (`FrameLooks`, `FrameRebuilds`), and its
button clears the entry and renders anew (`Refresh`). `GoOffline` and `ClearView` are two steps of
`clear_session_state`, so a render may be stored between or after them. The panel's own
decoding error, which also clears the entry, is left out.

### Variants

Beside a definition there may be a mutated form marked `Variant`, for example
`ReceivePeeking` beside `Receive`. No specification uses one. Each is the form of a plausible mistake
that the property named for it in `PROJECT.json` detects when the variant
replaces the definition.

## The runs

Passing:

| Run | Question | Properties |
|---|---|---|
| `Channel` | Is the command channel a `CommandService`? | `ReceiverConserved`, `SerialExecution`, `NoStaleExecution`, `RejectedNeverRuns`; refinement `ServiceSpec`; liveness `EveryCallReturns` |
| `Lifecycle` | Window: connect against connect, connect against disconnect, while the server drops sessions and thread or runtime creation fails; or supervisor, with a connect and a settings update | `SingleLoop`, `ClaimHasOwner`, `OnlineIsLowered`, `LatchFresh`; liveness `DisconnectHonoured`, `ShutdownTerminates`, `HeadlessConnects`, `RestartHonoured` |
| `Snapshot` | Does the incremental build ever forget a change? | `Coherent`, `Bounded`; action property `OldOrTrue`; liveness `Converges` |
| `SnapshotForce` | What does a forced read get? | `SenderConserved`, `AnsweredFresh`; liveness `RequestAnswered` |
| `Legs` | Does every command that waits answer in time, and truly? | `RepliesInTime`, `PlacedIsSeen`, `TooFarIsRecent`; action property `WalksMeaningful` |
| `Mine` | Does mining keep its budget, its tool and its word? | `EnvelopeKept`, `HarvestKept`, `BrokenIsSeen`, `FailsOnlyBySlowerTool`; liveness `Ends` |
| `Session` | Do handle and chat ring survive callers, eviction and session ends? | `RingIsTail`, `HandleOfSession`; action property `RejectionReported`; refinement `ServiceSpec` |
| `View` | Is a cached answer ever the wrong one? | `AnswerMatches`, `PanelMatches`; liveness `PanelCatchesUp` |

`TypeOK` is checked by `Channel` and `Snapshot`; that of every module is proved. How far some of the properties reach:

- `SingleLoop` and `LatchFresh` hold in `Lifecycle` because no connect is accepted while a finished
  thread drops its runtime (`ConnectDuringTeardown = FALSE`). The code does not ensure that: the second clear
  of the `connecting` flag meets a new claim in `LifecycleDouble` only, and with two loops a dial can meet the other
  loop's latch. `ClaimHasOwner` and `OnlineIsLowered` need no such assumption.
- `OnlineIsLowered` allows the flag to be up without a session exactly while a loop is on its way to
  lower it. It does not say that the flag is down whenever no session exists: the code has that gap.
- `DisconnectHonoured` speaks of a disconnect asked of a running loop, with no
  connect or settings update after it. The window's budget has no settings update; with one before the disconnect
  it fails (see [below](#where-the-code-and-its-own-words-differ)).
- `HeadlessConnects` excludes agents' operations: a disconnect is of course allowed to keep
  the bot offline. In headless mode the budget has failed thread creations and no failed runtime.
- `RestartHonoured` starts when `update_settings` returns and its flag is
  still raised before a loop the supervisor started and that is past its entry. The precondition
  is that narrow because the code promises no more: an update that falls
  between `EntryClearDisconnect` and `EntryTakeRestart` has its restart discarded
  by the entry, and a loop may consume the restart between the writes of one request.
- `RequestAnswered` and `Converges` assume that ticks go on, i.e. that the bot
  stays online; a dropped sender counts as an end of the request.
- `RepliesInTime` measures a reply against the envelope its caller read at the send. There are three ways to be
  late. Two are bounded in the property (`Latest`): a verification is late by what it takes beyond the margin (a
  `snapshot_interval_ms` above 750 ms), and a container by its own 5 s under a shorter `command_timeout_secs`.
  The third, timeouts raised under the caller, is excluded there; it is the finding `LegsRaised`.
- `PlacedIsSeen` and `BrokenIsSeen` exclude intervals longer than the activity window: the stamp
  made before the verification does not last for it then, and the cadence relaxes to 5 s within it.
- `FailsOnlyBySlowerTool` is about "still present" for a bot that stayed at the block. The other report, "mined", has no
  property: it says that the entry is absent, which a pruned one is too (see [below](#where-the-code-and-its-own-words-differ)).
- `TooFarIsRecent` says that a refusal is no older than the cadence in force, which may be 5 s after a
  long approach; `TooFarIsHonest` asks for a second, and fails.
- `HandleOfSession` allows a handle to outlive a session that ended by `AppExit` alone, because the code does.

Violations, each one property that the repository's comments state and the code does not keep:
`LifecycleDouble` (`SingleLoop` without the assumption of the proofs), `MineAssumed` (`VerificationPasses`),
`AttackTooFar` (`TooFarIsHonest`), `LegsRaised` (`RepliesBeforeEnvelope`); see [below](#where-the-code-and-its-own-words-differ).

Every run sets `CHECK_DEADLOCK FALSE`, because the system does stop: the calls are
answered, the supervisor is done, the bounds on the environment are spent. That
nobody stops early is what the liveness properties say. Symmetry is used in `Session` only, which checks no liveness.

## Bounds

- `Channel`: two callers with two calls each over a buffer of one, and two spawns.
  A buffer of one is full after one send, so the send leg blocks; two spawns
  give one hand-over with an abort, and two calls let a caller return after a timeout
  while its first command is still queued.
- `Lifecycle`: `Budget` says, by mode, how often each kind of external event occurs and how many
  there are in all. Window: two connects, two disconnects, two ends of sessions or dials, one failed thread and
  one failed runtime, at most five together. Headless: one connect, one update, one end, one failed thread, at most two
  together, and a shutdown. Two calls are under way at a time. Two threads exist at a time (a finished one keeps its number while a
  handle names it), and a number is reused, so more than two threads are run one after the other. `FirstRetries` is 2 in
  place of 3: the counter can reach its limit, be reset, and reach it again. `LifecycleDouble` has three threads and three connects.
- `Snapshot`: three chunks in a row with `View = Scan = Floor = 1` and `Cap = 1`: a
  move makes one chunk leave and one enter, and two loaded chunks exceed
  the cap at once. One block per chunk suffices since blocks of a chunk differ
  only in their own marks. Two changes, one move, two sessions.
- `SnapshotForce`: two callers, two build tasks, two versions, one failure: the
  least with which the slot can be taken, refilled by another caller, and given back to.

- `Legs`: three settings. (1 s, 2 s, 500 ms) leaves no room for a walk; (4 s, 3 s, 750 ms) has a walk as
  long as the activity window, the longest verification within the margin, and a collect with room
  for one target; (8 s, 9 s, 3.5 s) has a retry, three targets, and an interval beyond both margin and
  window. One change of settings, at any tick. `AttackTooFar` has one setting with a walk of 5 s,
  `LegsRaised` the second setting and one with longer timeouts.
- `Mine`: every inventory of two hotbar slots and one more over a gold and an iron pickaxe, so a tool may be in
  hand, beside it, behind it, twice or nowhere, and the hotbar may be full. The four blocks are one that a hand
  takes the whole activity window for, one that both tools harvest, one that only iron harvests, and one that cannot be broken. The
  envelope is 5 s: after the whole window of the walk too little is left to mine by hand. `MineAssumed` has stone in place of iron.
- `Session`: two callers and two containers, so that both pass the check of the tool before either
  opens; a ring of two under three messages, so one is evicted; two sessions, three calls.
- `View`: two viewers and two parameters, the least with which an entry is replaced between
  probe and fetch; one new revision; three calls, so that the panel sees an entry replaced and cleared.

What the bounds leave open for safety is closed by the theorems: every invariant, action
property and refinement of a passing run is proved for all values of the constants that satisfy
the assumptions named [there](#the-proofs).

## Fairness

The bot thread's runtime polls ready tasks, timers fire, and the operating
system runs threads: weak fairness on the steps of a task that has something to
do. In particular:

- `CommandChannel`: both timeouts, the drop of an aborted task, the lease or
  its 100 ms bound, the drain, `Receive`, `SessionEnd`. No fairness on
  `Finish` (a handler may hang), on `SessionStart`, `SpawnBegin` or `Disconnect` (the server decides).
- `BotLifecycle`: one condition for all of them: while a loop (the end of a dial, which a TCP connect reaches
  either way, `handle_spawn`, bounded by 100 ms, and the reaction to `AppExit` included), a begun agent operation or the
  supervisor can step, some such step is made. That is weaker than fairness to each thread, so what it implies
  holds under that too. No fairness on the server ending a session, on shutdown, or on anyone beginning an operation.
- `SnapshotCoherence`: events are handled and ticks build. None on the server.
- `SnapshotForce`: ticks, build tasks, a woken caller. None on the timeout.
- `MineBlock`: the executor's steps and the passing of time. None on the session ending. The walk ends,
  because its window does.
- `ViewCache`: frames of the panel, a begun call, the second half of `clear_session_state`. None on new
  snapshots, on calls being made or on sessions.
- `CommandLegs` and `SharedSession` state safety and action properties only and assume no fairness.

Weak fairness suffices everywhere; no property needs strong fairness.

## The proofs

TLAPS proves, for every value of the constants (assumptions `ChannelAssumption`,
`LifecycleAssumption`, `SnapshotAssumption`, `ForceAssumption`, `LegsAssumption`,
`MineAssumption`, `SessionAssumption`, `ViewAssumption`, each stated in the module that declares the constants):

**CommandChannelProofs.** `TypeCorrect`, `ReceiverAlwaysConserved`, `AlwaysSerial`,
`NeverStaleExecution`, `RejectedTrulyNeverRuns`. Conservation alone is not inductive: an aborted
executor and its successor both have phases, and the slot must be known to be
empty while either holds. `LeaseInv` adds that the holder is the newest lease
(`HolderIsNewest`), that a stored handle names a live holder (`HandleHolds`), that after the
drain the buffer holds only commands queued under that lease (`Drained`), and
that only a dispatching or aborted executor runs a command (`RunningHolds`). Serial execution
follows, since a running executor holds the receiver. `RejectedTrulyNeverRuns`
follows from `PlaceInv`: a call waits to be sent, or is queued once, or was handed to
dispatch, and a rejection takes it out of the first or second place.

The same module proves `ChannelImplementsService`: `Spec => ServiceSpec`, the
refinement that `Channel` checks. To `LeaseInv` and `PlaceInv` it adds `SettledInv` (a
call that is in no place has its answer, and an executor runs one command), which
makes a timeout of the receive leg a `GiveUp` rather than nothing. Each action has its
counterpart: `Issue` submits, `Receive` begins, `DrainOne` and `TimeoutSending` reject,
`Finish`, `DropAborted` and `SessionDrop` end, `Send` and all session steps stutter.

**BotLifecycleProofs.** `TypeCorrect` (split into `FlagsOK` and `ControlOK`),
`OnlineAlwaysLowered` by `SessionInv` (a session exists only inside `start()`,
a joining handler only in a session, and whoever leaves `start()` is on its way to lower the flag), `ClaimNeverLeaks` (the comment of `ClearGuard` fears a flag that stays up
for ever; whoever holds it passes it on to a thread or puts it down, also while two loops overlap), and, under `~ConnectDuringTeardown`,
`AtMostOneLoop` by `OwnerInv` and `LatchAlwaysFresh` by `LatchInv`. `OwnerInv` says who holds
the `connecting` flag: an agent or the supervisor between claim and spawn, or a
thread that is not gone; never two, and the flag is up as long as the holder is in
`connect()`. `~ConnectDuringTeardown` says that nobody connects in the moment
between the end of `connect()` and the thread's `ClearGuard`. Without it `AtMostOneLoop`
is false, which `LifecycleDouble` shows; the passing runs make the same assumption.

**SnapshotCoherenceProofs.** `TypeCorrect`, `AlwaysBounded`, and, for
`View <= Scan`, `AlwaysCoherent` with its corollary `AbsenceMeansGone`, and `BuildsKeepOrCorrect`. `View <= Scan` is the
default (`chunk_scan_radius` 8) against a server whose view distance is no
larger; with a narrower scan `AbsentMeansGone` is false. The strengthening is
`Windowed`: the client holds only chunks in view of the player, hence all within
the scan radius. `BuildCoherent` is the heart: what a build does not re-read it
copies, and what it leaves out it marks again. Coherence alone would let a build drop a right entry as long as it
marks it; that it does not (the comment F-26 tells of a version that did) is `OldOrTrue`, by the cases of `Rebuilt`.

**SnapshotForceProofs.** `TypeCorrect`, `AnsweredAlwaysFresh` by `FreshInv` (nothing
was asked or built later than now) and `SenderAlwaysConserved` by `SenderInv`, which
says where a sender is for each state of its channel: in one place while it is open,
nowhere before and after. The library's facts on cardinality turn "one place" into the
count that the property states.

**CommandLegsProofs.** `TypeCorrect` (with `NumbersOK`: `until` never lies before `clock` nor a stamp after it),
`LateByTheRaiseOnly` (every reply comes within the longest envelope since the send, or late by one of the two
excesses), from which `InTime` follows, `Meaningful`, `Placed`, `TooFar`. `InTimeInv` gives for every wait the
latest tick at which it may end, in terms of `longest`: a walk a margin before it, a
collect's share plus what the other targets have left, a retry with its pause included. The whole seconds to which the
code cuts a share only help. `SeenInv` is the argument about the snapshot: while activity is recent, the last build
is at most an interval old, hence a fact older than the cadence is seen. `Placed` needs the stamp that `Click` makes
when the window would end within the verification. `ShortApproachIsHonest` bounds the finding `AttackTooFar`: for
timeouts up to 4 s and intervals up to a second the refusal is honest, because then (`AttackShort`) the
whole approach lies within the activity window.

**MineBlockProofs.** `MineTypeCorrect`, `EnvelopeIsKept`, `HarvestIsKept`, `BrokenBlockIsSeen`, `OnlyASlowerToolFails`, all by one
inductive invariant, `MineInv`. None of the properties is inductive: each speaks of one wait and rests on what the waits
before it have left. The parts are

- `ToolKept`: what is chosen harvests the block, a plan names a slot whose item will be no worse in the tiers than the choice, the choice
  is still in the inventory while the bot walks, and once it mines the item in hand is no worse. The last holds
  because `Equip` takes the best tier there is (`BestSlotIsBest`, which needs a least element of a set
  of naturals, `LeastNatural`), and a better tier harvests at least as much (`BetterHarvests`).
- `TimeKept`: for every wait, what has elapsed and is still to be waited against the budget. A swap may
  run one quarter over; the margin between budget and envelope takes it up.
- `BreakKept`: for a bot at the block, what the server still needs is the shortfall (its time for the item in hand less the time
  slept) and what is left of the sleep and the verification.
- `CadenceKept`: while the verification polls, the last command is recent enough for the cadence to stay at the interval, and either a
  build has come since the block broke or one is due before the verification ends.

`OnlyASlowerToolFails` and `WithoutGoldVerificationPasses` bound the finding `MineAssumed`. For intervals up to the window and a bot that
stayed at the block, it is reported as still present only if the item in hand is slower than the item planned; of the tiers only gold is faster
than one preferred to it (`BetterIsFaster`), so without gold tools the verification always passes.
The theorems take the tables of tiers, levels and speeds from the code and leave tools, blocks, slots and timeouts open.

**SharedSessionProofs.** `TypeCorrect`, `RingCorrect`, `HandleCorrect`, `NotReplaced`, `Reported`. `RingInv`
joins the types to `RingIsTail`, since the ring's size follows from its domain being the tail. `NotReplaced` needs
`Waiting`: while the executor waits for a container there is no handle, so `Opened` overwrites none; it
follows from the check that `StartOpen` makes again and from commands running one at a time.
`SessionImplementsService` proves the refinement: `Pending` says that each call queued or at work waits for its answer and
has one place, so an answer goes to one waiting call; `StartOpen`, `StartClick` and `OpenTimesOut` tell,
`Opened` opens, `StartClose` closes, `Connect` drains as it begins, and the window of the server stutters.

**ViewCacheProofs.** `TypeCorrect`, `AnswersCorrect`, `PanelCorrect` by `CacheInv`: an entry is genuine,
that is, its image is the render of its own key, wherever it came from and whenever it was stored.

Model-checked only: the liveness properties (`EveryCallReturns`, `DisconnectHonoured`,
`ShutdownTerminates`, `HeadlessConnects`, `RestartHonoured`, `Converges`,
`RequestAnswered`, `Ends`, `PanelCatchesUp`), which are out of the prover's reach. Every safety property of a
passing run is proved, and the property of each finding is proved under the assumption that excludes it:
`SingleLoop` when no connect falls into a teardown, `VerificationPasses` without gold tools,
`TooFarIsHonest` for short timeouts, and `RepliesBeforeEnvelope` when the timeouts are not raised (`InTime`: neither a
flight nor a smart move has a verification or a container to be late by).

## Where the code and its own words differ

- **A second loop** (`LifecycleDouble`). `connect()` clears `connecting`, and the
  thread's `ClearGuard` clears it again after dropping the runtime. A connect accepted
  between the two loses its claim, and a third connect starts a second loop.
- **A tool that is not the one assumed** (`MineAssumed`). Mining chooses a tool from the hotbar first and
  computes its time, then equips by type alone; `handle_equip_tool` chooses again, from the
  whole inventory by material. Gold in the hotbar and stone behind it is timed as gold and mined with
  stone, and the block is reported as still present. Without gold tools this cannot happen (`WithoutGoldVerificationPasses`).
- **An attack refused on an old snapshot** (`AttackTooFar`). After an approach longer than the activity
  window the "fresh read" of `handle_attack_entity` may be up to 5 s old. With a timeout of up to 4 s it cannot (`ShortApproachIsHonest`).

- **A reply to nobody** (`LegsRaised`). `send_command` computes the envelope once, the handlers read the timeouts again at
  each leg. Raised in between, a leg outlasts its caller, although `channel.rs:70-71` says that "the executor always replies
  before this envelope fires" and `bot/commands.rs:2286-2287` that "the total never exceeds the command envelope".

`PROJECT.json` quotes the lines for each. Seen while modelling, described here and not run:

- `wait_for_block_gone` "returns `true` when the block is gone" (`bot/ops.rs:53`), but what it tests is absence from the index
  (`bot/ops.rs:76-78`), without the retention check of `handle_break_block`, which calls absence ambiguous
  (`bot/commands.rs:1165-1177`). A bot that the server carries beyond the retention radius while it mines (a teleport command, a
  death) has the entry pruned and reports the block as mined. `MineBlock` has these behaviours (`Displace`, `Pass`, `Poll`):
  `outcome = "mined"` with `unbroken > 0` is reachable, with `place = "far"`.

- `prepare_connect_entry` runs on the new thread and clears a disconnect that was asked
  after the claim (`bot/connection.rs:538-541`; compare the comment at 147).
- `update_settings` that saw the bot offline may raise the restart flag after the entry of a new loop has discarded
  stale ones, and a later disconnect becomes a reconnect (`mcp/tools_settings.rs:269-290`).
- The two cancellable sleeps treat a config restart as a disconnect (`bot/connection.rs:310-313`,
  `349-352`). In headless mode the supervisor makes up for it.
- An aborted dispatch leaves `executor_busy` set unless a `Disconnect` event clears it (`bot/commands.rs:757-759`,
  `bot/events.rs:236-246`).
- A second forced query drops the first one's sender, which then reads at once, before its timeout
  (`state.rs:797`, `mcp/tools_query.rs:110-113`).
- With `chunk_scan_radius` below 8, loaded chunks between it and the retention radius are never scanned,
  and their blocks count as gone.
- `clear_session_state` says it runs on both disconnect paths (`state.rs:1039-1068`);
  the end of `start()` by `AppExit` does not call it, so the container handle and the view cache may survive
  (`HandleOfSession` is stated with that exception). A tool that renders across a disconnect also stores
  its render after the clear (`ViewCache`: `Render` after `ClearView`).
- The supervisor may consume a restart while an agent's thread exists but its
  handle is not stored (`bot/spawn.rs:253-261`); `SingleLoop` holds nevertheless.
- `verification_needs_activity_restamp` stamps once, at the begin of a verification that
  takes the interval and 250 ms. With an interval above the window the cadence
  relaxes before the verification ends, and for intervals up to about 4.75 s a placed or broken block may be missed.
- A placement after a walk that used its whole window is verified for the interval and 250 ms with one second
  left, so its reply is late when `snapshot_interval_ms` exceeds 750 (by the excess). `open_container_at`
  waits 5 s, so its reply is late when `command_timeout_secs` is less.
- With both timeouts at 1 s the budget of `Act(Mine)` and the share of a collect are 0, and both give up at once.
- A window that opens after `open_container_at` gave up has no handle that would close it, and swaps then do nothing.
- A rejection of one command that arrives after its 400 ms is attributed to the next (`RejectionReported`
  speaks of the window, not of the author).
- A permission probe answered in one session may be stored after `clear_session_state` (`mcp/tools_query.rs:530`).

## Not modelled

The components marked `not_modelled` in `PROJECT.json`, with reasons. Within the
modelled ones: the length of delays and timeouts (only their order, except in `CommandLegs` and
`MineBlock`, whose question it is), the payload of commands
and the contents of settings, entities and inventory in the snapshot (re-read
whole on every build), logging, translation and formatting. azalea, rmcp and tokio
appear only as far as the code relies on them.

- The **MCP server** (`mcp/server.rs`) is a sequence of start-up steps around rmcp and an idle watchdog; its one
  race, activity against the watchdog, lies mostly in rmcp.
- **Validation**, **configuration parsing** and the slot checks of the item tools are sequential and
  pure. Their unit tests enumerate the boundaries, and a model would repeat the comparisons.
- `Death` writes one field of the snapshot, which the next build overwrites.
- The place, open and equip **compound operations** are marked dead code.
- The vendored sources under `patches/` are third-party.

## Plan

What is left, in order:

1. Refinement: `CommandLegs` implements the `Receive ... Finish` of `CommandChannel` under a deadline;
   `ViewCache` and `SnapshotForce` implement a read without a cache or slot.
2. `ServerWatchdog`: idle clock, activity, shutdown.
3. A new run replaces or widens one of the present ones where the question is the same. When one of the four
   findings is corrected in the code, its run becomes a property of the passing run beside it
   (`SingleLoop` without the assumption, `VerificationPasses` in `Mine`, `TooFarIsHonest` and `RepliesBeforeEnvelope` in `Legs`).
