---------------------------- MODULE BotLifecycle ----------------------------
(***************************************************************************)
(* Who starts, restarts and stops the bot.  The actors share the flags of  *)
(* SharedState (src/src/state.rs):                                         *)
(*                                                                         *)
(*   - bot threads, each one run of ConnectionManager::connect             *)
(*     (bot/connection.rs) with the azalea session inside it (events.rs);  *)
(*   - agents: MCP tool calls and UI clicks (tools_settings.rs, ui/app.rs);*)
(*   - the headless supervisor (bot/spawn.rs).                             *)
(*                                                                         *)
(* Every write of a shared flag is a step of its own, so the gaps between  *)
(* the flags of one operation are visible to the other actors; a loop's    *)
(* load of the disconnect flag is joined with its next step.  Steps that a *)
(* thread takes with no await between them only keep out its own tasks     *)
(* (Settled).                                                              *)
(* A thread is numbered when it is spawned; 0 stands for "none".           *)
(***************************************************************************)
EXTENDS Integers, FiniteSets

CONSTANTS Agents,        \* slots for the calls of connect_bot, disconnect_bot and
                         \* update_settings that are under way
          Modes,         \* TRUE: the supervisor runs; FALSE: the egui window
          ConnectDuringTeardown, \* may a connect be accepted while a finished
                         \* thread still drops its runtime?
          FirstRetries,  \* MAX_FIRST_CONNECT_RETRIES
          MaxThreads,    \* bound: bot threads at a time, finished ones with a
                         \* JoinHandle kept included
          Budget         \* bound, by mode: how often each of Kinds happens, and
                         \* how many events there are in all

Kinds == {"connect", "disconnect", "update", \* operations of the agents
          "drop",                            \* sessions or dials the server ends
          "thread", "runtime",               \* failed creations
          "all"}

ASSUME LifecycleAssumption ==
  /\ Agents \subseteq Int /\ Modes \subseteq BOOLEAN
  /\ ConnectDuringTeardown \in BOOLEAN
  /\ FirstRetries \in Nat \ {0} /\ MaxThreads \in Nat
  /\ Budget \in [Modes -> [Kinds -> Nat]]

Threads == 1..MaxThreads

VARIABLES
  online, connecting, disconnect, latch, restart, \* flags of SharedState
  tripped,   \* the current cancel_token is cancelled
  shutdown,  \* the shutdown_token is cancelled
  ecs,       \* bot_ecs: the thread whose running ECS world it reaches, or 0
  handle,    \* bot_thread slot: the thread whose JoinHandle is stored, or 0
  loop,      \* [Threads -> control point of the thread]
  first,     \* [Threads -> first_connect_attempts]
  token,     \* [Threads -> state of the token clone its select! waits on]
  world,     \* [Threads -> azalea session inside start()]
  joining,   \* [Threads -> progress of its handle_spawn: it awaits the command
             \* "receiver", the "latch" is yet to be set, or "no"]
  exit,      \* threads whose ECS world was sent AppExit
  agent,     \* [Agents -> control point of its operation]
  mine,      \* [Agents -> thread it has spawned and not stored, or 0]
  sup,       \* control point of the supervisor
  supHandle, \* JoinHandle the supervisor polls, or 0
  supThread, \* thread it has spawned and not stored, or 0
  owed,      \* history: what a reconnect triggered on a running loop still
             \* owes: "config" (no dial has read it), "dial" (that dial has no
             \* outcome) or "no"
  stopped,   \* history: a disconnect was asked of a thread "early" (before its
             \* loop) or "late", it has not ended, and nothing was asked since; or "no"
  left       \* operations left within the bounds

flags == <<online, connecting, disconnect, latch, restart, tripped>>
session == <<world, joining, exit>>
threads == <<loop, first, token>>
agents == <<agent, mine>>
supervisor == <<sup, supHandle, supThread>>
history == <<owed, stopped, left>>
vars == <<flags, shutdown, ecs, handle, threads, session, agents,
          supervisor, history>>

Finished == {"teardown", "gone"}
Entering == {"spawned", "entry2", "entry3", "entry4"}
Updating == {"updated", "updated2", "updOffline", "updRestart", "updDisconnect"}
LiveLoops == {t \in Threads : loop[t] \notin Finished}

Init ==
  /\ online = FALSE /\ connecting = FALSE /\ disconnect = FALSE
  /\ latch = FALSE /\ restart = FALSE /\ tripped = FALSE
  /\ shutdown = FALSE /\ ecs = 0 /\ handle = 0
  /\ loop = [t \in Threads |-> "gone"]
  /\ first = [t \in Threads |-> 0]
  /\ token = [t \in Threads |-> "none"]
  /\ world = [t \in Threads |-> "none"]
  /\ joining = [t \in Threads |-> "no"] /\ exit = {}
  /\ agent = [a \in Agents |-> "idle"]
  /\ mine = [a \in Agents |-> 0]
  /\ \E mode \in Modes : /\ sup = IF mode THEN "decide" ELSE "off"
                         /\ left = Budget[mode]
  /\ supHandle = 0 /\ supThread = 0
  /\ owed = "no" /\ stopped = "no"

Headless == sup # "off"
Unspent(what) == left[what] = Budget[Headless][what]

Spend(what) == /\ left[what] > 0 /\ left["all"] > 0
               /\ left' = [left EXCEPT ![what] = @ - 1, !["all"] = @ - 1]

-----------------------------------------------------------------------------
(* The cancel token: every select! waits on the clone it took. *)

\* reset_cancel_token: clones taken before keep the state of the old token.
Orphaned == [t \in Threads |->
               IF token[t] = "current" THEN (IF tripped THEN "tripped" ELSE "stale")
               ELSE token[t]]

Woken(t) == token[t] = "tripped" \/ (token[t] = "current" /\ tripped)

Goto(t, pc) == loop' = [loop EXCEPT ![t] = pc]

-----------------------------------------------------------------------------
(* Spawning a bot thread: spawn_bot_connection. *)

\* A number is free while no thread runs under it and no handle names it.
Free(t) == loop[t] = "gone" /\ t \notin {handle, supHandle, supThread}
           /\ \A a \in Agents : mine[a] # t

\* OS thread creation succeeds; the thread gets the least free number.
NewThread(t) ==
  /\ Free(t)
  /\ \A u \in 1..(t - 1) : ~Free(u)
  /\ Goto(t, "spawned")

\* Variant: the connecting flag is set without being tested.
ClaimBlindly == /\ ConnectDuringTeardown \/ \A t \in Threads : loop[t] # "teardown"
                /\ connecting' = TRUE

\* try_begin_connecting
Claim == /\ ~connecting
         /\ ConnectDuringTeardown \/ \A t \in Threads : loop[t] # "teardown"
         /\ connecting' = TRUE

-----------------------------------------------------------------------------
(* The bot thread. *)

\* Runtime::new fails: the thread returns, its ClearGuard is still to drop.
RuntimeFails(t) ==
  /\ loop[t] = "spawned"
  /\ Spend("runtime")
  /\ Goto(t, "teardown")
  /\ stopped' = "no"
  /\ UNCHANGED <<flags, shutdown, ecs, handle, first, token, session, agents,
                 supervisor, owed>>

\* prepare_connect_entry, flag by flag.
EntryClearDisconnect(t) ==
  /\ loop[t] = "spawned"
  /\ disconnect' = FALSE
  /\ Goto(t, "entry2")
  /\ UNCHANGED <<online, connecting, latch, restart, tripped, shutdown, ecs, handle,
                 first, token, session, agents, supervisor, history>>

EntryResetToken(t) ==
  /\ loop[t] = "entry2"
  /\ tripped' = FALSE
  /\ token' = Orphaned
  /\ Goto(t, "entry3")
  /\ UNCHANGED <<online, connecting, disconnect, latch, restart, shutdown, ecs,
                 handle, first, session, agents, supervisor, history>>

EntryTakeRestart(t) ==
  /\ loop[t] = "entry3"
  /\ restart' = FALSE
  /\ Goto(t, "entry4")
  /\ UNCHANGED <<online, connecting, disconnect, latch, tripped, shutdown, ecs,
                 handle, first, token, session, agents, supervisor, history>>

\* Variant: the latch of the last session survives the entry.
EntryKeepsLatch(t) ==
  /\ loop[t] = "entry4"
  /\ first' = [first EXCEPT ![t] = 0]
  /\ Goto(t, "top")
  /\ UNCHANGED <<flags, shutdown, ecs, handle, token, session, agents, supervisor,
                 history>>

EntryTakeLatch(t) ==
  /\ loop[t] = "entry4"
  /\ latch' = FALSE
  /\ first' = [first EXCEPT ![t] = 0]
  /\ Goto(t, "top")
  /\ UNCHANGED <<online, connecting, disconnect, restart, tripped, shutdown, ecs,
                 handle, token, session, agents, supervisor, history>>

\* First checkpoint passed: read the config, inject the dependencies, enter
\* the select! around ClientBuilder::start with a clone of the token.
Dial(t) ==
  /\ loop[t] = "top"
  /\ ~disconnect
  /\ Goto(t, "start")
  /\ token' = [token EXCEPT ![t] = "current"]
  /\ world' = [world EXCEPT ![t] = "dialing"]
  /\ exit' = exit \ {t}
  /\ owed' = IF owed = "config" THEN "dial" ELSE owed
  /\ UNCHANGED <<flags, shutdown, ecs, handle, first, joining, agents, supervisor,
                 stopped, left>>

\* Variant: the restart flag is consumed and not acted on.
CheckpointStops(t) ==
  /\ loop[t] = "top" \/ loop[t] = "afterOnline" \/ loop[t] = "afterOffline"
  /\ disconnect
  /\ restart' = FALSE
  /\ Goto(t, "finish")
  /\ UNCHANGED <<online, connecting, disconnect, latch, tripped, shutdown, ecs,
                 handle, first, token, session, agents, supervisor, history>>

\* A disconnect request at a checkpoint: should_restart_after_disconnect
\* consumes the restart flag, or the loop stops.
Checkpoint(t) ==
  /\ loop[t] = "top" \/ loop[t] = "afterOnline" \/ loop[t] = "afterOffline"
  /\ disconnect
  /\ restart' = FALSE
  /\ Goto(t, IF restart THEN "restart1" ELSE "finish")
  /\ UNCHANGED <<online, connecting, disconnect, latch, tripped, shutdown, ecs,
                 handle, first, token, session, agents, supervisor, history>>

\* The rest of should_restart_after_disconnect: after a checkpoint ("restart")
\* or in the cancel branch ("redial"), which still owes prepare_cancel_restart.
RestartClearDisconnect(t) ==
  /\ loop[t] \in {"restart1", "redial1"}
  /\ disconnect' = FALSE
  /\ Goto(t, IF loop[t] = "restart1" THEN "restart2" ELSE "redial2")
  /\ UNCHANGED <<online, connecting, latch, restart, tripped, shutdown, ecs, handle,
                 first, token, session, agents, supervisor, history>>

RestartResetToken(t) ==
  /\ loop[t] \in {"restart2", "redial2"}
  /\ tripped' = FALSE
  /\ token' = Orphaned
  /\ first' = [first EXCEPT ![t] = 0]
  /\ Goto(t, IF loop[t] = "restart2" THEN "top" ELSE "redial3")
  /\ UNCHANGED <<online, connecting, disconnect, latch, restart, shutdown, ecs,
                 handle, session, agents, supervisor, history>>

\* prepare_cancel_restart
CancelTakeLatch(t) ==
  /\ loop[t] = "redial3"
  /\ latch' = FALSE
  /\ Goto(t, "top")
  /\ UNCHANGED <<online, connecting, disconnect, restart, tripped, shutdown, ecs,
                 handle, first, token, session, agents, supervisor, history>>

\* The azalea session of t and its LocalSet are gone, its tasks with them; a
\* bot_ecs that still holds its world reaches nothing any more.
WorldGone(t) ==
  /\ world' = [world EXCEPT ![t] = "none"]
  /\ joining' = [joining EXCEPT ![t] = "no"]
  /\ exit' = exit \ {t}
  /\ token' = [token EXCEPT ![t] = "none"]
  /\ ecs' = IF ecs = t THEN 0 ELSE ecs

\* start() and the handlers are polled by one thread, so neither is dropped nor
\* resumed while a handler is between two writes with no await between them.
Settled(t) == joining[t] # "latch" /\ world[t] # "leaving"

\* select!: the token was cancelled first, and start() is dropped.
CancelStart(t) ==
  /\ loop[t] = "start"
  /\ Settled(t)
  /\ Woken(t)
  /\ WorldGone(t)
  /\ Goto(t, "cancel1")
  /\ owed' = IF owed = "dial" THEN "config" ELSE owed
  /\ UNCHANGED <<flags, shutdown, handle, first, agents, supervisor, stopped, left>>

\* The cancel branch runs clear_session_state ...
CancelSetOffline(t) ==
  /\ loop[t] = "cancel1"
  /\ online' = FALSE
  /\ Goto(t, "cancel2")
  /\ UNCHANGED <<connecting, disconnect, latch, restart, tripped, shutdown, ecs,
                 handle, first, token, session, agents, supervisor, history>>

CancelClearEcs(t) ==
  /\ loop[t] = "cancel2"
  /\ ecs' = 0
  /\ Goto(t, "cancel3")
  /\ UNCHANGED <<flags, shutdown, handle, first, token, session, agents, supervisor,
                 history>>

\* ... and asks cancel_branch_action.
CancelDecides(t) ==
  /\ loop[t] = "cancel3"
  /\ restart' = FALSE
  /\ Goto(t, IF restart THEN "redial1" ELSE "finish")
  /\ UNCHANGED <<online, connecting, disconnect, latch, tripped, shutdown, ecs,
                 handle, first, token, session, agents, supervisor, history>>

\* select!: start() returned, because AppExit was sent or the dial failed.
StartReturns(t) ==
  /\ loop[t] = "start"
  /\ Settled(t)
  /\ \/ t \in exit /\ UNCHANGED <<left, owed>>
     \/ /\ world[t] = "dialing"
        /\ Spend("drop")
        /\ owed' = IF owed = "dial" THEN "no" ELSE owed
  /\ WorldGone(t)
  /\ Goto(t, "returned")
  /\ UNCHANGED <<flags, shutdown, handle, first, agents, supervisor, stopped>>

\* The loop takes the session_was_online latch, then lowers the online flag:
\* until then the bot is online without a session.
TakeLatch(t) ==
  /\ loop[t] = "returned"
  /\ latch' = FALSE
  /\ Goto(t, IF latch THEN "wasOnline" ELSE "wasOffline")
  /\ UNCHANGED <<online, connecting, disconnect, restart, tripped, shutdown, ecs,
                 handle, first, token, session, agents, supervisor, history>>

\* Variant: the online flag is left to the event handlers.
SetOfflineSkipped(t) ==
  /\ loop[t] \in {"wasOnline", "wasOffline"}
  /\ Goto(t, IF loop[t] = "wasOnline" THEN "afterOnline" ELSE "afterOffline")
  /\ UNCHANGED <<flags, shutdown, ecs, handle, first, token, session, agents,
                 supervisor, history>>

SetOffline(t) ==
  /\ loop[t] \in {"wasOnline", "wasOffline"}
  /\ online' = FALSE
  /\ Goto(t, IF loop[t] = "wasOnline" THEN "afterOnline" ELSE "afterOffline")
  /\ UNCHANGED <<connecting, disconnect, latch, restart, tripped, shutdown, ecs,
                 handle, first, token, session, agents, supervisor, history>>

\* The session never came online: bounded retries, then fail fast.
RetryOrFail(t) ==
  /\ loop[t] = "afterOffline"
  /\ ~disconnect
  /\ first' = [first EXCEPT ![t] = IF @ < FirstRetries THEN @ + 1 ELSE @]
  /\ IF first[t] + 1 < FirstRetries
     THEN Goto(t, "retry") /\ token' = [token EXCEPT ![t] = "current"]
     ELSE Goto(t, "finish") /\ UNCHANGED token
  /\ UNCHANGED <<flags, shutdown, ecs, handle, session, agents, supervisor,
                 history>>

\* It did: counters_after_session resets, then the reconnect backoff.
BackOff(t) ==
  /\ loop[t] = "afterOnline"
  /\ ~disconnect
  /\ first' = [first EXCEPT ![t] = 0]
  /\ Goto(t, "backoff")
  /\ token' = [token EXCEPT ![t] = "current"]
  /\ UNCHANGED <<flags, shutdown, ecs, handle, session, agents, supervisor,
                 history>>

SleepEnds(t) ==
  /\ loop[t] \in {"retry", "backoff"}
  /\ Goto(t, "top")
  /\ token' = [token EXCEPT ![t] = "none"]
  /\ UNCHANGED <<flags, shutdown, ecs, handle, first, session, agents, supervisor,
                 history>>

\* Both cancelled sleeps break without looking at the restart flag.
SleepCancelled(t) ==
  /\ loop[t] \in {"retry", "backoff"}
  /\ Woken(t)
  /\ Goto(t, "finish")
  /\ token' = [token EXCEPT ![t] = "none"]
  /\ UNCHANGED <<flags, shutdown, ecs, handle, first, session, agents, supervisor,
                 history>>

\* connect() clears the connecting flag as it returns ...
ConnectReturns(t) ==
  /\ loop[t] = "finish"
  /\ connecting' = FALSE
  /\ Goto(t, "teardown")
  /\ first' = [first EXCEPT ![t] = 0]    \* a local of connect()
  /\ stopped' = "no"
  /\ UNCHANGED <<online, disconnect, latch, restart, tripped, shutdown, ecs, handle,
                 token, session, agents, supervisor, owed, left>>

\* Variant: without ClearGuard.
ThreadExitsUnguarded(t) ==
  /\ loop[t] = "teardown"
  /\ Goto(t, "gone")
  /\ UNCHANGED <<flags, shutdown, ecs, handle, first, token, session, agents,
                 supervisor, history>>

\* ... and ClearGuard clears it again when the runtime has been dropped.
ThreadExits(t) ==
  /\ loop[t] = "teardown"
  /\ connecting' = FALSE
  /\ Goto(t, "gone")
  /\ UNCHANGED <<online, disconnect, latch, restart, tripped, shutdown, ecs, handle,
                 first, token, session, agents, supervisor, history>>

-----------------------------------------------------------------------------
(* The azalea session inside start(): events.rs. *)

\* Event::Spawn stores the ECS handle and awaits the command receiver.
SpawnEvent(t) ==
  /\ loop[t] = "start"
  /\ world[t] = "dialing"
  /\ world' = [world EXCEPT ![t] = "joined"]
  /\ joining' = [joining EXCEPT ![t] = "receiver"]
  /\ ecs' = t
  /\ UNCHANGED <<flags, shutdown, handle, threads, exit, agents, supervisor,
                 history>>

\* The receiver is leased: the bot is online ...
Served(t) ==
  /\ joining[t] = "receiver"
  /\ Settled(t)
  /\ joining' = [joining EXCEPT ![t] = "latch"]
  /\ online' = TRUE
  /\ owed' = IF owed = "dial" THEN "no" ELSE owed
  /\ UNCHANGED <<connecting, disconnect, latch, restart, tripped, shutdown, ecs,
                 handle, threads, world, exit, agents, supervisor, stopped, left>>

\* ... and then the latch is set: mark_session_online.
MarkSession(t) ==
  /\ joining[t] = "latch"
  /\ joining' = [joining EXCEPT ![t] = "no"]
  /\ latch' = TRUE
  /\ UNCHANGED <<online, connecting, disconnect, restart, tripped, shutdown, ecs,
                 handle, threads, world, exit, agents, supervisor, history>>

\* take_with_retry came back empty (see SpawnUnserved of CommandChannel).
Unserved(t) ==
  /\ joining[t] = "receiver"
  /\ Settled(t)
  /\ joining' = [joining EXCEPT ![t] = "no"]
  /\ ecs' = 0
  /\ owed' = IF owed = "dial" THEN "no" ELSE owed
  /\ UNCHANGED <<flags, shutdown, handle, threads, world, exit, agents, supervisor,
                 stopped, left>>

\* The server ends the session: handle_disconnect lowers the online flag, then
\* drops the ECS handle (clear_session_state), and, after the executor had time
\* to drop, sends AppExit.
DisconnectEvent(t) ==
  /\ world[t] = "joined"
  /\ Settled(t)
  /\ Spend("drop")
  /\ world' = [world EXCEPT ![t] = "leaving"]
  /\ online' = FALSE
  /\ UNCHANGED <<connecting, disconnect, latch, restart, tripped, shutdown, ecs,
                 handle, threads, joining, exit, agents, supervisor, owed, stopped>>

ClearEcs(t) ==
  /\ world[t] = "leaving"
  /\ world' = [world EXCEPT ![t] = "left"]
  /\ ecs' = 0
  /\ UNCHANGED <<flags, shutdown, handle, threads, joining, exit, agents,
                 supervisor, history>>

SendExit(t) ==
  /\ world[t] = "left"
  /\ joining[t] # "latch"
  /\ t \notin exit
  /\ exit' = exit \cup {t}
  /\ UNCHANGED <<flags, shutdown, ecs, handle, threads, world, joining, agents,
                 supervisor, history>>

-----------------------------------------------------------------------------
(* Agents. *)

Step(a, pc) == agent' = [agent EXCEPT ![a] = pc]

\* A call takes the least free slot: callers are interchangeable.
Idle(a) == agent[a] = "idle" /\ \A b \in Agents : agent[b] = "idle" => a <= b

\* connect_bot reads is_online; the UI button is drawn disabled while online
\* or connecting, and its click goes straight to try_begin_connecting.
ConnectCall(a) ==
  /\ Idle(a)
  /\ ~shutdown /\ ~online
  /\ Spend("connect")
  /\ Step(a, "claim")
  /\ stopped' = "no" /\ owed' = "no"
  /\ UNCHANGED <<flags, shutdown, ecs, handle, threads, session, mine, supervisor>>

ConnectClaim(a) ==
  /\ agent[a] = "claim"
  /\ Claim
  /\ Step(a, IF Headless THEN "spawn" ELSE "join")
  /\ UNCHANGED <<online, disconnect, latch, restart, tripped, shutdown, ecs, handle,
                 threads, session, mine, supervisor, history>>

ConnectBusy(a) ==
  /\ agent[a] = "claim"
  /\ connecting
  /\ Step(a, "idle")
  /\ UNCHANGED <<flags, shutdown, ecs, handle, threads, session, mine, supervisor,
                 history>>

\* The UI joins the previous thread, for at most one second; the connect_bot
\* tool goes on without that step.
ConnectJoin(a) ==
  /\ agent[a] = "join"
  /\ handle' \in {handle, 0}
  /\ Step(a, "spawn")
  /\ UNCHANGED <<flags, shutdown, ecs, threads, session, mine, supervisor, history>>

ConnectSpawn(a, t) ==
  /\ agent[a] = "spawn"
  /\ NewThread(t)
  /\ mine' = [mine EXCEPT ![a] = t]
  /\ Step(a, "store")
  /\ UNCHANGED <<flags, shutdown, ecs, handle, first, token, session, supervisor,
                 history>>

ConnectFails(a) ==
  /\ agent[a] = "spawn"
  /\ Spend("thread")
  /\ connecting' = FALSE
  /\ Step(a, "idle")
  /\ UNCHANGED <<online, disconnect, latch, restart, tripped, shutdown, ecs, handle,
                 threads, session, mine, supervisor, owed, stopped>>

ConnectStore(a) ==
  /\ agent[a] = "store"
  /\ handle' = mine[a]
  /\ mine' = [mine EXCEPT ![a] = 0]
  /\ Step(a, "idle")
  /\ UNCHANGED <<flags, shutdown, ecs, threads, session, supervisor, history>>

\* What a disconnect asked now is owed: nothing while an update is under way,
\* since a pending config restart wins over it by design.
Stopping ==
  IF LiveLoops = {} \/ owed # "no" \/ \E a \in Agents : agent[a] \in Updating THEN "no"
  ELSE IF \E t \in LiveLoops : loop[t] \in Entering THEN "early" ELSE "late"

\* request_disconnect, flag by flag, as disconnect_bot or the UI button.
DisconnectCall(a) ==
  /\ Idle(a)
  /\ ~shutdown
  /\ Spend("disconnect")
  /\ disconnect' = TRUE
  /\ Step(a, "cancel")
  /\ owed' = "no"
  /\ stopped' = Stopping
  /\ UNCHANGED <<online, connecting, latch, restart, tripped, shutdown, ecs, handle,
                 threads, session, mine, supervisor>>

WriteAppExit == exit' = IF ecs # 0 THEN exit \cup {ecs} ELSE exit

\* Variant: a disconnect request is the flag alone.
CancelTokenSkipped(a) ==
  /\ agent[a] = "cancel"
  /\ Step(a, "exit")
  /\ UNCHANGED <<flags, shutdown, ecs, handle, threads, session, mine, supervisor,
                 history>>

CancelToken(a) ==
  /\ agent[a] = "cancel"
  /\ tripped' = TRUE
  /\ Step(a, "exit")
  /\ UNCHANGED <<online, connecting, disconnect, latch, restart, shutdown, ecs,
                 handle, threads, session, mine, supervisor, history>>

\* The whole reconnect request lies before a loop past its entry, which the
\* supervisor started.
RestartRaised == /\ restart /\ disconnect /\ ~shutdown
                 /\ \E t \in LiveLoops : loop[t] \notin Entering
                 /\ Unspent("connect")

WriteExit(a) ==
  /\ agent[a] = "exit"
  /\ WriteAppExit
  /\ Step(a, "idle")
  /\ owed' = IF RestartRaised THEN "config" ELSE owed
  /\ UNCHANGED <<flags, shutdown, ecs, handle, threads, world, joining, mine,
                 supervisor, stopped, left>>

\* update_settings commits a connection field, then reads
\* is_online and, when that is down, is_connecting.
UpdateCall(a) ==
  /\ Idle(a)
  /\ ~shutdown
  /\ Spend("update")
  /\ Step(a, "updated")
  /\ stopped' = "no"
  /\ UNCHANGED <<flags, shutdown, ecs, handle, threads, session, mine, supervisor,
                 owed>>

UpdateReads(a) ==
  /\ agent[a] \in {"updated", "updated2"}
  /\ Step(a, IF agent[a] = "updated"
             THEN IF online THEN "updRestart" ELSE "updated2"
             ELSE IF connecting THEN "updRestart" ELSE "updOffline")
  /\ UNCHANGED <<flags, shutdown, ecs, handle, threads, session, mine, supervisor,
                 history>>

UpdateOffline(a) ==
  /\ agent[a] = "updOffline"
  /\ restart' = TRUE
  /\ Step(a, "idle")
  /\ UNCHANGED <<online, connecting, disconnect, latch, tripped, shutdown, ecs,
                 handle, threads, session, mine, supervisor, history>>

UpdateRestart(a) ==
  /\ agent[a] = "updRestart"
  /\ restart' = TRUE
  /\ Step(a, "updDisconnect")
  /\ UNCHANGED <<online, connecting, disconnect, latch, tripped, shutdown, ecs,
                 handle, threads, session, mine, supervisor, history>>

UpdateDisconnect(a) ==
  /\ agent[a] = "updDisconnect"
  /\ disconnect' = TRUE
  /\ Step(a, "cancel")
  /\ UNCHANGED <<online, connecting, latch, restart, tripped, shutdown, ecs, handle,
                 threads, session, mine, supervisor, history>>

-----------------------------------------------------------------------------
(* The headless supervisor. *)

SupGoto(pc) == sup' = pc

\* main: the MCP transport closed.
Shutdown ==
  /\ Headless
  /\ ~shutdown
  /\ shutdown' = TRUE
  /\ owed' = "no"
  /\ UNCHANGED <<flags, ecs, handle, threads, session, agents, supervisor, stopped,
                 left>>

BotThreadRunning == handle # 0 /\ loop[handle] # "gone"

\* headless_next_action: the shutdown token, then a live thread.
Decide ==
  /\ sup = "decide"
  /\ SupGoto(IF shutdown THEN "off1" ELSE IF BotThreadRunning THEN "take" ELSE "consume")
  /\ UNCHANGED <<flags, shutdown, ecs, handle, threads, session, agents, supHandle,
                 supThread, history>>

\* take_config_restart, from headless_next_action and from quiet_wait_step.
ConsumeRestart ==
  /\ sup \in {"consume", "quiet2"}
  /\ restart' = FALSE
  /\ SupGoto(IF restart THEN "clear" ELSE IF sup = "consume" THEN "idle1" ELSE "quiet")
  /\ UNCHANGED <<online, connecting, disconnect, latch, tripped, shutdown, ecs,
                 handle, threads, session, agents, supHandle, supThread, history>>

ClearRequest ==
  /\ sup = "clear"
  /\ disconnect' = FALSE
  /\ SupGoto("decide")
  /\ UNCHANGED <<online, connecting, latch, restart, tripped, shutdown, ecs, handle,
                 threads, session, agents, supHandle, supThread, history>>

\* Three loads, in this order: not online, not connecting, no disconnect asked.
IdleCheck ==
  /\ sup \in {"idle1", "idle2", "idle3"}
  /\ SupGoto(CASE sup = "idle1" -> IF online THEN "take" ELSE "idle2"
               [] sup = "idle2" -> IF connecting THEN "take" ELSE "idle3"
               [] sup = "idle3" -> IF disconnect THEN "take" ELSE "claim")
  /\ UNCHANGED <<flags, shutdown, ecs, handle, threads, session, agents, supHandle,
                 supThread, history>>

SupClaim ==
  /\ sup = "claim"
  /\ \/ Claim /\ SupGoto("spawn")
     \/ connecting /\ SupGoto("take") /\ UNCHANGED connecting
  /\ UNCHANGED <<online, disconnect, latch, restart, tripped, shutdown, ecs, handle,
                 threads, session, agents, supHandle, supThread, history>>

SupSpawn(t) ==
  /\ sup = "spawn"
  /\ NewThread(t)
  /\ supThread' = t
  /\ SupGoto("store")
  /\ UNCHANGED <<flags, shutdown, ecs, handle, first, token, session, agents,
                 supHandle, history>>

\* Variant: a failed spawn leads to the wait for a thread.
SupSpawnFailsToWait ==
  /\ sup = "spawn"
  /\ Spend("thread")
  /\ connecting' = FALSE
  /\ SupGoto("take")
  /\ UNCHANGED <<online, disconnect, latch, restart, tripped, shutdown, ecs, handle,
                 threads, session, agents, supHandle, supThread, owed, stopped>>

SupSpawnFails ==
  /\ sup = "spawn"
  /\ Spend("thread")
  /\ connecting' = FALSE
  /\ SupGoto("failed")
  /\ UNCHANGED <<online, disconnect, latch, restart, tripped, shutdown, ecs, handle,
                 threads, session, agents, supHandle, supThread, owed, stopped>>

\* The spawn backoff ends: by shutdown, or to try again.
SpawnBackoff ==
  /\ sup = "failed"
  /\ SupGoto(IF shutdown THEN "off1" ELSE "decide")
  /\ UNCHANGED <<flags, shutdown, ecs, handle, threads, session, agents, supHandle,
                 supThread, history>>

SupStore ==
  /\ sup = "store"
  /\ handle' = supThread
  /\ supThread' = 0
  /\ SupGoto("take")
  /\ UNCHANGED <<flags, shutdown, ecs, threads, session, agents, supHandle,
                 history>>

TakeHandle ==
  /\ sup = "take"
  /\ supHandle' = handle
  /\ handle' = 0
  /\ SupGoto("inner")
  /\ UNCHANGED <<flags, shutdown, ecs, threads, session, agents, supThread,
                 history>>

\* inner_wait_step: a live thread is polled until it ends or shutdown comes.
InnerWait ==
  /\ sup = "inner"
  /\ \/ shutdown /\ SupGoto("abort1")
     \/ ~shutdown /\ (supHandle # 0 => loop[supHandle] = "gone") /\ SupGoto("quiet")
  /\ supHandle' = 0
  /\ UNCHANGED <<flags, shutdown, ecs, handle, threads, session, agents, supThread,
                 history>>

\* Variant: the quiet wait does not look at the shutdown token.
QuietWaitDeaf ==
  /\ sup = "quiet"
  /\ \/ BotThreadRunning /\ SupGoto("decide")
     \/ ~BotThreadRunning /\ restart /\ SupGoto("quiet2")
  /\ UNCHANGED <<flags, shutdown, ecs, handle, threads, session, agents, supHandle,
                 supThread, history>>

\* quiet_wait_step: shutdown, a thread that appeared, or a restart to consume.
QuietWait ==
  /\ sup = "quiet"
  /\ \/ shutdown /\ SupGoto("off1")
     \/ ~shutdown /\ BotThreadRunning /\ SupGoto("decide")
     \/ ~shutdown /\ ~BotThreadRunning /\ restart /\ SupGoto("quiet2")
  /\ UNCHANGED <<flags, shutdown, ecs, handle, threads, session, agents, supHandle,
                 supThread, history>>

\* request_disconnect once in the inner wait and once on the way out, each
\* followed by a join of at most three seconds.
SupDisconnect ==
  /\ sup \in {"abort1", "off1"}
  /\ disconnect' = TRUE
  /\ SupGoto(IF sup = "abort1" THEN "abort2" ELSE "off2")
  /\ UNCHANGED <<online, connecting, latch, restart, tripped, shutdown, ecs, handle,
                 threads, session, agents, supHandle, supThread, history>>

SupCancelToken ==
  /\ sup \in {"abort2", "off2"}
  /\ tripped' = TRUE
  /\ SupGoto(IF sup = "abort2" THEN "abort3" ELSE "off3")
  /\ UNCHANGED <<online, connecting, disconnect, latch, restart, shutdown, ecs,
                 handle, threads, session, agents, supHandle, supThread, history>>

SupWriteExit ==
  /\ sup \in {"abort3", "off3"}
  /\ WriteAppExit
  /\ SupGoto(IF sup = "abort3" THEN "off1" ELSE "join")
  /\ UNCHANGED <<flags, shutdown, ecs, handle, threads, world, joining, agents,
                 supHandle, supThread, history>>

FinalJoin ==
  /\ sup = "join"
  /\ handle' = 0
  /\ SupGoto("done")
  /\ UNCHANGED <<flags, shutdown, ecs, threads, session, agents, supHandle,
                 supThread, history>>

-----------------------------------------------------------------------------

\* What the bot thread does without the server.
LoopStep(t) ==
  \/ RuntimeFails(t) \/ EntryClearDisconnect(t) \/ EntryResetToken(t)
  \/ EntryTakeRestart(t) \/ EntryTakeLatch(t)
  \/ Dial(t) \/ Checkpoint(t) \/ RestartClearDisconnect(t) \/ RestartResetToken(t)
  \/ CancelStart(t) \/ CancelSetOffline(t) \/ CancelClearEcs(t) \/ CancelDecides(t)
  \/ CancelTakeLatch(t) \/ TakeLatch(t) \/ SetOffline(t) \/ RetryOrFail(t) \/ BackOff(t)
  \/ SleepEnds(t) \/ SleepCancelled(t) \/ ConnectReturns(t) \/ ThreadExits(t)

\* How a dial, a handle_spawn and a handle_disconnect end.
DialEnds(t) == StartReturns(t) \/ SpawnEvent(t)
SpawnHandled(t) == Served(t) \/ MarkSession(t) \/ Unserved(t)
DisconnectHandled(t) == ClearEcs(t) \/ SendExit(t)

ThreadStep(t) == LoopStep(t) \/ DialEnds(t) \/ SpawnHandled(t) \/ DisconnectHandled(t)

\* The rest of an agent's operation, once begun.
AgentStep(a) ==
  \/ ConnectClaim(a) \/ ConnectBusy(a) \/ ConnectJoin(a) \/ ConnectFails(a)
  \/ (\E t \in Threads : ConnectSpawn(a, t)) \/ ConnectStore(a)
  \/ CancelToken(a) \/ WriteExit(a)
  \/ UpdateReads(a) \/ UpdateOffline(a) \/ UpdateRestart(a) \/ UpdateDisconnect(a)

AgentCall(a) == ConnectCall(a) \/ DisconnectCall(a) \/ UpdateCall(a)

SupStep ==
  \/ Decide \/ ConsumeRestart \/ ClearRequest \/ IdleCheck \/ SupClaim \/ SupSpawnFails
  \/ (\E t \in Threads : SupSpawn(t)) \/ SpawnBackoff \/ SupStore \/ TakeHandle
  \/ InnerWait \/ QuietWait \/ SupDisconnect \/ SupCancelToken \/ SupWriteExit \/ FinalJoin

Next ==
  \/ \E t \in Threads : ThreadStep(t) \/ DisconnectEvent(t)
  \/ \E a \in Agents : AgentStep(a) \/ AgentCall(a)
  \/ SupStep \/ Shutdown

Spec == Init /\ [][Next]_vars

\* What was begun goes on: while a thread, a begun operation or the supervisor
\* can make a step, some such step is made; a TCP dial times out or is answered,
\* and the receiver wait is 100 ms.  Nothing obliges the server to end a session,
\* or anyone to begin an operation.
Fairness ==
  WF_vars(\/ \E t \in Threads : ThreadStep(t)
          \/ \E a \in Agents : AgentStep(a)
          \/ SupStep)

FairSpec == Spec /\ Fairness

-----------------------------------------------------------------------------
(* Properties. *)

FlagsOK ==
  /\ online \in BOOLEAN /\ connecting \in BOOLEAN /\ disconnect \in BOOLEAN
  /\ latch \in BOOLEAN /\ restart \in BOOLEAN /\ tripped \in BOOLEAN
  /\ shutdown \in BOOLEAN

ControlOK ==
  /\ ecs \in Threads \cup {0} /\ handle \in Threads \cup {0}
  /\ loop \in [Threads -> Entering \cup Finished \cup
       {"top", "start", "cancel1", "cancel2", "cancel3", "returned", "wasOnline",
        "wasOffline", "afterOnline", "afterOffline", "restart1", "restart2", "redial1",
        "redial2", "redial3", "retry", "backoff", "finish"}]
  /\ first \in [Threads -> 0..FirstRetries]
  /\ token \in [Threads -> {"none", "current", "stale", "tripped"}]
  /\ world \in [Threads -> {"none", "dialing", "joined", "leaving", "left"}]
  /\ joining \in [Threads -> {"no", "receiver", "latch"}] /\ exit \subseteq Threads
  /\ agent \in [Agents -> Updating \cup
       {"idle", "claim", "join", "spawn", "store", "cancel", "exit"}]
  /\ mine \in [Agents -> Threads \cup {0}]
  /\ sup \in {"off", "decide", "consume", "clear", "idle1", "idle2", "idle3", "claim",
              "spawn", "failed", "store", "take", "inner", "quiet", "quiet2", "abort1", "abort2",
              "abort3", "off1", "off2", "off3", "join", "done"}
  /\ supHandle \in Threads \cup {0} /\ supThread \in Threads \cup {0}
  /\ owed \in {"no", "config", "dial"} /\ stopped \in {"no", "early", "late"}
  /\ left \in [Kinds -> Nat]

TypeOK == FlagsOK /\ ControlOK

\* At most one connection loop runs: two of them would be two azalea sessions
\* under one username, which the server kicks in turn (try_begin_connecting).
SingleLoop == \A t, u \in LiveLoops : t = u

\* The connecting flag never leaks: while it is up, an agent or the supervisor
\* is about to spawn, or a thread is still there to clear it.  A leaked flag
\* "would reject every subsequent Connect attempt until the process restarts"
\* (ClearGuard), whichever creation fails and however two loops overlap.
ClaimHasOwner ==
  connecting => \/ \E a \in Agents : agent[a] \in {"join", "spawn"}
                \/ sup = "spawn"
                \/ \E t \in Threads : loop[t] # "gone"

\* The thread's session has joined; its loop is past the session and has yet to
\* lower the online flag, which a late handle_spawn may have left up.
InSession(t) == loop[t] = "start" /\ world[t] \in {"joined", "leaving", "left"}
Lowering(t) == loop[t] \in {"cancel1", "returned", "wasOnline", "wasOffline"}

\* The bot is not reported online without a session but for the moment in which
\* the loop of the ended session has yet to lower the flag: in whatever order
\* handle_spawn (which may finish after handle_disconnect), handle_disconnect and
\* the end of start() come, the flag never stays up.
OnlineIsLowered == online => \E t \in Threads : InSession(t) \/ Lowering(t)

\* A dial never starts with the session_was_online latch of an earlier session,
\* which would turn the bounded first-connect retries into endless backoff
\* (prepare_connect_entry M-6, prepare_cancel_restart F-12).
LatchFresh == \A t \in Threads : world[t] = "dialing" => ~latch

\* The supervisor exits after shutdown, wherever it then is.
ShutdownTerminates == shutdown ~> (sup = "done")

Uncalled == \A k \in {"connect", "disconnect", "update"} : Unspent(k)

\* Left alone by the agents, the headless bot is dialed however often its
\* thread cannot be created (M-8).
HeadlessConnects ==
  Headless => <>(shutdown \/ ~Uncalled \/ \E t \in Threads : loop[t] = "start")

\* A disconnect asked of a running loop ends it, unless someone asks to connect
\* or to update the settings afterwards.
DisconnectHonoured == (stopped = "late") ~> (stopped = "no")

\* When update_settings returns with its restart flag still raised before a
\* loop that the supervisor started and that is past its entry, some dial with
\* the new settings is carried to its outcome, by that loop or by the
\* supervisor, unless a connect, a disconnect or shutdown follows.
RestartHonoured == (owed # "no") ~> (owed = "no")
=============================================================================
