--------------------------- MODULE CommandChannel ---------------------------
(***************************************************************************)
(* The command channel of src/src/channel.rs together with the tasks that  *)
(* use it: MCP tool calls (callers) queue a command with a oneshot reply   *)
(* channel and wait inside a timeout envelope; a bot session leases the    *)
(* single receiver out of a shared slot, drains what an earlier session    *)
(* left behind and runs the commands one at a time.                        *)
(*                                                                         *)
(* Every Event::Spawn starts a new executor task, numbered 1, 2, ...       *)
(* (MaxSpawns bounds their number).  Handlers and executors share one      *)
(* LocalSet thread, so a stretch of their code without an await is one     *)
(* step; callers run on the threads of the MCP runtime, so the drain loop  *)
(* is stepped one command at a time.                                       *)
(***************************************************************************)
EXTENDS Integers, Sequences, FiniteSets

CONSTANTS Callers,     \* tasks that call MCP tools
          Capacity,    \* buffer of the mpsc channel (main.rs: 64)
          MaxCalls,    \* bound: tool calls per caller
          MaxSpawns    \* bound: Event::Spawn deliveries

ASSUME ChannelAssumption ==
  /\ Capacity \in Nat \ {0}
  /\ MaxCalls \in Nat \ {0}
  /\ MaxSpawns \in Nat \ {0}

Executors == 1..MaxSpawns
Call == Callers \X (1..MaxCalls)

\* A queued command: whose call it is, and the newest lease when it was queued.
Request == [call : Call, born : 0..MaxSpawns]

\* How a call ended.  "unqueued" and "late" are the two legs of CommandTimeout,
\* "dropped" is the Offline of a responder dropped without a reply.
Answers == {"none", "done", "offline", "drained", "dropped", "unqueued", "late"}

VARIABLES
  started,   \* tool calls made so far
  sending,   \* calls blocked in (or about to enter) the send leg
  answer,    \* [Call -> Answers]
  queue,     \* the mpsc buffer
  executed,  \* calls whose command was handed to dispatch
  slot,      \* TRUE iff the ReceiverSlot holds the receiver
  exec,      \* [Executors -> phase of the spawn handler and its executor]
  running,   \* [Executors -> {} or {the request being dispatched}]
  handle,    \* BotState.executor_handle: 0 or an executor
  newest,    \* the executor that took the lease last, 0 before any did
  online,    \* SharedState.bot_online
  busy,      \* SharedState.executor_busy
  session    \* "up" while ClientBuilder::start runs, "ending", "down"

vars == <<started, sending, answer, queue, executed, slot, exec, running,
          handle, newest, online, busy, session>>

callerVars == <<started, sending, answer>>
execVars == <<slot, exec, running, handle, newest>>

\* Phases in which an executor task owns the ReceiverLease.
Holding == {"draining", "ready", "dispatching", "aborted"}
Phases == Holding \cup {"new", "leasing", "unserved", "gone"}

Init ==
  /\ started = {}
  /\ sending = {}
  /\ answer = [k \in Call |-> "none"]
  /\ queue = <<>>
  /\ executed = {}
  /\ slot = TRUE
  /\ exec = [e \in Executors |-> "new"]
  /\ running = [e \in Executors |-> {}]
  /\ handle = 0
  /\ newest = 0
  /\ online = FALSE
  /\ busy = FALSE
  /\ session = "down"

-----------------------------------------------------------------------------
(* Callers: send_command_with_timeout. *)

Pending(k) == k \in started /\ answer[k] = "none"

\* The reply reaches a caller only while it still waits for it.
Reply(k, a) == [answer EXCEPT ![k] = IF @ = "none" THEN a ELSE @]

\* A tool call passes require_online and builds the envelope future.  A
\* caller makes its calls one after another.
Issue(k) ==
  /\ online
  /\ k \notin started
  /\ \A n \in 1..(k[2] - 1) : answer[<<k[1], n>>] # "none"
  /\ started' = started \cup {k}
  /\ sending' = sending \cup {k}
  /\ UNCHANGED <<answer, queue, executed, execVars, online, busy, session>>

\* Variant: a send that ignores the capacity of the buffer.
SendUnbounded(k) ==
  /\ k \in sending
  /\ queue' = Append(queue, [call |-> k, born |-> newest])
  /\ sending' = sending \ {k}
  /\ UNCHANGED <<started, answer, executed, execVars, online, busy, session>>

\* tx.send completes once the bounded buffer has room.
Send(k) ==
  /\ k \in sending
  /\ Len(queue) < Capacity
  /\ queue' = Append(queue, [call |-> k, born |-> newest])
  /\ sending' = sending \ {k}
  /\ UNCHANGED <<started, answer, executed, execVars, online, busy, session>>

\* Variants: the envelope reports a timeout and leaves the send future alive;
\* the envelope covers the receive leg only.
TimeoutSendingDetached(k) ==
  /\ k \in sending
  /\ answer' = [answer EXCEPT ![k] = "unqueued"]
  /\ UNCHANGED <<started, sending, queue, executed, execVars, online, busy, session>>

TimeoutSendingNever(k) == k \notin Call /\ UNCHANGED vars

\* The envelope fires during the send leg: the future is dropped unqueued.
TimeoutSending(k) ==
  /\ k \in sending
  /\ sending' = sending \ {k}
  /\ answer' = [answer EXCEPT ![k] = "unqueued"]
  /\ UNCHANGED <<started, queue, executed, execVars, online, busy, session>>

\* The envelope fires during the receive leg: the command stays queued.
TimeoutWaiting(k) ==
  /\ Pending(k)
  /\ k \notin sending
  /\ answer' = [answer EXCEPT ![k] = "late"]
  /\ UNCHANGED <<started, sending, queue, executed, execVars, online, busy, session>>

-----------------------------------------------------------------------------
(* Sessions: the connect loop around ClientBuilder::start. *)

\* The connect loop enters ClientBuilder::start: a fresh BotState.
SessionStart ==
  /\ session = "down"
  /\ session' = "up"
  /\ UNCHANGED <<callerVars, queue, executed, execVars, online, busy>>

\* Event::Spawn: the previous executor is aborted, the lease is awaited.
Abort(e) == [exec EXCEPT ![e] = "aborted"]

SpawnBegin(e) ==
  /\ session = "up"
  /\ exec[e] = "new"
  /\ \A f \in 1..(e - 1) : exec[f] # "new"
  /\ exec' = [(IF handle # 0 THEN Abort(handle) ELSE exec) EXCEPT ![e] = "leasing"]
  /\ handle' = 0
  /\ UNCHANGED <<callerVars, queue, executed, slot, running, newest, online, busy, session>>

\* Variant: the lease does not wait for the slot to be filled again.
SpawnLeaseUnguarded(e) ==
  /\ exec[e] = "leasing"
  /\ slot' = FALSE
  /\ exec' = [exec EXCEPT ![e] = "draining"]
  /\ handle' = e
  /\ newest' = e
  /\ online' = TRUE
  /\ UNCHANGED <<callerVars, queue, executed, running, busy, session>>

\* take_with_retry finds the receiver; the executor task is spawned and the
\* bot is marked online, all before the handler awaits again.
SpawnLease(e) ==
  /\ exec[e] = "leasing"
  /\ slot
  /\ slot' = FALSE
  /\ exec' = [exec EXCEPT ![e] = "draining"]
  /\ handle' = e
  /\ newest' = e
  /\ online' = TRUE
  /\ UNCHANGED <<callerVars, queue, executed, running, busy, session>>

\* twenty polls of an empty slot: the session has no executor of this spawn.
SpawnUnserved(e) ==
  /\ exec[e] = "leasing"
  /\ ~slot
  /\ exec' = [exec EXCEPT ![e] = "unserved"]
  /\ UNCHANGED <<callerVars, queue, executed, slot, running, handle, newest, online, busy, session>>

\* Event::Disconnect: clear_session_state, then the executor is aborted.
Disconnect ==
  /\ session = "up"
  /\ online' = FALSE
  /\ busy' = FALSE
  /\ exec' = IF handle # 0 THEN Abort(handle) ELSE exec
  /\ handle' = 0
  /\ UNCHANGED <<callerVars, queue, executed, slot, running, newest, session>>

Live == {e \in Executors : exec[e] \in Holding}

\* The responders of the requests in R are dropped without a reply.
Unanswered(R) ==
  [k \in Call |-> IF answer[k] = "none" /\ \E r \in R : r.call = k
                  THEN "dropped" ELSE answer[k]]

\* start() has returned or was dropped: its LocalSet drops every task, the
\* lease goes back to the slot.
SessionDrop ==
  /\ session = "up"
  /\ session' = "ending"
  /\ slot' = (slot \/ Live # {})
  /\ answer' = Unanswered(UNION {running[e] : e \in Live})
  /\ exec' = [e \in Executors |-> IF exec[e] = "new" THEN "new" ELSE "gone"]
  /\ running' = [e \in Executors |-> {}]
  /\ handle' = 0
  /\ UNCHANGED <<started, sending, queue, executed, newest, online, busy>>

\* The connect loop marks the bot offline; its cancel branch also runs the
\* rest of clear_session_state, the branch of a returned start() does not.
SessionEnd ==
  /\ session = "ending"
  /\ session' = "down"
  /\ online' = FALSE
  /\ busy' \in {busy, FALSE}
  /\ UNCHANGED <<callerVars, queue, executed, execVars>>

-----------------------------------------------------------------------------
(* Executors: run_with_lease. *)

\* Variant: an aborted executor takes the receiver with it.
DropAbortedLosing(e) ==
  /\ exec[e] = "aborted"
  /\ exec' = [exec EXCEPT ![e] = "gone"]
  /\ answer' = Unanswered(running[e])
  /\ running' = [running EXCEPT ![e] = {}]
  /\ UNCHANGED <<started, sending, queue, executed, slot, handle, newest, online, busy, session>>

\* An aborted task is dropped when the LocalSet next polls it.
DropAborted(e) ==
  /\ exec[e] = "aborted"
  /\ exec' = [exec EXCEPT ![e] = "gone"]
  /\ slot' = TRUE
  /\ answer' = Unanswered(running[e])
  /\ running' = [running EXCEPT ![e] = {}]
  /\ UNCHANGED <<started, sending, queue, executed, handle, newest, online, busy, session>>

\* drain_stale answers one leftover command without running it ...
DrainOne(e) ==
  /\ exec[e] = "draining"
  /\ queue # <<>>
  /\ answer' = Reply(Head(queue).call, "drained")
  /\ queue' = Tail(queue)
  /\ UNCHANGED <<started, sending, executed, execVars, online, busy, session>>

\* Variant: the drain may stop before the buffer is empty.
DrainDoneEarly(e) ==
  /\ exec[e] = "draining"
  /\ exec' = [exec EXCEPT ![e] = "ready"]
  /\ UNCHANGED <<callerVars, queue, executed, slot, running, handle, newest, online, busy, session>>

\* ... until try_recv finds the buffer empty.
DrainDone(e) ==
  /\ exec[e] = "draining"
  /\ queue = <<>>
  /\ exec' = [exec EXCEPT ![e] = "ready"]
  /\ UNCHANGED <<callerVars, queue, executed, slot, running, handle, newest, online, busy, session>>

\* Variant: the command is dispatched and stays in the buffer.
ReceivePeeking(e) ==
  /\ exec[e] = "ready"
  /\ queue # <<>>
  /\ exec' = [exec EXCEPT ![e] = "dispatching"]
  /\ running' = [running EXCEPT ![e] = {Head(queue)}]
  /\ executed' = executed \cup {Head(queue).call}
  /\ busy' = TRUE
  /\ UNCHANGED <<callerVars, queue, slot, handle, newest, online, session>>

\* recv yields the oldest command; it is dispatched with the busy flag set.
Receive(e) ==
  /\ exec[e] = "ready"
  /\ queue # <<>>
  /\ exec' = [exec EXCEPT ![e] = "dispatching"]
  /\ running' = [running EXCEPT ![e] = {Head(queue)}]
  /\ executed' = executed \cup {Head(queue).call}
  /\ queue' = Tail(queue)
  /\ busy' = TRUE
  /\ UNCHANGED <<callerVars, slot, handle, newest, online, session>>

\* dispatch returns (Offline when the session ended under it); the reply is
\* lost if the caller has given up.
Finish(e) ==
  /\ exec[e] = "dispatching"
  /\ exec' = [exec EXCEPT ![e] = "ready"]
  /\ running' = [running EXCEPT ![e] = {}]
  /\ answer' = [k \in Call |->
                  IF answer[k] = "none" /\ \E r \in running[e] : r.call = k
                  THEN IF online THEN "done" ELSE "offline"
                  ELSE answer[k]]
  /\ busy' = FALSE
  /\ UNCHANGED <<started, sending, queue, executed, slot, handle, newest, online, session>>

-----------------------------------------------------------------------------
CallerStep(k) == Issue(k) \/ Send(k) \/ TimeoutSending(k) \/ TimeoutWaiting(k)

ExecStep(e) == \/ SpawnBegin(e) \/ SpawnLease(e) \/ SpawnUnserved(e)
               \/ DropAborted(e) \/ DrainOne(e) \/ DrainDone(e)
               \/ Receive(e) \/ Finish(e)

Next == \/ \E k \in Call : CallerStep(k)
        \/ \E e \in Executors : ExecStep(e)
        \/ SessionStart \/ Disconnect \/ SessionDrop \/ SessionEnd

\* Timers fire, and the LocalSet polls its ready tasks.  Nothing makes the
\* Minecraft server deliver an event or a command finish.
Fairness ==
  /\ \A k \in Call : WF_vars(TimeoutSending(k)) /\ WF_vars(TimeoutWaiting(k))
  /\ \A e \in Executors : /\ WF_vars(DropAborted(e))
                          /\ WF_vars(SpawnLease(e) \/ SpawnUnserved(e))
                          /\ WF_vars(DrainOne(e) \/ DrainDone(e))
                          /\ WF_vars(Receive(e))
  /\ WF_vars(SessionEnd)

Spec == Init /\ [][Next]_vars
FairSpec == Spec /\ Fairness

-----------------------------------------------------------------------------
(* Properties *)

TypeOK ==
  /\ started \subseteq Call
  /\ sending \subseteq Call
  /\ answer \in [Call -> Answers]
  /\ queue \in Seq(Request)
  /\ Len(queue) <= Capacity
  /\ executed \subseteq Call
  /\ slot \in BOOLEAN
  /\ exec \in [Executors -> Phases]
  /\ running \in [Executors -> SUBSET Request]
  /\ handle \in 0..MaxSpawns
  /\ newest \in 0..MaxSpawns
  /\ online \in BOOLEAN
  /\ busy \in BOOLEAN
  /\ session \in {"up", "ending", "down"}

\* The receiver is never lost and never in two places: either the slot holds
\* it or exactly one executor's ReceiverLease does (channel.rs, ReceiverLease:
\* a lost receiver would leave every later session without an executor).
ReceiverConserved ==
  /\ slot => Live = {}
  /\ ~slot => \E e \in Live : Live = {e}

\* Commands run strictly one at a time, also while an aborted executor and
\* its successor overlap (channel.rs: commands are processed serially by the
\* task that owns the receiver).
SerialExecution ==
  \A e, f \in Executors : running[e] # {} /\ running[f] # {} => e = f

\* A command that was in the buffer before this executor leased the receiver
\* is never dispatched by it (drain_stale, run_with_lease: no effect of
\* session A leaks into session B).
NoStaleExecution ==
  \A e \in Executors : \A r \in running[e] : r.born = e

\* A call that was told it never ran -- drained, or timed out before it was
\* queued -- has not run, and nothing that is queued or running will run it.
RejectedNeverRuns ==
  \A k \in Call : answer[k] \in {"drained", "unqueued"} =>
    /\ k \notin executed
    /\ \A i \in 1..Len(queue) : queue[i].call # k

\* Every tool call returns within its envelope, also when the buffer is full
\* and no executor exists (send_command_with_timeout: the envelope covers the
\* send leg too).
EveryCallReturns == \A k \in Call : Pending(k) ~> answer[k] # "none"

-----------------------------------------------------------------------------
(* The channel implements CommandService. *)

Queued(k) == \E i \in 1..Len(queue) : queue[i].call = k
Running(k) == \E e \in Executors : \E r \in running[e] : r.call = k

ServicePhase ==
  [k \in Call |-> IF k \notin started THEN "new"
                 ELSE IF k \in sending \/ Queued(k) THEN "open"
                 ELSE IF Running(k) THEN "running" ELSE "over"]

ServiceResult ==
  [k \in Call |-> CASE answer[k] = "none" -> "none"
                   [] answer[k] = "done" -> "done"
                   [] answer[k] \in {"drained", "unqueued"} -> "rejected"
                   [] OTHER -> "unknown"]

Service == INSTANCE CommandService WITH phase <- ServicePhase, result <- ServiceResult

\* Refinement: every step of the channel is a step of the service or leaves
\* its phases and results alone (send_command's contract, F-10 included).
ServiceSpec == Service!Spec
=============================================================================
