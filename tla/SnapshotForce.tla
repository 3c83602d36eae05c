---------------------------- MODULE SnapshotForce ----------------------------
(***************************************************************************)
(* Forced snapshot refreshes: query tools with force=true                  *)
(* (src/src/mcp/tools_query.rs) put a one-shot sender into the single      *)
(* snapshot_force slot of SharedState (src/src/state.rs); handle_tick      *)
(* (src/src/bot/events.rs) takes it into a build task, and the task        *)
(* answers after a successful build.                                       *)
(*                                                                         *)
(* The world is a version number; a snapshot is the version it was built   *)
(* from.                                                                   *)
(***************************************************************************)
EXTENDS Integers, FiniteSets

CONSTANTS Callers,     \* concurrent forced queries, one each
          None,        \* no caller
          MaxVersion,  \* bound: changes of the world
          MaxTasks,    \* bound: build tasks spawned and not run
          MaxFailures  \* bound: builds that fail

ASSUME ForceAssumption ==
  None \notin Callers /\ MaxVersion \in Nat /\ MaxTasks \in Nat \ {0} /\ MaxFailures \in Nat

Requester == Callers \cup {None}

VARIABLES version,  \* of the world
          snapshot, \* version of the stored snapshot
          slot,     \* caller whose sender is in snapshot_force, or None
          tasks,    \* requester of each spawned build task, by task number
          channel,  \* [Callers -> state of its one-shot channel]
          pc,       \* [Callers -> control point of its query]
          asked,    \* [Callers -> version of the world when it asked]
          answer,   \* [Callers -> version of the snapshot it read, or -1]
          due,      \* check_and_update_timer would let a build pass
          failures

vars == <<version, snapshot, slot, tasks, channel, pc, asked, answer, due, failures>>

TaskIds == 1..MaxTasks

Init ==
  /\ version = 0 /\ snapshot = 0
  /\ slot = None
  /\ tasks = [i \in {} |-> None]
  /\ channel = [c \in Callers |-> "none"]
  /\ pc = [c \in Callers |-> "idle"]
  /\ asked = [c \in Callers |-> 0]
  /\ answer = [c \in Callers |-> -1]
  /\ due = TRUE
  /\ failures = 0

\* Dropping a sender closes a channel that was not answered.
Dropping(senders) ==
  [c \in Callers |-> IF c \in senders /\ channel[c] = "open" THEN "closed" ELSE channel[c]]

WithoutTasks(done) == [i \in DOMAIN tasks \ done |-> tasks[i]]

-----------------------------------------------------------------------------

\* The world moves on under the bot.
Change ==
  /\ version < MaxVersion
  /\ version' = version + 1
  /\ UNCHANGED <<snapshot, slot, tasks, channel, pc, asked, answer, due, failures>>

\* request_snapshot_refresh replaces, and so drops, an earlier sender.
Request(c) ==
  /\ pc[c] = "idle"
  /\ pc' = [pc EXCEPT ![c] = "waiting"]
  /\ asked' = [asked EXCEPT ![c] = version]
  /\ slot' = c
  /\ channel' = [Dropping({slot}) EXCEPT ![c] = "open"]
  /\ UNCHANGED <<version, snapshot, tasks, answer, due, failures>>

\* timeout(SNAPSHOT_FORCE_WAIT, rx) ends: answered, closed, or expired.
Wake(c) ==
  /\ pc[c] = "waiting" /\ channel[c] \in {"sent", "closed"}
  /\ pc' = [pc EXCEPT ![c] = "woken"]
  /\ UNCHANGED <<version, snapshot, slot, tasks, channel, asked, answer, due, failures>>

Expire(c) ==
  /\ pc[c] = "waiting"
  /\ pc' = [pc EXCEPT ![c] = "expired"]
  /\ UNCHANGED <<version, snapshot, slot, tasks, channel, asked, answer, due, failures>>

\* Either way the caller reads the current snapshot.
ReadSnapshot(c) ==
  /\ pc[c] \in {"woken", "expired"}
  /\ pc' = [pc EXCEPT ![c] = IF @ = "woken" THEN "done" ELSE "late"]
  /\ answer' = [answer EXCEPT ![c] = snapshot]
  /\ UNCHANGED <<version, snapshot, slot, tasks, channel, asked, due, failures>>

\* Variants: the request is copied rather than taken; it is throttled.
TickPeeking ==
  /\ \E i \in TaskIds \ DOMAIN tasks :
       tasks' = [j \in DOMAIN tasks \cup {i} |-> IF j = i THEN slot ELSE tasks[j]]
  /\ slot # None \/ due
  /\ due' = (due /\ slot # None)
  /\ UNCHANGED <<version, snapshot, slot, channel, pc, asked, answer, failures>>

TickThrottled ==
  /\ \E i \in TaskIds \ DOMAIN tasks :
       tasks' = [j \in DOMAIN tasks \cup {i} |-> IF j = i THEN slot ELSE tasks[j]]
  /\ due
  /\ slot' = None
  /\ due' = FALSE
  /\ UNCHANGED <<version, snapshot, channel, pc, asked, answer, failures>>

\* handle_tick: a taken request bypasses the throttle and leaves it alone.
Tick ==
  /\ \E i \in TaskIds \ DOMAIN tasks :
       tasks' = [j \in DOMAIN tasks \cup {i} |-> IF j = i THEN slot ELSE tasks[j]]
  /\ slot # None \/ due
  /\ slot' = None
  /\ due' = (due /\ slot # None)
  /\ UNCHANGED <<version, snapshot, channel, pc, asked, answer, failures>>

\* The snapshot interval has passed.
Elapse ==
  /\ ~due
  /\ due' = TRUE
  /\ UNCHANGED <<version, snapshot, slot, tasks, channel, pc, asked, answer, failures>>

\* A build task: store, then answer its requester.
BuildSucceeds(i) ==
  /\ i \in DOMAIN tasks
  /\ snapshot' = version
  /\ channel' = [c \in Callers |->
                   IF c = tasks[i] /\ channel[c] = "open" THEN "sent" ELSE channel[c]]
  /\ tasks' = WithoutTasks({i})
  /\ UNCHANGED <<version, slot, pc, asked, answer, due, failures>>

\* Variant: a failed build answers its requester.
BuildFailsAnswering(i) ==
  /\ i \in DOMAIN tasks
  /\ failures < MaxFailures
  /\ failures' = failures + 1
  /\ channel' = [c \in Callers |->
                   IF c = tasks[i] /\ channel[c] = "open" THEN "sent" ELSE channel[c]]
  /\ tasks' = WithoutTasks({i})
  /\ UNCHANGED <<version, snapshot, slot, pc, asked, answer, due>>

\* restore_snapshot_force_requester: the sender goes back into an empty slot.
BuildFails(i) ==
  /\ i \in DOMAIN tasks
  /\ failures < MaxFailures
  /\ failures' = failures + 1
  /\ slot' = IF slot = None THEN tasks[i] ELSE slot
  /\ channel' = IF slot = None THEN channel ELSE Dropping({tasks[i]})
  /\ tasks' = WithoutTasks({i})
  /\ UNCHANGED <<version, snapshot, pc, asked, answer, due>>

\* handle_disconnect: abort_and_clear_tick_tasks drops the tasks' senders.
AbortTasks ==
  /\ tasks # [i \in {} |-> None]
  /\ channel' = Dropping({tasks[i] : i \in DOMAIN tasks})
  /\ tasks' = [i \in {} |-> None]
  /\ UNCHANGED <<version, snapshot, slot, pc, asked, answer, due, failures>>

-----------------------------------------------------------------------------

Query(c) == Wake(c) \/ ReadSnapshot(c)
Build(i) == BuildSucceeds(i) \/ BuildFails(i)

Next ==
  \/ Change \/ Tick \/ Elapse \/ AbortTasks
  \/ \E c \in Callers : Request(c) \/ Query(c) \/ Expire(c)
  \/ \E i \in TaskIds : Build(i)

Spec == Init /\ [][Next]_vars

\* Ticks arrive and tasks run while the bot is online; a woken caller reads.
FairSpec ==
  /\ Spec
  /\ WF_vars(Tick) /\ \A i \in TaskIds : WF_vars(Build(i))
  /\ \A c \in Callers : WF_vars(Query(c))

-----------------------------------------------------------------------------
(* Properties. *)

TypeOK ==
  /\ version \in 0..MaxVersion /\ snapshot \in 0..MaxVersion
  /\ slot \in Requester
  /\ DOMAIN tasks \subseteq TaskIds /\ \A i \in DOMAIN tasks : tasks[i] \in Requester
  /\ channel \in [Callers -> {"none", "open", "sent", "closed"}]
  /\ pc \in [Callers -> {"idle", "waiting", "woken", "expired", "done", "late"}]
  /\ asked \in [Callers -> 0..MaxVersion] /\ answer \in [Callers -> -1..MaxVersion]
  /\ due \in BOOLEAN /\ failures \in 0..MaxFailures

\* A caller whose channel is open has its sender in the slot or in exactly one
\* task: a failed build neither loses nor doubles it.
SenderConserved ==
  \A c \in Callers : channel[c] = "open" =>
    Cardinality({i \in DOMAIN tasks : tasks[i] = c}) + (IF slot = c THEN 1 ELSE 0) = 1

\* An answered caller finds a snapshot no older than its request.
AnsweredFresh ==
  \A c \in Callers : channel[c] = "sent" => snapshot >= asked[c]

\* Every request whose sender is not dropped is answered.
RequestAnswered ==
  \A c \in Callers : (channel[c] = "open") ~> (channel[c] # "open")
=============================================================================
