---------------------------- MODULE SharedSession ----------------------------
(***************************************************************************)
(* What a session keeps in SharedState (src/src/state.rs) for the tools:   *)
(* the handle of the open container and the ring of chat messages, with    *)
(* the container tools (mcp/tools_container.rs), the commands behind them  *)
(* and ExecuteCommand (bot/commands.rs), and the ways a session ends.      *)
(*                                                                         *)
(* Tool calls check the state on threads of their own and queue a command; *)
(* the executor runs commands one at a time and yields to the event        *)
(* handlers while it waits for a container or for chat feedback.  The      *)
(* queue and its timeouts are those of CommandChannel.                     *)
(***************************************************************************)
EXTENDS Integers, Sequences, FiniteSets

CONSTANTS Callers,     \* tasks that call tools, one call at a time
          Containers,  \* containers in the world
          None,        \* no container
          Cap,         \* MAX_CHAT_MESSAGES (50)
          MaxCalls,    \* bound: tool calls
          MaxSessions, \* bound: sessions
          MaxMessages  \* bound: chat messages

ASSUME SessionAssumption ==
  /\ None \notin Containers
  /\ Cap \in Nat \ {0}
  /\ MaxCalls \in Nat /\ MaxSessions \in Nat /\ MaxMessages \in Nat

\* The commands of the calls that are modelled; a put is a take that does not
\* look at the inventory.
Commands == {[kind |-> "open", pos |-> c] : c \in Containers}
              \cup [kind : {"take", "put", "close", "execute"}, pos : {None}]
Job == [caller : Callers, command : Commands]
NoJob == [caller |-> None, command |-> None]

\* A chat message is the server's rejection of a command, or anything else.
Messages == {"rejection", "other"}

VARIABLES
  session,   \* number of the session, 0 before the first
  online,    \* SharedState.bot_online
  skipped,   \* sessions that ended without clear_session_state
  calls,     \* tool calls made
  reply,     \* [Callers -> "idle", "waiting", or the answer to its call]
  queue,     \* queued commands
  job,       \* the command the executor runs, or NoJob
  cursor,    \* chat_cursor of a running ExecuteCommand
  handle,    \* SharedState.container_handle: [pos, session] or None
  menu,      \* the window the server has open for the bot, or None
  requested, \* containers asked for in this session whose window may still open
  ring,      \* SharedState.chat_messages by sequence number
  log        \* every chat message there was (history)

connVars == <<session, online, skipped>>
callVars == <<calls, reply, queue>>
boxVars == <<handle, menu, requested>>
chatVars == <<ring, log>>
vars == <<connVars, callVars, job, cursor, boxVars, chatVars>>

Init ==
  /\ session = 0 /\ online = FALSE /\ skipped = {}
  /\ calls = 0 /\ reply = [c \in Callers |-> "idle"] /\ queue = <<>>
  /\ job = NoJob /\ cursor = 0
  /\ handle = None /\ menu = None /\ requested = {}
  /\ ring = <<>> /\ log = <<>>

NextSeq == Len(log) + 1     \* chat_next_seq
Running(kind) == job # NoJob /\ job.command.kind = kind

-----------------------------------------------------------------------------
(* Tool calls. *)

\* The checks of tools_container.rs, in order; ExecuteCommand has the first.
PreCheck(command) ==
  IF ~online THEN "offline"
  ELSE IF command.kind = "open" /\ handle # None THEN "already_open"
  ELSE IF command.kind \in {"take", "put", "close"} /\ handle = None THEN "not_open"
  ELSE "waiting"

Call(c, command) ==
  /\ reply[c] # "waiting" /\ calls < MaxCalls
  /\ calls' = calls + 1
  /\ reply' = [reply EXCEPT ![c] = PreCheck(command)]
  /\ queue' = IF PreCheck(command) = "waiting"
              THEN Append(queue, [caller |-> c, command |-> command]) ELSE queue
  /\ UNCHANGED <<connVars, job, cursor, boxVars, chatVars>>

-----------------------------------------------------------------------------
(* The executor: a command ends in one step unless it has to wait. *)

Answer(c, what) == reply' = [reply EXCEPT ![c] = what]

\* Variant: the executor trusts the check of the tool.
StartOpenUnchecked ==
  /\ job' = Head(queue)
  /\ requested' = requested \cup {Head(queue).command.pos}
  /\ UNCHANGED <<reply, cursor, handle, menu>>

\* handle_open_container: checked again, then open_container_at.
StartOpen ==
  IF handle # None
  THEN Answer(Head(queue).caller, "already_open") /\ UNCHANGED <<job, cursor, boxVars>>
  ELSE /\ job' = Head(queue)
       /\ requested' = requested \cup {Head(queue).command.pos}
       /\ UNCHANGED <<reply, cursor, handle, menu>>

\* handle_take_from_container; a take may find the inventory full.
StartClick ==
  /\ \E full \in BOOLEAN :
       Answer(Head(queue).caller,
              IF handle = None THEN "not_open"
              ELSE IF full /\ Head(queue).command.kind = "take" THEN "full" ELSE "clicked")
  /\ UNCHANGED <<job, cursor, boxVars>>

\* handle_close_container: dropping the handle closes its window.
StartClose ==
  /\ handle' = None
  /\ menu' = IF handle # None /\ handle.session = session /\ handle.pos = menu
             THEN None ELSE menu
  /\ Answer(Head(queue).caller, "closed")
  /\ UNCHANGED <<job, cursor, requested>>

\* handle_execute_command takes the cursor, then sends the command.
StartExecute ==
  /\ job' = Head(queue)
  /\ cursor' = NextSeq
  /\ UNCHANGED <<reply, boxVars>>

Dispatch ==
  /\ online /\ job = NoJob /\ queue # <<>>
  /\ queue' = Tail(queue)
  /\ CASE Head(queue).command.kind = "open" -> StartOpen
       [] Head(queue).command.kind \in {"take", "put"} -> StartClick
       [] Head(queue).command.kind = "close" -> StartClose
       [] Head(queue).command.kind = "execute" -> StartExecute
  /\ UNCHANGED <<connVars, calls, chatVars>>

Finish(what) == job' = NoJob /\ Answer(job.caller, what)

\* The window of the container the executor waits for opens.
Opened(p) ==
  /\ p \in requested /\ menu = None
  /\ menu' = p
  /\ requested' = requested \ {p}
  /\ IF Running("open") /\ job.command.pos = p
     THEN handle' = [pos |-> p, session |-> session] /\ Finish("opened")
     ELSE UNCHANGED <<handle, job, reply>>
  /\ UNCHANGED <<connVars, calls, queue, cursor, chatVars>>

\* open_container_at gives up after 5 s; the window may still open later.
OpenTimesOut ==
  /\ Running("open")
  /\ Finish("timeout")
  /\ UNCHANGED <<connVars, calls, queue, cursor, boxVars, chatVars>>

\* The server closes the window.
MenuCloses ==
  /\ menu # None
  /\ menu' = None
  /\ UNCHANGED <<connVars, callVars, job, cursor, handle, requested, chatVars>>

\* Variant: an index into the ring, kept as a length, instead of the cursor.
ArrivedByLength(from) ==
  LET first == IF Len(log) < Cap THEN 1 ELSE Len(log) - Cap + 1
      length == IF from - 1 < Cap THEN from - 1 ELSE Cap
  IN {i \in DOMAIN ring : i - first >= length}

\* chat_messages_since
Arrived(from) == {i \in DOMAIN ring : i >= from}

\* The feedback window of 400 ms ends.
Feedback ==
  /\ Running("execute")
  /\ Finish(IF \E i \in Arrived(cursor) : ring[i] = "rejection" THEN "rejected" ELSE "executed")
  /\ UNCHANGED <<connVars, calls, queue, cursor, boxVars, chatVars>>

-----------------------------------------------------------------------------
(* Chat. *)

\* Variant: the ring keeps a message too many.
KeptOneMore(i) == i > Len(log) - Cap

\* pop_front while the ring is over its cap: the messages kept of a push.
Kept(i) == i > Len(log) + 1 - Cap

\* add_chat_message
Chat(m) ==
  /\ online /\ Len(log) < MaxMessages
  /\ log' = Append(log, m)
  /\ ring' = [i \in {j \in DOMAIN ring \cup {NextSeq} : Kept(j)} |->
                IF i = NextSeq THEN m ELSE ring[i]]
  /\ UNCHANGED <<connVars, callVars, job, cursor, boxVars>>

-----------------------------------------------------------------------------
(* The session. *)

\* Event::Spawn: the executor drains what an earlier session left queued.
Connect ==
  /\ ~online /\ session < MaxSessions
  /\ session' = session + 1
  /\ online' = TRUE
  /\ queue' = <<>>
  /\ reply' = [c \in Callers |-> IF reply[c] = "waiting" THEN "offline" ELSE reply[c]]
  /\ UNCHANGED <<skipped, calls, job, cursor, boxVars, chatVars>>

\* The executor is aborted: the caller it was working for is told Offline.
Abort ==
  /\ job' = NoJob
  /\ reply' = IF job = NoJob THEN reply ELSE [reply EXCEPT ![job.caller] = "offline"]

\* Variant: clear_session_state before it knew the container.
EndClearedKeeping ==
  /\ online /\ online' = FALSE
  /\ Abort
  /\ menu' = None /\ requested' = {}
  /\ UNCHANGED <<session, skipped, calls, queue, cursor, handle, chatVars>>

\* Event::Disconnect, or the cancel branch of the connect loop.
EndCleared ==
  /\ online /\ online' = FALSE
  /\ Abort
  /\ handle' = None
  /\ menu' = None /\ requested' = {}
  /\ UNCHANGED <<session, skipped, calls, queue, cursor, chatVars>>

\* start() returns on AppExit without Event::Disconnect: the loop resets the
\* online flag alone.
EndByExit ==
  /\ online /\ online' = FALSE
  /\ Abort
  /\ skipped' = skipped \cup {session}
  /\ menu' = None /\ requested' = {}
  /\ UNCHANGED <<session, calls, queue, cursor, handle, chatVars>>

Next ==
  \/ \E c \in Callers, command \in Commands : Call(c, command)
  \/ Dispatch \/ OpenTimesOut \/ MenuCloses \/ Feedback
  \/ \E p \in Containers : Opened(p)
  \/ \E m \in Messages : Chat(m)
  \/ Connect \/ EndCleared \/ EndByExit

Spec == Init /\ [][Next]_vars

-----------------------------------------------------------------------------
(* Properties. *)

TypeOK ==
  /\ session \in 0..MaxSessions /\ online \in BOOLEAN /\ skipped \subseteq 1..MaxSessions
  /\ calls \in 0..MaxCalls
  /\ reply \in [Callers -> {"idle", "waiting", "offline", "already_open", "not_open", "full",
                            "clicked", "closed", "opened", "timeout", "rejected", "executed"}]
  /\ queue \in Seq(Job)
  /\ job \in Job \cup {NoJob}
  /\ cursor \in 0..(MaxMessages + 1)
  /\ handle \in [pos : Containers, session : 1..MaxSessions] \cup {None}
  /\ menu \in Containers \cup {None} /\ requested \subseteq Containers
  /\ log \in Seq(Messages) /\ Len(log) <= MaxMessages
  /\ DOMAIN ring \subseteq 1..Len(log) /\ Cardinality(DOMAIN ring) <= Cap

\* The ring holds exactly the newest Cap messages under the sequence numbers
\* they were given.
RingIsTail ==
  /\ DOMAIN ring = {i \in 1..Len(log) : i > Len(log) - Cap}
  /\ \A i \in DOMAIN ring : ring[i] = log[i]

\* Two calls that both found no container open do not replace one handle by
\* another: what the refinement below says of opening, on its own.
HandleNotReplaced == [][handle # None /\ handle' # None => handle' = handle]_handle

\* A handle belongs to the session that runs, unless every session since its
\* own ended without clear_session_state.
HandleOfSession ==
  handle # None => \A s \in handle.session..session : s \in skipped \/ (s = session /\ online)

\* A rejection that came in while the command waited and is among the newest
\* Cap messages is reported, and nothing else is.
RejectionReported ==
  [][Running("execute") /\ job' = NoJob /\ online' =>
       (reply'[job.caller] = "rejected" <=>
          \E i \in cursor..Len(log) : i > Len(log) - Cap /\ log[i] = "rejection")]_vars

Service == INSTANCE ContainerService WITH box <- handle

\* Refinement: with its queue, two checks, late windows and aborts the container
\* handle is one box, and every answer is true of it when it is given.
ServiceSpec == Service!Spec
=============================================================================
