------------------------ MODULE CommandChannelProofs ------------------------
(***************************************************************************)
(* Theorems of CommandChannel for every set of callers, buffer size and    *)
(* bound: its invariants, then that it implements CommandService.          *)
(***************************************************************************)
EXTENDS CommandChannel, TLAPS

\* The initial state has its types.
LEMMA TypeInit == Init => TypeOK
<1> SUFFICES ASSUME Init PROVE TypeOK
  OBVIOUS
<1>1. queue \in Seq(Request) /\ Len(queue) <= Capacity
  BY ChannelAssumption DEF Init
<1>2. exec \in [Executors -> Phases]
  BY DEF Init, Phases
<1>3. answer \in [Call -> Answers]
  BY DEF Init, Answers
<1>4. running \in [Executors -> SUBSET Request]
  BY DEF Init
<1>5. handle \in 0..MaxSpawns /\ newest \in 0..MaxSpawns
  BY ChannelAssumption DEF Init
<1>6. slot \in BOOLEAN /\ online \in BOOLEAN /\ busy \in BOOLEAN
  BY DEF Init
<1>7. started \subseteq Call /\ sending \subseteq Call /\ executed \subseteq Call
      /\ session \in {"up", "ending", "down"}
  BY DEF Init
<1> QED BY <1>1, <1>2, <1>3, <1>4, <1>5, <1>6, <1>7 DEF TypeOK

\* Every step keeps the types.
LEMMA TypeStep == TypeOK /\ [Next]_vars => TypeOK'
<1> SUFFICES ASSUME TypeOK, [Next]_vars PROVE TypeOK'
  OBVIOUS
<1> USE ChannelAssumption DEF TypeOK, Executors, Answers, Phases, Holding,
        callerVars, execVars
<1>1. ASSUME NEW k \in Call, CallerStep(k) PROVE TypeOK'
  <2>1. CASE Issue(k) BY <2>1 DEF Issue
  <2>2. CASE Send(k)
    <3>1. [call |-> k, born |-> newest] \in Request
      BY DEF Request
    <3>2. queue' \in Seq(Request) /\ Len(queue') = Len(queue) + 1
      BY <2>2, <3>1 DEF Send
    <3> QED BY <2>2, <3>2 DEF Send
  <2>3. CASE TimeoutSending(k) BY <2>3 DEF TimeoutSending
  <2>4. CASE TimeoutWaiting(k) BY <2>4 DEF TimeoutWaiting
  <2> QED BY <1>1, <2>1, <2>2, <2>3, <2>4 DEF CallerStep
<1>2. ASSUME NEW e \in Executors, ExecStep(e) PROVE TypeOK'
  <2>1. CASE SpawnBegin(e)
    <3>1. Abort(handle) \in [Executors -> Phases]
      BY DEF Abort
    <3>2. exec' \in [Executors -> Phases]
      BY <2>1, <3>1 DEF SpawnBegin
    <3> QED BY <2>1, <3>2 DEF SpawnBegin
  <2>2. CASE SpawnLease(e)
    <3>1. exec' \in [Executors -> Phases]
      BY <2>2 DEF SpawnLease
    <3>2. handle' \in 0..MaxSpawns /\ newest' \in 0..MaxSpawns
      BY <2>2 DEF SpawnLease
    <3>3. slot' \in BOOLEAN /\ online' \in BOOLEAN
      BY <2>2 DEF SpawnLease
    <3> QED BY <2>2, <3>1, <3>2, <3>3 DEF SpawnLease
  <2>3. CASE SpawnUnserved(e) BY <2>3 DEF SpawnUnserved
  <2>4. CASE DropAborted(e) BY <2>4 DEF DropAborted, Unanswered
  <2>5. CASE DrainOne(e)
    <3>1. Tail(queue) \in Seq(Request) /\ Len(Tail(queue)) = Len(queue) - 1
      BY <2>5 DEF DrainOne
    <3>2. answer' \in [Call -> Answers]
      BY <2>5 DEF DrainOne, Reply
    <3> QED BY <2>5, <3>1, <3>2 DEF DrainOne
  <2>6. CASE DrainDone(e) BY <2>6 DEF DrainDone
  <2>7. CASE Receive(e)
    <3>1. Tail(queue) \in Seq(Request) /\ Len(Tail(queue)) = Len(queue) - 1
      BY <2>7 DEF Receive
    <3>2. Head(queue) \in Request
      BY <2>7 DEF Receive
    <3>3. Head(queue).call \in Call
      BY <3>2 DEF Request
    <3>4. executed' \subseteq Call
      BY <2>7, <3>3 DEF Receive
    <3>5. exec' \in [Executors -> Phases]
      BY <2>7 DEF Receive
    <3>6. running' \in [Executors -> SUBSET Request]
      BY <2>7, <3>2 DEF Receive
    <3> QED BY <2>7, <3>1, <3>4, <3>5, <3>6 DEF Receive
  <2>8. CASE Finish(e) BY <2>8 DEF Finish
  <2> QED BY <1>2, <2>1, <2>2, <2>3, <2>4, <2>5, <2>6, <2>7, <2>8 DEF ExecStep
<1>3. CASE SessionStart BY <1>3 DEF SessionStart
<1>4. CASE Disconnect
  <2>1. Abort(handle) \in [Executors -> Phases]
    BY DEF Abort
  <2>2. exec' \in [Executors -> Phases]
    BY <1>4, <2>1 DEF Disconnect
  <2>3. online' = FALSE /\ busy' = FALSE /\ handle' = 0
        /\ UNCHANGED <<callerVars, queue, executed, slot, running, newest, session>>
    BY <1>4 DEF Disconnect
  <2>4. handle' \in 0..MaxSpawns
    BY <2>3
  <2>5. online' \in BOOLEAN /\ busy' \in BOOLEAN
    BY <2>3
  <2> QED BY <2>2, <2>3, <2>4, <2>5
<1>5. CASE SessionDrop BY <1>5 DEF SessionDrop, Unanswered, Live
<1>6. CASE SessionEnd BY <1>6 DEF SessionEnd
<1>7. CASE UNCHANGED vars BY <1>7 DEF vars
<1> QED BY <1>1, <1>2, <1>3, <1>4, <1>5, <1>6, <1>7 DEF Next

\* The state has its types, the buffer never exceeds its capacity, and only
\* tool calls that were made are blocked, queued or answered.
THEOREM TypeCorrect == Spec => []TypeOK
BY TypeInit, TypeStep, PTL DEF Spec

-----------------------------------------------------------------------------
(***************************************************************************)
(* Why the receiver is conserved.  The lease is only taken out of a full   *)
(* slot and comes back when its task is dropped, so there is one holder or *)
(* none; only the executor whose JoinHandle is stored can be aborted, and  *)
(* it is a holder; the holder is the executor of the newest lease.  Once   *)
(* its drain has seen the buffer empty, every command in the buffer was    *)
(* queued under that lease, which gives NoStaleExecution.                  *)
(***************************************************************************)
HolderIsNewest == \A e \in Live : newest = e

HandleHolds == handle # 0 => exec[handle] \in Holding \ {"aborted"}

Drained == \A e \in Executors : exec[e] \in {"ready", "dispatching"} =>
             \A i \in 1..Len(queue) : queue[i].born = e

RunningHolds == \A e \in Executors : running[e] # {} => exec[e] \in {"dispatching", "aborted"}

LeaseInv == /\ TypeOK
            /\ ReceiverConserved
            /\ HolderIsNewest
            /\ HandleHolds
            /\ Drained
            /\ RunningHolds
            /\ NoStaleExecution

\* The receiver is conserved and no stale command is dispatched, together
\* with what makes the two inductive.
LEMMA LeaseInvInductive == LeaseInv /\ TypeOK' /\ [Next]_vars => LeaseInv'
<1> SUFFICES ASSUME LeaseInv, TypeOK', [Next]_vars PROVE LeaseInv'
  OBVIOUS
<1> USE DEF LeaseInv
<1>1. ASSUME NEW k \in Call, CallerStep(k) PROVE LeaseInv'
  <2>1. UNCHANGED <<execVars>>
    BY <1>1 DEF CallerStep, Issue, Send, TimeoutSending, TimeoutWaiting
  <2>2. ReceiverConserved' /\ HolderIsNewest' /\ HandleHolds' /\ RunningHolds'
        /\ NoStaleExecution'
    BY <2>1 DEF ReceiverConserved, HolderIsNewest, HandleHolds, RunningHolds,
                NoStaleExecution, execVars, Live
  <2>3. Drained'
    <3>1. CASE Send(k)
      <4>1. ASSUME NEW e \in Executors, exec[e] \in {"ready", "dispatching"}
            PROVE newest = e
        BY <4>1 DEF HolderIsNewest, Live, Holding
      <4>2. ASSUME NEW i \in 1..Len(queue') PROVE
              IF i <= Len(queue) THEN queue'[i] = queue[i]
                                 ELSE queue'[i] = [call |-> k, born |-> newest]
        BY <3>1, <4>2 DEF Send, TypeOK
      <4>3. Len(queue) \in Nat
        BY DEF TypeOK
      <4> QED BY <2>1, <4>1, <4>2, <4>3 DEF Drained, execVars
    <3>2. CASE UNCHANGED queue
      BY <2>1, <3>2 DEF Drained, execVars
    <3> QED BY <1>1, <3>1, <3>2 DEF CallerStep, Issue, TimeoutSending, TimeoutWaiting
  <2> QED BY <2>2, <2>3
<1>2. ASSUME NEW e \in Executors, ExecStep(e) PROVE LeaseInv'
  <2> USE DEF Holding
  <2>1. CASE SpawnBegin(e)
    <3>1. exec \in [Executors -> Phases] /\ e \notin Live /\ handle # e
      BY <2>1 DEF SpawnBegin, TypeOK, Live, HandleHolds
    <3>2. \A f \in Executors : exec'[f] = IF f = e THEN "leasing"
                                       ELSE IF f = handle THEN "aborted" ELSE exec[f]
      BY <2>1, <3>1, ChannelAssumption DEF SpawnBegin, Abort, Phases, Executors
    <3>3. Live' = Live
      BY <2>1, <3>1, <3>2 DEF Live, HandleHolds, SpawnBegin
    <3>4. RunningHolds'
      BY <2>1, <3>1, <3>2 DEF RunningHolds, SpawnBegin
    <3>5. Drained'
      BY <2>1, <3>1, <3>2 DEF Drained, SpawnBegin
    <3> QED BY <2>1, <3>3, <3>4, <3>5 DEF SpawnBegin, ReceiverConserved,
               HolderIsNewest, HandleHolds, NoStaleExecution
  <2>2. CASE SpawnLease(e)
    <3>1. Live = {} /\ \A f \in Executors : running[f] = {}
      BY <2>2 DEF SpawnLease, ReceiverConserved, RunningHolds, Live
    <3>2. \A f \in Executors : exec'[f] = IF f = e THEN "draining" ELSE exec[f]
      BY <2>2 DEF SpawnLease, TypeOK
    <3>3. Live' = {e}
      BY <3>1, <3>2 DEF Live
    <3>4. Drained'
      BY <3>1, <3>2 DEF Drained, Live
    <3> QED BY <2>2, <3>1, <3>2, <3>3, <3>4 DEF SpawnLease, ReceiverConserved,
               HolderIsNewest, HandleHolds, NoStaleExecution, RunningHolds
  <2>3. CASE SpawnUnserved(e)
    <3>1. \A f \in Executors : exec'[f] = IF f = e THEN "unserved" ELSE exec[f]
      BY <2>3 DEF SpawnUnserved, TypeOK
    <3>2. Live' = Live
      BY <2>3, <3>1 DEF SpawnUnserved, Live
    <3> QED BY <2>3, <3>1, <3>2, ChannelAssumption DEF SpawnUnserved, ReceiverConserved,
               HolderIsNewest, HandleHolds, Drained, NoStaleExecution, RunningHolds
  <2>4. CASE DropAborted(e)
    <3>1. Live = {e} /\ handle = 0
      <4>1. e \in Live
        BY <2>4 DEF DropAborted, Live
      <4>2. Live = {e}
        BY <4>1 DEF ReceiverConserved
      <4>3. handle # 0 => handle \in Live
        BY ChannelAssumption DEF HandleHolds, Live, TypeOK, Executors
      <4> QED BY <2>4, <4>2, <4>3 DEF DropAborted, HandleHolds
    <3>2. \A f \in Executors : exec'[f] = IF f = e THEN "gone" ELSE exec[f]
      BY <2>4 DEF DropAborted, TypeOK
    <3>3. Live' = {}
      BY <3>1, <3>2 DEF Live
    <3>4. \A f \in Executors : running'[f] = IF f = e THEN {} ELSE running[f]
      BY <2>4 DEF DropAborted, TypeOK
    <3> QED BY <2>4, <3>1, <3>2, <3>3, <3>4 DEF DropAborted, ReceiverConserved, Live,
               HolderIsNewest, HandleHolds, Drained, NoStaleExecution, RunningHolds
  <2>5. CASE DrainOne(e)
    <3>1. Live = {e}
      BY <2>5 DEF DrainOne, Live, ReceiverConserved
    <3>2. Drained'
      BY <2>5, <3>1 DEF DrainOne, Drained, Live, execVars
    <3> QED BY <2>5, <3>2 DEF DrainOne, execVars, ReceiverConserved, Live,
               HolderIsNewest, HandleHolds, NoStaleExecution, RunningHolds
  <2>6. CASE DrainDone(e)
    <3>1. \A f \in Executors : exec'[f] = IF f = e THEN "ready" ELSE exec[f]
      BY <2>6 DEF DrainDone, TypeOK
    <3>2. Live' = Live
      BY <2>6, <3>1 DEF DrainDone, Live
    <3>3. Len(queue') = 0
      BY <2>6 DEF DrainDone
    <3>4. Drained'
      BY <3>3 DEF Drained
    <3> QED BY <2>6, <3>1, <3>2, <3>4 DEF DrainDone, ReceiverConserved,
               HolderIsNewest, HandleHolds, NoStaleExecution, RunningHolds
  <2>7. CASE Receive(e)
    <3>1. \A f \in Executors : exec'[f] = IF f = e THEN "dispatching" ELSE exec[f]
      BY <2>7 DEF Receive, TypeOK
    <3>2. Live' = Live
      BY <2>7, <3>1 DEF Receive, Live
    <3>3. \A f \in Executors : running'[f] = IF f = e THEN {Head(queue)} ELSE running[f]
      BY <2>7 DEF Receive, TypeOK
    <3>4. Head(queue).born = e
      <4>1. 1 \in 1..Len(queue) /\ Head(queue) = queue[1]
        BY <2>7 DEF Receive, TypeOK
      <4> QED BY <2>7, <4>1 DEF Receive, Drained
    <3>5. Drained'
      <4>1. \A i \in 1..Len(queue') : i + 1 \in 1..Len(queue) /\ queue'[i] = queue[i + 1]
        BY <2>7 DEF Receive, TypeOK
      <4>2. \A i \in 1..Len(queue') : queue'[i].born = e
        BY <2>7, <4>1 DEF Receive, Drained
      <4>3. ASSUME NEW f \in Executors, exec'[f] \in {"ready", "dispatching"} PROVE f = e
        <5>1. e \in Live /\ f \in Live
          BY <2>7, <3>1, <4>3 DEF Receive, Live
        <5> QED BY <5>1 DEF ReceiverConserved
      <4> QED BY <4>2, <4>3 DEF Drained
    <3>6. NoStaleExecution'
      BY <3>3, <3>4 DEF NoStaleExecution
    <3>7. RunningHolds'
      BY <3>1, <3>3 DEF RunningHolds
    <3> QED BY <2>7, <3>1, <3>2, <3>5, <3>6, <3>7 DEF Receive, ReceiverConserved,
               HolderIsNewest, HandleHolds
  <2>8. CASE Finish(e)
    <3>1. \A f \in Executors : exec'[f] = IF f = e THEN "ready" ELSE exec[f]
      BY <2>8 DEF Finish, TypeOK
    <3>2. Live' = Live
      BY <2>8, <3>1 DEF Finish, Live
    <3>3. \A f \in Executors : running'[f] = IF f = e THEN {} ELSE running[f]
      BY <2>8 DEF Finish, TypeOK
    <3> QED BY <2>8, <3>1, <3>2, <3>3 DEF Finish, ReceiverConserved, Drained,
               HolderIsNewest, HandleHolds, NoStaleExecution, RunningHolds
  <2> QED BY <1>2, <2>1, <2>2, <2>3, <2>4, <2>5, <2>6, <2>7, <2>8 DEF ExecStep
<1>3. CASE SessionStart
  BY <1>3 DEF SessionStart, execVars, ReceiverConserved, HolderIsNewest, HandleHolds,
              Drained, RunningHolds, NoStaleExecution, Live
<1>4. CASE Disconnect
  <2>1. \A f \in Executors : exec'[f] = IF f = handle THEN "aborted" ELSE exec[f]
    BY <1>4, ChannelAssumption DEF Disconnect, Abort, TypeOK, Executors
  <2>2. Live' = Live
    BY <2>1 DEF Live, HandleHolds, Holding, TypeOK, Executors
  <2>3. RunningHolds' /\ Drained'
    BY <1>4, <2>1 DEF Disconnect, RunningHolds, Drained
  <2> QED BY <1>4, <2>2, <2>3 DEF Disconnect, ReceiverConserved, HolderIsNewest,
             HandleHolds, NoStaleExecution
<1>5. CASE SessionDrop
  <2>1. Live' = {} /\ slot' /\ handle' = 0 /\ running' = [e \in Executors |-> {}]
    BY <1>5 DEF SessionDrop, Live, Holding, ReceiverConserved
  <2>2. \A e \in Executors : exec'[e] \notin Holding
    BY <2>1 DEF Live
  <2> QED BY <2>1, <2>2 DEF ReceiverConserved, HolderIsNewest, HandleHolds,
              Drained, RunningHolds, NoStaleExecution, Holding
<1>6. CASE SessionEnd
  BY <1>6 DEF SessionEnd, execVars, ReceiverConserved, HolderIsNewest, HandleHolds,
              Drained, RunningHolds, NoStaleExecution, Live
<1>7. CASE UNCHANGED vars
  BY <1>7 DEF vars, ReceiverConserved, HolderIsNewest, HandleHolds,
              Drained, RunningHolds, NoStaleExecution, Live
<1> QED BY <1>1, <1>2, <1>3, <1>4, <1>5, <1>6, <1>7 DEF Next

\* The lease invariant holds of every reachable state.
LEMMA LeaseInvariant == Spec => []LeaseInv
<1>1. Init => LeaseInv
  <2> SUFFICES ASSUME Init PROVE LeaseInv
    OBVIOUS
  <2>1. TypeOK
    BY TypeInit
  <2>2. Live = {} /\ \A e \in Executors : running[e] = {}
    BY DEF Init, Live, Holding
  <2> QED BY <2>1, <2>2 DEF Init, LeaseInv, ReceiverConserved, HolderIsNewest,
             HandleHolds, Drained, RunningHolds, NoStaleExecution
<1>2. LeaseInv /\ [Next]_vars => LeaseInv'
  BY TypeStep, LeaseInvInductive DEF LeaseInv
<1> QED BY <1>1, <1>2, PTL DEF Spec

\* The receiver is in the slot or in exactly one lease, forever, whatever
\* sequence of spawns, aborts, disconnects and session ends the server makes
\* (ReceiverLease in channel.rs, handle_spawn and handle_disconnect in events.rs).
THEOREM ReceiverAlwaysConserved == Spec => []ReceiverConserved
BY LeaseInvariant, PTL DEF LeaseInv

\* No executor ever dispatches a command that was buffered before its lease
\* (drain_stale and run_with_lease).
THEOREM NeverStaleExecution == Spec => []NoStaleExecution
BY LeaseInvariant, PTL DEF LeaseInv

\* At most one command is inside dispatch at any time, aborted and not yet
\* dropped tasks included.
THEOREM AlwaysSerial == Spec => []SerialExecution
<1>1. LeaseInv => SerialExecution
  <2> SUFFICES ASSUME LeaseInv, NEW e \in Executors, NEW f \in Executors,
                      running[e] # {}, running[f] # {}
               PROVE e = f
    BY DEF SerialExecution
  <2>1. e \in Live /\ f \in Live
    BY DEF LeaseInv, RunningHolds, Live, Holding
  <2> QED BY <2>1 DEF LeaseInv, ReceiverConserved
<1> QED BY <1>1, LeaseInvariant, PTL

-----------------------------------------------------------------------------
(***************************************************************************)
(* Why "it did not run" is true.  A call has one place: it waits to be     *)
(* sent, or is queued once, or was handed to dispatch.  A rejection takes  *)
(* it out of the first or the second place and puts it nowhere.            *)
(***************************************************************************)
StartedInv ==
  /\ sending \cup executed \subseteq started
  /\ \A k \in Call : answer[k] # "none" => k \in started
  /\ \A k \in sending : answer[k] = "none" /\ k \notin executed

QueueInv ==
  /\ \A i \in 1..Len(queue) :
       queue[i].call \in started /\ queue[i].call \notin sending \cup executed
  /\ \A i, j \in 1..Len(queue) : queue[i].call = queue[j].call => i = j

RunningInv == \A e \in Executors : \A r \in running[e] : r.call \in executed

PlaceInv == StartedInv /\ QueueInv /\ RunningInv /\ RejectedNeverRuns

\* Taking the oldest command out of the buffer leaves the others in order.
LEMMA TailOfQueue ==
  ASSUME TypeOK, queue # <<>>, queue' = Tail(queue)
  PROVE  /\ 1 \in 1..Len(queue) /\ Head(queue) = queue[1] /\ queue[1].call \in Call
         /\ \A i \in 1..Len(queue') :
              i + 1 \in 1..Len(queue) /\ queue'[i] = queue[i + 1] /\ i + 1 # 1
<1>1. queue \in Seq(Request)
  BY DEF TypeOK
<1>2. 1 \in 1..Len(queue) /\ Head(queue) = queue[1]
  BY <1>1
<1>3. queue[1] \in Request
  BY <1>1, <1>2
<1>4. queue[1].call \in Call
  BY <1>3 DEF Request
<1>5. \A i \in 1..Len(queue') :
        i + 1 \in 1..Len(queue) /\ queue'[i] = queue[i + 1] /\ i + 1 # 1
  BY <1>1
<1> QED BY <1>2, <1>4, <1>5

\* No step puts a call in two places, or a rejected one in any.
LEMMA PlaceStep == ASSUME TypeOK, PlaceInv, [Next]_vars PROVE PlaceInv'
<1> USE DEF PlaceInv
\* Steps that at most tell a caller something other than a rejection.
<1>1. ASSUME UNCHANGED <<started, sending, queue, executed>>,
             \A e \in Executors : running'[e] \subseteq running[e],
             \A k \in Call : \/ answer'[k] = answer[k]
                             \/ answer'[k] \notin {"drained", "unqueued"}
                                /\ answer[k] = "none" /\ k \in started /\ k \notin sending
      PROVE  PlaceInv'
  <2>1. StartedInv'
    BY <1>1 DEF StartedInv, TypeOK
  <2>2. QueueInv'
    BY <1>1 DEF QueueInv
  <2>3. RunningInv'
    BY <1>1 DEF RunningInv
  <2>4. RejectedNeverRuns'
    BY <1>1 DEF RejectedNeverRuns
  <2> QED BY <2>1, <2>2, <2>3, <2>4
<1>2. ASSUME NEW k \in Call, CallerStep(k) PROVE PlaceInv'
  <2>1. CASE Issue(k)
    <3>1. StartedInv'
      BY <2>1 DEF Issue, StartedInv, TypeOK
    <3>2. QueueInv'
      BY <2>1 DEF Issue, QueueInv
    <3>3. RunningInv' /\ RejectedNeverRuns'
      BY <2>1 DEF Issue, execVars, RunningInv, RejectedNeverRuns
    <3> QED BY <3>1, <3>2, <3>3
  <2>2. CASE Send(k)
    <3>1. Len(queue) \in Nat /\ Len(queue') = Len(queue) + 1
      BY <2>2 DEF Send, TypeOK
    <3>2. \A i \in 1..Len(queue') :
            IF i <= Len(queue) THEN i \in 1..Len(queue) /\ queue'[i] = queue[i]
                               ELSE i = Len(queue) + 1 /\ queue'[i].call = k
      BY <2>2, <3>1 DEF Send, TypeOK
    <3>3. k \in sending /\ sending' = sending \ {k}
          /\ UNCHANGED <<started, answer, executed, running>>
      BY <2>2 DEF Send, execVars
    <3>4. StartedInv'
      BY <3>3 DEF StartedInv
    <3>5. k \in started /\ k \notin executed /\ answer[k] = "none"
          /\ \A i \in 1..Len(queue) : queue[i].call # k
      BY <3>3 DEF StartedInv, QueueInv
    <3>6. QueueInv'
      BY <3>1, <3>2, <3>3, <3>5 DEF QueueInv
    <3>7. RunningInv' /\ RejectedNeverRuns'
      BY <3>2, <3>3, <3>5 DEF RunningInv, RejectedNeverRuns
    <3> QED BY <3>4, <3>6, <3>7
  <2>3. CASE TimeoutSending(k)
    <3>1. k \in sending /\ sending' = sending \ {k}
          /\ UNCHANGED <<started, queue, executed, running>>
      BY <2>3 DEF TimeoutSending, execVars
    <3>2. \A c \in Call : answer'[c] = IF c = k THEN "unqueued" ELSE answer[c]
      BY <2>3 DEF TimeoutSending, TypeOK
    <3>3. StartedInv'
      BY <3>1, <3>2 DEF StartedInv, TypeOK
    <3>4. QueueInv' /\ RunningInv'
      BY <3>1 DEF QueueInv, RunningInv
    <3>5. k \notin executed /\ \A i \in 1..Len(queue) : queue[i].call # k
      BY <3>1 DEF StartedInv, QueueInv
    <3>6. RejectedNeverRuns'
      BY <3>1, <3>2, <3>5 DEF RejectedNeverRuns
    <3> QED BY <3>3, <3>4, <3>6
  <2>4. CASE TimeoutWaiting(k)
    BY <2>4, <1>1 DEF TimeoutWaiting, Pending, TypeOK, execVars
  <2> QED BY <1>2, <2>1, <2>2, <2>3, <2>4 DEF CallerStep
<1>3. ASSUME NEW e \in Executors, ExecStep(e) PROVE PlaceInv'
  <2>1. CASE DrainOne(e)
    <3>1. queue # <<>> /\ queue' = Tail(queue)
          /\ UNCHANGED <<started, sending, executed, running>>
      BY <2>1 DEF DrainOne, execVars
    <3>2. \A k \in Call : answer'[k] = IF k = queue[1].call /\ answer[k] = "none"
                                       THEN "drained" ELSE answer[k]
      BY <2>1, <3>1, TailOfQueue DEF DrainOne, Reply, TypeOK
    <3>3. queue[1].call \in started /\ queue[1].call \notin sending \cup executed
      BY <3>1, TailOfQueue DEF QueueInv
    <3>4. StartedInv'
      BY <3>1, <3>2, <3>3 DEF StartedInv, TypeOK
    <3>5. QueueInv' /\ \A i \in 1..Len(queue') : queue'[i].call # queue[1].call
      BY <3>1, TailOfQueue DEF QueueInv
    <3>6. RejectedNeverRuns'
      BY <3>1, <3>2, <3>3, <3>5, TailOfQueue DEF RejectedNeverRuns
    <3>7. RunningInv'
      BY <3>1 DEF RunningInv
    <3> QED BY <3>4, <3>5, <3>6, <3>7
  <2>2. CASE Receive(e)
    <3>1. queue # <<>> /\ queue' = Tail(queue) /\ UNCHANGED <<started, sending, answer>>
          /\ executed' = executed \cup {queue[1].call}
      BY <2>2, TailOfQueue DEF Receive, callerVars
    <3>2. queue[1].call \in started /\ queue[1].call \notin sending
      BY <3>1, TailOfQueue DEF QueueInv
    <3>3. StartedInv'
      BY <3>1, <3>2 DEF StartedInv
    <3>4. QueueInv'
      BY <3>1, TailOfQueue DEF QueueInv
    <3>5. \A f \in Executors : running'[f] = IF f = e THEN {queue[1]} ELSE running[f]
      BY <2>2, <3>1, TailOfQueue DEF Receive, TypeOK
    <3>6. RunningInv'
      BY <3>1, <3>5 DEF RunningInv
    <3>7. RejectedNeverRuns'
      BY <3>1, TailOfQueue DEF RejectedNeverRuns
    <3> QED BY <3>3, <3>4, <3>6, <3>7
  <2>3. ASSUME NEW f \in Executors, NEW r \in running[f]
        PROVE  r.call \in started /\ r.call \notin sending
    BY <2>3 DEF RunningInv, StartedInv
  <2>4. CASE DropAborted(e)
    <3>1. \A f \in Executors : running'[f] \subseteq running[f]
      BY <2>4 DEF DropAborted, TypeOK
    <3> QED BY <2>4, <2>3, <3>1, <1>1 DEF DropAborted, Unanswered
  <2>5. CASE Finish(e)
    <3>1. \A f \in Executors : running'[f] \subseteq running[f]
      BY <2>5 DEF Finish, TypeOK
    <3> QED BY <2>5, <2>3, <3>1, <1>1 DEF Finish
  <2>6. CASE SpawnBegin(e) \/ SpawnLease(e) \/ SpawnUnserved(e) \/ DrainDone(e)
    BY <2>6, <1>1 DEF SpawnBegin, SpawnLease, SpawnUnserved, DrainDone, callerVars
  <2> QED BY <1>3, <2>1, <2>2, <2>4, <2>5, <2>6 DEF ExecStep
<1>4. CASE SessionStart \/ Disconnect \/ SessionEnd \/ UNCHANGED vars
  BY <1>4, <1>1 DEF SessionStart, Disconnect, SessionEnd, callerVars, execVars, vars
<1>5. CASE SessionDrop
  <2>1. \A f \in Executors : running'[f] \subseteq running[f]
    BY <1>5 DEF SessionDrop
  <2>2. ASSUME NEW r \in UNION {running[e] : e \in Live}
        PROVE  r.call \in started /\ r.call \notin sending
    BY <2>2 DEF RunningInv, StartedInv, Live
  <2> QED BY <1>5, <2>1, <2>2, <1>1 DEF SessionDrop, Unanswered
<1> QED BY <1>2, <1>3, <1>4, <1>5 DEF Next

\* Every call is in one place, and a rejected one in none.
LEMMA PlaceInvariant == Spec => []PlaceInv
<1>1. Init => PlaceInv
  BY DEF Init, PlaceInv, StartedInv, QueueInv, RunningInv, RejectedNeverRuns
<1> QED BY TypeCorrect, <1>1, PlaceStep, PTL DEF Spec

\* A caller that was told its command did not run may retry it: it has not run,
\* and no executor will run it (F-10, drain_stale in channel.rs).
THEOREM RejectedTrulyNeverRuns == Spec => []RejectedNeverRuns
BY PlaceInvariant, PTL DEF PlaceInv

-----------------------------------------------------------------------------
(* CommandChannel implements CommandService. *)

\* A call that is neither waiting to be sent, nor queued, nor running has its
\* answer; and an executor runs one command.
SettledInv ==
  /\ \A k \in started :
       k \notin sending /\ ~Queued(k) /\ ~Running(k) => answer[k] # "none"
  /\ \A e \in Executors : \A r, s \in running[e] : r = s

RefineInv == LeaseInv /\ PlaceInv /\ SettledInv

-----------------------------------------------------------------------------
(* What the steps do to the buffer and to the running commands. *)

\* A send adds one call to those in the buffer.
LEMMA SendQueues ==
  ASSUME TypeOK, NEW k \in Call, Send(k), NEW j \in Call
  PROVE  Queued(j)' <=> Queued(j) \/ j = k
<1>1. Len(queue) \in Nat /\ Len(queue') = Len(queue) + 1
  BY DEF Send, TypeOK
<1>2. \A i \in 1..Len(queue) : i \in 1..Len(queue') /\ queue'[i] = queue[i]
  BY <1>1 DEF Send, TypeOK
<1>3. Len(queue') \in 1..Len(queue') /\ queue'[Len(queue')].call = k
  BY <1>1 DEF Send, TypeOK
<1>4. \A i \in 1..Len(queue') : i \in 1..Len(queue) \/ i = Len(queue')
  BY <1>1
<1> QED BY <1>2, <1>3, <1>4 DEF Queued

\* Taking the oldest command leaves the other calls in the buffer.
LEMMA TailQueues ==
  ASSUME TypeOK, PlaceInv, queue # <<>>, queue' = Tail(queue), NEW j \in Call
  PROVE  Queued(j)' <=> Queued(j) /\ j # queue[1].call
<1>1. Len(queue) \in Nat /\ Len(queue') = Len(queue) - 1
  BY DEF TypeOK
<1>2. \A i \in 1..Len(queue) :
        i # 1 => i - 1 \in 1..Len(queue') /\ queue'[i - 1] = queue[i]
  BY <1>1 DEF TypeOK
<1>3. Queued(j)' => Queued(j) /\ j # queue[1].call
  BY TailOfQueue DEF Queued, PlaceInv, QueueInv
<1>4. Queued(j) /\ j # queue[1].call => Queued(j)'
  BY <1>2 DEF Queued
<1> QED BY <1>3, <1>4

\* A call is in one place only.
LEMMA OnePlace ==
  ASSUME RefineInv, NEW k \in Call
  PROVE  /\ Queued(k) => k \in started /\ k \notin sending /\ ~Running(k)
                         /\ answer[k] \notin {"drained", "unqueued"}
         /\ Running(k) => k \in started /\ k \notin sending /\ ~Queued(k)
                          /\ answer[k] \notin {"drained", "unqueued"}
         /\ k \in sending => k \in started /\ answer[k] = "none"
  BY DEF RefineInv, PlaceInv, StartedInv, QueueInv, RunningInv, RejectedNeverRuns,
         Queued, Running

\* The command an executor ends is the only one that runs.
LEMMA OneRuns ==
  ASSUME RefineInv, NEW e \in Executors, NEW r \in running[e]
  PROVE  /\ r.call \in Call /\ Running(r.call)
         /\ \A k \in Call : Running(k) => k = r.call
         /\ \A f \in Executors : running[f] # {} => f = e
<1>1. \A f \in Executors : running[f] # {} => f \in Live
  BY DEF RefineInv, LeaseInv, RunningHolds, Live, Holding
<1>2. \A f \in Executors : running[f] # {} => f = e
  BY <1>1 DEF RefineInv, LeaseInv, ReceiverConserved
<1>3. r.call \in Call
  BY DEF RefineInv, LeaseInv, TypeOK, Request
<1> QED BY <1>2, <1>3 DEF Running, RefineInv, SettledInv

\* Where the steps of Next that say nothing to callers leave them.
LEMMA SilentUnchanged ==
  ASSUME RefineInv, UNCHANGED <<started, sending, answer, queue, running>>
  PROVE  SettledInv' /\ UNCHANGED <<ServicePhase, ServiceResult>>
  BY DEF RefineInv, SettledInv, Queued, Running, ServicePhase, ServiceResult

-----------------------------------------------------------------------------
(* The steps that callers can tell apart. *)

Steps(k) == Service!Submit(k) \/ Service!Begin(k) \/ Service!End(k)
            \/ Service!Reject(k) \/ Service!GiveUp(k)

\* What changes for one call and no other is a change of the two functions.
LEMMA Pointwise ==
  ASSUME NEW k \in Call, NEW p, NEW r,
         \A j \in Call : ServicePhase'[j] = IF j = k THEN p ELSE ServicePhase[j],
         \A j \in Call : ServiceResult'[j] = IF j = k THEN r ELSE ServiceResult[j]
  PROVE  /\ ServicePhase' = [ServicePhase EXCEPT ![k] = p]
         /\ ServiceResult' = [ServiceResult EXCEPT ![k] = r]
  BY DEF ServicePhase, ServiceResult

\* A caller's step is one of its service steps, or the send that moves its call
\* from its own hands into the buffer.
LEMMA CallerRefines ==
  ASSUME RefineInv, NEW k \in Call, CallerStep(k)
  PROVE  SettledInv' /\ (Steps(k) \/ UNCHANGED <<ServicePhase, ServiceResult>>)
<1> USE DEF Steps
<1>0. TypeOK
  BY DEF RefineInv, LeaseInv
<1>1. CASE Issue(k)
  <2>1. /\ started' = started \cup {k} /\ sending' = sending \cup {k} /\ k \notin started
        /\ UNCHANGED <<answer, queue, running>>
    BY <1>1 DEF Issue, execVars
  <2>2. \A j \in Call : (Queued(j)' <=> Queued(j)) /\ (Running(j)' <=> Running(j))
    BY <2>1 DEF Queued, Running
  <2>3. SettledInv'
    BY <2>1, <2>2, <1>0 DEF SettledInv, RefineInv, TypeOK
  <2>4. \A j \in Call : ServicePhase'[j] = IF j = k THEN "open" ELSE ServicePhase[j]
    BY <2>1, <2>2 DEF ServicePhase
  <2>5. \A j \in Call : ServiceResult'[j] = ServiceResult[j] /\ ServiceResult' = ServiceResult
    BY <2>1 DEF ServiceResult
  <2>6. ServicePhase[k] = "new"
    BY <2>1 DEF ServicePhase
  <2>7. ServicePhase' = [ServicePhase EXCEPT ![k] = "open"]
    BY <2>4 DEF ServicePhase
  <2> QED BY <2>3, <2>5, <2>6, <2>7 DEF Service!Submit
<1>2. CASE Send(k)
  <2>1. /\ k \in sending /\ sending' = sending \ {k}
        /\ UNCHANGED <<started, answer, running>>
    BY <1>2 DEF Send, execVars
  <2>2. \A j \in Call : /\ Queued(j)' <=> Queued(j) \/ j = k
                        /\ Running(j)' <=> Running(j)
    BY <1>0, <1>2, <2>1, SendQueues DEF Running
  <2>3. SettledInv'
    BY <2>1, <2>2, <1>0 DEF SettledInv, RefineInv, TypeOK
  <2>4. UNCHANGED <<ServicePhase, ServiceResult>>
    BY <2>1, <2>2, OnePlace DEF ServicePhase, ServiceResult
  <2> QED BY <2>3, <2>4
<1>3. CASE TimeoutSending(k)
  <2>1. /\ k \in sending /\ sending' = sending \ {k}
        /\ UNCHANGED <<started, queue, running>>
    BY <1>3 DEF TimeoutSending, execVars
  <2>2. \A j \in Call : /\ answer'[j] = IF j = k THEN "unqueued" ELSE answer[j]
                        /\ Queued(j)' <=> Queued(j)
                        /\ Running(j)' <=> Running(j)
    BY <1>0, <1>3, <2>1 DEF TimeoutSending, TypeOK, Queued, Running
  <2>3. k \in started /\ answer[k] = "none" /\ ~Queued(k) /\ ~Running(k)
    BY <2>1, OnePlace
  <2>4. SettledInv'
    BY <2>1, <2>2, <1>0 DEF SettledInv, RefineInv, TypeOK
  <2>5. \A j \in Call : ServicePhase'[j] = IF j = k THEN "over" ELSE ServicePhase[j]
    BY <2>1, <2>2, <2>3 DEF ServicePhase
  <2>6. \A j \in Call : ServiceResult'[j] = IF j = k THEN "rejected" ELSE ServiceResult[j]
    BY <2>2 DEF ServiceResult
  <2>7. ServicePhase[k] = "open" /\ ServiceResult[k] = "none"
    BY <2>1, <2>3 DEF ServicePhase, ServiceResult
  <2> QED BY <2>4, <2>5, <2>6, <2>7, Pointwise DEF Service!Reject, Service!Answer
<1>4. CASE TimeoutWaiting(k)
  <2>1. /\ k \in started /\ k \notin sending /\ answer[k] = "none"
        /\ UNCHANGED <<started, sending, queue, running>>
    BY <1>4 DEF TimeoutWaiting, Pending, execVars
  <2>2. \A j \in Call : /\ answer'[j] = IF j = k THEN "late" ELSE answer[j]
                        /\ Queued(j)' <=> Queued(j)
                        /\ Running(j)' <=> Running(j)
    BY <1>0, <1>4, <2>1 DEF TimeoutWaiting, TypeOK, Queued, Running
  <2>3. SettledInv'
    BY <2>1, <2>2, <1>0 DEF SettledInv, RefineInv, TypeOK
  <2>4. ServicePhase' = ServicePhase
    BY <2>1, <2>2 DEF ServicePhase
  <2>5. \A j \in Call : ServiceResult'[j] = IF j = k THEN "unknown" ELSE ServiceResult[j]
    BY <2>2 DEF ServiceResult
  <2>6. ServicePhase[k] \in {"open", "running"} /\ ServiceResult[k] = "none"
    BY <2>1 DEF ServicePhase, ServiceResult, RefineInv, SettledInv
  <2>7. ServiceResult' = [ServiceResult EXCEPT ![k] = "unknown"]
    BY <2>5 DEF ServiceResult
  <2> QED BY <2>3, <2>4, <2>6, <2>7 DEF Service!GiveUp
<1> QED BY <1>1, <1>2, <1>3, <1>4 DEF CallerStep

\* The running command of one executor ends without its answer or with it.
LEMMA EndRefines ==
  ASSUME RefineInv, NEW e \in Executors, NEW a \in {"done", "offline", "dropped"},
         UNCHANGED <<started, sending, queue>>,
         \A f \in Executors : running'[f] = IF f = e THEN {} ELSE running[f],
         \A j \in Call : answer'[j] = IF answer[j] = "none" /\ \E r \in running[e] : r.call = j
                                     THEN a ELSE answer[j],
         answer' \in [Call -> Answers]
  PROVE  SettledInv' /\ ((\E k \in Call : Steps(k)) \/ UNCHANGED <<ServicePhase, ServiceResult>>)
<1>0. TypeOK
  BY DEF RefineInv, LeaseInv
<1>1. \A j \in Call : Queued(j)' <=> Queued(j)
  BY DEF Queued
<1>2. CASE running[e] = {}
  <2>1. \A j \in Call : answer'[j] = answer[j] /\ (Running(j)' <=> Running(j))
    BY <1>2 DEF Running
  <2>2. SettledInv'
    BY <1>0, <1>1, <1>2, <2>1 DEF SettledInv, RefineInv, TypeOK
  <2>3. UNCHANGED <<ServicePhase, ServiceResult>>
    BY <1>1, <2>1 DEF ServicePhase, ServiceResult
  <2> QED BY <2>2, <2>3
<1>3. ASSUME NEW r \in running[e]
      PROVE  SettledInv' /\ \E k \in Call : Steps(k)
  <2> DEFINE k == r.call
  <2>1. k \in Call /\ Running(k) /\ \A j \in Call : Running(j) => j = k
    BY <1>3, OneRuns
  <2>2. \A j \in Call : ~Running(j)'
    BY <1>3, OneRuns DEF Running
  <2>3. \A j \in Call : answer'[j] = IF answer[j] = "none" /\ j = k THEN a ELSE answer[j]
    BY <1>3 DEF RefineInv, SettledInv
  <2>4. k \in started /\ k \notin sending /\ ~Queued(k)
        /\ answer[k] \notin {"drained", "unqueued"}
    BY <2>1, OnePlace
  <2> HIDE DEF k
  <2>5. SettledInv'
    BY <1>0, <1>1, <2>1, <2>2, <2>3 DEF SettledInv, RefineInv, TypeOK
  <2>6. \A j \in Call : ServicePhase'[j] = IF j = k THEN "over" ELSE ServicePhase[j]
    BY <1>1, <2>1, <2>2, <2>4 DEF ServicePhase
  <2> DEFINE ending == IF a = "done" THEN "done" ELSE "unknown"
             after == IF ServiceResult[k] = "none" THEN ending ELSE ServiceResult[k]
  <2>7. \A j \in Call : ServiceResult'[j] = IF j = k THEN after ELSE ServiceResult[j]
    BY <2>1, <2>3 DEF ServiceResult, Answers
  <2>8. ServicePhase[k] = "running"
    BY <2>1, <2>4 DEF ServicePhase
  <2>9. ending \in {"done", "unknown"}
    OBVIOUS
  <2> HIDE DEF ending
  <2>10. /\ ServicePhase' = [ServicePhase EXCEPT ![k] = "over"]
         /\ ServiceResult' = [ServiceResult EXCEPT ![k] = after]
    BY <2>1, <2>6, <2>7, Pointwise
  <2>11. ServiceResult' = [ServiceResult EXCEPT ![k] = IF @ = "none" THEN ending ELSE @]
    BY <2>10
  <2>12. Service!End(k)
    BY <2>8, <2>9, <2>10, <2>11 DEF Service!End, Service!Answer
  <2> QED BY <2>1, <2>5, <2>12 DEF Steps
<1> QED BY <1>2, <1>3

\* Draining rejects, receiving begins, finishing and aborting end.
LEMMA ExecRefines ==
  ASSUME RefineInv, TypeOK', NEW e \in Executors, ExecStep(e)
  PROVE  SettledInv' /\ ((\E k \in Call : Steps(k)) \/ UNCHANGED <<ServicePhase, ServiceResult>>)
<1>0. TypeOK /\ PlaceInv
  BY DEF RefineInv, LeaseInv
<1>1. CASE DrainOne(e)
  <2> DEFINE k == queue[1].call
  <2>1. /\ queue # <<>> /\ queue' = Tail(queue)
        /\ UNCHANGED <<started, sending, running>>
    BY <1>1 DEF DrainOne, execVars
  <2>2. k \in Call /\ Queued(k)
    BY <1>0, <2>1, TailOfQueue DEF Queued
  <2>3. \A j \in Call : /\ Queued(j)' <=> Queued(j) /\ j # k
                        /\ Running(j)' <=> Running(j)
    BY <1>0, <2>1, TailQueues DEF Running
  <2>4. \A j \in Call : answer'[j] = IF j = k /\ answer[j] = "none" THEN "drained" ELSE answer[j]
    BY <1>0, <1>1, <2>1, TailOfQueue DEF DrainOne, Reply, TypeOK
  <2>5. k \in started /\ k \notin sending /\ ~Running(k)
        /\ answer[k] \notin {"drained", "unqueued"}
    BY <2>2, OnePlace
  <2> HIDE DEF k
  <2>6. SettledInv'
    BY <1>0, <2>1, <2>2, <2>3, <2>4 DEF SettledInv, RefineInv, TypeOK
  <2>7. \A j \in Call : ServicePhase'[j] = IF j = k THEN "over" ELSE ServicePhase[j]
    BY <2>1, <2>3, <2>5 DEF ServicePhase
  <2> DEFINE after == IF ServiceResult[k] = "none" THEN "rejected" ELSE ServiceResult[k]
  <2>8. \A j \in Call : ServiceResult'[j] = IF j = k THEN after ELSE ServiceResult[j]
    BY <2>2, <2>4 DEF ServiceResult, Answers
  <2>9. ServicePhase[k] = "open"
    BY <2>2, <2>5 DEF ServicePhase
  <2>10. /\ ServicePhase' = [ServicePhase EXCEPT ![k] = "over"]
         /\ ServiceResult' = [ServiceResult EXCEPT ![k] = after]
    BY <2>2, <2>7, <2>8, Pointwise
  <2>11. ServiceResult' = [ServiceResult EXCEPT ![k] = IF @ = "none" THEN "rejected" ELSE @]
    BY <2>10
  <2>12. Service!Reject(k)
    BY <2>9, <2>10, <2>11 DEF Service!Reject, Service!Answer
  <2> QED BY <2>2, <2>6, <2>12 DEF Steps
<1>2. CASE Receive(e)
  <2> DEFINE k == queue[1].call
  <2>1. /\ queue # <<>> /\ queue' = Tail(queue) /\ exec[e] = "ready"
        /\ UNCHANGED <<started, sending, answer>>
    BY <1>2 DEF Receive, callerVars
  <2>2. k \in Call /\ Queued(k)
    BY <1>0, <2>1, TailOfQueue DEF Queued
  <2>3. \A f \in Executors : running'[f] = IF f = e THEN {queue[1]} ELSE running[f]
    BY <1>0, <1>2, <2>1, TailOfQueue DEF Receive, TypeOK
  <2>4. \A f \in Executors : running[f] = {}
    <3>1. \A f \in Executors : running[f] # {} => f \in Live /\ exec[f] # "ready"
      BY DEF RefineInv, LeaseInv, RunningHolds, Live, Holding
    <3>2. e \in Live
      BY <2>1 DEF Live, Holding
    <3> QED BY <2>1, <3>1, <3>2 DEF RefineInv, LeaseInv, ReceiverConserved
  <2>5. \A j \in Call : /\ Queued(j)' <=> Queued(j) /\ j # k
                        /\ ~Running(j)
                        /\ Running(j)' <=> j = k
    BY <1>0, <2>1, <2>3, <2>4, TailQueues DEF Running
  <2>6. k \in started /\ k \notin sending /\ answer[k] \notin {"drained", "unqueued"}
    BY <2>2, OnePlace
  <2>7. \A f \in Executors : \A r, s \in running'[f] : r = s
    BY <2>3, <2>4
  <2> HIDE DEF k
  <2>8. SettledInv'
    BY <1>0, <2>1, <2>2, <2>5, <2>7 DEF SettledInv, RefineInv, TypeOK
  <2>9. \A j \in Call : ServicePhase'[j] = IF j = k THEN "running" ELSE ServicePhase[j]
    BY <2>1, <2>2, <2>5, <2>6 DEF ServicePhase
  <2>10. ServiceResult' = ServiceResult
    BY <2>1 DEF ServiceResult
  <2>11. /\ ServicePhase[k] = "open" /\ ServiceResult[k] # "rejected"
         /\ \A j \in Call : ServicePhase[j] # "running"
    BY <2>2, <2>5, <2>6 DEF ServicePhase, ServiceResult
  <2>12. ServicePhase' = [ServicePhase EXCEPT ![k] = "running"]
    BY <2>9 DEF ServicePhase
  <2>13. Service!Begin(k)
    BY <2>10, <2>11, <2>12 DEF Service!Begin
  <2> QED BY <2>2, <2>8, <2>13 DEF Steps
<1>3. CASE DropAborted(e)
  <2>1. /\ UNCHANGED <<started, sending, queue>>
        /\ \A f \in Executors : running'[f] = IF f = e THEN {} ELSE running[f]
        /\ \A j \in Call : answer'[j] = IF answer[j] = "none" /\ \E r \in running[e] : r.call = j
                                        THEN "dropped" ELSE answer[j]
    BY <1>0, <1>3 DEF DropAborted, Unanswered, TypeOK
  <2>2. answer' \in [Call -> Answers]
    BY DEF TypeOK
  <2> QED BY <2>1, <2>2, EndRefines
<1>4. CASE Finish(e)
  <2> DEFINE a == IF online THEN "done" ELSE "offline"
  <2>1. /\ UNCHANGED <<started, sending, queue>>
        /\ \A f \in Executors : running'[f] = IF f = e THEN {} ELSE running[f]
        /\ \A j \in Call : answer'[j] = IF answer[j] = "none" /\ \E r \in running[e] : r.call = j
                                        THEN a ELSE answer[j]
    BY <1>0, <1>4 DEF Finish, TypeOK
  <2>2. answer' \in [Call -> Answers] /\ a \in {"done", "offline", "dropped"}
    BY DEF TypeOK
  <2> HIDE DEF a
  <2> QED BY <2>1, <2>2, EndRefines
<1>5. CASE SpawnBegin(e) \/ SpawnLease(e) \/ SpawnUnserved(e) \/ DrainDone(e)
  BY <1>5, SilentUnchanged DEF SpawnBegin, SpawnLease, SpawnUnserved, DrainDone, callerVars
<1> QED BY <1>1, <1>2, <1>3, <1>4, <1>5 DEF ExecStep

\* The end of start() drops the one executor that may be running a command.
LEMMA DropRefines ==
  ASSUME RefineInv, TypeOK', SessionDrop
  PROVE  SettledInv' /\ ((\E k \in Call : Steps(k)) \/ UNCHANGED <<ServicePhase, ServiceResult>>)
<1>0. TypeOK
  BY DEF RefineInv, LeaseInv
<1>1. /\ UNCHANGED <<started, sending, queue>>
      /\ \A f \in Executors : running'[f] = {}
      /\ \A j \in Call : answer'[j] =
           IF answer[j] = "none" /\ \E r \in UNION {running[f] : f \in Live} : r.call = j
           THEN "dropped" ELSE answer[j]
      /\ answer' \in [Call -> Answers] /\ answer \in [Call -> Answers]
  BY <1>0 DEF SessionDrop, Unanswered, TypeOK
<1>2. \A f \in Executors : running[f] # {} => f \in Live
  BY DEF RefineInv, LeaseInv, RunningHolds, Live, Holding
<1>3. CASE \A f \in Executors : running[f] = {}
  <2>1. UNION {running[f] : f \in Live} = {}
    BY <1>3 DEF Live
  <2>2. PICK e \in Executors : TRUE
    BY ChannelAssumption DEF Executors
  <2>3. /\ \A f \in Executors : running'[f] = IF f = e THEN {} ELSE running[f]
        /\ \A j \in Call : answer'[j] = IF answer[j] = "none" /\ \E r \in running[e] : r.call = j
                                        THEN "dropped" ELSE answer[j]
    BY <1>1, <1>3, <2>1
  <2> QED BY <1>1, <2>3, EndRefines
<1>4. ASSUME NEW e \in Executors, running[e] # {}
      PROVE  SettledInv' /\ ((\E k \in Call : Steps(k)) \/ UNCHANGED <<ServicePhase, ServiceResult>>)
  <2>1. Live = {e}
    BY <1>2, <1>4 DEF RefineInv, LeaseInv, ReceiverConserved
  <2>2. UNION {running[f] : f \in Live} = running[e]
    BY <2>1
  <2>3. \A f \in Executors : f # e => running[f] = {}
    BY <1>2, <2>1
  <2>4. /\ \A f \in Executors : running'[f] = IF f = e THEN {} ELSE running[f]
        /\ \A j \in Call : answer'[j] = IF answer[j] = "none" /\ \E r \in running[e] : r.call = j
                                        THEN "dropped" ELSE answer[j]
    BY <1>1, <2>2, <2>3
  <2> QED BY <1>1, <2>4, EndRefines
<1> QED BY <1>3, <1>4

-----------------------------------------------------------------------------

\* Every step of the channel is a step of the service or a stutter.
LEMMA RefineStep ==
  ASSUME RefineInv, TypeOK', [Next]_vars
  PROVE  SettledInv' /\ [Service!Next]_(Service!vars)
<1>1. SettledInv' /\ ((\E k \in Call : Steps(k)) \/ UNCHANGED <<ServicePhase, ServiceResult>>)
  <2>1. ASSUME NEW k \in Call, CallerStep(k)
        PROVE  SettledInv' /\ (Steps(k) \/ UNCHANGED <<ServicePhase, ServiceResult>>)
    BY <2>1, CallerRefines
  <2>2. CASE SessionStart \/ Disconnect \/ SessionEnd \/ UNCHANGED vars
    BY <2>2, SilentUnchanged DEF SessionStart, Disconnect, SessionEnd, callerVars, execVars, vars
  <2> QED BY <2>1, <2>2, ExecRefines, DropRefines DEF Next
<1> QED BY <1>1 DEF Steps, Service!Next, Service!vars

\* The command channel keeps the promise of CommandService: a command runs at
\* most once, one at a time, and never after its caller was told "rejected"
\* (send_command_with_timeout, run_with_lease, drain_stale).
THEOREM ChannelImplementsService == Spec => ServiceSpec
<1>1. Init => SettledInv /\ Service!Init
  BY DEF Init, SettledInv, Service!Init, ServicePhase, ServiceResult
<1>2. Spec => []SettledInv
  BY <1>1, LeaseInvariant, PlaceInvariant, TypeCorrect, RefineStep, PTL DEF RefineInv, Spec
<1>3. Spec => [][Service!Next]_(Service!vars)
  BY <1>2, LeaseInvariant, PlaceInvariant, TypeCorrect, RefineStep, PTL DEF RefineInv, Spec
<1> QED BY <1>1, <1>3, PTL DEF ServiceSpec, Service!Spec, Spec
=============================================================================
