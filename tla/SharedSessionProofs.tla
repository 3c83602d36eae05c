------------------------- MODULE SharedSessionProofs -------------------------
(* SharedSession for any callers, containers, sessions and messages. *)
EXTENDS SharedSession, FiniteSetTheorems, SequenceTheorems, TLAPS

-----------------------------------------------------------------------------
(* Types. *)

\* TypeOK but for the size of the ring.
ConnType == session \in 0..MaxSessions /\ online \in BOOLEAN /\ skipped \subseteq 1..MaxSessions
ReplyType ==
  reply \in [Callers -> {"idle", "waiting", "offline", "already_open", "not_open", "full",
                         "clicked", "closed", "opened", "timeout", "rejected", "executed"}]
CallType == calls \in 0..MaxCalls /\ queue \in Seq(Job) /\ job \in Job \cup {NoJob}
BoxType ==
  /\ handle \in [pos : Containers, session : 1..MaxSessions] \cup {None}
  /\ menu \in Containers \cup {None} /\ requested \subseteq Containers
ChatType == log \in Seq(Messages) /\ Len(log) <= MaxMessages /\ cursor \in 0..(MaxMessages + 1)

\* The executor works only in a session.
Working == (job # NoJob => online) /\ (online => session >= 1)

Types == ConnType /\ ReplyType /\ CallType /\ BoxType /\ ChatType /\ Working

\* Nothing happened yet.
LEMMA TypesInit == Init => Types
<1> SUFFICES ASSUME Init PROVE Types
  OBVIOUS
<1>1. ConnType
  <2>1. session \in 0..MaxSessions
    BY SessionAssumption DEF Init
  <2>2. online \in BOOLEAN /\ skipped \subseteq 1..MaxSessions
    BY DEF Init
  <2> QED BY <2>1, <2>2 DEF ConnType
<1>5. ReplyType
  BY DEF Init, ReplyType
<1>6. Working
  BY DEF Init, Working
<1>2. CallType /\ BoxType
  BY SessionAssumption DEF Init, CallType, BoxType
<1>3. log = <<>> /\ cursor = 0 /\ <<>> \in Seq(Messages) /\ Len(<<>>) = 0
  BY DEF Init
<1>4. ChatType
  BY <1>3, SessionAssumption DEF ChatType
<1> QED BY <1>1, <1>2, <1>4, <1>5, <1>6 DEF Types

\* What a command says.
LEMMA CommandShape ==
  ASSUME NEW command \in Commands
  PROVE  /\ command.kind \in {"open", "take", "put", "close", "execute"}
         /\ command.kind = "open" => command.pos \in Containers
<1>1. CASE command \in {[kind |-> "open", pos |-> c] : c \in Containers}
  <2>1. PICK c \in Containers : command = [kind |-> "open", pos |-> c]
    BY <1>1
  <2> QED BY <2>1
<1>2. CASE command \in [kind : {"take", "put", "close", "execute"}, pos : {None}]
  BY <1>2
<1> QED BY <1>1, <1>2 DEF Commands

\* The answer to a job goes to its caller.
LEMMA AnswerType ==
  ASSUME ReplyType, NEW c \in Callers,
         NEW what \in {"idle", "waiting", "offline", "already_open", "not_open", "full",
                       "clicked", "closed", "opened", "timeout", "rejected", "executed"},
         Answer(c, what)
  PROVE  ReplyType'
  BY DEF ReplyType, Answer

\* The executor starts one of the commands there are.
LEMMA Dispatched ==
  ASSUME Types, Dispatch
  PROVE  /\ Head(queue) \in Job /\ queue' \in Seq(Job)
         /\ \/ Head(queue).command.kind = "open" /\ StartOpen
            \/ StartClick
            \/ StartClose
            \/ Head(queue).command.kind = "execute" /\ StartExecute
<1>1. Head(queue) \in Job /\ queue' \in Seq(Job)
  BY HeadTailProperties DEF Dispatch, Types, CallType
<1>2. Head(queue).command \in Commands
  BY <1>1 DEF Job
<1>3. Head(queue).command.kind \in {"open", "take", "put", "close", "execute"}
  BY <1>2, CommandShape
<1> QED BY <1>1, <1>3 DEF Dispatch

\* Every step keeps the types.
LEMMA TypesStep == ASSUME Types, [Next]_vars PROVE Types'
<1> USE SessionAssumption DEF connVars, callVars, boxVars, chatVars
<1>1. ASSUME NEW c \in Callers, NEW command \in Commands, Call(c, command) PROVE Types'
  <2>1. ReplyType'
    BY <1>1 DEF Types, ReplyType, Call, PreCheck
  <2>2. [caller |-> c, command |-> command] \in Job
    BY DEF Job
  <2>3. queue' \in Seq(Job)
    BY <1>1, <2>2, AppendProperties DEF Types, CallType, Call
  <2> QED BY <1>1, <2>1, <2>3
          DEF Call, Types, ConnType, CallType, BoxType, ChatType, Working
<1>2. CASE Dispatch
  <2>1. /\ Head(queue) \in Job /\ queue' \in Seq(Job) /\ online /\ job = NoJob
        /\ UNCHANGED <<connVars, calls, chatVars>>
    BY <1>2, Dispatched DEF Dispatch
  <2>2. Head(queue).caller \in Callers /\ Head(queue).command \in Commands
    BY <2>1 DEF Job
  <2>3. CASE Head(queue).command.kind = "open" /\ StartOpen
    <3>1. Head(queue).command.pos \in Containers
      BY <2>2, <2>3, CommandShape
    <3> QED BY <2>1, <2>2, <2>3, <3>1
            DEF StartOpen, Answer, Types, ConnType, ReplyType, CallType, BoxType, ChatType, Working
  <2>4. CASE StartClick
    <3>1. ReplyType'
      BY <2>2, <2>4 DEF StartClick, Answer, ReplyType, Types
    <3> QED BY <2>1, <2>4, <3>1
            DEF StartClick, Types, ConnType, CallType, BoxType, ChatType, Working
  <2>5. CASE StartClose
    <3>1. ReplyType'
      BY <2>2, <2>5, AnswerType DEF StartClose, Types
    <3> QED BY <2>1, <2>5, <3>1
            DEF StartClose, Types, ConnType, CallType, BoxType, ChatType, Working
  <2>6. CASE StartExecute
    <3>1. NextSeq \in 0..(MaxMessages + 1)
      BY DEF NextSeq, Types, ChatType
    <3> QED BY <2>1, <2>6, <3>1
            DEF StartExecute, Types, ConnType, ReplyType, CallType, BoxType, ChatType, Working
  <2> QED BY <1>2, <2>3, <2>4, <2>5, <2>6, Dispatched
<1>3. ASSUME NEW p \in Containers, Opened(p) PROVE Types'
  <2>1. CASE Running("open") /\ job.command.pos = p
    <3>1. job \in Job /\ online /\ job' = NoJob
      BY <1>3, <2>1 DEF Opened, Running, Finish, Types, CallType, Working
    <3>2. ReplyType'
      BY <1>3, <2>1, <3>1, AnswerType DEF Opened, Finish, Types, Job
    <3>3. handle' \in [pos : Containers, session : 1..MaxSessions]
      BY <1>3, <2>1, <3>1 DEF Opened, Types, Working, ConnType
    <3> QED BY <1>3, <3>1, <3>2, <3>3
            DEF Opened, Types, ConnType, CallType, BoxType, ChatType, Working
  <2>2. CASE ~(Running("open") /\ job.command.pos = p)
    BY <1>3, <2>2 DEF Opened, Types, ConnType, ReplyType, CallType, BoxType, ChatType, Working
  <2> QED BY <2>1, <2>2
<1>4. ASSUME job # NoJob, job' = NoJob, UNCHANGED <<connVars, calls, queue, cursor, boxVars, chatVars>>,
             NEW what \in {"timeout", "rejected", "executed"}, Answer(job.caller, what)
      PROVE  Types'
  <2>1. ReplyType'
    BY <1>4, AnswerType DEF Types, CallType, Job
  <2> QED BY <1>4, <2>1 DEF Types, ConnType, CallType, BoxType, ChatType, Working
<1>5. CASE OpenTimesOut
  BY <1>4, <1>5 DEF OpenTimesOut, Finish, Running
<1>6. CASE MenuCloses
  BY <1>6 DEF MenuCloses, Types, ConnType, ReplyType, CallType, BoxType, ChatType, Working
<1>7. CASE Feedback
  BY <1>4, <1>7 DEF Feedback, Finish, Running
<1>8. ASSUME NEW m \in Messages, Chat(m) PROVE Types'
  <2>1. log' \in Seq(Messages) /\ Len(log') = Len(log) + 1 /\ Len(log) < MaxMessages
    BY <1>8, AppendProperties DEF Chat, Types, ChatType
  <2> QED BY <1>8, <2>1
          DEF Chat, Types, ConnType, ReplyType, CallType, BoxType, ChatType, Working
<1>9. CASE Connect
  <2>1. ReplyType'
    BY <1>9 DEF Connect, Types, ReplyType
  <2> QED BY <1>9, <2>1 DEF Connect, Types, ConnType, CallType, BoxType, ChatType, Working
<1>10. ASSUME Abort PROVE ReplyType'
  BY <1>10, AnswerType DEF Abort, Types, ReplyType, CallType, Job
<1>11. CASE EndCleared
  <2>1. ~online' /\ ~(job' # NoJob)
    BY <1>11 DEF EndCleared, Abort
  <2>2. Working'
    BY <2>1 DEF Working
  <2> QED BY <1>10, <1>11, <2>2
          DEF EndCleared, Abort, Types, ConnType, CallType, BoxType, ChatType
<1>12. CASE EndByExit
  <2>1. ~online' /\ ~(job' # NoJob)
    BY <1>12 DEF EndByExit, Abort
  <2>2. Working'
    BY <2>1 DEF Working
  <2>3. session \in 1..MaxSessions
    BY <1>12 DEF EndByExit, Types, ConnType, Working
  <2>4. skipped' \subseteq 1..MaxSessions
    BY <1>12, <2>3 DEF EndByExit, Types, ConnType
  <2> QED BY <1>10, <1>12, <2>2, <2>4
          DEF EndByExit, Abort, Types, ConnType, CallType, BoxType, ChatType
<1>13. CASE UNCHANGED vars
  BY <1>13 DEF vars, Types, ConnType, ReplyType, CallType, BoxType, ChatType, Working
<1> QED BY <1>1, <1>2, <1>3, <1>5, <1>6, <1>7, <1>8, <1>9, <1>11, <1>12, <1>13 DEF Next

-----------------------------------------------------------------------------
(* The chat ring. *)

\* Only add_chat_message changes the ring, and it keeps the tail.
LEMMA RingStep == ASSUME Types, RingIsTail, [Next]_vars PROVE RingIsTail'
<1> USE SessionAssumption
<1>1. ASSUME NEW m \in Messages, Chat(m) PROVE RingIsTail'
  <2> DEFINE n == Len(log)
  <2>1. n \in Nat /\ log \in Seq(Messages)
    BY LenProperties DEF Types, ChatType
  <2>2. /\ Len(log') = n + 1 /\ log'[n + 1] = m
        /\ \A i \in 1..n : log'[i] = log[i]
    BY <1>1, <2>1, AppendProperties DEF Chat
  <2>3. DOMAIN ring' = {j \in DOMAIN ring \cup {n + 1} : j > n + 1 - Cap}
    BY <1>1 DEF Chat, Kept, NextSeq
  <2>4. DOMAIN ring' = {i \in 1..(n + 1) : i > n + 1 - Cap}
    BY <2>1, <2>3 DEF RingIsTail
  <2>5. \A i \in DOMAIN ring' : ring'[i] = IF i = n + 1 THEN m ELSE ring[i]
    BY <1>1 DEF Chat, NextSeq
  <2>6. ASSUME NEW i \in DOMAIN ring' PROVE ring'[i] = log'[i]
    <3>1. CASE i = n + 1
      BY <2>2, <2>5, <3>1
    <3>2. CASE i # n + 1
      <4>5. i \in DOMAIN ring \cup {n + 1} /\ i \in 1..(n + 1)
        <5> HIDE DEF n
        <5> QED BY <2>3, <2>4
      <4>1. i \in 1..n /\ i \in DOMAIN ring
        BY <2>1, <4>5, <3>2
      <4>2. ring'[i] = ring[i]
        BY <2>5, <3>2
      <4>3. ring[i] = log[i]
        BY <4>1 DEF RingIsTail
      <4>4. log'[i] = log[i]
        BY <2>2, <4>1
      <4> QED BY <4>2, <4>3, <4>4
    <3> QED BY <3>1, <3>2
  <2> QED BY <2>2, <2>4, <2>6 DEF RingIsTail
<1>2. CASE UNCHANGED chatVars
  BY <1>2 DEF chatVars, RingIsTail
<1>3. ASSUME Next, \A m \in Messages : ~Chat(m) PROVE UNCHANGED chatVars
  BY <1>3 DEF Next, Call, Dispatch, Opened, OpenTimesOut, MenuCloses, Feedback, Connect,
              EndCleared, EndByExit
<1> QED BY <1>1, <1>2, <1>3 DEF vars

\* The ring is never over its cap.
LEMMA RingSize == ASSUME Types, RingIsTail PROVE Cardinality(DOMAIN ring) <= Cap
<1> DEFINE n == Len(log)
           low == IF n <= Cap THEN 1 ELSE n - Cap + 1
<1>1. n \in Nat /\ low \in Int /\ n - low + 1 <= Cap /\ Cap \in Nat
  BY SessionAssumption, LenProperties DEF Types, ChatType
<1>2. DOMAIN ring = low..n
  BY <1>1 DEF RingIsTail
<1> HIDE DEF low, n
<1>3. Cardinality(low..n) = IF low > n THEN 0 ELSE n - low + 1
  <2>1. n \in Int /\ low \in Int
    BY <1>1
  <2> QED BY <2>1, FS_Interval
<1> QED BY <1>1, <1>2, <1>3

\* Types with the ring are the type invariant of the runs.
LEMMA TypesImplyTypeOK == ASSUME Types, RingIsTail PROVE TypeOK
<1>1. DOMAIN ring \subseteq 1..Len(log)
  BY DEF RingIsTail
<1> QED BY <1>1, RingSize
        DEF TypeOK, Types, ConnType, ReplyType, CallType, BoxType, ChatType

RingInv == Types /\ RingIsTail

\* The types and the ring hold in every behaviour.
LEMMA RingAlways == Spec => []RingInv
<1>1. Init => RingInv
  <2> SUFFICES ASSUME Init PROVE RingIsTail
    BY TypesInit DEF RingInv
  <2>1. Len(<<>>) = 0 /\ DOMAIN <<>> = {}
    OBVIOUS
  <2> QED BY <2>1 DEF Init, RingIsTail
<1>2. RingInv /\ [Next]_vars => RingInv'
  BY TypesStep, RingStep DEF RingInv
<1> QED BY <1>1, <1>2, PTL DEF Spec

\* Every variable keeps its type, for any callers, containers and bounds.
THEOREM TypeCorrect == Spec => []TypeOK
<1>1. RingInv => TypeOK
  BY TypesImplyTypeOK DEF RingInv
<1> QED BY <1>1, RingAlways, PTL

\* The ring holds the newest Cap messages under their sequence numbers
\* (add_chat_message), for any Cap.
THEOREM RingCorrect == Spec => []RingIsTail
<1>1. RingInv => RingIsTail
  BY DEF RingInv
<1> QED BY <1>1, RingAlways, PTL

-----------------------------------------------------------------------------
(* The handle of the open container. *)

\* Every step keeps a handle to its session.
LEMMA HandleStep == ASSUME Types, HandleOfSession, [Next]_vars PROVE HandleOfSession'
<1> USE SessionAssumption
<1>1. CASE UNCHANGED <<connVars, handle>>
  BY <1>1 DEF connVars, HandleOfSession
<1>2. ASSUME UNCHANGED connVars, handle' \in {None, handle} PROVE HandleOfSession'
  BY <1>2 DEF connVars, HandleOfSession
<1>3. CASE Dispatch
  <2>1. UNCHANGED connVars /\ handle' \in {None, handle}
    BY <1>3, Dispatched DEF Dispatch, StartOpen, StartClick, StartClose, StartExecute, boxVars
  <2> QED BY <1>2, <2>1
<1>4. ASSUME NEW p \in Containers, Opened(p) PROVE HandleOfSession'
  <2>1. CASE Running("open") /\ job.command.pos = p
    <3>1. handle' = [pos |-> p, session |-> session] /\ UNCHANGED connVars
      BY <1>4, <2>1 DEF Opened
    <3>2. online /\ session \in Nat
      BY <2>1 DEF Types, ConnType, Working, Running
    <3>3. handle'.session = session /\ session' = session /\ online'
      BY <3>1, <3>2 DEF connVars
    <3> QED BY <3>2, <3>3 DEF HandleOfSession
  <2>2. CASE ~(Running("open") /\ job.command.pos = p)
    BY <1>2, <1>4, <2>2 DEF Opened
  <2> QED BY <2>1, <2>2
<1>5. CASE Connect
  <2>1. ~online /\ session' = session + 1 /\ online' /\ UNCHANGED <<skipped, handle>>
    BY <1>5 DEF Connect, boxVars
  <2>2. ASSUME handle # None, NEW s \in handle.session..(session + 1)
        PROVE  s \in skipped \/ s = session + 1
    <3>1. handle.session \in Nat /\ session \in Nat
      BY <2>2 DEF Types, BoxType, ConnType
    <3>2. s \in handle.session..session \/ s = session + 1
      BY <2>2, <3>1
    <3> QED BY <2>1, <2>2, <3>2 DEF HandleOfSession
  <2> QED BY <2>1, <2>2 DEF HandleOfSession
<1>6. CASE EndCleared
  BY <1>6 DEF EndCleared, HandleOfSession
<1>7. CASE EndByExit
  <2>1. skipped' = skipped \cup {session} /\ session' = session /\ handle' = handle
    BY <1>7 DEF EndByExit
  <2> QED BY <2>1 DEF HandleOfSession
<1>8. CASE UNCHANGED vars
  BY <1>1, <1>8 DEF vars, boxVars
<1>9. ASSUME NEW c \in Callers, NEW command \in Commands, Call(c, command)
      PROVE  HandleOfSession'
  BY <1>1, <1>9 DEF Call, boxVars
<1>10. ASSUME NEW m \in Messages, Chat(m) PROVE HandleOfSession'
  BY <1>1, <1>10 DEF Chat, boxVars
<1>11. CASE OpenTimesOut \/ Feedback \/ MenuCloses
  BY <1>1, <1>11 DEF OpenTimesOut, Feedback, MenuCloses, boxVars
<1> QED BY <1>3, <1>4, <1>5, <1>6, <1>7, <1>8, <1>9, <1>10, <1>11 DEF Next

\* A container handle belongs to the session that runs, unless every session
\* since its own ended without clear_session_state.
THEOREM HandleCorrect == Spec => []HandleOfSession
<1>1. Init => HandleOfSession
  BY DEF Init, HandleOfSession
<1>2. RingInv /\ HandleOfSession /\ [Next]_vars => HandleOfSession'
  BY HandleStep DEF RingInv
<1> QED BY <1>1, <1>2, RingAlways, PTL DEF Spec

-----------------------------------------------------------------------------
(* The command that waits. *)

\* An open waits only while there is no handle, and a command that waits for
\* chat has a cursor.
Waiting == (Running("open") => handle = None) /\ (Running("execute") => cursor \in Nat \ {0})

\* Every step keeps what the running command relies on.
LEMMA WaitingStep == ASSUME Types, Waiting, [Next]_vars PROVE Waiting'
<1>1. CASE UNCHANGED <<job, cursor, handle>>
  BY <1>1 DEF Waiting, Running
<1>2. CASE job' = NoJob
  BY <1>2 DEF Waiting, Running
<1>3. CASE Dispatch
  <2>1. CASE UNCHANGED job
    <3>1. job = NoJob
      BY <1>3 DEF Dispatch
    <3> QED BY <1>2, <2>1, <3>1
  <2>2. CASE Head(queue).command.kind = "open" /\ job' # job
    <3>1. handle = None /\ handle' = handle /\ job' = Head(queue)
      BY <1>3, <2>2 DEF Dispatch, StartOpen
    <3>2. ~Running("execute")'
      BY <2>2, <3>1 DEF Running
    <3> QED BY <3>1, <3>2 DEF Waiting
  <2>3. CASE Head(queue).command.kind = "execute"
    <3>1. job' = Head(queue) /\ cursor' = NextSeq
      BY <1>3, <2>3 DEF Dispatch, StartExecute
    <3>2. NextSeq \in Nat \ {0}
      BY LenProperties DEF NextSeq, Types, ChatType
    <3>3. ~Running("open")'
      BY <2>3, <3>1 DEF Running
    <3>4. cursor' \in Nat \ {0}
      BY <3>1, <3>2
    <3> QED BY <3>3, <3>4 DEF Waiting
  <2> QED BY <1>3, <2>1, <2>2, <2>3, Dispatched DEF StartClick, StartClose
<1>4. ASSUME NEW p \in Containers, Opened(p) PROVE Waiting'
  BY <1>1, <1>2, <1>4 DEF Opened, Finish
<1>5. CASE OpenTimesOut \/ Feedback \/ EndCleared \/ EndByExit
  BY <1>2, <1>5 DEF OpenTimesOut, Feedback, Finish, EndCleared, EndByExit, Abort
<1>6. ASSUME NEW c \in Callers, NEW command \in Commands, Call(c, command) PROVE Waiting'
  BY <1>1, <1>6 DEF Call, boxVars
<1>7. ASSUME NEW m \in Messages, Chat(m) PROVE Waiting'
  BY <1>1, <1>7 DEF Chat, boxVars
<1>8. CASE MenuCloses \/ Connect \/ UNCHANGED vars
  BY <1>1, <1>8 DEF MenuCloses, Connect, vars, boxVars
<1> QED BY <1>3, <1>4, <1>5, <1>6, <1>7, <1>8 DEF Next

\* The running command can rely on it in every behaviour.
LEMMA WaitingAlways == Spec => []Waiting
<1>1. Init => Waiting
  BY DEF Init, Waiting, Running
<1>2. RingInv /\ Waiting /\ [Next]_vars => Waiting'
  BY WaitingStep DEF RingInv
<1> QED BY <1>1, <1>2, RingAlways, PTL DEF Spec

\* handle_open_container checks again what the tool checked, so one handle is
\* never replaced by another.
THEOREM NotReplaced == Spec => HandleNotReplaced
<1>1. RingInv /\ Waiting /\ [Next]_vars => [handle # None /\ handle' # None => handle' = handle]_handle
  <2> SUFFICES ASSUME RingInv, Waiting, [Next]_vars, handle # None, handle' # None, handle' # handle
               PROVE  FALSE
    OBVIOUS
  <2>1. ASSUME NEW p \in Containers, Opened(p) PROVE FALSE
    BY <2>1 DEF Opened, Waiting
  <2>3. CASE Dispatch
    BY <2>3, Dispatched DEF StartOpen, StartClick, StartClose, StartExecute, boxVars, RingInv
  <2>2. ASSUME Next, ~Dispatch, \A p \in Containers : ~Opened(p)
        PROVE  handle' \in {None, handle}
    BY <2>2 DEF Next, Call, OpenTimesOut, MenuCloses, Feedback, Chat, Connect,
                EndCleared, EndByExit, boxVars
  <2> QED BY <2>1, <2>2, <2>3 DEF vars, boxVars
<1> QED BY <1>1, RingAlways, WaitingAlways, PTL DEF Spec, HandleNotReplaced

-----------------------------------------------------------------------------
(* The feedback of ExecuteCommand. *)

\* What the feedback window collects is what the log holds of it.
LEMMA FeedbackTail ==
  ASSUME Types, RingIsTail, cursor \in Nat \ {0}
  PROVE  (\E i \in Arrived(cursor) : ring[i] = "rejection") <=>
           (\E i \in cursor..Len(log) : i > Len(log) - Cap /\ log[i] = "rejection")
<1> DEFINE n == Len(log)
<1>1. n \in Nat
  BY LenProperties DEF Types, ChatType
<1>2. \A i : i \in Arrived(cursor) <=> i \in cursor..n /\ i > n - Cap
  BY <1>1, SessionAssumption DEF Arrived, RingIsTail
<1>3. \A i \in Arrived(cursor) : ring[i] = log[i]
  BY DEF Arrived, RingIsTail
<1> HIDE DEF n
<1> QED BY <1>2, <1>3 DEF n

\* A rejection that came in while the command waited, and only such a one, is
\* reported (rejection_feedback_after over chat_messages_since).
THEOREM Reported == Spec => RejectionReported
<1> DEFINE Told ==
      Running("execute") /\ job' = NoJob /\ online' =>
        (reply'[job.caller] = "rejected" <=>
           \E i \in cursor..Len(log) : i > Len(log) - Cap /\ log[i] = "rejection")
<1>1. RingInv /\ Waiting /\ [Next]_vars => [Told]_vars
  <2> SUFFICES ASSUME RingInv, Waiting, Next, Running("execute"), job' = NoJob, online'
               PROVE  reply'[job.caller] = "rejected" <=>
                        \E i \in cursor..Len(log) : i > Len(log) - Cap /\ log[i] = "rejection"
    OBVIOUS
  <2>1. job # NoJob /\ job \in Job /\ job' # job /\ ~Running("open")
    BY DEF Running, RingInv, Types, CallType
  <2>2. Feedback
    BY <2>1 DEF Next, Call, Dispatch, Opened, OpenTimesOut, MenuCloses, Chat, Connect,
                EndCleared, EndByExit
  <2>3. job.caller \in Callers
    BY <2>1 DEF Job
  <2>4. reply'[job.caller] = "rejected" <=>
          \E i \in Arrived(cursor) : ring[i] = "rejection"
    BY <2>2, <2>3 DEF Feedback, Finish, Answer, RingInv, Types, ReplyType
  <2> QED BY <2>4, FeedbackTail DEF RingInv, Waiting
<1> QED BY <1>1, RingAlways, WaitingAlways, PTL DEF Spec, RejectionReported

-----------------------------------------------------------------------------
(* The container service. *)

\* Each call that is queued or at work waits for its answer, and has one place.
Pending ==
  /\ \A i \in 1..Len(queue) : reply[queue[i].caller] = "waiting"
  /\ \A i, j \in 1..Len(queue) : i # j => queue[i].caller # queue[j].caller
  /\ job # NoJob =>
       /\ reply[job.caller] = "waiting"
       /\ \A i \in 1..Len(queue) : queue[i].caller # job.caller

\* The elements of a queue, of its tail, and of a queue with one more.
LEMMA QueueElements ==
  ASSUME Types
  PROVE  /\ Len(queue) \in Nat
         /\ \A i \in 1..Len(queue) : queue[i] \in Job /\ queue[i].caller \in Callers
         /\ queue # <<>> => /\ Len(queue) >= 1 /\ Head(queue) = queue[1]
                            /\ Len(Tail(queue)) = Len(queue) - 1
                            /\ \A i \in 1..Len(Tail(queue)) : Tail(queue)[i] = queue[i + 1]
         /\ \A e \in Job : /\ Len(Append(queue, e)) = Len(queue) + 1
                           /\ Append(queue, e)[Len(queue) + 1] = e
                           /\ \A i \in 1..Len(queue) : Append(queue, e)[i] = queue[i]
<1>1. queue \in Seq(Job)
  BY DEF Types, CallType
<1>2. Len(queue) \in Nat /\ \A i \in 1..Len(queue) : queue[i] \in Job
  BY <1>1
<1>3. \A e \in Job : e.caller \in Callers
  BY DEF Job
<1> HIDE DEF Job
<1>4. queue # <<>> => /\ Len(queue) >= 1 /\ Head(queue) = queue[1]
                     /\ Len(Tail(queue)) = Len(queue) - 1
                     /\ \A i \in 1..Len(Tail(queue)) : Tail(queue)[i] = queue[i + 1]
  BY <1>1
<1>5. \A e \in Job : /\ Len(Append(queue, e)) = Len(queue) + 1
                    /\ Append(queue, e)[Len(queue) + 1] = e
                    /\ \A i \in 1..Len(queue) : Append(queue, e)[i] = queue[i]
  BY <1>1
<1> QED BY <1>2, <1>3, <1>4, <1>5

\* Calls that keep their places, and their wait, keep the discipline.
LEMMA PendingKept ==
  ASSUME Types, Pending, queue' = queue, job' \in {job, NoJob},
         \A c \in Callers : reply'[c] = reply[c] \/ (job # NoJob /\ c = job.caller /\ job' = NoJob)
  PROVE  Pending'
<1>1. \A i \in 1..Len(queue) : queue[i].caller \in Callers
  BY QueueElements
<1>2. job # NoJob => job.caller \in Callers
  BY DEF Types, CallType, Job
<1> QED BY <1>1, <1>2 DEF Pending

\* The head of the queue is the call that is dispatched: no other has its place.
LEMMA HeadLeaves ==
  ASSUME Types, Pending, Dispatch
  PROVE  /\ Head(queue).caller \in Callers
         /\ reply[Head(queue).caller] = "waiting" /\ online /\ job = NoJob
         /\ \A i \in 1..Len(queue') :
              /\ reply[queue'[i].caller] = "waiting"
              /\ queue'[i].caller # Head(queue).caller /\ queue'[i].caller \in Callers
         /\ \A i, j \in 1..Len(queue') : i # j => queue'[i].caller # queue'[j].caller
<1>1. /\ online /\ job = NoJob /\ queue # <<>> /\ queue' = Tail(queue)
  BY DEF Dispatch
<1>2. /\ Len(queue) \in Nat /\ Len(queue) >= 1 /\ Head(queue) = queue[1]
      /\ Len(queue') = Len(queue) - 1
      /\ \A i \in 1..Len(queue') : queue'[i] = queue[i + 1]
  BY <1>1, QueueElements
<1>3. \A i \in 1..Len(queue) : queue[i].caller \in Callers
  BY QueueElements
<1>4. 1 \in 1..Len(queue) /\ \A i \in 1..Len(queue') : i + 1 \in 1..Len(queue) /\ i + 1 # 1
  BY <1>2
<1>5. \A i, j \in 1..Len(queue') : i # j => i + 1 # j + 1
  BY <1>2
<1> QED BY <1>1, <1>2, <1>3, <1>4, <1>5 DEF Pending

LEMMA PendingStep == ASSUME Types, Pending, [Next]_vars PROVE Pending'
<1> USE DEF callVars
<1>1. ASSUME NEW c \in Callers, NEW kind \in Commands, Call(c, kind) PROVE Pending'
  <2> DEFINE e == [caller |-> c, command |-> kind]
             n == Len(queue)
  <2>1. e \in Job /\ e.caller = c
    BY DEF Job
  <2>2. /\ reply[c] # "waiting" /\ job' = job
        /\ reply' = [reply EXCEPT ![c] = PreCheck(kind)]
        /\ queue' = IF PreCheck(kind) = "waiting" THEN Append(queue, e) ELSE queue
    BY <1>1 DEF Call
  <2>3. reply'[c] = PreCheck(kind) /\ \A d \in Callers : d # c => reply'[d] = reply[d]
    BY <2>2 DEF Types, ReplyType
  <2>4. /\ \A i \in 1..n : queue[i].caller \in Callers /\ queue[i].caller # c
        /\ job # NoJob => job.caller \in Callers /\ job.caller # c
    BY <2>2, QueueElements DEF Pending, Types, CallType, Job
  <2>5. CASE PreCheck(kind) # "waiting"
    BY <2>2, <2>3, <2>4, <2>5 DEF Pending
  <2>6. CASE PreCheck(kind) = "waiting"
    <3>1. /\ n \in Nat /\ Len(queue') = n + 1 /\ queue'[n + 1] = e
          /\ \A i \in 1..n : queue'[i] = queue[i]
      BY <2>1, <2>2, <2>6, QueueElements
    <3> HIDE DEF e, n
    <3>2. \A i \in 1..Len(queue') : i \in 1..n \/ i = n + 1
      BY <3>1
    <3>3. \A i \in 1..Len(queue') : reply'[queue'[i].caller] = "waiting"
      BY <2>1, <2>3, <2>4, <2>6, <3>1, <3>2 DEF Pending, n
    <3>4. \A i, j \in 1..Len(queue') : i # j => queue'[i].caller # queue'[j].caller
      BY <2>1, <2>4, <3>1, <3>2 DEF Pending, n
    <3>5. job' # NoJob => /\ reply'[job'.caller] = "waiting"
                         /\ \A i \in 1..Len(queue') : queue'[i].caller # job'.caller
      BY <2>1, <2>2, <2>3, <2>4, <3>1, <3>2 DEF Pending, n
    <3> QED BY <3>3, <3>4, <3>5 DEF Pending
  <2> QED BY <2>5, <2>6
<1>2. CASE Dispatch
  <2>1. \/ job' = NoJob /\ \E how : Answer(Head(queue).caller, how)
        \/ job' = Head(queue) /\ reply' = reply
    BY <1>2, Dispatched DEF Dispatch, StartOpen, StartClick, StartClose, StartExecute
  <2>2. \A i \in 1..Len(queue') : reply'[queue'[i].caller] = reply[queue'[i].caller]
    BY <1>2, <2>1, HeadLeaves DEF Answer, Types, ReplyType
  <2> QED BY <1>2, <2>1, <2>2, HeadLeaves DEF Pending
<1>3. ASSUME NEW p \in Containers, Opened(p) PROVE Pending'
  <2>1. CASE Running("open") /\ job.command.pos = p
    BY <1>3, <2>1, PendingKept DEF Opened, Finish, Answer, Running, Types, ReplyType
  <2>2. CASE ~(Running("open") /\ job.command.pos = p)
    BY <1>3, <2>2, PendingKept DEF Opened
  <2> QED BY <2>1, <2>2
<1>4. CASE OpenTimesOut \/ Feedback
  BY <1>4, PendingKept DEF OpenTimesOut, Feedback, Finish, Answer, Running, Types, ReplyType
<1>5. CASE EndCleared \/ EndByExit
  BY <1>5, PendingKept DEF EndCleared, EndByExit, Abort, Types, ReplyType
<1>6. CASE Connect
  <2>1. queue' = <<>> /\ job' = job /\ job = NoJob /\ Len(<<>>) = 0
    BY <1>6 DEF Connect, Types, Working
  <2> QED BY <2>1 DEF Pending
<1>7. ASSUME NEW m \in Messages, Chat(m) PROVE Pending'
  BY <1>7, PendingKept DEF Chat
<1>8. CASE MenuCloses \/ UNCHANGED vars
  BY <1>8, PendingKept DEF MenuCloses, vars
<1> QED BY <1>1, <1>2, <1>3, <1>4, <1>5, <1>6, <1>7, <1>8 DEF Next

LEMMA PendingAlways == Spec => []Pending
<1>1. Init => Pending
  BY DEF Init, Pending
<1>2. RingInv /\ Pending /\ [Next]_vars => Pending'
  BY PendingStep DEF RingInv
<1> QED BY <1>1, <1>2, RingAlways, PTL DEF Spec

\* An answer given by the executor is an answer of the service.
LEMMA AnswerOfService ==
  ASSUME NEW c \in Callers, NEW how, online, reply[c] = "waiting", Answer(c, how),
         UNCHANGED <<session, online>>
  PROVE  Service!Answer(c, how)
BY DEF Answer, Service!Answer

\* Every step is one of the service or leaves what it shows alone.
LEMMA ServiceStep ==
  ASSUME Types, Waiting, Pending, [Next]_vars
  PROVE  Service!Next \/ UNCHANGED Service!vars
<1> USE DEF connVars, callVars, boxVars, chatVars
<1>1. ASSUME NEW c \in Callers, NEW command \in Commands, Call(c, command) PROVE Service!Next
  <2>1. /\ reply[c] # "waiting" /\ reply' = [reply EXCEPT ![c] = PreCheck(command)]
        /\ UNCHANGED <<session, online, handle>>
    BY <1>1 DEF Call
  <2>2. /\ PreCheck(command) \in {"waiting", "offline", "already_open", "not_open"}
        /\ PreCheck(command) = "offline" <=> ~online
        /\ PreCheck(command) = "already_open" => handle # None
        /\ PreCheck(command) = "not_open" => handle = None
    BY DEF PreCheck
  <2>3. Service!Ask(c)
    BY <2>1, <2>2 DEF Service!Ask, Service!Holds
  <2> QED BY <2>3 DEF Service!Next
<1>2. CASE Dispatch
  <2> DEFINE c == Head(queue).caller
  <2>1. c \in Callers /\ reply[c] = "waiting" /\ online /\ UNCHANGED <<session, online>>
    BY <1>2, HeadLeaves DEF Dispatch
  <2> HIDE DEF c
  <2>2. CASE StartOpen
    <3>1. CASE handle # None
      <4>1. Answer(c, "already_open") /\ handle' = handle
        BY <2>2, <3>1 DEF StartOpen, c
      <4>2. Service!Answer(c, "already_open")
        BY <2>1, <4>1, AnswerOfService
      <4>3. Service!Tell(c)
        BY <3>1, <4>1, <4>2 DEF Service!Tell, Service!Holds
      <4> QED BY <2>1, <4>3 DEF Service!Next
    <3>2. CASE handle = None
      BY <1>2, <2>2, <3>2 DEF Dispatch, StartOpen, Service!vars
    <3> QED BY <3>1, <3>2
  <2>3. CASE StartClick
    <3>1. PICK how \in {"not_open", "full", "clicked"} :
            /\ Answer(c, how) /\ handle' = handle
            /\ IF handle = None THEN how = "not_open" ELSE how # "not_open"
      BY <2>3 DEF StartClick, c
    <3>2. Service!Answer(c, how)
      BY <2>1, <3>1, AnswerOfService
    <3>3. Service!Tell(c)
      BY <3>1, <3>2 DEF Service!Tell, Service!Holds
    <3> QED BY <2>1, <3>3 DEF Service!Next
  <2>4. CASE StartClose
    <3>1. Answer(c, "closed") /\ handle' = None
      BY <2>4 DEF StartClose, c
    <3>2. Service!Answer(c, "closed")
      BY <2>1, <3>1, AnswerOfService
    <3> QED BY <2>1, <3>1, <3>2 DEF Service!Next, Service!Close
  <2>5. CASE StartExecute
    BY <1>2, <2>5 DEF Dispatch, StartExecute, Service!vars
  <2> QED BY <1>2, <2>2, <2>3, <2>4, <2>5, Dispatched
<1>3. ASSUME job # NoJob, UNCHANGED <<session, online>>
      PROVE  job.caller \in Callers /\ reply[job.caller] = "waiting" /\ online
  BY <1>3 DEF Pending, Types, CallType, Working, Job
<1>4. ASSUME NEW p \in Containers, Opened(p) PROVE Service!Next \/ UNCHANGED Service!vars
  <2>1. CASE Running("open") /\ job.command.pos = p
    <3>1. /\ job # NoJob /\ handle = None /\ handle' = [pos |-> p, session |-> session]
          /\ Answer(job.caller, "opened") /\ UNCHANGED <<session, online>>
      BY <1>4, <2>1 DEF Opened, Finish, Waiting, Running
    <3>2. Service!Answer(job.caller, "opened")
      BY <1>3, <3>1, AnswerOfService
    <3>3. Service!Open(job.caller)
      BY <3>1, <3>2 DEF Service!Open
    <3> QED BY <1>3, <3>1, <3>3 DEF Service!Next
  <2>2. CASE ~(Running("open") /\ job.command.pos = p)
    BY <1>4, <2>2 DEF Opened, Service!vars
  <2> QED BY <2>1, <2>2
<1>5. CASE OpenTimesOut \/ Feedback
  <2>1. PICK how \in {"timeout", "rejected", "executed"} :
          job # NoJob /\ Answer(job.caller, how) /\ UNCHANGED <<session, online, handle>>
    BY <1>5 DEF OpenTimesOut, Feedback, Finish, Running
  <2>2. Service!Answer(job.caller, how)
    BY <1>3, <2>1, AnswerOfService
  <2>3. Service!Tell(job.caller)
    BY <2>1, <2>2 DEF Service!Tell, Service!Holds
  <2> QED BY <1>3, <2>1, <2>3 DEF Service!Next
<1>6. CASE Connect
  BY <1>6 DEF Connect, Service!Next, Service!Begin
<1>7. CASE EndCleared \/ EndByExit
  <2>1. /\ online /\ online' = FALSE /\ handle' \in {handle, None} /\ session' = session
        /\ reply' = IF job = NoJob THEN reply ELSE [reply EXCEPT ![job.caller] = "offline"]
    BY <1>7 DEF EndCleared, EndByExit, Abort
  <2>2. job # NoJob => job.caller \in Callers /\ reply[job.caller] = "waiting"
    BY DEF Pending, Types, CallType, Job
  <2>3. Service!End
    BY <2>1, <2>2 DEF Service!End
  <2> QED BY <2>3 DEF Service!Next
<1>8. ASSUME NEW m \in Messages, Chat(m) PROVE UNCHANGED Service!vars
  BY <1>8 DEF Chat, Service!vars
<1>9. CASE MenuCloses \/ UNCHANGED vars
  BY <1>9 DEF MenuCloses, vars, Service!vars
<1> QED BY <1>1, <1>2, <1>4, <1>5, <1>6, <1>7, <1>8, <1>9 DEF Next

\* The tools' checks, the executor's second ones, late windows and aborts
\* together keep the promise of one box about which every answer is true.
THEOREM SessionImplementsService == Spec => ServiceSpec
<1>1. Init => Service!Init
  BY DEF Init, Service!Init
<1>2. RingInv /\ Waiting /\ Pending /\ [Next]_vars => [Service!Next]_(Service!vars)
  BY ServiceStep DEF RingInv
<1> QED BY <1>1, <1>2, RingAlways, WaitingAlways, PendingAlways, PTL
        DEF ServiceSpec, Service!Spec, Spec
=============================================================================
