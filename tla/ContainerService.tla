-------------------------- MODULE ContainerService --------------------------
(***************************************************************************)
(* What the container tools promise, without a queue, an executor or a     *)
(* window: there is at most one open container; a call gets one answer,    *)
(* and the answer is true of that container at the moment it is given,     *)
(* whatever the other callers and the end of the session do.               *)
(***************************************************************************)
EXTENDS Integers

CONSTANTS Callers, Containers, None

VARIABLES session, online,
          box,   \* the open container and the session it was opened in, or None
          reply  \* [Callers -> "idle", "waiting", or the answer to its call]

vars == <<session, online, box, reply>>

Init == /\ session = 0 /\ online = FALSE
        /\ box = None
        /\ reply = [c \in Callers |-> "idle"]

\* What may be said of the box without changing it.
Holds(how) ==
  \/ how \in {"already_open", "clicked", "full"} /\ box # None
  \/ how = "not_open" /\ box = None
  \/ how \in {"timeout", "rejected", "executed"}

\* A call is refused at once or waits.
Ask(c) == /\ reply[c] # "waiting"
          /\ \E how \in {"waiting", "offline", "already_open", "not_open"} :
               /\ how = "offline" <=> ~online
               /\ how \in {"already_open", "not_open"} => Holds(how)
               /\ reply' = [reply EXCEPT ![c] = how]
          /\ UNCHANGED <<session, online, box>>

Answer(c, how) == /\ online /\ reply[c] = "waiting"
                  /\ reply' = [reply EXCEPT ![c] = how]
                  /\ UNCHANGED <<session, online>>

Tell(c) == /\ \E how \in {"already_open", "not_open", "clicked", "full", "timeout",
                          "rejected", "executed"} : Holds(how) /\ Answer(c, how)
           /\ UNCHANGED box

Open(c) == /\ box = None
           /\ \E p \in Containers : box' = [pos |-> p, session |-> session]
           /\ Answer(c, "opened")

Close(c) == box' = None /\ Answer(c, "closed")

\* A session begins: no call of an earlier one waits any longer.
Begin == /\ ~online /\ online' = TRUE
         /\ session' = session + 1
         /\ reply' = [c \in Callers |-> IF reply[c] = "waiting" THEN "offline" ELSE reply[c]]
         /\ UNCHANGED box

\* A session ends, cleared or not, under at most one call that was at work.
End == /\ online /\ online' = FALSE
       /\ box' \in {box, None}
       /\ \/ UNCHANGED reply
          \/ \E c \in Callers : reply[c] = "waiting" /\ reply' = [reply EXCEPT ![c] = "offline"]
       /\ UNCHANGED session

Next == Begin \/ End \/ \E c \in Callers : Ask(c) \/ Tell(c) \/ Open(c) \/ Close(c)

Spec == Init /\ [][Next]_vars
=============================================================================
