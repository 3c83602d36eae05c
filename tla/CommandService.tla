--------------------------- MODULE CommandService ---------------------------
(***************************************************************************)
(* What the command channel promises a tool call, without its buffer, its  *)
(* receiver lease and its sessions: a command runs at most once, commands  *)
(* run one at a time, and a caller that was told "rejected" may retry      *)
(* safely because its command has not run and never will.  A caller that   *)
(* was told "unknown" (a receive-leg CommandTimeout, a dropped responder)  *)
(* learns nothing: its command may have run or may still run.              *)
(***************************************************************************)
CONSTANT Call

VARIABLES phase,   \* [Call -> "new", "open", "running", "over"]
          result   \* [Call -> "none", "done", "rejected", "unknown"]

vars == <<phase, result>>

Init == /\ phase = [k \in Call |-> "new"]
        /\ result = [k \in Call |-> "none"]

Submit(k) == /\ phase[k] = "new"
             /\ phase' = [phase EXCEPT ![k] = "open"]
             /\ UNCHANGED result

Begin(k) == /\ phase[k] = "open"
            /\ result[k] # "rejected"
            /\ \A j \in Call : phase[j] # "running"
            /\ phase' = [phase EXCEPT ![k] = "running"]
            /\ UNCHANGED result

Answer(k, r) == result' = [result EXCEPT ![k] = IF @ = "none" THEN r ELSE @]

\* The command ends, completed or cut short.
End(k) == /\ phase[k] = "running"
          /\ phase' = [phase EXCEPT ![k] = "over"]
          /\ Answer(k, "done") \/ Answer(k, "unknown")

\* The command is discarded before it began.
Reject(k) == /\ phase[k] = "open"
             /\ phase' = [phase EXCEPT ![k] = "over"]
             /\ Answer(k, "rejected")

\* The caller stops waiting; the command keeps its place.
GiveUp(k) == /\ phase[k] \in {"open", "running"}
             /\ result[k] = "none"
             /\ result' = [result EXCEPT ![k] = "unknown"]
             /\ UNCHANGED phase

Next == \E k \in Call : Submit(k) \/ Begin(k) \/ End(k) \/ Reject(k) \/ GiveUp(k)

Spec == Init /\ [][Next]_vars
=============================================================================
