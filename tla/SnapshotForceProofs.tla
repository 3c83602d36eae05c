------------------------ MODULE SnapshotForceProofs ------------------------
(* SnapshotForce for any callers, tasks, failures and changes of the world. *)
EXTENDS SnapshotForce, FiniteSetTheorems, TLAPS

\* The initial state has its types.
LEMMA TypeInit == Init => TypeOK
  BY ForceAssumption DEF Init, TypeOK, Requester, TaskIds

\* Dropping senders leaves every channel in one of its states.
LEMMA DroppingType ==
  ASSUME TypeOK, NEW senders
  PROVE  Dropping(senders) \in [Callers -> {"none", "open", "sent", "closed"}]
  BY DEF TypeOK, Dropping

\* Every step keeps the types.
LEMMA TypeStep == ASSUME TypeOK, [Next]_vars PROVE TypeOK'
<1> USE ForceAssumption DEF TypeOK, Requester, TaskIds
<1>1. CASE Change
  BY <1>1 DEF Change
<1>2. CASE Tick
  BY <1>2 DEF Tick
<1>3. CASE Elapse
  BY <1>3 DEF Elapse
<1>4. CASE AbortTasks
  BY <1>4, DroppingType DEF AbortTasks
<1>5. ASSUME NEW c \in Callers, Request(c) PROVE TypeOK'
  BY <1>5, DroppingType DEF Request
<1>6. ASSUME NEW c \in Callers, Query(c) PROVE TypeOK'
  BY <1>6 DEF Query, Wake, ReadSnapshot
<1>7. ASSUME NEW c \in Callers, Expire(c) PROVE TypeOK'
  BY <1>7 DEF Expire
<1>8. ASSUME NEW i \in TaskIds, BuildSucceeds(i) PROVE TypeOK'
  BY <1>8 DEF BuildSucceeds, WithoutTasks
<1>9. ASSUME NEW i \in TaskIds, BuildFails(i) PROVE TypeOK'
  BY <1>9, DroppingType DEF BuildFails, WithoutTasks
<1>10. CASE UNCHANGED vars
  BY <1>10 DEF vars
<1> QED BY <1>1, <1>2, <1>3, <1>4, <1>5, <1>6, <1>7, <1>8, <1>9, <1>10
        DEF Next, Build

\* Every state of every behaviour is well-typed.
THEOREM TypeCorrect == Spec => []TypeOK
<1> QED BY TypeInit, TypeStep, PTL DEF Spec

-----------------------------------------------------------------------------
(* Fresh answers. *)

\* Nobody has asked, and nothing was built, later than now.
FreshInv ==
  /\ snapshot <= version
  /\ \A c \in Callers : asked[c] <= version
  /\ AnsweredFresh

\* A build reads the present world, so no step makes an answer old.
LEMMA FreshStep == ASSUME TypeOK, FreshInv, [Next]_vars PROVE FreshInv'
<1> USE ForceAssumption DEF TypeOK, FreshInv, AnsweredFresh
<1>1. CASE Change
  BY <1>1 DEF Change
<1>2. CASE Tick \/ Elapse
  BY <1>2 DEF Tick, Elapse
<1>3. CASE AbortTasks
  BY <1>3 DEF AbortTasks, Dropping
<1>4. ASSUME NEW c \in Callers, Request(c) PROVE FreshInv'
  BY <1>4 DEF Request, Dropping
<1>5. ASSUME NEW c \in Callers, Query(c) \/ Expire(c) PROVE FreshInv'
  BY <1>5 DEF Query, Wake, ReadSnapshot, Expire
<1>6. ASSUME NEW i \in TaskIds, BuildSucceeds(i) PROVE FreshInv'
  BY <1>6 DEF BuildSucceeds
<1>7. ASSUME NEW i \in TaskIds, BuildFails(i) PROVE FreshInv'
  BY <1>7 DEF BuildFails, Dropping
<1>8. CASE UNCHANGED vars
  BY <1>8 DEF vars
<1> QED BY <1>1, <1>2, <1>3, <1>4, <1>5, <1>6, <1>7, <1>8 DEF Next, Build

\* A caller whose request was answered reads a snapshot built after it asked.
THEOREM AnsweredAlwaysFresh == Spec => []AnsweredFresh
<1>1. Init => FreshInv
  BY ForceAssumption DEF Init, FreshInv, AnsweredFresh
<1>2. FreshInv => AnsweredFresh
  BY DEF FreshInv
<1> QED BY TypeCorrect, <1>1, <1>2, FreshStep, PTL DEF Spec

-----------------------------------------------------------------------------
(* One sender per open request. *)

Holders(c) == {i \in DOMAIN tasks : tasks[i] = c}

\* Where the sender of c is: in the slot or in one task while its channel is
\* open, nowhere before the request and after the end of the channel.
SenderInv ==
  \A c \in Callers :
    /\ pc[c] = "idle" <=> channel[c] = "none"
    /\ channel[c] # "open" => slot # c /\ Holders(c) = {}
    /\ channel[c] = "open" => \/ slot = c /\ Holders(c) = {}
                              \/ slot # c /\ \E i \in TaskIds : Holders(c) = {i}

\* Each step moves a sender, or drops it and closes its channel.
LEMMA SenderStep == ASSUME TypeOK, SenderInv, [Next]_vars PROVE SenderInv'
<1> USE ForceAssumption DEF TypeOK, SenderInv, Requester
<1>1. CASE Change \/ Elapse
  BY <1>1 DEF Change, Elapse, Holders
<1>2. CASE Tick
  <2>1. PICK i \in TaskIds \ DOMAIN tasks :
          tasks' = [j \in DOMAIN tasks \cup {i} |-> IF j = i THEN slot ELSE tasks[j]]
    BY <1>2 DEF Tick
  <2>2. \A c \in Callers : Holders(c)' = IF slot = c THEN Holders(c) \cup {i} ELSE Holders(c)
    BY <2>1 DEF Holders
  <2> QED BY <1>2, <2>2 DEF Tick
<1>3. CASE AbortTasks
  <2>1. \A c \in Callers : Holders(c)' = {}
    BY <1>3 DEF AbortTasks, Holders
  <2>2. \A c \in Callers : channel'[c] =
          IF channel[c] = "open" /\ Holders(c) # {} THEN "closed" ELSE channel[c]
    BY <1>3 DEF AbortTasks, Dropping, Holders
  <2>3. \A c \in Callers : channel[c] = "open" /\ slot # c => Holders(c) # {}
    OBVIOUS
  <2> QED BY <1>3, <2>1, <2>2, <2>3 DEF AbortTasks
<1>4. ASSUME NEW c \in Callers, Request(c) PROVE SenderInv'
  <2>1. \A d \in Callers : Holders(d)' = Holders(d)
    BY <1>4 DEF Request, Holders
  <2> QED BY <1>4, <2>1 DEF Request, Dropping
<1>5. ASSUME NEW c \in Callers, Query(c) \/ Expire(c) PROVE SenderInv'
  BY <1>5 DEF Query, Wake, ReadSnapshot, Expire, Holders
<1>6. ASSUME NEW i \in TaskIds, BuildSucceeds(i) PROVE SenderInv'
  <2>1. \A c \in Callers : Holders(c)' = Holders(c) \ {i}
    BY <1>6 DEF BuildSucceeds, WithoutTasks, Holders
  <2>2. \A c \in Callers : i \in Holders(c) <=> tasks[i] = c
    BY <1>6 DEF BuildSucceeds, Holders
  <2> QED BY <1>6, <2>1, <2>2 DEF BuildSucceeds
<1>7. ASSUME NEW i \in TaskIds, BuildFails(i) PROVE SenderInv'
  <2>1. \A c \in Callers : Holders(c)' = Holders(c) \ {i}
    BY <1>7 DEF BuildFails, WithoutTasks, Holders
  <2>2. \A c \in Callers : i \in Holders(c) <=> tasks[i] = c
    BY <1>7 DEF BuildFails, Holders
  <2> QED BY <1>7, <2>1, <2>2 DEF BuildFails, Dropping
<1>8. CASE UNCHANGED vars
  BY <1>8 DEF vars, Holders
<1> QED BY <1>1, <1>2, <1>3, <1>4, <1>5, <1>6, <1>7, <1>8 DEF Next, Build

\* A sender is neither lost nor doubled while its request is open.
THEOREM SenderAlwaysConserved == Spec => []SenderConserved
<1>1. Init => SenderInv
  BY ForceAssumption DEF Init, SenderInv, Holders
<1>2. SenderInv => SenderConserved
  <2> SUFFICES ASSUME SenderInv, NEW c \in Callers, channel[c] = "open"
               PROVE  Cardinality(Holders(c)) + (IF slot = c THEN 1 ELSE 0) = 1
    BY DEF SenderConserved, Holders
  <2>1. CASE slot = c /\ Holders(c) = {}
    BY <2>1, FS_EmptySet
  <2>2. ASSUME slot # c, NEW i \in TaskIds, Holders(c) = {i}
        PROVE  Cardinality(Holders(c)) = 1
    BY <2>2, FS_Singleton
  <2> QED BY <2>1, <2>2 DEF SenderInv
<1> QED BY TypeCorrect, <1>1, <1>2, SenderStep, PTL DEF Spec
=============================================================================
