------------------------- MODULE BotLifecycleProofs -------------------------
(* What holds of BotLifecycle for every set of agents, bound and mode. *)
EXTENDS BotLifecycle, TLAPS

-----------------------------------------------------------------------------
(* Types. *)

LEMMA TypeInit == Init => TypeOK
<1> SUFFICES ASSUME Init PROVE TypeOK
  OBVIOUS
<1>1. FlagsOK
  BY Zenon DEF Init, FlagsOK
<1>2. ControlOK
  BY LifecycleAssumption DEF Init, ControlOK, Entering, Finished, Updating
<1> QED BY <1>1, <1>2 DEF TypeOK

LEMMA FlagsStep == ASSUME FlagsOK, [Next]_vars PROVE FlagsOK'
<1> USE DEF FlagsOK, flags
<1>1. ASSUME NEW t \in Threads, RuntimeFails(t) PROVE FlagsOK'
  BY <1>1, Zenon DEF RuntimeFails, Spend, Goto
<1>2. ASSUME NEW t \in Threads, EntryClearDisconnect(t) PROVE FlagsOK'
  BY <1>2, Zenon DEF EntryClearDisconnect, Goto
<1>3. ASSUME NEW t \in Threads, EntryResetToken(t) PROVE FlagsOK'
  BY <1>3, Zenon DEF EntryResetToken, Orphaned, Goto
<1>4. ASSUME NEW t \in Threads, EntryTakeRestart(t) PROVE FlagsOK'
  BY <1>4, Zenon DEF EntryTakeRestart, Goto
<1>5. ASSUME NEW t \in Threads, EntryTakeLatch(t) PROVE FlagsOK'
  BY <1>5, Zenon DEF EntryTakeLatch, Goto
<1>6. ASSUME NEW t \in Threads, Dial(t) PROVE FlagsOK'
  BY <1>6, Zenon DEF Dial, Goto
<1>7. ASSUME NEW t \in Threads, Checkpoint(t) PROVE FlagsOK'
  BY <1>7, Zenon DEF Checkpoint, Goto
<1>8. ASSUME NEW t \in Threads, RestartClearDisconnect(t) PROVE FlagsOK'
  BY <1>8, Zenon DEF RestartClearDisconnect, Goto
<1>9. ASSUME NEW t \in Threads, RestartResetToken(t) PROVE FlagsOK'
  BY <1>9, Zenon DEF RestartResetToken, Orphaned, Goto
<1>10. ASSUME NEW t \in Threads, CancelStart(t) PROVE FlagsOK'
  BY <1>10, Zenon DEF CancelStart, WorldGone, Settled, Goto
<1>11. ASSUME NEW t \in Threads, CancelSetOffline(t) PROVE FlagsOK'
  BY <1>11, Zenon DEF CancelSetOffline, Goto
<1>12. ASSUME NEW t \in Threads, CancelClearEcs(t) PROVE FlagsOK'
  BY <1>12, Zenon DEF CancelClearEcs, Goto
<1>13. ASSUME NEW t \in Threads, CancelDecides(t) PROVE FlagsOK'
  BY <1>13, Zenon DEF CancelDecides, Goto
<1>14. ASSUME NEW t \in Threads, CancelTakeLatch(t) PROVE FlagsOK'
  BY <1>14, Zenon DEF CancelTakeLatch, Goto
<1>15. ASSUME NEW t \in Threads, TakeLatch(t) PROVE FlagsOK'
  BY <1>15, Zenon DEF TakeLatch, Goto
<1>16. ASSUME NEW t \in Threads, SetOffline(t) PROVE FlagsOK'
  BY <1>16, Zenon DEF SetOffline, Goto
<1>17. ASSUME NEW t \in Threads, RetryOrFail(t) PROVE FlagsOK'
  BY <1>17, Zenon DEF RetryOrFail, Goto
<1>18. ASSUME NEW t \in Threads, BackOff(t) PROVE FlagsOK'
  BY <1>18, Zenon DEF BackOff, Goto
<1>19. ASSUME NEW t \in Threads, SleepEnds(t) PROVE FlagsOK'
  BY <1>19, Zenon DEF SleepEnds, Goto
<1>20. ASSUME NEW t \in Threads, SleepCancelled(t) PROVE FlagsOK'
  BY <1>20, Zenon DEF SleepCancelled, Goto
<1>21. ASSUME NEW t \in Threads, ConnectReturns(t) PROVE FlagsOK'
  BY <1>21, Zenon DEF ConnectReturns, Goto
<1>22. ASSUME NEW t \in Threads, ThreadExits(t) PROVE FlagsOK'
  BY <1>22, Zenon DEF ThreadExits, Goto
<1>23. ASSUME NEW t \in Threads, StartReturns(t) PROVE FlagsOK'
  BY <1>23, Zenon DEF StartReturns, WorldGone, Settled, Spend, Goto
<1>24. ASSUME NEW t \in Threads, SpawnEvent(t) PROVE FlagsOK'
  BY <1>24, Zenon DEF SpawnEvent, Goto
<1>25. ASSUME NEW t \in Threads, Served(t) PROVE FlagsOK'
  BY <1>25, Zenon DEF Served, Settled
<1>26. ASSUME NEW t \in Threads, MarkSession(t) PROVE FlagsOK'
  BY <1>26, Zenon DEF MarkSession
<1>27. ASSUME NEW t \in Threads, Unserved(t) PROVE FlagsOK'
  BY <1>27, Zenon DEF Unserved, Settled
<1>28. ASSUME NEW t \in Threads, DisconnectEvent(t) PROVE FlagsOK'
  BY <1>28, Zenon DEF DisconnectEvent, Settled, Spend
<1>29. ASSUME NEW t \in Threads, ClearEcs(t) PROVE FlagsOK'
  BY <1>29, Zenon DEF ClearEcs
<1>30. ASSUME NEW t \in Threads, SendExit(t) PROVE FlagsOK'
  BY <1>30, Zenon DEF SendExit
<1>31. ASSUME NEW a \in Agents, ConnectCall(a) PROVE FlagsOK'
  BY <1>31, Zenon DEF ConnectCall, Idle, Spend, Step
<1>32. ASSUME NEW a \in Agents, ConnectClaim(a) PROVE FlagsOK'
  BY <1>32, Zenon DEF ConnectClaim, Claim, Headless, Step
<1>33. ASSUME NEW a \in Agents, ConnectBusy(a) PROVE FlagsOK'
  BY <1>33, Zenon DEF ConnectBusy, Step
<1>34. ASSUME NEW a \in Agents, ConnectJoin(a) PROVE FlagsOK'
  BY <1>34, Zenon DEF ConnectJoin, Step
<1>35. ASSUME NEW a \in Agents, ConnectFails(a) PROVE FlagsOK'
  BY <1>35, Zenon DEF ConnectFails, Spend, Step
<1>36. ASSUME NEW a \in Agents, ConnectStore(a) PROVE FlagsOK'
  BY <1>36, Zenon DEF ConnectStore, Step
<1>37. ASSUME NEW a \in Agents, DisconnectCall(a) PROVE FlagsOK'
  BY <1>37, Zenon DEF DisconnectCall, Idle, Spend, Step, Stopping
<1>38. ASSUME NEW a \in Agents, CancelToken(a) PROVE FlagsOK'
  BY <1>38, Zenon DEF CancelToken, Step
<1>39. ASSUME NEW a \in Agents, WriteExit(a) PROVE FlagsOK'
  BY <1>39, Zenon DEF WriteExit, WriteAppExit, Step
<1>40. ASSUME NEW a \in Agents, UpdateCall(a) PROVE FlagsOK'
  BY <1>40, Zenon DEF UpdateCall, Idle, Spend, Step
<1>41. ASSUME NEW a \in Agents, UpdateReads(a) PROVE FlagsOK'
  BY <1>41, Zenon DEF UpdateReads, Step
<1>42. ASSUME NEW a \in Agents, UpdateOffline(a) PROVE FlagsOK'
  BY <1>42, Zenon DEF UpdateOffline, Step
<1>43. ASSUME NEW a \in Agents, UpdateRestart(a) PROVE FlagsOK'
  BY <1>43, Zenon DEF UpdateRestart, Step
<1>44. ASSUME NEW a \in Agents, UpdateDisconnect(a) PROVE FlagsOK'
  BY <1>44, Zenon DEF UpdateDisconnect, Step
<1>45. ASSUME NEW a \in Agents, NEW t \in Threads, ConnectSpawn(a, t) PROVE FlagsOK'
  BY <1>45, Zenon DEF ConnectSpawn, NewThread, Free, Step, Goto
<1>46. CASE Decide
  BY <1>46, Zenon DEF Decide, SupGoto
<1>47. CASE ConsumeRestart
  BY <1>47, Zenon DEF ConsumeRestart, SupGoto
<1>48. CASE ClearRequest
  BY <1>48, Zenon DEF ClearRequest, SupGoto
<1>49. CASE IdleCheck
  BY <1>49, Zenon DEF IdleCheck, SupGoto
<1>50. CASE SupClaim
  BY <1>50, Zenon DEF SupClaim, Claim, SupGoto
<1>51. CASE SupSpawnFails
  BY <1>51, Zenon DEF SupSpawnFails, Spend, SupGoto
<1>52. CASE SpawnBackoff
  BY <1>52, Zenon DEF SpawnBackoff, SupGoto
<1>53. CASE SupStore
  BY <1>53, Zenon DEF SupStore, SupGoto
<1>54. CASE TakeHandle
  BY <1>54, Zenon DEF TakeHandle, SupGoto
<1>55. CASE InnerWait
  BY <1>55, Zenon DEF InnerWait, SupGoto
<1>56. CASE QuietWait
  BY <1>56, Zenon DEF QuietWait, SupGoto
<1>57. CASE SupDisconnect
  BY <1>57, Zenon DEF SupDisconnect, SupGoto
<1>58. CASE SupCancelToken
  BY <1>58, Zenon DEF SupCancelToken, SupGoto
<1>59. CASE SupWriteExit
  BY <1>59, Zenon DEF SupWriteExit, WriteAppExit, SupGoto
<1>60. CASE FinalJoin
  BY <1>60, Zenon DEF FinalJoin, SupGoto
<1>61. CASE Shutdown
  BY <1>61, Zenon DEF Shutdown
<1>62. ASSUME NEW t \in Threads, SupSpawn(t) PROVE FlagsOK'
  BY <1>62, Zenon DEF SupSpawn, NewThread, Free, SupGoto, Goto
<1>63. CASE UNCHANGED vars
  BY <1>63, Zenon DEF vars
<1> QED
  BY <1>1, <1>2, <1>3, <1>4, <1>5, <1>6, <1>7, <1>8, <1>9, <1>10, <1>11, <1>12,
     <1>13, <1>14, <1>15, <1>16, <1>17, <1>18, <1>19, <1>20, <1>21, <1>22, <1>23,
     <1>24, <1>25, <1>26, <1>27, <1>28, <1>29, <1>30, <1>31, <1>32, <1>33, <1>34,
     <1>35, <1>36, <1>37, <1>38, <1>39, <1>40, <1>41, <1>42, <1>43, <1>44, <1>45,
     <1>46, <1>47, <1>48, <1>49, <1>50, <1>51, <1>52, <1>53, <1>54, <1>55, <1>56,
     <1>57, <1>58, <1>59, <1>60, <1>61, <1>62, <1>63
  DEF Next, ThreadStep, LoopStep, DialEnds, SpawnHandled, DisconnectHandled, AgentStep,
      AgentCall, SupStep

LEMMA ControlStep == ASSUME ControlOK, [Next]_vars PROVE ControlOK'
<1> USE LifecycleAssumption DEF ControlOK, Kinds, Entering, Finished, Updating, session,
        threads, agents, supervisor, history
<1>1. ASSUME NEW t \in Threads, RuntimeFails(t) PROVE ControlOK'
  BY <1>1 DEF RuntimeFails, Spend, Goto
<1>2. ASSUME NEW t \in Threads, EntryClearDisconnect(t) PROVE ControlOK'
  BY <1>2 DEF EntryClearDisconnect, Goto
<1>3. ASSUME NEW t \in Threads, EntryResetToken(t) PROVE ControlOK'
  BY <1>3 DEF EntryResetToken, Orphaned, Goto
<1>4. ASSUME NEW t \in Threads, EntryTakeRestart(t) PROVE ControlOK'
  BY <1>4 DEF EntryTakeRestart, Goto
<1>5. ASSUME NEW t \in Threads, EntryTakeLatch(t) PROVE ControlOK'
  BY <1>5 DEF EntryTakeLatch, Goto
<1>6. ASSUME NEW t \in Threads, Dial(t) PROVE ControlOK'
  BY <1>6 DEF Dial, Goto
<1>7. ASSUME NEW t \in Threads, Checkpoint(t) PROVE ControlOK'
  BY <1>7 DEF Checkpoint, Goto
<1>8. ASSUME NEW t \in Threads, RestartClearDisconnect(t) PROVE ControlOK'
  BY <1>8 DEF RestartClearDisconnect, Goto
<1>9. ASSUME NEW t \in Threads, RestartResetToken(t) PROVE ControlOK'
  BY <1>9 DEF RestartResetToken, Orphaned, Goto
<1>10. ASSUME NEW t \in Threads, CancelStart(t) PROVE ControlOK'
  BY <1>10 DEF CancelStart, WorldGone, Settled, Goto
<1>11. ASSUME NEW t \in Threads, CancelSetOffline(t) PROVE ControlOK'
  BY <1>11 DEF CancelSetOffline, Goto
<1>12. ASSUME NEW t \in Threads, CancelClearEcs(t) PROVE ControlOK'
  BY <1>12 DEF CancelClearEcs, Goto
<1>13. ASSUME NEW t \in Threads, CancelDecides(t) PROVE ControlOK'
  BY <1>13 DEF CancelDecides, Goto
<1>14. ASSUME NEW t \in Threads, CancelTakeLatch(t) PROVE ControlOK'
  BY <1>14 DEF CancelTakeLatch, Goto
<1>15. ASSUME NEW t \in Threads, TakeLatch(t) PROVE ControlOK'
  BY <1>15 DEF TakeLatch, Goto
<1>16. ASSUME NEW t \in Threads, SetOffline(t) PROVE ControlOK'
  BY <1>16 DEF SetOffline, Goto
<1>17. ASSUME NEW t \in Threads, RetryOrFail(t) PROVE ControlOK'
  BY <1>17 DEF RetryOrFail, Goto
<1>18. ASSUME NEW t \in Threads, BackOff(t) PROVE ControlOK'
  BY <1>18 DEF BackOff, Goto
<1>19. ASSUME NEW t \in Threads, SleepEnds(t) PROVE ControlOK'
  BY <1>19 DEF SleepEnds, Goto
<1>20. ASSUME NEW t \in Threads, SleepCancelled(t) PROVE ControlOK'
  BY <1>20 DEF SleepCancelled, Goto
<1>21. ASSUME NEW t \in Threads, ConnectReturns(t) PROVE ControlOK'
  BY <1>21 DEF ConnectReturns, Goto
<1>22. ASSUME NEW t \in Threads, ThreadExits(t) PROVE ControlOK'
  BY <1>22 DEF ThreadExits, Goto
<1>23. ASSUME NEW t \in Threads, StartReturns(t) PROVE ControlOK'
  BY <1>23 DEF StartReturns, WorldGone, Settled, Spend, Goto
<1>24. ASSUME NEW t \in Threads, SpawnEvent(t) PROVE ControlOK'
  BY <1>24 DEF SpawnEvent, Goto
<1>25. ASSUME NEW t \in Threads, Served(t) PROVE ControlOK'
  BY <1>25 DEF Served, Settled
<1>26. ASSUME NEW t \in Threads, MarkSession(t) PROVE ControlOK'
  BY <1>26 DEF MarkSession
<1>27. ASSUME NEW t \in Threads, Unserved(t) PROVE ControlOK'
  BY <1>27 DEF Unserved, Settled
<1>28. ASSUME NEW t \in Threads, DisconnectEvent(t) PROVE ControlOK'
  BY <1>28 DEF DisconnectEvent, Settled, Spend
<1>29. ASSUME NEW t \in Threads, ClearEcs(t) PROVE ControlOK'
  BY <1>29 DEF ClearEcs
<1>30. ASSUME NEW t \in Threads, SendExit(t) PROVE ControlOK'
  BY <1>30 DEF SendExit
<1>31. ASSUME NEW a \in Agents, ConnectCall(a) PROVE ControlOK'
  BY <1>31 DEF ConnectCall, Idle, Spend, Step
<1>32. ASSUME NEW a \in Agents, ConnectClaim(a) PROVE ControlOK'
  BY <1>32 DEF ConnectClaim, Claim, Headless, Step
<1>33. ASSUME NEW a \in Agents, ConnectBusy(a) PROVE ControlOK'
  BY <1>33 DEF ConnectBusy, Step
<1>34. ASSUME NEW a \in Agents, ConnectJoin(a) PROVE ControlOK'
  BY <1>34 DEF ConnectJoin, Step
<1>35. ASSUME NEW a \in Agents, ConnectFails(a) PROVE ControlOK'
  BY <1>35 DEF ConnectFails, Spend, Step
<1>36. ASSUME NEW a \in Agents, ConnectStore(a) PROVE ControlOK'
  BY <1>36 DEF ConnectStore, Step
<1>37. ASSUME NEW a \in Agents, DisconnectCall(a) PROVE ControlOK'
  BY <1>37 DEF DisconnectCall, Idle, Spend, Step, Stopping
<1>38. ASSUME NEW a \in Agents, CancelToken(a) PROVE ControlOK'
  BY <1>38 DEF CancelToken, Step
<1>39. ASSUME NEW a \in Agents, WriteExit(a) PROVE ControlOK'
  BY <1>39 DEF WriteExit, WriteAppExit, Step
<1>40. ASSUME NEW a \in Agents, UpdateCall(a) PROVE ControlOK'
  BY <1>40 DEF UpdateCall, Idle, Spend, Step
<1>41. ASSUME NEW a \in Agents, UpdateReads(a) PROVE ControlOK'
  BY <1>41 DEF UpdateReads, Step
<1>42. ASSUME NEW a \in Agents, UpdateOffline(a) PROVE ControlOK'
  BY <1>42 DEF UpdateOffline, Step
<1>43. ASSUME NEW a \in Agents, UpdateRestart(a) PROVE ControlOK'
  BY <1>43 DEF UpdateRestart, Step
<1>44. ASSUME NEW a \in Agents, UpdateDisconnect(a) PROVE ControlOK'
  BY <1>44 DEF UpdateDisconnect, Step
<1>45. ASSUME NEW a \in Agents, NEW t \in Threads, ConnectSpawn(a, t) PROVE ControlOK'
  BY <1>45 DEF ConnectSpawn, NewThread, Free, Step, Goto
<1>46. CASE Decide
  BY <1>46 DEF Decide, SupGoto
<1>47. CASE ConsumeRestart
  BY <1>47 DEF ConsumeRestart, SupGoto
<1>48. CASE ClearRequest
  BY <1>48 DEF ClearRequest, SupGoto
<1>49. CASE IdleCheck
  BY <1>49 DEF IdleCheck, SupGoto
<1>50. CASE SupClaim
  BY <1>50 DEF SupClaim, Claim, SupGoto
<1>51. CASE SupSpawnFails
  BY <1>51 DEF SupSpawnFails, Spend, SupGoto
<1>52. CASE SpawnBackoff
  BY <1>52 DEF SpawnBackoff, SupGoto
<1>53. CASE SupStore
  BY <1>53 DEF SupStore, SupGoto
<1>54. CASE TakeHandle
  BY <1>54 DEF TakeHandle, SupGoto
<1>55. CASE InnerWait
  BY <1>55 DEF InnerWait, SupGoto
<1>56. CASE QuietWait
  BY <1>56 DEF QuietWait, SupGoto
<1>57. CASE SupDisconnect
  BY <1>57 DEF SupDisconnect, SupGoto
<1>58. CASE SupCancelToken
  BY <1>58 DEF SupCancelToken, SupGoto
<1>59. CASE SupWriteExit
  BY <1>59 DEF SupWriteExit, WriteAppExit, SupGoto
<1>60. CASE FinalJoin
  BY <1>60 DEF FinalJoin, SupGoto
<1>61. CASE Shutdown
  BY <1>61 DEF Shutdown
<1>62. ASSUME NEW t \in Threads, SupSpawn(t) PROVE ControlOK'
  BY <1>62 DEF SupSpawn, NewThread, Free, SupGoto, Goto
<1>63. CASE UNCHANGED vars
  BY <1>63 DEF vars
<1> QED
  BY <1>1, <1>2, <1>3, <1>4, <1>5, <1>6, <1>7, <1>8, <1>9, <1>10, <1>11, <1>12,
     <1>13, <1>14, <1>15, <1>16, <1>17, <1>18, <1>19, <1>20, <1>21, <1>22, <1>23,
     <1>24, <1>25, <1>26, <1>27, <1>28, <1>29, <1>30, <1>31, <1>32, <1>33, <1>34,
     <1>35, <1>36, <1>37, <1>38, <1>39, <1>40, <1>41, <1>42, <1>43, <1>44, <1>45,
     <1>46, <1>47, <1>48, <1>49, <1>50, <1>51, <1>52, <1>53, <1>54, <1>55, <1>56,
     <1>57, <1>58, <1>59, <1>60, <1>61, <1>62, <1>63
  DEF Next, ThreadStep, LoopStep, DialEnds, SpawnHandled, DisconnectHandled, AgentStep,
      AgentCall, SupStep

\* Every state of every behaviour is well-typed.
THEOREM TypeCorrect == Spec => []TypeOK
<1>1. TypeOK /\ [Next]_vars => TypeOK'
  BY FlagsStep, ControlStep DEF TypeOK
<1> QED BY TypeInit, <1>1, PTL DEF Spec
-----------------------------------------------------------------------------
(* Sessions. *)

\* Only a thread inside start() has a session, and only a session whose spawn
\* event came has a handle_spawn under way; the online flag is up for such a
\* session, or for one that ended and whose loop has yet to lower it.
SessionInv ==
  /\ \A t \in Threads : world[t] # "none" => loop[t] = "start"
  /\ \A t \in Threads : joining[t] # "no" => world[t] \in {"joined", "leaving", "left"}
  /\ OnlineIsLowered

LEMMA SessionStep == ASSUME ControlOK, SessionInv, [Next]_vars PROVE SessionInv'
<1> USE DEF ControlOK, SessionInv, OnlineIsLowered, InSession, Lowering, flags, session, threads, agents,
        supervisor, history, Entering, Finished
<1>1. ASSUME NEW t \in Threads, RuntimeFails(t) PROVE SessionInv'
  BY <1>1 DEF RuntimeFails, Spend, Goto
<1>2. ASSUME NEW t \in Threads, EntryClearDisconnect(t) PROVE SessionInv'
  BY <1>2 DEF EntryClearDisconnect, Goto
<1>3. ASSUME NEW t \in Threads, EntryResetToken(t) PROVE SessionInv'
  BY <1>3 DEF EntryResetToken, Orphaned, Goto
<1>4. ASSUME NEW t \in Threads, EntryTakeRestart(t) PROVE SessionInv'
  BY <1>4 DEF EntryTakeRestart, Goto
<1>5. ASSUME NEW t \in Threads, EntryTakeLatch(t) PROVE SessionInv'
  BY <1>5 DEF EntryTakeLatch, Goto
<1>6. ASSUME NEW t \in Threads, Dial(t) PROVE SessionInv'
  BY <1>6 DEF Dial, Goto
<1>7. ASSUME NEW t \in Threads, Checkpoint(t) PROVE SessionInv'
  BY <1>7 DEF Checkpoint, Goto
<1>8. ASSUME NEW t \in Threads, RestartClearDisconnect(t) PROVE SessionInv'
  BY <1>8 DEF RestartClearDisconnect, Goto
<1>9. ASSUME NEW t \in Threads, RestartResetToken(t) PROVE SessionInv'
  BY <1>9 DEF RestartResetToken, Orphaned, Goto
<1>10. ASSUME NEW t \in Threads, CancelStart(t) PROVE SessionInv'
  BY <1>10 DEF CancelStart, WorldGone, Settled, Goto
<1>11. ASSUME NEW t \in Threads, CancelSetOffline(t) PROVE SessionInv'
  BY <1>11 DEF CancelSetOffline, Goto
<1>12. ASSUME NEW t \in Threads, CancelClearEcs(t) PROVE SessionInv'
  BY <1>12 DEF CancelClearEcs, Goto
<1>13. ASSUME NEW t \in Threads, CancelDecides(t) PROVE SessionInv'
  BY <1>13 DEF CancelDecides, Goto
<1>14. ASSUME NEW t \in Threads, CancelTakeLatch(t) PROVE SessionInv'
  BY <1>14 DEF CancelTakeLatch, Goto
<1>15. ASSUME NEW t \in Threads, TakeLatch(t) PROVE SessionInv'
  BY <1>15 DEF TakeLatch, Goto
<1>16. ASSUME NEW t \in Threads, SetOffline(t) PROVE SessionInv'
  BY <1>16 DEF SetOffline, Goto
<1>17. ASSUME NEW t \in Threads, RetryOrFail(t) PROVE SessionInv'
  BY <1>17 DEF RetryOrFail, Goto
<1>18. ASSUME NEW t \in Threads, BackOff(t) PROVE SessionInv'
  BY <1>18 DEF BackOff, Goto
<1>19. ASSUME NEW t \in Threads, SleepEnds(t) PROVE SessionInv'
  BY <1>19 DEF SleepEnds, Goto
<1>20. ASSUME NEW t \in Threads, SleepCancelled(t) PROVE SessionInv'
  BY <1>20 DEF SleepCancelled, Goto
<1>21. ASSUME NEW t \in Threads, ConnectReturns(t) PROVE SessionInv'
  BY <1>21 DEF ConnectReturns, Goto
<1>22. ASSUME NEW t \in Threads, ThreadExits(t) PROVE SessionInv'
  BY <1>22 DEF ThreadExits, Goto
<1>23. ASSUME NEW t \in Threads, StartReturns(t) PROVE SessionInv'
  BY <1>23 DEF StartReturns, WorldGone, Settled, Spend, Goto
<1>24. ASSUME NEW t \in Threads, SpawnEvent(t) PROVE SessionInv'
  BY <1>24 DEF SpawnEvent, Goto
<1>25. ASSUME NEW t \in Threads, Served(t) PROVE SessionInv'
  BY <1>25 DEF Served, Settled
<1>26. ASSUME NEW t \in Threads, MarkSession(t) PROVE SessionInv'
  BY <1>26 DEF MarkSession
<1>27. ASSUME NEW t \in Threads, Unserved(t) PROVE SessionInv'
  BY <1>27 DEF Unserved, Settled
<1>28. ASSUME NEW t \in Threads, DisconnectEvent(t) PROVE SessionInv'
  BY <1>28 DEF DisconnectEvent, Settled, Spend
<1>29. ASSUME NEW t \in Threads, ClearEcs(t) PROVE SessionInv'
  BY <1>29 DEF ClearEcs
<1>30. ASSUME NEW t \in Threads, SendExit(t) PROVE SessionInv'
  BY <1>30 DEF SendExit
<1>31. ASSUME NEW a \in Agents, ConnectCall(a) PROVE SessionInv'
  BY <1>31 DEF ConnectCall, Idle, Spend, Step
<1>32. ASSUME NEW a \in Agents, ConnectClaim(a) PROVE SessionInv'
  BY <1>32 DEF ConnectClaim, Claim, Headless, Step
<1>33. ASSUME NEW a \in Agents, ConnectBusy(a) PROVE SessionInv'
  BY <1>33 DEF ConnectBusy, Step
<1>34. ASSUME NEW a \in Agents, ConnectJoin(a) PROVE SessionInv'
  BY <1>34 DEF ConnectJoin, Step
<1>35. ASSUME NEW a \in Agents, ConnectFails(a) PROVE SessionInv'
  BY <1>35 DEF ConnectFails, Spend, Step
<1>36. ASSUME NEW a \in Agents, ConnectStore(a) PROVE SessionInv'
  BY <1>36 DEF ConnectStore, Step
<1>37. ASSUME NEW a \in Agents, DisconnectCall(a) PROVE SessionInv'
  BY <1>37 DEF DisconnectCall, Idle, Spend, Step, Stopping
<1>38. ASSUME NEW a \in Agents, CancelToken(a) PROVE SessionInv'
  BY <1>38 DEF CancelToken, Step
<1>39. ASSUME NEW a \in Agents, WriteExit(a) PROVE SessionInv'
  BY <1>39 DEF WriteExit, WriteAppExit, Step
<1>40. ASSUME NEW a \in Agents, UpdateCall(a) PROVE SessionInv'
  BY <1>40 DEF UpdateCall, Idle, Spend, Step
<1>41. ASSUME NEW a \in Agents, UpdateReads(a) PROVE SessionInv'
  BY <1>41 DEF UpdateReads, Step
<1>42. ASSUME NEW a \in Agents, UpdateOffline(a) PROVE SessionInv'
  BY <1>42 DEF UpdateOffline, Step
<1>43. ASSUME NEW a \in Agents, UpdateRestart(a) PROVE SessionInv'
  BY <1>43 DEF UpdateRestart, Step
<1>44. ASSUME NEW a \in Agents, UpdateDisconnect(a) PROVE SessionInv'
  BY <1>44 DEF UpdateDisconnect, Step
<1>45. ASSUME NEW a \in Agents, NEW t \in Threads, ConnectSpawn(a, t) PROVE SessionInv'
  BY <1>45 DEF ConnectSpawn, NewThread, Free, Step, Goto
<1>46. CASE Decide
  BY <1>46 DEF Decide, SupGoto
<1>47. CASE ConsumeRestart
  BY <1>47 DEF ConsumeRestart, SupGoto
<1>48. CASE ClearRequest
  BY <1>48 DEF ClearRequest, SupGoto
<1>49. CASE IdleCheck
  BY <1>49 DEF IdleCheck, SupGoto
<1>50. CASE SupClaim
  BY <1>50 DEF SupClaim, Claim, SupGoto
<1>51. CASE SupSpawnFails
  BY <1>51 DEF SupSpawnFails, Spend, SupGoto
<1>52. CASE SpawnBackoff
  BY <1>52 DEF SpawnBackoff, SupGoto
<1>53. CASE SupStore
  BY <1>53 DEF SupStore, SupGoto
<1>54. CASE TakeHandle
  BY <1>54 DEF TakeHandle, SupGoto
<1>55. CASE InnerWait
  BY <1>55 DEF InnerWait, SupGoto
<1>56. CASE QuietWait
  BY <1>56 DEF QuietWait, SupGoto
<1>57. CASE SupDisconnect
  BY <1>57 DEF SupDisconnect, SupGoto
<1>58. CASE SupCancelToken
  BY <1>58 DEF SupCancelToken, SupGoto
<1>59. CASE SupWriteExit
  BY <1>59 DEF SupWriteExit, WriteAppExit, SupGoto
<1>60. CASE FinalJoin
  BY <1>60 DEF FinalJoin, SupGoto
<1>61. CASE Shutdown
  BY <1>61 DEF Shutdown
<1>62. ASSUME NEW t \in Threads, SupSpawn(t) PROVE SessionInv'
  BY <1>62 DEF SupSpawn, NewThread, Free, SupGoto, Goto
<1>63. CASE UNCHANGED vars
  BY <1>63 DEF vars
<1> QED
  BY <1>1, <1>2, <1>3, <1>4, <1>5, <1>6, <1>7, <1>8, <1>9, <1>10, <1>11, <1>12,
     <1>13, <1>14, <1>15, <1>16, <1>17, <1>18, <1>19, <1>20, <1>21, <1>22, <1>23,
     <1>24, <1>25, <1>26, <1>27, <1>28, <1>29, <1>30, <1>31, <1>32, <1>33, <1>34,
     <1>35, <1>36, <1>37, <1>38, <1>39, <1>40, <1>41, <1>42, <1>43, <1>44, <1>45,
     <1>46, <1>47, <1>48, <1>49, <1>50, <1>51, <1>52, <1>53, <1>54, <1>55, <1>56,
     <1>57, <1>58, <1>59, <1>60, <1>61, <1>62, <1>63
  DEF Next, ThreadStep, LoopStep, DialEnds, SpawnHandled, DisconnectHandled, AgentStep,
      AgentCall, SupStep

\* While the bot is reported online, some thread is in a session or its loop has
\* yet to lower the flag; a second loop (ConnectDuringTeardown) does not change it.
THEOREM OnlineAlwaysLowered == Spec => []OnlineIsLowered
<1>1. Init => SessionInv
  BY DEF Init, SessionInv, OnlineIsLowered
<1>2. TypeOK /\ SessionInv /\ [Next]_vars => SessionInv'
  BY SessionStep DEF TypeOK
<1>3. SessionInv => OnlineIsLowered
  BY DEF SessionInv
<1> QED BY TypeCorrect, <1>1, <1>2, <1>3, PTL DEF Spec

-----------------------------------------------------------------------------
(* The connecting flag. *)

\* Who holds the connecting flag: an agent or the supervisor that has claimed
\* it and spawned nothing yet, or a thread until it is gone.  At most one does,
\* and the flag is up until the holder, a thread, has returned from connect().
OwnerInv ==
  /\ \A t, u \in Threads : loop[t] # "gone" /\ loop[u] # "gone" => t = u
  /\ \A a, b \in Agents :
       agent[a] \in {"join", "spawn"} /\ agent[b] \in {"join", "spawn"} => a = b
  /\ \A a \in Agents : agent[a] \in {"join", "spawn"} =>
       connecting /\ sup # "spawn" /\ \A t \in Threads : loop[t] = "gone"
  /\ sup = "spawn" => connecting /\ \A t \in Threads : loop[t] = "gone"
  /\ \A t \in LiveLoops : connecting

LEMMA OwnerStep ==
  ASSUME ~ConnectDuringTeardown, ControlOK, OwnerInv, [Next]_vars PROVE OwnerInv'
<1> USE DEF ControlOK, OwnerInv, LiveLoops, flags, session, threads, agents, supervisor,
        history, Entering, Finished, Updating
<1>1. ASSUME NEW t \in Threads, RuntimeFails(t) PROVE OwnerInv'
  BY <1>1 DEF RuntimeFails, Spend, Goto
<1>2. ASSUME NEW t \in Threads, EntryClearDisconnect(t) PROVE OwnerInv'
  BY <1>2 DEF EntryClearDisconnect, Goto
<1>3. ASSUME NEW t \in Threads, EntryResetToken(t) PROVE OwnerInv'
  BY <1>3 DEF EntryResetToken, Orphaned, Goto
<1>4. ASSUME NEW t \in Threads, EntryTakeRestart(t) PROVE OwnerInv'
  BY <1>4 DEF EntryTakeRestart, Goto
<1>5. ASSUME NEW t \in Threads, EntryTakeLatch(t) PROVE OwnerInv'
  BY <1>5 DEF EntryTakeLatch, Goto
<1>6. ASSUME NEW t \in Threads, Dial(t) PROVE OwnerInv'
  BY <1>6 DEF Dial, Goto
<1>7. ASSUME NEW t \in Threads, Checkpoint(t) PROVE OwnerInv'
  BY <1>7 DEF Checkpoint, Goto
<1>8. ASSUME NEW t \in Threads, RestartClearDisconnect(t) PROVE OwnerInv'
  BY <1>8 DEF RestartClearDisconnect, Goto
<1>9. ASSUME NEW t \in Threads, RestartResetToken(t) PROVE OwnerInv'
  BY <1>9 DEF RestartResetToken, Orphaned, Goto
<1>10. ASSUME NEW t \in Threads, CancelStart(t) PROVE OwnerInv'
  BY <1>10 DEF CancelStart, WorldGone, Settled, Goto
<1>11. ASSUME NEW t \in Threads, CancelSetOffline(t) PROVE OwnerInv'
  BY <1>11 DEF CancelSetOffline, Goto
<1>12. ASSUME NEW t \in Threads, CancelClearEcs(t) PROVE OwnerInv'
  BY <1>12 DEF CancelClearEcs, Goto
<1>13. ASSUME NEW t \in Threads, CancelDecides(t) PROVE OwnerInv'
  BY <1>13 DEF CancelDecides, Goto
<1>14. ASSUME NEW t \in Threads, CancelTakeLatch(t) PROVE OwnerInv'
  BY <1>14 DEF CancelTakeLatch, Goto
<1>15. ASSUME NEW t \in Threads, TakeLatch(t) PROVE OwnerInv'
  BY <1>15 DEF TakeLatch, Goto
<1>16. ASSUME NEW t \in Threads, SetOffline(t) PROVE OwnerInv'
  BY <1>16 DEF SetOffline, Goto
<1>17. ASSUME NEW t \in Threads, RetryOrFail(t) PROVE OwnerInv'
  BY <1>17 DEF RetryOrFail, Goto
<1>18. ASSUME NEW t \in Threads, BackOff(t) PROVE OwnerInv'
  BY <1>18 DEF BackOff, Goto
<1>19. ASSUME NEW t \in Threads, SleepEnds(t) PROVE OwnerInv'
  BY <1>19 DEF SleepEnds, Goto
<1>20. ASSUME NEW t \in Threads, SleepCancelled(t) PROVE OwnerInv'
  BY <1>20 DEF SleepCancelled, Goto
<1>21. ASSUME NEW t \in Threads, ConnectReturns(t) PROVE OwnerInv'
  BY <1>21 DEF ConnectReturns, Goto
<1>22. ASSUME NEW t \in Threads, ThreadExits(t) PROVE OwnerInv'
  BY <1>22 DEF ThreadExits, Goto
<1>23. ASSUME NEW t \in Threads, StartReturns(t) PROVE OwnerInv'
  BY <1>23 DEF StartReturns, WorldGone, Settled, Spend, Goto
<1>24. ASSUME NEW t \in Threads, SpawnEvent(t) PROVE OwnerInv'
  BY <1>24 DEF SpawnEvent, Goto
<1>25. ASSUME NEW t \in Threads, Served(t) PROVE OwnerInv'
  BY <1>25 DEF Served, Settled
<1>26. ASSUME NEW t \in Threads, MarkSession(t) PROVE OwnerInv'
  BY <1>26 DEF MarkSession
<1>27. ASSUME NEW t \in Threads, Unserved(t) PROVE OwnerInv'
  BY <1>27 DEF Unserved, Settled
<1>28. ASSUME NEW t \in Threads, DisconnectEvent(t) PROVE OwnerInv'
  BY <1>28 DEF DisconnectEvent, Settled, Spend
<1>29. ASSUME NEW t \in Threads, ClearEcs(t) PROVE OwnerInv'
  BY <1>29 DEF ClearEcs
<1>30. ASSUME NEW t \in Threads, SendExit(t) PROVE OwnerInv'
  BY <1>30 DEF SendExit
<1>31. ASSUME NEW a \in Agents, ConnectCall(a) PROVE OwnerInv'
  BY <1>31 DEF ConnectCall, Idle, Spend, Step
<1>32. ASSUME NEW a \in Agents, ConnectClaim(a) PROVE OwnerInv'
  BY <1>32 DEF ConnectClaim, Claim, Headless, Step
<1>33. ASSUME NEW a \in Agents, ConnectBusy(a) PROVE OwnerInv'
  BY <1>33 DEF ConnectBusy, Step
<1>34. ASSUME NEW a \in Agents, ConnectJoin(a) PROVE OwnerInv'
  BY <1>34 DEF ConnectJoin, Step
<1>35. ASSUME NEW a \in Agents, ConnectFails(a) PROVE OwnerInv'
  BY <1>35 DEF ConnectFails, Spend, Step
<1>36. ASSUME NEW a \in Agents, ConnectStore(a) PROVE OwnerInv'
  BY <1>36 DEF ConnectStore, Step
<1>37. ASSUME NEW a \in Agents, DisconnectCall(a) PROVE OwnerInv'
  BY <1>37 DEF DisconnectCall, Idle, Spend, Step, Stopping
<1>38. ASSUME NEW a \in Agents, CancelToken(a) PROVE OwnerInv'
  BY <1>38 DEF CancelToken, Step
<1>39. ASSUME NEW a \in Agents, WriteExit(a) PROVE OwnerInv'
  BY <1>39 DEF WriteExit, WriteAppExit, Step
<1>40. ASSUME NEW a \in Agents, UpdateCall(a) PROVE OwnerInv'
  BY <1>40 DEF UpdateCall, Idle, Spend, Step
<1>41. ASSUME NEW a \in Agents, UpdateReads(a) PROVE OwnerInv'
  BY <1>41 DEF UpdateReads, Step
<1>42. ASSUME NEW a \in Agents, UpdateOffline(a) PROVE OwnerInv'
  BY <1>42 DEF UpdateOffline, Step
<1>43. ASSUME NEW a \in Agents, UpdateRestart(a) PROVE OwnerInv'
  BY <1>43 DEF UpdateRestart, Step
<1>44. ASSUME NEW a \in Agents, UpdateDisconnect(a) PROVE OwnerInv'
  BY <1>44 DEF UpdateDisconnect, Step
<1>45. ASSUME NEW a \in Agents, NEW t \in Threads, ConnectSpawn(a, t) PROVE OwnerInv'
  BY <1>45 DEF ConnectSpawn, NewThread, Free, Step, Goto
<1>46. CASE Decide
  BY <1>46 DEF Decide, SupGoto
<1>47. CASE ConsumeRestart
  BY <1>47 DEF ConsumeRestart, SupGoto
<1>48. CASE ClearRequest
  BY <1>48 DEF ClearRequest, SupGoto
<1>49. CASE IdleCheck
  BY <1>49 DEF IdleCheck, SupGoto
<1>50. CASE SupClaim
  BY <1>50 DEF SupClaim, Claim, SupGoto
<1>51. CASE SupSpawnFails
  BY <1>51 DEF SupSpawnFails, Spend, SupGoto
<1>52. CASE SpawnBackoff
  BY <1>52 DEF SpawnBackoff, SupGoto
<1>53. CASE SupStore
  BY <1>53 DEF SupStore, SupGoto
<1>54. CASE TakeHandle
  BY <1>54 DEF TakeHandle, SupGoto
<1>55. CASE InnerWait
  BY <1>55 DEF InnerWait, SupGoto
<1>56. CASE QuietWait
  BY <1>56 DEF QuietWait, SupGoto
<1>57. CASE SupDisconnect
  BY <1>57 DEF SupDisconnect, SupGoto
<1>58. CASE SupCancelToken
  BY <1>58 DEF SupCancelToken, SupGoto
<1>59. CASE SupWriteExit
  BY <1>59 DEF SupWriteExit, WriteAppExit, SupGoto
<1>60. CASE FinalJoin
  BY <1>60 DEF FinalJoin, SupGoto
<1>61. CASE Shutdown
  BY <1>61 DEF Shutdown
<1>62. ASSUME NEW t \in Threads, SupSpawn(t) PROVE OwnerInv'
  BY <1>62 DEF SupSpawn, NewThread, Free, SupGoto, Goto
<1>63. CASE UNCHANGED vars
  BY <1>63 DEF vars
<1> QED
  BY <1>1, <1>2, <1>3, <1>4, <1>5, <1>6, <1>7, <1>8, <1>9, <1>10, <1>11, <1>12,
     <1>13, <1>14, <1>15, <1>16, <1>17, <1>18, <1>19, <1>20, <1>21, <1>22, <1>23,
     <1>24, <1>25, <1>26, <1>27, <1>28, <1>29, <1>30, <1>31, <1>32, <1>33, <1>34,
     <1>35, <1>36, <1>37, <1>38, <1>39, <1>40, <1>41, <1>42, <1>43, <1>44, <1>45,
     <1>46, <1>47, <1>48, <1>49, <1>50, <1>51, <1>52, <1>53, <1>54, <1>55, <1>56,
     <1>57, <1>58, <1>59, <1>60, <1>61, <1>62, <1>63
  DEF Next, ThreadStep, LoopStep, DialEnds, SpawnHandled, DisconnectHandled, AgentStep,
      AgentCall, SupStep

LEMMA OwnerInvariant == ~ConnectDuringTeardown => (Spec => []OwnerInv)
<1> SUFFICES ASSUME ~ConnectDuringTeardown PROVE Spec => []OwnerInv
  OBVIOUS
<1>1. Init => OwnerInv
  BY DEF Init, OwnerInv, LiveLoops, Finished
<1>2. TypeOK /\ OwnerInv /\ [Next]_vars => OwnerInv'
  BY OwnerStep DEF TypeOK
<1> QED BY TypeCorrect, <1>1, <1>2, PTL DEF Spec

\* While no connect is accepted during a teardown, there is one loop at most.
THEOREM AtMostOneLoop == ~ConnectDuringTeardown => (Spec => []SingleLoop)
<1> SUFFICES ASSUME ~ConnectDuringTeardown PROVE Spec => []SingleLoop
  OBVIOUS
<1>1. OwnerInv => SingleLoop
  BY DEF OwnerInv, SingleLoop, LiveLoops, Finished
<1> QED BY OwnerInvariant, <1>1, PTL

\* Whoever takes the flag passes it on to a thread or puts it down; with a
\* second loop (ConnectDuringTeardown) it is put down too early, never too late.
LEMMA ClaimStep ==
  ASSUME ControlOK, ClaimHasOwner, [Next]_vars PROVE ClaimHasOwner'
<1> USE DEF ControlOK, ClaimHasOwner, flags, session, threads, agents, supervisor,
        history, Entering, Finished, Updating
<1>1. ASSUME NEW t \in Threads, RuntimeFails(t) PROVE ClaimHasOwner'
  BY <1>1 DEF RuntimeFails, Spend, Goto
<1>2. ASSUME NEW t \in Threads, EntryClearDisconnect(t) PROVE ClaimHasOwner'
  BY <1>2 DEF EntryClearDisconnect, Goto
<1>3. ASSUME NEW t \in Threads, EntryResetToken(t) PROVE ClaimHasOwner'
  BY <1>3 DEF EntryResetToken, Orphaned, Goto
<1>4. ASSUME NEW t \in Threads, EntryTakeRestart(t) PROVE ClaimHasOwner'
  BY <1>4 DEF EntryTakeRestart, Goto
<1>5. ASSUME NEW t \in Threads, EntryTakeLatch(t) PROVE ClaimHasOwner'
  BY <1>5 DEF EntryTakeLatch, Goto
<1>6. ASSUME NEW t \in Threads, Dial(t) PROVE ClaimHasOwner'
  BY <1>6 DEF Dial, Goto
<1>7. ASSUME NEW t \in Threads, Checkpoint(t) PROVE ClaimHasOwner'
  BY <1>7 DEF Checkpoint, Goto
<1>8. ASSUME NEW t \in Threads, RestartClearDisconnect(t) PROVE ClaimHasOwner'
  BY <1>8 DEF RestartClearDisconnect, Goto
<1>9. ASSUME NEW t \in Threads, RestartResetToken(t) PROVE ClaimHasOwner'
  BY <1>9 DEF RestartResetToken, Orphaned, Goto
<1>10. ASSUME NEW t \in Threads, CancelStart(t) PROVE ClaimHasOwner'
  BY <1>10 DEF CancelStart, WorldGone, Settled, Goto
<1>11. ASSUME NEW t \in Threads, CancelSetOffline(t) PROVE ClaimHasOwner'
  BY <1>11 DEF CancelSetOffline, Goto
<1>12. ASSUME NEW t \in Threads, CancelClearEcs(t) PROVE ClaimHasOwner'
  BY <1>12 DEF CancelClearEcs, Goto
<1>13. ASSUME NEW t \in Threads, CancelDecides(t) PROVE ClaimHasOwner'
  BY <1>13 DEF CancelDecides, Goto
<1>14. ASSUME NEW t \in Threads, CancelTakeLatch(t) PROVE ClaimHasOwner'
  BY <1>14 DEF CancelTakeLatch, Goto
<1>15. ASSUME NEW t \in Threads, TakeLatch(t) PROVE ClaimHasOwner'
  BY <1>15 DEF TakeLatch, Goto
<1>16. ASSUME NEW t \in Threads, SetOffline(t) PROVE ClaimHasOwner'
  BY <1>16 DEF SetOffline, Goto
<1>17. ASSUME NEW t \in Threads, RetryOrFail(t) PROVE ClaimHasOwner'
  BY <1>17 DEF RetryOrFail, Goto
<1>18. ASSUME NEW t \in Threads, BackOff(t) PROVE ClaimHasOwner'
  BY <1>18 DEF BackOff, Goto
<1>19. ASSUME NEW t \in Threads, SleepEnds(t) PROVE ClaimHasOwner'
  BY <1>19 DEF SleepEnds, Goto
<1>20. ASSUME NEW t \in Threads, SleepCancelled(t) PROVE ClaimHasOwner'
  BY <1>20 DEF SleepCancelled, Goto
<1>21. ASSUME NEW t \in Threads, ConnectReturns(t) PROVE ClaimHasOwner'
  BY <1>21 DEF ConnectReturns, Goto
<1>22. ASSUME NEW t \in Threads, ThreadExits(t) PROVE ClaimHasOwner'
  BY <1>22 DEF ThreadExits, Goto
<1>23. ASSUME NEW t \in Threads, StartReturns(t) PROVE ClaimHasOwner'
  BY <1>23 DEF StartReturns, WorldGone, Settled, Spend, Goto
<1>24. ASSUME NEW t \in Threads, SpawnEvent(t) PROVE ClaimHasOwner'
  BY <1>24 DEF SpawnEvent, Goto
<1>25. ASSUME NEW t \in Threads, Served(t) PROVE ClaimHasOwner'
  BY <1>25 DEF Served, Settled
<1>26. ASSUME NEW t \in Threads, MarkSession(t) PROVE ClaimHasOwner'
  BY <1>26 DEF MarkSession
<1>27. ASSUME NEW t \in Threads, Unserved(t) PROVE ClaimHasOwner'
  BY <1>27 DEF Unserved, Settled
<1>28. ASSUME NEW t \in Threads, DisconnectEvent(t) PROVE ClaimHasOwner'
  BY <1>28 DEF DisconnectEvent, Settled, Spend
<1>29. ASSUME NEW t \in Threads, ClearEcs(t) PROVE ClaimHasOwner'
  BY <1>29 DEF ClearEcs
<1>30. ASSUME NEW t \in Threads, SendExit(t) PROVE ClaimHasOwner'
  BY <1>30 DEF SendExit
<1>31. ASSUME NEW a \in Agents, ConnectCall(a) PROVE ClaimHasOwner'
  BY <1>31 DEF ConnectCall, Idle, Spend, Step
<1>32. ASSUME NEW a \in Agents, ConnectClaim(a) PROVE ClaimHasOwner'
  BY <1>32 DEF ConnectClaim, Claim, Headless, Step
<1>33. ASSUME NEW a \in Agents, ConnectBusy(a) PROVE ClaimHasOwner'
  BY <1>33 DEF ConnectBusy, Step
<1>34. ASSUME NEW a \in Agents, ConnectJoin(a) PROVE ClaimHasOwner'
  BY <1>34 DEF ConnectJoin, Step
<1>35. ASSUME NEW a \in Agents, ConnectFails(a) PROVE ClaimHasOwner'
  BY <1>35 DEF ConnectFails, Spend, Step
<1>36. ASSUME NEW a \in Agents, ConnectStore(a) PROVE ClaimHasOwner'
  BY <1>36 DEF ConnectStore, Step
<1>37. ASSUME NEW a \in Agents, DisconnectCall(a) PROVE ClaimHasOwner'
  BY <1>37 DEF DisconnectCall, Idle, Spend, Step, Stopping
<1>38. ASSUME NEW a \in Agents, CancelToken(a) PROVE ClaimHasOwner'
  BY <1>38 DEF CancelToken, Step
<1>39. ASSUME NEW a \in Agents, WriteExit(a) PROVE ClaimHasOwner'
  BY <1>39 DEF WriteExit, WriteAppExit, Step
<1>40. ASSUME NEW a \in Agents, UpdateCall(a) PROVE ClaimHasOwner'
  BY <1>40 DEF UpdateCall, Idle, Spend, Step
<1>41. ASSUME NEW a \in Agents, UpdateReads(a) PROVE ClaimHasOwner'
  BY <1>41 DEF UpdateReads, Step
<1>42. ASSUME NEW a \in Agents, UpdateOffline(a) PROVE ClaimHasOwner'
  BY <1>42 DEF UpdateOffline, Step
<1>43. ASSUME NEW a \in Agents, UpdateRestart(a) PROVE ClaimHasOwner'
  BY <1>43 DEF UpdateRestart, Step
<1>44. ASSUME NEW a \in Agents, UpdateDisconnect(a) PROVE ClaimHasOwner'
  BY <1>44 DEF UpdateDisconnect, Step
<1>45. ASSUME NEW a \in Agents, NEW t \in Threads, ConnectSpawn(a, t) PROVE ClaimHasOwner'
  BY <1>45 DEF ConnectSpawn, NewThread, Free, Step, Goto
<1>46. CASE Decide
  BY <1>46 DEF Decide, SupGoto
<1>47. CASE ConsumeRestart
  BY <1>47 DEF ConsumeRestart, SupGoto
<1>48. CASE ClearRequest
  BY <1>48 DEF ClearRequest, SupGoto
<1>49. CASE IdleCheck
  BY <1>49 DEF IdleCheck, SupGoto
<1>50. CASE SupClaim
  BY <1>50 DEF SupClaim, Claim, SupGoto
<1>51. CASE SupSpawnFails
  BY <1>51 DEF SupSpawnFails, Spend, SupGoto
<1>52. CASE SpawnBackoff
  BY <1>52 DEF SpawnBackoff, SupGoto
<1>53. CASE SupStore
  BY <1>53 DEF SupStore, SupGoto
<1>54. CASE TakeHandle
  BY <1>54 DEF TakeHandle, SupGoto
<1>55. CASE InnerWait
  BY <1>55 DEF InnerWait, SupGoto
<1>56. CASE QuietWait
  BY <1>56 DEF QuietWait, SupGoto
<1>57. CASE SupDisconnect
  BY <1>57 DEF SupDisconnect, SupGoto
<1>58. CASE SupCancelToken
  BY <1>58 DEF SupCancelToken, SupGoto
<1>59. CASE SupWriteExit
  BY <1>59 DEF SupWriteExit, WriteAppExit, SupGoto
<1>60. CASE FinalJoin
  BY <1>60 DEF FinalJoin, SupGoto
<1>61. CASE Shutdown
  BY <1>61 DEF Shutdown
<1>62. ASSUME NEW t \in Threads, SupSpawn(t) PROVE ClaimHasOwner'
  BY <1>62 DEF SupSpawn, NewThread, Free, SupGoto, Goto
<1>63. CASE UNCHANGED vars
  BY <1>63 DEF vars
<1> QED
  BY <1>1, <1>2, <1>3, <1>4, <1>5, <1>6, <1>7, <1>8, <1>9, <1>10, <1>11, <1>12,
     <1>13, <1>14, <1>15, <1>16, <1>17, <1>18, <1>19, <1>20, <1>21, <1>22, <1>23,
     <1>24, <1>25, <1>26, <1>27, <1>28, <1>29, <1>30, <1>31, <1>32, <1>33, <1>34,
     <1>35, <1>36, <1>37, <1>38, <1>39, <1>40, <1>41, <1>42, <1>43, <1>44, <1>45,
     <1>46, <1>47, <1>48, <1>49, <1>50, <1>51, <1>52, <1>53, <1>54, <1>55, <1>56,
     <1>57, <1>58, <1>59, <1>60, <1>61, <1>62, <1>63
  DEF Next, ThreadStep, LoopStep, DialEnds, SpawnHandled, DisconnectHandled, AgentStep,
      AgentCall, SupStep

\* ClearGuard keeps its promise without any assumption: the connecting flag is
\* never up without somebody who will clear it.
THEOREM ClaimNeverLeaks == Spec => []ClaimHasOwner
<1>1. Init => ClaimHasOwner
  BY DEF Init, ClaimHasOwner
<1>2. TypeOK /\ ClaimHasOwner /\ [Next]_vars => ClaimHasOwner'
  BY ClaimStep DEF TypeOK
<1> QED BY TypeCorrect, <1>1, <1>2, PTL DEF Spec

-----------------------------------------------------------------------------
(* The session_was_online latch. *)

\* Between its entry and its next session a loop keeps the latch down.
LatchInv ==
  /\ LatchFresh
  /\ \A t \in Threads :
       loop[t] \in {"top", "wasOnline", "wasOffline", "afterOnline", "afterOffline",
                    "restart1", "restart2", "retry", "backoff"} => ~latch

LEMMA LatchStep ==
  ASSUME ControlOK, OwnerInv, SessionInv, LatchInv, [Next]_vars PROVE LatchInv'
<1> USE DEF ControlOK, OwnerInv, SessionInv, LatchInv, LatchFresh, flags, session, threads,
        agents, supervisor, history
<1>1. ASSUME NEW t \in Threads, RuntimeFails(t) PROVE LatchInv'
  BY <1>1 DEF RuntimeFails, Spend, Goto
<1>2. ASSUME NEW t \in Threads, EntryClearDisconnect(t) PROVE LatchInv'
  BY <1>2 DEF EntryClearDisconnect, Goto
<1>3. ASSUME NEW t \in Threads, EntryResetToken(t) PROVE LatchInv'
  BY <1>3 DEF EntryResetToken, Orphaned, Goto
<1>4. ASSUME NEW t \in Threads, EntryTakeRestart(t) PROVE LatchInv'
  BY <1>4 DEF EntryTakeRestart, Goto
<1>5. ASSUME NEW t \in Threads, EntryTakeLatch(t) PROVE LatchInv'
  BY <1>5 DEF EntryTakeLatch, Goto
<1>6. ASSUME NEW t \in Threads, Dial(t) PROVE LatchInv'
  BY <1>6 DEF Dial, Goto
<1>7. ASSUME NEW t \in Threads, Checkpoint(t) PROVE LatchInv'
  BY <1>7 DEF Checkpoint, Goto
<1>8. ASSUME NEW t \in Threads, RestartClearDisconnect(t) PROVE LatchInv'
  BY <1>8 DEF RestartClearDisconnect, Goto
<1>9. ASSUME NEW t \in Threads, RestartResetToken(t) PROVE LatchInv'
  BY <1>9 DEF RestartResetToken, Orphaned, Goto
<1>10. ASSUME NEW t \in Threads, CancelStart(t) PROVE LatchInv'
  BY <1>10 DEF CancelStart, WorldGone, Settled, Goto
<1>11. ASSUME NEW t \in Threads, CancelSetOffline(t) PROVE LatchInv'
  BY <1>11 DEF CancelSetOffline, Goto
<1>12. ASSUME NEW t \in Threads, CancelClearEcs(t) PROVE LatchInv'
  BY <1>12 DEF CancelClearEcs, Goto
<1>13. ASSUME NEW t \in Threads, CancelDecides(t) PROVE LatchInv'
  BY <1>13 DEF CancelDecides, Goto
<1>14. ASSUME NEW t \in Threads, CancelTakeLatch(t) PROVE LatchInv'
  BY <1>14 DEF CancelTakeLatch, Goto
<1>15. ASSUME NEW t \in Threads, TakeLatch(t) PROVE LatchInv'
  BY <1>15 DEF TakeLatch, Goto
<1>16. ASSUME NEW t \in Threads, SetOffline(t) PROVE LatchInv'
  BY <1>16 DEF SetOffline, Goto
<1>17. ASSUME NEW t \in Threads, RetryOrFail(t) PROVE LatchInv'
  BY <1>17 DEF RetryOrFail, Goto
<1>18. ASSUME NEW t \in Threads, BackOff(t) PROVE LatchInv'
  BY <1>18 DEF BackOff, Goto
<1>19. ASSUME NEW t \in Threads, SleepEnds(t) PROVE LatchInv'
  BY <1>19 DEF SleepEnds, Goto
<1>20. ASSUME NEW t \in Threads, SleepCancelled(t) PROVE LatchInv'
  BY <1>20 DEF SleepCancelled, Goto
<1>21. ASSUME NEW t \in Threads, ConnectReturns(t) PROVE LatchInv'
  BY <1>21 DEF ConnectReturns, Goto
<1>22. ASSUME NEW t \in Threads, ThreadExits(t) PROVE LatchInv'
  BY <1>22 DEF ThreadExits, Goto
<1>23. ASSUME NEW t \in Threads, StartReturns(t) PROVE LatchInv'
  BY <1>23 DEF StartReturns, WorldGone, Settled, Spend, Goto
<1>24. ASSUME NEW t \in Threads, SpawnEvent(t) PROVE LatchInv'
  BY <1>24 DEF SpawnEvent, Goto
<1>25. ASSUME NEW t \in Threads, Served(t) PROVE LatchInv'
  BY <1>25 DEF Served, Settled
<1>26. ASSUME NEW t \in Threads, MarkSession(t) PROVE LatchInv'
  BY <1>26 DEF MarkSession
<1>27. ASSUME NEW t \in Threads, Unserved(t) PROVE LatchInv'
  BY <1>27 DEF Unserved, Settled
<1>28. ASSUME NEW t \in Threads, DisconnectEvent(t) PROVE LatchInv'
  BY <1>28 DEF DisconnectEvent, Settled, Spend
<1>29. ASSUME NEW t \in Threads, ClearEcs(t) PROVE LatchInv'
  BY <1>29 DEF ClearEcs
<1>30. ASSUME NEW t \in Threads, SendExit(t) PROVE LatchInv'
  BY <1>30 DEF SendExit
<1>31. ASSUME NEW a \in Agents, ConnectCall(a) PROVE LatchInv'
  BY <1>31 DEF ConnectCall, Idle, Spend, Step
<1>32. ASSUME NEW a \in Agents, ConnectClaim(a) PROVE LatchInv'
  BY <1>32 DEF ConnectClaim, Claim, Headless, Step
<1>33. ASSUME NEW a \in Agents, ConnectBusy(a) PROVE LatchInv'
  BY <1>33 DEF ConnectBusy, Step
<1>34. ASSUME NEW a \in Agents, ConnectJoin(a) PROVE LatchInv'
  BY <1>34 DEF ConnectJoin, Step
<1>35. ASSUME NEW a \in Agents, ConnectFails(a) PROVE LatchInv'
  BY <1>35 DEF ConnectFails, Spend, Step
<1>36. ASSUME NEW a \in Agents, ConnectStore(a) PROVE LatchInv'
  BY <1>36 DEF ConnectStore, Step
<1>37. ASSUME NEW a \in Agents, DisconnectCall(a) PROVE LatchInv'
  BY <1>37 DEF DisconnectCall, Idle, Spend, Step, Stopping
<1>38. ASSUME NEW a \in Agents, CancelToken(a) PROVE LatchInv'
  BY <1>38 DEF CancelToken, Step
<1>39. ASSUME NEW a \in Agents, WriteExit(a) PROVE LatchInv'
  BY <1>39 DEF WriteExit, WriteAppExit, Step
<1>40. ASSUME NEW a \in Agents, UpdateCall(a) PROVE LatchInv'
  BY <1>40 DEF UpdateCall, Idle, Spend, Step
<1>41. ASSUME NEW a \in Agents, UpdateReads(a) PROVE LatchInv'
  BY <1>41 DEF UpdateReads, Step
<1>42. ASSUME NEW a \in Agents, UpdateOffline(a) PROVE LatchInv'
  BY <1>42 DEF UpdateOffline, Step
<1>43. ASSUME NEW a \in Agents, UpdateRestart(a) PROVE LatchInv'
  BY <1>43 DEF UpdateRestart, Step
<1>44. ASSUME NEW a \in Agents, UpdateDisconnect(a) PROVE LatchInv'
  BY <1>44 DEF UpdateDisconnect, Step
<1>45. ASSUME NEW a \in Agents, NEW t \in Threads, ConnectSpawn(a, t) PROVE LatchInv'
  BY <1>45 DEF ConnectSpawn, NewThread, Free, Step, Goto
<1>46. CASE Decide
  BY <1>46 DEF Decide, SupGoto
<1>47. CASE ConsumeRestart
  BY <1>47 DEF ConsumeRestart, SupGoto
<1>48. CASE ClearRequest
  BY <1>48 DEF ClearRequest, SupGoto
<1>49. CASE IdleCheck
  BY <1>49 DEF IdleCheck, SupGoto
<1>50. CASE SupClaim
  BY <1>50 DEF SupClaim, Claim, SupGoto
<1>51. CASE SupSpawnFails
  BY <1>51 DEF SupSpawnFails, Spend, SupGoto
<1>52. CASE SpawnBackoff
  BY <1>52 DEF SpawnBackoff, SupGoto
<1>53. CASE SupStore
  BY <1>53 DEF SupStore, SupGoto
<1>54. CASE TakeHandle
  BY <1>54 DEF TakeHandle, SupGoto
<1>55. CASE InnerWait
  BY <1>55 DEF InnerWait, SupGoto
<1>56. CASE QuietWait
  BY <1>56 DEF QuietWait, SupGoto
<1>57. CASE SupDisconnect
  BY <1>57 DEF SupDisconnect, SupGoto
<1>58. CASE SupCancelToken
  BY <1>58 DEF SupCancelToken, SupGoto
<1>59. CASE SupWriteExit
  BY <1>59 DEF SupWriteExit, WriteAppExit, SupGoto
<1>60. CASE FinalJoin
  BY <1>60 DEF FinalJoin, SupGoto
<1>61. CASE Shutdown
  BY <1>61 DEF Shutdown
<1>62. ASSUME NEW t \in Threads, SupSpawn(t) PROVE LatchInv'
  BY <1>62 DEF SupSpawn, NewThread, Free, SupGoto, Goto
<1>63. CASE UNCHANGED vars
  BY <1>63 DEF vars
<1> QED
  BY <1>1, <1>2, <1>3, <1>4, <1>5, <1>6, <1>7, <1>8, <1>9, <1>10, <1>11, <1>12,
     <1>13, <1>14, <1>15, <1>16, <1>17, <1>18, <1>19, <1>20, <1>21, <1>22, <1>23,
     <1>24, <1>25, <1>26, <1>27, <1>28, <1>29, <1>30, <1>31, <1>32, <1>33, <1>34,
     <1>35, <1>36, <1>37, <1>38, <1>39, <1>40, <1>41, <1>42, <1>43, <1>44, <1>45,
     <1>46, <1>47, <1>48, <1>49, <1>50, <1>51, <1>52, <1>53, <1>54, <1>55, <1>56,
     <1>57, <1>58, <1>59, <1>60, <1>61, <1>62, <1>63
  DEF Next, ThreadStep, LoopStep, DialEnds, SpawnHandled, DisconnectHandled, AgentStep,
      AgentCall, SupStep

\* While no connect is accepted during a teardown, hence with one loop, no dial
\* inherits the latch of an earlier session.  The code does not ensure that
\* assumption: of two loops, one can dial under the latch of the other's session.
THEOREM LatchAlwaysFresh == ~ConnectDuringTeardown => (Spec => []LatchFresh)
<1> SUFFICES ASSUME ~ConnectDuringTeardown PROVE Spec => []LatchFresh
  OBVIOUS
<1>1. Init => LatchInv /\ SessionInv
  BY DEF Init, LatchInv, LatchFresh, SessionInv, OnlineIsLowered
<1>2. TypeOK /\ SessionInv /\ [Next]_vars => SessionInv'
  BY SessionStep DEF TypeOK
<1>3. TypeOK /\ OwnerInv /\ SessionInv /\ LatchInv /\ [Next]_vars => LatchInv'
  BY LatchStep DEF TypeOK
<1>4. LatchInv => LatchFresh
  BY DEF LatchInv
<1> QED BY TypeCorrect, OwnerInvariant, <1>1, <1>2, <1>3, <1>4, PTL DEF Spec
=============================================================================
