------------------------------ MODULE MineBlock ------------------------------
(***************************************************************************)
(* Mining one block: execute_mine_block_with_budget                        *)
(* (src/src/bot/ops.rs) drives MineBlockOperation (compound_ops.rs)        *)
(* through MoveTo, the tool change and BreakBlock, sleeps for the computed *)
(* mining time and waits for a snapshot without the block, while the tick  *)
(* handler rebuilds the snapshot at a cadence that relaxes when no command *)
(* was dispatched for a while.                                             *)
(*                                                                         *)
(* The clock counts quarters of a second, which every delay of the code    *)
(* but the 50 ms tick and the 100 ms poll is a multiple of; computed       *)
(* mining times are rounded up to it.  The server breaks the block after   *)
(* the time the same formula gives for the item really held, while the bot *)
(* is in reach of it; it may carry the bot off (a command, a death, a      *)
(* push), at most once here and not back.                                  *)
(***************************************************************************)
EXTENDS Integers, Sequences

CONSTANTS Blocks,         \* [hardness (in halves, -1 bedrock), tool, level, demands]
          Tools,          \* tool items: [type, material]
          Empty,          \* an inventory slot without a tool
          HotbarSize,     \* slots 0..HotbarSize-1 (the game: 9)
          InventorySize,  \* all slots (the game: 36)
          CommandTimeout, \* config.command_timeout_secs, in quarter seconds
          FlyTimeout,     \* config.fly_timeout_secs, in quarter seconds
          Interval,       \* config.snapshot_interval_ms, in quarter seconds
          Window,         \* ACTIVITY_WINDOW (12)
          IdleInterval    \* IDLE_SNAPSHOT_INTERVAL_MS (20)

Slots == 0..(InventorySize - 1)
Hotbar == 0..(HotbarSize - 1)

Margin == 4                     \* MOVEMENT_REPLY_MARGIN
SwapWait == 1                   \* handle_move_item_to_hotbar
\* Variant: a fixed grace, whatever the snapshot interval.
VerificationFixed == 1
Verification == Interval + 1

Larger(a, b) == IF a >= b THEN a ELSE b
Envelope == Larger(CommandTimeout, FlyTimeout)
Budget == Larger(Envelope - Margin, 0)
MoveWindow == Larger(CommandTimeout - Margin, 0)

-----------------------------------------------------------------------------
(* Tools and mining time. *)

MaterialPriority == <<"netherite", "diamond", "iron", "stone", "gold", "wood">>
Priority(m) == CHOOSE i \in DOMAIN MaterialPriority : MaterialPriority[i] = m

HarvestLevel ==
  [wood |-> 0, gold |-> 1, stone |-> 1, iron |-> 2, diamond |-> 3, netherite |-> 4]
TierSpeed ==
  [wood |-> 2, stone |-> 4, iron |-> 6, diamond |-> 8, netherite |-> 9, gold |-> 12]

ASSUME MineAssumption ==
  /\ HotbarSize \in Nat \ {0} /\ InventorySize \in Nat /\ HotbarSize <= InventorySize
  /\ Empty \notin Tools
  /\ \A t \in Tools : t.material \in DOMAIN TierSpeed
  /\ \A b \in Blocks : b.hardness \in Int /\ b.level \in Nat /\ b.demands \in BOOLEAN
  /\ {CommandTimeout, FlyTimeout, Interval, Window, IdleInterval} \subseteq Nat \ {0}

\* Slots holding a tool of this type and at least this harvest level.
Fitting(inventory, slots, type, level) ==
  {s \in slots : /\ inventory[s] # Empty
                 /\ inventory[s].type = type
                 /\ HarvestLevel[inventory[s].material] >= level}

\* find_tool_in_inventory: the first slot of the best tier.
BestSlot(inventory, slots) ==
  CHOOSE s \in slots : \A t \in slots \ {s} :
    LET p == Priority(inventory[s].material)  q == Priority(inventory[t].material)
    IN p < q \/ (p = q /\ s < t)

\* select_tool_for_block: the hotbar first, then the main inventory; -1 is
\* the hand.  (The second tool of a cobweb is left out.)
Select(block, inventory) ==
  LET hot == Fitting(inventory, Hotbar, block.tool, block.level)
      rest == Fitting(inventory, Slots \ Hotbar, block.tool, block.level)
  IN IF hot # {} THEN BestSlot(inventory, hot)
     ELSE IF rest # {} THEN BestSlot(inventory, rest) ELSE -1

\* block_requires_tool: a harvest level, or no drops by hand.
RequiresTool(block) == block.demands \/ block.level > 0

Ceiling(a, b) == (a + b - 1) \div b

\* calculate_mine_time for a held item; the tool's type, not its level, gates
\* the speed.
MineTime(block, item) ==
  LET right == item # Empty /\ item.type = block.tool
      speed == IF right THEN TierSpeed[item.material] ELSE 1
      harvests == right /\ HarvestLevel[item.material] >= block.level
      ticks == IF RequiresTool(block) /\ ~harvests THEN 100 ELSE 30
  IN Ceiling(block.hardness * ticks, 10 * speed)

-----------------------------------------------------------------------------

VARIABLES
  target,       \* the block in the snapshot
  bestTool,     \* use_best_tool
  inv,          \* [Slots -> Tools \cup {Empty}]
  held,         \* selected hotbar slot
  window,       \* a container window is open: swap clicks do nothing
  online,
  place,        \* "near" the block, "out" of reach, or "far": beyond retention
  op,           \* OperationState, with the waits of the executor split out
  tool,         \* item the mine-time model assumes, or Empty for the hand
  plan,         \* <<hotbar slot, item>> to move the tool there, or <<>>
  outcome,
  elapsed,      \* since the operation began
  wait,         \* left of the current sleep or window
  unbroken,     \* mining time the server still needs; negative: since when broken
  seen,         \* the snapshot has no entry for the block
  sinceBuild,   \* last_update.elapsed()
  sinceCommand  \* age of last_command_at

opVars == <<op, tool, plan, outcome, wait>>
bodyVars == <<inv, held, window, online, place>>
jobVars == <<target, bestTool>>
blockVars == <<unbroken, seen, sinceBuild, elapsed>>
vars == <<jobVars, bodyVars, opVars, blockVars, sinceCommand>>

Unstarted == IdleInterval + Window  \* unbroken before BreakBlock

Init ==
  /\ target \in Blocks /\ bestTool \in BOOLEAN
  /\ inv \in [Slots -> Tools \cup {Empty}]
  /\ held \in Hotbar
  /\ window \in BOOLEAN /\ online = TRUE /\ place = "near"
  /\ op = "Idle" /\ tool = Empty /\ plan = <<>> /\ outcome = "none"
  /\ elapsed = 0 /\ wait = 0
  /\ unbroken = Unstarted
  /\ seen = FALSE
  /\ sinceBuild \in 0..(Interval - 1)
  /\ sinceCommand = 0

\* The operation ends; the budget is checked at the top of its loop.
Return(how) ==
  /\ op' = (IF how = "mined" THEN "Completed" ELSE "Failed")
  /\ outcome' = how
  /\ UNCHANGED <<tool, plan, wait>>

Remaining == Larger(Budget - elapsed, 0)

\* dispatch of a sub-command marks activity.
Dispatch == sinceCommand' = 0

Lowest(slots) == CHOOSE s \in slots : \A t \in slots : s <= t
EmptySlots == {s \in Hotbar : inv[s] = Empty}

\* pick_hotbar_target_slot: the held slot (as the snapshot has it) unless its
\* tool is of the type wanted, else the first empty slot, else 0.
PickTarget(seenHeld, item) ==
  IF inv[seenHeld] = Empty \/ inv[seenHeld].type # item.type THEN seenHeld
  ELSE IF EmptySlots # {} THEN Lowest(EmptySlots) ELSE 0

\* handle_move_item_to_hotbar: swap with the first slot holding the item; a
\* swap under an open window does nothing.
Swapped(slot, item) ==
  LET from == Lowest({s \in Slots : inv[s] = item})
  IN IF window THEN inv ELSE [inv EXCEPT ![slot] = item, ![from] = inv[slot]]

-----------------------------------------------------------------------------

\* Block lookup, tool selection and the MoveTo dispatch.  (A block absent
\* from the index and a target without a standable neighbour fail here.)
Start ==
  /\ op = "Idle"
  /\ LET s == IF bestTool THEN Select(target, inv) ELSE -1
     IN IF bestTool /\ s = -1 /\ RequiresTool(target) THEN Return("tool_not_found")
        ELSE IF Remaining = 0 THEN Return("budget")
        ELSE /\ op' = "MovingToTarget" /\ wait' = MoveWindow
             /\ tool' = (IF s = -1 THEN Empty ELSE inv[s])
             /\ \E seenHeld \in Hotbar :
                  plan' = IF s \in Hotbar \cup {-1} THEN <<>>
                          ELSE <<PickTarget(seenHeld, inv[s]), inv[s]>>
             /\ UNCHANGED outcome
  /\ Dispatch
  /\ UNCHANGED <<jobVars, bodyVars, blockVars>>

\* The goto window closes, or the pathfinder gives up.
MoveFails ==
  /\ op = "MovingToTarget"
  /\ Return("path")
  /\ UNCHANGED <<jobVars, bodyVars, blockVars, sinceCommand>>

\* A planned move into the hotbar is dispatched at once.
Arrive ==
  /\ op = "MovingToTarget"
  /\ IF ~online THEN Return("offline") /\ UNCHANGED <<inv, sinceCommand>>
     ELSE IF plan = <<>>
     THEN op' = "EquippingTool" /\ UNCHANGED <<inv, tool, plan, outcome, wait, sinceCommand>>
     ELSE /\ op' = "Swapping" /\ wait' = SwapWait
          /\ inv' = Swapped(plan[1], plan[2])
          /\ Dispatch
          /\ UNCHANGED <<tool, plan, outcome>>
  /\ UNCHANGED <<jobVars, held, window, online, place, blockVars>>

\* handle_equip_tool(tool type, no material): the best tier of the whole
\* inventory, moved to the first empty hotbar slot, or slot 0.
Equip ==
  /\ op = "EquippingTool" /\ plan = <<>>
  /\ IF Remaining = 0 THEN Return("budget") /\ UNCHANGED <<inv, held, sinceCommand>>
     ELSE IF ~online THEN Return("offline") /\ Dispatch /\ UNCHANGED <<inv, held>>
     ELSE IF tool = Empty
     THEN /\ op' = "ExecutingAction" /\ Dispatch
          /\ UNCHANGED <<inv, held, tool, plan, outcome, wait>>
     ELSE LET best == BestSlot(inv, Fitting(inv, Slots, tool.type, 0))
              free == IF EmptySlots # {} THEN Lowest(EmptySlots) ELSE 0
          IN /\ Dispatch
             /\ IF best \in Hotbar
                THEN /\ op' = "ExecutingAction" /\ held' = best
                     /\ UNCHANGED <<inv, tool, plan, outcome, wait>>
                ELSE /\ plan' = <<free, inv[best]>> /\ wait' = SwapWait
                     /\ inv' = Swapped(free, inv[best])
                     /\ UNCHANGED <<op, held, tool, outcome>>
  /\ UNCHANGED <<jobVars, window, online, place, blockVars>>

Settling == op \in {"Swapping", "EquippingTool"} /\ plan # <<>> /\ wait = 0

\* Variant: the slot is selected whether or not the swap took place.
SwapUnverified ==
  /\ Settling
  /\ op' = "ExecutingAction" /\ held' = plan[1] /\ Dispatch
  /\ UNCHANGED <<jobVars, inv, window, online, place, tool, plan, outcome, wait, blockVars>>

\* The hotbar slot is looked at again, then selected: by a SwitchHotbarSlot
\* of its own, or by handle_equip_tool itself.
SwapSettles ==
  /\ Settling
  /\ IF inv[plan[1]] # plan[2] THEN Return("tool_not_found") /\ UNCHANGED held
     ELSE IF op = "Swapping" /\ ~online THEN Return("offline") /\ UNCHANGED held
     ELSE /\ op' = "ExecutingAction" /\ held' = plan[1]
          /\ UNCHANGED <<tool, plan, outcome, wait>>
  /\ IF op = "Swapping" THEN Dispatch ELSE UNCHANGED sinceCommand
  /\ UNCHANGED <<jobVars, inv, window, online, place, blockVars>>

\* Variant: the mining sleep is not asked of the budget.
BreakCostWithoutSleep(assumed) == Verification
BreakCost(assumed) == assumed + Verification

\* BreakBlock, unless the block is unbreakable or the budget too small;
\* handle_break_block refuses a block the snapshot has no entry for.
Break ==
  /\ op = "ExecutingAction"
  /\ LET assumed == MineTime(target, tool)
     IN IF target.hardness < 0 /\ Remaining > 0
        THEN Return("unbreakable") /\ UNCHANGED <<unbroken, sinceCommand>>
        ELSE IF Remaining = 0 \/ Remaining < BreakCost(assumed)
        THEN Return("budget") /\ UNCHANGED <<unbroken, sinceCommand>>
        ELSE IF ~online THEN Return("offline") /\ Dispatch /\ UNCHANGED unbroken
        ELSE IF seen THEN Return("absent") /\ Dispatch /\ UNCHANGED unbroken
        ELSE /\ op' = "Mining" /\ wait' = assumed
             /\ unbroken' = MineTime(target, inv[held])
             /\ Dispatch
             /\ UNCHANGED <<tool, plan, outcome>>
  /\ UNCHANGED <<jobVars, bodyVars, seen, sinceBuild, elapsed>>

\* The poll beside the mining sleep.
MiningOffline ==
  /\ op = "Mining" /\ ~online
  /\ Return("offline")
  /\ UNCHANGED <<jobVars, bodyVars, blockVars, sinceCommand>>

\* Variant: the guard that verification_needs_activity_restamp replaced.
NeedsRestampOnceIdle == sinceCommand > Window
NeedsRestamp == sinceCommand + Verification >= Window

MiningEnds ==
  /\ op = "Mining" /\ wait = 0
  /\ op' = "WaitingForResult" /\ wait' = Verification
  /\ sinceCommand' = (IF NeedsRestamp THEN 0 ELSE sinceCommand)
  /\ UNCHANGED <<jobVars, bodyVars, blockVars, tool, plan, outcome>>

\* Variant: without the deadline of its loop.
PollForever ==
  /\ op = "WaitingForResult" /\ seen
  /\ Return("mined")
  /\ UNCHANGED <<jobVars, bodyVars, blockVars, sinceCommand>>

\* wait_for_block_gone: any absence from the index is success, whether the
\* block was broken or its entry pruned; a last look when the budget is spent.
Poll ==
  /\ op = "WaitingForResult" /\ (seen \/ wait = 0)
  /\ Return(IF seen THEN "mined" ELSE "still_present")
  /\ UNCHANGED <<jobVars, bodyVars, blockVars, sinceCommand>>

-----------------------------------------------------------------------------

\* effective_snapshot_interval_ms for a command this long ago.
EffectiveInterval(age) ==
  IF age <= Window THEN Interval ELSE Larger(Interval, IdleInterval)

Sleeping ==
  \/ op \in {"MovingToTarget", "Mining", "Swapping"} /\ wait > 0
  \/ op = "EquippingTool" /\ plan # <<>> /\ wait > 0
  \/ op = "WaitingForResult" /\ wait > 0 /\ ~seen

\* The server works on the block while the bot is in reach of it.
Worked == op \in {"Mining", "WaitingForResult"} /\ (place = "near" \/ unbroken <= 0)

\* A quarter second passes while the operation sleeps.  A build that is due
\* sees the world as it was before the quarter ended, and keeps no entry
\* beyond its retention radius.
Pass ==
  /\ Sleeping
  /\ wait' = wait - 1
  /\ elapsed' = elapsed + 1
  /\ unbroken' = (IF Worked THEN unbroken - 1 ELSE unbroken)
  /\ sinceCommand' = sinceCommand + 1
  /\ LET due == sinceBuild + 1 >= EffectiveInterval(sinceCommand + 1)
     IN /\ sinceBuild' = (IF due THEN 0 ELSE sinceBuild + 1)
        /\ seen' = (IF due THEN unbroken <= 0 \/ place = "far" ELSE seen)
  /\ UNCHANGED <<jobVars, bodyVars, op, tool, plan, outcome>>

\* The session ends.
GoOffline ==
  /\ online /\ op \notin {"Idle", "Completed", "Failed"}
  /\ online' = FALSE
  /\ UNCHANGED <<jobVars, inv, held, window, place, opVars, blockVars, sinceCommand>>

\* The server moves the bot away once it has walked to the block.
Displace ==
  /\ place = "near" /\ online
  /\ op \in {"Swapping", "EquippingTool", "ExecutingAction", "Mining", "WaitingForResult"}
  /\ place' \in {"out", "far"}
  /\ UNCHANGED <<jobVars, inv, held, window, online, opVars, blockVars, sinceCommand>>

Step ==
  \/ Start \/ MoveFails \/ Arrive \/ Equip \/ SwapSettles
  \/ Break \/ MiningOffline \/ MiningEnds \/ Poll

Next == Step \/ Pass \/ GoOffline \/ Displace

Spec == Init /\ [][Next]_vars

\* The executor runs and time passes.
FairSpec == Spec /\ WF_vars(Step) /\ WF_vars(Pass)

-----------------------------------------------------------------------------
(* Properties. *)

Outcomes == {"none", "mined", "still_present", "budget", "offline", "path", "absent",
             "tool_not_found", "unbreakable"}

TypeOK ==
  /\ target \in Blocks /\ bestTool \in BOOLEAN
  /\ inv \in [Slots -> Tools \cup {Empty}] /\ held \in Hotbar
  /\ window \in BOOLEAN /\ online \in BOOLEAN /\ place \in {"near", "out", "far"}
  /\ op \in {"Idle", "MovingToTarget", "Swapping", "EquippingTool", "ExecutingAction",
             "Mining", "WaitingForResult", "Completed", "Failed"}
  /\ tool \in Tools \cup {Empty}
  /\ plan \in {<<>>} \cup (Hotbar \X Tools)
  /\ outcome \in Outcomes
  /\ elapsed \in Nat /\ wait \in Nat /\ sinceBuild \in Nat /\ sinceCommand \in Nat
  /\ unbroken \in Int /\ seen \in BOOLEAN

\* The operation answers inside the envelope of its caller, however the walk,
\* the swap, the mining sleep and the verification add up.
EnvelopeKept == elapsed <= Envelope

\* Once mining for drops begins with use_best_tool, the item really held can
\* harvest the block.
HarvestKept ==
  op = "Mining" /\ bestTool /\ RequiresTool(target) =>
    /\ inv[held] # Empty
    /\ inv[held].type = target.tool
    /\ HarvestLevel[inv[held].material] >= target.level

\* A block broken for the length of the verification is not reported as still
\* present: the snapshot cadence does not relax under the poll.  (Under an
\* interval longer than the activity window it may.)
BrokenIsSeen ==
  outcome = "still_present" /\ Interval <= Window => unbroken > -Verification

\* "Still present" for a bot that stayed at the block has one cause: the item
\* in hand needs longer than the time computed for the one planned.  The
\* mining sleep, the restamp and the verification leave no other.
FailsOnlyBySlowerTool ==
  outcome = "still_present" /\ place = "near" /\ Interval <= Window =>
    MineTime(target, inv[held]) > MineTime(target, tool)

\* The operation always ends.
Ends == op # "Idle" ~> op \in {"Completed", "Failed"}

\* ops.rs: with the planned tool in hand "wait_for_block_gone no longer times
\* out", for a bot that stayed at the block.
VerificationPasses == place = "near" => outcome # "still_present"
=============================================================================
