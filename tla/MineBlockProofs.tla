--------------------------- MODULE MineBlockProofs ---------------------------
(***************************************************************************)
(* Proofs about MineBlock, for every hotbar, inventory, table of blocks    *)
(* and set of tools, and all timeouts and intervals: the operation is      *)
(* typed, answers inside its envelope, mines for drops with a tool that    *)
(* harvests, and does not report a broken block as still present; and what *)
(* "still present" then does mean.                                         *)
(***************************************************************************)
EXTENDS MineBlock, WellFoundedInduction, TLAPS

-----------------------------------------------------------------------------
(* The operators of the model. *)

\* A nonempty set of naturals has a least element.
LEMMA LeastNatural ==
  ASSUME NEW T, T \subseteq Nat, T # {}
  PROVE  \E m \in T : \A n \in T : m <= n
<1> DEFINE R == OpToRel(<, Nat)
<1>1. IsWellFoundedOn(R, Nat)
  BY NatLessThanWellFounded
<1>2. \A n, m \in T : n < m => <<n, m>> \in R
  <2> TAKE n, m \in T
  <2> HAVE n < m
  <2>1. <<n, m>> \in Nat \X Nat /\ <<n, m>>[1] < <<n, m>>[2]
    OBVIOUS
  <2> QED BY <2>1, Zenon DEF OpToRel
<1> HIDE DEF R
<1>3. PICK m \in T : \A n \in T : ~(<<n, m>> \in R)
  BY <1>1, WFMin, Zenon
<1>4. \A n \in T : ~(n < m)
  BY <1>2, <1>3, Zenon
<1> QED BY <1>4

\* The first slot of a nonempty set is one of its slots.
LEMMA LowestIsOne ==
  ASSUME NEW S \in SUBSET Nat, S # {}
  PROVE  Lowest(S) \in S
<1>1. \E m \in S : \A n \in S : m <= n
  BY LeastNatural
<1> QED BY <1>1, Zenon DEF Lowest

Materials == DOMAIN TierSpeed

\* The tiers, with their place in MATERIAL_PRIORITY.
LEMMA PriorityValues ==
  /\ Priority("netherite") = 1 /\ Priority("diamond") = 2 /\ Priority("iron") = 3
  /\ Priority("stone") = 4 /\ Priority("gold") = 5 /\ Priority("wood") = 6
<1>1. DOMAIN MaterialPriority = 1..6
  BY DEF MaterialPriority
<1>2. /\ MaterialPriority[1] = "netherite" /\ MaterialPriority[2] = "diamond"
      /\ MaterialPriority[3] = "iron" /\ MaterialPriority[4] = "stone"
      /\ MaterialPriority[5] = "gold" /\ MaterialPriority[6] = "wood"
  BY DEF MaterialPriority
<1>3. \A i \in 1..6 : i = 1 \/ i = 2 \/ i = 3 \/ i = 4 \/ i = 5 \/ i = 6
  OBVIOUS
<1>4. ASSUME NEW m, NEW k \in 1..6, MaterialPriority[k] = m,
             \A i \in 1..6 : MaterialPriority[i] = m => i = k
      PROVE  Priority(m) = k
  BY <1>1, <1>4 DEF Priority
<1>5. \A j, k \in 1..6 : MaterialPriority[j] = MaterialPriority[k] => j = k
  BY <1>2, <1>3
<1>6. \A k \in 1..6 : Priority(MaterialPriority[k]) = k
  BY <1>4, <1>5
<1> QED BY <1>2, <1>6

LEMMA MaterialsAre ==
  Materials = {"netherite", "diamond", "iron", "stone", "gold", "wood"}
BY DEF Materials, TierSpeed

\* A better tier harvests no less.
LEMMA BetterHarvests ==
  ASSUME NEW m \in Materials, NEW n \in Materials, Priority(m) <= Priority(n)
  PROVE  HarvestLevel[n] <= HarvestLevel[m]
<1>1. /\ HarvestLevel["netherite"] = 4 /\ HarvestLevel["diamond"] = 3
      /\ HarvestLevel["iron"] = 2 /\ HarvestLevel["stone"] = 1
      /\ HarvestLevel["gold"] = 1 /\ HarvestLevel["wood"] = 0
  BY DEF HarvestLevel
<1> QED BY <1>1, PriorityValues, MaterialsAre

LEMMA TableTypes ==
  \A m \in Materials :
    /\ Priority(m) \in 1..6
    /\ HarvestLevel[m] \in Nat
    /\ TierSpeed[m] \in {2, 4, 6, 8, 9, 12}
<1>1. /\ TierSpeed["netherite"] = 9 /\ TierSpeed["diamond"] = 8
      /\ TierSpeed["iron"] = 6 /\ TierSpeed["stone"] = 4
      /\ TierSpeed["gold"] = 12 /\ TierSpeed["wood"] = 2
  BY DEF TierSpeed
<1>2. /\ HarvestLevel["netherite"] = 4 /\ HarvestLevel["diamond"] = 3
      /\ HarvestLevel["iron"] = 2 /\ HarvestLevel["stone"] = 1
      /\ HarvestLevel["gold"] = 1 /\ HarvestLevel["wood"] = 0
  BY DEF HarvestLevel
<1> QED BY <1>1, <1>2, PriorityValues, MaterialsAre

\* Without gold a better tier is no slower.
LEMMA BetterIsFaster ==
  ASSUME NEW m \in Materials, NEW n \in Materials, m # "gold",
         Priority(m) <= Priority(n), n # "gold"
  PROVE  TierSpeed[n] <= TierSpeed[m]
<1>1. /\ TierSpeed["netherite"] = 9 /\ TierSpeed["diamond"] = 8
      /\ TierSpeed["iron"] = 6 /\ TierSpeed["stone"] = 4
      /\ TierSpeed["gold"] = 12 /\ TierSpeed["wood"] = 2
  BY DEF TierSpeed
<1> QED BY <1>1, PriorityValues, MaterialsAre

\* The search of an inventory finds one of the slots it looks at, and none of
\* them holds a better tier.
LEMMA BestSlotIsBest ==
  ASSUME NEW inventory, NEW S \in SUBSET Nat, S # {},
         \A s \in S : inventory[s].material \in Materials
  PROVE  LET best == BestSlot(inventory, S)
         IN /\ best \in S
            /\ \A t \in S : Priority(inventory[best].material) <= Priority(inventory[t].material)
<1> DEFINE P(s) == Priority(inventory[s].material)
           Ranks == {P(s) : s \in S}
<1>1. \A s \in S : P(s) \in Nat
  <2>1. \A s \in S : P(s) \in 1..6
    BY TableTypes, Zenon
  <2> QED BY <2>1
<1> HIDE DEF P
<1>2. PICK r \in Ranks : \A q \in Ranks : r <= q
  <2>1. Ranks \subseteq Nat /\ Ranks # {}
    BY <1>1
  <2> QED BY <2>1, LeastNatural
<1> DEFINE Firsts == {s \in S : P(s) = r}
<1>3. PICK b \in Firsts : \A s \in Firsts : b <= s
  <2>1. Firsts \subseteq Nat /\ Firsts # {}
    BY <1>2
  <2> QED BY <2>1, LeastNatural
<1>4. b \in S /\ \A t \in S \ {b} : P(b) < P(t) \/ (P(b) = P(t) /\ b < t)
  BY <1>1, <1>2, <1>3
<1> DEFINE best == BestSlot(inventory, S)
<1>5. best \in S /\ \A t \in S \ {best} : P(best) < P(t) \/ (P(best) = P(t) /\ best < t)
  <2>1. best = CHOOSE s \in S : \A t \in S \ {s} : P(s) < P(t) \/ (P(s) = P(t) /\ s < t)
    BY DEF BestSlot, P
  <2> QED BY <1>4, <2>1, Zenon
<1> HIDE DEF best
<1>6. best \in S /\ \A t \in S : P(best) <= P(t)
  BY <1>1, <1>5
<1> QED BY <1>6 DEF P, best

-----------------------------------------------------------------------------
(* The mining time. *)

Divisors == {10, 20, 40, 60, 80, 90, 120}

LEMMA CeilingType ==
  \A a \in Nat, b \in Divisors : Ceiling(a, b) \in Nat
<1> SUFFICES ASSUME NEW a \in Nat, NEW b \in Divisors
             PROVE  Ceiling(a, b) \in Nat
  OBVIOUS
<1>1. /\ (a + 10 - 1) \div 10 \in Nat /\ (a + 20 - 1) \div 20 \in Nat
      /\ (a + 40 - 1) \div 40 \in Nat /\ (a + 60 - 1) \div 60 \in Nat
      /\ (a + 80 - 1) \div 80 \in Nat /\ (a + 90 - 1) \div 90 \in Nat
      /\ (a + 120 - 1) \div 120 \in Nat
  OBVIOUS
<1> QED BY <1>1 DEF Ceiling, Divisors

\* A smaller amount of work at a higher speed takes no longer.
LEMMA CeilingOrder ==
  ASSUME NEW a \in Nat, NEW c \in Nat, a <= c,
         NEW b \in Divisors, NEW d \in Divisors, d <= b
  PROVE  Ceiling(a, b) <= Ceiling(c, d)
<1> DEFINE C(x, y) == (x + y - 1) \div y
<1>1. \A y \in Divisors : C(a, y) <= C(c, y)
  <2>1. /\ C(a, 10) <= C(c, 10) /\ C(a, 20) <= C(c, 20) /\ C(a, 40) <= C(c, 40)
        /\ C(a, 60) <= C(c, 60) /\ C(a, 80) <= C(c, 80) /\ C(a, 90) <= C(c, 90)
        /\ C(a, 120) <= C(c, 120)
    OBVIOUS
  <2> QED BY <2>1 DEF Divisors
<1>2. \A y \in Divisors : C(c, y) \in Int /\ C(a, y) \in Int
  BY CeilingType DEF Ceiling
<1>3. /\ C(c, 20) <= C(c, 10) /\ C(c, 40) <= C(c, 20) /\ C(c, 60) <= C(c, 40)
      /\ C(c, 80) <= C(c, 60) /\ C(c, 90) <= C(c, 80) /\ C(c, 120) <= C(c, 90)
  OBVIOUS
<1> HIDE DEF C
<1>4. C(c, b) <= C(c, d)
  BY <1>2, <1>3 DEF Divisors
<1>5. C(a, b) <= C(c, d)
  BY <1>1, <1>2, <1>4
<1> QED BY <1>5 DEF C, Ceiling

\* The parts of calculate_mine_time.
RightTool(block, item) == item # Empty /\ item.type = block.tool
Speed(block, item) == IF RightTool(block, item) THEN TierSpeed[item.material] ELSE 1
Ticks(block, item) ==
  IF RequiresTool(block)
     /\ ~(RightTool(block, item) /\ HarvestLevel[item.material] >= block.level)
  THEN 100 ELSE 30

LEMMA MineTimeParts ==
  ASSUME NEW block \in Blocks, NEW item \in Tools \cup {Empty}
  PROVE  /\ MineTime(block, item)
              = Ceiling(block.hardness * Ticks(block, item), 10 * Speed(block, item))
         /\ Speed(block, item) \in {1, 2, 4, 6, 8, 9, 12}
         /\ 10 * Speed(block, item) \in Divisors
         /\ Ticks(block, item) \in {30, 100}
<1>1. MineTime(block, item)
        = Ceiling(block.hardness * Ticks(block, item), 10 * Speed(block, item))
  BY Zenon DEF MineTime, Ticks, Speed, RightTool
<1>2. Speed(block, item) \in {1, 2, 4, 6, 8, 9, 12}
  <2>1. RightTool(block, item) => item.material \in Materials
    BY MineAssumption DEF RightTool, Materials
  <2> QED BY <2>1, TableTypes DEF Speed
<1>3. Ticks(block, item) \in {30, 100}
  BY DEF Ticks
<1> QED BY <1>1, <1>2, <1>3 DEF Divisors

LEMMA MineTimeType ==
  ASSUME NEW block \in Blocks, block.hardness >= 0, NEW item \in Tools \cup {Empty}
  PROVE  MineTime(block, item) \in Nat
<1>1. block.hardness * Ticks(block, item) \in Nat
  BY MineTimeParts, MineAssumption
<1> QED BY <1>1, MineTimeParts, CeilingType

\* Without gold, an item no worse than the one assumed takes no longer; by hand
\* any item does.
LEMMA NoWorseIsNoSlower ==
  ASSUME NEW block \in Blocks, block.hardness >= 0,
         NEW assumed \in Tools \cup {Empty}, NEW item \in Tools \cup {Empty},
         \A t \in Tools : t.material # "gold",
         assumed # Empty =>
           /\ assumed.type = block.tool /\ HarvestLevel[assumed.material] >= block.level
           /\ item # Empty /\ item.type = assumed.type
           /\ Priority(item.material) <= Priority(assumed.material)
  PROVE  MineTime(block, item) <= MineTime(block, assumed)
<1>1. Ticks(block, item) <= Ticks(block, assumed) /\ Speed(block, assumed) <= Speed(block, item)
  <2>1. CASE assumed = Empty
    <3>1. Speed(block, assumed) = 1 /\ Ticks(block, assumed) = IF RequiresTool(block) THEN 100 ELSE 30
      BY <2>1 DEF Speed, Ticks, RightTool
    <3>2. 1 <= Speed(block, item)
      BY MineTimeParts
    <3>3. Ticks(block, item) = 30 \/ (RequiresTool(block) /\ Ticks(block, item) = 100)
      BY DEF Ticks
    <3> QED BY <3>1, <3>2, <3>3
  <2>2. CASE assumed # Empty
    <3>1. assumed.material \in Materials /\ item.material \in Materials
      BY <2>2, MineAssumption DEF Materials
    <3>2. RightTool(block, item) /\ RightTool(block, assumed)
      BY <2>2 DEF RightTool
    <3>3. TierSpeed[assumed.material] <= TierSpeed[item.material]
      BY <2>2, <3>1, BetterIsFaster
    <3>4. HarvestLevel[item.material] >= block.level
      BY <2>2, <3>1, BetterHarvests, TableTypes, MineAssumption
    <3> QED BY <2>2, <3>2, <3>3, <3>4 DEF Ticks, Speed
  <2> QED BY <2>1, <2>2
<1>2. 10 * Speed(block, assumed) <= 10 * Speed(block, item)
  BY <1>1, MineTimeParts
<1>3. /\ block.hardness * Ticks(block, item) \in Nat
      /\ block.hardness * Ticks(block, assumed) \in Nat
      /\ block.hardness * Ticks(block, item) <= block.hardness * Ticks(block, assumed)
  BY <1>1, MineTimeParts, MineAssumption
<1> QED BY <1>2, <1>3, MineTimeParts, CeilingOrder

-----------------------------------------------------------------------------
(* The invariant. *)

\* An item no worse than the one the mine-time model assumes: of its type and
\* at least its tier.
NoWorse(item) ==
  tool # Empty =>
    item # Empty /\ item.type = tool.type /\ Priority(item.material) <= Priority(tool.material)

Walking == {"MovingToTarget", "Swapping", "EquippingTool"}
Working == {"ExecutingAction", "Mining", "WaitingForResult"}
Reported == outcome \in {"mined", "still_present"}

\* The tool assumed can harvest the block, is in the inventory or about to be
\* moved, and the item held when the work begins is no worse.
ToolKept ==
  /\ op \in Walking \cup Working /\ bestTool /\ RequiresTool(target) => tool # Empty
  /\ tool # Empty => tool.type = target.tool /\ HarvestLevel[tool.material] >= target.level
  /\ plan # <<>> => tool # Empty /\ NoWorse(plan[2])
  /\ op = "Swapping" => plan # <<>>
  /\ op \in {"MovingToTarget", "EquippingTool"} /\ plan = <<>> /\ tool # Empty =>
       \E s \in Slots : inv[s] = tool
  /\ op \in Working \/ Reported => NoWorse(inv[held])

\* How much of the budget each stage may have spent, with the sleep it is in.
TimeKept ==
  /\ op = "Idle" => elapsed = 0
  /\ op \in Walking \cup Working => Budget > 0
  /\ op = "MovingToTarget" => elapsed + wait <= Budget
  /\ op = "Swapping" => elapsed + wait <= Budget + 1
  /\ op = "EquippingTool" /\ plan = <<>> => elapsed <= Budget
  /\ op = "EquippingTool" /\ plan # <<>> => elapsed + wait <= Budget
  /\ op = "ExecutingAction" => elapsed <= Budget + 1
  /\ op = "Mining" => elapsed + wait + Verification <= Budget
  /\ op = "WaitingForResult" => elapsed + wait <= Budget
  /\ op \in {"Completed", "Failed"} => elapsed <= Envelope

\* What the item held needs beyond what the sleep assumed.
Shortfall == MineTime(target, inv[held]) - MineTime(target, tool)

\* The server's clock against the sleeps of the operation, for a bot that stays
\* at the block; an entry of the snapshot goes with the block or with the bot.
BreakKept ==
  /\ op \in Walking \cup {"Idle", "ExecutingAction"} => unbroken = Unstarted
  /\ op = "Mining" /\ place = "near" => unbroken = Shortfall + wait
  /\ op = "WaitingForResult" /\ place = "near" => unbroken = Shortfall - (Verification - wait)
  /\ outcome = "still_present" /\ place = "near" => unbroken = Shortfall - Verification
  /\ op \in {"Mining", "WaitingForResult"} \/ Reported => target.hardness >= 0
  /\ seen => unbroken <= 0 \/ place = "far"
  /\ Reported => op \in {"Completed", "Failed"}

\* Quarters of a second since the verification began.
Waited == Verification - wait

\* While the verification has not seen the block gone, the last build is from
\* before it began, and the next is due within the interval, or it is from a
\* moment at which the block was not yet broken.
CadenceKept ==
  /\ op = "WaitingForResult" =>
       /\ Waited >= 0
       /\ sinceCommand >= Waited
       /\ sinceCommand = Waited \/ sinceCommand - Waited + Verification < Window
  /\ op = "WaitingForResult" /\ ~seen /\ Interval <= Window =>
       \/ sinceBuild >= Waited /\ (Waited > 0 => sinceBuild < Interval)
       \/ sinceBuild < Waited /\ unbroken + sinceBuild + 1 > 0
  /\ outcome = "still_present" /\ Interval <= Window => unbroken > -Verification

MineInv == TypeOK /\ ToolKept /\ TimeKept /\ BreakKept /\ CadenceKept

-----------------------------------------------------------------------------
(* Slots. *)

LEMMA SlotTypes ==
  Hotbar \subseteq Slots /\ Slots \subseteq Nat /\ 0 \in Hotbar /\ -1 \notin Slots
BY MineAssumption DEF Hotbar, Slots

\* A fitting slot holds a tool of the type and level asked for.
LEMMA FittingSlots ==
  ASSUME NEW inventory \in [Slots -> Tools \cup {Empty}], NEW S \in SUBSET Slots,
         NEW type, NEW level
  PROVE  /\ Fitting(inventory, S, type, level) \subseteq S
         /\ \A s \in Fitting(inventory, S, type, level) :
              /\ inventory[s] \in Tools /\ inventory[s] # Empty
              /\ inventory[s].material \in Materials
              /\ inventory[s].type = type
              /\ HarvestLevel[inventory[s].material] >= level
<1> SUFFICES ASSUME NEW s \in Fitting(inventory, S, type, level)
             PROVE  /\ s \in S
                    /\ inventory[s] \in Tools /\ inventory[s] # Empty
                    /\ inventory[s].material \in Materials
                    /\ inventory[s].type = type
                    /\ HarvestLevel[inventory[s].material] >= level
  OBVIOUS
<1>1. s \in S /\ inventory[s] # Empty /\ inventory[s].type = type
      /\ HarvestLevel[inventory[s].material] >= level
  BY DEF Fitting
<1>2. inventory[s] \in Tools
  BY <1>1
<1> QED BY <1>1, <1>2, MineAssumption DEF Materials

\* The best of the fitting slots, if there are any.
LEMMA BestFitting ==
  ASSUME NEW inventory \in [Slots -> Tools \cup {Empty}], NEW S \in SUBSET Slots,
         NEW type, NEW level, Fitting(inventory, S, type, level) # {}
  PROVE  LET best == BestSlot(inventory, Fitting(inventory, S, type, level))
         IN /\ best \in Fitting(inventory, S, type, level)
            /\ \A t \in Fitting(inventory, S, type, level) :
                 Priority(inventory[best].material) <= Priority(inventory[t].material)
<1> DEFINE F == Fitting(inventory, S, type, level)
<1>1. F \in SUBSET Nat /\ F # {} /\ \A s \in F : inventory[s].material \in Materials
  BY FittingSlots, SlotTypes
<1> HIDE DEF F
<1>2. /\ BestSlot(inventory, F) \in F
      /\ \A t \in F : Priority(inventory[BestSlot(inventory, F)].material)
                        <= Priority(inventory[t].material)
  BY <1>1, BestSlotIsBest, Zenon
<1> QED BY <1>2 DEF F

\* select_tool_for_block answers with a tool that harvests the block, or the hand.
LEMMA SelectHarvests ==
  ASSUME NEW block, NEW inventory \in [Slots -> Tools \cup {Empty}],
         Select(block, inventory) # -1
  PROVE  LET s == Select(block, inventory)
         IN /\ s \in Slots /\ inventory[s] \in Tools /\ inventory[s] # Empty
            /\ inventory[s].type = block.tool
            /\ HarvestLevel[inventory[s].material] >= block.level
<1> DEFINE hot == Fitting(inventory, Hotbar, block.tool, block.level)
           rest == Fitting(inventory, Slots \ Hotbar, block.tool, block.level)
<1>1. \/ hot # {} /\ Select(block, inventory) = BestSlot(inventory, hot)
      \/ rest # {} /\ Select(block, inventory) = BestSlot(inventory, rest)
  BY DEF Select
<1>2. hot # {} => BestSlot(inventory, hot) \in hot
  BY BestFitting, SlotTypes
<1>3. rest # {} => BestSlot(inventory, rest) \in rest
  BY BestFitting
<1>4. \A s \in hot \cup rest :
        /\ s \in Slots /\ inventory[s] \in Tools /\ inventory[s] # Empty
        /\ inventory[s].type = block.tool
        /\ HarvestLevel[inventory[s].material] >= block.level
  BY FittingSlots, SlotTypes
<1> HIDE DEF hot, rest
<1> QED BY <1>1, <1>2, <1>3, <1>4

\* The slot a tool is moved to is one of the hotbar.
LEMMA PickTargetType ==
  ASSUME NEW seenHeld \in Hotbar, NEW item
  PROVE  PickTarget(seenHeld, item) \in Hotbar
<1>1. EmptySlots # {} => Lowest(EmptySlots) \in Hotbar
  BY LowestIsOne, SlotTypes DEF EmptySlots
<1> QED BY <1>1, SlotTypes DEF PickTarget

LEMMA SwappedType ==
  ASSUME TypeOK, NEW slot \in Hotbar, NEW item \in Tools
  PROVE  Swapped(slot, item) \in [Slots -> Tools \cup {Empty}]
<1> DEFINE from == Lowest({s \in Slots : inv[s] = item})
<1>1. inv \in [Slots -> Tools \cup {Empty}] /\ inv[slot] \in Tools \cup {Empty}
  BY SlotTypes DEF TypeOK
<1>2. Swapped(slot, item) = IF window THEN inv ELSE [inv EXCEPT ![slot] = item, ![from] = inv[slot]]
  BY DEF Swapped
<1> HIDE DEF from
<1> QED BY <1>1, <1>2

\* handle_equip_tool finds a tool no worse than the one assumed, which is there.
LEMMA EquipFinds ==
  ASSUME TypeOK, tool # Empty, \E s \in Slots : inv[s] = tool
  PROVE  LET best == BestSlot(inv, Fitting(inv, Slots, tool.type, 0))
         IN best \in Slots /\ inv[best] \in Tools /\ NoWorse(inv[best])
<1> DEFINE F == Fitting(inv, Slots, tool.type, 0)
           best == BestSlot(inv, F)
<1>1. inv \in [Slots -> Tools \cup {Empty}]
  BY DEF TypeOK
<1>2. PICK s \in Slots : inv[s] = tool
  OBVIOUS
<1>3. s \in F
  <2>1. tool \in Tools
    BY DEF TypeOK
  <2>2. HarvestLevel[tool.material] >= 0
    BY <2>1, MineAssumption, TableTypes DEF Materials
  <2> QED BY <1>2, <2>2 DEF Fitting
<1>4. best \in F /\ \A t \in F : Priority(inv[best].material) <= Priority(inv[t].material)
  BY <1>1, <1>3, BestFitting
<1>5. F \subseteq Slots /\ \A t \in F : inv[t] \in Tools /\ inv[t] # Empty /\ inv[t].type = tool.type
  BY <1>1, FittingSlots
<1> HIDE DEF F, best
<1>6. best \in Slots /\ inv[best] \in Tools /\ NoWorse(inv[best])
  BY <1>2, <1>3, <1>4, <1>5 DEF NoWorse
<1> QED BY <1>6 DEF best, F

-----------------------------------------------------------------------------
(* What the longer actions come down to. *)

LEMMA StartShape ==
  ASSUME TypeOK, Start
  PROVE  /\ op = "Idle" /\ sinceCommand' = 0
         /\ UNCHANGED <<jobVars, bodyVars, blockVars>>
         /\ \/ /\ op' = "Failed" /\ outcome' \in {"tool_not_found", "budget"}
               /\ UNCHANGED <<tool, plan, wait>>
            \/ /\ op' = "MovingToTarget" /\ wait' = MoveWindow /\ outcome' = outcome
               /\ Remaining # 0
               /\ tool' \in Tools \cup {Empty}
               /\ bestTool /\ RequiresTool(target) => tool' # Empty
               /\ tool' # Empty =>
                    /\ tool'.type = target.tool
                    /\ HarvestLevel[tool'.material] >= target.level
                    /\ \E s \in Slots : inv[s] = tool'
               /\ plan' # <<>> => /\ tool' # Empty /\ plan' \in Hotbar \X Tools
                                  /\ plan'[2] = tool'
<1> DEFINE s == IF bestTool THEN Select(target, inv) ELSE -1
<1>1. /\ op = "Idle" /\ sinceCommand' = 0
      /\ UNCHANGED <<jobVars, bodyVars, blockVars>>
  BY DEF Start, Dispatch
<1>2. s # -1 => /\ s \in Slots /\ inv[s] \in Tools /\ inv[s] # Empty
                /\ inv[s].type = target.tool
                /\ HarvestLevel[inv[s].material] >= target.level
  BY SelectHarvests DEF TypeOK
<1>3. IF bestTool /\ s = -1 /\ RequiresTool(target) THEN Return("tool_not_found")
      ELSE IF Remaining = 0 THEN Return("budget")
      ELSE /\ op' = "MovingToTarget" /\ wait' = MoveWindow
           /\ tool' = (IF s = -1 THEN Empty ELSE inv[s])
           /\ \E seenHeld \in Hotbar :
                plan' = IF s \in Hotbar \cup {-1} THEN <<>>
                        ELSE <<PickTarget(seenHeld, inv[s]), inv[s]>>
           /\ UNCHANGED outcome
  BY DEF Start
<1> HIDE DEF s
<1>4. CASE Return("tool_not_found") \/ Return("budget")
  BY <1>1, <1>4 DEF Return
<1>5. CASE /\ ~(bestTool /\ s = -1 /\ RequiresTool(target)) /\ Remaining # 0
           /\ op' = "MovingToTarget" /\ wait' = MoveWindow
           /\ tool' = (IF s = -1 THEN Empty ELSE inv[s])
           /\ \E seenHeld \in Hotbar :
                plan' = IF s \in Hotbar \cup {-1} THEN <<>>
                        ELSE <<PickTarget(seenHeld, inv[s]), inv[s]>>
           /\ UNCHANGED outcome
  <2>1. CASE s = -1
    <3>1. tool' = Empty /\ plan' = <<>>
      BY <1>5, <2>1
    <3> QED BY <1>1, <1>5, <2>1, <3>1
  <2>2. CASE s # -1
    <3>1. tool' = inv[s] /\ tool' \in Tools /\ tool' # Empty /\ \E t \in Slots : inv[t] = tool'
      BY <1>2, <1>5, <2>2
    <3>2. /\ tool'.type = target.tool
          /\ HarvestLevel[tool'.material] >= target.level
      BY <1>2, <2>2, <3>1
    <3>3. plan' # <<>> => plan' \in Hotbar \X Tools /\ plan'[2] = tool'
      BY <1>5, <2>2, <3>1, PickTargetType
    <3> QED BY <1>1, <1>5, <3>1, <3>2, <3>3
  <2> QED BY <2>1, <2>2
<1> QED BY <1>3, <1>4, <1>5

LEMMA EquipShape ==
  ASSUME TypeOK, ToolKept, Equip
  PROVE  /\ op = "EquippingTool" /\ plan = <<>> /\ sinceCommand' \in {0, sinceCommand}
         /\ UNCHANGED <<jobVars, window, online, place, blockVars, tool>>
         /\ \/ /\ op' = "Failed" /\ outcome' \in {"budget", "offline"}
               /\ UNCHANGED <<plan, wait, inv, held>>
            \/ /\ op' = "ExecutingAction" /\ UNCHANGED <<inv, plan, outcome, wait>>
               /\ held' \in Hotbar /\ NoWorse(inv[held'])
            \/ /\ op' = "EquippingTool" /\ UNCHANGED <<held, outcome>>
               /\ Remaining # 0 /\ wait' = SwapWait /\ tool # Empty
               /\ plan' \in Hotbar \X Tools /\ NoWorse(plan'[2])
               /\ inv' \in [Slots -> Tools \cup {Empty}]
<1> DEFINE best == BestSlot(inv, Fitting(inv, Slots, tool.type, 0))
           free == IF EmptySlots # {} THEN Lowest(EmptySlots) ELSE 0
<1>1. /\ op = "EquippingTool" /\ plan = <<>>
      /\ UNCHANGED <<jobVars, window, online, place, blockVars>>
  BY DEF Equip
<1>2. CASE Return("budget") /\ UNCHANGED <<inv, held, sinceCommand>>
  BY <1>1, <1>2 DEF Return
<1>3. CASE Return("offline") /\ Dispatch /\ UNCHANGED <<inv, held>>
  BY <1>1, <1>3 DEF Return, Dispatch
<1>4. CASE /\ tool = Empty /\ op' = "ExecutingAction" /\ Dispatch
           /\ UNCHANGED <<inv, held, tool, plan, outcome, wait>>
  BY <1>1, <1>4 DEF Dispatch, NoWorse, TypeOK
<1>5. tool # Empty => best \in Slots /\ inv[best] \in Tools /\ NoWorse(inv[best])
  BY <1>1, EquipFinds DEF ToolKept
<1>6. CASE /\ tool # Empty /\ best \in Hotbar /\ Dispatch
           /\ op' = "ExecutingAction" /\ held' = best
           /\ UNCHANGED <<inv, tool, plan, outcome, wait>>
  BY <1>1, <1>5, <1>6 DEF Dispatch
<1>7. CASE /\ tool # Empty /\ Dispatch /\ Remaining # 0
           /\ plan' = <<free, inv[best]>> /\ wait' = SwapWait
           /\ inv' = Swapped(free, inv[best])
           /\ UNCHANGED <<op, held, tool, outcome>>
  <2>1. free \in Hotbar
    BY LowestIsOne, SlotTypes DEF EmptySlots
  <2>2. inv' \in [Slots -> Tools \cup {Empty}]
    BY <1>5, <1>7, <2>1, SwappedType
  <2> HIDE DEF free, best
  <2>3. plan' \in Hotbar \X Tools /\ plan'[2] = inv[best]
    BY <1>5, <1>7, <2>1
  <2> QED BY <1>1, <1>5, <1>7, <2>2, <2>3 DEF Dispatch
<1> QED BY <1>2, <1>3, <1>4, <1>6, <1>7 DEF Equip

LEMMA BudgetFacts ==
  /\ Envelope \in Nat /\ Budget \in Nat /\ MoveWindow \in Nat /\ Verification \in Nat
  /\ MoveWindow <= Budget
  /\ Budget > 0 => Envelope = Budget + 4
  /\ Verification = Interval + 1 /\ Interval > 0 /\ Unstarted > 0
BY MineAssumption DEF Envelope, Budget, MoveWindow, Larger, Margin, Verification, Unstarted

LEMMA RemainingFacts ==
  ASSUME TypeOK
  PROVE  Remaining \in Nat /\ (Remaining # 0 => Remaining = Budget - elapsed)
BY BudgetFacts DEF TypeOK, Remaining, Larger

LEMMA ArriveShape ==
  ASSUME TypeOK, Arrive
  PROVE  /\ op = "MovingToTarget" /\ sinceCommand' \in {0, sinceCommand}
         /\ UNCHANGED <<jobVars, held, window, online, place, blockVars, tool, plan>>
         /\ \/ op' = "Failed" /\ outcome' = "offline" /\ UNCHANGED <<inv, wait>>
            \/ plan = <<>> /\ op' = "EquippingTool" /\ UNCHANGED <<inv, outcome, wait>>
            \/ /\ plan # <<>> /\ op' = "Swapping" /\ wait' = SwapWait
               /\ inv' \in [Slots -> Tools \cup {Empty}] /\ outcome' = outcome
<1>1. CASE ~online
  BY <1>1 DEF Arrive, Return
<1>2. CASE online /\ plan = <<>>
  BY <1>2 DEF Arrive
<1>3. CASE online /\ plan # <<>>
  <2>1. plan[1] \in Hotbar /\ plan[2] \in Tools
    BY <1>3 DEF TypeOK
  <2>2. inv' \in [Slots -> Tools \cup {Empty}]
    BY <1>3, <2>1, SwappedType DEF Arrive
  <2> QED BY <1>3, <2>2 DEF Arrive, Dispatch
<1> QED BY <1>1, <1>2, <1>3 DEF TypeOK

LEMMA SettleShape ==
  ASSUME TypeOK, SwapSettles
  PROVE  /\ op \in {"Swapping", "EquippingTool"} /\ plan # <<>>
         /\ sinceCommand' \in {0, sinceCommand}
         /\ UNCHANGED <<jobVars, inv, window, online, place, blockVars, tool, plan, wait>>
         /\ \/ op' = "Failed" /\ outcome' \in {"tool_not_found", "offline"} /\ held' = held
            \/ /\ op' = "ExecutingAction" /\ outcome' = outcome
               /\ held' \in Hotbar /\ inv[held'] = plan[2]
<1>1. op \in {"Swapping", "EquippingTool"} /\ plan # <<>>
  BY DEF SwapSettles, Settling
<1>2. plan[1] \in Hotbar
  BY <1>1 DEF TypeOK
<1>3. sinceCommand' \in {0, sinceCommand}
  BY DEF SwapSettles, Dispatch
<1>4. CASE Return("tool_not_found") /\ UNCHANGED held
  BY <1>1, <1>3, <1>4 DEF SwapSettles, Return
<1>5. CASE Return("offline") /\ UNCHANGED held
  BY <1>1, <1>3, <1>5 DEF SwapSettles, Return
<1>6. CASE /\ inv[plan[1]] = plan[2] /\ op' = "ExecutingAction" /\ held' = plan[1]
           /\ UNCHANGED <<tool, plan, outcome, wait>>
  BY <1>1, <1>2, <1>3, <1>6 DEF SwapSettles
<1> QED BY <1>4, <1>5, <1>6 DEF SwapSettles

LEMMA BreakShape ==
  ASSUME TypeOK, Break
  PROVE  /\ op = "ExecutingAction" /\ sinceCommand' \in {0, sinceCommand}
         /\ UNCHANGED <<jobVars, bodyVars, seen, sinceBuild, elapsed, tool, plan>>
         /\ \/ /\ op' = "Failed" /\ outcome' \in {"unbreakable", "budget", "offline", "absent"}
               /\ UNCHANGED <<wait, unbroken>>
            \/ /\ op' = "Mining" /\ outcome' = outcome /\ ~seen
               /\ target.hardness >= 0
               /\ wait' = MineTime(target, tool) /\ wait' \in Nat
               /\ unbroken' = MineTime(target, inv[held]) /\ unbroken' \in Nat
               /\ elapsed + wait' + Verification <= Budget
<1> DEFINE assumed == MineTime(target, tool)
<1>1. op = "ExecutingAction" /\ UNCHANGED <<jobVars, bodyVars, seen, sinceBuild, elapsed>>
  BY DEF Break
<1>2. CASE /\ Return("unbreakable") \/ Return("budget")
           /\ UNCHANGED <<unbroken, sinceCommand>>
  BY <1>1, <1>2 DEF Return
<1>3. CASE (Return("offline") \/ Return("absent")) /\ Dispatch /\ UNCHANGED unbroken
  BY <1>1, <1>3 DEF Return, Dispatch
<1>4. CASE /\ ~seen
           /\ ~(target.hardness < 0 /\ Remaining > 0)
           /\ ~(Remaining = 0 \/ Remaining < BreakCost(assumed))
           /\ op' = "Mining" /\ wait' = assumed
           /\ unbroken' = MineTime(target, inv[held])
           /\ Dispatch
           /\ UNCHANGED <<tool, plan, outcome>>
  <2>1. target.hardness >= 0
    BY <1>4, RemainingFacts, MineAssumption DEF TypeOK
  <2>2. tool \in Tools \cup {Empty} /\ inv[held] \in Tools \cup {Empty} /\ target \in Blocks
    BY SlotTypes DEF TypeOK
  <2>3. assumed \in Nat /\ MineTime(target, inv[held]) \in Nat
    BY <2>1, <2>2, MineTimeType
  <2> HIDE DEF assumed
  <2>4. elapsed + assumed + Verification <= Budget
    BY <1>4, <2>3, RemainingFacts, BudgetFacts DEF BreakCost, TypeOK
  <2> QED BY <1>1, <1>4, <2>1, <2>3, <2>4 DEF Dispatch, assumed
<1> QED BY <1>2, <1>3, <1>4 DEF Break

\* A quarter second: a build that is due sees the world before it, and prunes.
LEMMA PassShape ==
  ASSUME Pass
  PROVE  \/ /\ sinceBuild + 1 >= EffectiveInterval(sinceCommand + 1)
            /\ sinceBuild' = 0
            /\ seen' \in BOOLEAN /\ (seen' <=> unbroken <= 0 \/ place = "far")
         \/ /\ ~(sinceBuild + 1 >= EffectiveInterval(sinceCommand + 1))
            /\ sinceBuild' = sinceBuild + 1
            /\ seen' = seen
<1> DEFINE due == sinceBuild + 1 >= EffectiveInterval(sinceCommand + 1)
           gone == unbroken <= 0 \/ place = "far"
<1>1. sinceBuild' = (IF due THEN 0 ELSE sinceBuild + 1)
  BY DEF Pass
<1>2. seen' = (IF due THEN gone ELSE seen)
  BY DEF Pass
<1>3. gone \in BOOLEAN
  OBVIOUS
<1> HIDE DEF due, gone
<1>4. CASE due
  <2>1. seen' = gone
    BY <1>2, <1>4, Zenon
  <2>2. seen' \in BOOLEAN /\ (seen' <=> gone)
    BY <1>3, <2>1, Zenon
  <2> QED BY <1>1, <1>4, <2>2 DEF due, gone
<1>5. CASE ~due
  <2>1. seen' = seen
    BY <1>2, <1>5, Zenon
  <2> QED BY <1>1, <1>5, <2>1 DEF due
<1> QED BY <1>4, <1>5

-----------------------------------------------------------------------------
(* The parts of the invariant are kept by every step. *)

LEMMA TypeStep ==
  ASSUME TypeOK, ToolKept, Next
  PROVE  TypeOK'
<1>1. CASE Start
  BY <1>1, StartShape, BudgetFacts DEF TypeOK, Outcomes, jobVars, bodyVars, blockVars
<1>2. CASE MoveFails
  BY <1>2 DEF MoveFails, Return, TypeOK, Outcomes, jobVars, bodyVars, blockVars
<1>3. CASE Arrive
  BY <1>3, ArriveShape DEF TypeOK, Outcomes, SwapWait, jobVars, blockVars
<1>4. CASE Equip
  BY <1>4, EquipShape DEF TypeOK, Outcomes, SwapWait, jobVars, blockVars
<1>5. CASE SwapSettles
  BY <1>5, SettleShape DEF TypeOK, Outcomes, jobVars, blockVars
<1>6. CASE Break
  BY <1>6, BreakShape DEF TypeOK, Outcomes, jobVars, bodyVars
<1>7. CASE MiningOffline
  BY <1>7 DEF MiningOffline, Return, TypeOK, Outcomes, jobVars, bodyVars, blockVars
<1>8. CASE MiningEnds
  BY <1>8, BudgetFacts DEF MiningEnds, TypeOK, jobVars, bodyVars, blockVars
<1>9. CASE Poll
  BY <1>9 DEF Poll, Return, TypeOK, Outcomes, jobVars, bodyVars, blockVars
<1>10. CASE Pass
  <2>1. wait > 0
    BY <1>10 DEF Pass, Sleeping
  <2>2. wait' \in Nat /\ elapsed' \in Nat /\ sinceCommand' \in Nat /\ sinceBuild' \in Nat
    BY <1>10, <2>1 DEF Pass, TypeOK
  <2>3. unbroken' \in Int
    BY <1>10 DEF Pass, TypeOK
  <2>4. seen' \in BOOLEAN
    BY <1>10, PassShape DEF TypeOK
  <2> QED BY <1>10, <2>2, <2>3, <2>4 DEF Pass, TypeOK, jobVars, bodyVars
<1>11. CASE GoOffline
  BY <1>11 DEF GoOffline, TypeOK, jobVars, opVars, blockVars
<1>12. CASE Displace
  BY <1>12 DEF Displace, TypeOK, jobVars, opVars, blockVars
<1> QED BY <1>1, <1>2, <1>3, <1>4, <1>5, <1>6, <1>7, <1>8, <1>9, <1>10, <1>11, <1>12 DEF Next, Step

LEMMA ToolStep ==
  ASSUME TypeOK, ToolKept, BreakKept, Next
  PROVE  ToolKept'
<1> USE DEF Walking, Working, jobVars
<1>1. CASE Start
  <2>1. op = "Idle" /\ ~Reported /\ UNCHANGED <<target, bestTool, inv, held>>
    BY <1>1, StartShape DEF BreakKept, bodyVars
  <2>2. CASE /\ op' = "Failed" /\ outcome' \in {"tool_not_found", "budget"}
             /\ UNCHANGED <<tool, plan, wait>>
    BY <2>1, <2>2 DEF ToolKept, NoWorse, Reported
  <2>3. CASE op' = "MovingToTarget" /\ outcome' = outcome
    <3>1. /\ bestTool' /\ RequiresTool(target)' => tool' # Empty
          /\ tool' # Empty => /\ tool'.type = target'.tool
                             /\ HarvestLevel[tool'.material] >= target'.level
                             /\ \E s \in Slots : inv'[s] = tool'
      BY <1>1, <2>1, <2>3, StartShape DEF RequiresTool
    <3>2. plan' # <<>> => tool' # Empty /\ NoWorse(plan[2])'
      <4> SUFFICES ASSUME plan' # <<>>
                   PROVE  tool' # Empty /\ NoWorse(plan[2])'
        OBVIOUS
      <4>1. tool' # Empty /\ tool' \in Tools \cup {Empty} /\ plan'[2] = tool'
        BY <1>1, <2>3, StartShape
      <4>2. Priority(tool'.material) <= Priority(tool'.material)
        BY <4>1, TableTypes, MineAssumption DEF Materials
      <4> QED BY <4>1, <4>2 DEF NoWorse
    <3> QED BY <2>1, <2>3, <3>1, <3>2 DEF ToolKept, Reported
  <2> QED BY <1>1, <2>2, <2>3, StartShape
<1>2. CASE MoveFails
  BY <1>2 DEF MoveFails, Return, ToolKept, NoWorse, Reported, RequiresTool, bodyVars
<1>3. CASE Arrive
  BY <1>3, ArriveShape DEF ToolKept, BreakKept, NoWorse, Reported, RequiresTool
<1>4. CASE Equip
  BY <1>4, EquipShape DEF ToolKept, BreakKept, NoWorse, Reported, RequiresTool
<1>5. CASE SwapSettles
  BY <1>5, SettleShape DEF ToolKept, BreakKept, NoWorse, Reported, RequiresTool
<1>6. CASE Break
  BY <1>6, BreakShape DEF ToolKept, BreakKept, NoWorse, Reported, RequiresTool, bodyVars
<1>7. CASE MiningOffline
  BY <1>7 DEF MiningOffline, Return, ToolKept, NoWorse, Reported, RequiresTool, bodyVars
<1>8. CASE MiningEnds
  BY <1>8 DEF MiningEnds, ToolKept, NoWorse, Reported, RequiresTool, bodyVars
<1>9. CASE Poll
  BY <1>9 DEF Poll, Return, ToolKept, NoWorse, Reported, RequiresTool, bodyVars
<1>10. CASE Pass
  BY <1>10 DEF Pass, ToolKept, NoWorse, Reported, RequiresTool, bodyVars
<1>11. CASE GoOffline
  BY <1>11 DEF GoOffline, ToolKept, NoWorse, Reported, RequiresTool, opVars
<1>12. CASE Displace
  BY <1>12 DEF Displace, ToolKept, NoWorse, Reported, RequiresTool, opVars
<1> QED BY <1>1, <1>2, <1>3, <1>4, <1>5, <1>6, <1>7, <1>8, <1>9, <1>10, <1>11, <1>12 DEF Next, Step

LEMMA TimeStep ==
  ASSUME TypeOK, ToolKept, TimeKept, Next
  PROVE  TimeKept'
<1> USE BudgetFacts DEF Walking, Working, TimeKept
<1>0. Envelope' = Envelope /\ Budget' = Budget /\ Verification' = Verification
  OBVIOUS
<1>1. CASE Start
  BY <1>1, StartShape, RemainingFacts DEF TypeOK, blockVars
<1>2. CASE MoveFails
  BY <1>2 DEF MoveFails, Return, TypeOK, blockVars
<1>3. CASE Arrive
  BY <1>3, ArriveShape DEF TypeOK, SwapWait, blockVars
<1>4. CASE Equip
  <2>1. op = "EquippingTool" /\ plan = <<>> /\ elapsed' = elapsed
    BY <1>4, EquipShape DEF blockVars
  <2>2. CASE op' \in {"Failed", "ExecutingAction"}
    BY <2>1, <2>2 DEF TypeOK
  <2>3. CASE op' = "EquippingTool" /\ Remaining # 0 /\ wait' = SwapWait
    BY <2>1, <2>3, RemainingFacts DEF TypeOK, SwapWait
  <2> QED BY <1>4, <2>2, <2>3, EquipShape
<1>5. CASE SwapSettles
  BY <1>5, SettleShape DEF TypeOK, Settling, SwapSettles, blockVars
<1>6. CASE Break
  BY <1>6, BreakShape DEF TypeOK
<1>7. CASE MiningOffline
  BY <1>7 DEF MiningOffline, Return, TypeOK, blockVars
<1>8. CASE MiningEnds
  BY <1>8 DEF MiningEnds, TypeOK, blockVars
<1>9. CASE Poll
  BY <1>9 DEF Poll, Return, TypeOK, blockVars
<1>10. CASE Pass
  BY <1>10 DEF Pass, Sleeping, TypeOK
<1>11. CASE GoOffline
  BY <1>11 DEF GoOffline, TypeOK, opVars, blockVars
<1>12. CASE Displace
  BY <1>12 DEF Displace, TypeOK, opVars, blockVars
<1> QED BY <1>1, <1>2, <1>3, <1>4, <1>5, <1>6, <1>7, <1>8, <1>9, <1>10, <1>11, <1>12 DEF Next, Step

LEMMA ShortfallType ==
  ASSUME TypeOK, target.hardness >= 0
  PROVE  Shortfall \in Int
<1>1. target \in Blocks /\ tool \in Tools \cup {Empty} /\ inv[held] \in Tools \cup {Empty}
  BY SlotTypes DEF TypeOK
<1>2. MineTime(target, tool) \in Nat /\ MineTime(target, inv[held]) \in Nat
  BY <1>1, MineTimeType
<1> QED BY <1>2 DEF Shortfall

LEMMA ShortfallKept ==
  ASSUME UNCHANGED <<target, inv, held, tool>>
  PROVE  Shortfall' = Shortfall
<1>1. target' = target /\ inv' = inv /\ held' = held /\ tool' = tool
  OBVIOUS
<1> QED BY <1>1 DEF Shortfall, MineTime, RequiresTool, Ceiling

LEMMA BreakStep ==
  ASSUME TypeOK, ToolKept, BreakKept, Next
  PROVE  BreakKept'
<1> USE DEF Walking, Reported, jobVars
<1>0. Unstarted' = Unstarted /\ Verification' = Verification /\ Unstarted \in Nat \ {0}
      /\ Verification \in Nat
  BY MineAssumption, BudgetFacts DEF Unstarted, Verification
<1>1. CASE Start
  BY <1>0, <1>1, StartShape DEF BreakKept, bodyVars, blockVars
<1>2. CASE MoveFails
  BY <1>0, <1>2 DEF MoveFails, Return, BreakKept, bodyVars, blockVars
<1>3. CASE Arrive
  BY <1>0, <1>3, ArriveShape DEF BreakKept, blockVars
<1>4. CASE Equip
  BY <1>0, <1>4, EquipShape DEF BreakKept, blockVars
<1>5. CASE SwapSettles
  BY <1>0, <1>5, SettleShape DEF BreakKept, blockVars
<1>6. CASE Break
  <2>1. op = "ExecutingAction" /\ ~Reported
        /\ UNCHANGED <<target, inv, held, place, seen, tool>>
    BY <1>0, <1>6, BreakShape DEF BreakKept, bodyVars
  <2>2. CASE op' = "Failed" /\ outcome' \in {"unbreakable", "budget", "offline", "absent"} /\ unbroken' = unbroken
    BY <2>1, <2>2 DEF BreakKept
  <2>3. CASE op' = "Mining" /\ outcome' = outcome
    <3>1. /\ target.hardness >= 0 /\ ~seen
          /\ wait' = MineTime(target, tool) /\ wait' \in Nat
          /\ unbroken' = MineTime(target, inv[held]) /\ unbroken' \in Nat
      BY <1>6, <2>3, BreakShape
    <3>2. Shortfall = unbroken' - wait'
      BY <3>1 DEF Shortfall
    <3>3. unbroken' = Shortfall' + wait'
      BY <2>1, <3>1, <3>2, ShortfallKept
    <3> QED BY <2>1, <2>3, <3>1, <3>3 DEF BreakKept
  <2> QED BY <1>6, <2>2, <2>3, BreakShape
<1>7. CASE MiningOffline
  BY <1>0, <1>7 DEF MiningOffline, Return, BreakKept, bodyVars, blockVars
<1>8. CASE MiningEnds
  <2>1. /\ op = "Mining" /\ wait = 0 /\ op' = "WaitingForResult" /\ wait' = Verification
        /\ UNCHANGED <<target, inv, held, place, tool, unbroken, seen, outcome>>
    BY <1>8 DEF MiningEnds, bodyVars, blockVars
  <2>2. Shortfall' = Shortfall /\ Shortfall \in Int
    BY <2>1, ShortfallKept, ShortfallType DEF BreakKept
  <2> HIDE DEF Walking
  <2>3. place = "near" => unbroken = Shortfall + wait
    BY <2>1 DEF BreakKept
  <2>4. place = "near" => unbroken' = Shortfall' - (Verification' - wait')
    BY <1>0, <2>1, <2>2, <2>3
  <2> QED BY <1>0, <2>1, <2>4 DEF BreakKept, Walking
<1>9. CASE Poll
  <2>1. /\ op = "WaitingForResult" /\ op' \in {"Completed", "Failed"}
        /\ UNCHANGED <<target, inv, held, place, tool, unbroken, seen, wait>>
        /\ outcome' = (IF seen THEN "mined" ELSE "still_present")
        /\ seen \/ wait = 0
    BY <1>9 DEF Poll, Return, bodyVars, blockVars
  <2>2. Shortfall' = Shortfall /\ Shortfall \in Int
    BY <2>1, ShortfallKept, ShortfallType DEF BreakKept
  <2>3. outcome' = "still_present" /\ place = "near" => unbroken' = Shortfall' - Verification'
    BY <1>0, <2>1, <2>2 DEF BreakKept
  <2> QED BY <2>1, <2>3 DEF BreakKept
<1>10. CASE Pass
  <2>1. /\ op \in {"MovingToTarget", "Mining", "Swapping", "EquippingTool", "WaitingForResult"}
        /\ wait' = wait - 1
        /\ unbroken' = (IF Worked THEN unbroken - 1 ELSE unbroken)
        /\ UNCHANGED <<target, inv, held, place, tool, op, outcome>>
    BY <1>10 DEF Pass, Sleeping, bodyVars
  <2>2. Shortfall' = Shortfall
    BY <2>1, ShortfallKept
  <2>3. ~Reported
    BY <2>1 DEF BreakKept
  <2>4. seen' => unbroken' <= 0 \/ place = "far"
    <3>1. unbroken \in Int /\ (seen => unbroken <= 0 \/ place = "far")
      BY DEF BreakKept, TypeOK
    <3>2. unbroken <= 0 => unbroken' <= 0
      BY <2>1, <3>1
    <3>3. (seen' <=> unbroken <= 0 \/ place = "far") \/ seen' = seen
      BY <1>10, PassShape
    <3> QED BY <3>1, <3>2, <3>3, Zenon
  <2>5. CASE op \in {"Mining", "WaitingForResult"}
    <3>1. Shortfall \in Int
      BY <2>5, ShortfallType DEF BreakKept
    <3>2. place = "near" => unbroken' = unbroken - 1
      BY <2>1, <2>5 DEF Worked
    <3>3. /\ op' = "Mining" /\ place = "near" => unbroken' = Shortfall' + wait'
          /\ op' = "WaitingForResult" /\ place = "near" =>
               unbroken' = Shortfall' - (Verification' - wait')
      BY <1>0, <2>1, <2>2, <2>5, <3>1, <3>2 DEF BreakKept, TypeOK
    <3> QED BY <2>1, <2>3, <2>4, <2>5, <3>3 DEF BreakKept
  <2>6. CASE op \notin {"Mining", "WaitingForResult"}
    BY <1>0, <2>1, <2>3, <2>4, <2>6 DEF BreakKept, Worked
  <2> QED BY <2>5, <2>6
<1>11. CASE GoOffline
  <2>1. /\ op \notin {"Idle", "Completed", "Failed"}
        /\ UNCHANGED <<target, inv, held, place, tool, op, outcome, unbroken, seen, wait>>
    BY <1>11 DEF GoOffline, opVars, blockVars
  <2>2. Shortfall' = Shortfall
    BY <2>1, ShortfallKept
  <2> QED BY <1>0, <2>1, <2>2 DEF BreakKept
<1>12. CASE Displace
  <2>1. /\ op \notin {"Idle", "Completed", "Failed"} /\ place = "near" /\ place' # "near"
        /\ UNCHANGED <<target, op, outcome, unbroken, seen>>
    BY <1>12 DEF Displace, opVars, blockVars
  <2> QED BY <1>0, <2>1 DEF BreakKept
<1> QED BY <1>1, <1>2, <1>3, <1>4, <1>5, <1>6, <1>7, <1>8, <1>9, <1>10, <1>11, <1>12 DEF Next, Step

LEMMA CadenceStep ==
  ASSUME TypeOK, ToolKept, BreakKept, CadenceKept, Next
  PROVE  CadenceKept'
<1>0. /\ Verification' = Verification /\ Verification = Interval + 1
      /\ Interval \in Nat \ {0} /\ Window \in Nat
  BY MineAssumption DEF Verification
<1>1. CASE op' # "WaitingForResult" /\ outcome' # "still_present"
  BY <1>1 DEF CadenceKept
<1>2. CASE MiningEnds
  <2>1. /\ op' = "WaitingForResult" /\ wait' = Verification /\ op = "Mining"
        /\ sinceCommand' = IF NeedsRestamp THEN 0 ELSE sinceCommand
        /\ UNCHANGED <<sinceBuild, unbroken, outcome>>
    BY <1>2 DEF MiningEnds, blockVars
  <2>2. outcome' # "still_present"
    BY <2>1 DEF BreakKept, Reported
  <2>3. Waited' = 0
    BY <1>0, <2>1 DEF Waited
  <2>4. sinceCommand' = 0 \/ sinceCommand' + Verification < Window
    BY <1>0, <2>1 DEF NeedsRestamp, TypeOK
  <2> QED BY <1>0, <2>1, <2>2, <2>3, <2>4 DEF CadenceKept, TypeOK
<1>3. CASE Poll
  <2>1. /\ op = "WaitingForResult" /\ op' \in {"Completed", "Failed"}
        /\ UNCHANGED <<unbroken, sinceBuild>>
        /\ outcome' = "still_present" => ~seen /\ wait = 0
    BY <1>3 DEF Poll, Return, blockVars
  <2>2. outcome' = "still_present" /\ Interval <= Window => unbroken > -Verification
    BY <1>0, <2>1 DEF CadenceKept, Waited, TypeOK
  <2> QED BY <1>0, <2>1, <2>2 DEF CadenceKept
<1>4. CASE Pass /\ op = "WaitingForResult"
  <2>1. /\ op' = op /\ outcome' = outcome /\ wait > 0 /\ wait' = wait - 1 /\ ~seen
        /\ unbroken' = (IF Worked THEN unbroken - 1 ELSE unbroken)
        /\ sinceCommand' = sinceCommand + 1
    BY <1>4 DEF Pass, Sleeping
  <2>2. outcome' # "still_present"
    BY <1>4, <2>1 DEF BreakKept, Reported
  <2>3. Waited' = Waited + 1 /\ Waited \in Nat /\ Waited <= Interval
    BY <1>0, <1>4, <2>1 DEF Waited, TypeOK, CadenceKept
  <2>4. /\ sinceCommand >= Waited
        /\ sinceCommand = Waited \/ sinceCommand - Waited + Verification < Window
    BY <1>4 DEF CadenceKept
  <2>5. ASSUME ~seen', Interval <= Window
        PROVE  \/ sinceBuild' >= Waited' /\ (Waited' > 0 => sinceBuild' < Interval)
               \/ sinceBuild' < Waited' /\ unbroken' + sinceBuild' + 1 > 0
    <3>1. CASE sinceBuild' = 0 /\ (seen' <=> unbroken <= 0 \/ place = "far")
      BY <2>1, <2>3, <2>5, <3>1 DEF TypeOK
    <3>2. CASE /\ sinceBuild' = sinceBuild + 1
               /\ ~(sinceBuild + 1 >= EffectiveInterval(sinceCommand + 1))
      <4>1. CASE sinceBuild >= Waited /\ (Waited > 0 => sinceBuild < Interval)
        <5>1. Waited < Interval
          BY <1>0, <2>3, <4>1 DEF TypeOK
        <5>2. sinceCommand + 1 <= Window
          BY <1>0, <2>3, <2>4, <2>5, <5>1 DEF TypeOK
        <5>3. sinceBuild' < Interval
          BY <1>0, <3>2, <5>2 DEF EffectiveInterval, TypeOK
        <5> QED BY <2>3, <3>2, <4>1, <5>3 DEF TypeOK
      <4>2. CASE sinceBuild < Waited /\ unbroken + sinceBuild + 1 > 0
        BY <2>1, <2>3, <3>2, <4>2 DEF TypeOK
      <4> QED BY <1>4, <2>1, <2>5, <4>1, <4>2 DEF CadenceKept
    <3> QED BY <1>4, <3>1, <3>2, PassShape
  <2>6. sinceCommand' >= Waited' /\ Waited' >= 0
        /\ (sinceCommand' = Waited' \/ sinceCommand' - Waited' + Verification' < Window)
    BY <1>0, <2>1, <2>3, <2>4 DEF TypeOK
  <2> QED BY <2>2, <2>5, <2>6 DEF CadenceKept
<1>5. CASE GoOffline
  <2>1. UNCHANGED <<op, outcome, wait, seen, unbroken, sinceBuild, sinceCommand>>
    BY <1>5 DEF GoOffline, opVars, blockVars
  <2> QED BY <1>0, <2>1 DEF CadenceKept, Waited
<1>13. CASE Displace
  <2>1. UNCHANGED <<op, outcome, wait, seen, unbroken, sinceBuild, sinceCommand>>
    BY <1>13 DEF Displace, opVars, blockVars
  <2> QED BY <1>0, <2>1 DEF CadenceKept, Waited
<1>6. CASE Start
  BY <1>1, <1>6, StartShape DEF BreakKept, Reported
<1>7. CASE MoveFails \/ MiningOffline
  BY <1>1, <1>7 DEF MoveFails, MiningOffline, Return
<1>8. CASE Arrive
  BY <1>1, <1>8, ArriveShape DEF BreakKept, Reported
<1>9. CASE Equip
  BY <1>1, <1>9, EquipShape DEF BreakKept, Reported
<1>10. CASE SwapSettles
  BY <1>1, <1>10, SettleShape DEF BreakKept, Reported
<1>11. CASE Break
  BY <1>1, <1>11, BreakShape DEF BreakKept, Reported
<1>12. CASE Pass /\ op # "WaitingForResult"
  <2>1. op' = op /\ outcome' = outcome /\ op \notin {"Completed", "Failed"}
    BY <1>12 DEF Pass, Sleeping
  <2> QED BY <1>1, <1>12, <2>1 DEF BreakKept, Reported
<1> QED BY <1>2, <1>3, <1>4, <1>5, <1>6, <1>7, <1>8, <1>9, <1>10, <1>11, <1>12, <1>13 DEF Next, Step

LEMMA MineStutter ==
  ASSUME MineInv, UNCHANGED vars
  PROVE  MineInv'
<1> USE DEF vars, jobVars, bodyVars, opVars, blockVars, MineInv
<1>1. TypeOK'
  BY DEF TypeOK
<1>2. ToolKept'
  BY DEF ToolKept, NoWorse, Reported, RequiresTool, Walking, Working
<1>3. TimeKept'
  BY DEF TimeKept
<1>4. BreakKept'
  BY ShortfallKept DEF BreakKept, Reported
<1>5. CadenceKept'
  BY DEF CadenceKept, Waited
<1> QED BY <1>1, <1>2, <1>3, <1>4, <1>5

LEMMA MineInit ==
  ASSUME Init
  PROVE  MineInv
<1> USE DEF Init
<1>1. TypeOK
  <2>1. sinceBuild \in Nat /\ unbroken \in Int
    BY MineAssumption DEF Unstarted
  <2>2. plan \in {<<>>} \cup (Hotbar \X Tools) /\ outcome \in Outcomes
    BY DEF Outcomes
  <2> QED BY <2>1, <2>2 DEF TypeOK
<1>2. ToolKept
  BY DEF ToolKept, Reported, Walking, Working
<1>3. TimeKept
  BY DEF TimeKept, Walking, Working
<1>4. BreakKept
  BY DEF BreakKept, Reported, Walking
<1>5. CadenceKept
  BY DEF CadenceKept
<1> QED BY <1>1, <1>2, <1>3, <1>4, <1>5 DEF MineInv

-----------------------------------------------------------------------------
(* Theorems. *)

\* The inductive invariant: tool, time, block and cadence.
THEOREM MineInvariant == Spec => []MineInv
<1>1. Init => MineInv
  BY MineInit
<1>2. MineInv /\ [Next]_vars => MineInv'
  BY TypeStep, ToolStep, TimeStep, BreakStep, CadenceStep, MineStutter DEF MineInv
<1> QED BY <1>1, <1>2, PTL DEF Spec

\* Every variable of the operation keeps its type: the hotbar slot a tool is
\* moved to exists, and the slot equipped is one of the hotbar.
THEOREM MineTypeCorrect == Spec => []TypeOK
<1>1. MineInv => TypeOK
  BY DEF MineInv
<1> QED BY <1>1, MineInvariant, PTL

\* execute_mine_block_with_budget answers inside the envelope of its caller,
\* however the walk, the swap, the mining sleep and the verification add up and
\* whatever the timeouts configured are.
THEOREM EnvelopeIsKept == Spec => []EnvelopeKept
<1>1. MineInv => EnvelopeKept
  <2> SUFFICES ASSUME MineInv
               PROVE  elapsed <= Envelope
    BY DEF EnvelopeKept
  <2> QED BY BudgetFacts DEF MineInv, TimeKept, TypeOK, Walking, Working
<1> QED BY <1>1, MineInvariant, PTL

\* With use_best_tool, mining for drops begins with a held item that harvests
\* the block, although MoveTo, the swap and EquipTool each read the inventory
\* for themselves and the swap may not have happened.
THEOREM HarvestIsKept == Spec => []HarvestKept
<1>1. MineInv => HarvestKept
  <2> SUFFICES ASSUME MineInv, op = "Mining", bestTool, RequiresTool(target)
               PROVE  /\ inv[held] # Empty
                      /\ inv[held].type = target.tool
                      /\ HarvestLevel[inv[held].material] >= target.level
    BY DEF HarvestKept
  <2>1. /\ tool # Empty /\ tool.type = target.tool
        /\ HarvestLevel[tool.material] >= target.level /\ NoWorse(inv[held])
    BY DEF MineInv, ToolKept, Working
  <2>2. tool.material \in Materials /\ inv[held].material \in Materials
    BY <2>1, SlotTypes, MineAssumption DEF NoWorse, Materials, MineInv, TypeOK
  <2>3. HarvestLevel[inv[held].material] >= HarvestLevel[tool.material]
    BY <2>1, <2>2, BetterHarvests DEF NoWorse
  <2>4. target.level \in Nat
    BY MineAssumption DEF MineInv, TypeOK
  <2> QED BY <2>1, <2>2, <2>3, <2>4, TableTypes DEF NoWorse
<1> QED BY <1>1, MineInvariant, PTL

\* wait_for_block_gone does not report a block still present that was broken
\* when its window opened, for every snapshot interval up to the activity
\* window and however slowly the snapshot was built before it.
THEOREM BrokenBlockIsSeen == Spec => []BrokenIsSeen
<1>1. MineInv => BrokenIsSeen
  BY DEF MineInv, CadenceKept, BrokenIsSeen
<1> QED BY <1>1, MineInvariant, PTL

\* The only way to "still present" for a bot that stays at the block: the item
\* in hand needs longer than the mining time computed for the item that was
\* planned.
THEOREM OnlyASlowerToolFails == Spec => []FailsOnlyBySlowerTool
<1>1. MineInv => FailsOnlyBySlowerTool
  <2> SUFFICES ASSUME MineInv, outcome = "still_present", place = "near", Interval <= Window
               PROVE  MineTime(target, inv[held]) > MineTime(target, tool)
    BY DEF FailsOnlyBySlowerTool
  <2>1. target.hardness >= 0 /\ unbroken = Shortfall - Verification /\ unbroken > -Verification
    BY DEF MineInv, BreakKept, CadenceKept, Reported
  <2>2. target \in Blocks /\ tool \in Tools \cup {Empty} /\ inv[held] \in Tools \cup {Empty}
    BY SlotTypes DEF MineInv, TypeOK
  <2>3. MineTime(target, tool) \in Nat /\ MineTime(target, inv[held]) \in Nat
    BY <2>1, <2>2, MineTimeType
  <2>4. MineTime(target, inv[held]) - MineTime(target, tool) > 0
    BY <2>1, <2>3, BudgetFacts DEF Shortfall
  <2> QED BY <2>3, <2>4
<1> QED BY <1>1, MineInvariant, PTL

\* ops.rs says that with the planned tool in hand "wait_for_block_gone no
\* longer times out".  For a bot that stays at the block that is so of every
\* inventory without a gold tool: gold is the one tier that mines faster than
\* one its priority puts before it.
THEOREM WithoutGoldVerificationPasses ==
  ASSUME \A t \in Tools : t.material # "gold", Interval <= Window
  PROVE  Spec => []VerificationPasses
<1>1. MineInv => VerificationPasses
  <2> SUFFICES ASSUME MineInv, place = "near", outcome = "still_present"
               PROVE  FALSE
    BY DEF VerificationPasses
  <2>1. target.hardness >= 0 /\ unbroken = Shortfall - Verification /\ unbroken > -Verification
    BY DEF MineInv, BreakKept, CadenceKept, Reported
  <2>2. target \in Blocks /\ tool \in Tools \cup {Empty} /\ inv[held] \in Tools \cup {Empty}
    BY SlotTypes DEF MineInv, TypeOK
  <2>3. MineTime(target, inv[held]) <= MineTime(target, tool)
    <3>1. tool # Empty =>
            /\ tool.type = target.tool /\ HarvestLevel[tool.material] >= target.level
            /\ inv[held] # Empty /\ inv[held].type = tool.type
            /\ Priority(inv[held].material) <= Priority(tool.material)
      BY DEF MineInv, ToolKept, Reported, NoWorse
    <3> QED BY <2>1, <2>2, <3>1, NoWorseIsNoSlower
  <2>4. MineTime(target, tool) \in Nat /\ MineTime(target, inv[held]) \in Nat
    BY <2>1, <2>2, MineTimeType
  <2>5. Shortfall <= 0 /\ Shortfall \in Int
    BY <2>3, <2>4 DEF Shortfall
  <2> QED BY <2>1, <2>5, BudgetFacts
<1> QED BY <1>1, MineInvariant, PTL

=============================================================================
