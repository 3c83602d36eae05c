----------------------------- MODULE MCMineBlock -----------------------------
(* Small instances of MineBlock: ores of two levels, one of which a gold        *)
(* pickaxe cannot harvest, a log that takes the whole activity window by hand,  *)
(* and bedrock.                                                                 *)
EXTENDS MineBlock

OakLog == [hardness |-> 4, tool |-> "axe", level |-> 0, demands |-> FALSE]
DeepslateIronOre == [hardness |-> 9, tool |-> "pickaxe", level |-> 1, demands |-> TRUE]
DiamondOre == [hardness |-> 6, tool |-> "pickaxe", level |-> 2, demands |-> TRUE]
Bedrock == [hardness |-> -1, tool |-> "pickaxe", level |-> 255, demands |-> FALSE]
SomeBlocks == {OakLog, DeepslateIronOre, DiamondOre, Bedrock}

Pickaxe(material) == [type |-> "pickaxe", material |-> material]
SomeTools == {Pickaxe("gold"), Pickaxe("iron")}
StoneAndGold == {Pickaxe("gold"), Pickaxe("stone")}
NoTool == [type |-> "hand", material |-> "none"]
=============================================================================
