--------------------------- MODULE MCPersistence ---------------------------
(***************************************************************************)
(* A chain of three blocks and a block that leaves it after the first.     *)
(* Every block spends the coin of its parent and creates one.  Of the      *)
(* betting databases there is one before and one after the undos.          *)
(***************************************************************************)
EXTENDS ChainPersistence

MCBlocks == {"g", "a1", "a2", "a3", "b2"}
MCParent == [b \in MCBlocks \ {"g"} |->
    CASE b = "a1" -> "g" [] b \in {"a2", "b2"} -> "a1" [] b = "a3" -> "a2"]
MCBettingBlocks == {"a1", "a3", "b2"}
MCSpends == [b \in MCBlocks |-> IF b \in {"g", "a1"} THEN {} ELSE {MCParent[b]}]
MCCreates == [b \in MCBlocks |-> IF b = "g" THEN {} ELSE {b}]
MCFlushOrder == <<"events", "undos", "quickGamesBets">>
=============================================================================
