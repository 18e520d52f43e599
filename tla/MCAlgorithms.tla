--------------------------- MODULE MCAlgorithms ----------------------------
(***************************************************************************)
(* The algorithms that have no place in a larger model, each against its   *)
(* reference definition: a behaviour plays one game, rolls the dice once   *)
(* or walks one pair of map and store.                                     *)
(***************************************************************************)
EXTENDS OddsCheck, DiceCheck, MergingIterator

vars == <<oddsVars, diceVars, scanVars>>

Init ==
    \/ OddsInit /\ DiceOff /\ ScanOff
    \/ OddsOff /\ DiceInit /\ ScanOff
    \/ OddsOff /\ DiceOff /\ ScanInit

Next ==
    \/ OddsNext /\ UNCHANGED <<diceVars, scanVars>>
    \/ DiceNext /\ UNCHANGED <<oddsVars, scanVars>>
    \/ ScanNext /\ UNCHANGED <<oddsVars, diceVars>>

Spec == Init /\ [][Next]_vars
=============================================================================
