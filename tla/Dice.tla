-------------------------------- MODULE Dice --------------------------------
(***************************************************************************)
(* The dice of the quick games (betting/quickgames/dice.cpp): a throw is   *)
(* read from the proof-of-stake hash of a block, and a bet on it pays odds *)
(* of 10000 for every 36 ways there are, shared among those that win.      *)
(***************************************************************************)
EXTENDS Integers, FiniteSets, FiniteSetsExt

CONSTANT WORD   \* 2^64: the hash is read in words of this size

EvenOdds == 10000   \* BET_ODDSDIVISOR of dice.cpp
NUMBER_OF_OUTCOMES == 36

\* The throw of a hash: its two lowest words, modulo 6.
Throw(hash) ==
    LET Die(word) == 1 + ((word % WORD) % 6)
    IN  Die(hash) + Die(hash \div WORD)

\* Counts are unsigned and wrap at 2^64.  A smaller word gives the same odds,
\* as long as a count that has wrapped is more than EvenOdds * NUMBER_OF_OUTCOMES.
UINT64 == 2^24

\* Fault: one case too many above 7.
WinCasesOffByOne(sum) == (IF sum <= 7 THEN sum - 1 ELSE 14 - sum) % UINT64

Dice_NumberOfWinCases(sum) == (IF sum <= 7 THEN sum - 1 ELSE 13 - sum) % UINT64

\* The ways to throw at most n.
CasesUpTo(n) == MapThenSumSet(Dice_NumberOfWinCases, 2..n)

\* A bet is stored whatever the byte of its type and the number are.
DiceTypes == {"qgDiceEqual", "qgDiceNotEqual", "qgDiceTotalOver", "qgDiceTotalUnder",
              "qgDiceEven", "qgDiceOdd", "qgDiceUndefined"}

Wins(info, sum) ==
    CASE info.betType = "qgDiceOdd"        -> sum % 2 = 1
      [] info.betType = "qgDiceEven"       -> sum % 2 = 0
      [] info.betType = "qgDiceEqual"      -> sum = info.betNumber
      [] info.betType = "qgDiceNotEqual"   -> sum # info.betNumber
      [] info.betType = "qgDiceTotalUnder" -> sum <= info.betNumber
      [] info.betType = "qgDiceTotalOver"  -> sum > info.betNumber
      [] info.betType = "qgDiceUndefined"  -> FALSE

\* The ways a bet that has won could win, as DiceHandler counts them.
WinCases(info) ==
    LET n == info.betNumber
        count == CASE info.betType \in {"qgDiceOdd", "qgDiceEven"} -> NUMBER_OF_OUTCOMES \div 2
                   [] info.betType = "qgDiceEqual"      -> Dice_NumberOfWinCases(n)
                   [] info.betType = "qgDiceNotEqual"   -> NUMBER_OF_OUTCOMES - Dice_NumberOfWinCases(n)
                   [] info.betType = "qgDiceTotalUnder" -> CasesUpTo(n)
                   [] info.betType = "qgDiceTotalOver"  -> NUMBER_OF_OUTCOMES - CasesUpTo(n)
    IN  count % UINT64

\* A division by zero has no result: the process ends.
NoOdds == -1

\* The odds a throw pays, 0 where it loses.
DiceHandler(info, sum) ==
    CASE ~Wins(info, sum) -> 0
      [] Wins(info, sum) /\ WinCases(info) = 0 -> NoOdds
      [] Wins(info, sum) /\ WinCases(info) > 0 -> (EvenOdds * NUMBER_OF_OUTCOMES) \div WinCases(info)
=============================================================================
