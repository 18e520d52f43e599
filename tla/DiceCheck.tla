----------------------------- MODULE DiceCheck -----------------------------
(***************************************************************************)
(* The odds of the dice game against the game itself: a bet is placed and  *)
(* the hash of its block throws the dice.                                  *)
(***************************************************************************)
EXTENDS Dice

CONSTANT BetNumbers

\* betNumber is any number a bettor writes (CheckBettingTx does not look at
\* it), short of those whose counts would wrap UINT64 a second time.
ASSUME BetNumbersAssumption == BetNumbers \subseteq 0..1000 /\ WORD \in Nat \ {0}

VARIABLES info, hash

diceVars == <<info, hash>>

NoHash == -1
Hashes == 0 .. (WORD * WORD - 1)

DiceOff == info = <<>> /\ hash = NoHash

DiceInit ==
    /\ info \in [betType : DiceTypes, betNumber : BetNumbers]
    /\ hash = NoHash

Roll(h) == info # <<>> /\ hash = NoHash /\ hash' = h /\ UNCHANGED info

DiceDone == hash # NoHash /\ UNCHANGED diceVars

DiceNext == (\E h \in Hashes : Roll(h)) \/ DiceDone

-----------------------------------------------------------------------------
Odds(bet, h) == DiceHandler(bet, Throw(h))

CanWin(bet) == \E h \in Hashes : Wins(bet, Throw(h))

\* The numbers from 1 to 13.  Other numbers of the two other kinds of bets
\* are never thrown, or win always for even odds.
OnTable(bet) ==
    bet.betType \in {"qgDiceNotEqual", "qgDiceTotalUnder"} => bet.betNumber \in 1..13

\* Over all hashes a bet pays back what was staked, less the rounding.
PaysBackItsStake(bet) ==
    LET paid   == MapThenSumSet(LAMBDA h : Odds(bet, h), Hashes)
        staked == EvenOdds * Cardinality(Hashes)
    IN  /\ \A h \in Hashes : Odds(bet, h) # NoOdds
        /\ paid <= staked
        /\ paid > staked - Cardinality(Hashes)

(* Of the bets that can be won, exactly those on the table are fair before
   the fee, and their odds are what GetQuickGamesBetPayouts takes the
   handler to return (qgview.h): 0 for a loss, 10000 for a refund, more for
   a win.  Off the table the unsigned counts of DiceHandler wrap, and the
   odds are not those of the game. *)
DiceIsFair ==
    hash # NoHash /\ CanWin(info) =>
        /\ PaysBackItsStake(info) <=> OnTable(info)
        /\ OnTable(info) => Odds(info, hash) = 0 \/ Odds(info, hash) >= EvenOdds
=============================================================================
