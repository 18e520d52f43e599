----------------------------- MODULE OddsCheck -----------------------------
(***************************************************************************)
(* The odds arithmetic of BettingOdds against what it has to mean: an      *)
(* oracle offers a game, the game is played, and every leg that could have *)
(* been bet is looked at.                                                  *)
(***************************************************************************)
EXTENDS BettingOdds

CONSTANTS
    OddsChoices,    \* the on-chain odds an oracle may offer
    Handicaps,      \* for either side, and totals, in hundredths of a point
    Scores          \* in hundredths of a point

ASSUME ChoicesAssumption ==
    /\ OddsChoices \subseteq BET_ODDSDIVISOR .. 99 * BET_ODDSDIVISOR
    /\ Handicaps \subseteq Nat /\ Scores \subseteq Nat

VARIABLES game, result

oddsVars == <<game, result>>

NotPlayed == [nResultType |-> "none", nHomeScore |-> 0, nAwayScore |-> 0]

OddsOff == game = <<>> /\ result = NotPlayed

OddsInit ==
    /\ \E odds \in OddsChoices, points \in Handicaps, sign \in {-1, 1} :
         game = [odds |-> [o \in Outcomes |-> odds], nSpreadPoints |-> sign * points,
                 nTotalPoints |-> points]
    /\ result = NotPlayed

Play(type, home, away) ==
    /\ result = NotPlayed /\ game # <<>>
    /\ result' = [nResultType |-> type, nHomeScore |-> home, nAwayScore |-> away]
    /\ UNCHANGED game

OddsDone == result # NotPlayed /\ UNCHANGED oddsVars

OddsNext == (\E type \in ResultTypes, home, away \in Scores : Play(type, home, away)) \/ OddsDone

OddsSpec == OddsInit /\ [][OddsNext]_oddsVars

-----------------------------------------------------------------------------
Played == result # NotPlayed
Value(outcome) == GetBetOdds(outcome, game, result)

\* The same leg with the handicap moved.
Moved(outcome, points) == GetBetOdds(outcome, [game EXCEPT !.nSpreadPoints = @ + points], result)

Near(a, b, by) == Abs(a - b) <= by

(* A bet on a quarter line is two bets of half the stake, on the lines to
   either side of it: it pays the mean of theirs (CalculateAsianSpreadOdds). *)
AsianIsTwoHalfBets ==
    Played /\ game.nSpreadPoints % 50 # 0 =>
        \A o \in Spreads, i \in 1..2 :
            Near(2 * Value(o)[i], Moved(o, -25)[i] + Moved(o, 25)[i], 2)

\* How a leg came out, by its on-chain odds; the two halves of a full win
\* may lose a unit to rounding.
Outcome(outcome) ==
    LET odds == Value(outcome)[1]
    IN  CASE odds = 0                      -> "lost"
          [] odds = BET_ODDSDIVISOR \div 2 -> "half lost"
          [] odds = BET_ODDSDIVISOR        -> "back"
          [] odds > BET_ODDSDIVISOR /\ odds < game.odds[outcome] - 1 -> "half won"
          [] OTHER                         -> "won"

Opposite == [x \in {"lost", "half lost", "back", "half won", "won"} |->
                CASE x = "lost" -> "won"
                  [] x = "half lost" -> "half won"
                  [] x = "back" -> "back"
                  [] x = "half won" -> "half lost"
                  [] x = "won" -> "lost"]

(* The two sides of a spread or of a total are opposite bets: what one wins
   the other loses, in halves too, whatever the sign of the handicap. *)
SidesAreOpposite ==
    Played /\ game.odds["spreadHome"] > 2 * BET_ODDSDIVISOR =>
        /\ Outcome("spreadAway") = Opposite[Outcome("spreadHome")]
        /\ Outcome("totalUnder") = Opposite[Outcome("totalOver")]
=============================================================================
