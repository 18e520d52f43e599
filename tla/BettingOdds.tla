---------------------------- MODULE BettingOdds ----------------------------
(***************************************************************************)
(* The odds arithmetic of betting/bet_common.cpp: what a settled leg is    *)
(* worth, as a pair <<on-chain odds, effective odds>>.  Odds are integers  *)
(* with four implied decimals: 10000 pays the stake back, 0 loses it.      *)
(*                                                                         *)
(* A locked peerless event is a record with the odds of its seven outcomes *)
(* and the two handicap lines; a field event gives each contender three    *)
(* odds.  On-chain odds strictly between 0 and 10000, other than 5000,     *)
(* make the unsigned subtraction of CalculateEffectiveOdds wrap at 2^64,   *)
(* beyond TLC's integers; they are outside this module's domain.           *)
(***************************************************************************)
EXTENDS Integers, Sequences, SequencesExt

BET_ODDSDIVISOR == 10000
Refund == <<BET_ODDSDIVISOR, BET_ODDSDIVISOR>>
Lost   == <<0, 0>>

MoneyLine == {"moneyLineHomeWin", "moneyLineAwayWin", "moneyLineDraw"}
Spreads   == {"spreadHome", "spreadAway"}
Totals    == {"totalOver", "totalUnder"}
Outcomes  == MoneyLine \cup Spreads \cup Totals

FieldOutcomes == {"outright", "place", "show"}

ResultTypes == {"standardResult", "eventRefund", "mlRefund", "spreadsRefund",
                "totalsRefund", "eventClosed"}

\* The result type that gives back the stakes of one market.
MarketRefund(o) ==
    CASE o \in MoneyLine -> "mlRefund"
      [] o \in Spreads   -> "spreadsRefund"
      [] o \in Totals    -> "totalsRefund"

CalculateEffectiveOdds(odds) ==
    IF odds \in {0, BET_ODDSDIVISOR \div 2, BET_ODDSDIVISOR}
    THEN odds
    ELSE ((odds - BET_ODDSDIVISOR) * 94) \div 100 + BET_ODDSDIVISOR

Pays(odds) == <<odds, CalculateEffectiveOdds(odds)>>

\* ((BET_ODDSDIVISOR / 2) * odds) / BET_ODDSDIVISOR.  The product is a uint32
\* and wraps once odds exceeds 2^32 \div 5000 (2^32 = 5000 * 858993 + 2296);
\* the second case is the wrapped value for odds up to 1717986.
WrapsAbove == 858993

HalfOdds(odds) ==
    IF odds <= WrapsAbove
    THEN odds \div 2
    ELSE (5000 * (odds - WrapsAbove) - 2296) \div 10000

\* What one half of an Asian handicap bet is worth at a line and a margin.
HalfLine(odds, line, difference) ==
    CASE line + difference = 0 -> Refund
      [] line + difference > 0 -> Pays(odds)
      [] line + difference < 0 -> Lost

Abs(n) == IF n < 0 THEN -n ELSE n

\* Fault: the half lines are not turned round for a bet on the away side.
AsianSpreadUnsigned(event, difference, home) ==
    LET base == (Abs(event.nSpreadPoints) \div 50) * 50
        step == IF event.nSpreadPoints < 0 THEN -1 ELSE 1
        odds == event.odds[IF home THEN "spreadHome" ELSE "spreadAway"]
        one  == HalfLine(odds, base * step, difference)
        two  == HalfLine(odds, (base + 50) * step, difference)
    IN  <<HalfOdds(one[1]) + HalfOdds(two[1]), HalfOdds(one[2]) + HalfOdds(two[2])>>

\* Fault: the second half line is only a quarter further on.
AsianSpreadQuarterStep(event, difference, home) ==
    LET side == IF home THEN 1 ELSE -1
        sign == IF event.nSpreadPoints < 0 THEN -side ELSE side
        base == (Abs(event.nSpreadPoints) \div 50) * 50
        odds == event.odds[IF home THEN "spreadHome" ELSE "spreadAway"]
        one  == HalfLine(odds, base * sign, difference)
        two  == HalfLine(odds, (base + 25) * sign, difference)
    IN  <<HalfOdds(one[1]) + HalfOdds(two[1]), HalfOdds(one[2]) + HalfOdds(two[2])>>

CalculateAsianSpreadOdds(event, difference, home) ==
    LET side == IF home THEN 1 ELSE -1
        sign == IF event.nSpreadPoints < 0 THEN -side ELSE side
        base == (Abs(event.nSpreadPoints) \div 50) * 50
        odds == event.odds[IF home THEN "spreadHome" ELSE "spreadAway"]
        one  == HalfLine(odds, base * sign, difference)
        two  == HalfLine(odds, (base + 50) * sign, difference)
    IN  <<HalfOdds(one[1]) + HalfOdds(two[1]), HalfOdds(one[2]) + HalfOdds(two[2])>>

\* The spread market from protocol version 3 on.
SpreadOdds(event, home, result) ==
    LET margin     == result.nHomeScore - result.nAwayScore
        difference == IF home THEN margin ELSE -margin
        line       == IF home THEN event.nSpreadPoints ELSE -event.nSpreadPoints
        odds       == event.odds[IF home THEN "spreadHome" ELSE "spreadAway"]
    IN  CASE line % 50 = 0 -> HalfLine(odds, line, difference)
          [] line % 50 # 0 /\ line % 25 = 0 ->
               CalculateAsianSpreadOdds(event, difference, home)
          [] OTHER -> Lost

\* GetBetOdds for a peerless leg (fWagerrProtocolV3 set).
GetBetOdds(outcome, event, result) ==
    LET odds  == event.odds[outcome]
        total == result.nHomeScore + result.nAwayScore
        Win(won) == IF won THEN Pays(odds) ELSE Lost
    IN  CASE \/ result.nResultType = "eventRefund"
             \/ result.nResultType = MarketRefund(outcome)
             \/ odds = 0                        -> Refund
          [] OTHER ->
             CASE outcome = "moneyLineHomeWin" -> Win(result.nHomeScore > result.nAwayScore)
               [] outcome = "moneyLineAwayWin" -> Win(result.nAwayScore > result.nHomeScore)
               [] outcome = "moneyLineDraw"    -> Win(result.nHomeScore = result.nAwayScore)
               [] outcome \in Spreads          -> SpreadOdds(event, outcome = "spreadHome", result)
               [] outcome \in Totals /\ total = event.nTotalPoints -> Refund
               [] outcome = "totalOver" /\ total # event.nTotalPoints ->
                    Win(total > event.nTotalPoints)
               [] outcome = "totalUnder" /\ total # event.nTotalPoints ->
                    Win(total < event.nTotalPoints)

GetBetPotentialOdds(outcome, event) == event.odds[outcome]

\* The places that win each field market.
WinningPlaces(outcome) ==
    CASE outcome = "outright" -> {"place1"}
      [] outcome = "place"    -> {"place1", "place2"}
      [] outcome = "show"     -> {"place1", "place2", "place3"}

\* GetBetOdds for a field leg.  A contender without a place did not finish;
\* one the locked event does not list has odds 0.
GetFieldBetOdds(leg, event, result) ==
    IF result.nResultType = "eventRefund"
    THEN Refund
    ELSE IF /\ leg.contender \in DOMAIN result.places
            /\ result.places[leg.contender] \in WinningPlaces(leg.outcome)
            /\ leg.contender \in DOMAIN event.contenders
         THEN Pays(event.contenders[leg.contender].odds[leg.outcome])
         ELSE Lost

GetFieldBetPotentialOdds(leg, event) ==
    IF leg.contender \in DOMAIN event.contenders
    THEN event.contenders[leg.contender].odds[leg.outcome]
    ELSE 0

\* The legs of a parlay are multiplied, rounding down after each factor.
MultiplyOdds(pairs) ==
    FoldLeft(LAMBDA acc, p : <<(acc[1] * p[1]) \div BET_ODDSDIVISOR,
                               (acc[2] * p[2]) \div BET_ODDSDIVISOR>>,
             Head(pairs), Tail(pairs))

\* CalculatePayoutBurnAmounts: the potential payout that the liability
\* counters of an event add up.
PotentialPayout(amount, odds) ==
    LET winnings == amount * odds
    IN  IF odds <= BET_ODDSDIVISOR
        THEN winnings \div BET_ODDSDIVISOR
        ELSE (winnings - ((winnings - amount * BET_ODDSDIVISOR) \div 1000) * 60)
                 \div BET_ODDSDIVISOR

BetResult(stake, payout, odds, pairs, potential) ==
    LET legs     == DOMAIN pairs
        refund   == \E i \in legs : pairs[i][1] = BET_ODDSDIVISOR
        halfLose == \E i \in legs : pairs[i][1] = BET_ODDSDIVISOR \div 2
        halfWin  == \E i \in legs :
                       /\ pairs[i][1] \notin {0, BET_ODDSDIVISOR \div 2, BET_ODDSDIVISOR}
                       /\ pairs[i][1] < potential[i]
    IN  CASE payout = 0 -> "lose"
          [] payout > 0 /\ payout < stake -> "partialLose"
          [] payout > 0 /\ payout >= stake /\ odds[1] = BET_ODDSDIVISOR -> "refund"
          [] OTHER -> IF \/ Len(pairs) = 1 /\ halfWin
                         \/ Len(pairs) > 1 /\ (halfWin \/ halfLose \/ refund)
                      THEN "partialWin" ELSE "win"
=============================================================================
