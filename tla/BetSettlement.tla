--------------------------- MODULE BetSettlement ---------------------------
(***************************************************************************)
(* How a result settles the bets on its event.  GetPLBetPayoutsV3 and      *)
(* GetFieldBetPayoutsV4 go through the same steps over different           *)
(* databases: they look, from the start of the search window on, for bets  *)
(* that name the event and whose other legs all have results, pay them at  *)
(* the product of their legs' odds and mark them completed.                *)
(***************************************************************************)
EXTENDS BettingView

NewBet(amount, legs, lockedEvents) ==
    [amount |-> amount, legs |-> legs, locked |-> lockedEvents, time |-> blk.time,
     completed |-> FALSE, resultType |-> "unknown", payout |-> 0, payoutHeight |-> 0]

\* Bets placed too close to the start of the event are refunded.
Late(bet, event) == event.nStartTime > 0 /\ bet.time > event.nStartTime - PlaceTimeout

Names(bet, e) == \E i \in DOMAIN bet.legs : bet.legs[i].event = e

AllResulted(bet, results) == \A i \in DOMAIN bet.legs : bet.legs[i].event \in DOMAIN results

\* Fault: only the first leg of a bet is looked at.
DueByFirstLeg(bet, e, results) ==
    ~bet.completed /\ bet.legs[1].event = e /\ AllResulted(bet, results)

\* A result settles the bets that name its event and have no result missing.
Due(bet, e, results) == ~bet.completed /\ Names(bet, e) /\ AllResulted(bet, results)

\* The odds a settled bet is paid at.
FinalOdds(bet, pairs) ==
    IF InRange(bet.amount, MaxBet) THEN MultiplyOdds(pairs) ELSE Refund

Worth(amount, odds) == (amount * odds) \div BET_ODDSDIVISOR

\* Fault: the bet records its payout before the fee.
SetCompletedGross(bet, pairs, potential, height) ==
    LET odds   == FinalOdds(bet, pairs)
        payout == Worth(bet.amount, odds[1])
    IN  [bet EXCEPT !.completed = TRUE,
                    !.payout = payout,
                    !.resultType = BetResult(bet.amount, payout, odds, pairs, potential),
                    !.payoutHeight = IF payout > 0 THEN height ELSE @]

SetCompleted(bet, pairs, potential, height) ==
    LET odds   == FinalOdds(bet, pairs)
        payout == Worth(bet.amount, odds[2])
    IN  [bet EXCEPT !.completed = TRUE,
                    !.payout = payout,
                    !.resultType = BetResult(bet.amount, payout, odds, pairs, potential),
                    !.payoutHeight = IF payout > 0 THEN height ELSE @]

PayoutType(odds) == IF odds[2] <= BET_ODDSDIVISOR THEN "bettingRefund" ELSE "bettingPayout"

\* The results a block has posted, without the closed events.
Posted(results, e) == e \in DOMAIN results /\ results[e].nResultType # "eventClosed"

\* The i-th of these results settles the bet.
SettledBy(bet, results, ids, i) == Posted(results, ids[i]) /\ Due(bet, ids[i], results)

\* Fault: bets are marked when all results have been gone through.
SettlementsMarkedLate(bets, results, ids, start) ==
    {p \in (DOMAIN ids) \X (DOMAIN bets) :
        p[2][1] >= start /\ SettledBy(bets[p[2]], results, ids, p[1])}

\* The results are gone through in order, and a later one finds the bets of
\* an earlier one completed: <<i, k>> if the i-th result settles bet k.
Settlements(bets, results, ids, start) ==
    {p \in (DOMAIN ids) \X (DOMAIN bets) :
        /\ p[2][1] >= start
        /\ SettledBy(bets[p[2]], results, ids, p[1])
        /\ \A j \in 1 .. p[1] - 1 : ~SettledBy(bets[p[2]], results, ids, j)}

\* By result, then in the order of the database.
SettlementOrder(due) ==
    {p \in due \X due :
        \/ p[1][1] < p[2][1]
        \/ p[1][1] = p[2][1] /\ KeyLess(p[1][2], p[2][2])}

\* What settling pays and the fee it leaves.  odds[k] are the odds bet k is
\* paid at.
PaidOut(bets, due, odds) ==
    LET Net(k) == Worth(bets[k].amount, odds[k][2])
        paid   == {p \in due : Net(p[2]) > 0}
        ps     == InOrder(paid, SettlementOrder(paid))
    IN  [i \in 1 .. Cardinality(paid) |-> Payout(ps[i][2], Net(ps[i][2]), PayoutType(odds[ps[i][2]]))]

Fees(bets, keys, odds) ==
    MapThenSumSet(LAMBDA k : Worth(bets[k].amount, odds[k][1]) - Worth(bets[k].amount, odds[k][2]), keys)

\* pairs[k] and offers[k] are the odds of the legs of bet k, as they came out
\* and as they were offered.
SettleResults(bets, results, ids, height, pairs, offers) ==
    LET due  == Settlements(bets, results, ids, SearchStart(height - 1))
        keys == {p[2] : p \in due}
        odds == [k \in keys |-> FinalOdds(bets[k], pairs[k])]
    IN  [bets    |-> [k \in DOMAIN bets |->
                        IF k \in keys THEN SetCompleted(bets[k], pairs[k], offers[k], height)
                                      ELSE bets[k]],
         payouts |-> PaidOut(bets, due, odds),
         fee     |-> Fees(bets, keys, odds)]
=============================================================================
