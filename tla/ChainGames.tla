----------------------------- MODULE ChainGames -----------------------------
(***************************************************************************)
(* Chain games, a lotto whose entrants all pay the same fee, and quick     *)
(* games, dice thrown with the proof-of-stake hash of the block of the     *)
(* bet: the check, the processing and the undo of their outputs (betting/  *)
(* bet.cpp) and their payouts (betting/bet_v3.cpp).                        *)
(*                                                                         *)
(* New outputs are refused from QuickGamesEnd on; undoing does not look at *)
(* that height.                                                            *)
(***************************************************************************)
EXTENDS BettingView, Dice

-----------------------------------------------------------------------------
\* CheckBettingTx.

GamesOpen == TipHeight + 1 < QuickGamesEnd

CheckCgBet(out) ==
    /\ GamesOpen
    /\ out.event \in DOMAIN view.chainGamesLottoEvents
    /\ out.event \notin view.chainGamesLottoResults
    /\ out.amount = view.chainGamesLottoEvents[out.event] * COIN

CheckQgBet(out) == GamesOpen /\ InRange(out.amount, MaxBet)

CheckCgEvent(out) == GamesOpen /\ out.event \notin DOMAIN view.chainGamesLottoEvents

CheckCgResult(out) ==
    /\ GamesOpen
    /\ out.event \in DOMAIN view.chainGamesLottoEvents
    /\ out.event \notin view.chainGamesLottoResults

-----------------------------------------------------------------------------
\* ProcessBettingTx.

\* The event of a bet is looked up in the databases of the block before.
ProcessCgBet ==
    /\ Processing("cgBet")
    /\ IF GamesOpen /\ Out.event \in DOMAIN view.chainGamesLottoEvents
       THEN Advance([cache EXCEPT !.chainGamesLottoBets = DbWrite(@, BetKey,
                [event |-> Out.event, amount |-> Out.amount, completed |-> FALSE, payout |-> 0])])
       ELSE Advance(cache)

ProcessQgBet ==
    /\ Processing("qgBet")
    /\ IF GamesOpen
       THEN Advance([cache EXCEPT !.quickGamesBets = DbWrite(@, BetKey,
                [info |-> Out.info, amount |-> Out.amount, completed |-> FALSE,
                 resultType |-> "unknown", payout |-> 0])])
       ELSE Advance(cache)

ProcessCgEvent ==
    /\ Processing("cgEvent")
    /\ IF GamesOpen
       THEN Advance([cache EXCEPT !.chainGamesLottoEvents = DbWrite(@, Out.event, Out.nEntryFee)])
       ELSE Advance(cache)

ProcessCgResult ==
    /\ Processing("cgResult")
    /\ IF /\ GamesOpen
          /\ Out.event \in DOMAIN cache.chainGamesLottoEvents
          /\ Out.event \notin cache.chainGamesLottoResults
       THEN AdvanceWithResult(
              [cache EXCEPT !.chainGamesLottoResults = @ \cup {Out.event}], Out.event)
       ELSE Advance(cache)

-----------------------------------------------------------------------------
\* UndoBettingTx.  An entry that is not there to erase fails the undo.

EraseOr(found, after) == IF found THEN Advance(after) ELSE Abort

UndoCgBet ==
    /\ Undoing("cgBet")
    /\ IF Out.event \in DOMAIN view.chainGamesLottoEvents
       THEN EraseOr(BetKey \in DOMAIN cache.chainGamesLottoBets,
                    [cache EXCEPT !.chainGamesLottoBets = DbErase(@, BetKey)])
       ELSE Advance(cache)

UndoQgBet ==
    /\ Undoing("qgBet")
    /\ EraseOr(BetKey \in DOMAIN cache.quickGamesBets,
               [cache EXCEPT !.quickGamesBets = DbErase(@, BetKey)])

UndoCgEvent ==
    /\ Undoing("cgEvent")
    /\ EraseOr(Out.event \in DOMAIN cache.chainGamesLottoEvents,
               [cache EXCEPT !.chainGamesLottoEvents = DbErase(@, Out.event)])

UndoCgResult ==
    /\ Undoing("cgResult")
    /\ EraseOr(Out.event \in cache.chainGamesLottoResults,
               [cache EXCEPT !.chainGamesLottoResults = @ \ {Out.event}])

-----------------------------------------------------------------------------
\* Payouts.  `last` is the block before, `height` the height of the one that
\* pays.

\* The lotto results are read from the block itself, not from vResultIDs:
\* from oracle transactions with at most two outputs, repeated or not.
GetCGLottoEventResults(last) ==
    LET outs == [i \in DOMAIN last.txs |-> last.txs[i].outs]
    IN  AtPairs(outs, {p \in Positions(outs) :
                         /\ last.txs[p[1]].oracle
                         /\ Len(outs[p[1]]) <= 2
                         /\ outs[p[1]][p[2]].type = "cgResult"})

\* Fault: nothing is burnt and the OMNO's share is paid on top.
WholePot(pot) == pot

\* 80% of the pot.
WinnerPayout(pot) == (pot \div 10) * 8

\* The open entries in a lotto, in the order of the database.
Entries(bets, e, fee, start) ==
    InKeyOrder({k \in DOMAIN bets :
        /\ k[1] >= start
        /\ ~bets[k].completed
        /\ bets[k].event = e
        /\ bets[k].amount = fee})

\* One drawing: a single entrant gets the fee back and stays open, of several
\* one wins 80% of the pot, the OMNO gets 2%, and all are completed.
Draw(bets, entries, fee, hash, height) ==
    LET pot    == IF hash = 0 THEN 0 ELSE Len(entries) * fee
        prize  == WinnerPayout(pot)
        winner == entries[(hash % Len(entries)) + 1]
    IN  CASE Len(entries) = 0 -> [marks |-> <<>>, payouts |-> <<>>]
          [] Len(entries) = 1 ->
               [marks |-> <<>>,
                payouts |-> IF fee > 0 THEN <<Payout(entries[1], fee, "chainGamesRefund")>> ELSE <<>>]
          [] OTHER ->
               [marks |-> [k \in ToSet(entries) |->
                             [bets[k] EXCEPT !.completed = TRUE,
                                 !.payout = IF k = winner THEN prize ELSE @]],
                payouts |-> IF prize > 0
                            THEN <<Payout(winner, prize, "chainGamesPayout"),
                                  Reward("omno", height, pot \div 50, "chainGamesReward")>>
                            ELSE <<>>]

\* The marks are written once all results have been drawn.
SettleDraws(bets, draws) ==
    LET Marked(k) == {i \in DOMAIN draws : k \in DOMAIN draws[i].marks}
        payouts   == [i \in DOMAIN draws |-> draws[i].payouts]
    IN  [bets |-> [k \in DOMAIN bets |->
                     IF Marked(k) = {} THEN bets[k] ELSE draws[Max(Marked(k))].marks[k]],
         payouts |-> AtPairs(payouts, Positions(payouts))]

DrawResults(c, results, hash, height) ==
    LET Fee(i) == c.chainGamesLottoEvents[results[i].event] * COIN
    IN  [i \in DOMAIN results |->
            Draw(c.chainGamesLottoBets,
                 Entries(c.chainGamesLottoBets, results[i].event, Fee(i), SearchStart(height - 1)),
                 Fee(i), hash, height)]

GetCGLottoBetPayouts(c, last, height) ==
    LET all     == GetCGLottoEventResults(last)
        results == At(all, {i \in DOMAIN all : all[i].event \in DOMAIN c.chainGamesLottoEvents})
    IN  SettleDraws(c.chainGamesLottoBets, DrawResults(c, results, last.proof, height))

\* What a quick game bet pays and the fee it leaves, times 10000.  The bets
\* are those DiceIsFair calls on the table: for them the odds are 0 or at
\* least BET_ODDSDIVISOR, and the unsigned subtraction does not wrap.
QuickGame(bet, hash) ==
    LET odds == DiceHandler(bet.info, Throw(hash))
        fee  == IF odds > 0 THEN ((bet.amount * (odds - BET_ODDSDIVISOR)) \div 1000) * 10 ELSE 0
    IN  [odds |-> odds, fee |-> fee, payout |-> (bet.amount * odds - fee) \div BET_ODDSDIVISOR]

QuickGamePayout(k, game) ==
    Payout(k, game.payout,
           IF game.odds = BET_ODDSDIVISOR THEN "quickGamesRefund" ELSE "quickGamesPayout")

\* Fault: the bets of all blocks are gone through, completed or not.
QuickGamesDueAgain(c, height) ==
    IF height - 1 >= QuickGamesEnd THEN {}
    ELSE {k \in DOMAIN c.quickGamesBets : k[1] < height}

\* The bets of the block before.
QuickGamesDue(c, height) ==
    IF height - 1 >= QuickGamesEnd THEN {}
    ELSE {k \in DOMAIN c.quickGamesBets : k[1] = height - 1 /\ ~c.quickGamesBets[k].completed}

QuickGameResult(game) ==
    CASE game.payout = 0 -> "lose"
      [] game.payout > 0 /\ game.odds = BET_ODDSDIVISOR -> "refund"
      [] game.payout > 0 /\ game.odds # BET_ODDSDIVISOR -> "win"

PlayedQuickGame(bet, game) ==
    [bet EXCEPT !.completed = TRUE, !.payout = game.payout, !.resultType = QuickGameResult(game)]

\* The rewards are added up over the bets that won or were refunded; they
\* are expected in the block even where they come to nothing.
QuickGamesRewards(games, paid, height) ==
    LET Share(permille) ==
            MapThenSumSet(LAMBDA k : ((games[k].fee \div 1000) * permille) \div BET_ODDSDIVISOR, paid)
    IN  IF paid = {} THEN <<>>
        ELSE <<Reward("dev", height, Share(100), "quickGamesReward"),
               Reward("omno", height, Share(400), "quickGamesReward")>>

\* games[k] is how bet k came out.
SettleQuickGames(bets, games, height) ==
    LET paid == {k \in DOMAIN games : games[k].payout > 0}
        ks   == InKeyOrder(paid)
    IN  [bets    |-> [k \in DOMAIN bets |->
                        IF k \in DOMAIN games THEN PlayedQuickGame(bets[k], games[k]) ELSE bets[k]],
         payouts |-> [i \in DOMAIN ks |-> QuickGamePayout(ks[i], games[ks[i]])]
                       \o QuickGamesRewards(games, paid, height)]

GetQuickGamesBetPayouts(c, last, height) ==
    SettleQuickGames(c.quickGamesBets,
                     [k \in QuickGamesDue(c, height) |-> QuickGame(c.quickGamesBets[k], last.proof)],
                     height)

\* The completed bets from `height` on are open again.
UndoQGBetPayouts(c, height) ==
    [c EXCEPT !.quickGamesBets = [k \in DOMAIN @ |->
        IF k[1] >= height /\ @[k].completed THEN SetUncompleted(@[k]) ELSE @[k]]]
=============================================================================
