----------------------------- MODULE MCBetting -----------------------------
(***************************************************************************)
(* Instances of BettingChain for TLC: the transactions that may be mined   *)
(* and the databases at the oldest block.  Odds and stakes have the size   *)
(* they have in practice, in whole coins; MarketOdds stands in for the     *)
(* floating point of CalcOdds.                                             *)
(***************************************************************************)
EXTENDS BettingChain

CONSTANT Pools      \* the scenarios of an instance, by name

\* Outright pays the input odds plus the modifier; place and show pay less.
\* The margin is taken off.
MCMarketOdds(event, id, outcome) ==
    LET c == event.contenders[id]
    IN  IF c.nInputOdds = 0 THEN 0
        ELSE (c.nInputOdds + c.nModifier - event.nMarginPercent)
               - (IF outcome = "outright" THEN 0 ELSE 2000)

EmptyView ==
    [mappings |-> {}, events |-> <<>>, results |-> <<>>, bets |-> <<>>,
     fieldEvents |-> <<>>, fieldResults |-> <<>>, fieldBets |-> <<>>,
     chainGamesLottoEvents |-> <<>>, chainGamesLottoResults |-> {},
     chainGamesLottoBets |-> <<>>, quickGamesBets |-> <<>>,
     undos |-> <<>>, payoutsInfo |-> {}, lastHeight |-> BaseHeight]

Tx1(id, oracle, out) == [id |-> id, oracle |-> oracle, outs |-> <<out>>]

-----------------------------------------------------------------------------
\* Peerless events 1 and 2.

Odds(home, spread, over) == [o \in Outcomes |->
    CASE o \in MoneyLine -> home [] o \in Spreads -> spread [] o \in Totals -> over]

Info(start) == [odds |-> Odds(20000, 19000, 18000), nStartTime |-> start,
                nSpreadPoints |-> 75, nTotalPoints |-> 250, nStage |-> 0]

NewEvent(start) == [info |-> Info(start), bets |-> Zero, liability |-> Zero]

PeerlessView == [EmptyView EXCEPT !.events = 1 :> NewEvent(1000) @@ 2 :> NewEvent(0)]

Leg(e, o) == [event |-> e, outcome |-> o]
Score(type, home, away) == [nResultType |-> type, nHomeScore |-> home, nAwayScore |-> away]

PlBet(id, amount, leg) == Tx1(id, FALSE, [type |-> "plBet", amount |-> amount, legs |-> <<leg>>])
PlParlay(id, amount, legs) == Tx1(id, FALSE, [type |-> "plParlayBet", amount |-> amount, legs |-> legs])
PlResult(id, e, result) == Tx1(id, TRUE, [type |-> "plResult", event |-> e, result |-> result])
PlUpdateOdds(id, e, odds) == Tx1(id, TRUE, [type |-> "plUpdateOdds", event |-> e, odds |-> Odds(odds, 0, 0)])

\* Bets, odds changes and results on one event and a parlay over both.
SettleTxs ==
    {PlBet(1, 200, Leg(1, "moneyLineHomeWin")),
     PlParlay(2, 100, <<Leg(1, "moneyLineHomeWin"), Leg(2, "totalOver")>>),
     PlUpdateOdds(3, 1, 30000),
     PlResult(4, 1, Score("standardResult", 300, 100)),
     PlResult(5, 2, Score("standardResult", 200, 100))}

-----------------------------------------------------------------------------
\* Oracle transactions on peerless events: mappings, a new event, every kind
\* of update, and a player's transaction whose second output is an oracle's.

Mapping(key) == [type |-> "mapping", key |-> key]
PlEvent(e, needs) == [type |-> "plEvent", event |-> e, needs |-> needs, info |-> Info(1000)]
UpdateOdds(e) == [type |-> "plUpdateOdds", event |-> e, odds |-> Odds(30000, 0, 0)]
UpdateSpreads(e) == [type |-> "plSpreads", event |-> e, points |-> 150, odds |-> Odds(0, 21000, 0)]
UpdateTotals(e) == [type |-> "plTotals", event |-> e, points |-> 350, odds |-> Odds(0, 0, 22000)]
Patch(e) == [type |-> "plPatch", event |-> e, nStartTime |-> 2000]
Zeroing(es) == [type |-> "plZeroing", events |-> es]
Result(e) == [type |-> "plResult", event |-> e, result |-> Score("standardResult", 300, 100)]

OracleTx(id, outs) == [id |-> id, oracle |-> TRUE, outs |-> outs]

OracleTxs ==
    {OracleTx(1, <<Mapping(<<"team", 7>>), Patch(1)>>),
     OracleTx(2, <<PlEvent(3, {<<"team", 7>>})>>),
     OracleTx(3, <<UpdateOdds(1), UpdateSpreads(1), UpdateTotals(1)>>),
     OracleTx(4, <<Zeroing(<<1, 2>>)>>),
     [id |-> 5, oracle |-> FALSE,
      outs |-> <<[type |-> "plBet", amount |-> 200, legs |-> <<Leg(1, "spreadHome")>>], PlEvent(4, {})>>],
     OracleTx(6, <<Mapping(<<"contender", 5>>)>>)}

\* A bet and its result.
BetAndResultTxs == {PlBet(1, 200, Leg(1, "moneyLineHomeWin")), OracleTx(2, <<Result(1)>>)}

-----------------------------------------------------------------------------
\* Field events 1 and 2 with three contenders each.

Contenders(ids) == [id \in ids |-> [DefaultContender EXCEPT !.nInputOdds = 20000 + 1000 * id]]

NewFieldEvent == CalcOdds([nStartTime |-> 1000, nStage |-> 0, nMarketType |-> "all_markets",
                           nMarginPercent |-> 100, contenders |-> Contenders(1..3)])

FieldView == [EmptyView EXCEPT !.mappings = {<<"contender", id>> : id \in 1..3},
                               !.fieldEvents = [e \in 1..2 |-> NewFieldEvent]]

FLeg(e, o, c) == [event |-> e, outcome |-> o, contender |-> c]
FEvent(e) == [type |-> "fEvent", event |-> e, needs |-> {}, inputs |-> 1 :> 30000 @@ 2 :> 15000,
              nStartTime |-> 1000, nStage |-> 0, nMarketType |-> "all_markets", nMarginPercent |-> 100]
FUpdate(type, e, inputs, margin) ==
    [type |-> type, event |-> e, inputs |-> inputs, nMarginPercent |-> margin]
FResult(e, places) ==
    [type |-> "fResult", event |-> e, result |-> [nResultType |-> "standardResult", places |-> places]]
FBet(id, type, legs) == Tx1(id, FALSE, [type |-> type, amount |-> 200 * COIN, legs |-> legs])

\* Everything that changes a field event, and a result that settles no bet.
FieldTxs ==
    {OracleTx(1, <<FEvent(3)>>),
     OracleTx(2, <<FUpdate("fUpdateOdds", 1, 1 :> 0 @@ 2 :> 25000, 0),
                   FUpdate("fUpdateModifiers", 1, 3 :> 500, 0)>>),
     OracleTx(3, <<FUpdate("fUpdateMargin", 1, <<>>, 200), FUpdate("fZeroing", 2, <<>>, 0)>>),
     FBet(4, "fBet", <<FLeg(1, "place", 1)>>),
     FBet(5, "fParlayBet", <<FLeg(1, "outright", 2), FLeg(2, "show", 3)>>),
     OracleTx(6, <<FResult(2, 3 :> "place1")>>)}

\* Results that settle field bets.
FieldSettleTxs ==
    {FBet(1, "fBet", <<FLeg(1, "place", 1)>>),
     FBet(2, "fParlayBet", <<FLeg(1, "outright", 2), FLeg(2, "show", 3)>>),
     OracleTx(3, <<FResult(1, 2 :> "place1" @@ 1 :> "place2")>>),
     OracleTx(4, <<FResult(2, 3 :> "place1")>>),
     OracleTx(5, <<FUpdate("fUpdateOdds", 1, 1 :> 40000, 0)>>)}

-----------------------------------------------------------------------------
\* Lotto 1 and dice.

CgEvent == [type |-> "cgEvent", event |-> 1, nEntryFee |-> 100]
CgBet   == [type |-> "cgBet", event |-> 1, amount |-> 100 * COIN]
CgResult == [type |-> "cgResult", event |-> 1]
QgBet(betType, number) ==
    [type |-> "qgBet", amount |-> 50 * COIN, info |-> [betType |-> betType, betNumber |-> number]]

GamesTxs ==
    {OracleTx(1, <<CgEvent>>), Tx1(2, FALSE, CgBet), Tx1(3, FALSE, CgBet),
     OracleTx(4, <<CgResult>>), Tx1(5, FALSE, QgBet("qgDiceEven", 1))}

\* A lotto with the number of a peerless event.
SharedIdView == [PeerlessView EXCEPT !.chainGamesLottoEvents = 1 :> 100]
SharedIdTxs == BetAndResultTxs \cup {OracleTx(3, <<CgResult>>)}

-----------------------------------------------------------------------------
\* A run tries its scenarios one after the other: the blocks of a behaviour
\* come from one pool of transactions, up to the height of that pool.

PoolTxs(p) == CASE p = "settle"      -> SettleTxs
                [] p = "oracle"      -> OracleTxs
                [] p = "field"       -> FieldTxs
                [] p = "fieldSettle" -> FieldSettleTxs
                [] p = "games"       -> GamesTxs
                [] p = "sharedIds"   -> SharedIdTxs

PoolBlocks(p) == IF p \in {"settle", "games", "sharedIds"} THEN 4 ELSE 3

MCTxs == UNION {PoolTxs(p) : p \in Pools}

VARIABLE pool

MCInit == Init /\ pool \in Pools

MCNext ==
    /\ Next
    /\ ToSet(blk'.txs) \subseteq PoolTxs(pool)
    /\ mode' = "connect" => Len(chain) <= PoolBlocks(pool)
    /\ blk'.proof = 8 => pool = "games"
    /\ UNCHANGED pool

MCSpec == MCInit /\ [][MCNext]_<<vars, pool>>

(* Restored, for blocks that settle neither field bets nor games: the marks
   of those survive their block (see field_payouts_kept). *)
FieldRestored == pool = "field" => Restored
=============================================================================
