---------------------------- MODULE BettingView ----------------------------
(***************************************************************************)
(* The state every betting handler works on: the databases of the          *)
(* process-wide bettingsView and of the bettingsViewCache that ConnectTip  *)
(* and DisconnectTip layer over it for one block, the active chain, and    *)
(* the position inside the block that is being connected or disconnected.  *)
(*                                                                         *)
(* The handlers run under cs_main, one output at a time: connecting goes   *)
(* through the outputs of the block's transactions in order, disconnecting *)
(* through the same outputs backwards.  A step of this specification is    *)
(* one output.  How a cache reaches its parent and the disk is the subject *)
(* of FlushableStorage; here a flush is a single assignment.               *)
(*                                                                         *)
(* Heights are above WagerrProtocolV3StartHeight: the older protocol       *)
(* versions are not modelled.                                              *)
(***************************************************************************)
EXTENDS BettingOdds, FiniteSets, FiniteSetsExt, Functions

CONSTANTS
    Txs,            \* transactions with betting outputs: [id, oracle, outs], id > 0
    BaseView,       \* the databases at BaseHeight
    BaseHeight,     \* height of the oldest block that is never disconnected
    V3Start,        \* WagerrProtocolV3StartHeight
    V4Start,        \* WagerrProtocolV4StartHeight
    QuickGamesEnd,  \* QuickGamesEndHeight
    Timespan,       \* BetBlocksIndexTimespanV3
    MaxUndoDepth,   \* MaxBettingUndoDepth
    PlaceTimeout,   \* BetPlaceTimeoutBlocks, in seconds
    COIN,           \* units in a coin
    MinBet,         \* MinBetPayoutRange, in coins
    MaxBet,         \* MaxBetPayoutRange
    MaxParlayBet,   \* MaxParlayBetPayoutRange
    MaxParlayLegs,
    BlockTimes,     \* the times a block may carry
    Proofs,         \* the proof-of-stake hashes a block may have
    MaxHeight,      \* bound: the chain is not extended beyond it
    MaxBlockTxs     \* bound: betting transactions in a block

ASSUME HeightsAssumption ==
    /\ {BaseHeight, V3Start, V4Start, QuickGamesEnd, Timespan} \subseteq Nat
    /\ V3Start <= BaseHeight
    /\ MaxUndoDepth \in Nat \ {0, 1}
    /\ BaseHeight >= MaxUndoDepth   \* below, the pruning limit wraps

\* A transaction that is looked at has a betting output.
ASSUME TxsAssumption == \A tx \in Txs : tx.outs \in Seq({tx.outs[i] : i \in DOMAIN tx.outs}) \ {<<>>}

\* The databases of a CBettingsView.
Databases == {"mappings", "events", "results", "bets", "fieldEvents", "fieldResults",
              "fieldBets", "chainGamesLottoEvents", "chainGamesLottoResults",
              "chainGamesLottoBets", "quickGamesBets", "undos", "payoutsInfo", "lastHeight"}

IsView(v) == v = [d \in Databases |-> v[d]]

ASSUME BaseViewAssumption == IsView(BaseView) /\ BaseView.lastHeight = BaseHeight

VARIABLES
    view,   \* bettingsView
    cache,  \* bettingsViewCache
    chain,  \* the active chain from BaseHeight on
    peak,   \* the greatest height connected so far
    mode,   \* "idle", "connect", "disconnect" or "failed"
    blk,    \* the block being connected or disconnected
    pos     \* [tx, out]: the output to process or to undo next

vars == <<view, cache, chain, peak, mode, blk, pos>>

-----------------------------------------------------------------------------
\* A database is a function on the keys it holds.  CBettingDB::Write refuses
\* a key that exists, Update and Erase one that does not.

Put(db, k, v)      == [x \in DOMAIN db \cup {k} |-> IF x = k THEN v ELSE db[x]]
DbWrite(db, k, v)  == IF k \in DOMAIN db THEN db ELSE Put(db, k, v)
DbUpdate(db, k, v) == IF k \in DOMAIN db THEN Put(db, k, v) ELSE db
DbErase(db, k)     == Restrict(db, DOMAIN db \ {k})

TipHeight == BaseHeight + Len(chain) - 1
BlkHeight == IF mode = "connect" THEN TipHeight + 1 ELSE TipHeight

Tx  == blk.txs[pos.tx]
Out == Tx.outs[pos.out]

\* Undo records are filed under the outpoint, bets under height and outpoint.
UndoKey == <<Tx.id, pos.out>>
BetKey  == <<BlkHeight, Tx.id, pos.out>>

OracleTypes == {"mapping", "plEvent", "plResult", "plUpdateOdds", "plSpreads",
                "plTotals", "plPatch", "plZeroing", "fEvent", "fUpdateOdds",
                "fUpdateModifiers", "fUpdateMargin", "fZeroing", "fResult",
                "cgEvent", "cgResult"}

\* The output to handle next has the given type and will not be skipped: an
\* oracle's type counts only in a transaction from an oracle address.
Handles(m, type) ==
    /\ mode = m
    /\ pos.tx \in DOMAIN blk.txs
    /\ pos.out \in DOMAIN Tx.outs
    /\ Out.type = type
    /\ type \in OracleTypes => Tx.oracle

Processing(type) == Handles("connect", type)
Undoing(type)    == Handles("disconnect", type)

\* Fault: undoing starts one past the last output.
NextPosOnePast ==
    IF mode = "connect" THEN [pos EXCEPT !.out = @ + 1]
    ELSE IF pos.out > 1 THEN [pos EXCEPT !.out = @ - 1]
    ELSE [tx |-> pos.tx - 1,
          out |-> IF pos.tx > 1 THEN Len(blk.txs[pos.tx - 1].outs) + 1 ELSE 0]

\* Connecting stays on the last transaction until the next one is taken up;
\* disconnecting goes to the last output of the one before.
NextPos ==
    IF mode = "connect" THEN [pos EXCEPT !.out = @ + 1]
    ELSE IF pos.out > 1 THEN [pos EXCEPT !.out = @ - 1]
    ELSE [tx |-> pos.tx - 1,
          out |-> IF pos.tx > 1 THEN Len(blk.txs[pos.tx - 1].outs) ELSE 0]

\* The output is dealt with, leaving the databases as c.
Advance(c) ==
    /\ cache' = c
    /\ pos' = NextPos
    /\ UNCHANGED <<view, chain, peak, mode, blk>>

\* The same, and the event joins the results of the block.
AdvanceWithResult(c, event) ==
    /\ cache' = c
    /\ pos' = NextPos
    /\ blk' = [blk EXCEPT !.vResultIDs = Append(@, event)]
    /\ UNCHANGED <<view, chain, peak, mode>>

\* A failed assertion, an undo that returns false, AbortNode: the node stops.
Abort == mode' = "failed" /\ UNCHANGED <<view, cache, chain, peak, blk, pos>>

-----------------------------------------------------------------------------
\* Undo records.

\* SaveBettingUndo asserts that the outpoint has no record yet.
AdvanceWithUndo(c, vUndos) ==
    IF UndoKey \in DOMAIN c.undos
    THEN Abort
    ELSE Advance([c EXCEPT !.undos = Put(@, UndoKey, [height |-> BlkHeight, vUndos |-> vUndos])])

GetBettingUndo(c, key) == IF key \in DOMAIN c.undos THEN c.undos[key].vUndos ELSE <<>>

\* Fault: the counters of a peerless event are not restored.
RestoreInfoOnly(db, vUndos, kind) ==
    LET Saved(e) == {i \in DOMAIN vUndos : vUndos[i].kind = kind /\ vUndos[i].id = e}
    IN  [e \in DOMAIN db |-> IF Saved(e) = {} \/ kind = "field" THEN db[e]
                             ELSE [db[e] EXCEPT !.info = vUndos[Max(Saved(e))].event.info]]

\* UndoEventChanges writes the saved states back one after the other: where
\* an event was saved twice the last record wins.
RestoreEvents(db, vUndos, kind) ==
    LET Saved(e) == {i \in DOMAIN vUndos : vUndos[i].kind = kind /\ vUndos[i].id = e}
    IN  [e \in DOMAIN db |-> IF Saved(e) = {} THEN db[e] ELSE vUndos[Max(Saved(e))].event]

\* Fault: the record is not erased.
UndoKeepsRecord(c, key) ==
    LET vUndos == GetBettingUndo(c, key)
    IN  [c EXCEPT !.events      = RestoreEvents(@, vUndos, "peerless"),
                  !.fieldEvents = RestoreEvents(@, vUndos, "field")]

UndoEventChanges(c, key) ==
    LET vUndos == GetBettingUndo(c, key)
    IN  [c EXCEPT !.events      = RestoreEvents(@, vUndos, "peerless"),
                  !.fieldEvents = RestoreEvents(@, vUndos, "field"),
                  !.undos       = DbErase(@, key)]

\* The part of an undo handler that reverts an event: it fails when there is
\* no record to erase.
RevertOr(after) ==
    IF UndoKey \in DOMAIN cache.undos THEN Advance(after) ELSE Abort

\* Fault: one block too many is pruned.
PruneOneMore(c, height) ==
    [c EXCEPT !.undos = Restrict(@, {k \in DOMAIN @ : @[k].height > height})]

PruneOlderUndos(c, height) ==
    [c EXCEPT !.undos = Restrict(@, {k \in DOMAIN @ : @[k].height >= height})]

\* A finite set in the order R: the i-th element is the one with i - 1 before it.
InOrder(S, R) ==
    [i \in 1 .. Cardinality(S) |->
        CHOOSE x \in S : Cardinality({y \in S : <<y, x>> \in R}) = i - 1]

\* What a sequence has at these positions.
At(s, positions) ==
    LET order == InOrder(positions, {p \in positions \X positions : p[1] < p[2]})
    IN  [i \in 1 .. Cardinality(positions) |-> s[order[i]]]

\* The same for a sequence of sequences, one after the other: a position is a
\* pair <<which, where>>.
Positions(ss) == UNION {{i} \X DOMAIN ss[i] : i \in DOMAIN ss}

AtPairs(ss, positions) ==
    LET before == {p \in positions \X positions :
                     p[1][1] < p[2][1] \/ (p[1][1] = p[2][1] /\ p[1][2] < p[2][2])}
        order  == InOrder(positions, before)
    IN  [i \in 1 .. Cardinality(positions) |-> ss[order[i][1]][order[i][2]]]

\* The databases iterate over bets by height, then by outpoint.
KeyLess(a, b) ==
    \/ a[1] < b[1]
    \/ a[1] = b[1] /\ a[2] < b[2]
    \/ a[1] = b[1] /\ a[2] = b[2] /\ a[3] < b[3]

InKeyOrder(keys) == InOrder(keys, {p \in keys \X keys : KeyLess(p[1], p[2])})

\* A payout goes to the player of a bet, a reward to the dev or OMNO address.
Payout(key, amount, type) == [to |-> "player", key |-> key, amount |-> amount, type |-> type]
Reward(to, height, amount, type) ==
    [to |-> to, key |-> <<height, 0, 0>>, amount |-> amount, type |-> type]

\* GetBetSearchStartHeight above V3Start.
SearchStart(height) == IF height >= Timespan THEN height - Timespan ELSE V3Start

InRange(amount, most) == amount >= MinBet * COIN /\ amount <= most * COIN

\* Both bet databases mark a settled bet in the same way.
SetUncompleted(bet) ==
    [bet EXCEPT !.completed = FALSE, !.resultType = "unknown", !.payout = 0]
=============================================================================
