---------------------------- MODULE BettingChain ----------------------------
(***************************************************************************)
(* Blocks with betting transactions come and go: ConnectTip and            *)
(* DisconnectTip of validation.cpp with everything they do to the betting  *)
(* databases.                                                              *)
(*                                                                         *)
(* Connecting settles the bets that the results of the block before have   *)
(* decided, processes the outputs of the block in order, prunes the undo   *)
(* records and flushes the cache.  Disconnecting takes the settlement      *)
(* back, undoes the outputs backwards and flushes.  The chain is extended  *)
(* with any transactions that pass CheckBettingTx; a transaction from a    *)
(* disconnected block may come back in another one.                        *)
(*                                                                         *)
(* Every block of `chain` also carries `after`, the databases as they were *)
(* right after it was connected; it is there for the properties only.      *)
(***************************************************************************)
EXTENDS PeerlessBetting, FieldBetting, ChainGames

CONSTANT MaintenanceHeight   \* SPORK_20: no betting transactions from here on

Block(time, proof, payouts) ==
    [txs |-> <<>>, time |-> time, proof |-> proof, vResultIDs |-> <<>>, payouts |-> payouts]

NoBlock == Block(0, 0, <<>>)

Connected(block, v) == [txs |-> block.txs, time |-> block.time, proof |-> block.proof,
                        vResultIDs |-> block.vResultIDs, payouts |-> block.payouts, after |-> v]

Init ==
    /\ view = BaseView
    /\ cache = BaseView
    /\ chain = <<Connected(NoBlock, BaseView)>>
    /\ peak = BaseHeight
    /\ mode = "idle"
    /\ blk = NoBlock
    /\ pos = [tx |-> 0, out |-> 0]

-----------------------------------------------------------------------------
AllPayouts(c, pl, cg, qg, fl) ==
    [view |-> [c EXCEPT !.bets = pl.bets, !.chainGamesLottoBets = cg.bets,
                        !.quickGamesBets = qg.bets, !.fieldBets = fl.bets],
     payouts |-> pl.payouts \o cg.payouts \o qg.payouts \o fl.payouts]

\* GetBettingPayouts: what the next block has to pay for the results, the
\* lotto drawings and the quick games of the block before.  Each of the four
\* reads and marks the bets of its own database.
GetBettingPayouts(c, last, height) ==
    AllPayouts(c, GetPLBetPayouts(c, last.vResultIDs, height),
                  GetCGLottoBetPayouts(c, last, height),
                  GetQuickGamesBetPayouts(c, last, height),
                  IF height >= V4Start
                  THEN GetFieldBetPayouts(c, last.vResultIDs, height)
                  ELSE [bets |-> c.fieldBets, payouts |-> <<>>])

\* Outputs of the coinstake without value do not count as payouts.
ExtractPayouts(outs) == At(outs, {i \in DOMAIN outs : outs[i].amount > 0})

IsBlockPayoutsValid(expected, outs) == ExtractPayouts(outs) = expected

\* A block that pays what is expected is valid.
AllCount(expected) == IsBlockPayoutsValid(expected, expected)

SavePayoutsInfo(c, payouts, height) ==
    [c EXCEPT !.payoutsInfo = @ \cup {<<height, i, payouts[i]>> : i \in DOMAIN payouts}]

\* The staker pays what is due, so the block is good unless something is
\* due that does not count.
StartBlock(time, proof, due) ==
    /\ AllCount(due.payouts)
    /\ mode' = "connect"
    /\ cache' = SavePayoutsInfo(due.view, due.payouts, TipHeight + 1)
    /\ blk' = Block(time, proof, due.payouts)
    /\ pos' = [tx |-> 0, out |-> 1]
    /\ UNCHANGED <<view, chain, peak>>

BeginConnect(time, proof) ==
    /\ mode = "idle"
    /\ TipHeight < MaxHeight
    /\ IF view.lastHeight # TipHeight
       THEN Abort
       ELSE StartBlock(time, proof, GetBettingPayouts(view, Last(chain), TipHeight + 1))

\* The block fails one of the other checks; its cache goes with it.
RejectBlock ==
    /\ mode = "connect"
    /\ blk.txs = <<>>
    /\ mode' = "idle"
    /\ cache' = view
    /\ blk' = NoBlock
    /\ pos' = [tx |-> 0, out |-> 0]
    /\ UNCHANGED <<view, chain, peak>>

\* CheckBettingTx looks at the first betting output and no further.
CheckBettingTx(tx) ==
    LET out == tx.outs[1]
    IN  /\ TipHeight + 1 < MaintenanceHeight
        /\ out.type \in OracleTypes => tx.oracle
        /\ CASE out.type = "plBet"       -> CheckPlBet(out)
             [] out.type = "plParlayBet" -> CheckPlParlayBet(out)
             [] out.type = "mapping"     -> CheckMapping(out)
             [] out.type = "plEvent"     -> CheckPlEvent(out)
             [] out.type = "plResult"    -> CheckPlResult(out)
             [] out.type \in PlUpdates   -> CheckPlUpdate(out)
             [] out.type = "plZeroing"   -> CheckPlZeroing(out)
             [] out.type = "fBet"        -> CheckFBet(out)
             [] out.type = "fParlayBet"  -> CheckFParlayBet(out)
             [] out.type = "fEvent"      -> CheckFEvent(out)
             [] out.type \in FieldUpdates -> CheckFUpdate(out)
             [] out.type = "fResult"     -> CheckFResult(out)
             [] out.type = "cgBet"       -> CheckCgBet(out)
             [] out.type = "qgBet"       -> CheckQgBet(out)
             [] out.type = "cgEvent"     -> CheckCgEvent(out)
             [] out.type = "cgResult"    -> CheckCgResult(out)

OutputsDone == blk.txs # <<>> => pos.out > Len(Tx.outs)

InChain(tx) == \E i \in DOMAIN chain : tx \in ToSet(chain[i].txs)

\* The next transaction of the block.
TakeTx(tx) ==
    /\ mode = "connect"
    /\ OutputsDone
    /\ Len(blk.txs) < MaxBlockTxs
    /\ ~InChain(tx) /\ tx \notin ToSet(blk.txs)
    /\ CheckBettingTx(tx)
    /\ blk' = [blk EXCEPT !.txs = Append(@, tx)]
    /\ pos' = [tx |-> Len(blk.txs) + 1, out |-> 1]
    /\ UNCHANGED <<view, cache, chain, peak, mode>>

\* An oracle's output in a transaction that is not from an oracle.
SkipOutput ==
    /\ mode \in {"connect", "disconnect"}
    /\ pos.tx \in DOMAIN blk.txs
    /\ pos.out \in DOMAIN Tx.outs
    /\ Out.type \in OracleTypes
    /\ ~Tx.oracle
    /\ Advance(cache)

EndConnect ==
    /\ mode = "connect"
    /\ OutputsDone
    /\ LET height == BlkHeight
           pruned == IF height % (MaxUndoDepth - 1) = 0
                     THEN PruneOlderUndos(cache, height - MaxUndoDepth) ELSE cache
           done   == [pruned EXCEPT !.lastHeight = height]
       IN  /\ view' = done
           /\ cache' = done
           /\ chain' = Append(chain, Connected(blk, done))
           /\ peak' = IF height > peak THEN height ELSE peak
    /\ mode' = "idle"
    /\ blk' = NoBlock
    /\ pos' = [tx |-> 0, out |-> 0]

-----------------------------------------------------------------------------
\* Fault: the records of the block before are erased.
UndoPayoutsInfoBelow(c, height) == [c EXCEPT !.payoutsInfo = {p \in @ : p[1] # height - 1}]

UndoPayoutsInfo(c, height) == [c EXCEPT !.payoutsInfo = {p \in @ : p[1] # height}]

\* Bound: no fork branches off more than MaxUndoDepth + 1 blocks below the
\* highest tip there has been.  The code has no such limit, but keeps the
\* undo records that a deeper one would need no longer than this.
WithinUndoDepth == TipHeight >= peak - MaxUndoDepth

\* BettingUndo up to the transactions.
BeginDisconnect ==
    /\ mode = "idle"
    /\ Len(chain) > 1
    /\ WithinUndoDepth
    /\ LET ids    == chain[Len(chain) - 1].vResultIDs
           height == TipHeight
           txs    == Last(chain).txs
           undone == UndoQGBetPayouts(UndoPLBetPayouts(view, ids, height), height)
       IN  IF height > V4Start /\ ~FieldUndoDecodes(undone, ids, height)
           THEN Abort
           ELSE /\ mode' = "disconnect"
                /\ cache' = UndoPayoutsInfo(undone, height)
                /\ blk' = [Block(Last(chain).time, Last(chain).proof, Last(chain).payouts)
                             EXCEPT !.txs = txs, !.vResultIDs = Last(chain).vResultIDs]
                /\ pos' = [tx |-> Len(txs), out |-> IF txs = <<>> THEN 0 ELSE Len(Last(txs).outs)]
                /\ UNCHANGED <<view, chain, peak>>

\* Fault: LastHeight is left as it is.
EndDisconnectKeepsHeight ==
    /\ mode = "disconnect"
    /\ pos.tx = 0
    /\ view' = cache
    /\ chain' = Front(chain)
    /\ mode' = "idle"
    /\ blk' = NoBlock
    /\ pos' = [tx |-> 0, out |-> 0]
    /\ UNCHANGED <<cache, peak>>

EndDisconnect ==
    /\ mode = "disconnect"
    /\ pos.tx = 0
    /\ LET done == [cache EXCEPT !.lastHeight = TipHeight - 1]
       IN  view' = done /\ cache' = done
    /\ chain' = Front(chain)
    /\ mode' = "idle"
    /\ blk' = NoBlock
    /\ pos' = [tx |-> 0, out |-> 0]
    /\ UNCHANGED peak

-----------------------------------------------------------------------------
\* ProcessBettingTx and UndoBettingTx, by the part of the system that they
\* belong to.

PeerlessStep ==
    \/ ProcessPlBet        \/ UndoPeerlessBet("plBet")
    \/ ProcessPlParlayBet  \/ UndoPeerlessBet("plParlayBet")
    \/ ProcessMapping      \/ UndoMapping
    \/ ProcessPlEvent      \/ UndoPlEvent
    \/ ProcessPlResult     \/ UndoPlResult
    \/ ProcessPlZeroing    \/ UndoPlZeroing
    \/ \E type \in PlUpdates : ProcessPlUpdate(type) \/ UndoPlUpdate(type)

FieldStep ==
    \/ ProcessFBet         \/ UndoFieldBet("fBet")
    \/ ProcessFParlayBet   \/ UndoFieldBet("fParlayBet")
    \/ ProcessFEvent       \/ UndoFEvent
    \/ ProcessFResult      \/ UndoFResult
    \/ \E type \in FieldUpdates : ProcessFUpdate(type) \/ UndoFUpdate(type)

GamesStep ==
    \/ ProcessCgBet        \/ UndoCgBet
    \/ ProcessQgBet        \/ UndoQgBet
    \/ ProcessCgEvent      \/ UndoCgEvent
    \/ ProcessCgResult     \/ UndoCgResult

Connect ==
    \/ \E time \in BlockTimes, proof \in Proofs : BeginConnect(time, proof)
    \/ RejectBlock
    \/ \E tx \in Txs : TakeTx(tx)
    \/ EndConnect

Disconnect == BeginDisconnect \/ EndDisconnect

Next == Connect \/ Disconnect \/ SkipOutput \/ PeerlessStep \/ FieldStep \/ GamesStep

Spec == Init /\ [][Next]_vars

-----------------------------------------------------------------------------
\* Properties.

IsSeq(s) == s \in Seq({s[i] : i \in DOMAIN s})

\* A position in the block: connecting is at or past an output of the last
\* transaction, disconnecting at an output or in front of them all.
PosOK ==
    /\ pos = [tx |-> pos.tx, out |-> pos.out]
    /\ mode = "connect" =>
         /\ pos.tx = Len(blk.txs)
         /\ pos.tx > 0 => pos.out \in 1 .. Len(Tx.outs) + 1
    /\ mode = "disconnect" =>
         /\ pos.tx \in 0 .. Len(blk.txs)
         /\ pos.tx > 0 => pos.out \in 1 .. Len(Tx.outs)

(* The shape of the state.  The part that could go wrong is the position:
   ProcessBettingTx and UndoBettingTx never leave the outputs of a block. *)
TypeOK ==
    /\ IsView(view) /\ IsView(cache)
    /\ IsSeq(chain) /\ chain # <<>>
    /\ \A i \in DOMAIN chain : chain[i].txs \in Seq(Txs)
    /\ mode \in {"idle", "connect", "disconnect", "failed"}
    /\ blk = [f \in {"txs", "time", "proof", "vResultIDs", "payouts"} |-> blk[f]]
    /\ blk.txs \in Seq(Txs)
    /\ peak \in Nat
    /\ PosOK

(* The databases know how far they are: LastHeight is the height of the tip
   however blocks come, fail and go, so that the height mismatch that makes
   ConnectBlock abort the node never happens (SetLastHeight). *)
HeightsAgree == view.lastHeight = TipHeight /\ TipHeight <= peak

\* payoutHeight of an open bet is a leftover that nothing reads.
Reset(bets) == [k \in DOMAIN bets |->
    IF bets[k].completed THEN bets[k] ELSE [bets[k] EXCEPT !.payoutHeight = 0]]

\* What the databases say, undo records aside: those are pruned.
Content(v) == [v EXCEPT !.undos = <<>>, !.bets = Reset(@), !.fieldBets = Reset(@)]

(* Disconnecting is the exact inverse of connecting: whatever was connected
   and disconnected on the way, between blocks bettingsView holds what it
   held when the current tip was first connected (DisconnectTip, BettingUndo). *)
Restored == mode = "idle" => Content(view) = Content(Last(chain).after)

(* No assertion fails and no undo gives up: a reorganisation within
   MaxUndoDepth always finds the records it needs, and no output finds one
   that it did not leave (SaveBettingUndo, UndoEventChanges, PruneOlderUndos). *)
NeverFails == mode # "failed"

\* Where the chain pays the bet with key k: block and output.
Payments(k) == {p \in UNION {{i} \X DOMAIN chain[i].payouts : i \in DOMAIN chain} :
                   LET out == chain[p[1]].payouts[p[2]] IN out.to = "player" /\ out.key = k}

PaidKeys == {p.key : p \in {q \in UNION {ToSet(chain[i].payouts) : i \in DOMAIN chain} : q.to = "player"}}

(* The active chain pays no bet twice, whatever results and reorganisations
   there are (the completed marks of GetPLBetPayoutsV3 and the others). *)
PaidOnce == \A k \in PaidKeys : Cardinality(Payments(k)) = 1

(* A bet is marked as paid exactly if the chain pays it, with the amount and
   at the height that the bet records: the databases and the coinstake
   outputs never tell different stories (SetCompleted, UndoPLBetPayouts). *)
MarksMatchPayments ==
    mode = "idle" =>
        \A k \in DOMAIN view.bets :
            LET bet == view.bets[k]
            IN  /\ (bet.completed /\ bet.payout > 0) <=> Payments(k) # {}
                /\ \A p \in Payments(k) :
                     /\ chain[p[1]].payouts[p[2]].amount = bet.payout
                     /\ BaseHeight + p[1] - 1 = bet.payoutHeight

(* A bet is settled at the odds that stood at the end of the block before
   it, even if its own block changes them first (ProcessBettingTx reads the
   locked event from bettingsView, not from the cache). *)
OddsFromBlockBefore ==
    \A k \in {x \in DOMAIN cache.bets : x[1] > BaseHeight} : \A i \in DOMAIN cache.bets[k].legs :
        cache.bets[k].locked[i] =
            chain[k[1] - BaseHeight].after.events[cache.bets[k].legs[i].event].info

\* The bets of v with a leg on this outcome.
BetsOn(v, e, outcome) ==
    {k \in DOMAIN v.bets : \E i \in DOMAIN v.bets[k].legs :
        v.bets[k].legs[i].event = e /\ v.bets[k].legs[i].outcome = outcome}

(* The counters of an event equal the number of bets in the database, also
   after bets were undone in a different order than odds were changed: the
   undo record of an odds change holds the counters too (UndoEventChanges). *)
CountersMatchBets ==
    mode = "idle" =>
        \A e \in DOMAIN view.events, o \in Outcomes :
            view.events[e].bets[o] = Cardinality(BetsOn(view, e, o))

(* No bet is forgotten: once all its events have results, none of them
   closed, in blocks below the tip, the bet is completed. *)
DueBetsSettled ==
    mode = "idle" /\ Len(chain) > 1 =>
        LET before == chain[Len(chain) - 1].after
        IN  \A k \in DOMAIN view.bets :
                (/\ k[1] < TipHeight
                 /\ \A i \in DOMAIN view.bets[k].legs :
                      LET e == view.bets[k].legs[i].event
                      IN  e \in DOMAIN before.results /\ before.results[e].nResultType # "eventClosed")
                => view.bets[k].completed

(* Every undo record belongs to an output of the active chain: one that
   stayed behind would abort the node when its transaction is mined again
   (SaveBettingUndo, EraseBettingUndo). *)
UndosOfTheChain ==
    mode = "idle" =>
        \A u \in DOMAIN view.undos :
            \E i \in DOMAIN chain :
                /\ BaseHeight + i - 1 = view.undos[u].height
                /\ \E tx \in ToSet(chain[i].txs) : tx.id = u[1] /\ u[2] \in DOMAIN tx.outs

(* The chain can always be extended: everything the next block is expected
   to pay is something IsBlockPayoutsValid finds in it (ExtractPayouts). *)
NextBlockPossible ==
    mode = "idle" =>
        AllCount(GetBettingPayouts(view, Last(chain), TipHeight + 1).payouts)

\* Bets of v with a leg on this contender and market.
FieldBetsOn(v, leg) == {k \in DOMAIN v.fieldBets : \E i \in DOMAIN v.fieldBets[k].legs :
                          v.fieldBets[k].legs[i] = leg}

(* The bet counters of every contender and market equal the number of field
   bets in the database, whichever updates of the event came between a bet
   and its undo (the fBet handlers of ProcessBettingTx and UndoBettingTx). *)
FieldCountersMatchBets ==
    mode = "idle" =>
        \A e \in DOMAIN view.fieldEvents : \A c \in DOMAIN view.fieldEvents[e].contenders :
            \A o \in FieldOutcomes :
                view.fieldEvents[e].contenders[c].bets[o] =
                    Cardinality(FieldBetsOn(view, [event |-> e, outcome |-> o, contender |-> c]))

(* The odds of a field event are always the ones CalcOdds gives for its
   present inputs: no sequence of updates, zeroings, bets and undos leaves
   odds behind that belong to other inputs or to a closed market. *)
FieldOddsFresh ==
    \A e \in DOMAIN cache.fieldEvents : CalcOdds(cache.fieldEvents[e]) = cache.fieldEvents[e]

(* What the chain pays a field bet is what the bet records as its payout,
   and a bet that is paid is completed (GetFieldBetPayoutsV4). *)
FieldPaidAreMarked ==
    mode = "idle" =>
        \A k \in DOMAIN view.fieldBets : \A p \in Payments(k) :
            /\ view.fieldBets[k].completed
            /\ chain[p[1]].payouts[p[2]].amount = view.fieldBets[k].payout

LottoTypes == {"chainGamesPayout", "chainGamesRefund", "chainGamesReward"}

LottoPaid == FoldLeft(LAMBDA sum, block :
                 sum + FoldLeft(LAMBDA s, p : IF p.type \in LottoTypes THEN s + p.amount ELSE s,
                                0, block.payouts), 0, chain)

(* The lotto never mints: what it pays out over the whole chain is covered by
   the fees of those who entered (GetCGLottoBetPayoutsV3). *)
LottoWithinPot ==
    mode = "idle" =>
        LottoPaid <= MapThenSumSet(LAMBDA k : view.chainGamesLottoBets[k].amount,
                                   DOMAIN view.chainGamesLottoBets)
=============================================================================
